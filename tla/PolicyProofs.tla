---------------------------- MODULE PolicyProofs ----------------------------
(* Proofs about evaluate_policy for every receipt and all valid settings, about the settings
   that a configuration can bring into force, and about the runs decided by them. *)
EXTENDS PolicyConfigs, SequenceTheorems, WellFoundedInduction, TLAPS

(* The chain always has a branch that decides, the first that applies. *)
LEMMA BranchIsFirst ==
    ASSUME NEW r \in Receipt, NEW s \in Settings
    PROVE  /\ Branch(r, s) \in 1..6
           /\ Applies(Branch(r, s), r, s)
           /\ \A j \in 1..6 : Applies(j, r, s) => Branch(r, s) <= j
<1> DEFINE First(i) == Applies(i, r, s) /\ \A j \in 1..6 : Applies(j, r, s) => i <= j
<1>1. Applies(6, r, s) BY DEF Applies
<1>2. \E i \in 1..6 : First(i)
  <2>1. CASE Applies(1, r, s) BY <2>1
  <2>2. CASE ~Applies(1, r, s) /\ Applies(2, r, s) BY <2>2
  <2>3. CASE ~Applies(1, r, s) /\ ~Applies(2, r, s) /\ Applies(3, r, s) BY <2>3
  <2>4. CASE /\ ~Applies(1, r, s) /\ ~Applies(2, r, s) /\ ~Applies(3, r, s)
             /\ Applies(4, r, s)
    BY <2>4
  <2>5. CASE /\ ~Applies(1, r, s) /\ ~Applies(2, r, s) /\ ~Applies(3, r, s)
             /\ ~Applies(4, r, s) /\ Applies(5, r, s)
    BY <2>5
  <2>6. CASE /\ ~Applies(1, r, s) /\ ~Applies(2, r, s) /\ ~Applies(3, r, s)
             /\ ~Applies(4, r, s) /\ ~Applies(5, r, s)
    BY <1>1, <2>6
  <2>7. QED BY <2>1, <2>2, <2>3, <2>4, <2>5, <2>6
<1>3. QED BY <1>2 DEF Branch

(* What each branch decides. *)
LEMMA ChosenValues ==
    ASSUME NEW s \in Settings
    PROVE  /\ Chosen(1, s) = "block" /\ Chosen(6, s) = "allow"
           /\ Chosen(2, s) = s.failed_tests /\ Chosen(2, s) \in {"review", "block"}
           /\ \A i \in 1..6 : Chosen(i, s) \in Decisions
<1>1. /\ s.failed_tests \in {"review", "block"}
      /\ s.code_without_passing_tests \in Decisions
      /\ s.network_access \in Decisions
      /\ s.large_protected_branch_change \in Decisions
  BY DEF Settings
<1>2. /\ Chosen(1, s) = "block" /\ Chosen(6, s) = "allow"
      /\ Chosen(2, s) = s.failed_tests
      /\ Chosen(3, s) = s.code_without_passing_tests
      /\ Chosen(4, s) = s.network_access
      /\ Chosen(5, s) = s.large_protected_branch_change
  BY DEF Chosen
<1>3. \A i \in 1..6 : i = 1 \/ i = 2 \/ i = 3 \/ i = 4 \/ i = 5 \/ i = 6 OBVIOUS
<1>4. QED BY <1>1, <1>2, <1>3 DEF Decisions

LEMMA RankValues ==
    /\ Rank("allow") = 0 /\ Rank("review") = 1 /\ Rank("block") = 2
    /\ \A d \in Decisions : Rank(d) \in 0..2
BY DEF Rank, Decisions

(* Under descending settings an earlier branch is at least as strict. *)
LEMMA EarlierIsStricter ==
    ASSUME NEW s \in Settings, Descending(s), NEW i \in 1..6, NEW j \in 1..6, i <= j
    PROVE  Rank(Chosen(j, s)) <= Rank(Chosen(i, s))
<1> DEFINE R(n) == Rank(Chosen(n, s))
<1>1. \A n \in 1..6 : R(n) \in 0..2 BY ChosenValues, RankValues
<1>2. R(2) <= R(1) BY <1>1, ChosenValues, RankValues
<1>3. R(3) <= R(2) /\ R(4) <= R(3) /\ R(5) <= R(4) BY DEF Chosen, Descending
<1>4. R(6) <= R(5) BY <1>1, ChosenValues, RankValues
<1> HIDE DEF R
<1>5. R(j) <= R(i)
  <2>1. \A n \in 1..6 : R(n) \in Int BY <1>1
  <2>2. QED BY <2>1, <1>2, <1>3, <1>4
<1>6. QED BY <1>5 DEF R

(* More findings make every rule apply that applied before. *)
LEMMA FindingsAccumulate ==
    ASSUME NEW s \in Settings, NEW a \in Receipt, NEW b \in Receipt, AtLeast(a, b),
           NEW i \in 1..6, Applies(i, a, s)
    PROVE  Applies(i, b, s)
<1>1. CASE i = 1 BY <1>1 DEF Applies, AtLeast
<1>2. CASE i = 2 BY <1>2 DEF Applies, AtLeast
<1>3. CASE i = 3 BY <1>3 DEF Applies, AtLeast
<1>4. CASE i = 4 BY <1>4 DEF Applies, AtLeast
<1>5. CASE i = 5
  <2>1. a.protected /\ a.lines > s.large_change_threshold BY <1>5 DEF Applies
  <2>2. b.protected /\ b.lines >= a.lines BY <2>1 DEF AtLeast, Receipt
  <2>3. a.lines \in Int /\ b.lines \in Int /\ s.large_change_threshold \in Int
    BY DEF Receipt, Settings, Thresholds
  <2>4. b.lines > s.large_change_threshold BY <2>1, <2>2, <2>3
  <2>5. QED BY <1>5, <2>2, <2>4 DEF Applies
<1>6. CASE i = 6 BY <1>6 DEF Applies
<1>7. QED BY <1>1, <1>2, <1>3, <1>4, <1>5, <1>6

(* evaluate_policy is monotone under settings like the default ones: a receipt that
   reports at least the findings of another is never decided more softly. *)
THEOREM Monotone ==
    ASSUME NEW s \in Settings, Descending(s), NEW a \in Receipt, NEW b \in Receipt,
           AtLeast(a, b)
    PROVE  Rank(Decide(a, s)) <= Rank(Decide(b, s))
<1>1. Decide(a, s) \in Decisions BY BranchIsFirst, ChosenValues DEF Decide, Decisions
<1>2. CASE OverrideUnapproved(b)
  <2>1. Decide(b, s) = "block" BY <1>2 DEF Decide
  <2>2. QED BY <1>1, <2>1, RankValues
<1>3. CASE ~OverrideUnapproved(b)
  <2>1. ~OverrideUnapproved(a) BY <1>3 DEF AtLeast
  <2>2. Branch(a, s) \in 1..6 /\ Branch(b, s) \in 1..6 /\ Applies(Branch(a, s), a, s)
    BY BranchIsFirst
  <2>3. Applies(Branch(a, s), b, s) BY <2>2, FindingsAccumulate
  <2>4. Branch(b, s) <= Branch(a, s) BY <2>2, <2>3, BranchIsFirst
  <2>5. Rank(Chosen(Branch(a, s), s)) <= Rank(Chosen(Branch(b, s), s))
    BY <2>2, <2>4, EarlierIsStricter
  <2>6. QED BY <1>3, <2>1, <2>5 DEF Decide
<1>4. QED BY <1>2, <1>3

(* The default settings are descending, so Monotone is about what runs without a policy
   configuration get. *)
THEOREM DefaultIsDescending == DefaultSettings \in Settings /\ Descending(DefaultSettings)
BY RankValues DEF DefaultSettings, Settings, Thresholds, Descending, Decisions

(* The score of a branch lies in the range of its decision. *)
LEMMA ScoreRange ==
    ASSUME NEW r \in Receipt, NEW s \in Settings
    PROVE  /\ Decide(r, s) = "allow" => Risk(r, s) = 12
           /\ Decide(r, s) = "review" => Risk(r, s) \in 55..70
           /\ Decide(r, s) = "block" => Risk(r, s) \in 85..100
<1> DEFINE i == Branch(r, s)
           d == Chosen(i, s)
<1>1. i \in 1..6 /\ d \in Decisions BY BranchIsFirst, ChosenValues
<1>2. /\ i = 1 => d = "block"
      /\ i = 2 => d # "allow"
      /\ i = 6 => d = "allow"
  BY ChosenValues
<1>3. CASE OverrideUnapproved(r) BY <1>3 DEF Decide, Risk
<1>4. CASE ~OverrideUnapproved(r)
  <2>1. Decide(r, s) = d /\ Risk(r, s) = Score(i, d) BY <1>4 DEF Decide, Risk
  <2> HIDE DEF i, d
  <2>2. /\ d = "allow" => Score(i, d) = 12
        /\ d = "review" => Score(i, d) \in 55..70
        /\ d = "block" => Score(i, d) \in 85..100
    <3>1. CASE d = "allow" BY <1>1, <1>2, <3>1 DEF Score
    <3>2. CASE d = "block" BY <1>1, <1>2, <3>2 DEF Score
    <3>3. CASE d = "review" BY <1>1, <1>2, <3>3 DEF Score
    <3>4. QED BY <1>1, <3>1, <3>2, <3>3 DEF Decisions
  <2>3. QED BY <2>1, <2>2
<1>5. QED BY <1>3, <1>4
-----------------------------------------------------------------------------
(* PolicyGrowth *)

LEMMA ChangesAreReceipts == Change \subseteq Receipt
BY LinesAreNumbers DEF Change, Receipt

LEMMA GrownAreReceipts == \A r \in Receipt : Grown(r) \subseteq Receipt
<1> SUFFICES ASSUME NEW r \in Receipt, NEW g \in Grown(r) PROVE g \in Receipt OBVIOUS
<1>1. CASE \E f \in File : g = [r EXCEPT !.files = @ \cup {f}]
  <2>1. PICK f \in File : g = [r EXCEPT !.files = @ \cup {f}] BY <1>1
  <2>2. r.files \cup {f} \in FileSets BY DEF Receipt, FileSets
  <2>3. QED BY <2>1, <2>2 DEF Receipt
<1>2. CASE \E n \in Lines : g = [r EXCEPT !.lines = n] BY <1>2, LinesAreNumbers DEF Receipt
<1>3. CASE \E outcome \in Outcomes : g = [r EXCEPT !.tests = @ \cup {outcome}] BY <1>3 DEF Receipt
<1>4. CASE g \in {[r EXCEPT !.network = TRUE], [r EXCEPT !.protected = TRUE],
                  [r EXCEPT !.override = TRUE], [r EXCEPT !.approver = TRUE]}
  BY <1>4 DEF Receipt
<1>5. QED BY <1>1, <1>2, <1>3, <1>4 DEF Grown

(* "secret detection is never configurable -- always block" (evaluate_policy): no setting
   and nothing else in the receipt softens a detected secret. *)
THEOREM SecretsBlock ==
    ASSUME NEW s \in Settings, NEW r \in Receipt, \E f \in r.files : f.secret
    PROVE  Decide(r, s) = "block"
<1>1. Applies(1, r, s) BY DEF Applies
<1>2. Branch(r, s) = 1 BY <1>1, BranchIsFirst
<1>3. QED BY <1>2, ChosenValues DEF Decide

(* Every receipt that is not allowed is told a reason, and no other. *)
LEMMA ReasonsAreGiven == \A s \in Settings : GivesReasons(s)
<1> SUFFICES ASSUME NEW s \in Settings, NEW r \in Change
             PROVE  Decide(r, s) = "allow" <=> Violations(r, s) = {}
  BY DEF GivesReasons
<1> DEFINE i == Branch(r, s)
           named == {Code[j] : j \in {j \in 1..5 : j = i /\ (i <= 2 \/ Chosen(i, s) # "allow")}}
<1>1. r \in Receipt BY ChangesAreReceipts
<1>2. i \in 1..6 BY <1>1, BranchIsFirst
<1>3. /\ i = 1 => Chosen(i, s) = "block"
      /\ i = 2 => Chosen(i, s) # "allow"
      /\ i = 6 => Chosen(i, s) = "allow"
  BY <1>1, ChosenValues
<1>4. named = {} <=> Chosen(i, s) = "allow"
  <2>1. CASE Chosen(i, s) = "allow"
    <3>1. {j \in 1..5 : j = i /\ (i <= 2 \/ Chosen(i, s) # "allow")} = {} BY <1>2, <1>3, <2>1
    <3>2. QED BY <2>1, <3>1
  <2>2. CASE Chosen(i, s) # "allow"
    <3>1. i \in 1..5 BY <1>2, <1>3, <2>2
    <3>2. Code[i] \in named BY <3>1, <2>2
    <3>3. QED BY <2>2, <3>2
  <2>3. QED BY <2>1, <2>2
<1>5. Violations(r, s) = named \cup {c \in {"OVERRIDE_WITHOUT_APPROVER"} : OverrideUnapproved(r)}
  BY DEF Violations
<1> HIDE DEF i, named
<1>6. CASE OverrideUnapproved(r)
  <2>1. "OVERRIDE_WITHOUT_APPROVER" \in Violations(r, s) BY <1>5, <1>6
  <2>2. Decide(r, s) = "block" BY <1>6 DEF Decide
  <2>3. QED BY <2>1, <2>2
<1>7. CASE ~OverrideUnapproved(r)
  <2>1. Violations(r, s) = named BY <1>5, <1>7
  <2>2. Decide(r, s) = Chosen(i, s) BY <1>7 DEF Decide, i
  <2>3. QED BY <1>4, <2>1, <2>2
<1>8. QED BY <1>6, <1>7

(* A new finding softens the decision only by a rule that is set softer than a later one:
   what applied still applies, so the decision can only move to an earlier rule. *)
LEMMA FindingsNeverSoften == \A s \in Settings : NeverSoftens(s)
<1> SUFFICES ASSUME NEW s \in Settings, NEW r \in Change, NEW g \in Grown(r), AtLeast(r, g),
                    ~(Rank(Decide(r, s)) <= Rank(Decide(g, s)))
             PROVE  Overshadowed(r, g, s)
  BY DEF NeverSoftens
<1> DEFINE i == Branch(g, s)
           j == Branch(r, s)
<1>1. r \in Receipt /\ g \in Receipt BY ChangesAreReceipts, GrownAreReceipts
<1>2. /\ i \in 1..6 /\ Applies(i, g, s) /\ \A k \in 1..6 : Applies(k, g, s) => i <= k
      /\ j \in 1..6 /\ Applies(j, r, s) /\ \A k \in 1..6 : Applies(k, r, s) => j <= k
  BY <1>1, BranchIsFirst
<1> HIDE DEF i, j
<1>3. Decide(r, s) \in Decisions /\ Decide(g, s) \in Decisions
  BY <1>2, ChosenValues DEF Decide, Decisions, i, j
<1>4. ~OverrideUnapproved(g) /\ ~OverrideUnapproved(r)
  <2>1. Decide(g, s) # "block" BY <1>3, RankValues
  <2>2. QED BY <2>1 DEF Decide, AtLeast
<1>5. Decide(g, s) = Chosen(i, s) /\ Decide(r, s) = Chosen(j, s)
  BY <1>4 DEF Decide, i, j
<1>6. Rank(Chosen(i, s)) < Rank(Chosen(j, s)) BY <1>3, <1>5, RankValues
<1>7. j # 6 BY <1>2, <1>6, ChosenValues, RankValues
<1>8. Applies(j, g, s) BY <1>1, <1>2, FindingsAccumulate
<1>9. i < j
  <2>1. i <= j BY <1>2, <1>8
  <2>2. \A n \in 0..2 : ~(n < n) OBVIOUS
  <2>3. i # j BY <1>3, <1>5, <1>6, <2>2, RankValues
  <2>4. QED BY <1>2, <2>1, <2>3
<1>10. i \in 1..5 /\ j \in 1..5 BY <1>2, <1>7, <1>9
<1>11. \A k \in 1..j : Applies(k, r, s) <=> k = j BY <1>2, <1>10
<1>12. QED BY <1>2, <1>6, <1>9, <1>10, <1>11 DEF Overshadowed

(* The risk score, a separate table in the code, never contradicts the decision: of two
   receipts under any two settings the harder decided one has the higher score. *)
THEOREM RiskAgreesWithDecision ==
    \A s, t \in Settings, r, x \in Receipt :
        Rank(Decide(r, s)) < Rank(Decide(x, t)) => Risk(r, s) < Risk(x, t)
<1> SUFFICES ASSUME NEW s \in Settings, NEW t \in Settings, NEW r \in Receipt, NEW x \in Receipt,
                    Rank(Decide(r, s)) < Rank(Decide(x, t))
             PROVE  Risk(r, s) < Risk(x, t)
  OBVIOUS
<1> DEFINE d == Decide(r, s)
           e == Decide(x, t)
           low == Risk(r, s)
           high == Risk(x, t)
<1>1. d \in Decisions /\ e \in Decisions BY BranchIsFirst, ChosenValues DEF Decide, Decisions
<1>2. (d = "allow" => low = 12) /\ (d = "review" => low \in 55..70) /\ (d = "block" => low \in 85..100)
  BY ScoreRange
<1>3. (e = "allow" => high = 12) /\ (e = "review" => high \in 55..70) /\ (e = "block" => high \in 85..100)
  BY ScoreRange
<1>4. Rank(d) < Rank(e) OBVIOUS
<1> SUFFICES low < high OBVIOUS
<1> HIDE DEF d, e, low, high
<1>5. \/ d = "allow" /\ e \in {"review", "block"}
      \/ d = "review" /\ e = "block"
  <2>1. /\ d = "allow" \/ d = "review" \/ d = "block"
        /\ e = "allow" \/ e = "review" \/ e = "block"
    BY <1>1 DEF Decisions
  <2>2. /\ d = "allow" => Rank(d) = 0
        /\ d = "review" => Rank(d) = 1
        /\ d = "block" => Rank(d) = 2
        /\ e = "allow" => Rank(e) = 0
        /\ e = "review" => Rank(e) = 1
        /\ e = "block" => Rank(e) = 2
    BY RankValues
  <2>3. QED BY <1>4, <2>1, <2>2
<1>6. QED BY <1>2, <1>3, <1>5
-----------------------------------------------------------------------------
(* PolicyConfigs *)

(* Only settings that administrators choose from get into a configuration. *)
OfferedOnly ==
    /\ \E rows : configs \in Seq(rows)
    /\ \A i \in Rows : "settings" \in DOMAIN configs[i] /\ configs[i].settings \in Offered
    /\ create = [c \in Creates |-> create[c]]
    /\ \A c \in Creates :
          /\ {"phase", "settings"} \subseteq DOMAIN create[c]
          /\ create[c].phase = "read" => create[c].settings \in Offered

LEMMA CommitsKeepOffered ==
    ASSUME NEW c \in Creates, OfferedOnly, CreateCommit(c) PROVE OfferedOnly'
<1> DEFINE row == [repo |-> create[c].repo, version |-> create[c].version, active |-> TRUE,
                   settings |-> create[c].settings, stamp |-> create[c].stamp]
<1>1. PICK rows : configs \in Seq(rows) BY DEF OfferedOnly
<1>2. configs' = Append(configs, row) BY DEF CreateCommit
<1>3. row.settings \in Offered /\ "settings" \in DOMAIN row BY DEF CreateCommit, OfferedOnly
<1> HIDE DEF row
<1>4. configs' \in Seq(rows \cup {row}) BY <1>1, <1>2
<1>5. \A i \in Rows' : "settings" \in DOMAIN configs'[i] /\ configs'[i].settings \in Offered
  <2>1. Len(configs') = Len(configs) + 1 /\ Len(configs) \in Nat BY <1>1, <1>2
  <2> SUFFICES ASSUME NEW i \in Rows'
               PROVE  "settings" \in DOMAIN configs'[i] /\ configs'[i].settings \in Offered
    OBVIOUS
  <2>2. CASE i \in Rows
    <3>1. configs'[i] = configs[i] BY <1>1, <1>2, <2>2 DEF Rows
    <3>2. QED BY <2>2, <3>1 DEF OfferedOnly
  <2>3. CASE i = Len(configs) + 1
    <3>1. configs'[i] = row BY <1>1, <1>2, <2>3
    <3>2. QED BY <1>3, <3>1
  <2>4. QED BY <2>1, <2>2, <2>3 DEF Rows
<1>6. create' = [create EXCEPT ![c].phase = "done"] BY DEF CreateCommit
<1>7. QED BY <1>4, <1>5, <1>6 DEF OfferedOnly

LEMMA DeactivationsKeepOffered ==
    ASSUME NEW d \in Deactivates, OfferedOnly, DeactivateCommit(d) PROVE OfferedOnly'
<1> DEFINE n == deactivate[d].config
           row == [configs[n] EXCEPT !.active = FALSE]
<1>1. PICK rows : configs \in Seq(rows) BY DEF OfferedOnly
<1>2. configs' = [configs EXCEPT ![n] = row] BY DEF DeactivateCommit
<1>3. n \in Rows => "settings" \in DOMAIN row /\ row.settings \in Offered BY DEF OfferedOnly
<1> HIDE DEF row, n
<1>4. configs' \in Seq(rows \cup {row}) /\ Len(configs') = Len(configs)
  <2>1. configs \in Seq(rows \cup {row}) BY <1>1
  <2>2. CASE n \in 1..Len(configs) BY <1>2, <2>1, <2>2, ExceptSeq
  <2>3. CASE n \notin 1..Len(configs)
    <3>1. DOMAIN configs = 1..Len(configs) BY <1>1
    <3>2. configs' = configs BY <1>1, <1>2, <2>3, <3>1
    <3>3. QED BY <2>1, <3>2
  <2>4. QED BY <2>2, <2>3
<1>5. \A i \in Rows' : configs'[i] = IF i = n THEN row ELSE configs[i] BY <1>1, <1>2, <1>4 DEF Rows
<1>6. Rows' = Rows BY <1>4 DEF Rows
<1>7. \A i \in Rows' : "settings" \in DOMAIN configs'[i] /\ configs'[i].settings \in Offered
  BY <1>3, <1>5, <1>6 DEF OfferedOnly
<1>8. create' = create BY DEF DeactivateCommit
<1>9. QED BY <1>4, <1>7, <1>8 DEF OfferedOnly

(* A configuration's settings are among those offered, whichever handlers interleave. *)
LEMMA ConfigsAreOffered == Spec => []OfferedOnly
<1>1. Init => OfferedOnly BY DEF Init, OfferedOnly, Rows
<1>2. OfferedOnly /\ [Next]_vars => OfferedOnly'
  <2> SUFFICES ASSUME OfferedOnly, [Next]_vars PROVE OfferedOnly' OBVIOUS
  <2> DEFINE Kept == create' = create /\ configs' = configs
  <2>1. Kept => OfferedOnly' BY DEF OfferedOnly, Rows
  <2>2. ASSUME NEW c \in Creates, NEW p \in Processes, NEW repo \in Repos \cup {None},
               NEW s \in Offered, CreateRead(c, p, repo, s)
        PROVE  OfferedOnly'
    <3>1. configs' = configs BY <2>2 DEF CreateRead, CreateReads
    <3>2. PICK v, t : create' = [create EXCEPT ![c] = [phase |-> "read", proc |-> p, repo |-> repo,
                                                       settings |-> s, version |-> v, stamp |-> t]]
      BY <2>2 DEF CreateRead, CreateReads
    <3>3. QED BY <3>1, <3>2 DEF OfferedOnly, Rows
  <2>3. ASSUME NEW c \in Creates, CreateCommit(c) PROVE OfferedOnly' BY <2>3, CommitsKeepOffered
  <2>4. ASSUME NEW c \in Creates, CreateFails(c) PROVE OfferedOnly'
    <3>1. configs' = configs /\ create' = [create EXCEPT ![c].phase = "error"]
      BY <2>4 DEF CreateFails
    <3>2. QED BY <3>1 DEF OfferedOnly, Rows
  <2>5. ASSUME NEW d \in Deactivates, DeactivateCommit(d) PROVE OfferedOnly'
    BY <2>5, DeactivationsKeepOffered
  <2>6. ASSUME NEW d \in Deactivates, NEW i \in Rows, DeactivateRead(d, i) PROVE OfferedOnly'
    BY <2>1, <2>6 DEF DeactivateRead
  <2>7. ASSUME NEW r \in Ingests, NEW p \in Processes, NEW repo \in Repos, NEW x \in Receipts,
               NEW src \in Sources \cup {None}, IngestLookup(r, p, repo, x, src)
        PROVE  OfferedOnly'
    BY <2>1, <2>7 DEF IngestLookup, IngestLooksUp
  <2>8. ASSUME NEW r \in Ingests, IngestSource(r) \/ IngestCommit(r) \/ IngestFails(r)
        PROVE  OfferedOnly'
    BY <2>1, <2>8 DEF IngestSource, IngestCommit, IngestFails
  <2>9. ASSUME NEW src \in Sources, CreateSource(src) \/ DisableSource(src) PROVE OfferedOnly'
    BY <2>1, <2>9 DEF CreateSource, DisableSource
  <2>10. CASE UNCHANGED vars BY <2>1, <2>10 DEF vars
  <2>11. QED
    BY <2>2, <2>3, <2>4, <2>5, <2>6, <2>7, <2>8, <2>9, <2>10 DEF Next
<1>3. QED BY <1>1, <1>2, PTL DEF Spec

(* So whatever is in force tells a reason for all it does not allow, ... *)
THEOREM ReasonsMatchDecisions == Spec => []AllowedMeansClean
<1>1. DefaultSettings \in Settings BY DefaultIsDescending
<1>2. OfferedOnly => AllowedMeansClean
  BY <1>1, OfferedAreValid, ReasonsAreGiven
  DEF OfferedOnly, AllowedMeansClean, InForce, GivingReasons
<1>3. QED BY <1>2, ConfigsAreOffered, PTL

(* ... and never answers further findings more softly, unless an administrator set an earlier
   rule softer than a later one and the findings bring it in. *)
THEOREM MoreFindingsNeverSoften == Spec => []NeverSofter
<1>1. DefaultSettings \in Settings BY DefaultIsDescending
<1>2. OfferedOnly => NeverSofter
  BY <1>1, OfferedAreValid, FindingsNeverSoften
  DEF OfferedOnly, NeverSofter, InForce, NeverSoftening
<1>3. QED BY <1>2, ConfigsAreOffered, PTL
-----------------------------------------------------------------------------
(* What a run was decided by, and, when there is one process, versions, lookups and
   last_seen_at. *)
OneProcess == \A p, q \in Processes : p = q

Run == [repo : Repos \cup {None}, config : Nat, snapshot : Settings \cup {None},
        decision : Decisions \cup {"none"}, source : Sources \cup {None}, stamp : Nat]
Underway == {"configured", "deciding"}

(* What a handler has read still exists. *)
RequestsFit ==
    /\ \A c \in Creates : create[c].phase = "read" =>
          create[c].settings \in Offered /\ create[c].version # 0 /\ create[c].proc \in Processes
    /\ \A d \in Deactivates : deactivate[d].phase = "read" => deactivate[d].config \in Rows
    /\ \A r \in Ingests : ingest[r].phase \in Underway \cup {"done"} =>
          /\ ingest[r].receipt \in Receipts /\ ingest[r].repo \in Repos /\ ingest[r].proc \in Processes
          /\ ingest[r].config # 0 =>
                ingest[r].config \in Rows /\ configs[ingest[r].config].repo = ingest[r].repo
    /\ \A r \in Ingests : ingest[r].phase # "done" => runs[r] = NoRun
    /\ \A r \in Ingests : runs[r].config # 0 => runs[r].config \in Rows

DisabledTold == \A src \in Sources : src \in disabled <=> sources[src].status = "disabled"

(* The event loop runs one handler at a time. *)
Alone ==
    /\ \A c \in Creates : create[c].phase = "read" => loop[create[c].proc] = c
    /\ \A r \in Ingests : ingest[r].phase \in Underway => loop[ingest[r].proc] = r
    /\ \A c \in Creates, r \in Ingests : ~(create[c].phase = "read" /\ ingest[r].phase \in Underway)

(* A configuration that is being created is newer than every row. *)
NewestLast ==
    /\ \A i \in Rows : configs[i].stamp < clock
    /\ \A c \in Creates : create[c].phase = "read" =>
          /\ create[c].stamp < clock
          /\ \A i \in Rows : configs[i].stamp < create[c].stamp
          /\ \A i \in RowsOf(create[c].repo) : configs[i].version < create[c].version

(* An ingest under way goes by the newest configuration of its repository. *)
LookupsHold ==
    \A r \in Ingests : ingest[r].phase \in Underway =>
        \A i \in ActiveOf(ingest[r].repo) :
            ingest[r].config # 0 /\ configs[i].stamp <= configs[ingest[r].config].stamp

(* A source was last seen by its newest run, and the ingest under way is newer. *)
SeenLast ==
    /\ \A r \in Ingests : runs[r].stamp <= clock
    /\ \A r \in Ingests : ingest[r].phase = "deciding" =>
          ingest[r].stamp <= clock /\ \A q \in Ingests : runs[q].stamp <= ingest[r].stamp
    /\ \A src \in Sources :
          /\ \A r \in Ingests : runs[r].source = src => runs[r].stamp <= sources[src].seen
          /\ sources[src].seen # 0 =>
                \E r \in Ingests : runs[r].source = src /\ runs[r].stamp = sources[src].seen

InTurn == Alone /\ VersionsNameConfigs /\ NewestLast /\ LookupsHold /\ SeenLast

Inductive == /\ TypeOK /\ runs \in [Ingests -> Run] /\ RequestsFit /\ SnapshotExplainsRun
             /\ DisabledTold /\ (OneProcess => InTurn)

(* max and ORDER BY ... LIMIT 1 over some of n rows find one. *)
LEMMA LatestExists ==
    ASSUME NEW n \in Nat, NEW f \in [1..n -> Nat], NEW T \in SUBSET (1..n), T # {}
    PROVE  \E i \in T : \A j \in T : f[j] <= f[i]
<1> DEFINE Latest(S) == \E i \in S : \A j \in S : f[j] <= f[i]
           Below(m) == T \cap 1..m
           Bad == {m \in Nat : m <= n /\ Below(m) # {} /\ ~Latest(Below(m))}
<1>1. Bad = {}
  <2> SUFFICES ASSUME Bad # {} PROVE FALSE OBVIOUS
  <2>1. Bad \subseteq Nat OBVIOUS
  <2>2. PICK x \in Bad : \A y \in Bad : ~(<<y, x>> \in OpToRel(<, Nat))
    BY <2>1, NatLessThanWellFounded, WFMin, Zenon
  <2>3. \A y \in Bad : ~(y < x) BY <2>1, <2>2, Zenon DEF OpToRel
  <2>4. x \in Nat /\ x <= n /\ x # 0 OBVIOUS
  <2> DEFINE y == x - 1
  <2>5. y \in Nat /\ y < x /\ y <= n BY <2>4
  <2>6. Below(x) = IF x \in T THEN Below(y) \cup {x} ELSE Below(y)
    <3>1. ASSUME NEW m \in 1..n PROVE m \in 1..x <=> (m \in 1..y \/ m = x)
      <4> HIDE DEF Bad
      <4>1. m \in Nat /\ y = x - 1 OBVIOUS
      <4> HIDE DEF y
      <4>2. QED BY <2>4, <2>5, <4>1
    <3>2. \A m : m \in Below(x) <=> (m \in Below(y) \/ (m = x /\ m \in T)) BY <2>4, <3>1
    <3> HIDE DEF Below
    <3>3. QED BY <3>2
  <2>7. Below(x) # {} /\ ~Latest(Below(x)) BY <2>2
  <2>8. Below(y) = {} \/ Latest(Below(y)) BY <2>3, <2>5
  <2>9. x \in T BY <2>6, <2>7, <2>8
  <2>10. Below(x) = Below(y) \cup {x} BY <2>6, <2>9
  <2>11. x \in 1..n /\ Below(y) \subseteq 1..n BY <2>4, <2>9
  <2> HIDE DEF Below, Bad, y
  <2>12. CASE Below(y) = {} BY <2>7, <2>10, <2>11, <2>12
  <2>13. CASE Latest(Below(y))
    <3>1. PICK i \in Below(y) : \A j \in Below(y) : f[j] <= f[i] BY <2>13
    <3>2. f[i] \in Nat /\ f[x] \in Nat /\ \A j \in Below(y) : f[j] \in Nat BY <2>11, <3>1
    <3>3. CASE f[x] <= f[i] BY <2>7, <2>10, <3>1, <3>2, <3>3
    <3>4. CASE f[i] < f[x]
      <4>1. \A j \in Below(x) : f[j] <= f[x] BY <2>10, <3>1, <3>2, <3>4
      <4>2. QED BY <2>7, <2>10, <4>1
    <3>5. QED BY <3>2, <3>3, <3>4
  <2>14. QED BY <2>8, <2>12, <2>13
<1>2. Below(n) = T OBVIOUS
<1> HIDE DEF Below, Latest
<1>3. Below(n) = {} \/ Latest(Below(n))
  <2>1. n <= n OBVIOUS
  <2>2. QED BY <1>1, <2>1
<1> HIDE DEF Bad
<1>4. Latest(T) BY <1>2, <1>3
<1>5. QED BY <1>4 DEF Latest

LEMMA RowsAreTyped ==
    ASSUME TypeOK
    PROVE  /\ Len(configs) \in Nat
           /\ \A i \in Rows : configs[i] \in Config
           /\ \A i \in Rows : configs[i].version \in Nat \ {0} /\ configs[i].stamp \in Nat
<1>1. configs \in Seq(Config) BY DEF TypeOK
<1>2. Len(configs) \in Nat /\ \A i \in 1..Len(configs) : configs[i] \in Config BY <1>1
<1>3. QED BY <1>2 DEF Rows, Config

(* _next_version returns a number that no row of the repository has, above all of them. *)
LEMMA NextVersionIsNew ==
    ASSUME TypeOK, NEW repo
    PROVE  /\ NextVersion(repo) \in Nat /\ NextVersion(repo) # 0
           /\ \A i \in RowsOf(repo) : configs[i].version < NextVersion(repo)
<1> DEFINE versions == {configs[i].version : i \in RowsOf(repo)}
           f == [i \in Rows |-> configs[i].version]
<1>1. Len(configs) \in Nat /\ RowsOf(repo) \subseteq Rows /\ f \in [Rows -> Nat]
  BY RowsAreTyped DEF RowsOf
<1>2. CASE versions = {}
  <2>1. NextVersion(repo) = 1 BY <1>2 DEF NextVersion
  <2>2. RowsOf(repo) = {} BY <1>2
  <2>3. QED BY <2>1, <2>2
<1>3. CASE versions # {}
  <2>1. PICK i \in RowsOf(repo) : \A j \in RowsOf(repo) : f[j] <= f[i]
    <3>1. RowsOf(repo) # {} BY <1>3
    <3>2. QED BY <1>1, <3>1, LatestExists DEF Rows
  <2>2. configs[i].version \in versions /\ \A w \in versions : w <= configs[i].version BY <1>1, <2>1
  <2> DEFINE v == CHOOSE v \in versions : \A w \in versions : w <= v
  <2>3. v \in versions /\ \A w \in versions : w <= v BY <2>2
  <2>4. versions \subseteq Nat BY <1>1, RowsAreTyped
  <2>5. NextVersion(repo) = 1 + v BY <1>3 DEF NextVersion
  <2> HIDE DEF v
  <2>6. v \in Nat /\ \A i_1 \in RowsOf(repo) : configs[i_1].version <= v /\ configs[i_1].version \in Nat
    BY <1>1, <2>3, <2>4, RowsAreTyped
  <2>7. QED BY <2>5, <2>6
<1>4. QED BY <1>2, <1>3

(* _find_active_policy_config returns an active configuration of the repository if there
   is one, and no other that is active is newer. *)
LEMMA NewestActiveIsNewest ==
    ASSUME TypeOK, NEW repo
    PROVE  /\ NewestActive(repo) \in Nat
           /\ ActiveOf(repo) = {} => NewestActive(repo) = 0
           /\ ActiveOf(repo) # {} =>
                 /\ NewestActive(repo) # 0 /\ NewestActive(repo) \in ActiveOf(repo)
                 /\ \A j \in ActiveOf(repo) : configs[j].stamp <= configs[NewestActive(repo)].stamp
<1> DEFINE f == [i \in Rows |-> configs[i].stamp]
<1>1. Len(configs) \in Nat /\ ActiveOf(repo) \subseteq Rows /\ f \in [Rows -> Nat]
  BY RowsAreTyped DEF RowsOf, ActiveOf
<1>2. CASE ActiveOf(repo) = {} BY <1>2 DEF NewestActive
<1>3. CASE ActiveOf(repo) # {}
  <2>1. PICK i \in ActiveOf(repo) : \A j \in ActiveOf(repo) : f[j] <= f[i]
    BY <1>1, <1>3, LatestExists DEF Rows
  <2>2. \A j \in ActiveOf(repo) : configs[j].stamp <= configs[i].stamp BY <1>1, <2>1
  <2>3. NewestActive(repo) =
           CHOOSE i_1 \in ActiveOf(repo) : \A j \in ActiveOf(repo) : configs[j].stamp <= configs[i_1].stamp
    BY <1>3 DEF NewestActive
  <2>4. NewestActive(repo) \in ActiveOf(repo)
        /\ \A j \in ActiveOf(repo) : configs[j].stamp <= configs[NewestActive(repo)].stamp
    BY <2>1, <2>2, <2>3
  <2>5. NewestActive(repo) \in 1..Len(configs) BY <1>1, <2>4 DEF Rows
  <2>6. QED BY <1>3, <2>4, <2>5
<1>4. QED BY <1>2, <1>3

(* A handler that is on the loop is alone in the only process ... *)
LEMMA OnTheLoopAlone ==
    ASSUME Inductive, OneProcess
    PROVE  /\ \A c \in Creates : create[c].phase = "read" =>
                 /\ \A d \in Creates : d # c => create[d].phase # "read"
                 /\ \A r \in Ingests : ingest[r].phase \notin Underway
           /\ \A r \in Ingests : ingest[r].phase \in Underway =>
                 /\ \A q \in Ingests : q # r => ingest[q].phase \notin Underway
                 /\ \A c \in Creates : create[c].phase # "read"
<1>1. Alone /\ RequestsFit BY DEF Inductive, InTurn
<1>2. \A c \in Creates : create[c].phase = "read" => create[c].proc \in Processes
  BY <1>1 DEF RequestsFit
<1>3. \A r \in Ingests : ingest[r].phase \in Underway => ingest[r].proc \in Processes
  BY <1>1 DEF RequestsFit
<1>4. \A c, d \in Creates : create[c].phase = "read" /\ create[d].phase = "read" => c = d
  BY <1>1, <1>2 DEF Alone, OneProcess
<1>5. \A r, q \in Ingests : ingest[r].phase \in Underway /\ ingest[q].phase \in Underway => r = q
  BY <1>1, <1>3 DEF Alone, OneProcess
<1>6. QED BY <1>1, <1>4, <1>5 DEF Alone

(* ... and when the loop is free none is under way. *)
LEMMA FreeLoopIsIdle ==
    ASSUME Inductive, OneProcess, NEW p \in Processes, loop[p] = None
    PROVE  /\ \A c \in Creates : create[c].phase # "read"
           /\ \A r \in Ingests : ingest[r].phase \notin Underway
<1>1. Alone /\ RequestsFit BY DEF Inductive, InTurn
<1>2. \A c \in Creates : create[c].phase = "read" => create[c].proc = p
  BY <1>1 DEF RequestsFit, OneProcess
<1>3. \A r \in Ingests : ingest[r].phase \in Underway => ingest[r].proc = p
  BY <1>1 DEF RequestsFit, OneProcess
<1>4. QED BY <1>1, <1>2, <1>3, NoneIsNoValue DEF Alone

LEMMA ReleasedIsLoop ==
    ASSUME TypeOK, NEW p, NEW h
    PROVE  Released(p, h) \in [Processes -> Creates \cup Ingests \cup {None}]
BY DEF TypeOK, Released

LEMMA CreatePhaseSet ==
    ASSUME TypeOK, NEW c \in Creates, NEW phase \in {"new", "read", "done", "error"},
           create' = [create EXCEPT ![c].phase = phase]
    PROVE  /\ create' \in [Creates -> Create]
           /\ create'[c].phase = phase
           /\ \A d \in Creates : d # c => create'[d] = create[d]
<1>1. create \in [Creates -> Create] BY DEF TypeOK
<1>2. [create[c] EXCEPT !.phase = phase] \in Create BY <1>1 DEF Create
<1>3. PICK new \in Create : new = [create[c] EXCEPT !.phase = phase] /\ new.phase = phase
  BY <1>1, <1>2 DEF Create
<1>4. create' = [create EXCEPT ![c] = new] BY <1>3
<1>5. QED BY <1>1, <1>3, <1>4

LEMMA IngestPhaseSet ==
    ASSUME TypeOK, NEW r \in Ingests, NEW phase \in {"new", "configured", "deciding", "done", "error"},
           ingest' = [ingest EXCEPT ![r].phase = phase]
    PROVE  /\ ingest' \in [Ingests -> Ingest]
           /\ ingest'[r].phase = phase
           /\ ingest'[r].receipt = ingest[r].receipt /\ ingest'[r].repo = ingest[r].repo
           /\ ingest'[r].proc = ingest[r].proc /\ ingest'[r].config = ingest[r].config
           /\ \A q \in Ingests : q # r => ingest'[q] = ingest[q]
<1>1. ingest \in [Ingests -> Ingest] BY DEF TypeOK
<1>2. [ingest[r] EXCEPT !.phase = phase] \in Ingest BY <1>1 DEF Ingest
<1>3. PICK new \in Ingest : /\ new = [ingest[r] EXCEPT !.phase = phase] /\ new.phase = phase
                            /\ new.receipt = ingest[r].receipt /\ new.repo = ingest[r].repo
                            /\ new.proc = ingest[r].proc /\ new.config = ingest[r].config
  BY <1>1, <1>2 DEF Ingest
<1>4. ingest' = [ingest EXCEPT ![r] = new] BY <1>3
<1>5. QED BY <1>1, <1>3, <1>4
-----------------------------------------------------------------------------
LEMMA InductiveInit == Init => Inductive
<1> SUFFICES ASSUME Init PROVE Inductive OBVIOUS
<1>1. Rows = {}
  <2>1. Len(configs) = 0 BY EmptySeq DEF Init
  <2>2. QED BY <2>1 DEF Rows
<1>2. NoRun \in Run BY DEF NoRun, Run
<1>3. runs \in [Ingests -> Run] BY <1>2 DEF Init
<1>4. TypeOK
  <2>1. configs \in Seq(Config) BY EmptySeq DEF Init
  <2>2. sources \in [Sources -> Source] /\ disabled \subseteq Sources BY DEF Init, Source
  <2>3. create \in [Creates -> Create] BY DEF Init, Create
  <2>4. deactivate \in [Deactivates -> Deactivate] BY DEF Init, Deactivate
  <2>5. ingest \in [Ingests -> Ingest] BY DEF Init, Ingest
  <2>6. loop \in [Processes -> Creates \cup Ingests \cup {None}] /\ clock \in Nat BY DEF Init
  <2>7. \A r \in Ingests : runs[r].decision \in Decisions \cup {"none"} /\ runs[r].config \in Nat
    BY <1>3 DEF Run
  <2>8. QED BY <2>1, <2>2, <2>3, <2>4, <2>5, <2>6, <2>7 DEF TypeOK
<1>5. RequestsFit BY DEF Init, RequestsFit, NoRun, Underway
<1>6. SnapshotExplainsRun BY DEF Init, SnapshotExplainsRun
<1>7. DisabledTold BY DEF Init, DisabledTold
<1>8. Alone BY DEF Init, Alone, Underway
<1>9. VersionsNameConfigs BY <1>1 DEF VersionsNameConfigs
<1>10. NewestLast BY <1>1 DEF Init, NewestLast
<1>11. LookupsHold BY DEF Init, LookupsHold, Underway
<1>12. SeenLast
  <2>1. \A r \in Ingests : runs[r].stamp = 0 BY DEF Init, NoRun
  <2>2. \A src \in Sources : sources[src].seen = 0 BY DEF Init
  <2>3. clock = 0 /\ \A r \in Ingests : ingest[r].phase # "deciding" BY DEF Init
  <2>4. QED BY <2>1, <2>2, <2>3 DEF SeenLast
<1>13. QED BY <1>3, <1>4, <1>5, <1>6, <1>7, <1>8, <1>9, <1>10, <1>11, <1>12 DEF Inductive, InTurn

LEMMA CreateReadKeeps ==
    ASSUME Inductive, NEW c \in Creates, NEW p \in Processes, NEW repo \in Repos \cup {None},
           NEW s \in Offered, CreateRead(c, p, repo, s)
    PROVE  Inductive'
<1> DEFINE version == NextVersion(repo)
           new == [phase |-> "read", proc |-> p, repo |-> repo, settings |-> s,
                   version |-> version, stamp |-> clock]
<1>1. TypeOK BY DEF Inductive
<1>2. version \in Nat /\ version # 0 /\ \A i \in RowsOf(repo) : configs[i].version < version
  BY <1>1, NextVersionIsNew
<1>3. create' = [create EXCEPT ![c] = new] /\ clock' = clock + 1
  BY DEF CreateRead, CreateReads
<1>4. UNCHANGED <<configs, sources, disabled, runs, deactivate, ingest>>
  BY DEF CreateRead, CreateReads
<1>5. loop[p] = None /\ loop' = [loop EXCEPT ![p] = c] BY DEF CreateRead
<1>6. create \in [Creates -> Create] /\ clock \in Nat BY <1>1 DEF TypeOK
<1> HIDE DEF version
<1>7. new \in Create BY <1>2, <1>6 DEF Create
<1>8. new.phase = "read" /\ new.proc = p /\ new.repo = repo /\ new.settings = s
      /\ new.version = version /\ new.stamp = clock
  OBVIOUS
<1> HIDE DEF new
<1>9. create' \in [Creates -> Create] /\ create'[c] = new
      /\ \A d \in Creates : d # c => create'[d] = create[d]
  BY <1>3, <1>6, <1>7
<1>10. TypeOK'
  <2>1. loop' \in [Processes -> Creates \cup Ingests \cup {None}] BY <1>1, <1>5 DEF TypeOK
  <2>2. clock' \in Nat BY <1>3, <1>6
  <2>3. QED BY <1>1, <1>4, <1>9, <2>1, <2>2 DEF TypeOK
<1>11. RequestsFit'
  <2>1. \A d \in Creates : create'[d].phase = "read" =>
           create'[d].settings \in Offered /\ create'[d].version # 0 /\ create'[d].proc \in Processes
    BY <1>2, <1>8, <1>9 DEF Inductive, RequestsFit
  <2>2. QED BY <1>4, <2>1 DEF Inductive, RequestsFit, Rows
<1>12. (runs \in [Ingests -> Run])' /\ SnapshotExplainsRun' /\ DisabledTold'
  BY <1>4 DEF Inductive, SnapshotExplainsRun, DisabledTold
<1>13. ASSUME OneProcess PROVE InTurn'
  <2>1. /\ \A d \in Creates : create[d].phase # "read"
        /\ \A r \in Ingests : ingest[r].phase \notin Underway
    BY <1>5, <1>13, FreeLoopIsIdle
  <2>2. \A d \in Creates : create'[d].phase = "read" => d = c BY <1>9, <2>1
  <2>3. InTurn BY <1>13 DEF Inductive
  <2>4. loop'[p] = c BY <1>1, <1>5 DEF TypeOK
  <2>5. Alone' BY <1>4, <1>8, <1>9, <2>1, <2>2, <2>4 DEF Alone
  <2>6. VersionsNameConfigs' BY <1>4, <2>3 DEF InTurn, VersionsNameConfigs, Rows
  <2>7. NewestLast'
    <3>1. \A i \in Rows : configs[i].stamp < clock BY <2>3 DEF InTurn, NewestLast
    <3>2. \A i \in Rows : configs[i].stamp \in Nat BY <1>1, RowsAreTyped
    <3>3. \A i \in Rows : configs[i].stamp < clock' BY <1>3, <1>6, <3>1, <3>2
    <3>4. clock < clock' BY <1>3, <1>6
    <3>5. QED BY <1>2, <1>4, <1>8, <1>9, <2>2, <3>1, <3>3, <3>4 DEF NewestLast, Rows, RowsOf
  <2>8. LookupsHold' BY <1>4, <2>1 DEF LookupsHold
  <2>9. SeenLast'
    <3>1. SeenLast BY <2>3 DEF InTurn
    <3>2. \A r \in Ingests : runs[r].stamp \in Nat BY DEF Inductive, Run
    <3>3. \A r \in Ingests : runs[r].stamp <= clock' BY <1>3, <1>6, <3>1, <3>2 DEF SeenLast
    <3>4. QED BY <1>4, <2>1, <3>1, <3>3 DEF SeenLast, Underway
  <2>10. QED BY <2>5, <2>6, <2>7, <2>8, <2>9 DEF InTurn
<1>14. QED BY <1>10, <1>11, <1>12, <1>13 DEF Inductive, OneProcess

LEMMA CreateCommitKeeps ==
    ASSUME Inductive, NEW c \in Creates, CreateCommit(c)
    PROVE  Inductive'
<1> DEFINE row == [repo |-> create[c].repo, version |-> create[c].version, active |-> TRUE,
                   settings |-> create[c].settings, stamp |-> create[c].stamp]
           n == Len(configs) + 1
<1>1. TypeOK BY DEF Inductive
<1>2. create[c].phase = "read" /\ configs' = Append(configs, row)
  BY DEF CreateCommit
<1>3. create' = [create EXCEPT ![c].phase = "done"] /\ loop' = Released(create[c].proc, c)
  BY DEF CreateCommit
<1>4. UNCHANGED <<sources, disabled, runs, deactivate, ingest, clock>> BY DEF CreateCommit
<1>5. create' \in [Creates -> Create] /\ create'[c].phase = "done"
      /\ \A d \in Creates : d # c => create'[d] = create[d]
  BY <1>1, <1>3, CreatePhaseSet
<1>6. row \in Config
  <2>1. create[c] \in Create BY <1>1 DEF TypeOK
  <2>2. create[c].settings \in Settings /\ create[c].version \in Nat \ {0}
    BY <1>2, <2>1, OfferedAreValid DEF Inductive, RequestsFit, Create
  <2>3. create[c].repo \in Repos \cup {None} /\ create[c].stamp \in Nat BY <2>1 DEF Create
  <2>4. QED BY <2>2, <2>3 DEF Config
<1>7. row.repo = create[c].repo /\ row.version = create[c].version /\ row.stamp = create[c].stamp
  OBVIOUS
<1> HIDE DEF row
<1>8. /\ configs' \in Seq(Config) /\ Len(configs) \in Nat /\ Len(configs') = n
      /\ configs'[n] = row
      /\ \A i \in 1..Len(configs) : configs'[i] = configs[i]
  <2>1. configs \in Seq(Config) BY <1>1 DEF TypeOK
  <2>2. QED BY <1>2, <1>6, <2>1, AppendProperties
<1>9. Rows' = Rows \cup {n} /\ n \notin Rows /\ \A i \in Rows : configs'[i] = configs[i]
  BY <1>8 DEF Rows
<1> HIDE DEF n
<1>10. configs'[n] = row BY <1>8 DEF n
<1>11. TypeOK' BY <1>1, <1>3, <1>4, <1>5, <1>8, ReleasedIsLoop DEF TypeOK
<1>12. RequestsFit'
  <2>1. RequestsFit BY DEF Inductive
  <2>2. \A d \in Creates : create'[d].phase = "read" => create'[d] = create[d] BY <1>5
  <2>3. QED BY <1>4, <1>9, <2>1, <2>2 DEF RequestsFit
<1>13. SnapshotExplainsRun'
  <2>1. \A r \in Ingests : runs[r].config # 0 => runs[r].config \in Rows
    BY DEF Inductive, RequestsFit
  <2>2. QED BY <1>4, <1>9, <2>1 DEF Inductive, SnapshotExplainsRun
<1>14. (runs \in [Ingests -> Run])' /\ DisabledTold' BY <1>4 DEF Inductive, DisabledTold
<1>15. ASSUME OneProcess PROVE InTurn'
  <2>1. /\ \A d \in Creates : d # c => create[d].phase # "read"
        /\ \A r \in Ingests : ingest[r].phase \notin Underway
    BY <1>2, <1>15, OnTheLoopAlone
  <2>2. \A d \in Creates : create'[d].phase # "read" BY <1>5, <2>1
  <2>3. InTurn BY <1>15 DEF Inductive
  <2>4. Alone' BY <1>4, <2>1, <2>2 DEF Alone
  <2>5. /\ row.stamp < clock
        /\ \A i \in Rows : configs[i].stamp < row.stamp
        /\ \A i \in Rows : configs[i].repo = row.repo => configs[i].version < row.version
    BY <1>2, <1>7, <2>3 DEF InTurn, NewestLast, RowsOf
  <2>6. row.stamp \in Nat /\ row.version \in Nat BY <1>6 DEF Config
  <2>7. \A i \in Rows : configs[i].stamp \in Nat /\ configs[i].version \in Nat
    BY <1>1, RowsAreTyped
  <2>8. VersionsNameConfigs'
    <3> SUFFICES ASSUME NEW i \in Rows', NEW j \in Rows', configs'[i].repo = configs'[j].repo
                 PROVE  /\ configs'[i].version = configs'[j].version => i = j
                        /\ configs'[i].stamp < configs'[j].stamp
                              <=> configs'[i].version < configs'[j].version
      BY DEF VersionsNameConfigs
    <3>1. CASE i \in Rows /\ j \in Rows BY <1>9, <2>3, <3>1 DEF InTurn, VersionsNameConfigs
    <3>2. CASE i \in Rows /\ j = n
      <4>1. configs[i].stamp < row.stamp /\ configs[i].version < row.version
        BY <1>9, <1>10, <2>5, <3>2
      <4>2. QED BY <1>9, <1>10, <2>6, <2>7, <3>2, <4>1
    <3>3. CASE i = n /\ j \in Rows
      <4>1. configs[j].stamp < row.stamp /\ configs[j].version < row.version
        BY <1>9, <1>10, <2>5, <3>3
      <4>2. QED BY <1>9, <1>10, <2>6, <2>7, <3>3, <4>1
    <3>4. CASE i = n /\ j = n BY <3>4, <1>10, <2>6
    <3>5. QED BY <1>9, <3>1, <3>2, <3>3, <3>4
  <2>9. NewestLast' BY <1>4, <1>9, <1>10, <2>2, <2>3, <2>5 DEF InTurn, NewestLast
  <2>10. LookupsHold' BY <1>4, <2>1 DEF LookupsHold
  <2>11. SeenLast' BY <1>4, <2>3 DEF InTurn, SeenLast
  <2>12. QED BY <2>4, <2>8, <2>9, <2>10, <2>11 DEF InTurn
<1>16. QED BY <1>11, <1>12, <1>13, <1>14, <1>15 DEF Inductive, OneProcess

LEMMA CreateFailsKeeps ==
    ASSUME Inductive, NEW c \in Creates, CreateFails(c)
    PROVE  Inductive'
<1>1. TypeOK BY DEF Inductive
<1>2. /\ create[c].phase = "read" /\ create' = [create EXCEPT ![c].phase = "error"]
      /\ loop' = Released(create[c].proc, c)
      /\ UNCHANGED <<configs, sources, disabled, runs, deactivate, ingest, clock>>
  BY DEF CreateFails
<1>3. create' \in [Creates -> Create] /\ create'[c].phase = "error"
      /\ \A d \in Creates : d # c => create'[d] = create[d]
  BY <1>1, <1>2, CreatePhaseSet
<1>4. UNCHANGED <<configs, sources, disabled, runs, deactivate, ingest, clock>> BY <1>2
<1>5. TypeOK' BY <1>1, <1>2, <1>3, ReleasedIsLoop DEF TypeOK
<1>6. \A d \in Creates : create'[d].phase = "read" => create'[d] = create[d] BY <1>3
<1>7. RequestsFit' BY <1>4, <1>6 DEF Inductive, RequestsFit, Rows
<1>8. (runs \in [Ingests -> Run])' /\ SnapshotExplainsRun' /\ DisabledTold'
  BY <1>4 DEF Inductive, SnapshotExplainsRun, DisabledTold
<1>9. ASSUME OneProcess PROVE InTurn'
  <2>1. /\ \A d \in Creates : d # c => create[d].phase # "read"
        /\ \A r \in Ingests : ingest[r].phase \notin Underway
    BY <1>2, <1>9, OnTheLoopAlone
  <2>2. \A d \in Creates : create'[d].phase # "read" BY <1>3, <2>1
  <2>3. InTurn BY <1>9 DEF Inductive
  <2>4. Alone' BY <1>4, <2>1, <2>2 DEF Alone
  <2>5. NewestLast' BY <1>4, <2>2, <2>3 DEF InTurn, NewestLast, Rows
  <2>6. VersionsNameConfigs' /\ SeenLast'
    BY <1>4, <2>3 DEF InTurn, VersionsNameConfigs, SeenLast, Rows
  <2>7. LookupsHold' BY <1>4, <2>1 DEF LookupsHold
  <2>8. QED BY <2>4, <2>5, <2>6, <2>7 DEF InTurn
<1>10. QED BY <1>5, <1>7, <1>8, <1>9 DEF Inductive, OneProcess

LEMMA DeactivateReadKeeps ==
    ASSUME Inductive, NEW d \in Deactivates, NEW i \in Rows, DeactivateRead(d, i)
    PROVE  Inductive'
<1>1. TypeOK BY DEF Inductive
<1>2. /\ deactivate' = [deactivate EXCEPT ![d] = [phase |-> "read", config |-> i]]
      /\ UNCHANGED <<configs, sources, disabled, runs, create, ingest, loop, clock>>
  BY DEF DeactivateRead
<1>3. UNCHANGED <<configs, sources, disabled, runs, create, ingest, loop, clock>> BY <1>2
<1>4. i \in Nat BY <1>1, RowsAreTyped DEF Rows
<1>5. deactivate' \in [Deactivates -> Deactivate]
      /\ deactivate'[d].config = i
      /\ \A e \in Deactivates : e # d => deactivate'[e] = deactivate[e]
  BY <1>1, <1>2, <1>4 DEF TypeOK, Deactivate
<1>6. TypeOK' BY <1>1, <1>3, <1>5 DEF TypeOK
<1>7. RequestsFit'
  <2>1. \A e \in Deactivates : deactivate'[e].phase = "read" => deactivate'[e].config \in Rows
    BY <1>5 DEF Inductive, RequestsFit
  <2>2. QED BY <1>3, <2>1 DEF Inductive, RequestsFit, Rows
<1>8. (runs \in [Ingests -> Run])' /\ SnapshotExplainsRun' /\ DisabledTold'
  BY <1>3 DEF Inductive, SnapshotExplainsRun, DisabledTold
<1>9. ASSUME OneProcess PROVE InTurn'
  <2>1. Alone' /\ VersionsNameConfigs' /\ SeenLast'
    BY <1>3, <1>9 DEF Inductive, InTurn, Alone, VersionsNameConfigs, SeenLast, Rows
  <2>2. NewestLast' /\ LookupsHold'
    BY <1>3, <1>9 DEF Inductive, InTurn, NewestLast, LookupsHold, ActiveOf, RowsOf, Rows
  <2>3. QED BY <2>1, <2>2 DEF InTurn
<1>10. QED BY <1>6, <1>7, <1>8, <1>9 DEF Inductive, OneProcess

LEMMA DeactivateCommitKeeps ==
    ASSUME Inductive, NEW d \in Deactivates, DeactivateCommit(d)
    PROVE  Inductive'
<1> DEFINE n == deactivate[d].config
<1>1. TypeOK BY DEF Inductive
<1>2. /\ deactivate[d].phase = "read"
      /\ configs' = [configs EXCEPT ![n].active = FALSE]
      /\ deactivate' = [deactivate EXCEPT ![d].phase = "done"]
      /\ UNCHANGED <<sources, disabled, runs, create, ingest, loop, clock>>
  BY DEF DeactivateCommit
<1>3. UNCHANGED <<sources, disabled, runs, create, ingest, loop, clock>> BY <1>2
<1>4. n \in Rows BY <1>2 DEF Inductive, RequestsFit
<1>5. deactivate' \in [Deactivates -> Deactivate] /\ deactivate'[d].phase = "done"
      /\ \A e \in Deactivates : e # d => deactivate'[e] = deactivate[e]
  BY <1>1, <1>2 DEF TypeOK, Deactivate
<1> HIDE DEF n
<1>6. [configs[n] EXCEPT !.active = FALSE] \in Config BY <1>1, <1>4, RowsAreTyped DEF Config
<1>7. PICK row \in Config :
         /\ row = [configs[n] EXCEPT !.active = FALSE] /\ row.active = FALSE
         /\ row.repo = configs[n].repo /\ row.version = configs[n].version
         /\ row.settings = configs[n].settings /\ row.stamp = configs[n].stamp
  BY <1>1, <1>4, <1>6, RowsAreTyped DEF Config
<1>8. configs' = [configs EXCEPT ![n] = row] BY <1>2, <1>7
<1>9. configs' \in Seq(Config) /\ Len(configs') = Len(configs)
      /\ \A i \in Rows : configs'[i] = IF i = n THEN row ELSE configs[i]
  <2>1. configs \in Seq(Config) /\ n \in 1..Len(configs) BY <1>1, <1>4 DEF TypeOK, Rows
  <2>2. configs' \in Seq(Config) /\ Len(configs') = Len(configs)
        /\ \A i \in 1..Len(configs) : configs'[i] = IF i = n THEN row ELSE configs[i]
    BY <1>8, <2>1, ExceptSeq
  <2>3. QED BY <2>2 DEF Rows
<1>10. Rows' = Rows BY <1>9 DEF Rows
<1>11. \A i \in Rows : /\ configs'[i].repo = configs[i].repo /\ configs'[i].stamp = configs[i].stamp
                       /\ configs'[i].version = configs[i].version
                       /\ configs'[i].settings = configs[i].settings
                       /\ configs'[i].active => configs[i].active
  BY <1>7, <1>9
<1>12. TypeOK' BY <1>1, <1>3, <1>5, <1>9 DEF TypeOK
<1>13. RequestsFit'
  <2>1. \A e \in Deactivates : deactivate'[e].phase = "read" => deactivate'[e].config \in Rows
    BY <1>5 DEF Inductive, RequestsFit
  <2>2. QED BY <1>3, <1>10, <1>11, <2>1 DEF Inductive, RequestsFit
<1>14. SnapshotExplainsRun'
  <2>1. \A r \in Ingests : runs[r].config # 0 => runs[r].config \in Rows
    BY DEF Inductive, RequestsFit
  <2>2. QED BY <1>3, <1>11, <2>1 DEF Inductive, SnapshotExplainsRun
<1>15. (runs \in [Ingests -> Run])' /\ DisabledTold' BY <1>3 DEF Inductive, DisabledTold
<1>16. ASSUME OneProcess PROVE InTurn'
  <2>1. InTurn BY <1>16 DEF Inductive
  <2>2. Alone' /\ SeenLast' BY <1>3, <2>1 DEF InTurn, Alone, SeenLast
  <2>3. VersionsNameConfigs' BY <1>10, <1>11, <2>1 DEF InTurn, VersionsNameConfigs
  <2>4. NewestLast' BY <1>3, <1>10, <1>11, <2>1 DEF InTurn, NewestLast, RowsOf
  <2>5. LookupsHold'
    <3>1. \A repo : ActiveOf(repo)' \subseteq ActiveOf(repo)
      BY <1>10, <1>11 DEF ActiveOf, RowsOf
    <3> SUFFICES ASSUME NEW r \in Ingests, ingest[r].phase \in Underway,
                        NEW i \in Rows, configs'[i].repo = ingest[r].repo, configs'[i].active
                 PROVE  ingest[r].config # 0
                        /\ configs'[i].stamp <= configs'[ingest[r].config].stamp
      BY <1>3, <1>10 DEF LookupsHold, ActiveOf, RowsOf
    <3>2. i \in ActiveOf(ingest[r].repo) BY <1>11 DEF ActiveOf, RowsOf
    <3>3. ingest[r].config # 0 /\ configs[i].stamp <= configs[ingest[r].config].stamp
      BY <2>1, <3>2 DEF InTurn, LookupsHold
    <3>4. ingest[r].config \in Rows BY <3>3 DEF Inductive, RequestsFit
    <3>5. QED BY <1>11, <3>3, <3>4
  <2>6. QED BY <2>2, <2>3, <2>4, <2>5 DEF InTurn
<1>17. QED BY <1>12, <1>13, <1>14, <1>15, <1>16 DEF Inductive, OneProcess

LEMMA IngestLookupKeeps ==
    ASSUME Inductive, NEW r \in Ingests, NEW p \in Processes, NEW repo \in Repos, NEW x \in Receipts,
           NEW src \in Sources \cup {None}, IngestLookup(r, p, repo, x, src)
    PROVE  Inductive'
<1> DEFINE i == NewestActive(repo)
           read == [ingest[r] EXCEPT !.phase = "configured", !.proc = p, !.repo = repo,
                                     !.receipt = x, !.config = i, !.source = src]
<1>1. TypeOK BY DEF Inductive
<1>2. ingest[r].phase = "new" /\ ingest' = [ingest EXCEPT ![r] = read]
  BY DEF IngestLookup, IngestLooksUp
<1>3. UNCHANGED <<configs, sources, disabled, runs, create, deactivate, clock>>
  BY DEF IngestLookup, IngestLooksUp
<1>4. loop[p] = None /\ loop' = [loop EXCEPT ![p] = r] BY DEF IngestLookup
<1>5. /\ i \in Nat
      /\ ActiveOf(repo) = {} => i = 0
      /\ ActiveOf(repo) # {} => /\ i # 0 /\ i \in ActiveOf(repo)
                                /\ \A j \in ActiveOf(repo) : configs[j].stamp <= configs[i].stamp
  BY <1>1, NewestActiveIsNewest
<1>6. i # 0 => i \in Rows /\ configs[i].repo = repo BY <1>5 DEF ActiveOf, RowsOf
<1> HIDE DEF i
<1>7. ingest \in [Ingests -> Ingest] BY <1>1 DEF TypeOK
<1>8. read \in Ingest BY <1>5, <1>7 DEF Ingest
<1>9. PICK new \in Ingest :
         /\ new = read /\ new.phase = "configured" /\ new.proc = p /\ new.repo = repo
         /\ new.receipt = x /\ new.config = i
  BY <1>7, <1>8 DEF Ingest
<1>10. ingest' = [ingest EXCEPT ![r] = new] BY <1>2, <1>9
<1> HIDE DEF read
<1>11. /\ ingest' \in [Ingests -> Ingest]
       /\ ingest'[r].phase = "configured" /\ ingest'[r].proc = p /\ ingest'[r].repo = repo
       /\ ingest'[r].receipt = x /\ ingest'[r].config = i
       /\ \A q \in Ingests : q # r => ingest'[q] = ingest[q]
  BY <1>7, <1>9, <1>10
<1>12. TypeOK'
  <2>1. loop' \in [Processes -> Creates \cup Ingests \cup {None}] BY <1>1, <1>4 DEF TypeOK
  <2>2. QED BY <1>1, <1>3, <1>11, <2>1 DEF TypeOK
<1>13. RequestsFit'
  <2>1. RequestsFit BY DEF Inductive
  <2>2. runs[r] = NoRun BY <1>2, <2>1 DEF RequestsFit
  <2>3. \A q \in Ingests : ingest'[q].phase \in Underway \cup {"done"} =>
          /\ ingest'[q].receipt \in Receipts /\ ingest'[q].repo \in Repos
          /\ ingest'[q].proc \in Processes
          /\ ingest'[q].config # 0 =>
                ingest'[q].config \in Rows /\ configs[ingest'[q].config].repo = ingest'[q].repo
    BY <1>6, <1>11, <2>1 DEF RequestsFit
  <2>4. \A q \in Ingests : ingest'[q].phase # "done" => runs[q] = NoRun
    BY <1>11, <2>1, <2>2 DEF RequestsFit
  <2>5. QED BY <1>3, <2>1, <2>3, <2>4 DEF RequestsFit, Rows
<1>14. SnapshotExplainsRun' BY <1>3, <1>11 DEF Inductive, SnapshotExplainsRun
<1>15. (runs \in [Ingests -> Run])' /\ DisabledTold' BY <1>3 DEF Inductive, DisabledTold
<1>16. ASSUME OneProcess PROVE InTurn'
  <2>1. InTurn BY <1>16 DEF Inductive
  <2>2. /\ \A c \in Creates : create[c].phase # "read"
        /\ \A q \in Ingests : ingest[q].phase \notin Underway
    BY <1>4, <1>16, FreeLoopIsIdle
  <2>3. \A q \in Ingests : ingest'[q].phase \in Underway => q = r BY <1>11, <2>2
  <2>4. loop'[p] = r BY <1>1, <1>4 DEF TypeOK
  <2>5. Alone' BY <1>3, <1>11, <2>2, <2>3, <2>4 DEF Alone
  <2>6. VersionsNameConfigs' BY <1>3, <2>1 DEF InTurn, VersionsNameConfigs, Rows
  <2>7. NewestLast' BY <1>3, <2>1 DEF InTurn, NewestLast, RowsOf, Rows
  <2>8. \A j \in ActiveOf(repo) : i # 0 /\ configs[j].stamp <= configs[i].stamp BY <1>5
  <2>9. LookupsHold' BY <1>3, <1>11, <2>3, <2>8 DEF LookupsHold, ActiveOf, RowsOf, Rows
  <2>10. \A q \in Ingests : ingest'[q].phase # "deciding" BY <1>11, <2>2 DEF Underway
  <2>11. SeenLast' BY <1>3, <2>1, <2>10 DEF InTurn, SeenLast
  <2>12. QED BY <2>5, <2>6, <2>7, <2>9, <2>11 DEF InTurn
<1>17. QED BY <1>12, <1>13, <1>14, <1>15, <1>16 DEF Inductive, OneProcess

LEMMA IngestSourceKeeps ==
    ASSUME Inductive, NEW r \in Ingests, IngestSource(r)
    PROVE  Inductive'
<1> DEFINE src == ingest[r].source
           found == IF src # None /\ sources[src].status = "enabled" THEN src ELSE None
           told == [ingest[r] EXCEPT !.phase = "deciding", !.stamp = clock + 1, !.source = found]
<1>1. TypeOK BY DEF Inductive
<1>2. ingest[r].phase = "configured" /\ clock' = clock + 1 BY DEF IngestSource
<1>3. UNCHANGED <<configs, sources, disabled, runs, create, deactivate, loop>> BY DEF IngestSource
<1>4. ingest \in [Ingests -> Ingest] /\ clock \in Nat BY <1>1 DEF TypeOK
<1>5. ingest' = [ingest EXCEPT ![r] = told] BY <1>4 DEF IngestSource
<1>6. found \in Sources \cup {None} /\ clock + 1 \in Nat BY <1>4 DEF Ingest
<1> HIDE DEF found
<1>7. told \in Ingest BY <1>4, <1>6 DEF Ingest
<1>8. PICK new \in Ingest :
         /\ new = told /\ new.phase = "deciding" /\ new.stamp = clock + 1
         /\ new.proc = ingest[r].proc /\ new.repo = ingest[r].repo
         /\ new.receipt = ingest[r].receipt /\ new.config = ingest[r].config
  BY <1>4, <1>7 DEF Ingest
<1>9. ingest' = [ingest EXCEPT ![r] = new] BY <1>5, <1>8
<1> HIDE DEF told
<1>10. /\ ingest' \in [Ingests -> Ingest]
       /\ ingest'[r].phase = "deciding" /\ ingest'[r].stamp = clock + 1
       /\ ingest'[r].proc = ingest[r].proc /\ ingest'[r].repo = ingest[r].repo
       /\ ingest'[r].receipt = ingest[r].receipt /\ ingest'[r].config = ingest[r].config
       /\ \A q \in Ingests : q # r => ingest'[q] = ingest[q]
  BY <1>4, <1>8, <1>9
<1>11. clock' \in Nat /\ clock < clock' BY <1>2, <1>4
<1>12. TypeOK' BY <1>1, <1>3, <1>10, <1>11 DEF TypeOK
<1>13. RequestsFit'
  <2>1. RequestsFit BY DEF Inductive
  <2>2. \A q \in Ingests : ingest'[q].phase \in Underway \cup {"done"} =>
          /\ ingest'[q].receipt \in Receipts /\ ingest'[q].repo \in Repos
          /\ ingest'[q].proc \in Processes
          /\ ingest'[q].config # 0 =>
                ingest'[q].config \in Rows /\ configs[ingest'[q].config].repo = ingest'[q].repo
    BY <1>2, <1>10, <2>1 DEF RequestsFit, Underway
  <2>3. \A q \in Ingests : ingest'[q].phase # "done" => runs[q] = NoRun
    BY <1>2, <1>10, <2>1 DEF RequestsFit
  <2>4. QED BY <1>3, <2>1, <2>2, <2>3 DEF RequestsFit, Rows
<1>14. SnapshotExplainsRun' BY <1>3, <1>10 DEF Inductive, SnapshotExplainsRun
<1>15. (runs \in [Ingests -> Run])' /\ DisabledTold' BY <1>3 DEF Inductive, DisabledTold
<1>16. ASSUME OneProcess PROVE InTurn'
  <2>1. InTurn BY <1>16 DEF Inductive
  <2>2. /\ \A c \in Creates : create[c].phase # "read"
        /\ \A q \in Ingests : q # r => ingest[q].phase \notin Underway
    BY <1>2, <1>16, OnTheLoopAlone DEF Underway
  <2>3. \A q \in Ingests : ingest'[q].phase \in Underway => q = r BY <1>10, <2>2
  <2>4. Alone' BY <1>2, <1>3, <1>10, <2>1, <2>2, <2>3 DEF InTurn, Alone, Underway
  <2>5. VersionsNameConfigs' BY <1>3, <2>1 DEF InTurn, VersionsNameConfigs, Rows
  <2>6. NewestLast'
    <3>1. \A i \in Rows : configs[i].stamp < clock /\ configs[i].stamp \in Nat
      BY <1>1, <2>1, RowsAreTyped DEF InTurn, NewestLast
    <3>2. \A i \in Rows : configs[i].stamp < clock' BY <1>4, <1>11, <3>1
    <3>3. QED BY <1>3, <2>2, <3>2 DEF NewestLast, Rows
  <2>7. LookupsHold'
    <3>1. \A i \in ActiveOf(ingest[r].repo) :
             ingest[r].config # 0 /\ configs[i].stamp <= configs[ingest[r].config].stamp
      BY <1>2, <2>1 DEF InTurn, LookupsHold, Underway
    <3>2. QED BY <1>3, <1>10, <2>3, <3>1 DEF LookupsHold, ActiveOf, RowsOf, Rows
  <2>8. SeenLast'
    <3>1. \A q \in Ingests : runs[q].stamp <= clock /\ runs[q].stamp \in Nat
      BY <2>1 DEF Inductive, InTurn, SeenLast, Run
    <3>2. \A q \in Ingests : runs[q].stamp <= clock' BY <1>4, <1>11, <3>1
    <3>3. ingest'[r].stamp = clock' /\ clock' <= clock' BY <1>2, <1>10, <1>11
    <3>4. \A q \in Ingests : ingest'[q].phase = "deciding" => q = r BY <2>3 DEF Underway
    <3>5. QED BY <1>3, <2>1, <3>2, <3>3, <3>4 DEF InTurn, SeenLast
  <2>9. QED BY <2>4, <2>5, <2>6, <2>7, <2>8 DEF InTurn
<1>17. QED BY <1>12, <1>13, <1>14, <1>15, <1>16 DEF Inductive, OneProcess

LEMMA IngestCommitKeeps ==
    ASSUME Inductive, NEW r \in Ingests, IngestCommit(r)
    PROVE  Inductive'
<1> DEFINE i == ingest[r].config
           s == IF i = 0 THEN DefaultSettings ELSE configs[i].settings
           run == [repo |-> ingest[r].repo, config |-> i, snapshot |-> IF i = 0 THEN None ELSE s,
                   decision |-> Decide(ingest[r].receipt, s),
                   source |-> ingest[r].source, stamp |-> ingest[r].stamp]
           src == ingest[r].source
           stamp == ingest[r].stamp
<1>1. TypeOK BY DEF Inductive
<1>2. ingest[r].phase = "deciding" /\ runs' = [runs EXCEPT ![r] = run] BY DEF IngestCommit
<1>3. sources' = Stamped(src, stamp) BY DEF IngestCommit
<1>4. ingest' = [ingest EXCEPT ![r].phase = "done"] /\ loop' = Released(ingest[r].proc, r)
  BY DEF IngestCommit
<1>5. UNCHANGED <<configs, disabled, create, deactivate, clock>> BY DEF IngestCommit
<1>6. /\ ingest' \in [Ingests -> Ingest]
      /\ ingest'[r].phase = "done"
      /\ ingest'[r].receipt = ingest[r].receipt /\ ingest'[r].repo = ingest[r].repo
      /\ ingest'[r].proc = ingest[r].proc /\ ingest'[r].config = ingest[r].config
      /\ \A q \in Ingests : q # r => ingest'[q] = ingest[q]
  BY <1>1, <1>4, IngestPhaseSet
<1>7. /\ ingest[r].receipt \in Receipts /\ ingest[r].repo \in Repos
      /\ i # 0 => i \in Rows /\ configs[i].repo = ingest[r].repo
      /\ runs[r] = NoRun
  BY <1>2 DEF Inductive, RequestsFit, Underway
<1>8. i \in Nat /\ src \in Sources \cup {None} /\ stamp \in Nat BY <1>1 DEF TypeOK, Ingest
<1>9. s \in Settings
  <2>1. i # 0 => configs[i].settings \in Settings BY <1>1, <1>7, RowsAreTyped DEF Config
  <2>2. QED BY <2>1, DefaultIsDescending
<1>10. /\ run.repo = ingest[r].repo /\ run.config = i
       /\ run.snapshot = IF i = 0 THEN None ELSE s
       /\ run.decision = Decide(ingest[r].receipt, s) /\ run.source = src /\ run.stamp = stamp
  OBVIOUS
<1>11. Decide(ingest[r].receipt, s) \in Decisions
  BY <1>7, <1>9, ReceiptsAreValid, BranchIsFirst, ChosenValues DEF Decide, Decisions
<1>12. i # 0 => s = configs[i].settings OBVIOUS
<1>13. i = 0 => s = DefaultSettings OBVIOUS
<1> HIDE DEF s, i
<1>14. run \in Run BY <1>7, <1>8, <1>9, <1>11 DEF Run
<1> HIDE DEF run, src, stamp
<1>15. runs' \in [Ingests -> Run] /\ runs'[r] = run /\ \A q \in Ingests : q # r => runs'[q] = runs[q]
  BY <1>2, <1>14 DEF Inductive
<1>16. /\ sources' \in [Sources -> Source]
       /\ \A t \in Sources : /\ sources'[t].status = sources[t].status
                             /\ sources'[t].seen = IF t = src THEN stamp ELSE sources[t].seen
  <2>1. sources \in [Sources -> Source] BY <1>1 DEF TypeOK
  <2>2. CASE src = None BY <1>3, <2>1, <2>2, NoneIsNoValue DEF Stamped
  <2>3. CASE src # None
    <3>1. src \in Sources /\ sources' = [sources EXCEPT ![src].seen = stamp]
      BY <1>3, <1>8, <2>3 DEF Stamped
    <3>2. [sources[src] EXCEPT !.seen = stamp] \in Source BY <1>8, <2>1, <3>1 DEF Source
    <3>3. PICK new \in Source : /\ new = [sources[src] EXCEPT !.seen = stamp]
                                /\ new.seen = stamp /\ new.status = sources[src].status
      BY <2>1, <3>1, <3>2 DEF Source
    <3>4. sources' = [sources EXCEPT ![src] = new] BY <3>1, <3>3
    <3>5. QED BY <2>1, <3>1, <3>3, <3>4
  <2>4. QED BY <2>2, <2>3
<1>17. TypeOK'
  <2>1. \A q \in Ingests : runs'[q].decision \in Decisions \cup {"none"} /\ runs'[q].config \in Nat
    BY <1>15 DEF Run
  <2>2. loop' \in [Processes -> Creates \cup Ingests \cup {None}] BY <1>1, <1>4, ReleasedIsLoop
  <2>3. QED BY <1>1, <1>5, <1>6, <1>16, <2>1, <2>2 DEF TypeOK
<1>18. RequestsFit'
  <2>1. RequestsFit BY DEF Inductive
  <2>2. \A q \in Ingests : ingest'[q].phase \in Underway \cup {"done"} =>
          /\ ingest'[q].receipt \in Receipts /\ ingest'[q].repo \in Repos
          /\ ingest'[q].proc \in Processes
          /\ ingest'[q].config # 0 =>
                ingest'[q].config \in Rows /\ configs[ingest'[q].config].repo = ingest'[q].repo
    BY <1>2, <1>6, <2>1 DEF RequestsFit, Underway
  <2>3. \A q \in Ingests : ingest'[q].phase # "done" => runs'[q] = NoRun
    BY <1>6, <1>15, <2>1 DEF RequestsFit
  <2>4. \A q \in Ingests : runs'[q].config # 0 => runs'[q].config \in Rows
    BY <1>7, <1>10, <1>15, <2>1 DEF RequestsFit
  <2>5. QED BY <1>5, <2>1, <2>2, <2>3, <2>4 DEF RequestsFit, Rows
<1>19. SnapshotExplainsRun'
  <2> SUFFICES ASSUME NEW q \in Ingests, ingest'[q].phase = "done"
               PROVE  IF runs'[q].config = 0
                      THEN runs'[q].decision = Decide(ingest'[q].receipt, DefaultSettings)
                      ELSE /\ runs'[q].decision = Decide(ingest'[q].receipt, runs'[q].snapshot)
                           /\ configs'[runs'[q].config].settings = runs'[q].snapshot
                           /\ configs'[runs'[q].config].repo = runs'[q].repo
    BY DEF SnapshotExplainsRun
  <2>1. CASE q = r BY <1>5, <1>6, <1>7, <1>10, <1>12, <1>13, <1>15, <2>1
  <2>2. CASE q # r BY <1>5, <1>6, <1>15, <2>2 DEF Inductive, SnapshotExplainsRun
  <2>3. QED BY <2>1, <2>2
<1>20. DisabledTold' BY <1>5, <1>16 DEF Inductive, DisabledTold
<1>21. ASSUME OneProcess PROVE InTurn'
  <2>1. InTurn BY <1>21 DEF Inductive
  <2>2. /\ \A c \in Creates : create[c].phase # "read"
        /\ \A q \in Ingests : q # r => ingest[q].phase \notin Underway
    BY <1>2, <1>21, OnTheLoopAlone DEF Underway
  <2>3. \A q \in Ingests : ingest'[q].phase \notin Underway BY <1>6, <2>2 DEF Underway
  <2>4. Alone' BY <1>5, <2>2, <2>3 DEF Alone
  <2>5. VersionsNameConfigs' BY <1>5, <2>1 DEF InTurn, VersionsNameConfigs, Rows
  <2>6. NewestLast' BY <1>5, <2>1 DEF InTurn, NewestLast, RowsOf, Rows
  <2>7. LookupsHold' BY <2>3 DEF LookupsHold
  <2>8. SeenLast'
    <3>1. stamp <= clock /\ \A q \in Ingests : runs[q].stamp <= stamp
      BY <1>2, <2>1 DEF InTurn, SeenLast, stamp
    <3>2. \A q \in Ingests : runs'[q].stamp <= stamp BY <1>8, <1>10, <1>15, <3>1
    <3>3. \A q \in Ingests : runs'[q].stamp <= clock'
      BY <1>5, <1>10, <1>15, <2>1, <3>1 DEF InTurn, SeenLast
    <3>4. \A q \in Ingests : ingest'[q].phase # "deciding" BY <2>3 DEF Underway
    <3>5. ASSUME NEW t \in Sources
          PROVE  /\ \A q \in Ingests : runs'[q].source = t => runs'[q].stamp <= sources'[t].seen
                 /\ sources'[t].seen # 0 =>
                       \E q \in Ingests : runs'[q].source = t /\ runs'[q].stamp = sources'[t].seen
      <4>1. CASE t = src BY <1>10, <1>15, <1>16, <3>2, <4>1
      <4>2. CASE t # src
        <5>1. /\ \A q \in Ingests : runs[q].source = t => runs[q].stamp <= sources[t].seen
              /\ sources[t].seen # 0 =>
                    \E q \in Ingests : runs[q].source = t /\ runs[q].stamp = sources[t].seen
          BY <2>1 DEF InTurn, SeenLast
        <5>2. runs[r].source # t BY <1>7, NoneIsNoValue DEF NoRun
        <5>3. runs'[r].source # t BY <1>10, <1>15, <4>2
        <5>4. sources'[t].seen = sources[t].seen BY <1>16, <4>2
        <5>5. QED BY <1>15, <5>1, <5>2, <5>3, <5>4
      <4>3. QED BY <4>1, <4>2
    <3>6. QED BY <3>3, <3>4, <3>5 DEF SeenLast
  <2>9. QED BY <2>4, <2>5, <2>6, <2>7, <2>8 DEF InTurn
<1>22. QED BY <1>15, <1>17, <1>18, <1>19, <1>20, <1>21 DEF Inductive, OneProcess

LEMMA IngestFailsKeeps ==
    ASSUME Inductive, NEW r \in Ingests, IngestFails(r)
    PROVE  Inductive'
<1>1. TypeOK BY DEF Inductive
<1>2. /\ ingest[r].phase \in Underway /\ ingest' = [ingest EXCEPT ![r].phase = "error"]
      /\ loop' = Released(ingest[r].proc, r)
      /\ UNCHANGED <<configs, sources, disabled, runs, create, deactivate, clock>>
  BY DEF IngestFails, Underway
<1>3. UNCHANGED <<configs, sources, disabled, runs, create, deactivate, clock>> BY <1>2
<1>4. /\ ingest' \in [Ingests -> Ingest] /\ ingest'[r].phase = "error"
      /\ \A q \in Ingests : q # r => ingest'[q] = ingest[q]
  BY <1>1, <1>2, IngestPhaseSet
<1>5. TypeOK' BY <1>1, <1>2, <1>3, <1>4, ReleasedIsLoop DEF TypeOK
<1>6. RequestsFit'
  <2>1. RequestsFit BY DEF Inductive
  <2>2. runs[r] = NoRun BY <1>2, <2>1 DEF RequestsFit, Underway
  <2>3. \A q \in Ingests : ingest'[q].phase \in Underway \cup {"done"} => ingest'[q] = ingest[q]
    BY <1>4 DEF Underway
  <2>4. \A q \in Ingests : ingest'[q].phase # "done" => runs[q] = NoRun
    BY <1>4, <2>1, <2>2 DEF RequestsFit
  <2>5. QED BY <1>3, <2>1, <2>3, <2>4 DEF RequestsFit, Rows
<1>7. SnapshotExplainsRun' BY <1>3, <1>4 DEF Inductive, SnapshotExplainsRun
<1>8. (runs \in [Ingests -> Run])' /\ DisabledTold' BY <1>3 DEF Inductive, DisabledTold
<1>9. ASSUME OneProcess PROVE InTurn'
  <2>1. InTurn BY <1>9 DEF Inductive
  <2>2. /\ \A c \in Creates : create[c].phase # "read"
        /\ \A q \in Ingests : q # r => ingest[q].phase \notin Underway
    BY <1>2, <1>9, OnTheLoopAlone
  <2>3. \A q \in Ingests : ingest'[q].phase \notin Underway BY <1>4, <2>2 DEF Underway
  <2>4. Alone' /\ LookupsHold' BY <1>3, <2>2, <2>3 DEF Alone, LookupsHold
  <2>5. VersionsNameConfigs' BY <1>3, <2>1 DEF InTurn, VersionsNameConfigs, Rows
  <2>6. NewestLast' BY <1>3, <2>1 DEF InTurn, NewestLast, RowsOf, Rows
  <2>7. SeenLast' BY <1>3, <2>1, <2>3 DEF InTurn, SeenLast, Underway
  <2>8. QED BY <2>4, <2>5, <2>6, <2>7 DEF InTurn
<1>10. QED BY <1>5, <1>6, <1>7, <1>8, <1>9 DEF Inductive, OneProcess

(* Creating and disabling a source changes its status and nothing else. *)
LEMMA SourceStatusKeeps ==
    ASSUME Inductive, NEW src \in Sources, CreateSource(src) \/ DisableSource(src)
    PROVE  Inductive'
<1>1. TypeOK BY DEF Inductive
<1>2. UNCHANGED <<configs, runs, create, deactivate, ingest, loop, clock>>
  BY DEF CreateSource, DisableSource
<1>3. /\ sources' \in [Sources -> Source] /\ disabled' \subseteq Sources
      /\ \A t \in Sources : sources'[t].seen = sources[t].seen
      /\ DisabledTold'
  <2>1. sources \in [Sources -> Source] /\ disabled \subseteq Sources BY <1>1 DEF TypeOK
  <2>2. PICK status \in {"enabled", "disabled"} :
           /\ sources' = [sources EXCEPT ![src].status = status]
           /\ disabled' = IF status = "disabled" THEN disabled \cup {src} ELSE disabled
           /\ status = "enabled" => sources[src].status = "none"
    BY DEF CreateSource, DisableSource
  <2>3. [sources[src] EXCEPT !.status = status] \in Source BY <2>1 DEF Source
  <2>4. PICK new \in Source : /\ new = [sources[src] EXCEPT !.status = status]
                              /\ new.status = status /\ new.seen = sources[src].seen
    BY <2>1, <2>3 DEF Source
  <2>5. sources' = [sources EXCEPT ![src] = new] BY <2>2, <2>4
  <2>6. /\ sources' \in [Sources -> Source] /\ sources'[src].status = status
        /\ \A t \in Sources : sources'[t].seen = sources[t].seen
        /\ \A t \in Sources : t # src => sources'[t].status = sources[t].status
    BY <2>1, <2>4, <2>5
  <2>7. disabled' \subseteq Sources BY <2>1, <2>2
  <2>8. DisabledTold BY DEF Inductive
  <2>9. DisabledTold' BY <2>2, <2>6, <2>8 DEF DisabledTold
  <2>10. QED BY <2>6, <2>7, <2>9
<1>4. TypeOK' BY <1>1, <1>2, <1>3 DEF TypeOK
<1>5. RequestsFit' BY <1>2 DEF Inductive, RequestsFit, Rows
<1>6. (runs \in [Ingests -> Run])' /\ SnapshotExplainsRun'
  BY <1>2 DEF Inductive, SnapshotExplainsRun
<1>7. ASSUME OneProcess PROVE InTurn'
  <2>1. InTurn BY <1>7 DEF Inductive
  <2>2. Alone' /\ VersionsNameConfigs' BY <1>2, <2>1 DEF InTurn, Alone, VersionsNameConfigs, Rows
  <2>3. NewestLast' /\ LookupsHold'
    BY <1>2, <2>1 DEF InTurn, NewestLast, LookupsHold, ActiveOf, RowsOf, Rows
  <2>4. SeenLast' BY <1>2, <1>3, <2>1 DEF InTurn, SeenLast
  <2>5. QED BY <2>2, <2>3, <2>4 DEF InTurn
<1>8. QED BY <1>3, <1>4, <1>5, <1>6, <1>7 DEF Inductive, OneProcess

LEMMA InductiveNext == Inductive /\ [Next]_vars => Inductive'
<1> SUFFICES ASSUME Inductive, [Next]_vars PROVE Inductive' OBVIOUS
<1>1. ASSUME NEW c \in Creates, NEW p \in Processes, NEW repo \in Repos \cup {None},
             NEW s \in Offered, CreateRead(c, p, repo, s)
      PROVE  Inductive'
  BY <1>1, CreateReadKeeps
<1>2. ASSUME NEW c \in Creates, CreateCommit(c) \/ CreateFails(c) PROVE Inductive'
  BY <1>2, CreateCommitKeeps, CreateFailsKeeps
<1>3. ASSUME NEW d \in Deactivates, NEW i \in Rows, DeactivateRead(d, i) PROVE Inductive'
  BY <1>3, DeactivateReadKeeps
<1>4. ASSUME NEW d \in Deactivates, DeactivateCommit(d) PROVE Inductive'
  BY <1>4, DeactivateCommitKeeps
<1>5. ASSUME NEW r \in Ingests, NEW p \in Processes, NEW repo \in Repos, NEW x \in Receipts,
             NEW src \in Sources \cup {None}, IngestLookup(r, p, repo, x, src)
      PROVE  Inductive'
  BY <1>5, IngestLookupKeeps
<1>6. ASSUME NEW r \in Ingests, IngestSource(r) \/ IngestCommit(r) \/ IngestFails(r)
      PROVE  Inductive'
  BY <1>6, IngestSourceKeeps, IngestCommitKeeps, IngestFailsKeeps
<1>7. ASSUME NEW src \in Sources, CreateSource(src) \/ DisableSource(src) PROVE Inductive'
  BY <1>7, SourceStatusKeeps
<1>8. CASE UNCHANGED vars
  <2>1. UNCHANGED <<configs, sources, disabled, runs, create, deactivate, ingest, loop, clock>>
    BY <1>8 DEF vars
  <2>2. TypeOK' /\ RequestsFit' /\ (runs \in [Ingests -> Run])'
    BY <2>1 DEF Inductive, TypeOK, RequestsFit, Rows
  <2>3. SnapshotExplainsRun' /\ DisabledTold'
    BY <2>1 DEF Inductive, SnapshotExplainsRun, DisabledTold
  <2>4. ASSUME OneProcess PROVE InTurn'
    <3>1. InTurn BY <2>4 DEF Inductive
    <3>2. Alone' /\ VersionsNameConfigs' /\ SeenLast'
      BY <2>1, <3>1 DEF InTurn, Alone, VersionsNameConfigs, SeenLast, Rows
    <3>3. NewestLast' /\ LookupsHold'
      BY <2>1, <3>1 DEF InTurn, NewestLast, LookupsHold, ActiveOf, RowsOf, Rows
    <3>4. QED BY <3>2, <3>3 DEF InTurn
  <2>5. QED BY <2>2, <2>3, <2>4 DEF Inductive, OneProcess
<1>9. QED BY <1>1, <1>2, <1>3, <1>4, <1>5, <1>6, <1>7, <1>8 DEF Next

LEMMA AlwaysInductive == Spec => []Inductive
BY InductiveInit, InductiveNext, PTL DEF Spec

(* However many processes there are, what a run was decided by stays provable: its
   snapshot gives its decision, and is what the configuration it names still says. *)
THEOREM RunsStayExplained == Spec => []SnapshotExplainsRun
<1>1. Inductive => SnapshotExplainsRun BY DEF Inductive
<1>2. QED BY <1>1, AlwaysInductive, PTL

(* In one process _next_version, which locks nothing, never gives two configurations of a
   repository one number, and later ones have higher numbers. *)
THEOREM VersionsAreNames ==
    ASSUME OneProcess
    PROVE  Spec => []VersionsNameConfigs
<1>1. Inductive => VersionsNameConfigs BY DEF Inductive, InTurn
<1>2. QED BY <1>1, AlwaysInductive, PTL

(* In one process last_seen_at is always the time of the newest run that names the source,
   and the audit log tells of every disabled source. *)
THEOREM SourcesTell ==
    ASSUME OneProcess
    PROVE  Spec => []SourcesTellTheirRuns
<1>1. Inductive => SourcesTellTheirRuns
  <2> SUFFICES ASSUME Inductive, NEW src \in Sources
               PROVE  /\ sources[src].seen = Max({0} \cup {runs[r].stamp : r \in {q \in Ingests : runs[q].source = src}})
                      /\ src \in disabled <=> sources[src].status = "disabled"
    BY DEF SourcesTellTheirRuns
  <2> DEFINE stamps == {0} \cup {runs[r].stamp : r \in {q \in Ingests : runs[q].source = src}}
             seen == sources[src].seen
  <2>1. seen \in Nat BY DEF Inductive, TypeOK, Source
  <2>2. stamps \subseteq Nat BY DEF Inductive, Run
  <2>3. seen \in stamps /\ \A n \in stamps : seen >= n
    <3>1. /\ \A r \in Ingests : runs[r].source = src => runs[r].stamp <= seen
          /\ seen # 0 => \E r \in Ingests : runs[r].source = src /\ runs[r].stamp = seen
      BY DEF Inductive, InTurn, SeenLast
    <3> HIDE DEF seen
    <3>2. seen \in stamps BY <3>1
    <3>3. \A n \in stamps : n = 0 \/ n <= seen BY <3>1
    <3>4. \A n \in stamps : seen >= n BY <2>1, <2>2, <3>3
    <3>5. QED BY <3>2, <3>4
  <2> HIDE DEF stamps, seen
  <2>4. \A n \in stamps : (\A m \in stamps : n >= m) => n = seen BY <2>1, <2>2, <2>3
  <2>5. Max(stamps) = CHOOSE n \in stamps : \A m \in stamps : n >= m BY DEF Max
  <2>6. Max(stamps) = seen BY <2>3, <2>4, <2>5
  <2>7. src \in disabled <=> sources[src].status = "disabled" BY DEF Inductive, DisabledTold
  <2>8. QED BY <2>6, <2>7 DEF stamps, seen
<1>2. QED BY <1>1, AlwaysInductive, PTL

(* In one process no run is committed past a newer active configuration of its repository:
   between ingest's lookup and its commit none is created. *)
THEOREM NewestConfigDecides ==
    ASSUME OneProcess
    PROVE  Spec => NoNewerConfigIgnored
<1> DEFINE Decided ==
       \A r \in Ingests :
          runs'[r] # runs[r] =>
              \A i \in ActiveOf(runs'[r].repo) :
                  runs'[r].config # 0 /\ configs[i].stamp <= configs[runs'[r].config].stamp
<1>1. Inductive /\ [Next]_vars => [Decided]_vars
  <2> SUFFICES ASSUME Inductive, [Next]_vars, NEW r \in Ingests, runs'[r] # runs[r]
               PROVE  \A i \in ActiveOf(runs'[r].repo) :
                         runs'[r].config # 0 /\ configs[i].stamp <= configs[runs'[r].config].stamp
    OBVIOUS
  <2>1. runs \in [Ingests -> Run] BY DEF Inductive
  <2>2. PICK q \in Ingests : IngestCommit(q)
    BY DEF Next, vars, CreateRead, CreateReads, CreateCommit, CreateFails, DeactivateRead,
           DeactivateCommit, IngestLookup, IngestLooksUp, IngestSource, IngestFails,
           CreateSource, DisableSource
  <2>3. PICK snapshot, decision :
           runs' = [runs EXCEPT ![q] =
                      [repo |-> ingest[q].repo, config |-> ingest[q].config, snapshot |-> snapshot,
                       decision |-> decision, source |-> ingest[q].source, stamp |-> ingest[q].stamp]]
    BY <2>2 DEF IngestCommit
  <2>4. q = r BY <2>1, <2>3
  <2>5. runs'[r].repo = ingest[r].repo /\ runs'[r].config = ingest[r].config BY <2>1, <2>3, <2>4
  <2>6. ingest[r].phase \in Underway BY <2>2, <2>4 DEF IngestCommit, Underway
  <2>7. QED BY <2>5, <2>6 DEF Inductive, InTurn, LookupsHold
<1>2. QED BY <1>1, AlwaysInductive, PTL DEF Spec, NoNewerConfigIgnored
=============================================================================
