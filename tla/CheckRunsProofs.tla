---------------------------- MODULE CheckRunsProofs ----------------------------
(***************************************************************************)
(* Proofs about CheckRuns for every number of deliveries, webhooks, runs,  *)
(* receipts and faults.                                                    *)
(***************************************************************************)
EXTENDS CheckRuns, FiniteSetTheorems, SequenceTheorems, TLAPS

Handling == {"stored", "token", "create", "save", "handled"}
Owning == Handling \cup {"done", "lost"}
AtRow == {"token", "create", "save"}
OnGitHub == {"token", "patch", "comment", "save"}

(* A delivery is the one webhook's that stored it, which is the only one to make its row;
   while it is "received" that webhook is still at work, or died. *)
DeliveriesOwned ==
    /\ \A h \in Hooks : hook[h].phase \in Owning =>
          hook[h].guid \in Guids /\ delivery[hook[h].guid] # "none"
    /\ \A h, j \in Hooks :
          hook[h].phase \in Owning /\ hook[j].phase \in Owning /\ hook[h].guid = hook[j].guid => h = j
    /\ \A g \in Guids : delivery[g] = "received" =>
          \E h \in Hooks : hook[h].guid = g /\ hook[h].phase \in Handling \cup {"lost"}
    /\ \A i \in 1..Len(rows) : delivery[rows[i].of] # "none"
    /\ \A h \in Hooks : hook[h].phase = "stored" => \A i \in 1..Len(rows) : rows[i].of # hook[h].guid

RowsDistinct ==
    /\ \A i, j \in 1..Len(rows) : i # j => rows[i].of # rows[j].of
    /\ \A i, j \in 1..Len(rows) : i # j /\ rows[i].ext # 0 => rows[i].ext # rows[j].ext
    /\ \A i \in 1..Len(rows) : rows[i].ext <= Len(github)

(* A webhook works on a row of its own that has no external id yet, and the check run it
   created is queued and nobody else's. *)
HooksAtRows ==
    /\ \A h \in Hooks : hook[h].phase \in AtRow =>
          hook[h].row \in 1..Len(rows) /\ rows[hook[h].row].ext = 0
    /\ \A h, j \in Hooks :
          hook[h].phase \in AtRow /\ hook[j].phase \in AtRow /\ hook[h].row = hook[j].row => h = j
    /\ \A h \in Hooks : hook[h].phase = "save" =>
          /\ hook[h].ext \in 1..Len(github)
          /\ github[hook[h].ext].status = "queued" /\ github[hook[h].ext].conclusion = None
          /\ \A i \in 1..Len(rows) : rows[i].ext # hook[h].ext
    /\ \A h, j \in Hooks :
          hook[h].phase = "save" /\ hook[j].phase = "save" /\ hook[h].ext = hook[j].ext => h = j

(* Every check run on GitHub is paid for by a row. *)
ToCreate == {h \in Hooks : hook[h].phase \in {"token", "create"}}
ChecksCounted == IsFiniteSet(ToCreate) /\ Cardinality(ToCreate) + Len(github) <= Len(rows)

(* What a receipt in flight has read and done. *)
ReceiptKnows(q) ==
    /\ q.phase # "new" => q.run \in Runs /\ decided[q.run] \in Decisions
    /\ q.phase \in OnGitHub \cup {"local"} => q.row \in 1..Len(rows)
    /\ q.phase = "local" => early
    /\ q.phase \in OnGitHub => q.loaded.ext # 0 /\ rows[q.row].ext = q.loaded.ext
    /\ q.phase \in {"comment", "save"} => github[q.loaded.ext].status = "completed"
ReceiptsKnow == \A r \in Receipts : ReceiptKnows(receipt[r])

(* A receipt that met the newest row with its check run looks that row up, and has
   completed its check run after the first call to GitHub. *)
ReceiptCompletes(q) ==
    /\ q.met \in 0..Len(rows)
    /\ q.met # 0 => repoKnown /\ rows[q.met].ext # 0
    /\ faults = 0 /\ q.met # 0 /\ q.met = Len(rows) =>
          /\ q.phase # "local"
          /\ q.phase \in OnGitHub => q.row = q.met
          /\ q.phase \in {"comment", "save", "done"} => github[rows[q.met].ext].status = "completed"
ReceiptsComplete == \A r \in Receipts : ReceiptCompletes(receipt[r])
-----------------------------------------------------------------------------
Inductive == /\ TypeOK /\ DeliveriesOwned /\ RowsDistinct /\ HooksAtRows /\ ChecksCounted
             /\ ReceiptsKnow /\ ReceiptsComplete /\ RowNeverAheadOfGitHub
-----------------------------------------------------------------------------
Queued == [status |-> "queued", conclusion |-> None]

LEMMA NoRowTyped ==
    /\ NoRow.ext = 0 /\ NoRow.status = "queued" /\ NoRow.conclusion = None /\ NoRow.comment = 0
    /\ Queued \in Check /\ Queued.status = "queued" /\ Queued.conclusion = None
BY DEF NoRow, Queued, Check

(* Type correctness makes a row and a check run of what the tables hold. *)
LEMMA RowsTyped ==
    ASSUME TypeOK
    PROVE  /\ DOMAIN rows = 1..Len(rows) /\ Len(rows) \in Nat /\ Len(github) \in Nat /\ Len(comments) \in Nat
           /\ \A i \in 1..Len(rows) : rows[i] \in Row
           /\ \A i \in 1..Len(rows) :
                 /\ rows[i].ext \in Nat /\ rows[i].comment \in Nat /\ rows[i].of \in Guids
                 /\ rows[i].status \in {"queued", "completed"}
                 /\ rows[i].conclusion \in Conclusions \cup {None}
           /\ \A x \in 1..Len(github) : github[x] \in Check
<1>1. rows \in Seq(Row) /\ github \in Seq(Check) /\ comments \in Seq(Conclusions) BY DEF TypeOK
<1>2. \A i \in 1..Len(rows) : rows[i] \in Row BY <1>1, ElementOfSeq
<1>3. \A x \in 1..Len(github) : github[x] \in Check BY <1>1, ElementOfSeq
<1>4. /\ DOMAIN rows = 1..Len(rows) /\ Len(rows) \in Nat /\ Len(github) \in Nat
      /\ Len(comments) \in Nat
  BY <1>1, LenProperties
<1>5. QED BY <1>2, <1>3, <1>4 DEF Row

(* What no step takes back: rows and their external ids, check runs and their completion,
   decisions, the repository, and what the history has seen. *)
Grows ==
    /\ Len(rows) <= Len(rows') /\ Len(github) <= Len(github')
    /\ \A i \in 1..Len(rows) : rows[i].ext # 0 => rows'[i].ext = rows[i].ext
    /\ \A x \in 1..Len(github) : github[x].status = "completed" => github'[x].status = "completed"
    /\ \A k \in Runs : decided[k] # "none" => decided'[k] = decided[k]
    /\ early => early'
    /\ repoKnown => repoKnown'
    /\ faults <= faults'

(* So what a receipt knows and has completed stays true. *)
LEMMA ReceiptKept ==
    ASSUME Inductive, TypeOK', Grows, NEW q \in Receipt, ReceiptKnows(q), ReceiptCompletes(q)
    PROVE  ReceiptKnows(q)' /\ ReceiptCompletes(q)'
<1>1. /\ Len(rows) \in Nat /\ Len(github) \in Nat /\ Len(rows)' \in Nat /\ Len(github)' \in Nat
      /\ faults \in Nat /\ faults' \in Nat
      /\ \A i \in 1..Len(rows) : rows[i].ext \in Nat /\ rows[i].ext <= Len(github)
  <2>1. Len(rows)' \in Nat /\ Len(github)' \in Nat BY LenProperties DEF TypeOK
  <2>2. faults \in Nat /\ faults' \in Nat BY FaultBound DEF Inductive, TypeOK
  <2>3. QED BY <2>1, <2>2, RowsTyped DEF Inductive, RowsDistinct
<1>2. q.row \in Nat /\ q.met \in Nat BY DEF Receipt
<1>3. ReceiptKnows(q)'
  <2>1. q.phase # "new" => q.run \in Runs /\ decided'[q.run] \in Decisions
    BY DEF ReceiptKnows, Grows, Decisions
  <2>2. q.phase \in OnGitHub \cup {"local"} => q.row \in 1..Len(rows)' BY <1>1, <1>2 DEF ReceiptKnows, Grows
  <2>3. q.phase = "local" => early' BY DEF ReceiptKnows, Grows
  <2>4. q.phase \in OnGitHub => q.loaded.ext # 0 /\ rows'[q.row].ext = q.loaded.ext
    BY <1>1 DEF ReceiptKnows, Grows
  <2>5. q.phase \in {"comment", "save"} => github'[q.loaded.ext].status = "completed"
    <3> SUFFICES ASSUME q.phase \in {"comment", "save"} PROVE github'[q.loaded.ext].status = "completed"
      OBVIOUS
    <3>1. /\ q.row \in 1..Len(rows) /\ q.loaded.ext # 0 /\ rows[q.row].ext = q.loaded.ext
          /\ github[q.loaded.ext].status = "completed"
      BY DEF ReceiptKnows, OnGitHub
    <3>2. q.loaded.ext \in 1..Len(github) BY <1>1, <3>1
    <3>3. QED BY <3>1, <3>2 DEF Grows
  <2>6. QED BY <2>1, <2>2, <2>3, <2>4, <2>5 DEF ReceiptKnows
<1>4. ReceiptCompletes(q)'
  <2>1. q.met \in 0..Len(rows)' BY <1>1, <1>2 DEF ReceiptCompletes, Grows
  <2>2. q.met # 0 => repoKnown' /\ rows'[q.met].ext # 0 /\ q.met \in 1..Len(rows) /\ rows'[q.met].ext = rows[q.met].ext
    BY <1>1, <1>2 DEF ReceiptCompletes, Grows
  <2>3. ASSUME faults' = 0, q.met # 0, q.met = Len(rows)'
        PROVE  /\ q.phase # "local"
               /\ q.phase \in OnGitHub => q.row = q.met
               /\ q.phase \in {"comment", "save", "done"} => github'[rows'[q.met].ext].status = "completed"
    <3>1. faults = 0 /\ q.met = Len(rows) /\ rows[q.met].ext # 0
      BY <1>1, <1>2, <2>2, <2>3 DEF ReceiptCompletes, Grows
    <3>2. rows[q.met].ext \in 1..Len(github) BY <1>1, <2>2, <2>3, <3>1
    <3>3. QED BY <2>2, <2>3, <3>1, <3>2 DEF ReceiptCompletes, Grows
  <2>4. QED BY <2>1, <2>2, <2>3 DEF ReceiptCompletes
<1>5. QED BY <1>3, <1>4

LEMMA ReceiptsKept ==
    ASSUME Inductive, TypeOK', Grows, UNCHANGED receipt
    PROVE  ReceiptsKnow' /\ ReceiptsComplete'
<1> SUFFICES ASSUME NEW r \in Receipts
             PROVE  ReceiptKnows(receipt[r])' /\ ReceiptCompletes(receipt[r])'
  BY DEF ReceiptsKnow, ReceiptsComplete
<1>1. PICK q \in Receipt : q = receipt[r] BY DEF Inductive, TypeOK
<1>2. ReceiptKnows(q) /\ ReceiptCompletes(q) BY <1>1 DEF Inductive, ReceiptsKnow, ReceiptsComplete
<1>3. ReceiptKnows(q)' /\ ReceiptCompletes(q)' BY <1>2, ReceiptKept
<1>4. q = receipt'[r] BY <1>1
<1>5. QED BY <1>3, <1>4 DEF ReceiptKnows, ReceiptCompletes

LEMMA ReceiptMoves ==
    ASSUME Inductive, TypeOK', Grows, NEW r \in Receipts, NEW new \in Receipt,
           receipt' = [receipt EXCEPT ![r] = new], ReceiptKnows(new)', ReceiptCompletes(new)'
    PROVE  ReceiptsKnow' /\ ReceiptsComplete'
<1> SUFFICES ASSUME NEW s \in Receipts
             PROVE  ReceiptKnows(receipt[s])' /\ ReceiptCompletes(receipt[s])'
  BY DEF ReceiptsKnow, ReceiptsComplete
<1>1. receipt'[s] = IF s = r THEN new ELSE receipt[s] BY DEF Inductive, TypeOK
<1>2. CASE s = r
  BY <1>1, <1>2 DEF ReceiptKnows, ReceiptCompletes
<1>3. CASE s # r
  <2>1. PICK q \in Receipt : q = receipt[s] BY DEF Inductive, TypeOK
  <2>2. ReceiptKnows(q) /\ ReceiptCompletes(q) BY <2>1 DEF Inductive, ReceiptsKnow, ReceiptsComplete
  <2>3. ReceiptKnows(q)' /\ ReceiptCompletes(q)' BY <2>2, ReceiptKept
  <2>4. q = receipt'[s] BY <1>1, <1>3, <2>1
  <2>5. QED BY <2>3, <2>4 DEF ReceiptKnows, ReceiptCompletes
<1>4. QED BY <1>2, <1>3

LEMMA Unchanged ==
    ASSUME Inductive, UNCHANGED <<repoKnown, faults>>
    PROVE  /\ faults' \in 0..MaxFaults /\ faults <= faults'
           /\ repoKnown' \in BOOLEAN /\ (repoKnown => repoKnown')
<1>1. faults \in 0..MaxFaults /\ repoKnown \in BOOLEAN BY DEF Inductive, TypeOK
<1>2. faults <= faults BY <1>1, FaultBound
<1>3. QED BY <1>1, <1>2

(* A webhook goes on without touching a row; it may have created a check run. *)
Created == github' = Append(github, Queued)

(* Its delivery, *)
KeepsDelivery(h, new) ==
    /\ delivery' \in [Guids -> {"none", "received", "processed", "failed"}]
    /\ \A g \in Guids : delivery[g] # "none" => delivery'[g] # "none"
    /\ new.phase \in Owning =>
          /\ new.guid \in Guids /\ delivery'[new.guid] # "none"
          /\ \A j \in Hooks \ {h} : hook[j].phase \in Owning => hook[j].guid # new.guid
    /\ \A g \in Guids : delivery'[g] = "received" =>
          \/ new.guid = g /\ new.phase \in Handling \cup {"lost"}
          \/ /\ delivery[g] = "received"
             /\ ~(hook[h].guid = g /\ hook[h].phase \in Handling \cup {"lost"})
    /\ new.phase = "stored" => \A i \in 1..Len(rows) : rows[i].of # new.guid

(* and its row and check run. *)
KeepsRow(h, new) ==
    /\ new.phase \in AtRow => hook[h].phase \in AtRow /\ new.row = hook[h].row
    /\ new.phase \in {"token", "create"} => hook[h].phase \in {"token", "create"}
    /\ UNCHANGED github \/ (Created /\ hook[h].phase = "create" /\ new.phase \notin {"token", "create"})
    /\ new.phase = "save" => hook[h].phase = "create" /\ new.ext = Len(github) + 1 /\ Created

LEMMA HookMoves ==
    ASSUME Inductive, NEW h \in Hooks, NEW new \in Hook, hook' = [hook EXCEPT ![h] = new],
           UNCHANGED <<rows, decided, comments, receipt, early, alone>>,
           repoKnown' \in BOOLEAN, repoKnown => repoKnown', faults' \in 0..MaxFaults, faults <= faults',
           KeepsDelivery(h, new), KeepsRow(h, new)
    PROVE  Inductive'
<1> USE DEF KeepsDelivery, KeepsRow, Created
<1> USE DEF Inductive
<1>1. hook'[h] = new /\ \A j \in Hooks : j # h => hook'[j] = hook[j] BY DEF TypeOK
<1>2. github \in Seq(Check) /\ Len(github) \in Nat BY RowsTyped DEF TypeOK
<1>3. /\ github' \in Seq(Check) /\ Len(github') \in Nat /\ Len(github) <= Len(github')
      /\ \A x \in 1..Len(github) : github'[x] = github[x]
  <2>1. github' = Append(github, Queued) => github' \in Seq(Check) /\ Len(github') = Len(github) + 1
    BY <1>2, NoRowTyped, AppendProperties
  <2>2. github' = Append(github, Queued) => \A x \in 1..Len(github) : github'[x] = github[x]
    BY <1>2, NoRowTyped, AppendProperties
  <2>3. QED BY <1>2, <2>1, <2>2
<1>4. github' = Append(github, Queued) => Len(github') = Len(github) + 1 /\ github'[Len(github) + 1] = Queued
  BY <1>2, NoRowTyped
<1>5. TypeOK'
  <2>1. hook' \in [Hooks -> Hook] BY DEF TypeOK
  <2>2. QED BY <1>3, <2>1 DEF TypeOK
<1>6. Grows BY <1>3, RowsTyped DEF Grows
<1>7. DeliveriesOwned'
  <2>1. \A j \in Hooks : hook'[j].phase \in Owning =>
           hook'[j].guid \in Guids /\ delivery'[hook'[j].guid] # "none"
    BY <1>1 DEF DeliveriesOwned
  <2>2. \A i, j \in Hooks :
           hook'[i].phase \in Owning /\ hook'[j].phase \in Owning /\ hook'[i].guid = hook'[j].guid => i = j
    BY <1>1 DEF DeliveriesOwned
  <2>3. \A g \in Guids : delivery'[g] = "received" =>
           \E j \in Hooks : hook'[j].guid = g /\ hook'[j].phase \in Handling \cup {"lost"}
    BY <1>1 DEF DeliveriesOwned
  <2>4. \A i \in 1..Len(rows) : delivery'[rows[i].of] # "none" BY RowsTyped DEF DeliveriesOwned
  <2>5. \A j \in Hooks : hook'[j].phase = "stored" => \A i \in 1..Len(rows) : rows[i].of # hook'[j].guid
    BY <1>1 DEF DeliveriesOwned
  <2>6. QED BY <2>1, <2>2, <2>3, <2>4, <2>5 DEF DeliveriesOwned
<1>8. RowsDistinct' BY <1>2, <1>3, RowsTyped DEF RowsDistinct
<1>9. HooksAtRows'
  <2>1. \A j \in Hooks : hook'[j].phase \in AtRow =>
           /\ hook'[j].row \in 1..Len(rows) /\ rows[hook'[j].row].ext = 0
           /\ hook[j].phase \in AtRow /\ hook'[j].row = hook[j].row
    BY <1>1 DEF HooksAtRows
  <2>2. \A i, j \in Hooks :
           hook'[i].phase \in AtRow /\ hook'[j].phase \in AtRow /\ hook'[i].row = hook'[j].row => i = j
    BY <2>1 DEF HooksAtRows
  <2>3. \A j \in Hooks : hook'[j].phase = "save" =>
           \/ j # h /\ hook'[j] = hook[j] /\ hook[j].phase = "save" /\ hook[j].ext \in 1..Len(github)
           \/ /\ j = h /\ hook'[j].ext = Len(github) + 1 /\ Len(github') = Len(github) + 1
              /\ github'[Len(github) + 1] = Queued
    BY <1>1, <1>4 DEF HooksAtRows
  <2>4. \A j \in Hooks : hook'[j].phase = "save" =>
           /\ hook'[j].ext \in 1..Len(github')
           /\ github'[hook'[j].ext].status = "queued" /\ github'[hook'[j].ext].conclusion = None
           /\ \A i \in 1..Len(rows) : rows[i].ext # hook'[j].ext
    <3> SUFFICES ASSUME NEW j \in Hooks, hook'[j].phase = "save"
                 PROVE  /\ hook'[j].ext \in 1..Len(github')
                        /\ github'[hook'[j].ext].status = "queued" /\ github'[hook'[j].ext].conclusion = None
                        /\ \A i \in 1..Len(rows) : rows[i].ext # hook'[j].ext
      OBVIOUS
    <3>1. CASE j # h
      <4>1. hook'[j] = hook[j] /\ hook[j].phase = "save" /\ hook[j].ext \in 1..Len(github)
        BY <2>3, <3>1
      <4>2. hook[j].ext \in 1..Len(github') /\ github'[hook[j].ext] = github[hook[j].ext]
        BY <1>2, <1>3, <4>1
      <4>3. QED BY <4>1, <4>2 DEF HooksAtRows
    <3>2. CASE j = h
      <4>1. /\ hook'[j].ext = Len(github) + 1 /\ Len(github') = Len(github) + 1
            /\ github'[Len(github) + 1] = Queued
        BY <2>3, <3>2
      <4>2. \A i \in 1..Len(rows) : rows[i].ext # hook'[j].ext
        BY <1>2, <4>1, RowsTyped DEF RowsDistinct
      <4>3. QED BY <1>2, <4>1, <4>2, NoRowTyped
    <3>3. QED BY <3>1, <3>2
  <2>5. \A i, j \in Hooks :
           hook'[i].phase = "save" /\ hook'[j].phase = "save" /\ hook'[i].ext = hook'[j].ext => i = j
    BY <1>2, <2>3 DEF HooksAtRows
  <2>6. QED BY <2>1, <2>2, <2>4, <2>5 DEF HooksAtRows
<1>10. ChecksCounted'
  <2>1. IsFiniteSet(ToCreate) /\ Cardinality(ToCreate) \in Nat /\ Len(rows) \in Nat
    BY FS_CardinalityType, RowsTyped DEF ChecksCounted
  <2>2. CASE new.phase \in {"token", "create"}
    <3>1. ToCreate' = ToCreate /\ Len(github') = Len(github) BY <1>1, <2>2 DEF ToCreate
    <3>2. QED BY <3>1 DEF ChecksCounted
  <2>3. CASE new.phase \notin {"token", "create"}
    <3>1. ToCreate' = ToCreate \ {h} BY <1>1, <2>3 DEF ToCreate
    <3>2. /\ IsFiniteSet(ToCreate')
          /\ Cardinality(ToCreate') = IF h \in ToCreate THEN Cardinality(ToCreate) - 1 ELSE Cardinality(ToCreate)
      BY <2>1, <3>1, FS_RemoveElement
    <3>3. \/ Len(github') = Len(github)
          \/ Len(github') = Len(github) + 1 /\ h \in ToCreate
      BY <1>4 DEF ToCreate
    <3>4. Cardinality(ToCreate') + Len(github') <= Len(rows)
      BY <1>2, <2>1, <3>2, <3>3 DEF ChecksCounted
    <3>5. QED BY <3>2, <3>4 DEF ChecksCounted
  <2>4. QED BY <2>2, <2>3
<1>11. ReceiptsKnow' /\ ReceiptsComplete' BY <1>5, <1>6, ReceiptsKept
<1>12. RowNeverAheadOfGitHub'
  BY <1>2, <1>3, RowsTyped DEF RowNeverAheadOfGitHub, RowsDistinct
<1>13. QED BY <1>5, <1>7, <1>8, <1>9, <1>10, <1>11, <1>12

LEMMA HookTyped ==
    ASSUME TypeOK, NEW h \in Hooks
    PROVE  /\ hook[h] \in Hook
           /\ hook[h].phase \in HookPhases /\ hook[h].guid \in Guids \cup {None}
           /\ hook[h].row \in Nat /\ hook[h].ext \in Nat
BY DEF TypeOK, Hook

(* A webhook's step leads to a phase, whatever else it does. *)
LEMMA HookToPhase ==
    ASSUME TypeOK, NEW h \in Hooks, NEW p \in HookPhases
    PROVE  \E new \in Hook : /\ new = [hook[h] EXCEPT !.phase = p]
                             /\ new.phase = p /\ new.guid = hook[h].guid /\ new.row = hook[h].row
<1>1. hook[h] \in Hook BY DEF TypeOK
<1>2. [hook[h] EXCEPT !.phase = p] \in Hook BY <1>1 DEF Hook
<1>3. QED BY <1>1, <1>2 DEF Hook

(* A new or skipped webhook owns no delivery; the guid of one that does is known. *)
LEMMA HookSkipNext ==
    ASSUME Inductive, NEW h \in Hooks, NEW g \in Guids, HookSkip(h, g)
    PROVE  Inductive'
<1>1. hook[h] \in Hook BY HookTyped DEF Inductive
<1>2. PICK new \in Hook : new = [hook[h] EXCEPT !.phase = "skipped", !.guid = g] /\ new.phase = "skipped"
  <2>1. [hook[h] EXCEPT !.phase = "skipped", !.guid = g] \in Hook BY <1>1 DEF Hook, HookPhases
  <2>2. QED BY <1>1, <2>1 DEF Hook
<1>3. /\ hook' = [hook EXCEPT ![h] = new] /\ hook[h].phase = "new"
      /\ UNCHANGED <<delivery, repoKnown, rows, decided, github, comments, receipt, faults, early, alone>>
  BY <1>2 DEF HookSkip, remote, history
<1>4. new.phase \notin Owning \cup AtRow /\ hook[h].phase \notin AtRow \cup Handling \cup {"lost"}
  BY <1>2, <1>3 DEF Owning, AtRow, Handling
<1>5. faults' \in 0..MaxFaults /\ faults <= faults' /\ repoKnown' \in BOOLEAN /\ (repoKnown => repoKnown')
  BY <1>3, Unchanged
<1>6. KeepsDelivery(h, new) BY <1>2, <1>3, <1>4 DEF KeepsDelivery, Inductive, TypeOK
<1>7. KeepsRow(h, new) BY <1>2, <1>3, <1>4 DEF KeepsRow
<1>8. QED BY <1>2, <1>3, <1>5, <1>6, <1>7, HookMoves

(* store_delivery: the insert makes the webhook the delivery's only owner. *)
LEMMA HookStoreNext ==
    ASSUME Inductive, NEW h \in Hooks, NEW g \in Guids, NEW kind \in {"installation", "pull_request"},
           HookStore(h, g, kind)
    PROVE  Inductive'
<1>1. hook[h] \in Hook BY HookTyped DEF Inductive
<1>2. PICK new \in Hook : /\ new = [hook[h] EXCEPT !.phase = "stored", !.guid = g, !.kind = kind]
                          /\ new.phase = "stored" /\ new.guid = g
  <2>1. [hook[h] EXCEPT !.phase = "stored", !.guid = g, !.kind = kind] \in Hook
    BY <1>1 DEF Hook, HookPhases
  <2>2. QED BY <1>1, <2>1 DEF Hook
<1>3. /\ hook' = [hook EXCEPT ![h] = new] /\ hook[h].phase = "new"
      /\ delivery[g] = "none" /\ delivery' = [delivery EXCEPT ![g] = "received"]
      /\ UNCHANGED <<repoKnown, rows, decided, github, comments, receipt, faults, early, alone>>
  BY <1>2 DEF HookStore, Known, remote, history
<1>4. new.phase \notin AtRow /\ hook[h].phase \notin AtRow \cup Handling \cup {"lost"}
      /\ new.phase \in Handling
  BY <1>2, <1>3 DEF AtRow, Handling
<1>5. faults' \in 0..MaxFaults /\ faults <= faults' /\ repoKnown' \in BOOLEAN /\ (repoKnown => repoKnown')
  BY <1>3, Unchanged
<1>6. /\ delivery' \in [Guids -> {"none", "received", "processed", "failed"}] /\ delivery'[g] = "received"
      /\ \A k \in Guids : k # g => delivery'[k] = delivery[k]
  BY <1>3 DEF Inductive, TypeOK
<1>7. \A j \in Hooks : hook[j].phase \in Owning => hook[j].guid # g
  BY <1>3 DEF Inductive, DeliveriesOwned
<1>8. \A i \in 1..Len(rows) : rows[i].of # g BY <1>3 DEF Inductive, DeliveriesOwned
<1>9. \A k \in Guids : delivery'[k] = "received" => k = g \/ delivery[k] = "received" BY <1>6
<1>10. KeepsDelivery(h, new) BY <1>2, <1>3, <1>4, <1>6, <1>7, <1>8, <1>9 DEF KeepsDelivery
<1>11. KeepsRow(h, new) BY <1>2, <1>3, <1>4 DEF KeepsRow
<1>12. QED BY <1>2, <1>3, <1>5, <1>10, <1>11, HookMoves

(* From "stored" on the webhook keeps its delivery and its row. *)
LEMMA HookGoesOn ==
    ASSUME Inductive, NEW h \in Hooks, NEW p \in HookPhases, hook' = [hook EXCEPT ![h].phase = p],
           hook[h].phase \in Handling, p \in Owning,
           UNCHANGED <<rows, decided, comments, receipt, early, alone>>,
           repoKnown' \in BOOLEAN, repoKnown => repoKnown', faults' \in 0..MaxFaults, faults <= faults',
           \/ UNCHANGED github
           \/ /\ github' = Append(github, Queued)
              /\ hook[h].phase = "create" /\ p \notin {"token", "create"},
           delivery' \in [Guids -> {"none", "received", "processed", "failed"}],
           \A g \in Guids : delivery'[g] # delivery[g] => g = hook[h].guid /\ delivery'[g] \notin {"none", "received"},
           p = "done" => delivery'[hook[h].guid] # "received",
           p \notin {"stored", "save"}, p \in AtRow => hook[h].phase \in AtRow,
           p \in {"token", "create"} => hook[h].phase \in {"token", "create"}
    PROVE  Inductive'
<1>1. PICK new \in Hook : /\ new = [hook[h] EXCEPT !.phase = p]
                          /\ new.phase = p /\ new.guid = hook[h].guid /\ new.row = hook[h].row
  BY HookToPhase DEF Inductive
<1>2. hook' = [hook EXCEPT ![h] = new] BY <1>1
<1>3. hook[h].phase \in Owning BY DEF Owning
<1>4. /\ new.guid \in Guids /\ delivery[new.guid] # "none"
      /\ \A j \in Hooks \ {h} : hook[j].phase \in Owning => hook[j].guid # new.guid
  BY <1>1, <1>3 DEF Inductive, DeliveriesOwned
<1>5. \A g \in Guids : delivery'[g] = "received" => delivery[g] = "received" OBVIOUS
<1>6. new.phase \in Handling \cup {"lost"} \/ delivery'[hook[h].guid] # "received" BY <1>1 DEF Owning
<1>7. \A g \in Guids : delivery[g] # "none" => delivery'[g] # "none" OBVIOUS
<1>8. \A g \in Guids : delivery'[g] = "received" =>
         \/ new.guid = g /\ new.phase \in Handling \cup {"lost"}
         \/ /\ delivery[g] = "received"
            /\ ~(hook[h].guid = g /\ hook[h].phase \in Handling \cup {"lost"})
  BY <1>1, <1>5, <1>6
<1>9. KeepsDelivery(h, new) BY <1>1, <1>4, <1>7, <1>8 DEF KeepsDelivery
<1>10. KeepsRow(h, new) BY <1>1 DEF KeepsRow, Created
<1>11. QED BY <1>2, <1>9, <1>10, HookMoves

LEMMA Faulty ==
    ASSUME Inductive, Fault
    PROVE  faults' \in 0..MaxFaults /\ faults <= faults' /\ faults' # 0
<1>1. faults \in 0..MaxFaults /\ faults < MaxFaults /\ faults' = faults + 1
  BY DEF Inductive, TypeOK, Fault
<1>2. QED BY <1>1, FaultBound

LEMMA HookInstallNext ==
    ASSUME Inductive, NEW h \in Hooks, HookInstall(h)
    PROVE  Inductive'
<1>1. /\ hook' = [hook EXCEPT ![h].phase = "handled"] /\ hook[h].phase = "stored" /\ repoKnown' = TRUE
      /\ UNCHANGED <<delivery, rows, decided, github, comments, receipt, faults, early, alone>>
  BY DEF HookInstall, HookTo, remote, history
<1>2. hook[h].phase \in Handling /\ hook[h].phase \notin AtRow /\ "handled" \in HookPhases
      /\ "handled" \in Owning /\ "handled" \notin AtRow
  BY <1>1 DEF Handling, AtRow, HookPhases, Owning
<1>3. faults' \in 0..MaxFaults /\ faults <= faults'
  <2>1. faults \in 0..MaxFaults BY DEF Inductive, TypeOK
  <2>2. QED BY <1>1, <2>1, FaultBound
<1>4. repoKnown' \in BOOLEAN /\ (repoKnown => repoKnown') BY <1>1
<1>5. delivery' \in [Guids -> {"none", "received", "processed", "failed"}] BY <1>1 DEF Inductive, TypeOK
<1>6. QED BY <1>1, <1>2, <1>3, <1>4, <1>5, HookGoesOn

LEMMA HookTokenNext ==
    ASSUME Inductive, NEW h \in Hooks, HookToken(h)
    PROVE  Inductive'
<1>1. /\ hook' = [hook EXCEPT ![h].phase = "create"] /\ hook[h].phase = "token"
      /\ UNCHANGED <<delivery, repoKnown, rows, decided, github, comments, receipt, faults, early, alone>>
  BY DEF HookToken, HookTo, remote, history
<1>2. hook[h].phase \in Handling /\ hook[h].phase \in AtRow /\ "create" \in HookPhases
      /\ "create" \in Owning /\ "create" \in AtRow
  BY <1>1 DEF Handling, AtRow, HookPhases, Owning
<1>3. faults' \in 0..MaxFaults /\ faults <= faults' /\ repoKnown' \in BOOLEAN /\ (repoKnown => repoKnown')
  BY <1>1, Unchanged
<1>4. delivery' \in [Guids -> {"none", "received", "processed", "failed"}] BY <1>1 DEF Inductive, TypeOK
<1>5. QED BY <1>1, <1>2, <1>3, <1>4, HookGoesOn

(* mark_delivery_processed: the delivery is no longer "received" when its webhook is done. *)
LEMMA HookReplyNext ==
    ASSUME Inductive, NEW h \in Hooks, HookReply(h)
    PROVE  Inductive'
<1>1. /\ hook' = [hook EXCEPT ![h].phase = "done"] /\ hook[h].phase = "handled"
      /\ delivery' = [delivery EXCEPT ![hook[h].guid] = "processed"]
      /\ UNCHANGED <<repoKnown, rows, decided, github, comments, receipt, faults, early, alone>>
  BY DEF HookReply, HookTo, remote, history
<1>2. hook[h].phase \in Handling /\ hook[h].phase \notin AtRow /\ "done" \in HookPhases
      /\ "done" \in Owning /\ "done" \notin AtRow /\ hook[h].phase \in Owning
  BY <1>1 DEF Handling, AtRow, HookPhases, Owning
<1>3. faults' \in 0..MaxFaults /\ faults <= faults' /\ repoKnown' \in BOOLEAN /\ (repoKnown => repoKnown')
  BY <1>1, Unchanged
<1>4. hook[h].guid \in Guids BY <1>2 DEF Inductive, DeliveriesOwned
<1>5. /\ delivery' \in [Guids -> {"none", "received", "processed", "failed"}]
      /\ delivery'[hook[h].guid] = "processed"
      /\ \A g \in Guids : g # hook[h].guid => delivery'[g] = delivery[g]
  BY <1>1, <1>4 DEF Inductive, TypeOK
<1>6. \A g \in Guids : delivery'[g] # delivery[g] =>
         g = hook[h].guid /\ delivery'[g] \notin {"none", "received"}
  BY <1>5
<1>7. delivery'[hook[h].guid] # "received" BY <1>5
<1>8. /\ hook' = [hook EXCEPT ![h].phase = "done"]
      /\ UNCHANGED <<rows, decided, github, comments, receipt, early, alone>>
      /\ delivery' \in [Guids -> {"none", "received", "processed", "failed"}]
  BY <1>1, <1>5
<1>9. QED BY <1>2, <1>3, <1>6, <1>7, <1>8, HookGoesOn

(* create_github_check_run: the new check run is the webhook's until its row has it. *)
LEMMA HookCreateNext ==
    ASSUME Inductive, NEW h \in Hooks, HookCreate(h)
    PROVE  Inductive'
<1>1. hook[h] \in Hook /\ Len(github) \in Nat BY HookTyped, RowsTyped DEF Inductive
<1>2. PICK new \in Hook : /\ new = [hook[h] EXCEPT !.phase = "save", !.ext = Len(github) + 1]
                          /\ new.phase = "save" /\ new.ext = Len(github) + 1
                          /\ new.guid = hook[h].guid /\ new.row = hook[h].row
  <2>1. Len(github) + 1 \in Nat BY <1>1
  <2>2. [hook[h] EXCEPT !.phase = "save", !.ext = Len(github) + 1] \in Hook
    BY <1>1, <2>1 DEF Hook, HookPhases
  <2>3. QED BY <1>1, <2>2 DEF Hook
<1>3. /\ hook' = [hook EXCEPT ![h] = new] /\ hook[h].phase = "create"
      /\ UNCHANGED <<delivery, repoKnown, rows, decided, comments, receipt, faults, early, alone>>
  BY <1>2 DEF HookCreate, history
<1>4. Created BY DEF HookCreate, Created, Queued
<1>5. /\ hook[h].phase \in Handling /\ hook[h].phase \in Owning /\ hook[h].phase \in AtRow
      /\ new.phase \in Handling /\ new.phase \in Owning /\ new.phase \in AtRow
  BY <1>2, <1>3 DEF Handling, AtRow, Owning
<1>6. faults' \in 0..MaxFaults /\ faults <= faults' /\ repoKnown' \in BOOLEAN /\ (repoKnown => repoKnown')
  BY <1>3, Unchanged
<1>7. KeepsDelivery(h, new)
  <2>1. delivery' = delivery /\ delivery' \in [Guids -> {"none", "received", "processed", "failed"}]
    BY <1>3 DEF Inductive, TypeOK
  <2>2. /\ new.guid \in Guids /\ delivery'[new.guid] # "none"
        /\ \A j \in Hooks \ {h} : hook[j].phase \in Owning => hook[j].guid # new.guid
    BY <1>2, <1>5, <2>1 DEF Inductive, DeliveriesOwned
  <2>3. \A g \in Guids : delivery'[g] = "received" =>
           \/ new.guid = g /\ new.phase \in Handling \cup {"lost"}
           \/ /\ delivery[g] = "received"
              /\ ~(hook[h].guid = g /\ hook[h].phase \in Handling \cup {"lost"})
    BY <1>2, <1>5, <2>1
  <2>4. QED BY <1>2, <2>1, <2>2, <2>3 DEF KeepsDelivery
<1>8. KeepsRow(h, new) BY <1>2, <1>3, <1>4, <1>5 DEF KeepsRow
<1>9. QED BY <1>2, <1>3, <1>6, <1>7, <1>8, HookMoves

(* A failing call is swallowed, its check run made or not. *)
LEMMA HookApiFailsNext ==
    ASSUME Inductive, NEW h \in Hooks, HookApiFails(h)
    PROVE  Inductive'
<1>1. /\ hook' = [hook EXCEPT ![h].phase = "handled"] /\ hook[h].phase \in {"token", "create"} /\ Fault
      /\ UNCHANGED <<delivery, repoKnown, rows, decided, comments, receipt, early, alone>>
  BY DEF HookApiFails, HookTo, history
<1>2. hook[h].phase \in Handling /\ "handled" \in HookPhases
      /\ "handled" \in Owning /\ "handled" \notin AtRow
  BY <1>1 DEF Handling, AtRow, HookPhases, Owning
<1>3. faults' \in 0..MaxFaults /\ faults <= faults' /\ faults' # 0 BY <1>1, Faulty
<1>4. repoKnown' \in BOOLEAN /\ (repoKnown => repoKnown') BY <1>1 DEF Inductive, TypeOK
<1>5. delivery' \in [Guids -> {"none", "received", "processed", "failed"}] BY <1>1 DEF Inductive, TypeOK
<1>6. UNCHANGED github \/ (github' = Append(github, Queued) /\ hook[h].phase = "create")
  BY DEF HookApiFails, Queued
<1>7. QED BY <1>1, <1>2, <1>3, <1>4, <1>5, <1>6, HookGoesOn

(* A request that dies leaves its delivery "received" or "failed". *)
LEMMA HookLostNext ==
    ASSUME Inductive, NEW h \in Hooks, HookLost(h)
    PROVE  Inductive'
<1>1. /\ hook' = [hook EXCEPT ![h].phase = "lost"] /\ Fault
      /\ hook[h].phase \in {"stored", "token", "create", "save", "handled"}
      /\ UNCHANGED <<repoKnown, rows, decided, github, comments, receipt, early, alone>>
  BY DEF HookLost, HookTo, remote, history
<1>2. hook[h].phase \in Handling /\ "lost" \in HookPhases /\ hook[h].phase \in Owning
      /\ "lost" \in Owning /\ "lost" \notin AtRow
  BY <1>1 DEF Handling, AtRow, HookPhases, Owning
<1>3. faults' \in 0..MaxFaults /\ faults <= faults' /\ faults' # 0 BY <1>1, Faulty
<1>4. repoKnown' \in BOOLEAN /\ (repoKnown => repoKnown') BY <1>1 DEF Inductive, TypeOK
<1>5. UNCHANGED delivery \/ delivery' = [delivery EXCEPT ![hook[h].guid] = "failed"]
  BY DEF HookLost
<1>6. /\ delivery' \in [Guids -> {"none", "received", "processed", "failed"}]
      /\ \A g \in Guids : delivery'[g] # delivery[g] =>
            g = hook[h].guid /\ delivery'[g] \notin {"none", "received"}
  BY <1>5 DEF Inductive, TypeOK
<1>7. QED BY <1>1, <1>2, <1>3, <1>4, <1>6, HookGoesOn

(* The pending row is committed: the delivery's first and only one. *)
LEMMA HookRowNext ==
    ASSUME Inductive, NEW h \in Hooks, HookRow(h)
    PROVE  Inductive'
<1> USE DEF Inductive
<1> DEFINE n == Len(rows)
<1>1. /\ hook[h].phase = "stored" /\ rows' = Append(rows, [NoRow EXCEPT !.of = hook[h].guid])
      /\ hook' = [hook EXCEPT ![h].phase = "token", ![h].row = n + 1]
      /\ UNCHANGED <<delivery, repoKnown, decided, github, comments, receipt, faults, early, alone>>
  BY DEF HookRow, remote, history
<1>2. hook[h] \in Hook /\ n \in Nat /\ n + 1 \in Nat BY HookTyped, RowsTyped
<1>3. PICK new \in Hook : /\ new = [hook[h] EXCEPT !.phase = "token", !.row = n + 1]
                          /\ new.phase = "token" /\ new.row = n + 1 /\ new.guid = hook[h].guid
  <2>1. [hook[h] EXCEPT !.phase = "token", !.row = n + 1] \in Hook
    BY <1>2 DEF Hook, HookPhases
  <2>2. QED BY <1>2, <2>1 DEF Hook
<1>4. /\ hook[h].phase \in Owning /\ hook[h].phase \in Handling /\ hook[h].phase \notin AtRow
      /\ new.phase \in Owning /\ new.phase \in Handling /\ new.phase \in AtRow
  BY <1>1, <1>3 DEF Owning, Handling, AtRow
<1>5. hook[h].guid \in Guids /\ delivery[hook[h].guid] # "none" BY <1>4 DEF DeliveriesOwned
<1>6. PICK nr \in Row : /\ nr = [NoRow EXCEPT !.of = hook[h].guid]
                        /\ nr.ext = 0 /\ nr.status = "queued" /\ nr.conclusion = None /\ nr.comment = 0
                        /\ nr.of = hook[h].guid
  <2>1. [NoRow EXCEPT !.of = hook[h].guid] \in Row BY <1>5 DEF NoRow, Row
  <2>2. QED BY <2>1 DEF NoRow, Row
<1>7. /\ rows' \in Seq(Row) /\ Len(rows') = n + 1 /\ rows'[n + 1] = nr
      /\ \A i \in 1..n : rows'[i] = rows[i]
  <2>1. rows \in Seq(Row) BY DEF TypeOK
  <2>2. rows' = Append(rows, nr) BY <1>1, <1>6
  <2>3. QED BY <2>1, <2>2, AppendProperties
<1>8. hook'[h] = new /\ \A j \in Hooks : j # h => hook'[j] = hook[j] BY <1>1, <1>3 DEF TypeOK
<1>9. \A i \in 1..Len(rows') : i \in 1..n \/ i = n + 1 BY <1>2, <1>7
<1> HIDE DEF n
<1>10. /\ hook'[h].phase = "token" /\ hook'[h].row = n + 1 /\ hook'[h].guid = hook[h].guid
       /\ \A j \in Hooks : j # h => hook'[j] = hook[j]
  BY <1>3, <1>8
<1>11. /\ Len(rows') = n + 1 /\ \A i \in 1..n : rows'[i] = rows[i]
       /\ rows'[n + 1].ext = 0 /\ rows'[n + 1].status = "queued" /\ rows'[n + 1].conclusion = None
       /\ rows'[n + 1].comment = 0 /\ rows'[n + 1].of = hook[h].guid
       /\ \A i \in 1..Len(rows') : i \in 1..n \/ i = n + 1
  BY <1>6, <1>7, <1>9
<1>12. n = Len(rows) /\ n \in Nat /\ \A i \in 1..n : rows[i].ext \in Nat BY RowsTyped DEF n
<1>13. "token" \in Handling /\ "token" \in Owning /\ "token" \in AtRow
       /\ hook[h].phase \in Owning /\ hook[h].phase \in Handling /\ hook[h].phase \notin AtRow
  BY <1>3, <1>4
<1>14. TypeOK'
  <2>1. hook' = [hook EXCEPT ![h] = new] BY <1>1, <1>3
  <2>2. hook' \in [Hooks -> Hook] BY <2>1 DEF TypeOK
  <2>3. QED BY <1>1, <1>7, <2>2 DEF TypeOK
<1>15. Grows
  <2>1. n = Len(rows) /\ Len(github) \in Nat /\ faults \in Nat
    BY RowsTyped, FaultBound DEF n, TypeOK
  <2>2. Len(rows) <= Len(rows') BY <1>2, <1>7, <2>1
  <2>3. QED BY <1>1, <1>7, <2>1, <2>2 DEF Grows
<1>16. DeliveriesOwned'
  <2>1. \A j \in Hooks : hook'[j].phase \in Owning =>
           hook'[j].guid \in Guids /\ delivery[hook'[j].guid] # "none"
    BY <1>5, <1>10, <1>13 DEF DeliveriesOwned
  <2>2. \A i, j \in Hooks :
           hook'[i].phase \in Owning /\ hook'[j].phase \in Owning /\ hook'[i].guid = hook'[j].guid => i = j
    BY <1>10, <1>13 DEF DeliveriesOwned
  <2>3. \A g \in Guids : delivery[g] = "received" =>
           \E j \in Hooks : hook'[j].guid = g /\ hook'[j].phase \in Handling \cup {"lost"}
    BY <1>10, <1>13 DEF DeliveriesOwned
  <2>4. \A i \in 1..Len(rows') : delivery[rows'[i].of] # "none"
    BY <1>5, <1>11, <1>12 DEF DeliveriesOwned
  <2>5. ASSUME NEW j \in Hooks, hook'[j].phase = "stored", NEW i \in 1..Len(rows')
        PROVE  rows'[i].of # hook'[j].guid
    <3>1. j # h /\ hook'[j] = hook[j] /\ hook[j].phase = "stored" BY <1>10, <1>13, <2>5
    <3>2. hook[j].phase \in Owning BY <3>1 DEF Owning, Handling
    <3>3. hook[j].guid # hook[h].guid BY <1>4, <3>1, <3>2 DEF DeliveriesOwned
    <3>4. CASE i = n + 1 BY <1>11, <1>12, <3>1, <3>3, <3>4
    <3>5. CASE i \in 1..n BY <1>7, <3>1, <3>5, <1>12 DEF DeliveriesOwned
    <3>6. QED BY <1>9, <3>4, <3>5
  <2>6. QED BY <1>1, <2>1, <2>2, <2>3, <2>4, <2>5 DEF DeliveriesOwned
<1>17. RowsDistinct'
  <2>1. \A i \in 1..n : rows[i].of # hook[h].guid BY <1>1, <1>12 DEF DeliveriesOwned
  <2>2. \A i, j \in 1..Len(rows') : i # j => rows'[i].of # rows'[j].of
    BY <1>11, <1>12, <2>1 DEF RowsDistinct
  <2>3. \A i, j \in 1..Len(rows') : i # j /\ rows'[i].ext # 0 => rows'[i].ext # rows'[j].ext
    BY <1>11, <1>12 DEF RowsDistinct
  <2>4. \A i \in 1..Len(rows') : rows'[i].ext <= Len(github)
    BY <1>11, <1>12, RowsTyped DEF RowsDistinct
  <2>5. QED BY <1>1, <2>2, <2>3, <2>4 DEF RowsDistinct
<1>18. HooksAtRows'
  <2>1. \A j \in Hooks : hook'[j].phase \in AtRow =>
           \/ j = h /\ hook'[j].row = n + 1
           \/ j # h /\ hook[j].phase \in AtRow /\ hook'[j].row = hook[j].row /\ hook[j].row \in 1..n
              /\ rows'[hook[j].row] = rows[hook[j].row]
    BY <1>10, <1>11, <1>12, <1>13 DEF HooksAtRows
  <2>2. \A j \in Hooks : hook'[j].phase \in AtRow =>
           hook'[j].row \in 1..Len(rows') /\ rows'[hook'[j].row].ext = 0
    BY <1>2, <1>11, <1>12, <2>1 DEF HooksAtRows
  <2>3. \A i, j \in Hooks :
           hook'[i].phase \in AtRow /\ hook'[j].phase \in AtRow /\ hook'[i].row = hook'[j].row => i = j
    BY <1>2, <2>1 DEF HooksAtRows
  <2>4. \A j \in Hooks : hook'[j].phase = "save" => hook'[j] = hook[j] /\ hook[j].phase = "save"
    BY <1>10, <1>13
  <2>5. ASSUME NEW j \in Hooks, hook'[j].phase = "save"
        PROVE  /\ hook'[j].ext \in 1..Len(github)
               /\ github[hook'[j].ext].status = "queued" /\ github[hook'[j].ext].conclusion = None
               /\ \A i \in 1..Len(rows') : rows'[i].ext # hook'[j].ext
    <3>1. hook'[j] = hook[j] /\ hook[j].phase = "save" BY <2>4, <2>5
    <3>2. hook[j].ext # 0 BY <3>1 DEF HooksAtRows
    <3>3. ASSUME NEW i \in 1..Len(rows') PROVE rows'[i].ext # hook[j].ext
      <4>1. \A m \in 1..n : rows[m].ext # hook[j].ext BY <1>12, <3>1 DEF HooksAtRows
      <4>2. QED BY <1>11, <3>2, <4>1
    <3>4. QED BY <3>1, <3>3 DEF HooksAtRows
  <2>6. \A i, j \in Hooks :
           hook'[i].phase = "save" /\ hook'[j].phase = "save" /\ hook'[i].ext = hook'[j].ext => i = j
    BY <2>4 DEF HooksAtRows
  <2>7. QED BY <1>1, <2>2, <2>3, <2>5, <2>6 DEF HooksAtRows
<1>19. ChecksCounted'
  <2>1. IsFiniteSet(ToCreate) /\ Cardinality(ToCreate) \in Nat BY FS_CardinalityType DEF ChecksCounted
  <2>2. ToCreate' = ToCreate \cup {h} BY <1>10, <1>13 DEF ToCreate
  <2>3. h \notin ToCreate BY <1>1 DEF ToCreate
  <2>4. IsFiniteSet(ToCreate') /\ Cardinality(ToCreate') = Cardinality(ToCreate) + 1
    BY <2>1, <2>2, <2>3, FS_AddElement
  <2>5. Len(github) \in Nat /\ Len(github') = Len(github) /\ Cardinality(ToCreate) + Len(github) <= n
    BY <1>1, RowsTyped, <1>12 DEF ChecksCounted
  <2>6. Cardinality(ToCreate') + Len(github') <= Len(rows') BY <1>2, <1>7, <2>1, <2>4, <2>5
  <2>7. QED BY <2>4, <2>6 DEF ChecksCounted
<1>20. ReceiptsKnow' /\ ReceiptsComplete' BY <1>1, <1>14, <1>15, ReceiptsKept
<1>21. RowNeverAheadOfGitHub'
  <2> SUFFICES ASSUME ~early, NEW i \in 1..Len(rows'), rows'[i].status = "completed"
               PROVE  rows'[i].ext # 0 /\ github[rows'[i].ext].status = "completed"
    BY <1>1, <1>7, LenProperties DEF RowNeverAheadOfGitHub
  <2>1. i \in 1..n /\ rows'[i] = rows[i] BY <1>11, <1>12
  <2>2. QED BY <2>1, RowsTyped, <1>12 DEF RowNeverAheadOfGitHub
<1>22. QED BY <1>14, <1>16, <1>17, <1>18, <1>19, <1>20, <1>21

(* The row gets the external id: its check run is on GitHub, still queued. *)
LEMMA HookSaveNext ==
    ASSUME Inductive, NEW h \in Hooks, HookSave(h)
    PROVE  Inductive'
<1> USE DEF Inductive
<1> DEFINE w == hook[h].row
           x == hook[h].ext
           n == Len(rows)
<1>1. /\ hook[h].phase = "save"
      /\ rows' = [rows EXCEPT ![w].ext = x, ![w].status = "queued"]
      /\ hook' = [hook EXCEPT ![h].phase = "handled"]
      /\ UNCHANGED <<delivery, repoKnown, decided, github, comments, receipt, faults, early, alone>>
  BY DEF HookSave, HookTo, remote, history
<1>2. /\ w \in 1..n /\ rows[w].ext = 0 /\ x \in 1..Len(github) /\ x # 0
      /\ github[x].status = "queued" /\ github[x].conclusion = None
      /\ \A i \in 1..n : rows[i].ext # x
  BY <1>1 DEF HooksAtRows, AtRow
<1>3. /\ n \in Nat /\ Len(github) \in Nat /\ rows[w] \in Row /\ rows \in Seq(Row) /\ x \in Nat
      /\ \A i \in 1..n : rows[i].ext \in Nat
  BY <1>2, RowsTyped DEF TypeOK
<1>4. PICK nr \in Row : /\ nr = [rows[w] EXCEPT !.ext = x, !.status = "queued"]
                        /\ nr.ext = x /\ nr.status = "queued" /\ nr.conclusion = rows[w].conclusion
                        /\ nr.comment = rows[w].comment /\ nr.of = rows[w].of
  <2>1. [rows[w] EXCEPT !.ext = x, !.status = "queued"] \in Row BY <1>3 DEF Row
  <2>2. QED BY <1>3, <2>1 DEF Row
<1>5. rows' = [rows EXCEPT ![w] = nr] BY <1>1, <1>4
<1>6. /\ rows' \in Seq(Row) /\ Len(rows') = n
      /\ \A i \in 1..n : rows'[i] = IF i = w THEN nr ELSE rows[i]
  BY <1>2, <1>3, <1>5, ExceptSeq
<1>7. PICK new \in Hook : /\ new = [hook[h] EXCEPT !.phase = "handled"]
                          /\ new.phase = "handled" /\ new.guid = hook[h].guid /\ new.row = hook[h].row
  BY HookToPhase DEF HookPhases
<1>8. hook' = [hook EXCEPT ![h] = new] BY <1>1, <1>7
<1>9. /\ hook'[h].phase = "handled" /\ hook'[h].guid = hook[h].guid
      /\ \A j \in Hooks : j # h => hook'[j] = hook[j]
  BY <1>7, <1>8 DEF TypeOK
<1>10. /\ Len(rows') = n /\ rows'[w].ext = x /\ rows'[w].status = "queued"
       /\ rows'[w].conclusion = rows[w].conclusion /\ rows'[w].comment = rows[w].comment
       /\ \A i \in 1..n : i # w => rows'[i] = rows[i]
       /\ \A i \in 1..n : rows'[i].of = rows[i].of
  BY <1>2, <1>4, <1>6
<1>11. /\ "handled" \in Handling /\ "handled" \in Owning /\ "handled" \notin AtRow
       /\ "save" \in Handling /\ "save" \in Owning /\ "save" \in AtRow
  BY DEF Handling, Owning, AtRow
<1>12. n = Len(rows) OBVIOUS
<1>13. UNCHANGED <<delivery, repoKnown, decided, github, comments, receipt, faults, early, alone>>
  BY <1>1
<1>14. DOMAIN rows' = 1..n BY <1>6, LenProperties
<1> HIDE DEF n
<1>15. TypeOK'
  <2>1. hook' \in [Hooks -> Hook] BY <1>8 DEF TypeOK
  <2>2. QED BY <1>1, <1>6, <2>1 DEF TypeOK
<1>16. Grows
  <2>1. faults \in Nat BY FaultBound DEF TypeOK
  <2>2. \A i \in 1..n : rows[i].ext # 0 => rows'[i].ext = rows[i].ext BY <1>2, <1>10
  <2>3. Len(rows) <= Len(rows') /\ Len(github) <= Len(github') BY <1>3, <1>10, <1>12, <1>13
  <2>4. QED BY <1>12, <1>13, <2>1, <2>2, <2>3 DEF Grows
<1>17. DeliveriesOwned'
  <2>1. \A j \in Hooks : hook'[j].phase \in Owning =>
           hook'[j].guid \in Guids /\ delivery[hook'[j].guid] # "none"
    BY <1>1, <1>9, <1>11 DEF DeliveriesOwned
  <2>2. \A i, j \in Hooks :
           hook'[i].phase \in Owning /\ hook'[j].phase \in Owning /\ hook'[i].guid = hook'[j].guid => i = j
    BY <1>1, <1>9, <1>11 DEF DeliveriesOwned
  <2>3. \A g \in Guids : delivery[g] = "received" =>
           \E j \in Hooks : hook'[j].guid = g /\ hook'[j].phase \in Handling \cup {"lost"}
    BY <1>1, <1>9, <1>11 DEF DeliveriesOwned
  <2>4. \A i \in 1..n : delivery[rows'[i].of] # "none" BY <1>10, <1>12 DEF DeliveriesOwned
  <2>5. \A j \in Hooks : hook'[j].phase = "stored" => \A i \in 1..n : rows'[i].of # hook'[j].guid
    BY <1>9, <1>10, <1>12 DEF DeliveriesOwned
  <2>6. QED BY <1>1, <1>10, <2>1, <2>2, <2>3, <2>4, <2>5 DEF DeliveriesOwned
<1>18. RowsDistinct'
  <2>1. \A i, j \in 1..n : i # j => rows'[i].of # rows'[j].of BY <1>10, <1>12 DEF RowsDistinct
  <2>2. \A i, j \in 1..n : i # j /\ rows'[i].ext # 0 => rows'[i].ext # rows'[j].ext
    BY <1>2, <1>10, <1>12 DEF RowsDistinct
  <2>3. \A i \in 1..n : rows'[i].ext <= Len(github) BY <1>2, <1>3, <1>10, <1>12 DEF RowsDistinct
  <2>4. QED BY <1>1, <1>10, <2>1, <2>2, <2>3 DEF RowsDistinct
<1>19. HooksAtRows'
  <2>1. \A j \in Hooks : hook'[j].phase \in AtRow =>
           j # h /\ hook'[j] = hook[j] /\ hook[j].phase \in AtRow
    BY <1>9, <1>11
  <2>2. \A j \in Hooks : hook'[j].phase \in AtRow => hook'[j].row # w
    BY <1>1, <1>11, <2>1 DEF HooksAtRows
  <2>3. \A j \in Hooks : hook'[j].phase \in AtRow =>
           hook'[j].row \in 1..n /\ rows'[hook'[j].row].ext = 0
    BY <1>10, <1>12, <2>1, <2>2 DEF HooksAtRows
  <2>4. \A i, j \in Hooks :
           hook'[i].phase \in AtRow /\ hook'[j].phase \in AtRow /\ hook'[i].row = hook'[j].row => i = j
    BY <2>1 DEF HooksAtRows
  <2>5. \A j \in Hooks : hook'[j].phase = "save" =>
           j # h /\ hook'[j] = hook[j] /\ hook[j].phase = "save" /\ hook[j].ext # x
    BY <1>1, <1>9 DEF HooksAtRows
  <2>6. ASSUME NEW j \in Hooks, hook'[j].phase = "save"
        PROVE  /\ hook'[j].ext \in 1..Len(github)
               /\ github[hook'[j].ext].status = "queued" /\ github[hook'[j].ext].conclusion = None
               /\ \A i \in 1..n : rows'[i].ext # hook'[j].ext
    <3>1. hook'[j] = hook[j] /\ hook[j].phase = "save" /\ hook[j].ext # x BY <2>5, <2>6
    <3>2. /\ hook[j].ext \in 1..Len(github)
          /\ github[hook[j].ext].status = "queued" /\ github[hook[j].ext].conclusion = None
          /\ \A i \in 1..n : rows[i].ext # hook[j].ext
      BY <1>12, <3>1 DEF HooksAtRows
    <3>3. \A i \in 1..n : rows'[i].ext # hook[j].ext BY <1>10, <3>1, <3>2
    <3>4. QED BY <3>1, <3>2, <3>3
  <2>7. \A i, j \in Hooks :
           hook'[i].phase = "save" /\ hook'[j].phase = "save" /\ hook'[i].ext = hook'[j].ext => i = j
    BY <2>5 DEF HooksAtRows
  <2>8. QED BY <1>1, <1>10, <2>3, <2>4, <2>6, <2>7 DEF HooksAtRows
<1>20. ChecksCounted'
  <2>1. ToCreate' = ToCreate BY <1>1, <1>9 DEF ToCreate
  <2>2. QED BY <1>1, <1>10, <1>12, <2>1 DEF ChecksCounted
<1>21. ReceiptsKnow' /\ ReceiptsComplete' BY <1>1, <1>15, <1>16, ReceiptsKept
<1>22. RowNeverAheadOfGitHub'
  <2> SUFFICES ASSUME ~early, NEW i \in 1..n, rows'[i].status = "completed"
               PROVE  rows'[i].ext # 0 /\ github[rows'[i].ext].status = "completed"
    BY <1>13, <1>14 DEF RowNeverAheadOfGitHub
  <2>1. i # w /\ rows'[i] = rows[i] BY <1>10
  <2>2. QED BY <1>12, <2>1, RowsTyped DEF RowNeverAheadOfGitHub
<1>23. QED BY <1>15, <1>17, <1>18, <1>19, <1>20, <1>21, <1>22

-----------------------------------------------------------------------------
LEMMA ShownTyped ==
    ASSUME NEW d \in Decisions PROVE Conclusion[d] \in Conclusions
BY DEF Conclusion, Conclusions, Decisions

LEMMA ReceiptTyped ==
    ASSUME TypeOK, NEW r \in Receipts
    PROVE  /\ receipt[r] \in Receipt /\ receipt[r].phase \in ReceiptPhases
           /\ receipt[r].row \in Nat /\ receipt[r].met \in Nat /\ receipt[r].comment \in Nat
           /\ receipt[r].run \in Runs \cup {None} /\ receipt[r].loaded \in Row \cup {NoRow}
BY DEF TypeOK, Receipt

(* No receipt adds a row or a check run or changes an external id.  It touches check runs
   that a row has, never the one a webhook is about to save, and completes a row alone
   only when it came before the external id. *)
ReceiptFrame ==
    /\ UNCHANGED <<delivery, repoKnown, hook>>
    /\ Len(rows') = Len(rows) /\ Len(github') = Len(github)
    /\ \A i \in 1..Len(rows) : rows'[i].of = rows[i].of /\ rows'[i].ext = rows[i].ext
    /\ \A x \in 1..Len(github) : github'[x] # github[x] =>
          github'[x].status = "completed" /\ \E i \in 1..Len(rows) : rows[i].ext = x
    /\ \A i \in 1..Len(rows) : rows'[i].status = "completed" =>
          \/ early' \/ rows[i].status = "completed"
          \/ rows[i].ext # 0 /\ github[rows[i].ext].status = "completed"
    /\ \A k \in Runs : decided[k] # "none" => decided'[k] = decided[k]
    /\ (early => early') /\ faults <= faults'

LEMMA ReceiptTakes ==
    ASSUME Inductive, TypeOK', ReceiptFrame, NEW r \in Receipts, NEW new \in Receipt,
           receipt' = [receipt EXCEPT ![r] = new],
           ReceiptKnows(new)', ReceiptCompletes(new)'
    PROVE  Inductive'
<1> USE DEF Inductive
<1>1. /\ DOMAIN rows = 1..Len(rows) /\ Len(rows) \in Nat /\ Len(github) \in Nat
      /\ \A i \in 1..Len(rows) : rows[i].ext \in Nat
  BY RowsTyped
<1>2. DOMAIN rows' = 1..Len(rows)' BY LenProperties DEF TypeOK
<1>3. /\ UNCHANGED <<delivery, repoKnown, hook>>
      /\ Len(rows') = Len(rows) /\ Len(github') = Len(github)
      /\ \A i \in 1..Len(rows) : rows'[i].of = rows[i].of /\ rows'[i].ext = rows[i].ext
  BY DEF ReceiptFrame
<1>4. \A i \in 1..Len(rows) : rows[i].ext # 0 => rows[i].ext \in 1..Len(github)
  BY <1>1 DEF RowsDistinct
<1>5. Grows BY <1>1, <1>3 DEF Grows, ReceiptFrame
<1>6. DeliveriesOwned' BY <1>3 DEF DeliveriesOwned
<1>7. RowsDistinct' BY <1>3 DEF RowsDistinct
<1>8. HooksAtRows'
  <2>1. \A h \in Hooks : hook[h].phase \in AtRow =>
           hook[h].row \in 1..Len(rows) /\ rows'[hook[h].row].ext = 0
    BY <1>3 DEF HooksAtRows
  <2>2. ASSUME NEW h \in Hooks, hook[h].phase = "save"
        PROVE  /\ hook[h].ext \in 1..Len(github)
               /\ github'[hook[h].ext].status = "queued" /\ github'[hook[h].ext].conclusion = None
               /\ \A i \in 1..Len(rows) : rows'[i].ext # hook[h].ext
    <3>1. hook[h].ext \in 1..Len(github) /\ \A i \in 1..Len(rows) : rows[i].ext # hook[h].ext
      BY <2>2 DEF HooksAtRows
    <3>2. github'[hook[h].ext] = github[hook[h].ext] BY <3>1 DEF ReceiptFrame
    <3>3. QED BY <1>3, <2>2, <3>1, <3>2 DEF HooksAtRows
  <2>3. QED BY <1>3, <2>1, <2>2 DEF HooksAtRows
<1>9. ChecksCounted'
  <2>1. ToCreate' = ToCreate BY <1>3 DEF ToCreate
  <2>2. QED BY <1>3, <2>1 DEF ChecksCounted
<1>10. ReceiptsKnow' /\ ReceiptsComplete' BY <1>5, ReceiptMoves
<1>11. RowNeverAheadOfGitHub'
  <2> SUFFICES ASSUME ~early', NEW i \in 1..Len(rows), rows'[i].status = "completed"
               PROVE  rows'[i].ext # 0 /\ github'[rows'[i].ext].status = "completed"
    BY <1>2, <1>3 DEF RowNeverAheadOfGitHub
  <2>1. ~early /\ (rows[i].status = "completed" \/ (rows[i].ext # 0 /\ github[rows[i].ext].status = "completed"))
    BY DEF ReceiptFrame
  <2>2. rows[i].ext # 0 /\ github[rows[i].ext].status = "completed"
    BY <1>1, <2>1 DEF RowNeverAheadOfGitHub
  <2>3. rows[i].ext \in 1..Len(github) BY <1>4, <2>2
  <2>4. QED BY <1>3, <1>5, <2>2, <2>3 DEF Grows
<1>12. QED BY <1>6, <1>7, <1>8, <1>9, <1>10, <1>11

(* Nothing but receipts, decisions and history changes: the frame holds. *)
LEMMA FrameKept ==
    ASSUME Inductive, UNCHANGED <<delivery, repoKnown, rows, github, hook>>,
           \A k \in Runs : decided[k] # "none" => decided'[k] = decided[k],
           early => early', faults <= faults'
    PROVE  ReceiptFrame
<1>1. \A i \in 1..Len(rows) : rows'[i] = rows[i] OBVIOUS
<1>2. QED BY <1>1 DEF ReceiptFrame

(* store_run decides the run once; the receipt notes the newest check run it met. *)
LEMMA ReceiptDecideNext ==
    ASSUME Inductive, NEW r \in Receipts, NEW k \in Runs, NEW d \in Decisions, ReceiptDecide(r, k, d)
    PROVE  Inductive'
<1>1. /\ receipt[r].phase = "new" /\ decided[k] \in {"none", d} /\ decided' = [decided EXCEPT ![k] = d]
      /\ UNCHANGED <<delivery, repoKnown, rows, github, comments, hook, faults, early, alone>>
  BY DEF ReceiptDecide, remote, history
<1>2. /\ receipt[r] \in Receipt /\ Newest \in 0..Len(rows) /\ Newest \in Nat
      /\ Newest # 0 => repoKnown /\ rows[Newest].ext # 0
  <2>1. Len(rows) \in Nat /\ receipt[r] \in Receipt BY RowsTyped, ReceiptTyped DEF Inductive
  <2>2. rows # << >> => Len(rows) # 0 BY EmptySeq DEF Inductive, TypeOK
  <2>3. QED BY <2>1, <2>2 DEF Newest
<1>3. PICK new \in Receipt : /\ new = [receipt[r] EXCEPT !.phase = "decided", !.run = k, !.met = Newest]
                             /\ new.phase = "decided" /\ new.run = k /\ new.met = Newest
  <2>1. [receipt[r] EXCEPT !.phase = "decided", !.run = k, !.met = Newest] \in Receipt
    BY <1>2 DEF Receipt, ReceiptPhases
  <2>2. QED BY <1>2, <2>1 DEF Receipt
<1>4. receipt' = [receipt EXCEPT ![r] = new] BY <1>3 DEF ReceiptDecide
<1>5. /\ decided' \in [Runs -> Decisions \cup {"none"}] /\ decided'[k] = d
      /\ \A m \in Runs : decided[m] # "none" => decided'[m] = decided[m]
  BY <1>1 DEF Inductive, TypeOK
<1>6. TypeOK'
  <2>1. receipt' \in [Receipts -> Receipt] BY <1>4 DEF Inductive, TypeOK
  <2>2. QED BY <1>1, <1>5, <2>1 DEF Inductive, TypeOK
<1>7. ReceiptFrame
  <2>1. faults <= faults' BY <1>1, Unchanged
  <2>2. QED BY <1>1, <1>5, <2>1, FrameKept
<1>8. ReceiptKnows(new)' BY <1>3, <1>5 DEF ReceiptKnows, OnGitHub
<1>9. ReceiptCompletes(new)' BY <1>1, <1>2, <1>3 DEF ReceiptCompletes, OnGitHub
<1>10. QED BY <1>4, <1>6, <1>7, <1>8, <1>9, ReceiptTakes

(* The fields a step to another phase leaves alone. *)
LEMMA ReceiptToPhase ==
    ASSUME TypeOK, NEW r \in Receipts, NEW p \in ReceiptPhases
    PROVE  \E new \in Receipt :
              /\ new = [receipt[r] EXCEPT !.phase = p]
              /\ new.phase = p /\ new.run = receipt[r].run /\ new.row = receipt[r].row
              /\ new.loaded = receipt[r].loaded /\ new.met = receipt[r].met
              /\ new.comment = receipt[r].comment
<1>1. receipt[r] \in Receipt BY DEF TypeOK
<1>2. [receipt[r] EXCEPT !.phase = p] \in Receipt BY <1>1 DEF Receipt
<1>3. QED BY <1>1, <1>2 DEF Receipt

(* find_check_run_for_commit finds no row, so the receipt met none. *)
LEMMA ReceiptNoRowNext ==
    ASSUME Inductive, NEW r \in Receipts, ReceiptNoRow(r)
    PROVE  Inductive'
<1>1. /\ receipt[r].phase = "decided" /\ Found = 0 /\ receipt' = [receipt EXCEPT ![r].phase = "done"]
      /\ UNCHANGED <<delivery, repoKnown, rows, decided, github, comments, hook, faults, early, alone>>
  BY DEF ReceiptNoRow, ReceiptTo, remote, history
<1>2. PICK new \in Receipt :
         /\ new = [receipt[r] EXCEPT !.phase = "done"]
         /\ new.phase = "done" /\ new.run = receipt[r].run /\ new.met = receipt[r].met
  BY ReceiptToPhase DEF Inductive, ReceiptPhases
<1>3. receipt' = [receipt EXCEPT ![r] = new] BY <1>1, <1>2
<1>4. TypeOK'
  <2>1. receipt' \in [Receipts -> Receipt] BY <1>3 DEF Inductive, TypeOK
  <2>2. QED BY <1>1, <2>1 DEF Inductive, TypeOK
<1>5. ReceiptFrame
  <2>1. faults <= faults' BY <1>1, Unchanged
  <2>2. QED BY <1>1, <2>1, FrameKept
<1>6. ReceiptKnows(receipt[r]) /\ ReceiptCompletes(receipt[r])
  BY DEF Inductive, ReceiptsKnow, ReceiptsComplete
<1>7. ReceiptKnows(new)' BY <1>1, <1>2, <1>6 DEF ReceiptKnows, OnGitHub
<1>8. ReceiptCompletes(new)'
  <2>1. new.met = 0 \/ new.met # Len(rows) BY <1>1, <1>2, <1>6 DEF ReceiptCompletes, Found
  <2>2. QED BY <1>1, <1>2, <1>6, <2>1 DEF ReceiptCompletes
<1>9. QED BY <1>3, <1>4, <1>5, <1>7, <1>8, ReceiptTakes

(* The lookup loads the newest row, the one the receipt met if there is none since. *)
LEMMA ReceiptLookupNext ==
    ASSUME Inductive, NEW r \in Receipts, ReceiptLookup(r)
    PROVE  Inductive'
<1> DEFINE p == IF rows[Found].ext = 0 THEN "local" ELSE "token"
<1>1. /\ receipt[r].phase = "decided" /\ Found # 0
      /\ receipt' = [receipt EXCEPT ![r].phase = p, ![r].row = Found, ![r].loaded = rows[Found]]
      /\ early' = (early \/ rows[Found].ext = 0)
      /\ alone' \subseteq alone \cup {r}
      /\ UNCHANGED <<delivery, repoKnown, rows, decided, github, comments, hook, faults>>
  BY DEF ReceiptLookup, remote
<1>2. /\ Found = Len(rows) /\ Found \in 1..Len(rows) /\ rows[Found] \in Row /\ Found \in Nat
      /\ receipt[r] \in Receipt
  <2>1. Len(rows) \in Nat /\ receipt[r] \in Receipt BY RowsTyped, ReceiptTyped DEF Inductive
  <2>2. Found = Len(rows) BY <1>1 DEF Found
  <2>3. Found \in 1..Len(rows) BY <1>1, <2>1, <2>2
  <2>4. QED BY <2>1, <2>2, <2>3, RowsTyped DEF Inductive
<1>3. PICK new \in Receipt :
         /\ new = [receipt[r] EXCEPT !.phase = p, !.row = Found, !.loaded = rows[Found]]
         /\ new.phase = p /\ new.row = Found /\ new.loaded = rows[Found]
         /\ new.run = receipt[r].run /\ new.met = receipt[r].met
  <2>1. p \in ReceiptPhases BY DEF ReceiptPhases
  <2> HIDE DEF p
  <2>2. [receipt[r] EXCEPT !.phase = p, !.row = Found, !.loaded = rows[Found]] \in Receipt
    BY <1>2, <2>1 DEF Receipt
  <2>3. QED BY <1>2, <2>2 DEF Receipt
<1>4. receipt' = [receipt EXCEPT ![r] = new] BY <1>1, <1>3
<1>5. /\ new.row = Found /\ new.loaded = rows[Found]
      /\ new.run = receipt[r].run /\ new.met = receipt[r].met
      /\ \/ new.phase = "local" /\ rows[Found].ext = 0 /\ early'
         \/ new.phase = "token" /\ rows[Found].ext # 0
  BY <1>1, <1>3
<1>6. TypeOK'
  <2>1. receipt' \in [Receipts -> Receipt] BY <1>4 DEF Inductive, TypeOK
  <2>2. early' \in BOOLEAN /\ alone' \subseteq Receipts BY <1>1 DEF Inductive, TypeOK
  <2>3. QED BY <1>1, <2>1, <2>2 DEF Inductive, TypeOK
<1>7. ReceiptFrame
  <2>1. faults <= faults' BY <1>1, Unchanged
  <2>2. early => early' BY <1>1
  <2>3. QED BY <1>1, <2>1, <2>2, FrameKept
<1>8. ReceiptKnows(receipt[r]) /\ ReceiptCompletes(receipt[r])
  BY DEF Inductive, ReceiptsKnow, ReceiptsComplete
<1>9. UNCHANGED <<delivery, repoKnown, rows, decided, github, comments, hook, faults>>
  BY <1>1
<1> HIDE DEF p
<1>10. ReceiptKnows(new)'
  <2>1. new.phase \notin {"new", "comment", "save"} BY <1>5
  <2>2. new.run \in Runs /\ decided[new.run] \in Decisions BY <1>1, <1>5, <1>8 DEF ReceiptKnows
  <2>3. QED BY <1>2, <1>5, <1>9, <2>1, <2>2 DEF ReceiptKnows, OnGitHub
<1>11. ReceiptCompletes(new)'
  <2>1. new.met # 0 /\ new.met = Len(rows) => new.phase = "token" /\ new.row = new.met
    BY <1>2, <1>5, <1>8 DEF ReceiptCompletes
  <2>2. new.phase \notin {"comment", "save", "done"} BY <1>5
  <2>3. QED BY <1>5, <1>8, <1>9, <2>1, <2>2 DEF ReceiptCompletes
<1>12. QED BY <1>4, <1>6, <1>7, <1>10, <1>11, ReceiptTakes

LEMMA ReceiptTokenNext ==
    ASSUME Inductive, NEW r \in Receipts, ReceiptToken(r)
    PROVE  Inductive'
<1>1. /\ receipt[r].phase = "token" /\ receipt' = [receipt EXCEPT ![r].phase = "patch"]
      /\ UNCHANGED <<delivery, repoKnown, rows, decided, github, comments, hook, faults, early, alone>>
  BY DEF ReceiptToken, ReceiptTo, remote, history
<1>2. PICK new \in Receipt :
         /\ new = [receipt[r] EXCEPT !.phase = "patch"]
         /\ new.phase = "patch" /\ new.run = receipt[r].run /\ new.row = receipt[r].row
         /\ new.loaded = receipt[r].loaded /\ new.met = receipt[r].met
  BY ReceiptToPhase DEF Inductive, ReceiptPhases
<1>3. receipt' = [receipt EXCEPT ![r] = new] BY <1>1, <1>2
<1>4. TypeOK'
  <2>1. receipt' \in [Receipts -> Receipt] BY <1>3 DEF Inductive, TypeOK
  <2>2. QED BY <1>1, <2>1 DEF Inductive, TypeOK
<1>5. ReceiptFrame
  <2>1. faults <= faults' BY <1>1, Unchanged
  <2>2. QED BY <1>1, <2>1, FrameKept
<1>6. ReceiptKnows(receipt[r]) /\ ReceiptCompletes(receipt[r])
  BY DEF Inductive, ReceiptsKnow, ReceiptsComplete
<1>7. ReceiptKnows(new)' BY <1>1, <1>2, <1>6 DEF ReceiptKnows, OnGitHub
<1>8. ReceiptCompletes(new)' BY <1>1, <1>2, <1>6 DEF ReceiptCompletes, OnGitHub
<1>9. QED BY <1>3, <1>4, <1>5, <1>7, <1>8, ReceiptTakes

(* A receipt that dies takes nothing along. *)
LEMMA ReceiptLostNext ==
    ASSUME Inductive, NEW r \in Receipts, ReceiptLost(r)
    PROVE  Inductive'
<1>1. /\ receipt[r].phase # "new" /\ receipt' = [receipt EXCEPT ![r].phase = "lost"] /\ Fault
      /\ alone' = alone \ {r}
      /\ UNCHANGED <<delivery, repoKnown, rows, decided, github, comments, hook, early>>
  BY DEF ReceiptLost, ReceiptTo, remote, history
<1>2. faults' \in 0..MaxFaults /\ faults <= faults' /\ faults' # 0 BY <1>1, Faulty
<1>3. PICK new \in Receipt :
         /\ new = [receipt[r] EXCEPT !.phase = "lost"]
         /\ new.phase = "lost" /\ new.run = receipt[r].run /\ new.met = receipt[r].met
  BY ReceiptToPhase DEF Inductive, ReceiptPhases
<1>4. receipt' = [receipt EXCEPT ![r] = new] BY <1>1, <1>3
<1>5. TypeOK'
  <2>1. receipt' \in [Receipts -> Receipt] BY <1>4 DEF Inductive, TypeOK
  <2>2. QED BY <1>1, <1>2, <2>1 DEF Inductive, TypeOK
<1>6. ReceiptFrame BY <1>1, <1>2, FrameKept
<1>7. ReceiptKnows(receipt[r]) /\ ReceiptCompletes(receipt[r])
  BY DEF Inductive, ReceiptsKnow, ReceiptsComplete
<1>8. ReceiptKnows(new)' BY <1>1, <1>3, <1>7 DEF ReceiptKnows, OnGitHub
<1>9. ReceiptCompletes(new)' BY <1>1, <1>2, <1>3, <1>7 DEF ReceiptCompletes
<1>10. QED BY <1>4, <1>5, <1>6, <1>8, <1>9, ReceiptTakes

(* What a receipt at work on GitHub holds. *)
LEMMA AtGitHub ==
    ASSUME Inductive, NEW r \in Receipts, receipt[r].phase \in OnGitHub
    PROVE  /\ receipt[r] \in Receipt
           /\ receipt[r].run \in Runs /\ decided[receipt[r].run] \in Decisions
           /\ Shown(r) \in Conclusions
           /\ receipt[r].row \in 1..Len(rows)
           /\ receipt[r].loaded.ext \in 1..Len(github) /\ receipt[r].loaded.ext # 0
           /\ rows[receipt[r].row].ext = receipt[r].loaded.ext
           /\ receipt[r].loaded \in Row
<1>1. ReceiptKnows(receipt[r]) /\ receipt[r].phase # "new" /\ receipt[r] \in Receipt
  BY ReceiptTyped DEF Inductive, ReceiptsKnow, OnGitHub
<1>2. Shown(r) \in Conclusions BY <1>1, ShownTyped DEF ReceiptKnows, Shown
<1>3. receipt[r].loaded.ext \in 1..Len(github)
  BY <1>1, RowsTyped DEF Inductive, RowsDistinct, ReceiptKnows
<1>4. receipt[r].loaded \in Row BY <1>1, NoRowTyped DEF Receipt, ReceiptKnows
<1>5. QED BY <1>1, <1>2, <1>3, <1>4 DEF ReceiptKnows

(* update_check_run completes the receipt's check run, *)
LEMMA PatchedCompletes ==
    ASSUME Inductive, NEW r \in Receipts, receipt[r].phase \in OnGitHub
    PROVE  /\ Patched(r) \in Seq(Check) /\ Len(Patched(r)) = Len(github)
           /\ Patched(r)[receipt[r].loaded.ext] = [status |-> "completed", conclusion |-> Shown(r)]
           /\ Patched(r)[receipt[r].loaded.ext].status = "completed"
           /\ Patched(r)[receipt[r].loaded.ext].conclusion = Shown(r)
           /\ \A x \in 1..Len(github) : x # receipt[r].loaded.ext => Patched(r)[x] = github[x]
<1> DEFINE x == receipt[r].loaded.ext
           c == [status |-> "completed", conclusion |-> Shown(r)]
<1>1. x \in 1..Len(github) /\ Shown(r) \in Conclusions /\ github \in Seq(Check)
  BY AtGitHub DEF Inductive, TypeOK
<1>2. c \in Check /\ c.status = "completed" /\ c.conclusion = Shown(r) BY <1>1 DEF Check
<1>3. Patched(r) = [github EXCEPT ![x] = c] BY DEF Patched
<1> HIDE DEF x, c
<1>4. /\ Patched(r) \in Seq(Check) /\ Len(Patched(r)) = Len(github)
      /\ \A j \in 1..Len(github) : Patched(r)[j] = IF j = x THEN c ELSE github[j]
  BY <1>1, <1>2, <1>3, ExceptSeq
<1>5. QED BY <1>1, <1>2, <1>4 DEF x, c

(* and upsert_pr_comment writes one comment. *)
LEMMA CommentedTyped ==
    ASSUME Inductive, NEW r \in Receipts, receipt[r].phase \in OnGitHub
    PROVE  Commented(r) \in Seq(Conclusions)
<1>1. Shown(r) \in Conclusions /\ comments \in Seq(Conclusions)
  BY AtGitHub DEF Inductive, TypeOK
<1>2. CASE receipt[r].loaded.comment = 0
  <2>1. Commented(r) = Append(comments, Shown(r)) BY <1>2 DEF Commented
  <2>2. QED BY <1>1, <2>1, AppendProperties
<1>3. CASE receipt[r].loaded.comment # 0
  <2> DEFINE e == receipt[r].loaded.comment
  <2>1. Commented(r) = [comments EXCEPT ![e] = Shown(r)] BY <1>3 DEF Commented
  <2>2. CASE e \in 1..Len(comments) BY <1>1, <2>1, <2>2, ExceptSeq
  <2>3. CASE e \notin 1..Len(comments)
    <3>1. DOMAIN comments = 1..Len(comments) BY <1>1, LenProperties
    <3>2. Commented(r) = comments BY <1>1, <2>1, <2>3, <3>1
    <3>3. QED BY <1>1, <3>2
  <2>4. QED BY <2>2, <2>3
<1>4. QED BY <1>2, <1>3

(* A failing call, with or without effect, ends the receipt. *)
LEMMA ReceiptApiFailsNext ==
    ASSUME Inductive, NEW r \in Receipts, ReceiptApiFails(r)
    PROVE  Inductive'
<1>1. /\ receipt[r].phase \in OnGitHub /\ receipt[r].phase # "save"
      /\ receipt' = [receipt EXCEPT ![r].phase = "done"] /\ Fault /\ alone' = alone \ {r}
      /\ UNCHANGED <<delivery, repoKnown, rows, decided, hook, early>>
  BY DEF ReceiptApiFails, ReceiptTo, OnGitHub, history
<1>2. /\ github' = github \/ github' = Patched(r)
      /\ comments' = comments \/ comments' = Commented(r)
  BY DEF ReceiptApiFails, remote
<1>3. faults' \in 0..MaxFaults /\ faults <= faults' /\ faults' # 0 BY <1>1, Faulty
<1>4. PICK new \in Receipt :
         /\ new = [receipt[r] EXCEPT !.phase = "done"]
         /\ new.phase = "done" /\ new.run = receipt[r].run /\ new.met = receipt[r].met
  BY ReceiptToPhase DEF Inductive, ReceiptPhases
<1>5. receipt' = [receipt EXCEPT ![r] = new] BY <1>1, <1>4
<1>6. /\ github' \in Seq(Check) /\ Len(github') = Len(github)
      /\ \A x \in 1..Len(github) : github'[x] # github[x] =>
            github'[x].status = "completed" /\ x = receipt[r].loaded.ext
  <2>1. github \in Seq(Check) BY DEF Inductive, TypeOK
  <2>2. CASE github' = github BY <2>1, <2>2
  <2>3. CASE github' = Patched(r) BY <1>1, <2>3, PatchedCompletes
  <2>4. QED BY <1>2, <2>2, <2>3
<1>7. TypeOK'
  <2>1. receipt' \in [Receipts -> Receipt] BY <1>5 DEF Inductive, TypeOK
  <2>2. comments' \in Seq(Conclusions) BY <1>1, <1>2, CommentedTyped DEF Inductive, TypeOK
  <2>3. QED BY <1>1, <1>3, <1>6, <2>1, <2>2 DEF Inductive, TypeOK
<1>8. ReceiptFrame
  <2>1. receipt[r].row \in 1..Len(rows) /\ rows[receipt[r].row].ext = receipt[r].loaded.ext
    BY <1>1, AtGitHub
  <2>2. \A x \in 1..Len(github) : github'[x] # github[x] =>
           github'[x].status = "completed" /\ \E i \in 1..Len(rows) : rows[i].ext = x
    BY <1>6, <2>1
  <2>3. QED BY <1>1, <1>3, <1>6, <2>2 DEF ReceiptFrame
<1>9. ReceiptKnows(receipt[r]) /\ ReceiptCompletes(receipt[r])
  BY DEF Inductive, ReceiptsKnow, ReceiptsComplete
<1>10. ReceiptKnows(new)' BY <1>1, <1>4, <1>9 DEF ReceiptKnows, OnGitHub
<1>11. ReceiptCompletes(new)' BY <1>1, <1>3, <1>4, <1>9 DEF ReceiptCompletes
<1>12. QED BY <1>5, <1>7, <1>8, <1>10, <1>11, ReceiptTakes

(* update_github_check_run: the check run shows the decision; the receipt goes on. *)
LEMMA ReceiptPatchNext ==
    ASSUME Inductive, NEW r \in Receipts, ReceiptPatch(r)
    PROVE  Inductive'
<1> DEFINE w == receipt[r].row
           x == receipt[r].loaded.ext
<1>1. /\ receipt[r].phase = "patch" /\ github' = Patched(r)
      /\ receipt' = [receipt EXCEPT ![r].phase = "comment"]
      /\ UNCHANGED <<delivery, repoKnown, rows, decided, comments, hook, faults, early, alone>>
  BY DEF ReceiptPatch, ReceiptTo, history
<1>2. receipt[r].phase \in OnGitHub BY <1>1 DEF OnGitHub
<1>3. PICK new \in Receipt :
         /\ new = [receipt[r] EXCEPT !.phase = "comment"]
         /\ new.phase = "comment" /\ new.run = receipt[r].run /\ new.row = receipt[r].row
         /\ new.loaded = receipt[r].loaded /\ new.met = receipt[r].met
  BY ReceiptToPhase DEF Inductive, ReceiptPhases
<1>4. receipt' = [receipt EXCEPT ![r] = new] BY <1>1, <1>3
<1>5. /\ github' \in Seq(Check) /\ Len(github') = Len(github)
      /\ github'[x].status = "completed" /\ github'[x].conclusion = Shown(r)
      /\ \A y \in 1..Len(github) : y # x => github'[y] = github[y]
  BY <1>1, <1>2, PatchedCompletes
<1>6. w \in 1..Len(rows) /\ rows[w].ext = x /\ x # 0 /\ x \in 1..Len(github) BY <1>2, AtGitHub
<1>7. TypeOK'
  <2>1. receipt' \in [Receipts -> Receipt] BY <1>4 DEF Inductive, TypeOK
  <2>2. QED BY <1>1, <1>5, <2>1 DEF Inductive, TypeOK
<1>8. ReceiptFrame
  <2>1. faults <= faults' BY <1>1, Unchanged
  <2>2. \A y \in 1..Len(github) : github'[y] # github[y] =>
           github'[y].status = "completed" /\ \E i \in 1..Len(rows) : rows[i].ext = y
    BY <1>5, <1>6
  <2>3. QED BY <1>1, <1>5, <2>1, <2>2 DEF ReceiptFrame
<1>9. ReceiptKnows(receipt[r]) /\ ReceiptCompletes(receipt[r])
  BY DEF Inductive, ReceiptsKnow, ReceiptsComplete
<1>10. UNCHANGED <<delivery, repoKnown, rows, decided, comments, hook, faults, early, alone>>
  BY <1>1
<1>11. ReceiptKnows(new)' BY <1>1, <1>2, <1>3, <1>5, <1>6, <1>9, <1>10 DEF ReceiptKnows, OnGitHub
<1>12. ReceiptCompletes(new)'
  <2>1. faults = 0 /\ new.met # 0 /\ new.met = Len(rows) => new.met = w
    BY <1>2, <1>3, <1>9 DEF ReceiptCompletes
  <2>2. QED BY <1>3, <1>5, <1>6, <1>9, <1>10, <2>1 DEF ReceiptCompletes
<1>13. QED BY <1>4, <1>7, <1>8, <1>11, <1>12, ReceiptTakes

(* upsert_github_pr_comment edits the row's comment or adds one that no row has. *)
LEMMA ReceiptCommentNext ==
    ASSUME Inductive, NEW r \in Receipts, ReceiptComment(r)
    PROVE  Inductive'
<1> DEFINE w == receipt[r].row
           e == CommentId(r)
<1>1. /\ receipt[r].phase = "comment" /\ comments' = Commented(r)
      /\ receipt' = [receipt EXCEPT ![r].phase = "save", ![r].comment = e]
      /\ UNCHANGED <<delivery, repoKnown, rows, decided, github, hook, faults, early, alone>>
  BY DEF ReceiptComment, history
<1>2. receipt[r].phase \in OnGitHub BY <1>1 DEF OnGitHub
<1>3. /\ receipt[r] \in Receipt /\ e \in Nat /\ w \in 1..Len(rows) /\ Len(comments) \in Nat
      /\ receipt[r].loaded \in Row /\ Shown(r) \in Conclusions /\ comments \in Seq(Conclusions)
  <2>1. receipt[r].loaded.comment \in Nat BY <1>2, AtGitHub DEF Row
  <2>2. QED BY <1>2, <2>1, AtGitHub, RowsTyped DEF CommentId, Inductive, TypeOK
<1>4. PICK new \in Receipt :
         /\ new = [receipt[r] EXCEPT !.phase = "save", !.comment = e]
         /\ new.phase = "save" /\ new.run = receipt[r].run /\ new.row = receipt[r].row
         /\ new.loaded = receipt[r].loaded /\ new.met = receipt[r].met /\ new.comment = e
  <2> HIDE DEF e
  <2>1. [receipt[r] EXCEPT !.phase = "save", !.comment = e] \in Receipt
    BY <1>3 DEF Receipt, ReceiptPhases
  <2>2. QED BY <1>3, <2>1 DEF Receipt
<1>5. receipt' = [receipt EXCEPT ![r] = new] BY <1>1, <1>4
<1>6. comments' \in Seq(Conclusions) BY <1>1, <1>2, CommentedTyped
<1>7. TypeOK'
  <2>1. receipt' \in [Receipts -> Receipt] BY <1>5 DEF Inductive, TypeOK
  <2>2. QED BY <1>1, <1>6, <2>1 DEF Inductive, TypeOK
<1>8. ReceiptFrame
  <2>1. faults <= faults' BY <1>1, Unchanged
  <2>2. QED BY <1>1, <2>1, FrameKept
<1>9. ReceiptKnows(receipt[r]) /\ ReceiptCompletes(receipt[r])
  BY DEF Inductive, ReceiptsKnow, ReceiptsComplete
<1>10. UNCHANGED <<delivery, repoKnown, rows, decided, github, hook, faults, early, alone>>
  BY <1>1
<1>11. ReceiptKnows(new)' BY <1>1, <1>2, <1>4, <1>9, <1>10 DEF ReceiptKnows, OnGitHub
<1>12. ReceiptCompletes(new)'
  BY <1>1, <1>2, <1>4, <1>9, <1>10 DEF ReceiptCompletes, OnGitHub
<1>13. QED BY <1>5, <1>7, <1>8, <1>11, <1>12, ReceiptTakes

(* The UPDATE keeps what identifies the row; if nothing came between, it writes it all. *)
LEMMA CompletedRow ==
    ASSUME Inductive, NEW r \in Receipts, receipt[r].phase \in OnGitHub \cup {"local"}, NEW cur \in Row
    PROVE  /\ Completed(r, cur) \in Row
           /\ Completed(r, cur).ext = cur.ext /\ Completed(r, cur).of = cur.of
           /\ Completed(r, cur).comment = cur.comment
           /\ receipt[r].loaded = cur =>
                 Completed(r, cur).status = "completed" /\ Completed(r, cur).conclusion = Shown(r)
<1> DEFINE st == Written("completed", receipt[r].loaded.status, cur.status)
           con == Written(Shown(r), receipt[r].loaded.conclusion, cur.conclusion)
<1>1. Shown(r) \in Conclusions
  <2>1. ReceiptKnows(receipt[r]) /\ receipt[r].phase # "new" BY DEF Inductive, ReceiptsKnow, OnGitHub
  <2>2. QED BY <2>1, ShownTyped DEF ReceiptKnows, Shown
<1>2. st \in {"queued", "completed"} /\ con \in Conclusions \cup {None} BY <1>1 DEF Written, Row
<1>3. receipt[r].loaded = cur => st = "completed" /\ con = Shown(r) BY DEF Written
<1>4. Completed(r, cur) = [cur EXCEPT !.status = st, !.conclusion = con] BY DEF Completed
<1> HIDE DEF st, con
<1>5. [cur EXCEPT !.status = st, !.conclusion = con] \in Row BY <1>2 DEF Row
<1>6. QED BY <1>3, <1>4, <1>5 DEF Row

(* The row a receipt holds is written; the frame holds if its check run is completed. *)
LEMMA RowWritten ==
    ASSUME Inductive, NEW r \in Receipts, NEW nr \in Row,
           receipt[r].row \in 1..Len(rows), rows' = [rows EXCEPT ![receipt[r].row] = nr],
           nr.ext = rows[receipt[r].row].ext, nr.of = rows[receipt[r].row].of,
           UNCHANGED <<delivery, repoKnown, decided, github, comments, hook, faults, early, alone>>,
           \/ early
           \/ /\ rows[receipt[r].row].ext # 0
              /\ github[rows[receipt[r].row].ext].status = "completed"
    PROVE  /\ rows' \in Seq(Row) /\ Len(rows') = Len(rows)
           /\ \A i \in 1..Len(rows) : rows'[i] = IF i = receipt[r].row THEN nr ELSE rows[i]
           /\ ReceiptFrame
<1>1. rows \in Seq(Row) BY DEF Inductive, TypeOK
<1>2. /\ rows' \in Seq(Row) /\ Len(rows') = Len(rows)
      /\ \A i \in 1..Len(rows) : rows'[i] = IF i = receipt[r].row THEN nr ELSE rows[i]
  BY <1>1, ExceptSeq
<1>3. \A i \in 1..Len(rows) : rows'[i].of = rows[i].of /\ rows'[i].ext = rows[i].ext BY <1>2
<1>4. faults <= faults' BY Unchanged
<1>5. \A i \in 1..Len(rows) : rows'[i].status = "completed" =>
         \/ early' \/ rows[i].status = "completed"
         \/ rows[i].ext # 0 /\ github[rows[i].ext].status = "completed"
  BY <1>2
<1>6. QED BY <1>2, <1>3, <1>4, <1>5 DEF ReceiptFrame

(* A receipt that came before the external id completes the row alone. *)
LEMMA ReceiptLocalNext ==
    ASSUME Inductive, NEW r \in Receipts, ReceiptLocal(r)
    PROVE  Inductive'
<1> DEFINE w == receipt[r].row
<1>1. /\ receipt[r].phase = "local" /\ rows' = [rows EXCEPT ![w] = Completed(r, rows[w])]
      /\ receipt' = [receipt EXCEPT ![r].phase = "done"]
      /\ UNCHANGED <<delivery, repoKnown, decided, github, comments, hook, faults, early, alone>>
  BY DEF ReceiptLocal, ReceiptTo, remote, history
<1>2. ReceiptKnows(receipt[r]) /\ ReceiptCompletes(receipt[r])
  BY DEF Inductive, ReceiptsKnow, ReceiptsComplete
<1>3. early /\ w \in 1..Len(rows) BY <1>1, <1>2 DEF ReceiptKnows
<1>4. rows[w] \in Row BY <1>3, RowsTyped DEF Inductive
<1>5. PICK nr \in Row : /\ nr = Completed(r, rows[w]) /\ nr.ext = rows[w].ext /\ nr.of = rows[w].of
  BY <1>1, <1>4, CompletedRow
<1>6. rows' = [rows EXCEPT ![w] = nr] BY <1>1, <1>5
<1>7. PICK new \in Receipt :
         /\ new = [receipt[r] EXCEPT !.phase = "done"]
         /\ new.phase = "done" /\ new.run = receipt[r].run /\ new.row = receipt[r].row
         /\ new.loaded = receipt[r].loaded /\ new.met = receipt[r].met
  BY ReceiptToPhase DEF Inductive, ReceiptPhases
<1>8. receipt' = [receipt EXCEPT ![r] = new] BY <1>1, <1>7
<1>9. UNCHANGED <<delivery, repoKnown, decided, github, comments, hook, faults, early, alone>>
  BY <1>1
<1>10. /\ rows' \in Seq(Row) /\ Len(rows') = Len(rows) /\ ReceiptFrame
       /\ \A i \in 1..Len(rows) : rows'[i].ext = rows[i].ext
  <2>1. /\ rows' \in Seq(Row) /\ Len(rows') = Len(rows) /\ ReceiptFrame
    BY <1>3, <1>5, <1>6, <1>9, RowWritten
  <2>2. QED BY <2>1 DEF ReceiptFrame
<1>11. TypeOK'
  <2>1. receipt' \in [Receipts -> Receipt] BY <1>8 DEF Inductive, TypeOK
  <2>2. QED BY <1>9, <1>10, <2>1 DEF Inductive, TypeOK
<1>12. ReceiptKnows(new)' BY <1>1, <1>2, <1>7, <1>9 DEF ReceiptKnows, OnGitHub
<1>13. ReceiptCompletes(new)'
  <2>1. faults = 0 /\ new.met # 0 => new.met # Len(rows) BY <1>1, <1>2, <1>7 DEF ReceiptCompletes
  <2>2. new.met # 0 => new.met \in 1..Len(rows)
    BY <1>2, <1>7, RowsTyped DEF ReceiptCompletes, Inductive
  <2>3. QED BY <1>2, <1>7, <1>9, <1>10, <2>1, <2>2 DEF ReceiptCompletes
<1>14. QED BY <1>8, <1>10, <1>11, <1>12, <1>13, ReceiptTakes

(* The last commit: row, check run and comment tell the decision. *)
LEMMA ReceiptSaveNext ==
    ASSUME Inductive, NEW r \in Receipts, ReceiptSave(r)
    PROVE  Inductive'
<1> DEFINE w == receipt[r].row
           x == receipt[r].loaded.ext
           e == Written(receipt[r].comment, receipt[r].loaded.comment, Completed(r, rows[w]).comment)
<1>1. /\ receipt[r].phase = "save"
      /\ rows' = [rows EXCEPT ![w] = Commit(r, rows[w])]
      /\ receipt' = [receipt EXCEPT ![r].phase = "done"]
      /\ UNCHANGED <<delivery, repoKnown, decided, github, comments, hook, faults, early, alone>>
  BY DEF ReceiptSave, ReceiptTo, remote, history
<1>2. ReceiptKnows(receipt[r]) /\ ReceiptCompletes(receipt[r])
  BY DEF Inductive, ReceiptsKnow, ReceiptsComplete
<1>3. receipt[r].phase \in OnGitHub BY <1>1 DEF OnGitHub
<1>4. /\ w \in 1..Len(rows) /\ x # 0 /\ rows[w].ext = x /\ github[x].status = "completed"
      /\ rows[w] \in Row
  <2>1. w \in 1..Len(rows) /\ x # 0 /\ rows[w].ext = x /\ github[x].status = "completed"
    BY <1>1, <1>2, <1>3 DEF ReceiptKnows
  <2>2. QED BY <2>1, RowsTyped DEF Inductive
<1>5. e \in Nat /\ (receipt[r].loaded = rows[w] => e = receipt[r].comment)
  <2>1. receipt[r].comment \in Nat BY ReceiptTyped DEF Inductive
  <2>2. Completed(r, rows[w]).comment = rows[w].comment /\ rows[w].comment \in Nat
    BY <1>3, <1>4, CompletedRow DEF Row
  <2>3. QED BY <2>1, <2>2 DEF Written
<1>6. PICK nr \in Row :
         /\ nr = Commit(r, rows[w])
         /\ nr.ext = x /\ nr.of = rows[w].of /\ nr.comment = e
         /\ receipt[r].loaded = rows[w] => nr.status = "completed" /\ nr.conclusion = Shown(r)
  <2>1. PICK c \in Row : /\ c = Completed(r, rows[w]) /\ c.ext = x /\ c.of = rows[w].of
                         /\ receipt[r].loaded = rows[w] => c.status = "completed" /\ c.conclusion = Shown(r)
    BY <1>3, <1>4, CompletedRow
  <2>2. Commit(r, rows[w]) = [c EXCEPT !.comment = e] BY <2>1 DEF Commit
  <2> HIDE DEF e
  <2>3. [c EXCEPT !.comment = e] \in Row BY <1>5 DEF Row
  <2>4. QED BY <2>1, <2>2, <2>3 DEF Row
<1> HIDE DEF e
<1>7. rows' = [rows EXCEPT ![w] = nr] BY <1>1, <1>6
<1>8. PICK new \in Receipt :
         /\ new = [receipt[r] EXCEPT !.phase = "done"]
         /\ new.phase = "done" /\ new.run = receipt[r].run /\ new.row = receipt[r].row
         /\ new.loaded = receipt[r].loaded /\ new.met = receipt[r].met
  BY ReceiptToPhase DEF Inductive, ReceiptPhases
<1>9. receipt' = [receipt EXCEPT ![r] = new] BY <1>1, <1>8
<1>10. UNCHANGED <<delivery, repoKnown, decided, github, comments, hook, faults, early, alone>>
  BY <1>1
<1>11. /\ rows' \in Seq(Row) /\ Len(rows') = Len(rows) /\ ReceiptFrame
       /\ rows'[w] = nr /\ \A i \in 1..Len(rows) : i # w => rows'[i] = rows[i]
       /\ \A i \in 1..Len(rows) : rows'[i].ext = rows[i].ext
  <2>1. nr.ext = rows[w].ext /\ nr.of = rows[w].of
        /\ rows[w].ext # 0 /\ github[rows[w].ext].status = "completed"
    BY <1>4, <1>6
  <2>2. /\ rows' \in Seq(Row) /\ Len(rows') = Len(rows) /\ ReceiptFrame
        /\ \A i \in 1..Len(rows) : rows'[i] = IF i = w THEN nr ELSE rows[i]
    BY <1>4, <1>7, <1>10, <2>1, RowWritten
  <2>3. QED BY <1>4, <2>1, <2>2
<1>12. TypeOK'
  <2>1. receipt' \in [Receipts -> Receipt] BY <1>9 DEF Inductive, TypeOK
  <2>2. QED BY <1>10, <1>11, <2>1 DEF Inductive, TypeOK
<1>13. ReceiptKnows(new)' BY <1>1, <1>2, <1>8, <1>10 DEF ReceiptKnows, OnGitHub
<1>14. ReceiptCompletes(new)'
  <2>1. new.met # 0 => new.met \in 1..Len(rows)
    BY <1>2, <1>8, RowsTyped DEF ReceiptCompletes, Inductive
  <2>2. faults = 0 /\ new.met # 0 /\ new.met = Len(rows) => github[rows[new.met].ext].status = "completed"
    BY <1>1, <1>2, <1>8 DEF ReceiptCompletes
  <2>3. QED BY <1>2, <1>8, <1>10, <1>11, <2>1, <2>2 DEF ReceiptCompletes, OnGitHub
<1>15. QED BY <1>9, <1>11, <1>12, <1>13, <1>14, ReceiptTakes

-----------------------------------------------------------------------------
LEMMA InitInductive ==
    ASSUME Init
    PROVE  Inductive
<1>1. /\ rows = << >> /\ github = << >> /\ comments = << >> /\ faults = 0 /\ early = FALSE
      /\ Len(rows) = 0 /\ Len(github) = 0 /\ Len(comments) = 0 /\ alone = {}
      /\ \A g \in Guids : delivery[g] = "none"
  BY EmptySeq DEF Init
<1>2. \A h \in Hooks : hook[h].phase = "new" BY DEF Init
<1>3. \A r \in Receipts : receipt[r].phase = "new" /\ receipt[r].met = 0 BY DEF Init
<1>4. TypeOK
  <2>1. [phase |-> "new", guid |-> None, kind |-> None, row |-> 0, ext |-> 0] \in Hook
    BY DEF Hook, HookPhases
  <2>2. hook \in [Hooks -> Hook] BY <2>1 DEF Init
  <2>3. [phase |-> "new", run |-> None, row |-> 0, loaded |-> NoRow, comment |-> 0, met |-> 0] \in Receipt
    BY DEF Receipt, ReceiptPhases
  <2>4. receipt \in [Receipts -> Receipt] BY <2>3 DEF Init
  <2>5. rows \in Seq(Row) /\ github \in Seq(Check) /\ comments \in Seq(Conclusions) BY <1>1, EmptySeq
  <2>6. faults \in 0..MaxFaults BY <1>1, FaultBound
  <2>7. /\ delivery \in [Guids -> {"none", "received", "processed", "failed"}]
        /\ decided \in [Runs -> Decisions \cup {"none"}]
    BY DEF Init
  <2>8. {repoKnown, early} \subseteq BOOLEAN /\ alone \subseteq Receipts
    <3>1. repoKnown \in BOOLEAN BY DEF Init
    <3>2. QED BY <1>1, <3>1
  <2>9. QED BY <2>2, <2>4, <2>5, <2>6, <2>7, <2>8 DEF TypeOK
<1>5. DeliveriesOwned BY <1>1, <1>2 DEF DeliveriesOwned, Owning, Handling
<1>6. RowsDistinct BY <1>1 DEF RowsDistinct
<1>7. HooksAtRows BY <1>2 DEF HooksAtRows, AtRow
<1>8. ChecksCounted
  <2>1. ToCreate = {} BY <1>2 DEF ToCreate
  <2>2. QED BY <1>1, <2>1, FS_EmptySet DEF ChecksCounted
<1>9. ReceiptsKnow BY <1>3 DEF ReceiptsKnow, ReceiptKnows, OnGitHub
<1>10. ReceiptsComplete BY <1>1, <1>3 DEF ReceiptsComplete, ReceiptCompletes, OnGitHub
<1>11. RowNeverAheadOfGitHub BY <1>1, <1>4, RowsTyped DEF RowNeverAheadOfGitHub
<1>12. QED BY <1>4, <1>5, <1>6, <1>7, <1>8, <1>9, <1>10, <1>11 DEF Inductive

LEMMA HookNext ==
    ASSUME Inductive, NEW h \in Hooks,
           \/ \E g \in Guids : HookSkip(h, g)
           \/ \E g \in Guids, kind \in {"installation", "pull_request"} : HookStore(h, g, kind)
           \/ HookStep(h) \/ HookApiFails(h) \/ HookLost(h)
    PROVE  Inductive'
<1>1. CASE \E g \in Guids : HookSkip(h, g) BY <1>1, HookSkipNext
<1>2. CASE \E g \in Guids, kind \in {"installation", "pull_request"} : HookStore(h, g, kind)
  BY <1>2, HookStoreNext
<1>3. CASE HookStep(h)
  <2>1. CASE HookInstall(h) BY <2>1, HookInstallNext
  <2>2. CASE HookRow(h) BY <2>2, HookRowNext
  <2>3. CASE HookToken(h) BY <2>3, HookTokenNext
  <2>4. CASE HookCreate(h) BY <2>4, HookCreateNext
  <2>5. CASE HookSave(h) BY <2>5, HookSaveNext
  <2>6. CASE HookReply(h) BY <2>6, HookReplyNext
  <2>7. QED BY <1>3, <2>1, <2>2, <2>3, <2>4, <2>5, <2>6 DEF HookStep
<1>4. CASE HookApiFails(h) BY <1>4, HookApiFailsNext
<1>5. CASE HookLost(h) BY <1>5, HookLostNext
<1>6. QED BY <1>1, <1>2, <1>3, <1>4, <1>5

LEMMA ReceiptNext ==
    ASSUME Inductive, NEW r \in Receipts,
           \/ \E k \in Runs, d \in Decisions : ReceiptDecide(r, k, d)
           \/ ReceiptStep(r) \/ ReceiptApiFails(r) \/ ReceiptLost(r)
    PROVE  Inductive'
<1>1. CASE \E k \in Runs, d \in Decisions : ReceiptDecide(r, k, d) BY <1>1, ReceiptDecideNext
<1>2. CASE ReceiptStep(r)
  <2>1. CASE ReceiptNoRow(r) BY <2>1, ReceiptNoRowNext
  <2>2. CASE ReceiptLocal(r) BY <2>2, ReceiptLocalNext
  <2>3. CASE ReceiptLookup(r) BY <2>3, ReceiptLookupNext
  <2>4. CASE ReceiptToken(r) BY <2>4, ReceiptTokenNext
  <2>5. CASE ReceiptPatch(r) BY <2>5, ReceiptPatchNext
  <2>6. CASE ReceiptComment(r) BY <2>6, ReceiptCommentNext
  <2>7. CASE ReceiptSave(r) BY <2>7, ReceiptSaveNext
  <2>8. QED BY <1>2, <2>1, <2>2, <2>3, <2>4, <2>5, <2>6, <2>7 DEF ReceiptStep
<1>3. CASE ReceiptApiFails(r) BY <1>3, ReceiptApiFailsNext
<1>4. CASE ReceiptLost(r) BY <1>4, ReceiptLostNext
<1>5. QED BY <1>1, <1>2, <1>3, <1>4

LEMMA StutterInductive ==
    ASSUME Inductive, UNCHANGED vars
    PROVE  Inductive'
<1>1. UNCHANGED <<delivery, repoKnown, rows, decided, github, comments, hook, receipt, faults, early, alone>>
  BY DEF vars
<1>2. TypeOK' BY <1>1 DEF Inductive, TypeOK
<1>3. ReceiptsKnow' /\ ReceiptsComplete'
  <2>1. ReceiptsKnow' BY <1>1 DEF Inductive, ReceiptsKnow, ReceiptKnows
  <2>2. ReceiptsComplete' BY <1>1 DEF Inductive, ReceiptsComplete, ReceiptCompletes
  <2>3. QED BY <2>1, <2>2
<1>4. (DeliveriesOwned /\ RowsDistinct /\ HooksAtRows /\ ChecksCounted /\ RowNeverAheadOfGitHub)'
  BY <1>1 DEF Inductive, DeliveriesOwned, RowsDistinct, HooksAtRows, ChecksCounted, ToCreate,
       RowNeverAheadOfGitHub
<1>5. QED BY <1>2, <1>3, <1>4 DEF Inductive

LEMMA InductiveHolds == Spec => []Inductive
<1>1. Init => Inductive BY InitInductive
<1>2. Inductive /\ [Next]_vars => Inductive'
  BY HookNext, ReceiptNext, StutterInductive DEF Next
<1>3. QED BY <1>1, <1>2, PTL DEF Spec

-----------------------------------------------------------------------------
(* A receipt that has its row to itself: what it has done so far is on GitHub, and stays
   there, because no other row has its check run or its comment. *)

(* The row, or a receipt at work on it, names the comment. *)
Names(i, c) ==
    \/ rows[i].comment = c
    \/ \E r \in Receipts :
          /\ InHand(r) /\ receipt[r].row = i
          /\ receipt[r].loaded.comment = c \/ (receipt[r].phase = "save" /\ receipt[r].comment = c)

CommentsOwned ==
    /\ \A i \in 1..Len(rows), c \in Nat : Names(i, c) => c <= Len(comments)
    /\ \A i, j \in 1..Len(rows), c \in Nat : c # 0 /\ Names(i, c) /\ Names(j, c) => i = j

Told(r) == [status |-> "completed", conclusion |-> Shown(r)]
Tells(c, r) == c \in 1..Len(comments) /\ comments[c] = Shown(r)

HasRowAlone(r) ==
    LET q == receipt[r]
        row == rows[q.row]
    IN /\ q.phase \in OnGitHub \cup {"done"} /\ q.row \in 1..Len(rows) /\ row.ext # 0
       /\ \A s \in Receipts \ {r} : InHand(s) => receipt[s].row # q.row
       /\ q.phase \in OnGitHub => q.loaded = row
       /\ q.phase \in {"comment", "save", "done"} => github[row.ext] = Told(r)
       /\ q.phase = "save" => Tells(q.comment, r)
       /\ q.phase = "done" =>
             row.status = "completed" /\ row.conclusion = Shown(r) /\ Tells(row.comment, r)

Repairing == CommentsOwned /\ \A r \in alone : HasRowAlone(r)

(* Rows keep their comments but one, which may be given a comment that is new. *)
LEMMA CommentsStayOwned ==
    ASSUME Inductive, CommentsOwned, TypeOK', Len(comments) <= Len(comments'),
           Len(rows) <= Len(rows'), NEW w \in 1..Len(rows),
           \A i \in 1..Len(rows'), c \in Nat : Names(i, c)' =>
              \/ c = 0
              \/ i \in 1..Len(rows) /\ Names(i, c)
              \/ i = w /\ c > Len(comments) /\ c <= Len(comments')
    PROVE  CommentsOwned'
<1>1. Len(comments) \in Nat /\ Len(comments)' \in Nat BY LenProperties DEF Inductive, TypeOK
<1>2. ASSUME NEW i \in 1..Len(rows'), NEW c \in Nat, Names(i, c)' PROVE c <= Len(comments')
  <2>1. i \in 1..Len(rows) /\ Names(i, c) => c <= Len(comments) BY DEF CommentsOwned
  <2>2. QED BY <1>1, <1>2, <2>1
<1>3. ASSUME NEW i \in 1..Len(rows'), NEW j \in 1..Len(rows'), NEW c \in Nat,
             c # 0, Names(i, c)', Names(j, c)'
      PROVE  i = j
  <2>1. \A k \in 1..Len(rows) : Names(k, c) => c <= Len(comments) BY DEF CommentsOwned
  <2>2. CASE c <= Len(comments)
    <3>1. i \in 1..Len(rows) /\ Names(i, c) /\ j \in 1..Len(rows) /\ Names(j, c) BY <1>1, <1>3, <2>2
    <3>2. QED BY <1>3, <3>1 DEF CommentsOwned
  <2>3. CASE ~(c <= Len(comments))
    <3>1. i = w /\ j = w BY <1>3, <2>1, <2>3
    <3>2. QED BY <3>1
  <2>4. QED BY <2>2, <2>3
<1>4. QED BY <1>2, <1>3 DEF CommentsOwned

(* Other steps leave its row, check run and comments alone and no receipt joins it. *)
LEMMA AloneStays ==
    ASSUME Inductive, NEW r \in Receipts, HasRowAlone(r), receipt'[r] = receipt[r],
           Len(rows) \in Nat, Len(rows') \in Nat, Len(rows) <= Len(rows'),
           Len(comments) \in Nat, Len(comments') \in Nat, Len(comments) <= Len(comments'),
           rows'[receipt[r].row] = rows[receipt[r].row],
           github'[rows[receipt[r].row].ext] = github[rows[receipt[r].row].ext],
           \A k \in Runs : decided[k] # "none" => decided'[k] = decided[k],
           \A c \in 1..Len(comments) : Names(receipt[r].row, c) => comments'[c] = comments[c],
           \A s \in Receipts \ {r} : InHand(s)' =>
              receipt'[s].row # receipt[r].row \/ (InHand(s) /\ receipt'[s].row = receipt[s].row)
    PROVE  HasRowAlone(r)'
<1> DEFINE q == receipt[r]
           row == rows[q.row]
<1>1. /\ q.phase \in OnGitHub \cup {"done"} /\ q.row \in 1..Len(rows) /\ row.ext # 0
      /\ \A s \in Receipts \ {r} : InHand(s) => receipt[s].row # q.row
      /\ q.phase \in OnGitHub => q.loaded = row
      /\ q.phase \in {"comment", "save", "done"} => github[row.ext] = Told(r)
      /\ q.phase = "save" => Tells(q.comment, r)
      /\ q.phase = "done" =>
            row.status = "completed" /\ row.conclusion = Shown(r) /\ Tells(row.comment, r)
  BY DEF HasRowAlone
<1>2. Shown(r)' = Shown(r)
  <2>1. q.phase # "new" BY <1>1 DEF OnGitHub
  <2>2. q.run \in Runs /\ decided[q.run] # "none"
    BY <2>1 DEF Inductive, ReceiptsKnow, ReceiptKnows, Decisions
  <2>3. QED BY <2>2 DEF Shown
<1>3. ASSUME NEW c, Tells(c, r), Names(q.row, c)
      PROVE  c \in 1..Len(comments') /\ comments'[c] = Shown(r)'
  BY <1>2, <1>3 DEF Tells
<1>4. q.phase = "save" => Names(q.row, q.comment) BY DEF Names, InHand
<1>5. Names(q.row, row.comment) BY DEF Names
<1>6. q.phase = "save" => q.comment \in 1..Len(comments') /\ comments'[q.comment] = Shown(r)'
  BY <1>1, <1>3, <1>4
<1>7. q.phase = "done" => row.comment \in 1..Len(comments') /\ comments'[row.comment] = Shown(r)'
  BY <1>1, <1>3, <1>5
<1>8. \A s \in Receipts \ {r} : InHand(s)' => receipt'[s].row # q.row BY <1>1
<1>9. Told(r)' = Told(r) BY <1>2 DEF Told
<1>10. receipt'[r] = q /\ rows'[q.row] = row /\ q.row \in 1..Len(rows') BY <1>1
<1> HIDE DEF q, row
<1>11. QED
  <2>1. /\ q.phase \in {"comment", "save", "done"} => github'[row.ext] = Told(r)'
        /\ q.phase = "done" => row.status = "completed" /\ row.conclusion = Shown(r)'
    BY <1>1, <1>2, <1>9 DEF q, row
  <2>2. /\ q.phase \in OnGitHub \cup {"done"} /\ row.ext # 0
        /\ q.phase \in OnGitHub => q.loaded = row
    BY <1>1
  <2>3. QED BY <1>6, <1>7, <1>8, <1>10, <2>1, <2>2 DEF HasRowAlone, Tells

(* A webhook's step touches no row that has its check run, and no comment. *)
LEMMA HookRepairs ==
    ASSUME Inductive, Repairing, TypeOK',
           UNCHANGED <<comments, receipt, decided, alone>>, Len(rows) <= Len(rows'),
           \A i \in 1..Len(rows) : rows'[i].comment = rows[i].comment,
           \A i \in 1..Len(rows) : rows[i].ext # 0 => rows'[i] = rows[i],
           \A i \in 1..Len(rows') : i \notin 1..Len(rows) => rows'[i].comment = 0,
           \A x \in 1..Len(github) : github'[x] = github[x]
    PROVE  Repairing'
<1>1. /\ Len(rows) \in Nat /\ Len(rows)' \in Nat /\ Len(comments) \in Nat /\ Len(github) \in Nat
  BY RowsTyped, LenProperties DEF Inductive, TypeOK
<1>2. \A r \in Receipts : InHand(r)' = InHand(r) BY DEF InHand
<1>3. \A r \in Receipts : InHand(r) => receipt[r].row \in 1..Len(rows)
  BY DEF Inductive, ReceiptsKnow, ReceiptKnows, InHand, OnGitHub
<1>4. ASSUME NEW i \in 1..Len(rows'), NEW c \in Nat, Names(i, c)'
      PROVE  c = 0 \/ (i \in 1..Len(rows) /\ Names(i, c))
  <2>1. CASE i \in 1..Len(rows) BY <1>2, <1>4, <2>1 DEF Names
  <2>2. CASE i \notin 1..Len(rows) BY <1>2, <1>3, <1>4, <2>2 DEF Names
  <2>3. QED BY <2>1, <2>2
<1>5. CommentsOwned'
  <2>1. CASE Len(rows) = 0
    <3>1. \A i \in 1..Len(rows'), c \in Nat : Names(i, c)' => c = 0 BY <1>1, <1>4, <2>1
    <3>2. QED BY <1>1, <3>1 DEF CommentsOwned
  <2>2. CASE Len(rows) # 0
    <3>1. 1 \in 1..Len(rows) BY <1>1, <2>2
    <3>2. QED BY <1>1, <1>4, <3>1, CommentsStayOwned DEF Repairing
  <2>3. QED BY <2>1, <2>2
<1>6. ASSUME NEW r \in alone PROVE HasRowAlone(r)'
  <2>1. r \in Receipts /\ HasRowAlone(r) BY DEF Repairing, Inductive, TypeOK
  <2>2. receipt[r].row \in 1..Len(rows) /\ rows[receipt[r].row].ext # 0 BY <2>1 DEF HasRowAlone
  <2>3. rows[receipt[r].row].ext \in 1..Len(github)
    BY <1>1, <2>2, RowsTyped DEF Inductive, RowsDistinct
  <2>4. QED BY <1>1, <1>2, <2>1, <2>2, <2>3, AloneStays
<1>7. QED BY <1>5, <1>6 DEF Repairing

LEMMA HookKeepsRepairing ==
    ASSUME Inductive, Repairing, TypeOK', NEW h \in Hooks,
           \/ \E g \in Guids : HookSkip(h, g)
           \/ \E g \in Guids, kind \in {"installation", "pull_request"} : HookStore(h, g, kind)
           \/ HookStep(h) \/ HookApiFails(h) \/ HookLost(h)
    PROVE  Repairing'
<1> DEFINE Same == /\ UNCHANGED <<comments, receipt, decided, alone>> /\ Len(rows) <= Len(rows')
                   /\ \A i \in 1..Len(rows) : rows'[i].comment = rows[i].comment
                   /\ \A i \in 1..Len(rows) : rows[i].ext # 0 => rows'[i] = rows[i]
                   /\ \A i \in 1..Len(rows') : i \notin 1..Len(rows) => rows'[i].comment = 0
                   /\ \A x \in 1..Len(github) : github'[x] = github[x]
<1>1. /\ Len(rows) \in Nat /\ Len(github) \in Nat /\ rows \in Seq(Row) /\ github \in Seq(Check)
  BY RowsTyped DEF Inductive, TypeOK
<1>2. CASE /\ UNCHANGED <<comments, receipt, decided, alone, rows>>
           /\ UNCHANGED github \/ github' = Append(github, Queued)
  <2>1. \A x \in 1..Len(github) : github'[x] = github[x]
    BY <1>1, <1>2, NoRowTyped, AppendProperties
  <2>2. Same BY <1>1, <1>2, <2>1
  <2>3. QED BY <2>2, HookRepairs
<1>3. CASE HookRow(h)
  <2>1. hook[h].guid \in Guids
    BY <1>3 DEF HookRow, Inductive, DeliveriesOwned, Owning, Handling
  <2>2. PICK nr \in Row : nr = [NoRow EXCEPT !.of = hook[h].guid] /\ nr.comment = 0
    <3>1. [NoRow EXCEPT !.of = hook[h].guid] \in Row BY <2>1 DEF NoRow, Row
    <3>2. QED BY <3>1 DEF NoRow, Row
  <2>3. rows' = Append(rows, nr) /\ UNCHANGED <<comments, receipt, decided, alone, github>>
    BY <1>3, <2>2 DEF HookRow, remote, history
  <2>4. /\ Len(rows') = Len(rows) + 1 /\ rows'[Len(rows) + 1] = nr
        /\ \A i \in 1..Len(rows) : rows'[i] = rows[i]
    BY <1>1, <2>3, AppendProperties
  <2>5. Same BY <1>1, <2>2, <2>3, <2>4
  <2>6. QED BY <2>5, HookRepairs
<1>4. CASE HookSave(h)
  <2> DEFINE w == hook[h].row
             nr == [rows[w] EXCEPT !.ext = hook[h].ext, !.status = "queued"]
  <2>1. w \in 1..Len(rows) /\ rows[w].ext = 0 /\ hook[h].ext \in 1..Len(github)
    BY <1>4 DEF HookSave, Inductive, HooksAtRows, AtRow
  <2>2. rows[w] \in Row BY <2>1, RowsTyped DEF Inductive
  <2>3. nr \in Row /\ nr.comment = rows[w].comment
    <3>1. hook[h].ext \in Nat BY <1>1, <2>1
    <3>2. nr \in Row BY <2>2, <3>1 DEF Row
    <3>3. QED BY <2>2, <3>2 DEF Row
  <2>4. rows' = [rows EXCEPT ![w] = nr] /\ UNCHANGED <<comments, receipt, decided, alone, github>>
    BY <1>4 DEF HookSave, remote, history
  <2> HIDE DEF nr
  <2>5. /\ Len(rows') = Len(rows)
        /\ \A i \in 1..Len(rows) : rows'[i] = IF i = w THEN nr ELSE rows[i]
    BY <1>1, <2>1, <2>3, <2>4, ExceptSeq
  <2>6. Same BY <1>1, <2>1, <2>3, <2>4, <2>5
  <2>7. QED BY <2>6, HookRepairs
<1>5. CASE \/ \E g \in Guids : HookSkip(h, g)
           \/ \E g \in Guids, kind \in {"installation", "pull_request"} : HookStore(h, g, kind)
  BY <1>2, <1>5 DEF HookSkip, HookStore, remote, history
<1>6. CASE HookInstall(h) \/ HookToken(h) \/ HookReply(h) \/ HookLost(h)
  BY <1>2, <1>6 DEF HookInstall, HookToken, HookReply, HookLost, remote, history
<1>7. CASE HookCreate(h) \/ HookApiFails(h)
  BY <1>2, <1>7 DEF HookCreate, HookApiFails, Queued, history
<1>8. QED BY <1>3, <1>4, <1>5, <1>6, <1>7 DEF HookStep

(* A receipt's step touches only the row it holds, that row's check run, and a comment the
   row names or a new one, so it leaves the others' rows alone. *)
LEMMA ReceiptRepairs ==
    ASSUME Inductive, Repairing, TypeOK', NEW r \in Receipts, NEW new \in Receipt,
           receipt' = [receipt EXCEPT ![r] = new], alone' \subseteq alone \cup {r},
           \A k \in Runs : decided[k] # "none" => decided'[k] = decided[k],
           Len(rows') = Len(rows), Len(comments) <= Len(comments'),
           InHand(r)' => receipt[r].row = new.row \/ ~InHand(r),
           InHand(r)' /\ ~InHand(r) => \A s \in alone' \ {r} : receipt[s].row # new.row,
           InHand(r) \/ UNCHANGED <<rows, github, comments>>,
           \A i \in 1..Len(rows) : i # receipt[r].row => rows'[i] = rows[i],
           \A i \in 1..Len(rows) : i # receipt[r].row /\ rows[i].ext # 0 =>
              github'[rows[i].ext] = github[rows[i].ext],
           \A c \in 1..Len(comments) : comments'[c] = comments[c] \/ Names(receipt[r].row, c),
           CommentsOwned', r \in alone' => HasRowAlone(r)'
    PROVE  Repairing'
<1>1. /\ Len(rows) \in Nat /\ Len(rows)' \in Nat /\ Len(comments) \in Nat /\ Len(comments)' \in Nat
  BY RowsTyped, LenProperties DEF Inductive, TypeOK
<1>2. receipt'[r] = new /\ \A s \in Receipts : s # r => receipt'[s] = receipt[s]
  BY DEF Inductive, TypeOK
<1>3. \A s \in Receipts : s # r => InHand(s)' = InHand(s) BY <1>2 DEF InHand
<1>4. ASSUME NEW s \in alone', s # r PROVE HasRowAlone(s)'
  <2>1. s \in Receipts /\ HasRowAlone(s) BY <1>4 DEF Repairing, Inductive, TypeOK
  <2>2. /\ receipt[s].row \in 1..Len(rows) /\ rows[receipt[s].row].ext # 0
        /\ InHand(r) => receipt[r].row # receipt[s].row
    BY <1>4, <2>1 DEF HasRowAlone
  <2>3. /\ rows'[receipt[s].row] = rows[receipt[s].row]
        /\ github'[rows[receipt[s].row].ext] = github[rows[receipt[s].row].ext]
    BY <2>2
  <2>4. ASSUME NEW c \in 1..Len(comments), Names(receipt[s].row, c) PROVE comments'[c] = comments[c]
    <3>1. CASE InHand(r)
      <4>1. receipt[r].row \in 1..Len(rows)
        BY <3>1 DEF Inductive, ReceiptsKnow, ReceiptKnows, InHand, OnGitHub
      <4>2. c \in Nat /\ c # 0 BY <1>1
      <4>3. ~Names(receipt[r].row, c) BY <2>2, <2>4, <3>1, <4>1, <4>2 DEF Repairing, CommentsOwned
      <4>4. QED BY <4>3
    <3>2. CASE ~InHand(r) BY <3>2
    <3>3. QED BY <3>1, <3>2
  <2>5. \A p \in Receipts \ {s} : InHand(p)' =>
           receipt'[p].row # receipt[s].row \/ (InHand(p) /\ receipt'[p].row = receipt[p].row)
    BY <1>2, <1>3, <1>4
  <2>6. receipt'[s] = receipt[s] BY <1>2, <1>4, <2>1
  <2>7. Len(rows) <= Len(rows') /\ Len(comments) <= Len(comments') BY <1>1
  <2>8. QED BY <1>1, <2>1, <2>3, <2>4, <2>5, <2>6, <2>7, AloneStays
<1>5. QED BY <1>4 DEF Repairing

(* A receipt not yet at work, or going on without having written anything. *)
LEMMA QuietReceiptRepairs ==
    ASSUME Inductive, Repairing, TypeOK', NEW r \in Receipts, NEW new \in Receipt,
           receipt' = [receipt EXCEPT ![r] = new], alone' \subseteq alone \cup {r},
           \A k \in Runs : decided[k] # "none" => decided'[k] = decided[k],
           UNCHANGED <<rows, github, comments>>,
           InHand(r)' => /\ new.phase # "save" /\ new.row \in 1..Len(rows)
                         /\ new.loaded.comment = 0 \/ Names(new.row, new.loaded.comment),
           InHand(r)' => receipt[r].row = new.row \/ ~InHand(r),
           InHand(r)' /\ ~InHand(r) => \A s \in alone' \ {r} : receipt[s].row # new.row,
           r \in alone' => HasRowAlone(r)'
    PROVE  Repairing'
<1>1. Len(rows) \in Nat /\ Len(comments) \in Nat BY RowsTyped DEF Inductive
<1>2. receipt'[r] = new /\ \A s \in Receipts : s # r => receipt'[s] = receipt[s]
  BY DEF Inductive, TypeOK
<1>3. \A s \in Receipts : s # r => InHand(s)' = InHand(s) BY <1>2 DEF InHand
<1>4. ASSUME NEW i \in 1..Len(rows), NEW c \in Nat, Names(i, c)' PROVE c = 0 \/ Names(i, c)
  <2>1. CASE rows'[i].comment = c BY <2>1 DEF Names
  <2>2. CASE rows'[i].comment # c
    <3>1. PICK s \in Receipts :
             /\ InHand(s)' /\ receipt'[s].row = i
             /\ \/ receipt'[s].loaded.comment = c
                \/ receipt'[s].phase = "save" /\ receipt'[s].comment = c
      BY <1>4, <2>2 DEF Names
    <3>2. CASE s = r BY <1>2, <3>1, <3>2
    <3>3. CASE s # r BY <1>2, <1>3, <3>1, <3>3 DEF Names
    <3>4. QED BY <3>2, <3>3
  <2>3. QED BY <2>1, <2>2
<1>5. CommentsOwned'
  <2>1. CASE Len(rows) = 0 BY <1>1, <2>1 DEF CommentsOwned
  <2>2. CASE Len(rows) # 0
    <3>1. 1 \in 1..Len(rows) BY <1>1, <2>2
    <3>2. QED BY <1>1, <1>4, <3>1, CommentsStayOwned DEF Repairing
  <2>3. QED BY <2>1, <2>2
<1>6. /\ \A i \in 1..Len(rows) : rows'[i] = rows[i] /\ github'[rows[i].ext] = github[rows[i].ext]
      /\ \A c \in 1..Len(comments) : comments'[c] = comments[c]
      /\ Len(rows') = Len(rows) /\ Len(comments) <= Len(comments')
  BY <1>1
<1>7. UNCHANGED <<rows, github, comments>> OBVIOUS
<1>8. QED BY <1>5, <1>6, <1>7, ReceiptRepairs

LEMMA DecideRepairs ==
    ASSUME Inductive, Repairing, TypeOK', NEW r \in Receipts, NEW k \in Runs, NEW d \in Decisions,
           ReceiptDecide(r, k, d)
    PROVE  Repairing'
<1>1. /\ receipt[r].phase = "new" /\ decided[k] \in {"none", d} /\ decided' = [decided EXCEPT ![k] = d]
      /\ receipt' = [receipt EXCEPT ![r].phase = "decided", ![r].run = k, ![r].met = Newest]
      /\ UNCHANGED <<rows, github, comments, alone>>
  BY DEF ReceiptDecide, remote, history
<1>2. ~InHand(r)'
  <2>1. receipt[r] \in Receipt /\ receipt \in [Receipts -> Receipt] BY DEF Inductive, TypeOK
  <2>2. receipt'[r].phase = "decided" BY <1>1, <2>1 DEF Receipt
  <2>3. QED BY <2>2 DEF InHand
<1>3. r \notin alone BY <1>1 DEF Repairing, HasRowAlone, OnGitHub
<1>4. \A m \in Runs : decided[m] # "none" => decided'[m] = decided[m]
  BY <1>1 DEF Inductive, TypeOK
<1>5. PICK new \in Receipt : new = [receipt[r] EXCEPT !.phase = "decided", !.run = k, !.met = Newest]
  <2>1. receipt' \in [Receipts -> Receipt] BY DEF TypeOK
  <2>2. receipt'[r] = [receipt[r] EXCEPT !.phase = "decided", !.run = k, !.met = Newest]
    BY <1>1 DEF Inductive, TypeOK
  <2>3. QED BY <2>1, <2>2
<1>6. receipt' = [receipt EXCEPT ![r] = new] BY <1>1, <1>5
<1>7. QED BY <1>1, <1>2, <1>3, <1>4, <1>6, QuietReceiptRepairs

(* A receipt is over, without a word to GitHub. *)
LEMMA EndRepairs ==
    ASSUME Inductive, Repairing, TypeOK', NEW r \in Receipts, NEW p \in {"done", "lost"},
           receipt' = [receipt EXCEPT ![r].phase = p], alone' \subseteq alone \ {r},
           UNCHANGED <<rows, github, comments, decided>>
    PROVE  Repairing'
<1>1. PICK new \in Receipt : new = [receipt[r] EXCEPT !.phase = p] /\ new.phase = p
  BY ReceiptToPhase DEF Inductive, ReceiptPhases
<1>2. receipt' = [receipt EXCEPT ![r] = new] /\ receipt'[r].phase = p
  BY <1>1 DEF Inductive, TypeOK
<1>3. ~InHand(r)' BY <1>2 DEF InHand
<1>4. QED BY <1>2, <1>3, QuietReceiptRepairs

LEMMA LookupRepairs ==
    ASSUME Inductive, Repairing, TypeOK', NEW r \in Receipts, ReceiptLookup(r)
    PROVE  Repairing'
<1> DEFINE p == IF rows[Found].ext = 0 THEN "local" ELSE "token"
<1>1. /\ receipt[r].phase = "decided" /\ Found # 0
      /\ receipt' = [receipt EXCEPT ![r].phase = p, ![r].row = Found, ![r].loaded = rows[Found]]
      /\ alone' = {q \in alone : receipt[q].row # Found}
                  \cup {q \in {r} : /\ rows[Found].ext # 0
                                    /\ \A s \in Receipts : InHand(s) => receipt[s].row # Found}
      /\ UNCHANGED <<rows, decided, github, comments>>
  BY DEF ReceiptLookup, remote
<1>2. Found \in 1..Len(rows) /\ rows[Found] \in Row /\ receipt[r] \in Receipt /\ Found \in Nat
  <2>1. Len(rows) \in Nat /\ receipt[r] \in Receipt BY RowsTyped, ReceiptTyped DEF Inductive
  <2>2. Found = Len(rows) BY <1>1 DEF Found
  <2>3. Found \in 1..Len(rows) BY <1>1, <2>1, <2>2
  <2>4. QED BY <2>1, <2>2, <2>3, RowsTyped DEF Inductive
<1>3. PICK new \in Receipt :
         /\ new = [receipt[r] EXCEPT !.phase = p, !.row = Found, !.loaded = rows[Found]]
         /\ new.phase = p /\ new.row = Found /\ new.loaded = rows[Found]
  <2>1. p \in ReceiptPhases BY DEF ReceiptPhases
  <2> HIDE DEF p
  <2>2. [receipt[r] EXCEPT !.phase = p, !.row = Found, !.loaded = rows[Found]] \in Receipt
    BY <1>2, <2>1 DEF Receipt
  <2>3. QED BY <1>2, <2>2 DEF Receipt
<1>4. receipt' = [receipt EXCEPT ![r] = new] BY <1>1, <1>3
<1>5. receipt'[r] = new /\ \A s \in Receipts : s # r => receipt'[s] = receipt[s]
  BY <1>4 DEF Inductive, TypeOK
<1>6. r \notin alone BY <1>1 DEF Repairing, HasRowAlone, OnGitHub
<1>7. ~InHand(r) BY <1>1 DEF InHand
<1>8. new.phase # "save" /\ Names(new.row, new.loaded.comment) BY <1>3 DEF Names
<1>9. alone' \subseteq alone \cup {r} /\ \A s \in alone' \ {r} : receipt[s].row # new.row
  BY <1>1, <1>3
<1>10. ASSUME r \in alone' PROVE HasRowAlone(r)'
  <2>1. /\ rows[Found].ext # 0 /\ new.phase = "token"
        /\ \A s \in Receipts : InHand(s) => receipt[s].row # Found
    BY <1>1, <1>3, <1>6, <1>10
  <2>2. \A s \in Receipts \ {r} : InHand(s)' => receipt'[s].row # Found
    BY <1>5, <2>1 DEF InHand
  <2>3. /\ receipt'[r].phase = "token" /\ receipt'[r].row = Found /\ receipt'[r].loaded = rows'[Found]
        /\ rows'[Found].ext # 0 /\ Found \in 1..Len(rows')
    BY <1>1, <1>2, <1>3, <1>5, <2>1
  <2>4. QED BY <2>2, <2>3 DEF HasRowAlone, OnGitHub
<1>11. new.row \in 1..Len(rows) BY <1>2, <1>3
<1> HIDE DEF p
<1>12. QED BY <1>1, <1>4, <1>7, <1>8, <1>9, <1>10, <1>11, QuietReceiptRepairs

(* await get_installation_token *)
LEMMA TokenRepairs ==
    ASSUME Inductive, Repairing, TypeOK', NEW r \in Receipts, ReceiptToken(r)
    PROVE  Repairing'
<1>1. /\ receipt[r].phase = "token" /\ receipt' = [receipt EXCEPT ![r].phase = "patch"]
      /\ UNCHANGED <<rows, decided, github, comments, alone>>
  BY DEF ReceiptToken, ReceiptTo, remote, history
<1>2. PICK new \in Receipt :
         /\ new = [receipt[r] EXCEPT !.phase = "patch"]
         /\ new.phase = "patch" /\ new.row = receipt[r].row /\ new.loaded = receipt[r].loaded
  BY ReceiptToPhase DEF Inductive, ReceiptPhases
<1>3. receipt' = [receipt EXCEPT ![r] = new] BY <1>1, <1>2
<1>4. receipt'[r] = new /\ \A s \in Receipts : s # r => receipt'[s] = receipt[s]
  BY <1>3 DEF Inductive, TypeOK
<1>5. InHand(r) /\ receipt[r].row \in 1..Len(rows)
  BY <1>1 DEF InHand, Inductive, ReceiptsKnow, ReceiptKnows, OnGitHub
<1>6. Names(new.row, new.loaded.comment) BY <1>2, <1>5 DEF Names
<1>7. ASSUME r \in alone PROVE HasRowAlone(r)'
  <2>1. HasRowAlone(r) BY <1>7 DEF Repairing
  <2>2. \A s \in Receipts \ {r} : InHand(s)' => receipt'[s].row # receipt[r].row
    BY <1>4, <2>1 DEF HasRowAlone, InHand
  <2>3. /\ receipt[r].row \in 1..Len(rows) /\ rows[receipt[r].row].ext # 0
        /\ receipt[r].loaded = rows[receipt[r].row]
    BY <1>1, <2>1 DEF HasRowAlone, OnGitHub
  <2>4. QED BY <1>1, <1>2, <1>4, <2>2, <2>3 DEF HasRowAlone, OnGitHub
<1>8. QED BY <1>1, <1>2, <1>3, <1>5, <1>6, <1>7, QuietReceiptRepairs

(* update_check_run reaches no other row's check run; upsert_pr_comment writes a comment
   the row names, or a new one. *)
LEMMA EffectsApart ==
    ASSUME Inductive, CommentsOwned, NEW r \in Receipts, receipt[r].phase \in OnGitHub
    PROVE  /\ \A i \in 1..Len(rows) : i # receipt[r].row /\ rows[i].ext # 0 =>
                 Patched(r)[rows[i].ext] = github[rows[i].ext]
           /\ Len(Commented(r)) \in Nat /\ Len(comments) <= Len(Commented(r)) /\ CommentId(r) \in Nat
           /\ CommentId(r) \in 1..Len(Commented(r)) /\ Commented(r)[CommentId(r)] = Shown(r)
           /\ \A c \in 1..Len(comments) : c # CommentId(r) => Commented(r)[c] = comments[c]
           /\ Names(receipt[r].row, CommentId(r)) \/ CommentId(r) > Len(comments)
<1> DEFINE w == receipt[r].row
           e == receipt[r].loaded.comment
<1>1. /\ w \in 1..Len(rows) /\ rows[w].ext = receipt[r].loaded.ext /\ Shown(r) \in Conclusions
      /\ receipt[r].loaded \in Row /\ e \in Nat
  BY AtGitHub DEF Row
<1>2. comments \in Seq(Conclusions) /\ Len(comments) \in Nat BY RowsTyped DEF Inductive, TypeOK
<1>3. ASSUME NEW i \in 1..Len(rows), i # w, rows[i].ext # 0
      PROVE  Patched(r)[rows[i].ext] = github[rows[i].ext]
  <2>1. rows[i].ext # receipt[r].loaded.ext BY <1>1, <1>3 DEF Inductive, RowsDistinct
  <2>2. rows[i].ext \in 1..Len(github) BY <1>3, RowsTyped DEF Inductive, RowsDistinct
  <2>3. QED BY <2>1, <2>2, PatchedCompletes
<1>4. Names(w, e) BY DEF Names, InHand, OnGitHub
<1> HIDE DEF e
<1>5. CASE e = 0
  <2>1. CommentId(r) = Len(comments) + 1 /\ Commented(r) = Append(comments, Shown(r))
    BY <1>5 DEF CommentId, Commented, e
  <2>2. /\ Len(Commented(r)) = Len(comments) + 1 /\ Commented(r)[Len(comments) + 1] = Shown(r)
        /\ \A c \in 1..Len(comments) : Commented(r)[c] = comments[c]
    BY <1>1, <1>2, <2>1, AppendProperties
  <2>3. QED BY <1>2, <1>3, <2>1, <2>2
<1>6. CASE e # 0
  <2>1. CommentId(r) = e /\ Commented(r) = [comments EXCEPT ![e] = Shown(r)]
    BY <1>6 DEF CommentId, Commented, e
  <2>2. e \in 1..Len(comments) BY <1>1, <1>2, <1>4, <1>6 DEF CommentsOwned
  <2>3. /\ Len(Commented(r)) = Len(comments)
        /\ \A c \in 1..Len(comments) : Commented(r)[c] = IF c = e THEN Shown(r) ELSE comments[c]
    BY <1>1, <1>2, <2>1, <2>2, ExceptSeq
  <2>4. QED BY <1>1, <1>2, <1>3, <1>4, <2>1, <2>2, <2>3
<1>7. QED BY <1>5, <1>6

(* A call that fails leaves the others' rows alone, had it its effect or not. *)
LEMMA ApiFailsRepairs ==
    ASSUME Inductive, Repairing, TypeOK', NEW r \in Receipts, ReceiptApiFails(r)
    PROVE  Repairing'
<1>1. /\ receipt[r].phase \in OnGitHub
      /\ receipt' = [receipt EXCEPT ![r].phase = "done"] /\ alone' = alone \ {r}
      /\ UNCHANGED <<rows, decided>>
      /\ github' = github \/ github' = Patched(r)
      /\ comments' = comments \/ comments' = Commented(r)
  BY DEF ReceiptApiFails, ReceiptTo, OnGitHub, remote
<1>2. PICK new \in Receipt : new = [receipt[r] EXCEPT !.phase = "done"] /\ new.phase = "done"
  BY ReceiptToPhase DEF Inductive, ReceiptPhases
<1>3. receipt' = [receipt EXCEPT ![r] = new] BY <1>1, <1>2
<1>4. receipt'[r].phase = "done" /\ \A s \in Receipts : s # r => receipt'[s] = receipt[s]
  BY <1>2, <1>3 DEF Inductive, TypeOK
<1>5. InHand(r) /\ ~InHand(r)' /\ receipt[r].row \in 1..Len(rows)
  BY <1>1, <1>4, AtGitHub DEF InHand, OnGitHub
<1>6. Len(rows) \in Nat /\ Len(comments) \in Nat /\ CommentsOwned BY RowsTyped DEF Inductive, Repairing
<1>7. /\ \A i \in 1..Len(rows) : i # receipt[r].row /\ rows[i].ext # 0 =>
            github'[rows[i].ext] = github[rows[i].ext]
      /\ Len(comments) <= Len(comments')
      /\ \A c \in 1..Len(comments) : comments'[c] = comments[c] \/ Names(receipt[r].row, c)
  <2>1. CASE comments' = comments BY <1>1, <1>6, <2>1, EffectsApart
  <2>2. CASE comments' = Commented(r) BY <1>1, <1>6, <2>2, EffectsApart
  <2>3. QED BY <1>1, <2>1, <2>2
<1>8. ASSUME NEW i \in 1..Len(rows), NEW c \in Nat, Names(i, c)' PROVE Names(i, c)
  BY <1>1, <1>4, <1>5, <1>8 DEF Names, InHand
<1>9. CommentsOwned' BY <1>1, <1>5, <1>6, <1>7, <1>8, CommentsStayOwned
<1>10. Len(rows') = Len(rows) /\ (\A i \in 1..Len(rows) : rows'[i] = rows[i])
  BY <1>1
<1>11. \A k \in Runs : decided[k] # "none" => decided'[k] = decided[k] BY <1>1
<1>12. alone' \subseteq alone \cup {r} /\ r \notin alone' BY <1>1
<1>13. QED BY <1>3, <1>5, <1>7, <1>9, <1>10, <1>11, <1>12, ReceiptRepairs

(* The check run shows the decision. *)
LEMMA PatchRepairs ==
    ASSUME Inductive, Repairing, TypeOK', NEW r \in Receipts, ReceiptPatch(r)
    PROVE  Repairing'
<1>1. /\ receipt[r].phase = "patch" /\ github' = Patched(r)
      /\ receipt' = [receipt EXCEPT ![r].phase = "comment"]
      /\ UNCHANGED <<rows, decided, comments, alone>>
  BY DEF ReceiptPatch, ReceiptTo, history
<1>2. PICK new \in Receipt :
         /\ new = [receipt[r] EXCEPT !.phase = "comment"]
         /\ new.phase = "comment" /\ new.row = receipt[r].row /\ new.loaded = receipt[r].loaded
         /\ new.run = receipt[r].run
  BY ReceiptToPhase DEF Inductive, ReceiptPhases
<1>3. receipt' = [receipt EXCEPT ![r] = new] BY <1>1, <1>2
<1>4. receipt'[r] = new /\ \A s \in Receipts : s # r => receipt'[s] = receipt[s]
  BY <1>3 DEF Inductive, TypeOK
<1>5. InHand(r) /\ receipt[r].row \in 1..Len(rows) /\ receipt[r].phase \in OnGitHub
  BY <1>1, AtGitHub DEF InHand, OnGitHub
<1>6. Len(rows) \in Nat /\ Len(comments) \in Nat /\ CommentsOwned BY RowsTyped DEF Inductive, Repairing
<1>7. \A i \in 1..Len(rows) : i # receipt[r].row /\ rows[i].ext # 0 =>
         github'[rows[i].ext] = github[rows[i].ext]
  BY <1>1, <1>5, <1>6, EffectsApart
<1>8. ASSUME NEW i \in 1..Len(rows), NEW c \in Nat, Names(i, c)' PROVE Names(i, c)
  BY <1>1, <1>2, <1>4, <1>5, <1>8 DEF Names, InHand
<1>9. CommentsOwned' BY <1>1, <1>5, <1>6, <1>8, CommentsStayOwned
<1>10. ASSUME r \in alone PROVE HasRowAlone(r)'
  <2>1. HasRowAlone(r) BY <1>10 DEF Repairing
  <2>2. \A s \in Receipts \ {r} : InHand(s)' => receipt'[s].row # receipt[r].row
    BY <1>4, <2>1 DEF HasRowAlone, InHand
  <2>3. /\ receipt[r].row \in 1..Len(rows) /\ rows[receipt[r].row].ext # 0
        /\ receipt[r].loaded = rows[receipt[r].row]
    BY <1>1, <2>1 DEF HasRowAlone, OnGitHub
  <2>4. Shown(r)' = Shown(r) BY <1>1, <1>2, <1>4 DEF Shown
  <2>5. github'[rows[receipt[r].row].ext] = Told(r)'
    BY <1>1, <1>5, <2>3, <2>4, PatchedCompletes DEF Told
  <2>6. QED BY <1>1, <1>2, <1>4, <2>2, <2>3, <2>5 DEF HasRowAlone, OnGitHub
<1>11. /\ Len(rows') = Len(rows) /\ \A i \in 1..Len(rows) : rows'[i] = rows[i]
       /\ Len(comments) <= Len(comments') /\ \A c \in 1..Len(comments) : comments'[c] = comments[c]
       /\ \A k \in Runs : decided[k] # "none" => decided'[k] = decided[k]
       /\ alone' \subseteq alone \cup {r}
  BY <1>1, <1>6
<1>12. QED BY <1>1, <1>2, <1>3, <1>5, <1>7, <1>9, <1>10, <1>11, ReceiptRepairs

(* The comment shows it too; it is the row's, or new and the row's to be. *)
LEMMA CommentRepairs ==
    ASSUME Inductive, Repairing, TypeOK', NEW r \in Receipts, ReceiptComment(r)
    PROVE  Repairing'
<1> DEFINE e == CommentId(r)
<1>1. /\ receipt[r].phase = "comment" /\ comments' = Commented(r)
      /\ receipt' = [receipt EXCEPT ![r].phase = "save", ![r].comment = e]
      /\ UNCHANGED <<rows, decided, github, alone>>
  BY DEF ReceiptComment, history
<1>2. InHand(r) /\ receipt[r].row \in 1..Len(rows) /\ receipt[r].phase \in OnGitHub
  BY <1>1, AtGitHub DEF InHand, OnGitHub
<1>3. Len(rows) \in Nat /\ Len(comments) \in Nat /\ CommentsOwned BY RowsTyped DEF Inductive, Repairing
<1>4. /\ Len(comments') \in Nat /\ Len(comments) <= Len(comments') /\ e \in Nat
      /\ e \in 1..Len(comments') /\ comments'[e] = Shown(r)
      /\ \A c \in 1..Len(comments) : c # e => comments'[c] = comments[c]
      /\ Names(receipt[r].row, e) \/ e > Len(comments)
  BY <1>1, <1>2, <1>3, EffectsApart
<1> HIDE DEF e
<1>5. PICK new \in Receipt :
         /\ new = [receipt[r] EXCEPT !.phase = "save", !.comment = e]
         /\ new.phase = "save" /\ new.row = receipt[r].row /\ new.loaded = receipt[r].loaded
         /\ new.run = receipt[r].run /\ new.comment = e
  <2>1. receipt[r] \in Receipt BY ReceiptTyped DEF Inductive
  <2>2. [receipt[r] EXCEPT !.phase = "save", !.comment = e] \in Receipt
    BY <1>4, <2>1 DEF Receipt, ReceiptPhases
  <2>3. QED BY <2>1, <2>2 DEF Receipt
<1>6. receipt' = [receipt EXCEPT ![r] = new] BY <1>1, <1>5
<1>7. receipt'[r] = new /\ \A s \in Receipts : s # r => receipt'[s] = receipt[s]
  BY <1>6 DEF Inductive, TypeOK
<1>8. ASSUME NEW i \in 1..Len(rows), NEW c \in Nat, Names(i, c)'
      PROVE  Names(i, c) \/ (i = receipt[r].row /\ c = e)
  <2>1. CASE rows'[i].comment = c BY <1>1, <2>1 DEF Names
  <2>2. CASE rows'[i].comment # c
    <3>1. PICK s \in Receipts :
             /\ InHand(s)' /\ receipt'[s].row = i
             /\ \/ receipt'[s].loaded.comment = c
                \/ receipt'[s].phase = "save" /\ receipt'[s].comment = c
      BY <1>8, <2>2 DEF Names
    <3>2. CASE s = r
      <4>1. i = receipt[r].row /\ (receipt[r].loaded.comment = c \/ c = e)
        BY <1>5, <1>7, <3>1, <3>2
      <4>2. QED BY <1>2, <4>1 DEF Names
    <3>3. CASE s # r
      <4>1. receipt'[s] = receipt[s] /\ InHand(s) BY <1>7, <3>1, <3>3 DEF InHand
      <4>2. QED BY <3>1, <4>1 DEF Names
    <3>4. QED BY <3>2, <3>3
  <2>3. QED BY <2>1, <2>2
<1>9. CommentsOwned'
  <2>1. ASSUME NEW i \in 1..Len(rows'), NEW c \in Nat, Names(i, c)'
        PROVE  \/ i \in 1..Len(rows) /\ Names(i, c)
               \/ i = receipt[r].row /\ c > Len(comments) /\ c <= Len(comments')
    BY <1>1, <1>4, <1>8, <2>1
  <2>2. QED BY <1>1, <1>2, <1>3, <1>4, <2>1, CommentsStayOwned
<1>10. ASSUME r \in alone PROVE HasRowAlone(r)'
  <2>1. HasRowAlone(r) BY <1>10 DEF Repairing
  <2>2. \A s \in Receipts \ {r} : InHand(s)' => receipt'[s].row # receipt[r].row
    BY <1>7, <2>1 DEF HasRowAlone, InHand
  <2>3. /\ receipt[r].row \in 1..Len(rows) /\ rows[receipt[r].row].ext # 0
        /\ receipt[r].loaded = rows[receipt[r].row] /\ github[rows[receipt[r].row].ext] = Told(r)
    BY <1>1, <2>1 DEF HasRowAlone, OnGitHub
  <2>4. Shown(r)' = Shown(r) /\ Told(r)' = Told(r) BY <1>1, <1>5, <1>7 DEF Shown, Told
  <2>5. new.comment \in 1..Len(comments') /\ comments'[new.comment] = Shown(r)'
    BY <1>4, <1>5, <2>4
  <2>6. QED BY <1>1, <1>5, <1>7, <2>2, <2>3, <2>4, <2>5 DEF HasRowAlone, OnGitHub, Tells
<1>11. /\ Len(rows') = Len(rows) /\ \A i \in 1..Len(rows) : rows'[i] = rows[i]
       /\ \A i \in 1..Len(rows) : github'[rows[i].ext] = github[rows[i].ext]
       /\ \A k \in Runs : decided[k] # "none" => decided'[k] = decided[k]
       /\ alone' = alone /\ alone' \subseteq alone \cup {r}
  BY <1>1
<1>12. \A c \in 1..Len(comments) : comments'[c] = comments[c] \/ Names(receipt[r].row, c)
  BY <1>3, <1>4
<1>13. QED BY <1>2, <1>4, <1>5, <1>6, <1>9, <1>10, <1>11, <1>12,
           ReceiptRepairs

(* The row is written as it was loaded but for what the receipt told GitHub. *)
LEMMA WriteRepairs ==
    ASSUME Inductive, Repairing, TypeOK', NEW r \in Receipts, NEW nr \in Row,
           InHand(r), receipt' = [receipt EXCEPT ![r].phase = "done"],
           rows' = [rows EXCEPT ![receipt[r].row] = nr],
           UNCHANGED <<decided, github, comments, alone>>,
           nr.ext = rows[receipt[r].row].ext,
           \/ nr.comment = rows[receipt[r].row].comment
           \/ receipt[r].phase = "save" /\ nr.comment = receipt[r].comment,
           receipt[r].phase # "save" => r \notin alone,
           receipt[r].phase = "save" /\ receipt[r].loaded = rows[receipt[r].row] =>
              /\ nr.status = "completed" /\ nr.conclusion = Shown(r)
              /\ nr.comment = receipt[r].comment
    PROVE  Repairing'
<1> DEFINE w == receipt[r].row
<1>1. PICK new \in Receipt :
         /\ new = [receipt[r] EXCEPT !.phase = "done"]
         /\ new.phase = "done" /\ new.row = w /\ new.run = receipt[r].run
  BY ReceiptToPhase DEF Inductive, ReceiptPhases
<1>2. receipt' = [receipt EXCEPT ![r] = new] BY <1>1
<1>3. receipt'[r] = new /\ \A s \in Receipts : s # r => receipt'[s] = receipt[s]
  BY <1>2 DEF Inductive, TypeOK
<1>4. ~InHand(r)' BY <1>1, <1>3 DEF InHand
<1>5. w \in 1..Len(rows) BY DEF Inductive, ReceiptsKnow, ReceiptKnows, InHand, OnGitHub
<1>6. rows \in Seq(Row) /\ Len(rows) \in Nat /\ Len(comments) \in Nat
  BY RowsTyped DEF Inductive, TypeOK
<1>7. /\ Len(rows') = Len(rows)
      /\ \A i \in 1..Len(rows) : rows'[i] = IF i = w THEN nr ELSE rows[i]
  BY <1>5, <1>6, ExceptSeq
<1>8. Names(w, nr.comment) BY DEF Names
<1>9. ASSUME NEW i \in 1..Len(rows), NEW c \in Nat, Names(i, c)' PROVE Names(i, c)
  <2>1. CASE rows'[i].comment = c
    <3>1. CASE i = w BY <1>7, <1>8, <2>1, <3>1
    <3>2. CASE i # w BY <1>7, <2>1, <3>2 DEF Names
    <3>3. QED BY <3>1, <3>2
  <2>2. CASE rows'[i].comment # c BY <1>3, <1>4, <1>9, <2>2 DEF Names, InHand
  <2>3. QED BY <2>1, <2>2
<1>10. CommentsOwned'
  <2>1. \A i \in 1..Len(rows'), c \in Nat : Names(i, c)' => i \in 1..Len(rows) /\ Names(i, c)
    BY <1>7, <1>9
  <2>2. Len(rows) <= Len(rows') /\ Len(comments) <= Len(comments') BY <1>6, <1>7
  <2>3. QED BY <1>5, <2>1, <2>2, CommentsStayOwned DEF Repairing
<1>11. ASSUME r \in alone PROVE HasRowAlone(r)'
  <2>1. HasRowAlone(r) /\ receipt[r].phase = "save" BY <1>11 DEF Repairing
  <2>2. \A s \in Receipts \ {r} : InHand(s)' => receipt'[s].row # w
    BY <1>3, <2>1 DEF HasRowAlone, InHand
  <2>3. /\ rows[w].ext # 0 /\ receipt[r].loaded = rows[w] /\ github[rows[w].ext] = Told(r)
        /\ Tells(receipt[r].comment, r)
    BY <2>1 DEF HasRowAlone, OnGitHub
  <2>4. Shown(r)' = Shown(r) /\ Told(r)' = Told(r) BY <1>1, <1>3 DEF Shown, Told
  <2>5. /\ nr.status = "completed" /\ nr.conclusion = Shown(r)' /\ github'[nr.ext] = Told(r)'
        /\ nr.comment \in 1..Len(comments') /\ comments'[nr.comment] = Shown(r)'
    BY <2>1, <2>3, <2>4 DEF Tells
  <2>6. rows'[w] = nr /\ w \in 1..Len(rows') /\ nr.ext # 0 BY <1>5, <1>7, <2>3
  <2>7. receipt'[r].phase = "done" /\ receipt'[r].row = w BY <1>1, <1>3
  <2> HIDE DEF w
  <2>8. QED BY <2>2, <2>5, <2>6, <2>7 DEF HasRowAlone, OnGitHub, Tells
<1>12. /\ \A i \in 1..Len(rows) : i # w => rows'[i] = rows[i]
       /\ \A i \in 1..Len(rows) : github'[rows[i].ext] = github[rows[i].ext]
       /\ \A c \in 1..Len(comments) : comments'[c] = comments[c]
       /\ Len(comments) <= Len(comments') /\ alone' \subseteq alone \cup {r}
       /\ \A k \in Runs : decided[k] # "none" => decided'[k] = decided[k]
  BY <1>6, <1>7
<1>13. alone' = alone OBVIOUS
<1>14. QED BY <1>2, <1>4, <1>7, <1>10, <1>11, <1>12, <1>13, ReceiptRepairs

LEMMA LocalRepairs ==
    ASSUME Inductive, Repairing, TypeOK', NEW r \in Receipts, ReceiptLocal(r)
    PROVE  Repairing'
<1> DEFINE w == receipt[r].row
<1>1. /\ receipt[r].phase = "local" /\ rows' = [rows EXCEPT ![w] = Completed(r, rows[w])]
      /\ receipt' = [receipt EXCEPT ![r].phase = "done"]
      /\ UNCHANGED <<decided, github, comments, alone>>
  BY DEF ReceiptLocal, ReceiptTo, remote, history
<1>2. InHand(r) /\ w \in 1..Len(rows)
  BY <1>1 DEF InHand, Inductive, ReceiptsKnow, ReceiptKnows, OnGitHub
<1>3. rows[w] \in Row BY <1>2, RowsTyped DEF Inductive
<1>4. PICK nr \in Row : /\ nr = Completed(r, rows[w])
                        /\ nr.ext = rows[w].ext /\ nr.comment = rows[w].comment
  BY <1>1, <1>3, CompletedRow
<1>5. rows' = [rows EXCEPT ![w] = nr] BY <1>1, <1>4
<1>6. r \notin alone BY <1>1 DEF Repairing, HasRowAlone, OnGitHub
<1>7. QED BY <1>1, <1>2, <1>4, <1>5, <1>6, WriteRepairs

LEMMA SaveRepairs ==
    ASSUME Inductive, Repairing, TypeOK', NEW r \in Receipts, ReceiptSave(r)
    PROVE  Repairing'
<1> DEFINE w == receipt[r].row
           e == Written(receipt[r].comment, receipt[r].loaded.comment, rows[w].comment)
<1>1. /\ receipt[r].phase = "save" /\ rows' = [rows EXCEPT ![w] = Commit(r, rows[w])]
      /\ receipt' = [receipt EXCEPT ![r].phase = "done"]
      /\ UNCHANGED <<decided, github, comments, alone>>
  BY DEF ReceiptSave, ReceiptTo, remote, history
<1>2. InHand(r) /\ receipt[r].phase \in OnGitHub /\ w \in 1..Len(rows)
  BY <1>1, AtGitHub DEF InHand, OnGitHub
<1>3. rows[w] \in Row BY <1>2, RowsTyped DEF Inductive
<1>4. PICK c \in Row : /\ c = Completed(r, rows[w]) /\ c.ext = rows[w].ext /\ c.comment = rows[w].comment
                       /\ receipt[r].loaded = rows[w] => c.status = "completed" /\ c.conclusion = Shown(r)
  BY <1>2, <1>3, CompletedRow
<1>5. /\ e \in Nat
      /\ e = rows[w].comment \/ e = receipt[r].comment
      /\ receipt[r].loaded = rows[w] => e = receipt[r].comment
  BY <1>3, ReceiptTyped DEF Written, Row, Inductive
<1>6. Commit(r, rows[w]) = [c EXCEPT !.comment = e] BY <1>4 DEF Commit
<1> HIDE DEF e
<1>7. PICK nr \in Row : /\ nr = Commit(r, rows[w]) /\ nr.ext = rows[w].ext /\ nr.comment = e
                        /\ receipt[r].loaded = rows[w] => nr.status = "completed" /\ nr.conclusion = Shown(r)
  <2>1. [c EXCEPT !.comment = e] \in Row BY <1>4, <1>5 DEF Row
  <2>2. QED BY <1>4, <1>6, <2>1 DEF Row
<1>8. rows' = [rows EXCEPT ![w] = nr] BY <1>1, <1>7
<1>9. QED BY <1>1, <1>2, <1>5, <1>7, <1>8, WriteRepairs

LEMMA RepairingHolds == Spec => []Repairing
<1>1. Init => Repairing
  <2> SUFFICES ASSUME Init PROVE Repairing OBVIOUS
  <2>1. Len(rows) = 0 /\ alone = {} BY EmptySeq DEF Init
  <2>2. QED BY <2>1 DEF Repairing, CommentsOwned
<1>2. Inductive /\ Inductive' /\ Repairing /\ [Next]_vars => Repairing'
  <2> SUFFICES ASSUME Inductive, TypeOK', Repairing, [Next]_vars PROVE Repairing'
    BY DEF Inductive
  <2>1. CASE \E h \in Hooks :
                \/ \E g \in Guids : HookSkip(h, g)
                \/ \E g \in Guids, kind \in {"installation", "pull_request"} : HookStore(h, g, kind)
                \/ HookStep(h) \/ HookApiFails(h) \/ HookLost(h)
    BY <2>1, HookKeepsRepairing
  <2>2. ASSUME NEW r \in Receipts,
               \/ \E k \in Runs, d \in Decisions : ReceiptDecide(r, k, d)
               \/ ReceiptStep(r) \/ ReceiptApiFails(r) \/ ReceiptLost(r)
        PROVE  Repairing'
    <3>1. CASE \E k \in Runs, d \in Decisions : ReceiptDecide(r, k, d) BY <3>1, DecideRepairs
    <3>2. CASE ReceiptNoRow(r)
      <4>1. /\ receipt[r].phase = "decided" /\ receipt' = [receipt EXCEPT ![r].phase = "done"]
            /\ UNCHANGED <<rows, github, comments, decided, alone>>
        BY <3>2 DEF ReceiptNoRow, ReceiptTo, remote, history
      <4>2. r \notin alone BY <4>1 DEF Repairing, HasRowAlone, OnGitHub
      <4>3. alone' \subseteq alone \ {r} BY <4>1, <4>2
      <4>4. QED BY <4>1, <4>3, EndRepairs
    <3>3. CASE ReceiptLost(r)
      <4>1. /\ receipt' = [receipt EXCEPT ![r].phase = "lost"] /\ alone' \subseteq alone \ {r}
            /\ UNCHANGED <<rows, github, comments, decided>>
        BY <3>3 DEF ReceiptLost, ReceiptTo, remote
      <4>2. QED BY <4>1, EndRepairs
    <3>4. QED BY <2>2, <3>1, <3>2, <3>3, LookupRepairs, TokenRepairs, PatchRepairs, CommentRepairs,
                 LocalRepairs, SaveRepairs, ApiFailsRepairs DEF ReceiptStep
  <2>3. CASE UNCHANGED vars
    <3>1. UNCHANGED <<rows, decided, github, comments, receipt, alone>> BY <2>3 DEF vars
    <3>2. Len(rows) \in Nat BY RowsTyped DEF Inductive
    <3>3. /\ Len(rows) <= Len(rows') /\ \A i \in 1..Len(rows') : i \in 1..Len(rows) /\ rows'[i] = rows[i]
          /\ \A x \in 1..Len(github) : github'[x] = github[x]
      BY <3>1, <3>2
    <3>4. QED BY <3>1, <3>3, HookRepairs
  <2>4. QED BY <2>1, <2>2, <2>3 DEF Next
<1>3. QED BY <1>1, <1>2, InductiveHolds, PTL DEF Spec

(* However a delivery, its redelivery and failures meet, one delivery makes at most one row
   and one check run, and a check run belongs to one row. *)
THEOREM OneRowPerDelivery == Spec => []RedeliveryCreatesNothing
<1>1. Inductive => RedeliveryCreatesNothing
  <2> SUFFICES ASSUME Inductive PROVE RedeliveryCreatesNothing OBVIOUS
  <2>1. DOMAIN rows = 1..Len(rows) /\ Len(rows) \in Nat /\ Len(github) \in Nat
    BY RowsTyped DEF Inductive
  <2>2. Cardinality(ToCreate) \in Nat /\ Cardinality(ToCreate) + Len(github) <= Len(rows)
    BY FS_CardinalityType DEF Inductive, ChecksCounted
  <2>3. Len(github) <= Len(rows) BY <2>1, <2>2
  <2>4. QED BY <2>1, <2>3 DEF Inductive, RowsDistinct, RedeliveryCreatesNothing
<1>2. QED BY <1>1, InductiveHolds, PTL

(* Unless a receipt came before the external id, a row says "completed" only when GitHub's
   check run does, whatever calls fail and receipts cross. *)
THEOREM GitHubFirst == Spec => []RowNeverAheadOfGitHub
<1>1. Inductive => RowNeverAheadOfGitHub BY DEF Inductive
<1>2. QED BY <1>1, InductiveHolds, PTL

(* Whatever crossing receipts, failures or an early receipt left, a receipt that then has
   the row to itself leaves row, check run and comment telling its decision. *)
THEOREM LoneRepairs == Spec => []LoneReceiptRepairs
<1>1. Repairing => LoneReceiptRepairs
  BY DEF Repairing, HasRowAlone, LoneReceiptRepairs, Told, Tells
<1>2. QED BY <1>1, RepairingHolds, PTL

(* A delivery that stays "received" once the handlers are through belongs to a request
   that died. *)
THEOREM DeliveriesSettle == Spec => []EachDeliverySettles
<1>1. Inductive => EachDeliverySettles
  BY DEF Inductive, DeliveriesOwned, EachDeliverySettles, Quiet, Handling
<1>2. QED BY <1>1, InductiveHolds, PTL

(* A receipt whose commit's newest row had its check run when it came has completed that
   check run, unless something failed or a newer row appeared. *)
THEOREM NewestCompleted == Spec => []NewestIsCompleted
<1>1. Inductive => NewestIsCompleted
  BY DEF Inductive, ReceiptsComplete, ReceiptCompletes, NewestIsCompleted
<1>2. QED BY <1>1, InductiveHolds, PTL
=============================================================================
