--------------------------- MODULE ServiceProofs ---------------------------
(***************************************************************************)
(* Proofs about Service for every number of jobs, CI systems, connections  *)
(* and policies: but for a Jenkins connector that was killed, a green      *)
(* pipeline stands for its own receipt on record, and what a job knows to  *)
(* be bad does not get past it.                                            *)
(***************************************************************************)
EXTENDS Service, TLAPS

(* Types as far as the proofs need them: the domains of entry and answer, none of loop. *)
Receipts == {Bare} \cup {ReceiptOf(system, w) : system \in Systems, w \in Worlds}
States == {"new", "posted", "green", "red"}
Job == [state : States, system : Systems, second : Seconds \cup {0}, receipt : Receipts,
        enforced : SUBSET {"review", "block"}, secret : BOOLEAN, passed : BOOLEAN,
        dry : BOOLEAN, sent : BOOLEAN, code : Nat]

JobsTyped == job \in [Jobs -> Job]
PhasesTyped == phase \in [Jobs \cup Readers -> Pool!Phases]
EntriesTyped == entry = [k \in Keys |-> entry[k]]
AnswersTyped == answer = [j \in Jobs |-> answer[j]]

(* Only the receipt of a job that was sent is handled, and sending is for good. *)
OnlySentIsHandled ==
    \A j \in Jobs : /\ job[j].state = "new" => ~job[j].sent
                    /\ job[j].state = "posted" => job[j].sent
                    /\ phase[j] # "new" => job[j].sent
                    /\ answer[j] # "none" => job[j].sent

(* A secret the job knows of is in its receipt; a connector knows of none and fails on a
   block. *)
ReceiptTells ==
    \A j \in Jobs :
        /\ job[j].system \in Connectors => ~job[j].secret
        /\ job[j].sent =>
              /\ job[j].system \in Connectors => job[j].enforced = {"block"}
              /\ job[j].secret => \E f \in job[j].receipt.files : f.secret

(* What is on record was sent, and decided by a policy that was in force. *)
EntryIsDecision ==
    \A k \in Keys : entry[k].payload \in Jobs =>
        /\ job[entry[k].payload].sent
        /\ \E s \in Offered : entry[k].decision = Decide(job[entry[k].payload].receipt, s)

(* Only the job whose receipt is on record is told a decision, that of the record. *)
AnswerIsEntry ==
    \A j \in Jobs : answer[j] \in Decisions =>
        entry[Key(j)].payload = j /\ entry[Key(j)].decision = answer[j]

(* A pipeline is green because its client was told a decision that lets it pass, or
   because it was killed where the pipeline does not look. *)
Passed(j) == job[j].code = 0 /\ answer[j] \in Decisions /\ ExitCode(answer[j], j) = 0
KilledUnseen(j) == job[j].system = "jenkins" /\ job[j].code = KillCode
GreenIsAnswered ==
    \A j \in Jobs : job[j].state = "green" /\ ~job[j].dry => Passed(j) \/ KilledUnseen(j)

Inductive == /\ JobsTyped /\ PhasesTyped /\ EntriesTyped /\ AnswersTyped
             /\ OnlySentIsHandled /\ ReceiptTells /\ EntryIsDecision
             /\ AnswerIsEntry /\ GreenIsAnswered
-----------------------------------------------------------------------------
(* Constant-level lemmas *)

(* The first branch of the chain is taken for a secret, whatever else there is. *)
LEMMA SecretIsBlocked ==
    ASSUME NEW r, NEW s, \E f \in r.files : f.secret
    PROVE  Decide(r, s) = "block"
<1> DEFINE First(i) == Applies(i, r, s) /\ \A j \in 1..6 : Applies(j, r, s) => i <= j
<1>1. Applies(1, r, s) BY DEF Applies
<1>2. First(1) BY <1>1
<1>3. \A i \in 1..6 : First(i) => i = 1 BY <1>1
<1>4. Branch(r, s) = 1
  <2> HIDE DEF First
  <2>1. 1 \in 1..6 OBVIOUS
  <2>2. (CHOOSE i \in 1..6 : First(i)) = 1 BY <1>2, <1>3, <2>1
  <2>3. QED BY <2>2 DEF Branch, First
<1>5. Chosen(1, s) = "block" BY DEF Chosen
<1>6. QED BY <1>4, <1>5 DEF Decide

(* No file of the diff is lost on the way from the scanner's report to the receipt: what
   is reported outside the diff, or of no file, is laid to the first file. *)
LEMMA ScannedIsMarked ==
    ASSUME NEW system \in Systems, NEW w \in Worlds, Scanned(system, w)
    PROVE  \E f \in ReceiptOf(system, w).files : f.secret
<1> DEFINE n == w.files
           marked == Marked(n, w.scan)
<1>1. /\ system \in {"actions", "agent"} /\ system \notin Connectors
      /\ w.scan.readable /\ (w.scan.detected \/ w.scan.paths # {})
  BY DEF Scanned, Connectors
<1>2. n \in Nat BY WorldsAssumption, MaxFilesAssumption DEF World
<1>3. ReceiptOf(system, w).files = Files(n, marked)
  BY <1>1 DEF ReceiptOf, ActionsReceipt, AgentReceipt, Bare
<1>4. \/ marked = {1}
      \/ marked # {} /\ marked \subseteq 1..n
  BY <1>1 DEF Marked
<1>5. \E i \in marked : n = 0 => i = 1
  BY <1>2, <1>4
<1>6. CASE n = 0
  <2>1. 1 \in marked BY <1>5, <1>6
  <2>2. [secret |-> TRUE, code |-> FALSE] \in Files(n, marked) BY <2>1, <1>6 DEF Files
  <2>3. QED BY <2>2, <1>3
<1>7. CASE n # 0
  <2>1. PICK i \in marked : i \in 1..n BY <1>2, <1>4, <1>7
  <2>2. [secret |-> TRUE, code |-> TRUE] \in Files(n, marked) BY <2>1, <1>7 DEF Files
  <2>3. QED BY <2>2, <1>3
<1>8. QED BY <1>6, <1>7
-----------------------------------------------------------------------------
(* How a step may change a job *)

(* The fields of a job that are set once, when it is built. *)
SameReceipt(j) ==
    /\ job'[j].system = job[j].system /\ job'[j].second = job[j].second
    /\ job'[j].receipt = job[j].receipt /\ job'[j].enforced = job[j].enforced
    /\ job'[j].secret = job[j].secret /\ job'[j].passed = job[j].passed
    /\ job'[j].dry = job[j].dry /\ job'[j].sent = job[j].sent

LEMMA NotStartedIsJob == NotStarted \in Job
BY SystemsAssumption DEF NotStarted, Job, Receipts, States

(* An exit code that ends a job: 0 means green, and 1 means red. *)
LEMMA PipelineEnds ==
    ASSUME NEW system, NEW code
    PROVE  /\ Pipeline(system, code) \in {"green", "red"}
           /\ Pipeline(system, 1) = "red"
           /\ Pipeline(system, code) = "green" => code = 0 \/ system = "jenkins"
BY DEF Pipeline

LEMMA Moving ==
    ASSUME JobsTyped, NEW j \in Jobs, NEW code \in Nat, Ended(j, code)
    PROVE  /\ JobsTyped'
           /\ \A i \in Jobs : SameReceipt(i)
           /\ \A i \in Jobs : i # j => job'[i] = job[i]
           /\ job'[j].state = Pipeline(job[j].system, code) /\ job'[j].code = code
<1>1. \A i \in Jobs : job[i] \in Job BY DEF JobsTyped
<1> DEFINE state == Pipeline(job[j].system, code)
<1>2. job'[j] = [job[j] EXCEPT !.state = state, !.code = code] BY DEF JobsTyped, Ended
<1>3. \A i \in Jobs : i # j => job'[i] = job[i] BY DEF JobsTyped, Ended
<1>4. state \in States BY PipelineEnds DEF States
<1> HIDE DEF state
<1>5. job'[j] \in Job /\ job'[j].state = state /\ job'[j].code = code /\ SameReceipt(j)
  BY <1>1, <1>2, <1>4 DEF Job, SameReceipt
<1>6. JobsTyped'
  <2>1. job' = [i \in Jobs |-> job'[i]] BY DEF JobsTyped, Ended
  <2>2. QED BY <1>1, <1>3, <1>5, <2>1 DEF JobsTyped
<1>7. QED BY <1>3, <1>5, <1>6 DEF SameReceipt, state

(* Keys and exit codes depend on nothing else. *)
LEMMA SameKeys ==
    ASSUME NEW j \in Jobs, SameReceipt(j)
    PROVE  /\ Key(j)' = Key(j)
           /\ \A d : ExitCode(d, j)' = ExitCode(d, j)
BY DEF SameReceipt, Key, ExitCode, ShouldFail, WorkflowExitCode

LEMMA KeyIsKey ==
    ASSUME JobsTyped, NEW j \in Jobs
    PROVE  Key(j) \in Keys
<1>1. job[j].system \in Systems /\ job[j].second \in Seconds \cup {0} BY DEF JobsTyped, Job
<1>2. CASE job[j].system = "actions" BY <1>2 DEF Key, Keys, Connectors
<1>3. CASE job[j].system = "agent" BY <1>1, <1>3 DEF Key, Keys, Connectors
<1>4. CASE job[j].system \in Connectors BY <1>1, <1>4 DEF Key, Keys, Connectors
<1>5. QED BY <1>1, <1>2, <1>3, <1>4 DEF Connectors

(* A job that ends, by whatever exit code, keeps the invariant if it exits 0 only when it
   was told a decision that lets it, and with a code but 0 and 1 only when it is killed. *)
LEMMA MovingKeeps ==
    ASSUME Inductive, NEW j \in Jobs, NEW code \in {0, 1, KillCode},
           job[j].state = "posted", UNCHANGED <<pool, record>>, Ended(j, code),
           code = 0 => answer[j] \in Decisions /\ ExitCode(answer[j], j) = 0
    PROVE  Inductive'
<1> DEFINE state == Pipeline(job[j].system, code)
<1>1. /\ code \in Nat /\ state \notin {"new", "posted"}
      /\ state = "green" => code = 0 \/ (job[j].system = "jenkins" /\ code = KillCode)
  BY PipelineEnds DEF KillCode
<1>2. /\ JobsTyped'
      /\ \A i \in Jobs : SameReceipt(i)
      /\ \A i \in Jobs : i # j => job'[i] = job[i]
      /\ job'[j].state = state /\ job'[j].code = code
  BY <1>1, Moving DEF Inductive
<1> HIDE DEF state
<1>3. UNCHANGED <<phase, loop, entry, answer>> BY DEF pool, record
<1>4. PhasesTyped' /\ EntriesTyped' /\ AnswersTyped'
  BY <1>3 DEF Inductive, PhasesTyped, EntriesTyped, AnswersTyped
<1>5. \A i \in Jobs : Key(i)' = Key(i) /\ \A d : ExitCode(d, i)' = ExitCode(d, i)
  BY <1>2, SameKeys
<1>6. OnlySentIsHandled'
  BY <1>1, <1>2, <1>3 DEF Inductive, OnlySentIsHandled, SameReceipt
<1>7. ReceiptTells' BY <1>2 DEF Inductive, ReceiptTells, SameReceipt
<1>8. EntryIsDecision' BY <1>2, <1>3 DEF Inductive, EntryIsDecision, SameReceipt
<1>9. AnswerIsEntry' BY <1>3, <1>5 DEF Inductive, AnswerIsEntry
<1>10. GreenIsAnswered'
  <2>1. SUFFICES ASSUME NEW i \in Jobs, job'[i].state = "green", ~job'[i].dry
                 PROVE  Passed(i)' \/ KilledUnseen(i)'
    BY DEF GreenIsAnswered
  <2>2. CASE i = j
    <3>1. CASE code = 0 BY <1>2, <1>3, <1>5, <2>2, <3>1 DEF Passed
    <3>2. CASE code # 0
      BY <1>1, <1>2, <2>1, <2>2, <3>2 DEF KilledUnseen, SameReceipt
    <3>3. QED BY <3>1, <3>2
  <2>3. CASE i # j
    <3>1. Passed(i) \/ KilledUnseen(i) BY <1>2, <2>1, <2>3 DEF Inductive, GreenIsAnswered
    <3>2. QED BY <1>2, <1>3, <1>5, <2>3, <3>1 DEF Passed, KilledUnseen
  <2>4. QED BY <2>2, <2>3
<1>11. QED BY <1>2, <1>4, <1>6, <1>7, <1>8, <1>9, <1>10 DEF Inductive
-----------------------------------------------------------------------------
(* The steps *)

(* A job starts with nothing of it on record or under way. *)
LEMMA BeginningKeeps ==
    ASSUME Inductive, NEW j \in Jobs, job[j].state = "new", UNCHANGED <<pool, record>>,
           NEW row \in Job, job' = [job EXCEPT ![j] = row],
           row.state \in {"red", "green", "posted"},
           row.state = "green" => row.dry \/ (row.system = "jenkins" /\ row.code = KillCode),
           row.state = "posted" => row.sent,
           row.system \in Connectors => ~row.secret,
           row.sent => /\ row.system \in Connectors => row.enforced = {"block"}
                       /\ row.secret => \E f \in row.receipt.files : f.secret
    PROVE  Inductive'
<1>1. /\ ~job[j].sent /\ phase[j] = "new" /\ answer[j] = "none"
      /\ UNCHANGED <<phase, loop, entry, answer>>
  BY DEF Inductive, OnlySentIsHandled, pool, record
<1>2. job'[j] = row /\ \A i \in Jobs : i # j => job'[i] = job[i]
  BY DEF Inductive, JobsTyped
<1>3. JobsTyped' BY DEF Inductive, JobsTyped
<1>4. PhasesTyped' /\ EntriesTyped' /\ AnswersTyped'
  BY <1>1 DEF Inductive, PhasesTyped, EntriesTyped, AnswersTyped
<1>5. OnlySentIsHandled'
  BY <1>1, <1>2 DEF Inductive, OnlySentIsHandled
<1>6. ReceiptTells' BY <1>2 DEF Inductive, ReceiptTells
<1>7. EntryIsDecision'
  <2>1. \A k \in Keys : entry[k].payload # j
    BY <1>1 DEF Inductive, EntryIsDecision
  <2>2. QED BY <1>1, <1>2, <2>1 DEF Inductive, EntryIsDecision
<1>8. \A i \in Jobs : i # j => SameReceipt(i) BY <1>2 DEF SameReceipt
<1>9. AnswerIsEntry'
  <2>1. SUFFICES ASSUME NEW i \in Jobs, answer[i] \in Decisions
                 PROVE  entry[Key(i)'].payload = i /\ entry[Key(i)'].decision = answer[i]
    BY <1>1 DEF AnswerIsEntry
  <2>2. i # j BY <1>1, <2>1 DEF Decisions
  <2>3. QED BY <1>8, <2>1, <2>2, SameKeys DEF Inductive, AnswerIsEntry
<1>10. GreenIsAnswered'
  <2>1. SUFFICES ASSUME NEW i \in Jobs, job'[i].state = "green", ~job'[i].dry
                 PROVE  Passed(i)' \/ KilledUnseen(i)'
    BY DEF GreenIsAnswered
  <2>2. CASE i = j
    <3>1. job'[i].system = "jenkins" /\ job'[i].code = KillCode BY <1>2, <2>1, <2>2
    <3>2. QED BY <3>1 DEF KilledUnseen, KillCode
  <2>3. CASE i # j
    <3>1. job'[i] = job[i] /\ \A d : ExitCode(d, i)' = ExitCode(d, i)
      BY <1>2, <1>8, <2>3, SameKeys
    <3>2. Passed(i) \/ KilledUnseen(i) BY <2>1, <3>1 DEF Inductive, GreenIsAnswered
    <3>3. QED BY <1>1, <3>1, <3>2 DEF Passed, KilledUnseen
  <2>4. QED BY <2>2, <2>3
<1>11. QED
  BY <1>3, <1>4, <1>5, <1>6, <1>7, <1>9, <1>10 DEF Inductive

LEMMA StartKeeps ==
    ASSUME Inductive, NEW j \in Jobs, Start(j)
    PROVE  Inductive'
<1>1. PICK system \in Systems, w \in Worlds :
         BuildFails(j, system, w) \/ DryRun(j, system, w) \/ Submit(j, system, w)
  BY DEF Start, Build
<1>2. \E row \in Job :
         /\ job' = [job EXCEPT ![j] = row]
         /\ row.state \in {"red", "green", "posted"}
         /\ row.state = "green" => row.dry
         /\ row.state = "posted" => row.sent
         /\ row.system \in Connectors => ~row.secret
         /\ row.sent =>
               /\ row.system \in Connectors => row.enforced = {"block"}
               /\ row.secret => \E f \in row.receipt.files : f.secret
  <2>1. CASE BuildFails(j, system, w)
    <3> DEFINE row == [NotStarted EXCEPT !.state = "red", !.code = 1]
    <3>1. row \in Job /\ row.state = "red" /\ ~row.sent /\ ~row.secret
      BY NotStartedIsJob DEF Job, NotStarted, States
    <3>2. QED BY <2>1, <3>1 DEF BuildFails
  <2>2. CASE DryRun(j, system, w)
    <3> DEFINE row == [NotStarted EXCEPT !.state = "green", !.dry = TRUE]
    <3>1. row \in Job /\ row.state = "green" /\ row.dry /\ ~row.sent /\ ~row.secret
      BY NotStartedIsJob DEF Job, NotStarted, States
    <3>2. QED BY <2>2, <3>1 DEF DryRun
  <2>3. CASE Submit(j, system, w)
    <3>1. PICK enforced \in (IF system \in Connectors THEN {{"block"}} ELSE Enforced),
               second \in (IF system = "agent" THEN Seconds ELSE {0}) :
             job' = [job EXCEPT ![j] =
                [state |-> "posted", system |-> system, second |-> second,
                 receipt |-> ReceiptOf(system, w), enforced |-> enforced,
                 secret |-> Scanned(system, w), passed |-> w.passed, dry |-> FALSE,
                 sent |-> TRUE, code |-> 0]]
      BY <2>3 DEF Submit
    <3> DEFINE row == [state |-> "posted", system |-> system, second |-> second,
                       receipt |-> ReceiptOf(system, w), enforced |-> enforced,
                       secret |-> Scanned(system, w), passed |-> w.passed, dry |-> FALSE,
                       sent |-> TRUE, code |-> 0]
    <3>2. enforced \in SUBSET {"review", "block"} /\ second \in Seconds \cup {0}
      BY EnforcedAssumption
    <3>3. ReceiptOf(system, w) \in Receipts BY DEF Receipts
    <3>4. w.passed \in BOOLEAN BY WorldsAssumption DEF World
    <3>5. Scanned(system, w) \in BOOLEAN BY DEF Scanned
    <3>6. row \in Job BY <3>2, <3>3, <3>4, <3>5 DEF Job, States
    <3>7. row.secret => \E f \in row.receipt.files : f.secret BY ScannedIsMarked
    <3>8. row.system \in Connectors => row.enforced = {"block"} /\ ~row.secret
      BY DEF Scanned, Connectors
    <3> HIDE DEF row
    <3>9. row.state = "posted" /\ row.sent BY DEF row
    <3>10. job' = [job EXCEPT ![j] = row] BY <3>1 DEF row
    <3>11. QED BY <3>6, <3>7, <3>8, <3>9, <3>10
  <2>4. QED BY <1>1, <2>1, <2>2, <2>3
<1>3. job[j].state = "new" /\ UNCHANGED <<pool, record>> BY DEF Start, Build
<1>4. QED BY <1>2, <1>3, BeginningKeeps

LEMMA KilledKeeps ==
    ASSUME Inductive, NEW j \in Jobs, Killed(j)
    PROVE  Inductive'
<1>1. UNCHANGED <<pool, record>> BY DEF Killed
<1>2. CASE job[j].state = "posted" /\ Ended(j, KillCode)
  <2>1. KillCode # 0 BY DEF KillCode
  <2>2. QED BY <1>1, <1>2, <2>1, MovingKeeps
<1>3. ASSUME job[j].state = "new",
             job' = [job EXCEPT ![j] =
                [NotStarted EXCEPT !.system = "jenkins", !.code = KillCode,
                                   !.state = Pipeline("jenkins", KillCode)]]
      PROVE  Inductive'
  <2> DEFINE row == [NotStarted EXCEPT !.system = "jenkins", !.code = KillCode,
                                       !.state = Pipeline("jenkins", KillCode)]
  <2>1. Pipeline("jenkins", KillCode) = "green" BY DEF Pipeline, KillCode
  <2>2. /\ row \in Job /\ row.state = "green" /\ row.system = "jenkins" /\ row.code = KillCode
        /\ ~row.secret /\ ~row.sent
    <3>1. KillCode \in Nat /\ "green" \in States /\ "jenkins" \in Systems
      BY SystemsAssumption DEF KillCode, States
    <3>2. row \in Job BY <2>1, <3>1, NotStartedIsJob DEF Job
    <3>3. /\ row.state = "green" /\ row.system = "jenkins" /\ row.code = KillCode
          /\ ~row.secret /\ ~row.sent
      BY <2>1 DEF NotStarted
    <3>4. QED BY <3>2, <3>3
  <2>3. job' = [job EXCEPT ![j] = row] BY <1>3
  <2> HIDE DEF row
  <2>4. QED BY <1>1, <1>3, <2>2, <2>3, BeginningKeeps
<1>4. QED BY <1>2, <1>3 DEF Killed, Kill

(* A request moves on in the pool. *)
LEMMA PhaseKeeps ==
    ASSUME Inductive, NEW r \in Jobs \cup Readers, NEW p \in Pool!Phases, Pool!To(r, p),
           r \in Jobs => job[r].sent
    PROVE  PhasesTyped' /\ \A j \in Jobs : phase'[j] # "new" => job[j].sent
<1>1. phase' = [phase EXCEPT ![r] = p] /\ PhasesTyped BY DEF Pool!To, Inductive
<1>2. PhasesTyped' BY <1>1 DEF PhasesTyped
<1>3. \A j \in Jobs : j # r => phase'[j] = phase[j] BY <1>1 DEF PhasesTyped
<1>4. QED BY <1>2, <1>3 DEF Inductive, OnlySentIsHandled

LEMMA PoolStepKeeps ==
    ASSUME Inductive, NEW r \in Jobs \cup Readers, NEW p \in Pool!Phases, Pool!To(r, p),
           r \in Jobs => job[r].sent, UNCHANGED <<job, record>>
    PROVE  Inductive'
<1>1. PhasesTyped' /\ \A j \in Jobs : phase'[j] # "new" => job[j].sent BY PhaseKeeps
<1>2. UNCHANGED <<job, entry, answer>> BY DEF record
<1>3. JobsTyped' /\ EntriesTyped' /\ AnswersTyped'
  BY <1>2 DEF Inductive, JobsTyped, EntriesTyped, AnswersTyped
<1>4. OnlySentIsHandled' BY <1>1, <1>2 DEF Inductive, OnlySentIsHandled
<1>5. ReceiptTells' /\ EntryIsDecision'
  BY <1>2 DEF Inductive, ReceiptTells, EntryIsDecision
<1>6. \A j \in Jobs : Key(j)' = Key(j) /\ \A d : ExitCode(d, j)' = ExitCode(d, j)
  BY <1>2, SameKeys DEF SameReceipt
<1>7. AnswerIsEntry' BY <1>2, <1>6 DEF Inductive, AnswerIsEntry
<1>8. GreenIsAnswered' BY <1>2, <1>6 DEF Inductive, GreenIsAnswered, Passed, KilledUnseen
<1>9. QED BY <1>1, <1>3, <1>4, <1>5, <1>7, <1>8 DEF Inductive

(* A decision is recorded under a key that had none, so no earlier answer changes its
   meaning. *)
LEMMA StoreKeeps ==
    ASSUME Inductive, NEW j \in Jobs, Store(j)
    PROVE  Inductive'
<1> DEFINE k == Key(j)
<1>1. PICK s \in Offered : Record!Decide(k, j, Decide(job[j].receipt, s)) BY DEF Store
<1>2. /\ job[j].sent
      /\ phase[j] = "using" /\ Pool!To(j, "waiting")
      /\ UNCHANGED <<job, answer>>
      /\ entry[k].decision = "none"
  BY <1>1 DEF Store, Pool!Commit, Inductive, OnlySentIsHandled, Record!Decide
<1>3. k \in Keys BY KeyIsKey DEF Inductive
<1> DEFINE d == Decide(job[j].receipt, s)
           row == [payload |-> j, decision |-> d,
                   status |-> IF d = "review" THEN "pending" ELSE "not_required"]
<1>4. entry' = [entry EXCEPT ![k] = row] BY <1>1 DEF Record!Decide
<1>5. row.payload = j /\ row.decision = d OBVIOUS
<1> HIDE DEF k, d, row
<1>6. EntriesTyped' BY <1>4 DEF Inductive, EntriesTyped
<1>7. entry'[k] = row /\ \A q \in Keys : q # k => entry'[q] = entry[q]
  BY <1>3, <1>4 DEF Inductive, EntriesTyped
<1>8. JobsTyped' /\ PhasesTyped' /\ AnswersTyped' /\ OnlySentIsHandled' /\ ReceiptTells'
  <2>1. PhasesTyped' /\ \A i \in Jobs : phase'[i] # "new" => job[i].sent
    BY <1>2, PhaseKeeps DEF Pool!Phases
  <2>2. QED
    BY <1>2, <2>1 DEF Inductive, JobsTyped, AnswersTyped, OnlySentIsHandled, ReceiptTells
<1>9. EntryIsDecision'
  <2>1. SUFFICES ASSUME NEW q \in Keys, entry'[q].payload \in Jobs
                 PROVE  /\ job[entry'[q].payload].sent
                        /\ \E t \in Offered :
                              entry'[q].decision = Decide(job[entry'[q].payload].receipt, t)
    BY <1>2 DEF EntryIsDecision
  <2>2. CASE q = k BY <1>2, <1>5, <1>7, <2>2 DEF d
  <2>3. CASE q # k BY <1>7, <2>1, <2>3 DEF Inductive, EntryIsDecision
  <2>4. QED BY <2>2, <2>3
<1>10. \A i \in Jobs : /\ Key(i)' = Key(i) /\ Key(i) \in Keys
                       /\ \A c : ExitCode(c, i)' = ExitCode(c, i)
  BY <1>2, SameKeys, KeyIsKey DEF SameReceipt, Inductive
<1>11. AnswerIsEntry'
  <2>1. SUFFICES ASSUME NEW i \in Jobs, answer[i] \in Decisions
                 PROVE  entry'[Key(i)].payload = i /\ entry'[Key(i)].decision = answer[i]
    BY <1>2, <1>10 DEF AnswerIsEntry
  <2>2. entry[Key(i)].payload = i /\ entry[Key(i)].decision = answer[i]
    BY <2>1 DEF Inductive, AnswerIsEntry
  <2>3. Key(i) # k BY <1>2, <2>1, <2>2 DEF Decisions
  <2>4. QED BY <1>7, <1>10, <2>2, <2>3
<1>12. GreenIsAnswered' BY <1>2, <1>10 DEF Inductive, GreenIsAnswered, Passed, KilledUnseen
<1>13. QED BY <1>6, <1>8, <1>9, <1>11, <1>12 DEF Inductive

(* The answer is read off the record, once. *)
LEMMA ReplyKeeps ==
    ASSUME Inductive, NEW j \in Jobs, Reply(j)
    PROVE  Inductive'
<1> DEFINE a == IF entry[Key(j)].payload = j THEN entry[Key(j)].decision ELSE "conflict"
<1>1. /\ answer[j] = "none" /\ answer' = [answer EXCEPT ![j] = a]
      /\ UNCHANGED <<job, entry>>
  BY DEF Reply, Record!Answer
<1>2. phase[j] = "using" /\ \E p \in Pool!Phases : Pool!To(j, p)
  BY DEF Reply, Pool!AwaitGitHub, Pool!ReturnIngest, Pool!Leave, Pool!Returned, Pool!Phases
<1>3. job[j].sent BY <1>2 DEF Inductive, OnlySentIsHandled
<1>4. PhasesTyped' /\ \A i \in Jobs : phase'[i] # "new" => job[i].sent
  BY <1>2, <1>3, PhaseKeeps
<1>5. a \in Decisions => entry[Key(j)].payload = j /\ entry[Key(j)].decision = a
  BY DEF Decisions
<1> HIDE DEF a
<1>6. AnswersTyped' BY <1>1 DEF Inductive, AnswersTyped
<1>7. answer'[j] = a /\ \A i \in Jobs : i # j => answer'[i] = answer[i]
  BY <1>1 DEF Inductive, AnswersTyped
<1>8. JobsTyped' /\ EntriesTyped' /\ ReceiptTells' /\ EntryIsDecision'
  BY <1>1 DEF Inductive, JobsTyped, EntriesTyped, ReceiptTells, EntryIsDecision
<1>9. OnlySentIsHandled'
  BY <1>1, <1>3, <1>4, <1>7 DEF Inductive, OnlySentIsHandled
<1>10. \A i \in Jobs : Key(i)' = Key(i) /\ \A d : ExitCode(d, i)' = ExitCode(d, i)
  BY <1>1, SameKeys DEF SameReceipt
<1>11. AnswerIsEntry'
  <2>1. SUFFICES ASSUME NEW i \in Jobs, answer'[i] \in Decisions
                 PROVE  entry[Key(i)].payload = i /\ entry[Key(i)].decision = answer'[i]
    BY <1>1, <1>10 DEF AnswerIsEntry
  <2>2. CASE i = j BY <1>5, <1>7, <2>1, <2>2
  <2>3. CASE i # j BY <1>7, <2>1, <2>3 DEF Inductive, AnswerIsEntry
  <2>4. QED BY <2>2, <2>3
<1>12. GreenIsAnswered'
  <2>1. SUFFICES ASSUME NEW i \in Jobs, job[i].state = "green", ~job[i].dry
                 PROVE  Passed(i)' \/ KilledUnseen(i)'
    BY <1>1 DEF GreenIsAnswered
  <2>2. CASE KilledUnseen(i) BY <1>1, <2>2 DEF KilledUnseen
  <2>3. CASE Passed(i)
    <3>1. i # j BY <1>1, <2>3 DEF Passed, Decisions
    <3>2. QED BY <1>1, <1>7, <1>10, <2>3, <3>1 DEF Passed
  <2>4. QED BY <2>1, <2>2, <2>3 DEF Inductive, GreenIsAnswered
<1>13. QED BY <1>4, <1>6, <1>8, <1>9, <1>11, <1>12 DEF Inductive
-----------------------------------------------------------------------------
(* The invariant and what follows from it *)

LEMMA InitEstablishes == Init => Inductive
<1> SUFFICES ASSUME Init PROVE Inductive OBVIOUS
<1>1. job = [j \in Jobs |-> NotStarted] BY DEF Init, JobsInit
<1>2. phase = [r \in Jobs \cup Readers |-> "new"]
  BY DEF Init, Pool!Init, Pool!Requests
<1>3. /\ entry = [k \in Keys |-> [payload |-> None, decision |-> "none", status |-> "none"]]
      /\ answer = [j \in Jobs |-> "none"]
  BY DEF Init, Record!Init
<1>4. \A j \in Jobs : /\ job[j] = NotStarted
                      /\ NotStarted.state = "new" /\ ~NotStarted.sent /\ ~NotStarted.secret
  BY <1>1 DEF NotStarted
<1>5. JobsTyped BY <1>1, NotStartedIsJob DEF JobsTyped
<1>6. PhasesTyped BY <1>2 DEF PhasesTyped, Pool!Phases
<1>7. EntriesTyped /\ AnswersTyped BY <1>3 DEF EntriesTyped, AnswersTyped
<1>8. OnlySentIsHandled /\ ReceiptTells /\ GreenIsAnswered
  BY <1>2, <1>3, <1>4 DEF OnlySentIsHandled, ReceiptTells, GreenIsAnswered
<1>9. EntryIsDecision BY <1>3, PoolAssumption DEF EntryIsDecision
<1>10. AnswerIsEntry BY <1>3 DEF AnswerIsEntry, Decisions
<1>11. QED BY <1>5, <1>6, <1>7, <1>8, <1>9, <1>10 DEF Inductive

LEMMA NextKeeps == Inductive /\ [Next]_vars => Inductive'
<1> SUFFICES ASSUME Inductive, [Next]_vars PROVE Inductive' OBVIOUS
<1>1. ASSUME NEW j \in Jobs, Start(j) PROVE Inductive' BY <1>1, StartKeeps
<1>2. ASSUME NEW j \in Jobs, HearDecision(j) PROVE Inductive'
  <2> DEFINE code == IF answer[j] \in Decisions THEN ExitCode(answer[j], j) ELSE 1
  <2>1. job[j].state = "posted" /\ Ended(j, code) /\ UNCHANGED <<pool, record>>
    BY <1>2 DEF HearDecision, Hear
  <2>2. code \in {0, 1}
    <3>1. job[j].system \in Systems BY DEF Inductive, JobsTyped, Job
    <3>2. QED BY <3>1 DEF ExitCode, DecisionExitCode, WorkflowExitCode, Connectors
  <2>3. code = 0 => answer[j] \in Decisions /\ ExitCode(answer[j], j) = 0 OBVIOUS
  <2> HIDE DEF code
  <2>4. QED BY <2>1, <2>2, <2>3, MovingKeeps
<1>3. ASSUME NEW j \in Jobs, HearError(j) \/ TimeOut(j) PROVE Inductive'
  <2>1. job[j].state = "posted" /\ Ended(j, 1) /\ UNCHANGED <<pool, record>>
    BY <1>3 DEF HearError, TimeOut, GiveUp, Hear, Decisions
  <2>2. QED BY <2>1, MovingKeeps
<1>4. ASSUME NEW j \in Jobs, Killed(j) PROVE Inductive' BY <1>4, KilledKeeps
<1>5. ASSUME NEW j \in Jobs, Arrive(j) PROVE Inductive'
  BY <1>5, PoolStepKeeps DEF Arrive, Pool!BeginIngest, Pool!Phases
<1>6. ASSUME NEW j \in Jobs, Connect(j) \/ Refuse(j) \/ OpenCase(j) \/ Resume(j) \/ Send(j)
      PROVE  Inductive'
  <2>1. /\ phase[j] # "new" /\ UNCHANGED <<job, record>>
        /\ \E p \in Pool!Phases : Pool!To(j, p)
    BY <1>6 DEF Connect, Refuse, OpenCase, Resume, Send, Pool!Checkout, Pool!PoolTimeout,
                Pool!Commit, Pool!ResumeIngest, Pool!SendAnswer, Pool!Leave, Pool!Returned,
                Pool!Phases
  <2>2. QED BY <2>1, PoolStepKeeps DEF Inductive, OnlySentIsHandled
<1>7. ASSUME NEW j \in Jobs, Store(j) PROVE Inductive' BY <1>7, StoreKeeps
<1>8. ASSUME NEW j \in Jobs, Reply(j) PROVE Inductive' BY <1>8, ReplyKeeps
<1>9. ASSUME NEW r \in Readers, Read(r) PROVE Inductive'
  <2>1. UNCHANGED <<job, record>> /\ \E p \in Pool!Phases : Pool!To(r, p)
    BY <1>9 DEF Read, Pool!BeginReader, Pool!ReaderStep, Pool!Checkout, Pool!CommitReader,
                Pool!Commit, Pool!PoolTimeout, Pool!ReturnReader, Pool!SendAnswer, Pool!Leave,
                Pool!Returned, Pool!Phases
  <2>2. r \notin Jobs BY PoolAssumption
  <2>3. QED BY <2>1, <2>2, PoolStepKeeps
<1>10. CASE UNCHANGED vars
  <2>1. UNCHANGED <<job, phase, loop, entry, answer>> BY <1>10 DEF vars, pool, record
  <2>2. \A j \in Jobs : Key(j)' = Key(j) /\ \A d : ExitCode(d, j)' = ExitCode(d, j)
    BY <2>1, SameKeys DEF SameReceipt
  <2>3. /\ JobsTyped' /\ PhasesTyped' /\ EntriesTyped' /\ AnswersTyped'
        /\ OnlySentIsHandled' /\ ReceiptTells' /\ EntryIsDecision'
    BY <2>1 DEF Inductive, JobsTyped, PhasesTyped, EntriesTyped, AnswersTyped,
                OnlySentIsHandled, ReceiptTells, EntryIsDecision
  <2>4. AnswerIsEntry' BY <2>1, <2>2 DEF Inductive, AnswerIsEntry
  <2>5. GreenIsAnswered'
    BY <2>1, <2>2 DEF Inductive, GreenIsAnswered, Passed, KilledUnseen
  <2>6. QED BY <2>3, <2>4, <2>5 DEF Inductive
<1>11. QED
  BY <1>1, <1>2, <1>3, <1>4, <1>5, <1>6, <1>7, <1>8, <1>9, <1>10 DEF Next, PostStep

LEMMA InductiveHolds == Spec => []Inductive
<1>1. QED BY InitEstablishes, NextKeeps, PTL DEF Spec

(* A client that exits 0 has its receipt on record under its key, with a decision its
   enforcement lets pass (post_run, submit_receipt, the exit codes); a pipeline is green
   without that only if its Jenkins connector was killed (Jenkinsfile). *)
THEOREM GreenIsRecorded == Spec => []GreenMeansRecorded
<1>1. ASSUME Inductive PROVE GreenMeansRecorded
  <2>1. SUFFICES ASSUME NEW j \in Jobs, job[j].state = "green", ~job[j].dry
                 PROVE  IF job[j].code = 0 THEN Recorded(j)
                        ELSE job[j].system = "jenkins" /\ job[j].code = KillCode
    BY DEF GreenMeansRecorded
  <2>2. CASE KilledUnseen(j) BY <2>2 DEF KilledUnseen, KillCode
  <2>3. CASE Passed(j)
    <3>1. job[j].code = 0 /\ answer[j] \in Decisions /\ ExitCode(answer[j], j) = 0
      BY <2>3 DEF Passed
    <3>2. entry[Key(j)].payload = j /\ entry[Key(j)].decision = answer[j]
      BY <1>1, <3>1 DEF Inductive, AnswerIsEntry
    <3>3. job[j].sent /\ job[j].system \in Systems
      BY <1>1, <3>1 DEF Inductive, OnlySentIsHandled, JobsTyped, Job, Decisions
    <3>4. answer[j] \notin job[j].enforced
      <4>1. CASE job[j].system \in Connectors
        <5>1. job[j].enforced = {"block"} BY <1>1, <3>3, <4>1 DEF Inductive, ReceiptTells
        <5>2. answer[j] # "block" BY <3>1, <4>1 DEF ExitCode, DecisionExitCode, Connectors
        <5>3. QED BY <5>1, <5>2
      <4>2. CASE job[j].system = "actions"
        BY <3>1, <4>2 DEF ExitCode, WorkflowExitCode, ShouldFail, Connectors
      <4>3. CASE job[j].system = "agent"
        BY <3>1, <4>3 DEF ExitCode, ShouldFail, Connectors
      <4>4. QED BY <3>3, <4>1, <4>2, <4>3 DEF Connectors
    <3>5. QED BY <3>1, <3>2, <3>4 DEF Recorded
  <2>4. QED BY <1>1, <2>1, <2>2, <2>3 DEF Inductive, GreenIsAnswered
<1>2. QED BY <1>1, InductiveHolds, PTL

(* A secret a scanner reported, or tests that failed in GitHub Actions, do not get past
   the pipeline under any policy the schema admits. *)
THEOREM BadIsStopped == Spec => []KnownBadNeverGreen
<1>1. ASSUME Inductive PROVE KnownBadNeverGreen
  <2>1. SUFFICES ASSUME NEW j \in Jobs, job[j].state = "green", ~job[j].dry
                 PROVE  /\ job[j].secret => "block" \notin job[j].enforced
                        /\ job[j].system = "actions" => job[j].passed
    BY DEF KnownBadNeverGreen
  <2>2. CASE KilledUnseen(j)
    <3>1. job[j].system = "jenkins" /\ job[j].system \in Connectors
      BY <2>2, SystemsAssumption DEF KilledUnseen, Connectors
    <3>2. ~job[j].secret BY <1>1, <3>1 DEF Inductive, ReceiptTells
    <3>3. QED BY <3>1, <3>2
  <2>3. CASE Passed(j)
    <3>1. answer[j] \in Decisions /\ ExitCode(answer[j], j) = 0 BY <2>3 DEF Passed
    <3>2. job[j].system = "actions" => job[j].passed
      BY <3>1 DEF ExitCode, WorkflowExitCode, Connectors
    <3>3. ASSUME job[j].secret PROVE "block" \notin job[j].enforced
      <4>1. entry[Key(j)].payload = j /\ entry[Key(j)].decision = answer[j]
        BY <1>1, <3>1 DEF Inductive, AnswerIsEntry
      <4>2. job[j].sent /\ Key(j) \in Keys
        BY <1>1, <3>1, KeyIsKey DEF Inductive, OnlySentIsHandled, Decisions
      <4>3. \E f \in job[j].receipt.files : f.secret
        BY <1>1, <3>3, <4>2 DEF Inductive, ReceiptTells
      <4>4. PICK s \in Offered : answer[j] = Decide(job[j].receipt, s)
        BY <1>1, <4>1, <4>2 DEF Inductive, EntryIsDecision
      <4>5. answer[j] = "block" BY <4>3, <4>4, SecretIsBlocked
      <4>6. job[j].system \in {"actions", "agent"}
        BY <1>1, <3>1, <4>5 DEF Inductive, JobsTyped, Job, Connectors, ExitCode,
                                DecisionExitCode
      <4>7. QED BY <3>1, <4>5, <4>6 DEF ExitCode, WorkflowExitCode, ShouldFail, Connectors
    <3>4. QED BY <3>2, <3>3
  <2>4. QED BY <1>1, <2>1, <2>2, <2>3 DEF Inductive, GreenIsAnswered
<1>2. QED BY <1>1, InductiveHolds, PTL
=============================================================================
