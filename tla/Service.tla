------------------------------- MODULE Service -------------------------------
(***************************************************************************)
(* CI jobs and one EvidencePlane process, end to end: the jobs of Clients  *)
(* post to an ingest handler that needs a connection of ConnPool and the   *)
(* event loop, and whose effect and answer are those RunRecord promises    *)
(* (RunLedger shows that the handlers keep the promise).  A post whose job *)
(* has given up, or was killed, is handled all the same.                   *)
(***************************************************************************)
EXTENDS Clients

CONSTANTS
    Readers,    \* requests to `def` endpoints
    PoolSize,   \* connections of the process
    MaxCommits, \* bound on the commits of a reader that queries on after them
    Offered,    \* policies in force, one after another
    None

ASSUME OfferedAssumption == Offered # {} /\ Offered \subseteq Settings
ASSUME PoolAssumption ==
    PoolSize \in Nat \ {0} /\ MaxCommits \in Nat /\ None \notin Jobs /\ Readers \cap Jobs = {}

VARIABLES phase, commits, loop, entry, answer

pool == <<phase, commits, loop>>
record == <<entry, answer>>
vars == <<job, pool, record>>

Keys == {<<system, n>> : system \in Systems \ {"actions"}, n \in Seconds \cup {0}} \cup {<<"actions", j>> : j \in Jobs}

Pool == INSTANCE ConnPool WITH Ingests <- Jobs
Record == INSTANCE RunRecord WITH Payloads <- Jobs, Posts <- Jobs

Init ==
    /\ JobsInit
    /\ Pool!Init /\ Record!Init
-----------------------------------------------------------------------------
(* The job *)

Start(j) == Build(j) /\ UNCHANGED <<pool, record>>

HearDecision(j) ==
    /\ phase[j] = "closed"
    /\ Hear(j, answer[j])
    /\ UNCHANGED <<pool, record>>

(* 500: the pool's TimeoutError. *)
HearError(j) ==
    /\ phase[j] = "refused"
    /\ Hear(j, "error")
    /\ UNCHANGED <<pool, record>>

TimeOut(j) == GiveUp(j) /\ UNCHANGED <<pool, record>>

Killed(j) == Kill(j) /\ UNCHANGED <<pool, record>>
-----------------------------------------------------------------------------
(* post_run for the receipt of job j *)

Arrive(j) ==
    /\ job[j].sent
    /\ Pool!BeginIngest(j)
    /\ UNCHANGED <<job, record>>

Connect(j) == Pool!Checkout(j) /\ UNCHANGED <<job, record>>
Refuse(j) == Pool!PoolTimeout(j) /\ UNCHANGED <<job, record>>

(* store_run, the event loop in its hands: the receipt is decided if its key is new.  What
   comes after the commit needs a connection again, and may be refused it. *)
Store(j) ==
    /\ Pool!Commit(j)
    /\ \E s \in Offered : Record!Decide(Key(j), j, Decide(job[j].receipt, s))
    /\ UNCHANGED job

(* auto_create_case: the second commit of what is not allowed. *)
OpenCase(j) ==
    /\ commits[j] = 1
    /\ entry[Key(j)].decision \in {"review", "block"}
    /\ Pool!Commit(j)
    /\ UNCHANGED <<job, record>>

(* A replay or a conflict, before any commit, or the run read back after the last one.
   The answer is known before post_run awaits GitHub. *)
Reply(j) ==
    /\ commits[j] \in {0, IF entry[Key(j)].decision = "allow" THEN 1 ELSE 2}
    /\ Pool!AwaitGitHub(j) \/ Pool!ReturnIngest(j)
    /\ Record!Answer(j, Key(j), j)
    /\ UNCHANGED job

Resume(j) == Pool!ResumeIngest(j) /\ UNCHANGED <<job, record>>
Send(r) == Pool!SendAnswer(r) /\ UNCHANGED <<job, record>>
-----------------------------------------------------------------------------
(* A `def` endpoint. *)
Read(r) ==
    /\ Pool!BeginReader(r) \/ Pool!ReaderStep(r)
    /\ UNCHANGED <<job, record>>
-----------------------------------------------------------------------------
PostStep(j) ==
    \/ Connect(j) \/ Refuse(j) \/ Store(j) \/ OpenCase(j) \/ Reply(j) \/ Resume(j) \/ Send(j)

Next ==
    \/ \E j \in Jobs :
          Start(j) \/ HearDecision(j) \/ HearError(j) \/ TimeOut(j) \/ Killed(j) \/ Arrive(j)
          \/ PostStep(j)
    \/ \E r \in Readers : Read(r)

(* Threads and the event loop get on with what they can do, the pool's timeout included;
   whether a request comes is up to the clients. *)
Fairness ==
    /\ \A j \in Jobs : WF_vars(PostStep(j))
    /\ \A r \in Readers : WF_vars(Pool!ReaderStep(r) /\ UNCHANGED <<job, record>>)

Spec == Init /\ [][Next]_vars /\ Fairness
-----------------------------------------------------------------------------
(* The receipt of job j itself, and not another attempt's under the same key, is on record
   with a decision that the job's enforcement lets pass. *)
Recorded(j) ==
    /\ entry[Key(j)].payload = j
    /\ entry[Key(j)].decision \notin job[j].enforced

(* GreenMeansRecorded: dry runs apart, a client that exits 0 has its receipt recorded, and a
   pipeline whose client did not exit 0 ends green in one case only: a Jenkins connector
   that was killed, whose exit code the Jenkinsfile takes for none of its business. *)
GreenMeansRecorded ==
    \A j \in Jobs :
        job[j].state = "green" /\ ~job[j].dry =>
            IF job[j].code = 0 THEN Recorded(j)
            ELSE job[j].system = "jenkins" /\ job[j].code = KillCode

(* GreenAlwaysRecorded: the same without the exception.  It does not hold. *)
GreenAlwaysRecorded ==
    \A j \in Jobs : job[j].state = "green" /\ ~job[j].dry => Recorded(j)

(* KnownBadNeverGreen: under every policy, a job whose scanner reported a secret does not
   end green while it enforces blocks, and a GitHub Actions job whose tests failed does
   not end green at all.  (A connector reports no secret, killed or not.) *)
KnownBadNeverGreen ==
    \A j \in Jobs :
        job[j].state = "green" /\ ~job[j].dry =>
            /\ job[j].secret => "block" \notin job[j].enforced
            /\ job[j].system = "actions" => job[j].passed

(* RequestsEnd: however few connections there are, every request that began gives its own
   back or is refused one, so the process comes to rest again and again.  When the event
   loop waits for a connection whose holder waits for the event loop, only the pool's
   timeout makes it so; and that may strike an ingest whose run is stored already. *)
RequestsEnd ==
    []<>(\A r \in Jobs \cup Readers : phase[r] \in {"new", "closed", "refused"})
=============================================================================
