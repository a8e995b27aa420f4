------------------------------ MODULE ConnPool ------------------------------
(***************************************************************************)
(* The database connections of one EvidencePlane process (app/database.py).*)
(*                                                                         *)
(* A session takes a connection out of SQLAlchemy's pool at its first      *)
(* query, returns it at a commit, takes one again at the next query and    *)
(* returns it at last when get_session's `with` is left, in a thread, after*)
(* the event loop has sent the answer.  A `def` endpoint does its queries  *)
(* in a thread; post_run does them on the event loop, so while it waits    *)
(* for a connection nothing else runs there, the ends of the requests that *)
(* hold the connections included.                                          *)
(*                                                                         *)
(* The pool, its timeout and FastAPI's handling of dependencies are        *)
(* library code.                                                           *)
(***************************************************************************)
EXTENDS Naturals, FiniteSets

CONSTANTS
    Readers,    \* requests to `def` endpoints
    Ingests,    \* requests to post_run
    PoolSize,   \* pool_size + max_overflow: 5 + 10
    MaxCommits, \* bound on the commits of a reader that queries on after them
    None

VARIABLES
    phase,   \* phase[r]: how far a request is
    commits, \* commits[r]: how often its handler, while it runs, had to ask for a connection again
    loop     \* the ingest the event loop runs, or None

pool == <<phase, commits, loop>>

Requests == Readers \cup Ingests

(* An answered request still has its connection, a returned one gave it back by a commit
   that was its last query. *)
Phases == {"new", "waiting", "using", "awaiting", "answered", "returned", "closed", "refused"}

Init ==
    /\ phase = [r \in Requests |-> "new"]
    /\ commits = [r \in Requests |-> 0]
    /\ loop = None

Holders == {r \in Requests : phase[r] \in {"using", "awaiting", "answered"}}
Full == Cardinality(Holders) >= PoolSize
To(r, p) == phase' = [phase EXCEPT ![r] = p]

(* The handler makes no more queries. *)
Leave(r, p) == To(r, p) /\ commits' = [commits EXCEPT ![r] = 0]

(* The first query asks for a connection, an ingest's on the event loop. *)
BeginReader(r) ==
    /\ phase[r] = "new"
    /\ To(r, "waiting")
    /\ UNCHANGED <<commits, loop>>

BeginIngest(r) ==
    /\ phase[r] = "new"
    /\ loop = None
    /\ To(r, "waiting")
    /\ loop' = r
    /\ UNCHANGED commits

Checkout(r) ==
    /\ phase[r] = "waiting"
    /\ ~Full
    /\ To(r, "using")
    /\ UNCHANGED <<commits, loop>>

(* session.commit() gives the connection back and the next query asks for one again:
   whoever waits may have taken it. *)
Commit(r) ==
    /\ phase[r] = "using"
    /\ To(r, "waiting")
    /\ commits' = [commits EXCEPT ![r] = @ + 1]
    /\ UNCHANGED loop

LeaveLoop(r) == loop' = IF loop = r THEN None ELSE loop

(* pool_timeout: the request is answered 500, without a connection in its hands; what it
   committed before stands. *)
NoPoolTimeout(r) == FALSE /\ UNCHANGED pool
PoolTimeout(r) ==
    /\ phase[r] = "waiting"
    /\ Full
    /\ Leave(r, "refused")
    /\ LeaveLoop(r)

(* The handler returns; if its last query was a commit (revoke_session, a webhook, the
   check run of a receipt), the connection is back already. *)
Returned == {"answered", "returned"}

ReturnReader(r) ==
    /\ phase[r] = "using"
    /\ \E p \in Returned : Leave(r, p)
    /\ UNCHANGED loop

(* post_run may await GitHub before it returns, the connection in its hands. *)
AwaitGitHub(r) ==
    /\ phase[r] = "using"
    /\ Leave(r, "awaiting")
    /\ LeaveLoop(r)

ReturnIngest(r) ==
    /\ phase[r] = "using"
    /\ \E p \in Returned : Leave(r, p)
    /\ LeaveLoop(r)

ResumeIngest(r) ==
    /\ phase[r] = "awaiting"
    /\ loop = None
    /\ \E p \in Returned : To(r, p)
    /\ UNCHANGED <<commits, loop>>

(* The event loop sends the answer and has a thread close the session. *)
SendAnswer(r) ==
    /\ phase[r] \in Returned
    /\ loop = None
    /\ To(r, "closed")
    /\ UNCHANGED <<commits, loop>>
-----------------------------------------------------------------------------
CommitReader(r) == commits[r] < MaxCommits /\ Commit(r)

ReaderStep(r) ==
    \/ Checkout(r) \/ CommitReader(r) \/ PoolTimeout(r) \/ ReturnReader(r) \/ SendAnswer(r)

PoolTypeOK ==
    /\ phase \in [Requests -> Phases]
    /\ commits \in [Requests -> Nat]
    /\ loop \in Ingests \cup {None}
    /\ \A r \in Ingests : loop = r <=> phase[r] \in {"waiting", "using"}
=============================================================================
