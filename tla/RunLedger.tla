----------------------------- MODULE RunLedger -----------------------------
(***************************************************************************)
(* Run ingest, human review and evidence export of EvidencePlane           *)
(* (app/services/runs.py, app/services/evidence.py and the three routes    *)
(* that call them).                                                        *)
(*                                                                         *)
(* The tables runs, evidence_packs, review_events, cases and audit_events  *)
(* are shared; a handler is a record whose phase says which database       *)
(* statement comes next.  The database is PostgreSQL at READ COMMITTED:    *)
(* every SELECT sees the latest committed rows, a commit is atomic.        *)
(*                                                                         *)
(* post_run, approve_run_review and reject_run_review are `async def` and  *)
(* do their database work without an await, so the event loop of a process *)
(* runs one of them at a time (loop).  api_evidence is a plain `def`: it   *)
(* runs in the thread pool, beside the loop and beside other exports.      *)
(*                                                                         *)
(* A run is named by its idempotency key, a digest is its content (SHA-256 *)
(* taken as injective) and a review event's digest is its author, every    *)
(* review request having an author of its own.                             *)
(***************************************************************************)
EXTENDS Naturals, Sequences, SequencesExt

CONSTANTS
    Processes,   \* uvicorn processes: one, two while a deployment is replaced
    Keys,        \* idempotency keys
    Payloads,    \* digests of request bodies
    Posts,       \* POST /api/v1/runs requests, a retry being one more
    Reviews,     \* POST .../review/approve or reject requests
    Exports,     \* GET /api/v1/evidence requests
    MaxFaults,   \* bound on crashes and database errors
    None         \* "no value"

ASSUME RequestsDisjoint == Posts \cap Reviews = {}
ASSUME NoneIsNoValue ==
    None \notin Posts \cup Reviews \cup Exports \cup Processes \cup Keys \cup Payloads
ASSUME FaultBound == MaxFaults \in Nat

Decisions == {"allow", "review", "block"}
Outcomes == {"approved", "rejected"}
Statuses == {"not_required", "pending"} \cup Outcomes

VARIABLES
    runs,    \* runs[k]: the row of the run with key k, NoRun while there is none
    packs,   \* packs[k]: its evidence_packs row
    events,  \* events[k]: its review_events rows in sequence order
    cases,   \* cases[k]: how many case rows refer to it
    audit,   \* audit[k]: the types of its audit_events rows, in order
    post, review, export,   \* the handlers
    loop,    \* loop[p]: the async handler p's event loop is running, or None
    faults   \* crashes and database errors so far

tables == <<runs, packs, events, cases, audit>>
vars == <<runs, packs, events, cases, audit, post, review, export, loop, faults>>
-----------------------------------------------------------------------------
(* Rows *)

Event == [seq : Nat \ {0}, prev : Reviews \cup {None}, action : Outcomes, actor : Reviews]

(* What an evidence pack says about the review; the rest of the pack never changes. *)
Body == [status : Statuses \cup {"none"}, reviewer : Reviews \cup {None}, events : Seq(Event)]

Sha(body) == [of |-> body]
Digest == [of : Body]
Pack == [body : Body, sha : Digest]
SealStale(body) == [body |-> body, sha |-> Sha([body EXCEPT !.events = << >>])]
Seal(body) == [body |-> body, sha |-> Sha(body)]

Run == [payload : Payloads \cup {None}, decision : Decisions \cup {"none"},
        status : Statuses \cup {"none"}, reviewer : Reviews \cup {None}, sha : Digest]

BodyOf(row, evs) == [status |-> row.status, reviewer |-> row.reviewer, events |-> evs]
NoBody == [status |-> "none", reviewer |-> None, events |-> << >>]
NoRun == [payload |-> None, decision |-> "none", status |-> "none", reviewer |-> None,
          sha |-> Sha(NoBody)]

Exists(k) == runs[k].decision # "none"
InitialStatus(d) == IF d = "review" THEN "pending" ELSE "not_required"

(* The review event chain as the code reads it back: numbered 1, 2, ... and each
   event naming the digest of the one before it. *)
ChainOK(evs) ==
    \A i \in 1..Len(evs) :
        /\ evs[i].seq = i
        /\ evs[i].prev = IF i = 1 THEN None ELSE evs[i - 1].actor
-----------------------------------------------------------------------------
(* Handlers *)

PostActive == {"evaluating", "inserted", "stored"}
PostPhases == PostActive \cup {"new", "done", "conflict", "error", "lost"}
PostRec == [phase : PostPhases, proc : Processes \cup {None}, key : Keys \cup {None},
            payload : Payloads \cup {None}, reply : Decisions \cup {"none"}]

ReviewActive == {"row", "pack", "ready", "committed"}
ReviewPhases == ReviewActive \cup {"new", "done", "refused", "error", "lost"}
ReviewRec == [phase : ReviewPhases, proc : Processes \cup {None}, key : Keys \cup {None},
              outcome : Outcomes, row : Run, pack : Pack, events : Seq(Event)]

(* touched is a history variable: another request committed to the run while this
   export was being answered. *)
ExportActive == {"row", "pack", "ready", "written", "fresh"}
ExportPhases == ExportActive \cup {"new", "done", "refused", "error", "lost"}
ExportRec == [phase : ExportPhases, proc : Processes \cup {None}, key : Keys \cup {None},
              row : Run, pack : Pack, events : Seq(Event), touched : BOOLEAN]

Init ==
    /\ runs = [k \in Keys |-> NoRun]
    /\ packs = [k \in Keys |-> Seal(NoBody)]
    /\ events = [k \in Keys |-> << >>]
    /\ cases = [k \in Keys |-> 0]
    /\ audit = [k \in Keys |-> << >>]
    /\ post = [r \in Posts |-> [phase |-> "new", proc |-> None, key |-> None,
                                payload |-> None, reply |-> "none"]]
    /\ review = [r \in Reviews |->
                    [phase |-> "new", proc |-> None, key |-> None, outcome |-> "approved",
                     row |-> NoRun, pack |-> Seal(NoBody), events |-> << >>]]
    /\ export = [t \in Exports |->
                    [phase |-> "new", proc |-> None, key |-> None, row |-> NoRun,
                     pack |-> Seal(NoBody), events |-> << >>, touched |-> FALSE]]
    /\ loop = [p \in Processes |-> None]
    /\ faults = 0

(* emit_audit_event: one more row, in the transaction of the caller. *)
AuditedReplacing(k, type) == [audit EXCEPT ![k] = << type >>]
AuditedDecisionOnly(k, type) ==
    IF type = "run_decided" THEN [audit EXCEPT ![k] = Append(@, type)] ELSE audit
Audited(k, type) == [audit EXCEPT ![k] = Append(@, type)]

(* Marks the exports of k other than t as touched. *)
Touch(k, t) ==
    [e \in Exports |->
        IF e # t /\ export[e].key = k /\ export[e].phase \in ExportActive
        THEN [export[e] EXCEPT !.touched = TRUE] ELSE export[e]]
-----------------------------------------------------------------------------
(* POST /api/v1/runs: store_run *)

PostArrives(r, p, k, x, phase, reply) ==
    /\ post[r].phase = "new"
    /\ loop[p] = None
    /\ post' = [post EXCEPT ![r] = [phase |-> phase, proc |-> p, key |-> k,
                                    payload |-> x, reply |-> reply]]
    /\ UNCHANGED <<tables, review, export, faults>>

PostReplay(r, p, k, x) ==
    /\ Exists(k) /\ runs[k].payload = x
    /\ PostArrives(r, p, k, x, "done", runs[k].decision)
    /\ UNCHANGED loop

PostConflict(r, p, k, x) ==
    /\ Exists(k) /\ runs[k].payload # x
    /\ PostArrives(r, p, k, x, "conflict", "none")
    /\ UNCHANGED loop

PostMiss(r, p, k, x) ==
    /\ ~Exists(k)
    /\ PostArrives(r, p, k, x, "evaluating", "none")
    /\ loop' = [loop EXCEPT ![p] = r]

(* runs.idempotency_key is UNIQUE. *)
KeyTakenUnchecked(k) == FALSE
KeyTaken(k) == Exists(k)

(* The first commit: run, violations, pack and audit event together.  d is what
   evaluate_policy returned. *)
PostInsert(r, d) ==
    LET k == post[r].key
        body == [status |-> InitialStatus(d), reviewer |-> None, events |-> << >>]
    IN /\ post[r].phase = "evaluating"
       /\ ~KeyTaken(k)
       /\ runs' = [runs EXCEPT ![k] =
                      [payload |-> post[r].payload, decision |-> d,
                       status |-> InitialStatus(d), reviewer |-> None, sha |-> Sha(body)]]
       /\ packs' = [packs EXCEPT ![k] = Seal(body)]
       /\ audit' = Audited(k, "run_decided")
       /\ post' = [post EXCEPT ![r].phase = "inserted"]
       /\ UNCHANGED <<events, cases, review, export, loop, faults>>

(* Another process inserted the run first.  IntegrityError has no handler, so the client gets a 500 and nothing is stored. *)
PostDuplicate(r) ==
    /\ post[r].phase = "evaluating"
    /\ KeyTaken(post[r].key)
    /\ post' = [post EXCEPT ![r].phase = "error"]
    /\ loop' = [loop EXCEPT ![post[r].proc] = None]
    /\ UNCHANGED <<tables, review, export, faults>>

(* The second commit: auto_create_case. *)
PostCaseAlways(r) ==
    LET k == post[r].key
    IN /\ post[r].phase = "inserted"
       /\ cases' = [cases EXCEPT ![k] = @ + 1]
       /\ post' = [post EXCEPT ![r].phase = "stored"]
       /\ UNCHANGED <<runs, packs, events, audit, review, export, loop, faults>>

PostCaseForReviewOnly(r) ==
    LET k == post[r].key
    IN /\ post[r].phase = "inserted"
       /\ cases' = [cases EXCEPT ![k] = IF runs[k].decision = "review" THEN @ + 1 ELSE @]
       /\ post' = [post EXCEPT ![r].phase = "stored"]
       /\ UNCHANGED <<runs, packs, events, audit, review, export, loop, faults>>

PostCase(r) ==
    LET k == post[r].key
    IN /\ post[r].phase = "inserted"
       /\ cases' = [cases EXCEPT ![k] = IF runs[k].decision = "allow" THEN @ ELSE @ + 1]
       /\ post' = [post EXCEPT ![r].phase = "stored"]
       /\ UNCHANGED <<runs, packs, events, audit, review, export, loop, faults>>

PostReply(r) ==
    /\ post[r].phase = "stored"
    /\ post' = [post EXCEPT ![r].phase = "done", ![r].reply = runs[post[r].key].decision]
    /\ loop' = [loop EXCEPT ![post[r].proc] = None]
    /\ UNCHANGED <<tables, review, export, faults>>
-----------------------------------------------------------------------------
(* POST /api/v1/runs/{run_id}/review/...: review_run *)

(* 404, or 409 review_not_pending. *)
ReviewRefused(r, p, k) ==
    /\ review[r].phase = "new"
    /\ loop[p] = None
    /\ runs[k].status # "pending"
    /\ review' = [review EXCEPT ![r].phase = "refused", ![r].proc = p, ![r].key = k]
    /\ UNCHANGED <<tables, post, export, loop, faults>>

ReviewRowInPool(r, p, k, o) ==
    /\ review[r].phase = "new"
    /\ runs[k].status = "pending"
    /\ review' = [review EXCEPT ![r].phase = "row", ![r].proc = p, ![r].key = k,
                                ![r].outcome = o, ![r].row = runs[k]]
    /\ UNCHANGED <<tables, post, export, loop, faults>>

ReviewRow(r, p, k, o) ==
    /\ review[r].phase = "new"
    /\ loop[p] = None
    /\ runs[k].status = "pending"
    /\ review' = [review EXCEPT ![r].phase = "row", ![r].proc = p, ![r].key = k,
                                ![r].outcome = o, ![r].row = runs[k]]
    /\ loop' = [loop EXCEPT ![p] = r]
    /\ UNCHANGED <<tables, post, export, faults>>

ReviewPack(r) ==
    /\ review[r].phase = "row"
    /\ review' = [review EXCEPT ![r].phase = "pack", ![r].pack = packs[review[r].key]]
    /\ UNCHANGED <<tables, post, export, loop, faults>>

ReviewEvents(r) ==
    /\ review[r].phase = "pack"
    /\ review' = [review EXCEPT ![r].phase = "ready", ![r].events = events[review[r].key]]
    /\ UNCHANGED <<tables, post, export, loop, faults>>

(* The event a review appends, numbered after the last one it read. *)
NextEventApproved(r) ==
    [seq |-> Len(review[r].events) + 1, prev |-> None, action |-> "approved", actor |-> r]

NextEvent(r) ==
    LET evs == review[r].events
    IN [seq |-> IF evs = << >> THEN 1 ELSE Last(evs).seq + 1,
        prev |-> IF evs = << >> THEN None ELSE Last(evs).actor,
        action |-> review[r].outcome, actor |-> r]

(* review_events (run_id, sequence) is UNIQUE. *)
SequenceUnchecked(k, n) == FALSE
SequenceTaken(k, n) == \E i \in 1..Len(events[k]) : events[k][i].seq = n

(* Run, event, pack and audit event in one commit. *)
ReviewCommit(r) ==
    LET k == review[r].key
        o == review[r].outcome
        body == [status |-> o, reviewer |-> r, events |-> Append(review[r].events, NextEvent(r))]
    IN /\ review[r].phase = "ready"
       /\ ChainOK(review[r].events)
       /\ ~SequenceTaken(k, NextEvent(r).seq)
       /\ runs' = [runs EXCEPT ![k].status = o, ![k].reviewer = r, ![k].sha = Sha(body)]
       /\ packs' = [packs EXCEPT ![k] = Seal(body)]
       /\ events' = [events EXCEPT ![k] = Append(@, NextEvent(r))]
       /\ audit' = Audited(k, o)
       /\ review' = [review EXCEPT ![r].phase = "committed"]
       /\ export' = Touch(k, None)
       /\ UNCHANGED <<cases, post, loop, faults>>

(* 503 when the chain read back is broken; 500 when another process's review took the
   sequence number, (run_id, sequence) being UNIQUE. *)
ReviewFails(r) ==
    /\ review[r].phase = "ready"
    /\ ~ChainOK(review[r].events) \/ SequenceTaken(review[r].key, NextEvent(r).seq)
    /\ review' = [review EXCEPT ![r].phase = "error"]
    /\ loop' = [loop EXCEPT ![review[r].proc] = None]
    /\ UNCHANGED <<tables, post, export, faults>>

ReviewReply(r) ==
    /\ review[r].phase = "committed"
    /\ review' = [review EXCEPT ![r].phase = IF ChainOK(events[review[r].key])
                                             THEN "done" ELSE "error"]
    /\ loop' = [loop EXCEPT ![review[r].proc] = None]
    /\ UNCHANGED <<tables, post, export, faults>>
-----------------------------------------------------------------------------
(* GET /api/v1/evidence/{run_id}: get_evidence *)

ExportNotFound(t, p, k) ==
    /\ export[t].phase = "new"
    /\ ~Exists(k)
    /\ export' = [export EXCEPT ![t].phase = "refused", ![t].proc = p, ![t].key = k]
    /\ UNCHANGED <<tables, post, review, loop, faults>>

ExportRow(t, p, k) ==
    /\ export[t].phase = "new"
    /\ Exists(k)
    /\ export' = [export EXCEPT ![t].phase = "row", ![t].proc = p, ![t].key = k,
                                ![t].row = runs[k]]
    /\ UNCHANGED <<tables, post, review, loop, faults>>

ExportPack(t) ==
    /\ export[t].phase = "row"
    /\ export' = [export EXCEPT ![t].phase = "pack", ![t].pack = packs[export[t].key]]
    /\ UNCHANGED <<tables, post, review, loop, faults>>

(* Neither the pack's digest nor the event chain may be broken: 503 otherwise. *)
ExportEvents(t) ==
    LET k == export[t].key
        intact == export[t].pack.sha = Sha(export[t].pack.body) /\ ChainOK(events[k])
    IN /\ export[t].phase = "pack"
       /\ export' = [export EXCEPT ![t].phase = IF intact THEN "ready" ELSE "error",
                                   ![t].events = events[k]]
       /\ UNCHANGED <<tables, post, review, loop, faults>>

(* The pack _sync_evidence_review_state builds, and whether it differs. *)
Synced(t) == BodyOf(export[t].row, export[t].events)
StaleBodyOnly(t) == Synced(t) # export[t].pack.body
Stale(t) == Synced(t) # export[t].pack.body \/ export[t].row.sha # Sha(Synced(t))

ExportUnchanged(t) ==
    /\ export[t].phase = "ready"
    /\ ~Stale(t)
    /\ export' = [export EXCEPT ![t].phase = "fresh"]
    /\ UNCHANGED <<tables, post, review, loop, faults>>

(* A commit writes only the columns whose value differs from the one loaded. *)
ExportWrite(t) ==
    LET k == export[t].key
        body == Synced(t)
    IN /\ export[t].phase = "ready"
       /\ Stale(t)
       /\ packs' = IF body = export[t].pack.body THEN packs
                   ELSE [packs EXCEPT ![k] = Seal(body)]
       /\ runs' = IF Sha(body) = export[t].row.sha THEN runs
                  ELSE [runs EXCEPT ![k].sha = Sha(body)]
       /\ export' = [Touch(k, t) EXCEPT ![t].phase = "written"]
       /\ UNCHANGED <<events, cases, audit, post, review, loop, faults>>

(* session.refresh(run.evidence_pack) and the second integrity check. *)
ExportRefresh(t) ==
    LET pk == packs[export[t].key]
    IN /\ export[t].phase = "written"
       /\ export' = [export EXCEPT ![t].phase = IF pk.sha = Sha(pk.body)
                                                THEN "fresh" ELSE "error",
                                   ![t].pack = pk]
       /\ UNCHANGED <<tables, post, review, loop, faults>>

(* Reads the case, which is appended outside the sealed body, and answers. *)
ExportReply(t) ==
    /\ export[t].phase = "fresh"
    /\ export' = [export EXCEPT ![t].phase = "done"]
    /\ UNCHANGED <<tables, post, review, loop, faults>>
-----------------------------------------------------------------------------
(* Faults: a process dies with everything it was doing and is started again, or one
   statement raises OperationalError (503, the open transaction rolled back). *)

Crash(p) ==
    /\ faults < MaxFaults
    /\ faults' = faults + 1
    /\ loop' = [loop EXCEPT ![p] = None]
    /\ post' = [r \in Posts |->
                   IF post[r].proc = p /\ post[r].phase \in PostActive
                   THEN [post[r] EXCEPT !.phase = "lost"] ELSE post[r]]
    /\ review' = [r \in Reviews |->
                     IF review[r].proc = p /\ review[r].phase \in ReviewActive
                     THEN [review[r] EXCEPT !.phase = "lost"] ELSE review[r]]
    /\ export' = [t \in Exports |->
                     IF export[t].proc = p /\ export[t].phase \in ExportActive
                     THEN [export[t] EXCEPT !.phase = "lost"] ELSE export[t]]
    /\ UNCHANGED tables

PostDbError(r) ==
    /\ faults < MaxFaults
    /\ faults' = faults + 1
    /\ post[r].phase \in PostActive
    /\ post' = [post EXCEPT ![r].phase = "error"]
    /\ loop' = [loop EXCEPT ![post[r].proc] = None]
    /\ UNCHANGED <<tables, review, export>>

ReviewDbError(r) ==
    /\ faults < MaxFaults
    /\ faults' = faults + 1
    /\ review[r].phase \in ReviewActive
    /\ review' = [review EXCEPT ![r].phase = "error"]
    /\ loop' = [loop EXCEPT ![review[r].proc] = None]
    /\ UNCHANGED <<tables, post, export>>

ExportDbError(t) ==
    /\ faults < MaxFaults
    /\ faults' = faults + 1
    /\ export[t].phase \in ExportActive
    /\ export' = [export EXCEPT ![t].phase = "error"]
    /\ UNCHANGED <<tables, post, review, loop>>
-----------------------------------------------------------------------------
PostStep(r) == (\E d \in Decisions : PostInsert(r, d)) \/ PostDuplicate(r) \/ PostCase(r) \/ PostReply(r)
ReviewStep(r) == ReviewPack(r) \/ ReviewEvents(r) \/ ReviewCommit(r) \/ ReviewFails(r) \/ ReviewReply(r)
ExportStep(t) == ExportPack(t) \/ ExportEvents(t) \/ ExportUnchanged(t) \/ ExportWrite(t)
                 \/ ExportRefresh(t) \/ ExportReply(t)

PostArrival(r, p, k, x) == PostReplay(r, p, k, x) \/ PostConflict(r, p, k, x) \/ PostMiss(r, p, k, x)
ReviewArrival(r, p, k) == ReviewRefused(r, p, k) \/ (\E o \in Outcomes : ReviewRow(r, p, k, o))
ExportArrival(t, p, k) == ExportNotFound(t, p, k) \/ ExportRow(t, p, k)

Arrive ==
    \E p \in Processes, k \in Keys :
        \/ \E r \in Posts, x \in Payloads : PostArrival(r, p, k, x)
        \/ \E r \in Reviews : ReviewArrival(r, p, k)
        \/ \E t \in Exports : ExportArrival(t, p, k)

Fault ==
    \/ \E p \in Processes : Crash(p)
    \/ \E r \in Posts : PostDbError(r)
    \/ \E r \in Reviews : ReviewDbError(r)
    \/ \E t \in Exports : ExportDbError(t)

Next ==
    \/ Arrive
    \/ \E r \in Posts : PostStep(r)
    \/ \E r \in Reviews : ReviewStep(r)
    \/ \E t \in Exports : ExportStep(t)
    \/ Fault

(* A handler that has started runs on: the loop and the pool's threads are always
   scheduled.  Nothing makes a request arrive, or a fault happen. *)
Fairness ==
    /\ \A r \in Posts : WF_vars(PostStep(r))
    /\ \A r \in Reviews : WF_vars(ReviewStep(r))
    /\ \A t \in Exports : WF_vars(ExportStep(t))

Spec == Init /\ [][Next]_vars /\ Fairness
-----------------------------------------------------------------------------
(* Types: what every row and every handler may hold (app/models/db.py). *)
TypeOK ==
    /\ runs \in [Keys -> Run]
    /\ packs \in [Keys -> Pack]
    /\ events \in [Keys -> Seq(Event)]
    /\ cases \in [Keys -> Nat]
    /\ audit \in [Keys -> Seq({"run_decided"} \cup Outcomes)]
    /\ post \in [Posts -> PostRec]
    /\ review \in [Reviews -> ReviewRec]
    /\ export \in [Exports -> ExportRec]
    /\ loop \in [Processes -> Posts \cup Reviews \cup {None}]
    /\ faults \in 0..MaxFaults

(* Idempotency (store_run): every client that was answered for a key was told the one
   stored decision, whatever policy would say today, and only for the stored payload;
   only another payload is refused with idempotency_conflict. *)
RepliesAgree ==
    \A r \in Posts, k \in Keys :
        post[r].key = k /\ post[r].phase \in {"done", "conflict"} =>
            /\ Exists(k)
            /\ IF post[r].phase = "done"
               THEN runs[k].decision = post[r].reply /\ runs[k].payload = post[r].payload
               ELSE runs[k].payload # post[r].payload

(* The run's review columns (review_run) are the outcome and the author of the last
   review event, and a run without one still has its initial status. *)
RowMatchesHistory ==
    \A k \in Keys :
        LET evs == events[k]
        IN IF evs = << >>
           THEN /\ runs[k].reviewer = None
                /\ runs[k].status = IF Exists(k) THEN InitialStatus(runs[k].decision) ELSE "none"
           ELSE /\ runs[k].status = Last(evs).action
                /\ runs[k].reviewer = Last(evs).actor
                /\ runs[k].decision = "review"

(* The review events of a run are a chain without gaps or forks, so that reading them
   back never fails with "chain integrity check failed". *)
HistoryIsChain == \A k \in Keys : ChainOK(events[k])

(* Every audit event was committed with what it reports: the decision, then each
   review, in order and once (emit_audit_event inside the caller's transaction). *)
AuditMatchesLedger ==
    \A k \in Keys :
        IF Exists(k)
        THEN /\ Len(audit[k]) = Len(events[k]) + 1
             /\ audit[k][1] = "run_decided"
             /\ \A i \in 1..Len(events[k]) : audit[k][i + 1] = events[k][i].action
        ELSE audit[k] = << >>

(* A run is reviewed at most once: of several reviewers one gets through and the others
   get 409.  It rests on the event loop: review_run reads the status, the pack and the
   events by separate SELECTs. *)
ReviewedOnce == \A k \in Keys : Len(events[k]) <= 1

(* No allowed run has a case and no run has two (auto_create_case; cases.run_id is not
   UNIQUE). *)
AtMostOneCase ==
    \A k \in Keys : cases[k] <= IF runs[k].decision \in {"review", "block"} THEN 1 ELSE 0

(* Review columns of a run at some moment of the history evs. *)
Shown(status, reviewer, evs) ==
    \/ reviewer = None /\ status \in {"none", "not_required", "pending"}
    \/ \E i \in 1..Len(evs) : reviewer = evs[i].actor /\ status = evs[i].action

(* Whatever the exports and the review interleave to, a sealed pack never shows a review
   that was not committed: its events are a prefix of the run's, and its status is the
   initial one or the outcome of a committed event. *)
PackShowsCommitted ==
    \A k \in Keys :
        LET b == packs[k].body
        IN /\ packs[k].sha = Sha(b)
           /\ IsPrefix(b.events, events[k])
           /\ Shown(b.status, b.reviewer, events[k])

(* What clients are promised: see RunRecord. *)
Record == INSTANCE RunRecord WITH
    entry <- [k \in Keys |-> [payload |-> runs[k].payload, decision |-> runs[k].decision,
                              status |-> runs[k].status]],
    answer <- [r \in Posts |-> IF post[r].phase = "conflict" THEN "conflict" ELSE post[r].reply]

(* The handlers and tables implement the promise of RunRecord: one decision per key, told
   to every client of that key, and one conclusion of a pending run. *)
ImplementsRecord == Record!Spec

(* The pack and the run's evidence_sha256 show the run's current review state. *)
Faithful(k) ==
    /\ packs[k].body = BodyOf(runs[k], events[k])
    /\ runs[k].sha = packs[k].sha

(* An export no other request committed to leaves the pack and both digests current and
   answers with them, whatever earlier exports left behind: it repairs a torn pack. *)
UndisturbedExportRepairs ==
    \A t \in Exports, k \in Keys :
        export[t].key = k /\ export[t].phase = "fresh" /\ ~export[t].touched =>
            Faithful(k) /\ export[t].pack = packs[k]

(* A committed decision, payload, event, case or audit event is never changed or removed,
   and a reviewed run never becomes pending again. *)
HistoryOnlyGrows ==
    [][\A k \in Keys :
          /\ Exists(k) => runs'[k].decision = runs[k].decision /\ runs'[k].payload = runs[k].payload
          /\ runs[k].status \in Outcomes => runs'[k].status \in Outcomes
          /\ cases'[k] >= cases[k]
          /\ IsPrefix(events[k], events'[k])
          /\ IsPrefix(audit[k], audit'[k])]_vars

(* A review or block run has its case from the second commit of the post that stored it
   on; only while that post is between its commits, or when a fault stopped it, is the run
   without one. *)
CaseUnlessIngestFails ==
    \A k \in Keys :
        Exists(k) /\ runs[k].decision # "allow" /\ cases[k] = 0 =>
            /\ \E r \in Posts : post[r].key = k /\ post[r].phase \in {"inserted", "error", "lost"}
            /\ \A r \in Posts : post[r].key = k => post[r].phase # "stored"

(* A client that was answered "review" or "block" finds a case for the run, at once or at
   last (test_review_decision_creates_open_case, test_block_decision_creates_open_case). *)
AnsweredRunHasCase ==
    \A r \in Posts, k \in Keys :
        post[r].key = k /\ post[r].reply \in {"review", "block"} ~> cases[k] = 1

(* README.md: "Evidence exports include the current review state plus the append-only
   review event list": the two agree in the pack that is answered. *)
ExportShowsOneState ==
    \A t \in Exports :
        export[t].phase = "done" =>
            LET b == export[t].pack.body
            IN IF b.events = << >> THEN b.status \notin Outcomes
               ELSE b.status = Last(b.events).action
=============================================================================
