--------------------------- MODULE RunLedgerProofs ---------------------------
(***************************************************************************)
(* Safety of RunLedger for every number of processes, keys and requests.   *)
(***************************************************************************)
EXTENDS RunLedgerInv, TLAPS

(* The commits that write the tables; every other step only reads them. *)
Reads == UNCHANGED tables
Writes ==
    \/ \E r \in Posts, d \in Decisions : PostInsert(r, d)
    \/ \E r \in Posts : PostCase(r)
    \/ \E r \in Reviews : ReviewCommit(r)
    \/ \E t \in Exports : ExportWrite(t)

(* Only the commits of store_run, auto_create_case, review_run and get_evidence write the
   tables. *)
LEMMA WhoWrites == [Next]_vars => Reads \/ Writes
<1> SUFFICES ASSUME [Next]_vars PROVE Reads \/ Writes OBVIOUS
<1> USE DEF Reads, Writes
<1>1. CASE UNCHANGED vars BY <1>1 DEF vars, tables
<1>2. ASSUME NEW p \in Processes, NEW k \in Keys, NEW r \in Posts, NEW x \in Payloads,
             PostArrival(r, p, k, x)
      PROVE  Reads
  BY <1>2 DEF PostArrival, PostReplay, PostConflict, PostMiss, PostArrives
<1>3. ASSUME NEW p \in Processes, NEW k \in Keys, NEW r \in Reviews, ReviewArrival(r, p, k)
      PROVE  Reads
  BY <1>3 DEF ReviewArrival, ReviewRefused, ReviewRow
<1>4. ASSUME NEW p \in Processes, NEW k \in Keys, NEW t \in Exports, ExportArrival(t, p, k)
      PROVE  Reads
  BY <1>4 DEF ExportArrival, ExportNotFound, ExportRow
<1>5. ASSUME NEW r \in Posts, PostStep(r) PROVE Reads \/ Writes
  BY <1>5 DEF PostStep, PostDuplicate, PostReply
<1>6. ASSUME NEW r \in Reviews, ReviewStep(r) PROVE Reads \/ Writes
  BY <1>6 DEF ReviewStep, ReviewPack, ReviewEvents, ReviewFails, ReviewReply
<1>7. ASSUME NEW t \in Exports, ExportStep(t) PROVE Reads \/ Writes
  BY <1>7 DEF ExportStep, ExportPack, ExportEvents, ExportUnchanged, ExportRefresh, ExportReply
<1>8. CASE Fault
  BY <1>8 DEF Fault, Crash, PostDbError, ReviewDbError, ExportDbError
<1>9. QED
  <2>1. CASE Arrive BY <2>1, <1>2, <1>3, <1>4 DEF Arrive
  <2>2. QED BY <2>1, <1>1, <1>5, <1>6, <1>7, <1>8 DEF Next
-----------------------------------------------------------------------------
(* Type correctness.  It needs to know that a request in flight names a key. *)
Typed == TypeOK /\ HandlersHoldLoop

LEMMA RowTypes ==
    /\ NoBody \in Body /\ NoRun \in Run /\ Seal(NoBody) \in Pack
    /\ \A b \in Body : Sha(b) \in Digest /\ Seal(b) \in Pack
    /\ \A row \in Run, evs \in Seq(Event) : BodyOf(row, evs) \in Body
  BY DEF NoBody, NoRun, Seal, Sha, Body, Run, Pack, Digest, BodyOf

LEMMA NextEventTyped ==
    ASSUME NEW r \in Reviews, review[r] \in ReviewRec
    PROVE  NextEvent(r) \in Event
<1> DEFINE evs == review[r].events
<1>1. evs \in Seq(Event) /\ review[r].outcome \in Outcomes BY DEF ReviewRec
<1>2. evs # << >> => Len(evs) \in 1..Len(evs) /\ evs[Len(evs)] \in Event BY <1>1
<1>3. QED BY <1>1, <1>2 DEF NextEvent, Event, Last

LEMMA TypedInit == Init => Typed
<1> SUFFICES ASSUME Init PROVE TypeOK /\ HandlersHoldLoop BY DEF Typed
<1> USE DEF Init
<1>1. runs \in [Keys -> Run] /\ packs \in [Keys -> Pack] BY RowTypes
<1>2. events \in [Keys -> Seq(Event)] /\ audit \in [Keys -> Seq({"run_decided"} \cup Outcomes)]
  OBVIOUS
<1>3. cases \in [Keys -> Nat] /\ loop \in [Processes -> Posts \cup Reviews \cup {None}] OBVIOUS
<1>4. post \in [Posts -> PostRec] BY DEF PostRec, PostPhases
<1>5. review \in [Reviews -> ReviewRec] BY RowTypes DEF ReviewRec, ReviewPhases, Outcomes
<1>6. export \in [Exports -> ExportRec] BY RowTypes DEF ExportRec, ExportPhases
<1>7. faults \in 0..MaxFaults BY FaultBound
<1>8. TypeOK BY <1>1, <1>2, <1>3, <1>4, <1>5, <1>6, <1>7 DEF TypeOK
<1>9. HandlersHoldLoop BY DEF HandlersHoldLoop, PostActive, ReviewActive, ExportActive
<1>10. QED BY <1>8, <1>9

(* A handler that only moves on, or also stores what it just read, keeps its type. *)
LEMMA PostMoves ==
    ASSUME TypeOK, NEW r \in Posts, NEW ph \in PostPhases
    PROVE  /\ [post EXCEPT ![r].phase = ph] \in [Posts -> PostRec]
           /\ \A d \in Decisions \cup {"none"} :
                 [post EXCEPT ![r].phase = ph, ![r].reply = d] \in [Posts -> PostRec]
<1>1. post \in [Posts -> PostRec] BY DEF TypeOK
<1>2. /\ [post[r] EXCEPT !.phase = ph] \in PostRec
      /\ \A d \in Decisions \cup {"none"} : [post[r] EXCEPT !.phase = ph, !.reply = d] \in PostRec
  BY <1>1 DEF PostRec
<1>3. QED BY <1>1, <1>2

LEMMA ReviewMoves ==
    ASSUME TypeOK, NEW r \in Reviews, NEW ph \in ReviewPhases
    PROVE  /\ [review EXCEPT ![r].phase = ph] \in [Reviews -> ReviewRec]
           /\ \A pk \in Pack :
                 [review EXCEPT ![r].phase = ph, ![r].pack = pk] \in [Reviews -> ReviewRec]
           /\ \A evs \in Seq(Event) :
                 [review EXCEPT ![r].phase = ph, ![r].events = evs] \in [Reviews -> ReviewRec]
<1>1. review \in [Reviews -> ReviewRec] BY DEF TypeOK
<1>2. /\ [review[r] EXCEPT !.phase = ph] \in ReviewRec
      /\ \A pk \in Pack : [review[r] EXCEPT !.phase = ph, !.pack = pk] \in ReviewRec
      /\ \A evs \in Seq(Event) : [review[r] EXCEPT !.phase = ph, !.events = evs] \in ReviewRec
  BY <1>1 DEF ReviewRec
<1>3. QED BY <1>1, <1>2

LEMMA ExportMoves ==
    ASSUME TypeOK, NEW t \in Exports, NEW ph \in ExportPhases
    PROVE  /\ [export EXCEPT ![t].phase = ph] \in [Exports -> ExportRec]
           /\ \A pk \in Pack :
                 [export EXCEPT ![t].phase = ph, ![t].pack = pk] \in [Exports -> ExportRec]
           /\ \A evs \in Seq(Event) :
                 [export EXCEPT ![t].phase = ph, ![t].events = evs] \in [Exports -> ExportRec]
<1>1. export \in [Exports -> ExportRec] BY DEF TypeOK
<1>2. /\ [export[t] EXCEPT !.phase = ph] \in ExportRec
      /\ \A pk \in Pack : [export[t] EXCEPT !.phase = ph, !.pack = pk] \in ExportRec
      /\ \A evs \in Seq(Event) : [export[t] EXCEPT !.phase = ph, !.events = evs] \in ExportRec
  BY <1>1 DEF ExportRec
<1>3. QED BY <1>1, <1>2

LEMMA TouchTyped ==
    ASSUME TypeOK, NEW k, NEW t
    PROVE  /\ Touch(k, t) \in [Exports -> ExportRec]
           /\ \A e \in Exports : /\ Touch(k, t)[e].key = export[e].key
                                 /\ Touch(k, t)[e].phase = export[e].phase
                                 /\ Touch(k, t)[e].proc = export[e].proc
                                 /\ Touch(k, t)[e].row = export[e].row
                                 /\ Touch(k, t)[e].pack = export[e].pack
                                 /\ Touch(k, t)[e].events = export[e].events
                                 /\ export[e].touched => Touch(k, t)[e].touched
<1>1. export \in [Exports -> ExportRec] BY DEF TypeOK
<1>2. \A rec \in ExportRec :
         LET upd == [rec EXCEPT !.touched = TRUE]
         IN /\ upd \in ExportRec
            /\ upd.key = rec.key /\ upd.phase = rec.phase /\ upd.proc = rec.proc
            /\ upd.row = rec.row /\ upd.pack = rec.pack /\ upd.events = rec.events
            /\ upd.touched
  BY DEF ExportRec
<1>3. QED BY <1>1, <1>2 DEF Touch

LEMMA PostArrivalTyped ==
    ASSUME TypeOK, HandlersHoldLoop, NEW p \in Processes, NEW k \in Keys, NEW r \in Posts,
           NEW x \in Payloads, PostArrival(r, p, k, x)
    PROVE  TypeOK' /\ HandlersHoldLoop'
<1>1. \A ph \in PostPhases, d \in Decisions \cup {"none"} :
         [phase |-> ph, proc |-> p, key |-> k, payload |-> x, reply |-> d] \in PostRec
  BY DEF PostRec
<1>2. runs[k].decision \in Decisions \cup {"none"} BY DEF TypeOK, Run
<1> USE NoneIsNoValue DEF PostArrives, PostPhases, PostActive, tables
<1>3. CASE PostReplay(r, p, k, x)
  <2>1. TypeOK' BY <1>1, <1>2, <1>3 DEF TypeOK, PostReplay
  <2>2. HandlersHoldLoop' BY <1>3 DEF PostReplay, TypeOK, HandlersHoldLoop
  <2>3. QED BY <2>1, <2>2
<1>4. CASE PostConflict(r, p, k, x)
  <2>1. TypeOK' BY <1>1, <1>4 DEF TypeOK, PostConflict
  <2>2. HandlersHoldLoop' BY <1>4 DEF PostConflict, TypeOK, HandlersHoldLoop
  <2>3. QED BY <2>1, <2>2
<1>5. CASE PostMiss(r, p, k, x)
  <2>1. TypeOK' BY <1>1, <1>5 DEF TypeOK, PostMiss
  <2>2. HandlersHoldLoop' BY <1>5 DEF PostMiss, TypeOK, HandlersHoldLoop
  <2>3. QED BY <2>1, <2>2
<1>6. QED BY <1>3, <1>4, <1>5 DEF PostArrival

LEMMA PostInsertTyped ==
    ASSUME TypeOK, HandlersHoldLoop, NEW r \in Posts, NEW d \in Decisions, PostInsert(r, d)
    PROVE  TypeOK' /\ HandlersHoldLoop'
<1> DEFINE body == [status |-> InitialStatus(d), reviewer |-> None, events |-> << >>]
           row == [payload |-> post[r].payload, decision |-> d, status |-> InitialStatus(d),
                   reviewer |-> None, sha |-> Sha(body)]
<1>1. PICK k \in Keys : k = post[r].key BY DEF PostInsert, HandlersHoldLoop
<1>2. body \in Body BY DEF Body, InitialStatus, Statuses
<1>3. row \in Run
  <2>1. post[r].payload \in Payloads \cup {None} BY DEF TypeOK, PostRec
  <2>2. Sha(body) \in Digest BY <1>2, RowTypes
  <2>3. QED BY <2>1, <2>2 DEF Run, InitialStatus, Statuses
<1>4. runs' \in [Keys -> Run] BY <1>3 DEF PostInsert, TypeOK
<1>5. packs' \in [Keys -> Pack] BY <1>2, RowTypes DEF PostInsert, TypeOK
<1>6. audit' \in [Keys -> Seq({"run_decided"} \cup Outcomes)]
  <2>1. audit' = [audit EXCEPT ![k] = Append(audit[k], "run_decided")]
    BY <1>1 DEF PostInsert, Audited
  <2>2. audit[k] \in Seq({"run_decided"} \cup Outcomes) BY DEF TypeOK
  <2>3. Append(audit[k], "run_decided") \in Seq({"run_decided"} \cup Outcomes) BY <2>2
  <2>4. QED BY <2>1, <2>3 DEF TypeOK
<1>7. post' \in [Posts -> PostRec] BY PostMoves DEF PostInsert, PostPhases, PostActive
<1>8. TypeOK' BY <1>4, <1>5, <1>6, <1>7 DEF PostInsert, TypeOK
<1>9. HandlersHoldLoop' BY DEF PostInsert, TypeOK, HandlersHoldLoop, PostActive
<1>10. QED BY <1>8, <1>9

LEMMA PostStepTyped ==
    ASSUME TypeOK, HandlersHoldLoop, NEW r \in Posts, PostStep(r)
    PROVE  TypeOK' /\ HandlersHoldLoop'
<1>1. CASE \E d \in Decisions : PostInsert(r, d) BY <1>1, PostInsertTyped
<1> USE NoneIsNoValue, RequestsDisjoint DEF PostPhases, PostActive, tables
<1>2. CASE PostDuplicate(r)
  <2>1. TypeOK' BY <1>2, PostMoves DEF PostDuplicate, TypeOK
  <2>2. HandlersHoldLoop' BY <1>2 DEF PostDuplicate, TypeOK, HandlersHoldLoop, ReviewActive
  <2>3. QED BY <2>1, <2>2
<1>3. CASE PostCase(r)
  <2>1. cases' \in [Keys -> Nat]
    <3>1. PICK n \in Nat : cases' = [cases EXCEPT ![post[r].key] = n]
      <4>1. cases[post[r].key] \in Nat BY <1>3 DEF PostCase, HandlersHoldLoop, TypeOK
      <4> DEFINE m == IF runs[post[r].key].decision = "allow" THEN cases[post[r].key]
                      ELSE cases[post[r].key] + 1
      <4>2. m \in Nat BY <4>1
      <4>3. cases' = [cases EXCEPT ![post[r].key] = m] BY <1>3 DEF PostCase
      <4>4. QED BY <4>2, <4>3
    <3>2. QED BY <3>1 DEF TypeOK
  <2>2. post' \in [Posts -> PostRec] BY <1>3, PostMoves DEF PostCase
  <2>3. TypeOK' BY <1>3, <2>1, <2>2 DEF PostCase, TypeOK
  <2>4. HandlersHoldLoop' BY <1>3 DEF PostCase, TypeOK, HandlersHoldLoop
  <2>5. QED BY <2>3, <2>4
<1>4. CASE PostReply(r)
  <2>1. post[r].key \in Keys BY <1>4 DEF PostReply, HandlersHoldLoop
  <2>2. runs[post[r].key].decision \in Decisions \cup {"none"} BY <2>1 DEF TypeOK, Run
  <2>3. post' \in [Posts -> PostRec] BY <1>4, <2>2, PostMoves DEF PostReply
  <2>4. TypeOK' BY <1>4, <2>3 DEF PostReply, TypeOK
  <2>5. HandlersHoldLoop' BY <1>4 DEF PostReply, TypeOK, HandlersHoldLoop, ReviewActive
  <2>6. QED BY <2>4, <2>5
<1>5. QED BY <1>1, <1>2, <1>3, <1>4 DEF PostStep

LEMMA ReviewArrivalTyped ==
    ASSUME TypeOK, HandlersHoldLoop, NEW p \in Processes, NEW k \in Keys, NEW r \in Reviews,
           ReviewArrival(r, p, k)
    PROVE  TypeOK' /\ HandlersHoldLoop'
<1>1. review[r] \in ReviewRec /\ runs[k] \in Run BY DEF TypeOK
<1>2. /\ [review[r] EXCEPT !.phase = "refused", !.proc = p, !.key = k] \in ReviewRec
      /\ \A o \in Outcomes : [review[r] EXCEPT !.phase = "row", !.proc = p, !.key = k,
                                               !.outcome = o, !.row = runs[k]] \in ReviewRec
  BY <1>1 DEF ReviewRec, ReviewPhases, ReviewActive
<1> USE NoneIsNoValue DEF ReviewActive, tables
<1>3. CASE ReviewRefused(r, p, k)
  <2>1. review' \in [Reviews -> ReviewRec] BY <1>2, <1>3 DEF ReviewRefused, TypeOK
  <2>2. TypeOK' BY <1>3, <2>1 DEF ReviewRefused, TypeOK
  <2>3. HandlersHoldLoop' BY <1>3 DEF ReviewRefused, TypeOK, HandlersHoldLoop
  <2>4. QED BY <2>2, <2>3
<1>4. ASSUME NEW o \in Outcomes, ReviewRow(r, p, k, o) PROVE TypeOK' /\ HandlersHoldLoop'
  <2>1. review' \in [Reviews -> ReviewRec] BY <1>2, <1>4 DEF ReviewRow, TypeOK
  <2>2. TypeOK' BY <1>4, <2>1 DEF ReviewRow, TypeOK
  <2>3. HandlersHoldLoop' BY <1>4, <1>1 DEF ReviewRow, TypeOK, HandlersHoldLoop, ReviewRec, PostActive
  <2>4. QED BY <2>2, <2>3
<1>5. QED BY <1>3, <1>4 DEF ReviewArrival

LEMMA ReviewCommitTyped ==
    ASSUME TypeOK, HandlersHoldLoop, NEW r \in Reviews, ReviewCommit(r)
    PROVE  TypeOK' /\ HandlersHoldLoop'
<1> DEFINE o == review[r].outcome
           body == [status |-> o, reviewer |-> r,
                    events |-> Append(review[r].events, NextEvent(r))]
<1>1. PICK k \in Keys : k = review[r].key BY DEF ReviewCommit, HandlersHoldLoop
<1>2. review[r] \in ReviewRec /\ o \in Outcomes /\ review[r].events \in Seq(Event)
  BY DEF TypeOK, ReviewRec
<1>3. NextEvent(r) \in Event BY <1>2, NextEventTyped
<1>4. body \in Body BY <1>2, <1>3 DEF Body, Statuses
<1>5. \A row \in Run : [row EXCEPT !.status = o, !.reviewer = r, !.sha = Sha(body)] \in Run
  BY <1>2, <1>4, RowTypes DEF Run, Statuses
<1>6. runs' \in [Keys -> Run] BY <1>5 DEF ReviewCommit, TypeOK
<1>7. packs' \in [Keys -> Pack] BY <1>4, RowTypes DEF ReviewCommit, TypeOK
<1>8. events' \in [Keys -> Seq(Event)]
  <2>1. events' = [events EXCEPT ![k] = Append(events[k], NextEvent(r))]
    BY <1>1 DEF ReviewCommit
  <2>2. events[k] \in Seq(Event) BY DEF TypeOK
  <2>3. Append(events[k], NextEvent(r)) \in Seq(Event) BY <2>2, <1>3
  <2>4. QED BY <2>1, <2>3 DEF TypeOK
<1>9. audit' \in [Keys -> Seq({"run_decided"} \cup Outcomes)]
  <2>1. audit' = [audit EXCEPT ![k] = Append(audit[k], o)] BY <1>1 DEF ReviewCommit, Audited
  <2>2. audit[k] \in Seq({"run_decided"} \cup Outcomes) BY DEF TypeOK
  <2>3. Append(audit[k], o) \in Seq({"run_decided"} \cup Outcomes) BY <2>2, <1>2
  <2>4. QED BY <2>1, <2>3 DEF TypeOK
<1>10. review' \in [Reviews -> ReviewRec] BY ReviewMoves DEF ReviewCommit, ReviewPhases, ReviewActive
<1>11. export' \in [Exports -> ExportRec] BY TouchTyped DEF ReviewCommit
<1>12. TypeOK' BY <1>6, <1>7, <1>8, <1>9, <1>10, <1>11 DEF ReviewCommit, TypeOK
<1>13. \A t \in Exports : export'[t].phase = export[t].phase /\ export'[t].key = export[t].key
  <2>1. export' = Touch(k, None) BY <1>1 DEF ReviewCommit
  <2>2. QED BY <2>1, TouchTyped
<1>14. HandlersHoldLoop'
  <2>1. UNCHANGED <<post, loop>> /\ review' = [review EXCEPT ![r].phase = "committed"]
    BY DEF ReviewCommit
  <2>2. review \in [Reviews -> ReviewRec] /\ review[r].phase = "ready" BY DEF TypeOK, ReviewCommit
  <2>3. \A q \in Reviews : /\ review'[q].key = review[q].key /\ review'[q].proc = review[q].proc
                           /\ review'[q].phase \in ReviewActive => review[q].phase \in ReviewActive
                           /\ review'[q].phase # "new" => review[q].phase # "new"
    BY <2>1, <2>2 DEF ReviewActive, ReviewRec
  <2>4. \A q \in Reviews : /\ review'[q].phase # "new" => review'[q].key \in Keys
                           /\ review'[q].phase \in ReviewActive =>
                                  review'[q].proc \in Processes /\ loop[review'[q].proc] = q
    BY <2>3 DEF HandlersHoldLoop
  <2>5. \A t \in Exports : export'[t].phase # "new" => export'[t].key \in Keys
    BY <1>13 DEF HandlersHoldLoop
  <2>6. QED BY <2>1, <2>4, <2>5 DEF HandlersHoldLoop, PostActive, ReviewActive
<1>15. QED BY <1>12, <1>14

LEMMA ReviewStepTyped ==
    ASSUME TypeOK, HandlersHoldLoop, NEW r \in Reviews, ReviewStep(r)
    PROVE  TypeOK' /\ HandlersHoldLoop'
<1> USE NoneIsNoValue, RequestsDisjoint DEF ReviewPhases, ReviewActive, tables
<1>1. CASE ReviewPack(r)
  <2>1. packs[review[r].key] \in Pack BY <1>1 DEF ReviewPack, HandlersHoldLoop, TypeOK
  <2>2. TypeOK' BY <1>1, <2>1, ReviewMoves DEF ReviewPack, TypeOK
  <2>3. HandlersHoldLoop' BY <1>1 DEF ReviewPack, TypeOK, HandlersHoldLoop
  <2>4. QED BY <2>2, <2>3
<1>2. CASE ReviewEvents(r)
  <2>1. events[review[r].key] \in Seq(Event) BY <1>2 DEF ReviewEvents, HandlersHoldLoop, TypeOK
  <2>2. TypeOK' BY <1>2, <2>1, ReviewMoves DEF ReviewEvents, TypeOK
  <2>3. HandlersHoldLoop' BY <1>2 DEF ReviewEvents, TypeOK, HandlersHoldLoop
  <2>4. QED BY <2>2, <2>3
<1>3. CASE ReviewCommit(r) BY <1>3, ReviewCommitTyped
<1>4. CASE ReviewFails(r)
  <2>1. TypeOK' BY <1>4, ReviewMoves DEF ReviewFails, TypeOK
  <2>2. HandlersHoldLoop' BY <1>4 DEF ReviewFails, TypeOK, HandlersHoldLoop, PostActive
  <2>3. QED BY <2>1, <2>2
<1>5. CASE ReviewReply(r)
  <2>1. TypeOK' BY <1>5, ReviewMoves DEF ReviewReply, TypeOK
  <2>2. HandlersHoldLoop' BY <1>5 DEF ReviewReply, TypeOK, HandlersHoldLoop, PostActive
  <2>3. QED BY <2>1, <2>2
<1>6. QED BY <1>1, <1>2, <1>3, <1>4, <1>5 DEF ReviewStep

LEMMA ExportArrivalTyped ==
    ASSUME TypeOK, HandlersHoldLoop, NEW p \in Processes, NEW k \in Keys, NEW t \in Exports,
           ExportArrival(t, p, k)
    PROVE  TypeOK' /\ HandlersHoldLoop'
<1>1. export[t] \in ExportRec /\ runs[k] \in Run BY DEF TypeOK
<1>2. /\ [export[t] EXCEPT !.phase = "refused", !.proc = p, !.key = k] \in ExportRec
      /\ [export[t] EXCEPT !.phase = "row", !.proc = p, !.key = k, !.row = runs[k]] \in ExportRec
  BY <1>1 DEF ExportRec, ExportPhases, ExportActive
<1> USE DEF tables
<1>3. CASE ExportNotFound(t, p, k)
  <2>1. export' \in [Exports -> ExportRec] BY <1>2, <1>3 DEF ExportNotFound, TypeOK
  <2>2. TypeOK' BY <1>3, <2>1 DEF ExportNotFound, TypeOK
  <2>3. HandlersHoldLoop' BY <1>3 DEF ExportNotFound, TypeOK, HandlersHoldLoop
  <2>4. QED BY <2>2, <2>3
<1>4. CASE ExportRow(t, p, k)
  <2>1. export' \in [Exports -> ExportRec] BY <1>2, <1>4 DEF ExportRow, TypeOK
  <2>2. TypeOK' BY <1>4, <2>1 DEF ExportRow, TypeOK
  <2>3. HandlersHoldLoop' BY <1>4 DEF ExportRow, TypeOK, HandlersHoldLoop
  <2>4. QED BY <2>2, <2>3
<1>5. QED BY <1>3, <1>4 DEF ExportArrival

LEMMA ExportWriteTyped ==
    ASSUME TypeOK, HandlersHoldLoop, NEW t \in Exports, ExportWrite(t)
    PROVE  TypeOK' /\ HandlersHoldLoop'
<1>1. export[t].row \in Run /\ export[t].events \in Seq(Event) BY DEF TypeOK, ExportRec
<1>2. Synced(t) \in Body BY <1>1, RowTypes DEF Synced
<1>3. \A row \in Run : [row EXCEPT !.sha = Sha(Synced(t))] \in Run BY <1>2, RowTypes DEF Run
<1>4. runs' \in [Keys -> Run] BY <1>3 DEF ExportWrite, TypeOK
<1>5. packs' \in [Keys -> Pack] BY <1>2, RowTypes DEF ExportWrite, TypeOK
<1>6. \A rec \in ExportRec : /\ [rec EXCEPT !.phase = "written"] \in ExportRec
                             /\ [rec EXCEPT !.phase = "written"].key = rec.key
  BY DEF ExportRec, ExportPhases, ExportActive
<1>7. export' \in [Exports -> ExportRec] BY <1>6, TouchTyped DEF ExportWrite
<1>8. TypeOK' BY <1>4, <1>5, <1>7 DEF ExportWrite, TypeOK
<1>9. \A u \in Exports : /\ export'[u].key = export[u].key
                         /\ export'[u].phase # "new" => export[u].phase # "new"
  BY <1>6, TouchTyped DEF ExportWrite
<1>10. HandlersHoldLoop' BY <1>9 DEF ExportWrite, HandlersHoldLoop
<1>11. QED BY <1>8, <1>10

LEMMA ExportStepTyped ==
    ASSUME TypeOK, HandlersHoldLoop, NEW t \in Exports, ExportStep(t)
    PROVE  TypeOK' /\ HandlersHoldLoop'
<1> USE DEF ExportPhases, ExportActive, tables
<1>1. CASE ExportPack(t)
  <2>1. packs[export[t].key] \in Pack BY <1>1 DEF ExportPack, HandlersHoldLoop, TypeOK
  <2>2. TypeOK' BY <1>1, <2>1, ExportMoves DEF ExportPack, TypeOK
  <2>3. HandlersHoldLoop' BY <1>1 DEF ExportPack, TypeOK, HandlersHoldLoop
  <2>4. QED BY <2>2, <2>3
<1>2. CASE ExportEvents(t)
  <2>1. events[export[t].key] \in Seq(Event) BY <1>2 DEF ExportEvents, HandlersHoldLoop, TypeOK
  <2>2. export' \in [Exports -> ExportRec] BY <1>2, <2>1, ExportMoves DEF ExportEvents
  <2>3. TypeOK' BY <1>2, <2>2 DEF ExportEvents, TypeOK
  <2>4. HandlersHoldLoop' BY <1>2 DEF ExportEvents, TypeOK, HandlersHoldLoop
  <2>5. QED BY <2>3, <2>4
<1>3. CASE ExportUnchanged(t)
  <2>1. TypeOK' BY <1>3, ExportMoves DEF ExportUnchanged, TypeOK
  <2>2. HandlersHoldLoop' BY <1>3 DEF ExportUnchanged, TypeOK, HandlersHoldLoop
  <2>3. QED BY <2>1, <2>2
<1>4. CASE ExportWrite(t) BY <1>4, ExportWriteTyped
<1>5. CASE ExportRefresh(t)
  <2>1. packs[export[t].key] \in Pack BY <1>5 DEF ExportRefresh, HandlersHoldLoop, TypeOK
  <2>2. export' \in [Exports -> ExportRec]
    <3>1. PICK ph \in ExportPhases :
             export' = [export EXCEPT ![t].phase = ph, ![t].pack = packs[export[t].key]]
      BY <1>5 DEF ExportRefresh
    <3>2. QED BY <2>1, <3>1, ExportMoves
  <2>3. TypeOK' BY <1>5, <2>2 DEF ExportRefresh, TypeOK
  <2>4. HandlersHoldLoop' BY <1>5 DEF ExportRefresh, TypeOK, HandlersHoldLoop
  <2>5. QED BY <2>3, <2>4
<1>6. CASE ExportReply(t)
  <2>1. TypeOK' BY <1>6, ExportMoves DEF ExportReply, TypeOK
  <2>2. HandlersHoldLoop' BY <1>6 DEF ExportReply, TypeOK, HandlersHoldLoop
  <2>3. QED BY <2>1, <2>2
<1>7. QED BY <1>1, <1>2, <1>3, <1>4, <1>5, <1>6 DEF ExportStep

LEMMA FaultTyped ==
    ASSUME TypeOK, HandlersHoldLoop, Fault
    PROVE  TypeOK' /\ HandlersHoldLoop'
<1> USE NoneIsNoValue, RequestsDisjoint DEF PostActive, ReviewActive, ExportActive, tables
<1>1. ASSUME faults < MaxFaults, faults' = faults + 1 PROVE faults' \in 0..MaxFaults
  BY <1>1, FaultBound DEF TypeOK
<1>2. ASSUME NEW p \in Processes, Crash(p) PROVE TypeOK' /\ HandlersHoldLoop'
  <2>1. /\ \A rec \in PostRec : [rec EXCEPT !.phase = "lost"] \in PostRec
        /\ \A rec \in ReviewRec : [rec EXCEPT !.phase = "lost"] \in ReviewRec
        /\ \A rec \in ExportRec : [rec EXCEPT !.phase = "lost"] \in ExportRec
    BY DEF PostRec, ReviewRec, ExportRec, PostPhases, ReviewPhases, ExportPhases
  <2>2. post' \in [Posts -> PostRec] BY <1>2, <2>1 DEF Crash, TypeOK
  <2>3. review' \in [Reviews -> ReviewRec] BY <1>2, <2>1 DEF Crash, TypeOK
  <2>4. export' \in [Exports -> ExportRec] BY <1>2, <2>1 DEF Crash, TypeOK
  <2>5. loop' \in [Processes -> Posts \cup Reviews \cup {None}] BY <1>2 DEF Crash, TypeOK
  <2>6. TypeOK' BY <1>1, <1>2, <2>2, <2>3, <2>4, <2>5 DEF Crash, TypeOK
  <2>7. HandlersHoldLoop'
    BY <1>2 DEF Crash, TypeOK, HandlersHoldLoop, PostRec, ReviewRec, ExportRec
  <2>8. QED BY <2>6, <2>7
<1>3. ASSUME NEW r \in Posts, PostDbError(r) PROVE TypeOK' /\ HandlersHoldLoop'
  <2>1. post' \in [Posts -> PostRec] BY <1>3, PostMoves DEF PostDbError, PostPhases
  <2>2. loop' \in [Processes -> Posts \cup Reviews \cup {None}] BY <1>3 DEF PostDbError, TypeOK
  <2>3. TypeOK' BY <1>1, <1>3, <2>1, <2>2 DEF PostDbError, TypeOK
  <2>4. HandlersHoldLoop' BY <1>3 DEF PostDbError, TypeOK, HandlersHoldLoop
  <2>5. QED BY <2>3, <2>4
<1>4. ASSUME NEW r \in Reviews, ReviewDbError(r) PROVE TypeOK' /\ HandlersHoldLoop'
  <2>1. review' \in [Reviews -> ReviewRec] BY <1>4, ReviewMoves DEF ReviewDbError, ReviewPhases
  <2>2. loop' \in [Processes -> Posts \cup Reviews \cup {None}] BY <1>4 DEF ReviewDbError, TypeOK
  <2>3. TypeOK' BY <1>1, <1>4, <2>1, <2>2 DEF ReviewDbError, TypeOK
  <2>4. HandlersHoldLoop' BY <1>4 DEF ReviewDbError, TypeOK, HandlersHoldLoop
  <2>5. QED BY <2>3, <2>4
<1>5. ASSUME NEW t \in Exports, ExportDbError(t) PROVE TypeOK' /\ HandlersHoldLoop'
  <2>1. export' \in [Exports -> ExportRec] BY <1>5, ExportMoves DEF ExportDbError, ExportPhases
  <2>2. TypeOK' BY <1>1, <1>5, <2>1 DEF ExportDbError, TypeOK
  <2>3. HandlersHoldLoop' BY <1>5 DEF ExportDbError, TypeOK, HandlersHoldLoop
  <2>4. QED BY <2>2, <2>3
<1>6. QED BY <1>2, <1>3, <1>4, <1>5 DEF Fault

LEMMA TypedNext == Typed /\ [Next]_vars => Typed'
<1> SUFFICES ASSUME TypeOK, HandlersHoldLoop, [Next]_vars PROVE TypeOK' /\ HandlersHoldLoop'
  BY DEF Typed
<1>1. CASE Arrive
  BY <1>1, PostArrivalTyped, ReviewArrivalTyped, ExportArrivalTyped DEF Arrive
<1>2. CASE \E r \in Posts : PostStep(r) BY <1>2, PostStepTyped
<1>3. CASE \E r \in Reviews : ReviewStep(r) BY <1>3, ReviewStepTyped
<1>4. CASE \E t \in Exports : ExportStep(t) BY <1>4, ExportStepTyped
<1>5. CASE Fault BY <1>5, FaultTyped
<1>6. CASE UNCHANGED vars
  BY <1>6 DEF vars, TypeOK, HandlersHoldLoop, PostActive, ReviewActive, ExportActive
<1>7. QED BY <1>1, <1>2, <1>3, <1>4, <1>5, <1>6 DEF Next

(* Every row and every handler record keeps its type, and a request in flight is the one
   its process's event loop is running: store_run, review_run and get_evidence never
   leave a table or a handler in a shape the models in app/models/db.py do not have. *)
THEOREM TypeCorrect == Spec => [](TypeOK /\ HandlersHoldLoop)
<1>1. Typed => TypeOK /\ HandlersHoldLoop BY DEF Typed
<1>2. QED BY <1>1, TypedInit, TypedNext, PTL DEF Spec
-----------------------------------------------------------------------------
(* Sequences: prefixes and what appending does to them. *)

LEMMA PrefixFacts ==
    ASSUME NEW S, NEW s \in Seq(S), NEW t \in Seq(S), NEW e \in S
    PROVE  /\ IsPrefix(s, s)
           /\ IsPrefix(s, t) => IsPrefix(s, Append(t, e))
           /\ IsPrefix(t, Append(t, e))
           /\ IsPrefix(<< >>, t)
  BY DEF IsPrefix

(* Neither a review nor an export changes what was decided, about what. *)
DecidedAlike(k) == runs'[k].decision = runs[k].decision /\ runs'[k].payload = runs[k].payload

LEMMA DecisionKept ==
    ASSUME TypeOK, NEW k \in Keys
    PROVE  /\ \A r \in Reviews : ReviewCommit(r) => DecidedAlike(k)
           /\ \A t \in Exports : ExportWrite(t) => DecidedAlike(k)
<1>1. runs \in [Keys -> Run] /\ runs[k] \in Run BY DEF TypeOK
<1>2. ASSUME NEW r \in Reviews, ReviewCommit(r) PROVE DecidedAlike(k)
  <2> DEFINE i == review[r].key
             body == [status |-> review[r].outcome, reviewer |-> r,
                      events |-> Append(review[r].events, NextEvent(r))]
             row == [runs[i] EXCEPT !.status = review[r].outcome, !.reviewer = r, !.sha = Sha(body)]
  <2>1. runs' = [runs EXCEPT ![i] = row] BY <1>2 DEF ReviewCommit
  <2>2. CASE i = k
    <3>1. row.decision = runs[k].decision /\ row.payload = runs[k].payload BY <1>1, <2>2 DEF Run
    <3>2. runs'[k] = row BY <1>1, <2>1, <2>2
    <3>3. QED BY <3>1, <3>2 DEF DecidedAlike
  <2>3. CASE i # k BY <1>1, <2>1, <2>3 DEF DecidedAlike
  <2>4. QED BY <2>2, <2>3
<1>3. ASSUME NEW t \in Exports, ExportWrite(t) PROVE DecidedAlike(k)
  BY <1>1, <1>3 DEF ExportWrite, Run, DecidedAlike
<1>4. QED BY <1>2, <1>3

(* The rows every step keeps: a stored decision and payload, and the committed events. *)
LEMMA HistoryKept ==
    ASSUME TypeOK, TypeOK', [Next]_vars, NEW k \in Keys
    PROVE  /\ Exists(k) => runs'[k].decision = runs[k].decision /\ runs'[k].payload = runs[k].payload
           /\ IsPrefix(events[k], events'[k])
<1> DEFINE Kept == /\ Exists(k) => runs'[k].decision = runs[k].decision /\ runs'[k].payload = runs[k].payload
                   /\ IsPrefix(events[k], events'[k])
<1>1. events[k] \in Seq(Event) /\ runs[k] \in Run BY DEF TypeOK
<1>2. IsPrefix(events[k], events[k]) BY <1>1 DEF IsPrefix
<1>3. CASE Reads BY <1>2, <1>3 DEF Reads, tables
<1>4. ASSUME NEW r \in Posts, NEW d \in Decisions, PostInsert(r, d) PROVE Kept
  BY <1>2, <1>4 DEF PostInsert, KeyTaken, TypeOK
<1>5. ASSUME NEW r \in Posts, PostCase(r) PROVE Kept BY <1>2, <1>5 DEF PostCase
<1>6. ASSUME NEW r \in Reviews, ReviewCommit(r) PROVE Kept
  <2>1. /\ runs'[k].decision = runs[k].decision /\ runs'[k].payload = runs[k].payload
    BY <1>6, DecisionKept DEF DecidedAlike
  <2>2. events'[k] = events[k] \/ events'[k] = Append(events[k], NextEvent(r))
    BY <1>6 DEF ReviewCommit, TypeOK
  <2>3. IsPrefix(events[k], Append(events[k], NextEvent(r))) BY <1>1 DEF IsPrefix
  <2>4. QED BY <1>2, <2>1, <2>2, <2>3
<1>7. ASSUME NEW t \in Exports, ExportWrite(t) PROVE Kept
  BY <1>2, <1>7, DecisionKept DEF ExportWrite, DecidedAlike
<1>8. QED BY <1>3, <1>4, <1>5, <1>6, <1>7, WhoWrites DEF Writes

(* Review columns that were committed stay so. *)
LEMMA ShownKept ==
    ASSUME TypeOK, TypeOK', [Next]_vars, NEW k \in Keys, NEW status, NEW reviewer,
           Shown(status, reviewer, events[k])
    PROVE  Shown(status, reviewer, events'[k])
<1>1. IsPrefix(events[k], events'[k]) BY HistoryKept
<1>2. events[k] \in Seq(Event) /\ events'[k] \in Seq(Event) BY DEF TypeOK
<1>3. QED BY <1>1, <1>2 DEF Shown, IsPrefix

(* The heart of the matter: a review that gets through the UNIQUE constraint on
   (run_id, sequence) has read every event there is, so what it appends and what it seals
   into the pack continue the run's own history. *)
LEMMA CommitSeesAll ==
    ASSUME TypeOK, HandlersHoldLoop, ReviewSnapshots, HistoryIsChain,
           NEW r \in Reviews, ReviewCommit(r), NEW k \in Keys, k = review[r].key
    PROVE  /\ review[r].events = events[k]
           /\ NextEvent(r).seq = Len(events[k]) + 1
           /\ NextEvent(r).prev = IF events[k] = << >> THEN None ELSE Last(events[k]).actor
           /\ NextEvent(r).action = review[r].outcome
           /\ NextEvent(r).actor = r
<1> DEFINE s == review[r].events
           e == events[k]
<1>1. s \in Seq(Event) /\ e \in Seq(Event) BY DEF TypeOK, ReviewRec
<1>2. IsPrefix(s, e) /\ ChainOK(s) /\ ChainOK(e) /\ ~SequenceTaken(k, NextEvent(r).seq)
  BY DEF ReviewSnapshots, HistoryIsChain, ReviewCommit
<1>3. NextEvent(r).seq = Len(s) + 1 BY <1>1, <1>2 DEF NextEvent, ChainOK, Last
<1>4. Len(e) = Len(s)
  <2>1. Len(s) \in Nat /\ Len(e) \in Nat /\ Len(s) <= Len(e) BY <1>1, <1>2 DEF IsPrefix
  <2>2. ASSUME Len(s) # Len(e) PROVE FALSE
    <3>1. Len(s) + 1 \in 1..Len(e) BY <2>1, <2>2
    <3>2. e[Len(s) + 1].seq = Len(s) + 1 BY <3>1, <1>2 DEF ChainOK
    <3>3. QED BY <3>1, <3>2, <1>2, <1>3 DEF SequenceTaken
  <2>3. QED BY <2>2
<1>5. s = e BY <1>1, <1>2, <1>4 DEF IsPrefix
<1>6. QED BY <1>3, <1>5 DEF NextEvent
-----------------------------------------------------------------------------
(* The invariants of the tables: one step per commit that writes them. *)

LEMMA RowMatchesHistoryNext ==
    ASSUME Inductive, TypeOK', [Next]_vars
    PROVE  RowMatchesHistory'
<1> USE DEF Inductive
<1> SUFFICES ASSUME NEW k \in Keys
             PROVE  (IF events[k] = << >>
                     THEN /\ runs[k].reviewer = None
                          /\ runs[k].status = IF Exists(k) THEN InitialStatus(runs[k].decision) ELSE "none"
                     ELSE /\ runs[k].status = Last(events[k]).action
                          /\ runs[k].reviewer = Last(events[k]).actor
                          /\ runs[k].decision = "review")'
  BY DEF RowMatchesHistory
<1> DEFINE Matches ==
              IF events[k] = << >>
              THEN /\ runs[k].reviewer = None
                   /\ runs[k].status = IF Exists(k) THEN InitialStatus(runs[k].decision) ELSE "none"
              ELSE /\ runs[k].status = Last(events[k]).action
                   /\ runs[k].reviewer = Last(events[k]).actor
                   /\ runs[k].decision = "review"
<1>1. Matches BY DEF RowMatchesHistory
<1>2. runs[k] \in Run /\ events[k] \in Seq(Event) BY DEF TypeOK
<1>3. CASE UNCHANGED <<runs[k], events[k]>> BY <1>1, <1>3 DEF Exists, InitialStatus
<1>4. ASSUME NEW r \in Posts, NEW d \in Decisions, PostInsert(r, d), post[r].key = k
      PROVE  Matches'
  <2>1. ~Exists(k) /\ events' = events BY <1>4 DEF PostInsert, KeyTaken
  <2>2. events[k] = << >> BY <1>1, <2>1 DEF Exists
  <2>3. /\ runs'[k].decision = d /\ runs'[k].status = InitialStatus(d) /\ runs'[k].reviewer = None
    BY <1>4 DEF PostInsert, TypeOK
  <2>4. QED BY <2>1, <2>2, <2>3 DEF Exists, InitialStatus, Decisions
<1>5. ASSUME NEW r \in Reviews, ReviewCommit(r), review[r].key = k PROVE Matches'
  <2>1. /\ events'[k] = Append(events[k], NextEvent(r))
        /\ runs'[k].status = review[r].outcome /\ runs'[k].reviewer = r
        /\ runs'[k].decision = runs[k].decision
    BY <1>2, <1>5 DEF ReviewCommit, TypeOK, Run
  <2>2. /\ events'[k] # << >>
        /\ Last(events'[k]) = NextEvent(r)
    BY <1>2, <2>1 DEF Last
  <2>3. runs[k].decision = "review" BY <1>5 DEF ReviewSnapshots, ReviewCommit, ReviewActive
  <2>4. NextEvent(r).action = review[r].outcome /\ NextEvent(r).actor = r
    BY <1>5, CommitSeesAll
  <2>5. QED BY <2>1, <2>2, <2>3, <2>4
<1>6. ASSUME NEW t \in Exports, ExportWrite(t) PROVE Matches'
  <2>1. /\ runs'[k].status = runs[k].status /\ runs'[k].reviewer = runs[k].reviewer
        /\ runs'[k].decision = runs[k].decision /\ events' = events
    BY <1>2, <1>6 DEF ExportWrite, TypeOK, Run
  <2>2. QED BY <1>1, <2>1 DEF Exists, InitialStatus
<1>7. CASE Reads BY <1>3, <1>7 DEF Reads, tables
<1>8. ASSUME NEW r \in Posts, NEW d \in Decisions, PostInsert(r, d), post[r].key # k
      PROVE  Matches'
  BY <1>3, <1>8 DEF PostInsert, TypeOK
<1>9. ASSUME NEW r \in Reviews, ReviewCommit(r), review[r].key # k PROVE Matches'
  BY <1>3, <1>9 DEF ReviewCommit, TypeOK
<1>10. ASSUME NEW r \in Posts, PostCase(r) PROVE Matches' BY <1>3, <1>10 DEF PostCase
<1>11. QED BY <1>4, <1>5, <1>6, <1>7, <1>8, <1>9, <1>10, WhoWrites DEF Writes

LEMMA HistoryIsChainNext ==
    ASSUME Inductive, TypeOK', [Next]_vars
    PROVE  HistoryIsChain'
<1> USE DEF Inductive
<1> SUFFICES ASSUME NEW k \in Keys PROVE ChainOK(events'[k]) BY DEF HistoryIsChain, ChainOK
<1>1. ChainOK(events[k]) BY DEF HistoryIsChain
<1>2. events[k] \in Seq(Event) BY DEF TypeOK
<1>3. CASE events'[k] = events[k] BY <1>1, <1>3
<1>4. ASSUME NEW r \in Reviews, ReviewCommit(r), review[r].key = k PROVE ChainOK(events'[k])
  <2>1. events'[k] = Append(events[k], NextEvent(r)) BY <1>4 DEF ReviewCommit, TypeOK
  <2>2. /\ NextEvent(r).seq = Len(events[k]) + 1
        /\ NextEvent(r).prev = IF events[k] = << >> THEN None ELSE Last(events[k]).actor
    BY <1>4, CommitSeesAll
  <2>3. Len(events[k]) = 0 <=> events[k] = << >> BY <1>2
  <2>4. QED BY <1>1, <1>2, <2>1, <2>2, <2>3 DEF ChainOK, Last
<1>5. ASSUME NEW r \in Reviews, ReviewCommit(r), review[r].key # k PROVE events'[k] = events[k]
  BY <1>5 DEF ReviewCommit, TypeOK
<1>6. QED
  BY <1>3, <1>4, <1>5, WhoWrites DEF Reads, Writes, tables, PostInsert, PostCase, ExportWrite

LEMMA AuditMatchesLedgerNext ==
    ASSUME Inductive, TypeOK', [Next]_vars
    PROVE  AuditMatchesLedger'
<1> USE DEF Inductive
<1> SUFFICES ASSUME NEW k \in Keys
             PROVE  (IF Exists(k)
                     THEN /\ Len(audit[k]) = Len(events[k]) + 1
                          /\ audit[k][1] = "run_decided"
                          /\ \A i \in 1..Len(events[k]) : audit[k][i + 1] = events[k][i].action
                     ELSE audit[k] = << >>)'
  BY DEF AuditMatchesLedger
<1> DEFINE Matches == IF Exists(k)
                      THEN /\ Len(audit[k]) = Len(events[k]) + 1
                           /\ audit[k][1] = "run_decided"
                           /\ \A i \in 1..Len(events[k]) : audit[k][i + 1] = events[k][i].action
                      ELSE audit[k] = << >>
<1>1. Matches BY DEF AuditMatchesLedger
<1>2. /\ events[k] \in Seq(Event) /\ audit[k] \in Seq({"run_decided"} \cup Outcomes)
      /\ runs[k] \in Run
  BY DEF TypeOK
<1>3. CASE UNCHANGED <<runs[k].decision, events[k], audit[k]>> BY <1>1, <1>3 DEF Exists
<1>4. ASSUME NEW r \in Posts, NEW d \in Decisions, PostInsert(r, d), post[r].key = k
      PROVE  Matches'
  <2>1. ~Exists(k) /\ events' = events BY <1>4 DEF PostInsert, KeyTaken
  <2>2. events[k] = << >> /\ audit[k] = << >>
    BY <1>1, <2>1 DEF RowMatchesHistory, Exists
  <2>3. audit'[k] = << "run_decided" >>
    BY <1>4, <2>2 DEF PostInsert, Audited, TypeOK
  <2>4. runs'[k].decision = d BY <1>4 DEF PostInsert, TypeOK
  <2>5. QED BY <2>1, <2>2, <2>3, <2>4 DEF Exists, Decisions
<1>5. ASSUME NEW r \in Reviews, ReviewCommit(r), review[r].key = k PROVE Matches'
  <2>1. /\ events'[k] = Append(events[k], NextEvent(r))
        /\ audit'[k] = Append(audit[k], review[r].outcome)
        /\ runs'[k].decision = runs[k].decision
    BY <1>2, <1>5 DEF ReviewCommit, Audited, TypeOK, Run
  <2>2. runs[k].decision = "review" BY <1>5 DEF ReviewSnapshots, ReviewCommit, ReviewActive
  <2>3. NextEvent(r).action = review[r].outcome BY <1>5, CommitSeesAll
  <2>4. QED BY <1>1, <1>2, <2>1, <2>2, <2>3 DEF Exists
<1>6. CASE Reads BY <1>3, <1>6 DEF Reads, tables
<1>7. ASSUME NEW r \in Posts, NEW d \in Decisions, PostInsert(r, d), post[r].key # k
      PROVE  Matches'
  BY <1>3, <1>7 DEF PostInsert, Audited, TypeOK
<1>8. ASSUME NEW r \in Posts, PostCase(r) PROVE Matches' BY <1>3, <1>8 DEF PostCase
<1>9. ASSUME NEW r \in Reviews, ReviewCommit(r), review[r].key # k PROVE Matches'
  BY <1>3, <1>9 DEF ReviewCommit, Audited, TypeOK
<1>10. ASSUME NEW t \in Exports, ExportWrite(t) PROVE Matches'
  BY <1>2, <1>3, <1>10 DEF ExportWrite, TypeOK, Run
<1>11. QED BY <1>4, <1>5, <1>6, <1>7, <1>8, <1>9, <1>10, WhoWrites DEF Writes

LEMMA PackShowsCommittedNext ==
    ASSUME Inductive, TypeOK', [Next]_vars
    PROVE  PackShowsCommitted'
<1> USE DEF Inductive
<1> SUFFICES ASSUME NEW k \in Keys
             PROVE  /\ packs'[k].sha = Sha(packs'[k].body)
                    /\ IsPrefix(packs'[k].body.events, events'[k])
                    /\ Shown(packs'[k].body.status, packs'[k].body.reviewer, events'[k])
  BY DEF PackShowsCommitted, IsPrefix, Sha
<1> DEFINE Committed(b) == IsPrefix(b.events, events'[k]) /\ Shown(b.status, b.reviewer, events'[k])
<1>1. packs[k].body \in Body /\ packs'[k].body \in Body
  BY DEF TypeOK, Pack
<1>2. events[k] \in Seq(Event) /\ events'[k] \in Seq(Event) /\ IsPrefix(events[k], events'[k])
  BY HistoryKept DEF TypeOK
<1>3. \A s \in Seq(Event) : IsPrefix(s, events[k]) => IsPrefix(s, events'[k])
  BY <1>2 DEF IsPrefix
<1>4. CASE packs'[k] = packs[k]
  <2>1. /\ packs[k].sha = Sha(packs[k].body)
        /\ IsPrefix(packs[k].body.events, events[k])
        /\ Shown(packs[k].body.status, packs[k].body.reviewer, events[k])
    BY DEF PackShowsCommitted
  <2>2. packs[k].body.events \in Seq(Event) BY <1>1 DEF Body
  <2>3. QED BY <1>3, <1>4, <2>1, <2>2, ShownKept
<1>5. ASSUME NEW b \in Body, packs'[k] = Seal(b), Committed(b)
      PROVE  /\ packs'[k].sha = Sha(packs'[k].body)
             /\ Committed(packs'[k].body)
  BY <1>5 DEF Seal
<1>6. ASSUME NEW r \in Posts, NEW d \in Decisions, PostInsert(r, d), post[r].key = k
      PROVE  \E b \in Body : packs'[k] = Seal(b) /\ Committed(b)
  <2> DEFINE b == [status |-> InitialStatus(d), reviewer |-> None, events |-> << >>]
  <2>1. b \in Body BY DEF Body, InitialStatus, Statuses
  <2>2. packs'[k] = Seal(b) BY <1>6 DEF PostInsert, TypeOK
  <2>3. IsPrefix(b.events, events'[k]) BY <1>2 DEF IsPrefix
  <2>4. Shown(b.status, b.reviewer, events'[k]) BY DEF Shown, InitialStatus
  <2>5. QED BY <2>1, <2>2, <2>3, <2>4
<1>7. ASSUME NEW r \in Reviews, ReviewCommit(r), review[r].key = k
      PROVE  \E b \in Body : packs'[k] = Seal(b) /\ Committed(b)
  <2> DEFINE b == [status |-> review[r].outcome, reviewer |-> r,
                   events |-> Append(review[r].events, NextEvent(r))]
  <2>1. review[r] \in ReviewRec BY DEF TypeOK
  <2>2. NextEvent(r) \in Event BY <2>1, NextEventTyped
  <2>3. b \in Body BY <2>1, <2>2 DEF Body, ReviewRec, Statuses
  <2>4. packs'[k] = Seal(b) BY <1>7 DEF ReviewCommit, TypeOK
  <2>5. b.events = events'[k]
    <3>1. review[r].events = events[k] BY <1>7, CommitSeesAll
    <3>2. events'[k] = Append(events[k], NextEvent(r)) BY <1>7 DEF ReviewCommit, TypeOK
    <3>3. QED BY <3>1, <3>2
  <2>6. IsPrefix(b.events, events'[k]) BY <1>2, <2>5 DEF IsPrefix
  <2>7. NextEvent(r).action = review[r].outcome /\ NextEvent(r).actor = r BY <1>7, CommitSeesAll
  <2>8. events'[k] = Append(events[k], NextEvent(r)) BY <1>7 DEF ReviewCommit, TypeOK
  <2>9. Len(events'[k]) \in 1..Len(events'[k]) /\ events'[k][Len(events'[k])] = NextEvent(r)
    BY <1>2, <2>8
  <2>10. Shown(b.status, b.reviewer, events'[k]) BY <2>7, <2>9 DEF Shown
  <2>11. QED BY <2>3, <2>4, <2>6, <2>10
<1>8. ASSUME NEW t \in Exports, ExportWrite(t), packs'[k] # packs[k]
      PROVE  \E b \in Body : packs'[k] = Seal(b) /\ Committed(b)
  <2>1. export[t].key = k /\ packs'[k] = Seal(Synced(t)) BY <1>8 DEF ExportWrite, TypeOK
  <2>2. export[t].row \in Run /\ export[t].events \in Seq(Event) BY DEF TypeOK, ExportRec
  <2>3. Synced(t) \in Body BY <2>2, RowTypes DEF Synced
  <2>4. /\ IsPrefix(export[t].events, events[k])
        /\ Shown(export[t].row.status, export[t].row.reviewer, events[k])
    BY <1>8, <2>1 DEF ExportSnapshots, ExportWrite, ExportActive
  <2>5. IsPrefix(export[t].events, events'[k]) BY <1>3, <2>2, <2>4
  <2>6. Shown(export[t].row.status, export[t].row.reviewer, events'[k]) BY <2>4, ShownKept
  <2>7. /\ Synced(t).events = export[t].events /\ Synced(t).status = export[t].row.status
        /\ Synced(t).reviewer = export[t].row.reviewer
    BY DEF Synced, BodyOf
  <2>8. Committed(Synced(t)) BY <2>5, <2>6, <2>7 DEF Shown
  <2>9. QED BY <2>1, <2>3, <2>8
<1>9. packs'[k] = packs[k] \/ \E b \in Body : packs'[k] = Seal(b) /\ Committed(b)
  <2>1. CASE Reads BY <2>1 DEF Reads, tables
  <2>2. ASSUME NEW r \in Posts, NEW d \in Decisions, PostInsert(r, d), post[r].key # k
        PROVE  packs'[k] = packs[k]
    BY <2>2 DEF PostInsert, TypeOK
  <2>3. ASSUME NEW r \in Reviews, ReviewCommit(r), review[r].key # k PROVE packs'[k] = packs[k]
    BY <2>3 DEF ReviewCommit, TypeOK
  <2>4. ASSUME NEW r \in Posts, PostCase(r) PROVE packs'[k] = packs[k] BY <2>4 DEF PostCase
  <2>5. QED BY <1>6, <1>7, <1>8, <2>1, <2>2, <2>3, <2>4, WhoWrites DEF Writes
<1>10. QED BY <1>4, <1>5, <1>9
-----------------------------------------------------------------------------
(* What a step does to one handler: nothing, its own arrival or step, or a fault that
   stops it. *)
PostChange(r) ==
    \/ post'[r] = post[r]
    \/ \E p \in Processes, k \in Keys, x \in Payloads : PostArrival(r, p, k, x)
    \/ PostStep(r)
    \/ /\ post[r].phase \in PostActive /\ post'[r].phase \in {"error", "lost"}
       /\ post'[r].key = post[r].key

ReviewChange(r) ==
    \/ review'[r] = review[r]
    \/ \E p \in Processes, k \in Keys : ReviewArrival(r, p, k)
    \/ ReviewStep(r)
    \/ review'[r].phase \in {"error", "lost"}

(* Another request's commit may mark an export as touched. *)
ExportKeeps(t) ==
    /\ export'[t].key = export[t].key /\ export'[t].phase = export[t].phase
    /\ export'[t].row = export[t].row /\ export'[t].events = export[t].events
    /\ export'[t].pack = export[t].pack /\ (export[t].touched => export'[t].touched)

ExportChange(t) ==
    \/ ExportKeeps(t)
    \/ \E p \in Processes, k \in Keys : ExportArrival(t, p, k)
    \/ ExportStep(t)
    \/ export'[t].phase \in {"error", "lost"}

(* Requests are served independently: no step of one handler moves another, except a
   crash. *)
LEMMA HandlersMove ==
    ASSUME TypeOK, [Next]_vars
    PROVE  /\ \A r \in Posts : PostChange(r)
           /\ \A r \in Reviews : ReviewChange(r)
           /\ \A t \in Exports : ExportChange(t)
<1> DEFINE Goal == /\ \A r \in Posts : PostChange(r)
                   /\ \A r \in Reviews : ReviewChange(r)
                   /\ \A t \in Exports : ExportChange(t)
<1>1. CASE UNCHANGED vars BY <1>1 DEF vars, PostChange, ReviewChange, ExportChange, ExportKeeps
<1>2. ASSUME NEW p \in Processes, NEW k \in Keys, NEW r \in Posts, NEW x \in Payloads,
             PostArrival(r, p, k, x)
      PROVE  Goal
  <2>1. UNCHANGED <<review, export>> /\ \A q \in Posts : q # r => post'[q] = post[q]
    BY <1>2 DEF PostArrival, PostReplay, PostConflict, PostMiss, PostArrives, TypeOK
  <2>2. QED BY <1>2, <2>1 DEF PostChange, ReviewChange, ExportChange, ExportKeeps
<1>3. ASSUME NEW p \in Processes, NEW k \in Keys, NEW r \in Reviews, ReviewArrival(r, p, k)
      PROVE  Goal
  <2>1. UNCHANGED <<post, export>> /\ \A q \in Reviews : q # r => review'[q] = review[q]
    BY <1>3 DEF ReviewArrival, ReviewRefused, ReviewRow, TypeOK
  <2>2. QED BY <1>3, <2>1 DEF PostChange, ReviewChange, ExportChange, ExportKeeps
<1>4. ASSUME NEW p \in Processes, NEW k \in Keys, NEW t \in Exports, ExportArrival(t, p, k)
      PROVE  Goal
  <2>1. UNCHANGED <<post, review>> /\ \A e \in Exports : e # t => export'[e] = export[e]
    BY <1>4 DEF ExportArrival, ExportNotFound, ExportRow, TypeOK
  <2>2. QED BY <1>4, <2>1 DEF PostChange, ReviewChange, ExportChange, ExportKeeps
<1>5. ASSUME NEW r \in Posts, PostStep(r) PROVE Goal
  <2>1. UNCHANGED <<review, export>> /\ \A q \in Posts : q # r => post'[q] = post[q]
    BY <1>5 DEF PostStep, PostInsert, PostDuplicate, PostCase, PostReply, TypeOK
  <2>2. QED BY <1>5, <2>1 DEF PostChange, ReviewChange, ExportChange, ExportKeeps
<1>6. ASSUME NEW r \in Reviews, ReviewStep(r) PROVE Goal
  <2>1. UNCHANGED post /\ \A q \in Reviews : q # r => review'[q] = review[q]
    BY <1>6 DEF ReviewStep, ReviewPack, ReviewEvents, ReviewCommit, ReviewFails, ReviewReply, TypeOK
  <2>2. export' = export \/ export' = Touch(review[r].key, None)
    BY <1>6 DEF ReviewStep, ReviewPack, ReviewEvents, ReviewCommit, ReviewFails, ReviewReply
  <2>3. \A t \in Exports : ExportKeeps(t) BY <2>2, TouchTyped DEF ExportKeeps
  <2>4. QED BY <1>6, <2>1, <2>3 DEF PostChange, ReviewChange, ExportChange
<1>7. ASSUME NEW t \in Exports, ExportStep(t) PROVE Goal
  <2>1. UNCHANGED <<post, review>>
    BY <1>7 DEF ExportStep, ExportPack, ExportEvents, ExportUnchanged, ExportWrite, ExportRefresh,
                ExportReply
  <2>2. ASSUME NEW e \in Exports, e # t PROVE ExportKeeps(e)
    <3>1. CASE ExportWrite(t)
      <4>1. export'[e] = Touch(export[t].key, t)[e] BY <2>2, <3>1, TouchTyped DEF ExportWrite
      <4>2. QED BY <4>1, TouchTyped DEF ExportKeeps
    <3>2. CASE ~ExportWrite(t)
      BY <1>7, <2>2, <3>2 DEF ExportStep, ExportPack, ExportEvents, ExportUnchanged, ExportRefresh,
                              ExportReply, ExportKeeps, TypeOK
    <3>3. QED BY <3>1, <3>2
  <2>3. QED BY <1>7, <2>1, <2>2 DEF PostChange, ReviewChange, ExportChange
<1>8. CASE Fault
  <2>1. ASSUME NEW p \in Processes, Crash(p) PROVE Goal
    <3>1. \A r \in Posts : PostChange(r)
      BY <2>1 DEF Crash, PostChange, TypeOK, PostRec
    <3>2. \A r \in Reviews : ReviewChange(r) BY <2>1 DEF Crash, ReviewChange, TypeOK, ReviewRec
    <3>3. \A t \in Exports : ExportChange(t)
      BY <2>1 DEF Crash, ExportChange, ExportKeeps, TypeOK, ExportRec
    <3>4. QED BY <3>1, <3>2, <3>3
  <2>2. ASSUME NEW r \in Posts, PostDbError(r) PROVE Goal
    BY <2>2 DEF PostDbError, PostChange, ReviewChange, ExportChange, ExportKeeps, TypeOK, PostRec
  <2>3. ASSUME NEW r \in Reviews, ReviewDbError(r) PROVE Goal
    BY <2>3 DEF ReviewDbError, PostChange, ReviewChange, ExportChange, ExportKeeps, TypeOK, ReviewRec
  <2>4. ASSUME NEW t \in Exports, ExportDbError(t) PROVE Goal
    BY <2>4 DEF ExportDbError, PostChange, ReviewChange, ExportChange, ExportKeeps, TypeOK, ExportRec
  <2>5. QED BY <1>8, <2>1, <2>2, <2>3, <2>4 DEF Fault
<1>9. QED
  <2>1. CASE Arrive BY <2>1, <1>2, <1>3, <1>4 DEF Arrive
  <2>2. QED BY <2>1, <1>1, <1>5, <1>6, <1>7, <1>8 DEF Next

LEMMA RepliesAgreeNext ==
    ASSUME Inductive, TypeOK', [Next]_vars
    PROVE  RepliesAgree'
<1> USE DEF Inductive
<1> SUFFICES ASSUME NEW r \in Posts, NEW k \in Keys,
                    post'[r].key = k, post'[r].phase \in {"done", "conflict"}
             PROVE  /\ Exists(k)'
                    /\ IF post'[r].phase = "done"
                       THEN runs'[k].decision = post'[r].reply /\ runs'[k].payload = post'[r].payload
                       ELSE runs'[k].payload # post'[r].payload
  BY DEF RepliesAgree, Exists
<1>1. Exists(k) => runs'[k].decision = runs[k].decision /\ runs'[k].payload = runs[k].payload
  BY HistoryKept
<1>2. post[r] \in PostRec BY DEF TypeOK
<1>3. CASE post'[r] = post[r] BY <1>1, <1>3 DEF RepliesAgree, Exists
<1>4. ASSUME NEW p \in Processes, NEW i \in Keys, NEW x \in Payloads, PostArrival(r, p, i, x)
      PROVE  /\ Exists(k) /\ runs' = runs
             /\ IF post'[r].phase = "done"
                THEN runs[k].decision = post'[r].reply /\ runs[k].payload = post'[r].payload
                ELSE runs[k].payload # post'[r].payload
  <2>1. \A phase, reply : PostArrives(r, p, i, x, phase, reply) =>
           /\ post'[r].phase = phase /\ post'[r].reply = reply
           /\ post'[r].key = i /\ post'[r].payload = x /\ runs' = runs
    BY DEF PostArrives, TypeOK, tables
  <2>2. i = k BY <1>4, <2>1 DEF PostArrival, PostReplay, PostConflict, PostMiss
  <2>3. CASE PostReplay(r, p, i, x) BY <2>1, <2>2, <2>3 DEF PostReplay
  <2>4. CASE PostConflict(r, p, i, x) BY <2>1, <2>2, <2>4 DEF PostConflict
  <2>5. ~PostMiss(r, p, i, x) BY <2>1 DEF PostMiss
  <2>6. QED BY <1>4, <2>3, <2>4, <2>5 DEF PostArrival
<1>5. CASE PostReply(r)
  <2>1. /\ post[r].phase = "stored" /\ post[r].key = k /\ post'[r].phase = "done"
        /\ post'[r].reply = runs[k].decision /\ post'[r].payload = post[r].payload
        /\ runs' = runs
    BY <1>2, <1>5 DEF PostReply, TypeOK, tables, PostRec
  <2>2. Exists(k) /\ runs[k].payload = post[r].payload BY <2>1 DEF InserterOwnsCase
  <2>3. QED BY <2>1, <2>2 DEF Exists
<1>6. ~(\E d \in Decisions : PostInsert(r, d)) /\ ~PostDuplicate(r) /\ ~PostCase(r)
  <2>1. \A ph : post' = [post EXCEPT ![r].phase = ph] => post'[r].phase = ph
    BY DEF TypeOK, PostRec
  <2>2. QED BY <2>1 DEF PostInsert, PostDuplicate, PostCase
<1>7. PostChange(r) BY HandlersMove
<1>8. QED BY <1>3, <1>4, <1>5, <1>6, <1>7 DEF PostChange, PostStep, Exists

LEMMA InserterOwnsCaseNext ==
    ASSUME Inductive, TypeOK', HandlersHoldLoop', [Next]_vars
    PROVE  InserterOwnsCase' /\ AtMostOneCase'
<1> USE DEF Inductive
<1>1. \A k \in Keys : /\ Exists(k) => runs'[k].decision = runs[k].decision
                              /\ runs'[k].payload = runs[k].payload
                      /\ Exists(k) => Exists(k)'
  BY HistoryKept DEF Exists
<1>2. /\ post \in [Posts -> PostRec] /\ cases \in [Keys -> Nat] BY DEF TypeOK
<1> DEFINE Kept(r) == /\ post'[r].key = post[r].key
                      /\ post'[r].payload = post[r].payload
                      /\ post'[r].phase \in {"inserted", "stored"} => post[r].phase = post'[r].phase
(* A post that inserts finds no run, hence no case and no other inserter. *)
<1>3. ASSUME NEW q \in Posts, NEW d \in Decisions, PostInsert(q, d)
      PROVE  InserterOwnsCase' /\ AtMostOneCase'
  <2> DEFINE i == post[q].key
  <2>1. /\ post[q].phase = "evaluating" /\ i \in Keys /\ ~Exists(i)
    BY <1>3 DEF PostInsert, KeyTaken, HandlersHoldLoop
  <2>2. /\ cases' = cases /\ cases[i] = 0
    BY <1>3, <2>1 DEF PostInsert, InserterOwnsCase
  <2>3. /\ runs'[i].decision = d /\ runs'[i].payload = post[q].payload
        /\ \A k \in Keys : k # i => runs'[k] = runs[k]
    BY <1>3, <2>1 DEF PostInsert, TypeOK
  <2>4. /\ post'[q].phase = "inserted" /\ post'[q].key = i /\ post'[q].payload = post[q].payload
        /\ \A r \in Posts : r # q => post'[r] = post[r]
    BY <1>2, <1>3 DEF PostInsert, PostRec
  <2>5. \A r \in Posts : post[r].phase \in {"inserted", "stored"} => post[r].key # i
    BY <2>1 DEF InserterOwnsCase
  <2>6. InserterOwnsCase'
    BY <2>1, <2>2, <2>3, <2>4, <2>5 DEF InserterOwnsCase, Exists, Decisions
  <2>7. AtMostOneCase' BY <2>2, <2>3 DEF AtMostOneCase
  <2>8. QED BY <2>6, <2>7
(* The case is created by the one post that inserted the run. *)
<1>4. ASSUME NEW q \in Posts, PostCase(q) PROVE InserterOwnsCase' /\ AtMostOneCase'
  <2> DEFINE i == post[q].key
  <2>1. /\ post[q].phase = "inserted" /\ i \in Keys /\ runs' = runs
        /\ cases' = [cases EXCEPT ![i] = IF runs[i].decision = "allow" THEN @ ELSE @ + 1]
    BY <1>4 DEF PostCase, HandlersHoldLoop
  <2>2. Exists(i) /\ cases[i] = 0 /\ runs[i].payload = post[q].payload
    BY <2>1 DEF InserterOwnsCase
  <2>3. runs[i].decision \in Decisions BY <2>1, <2>2 DEF TypeOK, Run, Exists
  <2>4. /\ cases'[i] = IF runs[i].decision = "allow" THEN 0 ELSE 1
        /\ \A k \in Keys : k # i => cases'[k] = cases[k]
    BY <1>2, <2>1, <2>2
  <2>5. /\ post'[q].phase = "stored" /\ post'[q].key = i /\ post'[q].payload = post[q].payload
        /\ \A r \in Posts : r # q => post'[r] = post[r]
    BY <1>2, <1>4 DEF PostCase, PostRec
  <2>6. \A r \in Posts : r # q /\ post[r].phase = "inserted" => post[r].key # i
    BY <2>1 DEF InserterOwnsCase
  <2>7. InserterOwnsCase'
    <3>1. \A r \in Posts, k \in Keys :
             post'[r].key = k =>
                /\ post'[r].phase \in {"inserted", "stored"} =>
                      Exists(k) /\ runs[k].payload = post'[r].payload
                /\ post'[r].phase = "inserted" => cases'[k] = 0
      BY <2>1, <2>2, <2>4, <2>5, <2>6 DEF InserterOwnsCase
    <3>2. \A r, t \in Posts :
             post'[r].phase = "inserted" /\ post'[t].phase = "inserted"
                /\ post'[r].key = post'[t].key => r = t
      BY <2>5 DEF InserterOwnsCase
    <3>3. \A k \in Keys : ~Exists(k) => cases'[k] = 0
      BY <2>2, <2>4 DEF InserterOwnsCase
    <3>4. QED BY <2>1, <3>1, <3>2, <3>3 DEF InserterOwnsCase, Exists
  <2>8. AtMostOneCase' BY <2>1, <2>3, <2>4 DEF AtMostOneCase, Decisions
  <2>9. QED BY <2>7, <2>8
<1>5. ASSUME \A q \in Posts, d \in Decisions : ~PostInsert(q, d),
             \A q \in Posts : ~PostCase(q)
      PROVE  InserterOwnsCase' /\ AtMostOneCase'
  <2>1. ASSUME NEW k \in Keys
        PROVE  /\ cases' = cases
               /\ runs'[k].decision = runs[k].decision /\ runs'[k].payload = runs[k].payload
    <3>1. CASE Reads BY <3>1 DEF Reads, tables
    <3>2. ASSUME NEW r \in Reviews, ReviewCommit(r)
          PROVE  /\ cases' = cases
                 /\ runs'[k].decision = runs[k].decision /\ runs'[k].payload = runs[k].payload
      <4>1. cases' = cases BY <3>2 DEF ReviewCommit
      <4>2. QED BY <3>2, <4>1, DecisionKept DEF DecidedAlike
    <3>3. ASSUME NEW t \in Exports, ExportWrite(t)
          PROVE  /\ cases' = cases
                 /\ runs'[k].decision = runs[k].decision /\ runs'[k].payload = runs[k].payload
      <4>1. cases' = cases BY <3>3 DEF ExportWrite
      <4>2. QED BY <3>3, <4>1, DecisionKept DEF DecidedAlike
    <3>4. QED BY <1>5, <3>1, <3>2, <3>3, WhoWrites DEF Writes
  <2>2. \A r \in Posts : \/ Kept(r)
                         \/ post'[r].phase \notin {"inserted", "stored"}
    <3> SUFFICES ASSUME NEW r \in Posts
                 PROVE  Kept(r) \/ post'[r].phase \notin {"inserted", "stored"}
      OBVIOUS
    <3>1. CASE post'[r] = post[r] BY <3>1
    <3>2. ASSUME NEW p \in Processes, NEW k \in Keys, NEW x \in Payloads, PostArrival(r, p, k, x)
          PROVE  post'[r].phase \in {"done", "conflict", "evaluating"}
      BY <1>2, <3>2 DEF PostArrival, PostReplay, PostConflict, PostMiss, PostArrives
    <3>3. CASE PostDuplicate(r) \/ PostReply(r)
      BY <1>2, <3>3 DEF PostDuplicate, PostReply, PostRec
    <3>4. PostChange(r) BY HandlersMove
    <3>5. QED BY <1>5, <3>1, <3>2, <3>3, <3>4 DEF PostChange, PostStep
  <2>3. \A k \in Keys : Exists(k)' <=> Exists(k) BY <2>1 DEF Exists
  <2>4. InserterOwnsCase' BY <2>1, <2>2, <2>3 DEF InserterOwnsCase
  <2>5. AtMostOneCase' BY <2>1 DEF AtMostOneCase
  <2>6. QED BY <2>4, <2>5
<1>6. QED BY <1>3, <1>4, <1>5

LEMMA ReviewSnapshotsNext ==
    ASSUME Inductive, TypeOK', [Next]_vars
    PROVE  ReviewSnapshots'
<1> USE DEF Inductive
<1> SUFFICES ASSUME NEW r \in Reviews, NEW k \in Keys, review'[r].key = k
             PROVE  /\ review'[r].phase \in ReviewActive => runs'[k].decision = "review"
                    /\ review'[r].phase = "ready" => IsPrefix(review'[r].events, events'[k])
  BY DEF ReviewSnapshots, ReviewActive
<1> DEFINE Goal == /\ review'[r].phase \in ReviewActive => runs'[k].decision = "review"
                   /\ review'[r].phase = "ready" => IsPrefix(review'[r].events, events'[k])
<1>1. /\ runs[k].decision = "review" => runs'[k].decision = "review"
      /\ IsPrefix(events[k], events'[k])
  BY HistoryKept DEF Exists
<1>2. /\ events[k] \in Seq(Event) /\ events'[k] \in Seq(Event)
      /\ \A q \in Reviews : review[q].events \in Seq(Event)
      /\ review \in [Reviews -> ReviewRec]
  BY DEF TypeOK, ReviewRec
<1>3. \A e \in Seq(Event) : IsPrefix(e, events[k]) => IsPrefix(e, events'[k])
  BY <1>1, <1>2 DEF IsPrefix
<1>4. CASE review'[r] = review[r] BY <1>1, <1>2, <1>3, <1>4 DEF ReviewSnapshots, ReviewActive
<1>5. ASSUME NEW p \in Processes, NEW i \in Keys, ReviewArrival(r, p, i) PROVE Goal
  <2>1. CASE ReviewRefused(r, p, i)
    BY <1>2, <2>1 DEF ReviewRefused, ReviewRec, ReviewActive
  <2>2. ASSUME NEW o \in Outcomes, ReviewRow(r, p, i, o) PROVE Goal
    <3>1. review'[r].phase = "row" /\ review'[r].key = i /\ runs[i].status = "pending" /\ runs' = runs
      BY <1>2, <2>2 DEF ReviewRow, ReviewRec, tables
    <3>2. runs[k].decision = "review"
      BY <3>1 DEF RowMatchesHistory, InitialStatus
    <3>3. QED BY <3>1, <3>2
  <2>3. QED BY <1>5, <2>1, <2>2 DEF ReviewArrival
<1>6. CASE ReviewPack(r)
  <2>1. review[r].phase = "row" /\ review[r].key = k /\ review'[r].phase = "pack"
    BY <1>2, <1>6 DEF ReviewPack, ReviewRec
  <2>2. QED BY <1>1, <2>1 DEF ReviewSnapshots, ReviewActive
<1>7. CASE ReviewEvents(r)
  <2>1. /\ review[r].phase = "pack" /\ review[r].key = k /\ review'[r].phase = "ready"
        /\ review'[r].events = events[k]
    BY <1>2, <1>7 DEF ReviewEvents, ReviewRec
  <2>2. QED BY <1>1, <2>1 DEF ReviewSnapshots, ReviewActive
<1>8. CASE ReviewCommit(r)
  <2>1. review[r].phase = "ready" /\ review[r].key = k /\ review'[r].phase = "committed"
    BY <1>2, <1>8 DEF ReviewCommit, ReviewRec
  <2>2. QED BY <1>1, <2>1 DEF ReviewSnapshots, ReviewActive
<1>9. CASE ReviewFails(r) \/ ReviewReply(r)
  <2>1. review'[r].phase \in {"done", "error"}
    BY <1>2, <1>9 DEF ReviewFails, ReviewReply, ReviewRec
  <2>2. QED BY <2>1 DEF ReviewActive
<1>10. CASE review'[r].phase \in {"error", "lost"} BY <1>10 DEF ReviewActive
<1>11. ReviewChange(r) BY HandlersMove
<1>12. QED BY <1>4, <1>5, <1>6, <1>7, <1>8, <1>9, <1>10, <1>11 DEF ReviewChange, ReviewStep

LEMMA ExportSnapshotsNext ==
    ASSUME Inductive, TypeOK', [Next]_vars
    PROVE  ExportSnapshots'
<1> USE DEF Inductive
<1> SUFFICES ASSUME NEW t \in Exports, NEW k \in Keys, export'[t].key = k
             PROVE  /\ export'[t].phase \in ExportActive =>
                          Shown(export'[t].row.status, export'[t].row.reviewer, events'[k])
                    /\ export'[t].phase = "ready" => IsPrefix(export'[t].events, events'[k])
  BY DEF ExportSnapshots, ExportActive
<1> DEFINE RowShown == Shown(export'[t].row.status, export'[t].row.reviewer, events'[k])
           Goal == /\ export'[t].phase \in ExportActive => RowShown
                   /\ export'[t].phase = "ready" => IsPrefix(export'[t].events, events'[k])
<1>1. /\ events[k] \in Seq(Event) /\ events'[k] \in Seq(Event) /\ IsPrefix(events[k], events'[k])
      /\ export[t].events \in Seq(Event) /\ export \in [Exports -> ExportRec]
  BY HistoryKept DEF TypeOK, ExportRec
<1>2. \A e \in Seq(Event) : IsPrefix(e, events[k]) => IsPrefix(e, events'[k])
  BY <1>1 DEF IsPrefix
(* A step of an export in flight that keeps its row and its key. *)
<1>3. ASSUME export[t].phase \in ExportActive, export'[t].key = export[t].key,
             export'[t].row = export[t].row
      PROVE  RowShown
  <2>1. Shown(export[t].row.status, export[t].row.reviewer, events[k])
    BY <1>3 DEF ExportSnapshots
  <2>2. QED BY <1>3, <2>1, ShownKept
<1>4. CASE ExportKeeps(t)
  <2>1. export'[t].phase = "ready" => IsPrefix(export[t].events, events[k])
    BY <1>4 DEF ExportKeeps, ExportSnapshots
  <2>2. QED BY <1>1, <1>2, <1>3, <1>4, <2>1 DEF ExportKeeps
<1>5. ASSUME NEW p \in Processes, NEW i \in Keys, ExportArrival(t, p, i) PROVE Goal
  <2>1. CASE ExportNotFound(t, p, i)
    BY <1>1, <2>1 DEF ExportNotFound, ExportRec, ExportActive
  <2>2. CASE ExportRow(t, p, i)
    <3>1. /\ export'[t].phase = "row" /\ i = k /\ export'[t].row = runs[k] /\ events' = events
      BY <1>1, <2>2 DEF ExportRow, ExportRec, tables
    <3>2. Shown(runs[k].status, runs[k].reviewer, events[k])
      <4>1. CASE events[k] = << >> BY <4>1 DEF RowMatchesHistory, InitialStatus, Shown
      <4>2. CASE events[k] # << >>
        <5>1. Len(events[k]) \in 1..Len(events[k]) BY <1>1, <4>2
        <5>2. QED BY <4>2, <5>1 DEF RowMatchesHistory, Shown, Last
      <4>3. QED BY <4>1, <4>2
    <3>3. QED BY <3>1, <3>2
  <2>3. QED BY <1>5, <2>1, <2>2 DEF ExportArrival
<1>6. CASE ExportPack(t) \/ ExportUnchanged(t) \/ ExportWrite(t) \/ ExportRefresh(t) \/ ExportReply(t)
  <2>1. /\ export[t].phase \in ExportActive /\ export'[t].phase # "ready"
        /\ export'[t].key = export[t].key /\ export'[t].row = export[t].row
    <3>1. CASE ExportWrite(t)
      <4>1. Touch(export[t].key, t)[t] = export[t] BY DEF Touch
      <4>2. Touch(export[t].key, t) \in [Exports -> ExportRec] BY TouchTyped
      <4>3. export' = [Touch(export[t].key, t) EXCEPT ![t].phase = "written"]
        BY <3>1 DEF ExportWrite
      <4>4. /\ export'[t].phase = "written" /\ export'[t].key = export[t].key
            /\ export'[t].row = export[t].row
        BY <4>1, <4>2, <4>3 DEF ExportRec
      <4>5. QED BY <3>1, <4>4 DEF ExportWrite, ExportActive
    <3>2. CASE ~ExportWrite(t)
      BY <1>1, <1>6, <3>2 DEF ExportPack, ExportUnchanged, ExportRefresh, ExportReply, ExportRec,
                              ExportActive
    <3>3. QED BY <3>1, <3>2
  <2>2. QED BY <1>3, <2>1
<1>7. CASE ExportEvents(t)
  <2>1. /\ export[t].phase \in ExportActive /\ events' = events
        /\ export'[t].key = export[t].key /\ export'[t].row = export[t].row
        /\ export'[t].events = events[k]
    BY <1>1, <1>7 DEF ExportEvents, ExportRec, ExportActive, tables
  <2>2. QED BY <1>1, <1>3, <2>1
<1>8. CASE export'[t].phase \in {"error", "lost"} BY <1>8 DEF ExportActive
<1>9. ExportChange(t) BY HandlersMove
<1>10. QED BY <1>4, <1>5, <1>6, <1>7, <1>8, <1>9 DEF ExportChange, ExportStep
-----------------------------------------------------------------------------
LEMMA InductiveInit == Init => Inductive
<1> SUFFICES ASSUME Init PROVE Inductive OBVIOUS
<1>1. TypeOK /\ HandlersHoldLoop BY TypedInit DEF Typed
<1>2. \A k \in Keys : runs[k] = NoRun /\ packs[k] = Seal(NoBody) /\ events[k] = << >>
                      /\ cases[k] = 0 /\ audit[k] = << >>
  BY DEF Init
<1>3. /\ \A r \in Posts : post[r].phase = "new"
      /\ \A r \in Reviews : review[r].phase = "new"
      /\ \A t \in Exports : export[t].phase = "new"
  BY DEF Init
<1>4. InserterOwnsCase BY <1>2, <1>3 DEF InserterOwnsCase
<1>5. ReviewSnapshots /\ ExportSnapshots /\ RepliesAgree
  BY <1>3 DEF ReviewSnapshots, ExportSnapshots, RepliesAgree, ReviewActive, ExportActive
<1>6. RowMatchesHistory BY <1>2 DEF RowMatchesHistory, NoRun, Exists
<1>7. HistoryIsChain BY <1>2 DEF HistoryIsChain, ChainOK
<1>8. AuditMatchesLedger BY <1>2 DEF AuditMatchesLedger, NoRun, Exists
<1>9. AtMostOneCase BY <1>2 DEF AtMostOneCase, NoRun
<1>10. PackShowsCommitted
  BY <1>2 DEF PackShowsCommitted, Seal, NoBody, Shown, IsPrefix
<1>11. QED BY <1>1, <1>4, <1>5, <1>6, <1>7, <1>8, <1>9, <1>10 DEF Inductive

LEMMA InductiveNext == Inductive /\ [Next]_vars => Inductive'
<1> SUFFICES ASSUME Inductive, [Next]_vars PROVE Inductive' OBVIOUS
<1>1. TypeOK' /\ HandlersHoldLoop' BY TypedNext DEF Typed, Inductive
<1>2. InserterOwnsCase' /\ AtMostOneCase' BY <1>1, InserterOwnsCaseNext
<1>3. ReviewSnapshots' /\ ExportSnapshots' BY <1>1, ReviewSnapshotsNext, ExportSnapshotsNext
<1>4. RepliesAgree' BY <1>1, RepliesAgreeNext
<1>5. RowMatchesHistory' /\ HistoryIsChain' BY <1>1, RowMatchesHistoryNext, HistoryIsChainNext
<1>6. AuditMatchesLedger' BY <1>1, AuditMatchesLedgerNext
<1>7. PackShowsCommitted' BY <1>1, PackShowsCommittedNext
<1>8. QED BY <1>1, <1>2, <1>3, <1>4, <1>5, <1>6, <1>7 DEF Inductive

LEMMA InductiveHolds == Spec => []Inductive
  BY InductiveInit, InductiveNext, PTL DEF Spec

(* What may change a run without a case: its insertion, or its inserter's end. *)
LEMMA CaseUnlessIngestFailsNext ==
    ASSUME Inductive, Inductive', CaseUnlessIngestFails, [Next]_vars
    PROVE  CaseUnlessIngestFails'
<1> USE DEF Inductive
<1> SUFFICES ASSUME NEW k \in Keys, Exists(k)', runs'[k].decision # "allow", cases'[k] = 0
             PROVE  /\ \E r \in Posts : /\ post'[r].key = k
                                        /\ post'[r].phase \in {"inserted", "error", "lost"}
                    /\ \A r \in Posts : post'[r].key = k => post'[r].phase # "stored"
  BY DEF CaseUnlessIngestFails, Exists
<1>1. post \in [Posts -> PostRec] /\ cases \in [Keys -> Nat] BY DEF TypeOK
(* The post that inserts is the witness, and no other has come further. *)
<1>2. ASSUME NEW q \in Posts, NEW d \in Decisions, PostInsert(q, d), post[q].key = k
      PROVE  /\ \E r \in Posts : /\ post'[r].key = k
                                 /\ post'[r].phase \in {"inserted", "error", "lost"}
             /\ \A r \in Posts : post'[r].key = k => post'[r].phase # "stored"
  <2>1. /\ post'[q].phase = "inserted" /\ post'[q].key = k
        /\ \A r \in Posts : r # q => post'[r] = post[r]
    BY <1>1, <1>2 DEF PostInsert, PostRec
  <2>2. ~Exists(k) BY <1>2 DEF PostInsert, KeyTaken
  <2>3. \A r \in Posts : post[r].key = k => post[r].phase # "stored"
    BY <2>2 DEF InserterOwnsCase
  <2>4. QED BY <2>1, <2>3
(* Any other step finds the run without a case already. *)
<1>3. ASSUME \A q \in Posts, d \in Decisions : PostInsert(q, d) => post[q].key # k
      PROVE  Exists(k) /\ runs[k].decision # "allow" /\ cases[k] = 0
  <2>1. runs[k] \in Run BY DEF TypeOK
  <2>2. CASE Reads BY <2>2 DEF Reads, tables, Exists
  <2>3. ASSUME NEW q \in Posts, NEW d \in Decisions, PostInsert(q, d)
        PROVE  runs'[k] = runs[k] /\ cases' = cases
    BY <1>3, <2>3 DEF PostInsert, TypeOK
  <2>4. ASSUME NEW q \in Posts, PostCase(q) PROVE runs' = runs /\ cases[k] = 0
    <3>1. cases'[k] = cases[k] \/ cases'[k] = cases[k] + 1 BY <1>1, <2>4 DEF PostCase
    <3>2. QED BY <1>1, <2>4, <3>1 DEF PostCase
  <2>5. ASSUME NEW r \in Reviews, ReviewCommit(r)
        PROVE  cases' = cases /\ runs'[k].decision = runs[k].decision
    <3>1. cases' = cases BY <2>5 DEF ReviewCommit
    <3>2. runs'[k].decision = runs[k].decision BY <2>5, DecisionKept DEF DecidedAlike
    <3>3. QED BY <3>1, <3>2
  <2>6. ASSUME NEW t \in Exports, ExportWrite(t)
        PROVE  cases' = cases /\ runs'[k].decision = runs[k].decision
    <3>1. cases' = cases BY <2>6 DEF ExportWrite
    <3>2. runs'[k].decision = runs[k].decision BY <2>6, DecisionKept DEF DecidedAlike
    <3>3. QED BY <3>1, <3>2
  <2>7. QED BY <2>2, <2>3, <2>4, <2>5, <2>6, WhoWrites DEF Writes, Exists
(* Its post stays between the commits or stops there: a second commit creates the case. *)
<1>4. ASSUME Exists(k), runs[k].decision # "allow", cases[k] = 0, NEW r \in Posts
      PROVE  /\ post[r].key = k /\ post[r].phase \in {"inserted", "error", "lost"}
                  => post'[r].key = k /\ post'[r].phase \in {"inserted", "error", "lost"}
             /\ post'[r].key = k /\ post'[r].phase = "stored"
                  => post[r].key = k /\ post[r].phase = "stored"
  <2> DEFINE G == /\ post[r].key = k /\ post[r].phase \in {"inserted", "error", "lost"}
                       => post'[r].key = k /\ post'[r].phase \in {"inserted", "error", "lost"}
                  /\ post'[r].key = k /\ post'[r].phase = "stored"
                       => post[r].key = k /\ post[r].phase = "stored"
  <2>1. CASE post'[r] = post[r] BY <2>1
  <2>2. ASSUME NEW p \in Processes, NEW i \in Keys, NEW x \in Payloads, PostArrival(r, p, i, x)
        PROVE  G
    BY <1>1, <2>2 DEF PostArrival, PostReplay, PostConflict, PostMiss, PostArrives
  <2>3. ASSUME NEW d \in Decisions, PostInsert(r, d) PROVE G
    BY <1>1, <2>3 DEF PostInsert, PostRec
  <2>4. CASE PostDuplicate(r) \/ PostReply(r)
    BY <1>1, <2>4 DEF PostDuplicate, PostReply, PostRec
  <2>5. CASE PostCase(r)
    <3>1. post[r].phase = "inserted" /\ post[r].key \in Keys
      BY <2>5 DEF PostCase, HandlersHoldLoop
    <3>2. post[r].key = k => cases'[k] = cases[k] + 1
      BY <1>1, <1>4, <2>5, <3>1 DEF PostCase
    <3>3. post[r].key # k BY <1>4, <3>2
    <3>4. post'[r].key = post[r].key BY <1>1, <2>5 DEF PostCase, PostRec
    <3>5. QED BY <3>3, <3>4
  <2>6. CASE /\ post[r].phase \in PostActive /\ post'[r].phase \in {"error", "lost"}
             /\ post'[r].key = post[r].key
    BY <2>6
  <2>7. PostChange(r) BY HandlersMove
  <2>8. QED BY <2>1, <2>2, <2>3, <2>4, <2>5, <2>6, <2>7 DEF PostChange, PostStep
<1>5. CASE \A q \in Posts, d \in Decisions : PostInsert(q, d) => post[q].key # k
  <2>1. Exists(k) /\ runs[k].decision # "allow" /\ cases[k] = 0 BY <1>3, <1>5
  <2>2. /\ \E r \in Posts : post[r].key = k /\ post[r].phase \in {"inserted", "error", "lost"}
        /\ \A r \in Posts : post[r].key = k => post[r].phase # "stored"
    BY <2>1 DEF CaseUnlessIngestFails
  <2>3. QED BY <1>4, <2>1, <2>2
<1>6. QED BY <1>2, <1>5

(* Idempotency of store_run: whatever the number of clients, retries, processes and
   crashes, everyone answered for a key was told its one stored decision. *)
THEOREM IngestIdempotent == Spec => []RepliesAgree
<1>1. Inductive => RepliesAgree BY DEF Inductive
<1>2. QED BY <1>1, InductiveHolds, PTL

(* The run row never disagrees with the append-only events: review_run writes both in
   one commit and nothing else touches either. *)
THEOREM RowFollowsHistory == Spec => []RowMatchesHistory
<1>1. Inductive => RowMatchesHistory BY DEF Inductive
<1>2. QED BY <1>1, InductiveHolds, PTL

(* Even with several processes reviewing one run, the event chain read back by
   _ordered_review_events passes its integrity check: UNIQUE (run_id, sequence) lets only
   a review commit that has read every event. *)
THEOREM ChainNeverForks == Spec => []HistoryIsChain
<1>1. Inductive => HistoryIsChain BY DEF Inductive
<1>2. QED BY <1>1, InductiveHolds, PTL

(* The audit log tells the decision and every review exactly once, in order. *)
THEOREM AuditComplete == Spec => []AuditMatchesLedger
<1>1. Inductive => AuditMatchesLedger BY DEF Inductive
<1>2. QED BY <1>1, InductiveHolds, PTL

(* Only review and block runs get a case, and never a second one, although cases.run_id
   is not UNIQUE: the run row guards it. *)
THEOREM NoSecondCase == Spec => []AtMostOneCase
<1>1. Inductive => AtMostOneCase BY DEF Inductive
<1>2. QED BY <1>1, InductiveHolds, PTL

(* A review or block run without a case is one whose ingest has not reached its second
   commit or never will: no other order of steps loses a case. *)
THEOREM CaseOnlyLostWithIngest == Spec => []CaseUnlessIngestFails
<1>1. Init => CaseUnlessIngestFails
  BY DEF Init, CaseUnlessIngestFails, Exists, NoRun
<1>2. Inductive /\ Inductive' /\ CaseUnlessIngestFails /\ [Next]_vars => CaseUnlessIngestFails'
  BY CaseUnlessIngestFailsNext
<1>3. QED BY <1>1, <1>2, InductiveHolds, PTL DEF Spec

(* However exports, reviews and crashes interleave, a sealed pack carries its own digest
   and shows committed history only. *)
THEOREM PackNeverAhead == Spec => []PackShowsCommitted
<1>1. Inductive => PackShowsCommitted BY DEF Inductive
<1>2. QED BY <1>1, InductiveHolds, PTL
-----------------------------------------------------------------------------
(* A run committed once is never changed behind a client's back: no step of any request,
   and no fault, alters a stored decision or payload, a conclusion, a case, an event or an
   audit row (the append-only triggers of alembic 0005 and 0014 have nothing to do). *)
LEMMA GrowsNext ==
    ASSUME Inductive, Inductive', [Next]_vars, NEW k \in Keys
    PROVE  /\ Exists(k) => runs'[k].decision = runs[k].decision /\ runs'[k].payload = runs[k].payload
           /\ runs[k].status \in Outcomes => runs'[k].status \in Outcomes
           /\ cases'[k] >= cases[k]
           /\ IsPrefix(events[k], events'[k])
           /\ IsPrefix(audit[k], audit'[k])
<1> USE DEF Inductive
<1>1. /\ Exists(k) => runs'[k].decision = runs[k].decision /\ runs'[k].payload = runs[k].payload
      /\ IsPrefix(events[k], events'[k])
  BY HistoryKept
<1>2. /\ runs[k] \in Run /\ runs'[k] \in Run /\ cases \in [Keys -> Nat]
      /\ events[k] \in Seq(Event) /\ events'[k] \in Seq(Event)
      /\ audit \in [Keys -> Seq({"run_decided"} \cup Outcomes)]
  BY DEF TypeOK
<1>3. runs[k].status \in Outcomes => runs'[k].status \in Outcomes
  <2>1. ASSUME runs[k].status \in Outcomes PROVE events[k] # << >>
    BY <2>1 DEF RowMatchesHistory, InitialStatus, Outcomes
  <2>2. events[k] # << >> => events'[k] # << >> BY <1>1, <1>2 DEF IsPrefix
  <2>3. ASSUME events'[k] # << >> PROVE runs'[k].status \in Outcomes
    <3>1. Last(events'[k]) \in Event BY <1>2, <2>3 DEF Last
    <3>2. runs'[k].status = Last(events'[k]).action BY <2>3 DEF RowMatchesHistory
    <3>3. QED BY <3>1, <3>2 DEF Event
  <2>4. QED BY <2>1, <2>2, <2>3
<1>4. cases'[k] >= cases[k] /\ IsPrefix(audit[k], audit'[k])
  <2>1. IsPrefix(audit[k], audit[k]) BY <1>2 DEF IsPrefix
  <2>2. \A type \in {"run_decided"} \cup Outcomes : IsPrefix(audit[k], Append(audit[k], type))
    BY <1>2 DEF IsPrefix
  <2>3. CASE Reads BY <1>2, <2>1, <2>3 DEF Reads, tables
  <2>4. ASSUME NEW r \in Posts, NEW d \in Decisions, PostInsert(r, d)
        PROVE  cases'[k] >= cases[k] /\ IsPrefix(audit[k], audit'[k])
    <3>1. audit' = Audited(post[r].key, "run_decided") /\ cases' = cases BY <2>4 DEF PostInsert
    <3>2. audit'[k] = audit[k] \/ audit'[k] = Append(audit[k], "run_decided")
      BY <1>2, <3>1 DEF Audited
    <3>3. IsPrefix(audit[k], audit'[k])
      <4>1. IsPrefix(audit[k], Append(audit[k], "run_decided")) BY <2>2
      <4>2. QED BY <2>1, <3>2, <4>1
    <3>4. cases'[k] >= cases[k] BY <1>2, <3>1
    <3>5. QED BY <3>3, <3>4
  <2>5. ASSUME NEW r \in Posts, PostCase(r)
        PROVE  cases'[k] >= cases[k] /\ IsPrefix(audit[k], audit'[k])
    BY <1>2, <2>1, <2>5 DEF PostCase
  <2>6. ASSUME NEW r \in Reviews, ReviewCommit(r)
        PROVE  cases'[k] >= cases[k] /\ IsPrefix(audit[k], audit'[k])
    <3>1. audit' = Audited(review[r].key, review[r].outcome) /\ cases' = cases
      BY <2>6 DEF ReviewCommit
    <3>2. review[r].outcome \in Outcomes BY DEF TypeOK, ReviewRec
    <3>3. audit'[k] = audit[k] \/ audit'[k] = Append(audit[k], review[r].outcome)
      BY <1>2, <3>1 DEF Audited
    <3>4. IsPrefix(audit[k], audit'[k])
      <4>1. IsPrefix(audit[k], Append(audit[k], review[r].outcome)) BY <2>2, <3>2
      <4>2. QED BY <2>1, <3>3, <4>1
    <3>5. cases'[k] >= cases[k] BY <1>2, <3>1
    <3>6. QED BY <3>4, <3>5
  <2>7. ASSUME NEW t \in Exports, ExportWrite(t)
        PROVE  cases'[k] >= cases[k] /\ IsPrefix(audit[k], audit'[k])
    BY <1>2, <2>1, <2>7 DEF ExportWrite
  <2>8. QED BY <2>3, <2>4, <2>5, <2>6, <2>7, WhoWrites DEF Writes
<1>5. QED BY <1>1, <1>3, <1>4

(* Append-only history, as an action property: no step of any handler, and no crash,
   changes or removes a committed decision, payload, conclusion, case, review event or
   audit event. *)
THEOREM AppendOnly == Spec => HistoryOnlyGrows
<1> DEFINE Grows ==
      \A k \in Keys :
          /\ Exists(k) => runs'[k].decision = runs[k].decision /\ runs'[k].payload = runs[k].payload
          /\ runs[k].status \in Outcomes => runs'[k].status \in Outcomes
          /\ cases'[k] >= cases[k]
          /\ IsPrefix(events[k], events'[k])
          /\ IsPrefix(audit[k], audit'[k])
<1>1. Inductive /\ Inductive' /\ [Next]_vars => [Grows]_vars BY GrowsNext
<1>2. QED BY <1>1, InductiveHolds, PTL DEF Spec, HistoryOnlyGrows
-----------------------------------------------------------------------------
(* What an export in flight relies on: nobody else commits to its run without marking it
   as touched. *)
LEMMA UntouchedRunKept ==
    ASSUME TypeOK, [Next]_vars, NEW t \in Exports, NEW k \in Keys, export[t].key = k,
           export[t].phase \in ExportActive, Exists(k), ExportKeeps(t), ~export'[t].touched
    PROVE  ~export[t].touched /\ runs'[k] = runs[k] /\ packs'[k] = packs[k] /\ events'[k] = events[k]
<1> DEFINE Kept == runs'[k] = runs[k] /\ packs'[k] = packs[k] /\ events'[k] = events[k]
<1>1. ~export[t].touched BY DEF ExportKeeps
<1>2. export \in [Exports -> ExportRec] /\ export[t] \in ExportRec BY DEF TypeOK
<1>3. CASE Reads BY <1>1, <1>3 DEF Reads, tables
<1>4. ASSUME NEW r \in Posts, NEW d \in Decisions, PostInsert(r, d) PROVE Kept
  BY <1>4 DEF PostInsert, KeyTaken, TypeOK
<1>5. ASSUME NEW r \in Posts, PostCase(r) PROVE Kept BY <1>5 DEF PostCase
<1>6. \A e : e # t => export' # Touch(k, e)
  <2> SUFFICES ASSUME NEW e, e # t, export' = Touch(k, e) PROVE FALSE OBVIOUS
  <2>1. export'[t] = [export[t] EXCEPT !.touched = TRUE] BY DEF Touch
  <2>2. [export[t] EXCEPT !.touched = TRUE].touched BY <1>2 DEF ExportRec
  <2>3. QED BY <2>1, <2>2
<1>7. ASSUME NEW r \in Reviews, ReviewCommit(r) PROVE Kept
  <2>1. review[r].key # k
    <3>1. t # None BY NoneIsNoValue
    <3>2. QED BY <1>6, <1>7, <3>1 DEF ReviewCommit
  <2>2. QED BY <1>7, <2>1 DEF ReviewCommit, TypeOK
<1>8. ASSUME NEW e \in Exports, ExportWrite(e) PROVE Kept
  <2>1. export' = [Touch(export[e].key, e) EXCEPT ![e].phase = "written"] BY <1>8 DEF ExportWrite
  <2>2. e # t
    <3>1. Touch(export[e].key, e) \in [Exports -> ExportRec] BY TouchTyped
    <3>2. export'[e].phase = "written" BY <2>1, <3>1 DEF ExportRec
    <3>3. export[e].phase = "ready" BY <1>8 DEF ExportWrite
    <3>4. QED BY <3>2, <3>3 DEF ExportKeeps
  <2>3. export[e].key # k
    <3> SUFFICES ASSUME export[e].key = k PROVE FALSE OBVIOUS
    <3>1. Touch(k, e)[t] = [export[t] EXCEPT !.touched = TRUE] BY <2>2 DEF Touch
    <3>2. export'[t] = Touch(k, e)[t] BY <2>1, <2>2, TouchTyped
    <3>3. [export[t] EXCEPT !.touched = TRUE].touched BY <1>2 DEF ExportRec
    <3>4. QED BY <3>1, <3>2, <3>3
  <2>4. QED BY <1>8, <2>3 DEF ExportWrite, TypeOK
<1>9. Kept BY <1>3, <1>4, <1>5, <1>7, <1>8, WhoWrites DEF Writes
<1>10. QED BY <1>1, <1>9

(* What _sync_evidence_review_state leaves behind when it worked from current rows: it
   writes the columns that differ, and those that do not differ are right already. *)
LEMMA WriteIsFaithful ==
    ASSUME TypeOK, NEW t \in Exports, NEW k \in Keys, export[t].key = k, ExportWrite(t),
           packs[k].sha = Sha(packs[k].body),
           export[t].row = runs[k], export[t].pack = packs[k], export[t].events = events[k]
    PROVE  Faithful(k)'
<1> DEFINE body == BodyOf(runs[k], events[k])
<1>1. runs[k] \in Run /\ packs[k] \in Pack BY DEF TypeOK
<1>2. Synced(t) = body BY DEF Synced
<1>3. packs'[k].body = body /\ packs'[k].sha = Sha(body)
  <2>1. CASE body = packs[k].body BY <1>2, <2>1 DEF ExportWrite
  <2>2. CASE body # packs[k].body
    <3>1. packs'[k] = Seal(body) BY <1>2, <2>2 DEF ExportWrite, TypeOK
    <3>2. QED BY <3>1 DEF Seal
  <2>3. QED BY <2>1, <2>2
<1>4. /\ runs'[k].sha = Sha(body) /\ runs'[k].status = runs[k].status
      /\ runs'[k].reviewer = runs[k].reviewer
  <2>1. CASE Sha(body) = runs[k].sha BY <1>2, <2>1 DEF ExportWrite
  <2>2. CASE Sha(body) # runs[k].sha
    <3>1. runs'[k] = [runs[k] EXCEPT !.sha = Sha(body)] BY <1>2, <2>2 DEF ExportWrite, TypeOK
    <3>2. QED BY <1>1, <3>1 DEF Run
  <2>3. QED BY <2>1, <2>2
<1>5. events' = events BY DEF ExportWrite
<1>6. BodyOf(runs'[k], events'[k]) = body BY <1>4, <1>5 DEF BodyOf
<1>7. QED BY <1>3, <1>4, <1>6 DEF Faithful

LEMMA UntouchedIsCurrentNext ==
    ASSUME Inductive, UntouchedIsCurrent, TypeOK', [Next]_vars
    PROVE  UntouchedIsCurrent'
<1> USE DEF Inductive
<1> DEFINE Current(t, k) ==
              /\ Exists(k)
              /\ ~export[t].touched =>
                    /\ export[t].phase \in {"row", "pack", "ready"} => export[t].row = runs[k]
                    /\ export[t].phase \in {"pack", "ready", "fresh"} => export[t].pack = packs[k]
                    /\ export[t].phase = "ready" => export[t].events = events[k]
                    /\ export[t].phase \in {"written", "fresh"} => Faithful(k)
<1> SUFFICES ASSUME NEW t \in Exports, NEW k \in Keys, export'[t].key = k,
                    export'[t].phase \in ExportActive
             PROVE  Current(t, k)'
  BY DEF UntouchedIsCurrent, Exists, ExportActive, Faithful
<1>1. export \in [Exports -> ExportRec] /\ export[t] \in ExportRec BY DEF TypeOK
<1>2. Exists(k) => Exists(k)' BY HistoryKept DEF Exists
<1>3. ASSUME export[t].key = k, export[t].phase \in ExportActive PROVE Current(t, k)
  BY <1>3 DEF UntouchedIsCurrent
<1>4. CASE ExportKeeps(t)
  <2>1. export[t].key = k /\ export[t].phase \in ExportActive /\ export'[t].phase = export[t].phase
    BY <1>4 DEF ExportKeeps
  <2>2. Current(t, k) BY <1>3, <2>1
  <2>3. CASE export'[t].touched BY <1>2, <2>2, <2>3
  <2>4. CASE ~export'[t].touched
    <3>1. ~export[t].touched /\ runs'[k] = runs[k] /\ packs'[k] = packs[k] /\ events'[k] = events[k]
      BY <1>4, <2>1, <2>2, <2>4, UntouchedRunKept
    <3>2. /\ export'[t].row = export[t].row /\ export'[t].pack = export[t].pack
          /\ export'[t].events = export[t].events
      BY <1>4 DEF ExportKeeps
    <3>3. Faithful(k) => Faithful(k)' BY <3>1 DEF Faithful
    <3>4. QED BY <1>2, <2>1, <2>2, <3>1, <3>2, <3>3
  <2>5. QED BY <2>3, <2>4
<1>5. ASSUME NEW p \in Processes, NEW i \in Keys, ExportArrival(t, p, i) PROVE Current(t, k)'
  <2>1. ~ExportNotFound(t, p, i)
    BY <1>1 DEF ExportNotFound, ExportRec, ExportActive
  <2>2. /\ export'[t].phase = "row" /\ i = k /\ export'[t].row = runs[k] /\ runs' = runs
        /\ Exists(k)
    BY <1>1, <1>5, <2>1 DEF ExportArrival, ExportRow, ExportRec, tables
  <2>3. QED BY <1>2, <2>2
<1> DEFINE Ran(from, to) == /\ export[t].phase = from /\ export'[t].phase = to
                            /\ export[t].key = k /\ export'[t].touched = export[t].touched
                            /\ export'[t].row = export[t].row
<1>6. CASE ExportPack(t)
  <2>1. Ran("row", "pack") /\ export'[t].pack = packs[k] /\ runs' = runs /\ packs' = packs
    BY <1>1, <1>6 DEF ExportPack, ExportRec, tables
  <2>2. Current(t, k) BY <1>3, <2>1 DEF ExportActive
  <2>3. QED BY <1>2, <2>1, <2>2
<1>7. CASE ExportEvents(t)
  <2>1. /\ Ran("pack", "ready") /\ export'[t].pack = export[t].pack
        /\ export'[t].events = events[k] /\ runs' = runs /\ packs' = packs /\ events' = events
    BY <1>1, <1>7 DEF ExportEvents, ExportRec, ExportActive, tables
  <2>2. Current(t, k) BY <1>3, <2>1 DEF ExportActive
  <2>3. QED BY <1>2, <2>1, <2>2
<1>8. CASE ExportUnchanged(t)
  <2>1. /\ Ran("ready", "fresh") /\ export'[t].pack = export[t].pack /\ ~Stale(t)
        /\ runs' = runs /\ packs' = packs /\ events' = events
    BY <1>1, <1>8 DEF ExportUnchanged, ExportRec, tables
  <2>2. Current(t, k) BY <1>3, <2>1 DEF ExportActive
  <2>3. ASSUME ~export[t].touched PROVE Faithful(k)
    <3>1. export[t].row = runs[k] /\ export[t].pack = packs[k] /\ export[t].events = events[k]
      BY <2>1, <2>2, <2>3
    <3>2. packs[k].body = BodyOf(runs[k], events[k]) /\ runs[k].sha = Sha(packs[k].body)
      BY <2>1, <3>1 DEF Stale, Synced
    <3>3. packs[k].sha = Sha(packs[k].body) BY DEF PackShowsCommitted
    <3>4. QED BY <3>2, <3>3 DEF Faithful
  <2>4. Faithful(k)' <=> Faithful(k) BY <2>1 DEF Faithful
  <2>5. QED BY <1>2, <2>1, <2>2, <2>3, <2>4
<1>9. CASE ExportWrite(t)
  <2>1. Ran("ready", "written")
    <3>1. Touch(export[t].key, t)[t] = export[t] BY DEF Touch
    <3>2. Touch(export[t].key, t) \in [Exports -> ExportRec] BY TouchTyped
    <3>3. export' = [Touch(export[t].key, t) EXCEPT ![t].phase = "written"]
      BY <1>9 DEF ExportWrite
    <3>4. export'[t] = [export[t] EXCEPT !.phase = "written"] BY <3>1, <3>2, <3>3
    <3>5. QED BY <1>1, <1>9, <3>4 DEF ExportWrite, ExportRec
  <2>2. Current(t, k) BY <1>3, <2>1 DEF ExportActive
  <2>3. ASSUME ~export[t].touched PROVE Faithful(k)'
    <3>1. packs[k].sha = Sha(packs[k].body) BY DEF PackShowsCommitted
    <3>2. QED BY <1>9, <2>1, <2>2, <2>3, <3>1, WriteIsFaithful
  <2>4. QED BY <1>2, <2>1, <2>2, <2>3
<1>10. CASE ExportRefresh(t)
  <2>1. /\ Ran("written", "fresh") /\ export'[t].pack = packs[k]
        /\ runs' = runs /\ packs' = packs /\ events' = events
    BY <1>1, <1>10 DEF ExportRefresh, ExportRec, ExportActive, tables
  <2>2. Current(t, k) BY <1>3, <2>1 DEF ExportActive
  <2>3. Faithful(k)' <=> Faithful(k) BY <2>1 DEF Faithful
  <2>4. QED BY <1>2, <2>1, <2>2, <2>3
<1>11. ~ExportReply(t) BY <1>1 DEF ExportReply, ExportRec, ExportActive
<1>12. ExportChange(t) BY HandlersMove
<1>13. QED
  BY <1>4, <1>5, <1>6, <1>7, <1>8, <1>9, <1>10, <1>11, <1>12 DEF ExportChange, ExportStep, ExportActive

(* However torn the pack was left by earlier exports, a review or a crash between commits,
   an export nobody interferes with answers with a pack that is current, and leaves both
   digests current: _sync_evidence_review_state compares everything it read and writes
   every column that differs. *)
THEOREM ExportsRepair == Spec => []UndisturbedExportRepairs
<1>1. Init => UntouchedIsCurrent BY DEF Init, UntouchedIsCurrent, ExportActive
<1>2. Inductive /\ UntouchedIsCurrent /\ Inductive' /\ [Next]_vars => UntouchedIsCurrent'
  BY UntouchedIsCurrentNext DEF Inductive
<1>3. UntouchedIsCurrent => UndisturbedExportRepairs
  BY DEF UntouchedIsCurrent, UndisturbedExportRepairs, ExportActive
<1>4. QED BY <1>1, <1>2, <1>3, InductiveHolds, PTL DEF Spec
-----------------------------------------------------------------------------
(* One process: the event loop is the lock that makes a review happen once. *)
OneProcess == \A p, q \in Processes : p = q

LEMMA OneReviewerInFlight ==
    ASSUME OneProcess, TypeOK, HandlersHoldLoop, NEW r \in Reviews, NEW q \in Reviews,
           review[r].phase \in ReviewActive, review[q].phase \in ReviewActive
    PROVE  r = q
  BY DEF OneProcess, HandlersHoldLoop

LEMMA ReviewedOnceNext ==
    ASSUME OneProcess, InductiveOneProcess, Inductive', [Next]_vars
    PROVE  ReviewedOnce' /\ ReviewerAlone'
<1> USE DEF InductiveOneProcess, Inductive
<1>1. \A k \in Keys : events[k] \in Seq(Event) /\ events'[k] \in Seq(Event) /\ runs[k] \in Run
                      /\ runs'[k] \in Run
  BY DEF TypeOK
<1>2. \A r \in Reviews : review[r] \in ReviewRec /\ review'[r] \in ReviewRec BY DEF TypeOK
<1>3. ASSUME NEW q \in Reviews, ReviewCommit(q) PROVE ReviewedOnce' /\ ReviewerAlone'
  <2> DEFINE i == review[q].key
  <2>1. /\ review[q].phase = "ready" /\ i \in Keys
        /\ \A k \in Keys : k # i => events'[k] = events[k] /\ runs'[k] = runs[k]
        /\ events'[i] = Append(events[i], NextEvent(q))
        /\ \A r \in Reviews : r # q => review'[r] = review[r]
        /\ review'[q].phase = "committed"
    <3>1. /\ review[q].phase = "ready"
          /\ events' = [events EXCEPT ![i] = Append(events[i], NextEvent(q))]
          /\ review' = [review EXCEPT ![q].phase = "committed"]
      BY <1>3 DEF ReviewCommit
    <3>2. i \in Keys BY <3>1 DEF HandlersHoldLoop
    <3>3. \A k \in Keys : k # i => runs'[k] = runs[k] BY <1>3 DEF ReviewCommit, TypeOK
    <3>4. /\ \A k \in Keys : k # i => events'[k] = events[k]
          /\ events'[i] = Append(events[i], NextEvent(q))
      BY <3>1, <3>2 DEF TypeOK
    <3>5. /\ \A r \in Reviews : r # q => review'[r] = review[r]
          /\ review'[q].phase = "committed"
      BY <1>2, <3>1 DEF TypeOK, ReviewRec
    <3>6. QED BY <3>1, <3>2, <3>3, <3>4, <3>5
  <2>2. events[i] = << >> BY <2>1 DEF ReviewerAlone
  <2>3. Len(events'[i]) = 1 BY <1>1, <2>1, <2>2
  <2>4. ReviewedOnce' BY <2>1, <2>3 DEF ReviewedOnce
  <2>5. \A r \in Reviews : r # q => review[r].phase \notin ReviewActive
    BY <2>1, OneReviewerInFlight DEF ReviewActive
  <2>6. ReviewerAlone' BY <2>1, <2>5 DEF ReviewerAlone, ReviewActive
  <2>7. QED BY <2>4, <2>6
<1>4. ASSUME \A q \in Reviews : ~ReviewCommit(q) PROVE ReviewedOnce' /\ ReviewerAlone'
  <2>1. events' = events
    BY <1>4, WhoWrites DEF Reads, Writes, tables, PostInsert, PostCase, ExportWrite
  <2>2. ReviewedOnce' BY <2>1 DEF ReviewedOnce
  <2>3. ASSUME NEW k \in Keys, runs[k].status = "pending", Exists(k) PROVE runs'[k].status = "pending"
    <3>1. CASE Reads BY <2>3, <3>1 DEF Reads, tables
    <3>2. ASSUME NEW r \in Posts, NEW d \in Decisions, PostInsert(r, d)
          PROVE  runs'[k] = runs[k]
      BY <2>3, <3>2 DEF PostInsert, KeyTaken, TypeOK
    <3>3. ASSUME NEW r \in Posts, PostCase(r) PROVE runs'[k] = runs[k] BY <3>3 DEF PostCase
    <3>4. ASSUME NEW t \in Exports, ExportWrite(t) PROVE runs'[k].status = runs[k].status
      <4>1. runs[k] \in Run BY DEF TypeOK
      <4>2. QED BY <3>4, <4>1 DEF ExportWrite, TypeOK, Run
    <3>5. QED BY <1>4, <2>3, <3>1, <3>2, <3>3, <3>4, WhoWrites DEF Writes
  <2>4. ASSUME NEW r \in Reviews, NEW k \in Keys, review'[r].key = k,
               review'[r].phase \in {"row", "pack", "ready"}
        PROVE  events[k] = << >> /\ runs'[k].status = "pending"
    <3>1. ASSUME events[k] = << >>, runs[k].status = "pending"
          PROVE  events[k] = << >> /\ runs'[k].status = "pending"
      <4>1. Exists(k) BY <3>1 DEF RowMatchesHistory
      <4>2. QED BY <2>3, <3>1, <4>1
    <3>2. CASE /\ review[r].phase \in {"row", "pack", "ready"}
               /\ review[r].key = k
      BY <3>1, <3>2 DEF ReviewerAlone
    <3>3. ASSUME NEW p \in Processes, NEW j \in Keys, ReviewArrival(r, p, j)
          PROVE  events[k] = << >> /\ runs[k].status = "pending"
      <4>1. ~ReviewRefused(r, p, j)
        <5>1. ASSUME review' = [review EXCEPT ![r].phase = "refused", ![r].proc = p, ![r].key = j]
              PROVE  review'[r].phase = "refused"
          BY <1>2, <5>1 DEF ReviewRec, TypeOK
        <5>2. QED BY <2>4, <5>1 DEF ReviewRefused
      <4>2. PICK o \in Outcomes : ReviewRow(r, p, j, o) BY <3>3, <4>1 DEF ReviewArrival
      <4>3. j = k /\ runs[k].status = "pending"
        BY <1>2, <2>4, <4>2 DEF ReviewRow, ReviewRec, TypeOK
      <4>4. ASSUME events[k] # << >> PROVE FALSE
        <5>1. Last(events[k]) \in Event BY <1>1, <4>4 DEF Last
        <5>2. runs[k].status \in Outcomes BY <4>4, <5>1 DEF RowMatchesHistory, Event
        <5>3. QED BY <4>3, <5>2 DEF Outcomes
      <4>5. QED BY <4>3, <4>4
    <3>4. CASE ReviewPack(r) \/ ReviewEvents(r)
      BY <1>2, <2>4, <3>2, <3>4 DEF ReviewPack, ReviewEvents, ReviewRec, TypeOK
    <3>5. ~ReviewFails(r) /\ ~ReviewReply(r)
      <4>1. ASSUME NEW ph, review' = [review EXCEPT ![r].phase = ph] PROVE review'[r].phase = ph
        BY <1>2, <4>1 DEF ReviewRec, TypeOK
      <4>2. QED BY <2>4, <4>1 DEF ReviewFails, ReviewReply
    <3>6. ReviewChange(r) BY HandlersMove
    <3>7. QED BY <1>4, <2>4, <3>1, <3>2, <3>3, <3>4, <3>5, <3>6 DEF ReviewChange, ReviewStep
  <2>5. ReviewerAlone' BY <2>1, <2>4 DEF ReviewerAlone
  <2>6. QED BY <2>2, <2>5
<1>5. QED BY <1>3, <1>4

(* Served by one process, as the Dockerfile starts it, a run is reviewed at most once,
   although review_run reads the status and writes the event by separate statements and
   locks nothing: between them the event loop runs no other review. *)
THEOREM OneReview == ASSUME OneProcess PROVE Spec => []ReviewedOnce
<1>1. Init => ReviewedOnce /\ ReviewerAlone BY DEF Init, ReviewedOnce, ReviewerAlone
<1>2. Inductive /\ ReviewedOnce /\ ReviewerAlone /\ Inductive' /\ [Next]_vars
         => (ReviewedOnce /\ ReviewerAlone)'
  BY ReviewedOnceNext DEF InductiveOneProcess
<1>3. QED BY <1>1, <1>2, InductiveHolds, PTL DEF Spec
-----------------------------------------------------------------------------
(* Refinement of RunRecord: one entry per key and one answer per post. *)
EntryOf(row) == [payload |-> row.payload, decision |-> row.decision, status |-> row.status]
AnswerOf(q) == IF q.phase = "conflict" THEN "conflict" ELSE q.reply
Entry == [k \in Keys |-> [payload |-> runs[k].payload, decision |-> runs[k].decision,
                          status |-> runs[k].status]]
Answers == [r \in Posts |-> IF post[r].phase = "conflict" THEN "conflict" ELSE post[r].reply]

LEMMA EntryKept ==
    ASSUME \A k \in Keys : EntryOf(runs'[k]) = EntryOf(runs[k])
    PROVE  Entry' = Entry
  BY DEF Entry, EntryOf

LEMMA AnswersKept ==
    ASSUME \A r \in Posts : AnswerOf(post'[r]) = AnswerOf(post[r])
    PROVE  Answers' = Answers
  BY DEF Answers, AnswerOf

(* One client is answered, from the entry of the key it posted. *)
LEMMA OneAnswered ==
    ASSUME NEW r \in Posts, NEW k \in Keys, NEW x \in Payloads, AnswerOf(post[r]) = "none",
           Exists(k), runs' = runs, \A q \in Posts : q # r => post'[q] = post[q],
           AnswerOf(post'[r]) = IF runs[k].payload = x THEN runs[k].decision ELSE "conflict"
    PROVE  Record!Next
<1> DEFINE told == IF Entry[k].payload = x THEN Entry[k].decision ELSE "conflict"
<1>1. Answers[r] = "none" BY DEF Answers, AnswerOf
<1>2. Entry[k].decision = runs[k].decision /\ Entry[k].payload = runs[k].payload BY DEF Entry
<1>3. Answers' = [Answers EXCEPT ![r] = told]
  <2>1. Answers'[r] = told BY <1>2 DEF Answers, AnswerOf
  <2>2. \A q \in Posts : q # r => Answers'[q] = Answers[q] BY DEF Answers
  <2> HIDE DEF told
  <2>3. QED BY <2>1, <2>2 DEF Answers
<1>4. Entry' = Entry BY DEF Entry
<1>5. Record!Answer(r, k, x)
  BY <1>1, <1>2, <1>3, <1>4 DEF Record!Answer, Exists, Entry, Answers
<1>6. QED BY <1>5 DEF Record!Next

LEMMA PostImplements ==
    ASSUME Inductive, Unanswered, [Next]_vars, NEW r \in Posts,
           \/ \E p \in Processes, k \in Keys, x \in Payloads : PostArrival(r, p, k, x)
           \/ PostStep(r)
    PROVE  Record!Next \/ UNCHANGED <<Entry, Answers>>
<1> USE DEF Inductive
<1>1. post \in [Posts -> PostRec] /\ post[r] \in PostRec BY DEF TypeOK
<1>2. post[r].phase \in PostActive \cup {"new"} => AnswerOf(post[r]) = "none"
  BY DEF Unanswered, AnswerOf, PostActive
<1>3. ASSUME NEW p \in Processes, NEW k \in Keys, NEW x \in Payloads, PostReplay(r, p, k, x)
      PROVE  Record!Next
  <2>1. /\ Exists(k) /\ runs[k].payload = x /\ runs' = runs /\ post[r].phase = "new"
        /\ post'[r].phase = "done" /\ post'[r].reply = runs[k].decision
        /\ \A q \in Posts : q # r => post'[q] = post[q]
    BY <1>1, <1>3 DEF PostReplay, PostArrives, tables
  <2>2. AnswerOf(post'[r]) = IF runs[k].payload = x THEN runs[k].decision ELSE "conflict"
    BY <2>1 DEF AnswerOf
  <2>3. QED BY <1>2, <2>1, <2>2, OneAnswered
<1>4. ASSUME NEW p \in Processes, NEW k \in Keys, NEW x \in Payloads, PostConflict(r, p, k, x)
      PROVE  Record!Next
  <2>1. /\ Exists(k) /\ runs[k].payload # x /\ runs' = runs /\ post[r].phase = "new"
        /\ post'[r].phase = "conflict" /\ \A q \in Posts : q # r => post'[q] = post[q]
    BY <1>1, <1>4 DEF PostConflict, PostArrives, tables
  <2>2. AnswerOf(post'[r]) = IF runs[k].payload = x THEN runs[k].decision ELSE "conflict"
    BY <2>1 DEF AnswerOf
  <2>3. QED BY <1>2, <2>1, <2>2, OneAnswered
<1>5. ASSUME NEW p \in Processes, NEW k \in Keys, NEW x \in Payloads, PostMiss(r, p, k, x)
      PROVE  UNCHANGED <<Entry, Answers>>
  <2>1. /\ runs' = runs /\ post[r].phase = "new" /\ post'[r].phase = "evaluating"
        /\ post'[r].reply = "none" /\ \A q \in Posts : q # r => post'[q] = post[q]
    BY <1>1, <1>5 DEF PostMiss, PostArrives, tables
  <2>2. AnswerOf(post'[r]) = AnswerOf(post[r]) BY <1>2, <2>1 DEF AnswerOf
  <2>3. Answers' = Answers BY <2>1, <2>2, AnswersKept
  <2>4. QED BY <2>1, <2>3 DEF Entry
<1>6. ASSUME NEW d \in Decisions, PostInsert(r, d) PROVE Record!Next
  <2> DEFINE k == post[r].key
             x == post[r].payload
             made == [payload |-> x, decision |-> d,
                      status |-> IF d = "review" THEN "pending" ELSE "not_required"]
  <2>1. k \in Keys /\ x \in Payloads /\ ~Exists(k)
    BY <1>6 DEF PostInsert, KeyTaken, HandlersHoldLoop
  <2>2. /\ runs'[k].payload = x /\ runs'[k].decision = d /\ runs'[k].status = InitialStatus(d)
        /\ \A i \in Keys : i # k => runs'[i] = runs[i]
    BY <1>6, <2>1 DEF PostInsert, TypeOK
  <2>3. Entry' = [Entry EXCEPT ![k] = made]
    <3>1. Entry'[k] = made BY <2>1, <2>2 DEF Entry, InitialStatus
    <3>2. \A i \in Keys : i # k => Entry'[i] = Entry[i] BY <2>2 DEF Entry
    <3> HIDE DEF made
    <3>3. QED BY <3>1, <3>2 DEF Entry
  <2>4. Answers' = Answers
    <3>1. \A q \in Posts : \/ post'[q].phase # "conflict" /\ post'[q].reply = post[q].reply
                           \/ post'[q] = post[q]
      BY <1>1, <1>6 DEF PostInsert, PostRec
    <3>2. post[r].phase = "evaluating" /\ \A q \in Posts : q # r => post'[q] = post[q]
      BY <1>1, <1>6 DEF PostInsert
    <3>3. \A q \in Posts : AnswerOf(post'[q]) = AnswerOf(post[q]) BY <3>1, <3>2 DEF AnswerOf
    <3>4. QED BY <3>3, AnswersKept
  <2>5. Entry[k].decision = "none" BY <2>1 DEF Entry, Exists
  <2>6. Record!Decide(k, x, d)
    BY <2>3, <2>4, <2>5 DEF Record!Decide, Entry, Answers
  <2>7. d \in Record!Decisions BY DEF Decisions, Record!Decisions
  <2>8. QED BY <2>1, <2>6, <2>7 DEF Record!Next
<1>7. CASE PostDuplicate(r) \/ PostCase(r)
  <2>1. /\ runs' = runs /\ post[r].phase \in PostActive /\ post'[r].phase \in {"error", "stored"}
        /\ post'[r].reply = post[r].reply /\ \A q \in Posts : q # r => post'[q] = post[q]
    BY <1>1, <1>7 DEF PostDuplicate, PostCase, PostActive, PostRec, tables
  <2>2. AnswerOf(post'[r]) = AnswerOf(post[r]) BY <2>1 DEF AnswerOf, PostActive
  <2>3. Answers' = Answers BY <2>1, <2>2, AnswersKept
  <2>4. QED BY <2>1, <2>3 DEF Entry
<1>8. CASE PostReply(r)
  <2> DEFINE k == post[r].key
             x == post[r].payload
  <2>1. k \in Keys /\ x \in Payloads BY <1>8 DEF PostReply, HandlersHoldLoop
  <2>2. /\ runs' = runs /\ post[r].phase = "stored" /\ post'[r].phase = "done"
        /\ post'[r].reply = runs[k].decision /\ \A q \in Posts : q # r => post'[q] = post[q]
    BY <1>1, <1>8 DEF PostReply, PostRec, tables
  <2>3. Exists(k) /\ runs[k].payload = x BY <2>1, <2>2 DEF InserterOwnsCase
  <2>4. AnswerOf(post'[r]) = IF runs[k].payload = x THEN runs[k].decision ELSE "conflict"
    BY <2>2, <2>3 DEF AnswerOf
  <2>5. AnswerOf(post[r]) = "none" BY <1>2, <2>2 DEF PostActive
  <2>6. QED BY <2>1, <2>2, <2>3, <2>4, <2>5, OneAnswered
<1>9. QED BY <1>3, <1>4, <1>5, <1>6, <1>7, <1>8 DEF PostArrival, PostStep

(* The review that commits finds the run still pending: with one event loop no other
   review came between. *)
LEMMA ReviewImplements ==
    ASSUME Inductive, ReviewerAlone, NEW r \in Reviews, ReviewCommit(r)
    PROVE  Record!Next
<1> USE DEF Inductive
<1> SUFFICES ASSUME NEW k \in Keys, NEW o \in Outcomes,
                    k = review[r].key, o = review[r].outcome
             PROVE  Record!Next
  BY DEF ReviewCommit, HandlersHoldLoop, TypeOK, ReviewRec
<1>1. runs[k] \in Run BY DEF TypeOK
<1>2. Entry[k].status = "pending" BY <1>1 DEF ReviewCommit, ReviewerAlone, Entry
<1>3. /\ runs'[k].payload = runs[k].payload /\ runs'[k].decision = runs[k].decision
      /\ runs'[k].status = o /\ \A i \in Keys : i # k => runs'[i] = runs[i]
  BY <1>1 DEF ReviewCommit, TypeOK, Run
<1>4. Entry' = [Entry EXCEPT ![k].status = o]
  <2>1. Entry'[k] = [payload |-> runs[k].payload, decision |-> runs[k].decision, status |-> o]
    BY <1>1, <1>3 DEF Entry
  <2>2. Entry[k] = [payload |-> runs[k].payload, decision |-> runs[k].decision,
                    status |-> runs[k].status]
    BY <1>1 DEF Entry
  <2>3. Entry'[k] = [Entry[k] EXCEPT !.status = o] BY <2>1, <2>2
  <2>4. \A i \in Keys : i # k => Entry'[i] = Entry[i] BY <1>3 DEF Entry
  <2>5. Entry = [i \in Keys |-> Entry[i]] /\ Entry' = [i \in Keys |-> Entry'[i]] BY DEF Entry
  <2>6. QED BY <2>3, <2>4, <2>5
<1>5. Answers' = Answers BY DEF ReviewCommit, Answers
<1>6. Record!Conclude(k, o) BY <1>2, <1>4, <1>5 DEF Record!Conclude, Entry, Answers
<1>7. QED BY <1>6 DEF Record!Next, Outcomes

LEMMA StepImplements ==
    ASSUME Inductive, ReviewerAlone, Unanswered, [Next]_vars
    PROVE  Record!Next \/ UNCHANGED <<Entry, Answers>>
<1> USE DEF Inductive
<1> DEFINE Goal == Record!Next \/ UNCHANGED <<Entry, Answers>>
<1>1. CASE UNCHANGED vars BY <1>1 DEF vars, Entry, Answers
<1>2. CASE Arrive
  <2>1. ASSUME NEW p \in Processes, NEW k \in Keys, NEW r \in Reviews, ReviewArrival(r, p, k)
        PROVE  Goal
    BY <2>1 DEF ReviewArrival, ReviewRefused, ReviewRow, tables, Entry, Answers
  <2>2. ASSUME NEW p \in Processes, NEW k \in Keys, NEW t \in Exports, ExportArrival(t, p, k)
        PROVE  Goal
    BY <2>2 DEF ExportArrival, ExportNotFound, ExportRow, tables, Entry, Answers
  <2>3. QED BY <1>2, <2>1, <2>2, PostImplements DEF Arrive
<1>3. ASSUME NEW r \in Posts, PostStep(r) PROVE Goal BY <1>3, PostImplements
<1>4. ASSUME NEW r \in Reviews, ReviewStep(r) PROVE Goal
  <2>1. CASE ReviewCommit(r) BY <2>1, ReviewImplements
  <2>2. CASE ~ReviewCommit(r)
    BY <1>4, <2>2 DEF ReviewStep, ReviewPack, ReviewEvents, ReviewFails, ReviewReply, tables,
                      Entry, Answers
  <2>3. QED BY <2>1, <2>2
<1>5. ASSUME NEW t \in Exports, ExportStep(t) PROVE Goal
  <2>1. post' = post
    BY <1>5 DEF ExportStep, ExportPack, ExportEvents, ExportUnchanged, ExportWrite, ExportRefresh,
                ExportReply
  <2>2. CASE ExportWrite(t)
    <3>1. \A k \in Keys : /\ runs'[k].payload = runs[k].payload
                          /\ runs'[k].decision = runs[k].decision
                          /\ runs'[k].status = runs[k].status
      BY <2>2 DEF ExportWrite, TypeOK, Run
    <3>2. Entry' = Entry BY <3>1, EntryKept DEF EntryOf
    <3>3. QED BY <2>1, <3>2 DEF Answers
  <2>3. CASE ~ExportWrite(t)
    BY <1>5, <2>1, <2>3 DEF ExportStep, ExportPack, ExportEvents, ExportUnchanged, ExportRefresh,
                            ExportReply, tables, Entry, Answers
  <2>4. QED BY <2>2, <2>3
<1>6. CASE Fault
  <2>1. runs' = runs
    BY <1>6 DEF Fault, Crash, PostDbError, ReviewDbError, ExportDbError, tables
  <2>2. \A r \in Posts :
           \/ post'[r] = post[r]
           \/ /\ post[r].phase \in PostActive /\ post'[r].phase \in {"error", "lost"}
              /\ post'[r].reply = post[r].reply
    BY <1>6 DEF Fault, Crash, PostDbError, ReviewDbError, ExportDbError, TypeOK, PostRec
  <2>3. \A r \in Posts : AnswerOf(post'[r]) = AnswerOf(post[r])
    BY <2>2 DEF AnswerOf, PostActive
  <2>4. Answers' = Answers BY <2>3, AnswersKept
  <2>5. QED BY <2>1, <2>4 DEF Entry
<1>7. QED BY <1>1, <1>2, <1>3, <1>4, <1>5, <1>6 DEF Next

LEMMA UnansweredNext == ASSUME TypeOK, Unanswered, [Next]_vars PROVE Unanswered'
<1> SUFFICES ASSUME NEW r \in Posts, post'[r].phase \in PostActive \cup {"new"}
             PROVE  post'[r].reply = "none"
  BY DEF Unanswered, PostActive
<1>1. post \in [Posts -> PostRec] /\ post[r] \in PostRec BY DEF TypeOK
<1>2. post[r].phase \in PostActive \cup {"new"} => post[r].reply = "none" BY DEF Unanswered
<1>3. CASE post'[r] = post[r] BY <1>2, <1>3
<1>4. ASSUME NEW p \in Processes, NEW k \in Keys, NEW x \in Payloads, PostArrival(r, p, k, x)
      PROVE  post'[r].reply = "none"
  BY <1>1, <1>4 DEF PostArrival, PostReplay, PostConflict, PostMiss, PostArrives, PostActive
<1>5. CASE PostStep(r)
  <2>1. CASE \/ \E d \in Decisions : PostInsert(r, d)
             \/ PostDuplicate(r) \/ PostCase(r)
    <3>1. post[r].phase \in PostActive
      BY <2>1 DEF PostInsert, PostDuplicate, PostCase, PostActive
    <3>2. PICK ph : post' = [post EXCEPT ![r].phase = ph]
      BY <2>1 DEF PostInsert, PostDuplicate, PostCase
    <3>3. post'[r].reply = post[r].reply BY <1>1, <3>2 DEF PostRec
    <3>4. QED BY <1>2, <3>1, <3>3
  <2>2. CASE PostReply(r)
    <3>1. post'[r].phase = "done" BY <1>1, <2>2 DEF PostReply, PostRec
    <3>2. QED BY <3>1 DEF PostActive
  <2>3. QED BY <1>5, <2>1, <2>2 DEF PostStep
<1>6. PostChange(r) BY HandlersMove
<1>7. QED BY <1>3, <1>4, <1>5, <1>6 DEF PostChange, PostActive

(* Served by one process, the handlers and tables give clients exactly what RunRecord
   promises, in every interleaving and through every fault: every step of the code decides
   a key, concludes its review or answers one client from the stored entry, or is
   invisible to them. *)
THEOREM LedgerImplementsRecord == ASSUME OneProcess PROVE Spec => ImplementsRecord
<1>1. Init => Record!Init BY DEF Init, Record!Init, NoRun
<1>2. Init => ReviewedOnce /\ ReviewerAlone /\ Unanswered
  BY DEF Init, ReviewedOnce, ReviewerAlone, Unanswered
<1>3. Inductive /\ ReviewedOnce /\ ReviewerAlone /\ Unanswered /\ Inductive' /\ [Next]_vars
         => (ReviewedOnce /\ ReviewerAlone /\ Unanswered)'
  BY ReviewedOnceNext, UnansweredNext DEF InductiveOneProcess, Inductive
<1>4. Inductive /\ ReviewerAlone /\ Unanswered /\ [Next]_vars
         => [Record!Next]_<<Entry, Answers>>
  BY StepImplements
<1>5. QED
  BY <1>1, <1>2, <1>3, <1>4, InductiveHolds, PTL
     DEF Spec, ImplementsRecord, Record!Spec, Entry, Answers
=============================================================================
