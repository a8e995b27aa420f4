----------------------------- MODULE AuditTrail -----------------------------
(***************************************************************************)
(* The audit trail of EvidencePlane (app/services/audit.py): events written *)
(* in the transactions they tell of, flushed to a SIEM, and bundled with    *)
(* the runs they are about.                                                 *)
(*                                                                          *)
(* Flush and bundle are `def` endpoints: they run in the thread pool, over  *)
(* READ COMMITTED, beside each other and beside the transactions that write *)
(* events.  A step is one query, one POST or one commit.                    *)
(***************************************************************************)
EXTENDS Naturals, Sequences, FiniteSets, SequencesExt

CONSTANTS
    Runs,        \* runs of the repository a bundle is asked for
    Flushes,     \* threads that serve POST /admin/siem/flush, one request after another
    Bundles,     \* GET /audit-bundle requests
    Limit,       \* events a flush takes: 200
    Immutable,   \* the trigger of migration 0014 is installed (PostgreSQL)
    MaxFaults,   \* bound on unanswered POSTs and killed flushes
    MaxRefusals  \* bound on POSTs the SIEM answers with an error status

ASSUME LimitPositive == Limit \in Nat \ {0}
ASSUME BoundsAreNat == MaxFaults \in Nat /\ MaxRefusals \in Nat /\ Immutable \in BOOLEAN

(* The two events about a run; the other event types differ only in not being bundled. *)
Events == Runs \X {"run_decided", "review"}
Decided(k) == <<k, "run_decided">>
Reviewed(k) == <<k, "review">>

VARIABLES
    at,         \* at[e]: rank of the event's created_at, 0 when it was not emitted
    log,        \* committed events
    forwarded,  \* those with siem_forwarded_at
    siem,       \* those the SIEM accepted, once or more often
    flush,      \* flush[f]: a request's page, how much of it is posted, what it marked
    bundle,     \* bundle[b]: what the queries of a request have read
    faults, refusals

vars == <<at, log, forwarded, siem, flush, bundle, faults, refusals>>
trail == <<at, log>>

Idle == [phase |-> "idle", page |-> << >>, sent |-> 0, marked |-> {}]
Flush == [phase : {"idle", "posting", "ending"}, page : Seq(Events), sent : Nat,
          marked : SUBSET Events]

(* from and to are the days a bundle is asked for, missed a history variable: the stored
   runs its first query left out. *)
Days == 0..1
Bundle == [from : Days, to : Days, read : 0..3, runs : SUBSET Runs, packs : SUBSET Runs,
           events : SUBSET Events, missed : SUBSET Runs]

Init ==
    /\ at = [e \in Events |-> 0]
    /\ log = {} /\ forwarded = {}
    /\ siem = {}
    /\ flush = [f \in Flushes |-> Idle]
    /\ bundle = [b \in Bundles |-> [from |-> 0, to |-> 0, read |-> 0, runs |-> {}, packs |-> {},
                                     events |-> {}, missed |-> {}]]
    /\ faults = 0 /\ refusals = 0
-----------------------------------------------------------------------------
(* Writers: the row an event is about is committed with it, so Decided(k) \in log also
   says that run k and its pack are stored, Reviewed(k) \in log that they tell the review. *)

(* emit_audit_event: a review needs the stored run. *)
Emit(e) ==
    /\ at[e] = 0
    /\ e[2] = "review" => Decided(e[1]) \in log
    /\ at' = [at EXCEPT ![e] = Cardinality({d \in Events : at[d] # 0}) + 1]
    /\ UNCHANGED <<log, forwarded, siem, flush, bundle, faults, refusals>>

(* Transactions commit in any order, whatever their created_at; one that rolls back never does. *)
Commit(e) ==
    /\ at[e] # 0 /\ e \notin log
    /\ log' = log \cup {e}
    /\ UNCHANGED <<at, forwarded, siem, flush, bundle, faults, refusals>>
-----------------------------------------------------------------------------
(* flush_pending_to_siem *)

Fault == faults < MaxFaults /\ faults' = faults + 1

(* ORDER BY created_at LIMIT 200 of the events without siem_forwarded_at. *)
Pending == log \ forwarded
IsPage(s) ==
    /\ \A i, j \in DOMAIN s : i < j => at[s[i]] < at[s[j]]
    /\ \A e \in Pending \ Range(s) :
          Len(s) = Limit /\ \A i \in DOMAIN s : at[s[i]] < at[e]

FlushRead(f) ==
    /\ flush[f].phase = "idle"
    /\ \E page \in SeqOf(Pending, Limit) :
          /\ page # << >> /\ IsPage(page)
          /\ flush' = [flush EXCEPT ![f] = [Idle EXCEPT !.phase = "posting", !.page = page]]
    /\ UNCHANGED <<trail, forwarded, siem, bundle, faults, refusals>>

Posting(f) == flush[f].phase = "posting" /\ flush[f].sent < Len(flush[f].page)
Posted(f) == flush[f].page[flush[f].sent + 1]
Accepted(e) == siem' = siem \cup {e}
Mark(f) == [flush EXCEPT ![f].sent = @ + 1, ![f].marked = @ \cup {Posted(f)}]

FlushPost(f) ==
    /\ Posting(f)
    /\ Accepted(Posted(f))
    /\ flush' = Mark(f)
    /\ UNCHANGED <<trail, forwarded, bundle, faults, refusals>>

(* httpx.post raises for no status: an event refused with 4xx or 5xx is marked, too. *)
FlushRefused(f) ==
    /\ Posting(f)
    /\ refusals < MaxRefusals /\ refusals' = refusals + 1
    /\ flush' = Mark(f)
    /\ UNCHANGED <<trail, forwarded, siem, bundle, faults>>

(* No answer in 5 seconds, the event delivered or not: the loop breaks. *)
FlushUnansweredGoesOn(f) ==
    /\ Posting(f) /\ Fault
    /\ Accepted(Posted(f)) \/ UNCHANGED siem
    /\ flush' = [flush EXCEPT ![f].sent = @ + 1]
    /\ UNCHANGED <<trail, forwarded, bundle, refusals>>
FlushUnansweredMarks(f) ==
    /\ Posting(f) /\ Fault
    /\ Accepted(Posted(f)) \/ UNCHANGED siem
    /\ flush' = [Mark(f) EXCEPT ![f].phase = "ending"]
    /\ UNCHANGED <<trail, forwarded, bundle, refusals>>
FlushUnanswered(f) ==
    /\ Posting(f) /\ Fault
    /\ Accepted(Posted(f)) \/ UNCHANGED siem
    /\ flush' = [flush EXCEPT ![f].phase = "ending"]
    /\ UNCHANGED <<trail, forwarded, bundle, refusals>>

(* One commit for the whole page; the trigger refuses every UPDATE of audit_events. *)
Stored(f) == IF Immutable THEN forwarded ELSE forwarded \cup flush[f].marked

FlushEnd(f) ==
    /\ flush[f].phase # "idle" /\ ~Posting(f)
    /\ forwarded' = Stored(f)
    /\ flush' = [flush EXCEPT ![f] = Idle]
    /\ UNCHANGED <<trail, siem, bundle, faults, refusals>>

FlushDies(f) ==
    /\ flush[f].phase # "idle"
    /\ Fault
    /\ flush' = [flush EXCEPT ![f] = Idle]
    /\ UNCHANGED <<trail, forwarded, siem, bundle, refusals>>
-----------------------------------------------------------------------------
(* build_audit_bundle: three queries, each seeing what is committed by then. *)

(* created_at of a run is that of its decision.  A day has three instants: its first, one
   within it and one in the last second, after 23:59:59.000000; the first event of all
   comes within day 0. *)
Instant(k) == at[Decided(k)]
DayOf(k) == Instant(k) \div 3
InLastSecond(k) == Instant(k) % 3 = 2

(* created_at <= the midnight that ends the last day. *)
InPeriodToMidnight(k, from, to) == Instant(k) \in (3 * from)..(3 * to + 3)

(* From 00:00:00 of the first day to 23:59:59 of the last. *)
InPeriod(k, from, to) == Instant(k) \in (3 * from)..(3 * to + 1)

StoredRuns == {k \in Runs : Decided(k) \in log}

BundleRuns(b) ==
    /\ bundle[b].read = 0
    /\ \E from, to \in Days :
          LET asked == {k \in StoredRuns : InPeriod(k, from, to)}
          IN /\ from <= to
             /\ bundle' = [bundle EXCEPT
                   ![b] = [@ EXCEPT !.from = from, !.to = to, !.read = 1,
                                    !.runs = asked, !.missed = StoredRuns \ asked]]
    /\ UNCHANGED <<trail, forwarded, siem, flush, faults, refusals>>

QueriesEventsFirst == <<"events", "packs">>
Queries == <<"packs", "events">>

BundleRest(b) ==
    LET query == Queries[bundle[b].read]
        mine == bundle[b].runs
    IN /\ bundle[b].read \in 1..2
       /\ bundle' = [bundle EXCEPT
             ![b].read = @ + 1,
             ![b].packs = IF query = "packs" THEN {k \in mine : Reviewed(k) \in log} ELSE @,
             ![b].events = IF query = "events" THEN {e \in log : e[1] \in mine} ELSE @]
       /\ UNCHANGED <<trail, forwarded, siem, flush, faults, refusals>>
-----------------------------------------------------------------------------
FlushStep(f) == FlushPost(f) \/ FlushEnd(f)

Next ==
    \/ \E e \in Events : Emit(e) \/ Commit(e)
    \/ \E f \in Flushes :
          FlushRead(f) \/ FlushStep(f) \/ FlushRefused(f) \/ FlushUnanswered(f) \/ FlushDies(f)
    \/ \E b \in Bundles : BundleRuns(b) \/ BundleRest(b)

(* A POST is answered or given up after 5 seconds, so a flush that began ends; and the
   operator flushes again as long as something is pending. *)
Fairness == \A f \in Flushes : WF_vars(FlushStep(f)) /\ WF_vars(FlushRead(f))

Spec == Init /\ [][Next]_vars /\ Fairness
-----------------------------------------------------------------------------
TypeOK ==
    /\ at \in [Events -> 0..Cardinality(Events)]
    /\ forwarded \subseteq log /\ log \subseteq {e \in Events : at[e] # 0}
    /\ siem \subseteq Events
    /\ flush \in [Flushes -> Flush] /\ bundle \in [Bundles -> Bundle]
    /\ \A f \in Flushes : Len(flush[f].page) \in 0..Limit /\ flush[f].sent <= Len(flush[f].page)
    /\ faults \in 0..MaxFaults /\ refusals \in 0..MaxRefusals

(* NothingLost: as long as the SIEM refuses nothing, an event is marked as forwarded only
   when the SIEM has it, whichever POST goes unanswered and however flushes cross. *)
NothingLost == refusals = 0 => forwarded \subseteq siem

(* NoneOvertaken: a flush stops at the first POST that is not answered (an event that the
   SIEM refuses is marked and passed over), so among the events it read it never marks one
   and leaves an earlier one behind. *)
NoneOvertaken ==
    \A f \in Flushes :
        \A i, j \in DOMAIN flush[f].page :
            i < j /\ flush[f].page[j] \in flush[f].marked => flush[f].page[i] \in flush[f].marked

(* BundleIsCausal: a bundle never shows a run without the event of its decision nor a
   pack's review without the event of that review, whatever commits between its queries. *)
BundleIsCausal ==
    \A b \in Bundles : bundle[b].read = 3 =>
        /\ \A k \in bundle[b].runs : Decided(k) \in bundle[b].events
        /\ \A k \in bundle[b].packs : Reviewed(k) \in bundle[b].events

(* BundleMeetsItsDays: a bundle holds the stored runs of the days it is asked for, but for
   those of the last second, and none of another day, so that bundles of different days
   share no run (the period ends at 23:59:59.000000). *)
BundleMeetsItsDays ==
    \A b \in Bundles :
        /\ \A k \in bundle[b].runs : DayOf(k) \in bundle[b].from..bundle[b].to
        /\ \A k \in bundle[b].missed :
              DayOf(k) \in bundle[b].from..bundle[b].to =>
                  InLastSecond(k) /\ DayOf(k) = bundle[b].to

(* EveryEventIsForwarded: "Forward unforwarded audit events to the SIEM webhook": a
   committed event is marked at last, by a later flush if one fails.  It holds without
   the trigger of migration 0014 and not with it. *)
EveryEventIsForwarded == \A e \in Events : e \in log ~> e \in forwarded

(* ForwardedWasAccepted (does not hold): an event is not counted as forwarded before the
   SIEM took it ("stop on first failure; retry next flush"). *)
ForwardedWasAccepted == forwarded \subseteq siem
=============================================================================
