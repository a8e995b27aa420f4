---------------------------- MODULE RunLedgerInv ----------------------------
(* The inductive strengthening of RunLedger's safety invariants: what the handlers
   in flight know.  MCRunLedger checks it, RunLedgerProofs proves it. *)
EXTENDS RunLedger

(* A request that has arrived names a run, and an async handler in flight holds the loop
   of its process. *)
HandlersHoldLoop ==
    /\ \A r \in Posts :
          /\ post[r].phase # "new" => post[r].key \in Keys /\ post[r].payload \in Payloads
          /\ post[r].phase \in PostActive =>
                post[r].proc \in Processes /\ loop[post[r].proc] = r
    /\ \A r \in Reviews :
          /\ review[r].phase # "new" => review[r].key \in Keys
          /\ review[r].phase \in ReviewActive =>
                review[r].proc \in Processes /\ loop[review[r].proc] = r
    /\ \A t \in Exports : export[t].phase # "new" => export[t].key \in Keys

(* Between its two commits a post owns the run it inserted: the run has no case yet and
   no other post is going to create one. *)
InserterOwnsCase ==
    /\ \A r \in Posts, k \in Keys :
          post[r].key = k =>
              /\ post[r].phase \in {"inserted", "stored"} =>
                    Exists(k) /\ runs[k].payload = post[r].payload
              /\ post[r].phase = "inserted" => cases[k] = 0
    /\ \A r, q \in Posts :
          post[r].phase = "inserted" /\ post[q].phase = "inserted"
             /\ post[r].key = post[q].key => r = q
    /\ \A k \in Keys : ~Exists(k) => cases[k] = 0

(* A review in flight is about a review run, and read events that are still there. *)
ReviewSnapshots ==
    \A r \in Reviews, k \in Keys :
        review[r].key = k =>
            /\ review[r].phase \in ReviewActive => runs[k].decision = "review"
            /\ review[r].phase = "ready" => IsPrefix(review[r].events, events[k])

(* The row and the events an export works from were committed at some moment. *)
ExportSnapshots ==
    \A t \in Exports, k \in Keys :
        export[t].key = k =>
            /\ export[t].phase \in ExportActive =>
                  Shown(export[t].row.status, export[t].row.reviewer, events[k])
            /\ export[t].phase = "ready" => IsPrefix(export[t].events, events[k])

Inductive ==
    /\ TypeOK
    /\ HandlersHoldLoop
    /\ InserterOwnsCase
    /\ ReviewSnapshots
    /\ ExportSnapshots
    /\ RepliesAgree
    /\ RowMatchesHistory
    /\ HistoryIsChain
    /\ AuditMatchesLedger
    /\ AtMostOneCase
    /\ PackShowsCommitted

(* With one process, a review in flight is the only one and its run has no event yet. *)
ReviewerAlone ==
    \A r \in Reviews, k \in Keys :
        review[r].key = k /\ review[r].phase \in {"row", "pack", "ready"} =>
            events[k] = << >> /\ runs[k].status = "pending"

InductiveOneProcess == Inductive /\ ReviewedOnce /\ ReviewerAlone

(* A client hears nothing before its post is through. *)
Unanswered == \A r \in Posts : post[r].phase \in PostActive \cup {"new"} => post[r].reply = "none"

(* What an export that no other request committed to has read, or left, is current. *)
UntouchedIsCurrent ==
    \A t \in Exports, k \in Keys :
        export[t].key = k /\ export[t].phase \in ExportActive =>
            /\ Exists(k)
            /\ ~export[t].touched =>
                  /\ export[t].phase \in {"row", "pack", "ready"} => export[t].row = runs[k]
                  /\ export[t].phase \in {"pack", "ready", "fresh"} => export[t].pack = packs[k]
                  /\ export[t].phase = "ready" => export[t].events = events[k]
                  /\ export[t].phase \in {"written", "fresh"} => Faithful(k)
=============================================================================
