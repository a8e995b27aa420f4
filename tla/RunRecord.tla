----------------------------- MODULE RunRecord -----------------------------
(***************************************************************************)
(* What EvidencePlane promises its clients about a run, with the store in  *)
(* one piece: a key is decided once, every client that posts it is         *)
(* answered from that one entry, and a pending run is concluded once.      *)
(* RunLedger, the code's handlers and tables, implements it.               *)
(***************************************************************************)
CONSTANTS Keys, Payloads, Posts, None

VARIABLES
    entry,   \* entry[k]: payload, decision and review status of key k
    answer   \* answer[r]: what the client of post r was told

Decisions == {"allow", "review", "block"}

Init ==
    /\ entry = [k \in Keys |-> [payload |-> None, decision |-> "none", status |-> "none"]]
    /\ answer = [r \in Posts |-> "none"]

(* d is the policy's decision; only "review" leaves something for a human to conclude. *)
Decide(k, x, d) ==
    /\ entry[k].decision = "none"
    /\ entry' = [entry EXCEPT ![k] =
                    [payload |-> x, decision |-> d,
                     status |-> IF d = "review" THEN "pending" ELSE "not_required"]]
    /\ UNCHANGED answer

Conclude(k, outcome) ==
    /\ entry[k].status = "pending"
    /\ entry' = [entry EXCEPT ![k].status = outcome]
    /\ UNCHANGED answer

(* The stored decision to whoever posts the stored payload, a conflict to others. *)
Answer(r, k, x) ==
    /\ answer[r] = "none"
    /\ entry[k].decision # "none"
    /\ answer' = [answer EXCEPT ![r] = IF entry[k].payload = x THEN entry[k].decision
                                       ELSE "conflict"]
    /\ UNCHANGED entry

Next ==
    \/ \E k \in Keys, x \in Payloads, d \in Decisions : Decide(k, x, d)
    \/ \E k \in Keys, outcome \in {"approved", "rejected"} : Conclude(k, outcome)
    \/ \E r \in Posts, k \in Keys, x \in Payloads : Answer(r, k, x)

Spec == Init /\ [][Next]_<<entry, answer>>
=============================================================================
