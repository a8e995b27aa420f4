---------------------------- MODULE MCCheckRuns ----------------------------
(* Small instances of CheckRuns.  Webhooks, deliveries, runs and receipts are each
   interchangeable; the runs that check liveness use no symmetry. *)
EXTENDS CheckRuns, TLC

Symmetry == Permutations(Hooks) \cup Permutations(Guids)
            \cup Permutations(Runs) \cup Permutations(Receipts)
=============================================================================
