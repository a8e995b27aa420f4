---------------------------- MODULE MCRunLedger ----------------------------
(* Small instances of RunLedger.  Requests of one kind, payloads and processes
   are interchangeable: nothing in RunLedger orders them. *)
EXTENDS RunLedgerInv, TLC

RequestSymmetry == Permutations(Posts) \cup Permutations(Reviews) \cup Permutations(Exports)
                   \cup Permutations(Payloads) \cup Permutations(Processes)
=============================================================================
