---------------------------- MODULE MCAuditTrail ----------------------------
(* Small instances of AuditTrail.  Runs, flushes and bundles are interchangeable; the
   runs that check liveness use no symmetry. *)
EXTENDS AuditTrail, TLC

Symmetry == Permutations(Runs) \cup Permutations(Flushes) \cup Permutations(Bundles)
=============================================================================
