---------------------------- MODULE MCCaseRoom ----------------------------
(* Small instances of CaseRoom.  Requests are interchangeable. *)
EXTENDS CaseRoom, TLC

RequestSymmetry == Permutations(Requests)
=============================================================================
