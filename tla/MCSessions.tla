----------------------------- MODULE MCSessions -----------------------------
(* Small instances of Sessions.  Users are interchangeable, and so are requests. *)
EXTENDS Sessions, TLC

Symmetry == Permutations(Users) \cup Permutations(Requests)
=============================================================================
