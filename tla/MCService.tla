----------------------------- MODULE MCService -----------------------------
(* Small instances of Service: the default policy and one under which failed tests are
   only reviewed. *)
EXTENDS Service, TLC

TwoPolicies == {DefaultSettings, [DefaultSettings EXCEPT !.failed_tests = "review"]}

Clean == [files |-> 1, scan |-> [readable |-> TRUE, detected |-> FALSE, paths |-> {}],
          passed |-> TRUE, report |-> "true"]

(* Tests that fail, unseen by their report or with a report that cannot be read; a secret
   outside the diff; no diff and a scanner file that cannot be read. *)
SomeWorlds ==
    {Clean} \cup {[Clean EXCEPT !.passed = FALSE, !.report = r] : r \in {"passing", "malformed"}}
            \cup {[Clean EXCEPT !.scan.paths = {2}],
                  [Clean EXCEPT !.scan.readable = FALSE, !.files = 0]}
EnforceBoth == {{"review", "block"}}
=============================================================================
