-------------------------- MODULE MCPolicyConfigs --------------------------
(* Small instances of PolicyConfigs: failed tests that block by default and are only
   reviewed under the offered alternative, which also is not descending: it allows code
   without tests and blocks a network call. *)
EXTENDS PolicyConfigs, TLC

Lenient == [DefaultSettings EXCEPT !.failed_tests = "review", !.network_access = "block",
                                   !.code_without_passing_tests = "allow"]
TwoSettings == {DefaultSettings, Lenient}

FailedTests ==
    {[files |-> {[secret |-> FALSE, code |-> TRUE]}, tests |-> {"failed"}, network |-> FALSE,
      lines |-> 1, protected |-> FALSE, override |-> FALSE, approver |-> FALSE]}

RequestSymmetry == Permutations(Creates) \cup Permutations(Deactivates) \cup Permutations(Ingests)
                   \cup Permutations(Repos)
=============================================================================
