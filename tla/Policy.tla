------------------------------- MODULE Policy -------------------------------
(***************************************************************************)
(* evaluate_policy of EvidencePlane (app/services/policy.py): a chain of   *)
(* rules of which the first that applies decides, and an override check    *)
(* after it.  A receipt is what the rules look at: its changed files, the  *)
(* outcomes of its tests, whether a tool call used the network, how many   *)
(* lines changed, and its policy context.                                  *)
(***************************************************************************)
EXTENDS Integers

Decisions == {"allow", "review", "block"}
Rank(d) == CASE d = "allow" -> 0 [] d = "review" -> 1 [] d = "block" -> 2

File == [secret : BOOLEAN, code : BOOLEAN]
Outcomes == {"passed", "failed", "skipped"}
FileSets == (SUBSET File) \ {{}}
Receipt == [files : FileSets, tests : SUBSET Outcomes, network : BOOLEAN,
            lines : Nat, protected : BOOLEAN, override : BOOLEAN, approver : BOOLEAN]

Thresholds == {n \in Nat : 1 <= n /\ n <= 100000}

(* PolicySettings as validated by PolicyConfigPayload. *)
Settings == [failed_tests : {"review", "block"}, code_without_passing_tests : Decisions,
             network_access : Decisions, large_protected_branch_change : Decisions,
             large_change_threshold : Thresholds]

DefaultSettings == [failed_tests |-> "block", code_without_passing_tests |-> "review",
                    network_access |-> "review", large_protected_branch_change |-> "review",
                    large_change_threshold |-> 500]
-----------------------------------------------------------------------------
(* The chain *)

Codes == {"SECRET_PATTERN_DETECTED", "FAILED_TESTS", "NO_TEST_EVIDENCE", "NETWORK_TOOL_USAGE",
          "LARGE_CHANGE_ON_PROTECTED_BRANCH", "OVERRIDE_WITHOUT_APPROVER"}

Code == << "SECRET_PATTERN_DETECTED", "FAILED_TESTS", "NO_TEST_EVIDENCE",
           "NETWORK_TOOL_USAGE", "LARGE_CHANGE_ON_PROTECTED_BRANCH" >>

(* Does the condition of the i-th branch hold?  Branch 6 is the final else. *)
Applies(i, r, s) ==
    CASE i = 1 -> \E f \in r.files : f.secret
      [] i = 2 -> "failed" \in r.tests
      [] i = 3 -> (\E f \in r.files : f.code) /\ "passed" \notin r.tests
      [] i = 4 -> r.network
      [] i = 5 -> r.protected /\ r.lines > s.large_change_threshold
      [] i = 6 -> TRUE

LastBranch(r, s) ==
    CHOOSE i \in 1..6 : /\ Applies(i, r, s)
                       /\ \A j \in 1..5 : Applies(j, r, s) => j <= i /\ i # 6

Branch(r, s) ==
    CHOOSE i \in 1..6 : Applies(i, r, s) /\ \A j \in 1..6 : Applies(j, r, s) => i <= j

(* What the i-th branch decides, before the override check. *)
Chosen(i, s) ==
    << "block", s.failed_tests, s.code_without_passing_tests, s.network_access,
       s.large_protected_branch_change, "allow" >>[i]

(* _risk, and the scores of the branches that do not use it. *)
Score(i, d) ==
    CASE i = 1 -> 95
      [] i = 2 /\ d = "block" -> 90
      [] i > 2 /\ d = "block" -> 85
      [] d = "allow" -> 12
      [] d = "review" -> << 0, 65, 60, 55, 70 >>[i]

(* emergency_override without an approver_email. *)
OverrideUnapproved(r) == r.override /\ ~r.approver

Decide(r, s) == IF OverrideUnapproved(r) THEN "block" ELSE Chosen(Branch(r, s), s)

Risk(r, s) ==
    IF OverrideUnapproved(r) THEN 100 ELSE Score(Branch(r, s), Chosen(Branch(r, s), s))

(* The codes of the violations a run is stored with. *)
ViolationsSilentOnAllow(r, s) ==
    LET i == Branch(r, s)
    IN {Code[j] : j \in {j \in 1..5 : j = i /\ Chosen(i, s) = "review"}}
       \cup {c \in {"OVERRIDE_WITHOUT_APPROVER"} : OverrideUnapproved(r)}

Violations(r, s) ==
    LET i == Branch(r, s)
    IN {Code[j] : j \in {j \in 1..5 : j = i /\ (i <= 2 \/ Chosen(i, s) # "allow")}}
       \cup {c \in {"OVERRIDE_WITHOUT_APPROVER"} : OverrideUnapproved(r)}
-----------------------------------------------------------------------------
(* b reports everything a does and perhaps more; passed tests are the one thing whose
   absence is a finding. *)
AtLeast(a, b) ==
    /\ a.files \subseteq b.files
    /\ a.tests \ {"passed"} \subseteq b.tests
    /\ "passed" \in b.tests => "passed" \in a.tests
    /\ a.network => b.network
    /\ a.protected => b.protected
    /\ a.lines <= b.lines
    /\ OverrideUnapproved(a) => OverrideUnapproved(b)

(* No rule is stricter than one before it. *)
Descending(s) ==
    /\ Rank(s.code_without_passing_tests) <= Rank(s.failed_tests)
    /\ Rank(s.network_access) <= Rank(s.code_without_passing_tests)
    /\ Rank(s.large_protected_branch_change) <= Rank(s.network_access)
=============================================================================
