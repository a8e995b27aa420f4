------------------------------- MODULE Clients -------------------------------
(***************************************************************************)
(* The CI jobs that post receipts: the connectors for GitLab, CircleCI,    *)
(* Buildkite and Jenkins (connectors/), the GitHub Actions scripts         *)
(* (scripts/) and the agent wrapper (adapters/).                           *)
(*                                                                         *)
(* A job builds a receipt from what it finds in its checkout, posts it     *)
(* once and ends by the answer; the pipeline it is part of ends green or   *)
(* red by the job's exit code.  The jobs modelled are attempts at one      *)
(* commit of one branch: what differs from attempt to attempt is the       *)
(* timestamp, so a receipt is named by its job.                            *)
(***************************************************************************)
EXTENDS Policy, FiniteSets

CONSTANTS
    Jobs,       \* attempts
    Systems,    \* CI systems with a connector, and "actions" and "agent"
    MaxFiles,   \* bound on the files of a diff
    Worlds,     \* what jobs may find
    Enforced,   \* sets of decisions a job is told to fail on: EVIDENCEPLANE_ENFORCE_*
    Seconds     \* seconds in which the agent wrapper may start

ASSUME SystemsAssumption == {"jenkins", "actions", "agent"} \subseteq Systems
ASSUME MaxFilesAssumption == MaxFiles \in Nat

Connectors == Systems \ {"actions", "agent"}

(* What a job finds: the files of the diff (0: git fails), what the secret scanner
   reported (paths above the number of files are not in the diff), how the tests ended
   and what their JUnit report says of it. *)
Scan == [readable : BOOLEAN, detected : BOOLEAN, paths : SUBSET (1..(MaxFiles + 1))]
World == [files : 0..MaxFiles, scan : Scan, passed : BOOLEAN,
          report : {"true", "passing", "missing", "malformed"}]

ASSUME WorldsAssumption == Worlds \subseteq World
ASSUME EnforcedAssumption == Enforced \subseteq SUBSET {"review", "block"}

VARIABLES
    job    \* job[j]: a job's receipt, its exit code once it ended, and how its pipeline ended

(* secret and passed are history variables for connectors, which report neither. *)
Bare == [files |-> {[secret |-> FALSE, code |-> FALSE]}, tests |-> {}, network |-> FALSE,
         lines |-> 1, protected |-> FALSE, override |-> FALSE, approver |-> FALSE]
NotStarted == [state |-> "new", system |-> "agent", second |-> 0, receipt |-> Bare,
               enforced |-> {}, secret |-> FALSE, passed |-> TRUE, dry |-> FALSE,
               sent |-> FALSE, code |-> 0]

JobsInit == job = [j \in Jobs |-> NotStarted]
-----------------------------------------------------------------------------
(* Receipts *)

(* The key: of the commit for connectors, of the attempt for GitHub Actions, of the
   commit and the second for the agent wrapper. *)
Key(j) ==
    CASE job[j].system \in Connectors -> <<job[j].system, 0>>
      [] job[j].system = "actions" -> <<"actions", j>>
      [] job[j].system = "agent" -> <<"agent", job[j].second>>

(* apply_secret_findings: the files that get secret_detected. *)
MarkMatching(n, scan) == scan.paths \cap 1..n
Marked(n, scan) ==
    LET hit == scan.paths \cap 1..n
    IN IF ~scan.detected /\ scan.paths = {} THEN {} ELSE IF hit # {} THEN hit ELSE {1}

(* Without a diff, a placeholder that is no code stands for the repository. *)
Files(n, marked) ==
    IF n = 0 THEN {[secret |-> 1 \in marked, code |-> FALSE]}
    ELSE {[secret |-> i \in marked, code |-> TRUE] : i \in 1..n}

Outcome(ok) == IF ok THEN {"passed"} ELSE {"failed"}
Reported(w) == IF w.report = "passing" THEN {"passed"} ELSE Outcome(w.passed)

(* Connectors look for no secrets, and an unreadable report is no report. *)
ConnectorReceipt(w) ==
    [Bare EXCEPT !.files = Files(w.files, {}),
                      !.tests = IF w.report \in {"missing", "malformed"} THEN {} ELSE Reported(w)]

(* github_actions_receipt.py: an unreadable scanner file counts as no finding, and
   without a report the exit code is the test. *)
ActionsReceipt(w) ==
    [Bare EXCEPT
        !.files = Files(w.files, IF w.scan.readable THEN Marked(w.files, w.scan) ELSE {}),
        !.tests = IF w.report = "missing" THEN Outcome(w.passed) ELSE Reported(w)]

(* agent_wrapper.py: the exit code of the test command is the test. *)
AgentReceipt(w) ==
    [Bare EXCEPT !.files = Files(w.files, Marked(w.files, w.scan)),
                      !.tests = Outcome(w.passed)]

(* ET.parse raises; read_scanner_result and changed_files raise RuntimeError. *)
Builds(system, w) ==
    /\ system = "actions" => w.report # "malformed"
    /\ system = "agent" => w.files > 0 /\ w.scan.readable

ReceiptOf(system, w) ==
    CASE system \in Connectors -> ConnectorReceipt(w)
      [] system = "actions" -> ActionsReceipt(w)
      [] system = "agent" -> AgentReceipt(w)

(* Did a scanner the job looks at report a secret? *)
Scanned(system, w) ==
    system \in {"actions", "agent"} /\ w.scan.readable /\ (w.scan.detected \/ w.scan.paths # {})
-----------------------------------------------------------------------------
(* Exit codes *)

ShouldFail(d, j) == d \in job[j].enforced

DecisionExitCode(d) == IF d = "block" THEN 1 ELSE 0

(* The last step of the workflow fails the job when the tests failed and the feedback
   step did not. *)
WorkflowExitCode(d, j) == IF ShouldFail(d, j) \/ ~job[j].passed THEN 1 ELSE 0

ExitCode(d, j) ==
    CASE job[j].system \in Connectors -> DecisionExitCode(d)
      [] job[j].system = "actions" -> WorkflowExitCode(d, j)
      [] job[j].system = "agent" -> IF ShouldFail(d, j) THEN 1 ELSE 0

(* 128 + SIGKILL; stands for every exit code that no program of a job returns by itself
   and that is neither 0 nor 1: a killed one's, or the shell's for one it cannot run. *)
KillCode == 137

(* The Jenkinsfile takes the exit code in hand (returnStatus) and halts the pipeline on 1
   alone; elsewhere a step that does not exit 0 fails its job. *)
Pipeline(system, code) ==
    IF code = 0 \/ (system = "jenkins" /\ code # 1) THEN "green" ELSE "red"

Ended(j, code) ==
    job' = [job EXCEPT ![j].state = Pipeline(job[j].system, code), ![j].code = code]

(* require_env, git, the scanner's file, JUnit: a receipt or exit code 1 (or 2, which the
   connectors do not use). *)
BuildFails(j, system, w) ==
    /\ ~Builds(system, w)
    /\ job' = [job EXCEPT ![j] = [NotStarted EXCEPT !.state = "red", !.code = 1]]

(* The scripts of the workflow have no dry run. *)
DryRun(j, system, w) ==
    /\ Builds(system, w) /\ system # "actions"
    /\ job' = [job EXCEPT ![j] = [NotStarted EXCEPT !.state = "green", !.dry = TRUE]]

(* Connectors take no flags: decision_exit_code fails on a block. *)
Submit(j, system, w) ==
    /\ Builds(system, w)
    /\ \E enforced \in (IF system \in Connectors THEN {{"block"}} ELSE Enforced),
          second \in (IF system = "agent" THEN Seconds ELSE {0}) :
          job' = [job EXCEPT ![j] =
                [state |-> "posted", system |-> system, second |-> second,
                 receipt |-> ReceiptOf(system, w), enforced |-> enforced,
                 secret |-> Scanned(system, w), passed |-> w.passed, dry |-> FALSE,
                 sent |-> TRUE, code |-> 0]]

Build(j) ==
    /\ job[j].state = "new"
    /\ \E system \in Systems, w \in Worlds :
          BuildFails(j, system, w) \/ DryRun(j, system, w) \/ Submit(j, system, w)

(* submit_receipt: the answer to the one POST, 200 with a decision or an error status. *)
HearTrustingConflict(j, answer) ==
    /\ job[j].state = "posted"
    /\ Ended(j, IF answer \in Decisions THEN ExitCode(answer, j) ELSE 0)
Hear(j, answer) ==
    /\ job[j].state = "posted"
    /\ Ended(j, IF answer \in Decisions THEN ExitCode(answer, j) ELSE 1)

(* No answer within 10 or 15 seconds, or no connection. *)
GiveUp(j) ==
    /\ job[j].state = "posted"
    /\ Ended(j, 1)

(* The job's process is killed while it waits for the answer, or, before it posted anything,
   a connector is killed or cannot be run under Jenkins (elsewhere that is a red job that
   posted nothing, as in BuildFails). *)
Kill(j) ==
    \/ /\ job[j].state = "posted"
       /\ Ended(j, KillCode)
    \/ /\ job[j].state = "new"
       /\ job' = [job EXCEPT ![j] = [NotStarted EXCEPT !.system = "jenkins", !.code = KillCode,
                                                       !.state = Pipeline("jenkins", KillCode)]]
=============================================================================
