---------------------------- MODULE PolicyGrowth ----------------------------
(***************************************************************************)
(* What evaluate_policy promises of one receipt, and of two receipts of    *)
(* one change that are a finding apart, under settings s.  No part of the  *)
(* code: the promises range over the receipts of Change, and Grown says    *)
(* how a receipt gets worse.                                               *)
(***************************************************************************)
EXTENDS Policy

CONSTANT Lines   \* the numbers of changed lines considered

ASSUME LinesAreNumbers == Lines \subseteq Nat

Change == [files : FileSets, tests : SUBSET Outcomes, network : BOOLEAN,
           lines : Lines, protected : BOOLEAN, override : BOOLEAN, approver : BOOLEAN]

(* A file, a test run, a tool call or a piece of context more. *)
Grown(r) ==
    {[r EXCEPT !.files = @ \cup {f}] : f \in File}
        \cup {[r EXCEPT !.lines = n] : n \in Lines}
        \cup {[r EXCEPT !.tests = @ \cup {outcome}] : outcome \in Outcomes}
        \cup {[r EXCEPT !.network = TRUE], [r EXCEPT !.protected = TRUE],
              [r EXCEPT !.override = TRUE], [r EXCEPT !.approver = TRUE]}
-----------------------------------------------------------------------------
(* What is not allowed has a violation that says why, and nothing else has one. *)
GivesReasons(s) == \A r \in Change : Decide(r, s) = "allow" <=> Violations(r, s) = {}

(* The rule that decides r comes after one that g meets, and is set stricter. *)
Overshadowed(r, g, s) ==
    \E i, j \in 1..5 :
        /\ \A k \in 1..j : Applies(k, r, s) <=> k = j
        /\ i < j /\ Applies(i, g, s)
        /\ Rank(Chosen(i, s)) < Rank(Chosen(j, s))

(* A further finding is never answered more softly, under any settings, but in one case:
   it brings in a rule that the administrator set softer than a later one.  Code without
   tests that is allowed hides a network call that would be blocked. *)
NeverSoftens(s) ==
    \A r \in Change : \A g \in Grown(r) :
        AtLeast(r, g) => Rank(Decide(r, s)) <= Rank(Decide(g, s)) \/ Overshadowed(r, g, s)
=============================================================================
