---------------------------- MODULE MCTournament ----------------------------
(* An instance of Tournament for TLC: two reviewers, a canary for the second. *)
EXTENDS Tournament, TLC

CONSTANTS luna, gemini, canaryGemini

TwoReviewers == <<luna, gemini>>
OneCanary == <<canaryGemini>>

\* Every call costs at most one unit.
UnitCosts == [n \in Names |-> 1]
=============================================================================
