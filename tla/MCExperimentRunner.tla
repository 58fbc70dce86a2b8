------------------------- MODULE MCExperimentRunner -------------------------
(* Instances of ExperimentRunner for TLC. *)
EXTENDS ExperimentRunner

\* --arm both, and --arm evolve.
BothArms == {<<"greedy", "evolve">>}
EvolveOnly == {<<"evolve">>}
=============================================================================
