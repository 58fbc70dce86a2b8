----------------------------- MODULE MCActiveRun -----------------------------
(* Instances of ActiveRun for TLC: processes and run ids are interchangeable. *)
EXTENDS ActiveRun, TLC

RunSymmetry == Permutations(Procs) \cup Permutations(Runs)
=============================================================================
