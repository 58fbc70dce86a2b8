----------------------------- MODULE MCAr2Study -----------------------------
(* Instances of Ar2Study for TLC. *)
EXTENDS Ar2Study
=============================================================================
