---------------------------- MODULE MCRalyTypes ----------------------------
(* An instance of RalyTypes for TLC: two spaces, two roles in the first.     *)
EXTENDS RalyTypes

CONSTANTS s1, s2, color, shape

OneFamily == [s \in Spaces |-> "MAP"]
TwoDimensions == [s \in Spaces |-> IF s = s1 THEN 256 ELSE 512]
SmallCapacity == [s \in Spaces |-> IF s = s1 THEN 2 ELSE NoCapacity]
RolesOfFirst == [r \in Roles |-> s1]

\* Vec[s1], Vec[s1; load 2; clean], Vec[s1; roles {color}] and Sym[s1].
SomeTypes ==
    {Vec(s1, AnyLoad, UnknownRow, "unknown", 0),
     Vec(s1, Exactly(2), UnknownRow, "clean", 0),
     Vec(s1, AnyLoad, Extend(ClosedEmpty, color), "unknown", 0),
     Sym(s1, NoRole)}

\* fn f(v: Vec[s1; load 3]) -> Vec[s1]
OneFunction ==
    {[param |-> Vec(s1, Exactly(3), UnknownRow, "unknown", 0),
      ret |-> Vec(s1, AnyLoad, UnknownRow, "unknown", 0)]}
=============================================================================
