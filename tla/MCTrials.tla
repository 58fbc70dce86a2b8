------------------------------ MODULE MCTrials ------------------------------
(* An instance of Trials. Burst trials: the origin, two better points, one   *)
(* infeasible. Search trials: four bits or, in AR2, six; few draws.          *)
EXTENDS Trials

CONSTANTS origin, near, far, broken

Scores == [p \in Points |-> CASE p = origin -> 1 [] p = near -> 2 [] p = far -> 3
                              [] p = broken -> Infeasible]
TwoNiches == [p \in Points |-> IF p \in {origin, far} THEN "low" ELSE "high"]
TwoCosts == [op \in {"mutation", "radical"} |-> IF op = "mutation" THEN 1 ELSE 2]
SomeDraws ==
    {[op |-> "mutation", point |-> origin], [op |-> "radical", point |-> near],
     [op |-> "radical", point |-> far], [op |-> "mutation", point |-> broken]}
TwoTargets == {<<1, 1, 0, 0>>, <<1, 0, 1, 1>>}
SixBits == {<<1, 0, 1, 1, 0, 0>>}
FewRadicals == {<<1, 1, 1, 1>>, <<1, 1, 0, 0>>, <<1, 0, 1, 1, 0, 0>>, <<1, 0, 1, 0, 1, 0>>}
Logarithms == <<693, 1099, 1386, 1609, 1792, 1946, 2079>>
FewSteps == [policy \in Ar0Policies \cup Ar1Policies |->
                CASE policy = "map_elites_fixed" -> 3
                  [] policy = "adaptive_ucb" -> 5
                  [] OTHER -> 6]
=============================================================================
