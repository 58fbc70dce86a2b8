----------------------------- MODULE Landscapes -----------------------------
(* The synthetic landscapes of the AR0, AR1 and AR2 studies: bit vectors, a   *)
(* score for the feasible ones, and what enumerating them all finds.          *)
(*                                                                           *)
(* Normalised values are thousandths. An AR0 or AR1 score is in its own unit *)
(* (halves for the epistatic families), an AR2 score in hundredths.          *)
EXTENDS Integers, SequencesExt, FiniteSetsExt

CONSTANTS
    Ar0Dimension,            \* 8 in the code
    MaxOnes,                 \* the feasible weight of constraint_heavy
    Ar1Targets, Ar2Targets,  \* bound: the targets the instance seeds draw
    Rotations                \* bound: seed % dimension of the blind AR2 family

ASSUME LandscapeAssumption ==
    /\ Ar0Dimension \in Nat /\ Ar0Dimension >= 2 /\ MaxOnes \in Nat /\ Rotations \subseteq Nat
    /\ \A t \in Ar1Targets \cup Ar2Targets : t \in Seq({0, 1}) /\ Len(t) >= 2

\* A point is as long as its landscape's target.
PointsOf(n) == [1 .. n -> {0, 1}]
Zeros(n) == [i \in 1 .. n |-> 0]
Left(n) == 1 .. n \div 2
Right(n) == n \div 2 + 1 .. n
OnesIn(p, places) == Cardinality({i \in places : p[i] = 1})
Agree(p, q, places) == Cardinality({i \in places : p[i] = q[i]})
Hamming(p, q) == Len(p) - Agree(p, q, DOMAIN p)
Flag(b) == IF b THEN 1 ELSE 0

MinusInfinity == -1   \* below every score

\* Each block of the trap leads away from its own optimum.
Trap(p, target, size, top) ==
    LET matches == [start \in {i \in DOMAIN p : i % size = 1} |->
                        Agree(p, target, start .. start + size - 1)]
    IN  SumFunction([start \in DOMAIN matches |->
            IF matches[start] = size THEN top ELSE 3 - matches[start]])

\* In halves: the second block is worth something after the first.
Epistatic(p, target) ==
    LET first == \A i \in Left(Len(p)) : p[i] = target[i]
    IN  Flag(first) + Flag(first /\ p = target)

Ar1Score(l, p) ==
    CASE l.family = "deceptive_local" -> Trap(p, l.target, 4, 4)
      [] l.family = "sparse_reward" -> Flag(p = l.target)
      [] l.family = "neutral_plateau" -> Flag(Hamming(p, l.target) <= 2)
      [] l.family = "constraint_heavy" -> Agree(p, l.target, DOMAIN p)
      [] OTHER -> Epistatic(p, l.target)

Ar2Score(l, p) ==
    LET n == Len(p)
        matches == Agree(p, l.target, 1 .. n)
        left == \A i \in Left(n) : p[i] = l.target[i]
        toRight == Cardinality({i \in Right(n) : p[i] # l.target[i]})
        \* the first k thirds, the last taking what is left over
        Thirds(k) == \A i \in 1 .. (IF k = 3 THEN n ELSE k * (n \div 3)) : p[i] = l.target[i]
        full == OnesIn(p, 1 .. n) = n \div 2
    IN  CASE l.family = "deceptive_trap_v2" -> 100 * Trap(p, l.target, 3, 5)
          [] l.family = "sparse_portals_v2" ->
                CASE p = l.target -> 300
                  [] left /\ toRight = 1 -> 60
                  [] left /\ toRight \in 2 .. 3 -> 20
                  [] OTHER -> 0
          [] l.family = "neutral_plateau_v2" ->
                IF matches = n THEN 100 ELSE 35 * Flag(matches >= n - 3)
          [] l.family = "epistatic_bridge_v2" ->
                40 * Flag(Thirds(1)) + 30 * Flag(Thirds(2)) + 30 * Flag(Thirds(3))
          [] l.family = "constraint_ridge_v2" -> 100 * matches + 150 * Flag(left)
          [] l.family = "mixed_pressure_v2" ->
                10 * matches + 100 * Flag(left) + 200 * Flag(p = l.target) + 20 * Flag(full)
          [] l.family = "blind_rotated_composition_v2" ->
                8 * matches + 80 * Flag(left) + 70 * Flag(p = l.target) + 20 * Flag(full)

Capacity(l, n) ==
    CASE l.family = "constraint_heavy" -> MaxOnes
      [] l.family = "constraint_ridge_v2" -> n \div 3
      [] l.family \in {"composed_constraint_epistasis", "mixed_pressure_v2",
                       "blind_rotated_composition_v2"} -> n \div 2
      [] OTHER -> n

FeasibleFn(l, p) == OnesIn(p, DOMAIN p) <= Capacity(l, Len(p))

PointScore(l, p) ==
    IF ~FeasibleFn(l, p) THEN MinusInfinity
    ELSE IF l.study = "ar2" THEN Ar2Score(l, p) ELSE Ar1Score(l, p)

VisibleFamilies == {"deceptive_local", "sparse_reward", "neutral_plateau", "epistatic_crossover"}

Balanced(targets) == {t \in targets : OnesIn(t, DOMAIN t) = Len(t) \div 2}
Rotate(t, by) == [i \in DOMAIN t |-> t[((i + by - 1) % Len(t)) + 1]]

Ar0Landscapes ==
    [study : {"ar0"}, target : {[i \in 1 .. Ar0Dimension |-> 1]},
     family : VisibleFamilies \cup {"constraint_heavy"}]
Ar1Landscapes ==
    [study : {"ar1"}, target : Ar1Targets, family : VisibleFamilies \cup {"constraint_heavy"}]
    \cup [study : {"ar1"}, target : Balanced(Ar1Targets),
          family : {"composed_constraint_epistasis"}]
Ar2Landscapes ==
    [study : {"ar2"}, target : {t \in Ar2Targets : OnesIn(t, DOMAIN t) > 0},
     family : {"deceptive_trap_v2", "sparse_portals_v2", "neutral_plateau_v2",
               "epistatic_bridge_v2"}]
    \cup [study : {"ar2"}, target : Balanced(Ar2Targets),
          family : {"constraint_ridge_v2", "mixed_pressure_v2"}]
    \cup [study : {"ar2"}, family : {"blind_rotated_composition_v2"},
          target : {Rotate(t, by) : t \in Balanced(Ar2Targets), by \in Rotations}]
AllLandscapes == Ar0Landscapes \cup Ar1Landscapes \cup Ar2Landscapes
-----------------------------------------------------------------------------
(* What enumeration finds. AR0 scores from zero, the others from the origin. *)
PointsIn(l) == PointsOf(Len(l.target))
Optimum(l) == Max({PointScore(l, p) : p \in PointsIn(l)})
Baseline(l) ==
    IF l.study = "ar0" THEN 0 ELSE Max({0, PointScore(l, Zeros(Len(l.target)))})

Normal(l, score) ==
    IF score = MinusInfinity THEN 0
    ELSE Max({0, Min({1000, (1000 * (score - l.baseline)) \div (l.optimum - l.baseline)})})

\* Only valid points reach the archive, so their niche is their weights.
NicheOf(l, p) ==
    LET width == IF l.study = "ar2" THEN 3 ELSE 2
    IN  <<OnesIn(p, DOMAIN p) \div width, OnesIn(p, Left(Len(p))) \div width,
          OnesIn(p, Right(Len(p))) \div width>>

\* The normalised best of every niche, together.
IdealQd(l) ==
    LET valid == {p \in PointsIn(l) : FeasibleFn(l, p)}
        In(n) == {p \in valid : NicheOf(l, p) = n}
    IN  SumFunction([n \in {NicheOf(l, p) : p \in valid} |->
            Normal(l, Max({PointScore(l, p) : p \in In(n)}))])

\* A landscape that does not rise above its baseline stops the study before
\* its first trial.
VerifiedLandscapes ==
    LET Scaled(l) == [study |-> l.study, family |-> l.family, target |-> l.target,
                      optimum |-> Optimum(l), baseline |-> Baseline(l)]
        rising == {l \in AllLandscapes : Optimum(l) > Baseline(l)}
    IN  {[study |-> l.study, family |-> l.family, target |-> l.target, optimum |-> l.optimum,
          baseline |-> l.baseline, ideal |-> IdealQd(l)] : l \in {Scaled(m) : m \in rising}}
-----------------------------------------------------------------------------
(* The four operators over points; a draw decides where.                     *)
Mutate(p, at) == [p EXCEPT ![at] = 1 - @]
Crossover(p, q, cut) == SubSeq(p, 1, cut) \o SubSeq(q, cut + 1, Len(p))
Simplified(p) ==
    LET ones == {i \in DOMAIN p : p[i] = 1}
    IN  IF ones = {} THEN {p} ELSE {[p EXCEPT ![i] = 0] : i \in ones}
=============================================================================
