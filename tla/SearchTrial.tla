---------------------------- MODULE SearchTrial ----------------------------
(* A search trial of the AR0, AR1 and AR2 studies: points proposed by four   *)
(* operators over an archive of elites, with the operator chosen by weight   *)
(* or by upper confidence bound over the credit each has earned. (The        *)
(* stagnation-aware trial of AR2 is Ar2Trial's.)                             *)
(*                                                                           *)
(* The random generator is a draw: which parents, by their place in the      *)
(* archive, and which point comes of them.                                   *)
EXTENDS Landscapes

CONSTANTS
    Flips, Cuts,    \* bound: the positions a mutation or a crossover draws
    Radicals,       \* bound: the points a radical draw may give
    StepsOf,        \* bound: [policy -> the trial's proposals]
    Ln              \* the logarithms of 2, 3, ..., in thousandths

Operators == <<"mutation", "crossover", "simplification", "radical">>
OperatorCost == [mutation |-> 100, crossover |-> 120, simplification |-> 90, radical |-> 150]

ArchiveKey(s, p) == IF s.collapsed THEN <<>> ELSE NicheOf(s.land, p)
-----------------------------------------------------------------------------
(* The trials the studies run.                                               *)
Setup(l, policy, mode, weight, inverted, collapsed) ==
    [land |-> l, policy |-> policy, mode |-> mode, weight |-> weight,
     inverted |-> inverted, collapsed |-> collapsed]

Ar0Policies == {"greedy", "map_elites_fixed", "adaptive_ucb", "adaptive_ucb_aged"}
Ar1Policies == {"map_elites_fixed", "adaptive_ucb", "adaptive_qd_ucb"}

Of(study) == {l \in VerifiedLandscapes : l.study = study}

Ar0Setups ==
    LET Plain(l, policy, weight) == Setup(l, policy, "novelty", weight, FALSE, FALSE)
        sparse == {l \in Of("ar0") : l.family = "sparse_reward"}
    IN  {Plain(l, policy, IF policy = "adaptive_ucb_aged" THEN 500 ELSE 250) :
            l \in Of("ar0"), policy \in Ar0Policies}
        \cup {Setup(l, "adaptive_ucb", "novelty", 250, TRUE, FALSE) : l \in sparse}
        \cup {Setup(l, "adaptive_ucb", "novelty", 0, FALSE, FALSE) : l \in sparse}
        \cup {Setup(l, "adaptive_ucb", "novelty", 250, FALSE, TRUE) : l \in sparse}
        \* the reproducibility check leaves the weight at its default
        \cup {Plain(l, "adaptive_ucb_aged", 250) :
                l \in {m \in Of("ar0") : m.family = "neutral_plateau"}}

Ar1Setups ==
    LET sparse == {l \in Of("ar1") : l.family = "sparse_reward"}
        Ablated(l, mode, inverted, collapsed) ==
            Setup(l, "adaptive_qd_ucb", mode, 250, inverted, collapsed)
    IN  {Setup(l, policy, IF policy = "adaptive_ucb" THEN "novelty" ELSE "primary",
               250, FALSE, FALSE) : l \in Of("ar1"), policy \in Ar1Policies}
        \cup {Ablated(l, "cost_best_only", FALSE, FALSE) : l \in sparse}
        \cup {Ablated(l, "primary", TRUE, FALSE) : l \in sparse}
        \cup {Ablated(l, "primary", FALSE, TRUE) : l \in sparse}

\* The fixed policy earns no credit in AR2.
Ar2Setups ==
    {Setup(l, "map_elites_fixed", "none", 0, FALSE, FALSE) : l \in Of("ar2")}
    \cup {Setup(l, "adaptive_qd_ucb", "primary", 0, FALSE, FALSE) : l \in Of("ar2")}

Setups == Ar0Setups \cup Ar1Setups \cup Ar2Setups

ASSUME SearchAssumption ==
    /\ \A l \in AllLandscapes :
        /\ Flips \subseteq 1 .. Len(l.target) /\ Cuts \subseteq 1 .. Len(l.target) - 1
        /\ \E r \in Radicals : r \in PointsIn(l)
    /\ Flips # {} /\ Cuts # {}
    /\ \A policy \in DOMAIN StepsOf : StepsOf[policy] \in Nat \ {0, 1}
    /\ \A s \in Setups : s.policy \in DOMAIN StepsOf
    /\ Ln \in Seq(Nat) /\ \A policy \in DOMAIN StepsOf : StepsOf[policy] <= Len(Ln) + 1
-----------------------------------------------------------------------------
(* What a step draws.                                                        *)
Parents(t) ==   \* places in the population
    IF t.archive = <<>> THEN [i \in DOMAIN t.population |-> i]
    ELSE [i \in DOMAIN t.archive |-> t.archive[i].record]

\* The bonus 0.7 * sqrt(ln(total + 1) / uses).
Root(n) == CHOOSE r \in 0 .. n : r * r <= n /\ n < (r + 1) * (r + 1)
Bonus == [total \in DOMAIN Ln |-> [uses \in DOMAIN Ln |-> Root((490 * Ln[total]) \div uses)]]

Confidence(t, total, op) ==
    LET earned == IF t.setup.mode = "novelty" THEN t.credit[op]
                  ELSE (100 * t.credit[op]) \div (2 * OperatorCost[op])
    IN  earned \div t.uses[op] + Bonus[total][t.uses[op]]

\* The first of the operators that satisfy P, in the order they are listed.
FirstOperator(P(_)) == Operators[Min({i \in DOMAIN Operators : P(Operators[i])})]

ChosenOperators(t) ==
    LET used == Range(Operators)
        total == SumFunction(t.uses)
        value == [op \in used |-> Confidence(t, total, op)]
    IN  IF t.setup.policy = "greedy" THEN {"mutation"}
        ELSE IF t.setup.policy = "map_elites_fixed" THEN used
        ELSE IF \E op \in used : t.uses[op] = 0 THEN {FirstOperator(LAMBDA op : t.uses[op] = 0)}
        ELSE {FirstOperator(LAMBDA op : value[op] = Max(Range(value)))}

\* Where the first parent is drawn from: the best, the oldest, or any.
Eligible(t) ==
    LET all == Parents(t)
        Number(i) == t.population[all[i]].number
        oldest == Min({Number(i) : i \in DOMAIN all})
    IN  CASE t.setup.policy = "greedy" -> <<t.best>>
          [] t.setup.policy = "adaptive_ucb_aged" ->
                <<all[Min({i \in DOMAIN all : Number(i) = oldest})]>>
          [] OTHER -> all

\* What the operator can make of the i-th eligible parent.
Proposed(t, op, first, i) ==
    LET all == Parents(t)
        point == t.population[first[i]].point
        Alone(outcomes) == {[op |-> op, from |-> <<i>>, point |-> p] : p \in outcomes}
    IN  CASE op = "mutation" -> Alone({Mutate(point, at) : at \in Flips})
          [] op = "crossover" ->
                {[op |-> op, from |-> <<i, j>>,
                  point |-> Crossover(point, t.population[all[j]].point, cut)] :
                    j \in DOMAIN all, cut \in Cuts}
          [] op = "simplification" -> Alone(Simplified(point))
          [] op = "radical" -> Alone(Radicals \cap PointsIn(t.setup.land))

Proposals(t) ==
    LET first == Eligible(t)
    IN  UNION {UNION {Proposed(t, op, first, i) : i \in DOMAIN first} :
                op \in ChosenOperators(t)}

\* The records a draw names, as places in the population.
ParentsDrawn(t, draw) ==
    IF Len(draw.from) = 1 THEN <<Eligible(t)[draw.from[1]]>>
    ELSE <<Eligible(t)[draw.from[1]], Parents(t)[draw.from[2]]>>
-----------------------------------------------------------------------------
(* What a step records.                                                      *)
BestScore(t) == IF t.best = 0 THEN MinusInfinity ELSE t.population[t.best].score

Qd(t) ==
    LET worth == [i \in DOMAIN t.archive |->
                    Normal(t.setup.land, t.population[t.archive[i].record].score)]
    IN  Min({1000, (1000 * SumFunction(worth)) \div t.setup.land.ideal})

\* _observe, for the seed and a proposal alike.
Added(t, record) ==
    LET at == Len(t.population) + 1
        key == ArchiveKey(t.setup, record.point)
        held == {i \in DOMAIN t.archive : t.archive[i].key = key}
        better == {i \in held : record.score > t.population[t.archive[i].record].score}
        entry == [key |-> key, record |-> at]
        archive == IF record.score = MinusInfinity THEN t.archive
                   ELSE IF held = {} THEN Append(t.archive, entry)
                   ELSE [i \in DOMAIN t.archive |->
                            IF i \in better THEN entry ELSE t.archive[i]]
    IN  [t EXCEPT !.population = Append(@, record),
                  !.archive = archive,
                  !.seen = @ \cup {record.point},
                  !.best = IF record.score > BestScore(t) THEN at ELSE @,
                  !.maxDepth = Max({@, record.depth})]

WithCurve(t) ==
    [t EXCEPT !.curve = Append(@,
        [best |-> Normal(t.setup.land, BestScore(t)), qd |-> Qd(t), cost |-> t.cost])]

NewSearch(s) ==
    LET zero == [op \in Range(Operators) |-> 0]
        zeros == Zeros(Len(s.land.target))
        seed == [point |-> zeros, score |-> PointScore(s.land, zeros), depth |-> 0,
                 number |-> 0, op |-> "seed", parents |-> <<>>]
    IN  WithCurve(Added(
            [setup |-> s, step |-> 0, population |-> <<>>, archive |-> <<>>, seen |-> {},
             best |-> 0, curve |-> <<>>, cost |-> 0, improvements |-> zero, credit |-> zero,
             uses |-> zero, valid |-> 0, duplicates |-> 0, novelty |-> 0, maxDepth |-> 0], seed))

\* Mutant: the first record of that number.
DepthFirst(t, number) ==
    LET held == {i \in DOMAIN t.population : t.population[i].number = number}
    IN  IF held = {} THEN 0 ELSE t.population[Min(held)].depth

\* _depth: the last record of that number. The seed and the first proposal
\* share theirs, since the step is counted after the proposal is observed.
Depth(t, number) ==
    LET held == {i \in DOMAIN t.population : t.population[i].number = number}
    IN  IF held = {} THEN 0 ELSE t.population[Max(held)].depth

\* A new niche counts against every valid point seen, and under AR1 against
\* its true niche even when the archive is collapsed.
Reward(before, after, op) ==
    LET new == Last(after.population)
        KeyOf(p) == IF before.setup.land.study = "ar0" THEN ArchiveKey(before.setup, p)
                    ELSE NicheOf(before.setup.land, p)
        isNew == /\ new.score # MinusInfinity
                 /\ \A i \in DOMAIN before.population :
                        before.population[i].score = MinusInfinity
                        \/ KeyOf(before.population[i].point) # KeyOf(new.point)
        bestDelta == Last(after.curve).best - Last(before.curve).best
        qdDelta == Last(after.curve).qd - Last(before.curve).qd
    IN  CASE before.setup.mode = "novelty" -> bestDelta + (IF isNew THEN before.setup.weight ELSE 0)
          [] before.setup.mode = "cost_best_only" -> 2 * bestDelta   \* in halves, undivided
          [] before.setup.mode = "primary" -> bestDelta + qdDelta
          [] before.setup.mode = "none" -> 0

SearchRecord(t, draw) ==
    LET parents == ParentsDrawn(t, draw)
        depths == {Depth(t, t.population[parents[i]].number) : i \in DOMAIN parents}
    IN  [point |-> draw.point, score |-> PointScore(t.setup.land, draw.point),
         depth |-> Max(depths) + 1, number |-> t.step, op |-> draw.op, parents |-> parents]

\* The counters of the step that took the trial from t to after.
Counted(t, draw, after) ==
    LET new == Last(after.population)
        others == t.seen \ {draw.point}
        nearest == IF others = {} THEN 0 ELSE Min({Hamming(draw.point, q) : q \in others})
        reward == Reward(t, after, draw.op)
        More(counts, n) == [counts EXCEPT ![draw.op] = @ + n]
    IN  [after EXCEPT
            !.step = @ + 1,
            !.uses = More(@, 1),
            !.improvements = More(@, IF new.score > BestScore(t) THEN 1 ELSE 0),
            !.credit = More(@, IF t.setup.inverted THEN -reward ELSE reward),
            !.valid = @ + (IF new.score = MinusInfinity THEN 0 ELSE 1),
            !.duplicates = @ + (IF draw.point \in t.seen THEN 1 ELSE 0),
            !.novelty = @ + nearest]

SearchStepOf(t, draw) ==
    LET added == Added(t, SearchRecord(t, draw))
    IN  Counted(t, draw, WithCurve([added EXCEPT !.cost = @ + OperatorCost[draw.op]]))

\* snapshot and from_snapshot, through JSON: the archive keeps its order.
SearchSnapshot(t) ==
    [setup |-> t.setup, step |-> t.step, population |-> t.population, archive |-> t.archive,
     seen |-> t.seen, best |-> t.best, curve |-> t.curve, cost |-> t.cost,
     improvements |-> t.improvements, credit |-> t.credit, uses |-> t.uses,
     valid |-> t.valid, duplicates |-> t.duplicates, novelty |-> t.novelty,
     maxDepth |-> t.maxDepth]

\* Where recovery_check cuts the trial.
Split(s) == Max({1, StepsOf[s.policy] \div 2})
=============================================================================
