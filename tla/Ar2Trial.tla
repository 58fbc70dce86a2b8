------------------------------ MODULE Ar2Trial ------------------------------
(* One trial of the AR2 study under the stagnation-aware policy: the archive *)
(* of elites, the stall signals, the burst controller with its cooldown, and *)
(* the checkpoint from which a trial is resumed.                             *)
(*                                                                           *)
(* Which operator and which point a step draws is the generator's choice: any *)
(* the first time, and the same again when a restored trial repeats the step. *)
EXTENDS Integers, SequencesExt, FiniteSetsExt

CONSTANTS
    Points,       \* what may be proposed
    Origin,       \* the seed proposal, always feasible
    Score,        \* [Points -> Nat, or Infeasible for -infinity]
    Niche,        \* [Points -> niches]
    Costs,        \* [operators -> Nat \ {0}], in tenths of a cost unit
    Draws,        \* bound: what a step may draw: [op, point]
    Budget,       \* the proposals of a trial
    QdLimit,      \* where the online quality-diversity signal saturates
    Window,       \* 16 receipts
    BestStall, QdStall,   \* 18 and 24 cost units
    MaxBurst,     \* 20 proposals
    EarlyEnd,     \* 4 proposals
    Cooldown,     \* 24 cost units
    MaxRestores,  \* bound: times the trial is restored
    Infeasible, None

ASSUME TrialAssumption ==
    /\ Origin \in Points /\ Origin # None /\ Score \in [Points -> Nat \cup {Infeasible}]
    /\ Score[Origin] \in Nat /\ Infeasible \notin Nat
    /\ Costs \in [DOMAIN Costs -> Nat \ {0}]
    /\ Draws \subseteq [op : DOMAIN Costs, point : Points]
    /\ Window \in Nat \ {0} /\ MaxBurst \in Nat \ {0} /\ EarlyEnd \in Nat \ {0}
    /\ Cooldown \in Nat \ {0}
    /\ {BestStall, QdStall, QdLimit, Budget, MaxRestores} \subseteq Nat

VARIABLES
    trial,     \* the AR2Trial object
    picks,     \* what the generator draws for this seed: [op, point] per step
    full,      \* the receipts of the trial as it first ran
    saved,     \* its last snapshot, or None
    restores

vars == <<trial, picks, full, saved, restores>>
-----------------------------------------------------------------------------
Feasible(p) == Score[p] # Infeasible
Niches == {Niche[p] : p \in Points}
Larger(a, b) == IF a > b THEN a ELSE b

\* The signal is local: what the archive is worth above the seed's score.
OnlineQd(archive) ==
    LET Worth(n) == IF archive[n] = None THEN 0
                    ELSE Larger(0, Score[archive[n]] - Score[Origin])
        raw == MapThenSumSet(Worth, Niches)
    IN  IF raw > QdLimit THEN QdLimit ELSE raw

NewTrial ==
    [step |-> 0, seen |-> {Origin}, best |-> Score[Origin], cost |-> 0,
     archive |-> [n \in Niches |-> IF n = Niche[Origin] THEN Origin ELSE None],
     history |-> <<>>, inBurst |-> FALSE, used |-> 0, progress |-> FALSE,
     cooldownUntil |-> 0, lastBest |-> 0, lastQd |-> 0, onlineQd |-> 0]

\* _signals, over the last receipts: shares are compared, never computed.
Recent(history) == SubSeq(history, Larger(1, Len(history) - Window + 1), Len(history))
Duplicates(rows) == Cardinality({i \in DOMAIN rows : rows[i].duplicate})
Valids(rows) == Cardinality({i \in DOMAIN rows : rows[i].valid})

Stagnates(t) ==
    LET rows == Recent(t.history)
    IN  /\ \/ t.cost - t.lastBest >= BestStall
           \/ t.cost - t.lastQd >= QdStall
        /\ 2 * Duplicates(rows) >= Larger(1, Len(rows))
        /\ 4 * Valids(rows) >= 3 * Larger(1, Len(rows))

\* Mutant: a burst opens in the cooldown of the last.
MaybeStartBurstHot(t) ==
    IF t.inBurst \/ t.step < Window \/ ~Stagnates(t) THEN t
    ELSE [t EXCEPT !.inBurst = TRUE, !.used = 0, !.progress = FALSE]

MaybeStartBurst(t) ==
    IF t.inBurst \/ t.step < Window \/ t.cost < t.cooldownUntil \/ ~Stagnates(t) THEN t
    ELSE [t EXCEPT !.inBurst = TRUE, !.used = 0, !.progress = FALSE]

\* Mutant: a score that ties the best is progress.
RaisesOrTies(t, p) == Feasible(p) /\ Score[p] >= t.best
Raises(t, p) == Feasible(p) /\ Score[p] > t.best

\* _observe: the elite of a niche and the best give way to strictly better.
Observe(t, op, p) ==
    LET cost == t.cost + Costs[op]
        elite == t.archive[Niche[p]]
        archive == IF Feasible(p) /\ (elite = None \/ Score[p] > Score[elite])
                   THEN [t.archive EXCEPT ![Niche[p]] = p] ELSE t.archive
        raised == Raises(t, p)
        best == IF raised THEN Score[p] ELSE t.best
        qd == OnlineQd(archive)
        row == [op |-> op, point |-> p, valid |-> Feasible(p), duplicate |-> p \in t.seen,
                total |-> cost, best |-> best, qd |-> qd, burst |-> t.inBurst]
    IN  [t EXCEPT !.seen = @ \cup {p}, !.archive = archive, !.best = best, !.cost = cost,
                  !.lastBest = IF raised THEN cost ELSE @,
                  !.progress = @ \/ (raised /\ t.inBurst),
                  !.lastQd = IF qd > t.onlineQd THEN cost ELSE @,
                  !.onlineQd = qd,
                  !.history = Append(@, row)]

FinishBurstIfNeeded(t) ==
    LET used == t.used + 1
    IN  IF ~t.inBurst THEN t
        ELSE IF (t.progress /\ used >= EarlyEnd) \/ used >= MaxBurst
        THEN [t EXCEPT !.inBurst = FALSE, !.used = 0, !.progress = FALSE,
                       !.cooldownUntil = t.cost + Cooldown]
        ELSE [t EXCEPT !.used = used]

StepOf(t, op, p) ==
    LET observed == Observe(MaybeStartBurst(t), op, p)
    IN  FinishBurstIfNeeded([observed EXCEPT !.step = @ + 1])

\* Mutant: the snapshot forgets the cooldown.
SnapshotCold(t) == [t EXCEPT !.cooldownUntil = 0]

\* snapshot and from_snapshot, field by field.
Snapshot(t) ==
    [step |-> t.step, seen |-> t.seen, best |-> t.best, cost |-> t.cost,
     archive |-> t.archive, history |-> t.history, inBurst |-> t.inBurst,
     used |-> t.used, progress |-> t.progress, cooldownUntil |-> t.cooldownUntil,
     lastBest |-> t.lastBest, lastQd |-> t.lastQd, onlineQd |-> t.onlineQd]
-----------------------------------------------------------------------------
Init ==
    /\ trial = NewTrial
    /\ picks = <<>>
    /\ full = <<>>
    /\ saved = None
    /\ restores = 0

Step(draw) ==
    /\ trial.step < Budget
    /\ IF trial.step < Len(picks)
       THEN picks[trial.step + 1] = draw /\ UNCHANGED picks
       ELSE picks' = Append(picks, draw)
    /\ trial' = StepOf(trial, draw.op, draw.point)
    /\ full' = IF trial.step < Len(picks) THEN full ELSE Append(full, Last(trial'.history))
    /\ UNCHANGED <<saved, restores>>

Checkpoint ==
    /\ saved = None /\ MaxRestores > 0
    /\ saved' = Snapshot(trial)
    /\ UNCHANGED <<trial, picks, full, restores>>

Restore ==
    /\ saved # None /\ restores < MaxRestores
    /\ saved.step < trial.step
    /\ trial' = saved
    /\ restores' = restores + 1
    /\ UNCHANGED <<picks, full, saved>>

Next ==
    \/ \E draw \in Draws : Step(draw)
    \/ Checkpoint
    \/ Restore

Spec == Init /\ [][Next]_vars
-----------------------------------------------------------------------------
(* Properties, over the receipts alone.                                      *)

\* What the n-th receipt and those before it say.
TotalAt(h, n) == IF n = 0 THEN 0 ELSE h[n].total
BestAt(h, n) == IF n = 0 THEN Score[Origin] ELSE h[n].best
QdAt(h, n) == IF n = 0 THEN 0 ELSE h[n].qd
RaisedBest(h, n) == BestAt(h, n) > BestAt(h, n - 1)
RaisedQd(h, n) == QdAt(h, n) > QdAt(h, n - 1)
SinceBest(h, n) ==   \* the cost since the last rise
    TotalAt(h, n) - TotalAt(h, Max({0} \cup {i \in 1 .. n : RaisedBest(h, i)}))
SinceQd(h, n) ==
    TotalAt(h, n) - TotalAt(h, Max({0} \cup {i \in 1 .. n : RaisedQd(h, i)}))

Triggered(h, n) ==
    LET rows == SubSeq(h, n - Window + 1, n)
    IN  /\ n >= Window
        /\ SinceBest(h, n) >= BestStall \/ SinceQd(h, n) >= QdStall
        /\ 2 * Duplicates(rows) >= Window
        /\ 4 * Valids(rows) >= 3 * Window

\* The receipts i to j are one burst, which may go on after the j-th.
Burst(h, i, j) ==
    /\ i \in 1 .. j /\ \A k \in i .. j : h[k].burst
    /\ i > 1 => ~h[i - 1].burst
Continues(h, n) ==
    \E i \in 1 .. n : LET used == n - i + 1
                     IN  /\ Burst(h, i, n) /\ used < MaxBurst
                         /\ used >= EarlyEnd => \A k \in i .. n : ~RaisedBest(h, k)
LastOfBurst(h, n) == {i \in 1 .. n : h[i].burst /\ \A k \in i + 1 .. n : ~h[k].burst}
Rested(h, n) == \A i \in LastOfBurst(h, n) : TotalAt(h, n) - TotalAt(h, i) >= Cooldown

\* "Signals are calculated only from the current trial's completed receipts":
\* a receipt is of a burst when, by those before it, the last burst goes on or
\* the registered trigger and cooldown open one; and only then, whatever the
\* trial has been restored from.
BurstsFollowReceipts ==
    LET h == trial.history
    IN  \A n \in DOMAIN h :
            h[n].burst <=> Continues(h, n - 1) \/ (Rested(h, n - 1) /\ Triggered(h, n - 1))

\* "A burst lasts at most 20 proposals" and "cannot restart until 24
\* additional cost units have elapsed": so say the receipts, through any restore.
BurstsBounded ==
    LET h == trial.history
    IN  \A i, j \in DOMAIN h : i < j =>
            /\ (\A k \in i .. j : h[k].burst) => j - i < MaxBurst
            /\ (h[i].burst /\ h[j].burst /\ i + 1 < j /\ \A k \in i + 1 .. j - 1 : ~h[k].burst)
                  => TotalAt(h, j - 1) - TotalAt(h, i) >= Cooldown

\* A trial restored from a snapshot writes the receipts it would have written.
RestoredContinues ==
    /\ IsPrefix(trial.history, full)
    /\ trial.step = Len(trial.history)
=============================================================================
