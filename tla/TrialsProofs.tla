---------------------------- MODULE TrialsProofs ----------------------------
(* Theorems about Trials: the bursts of a trial are those its receipts       *)
(* justify, bounded and apart; a restored trial repeats the one that never   *)
(* stopped; and a search trial's records account for its depths, its archive *)
(* and the credit of its operators.                                          *)
EXTENDS Trials, FiniteSetTheorems, SequenceTheorems, WellFoundedInduction, TLAPS

-----------------------------------------------------------------------------
(* Sequences.                                                                *)

IsSeq(s) == \E S : s \in Seq(S)

Longer(new, s, e) ==
    /\ IsSeq(new) /\ Len(s) \in Nat /\ Len(new) = Len(s) + 1
    /\ \A i \in 1 .. Len(s) : new[i] = s[i]
    /\ new[Len(s) + 1] = e

Extends(new, s) == \E e : new = Append(s, e)

LEMMA Appended ==
    ASSUME NEW s, IsSeq(s), NEW e, NEW new, new = Append(s, e)
    PROVE  Longer(new, s, e)
<1>1. PICK S : s \in Seq(S)
  BY DEF IsSeq
<1>2. s \in Seq(S \cup {e})
  BY <1>1
<1>3. new \in Seq(S \cup {e})
  BY <1>2
<1>. QED BY <1>2, <1>3 DEF IsSeq, Longer

LEMMA SameSlice ==
    ASSUME NEW s, IsSeq(s), NEW t, IsSeq(t), NEW n \in Nat, n <= Len(s), n <= Len(t),
           \A i \in 1 .. n : s[i] = t[i], NEW m \in Int, m >= 1
    PROVE  SubSeq(s, m, n) = SubSeq(t, m, n)
<1>1. PICK S, T : s \in Seq(S) /\ t \in Seq(T)
  BY DEF IsSeq
<1>. QED BY <1>1

LEMMA SliceLen ==
    ASSUME NEW s, IsSeq(s), NEW m \in Nat, NEW n \in Nat, m >= 1, n <= Len(s), m <= n + 1
    PROVE  Len(SubSeq(s, m, n)) = n - m + 1
<1>1. PICK S : s \in Seq(S)
  BY DEF IsSeq
<1>. QED BY <1>1

-----------------------------------------------------------------------------
(* One step of a burst trial, field by field.                                *)

Shaped(t) ==
    t = [step |-> t.step, seen |-> t.seen, best |-> t.best, cost |-> t.cost,
         archive |-> t.archive, history |-> t.history, inBurst |-> t.inBurst,
         used |-> t.used, progress |-> t.progress, cooldownUntil |-> t.cooldownUntil,
         lastBest |-> t.lastBest, lastQd |-> t.lastQd, onlineQd |-> t.onlineQd]

Opens(t) ==
    ~t.inBurst /\ ~(t.step < Window) /\ ~(t.cost < t.cooldownUntil) /\ Stagnates(t)

LEMMA StartParts ==
    ASSUME NEW t, Shaped(t), t.inBurst \in BOOLEAN, NEW u, u = MaybeStartBurst(t)
    PROVE  /\ Shaped(u) /\ u.step = t.step /\ u.seen = t.seen /\ u.best = t.best
           /\ u.cost = t.cost /\ u.archive = t.archive /\ u.history = t.history
           /\ u.cooldownUntil = t.cooldownUntil /\ u.lastBest = t.lastBest
           /\ u.lastQd = t.lastQd /\ u.onlineQd = t.onlineQd
           /\ u.inBurst = (t.inBurst \/ Opens(t))
           /\ u.used = IF Opens(t) THEN 0 ELSE t.used
           /\ u.progress = IF Opens(t) THEN FALSE ELSE t.progress
<1>1. CASE Opens(t)
  <2>1. u = [t EXCEPT !.inBurst = TRUE, !.used = 0, !.progress = FALSE]
    BY <1>1 DEF MaybeStartBurst, Opens
  <2>. QED BY <1>1, <2>1 DEF Shaped
<1>2. CASE ~Opens(t)
  <2>1. u = t
    BY <1>2 DEF MaybeStartBurst, Opens
  <2>. QED BY <1>2, <2>1
<1>. QED BY <1>1, <1>2

Row(t, op, p, best, qd) ==
    [op |-> op, point |-> p, valid |-> Feasible(p), duplicate |-> p \in t.seen,
     total |-> t.cost + Costs[op], best |-> best, qd |-> qd, burst |-> t.inBurst]

Observed(t, op, p, u, archive, best, qd, cost, row, lastBest, lastQd, progress) ==
    /\ best = IF Raises(t, p) THEN Score[p] ELSE t.best
    /\ cost = t.cost + Costs[op]
    /\ row = Row(t, op, p, best, qd)
    /\ lastBest = IF Raises(t, p) THEN cost ELSE t.lastBest
    /\ lastQd = IF qd > t.onlineQd THEN cost ELSE t.lastQd
    /\ progress = (t.progress \/ (Raises(t, p) /\ t.inBurst))
    /\ u = [step |-> t.step, seen |-> t.seen \cup {p}, best |-> best, cost |-> cost,
            archive |-> archive, history |-> Append(t.history, row), inBurst |-> t.inBurst,
            used |-> t.used, progress |-> progress, cooldownUntil |-> t.cooldownUntil,
            lastBest |-> lastBest, lastQd |-> lastQd, onlineQd |-> qd]

LEMMA ObserveParts ==
    ASSUME NEW t, Shaped(t), NEW op, NEW p, NEW u, u = Observe(t, op, p)
    PROVE  \E archive, best, qd, cost, row, lastBest, lastQd, progress :
             Observed(t, op, p, u, archive, best, qd, cost, row, lastBest, lastQd, progress)
<1>1. PICK archive : archive =
          IF Feasible(p) /\ (t.archive[Niche[p]] = None \/ Score[p] > Score[t.archive[Niche[p]]])
          THEN [t.archive EXCEPT ![Niche[p]] = p] ELSE t.archive
  OBVIOUS
<1>2. PICK best : best = IF Raises(t, p) THEN Score[p] ELSE t.best
  OBVIOUS
<1>3. PICK qd : qd = OnlineQd(archive)
  OBVIOUS
<1>4. PICK cost : cost = t.cost + Costs[op]
  OBVIOUS
<1>5. PICK row : row = Row(t, op, p, best, qd)
  OBVIOUS
<1>6. PICK lastBest, lastQd, progress :
          /\ lastBest = IF Raises(t, p) THEN cost ELSE t.lastBest
          /\ lastQd = IF qd > t.onlineQd THEN cost ELSE t.lastQd
          /\ progress = (t.progress \/ (Raises(t, p) /\ t.inBurst))
  OBVIOUS
<1>7. u = [t EXCEPT !.seen = @ \cup {p}, !.archive = archive, !.best = best, !.cost = cost,
                  !.lastBest = IF Raises(t, p) THEN cost ELSE @,
                  !.progress = @ \/ (Raises(t, p) /\ t.inBurst),
                  !.lastQd = IF qd > t.onlineQd THEN cost ELSE @,
                  !.onlineQd = qd,
                  !.history = Append(@, row)]
  BY <1>1, <1>2, <1>3, <1>4, <1>5, Zenon DEF Observe, Row
<1>8. u = [t EXCEPT !.seen = t.seen \cup {p}, !.archive = archive, !.best = best, !.cost = cost,
                  !.lastBest = lastBest, !.progress = progress, !.lastQd = lastQd,
                  !.onlineQd = qd, !.history = Append(t.history, row)]
  BY <1>6, <1>7 DEF Shaped
<1>9. u = [step |-> t.step, seen |-> t.seen \cup {p}, best |-> best, cost |-> cost,
           archive |-> archive, history |-> Append(t.history, row), inBurst |-> t.inBurst,
           used |-> t.used, progress |-> progress, cooldownUntil |-> t.cooldownUntil,
           lastBest |-> lastBest, lastQd |-> lastQd, onlineQd |-> qd]
  BY <1>8 DEF Shaped
<1>10. Observed(t, op, p, u, archive, best, qd, cost, row, lastBest, lastQd, progress)
  BY <1>2, <1>4, <1>5, <1>6, <1>9 DEF Observed
<1>. QED BY <1>10

Closes(t) == (t.progress /\ t.used + 1 >= EarlyEnd) \/ t.used + 1 >= MaxBurst

Finishing(t, u) ==
    /\ Shaped(u) /\ u.step = t.step /\ u.seen = t.seen /\ u.best = t.best
    /\ u.cost = t.cost /\ u.archive = t.archive /\ u.history = t.history
    /\ u.lastBest = t.lastBest /\ u.lastQd = t.lastQd /\ u.onlineQd = t.onlineQd
    /\ u.inBurst = (t.inBurst /\ ~Closes(t))
    /\ ~t.inBurst => u = t
    /\ t.inBurst /\ Closes(t) =>
          u.used = 0 /\ u.progress = FALSE /\ u.cooldownUntil = t.cost + Cooldown
    /\ t.inBurst /\ ~Closes(t) =>
          u.used = t.used + 1 /\ u.progress = t.progress /\ u.cooldownUntil = t.cooldownUntil

LEMMA FinishParts ==
    ASSUME NEW t, Shaped(t), t.inBurst \in BOOLEAN, NEW u, u = FinishBurstIfNeeded(t)
    PROVE  Finishing(t, u)
<1>1. CASE ~t.inBurst
  BY <1>1 DEF FinishBurstIfNeeded, Finishing
<1>2. CASE t.inBurst /\ Closes(t)
  <2>1. u = [t EXCEPT !.inBurst = FALSE, !.used = 0, !.progress = FALSE,
                      !.cooldownUntil = t.cost + Cooldown]
    BY <1>2 DEF FinishBurstIfNeeded, Closes
  <2>. QED BY <1>2, <2>1 DEF Shaped, Finishing
<1>3. CASE t.inBurst /\ ~Closes(t)
  <2>1. u = [t EXCEPT !.used = t.used + 1]
    BY <1>3 DEF FinishBurstIfNeeded, Closes
  <2>. QED BY <1>3, <2>1 DEF Shaped, Finishing
<1>. QED BY <1>1, <1>2, <1>3

Runs(t) == t.inBurst \/ Opens(t)
Used(t) == IF Opens(t) THEN 0 ELSE t.used
Progress(t, p) == (~Opens(t) /\ t.progress) \/ Raises(t, p)
Ends(t, p) == (Progress(t, p) /\ Used(t) + 1 >= EarlyEnd) \/ Used(t) + 1 >= MaxBurst

Recorded(t, op, p, u, row) ==
    /\ u.step = t.step + 1 /\ u.cost = t.cost + Costs[op]
    /\ u.best = IF Raises(t, p) THEN Score[p] ELSE t.best
    /\ u.history = Append(t.history, row)
    /\ row.total = u.cost /\ row.best = u.best /\ row.qd = u.onlineQd /\ row.burst = Runs(t)
    /\ u.lastBest = IF Raises(t, p) THEN u.cost ELSE t.lastBest
    /\ u.lastQd = IF u.onlineQd > t.onlineQd THEN u.cost ELSE t.lastQd

Controlled(t, p, u) ==
    /\ u.inBurst = (Runs(t) /\ ~Ends(t, p)) /\ u.progress \in BOOLEAN
    /\ ~Runs(t) => u.cooldownUntil = t.cooldownUntil /\ u.used = t.used
    /\ Runs(t) /\ Ends(t, p) => u.cooldownUntil = u.cost + Cooldown /\ u.used = 0
    /\ Runs(t) /\ ~Ends(t, p) =>
          /\ u.cooldownUntil = t.cooldownUntil /\ u.used = Used(t) + 1
          /\ u.progress = Progress(t, p)

LEMMA StepParts ==
    ASSUME NEW t, Shaped(t), t.inBurst \in BOOLEAN, t.progress \in BOOLEAN, NEW op, NEW p,
           NEW u, u = StepOf(t, op, p)
    PROVE  Shaped(u) /\ Controlled(t, p, u) /\ \E row : Recorded(t, op, p, u, row)
<1>1. PICK a : a = MaybeStartBurst(t)
  OBVIOUS
<1>2. /\ Shaped(a) /\ a.step = t.step /\ a.best = t.best
      /\ a.cost = t.cost /\ a.history = t.history
      /\ a.cooldownUntil = t.cooldownUntil /\ a.lastBest = t.lastBest
      /\ a.lastQd = t.lastQd /\ a.onlineQd = t.onlineQd
      /\ a.inBurst = (t.inBurst \/ Opens(t))
      /\ a.used = (IF Opens(t) THEN 0 ELSE t.used)
      /\ a.progress = (IF Opens(t) THEN FALSE ELSE t.progress)
  BY <1>1, StartParts
<1>3. PICK b : b = Observe(a, op, p)
  OBVIOUS
<1>4. PICK archive, best, qd, cost, row, lastBest, lastQd, progress :
          Observed(a, op, p, b, archive, best, qd, cost, row, lastBest, lastQd, progress)
  BY <1>2, <1>3, ObserveParts
<1>5. PICK c : c = [b EXCEPT !.step = @ + 1]
  OBVIOUS
<1>6. u = FinishBurstIfNeeded(c)
  BY <1>1, <1>3, <1>5 DEF StepOf
<1>7. Raises(a, p) = Raises(t, p)
  BY <1>2 DEF Raises
<1>8. c = [step |-> a.step + 1, seen |-> a.seen \cup {p}, best |-> best, cost |-> cost,
           archive |-> archive, history |-> Append(a.history, row), inBurst |-> a.inBurst,
           used |-> a.used, progress |-> progress, cooldownUntil |-> a.cooldownUntil,
           lastBest |-> lastBest, lastQd |-> lastQd, onlineQd |-> qd]
  BY <1>4, <1>5 DEF Observed
<1>9. /\ Shaped(c) /\ c.step = t.step + 1 /\ c.best = best /\ c.cost = cost
      /\ c.history = Append(t.history, row) /\ c.inBurst = a.inBurst /\ c.used = a.used
      /\ c.progress = progress /\ c.cooldownUntil = t.cooldownUntil
      /\ c.lastBest = lastBest /\ c.lastQd = lastQd /\ c.onlineQd = qd
  BY <1>2, <1>8 DEF Shaped
<1>10. c.inBurst = Runs(t) /\ c.inBurst \in BOOLEAN /\ c.used = Used(t)
  BY <1>2, <1>9 DEF Runs, Used
<1>11. Runs(t) => c.progress = Progress(t, p)
  <2>1. progress = (a.progress \/ (Raises(a, p) /\ a.inBurst))
    BY <1>4 DEF Observed
  <2>. QED BY <1>2, <1>7, <1>9, <1>10, <2>1 DEF Progress, Runs
<1>20. c.progress \in BOOLEAN
  <2>1. progress = (a.progress \/ (Raises(a, p) /\ a.inBurst))
    BY <1>4 DEF Observed
  <2>. QED BY <1>9, <2>1
<1>12. /\ Shaped(u) /\ u.step = c.step /\ u.best = c.best
       /\ u.cost = c.cost /\ u.history = c.history
       /\ u.lastBest = c.lastBest /\ u.lastQd = c.lastQd /\ u.onlineQd = c.onlineQd
       /\ u.inBurst = (c.inBurst /\ ~Closes(c))
       /\ ~c.inBurst => u = c
       /\ c.inBurst /\ Closes(c) =>
              u.used = 0 /\ u.progress = FALSE /\ u.cooldownUntil = c.cost + Cooldown
       /\ c.inBurst /\ ~Closes(c) =>
              u.used = c.used + 1 /\ u.progress = c.progress /\ u.cooldownUntil = c.cooldownUntil
  <2>1. Finishing(c, u)
    BY <1>6, <1>9, <1>10, FinishParts
  <2>. QED BY <2>1 DEF Finishing
<1>13. Runs(t) => Closes(c) = Ends(t, p)
  BY <1>10, <1>11 DEF Closes, Ends
<1>14. Controlled(t, p, u)
  <2>1. CASE ~Runs(t)
    <3>1. c.used = t.used
      BY <1>10, <2>1 DEF Runs, Used
    <3>2. u.inBurst = FALSE /\ u = c
      BY <1>10, <1>12, <2>1
    <3>. QED BY <1>9, <1>20, <2>1, <3>1, <3>2 DEF Controlled
  <2>2. CASE Runs(t) /\ Ends(t, p)
    BY <1>10, <1>12, <1>13, <1>20, <2>2 DEF Controlled
  <2>3. CASE Runs(t) /\ ~Ends(t, p)
    BY <1>9, <1>10, <1>11, <1>12, <1>13, <1>20, <2>3 DEF Controlled
  <2>. QED BY <2>1, <2>2, <2>3
<1>15. Recorded(t, op, p, u, row)
  <2>1. /\ best = (IF Raises(a, p) THEN Score[p] ELSE a.best)
        /\ cost = a.cost + Costs[op]
        /\ row = Row(a, op, p, best, qd)
        /\ lastBest = (IF Raises(a, p) THEN cost ELSE a.lastBest)
        /\ lastQd = (IF qd > a.onlineQd THEN cost ELSE a.lastQd)
    BY <1>4 DEF Observed
  <2>2. row.total = a.cost + Costs[op] /\ row.best = best /\ row.qd = qd /\ row.burst = a.inBurst
    BY <2>1 DEF Row
  <2>. QED BY <1>2, <1>7, <1>9, <1>10, <1>12, <2>1, <2>2 DEF Recorded
<1>. QED BY <1>12, <1>14, <1>15

-----------------------------------------------------------------------------
(* What the receipts say of a burst trial.                                   *)

Receipts(h) ==
    /\ IsSeq(h)
    /\ \A i \in 1 .. Len(h) : h[i].total \in Nat /\ h[i].best \in Nat /\ h[i].burst \in BOOLEAN

Follows(h) ==
    \A n \in 1 .. Len(h) :
        h[n].burst <=> Continues(h, n - 1) \/ (Rested(h, n - 1) /\ Triggered(h, n - 1))

Bounded(h) ==
    \A i, j \in 1 .. Len(h) : i < j =>
        /\ (\A k \in i .. j : h[k].burst) => j - i < MaxBurst
        /\ (h[i].burst /\ h[j].burst /\ i + 1 < j /\ \A k \in i + 1 .. j - 1 : ~h[k].burst)
              => TotalAt(h, j - 1) - TotalAt(h, i) >= Cooldown

LastBestRise(h, n) == Max({0} \cup {i \in 1 .. n : RaisedBest(h, i)})
LastQdRise(h, n) == Max({0} \cup {i \in 1 .. n : RaisedQd(h, i)})

Marked(h) ==
    \A n \in 0 .. Len(h) : LastBestRise(h, n) \in 0 .. n /\ LastQdRise(h, n) \in 0 .. n

Signals(t) ==
    LET h == t.history
    IN  /\ t.cost = TotalAt(h, t.step) /\ t.best = BestAt(h, t.step)
        /\ t.onlineQd = QdAt(h, t.step)
        /\ t.lastBest = TotalAt(h, LastBestRise(h, t.step))
        /\ t.lastQd = TotalAt(h, LastQdRise(h, t.step))

InBurst(t) ==
    LET h == t.history
        first == t.step - t.used + 1
    IN  /\ t.used \in 1 .. t.step /\ t.used < MaxBurst /\ Burst(h, first, t.step)
        /\ t.progress <=> \E i \in first .. t.step : RaisedBest(h, i)
        /\ t.progress => t.used < EarlyEnd

Resting(t) ==
    LET h == t.history
    IN  /\ ~Continues(h, t.step)
        /\ \A i \in LastOfBurst(h, t.step) : t.cooldownUntil = TotalAt(h, i) + Cooldown
        /\ LastOfBurst(h, t.step) = {} => t.cooldownUntil = 0

BurstFits(t) ==
    /\ Shaped(t) /\ Receipts(t.history) /\ t.step = Len(t.history)
    /\ t.inBurst \in BOOLEAN /\ t.progress \in BOOLEAN /\ t.used \in Nat /\ t.cooldownUntil \in Nat
    /\ Marked(t.history) /\ Signals(t)
    /\ t.inBurst => InBurst(t)
    /\ ~t.inBurst => Resting(t)
    /\ Follows(t.history) /\ Bounded(t.history)

LEMMA Limits ==
    /\ Window \in Nat /\ Window >= 1 /\ MaxBurst \in Nat /\ MaxBurst >= 1
    /\ EarlyEnd \in Nat /\ EarlyEnd >= 1 /\ Cooldown \in Nat /\ Cooldown >= 1
BY TrialAssumption

LEMMA MaxIs ==
    ASSUME NEW S, S \subseteq Nat, NEW m \in S, \A y \in S : m >= y PROVE Max(S) = m
<1>1. m \in Nat /\ \A x \in S : x \in Nat
  OBVIOUS
<1>2. \A x \in S : (\A y \in S : x >= y) => x = m
  BY <1>1
<1>. QED BY <1>2 DEF Max

LEMMA TotalType ==
    ASSUME NEW h, Receipts(h), NEW n \in 0 .. Len(h)
    PROVE  TotalAt(h, n) \in Nat /\ BestAt(h, n) \in Nat
<1>1. n = 0 \/ n \in 1 .. Len(h)
  OBVIOUS
<1>. QED BY <1>1, TrialAssumption DEF Receipts, TotalAt, BestAt

\* The registered rule decides as the controller does.
LEMMA Decides ==
    ASSUME NEW t, BurstFits(t), NEW h, h = t.history, NEW n, n = t.step
    PROVE  Runs(t) <=> Continues(h, n) \/ (Rested(h, n) /\ Triggered(h, n))
<1>1. n = Len(h) /\ n \in Nat /\ IsSeq(h)
  <2>1. IsSeq(h) /\ n = Len(h)
    BY DEF BurstFits, Receipts
  <2>2. PICK S : h \in Seq(S)
    BY <2>1 DEF IsSeq
  <2>. QED BY <2>1, <2>2
<1>2. CASE t.inBurst
  <2>1. PICK i : i = n - t.used + 1
    OBVIOUS
  <2>2. /\ t.used \in 1 .. n /\ t.used < MaxBurst /\ Burst(h, i, n)
        /\ t.progress <=> \E k \in i .. n : RaisedBest(h, k)
        /\ t.progress => t.used < EarlyEnd
    BY <1>2, <2>1 DEF BurstFits, InBurst
  <2>3. i \in 1 .. n /\ n - i + 1 = t.used
    BY <1>1, <2>1, <2>2
  <2>4. t.used >= EarlyEnd => \A k \in i .. n : ~RaisedBest(h, k)
    <3>1. t.used >= EarlyEnd => ~(t.used < EarlyEnd)
      BY <1>1, <2>2, Limits
    <3>. QED BY <2>2, <3>1
  <2>5. Continues(h, n)
    BY <2>2, <2>3, <2>4 DEF Continues
  <2>. QED BY <1>2, <2>5 DEF Runs
<1>3. CASE ~t.inBurst
  <2>1. /\ ~Continues(h, n)
        /\ \A i \in LastOfBurst(h, n) : t.cooldownUntil = TotalAt(h, i) + Cooldown
        /\ LastOfBurst(h, n) = {} => t.cooldownUntil = 0
    BY <1>3 DEF BurstFits, Resting
  <2>2. /\ t.cost = TotalAt(h, n)
        /\ t.lastBest = TotalAt(h, LastBestRise(h, n)) /\ t.lastQd = TotalAt(h, LastQdRise(h, n))
    BY DEF BurstFits, Signals
  <2>3. t.cost \in Nat /\ t.cooldownUntil \in Nat
    BY <1>1, <2>2, TotalType DEF BurstFits
  <2>4. ~(t.cost < t.cooldownUntil) <=> Rested(h, n)
    <3>1. ASSUME NEW i \in LastOfBurst(h, n)
          PROVE  ~(t.cost < t.cooldownUntil) <=> TotalAt(h, n) - TotalAt(h, i) >= Cooldown
      <4>1. TotalAt(h, i) \in Nat
        <5>1. i \in 0 .. Len(h)
          BY <1>1 DEF LastOfBurst
        <5>. QED BY <5>1, TotalType DEF BurstFits
      <4>2. t.cooldownUntil = TotalAt(h, i) + Cooldown
        BY <2>1
      <4>. QED BY <2>2, <2>3, <4>1, <4>2, Limits
    <3>2. LastOfBurst(h, n) = {} => ~(t.cost < t.cooldownUntil)
      BY <2>1, <2>3
    <3>. QED BY <3>1, <3>2 DEF Rested
  <2>5. n >= Window /\ Stagnates(t) <=> Triggered(h, n)
    <3>1. CASE n >= Window
      <4>1. Recent(h) = SubSeq(h, n - Window + 1, n)
        <5>1. PICK m : m = n - Window + 1
          OBVIOUS
        <5>2. Larger(1, m) = m
          BY <1>1, <3>1, <5>1, Limits DEF Larger
        <5>3. Recent(h) = SubSeq(h, Larger(1, n - Window + 1), n)
          BY <1>1 DEF Recent
        <5>. QED BY <5>1, <5>2, <5>3
      <4>2. PICK rows : rows = SubSeq(h, n - Window + 1, n)
        OBVIOUS
      <4>3. n - Window + 1 \in Nat /\ n - Window + 1 >= 1 /\ n - Window + 1 <= n + 1
        BY <1>1, <3>1, Limits
      <4>4. Len(rows) = n - (n - Window + 1) + 1
        BY <1>1, <4>2, <4>3, SliceLen
      <4>5. Larger(1, Len(rows)) = Window
        BY <1>1, <4>4, Limits DEF Larger
      <4>6. SinceBest(h, n) = t.cost - t.lastBest /\ SinceQd(h, n) = t.cost - t.lastQd
        BY <2>2 DEF SinceBest, SinceQd, LastBestRise, LastQdRise
      <4>7. Stagnates(t) <=> /\ SinceBest(h, n) >= BestStall \/ SinceQd(h, n) >= QdStall
                             /\ 2 * Duplicates(rows) >= Window /\ 4 * Valids(rows) >= 3 * Window
        BY <4>1, <4>2, <4>5, <4>6 DEF Stagnates
      <4>. QED BY <3>1, <4>2, <4>7 DEF Triggered
    <3>. QED BY <3>1 DEF Triggered
  <2>6. ~(t.step < Window) <=> n >= Window
    BY <1>1, Limits
  <2>. QED BY <1>3, <2>1, <2>4, <2>5, <2>6 DEF Runs, Opens
<1>. QED BY <1>2, <1>3 DEF BurstFits

\* A receipt more leaves what the earlier ones say as it is.
LEMMA Earlier ==
    ASSUME NEW h, IsSeq(h), NEW g, IsSeq(g), Len(g) = Len(h) + 1, Len(h) \in Nat,
           \A i \in 1 .. Len(h) : g[i] = h[i], Marked(h), NEW n \in 0 .. Len(h)
    PROVE  /\ TotalAt(g, n) = TotalAt(h, n) /\ BestAt(g, n) = BestAt(h, n) /\ QdAt(g, n) = QdAt(h, n)
           /\ Continues(g, n) <=> Continues(h, n)
           /\ LastOfBurst(g, n) = LastOfBurst(h, n)
           /\ Rested(g, n) <=> Rested(h, n)
           /\ Triggered(g, n) <=> Triggered(h, n)
           /\ LastBestRise(g, n) = LastBestRise(h, n) /\ LastQdRise(g, n) = LastQdRise(h, n)
<1>1. \A i \in 0 .. n : TotalAt(g, i) = TotalAt(h, i) /\ BestAt(g, i) = BestAt(h, i)
                       /\ QdAt(g, i) = QdAt(h, i)
  BY DEF TotalAt, BestAt, QdAt
<1>2. \A i \in 1 .. n : RaisedBest(g, i) <=> RaisedBest(h, i)
  <2>1. \A i \in 1 .. n : i \in 0 .. n /\ i - 1 \in 0 .. n
    OBVIOUS
  <2>. QED BY <1>1, <2>1 DEF RaisedBest
<1>3. \A i \in 1 .. n : RaisedQd(g, i) <=> RaisedQd(h, i)
  <2>1. \A i \in 1 .. n : i \in 0 .. n /\ i - 1 \in 0 .. n
    OBVIOUS
  <2>. QED BY <1>1, <2>1 DEF RaisedQd
<1>4. \A i \in 1 .. n : g[i] = h[i]
  OBVIOUS
<1>5. Continues(g, n) <=> Continues(h, n)
  <2>1. ASSUME NEW i \in 1 .. n PROVE Burst(g, i, n) <=> Burst(h, i, n)
    <3>1. \A k \in i .. n : g[k] = h[k]
      BY <1>4
    <3>2. i > 1 => g[i - 1] = h[i - 1]
      BY <1>4
    <3>. QED BY <3>1, <3>2 DEF Burst
  <2>2. ASSUME NEW i \in 1 .. n
        PROVE  (\A k \in i .. n : ~RaisedBest(g, k)) <=> (\A k \in i .. n : ~RaisedBest(h, k))
    BY <1>2
  <2>. QED BY <2>1, <2>2 DEF Continues
<1>6. LastOfBurst(g, n) = LastOfBurst(h, n)
  <2>1. ASSUME NEW i \in 1 .. n
        PROVE  (\A k \in i + 1 .. n : ~g[k].burst) <=> (\A k \in i + 1 .. n : ~h[k].burst)
    BY <1>4
  <2>. QED BY <1>4, <2>1 DEF LastOfBurst
<1>7. Rested(g, n) <=> Rested(h, n)
  <2>1. \A i \in LastOfBurst(h, n) : i \in 0 .. n
    BY DEF LastOfBurst
  <2>2. n \in 0 .. n
    OBVIOUS
  <2>. QED BY <1>1, <1>6, <2>1, <2>2 DEF Rested
<1>8. LastBestRise(g, n) = LastBestRise(h, n)
  <2>1. {i \in 1 .. n : RaisedBest(g, i)} = {i \in 1 .. n : RaisedBest(h, i)}
    BY <1>2
  <2>. QED BY <2>1 DEF LastBestRise
<1>9. LastQdRise(g, n) = LastQdRise(h, n)
  <2>1. {i \in 1 .. n : RaisedQd(g, i)} = {i \in 1 .. n : RaisedQd(h, i)}
    BY <1>3
  <2>. QED BY <2>1 DEF LastQdRise
<1>10. Triggered(g, n) <=> Triggered(h, n)
  <2>1. CASE n >= Window
    <3>1. SubSeq(g, n - Window + 1, n) = SubSeq(h, n - Window + 1, n)
      <4>1. n - Window + 1 \in Int /\ n - Window + 1 >= 1
        BY <2>1, Limits
      <4>. QED BY <1>4, <4>1, SameSlice
    <3>2. SinceBest(g, n) = SinceBest(h, n) /\ SinceQd(g, n) = SinceQd(h, n)
      <4>1. PICK j, k : j = LastBestRise(h, n) /\ k = LastQdRise(h, n)
        OBVIOUS
      <4>2. j \in 0 .. n /\ k \in 0 .. n /\ n \in 0 .. n
        BY <4>1 DEF Marked
      <4>3. TotalAt(g, n) = TotalAt(h, n) /\ TotalAt(g, j) = TotalAt(h, j) /\ TotalAt(g, k) = TotalAt(h, k)
        BY <1>1, <4>2
      <4>4. /\ SinceBest(g, n) = TotalAt(g, n) - TotalAt(g, LastBestRise(g, n))
            /\ SinceBest(h, n) = TotalAt(h, n) - TotalAt(h, LastBestRise(h, n))
            /\ SinceQd(g, n) = TotalAt(g, n) - TotalAt(g, LastQdRise(g, n))
            /\ SinceQd(h, n) = TotalAt(h, n) - TotalAt(h, LastQdRise(h, n))
        BY DEF SinceBest, SinceQd, LastBestRise, LastQdRise
      <4>. QED BY <1>8, <1>9, <4>1, <4>3, <4>4
    <3>. QED BY <3>1, <3>2 DEF Triggered
  <2>2. CASE ~(n >= Window)
    BY <2>2 DEF Triggered
  <2>. QED BY <2>1, <2>2
<1>. QED BY <1>1, <1>5, <1>6, <1>7, <1>8, <1>9, <1>10

\* A step from a fitting trial, in the terms of its receipts: n before it, one more after.
Grows(t, u, h, g, n) ==
    /\ BurstFits(t) /\ h = t.history /\ n = t.step /\ n \in Nat /\ Len(h) = n
    /\ g = u.history /\ IsSeq(g) /\ Len(g) = n + 1 /\ u.step = n + 1
    /\ \A i \in 1 .. n : g[i] = h[i]
    /\ g[n + 1].total = u.cost /\ g[n + 1].best = u.best /\ g[n + 1].qd = u.onlineQd
    /\ g[n + 1].burst = Runs(t)

LEMMA GrowsEarlier ==
    ASSUME NEW t, NEW u, NEW h, NEW g, NEW n, Grows(t, u, h, g, n), NEW k \in 0 .. n
    PROVE  /\ TotalAt(g, k) = TotalAt(h, k) /\ BestAt(g, k) = BestAt(h, k) /\ QdAt(g, k) = QdAt(h, k)
           /\ Continues(g, k) <=> Continues(h, k)
           /\ LastOfBurst(g, k) = LastOfBurst(h, k)
           /\ Rested(g, k) <=> Rested(h, k)
           /\ Triggered(g, k) <=> Triggered(h, k)
           /\ LastBestRise(g, k) = LastBestRise(h, k) /\ LastQdRise(g, k) = LastQdRise(h, k)
<1>1. /\ IsSeq(h) /\ IsSeq(g) /\ Len(g) = Len(h) + 1 /\ Len(h) \in Nat /\ Marked(h)
      /\ \A i \in 1 .. Len(h) : g[i] = h[i]
  BY DEF Grows, BurstFits, Receipts
<1>2. k \in 0 .. Len(h)
  BY DEF Grows
<1>. QED BY <1>1, <1>2, Earlier

LEMMA GrowsSignals ==
    ASSUME NEW t, NEW u, NEW h, NEW g, NEW n, Grows(t, u, h, g, n), NEW p,
           u.best = IF Raises(t, p) THEN Score[p] ELSE t.best, Feasible(p) => Score[p] \in Nat,
           u.lastBest = IF Raises(t, p) THEN u.cost ELSE t.lastBest,
           u.lastQd = IF u.onlineQd > t.onlineQd THEN u.cost ELSE t.lastQd
    PROVE  Marked(g) /\ Signals(u) /\ (Raises(t, p) <=> RaisedBest(g, n + 1))
<1>1. n \in Nat /\ Len(h) = n /\ Len(g) = n + 1 /\ n + 1 \in Nat
  BY DEF Grows
<1>2. /\ TotalAt(g, n + 1) = u.cost /\ BestAt(g, n + 1) = u.best /\ QdAt(g, n + 1) = u.onlineQd
  BY <1>1 DEF Grows, TotalAt, BestAt, QdAt
<1>3. /\ t.best = BestAt(h, n) /\ t.onlineQd = QdAt(h, n)
      /\ t.lastBest = TotalAt(h, LastBestRise(h, n)) /\ t.lastQd = TotalAt(h, LastQdRise(h, n))
      /\ Marked(h) /\ Receipts(h)
  BY DEF Grows, BurstFits, Signals
<1>4. n \in 0 .. n /\ n \in 0 .. Len(h) /\ (n + 1) - 1 = n
  BY <1>1
<1>5. BestAt(g, n) = t.best /\ QdAt(g, n) = t.onlineQd /\ t.best \in Nat
  <2>1. BestAt(g, n) = BestAt(h, n) /\ QdAt(g, n) = QdAt(h, n)
    BY <1>4, GrowsEarlier
  <2>2. BestAt(h, n) \in Nat
    BY <1>3, <1>4, TotalType
  <2>. QED BY <1>3, <2>1, <2>2
<1>6. Raises(t, p) <=> RaisedBest(g, n + 1)
  <2>1. RaisedBest(g, n + 1) <=> u.best > t.best
    BY <1>2, <1>4, <1>5 DEF RaisedBest
  <2>. QED BY <1>5, <2>1 DEF Raises
<1>7. u.onlineQd > t.onlineQd <=> RaisedQd(g, n + 1)
  BY <1>2, <1>4, <1>5 DEF RaisedQd
<1>8. LastBestRise(g, n + 1) = IF RaisedBest(g, n + 1) THEN n + 1 ELSE LastBestRise(h, n)
  <2>1. CASE RaisedBest(g, n + 1)
    <3>1. PICK S : S = {0} \cup {i \in 1 .. n + 1 : RaisedBest(g, i)}
      OBVIOUS
    <3>2. S \subseteq Nat /\ n + 1 \in S /\ \A y \in S : n + 1 >= y
      BY <1>1, <2>1, <3>1
    <3>3. Max(S) = n + 1
      BY <3>2, MaxIs
    <3>. QED BY <2>1, <3>1, <3>3 DEF LastBestRise
  <2>2. CASE ~RaisedBest(g, n + 1)
    <3>1. {i \in 1 .. n + 1 : RaisedBest(g, i)} = {i \in 1 .. n : RaisedBest(g, i)}
      BY <1>1, <2>2
    <3>2. LastBestRise(g, n + 1) = LastBestRise(g, n)
      BY <3>1 DEF LastBestRise
    <3>3. LastBestRise(g, n) = LastBestRise(h, n)
      BY <1>4, GrowsEarlier
    <3>. QED BY <2>2, <3>2, <3>3
  <2>. QED BY <2>1, <2>2
<1>9. LastQdRise(g, n + 1) = IF RaisedQd(g, n + 1) THEN n + 1 ELSE LastQdRise(h, n)
  <2>1. CASE RaisedQd(g, n + 1)
    <3>1. PICK S : S = {0} \cup {i \in 1 .. n + 1 : RaisedQd(g, i)}
      OBVIOUS
    <3>2. S \subseteq Nat /\ n + 1 \in S /\ \A y \in S : n + 1 >= y
      BY <1>1, <2>1, <3>1
    <3>3. Max(S) = n + 1
      BY <3>2, MaxIs
    <3>. QED BY <2>1, <3>1, <3>3 DEF LastQdRise
  <2>2. CASE ~RaisedQd(g, n + 1)
    <3>1. {i \in 1 .. n + 1 : RaisedQd(g, i)} = {i \in 1 .. n : RaisedQd(g, i)}
      BY <1>1, <2>2
    <3>2. LastQdRise(g, n + 1) = LastQdRise(g, n)
      BY <3>1 DEF LastQdRise
    <3>3. LastQdRise(g, n) = LastQdRise(h, n)
      BY <1>4, GrowsEarlier
    <3>. QED BY <2>2, <3>2, <3>3
  <2>. QED BY <2>1, <2>2
<1>10. PICK j, k : j = LastBestRise(h, n) /\ k = LastQdRise(h, n)
  OBVIOUS
<1>11. j \in 0 .. n /\ k \in 0 .. n
  BY <1>3, <1>4, <1>10 DEF Marked
<1>12. TotalAt(g, j) = t.lastBest /\ TotalAt(g, k) = t.lastQd
  <2>1. TotalAt(g, j) = TotalAt(h, j) /\ TotalAt(g, k) = TotalAt(h, k)
    BY <1>11, GrowsEarlier
  <2>. QED BY <1>3, <1>10, <2>1
<1>13. u.lastBest = TotalAt(g, LastBestRise(g, n + 1)) /\ u.lastQd = TotalAt(g, LastQdRise(g, n + 1))
  BY <1>2, <1>6, <1>7, <1>8, <1>9, <1>10, <1>12
<1>14. Marked(g)
  <2>1. ASSUME NEW i \in 0 .. n
        PROVE  LastBestRise(g, i) \in 0 .. i /\ LastQdRise(g, i) \in 0 .. i
    <3>1. LastBestRise(h, i) \in 0 .. i /\ LastQdRise(h, i) \in 0 .. i
      BY <1>1, <1>3 DEF Marked
    <3>. QED BY <3>1, GrowsEarlier
  <2>2. LastBestRise(g, n + 1) \in 0 .. n + 1 /\ LastQdRise(g, n + 1) \in 0 .. n + 1
    BY <1>1, <1>8, <1>9, <1>10, <1>11
  <2>3. \A i \in 0 .. n + 1 : i \in 0 .. n \/ i = n + 1
    BY <1>1
  <2>. QED BY <1>1, <2>1, <2>2, <2>3 DEF Marked
<1>15. u.history = g /\ u.step = n + 1
  BY DEF Grows
<1>. QED BY <1>2, <1>6, <1>13, <1>14, <1>15 DEF Signals

LEMMA GrowsFollows ==
    ASSUME NEW t, NEW u, NEW h, NEW g, NEW n, Grows(t, u, h, g, n)
    PROVE  Follows(g)
<1>1. n \in Nat /\ Len(h) = n /\ Len(g) = n + 1 /\ Follows(h)
  BY DEF Grows, BurstFits
<1>2. ASSUME NEW k \in 1 .. n
      PROVE  g[k].burst <=> Continues(g, k - 1) \/ (Rested(g, k - 1) /\ Triggered(g, k - 1))
  <2>1. PICK m \in 0 .. n : m = k - 1
    BY <1>1
  <2>2. h[k].burst <=> Continues(h, m) \/ (Rested(h, m) /\ Triggered(h, m))
    BY <1>1, <2>1 DEF Follows
  <2>3. g[k] = h[k]
    BY DEF Grows
  <2>4. /\ Continues(g, m) <=> Continues(h, m)
        /\ Rested(g, m) <=> Rested(h, m)
        /\ Triggered(g, m) <=> Triggered(h, m)
    BY GrowsEarlier
  <2>5. g[k].burst <=> Continues(g, m) \/ (Rested(g, m) /\ Triggered(g, m))
    BY <2>2, <2>3, <2>4
  <2>. QED BY <2>1, <2>5
<1>3. g[n + 1].burst <=> Continues(g, n) \/ (Rested(g, n) /\ Triggered(g, n))
  <2>1. Runs(t) <=> Continues(h, n) \/ (Rested(h, n) /\ Triggered(h, n))
    BY Decides DEF Grows
  <2>2. n \in 0 .. n
    BY <1>1
  <2>3. /\ Continues(g, n) <=> Continues(h, n)
        /\ Rested(g, n) <=> Rested(h, n)
        /\ Triggered(g, n) <=> Triggered(h, n)
    BY <2>2, GrowsEarlier
  <2>. QED BY <2>1, <2>3 DEF Grows
<1>4. \A k \in 1 .. n + 1 : k \in 1 .. n \/ (k = n + 1 /\ k - 1 = n)
  BY <1>1
<1>. QED BY <1>1, <1>2, <1>3, <1>4 DEF Follows

LEMMA BurstStart ==
    ASSUME NEW g, NEW i, NEW j, NEW n \in Nat, Burst(g, i, n), Burst(g, j, n) PROVE i = j
<1>1. i \in 1 .. n /\ j \in 1 .. n
  BY DEF Burst
<1>2. ~(i < j)
  <2> SUFFICES ASSUME i < j PROVE FALSE
    OBVIOUS
  <2>1. j > 1 /\ j - 1 \in i .. n
    BY <1>1
  <2>. QED BY <2>1 DEF Burst
<1>3. ~(j < i)
  <2> SUFFICES ASSUME j < i PROVE FALSE
    OBVIOUS
  <2>1. i > 1 /\ i - 1 \in j .. n
    BY <1>1
  <2>. QED BY <2>1 DEF Burst
<1>. QED BY <1>1, <1>2, <1>3

\* No burst opens on the heels of the last.
LEMMA OpensApart ==
    ASSUME NEW t, BurstFits(t), NEW h, h = t.history, NEW n, n = t.step, Opens(t)
    PROVE  /\ n \in Nat /\ n >= 1 => ~h[n].burst
           /\ \A i \in LastOfBurst(h, n) : TotalAt(h, n) - TotalAt(h, i) >= Cooldown
<1>1. /\ Receipts(h) /\ n = Len(h) /\ t.cost = TotalAt(h, n) /\ ~(t.cost < t.cooldownUntil)
      /\ \A i \in LastOfBurst(h, n) : t.cooldownUntil = TotalAt(h, i) + Cooldown
  BY DEF BurstFits, Signals, Opens, Resting
<1>2. n \in Nat
  <2>1. PICK S : h \in Seq(S)
    BY <1>1 DEF Receipts, IsSeq
  <2>. QED BY <1>1, <2>1
<1>3. ASSUME NEW i \in LastOfBurst(h, n)
      PROVE  TotalAt(h, n) - TotalAt(h, i) >= Cooldown /\ TotalAt(h, i) \in Nat
  <2>1. i \in 0 .. Len(h) /\ n \in 0 .. Len(h)
    BY <1>1, <1>2 DEF LastOfBurst
  <2>2. TotalAt(h, i) \in Nat /\ TotalAt(h, n) \in Nat
    BY <1>1, <2>1, TotalType
  <2>3. t.cooldownUntil = TotalAt(h, i) + Cooldown
    BY <1>1
  <2>. QED BY <1>1, <2>2, <2>3, Limits
<1>4. ASSUME n >= 1, h[n].burst PROVE FALSE
  <2>1. n \in LastOfBurst(h, n)
    BY <1>2, <1>4 DEF LastOfBurst
  <2>2. TotalAt(h, n) - TotalAt(h, n) >= Cooldown /\ TotalAt(h, n) \in Nat
    BY <1>3, <2>1
  <2>. QED BY <2>2, Limits
<1>. QED BY <1>2, <1>3, <1>4

\* Where the burst that goes on began.
LEMMA Began ==
    ASSUME NEW t, NEW u, NEW h, NEW g, NEW n, Grows(t, u, h, g, n), Runs(t)
    PROVE  /\ Used(t) \in 0 .. n /\ Used(t) < MaxBurst
           /\ Burst(g, n + 1 - Used(t), n + 1)
<1>1. n \in Nat /\ Len(h) = n /\ BurstFits(t) /\ h = t.history /\ n = t.step
  BY DEF Grows
<1>2. g[n + 1].burst /\ \A i \in 1 .. n : g[i] = h[i]
  BY DEF Grows
<1>3. CASE Opens(t)
  <2>1. Used(t) = 0
    BY <1>3 DEF Used
  <2>2. n >= 1 => ~h[n].burst
    BY <1>1, <1>3, OpensApart
  <2>3. n + 1 > 1 => ~g[(n + 1) - 1].burst
    <3>1. n >= 1 => n \in 1 .. n
      BY <1>1
    <3>. QED BY <1>1, <1>2, <2>2, <3>1
  <2>4. \A k \in n + 1 .. n + 1 : g[k].burst
    BY <1>1, <1>2
  <2>5. Burst(g, n + 1, n + 1)
    BY <1>1, <2>3, <2>4 DEF Burst
  <2>. QED BY <1>1, <2>1, <2>5, Limits
<1>4. CASE ~Opens(t)
  <2>1. t.inBurst /\ Used(t) = t.used
    BY <1>4 DEF Runs, Used
  <2>2. PICK i : i = n - t.used + 1
    OBVIOUS
  <2>3. t.used \in 1 .. n /\ t.used < MaxBurst /\ Burst(h, i, n)
    BY <1>1, <2>1, <2>2 DEF BurstFits, InBurst
  <2>4. i \in 1 .. n /\ i = n + 1 - t.used
    BY <1>1, <2>2, <2>3
  <2>5. \A k \in i .. n + 1 : g[k].burst
    <3>1. \A k \in i .. n + 1 : k = n + 1 \/ (k \in i .. n /\ k \in 1 .. n)
      BY <1>1, <2>4
    <3>. QED BY <1>2, <2>3, <3>1 DEF Burst
  <2>6. i > 1 => ~g[i - 1].burst
    <3>1. i > 1 => i - 1 \in 1 .. n
      BY <1>1, <2>4
    <3>. QED BY <1>2, <2>3, <3>1 DEF Burst
  <2>7. Burst(g, i, n + 1)
    BY <1>1, <2>4, <2>5, <2>6 DEF Burst
  <2>. QED BY <1>1, <2>1, <2>3, <2>4, <2>7
<1>. QED BY <1>3, <1>4

LEMMA GrowsBounded ==
    ASSUME NEW t, NEW u, NEW h, NEW g, NEW n, Grows(t, u, h, g, n)
    PROVE  Bounded(g)
<1>1. /\ n \in Nat /\ Len(h) = n /\ Len(g) = n + 1 /\ Bounded(h) /\ BurstFits(t)
      /\ h = t.history /\ n = t.step
  BY DEF Grows, BurstFits
<1>2. \A i \in 1 .. n : g[i] = h[i]
  BY DEF Grows
<1>3. ASSUME NEW i \in 1 .. n, NEW j \in 1 .. n, i < j
      PROVE  /\ (\A k \in i .. j : g[k].burst) => j - i < MaxBurst
             /\ (g[i].burst /\ g[j].burst /\ i + 1 < j /\ \A k \in i + 1 .. j - 1 : ~g[k].burst)
                   => TotalAt(g, j - 1) - TotalAt(g, i) >= Cooldown
  <2>1. /\ (\A k \in i .. j : h[k].burst) => j - i < MaxBurst
        /\ (h[i].burst /\ h[j].burst /\ i + 1 < j /\ \A k \in i + 1 .. j - 1 : ~h[k].burst)
              => TotalAt(h, j - 1) - TotalAt(h, i) >= Cooldown
    BY <1>1, <1>3 DEF Bounded
  <2>2. (\A k \in i .. j : g[k] = h[k]) /\ \A k \in i + 1 .. j - 1 : g[k] = h[k]
    <3>1. (\A k \in i .. j : k \in 1 .. n) /\ \A k \in i + 1 .. j - 1 : k \in 1 .. n
      BY <1>1
    <3>. QED BY <1>2, <3>1
  <2>3. PICK m \in 0 .. n : m = j - 1
    BY <1>1
  <2>4. TotalAt(g, m) = TotalAt(h, m) /\ TotalAt(g, i) = TotalAt(h, i)
    <3>1. i \in 0 .. n
      BY <1>1
    <3>. QED BY <3>1, GrowsEarlier
  <2>. QED BY <1>2, <2>1, <2>2, <2>3, <2>4
<1>4. ASSUME NEW i \in 1 .. n
      PROVE  /\ (\A k \in i .. n + 1 : g[k].burst) => n + 1 - i < MaxBurst
             /\ (g[i].burst /\ g[n + 1].burst /\ i + 1 < n + 1 /\ \A k \in i + 1 .. n : ~g[k].burst)
                   => TotalAt(g, n) - TotalAt(g, i) >= Cooldown
  <2>1. ASSUME \A k \in i .. n + 1 : g[k].burst PROVE n + 1 - i < MaxBurst
    <3>1. Runs(t)
      <4>1. n + 1 \in i .. n + 1
        BY <1>1
      <4>. QED BY <2>1, <4>1 DEF Grows
    <3>2. PICK s : s = n + 1 - Used(t)
      OBVIOUS
    <3>3. Used(t) \in 0 .. n /\ Used(t) < MaxBurst /\ Burst(g, s, n + 1)
      BY <3>1, <3>2, Began
    <3>4. ~(i < s)
      <4> SUFFICES ASSUME i < s PROVE FALSE
        OBVIOUS
      <4>1. s > 1 /\ s - 1 \in i .. n + 1
        BY <1>1, <3>2, <3>3
      <4>. QED BY <2>1, <3>3, <4>1 DEF Burst
    <3>. QED BY <1>1, <3>2, <3>3, <3>4, Limits
  <2>2. ASSUME g[i].burst, g[n + 1].burst, i + 1 < n + 1, \A k \in i + 1 .. n : ~g[k].burst
        PROVE  TotalAt(g, n) - TotalAt(g, i) >= Cooldown
    <3>1. Runs(t)
      BY <2>2 DEF Grows
    <3>2. n \in i + 1 .. n /\ n \in 1 .. n /\ i \in 0 .. n /\ n \in 0 .. n
      BY <1>1, <2>2
    <3>3. ~h[n].burst
      BY <1>2, <2>2, <3>2
    <3>4. Opens(t)
      <4> SUFFICES ASSUME t.inBurst PROVE FALSE
        BY <3>1 DEF Runs
      <4>1. PICK f : f = n - t.used + 1
        OBVIOUS
      <4>2. t.used \in 1 .. n /\ Burst(h, f, n)
        BY <1>1, <4>1 DEF BurstFits, InBurst
      <4>3. n \in f .. n
        BY <1>1, <4>1, <4>2
      <4>. QED BY <3>3, <4>2, <4>3 DEF Burst
    <3>5. i \in LastOfBurst(h, n)
      <4>1. \A k \in i + 1 .. n : g[k] = h[k]
        BY <1>1, <1>2
      <4>. QED BY <1>2, <2>2, <4>1 DEF LastOfBurst
    <3>6. TotalAt(h, n) - TotalAt(h, i) >= Cooldown
      BY <1>1, <3>4, <3>5, OpensApart
    <3>7. TotalAt(g, n) = TotalAt(h, n) /\ TotalAt(g, i) = TotalAt(h, i)
      BY <3>2, GrowsEarlier
    <3>. QED BY <3>6, <3>7
  <2>. QED BY <2>1, <2>2
<1>5. \A i, j \in 1 .. n + 1 : i < j => i \in 1 .. n /\ (j \in 1 .. n \/ (j = n + 1 /\ j - 1 = n))
  BY <1>1
<1>6. ASSUME NEW i \in 1 .. n + 1, NEW j \in 1 .. n + 1, i < j
      PROVE  /\ (\A k \in i .. j : g[k].burst) => j - i < MaxBurst
             /\ (g[i].burst /\ g[j].burst /\ i + 1 < j /\ \A k \in i + 1 .. j - 1 : ~g[k].burst)
                   => TotalAt(g, j - 1) - TotalAt(g, i) >= Cooldown
  <2>1. CASE j \in 1 .. n
    BY <1>3, <1>5, <1>6, <2>1
  <2>2. CASE j = n + 1
    <3>1. i \in 1 .. n /\ j - 1 = n
      BY <1>5, <1>6, <2>2, <1>1
    <3>. QED BY <1>4, <2>2, <3>1
  <2>. QED BY <1>5, <1>6, <2>1, <2>2
<1>. QED BY <1>1, <1>6 DEF Bounded

LEMMA GrowsBurst ==
    ASSUME NEW t, NEW u, NEW h, NEW g, NEW n, Grows(t, u, h, g, n), NEW p,
           Controlled(t, p, u), Runs(t), ~Ends(t, p), u.step = n + 1, u.history = g,
           Raises(t, p) <=> RaisedBest(g, n + 1)
    PROVE  InBurst(u)
<1>1. /\ n \in Nat /\ Len(h) = n /\ BurstFits(t) /\ h = t.history /\ n = t.step
      /\ \A i \in 1 .. n : g[i] = h[i]
  BY DEF Grows
<1>2. PICK used, first : used = Used(t) /\ first = n + 1 - used
  OBVIOUS
<1>3. used \in 0 .. n /\ Burst(g, first, n + 1)
  BY <1>2, Began
<1>4. u.used = used + 1 /\ u.progress = Progress(t, p)
  BY <1>2 DEF Controlled
<1>5. u.used \in 1 .. n + 1 /\ u.used < MaxBurst /\ (u.progress => u.used < EarlyEnd)
  BY <1>1, <1>2, <1>3, <1>4, Limits DEF Ends
<1>6. (n + 1) - u.used + 1 = first
  <2>1. n \in Nat /\ used \in Nat /\ u.used = used + 1 /\ first = n + 1 - used
    BY <1>1, <1>2, <1>3, <1>4
  <2>. QED BY <2>1
<1>7. u.progress <=> \E i \in first .. n + 1 : RaisedBest(g, i)
  <2>1. CASE Opens(t)
    <3>1. first = n + 1
      BY <1>1, <1>2, <2>1 DEF Used
    <3>2. u.progress <=> Raises(t, p)
      BY <1>4, <2>1 DEF Progress
    <3>. QED BY <1>1, <3>1, <3>2
  <2>2. CASE ~Opens(t)
    <3>1. t.inBurst /\ used = t.used
      BY <1>2, <2>2 DEF Runs, Used
    <3>2. PICK f : f = n - t.used + 1
      OBVIOUS
    <3>3. t.used \in 1 .. n /\ (t.progress <=> \E i \in f .. n : RaisedBest(h, i))
      BY <1>1, <3>1, <3>2 DEF BurstFits, InBurst
    <3>4. f = first /\ f \in 1 .. n
      BY <1>1, <1>2, <3>1, <3>2, <3>3
    <3>5. \A i \in f .. n : RaisedBest(g, i) <=> RaisedBest(h, i)
      <4>1. ASSUME NEW i \in f .. n PROVE RaisedBest(g, i) <=> RaisedBest(h, i)
        <5>1. PICK k \in 0 .. n : k = i - 1
          BY <1>1, <3>4
        <5>2. i \in 0 .. n
          BY <1>1, <3>4
        <5>3. BestAt(g, i) = BestAt(h, i) /\ BestAt(g, k) = BestAt(h, k)
          BY <5>2, GrowsEarlier
        <5>. QED BY <5>1, <5>3 DEF RaisedBest
      <4>. QED BY <4>1
    <3>6. u.progress <=> t.progress \/ RaisedBest(g, n + 1)
      BY <1>4, <2>2 DEF Progress
    <3>7. \A i \in first .. n + 1 : i \in f .. n \/ i = n + 1
      BY <1>1, <3>4
    <3>8. n + 1 \in first .. n + 1 /\ \A i \in f .. n : i \in first .. n + 1
      BY <1>1, <3>4
    <3>. QED BY <3>3, <3>5, <3>6, <3>7, <3>8
  <2>. QED BY <2>1, <2>2
<1>. QED BY <1>3, <1>5, <1>6, <1>7 DEF InBurst

LEMMA GrowsRest ==
    ASSUME NEW t, NEW u, NEW h, NEW g, NEW n, Grows(t, u, h, g, n), NEW p,
           Controlled(t, p, u), ~(Runs(t) /\ ~Ends(t, p)), u.step = n + 1, u.history = g,
           Raises(t, p) <=> RaisedBest(g, n + 1)
    PROVE  Resting(u)
<1>1. /\ n \in Nat /\ Len(h) = n /\ BurstFits(t) /\ h = t.history /\ n = t.step
      /\ \A i \in 1 .. n : g[i] = h[i]
      /\ g[n + 1].burst = Runs(t) /\ TotalAt(g, n + 1) = u.cost
  BY DEF Grows, TotalAt
<1>2. CASE ~Runs(t)
  <2>1. ~g[n + 1].burst
    BY <1>1, <1>2
  <2>2. ~Continues(g, n + 1)
    <3> SUFFICES ASSUME NEW i \in 1 .. n + 1, Burst(g, i, n + 1) PROVE FALSE
      BY DEF Continues
    <3>1. n + 1 \in i .. n + 1
      BY <1>1
    <3>. QED BY <2>1, <3>1 DEF Burst
  <2>3. LastOfBurst(g, n + 1) = LastOfBurst(h, n)
    <3>1. ASSUME NEW i \in LastOfBurst(g, n + 1) PROVE i \in LastOfBurst(g, n)
      <4>1. i \in 1 .. n + 1 /\ g[i].burst /\ \A k \in i + 1 .. n + 1 : ~g[k].burst
        BY DEF LastOfBurst
      <4>2. i # n + 1
        BY <2>1, <4>1
      <4>3. i \in 1 .. n /\ \A k \in i + 1 .. n : k \in i + 1 .. n + 1
        BY <1>1, <4>1, <4>2
      <4>. QED BY <4>1, <4>3 DEF LastOfBurst
    <3>2. ASSUME NEW i \in LastOfBurst(g, n) PROVE i \in LastOfBurst(g, n + 1)
      <4>1. i \in 1 .. n /\ g[i].burst /\ \A k \in i + 1 .. n : ~g[k].burst
        BY DEF LastOfBurst
      <4>2. i \in 1 .. n + 1 /\ \A k \in i + 1 .. n + 1 : k \in i + 1 .. n \/ k = n + 1
        BY <1>1, <4>1
      <4>3. \A k \in i + 1 .. n + 1 : ~g[k].burst
        BY <2>1, <4>1, <4>2
      <4>. QED BY <4>1, <4>2, <4>3 DEF LastOfBurst
    <3>3. n \in 0 .. n
      BY <1>1
    <3>4. LastOfBurst(g, n) = LastOfBurst(h, n)
      BY <3>3, GrowsEarlier
    <3>. QED BY <3>1, <3>2, <3>4
  <2>4. Resting(t) /\ u.cooldownUntil = t.cooldownUntil
    BY <1>1, <1>2 DEF BurstFits, Runs, Controlled
  <2>5. \A i \in LastOfBurst(h, n) : TotalAt(g, i) = TotalAt(h, i)
    <3>1. \A i \in LastOfBurst(h, n) : i \in 0 .. n
      BY <1>1 DEF LastOfBurst
    <3>. QED BY <3>1, GrowsEarlier
  <2>. QED BY <1>1, <2>2, <2>3, <2>4, <2>5 DEF Resting
<1>3. CASE Runs(t) /\ Ends(t, p)
  <2>1. g[n + 1].burst /\ u.cooldownUntil = u.cost + Cooldown
    BY <1>1, <1>3 DEF Controlled
  <2>2. PICK first : first = n + 1 - Used(t)
    OBVIOUS
  <2>3. Used(t) \in 0 .. n /\ Burst(g, first, n + 1)
    BY <1>3, <2>2, Began
  <2>4. ~Continues(g, n + 1)
    <3> SUFFICES ASSUME NEW i \in 1 .. n + 1, Burst(g, i, n + 1), (n + 1) - i + 1 < MaxBurst,
                        (n + 1) - i + 1 >= EarlyEnd => \A k \in i .. n + 1 : ~RaisedBest(g, k)
                 PROVE FALSE
      BY DEF Continues
    <3>1. i = first
      BY <1>1, <2>3, BurstStart
    <3>2. (n + 1) - i + 1 = Used(t) + 1
      BY <1>1, <2>2, <2>3, <3>1
    <3>3. Progress(t, p) /\ Used(t) + 1 >= EarlyEnd
      BY <1>3, <2>3, <3>2, Limits DEF Ends
    <3>4. \A k \in i .. n + 1 : ~RaisedBest(g, k)
      BY <3>2, <3>3
    <3>5. ~Raises(t, p)
      <4>1. n + 1 \in i .. n + 1
        BY <1>1
      <4>. QED BY <3>4, <4>1
    <3>6. ~Opens(t) /\ t.progress
      BY <3>3, <3>5 DEF Progress
    <3>7. t.inBurst /\ Used(t) = t.used
      BY <1>3, <3>6 DEF Runs, Used
    <3>8. PICK f : f = n - t.used + 1
      OBVIOUS
    <3>9. f = i
      BY <1>1, <2>2, <2>3, <3>1, <3>7, <3>8
    <3>10. PICK k \in i .. n : RaisedBest(h, k)
      BY <1>1, <3>6, <3>7, <3>8, <3>9 DEF BurstFits, InBurst
    <3>11. k \in 0 .. n /\ k - 1 \in 0 .. n /\ k \in i .. n + 1
      BY <1>1
    <3>12. PICK m \in 0 .. n : m = k - 1
      BY <3>11
    <3>13. BestAt(g, k) = BestAt(h, k) /\ BestAt(g, m) = BestAt(h, m)
      BY <3>11, GrowsEarlier
    <3>14. RaisedBest(g, k)
      BY <3>10, <3>12, <3>13 DEF RaisedBest
    <3>. QED BY <3>4, <3>11, <3>14
  <2>5. ASSUME NEW i \in LastOfBurst(g, n + 1) PROVE i = n + 1
    <3>1. i \in 1 .. n + 1 /\ \A k \in i + 1 .. n + 1 : ~g[k].burst
      BY DEF LastOfBurst
    <3>2. i # n + 1 => n + 1 \in i + 1 .. n + 1
      BY <1>1, <3>1
    <3>. QED BY <2>1, <3>1, <3>2
  <2>6. n + 1 \in LastOfBurst(g, n + 1)
    <3>1. n + 1 \in 1 .. n + 1 /\ \A k \in (n + 1) + 1 .. n + 1 : FALSE
      BY <1>1
    <3>. QED BY <2>1, <3>1 DEF LastOfBurst
  <2>. QED BY <1>1, <2>1, <2>4, <2>5, <2>6 DEF Resting
<1>. QED BY <1>2, <1>3

LEMMA StepFits ==
    ASSUME NEW t, BurstFits(t), NEW op \in DOMAIN Costs, NEW p \in Points,
           NEW u, u = StepOf(t, op, p)
    PROVE  BurstFits(u) /\ u.step = t.step + 1 /\ Extends(u.history, t.history)
<1>1. Shaped(u) /\ Controlled(t, p, u)
  BY StepParts DEF BurstFits
<1>2. PICK row : Recorded(t, op, p, u, row)
  BY StepParts DEF BurstFits
<1>3. PICK h, g, n : h = t.history /\ g = u.history /\ n = t.step
  OBVIOUS
<1>4. /\ Receipts(h) /\ n = Len(h) /\ t.inBurst \in BOOLEAN
      /\ t.cost = TotalAt(h, n) /\ t.best = BestAt(h, n)
  BY <1>3 DEF BurstFits, Signals
<1>5. /\ u.step = n + 1 /\ u.cost = t.cost + Costs[op]
      /\ u.best = IF Raises(t, p) THEN Score[p] ELSE t.best
      /\ g = Append(h, row)
      /\ row.total = u.cost /\ row.best = u.best /\ row.qd = u.onlineQd /\ row.burst = Runs(t)
      /\ u.lastBest = IF Raises(t, p) THEN u.cost ELSE t.lastBest
      /\ u.lastQd = IF u.onlineQd > t.onlineQd THEN u.cost ELSE t.lastQd
  BY <1>2, <1>3 DEF Recorded
<1>6. /\ IsSeq(g) /\ n \in Nat /\ Len(g) = n + 1
      /\ \A i \in 1 .. n : g[i] = h[i]
      /\ g[n + 1] = row
  <2>1. IsSeq(h) /\ g = Append(h, row)
    BY <1>4, <1>5 DEF Receipts
  <2>2. /\ IsSeq(g) /\ Len(h) \in Nat /\ Len(g) = Len(h) + 1
        /\ \A i \in 1 .. Len(h) : g[i] = h[i]
        /\ g[Len(h) + 1] = row
    <3>1. Longer(g, h, row)
      BY <2>1, Appended
    <3>. QED BY <3>1 DEF Longer
  <2>. QED BY <1>4, <2>2
<1>7. Grows(t, u, h, g, n)
  BY <1>3, <1>4, <1>5, <1>6 DEF Grows
<1>8. Feasible(p) => Score[p] \in Nat
  BY TrialAssumption DEF Feasible
<1>9. t.cost \in Nat /\ t.best \in Nat
  <2>1. n \in 0 .. Len(h)
    BY <1>4, <1>6
  <2>. QED BY <1>4, <2>1, TotalType
<1>10. u.cost \in Nat /\ u.best \in Nat
  <2>1. Costs[op] \in Nat
    BY TrialAssumption
  <2>2. Raises(t, p) => Feasible(p)
    BY DEF Raises
  <2>. QED BY <1>5, <1>8, <1>9, <2>1, <2>2
<1>11. Receipts(g)
  <2>1. \A i \in 1 .. n + 1 : i \in 1 .. n \/ i = n + 1
    BY <1>6
  <2>2. Runs(t) \in BOOLEAN
    BY <1>4 DEF Runs, Opens
  <2>. QED BY <1>4, <1>5, <1>6, <1>10, <2>1, <2>2 DEF Receipts
<1>12. Marked(g) /\ Signals(u) /\ (Raises(t, p) <=> RaisedBest(g, n + 1))
  BY <1>5, <1>7, <1>8, GrowsSignals
<1>13. Follows(g) /\ Bounded(g)
  BY <1>7, GrowsFollows, GrowsBounded
<1>14. u.inBurst = (Runs(t) /\ ~Ends(t, p))
  BY <1>1 DEF Controlled
<1>15. u.inBurst => InBurst(u)
  BY <1>1, <1>3, <1>5, <1>7, <1>12, <1>14, GrowsBurst
<1>16. ~u.inBurst => Resting(u)
  BY <1>1, <1>3, <1>5, <1>7, <1>12, <1>14, GrowsRest
<1>17. u.inBurst \in BOOLEAN /\ u.progress \in BOOLEAN
  BY <1>1, <1>14 DEF Controlled
<1>18. u.used \in Nat /\ u.cooldownUntil \in Nat
  <2>1. t.used \in Nat /\ t.cooldownUntil \in Nat
    BY DEF BurstFits
  <2>2. Used(t) \in Nat
    BY <2>1 DEF Used
  <2>. QED BY <1>1, <1>10, <2>1, <2>2, Limits DEF Controlled
<1>19. Extends(u.history, t.history)
  BY <1>3, <1>5 DEF Extends
<1>. QED BY <1>1, <1>2, <1>3, <1>5, <1>6, <1>11, <1>12, <1>13, <1>15, <1>16, <1>17, <1>18, <1>19 DEF BurstFits

-----------------------------------------------------------------------------
(* One step of a search trial: a record and a point of the curve more.       *)

SearchShaped(t) == SearchSnapshot(t) = t

Explored(t, u) ==
    /\ SearchShaped(u) /\ u.setup = t.setup /\ u.step = t.step + 1
    /\ Extends(u.population, t.population) /\ Extends(u.curve, t.curve)

LEMMA AddedParts ==
    ASSUME NEW t, SearchShaped(t), NEW record, NEW u, u = Added(t, record)
    PROVE  /\ SearchShaped(u) /\ u.setup = t.setup /\ u.step = t.step /\ u.curve = t.curve
           /\ u.population = Append(t.population, record)
<1>1. PICK archive, best, depth :
          u = [t EXCEPT !.population = Append(@, record), !.archive = archive,
                        !.seen = @ \cup {record.point}, !.best = best, !.maxDepth = depth]
  BY Zenon DEF Added
<1>. QED BY <1>1 DEF SearchShaped, SearchSnapshot

LEMMA CurveParts ==
    ASSUME NEW t, SearchShaped(t), NEW u, u = WithCurve(t)
    PROVE  /\ SearchShaped(u) /\ u.setup = t.setup /\ u.step = t.step
           /\ u.population = t.population /\ Extends(u.curve, t.curve)
<1>1. PICK c : u = [t EXCEPT !.curve = Append(@, c)]
  BY Zenon DEF WithCurve
<1>2. u.curve = Append(t.curve, c)
  BY <1>1 DEF SearchShaped, SearchSnapshot
<1>. QED BY <1>1, <1>2 DEF SearchShaped, SearchSnapshot, Extends

LEMMA CountedParts ==
    ASSUME NEW t, NEW draw, NEW after, SearchShaped(after), NEW u, u = Counted(t, draw, after)
    PROVE  /\ SearchShaped(u) /\ u.setup = after.setup /\ u.step = after.step + 1
           /\ u.population = after.population /\ u.curve = after.curve
<1>1. PICK uses : uses = [after.uses EXCEPT ![draw.op] = @ + 1]
  OBVIOUS
<1>2. PICK improvements : improvements = [after.improvements EXCEPT ![draw.op] =
          @ + (IF Last(after.population).score > BestScore(t) THEN 1 ELSE 0)]
  OBVIOUS
<1>3. PICK credit : credit = [after.credit EXCEPT ![draw.op] =
          @ + (IF t.setup.inverted THEN -Reward(t, after, draw.op)
               ELSE Reward(t, after, draw.op))]
  OBVIOUS
<1>4. PICK valid : valid = after.valid +
          (IF Last(after.population).score = MinusInfinity THEN 0 ELSE 1)
  OBVIOUS
<1>5. PICK duplicates : duplicates = after.duplicates + (IF draw.point \in t.seen THEN 1 ELSE 0)
  OBVIOUS
<1>6. PICK novelty : novelty = after.novelty +
          (IF t.seen \ {draw.point} = {} THEN 0
           ELSE Min({Hamming(draw.point, q) : q \in t.seen \ {draw.point}}))
  OBVIOUS
<1>7. u = [after EXCEPT !.step = @ + 1, !.uses = uses, !.improvements = improvements,
                        !.credit = credit, !.valid = valid, !.duplicates = duplicates,
                        !.novelty = novelty]
  BY <1>1, <1>2, <1>3, <1>4, <1>5, <1>6, Zenon DEF Counted
<1>. QED BY <1>7 DEF SearchShaped, SearchSnapshot

LEMMA SearchStepParts ==
    ASSUME NEW t, SearchShaped(t), NEW draw, NEW u, u = SearchStepOf(t, draw)
    PROVE  Explored(t, u)
<1>1. PICK record : record = SearchRecord(t, draw)
  OBVIOUS
<1>2. PICK a : a = Added(t, record)
  OBVIOUS
<1>3. PICK b : b = [a EXCEPT !.cost = @ + OperatorCost[draw.op]]
  OBVIOUS
<1>4. PICK after : after = WithCurve(b)
  OBVIOUS
<1>5. u = Counted(t, draw, after)
  BY <1>1, <1>2, <1>3, <1>4, Zenon DEF SearchStepOf
<1>6. /\ SearchShaped(a) /\ a.setup = t.setup /\ a.step = t.step /\ a.curve = t.curve
      /\ a.population = Append(t.population, record)
  BY <1>2, AddedParts
<1>7. /\ SearchShaped(b) /\ b.setup = t.setup /\ b.step = t.step /\ b.curve = t.curve
      /\ b.population = Append(t.population, record)
  BY <1>3, <1>6 DEF SearchShaped, SearchSnapshot
<1>8. /\ SearchShaped(after) /\ after.setup = t.setup /\ after.step = t.step
      /\ after.population = b.population
      /\ Extends(after.curve, b.curve)
  BY <1>4, <1>7, CurveParts
<1>9. /\ SearchShaped(u) /\ u.setup = after.setup /\ u.step = after.step + 1
      /\ u.population = after.population /\ u.curve = after.curve
  BY <1>5, <1>8, CountedParts
<1>10. Extends(u.population, t.population)
  BY <1>7, <1>8, <1>9 DEF Extends
<1>. QED BY <1>7, <1>8, <1>9, <1>10 DEF Explored

-----------------------------------------------------------------------------
(* A burst trial, with its snapshot and the receipts of its first run, lies  *)
(* on one path of states, a step of the trial for each draw.                 *)

LEMMA NewTrialFits == BurstFits(NewTrial) /\ NewTrial.step = 0
<1>1. PICK t : t = NewTrial
  OBVIOUS
<1>2. /\ Shaped(t) /\ t.history = <<>> /\ t.step = 0 /\ t.best = Score[Origin] /\ t.cost = 0
      /\ t.inBurst = FALSE /\ t.progress = FALSE /\ t.used = 0 /\ t.cooldownUntil = 0
      /\ t.lastBest = 0 /\ t.lastQd = 0 /\ t.onlineQd = 0
  BY <1>1 DEF NewTrial, Shaped
<1>3. IsSeq(t.history) /\ Len(t.history) = 0
  <2>1. <<>> \in Seq({})
    OBVIOUS
  <2>. QED BY <1>2, <2>1 DEF IsSeq
<1>4. PICK h : h = t.history
  OBVIOUS
<1>5. LastBestRise(h, 0) = 0 /\ LastQdRise(h, 0) = 0
  <2>1. {0} \cup {i \in 1 .. 0 : RaisedBest(h, i)} = {0}
    OBVIOUS
  <2>2. {0} \cup {i \in 1 .. 0 : RaisedQd(h, i)} = {0}
    OBVIOUS
  <2>3. Max({0}) = 0
    BY MaxIs
  <2>. QED BY <2>1, <2>2, <2>3 DEF LastBestRise, LastQdRise
<1>6. Marked(h)
  <2>1. \A n \in 0 .. 0 : n = 0
    OBVIOUS
  <2>. QED BY <1>3, <1>4, <1>5, <2>1 DEF Marked
<1>7. Signals(t)
  BY <1>2, <1>4, <1>5 DEF Signals, TotalAt, BestAt, QdAt
<1>8. ~Continues(h, 0)
  BY DEF Continues
<1>9. LastOfBurst(h, 0) = {}
  BY DEF LastOfBurst
<1>10. Receipts(h) /\ Follows(h) /\ Bounded(h)
  BY <1>3, <1>4 DEF Receipts, Follows, Bounded
<1>11. Resting(t)
  BY <1>2, <1>4, <1>8, <1>9 DEF Resting
<1>12. BurstFits(t)
  <2>1. /\ Shaped(t) /\ Receipts(t.history) /\ t.step = Len(t.history)
        /\ Marked(t.history) /\ Follows(t.history) /\ Bounded(t.history)
    BY <1>2, <1>3, <1>4, <1>6, <1>10
  <2>2. t.inBurst \in BOOLEAN /\ t.progress \in BOOLEAN
    BY <1>2, Zenon
  <2>3. t.used \in Nat /\ t.cooldownUntil \in Nat
    BY <1>2
  <2>. QED BY <1>2, <1>7, <1>11, <2>1, <2>2, <2>3 DEF BurstFits
<1>. QED BY <1>1, <1>2, <1>12

BurstPath(states, n) ==
    /\ \A i \in 0 .. n : BurstFits(states[i]) /\ states[i].step = i
    /\ \A i \in 1 .. n : states[i] = StepOf(states[i - 1], picks[i].op, picks[i].point)
    /\ \A i \in 0 .. n : \A k \in 1 .. i : states[i].history[k] = full[k]

OnPath(states, n, t) == t.step \in 0 .. n /\ t = states[t.step]

BurstInv ==
    LET n == Len(picks)
    IN  /\ picks \in Seq(Draws) /\ IsSeq(full) /\ Len(full) = n
        /\ \E states :
              /\ BurstPath(states, n) /\ OnPath(states, n, trial)
              /\ saved = None \/ OnPath(states, n, saved)

LEMMA BurstBegins == Init => BurstInv
<1> SUFFICES ASSUME Init PROVE BurstInv
  OBVIOUS
<1>1. trial = NewTrial /\ picks = <<>> /\ full = <<>> /\ saved = None
  BY DEF Init
<1>2. picks \in Seq(Draws) /\ IsSeq(full) /\ Len(full) = 0 /\ Len(picks) = 0
  <2>1. <<>> \in Seq({})
    OBVIOUS
  <2>. QED BY <1>1, <2>1 DEF IsSeq
<1>3. PICK states : states = [i \in {0} |-> NewTrial]
  OBVIOUS
<1>4. states[0] = NewTrial
  BY <1>3
<1>5. BurstPath(states, 0)
  <2>1. \A i \in 0 .. 0 : i = 0
    OBVIOUS
  <2>. QED BY <1>4, <2>1, NewTrialFits DEF BurstPath
<1>6. OnPath(states, 0, trial)
  BY <1>1, <1>4, NewTrialFits DEF OnPath
<1>. QED BY <1>1, <1>2, <1>5, <1>6 DEF BurstInv

\* A draw more takes the path a state further.
LEMMA BurstLengthens ==
    ASSUME NEW states, NEW n \in Nat, BurstPath(states, n), picks \in Seq(Draws), n = Len(picks),
           IsSeq(full), Len(full) = n, NEW draw \in Draws, NEW t, t = states[n],
           NEW u, u = StepOf(t, draw.op, draw.point),
           picks' = Append(picks, draw), full' = Append(full, Last(u.history))
    PROVE  /\ picks' \in Seq(Draws) /\ IsSeq(full') /\ Len(full') = n + 1 /\ Len(picks') = n + 1
           /\ \E s : /\ BurstPath(s, n + 1)' /\ s[n + 1] = u /\ u.step = n + 1
                     /\ \A i \in 0 .. n : s[i] = states[i]
<1>1. PICK s : s = [i \in 0 .. n + 1 |-> IF i <= n THEN states[i] ELSE u]
  OBVIOUS
<1>2. (\A i \in 0 .. n : s[i] = states[i]) /\ s[n + 1] = u
  BY <1>1
<1>3. BurstFits(t) /\ t.step = n
  BY DEF BurstPath
<1>4. draw.op \in DOMAIN Costs /\ draw.point \in Points
  BY TrialAssumption
<1>5. BurstFits(u) /\ u.step = n + 1 /\ Extends(u.history, t.history)
  <2>1. PICK op, p : op = draw.op /\ p = draw.point
    OBVIOUS
  <2>2. op \in DOMAIN Costs /\ p \in Points /\ u = StepOf(t, op, p)
    BY <1>4, <2>1
  <2>. QED BY <1>3, <2>2, StepFits
<1>6. PICK row : u.history = Append(t.history, row)
  BY <1>5 DEF Extends
<1>7. IsSeq(t.history) /\ Len(t.history) = n
  BY <1>3 DEF BurstFits, Receipts
<1>8. /\ IsSeq(u.history) /\ Len(u.history) = n + 1
      /\ \A k \in 1 .. n : u.history[k] = t.history[k]
      /\ u.history[n + 1] = row
  <2>1. Longer(u.history, t.history, row)
    BY <1>6, <1>7, Appended
  <2>. QED BY <1>7, <2>1 DEF Longer
<1>9. Last(u.history) = row
  BY <1>8 DEF Last
<1>10. /\ IsSeq(full') /\ Len(full') = n + 1
       /\ \A k \in 1 .. n : full'[k] = full[k]
       /\ full'[n + 1] = row
  <2>1. Longer(full', full, row)
    BY <1>9, Appended
  <2>. QED BY <2>1 DEF Longer
<1>11. /\ picks' \in Seq(Draws) /\ Len(picks') = n + 1
       /\ \A k \in 1 .. n : picks'[k] = picks[k]
       /\ picks'[n + 1] = draw
  OBVIOUS
<1>12. \A i \in 0 .. n + 1 : i \in 0 .. n \/ i = n + 1
  OBVIOUS
<1>13. \A i \in 0 .. n + 1 : BurstFits(s[i]) /\ s[i].step = i
  BY <1>2, <1>5, <1>12 DEF BurstPath
<1>14. ASSUME NEW i \in 1 .. n + 1
       PROVE  s[i] = StepOf(s[i - 1], picks'[i].op, picks'[i].point)
  <2>1. CASE i \in 1 .. n
    <3>1. i \in 0 .. n /\ i - 1 \in 0 .. n
      BY <2>1
    <3>2. s[i] = states[i] /\ s[i - 1] = states[i - 1] /\ picks'[i] = picks[i]
      BY <1>2, <1>11, <2>1, <3>1
    <3>. QED BY <2>1, <3>2 DEF BurstPath
  <2>2. CASE i = n + 1
    <3>1. s[i - 1] = t
      BY <1>2, <2>2
    <3>. QED BY <1>2, <1>11, <2>2, <3>1
  <2>. QED BY <2>1, <2>2
<1>15. ASSUME NEW i \in 0 .. n + 1, NEW k \in 1 .. i PROVE s[i].history[k] = full'[k]
  <2>1. CASE i \in 0 .. n
    <3>1. k \in 1 .. n
      BY <2>1
    <3>. QED BY <1>2, <1>10, <2>1, <3>1 DEF BurstPath
  <2>2. CASE i = n + 1 /\ k \in 1 .. n
    BY <1>2, <1>8, <1>10, <2>2 DEF BurstPath
  <2>3. CASE i = n + 1 /\ k = n + 1
    BY <1>2, <1>8, <1>10, <2>3
  <2>. QED BY <2>1, <2>2, <2>3
<1>16. BurstPath(s, n + 1)'
  BY <1>13, <1>14, <1>15 DEF BurstPath
<1>. QED BY <1>2, <1>5, <1>10, <1>11, <1>16

LEMMA ShapedIs == ASSUME NEW t, BurstFits(t) PROVE Snapshot(t) = t /\ "inBurst" \in DOMAIN t
BY DEF BurstFits, Shaped, Snapshot

LEMMA BurstSteps ==
    ASSUME BurstInv, NEW draw \in Draws, Step(draw)
    PROVE  BurstInv'
<1>1. PICK n : n = Len(picks)
  OBVIOUS
<1>2. /\ picks \in Seq(Draws) /\ IsSeq(full) /\ Len(full) = n
  BY <1>1 DEF BurstInv
<1>3. n \in Nat
  BY <1>1, <1>2
<1>4. PICK states : /\ BurstPath(states, n) /\ OnPath(states, n, trial)
                    /\ saved = None \/ OnPath(states, n, saved)
  BY <1>1 DEF BurstInv
<1>5. PICK m : m = trial.step
  OBVIOUS
<1>6. m \in 0 .. n /\ trial = states[m]
  BY <1>4, <1>5 DEF OnPath
<1>7. trial' = StepOf(trial, draw.op, draw.point) /\ saved' = saved
  BY DEF Step
<1>8. CASE m < n
  <2>1. picks' = picks /\ full' = full /\ picks[m + 1] = draw
    BY <1>1, <1>5, <1>8 DEF Step
  <2>2. m + 1 \in 1 .. n /\ m + 1 \in 0 .. n /\ (m + 1) - 1 = m
    BY <1>3, <1>6, <1>8
  <2>3. trial' = states[m + 1]
    <3>1. PICK i \in 1 .. n : i = m + 1 /\ i - 1 = m
      BY <2>2
    <3>2. states[i] = StepOf(states[i - 1], picks[i].op, picks[i].point)
      BY <1>4, <3>1 DEF BurstPath
    <3>. QED BY <1>6, <1>7, <2>1, <3>1, <3>2
  <2>4. OnPath(states, n, trial')
    <3>1. states[m + 1].step = m + 1
      BY <1>4, <2>2 DEF BurstPath
    <3>. QED BY <2>2, <2>3, <3>1 DEF OnPath
  <2>5. BurstPath(states, n)'
    BY <1>4, <2>1 DEF BurstPath
  <2>6. saved' = None \/ OnPath(states, n, saved')
    BY <1>4, <1>7
  <2>. QED BY <1>1, <1>2, <2>1, <2>4, <2>5, <2>6 DEF BurstInv, OnPath
<1>9. CASE ~(m < n)
  <2>1. m = n /\ trial = states[n]
    BY <1>3, <1>6, <1>9
  <2>2. picks' = Append(picks, draw) /\ full' = Append(full, Last(trial'.history))
    BY <1>1, <1>5, <1>9 DEF Step
  <2>3. PICK u : u = trial'
    OBVIOUS
  <2>4. u = StepOf(states[n], draw.op, draw.point) /\ full' = Append(full, Last(u.history))
    BY <1>7, <2>1, <2>2, <2>3
  <2>5. /\ picks' \in Seq(Draws) /\ IsSeq(full') /\ Len(full') = n + 1 /\ Len(picks') = n + 1
        /\ \E s : /\ BurstPath(s, n + 1)' /\ s[n + 1] = u /\ u.step = n + 1
                  /\ \A i \in 0 .. n : s[i] = states[i]
    BY <1>1, <1>2, <1>3, <1>4, <2>2, <2>4, BurstLengthens
  <2>6. PICK s : /\ BurstPath(s, n + 1)' /\ s[n + 1] = u /\ u.step = n + 1
                 /\ \A i \in 0 .. n : s[i] = states[i]
    BY <2>5
  <2>7. OnPath(s, n + 1, trial')
    BY <1>3, <2>3, <2>6 DEF OnPath
  <2>8. saved' = None \/ OnPath(s, n + 1, saved')
    <3>1. CASE OnPath(states, n, saved)
      <4>1. saved.step \in 0 .. n /\ saved = states[saved.step]
        BY <3>1 DEF OnPath
      <4>2. saved.step \in 0 .. n + 1 /\ saved = s[saved.step]
        BY <1>3, <2>6, <4>1
      <4>. QED BY <1>7, <4>2 DEF OnPath
    <3>. QED BY <1>4, <1>7, <3>1
  <2>. QED BY <2>5, <2>6, <2>7, <2>8 DEF BurstInv, OnPath
<1>. QED BY <1>8, <1>9

LEMMA BurstRestores ==
    ASSUME BurstInv, Checkpoint \/ Restore
    PROVE  BurstInv'
<1>1. PICK n : n = Len(picks)
  OBVIOUS
<1>2. PICK states : /\ BurstPath(states, n) /\ OnPath(states, n, trial)
                    /\ saved = None \/ OnPath(states, n, saved)
  BY <1>1 DEF BurstInv
<1>3. picks' = picks /\ full' = full
  BY DEF Checkpoint, Restore
<1>4. BurstFits(trial)
  BY <1>2 DEF BurstPath, OnPath
<1>5. OnPath(states, n, trial') /\ (saved' = None \/ OnPath(states, n, saved'))
  <2>1. CASE Checkpoint
    <3>1. saved' = trial /\ trial' = trial
      BY <1>4, <2>1, ShapedIs DEF Checkpoint
    <3>. QED BY <1>2, <3>1
  <2>2. CASE Restore
    BY <1>2, <2>2 DEF Restore
  <2>. QED BY <2>1, <2>2
<1>6. BurstPath(states, n)'
  BY <1>2, <1>3 DEF BurstPath
<1>. QED BY <1>1, <1>3, <1>5, <1>6 DEF BurstInv, OnPath

\* What the path makes of the three properties.
LEMMA BurstHolds ==
    ASSUME BurstInv
    PROVE  /\ BurstFits(trial)
           /\ BurstsFollowReceipts /\ BurstsBounded /\ RestoredContinues
<1>1. PICK n : n = Len(picks)
  OBVIOUS
<1>2. IsSeq(full) /\ Len(full) = n /\ n \in Nat
  <2>1. picks \in Seq(Draws)
    BY DEF BurstInv
  <2>. QED BY <1>1, <2>1 DEF BurstInv
<1>3. PICK states : BurstPath(states, n) /\ OnPath(states, n, trial)
  BY <1>1 DEF BurstInv
<1>4. PICK m : m = trial.step
  OBVIOUS
<1>5. m \in 0 .. n /\ trial = states[m] /\ BurstFits(trial)
  BY <1>3, <1>4 DEF BurstPath, OnPath
<1>6. PICK h : h = trial.history
  OBVIOUS
<1>7. IsSeq(h) /\ Len(h) = m /\ Follows(h) /\ Bounded(h)
  BY <1>4, <1>5, <1>6 DEF BurstFits, Receipts
<1>8. DOMAIN h = 1 .. m
  <2>1. PICK S : h \in Seq(S)
    BY <1>7 DEF IsSeq
  <2>. QED BY <1>7, <2>1
<1>9. BurstsFollowReceipts
  BY <1>6, <1>7, <1>8 DEF BurstsFollowReceipts, Follows
<1>10. BurstsBounded
  BY <1>6, <1>7, <1>8 DEF BurstsBounded, Bounded
<1>11. RestoredContinues
  <2>1. \A k \in 1 .. m : h[k] = full[k]
    BY <1>3, <1>5, <1>6 DEF BurstPath
  <2>2. m \in Nat /\ m <= n
    BY <1>2, <1>5
  <2>3. SubSeq(h, 1, m) = SubSeq(full, 1, m)
    BY <1>2, <1>7, <2>1, <2>2, SameSlice
  <2>. QED BY <1>2, <1>4, <1>6, <1>7, <2>2, <2>3 DEF RestoredContinues, IsPrefix
<1>. QED BY <1>5, <1>9, <1>10, <1>11

-----------------------------------------------------------------------------
(* A search trial, with its snapshot and its first run, lies on one path.    *)

LEMMA NewSearchParts ==
    ASSUME NEW s, NEW u, u = NewSearch(s)
    PROVE  /\ SearchShaped(u) /\ u.setup = s /\ u.step = 0
           /\ Extends(u.population, <<>>) /\ Extends(u.curve, <<>>)
<1>1. PICK zero : zero = [op \in Range(Operators) |-> 0]
  OBVIOUS
<1>2. PICK seed : seed =
          [point |-> Zeros(Len(s.land.target)),
           score |-> PointScore(s.land, Zeros(Len(s.land.target))), depth |-> 0,
           number |-> 0, op |-> "seed", parents |-> <<>>]
  OBVIOUS
<1>3. PICK t : t =
          [setup |-> s, step |-> 0, population |-> <<>>, archive |-> <<>>, seen |-> {},
           best |-> 0, curve |-> <<>>, cost |-> 0, improvements |-> zero, credit |-> zero,
           uses |-> zero, valid |-> 0, duplicates |-> 0, novelty |-> 0, maxDepth |-> 0]
  OBVIOUS
<1>4. /\ SearchShaped(t) /\ t.setup = s /\ t.step = 0
      /\ t.population = <<>> /\ t.curve = <<>>
  BY <1>3 DEF SearchShaped, SearchSnapshot
<1>5. PICK a : a = Added(t, seed)
  OBVIOUS
<1>6. u = WithCurve(a)
  BY <1>1, <1>2, <1>3, <1>5, Zenon DEF NewSearch
<1>7. /\ SearchShaped(a) /\ a.setup = s /\ a.step = 0 /\ a.curve = <<>>
      /\ a.population = Append(<<>>, seed)
  BY <1>4, <1>5, AddedParts
<1>8. /\ SearchShaped(u) /\ u.setup = a.setup /\ u.step = a.step
      /\ u.population = a.population /\ Extends(u.curve, a.curve)
  BY <1>6, <1>7, CurveParts
<1>9. Extends(u.population, <<>>)
  BY <1>7, <1>8 DEF Extends
<1>. QED BY <1>7, <1>8, <1>9

LEMMA ExtendedParts ==
    ASSUME NEW s, IsSeq(s), NEW n \in Nat, Len(s) = n, NEW u, Extends(u, s)
    PROVE  IsSeq(u) /\ Len(u) = n + 1 /\ \A k \in 1 .. n : u[k] = s[k]
<1>1. PICK e : u = Append(s, e)
  BY DEF Extends
<1>2. Longer(u, s, e)
  BY <1>1, Appended
<1>. QED BY <1>2 DEF Longer

LEMMA SplitIs ==
    ASSUME NEW s \in Setups
    PROVE  Split(s) \in 1 .. StepsOf[s.policy] /\ StepsOf[s.policy] \in Nat
<1>1. StepsOf[s.policy] \in Nat \ {0, 1}
  BY SearchAssumption
<1>2. PICK n : n = StepsOf[s.policy]
  OBVIOUS
<1>3. PICK m : m = n \div 2
  OBVIOUS
<1>4. n \in Nat /\ n >= 2
  BY <1>1, <1>2
<1>5. m \in Nat /\ m >= 1 /\ m <= n
  BY <1>3, <1>4
<1>6. {1, m} \subseteq Nat /\ m \in {1, m} /\ \A y \in {1, m} : m >= y
  BY <1>5
<1>7. Max({1, m}) = m
  BY <1>6, MaxIs
<1>8. Split(s) = m
  BY <1>2, <1>3, <1>7 DEF Split
<1>. QED BY <1>2, <1>4, <1>5, <1>8

-----------------------------------------------------------------------------
(* Sums of integers over a finite set. A sum is taken element by element, in *)
(* the order they are chosen in; the least of the sets a fact fails of       *)
(* serves as the induction principle.                                        *)

\* Among sets of some of S there is one with no smaller one among them.
LEMMA LeastSet ==
    ASSUME NEW S, IsFiniteSet(S), NEW B, B \subseteq SUBSET S, B # {}
    PROVE  \E b \in B : \A c \in B : ~ (c \subseteq b /\ c # b)
<1>1. B \subseteq FiniteSubsetsOf(S)
  BY FS_Subset DEF FiniteSubsetsOf
<1>2. IsWellFoundedOn(StrictSubsetOrdering(S), FiniteSubsetsOf(S))
  BY FS_StrictSubsetOrderingWellFounded
<1>3. PICK b \in B : \A c \in B : ~ (<<c, b>> \in StrictSubsetOrdering(S))
  BY <1>1, <1>2, WFMin
<1>4. ASSUME NEW c \in B, c \subseteq b, c # b PROVE FALSE
  BY <1>3, <1>4 DEF StrictSubsetOrdering
<1>. QED BY <1>4

\* What a sum over S begins with, and what is left of S.
FirstOf(s) == CHOOSE x \in s : TRUE
RestOf(s) == s \ {FirstOf(s)}

SumBody(f, sum, s) == IF s = {} THEN 0 ELSE f[FirstOf(s)] + sum[RestOf(s)]
IsSum(f, sum, S) == sum = [s \in SUBSET S |-> SumBody(f, sum, s)]
Over(f, S) == SumFunctionOnSet(f, S)

LEMMA OverUnfolds ==
    ASSUME NEW f, NEW S
    PROVE  Over(f, S) = (CHOOSE sum : IsSum(f, sum, S))[S]
BY Zenon DEF Over, SumFunctionOnSet, FoldFunctionOnSet, MapThenFoldSet, IsSum, SumBody, FirstOf, RestOf

LEMMA FirstIn ==
    ASSUME NEW s, s # {}
    PROVE  FirstOf(s) \in s /\ RestOf(s) \subseteq s /\ RestOf(s) # s
BY DEF FirstOf, RestOf

LEMMA BodyReads ==
    ASSUME NEW f, NEW d, NEW h, NEW s, s # {} => d[RestOf(s)] = h[RestOf(s)]
    PROVE  SumBody(f, d, s) = SumBody(f, h, s)
BY Zenon DEF SumBody

\* Sums over two sets agree on what is in both.
LEMMA SumsAgree ==
    ASSUME NEW f, NEW S, NEW T, IsFiniteSet(S), NEW d, NEW h, IsSum(f, d, S), IsSum(f, h, T),
           NEW s, s \subseteq S, s \subseteq T
    PROVE  d[s] = h[s]
<1> DEFINE Bad == {r \in SUBSET S : r \subseteq T /\ d[r] # h[r]}
<1>1. ASSUME Bad # {} PROVE FALSE
  <2>1. PICK b \in Bad : \A c \in Bad : ~ (c \subseteq b /\ c # b)
    <3>1. Bad \subseteq SUBSET S
      OBVIOUS
    <3> HIDE DEF Bad
    <3>. QED BY <1>1, <3>1, LeastSet
  <2>2. d[b] = SumBody(f, d, b) /\ h[b] = SumBody(f, h, b)
    BY <2>1 DEF IsSum
  <2>3. b # {} => d[RestOf(b)] = h[RestOf(b)]
    <3> SUFFICES ASSUME b # {} PROVE d[RestOf(b)] = h[RestOf(b)]
      OBVIOUS
    <3>1. PICK c : c = RestOf(b) /\ c \subseteq b /\ c # b
      BY FirstIn
    <3>2. c \notin Bad
      BY <2>1, <3>1
    <3>. QED BY <2>1, <3>1, <3>2
  <2>4. SumBody(f, d, b) = SumBody(f, h, b)
    BY <2>3, BodyReads
  <2>. QED BY <2>1, <2>2, <2>4
<1>. QED BY <1>1

\* There is a sum over every finite set.
LEMMA SumExists ==
    ASSUME NEW f, NEW S, IsFiniteSet(S)
    PROVE  \E sum : IsSum(f, sum, S)
<1> DEFINE Bad == {r \in SUBSET S : ~ \E sum : IsSum(f, sum, r)}
<1>1. ASSUME Bad # {} PROVE FALSE
  <2>1. PICK T \in Bad : \A c \in Bad : ~ (c \subseteq T /\ c # T)
    <3>1. Bad \subseteq SUBSET S
      OBVIOUS
    <3> HIDE DEF Bad
    <3>. QED BY <1>1, <3>1, LeastSet
  <2>2. T \subseteq S
    BY <2>1
  <2> DEFINE Part(s) == CHOOSE sum : IsSum(f, sum, s)
  <2>3. ASSUME NEW s, s \subseteq T, s # T
        PROVE  IsSum(f, Part(s), s)
    <3>1. s \notin Bad
      BY <2>1, <2>3
    <3>2. \E sum : IsSum(f, sum, s)
      BY <2>2, <2>3, <3>1
    <3>. QED BY <3>2
  <2> DEFINE Smaller == [s \in SUBSET T |-> IF s = T THEN 0 ELSE Part(s)[s]]
             d == [s \in SUBSET T |-> SumBody(f, Smaller, s)]
  <2> HIDE DEF Part
  <2>4. ASSUME NEW s \in SUBSET T, s # {}
        PROVE  d[RestOf(s)] = Smaller[RestOf(s)]
    <3>1. PICK c : c = RestOf(s) /\ c \subseteq s /\ c # s
      BY <2>4, FirstIn
    <3>2. c \subseteq T /\ c # T
      BY <3>1
    <3>3. IsSum(f, Part(c), c)
      BY <2>3, <3>2
    <3>4. Smaller[c] = Part(c)[c]
      BY <3>2
    <3>5. Part(c)[c] = SumBody(f, Part(c), c)
      BY <3>3 DEF IsSum
    <3>6. d[c] = SumBody(f, Smaller, c)
      BY <3>2
    <3>7. c # {} => Smaller[RestOf(c)] = Part(c)[RestOf(c)]
      <4> SUFFICES ASSUME c # {} PROVE Smaller[RestOf(c)] = Part(c)[RestOf(c)]
        OBVIOUS
      <4>1. PICK b : b = RestOf(c) /\ b \subseteq c /\ b # c
        BY FirstIn
      <4>2. b \subseteq T /\ b # T
        BY <3>2, <4>1
      <4>3. IsSum(f, Part(b), b)
        BY <2>3, <4>2
      <4>4. IsFiniteSet(c)
        BY <2>2, <3>2, FS_Subset
      <4>5. PICK x, y : x = Part(b) /\ y = Part(c)
        OBVIOUS
      <4>6. x[b] = y[b]
        <5>1. IsSum(f, x, b) /\ IsSum(f, y, c) /\ IsFiniteSet(b) /\ b \subseteq b /\ b \subseteq c
          BY <3>3, <4>1, <4>3, <4>4, <4>5, FS_Subset
        <5>. QED BY <5>1, SumsAgree
      <4>7. Smaller[b] = x[b]
        BY <4>2, <4>5
      <4>. QED BY <4>1, <4>5, <4>6, <4>7
    <3> HIDE DEF Smaller, d
    <3>8. SumBody(f, Smaller, c) = SumBody(f, Part(c), c)
      BY <3>7, BodyReads
    <3>. QED BY <3>1, <3>4, <3>5, <3>6, <3>8
  <2>5. ASSUME NEW s \in SUBSET T PROVE SumBody(f, d, s) = SumBody(f, Smaller, s)
    <3> HIDE DEF Smaller, d
    <3>. QED BY <2>4, BodyReads
  <2>6. IsSum(f, d, T)
    BY <2>5 DEF IsSum
  <2>. QED BY <2>1, <2>6
<1>. QED BY <1>1

\* A sum is its first element and the sum of the others.
LEMMA OverFirst ==
    ASSUME NEW f, NEW S, IsFiniteSet(S)
    PROVE  /\ S = {} => Over(f, S) = 0
           /\ S # {} => Over(f, S) = f[FirstOf(S)] + Over(f, RestOf(S))
<1>1. PICK d : d = (CHOOSE sum : IsSum(f, sum, S))
  OBVIOUS
<1>2. IsSum(f, d, S) /\ Over(f, S) = d[S]
  BY <1>1, SumExists, OverUnfolds
<1>3. Over(f, S) = SumBody(f, d, S)
  BY <1>2 DEF IsSum
<1>4. ASSUME S # {}
      PROVE  d[RestOf(S)] = Over(f, RestOf(S))
  <2>1. PICK T : T = RestOf(S) /\ T \subseteq S
    BY <1>4, FirstIn
  <2>2. IsFiniteSet(T)
    BY <2>1, FS_Subset
  <2>3. PICK h : h = CHOOSE sum : IsSum(f, sum, T)
    OBVIOUS
  <2>4. IsSum(f, h, T) /\ Over(f, T) = h[T]
    BY <2>2, <2>3, SumExists, OverUnfolds
  <2>5. d[T] = h[T]
    BY <1>2, <2>1, <2>4, SumsAgree
  <2>. QED BY <2>1, <2>4, <2>5
<1>. QED BY <1>3, <1>4 DEF SumBody

\* What a sum can be taken of.
Summed(f, S) == IsFiniteSet(S) /\ \A x \in S : f[x] \in Int

LEMMA SummedSubset ==
    ASSUME NEW f, NEW S, Summed(f, S), NEW T, T \subseteq S
    PROVE  Summed(f, T)
BY FS_Subset DEF Summed

LEMMA OverType ==
    ASSUME NEW f, NEW S, Summed(f, S)
    PROVE  Over(f, S) \in Int
<1> DEFINE Bad == {r \in SUBSET S : Over(f, r) \notin Int}
<1>1. ASSUME Bad # {} PROVE FALSE
  <2>1. PICK b \in Bad : \A c \in Bad : ~ (c \subseteq b /\ c # b)
    <3>1. Bad \subseteq SUBSET S /\ IsFiniteSet(S)
      BY DEF Summed
    <3> HIDE DEF Bad
    <3>. QED BY <1>1, <3>1, LeastSet
  <2>2. b \subseteq S /\ Over(f, b) \notin Int
    BY <2>1
  <2>3. Summed(f, b) /\ IsFiniteSet(b)
    BY <2>2, SummedSubset DEF Summed
  <2>4. b # {}
    <3>1. b = {} => Over(f, b) = 0
      BY <2>3, OverFirst, Zenon
    <3>. QED BY <2>2, <3>1
  <2>5. PICK c : c = RestOf(b) /\ c \subseteq b /\ c # b /\ FirstOf(b) \in b
    BY <2>4, FirstIn
  <2>6. Over(f, c) \in Int
    BY <2>1, <2>2, <2>5
  <2>7. Over(f, b) = f[FirstOf(b)] + Over(f, c)
    BY <2>3, <2>4, <2>5, OverFirst
  <2>8. f[FirstOf(b)] \in Int
    BY <2>3, <2>5 DEF Summed
  <2>. QED BY <2>2, <2>6, <2>7, <2>8
<1>. QED BY <1>1

\* Any element may be taken first.
LEMMA OverOne ==
    ASSUME NEW f, NEW S, Summed(f, S), NEW x \in S
    PROVE  Over(f, S) = f[x] + Over(f, S \ {x})
<1> DEFINE Fits(r) == \A y \in r : Over(f, r) = f[y] + Over(f, r \ {y})
           Bad == {r \in SUBSET S : ~ Fits(r)}
<1>1. ASSUME Bad # {} PROVE FALSE
  <2>1. PICK b \in Bad : \A c \in Bad : ~ (c \subseteq b /\ c # b)
    <3>1. Bad \subseteq SUBSET S /\ IsFiniteSet(S)
      BY DEF Summed
    <3> HIDE DEF Bad
    <3>. QED BY <1>1, <3>1, LeastSet
  <2>2. b \subseteq S /\ Summed(f, b) /\ IsFiniteSet(b)
    <3>1. b \subseteq S
      BY <2>1
    <3>. QED BY <3>1, SummedSubset DEF Summed
  <2>3. PICK y \in b : Over(f, b) # f[y] + Over(f, b \ {y})
    BY <2>1
  <2>4. PICK z : z = FirstOf(b) /\ z \in b
    BY <2>3, FirstIn
  <2>5. Over(f, b) = f[z] + Over(f, b \ {z})
    BY <2>2, <2>3, <2>4, OverFirst DEF RestOf
  <2>6. y # z
    BY <2>3, <2>5
  <2>7. PICK c, e, g : c = b \ {z} /\ e = b \ {y} /\ g = (b \ {z}) \ {y}
    OBVIOUS
  <2>8. Fits(c) /\ Fits(e)
    <3>1. c \subseteq b /\ c # b /\ e \subseteq b /\ e # b
      BY <2>3, <2>4, <2>7
    <3>2. c \notin Bad /\ e \notin Bad
      BY <2>1, <3>1
    <3>. QED BY <2>2, <3>1, <3>2
  <2>9. Over(f, c) = f[y] + Over(f, g)
    BY <2>3, <2>6, <2>7, <2>8
  <2>10. Over(f, e) = f[z] + Over(f, g)
    <3>1. z \in e /\ e \ {z} = g
      BY <2>4, <2>6, <2>7
    <3>. QED BY <2>8, <3>1
  <2>11. Over(f, g) \in Int /\ f[y] \in Int /\ f[z] \in Int
    <3>1. g \subseteq b
      BY <2>7
    <3>2. Summed(f, g)
      BY <2>2, <3>1, SummedSubset
    <3>. QED BY <2>2, <2>3, <2>4, <3>2, OverType DEF Summed
  <2>12. PICK u, v, w \in Int : u = Over(f, g) /\ v = f[y] /\ w = f[z]
    BY <2>11
  <2>13. Over(f, b) = w + (v + u) /\ f[y] + Over(f, e) = v + (w + u)
    BY <2>5, <2>7, <2>9, <2>10, <2>12
  <2>14. w + (v + u) = v + (w + u)
    BY <2>12
  <2>. QED BY <2>3, <2>7, <2>13, <2>14
<1>2. S \notin Bad
  BY <1>1
<1>. QED BY <1>2

\* A sum depends on the values alone.
LEMMA OverSame ==
    ASSUME NEW S, IsFiniteSet(S), NEW f, NEW g, \A x \in S : f[x] = g[x]
    PROVE  Over(f, S) = Over(g, S)
<1> DEFINE Bad == {r \in SUBSET S : Over(f, r) # Over(g, r)}
<1>1. ASSUME Bad # {} PROVE FALSE
  <2>1. PICK b \in Bad : \A c \in Bad : ~ (c \subseteq b /\ c # b)
    <3>1. Bad \subseteq SUBSET S
      OBVIOUS
    <3> HIDE DEF Bad
    <3>. QED BY <1>1, <3>1, LeastSet
  <2>2. b \subseteq S /\ IsFiniteSet(b)
    BY <2>1, FS_Subset
  <2>3. b # {}
    BY <2>1, <2>2, OverFirst
  <2>4. PICK c : c = RestOf(b) /\ c \subseteq b /\ c # b /\ FirstOf(b) \in b
    BY <2>3, FirstIn
  <2>5. Over(f, c) = Over(g, c)
    BY <2>1, <2>2, <2>4
  <2>6. f[FirstOf(b)] = g[FirstOf(b)]
    BY <2>2, <2>4
  <2>. QED BY <2>1, <2>2, <2>3, <2>4, <2>5, <2>6, OverFirst
<1>. QED BY <1>1

\* A sum of naturals is one, and no term exceeds it.
LEMMA OverNat ==
    ASSUME NEW f, NEW S, IsFiniteSet(S), \A x \in S : f[x] \in Nat
    PROVE  Over(f, S) \in Nat /\ \A x \in S : f[x] <= Over(f, S)
<1>1. ASSUME NEW T, T \subseteq S PROVE Over(f, T) \in Nat
  <2> DEFINE Bad == {r \in SUBSET S : Over(f, r) \notin Nat}
  <2>1. ASSUME Bad # {} PROVE FALSE
    <3>1. PICK b \in Bad : \A c \in Bad : ~ (c \subseteq b /\ c # b)
      <4>1. Bad \subseteq SUBSET S
        OBVIOUS
      <4> HIDE DEF Bad
      <4>. QED BY <2>1, <4>1, LeastSet
    <3>2. b \subseteq S /\ IsFiniteSet(b)
      BY <3>1, FS_Subset
    <3>3. b # {}
      <4>1. b = {} => Over(f, b) = 0
        BY <3>2, OverFirst, Zenon
      <4>. QED BY <3>1, <4>1
    <3>4. PICK c : c = RestOf(b) /\ c \subseteq b /\ c # b /\ FirstOf(b) \in b
      BY <3>3, FirstIn
    <3>5. Over(f, c) \in Nat
      BY <3>1, <3>2, <3>4
    <3>6. Over(f, b) = f[FirstOf(b)] + Over(f, c) /\ f[FirstOf(b)] \in Nat
      BY <3>2, <3>3, <3>4, OverFirst
    <3>. QED BY <3>1, <3>5, <3>6
  <2>. QED BY <1>1, <2>1
<1>2. ASSUME NEW x \in S PROVE f[x] <= Over(f, S)
  <2>1. Over(f, S) = f[x] + Over(f, S \ {x})
    BY OverOne DEF Summed
  <2>2. Over(f, S \ {x}) \in Nat
    BY <1>1
  <2>. QED BY <2>1, <2>2
<1>. QED BY <1>1, <1>2

\* One value changes by d, and the sum.
\* g is f with d more at x.
Bumped(S, f, x, d, g) ==
    /\ IsFiniteSet(S) /\ f \in [S -> Int] /\ x \in S /\ d \in Int
    /\ g = [f EXCEPT ![x] = @ + d]

LEMMA SumChanged ==
    ASSUME NEW S, NEW f, NEW x, NEW d, NEW g, Bumped(S, f, x, d, g)
    PROVE  g \in [S -> Int] /\ SumFunction(f) \in Int /\ SumFunction(g) = SumFunction(f) + d
<1>0. /\ IsFiniteSet(S) /\ f \in [S -> Int] /\ x \in S /\ d \in Int
      /\ g = [f EXCEPT ![x] = @ + d]
  BY DEF Bumped
<1>1. g \in [S -> Int] /\ g[x] = f[x] + d /\ \A y \in S \ {x} : g[y] = f[y]
  BY <1>0
<1>2. Summed(f, S) /\ Summed(g, S) /\ Summed(f, S \ {x}) /\ IsFiniteSet(S \ {x})
  BY <1>0, <1>1, FS_Subset DEF Summed
<1>3. /\ Over(f, S) = f[x] + Over(f, S \ {x})
      /\ Over(g, S) = g[x] + Over(g, S \ {x})
  <2>1. ASSUME NEW h, Summed(h, S) PROVE Over(h, S) = h[x] + Over(h, S \ {x})
    BY <1>0, <2>1, OverOne
  <2>. QED BY <1>2, <2>1
<1>4. Over(g, S \ {x}) = Over(f, S \ {x})
  BY <1>1, <1>2, OverSame
<1>5. Over(f, S \ {x}) \in Int
  BY <1>2, OverType
<1>7. DOMAIN f = S /\ DOMAIN g = S
  BY <1>0, <1>1
<1>6. SumFunction(f) = Over(f, S) /\ SumFunction(g) = Over(g, S)
  BY <1>0, <1>7, Zenon DEF SumFunction, Over
<1>. QED BY <1>0, <1>1, <1>3, <1>4, <1>5, <1>6

LEMMA SumType ==
    ASSUME NEW S, IsFiniteSet(S), NEW f \in [S -> Nat]
    PROVE  SumFunction(f) \in Nat /\ \A x \in S : f[x] <= SumFunction(f)
<1>1. SumFunction(f) = Over(f, S)
  BY Zenon DEF SumFunction, Over
<1>. QED BY <1>1, OverNat

-----------------------------------------------------------------------------
(* Finite sets of numbers and of points.                                     *)

LEMMA ImageFinite ==
    ASSUME NEW S, IsFiniteSet(S), NEW f, DOMAIN f = S, f = [x \in S |-> f[x]]
    PROVE  IsFiniteSet({f[x] : x \in S}) /\ Cardinality({f[x] : x \in S}) <= Cardinality(S)
<1>1. f \in Surjection(S, {f[x] : x \in S})
  BY DEF Surjection
<1>. QED BY <1>1, FS_Surjection

\* A finite set of numbers has a greatest.
Greatest(r) == \E x \in r : \A y \in r : x >= y
Ints(S) == S \subseteq Int

LEMMA GreatestIn ==
    ASSUME NEW S, IsFiniteSet(S), Ints(S)
    PROVE  S # {} => Greatest(S)
<1> DEFINE Bad == {r \in SUBSET S : r # {} /\ ~ Greatest(r)}
<1>1. ASSUME Bad # {} PROVE FALSE
  <2>1. PICK b \in Bad : \A c \in Bad : ~ (c \subseteq b /\ c # b)
    <3>1. Bad \subseteq SUBSET S
      OBVIOUS
    <3> HIDE DEF Bad
    <3>. QED BY <1>1, <3>1, LeastSet
  <2>2. PICK x \in b : TRUE
    BY <2>1
  <2>3. PICK c : c = b \ {x}
    OBVIOUS
  <2>4. c \subseteq b /\ c # b /\ b \subseteq Int /\ c \subseteq S
    BY <2>1, <2>2, <2>3 DEF Ints
  <2>5. c \notin Bad
    BY <2>1, <2>4
  <2>6. CASE c = {}
    <3>1. \A y \in b : y = x
      BY <2>3, <2>6
    <3>2. x >= x
      BY <2>2, <2>4
    <3>. QED BY <2>1, <2>2, <3>1, <3>2 DEF Greatest
  <2>7. CASE c # {}
    <3>1. PICK m \in c : \A y \in c : m >= y
      BY <2>4, <2>5, <2>7 DEF Greatest
    <3>2. \A y \in b : y \in c \/ y = x
      BY <2>3
    <3>3. CASE m >= x
      <4>1. \A y \in b : m >= y
        BY <3>1, <3>2, <3>3
      <4>. QED BY <2>1, <2>4, <3>1, <4>1 DEF Greatest
    <3>4. CASE ~(m >= x)
      <4>1. \A y \in b : x >= y
        BY <2>2, <2>4, <3>1, <3>2, <3>4
      <4>. QED BY <2>1, <2>2, <4>1 DEF Greatest
    <3>. QED BY <3>3, <3>4
  <2>. QED BY <2>6, <2>7
<1>. QED BY <1>1

LEMMA FiniteMax ==
    ASSUME NEW S, IsFiniteSet(S), S \subseteq Int, S # {}
    PROVE  Max(S) \in S /\ Max(S) \in Int /\ \A y \in S : Max(S) >= y
<1>1. Greatest(S)
  <2>1. Ints(S)
    BY DEF Ints
  <2>. QED BY <2>1, GreatestIn
<1>2. \E x \in S : \A y \in S : x >= y
  BY <1>1 DEF Greatest
<1>. QED BY <1>2 DEF Max

\* The least of some naturals.
LEMMA LeastIs ==
    ASSUME NEW S, S \subseteq Nat, S # {}
    PROVE  Min(S) \in S /\ \A y \in S : Min(S) <= y
<1>1. PICK R : R = OpToRel(<, Nat)
  OBVIOUS
<1>2. IsWellFoundedOn(R, Nat)
  BY <1>1, NatLessThanWellFounded
<1>3. PICK m \in S : \A y \in S : ~(<<y, m>> \in R)
  BY <1>2, WFMin
<1>4. R = {ss \in Nat \X Nat : ss[1] < ss[2]}
  BY <1>1 DEF OpToRel
<1>5. ASSUME NEW y \in S PROVE m <= y
  <2>1. y < m => <<y, m>> \in R
    BY <1>4
  <2>. QED BY <1>3, <2>1
<1>. QED BY <1>3, <1>5 DEF Min

LEMMA PointsFinite ==
    ASSUME NEW n \in Nat
    PROVE  IsFiniteSet(PointsOf(n))
<1>1. PICK f : f = [p \in PointsOf(n) |-> {i \in 1 .. n : p[i] = 1}]
  OBVIOUS
<1>2. IsFiniteSet(SUBSET (1 .. n))
  <2>1. IsFiniteSet(1 .. n)
    BY FS_Interval
  <2>. QED BY <2>1, FS_SUBSET
<1>3. ASSUME NEW p \in PointsOf(n), NEW q \in PointsOf(n), f[p] = f[q]
      PROVE  p = q
  <2>1. {i \in 1 .. n : p[i] = 1} = {i \in 1 .. n : q[i] = 1}
    BY <1>1, <1>3
  <2>2. \A i \in 1 .. n : p[i] = 1 <=> q[i] = 1
    BY <2>1
  <2>3. \A i \in 1 .. n : p[i] \in {0, 1} /\ q[i] \in {0, 1}
    BY DEF PointsOf
  <2>. QED BY <2>2, <2>3 DEF PointsOf
<1>4. f \in [PointsOf(n) -> SUBSET (1 .. n)]
  BY <1>1
<1>5. f \in Injection(PointsOf(n), SUBSET (1 .. n))
  BY <1>3, <1>4 DEF Injection, IsInjective
<1>. QED BY <1>2, <1>5, FS_Injection

LEMMA CountType ==
    ASSUME NEW S, IsFiniteSet(S), NEW T, T \subseteq S
    PROVE  Cardinality(T) \in Nat /\ Cardinality(T) <= Cardinality(S)
BY FS_Subset, FS_CardinalityType

-----------------------------------------------------------------------------
(* The landscapes: every score is a number, from zero up where feasible.     *)

LEMMA AgreeType ==
    ASSUME NEW p, NEW q, NEW a \in Nat, NEW b \in Nat
    PROVE  /\ Agree(p, q, a .. b) \in Nat
           /\ \A size \in Nat : size = b - a + 1 => Agree(p, q, a .. b) <= size
<1>1. IsFiniteSet(a .. b) /\ Cardinality(a .. b) = IF a > b THEN 0 ELSE b - a + 1
  BY FS_Interval
<1>2. {i \in a .. b : p[i] = q[i]} \subseteq a .. b
  OBVIOUS
<1>3. /\ Cardinality({i \in a .. b : p[i] = q[i]}) \in Nat
      /\ Cardinality({i \in a .. b : p[i] = q[i]}) <= Cardinality(a .. b)
  BY <1>1, <1>2, CountType
<1>4. PICK c : c = Agree(p, q, a .. b)
  OBVIOUS
<1>5. c \in Nat /\ c <= Cardinality(a .. b)
  BY <1>3, <1>4 DEF Agree
<1>6. ASSUME NEW size \in Nat, size = b - a + 1 PROVE c <= size
  <2>1. Cardinality(a .. b) = size
    BY <1>1, <1>6
  <2>. QED BY <1>5, <2>1
<1>. QED BY <1>4, <1>5, <1>6

LEMMA OnesType ==
    ASSUME NEW p, NEW a \in Nat, NEW b \in Nat
    PROVE  OnesIn(p, a .. b) \in Nat
<1>1. IsFiniteSet(a .. b)
  BY FS_Interval
<1>2. {i \in a .. b : p[i] = 1} \subseteq a .. b
  OBVIOUS
<1>. QED BY <1>1, <1>2, CountType DEF OnesIn

LEMMA TrapType ==
    ASSUME NEW n \in Nat, NEW p \in PointsOf(n), NEW target, NEW size \in {3, 4}, NEW top \in Nat
    PROVE  Trap(p, target, size, top) \in Nat
<1>1. PICK S : S = {i \in 1 .. n : i % size = 1}
  OBVIOUS
<1>2. IsFiniteSet(S) /\ S \subseteq Nat
  BY <1>1, FS_Interval, FS_Subset
<1>3. DOMAIN p = 1 .. n
  BY DEF PointsOf
<1>4. PICK matches : matches = [start \in S |-> Agree(p, target, start .. start + size - 1)]
  OBVIOUS
<1>5. ASSUME NEW start \in S PROVE matches[start] \in Nat /\ matches[start] <= size
  <2>1. PICK a \in Nat : a = start
    BY <1>2
  <2>2. PICK b \in Nat : b = start + size - 1
    BY <1>2
  <2>3. size = b - a + 1 /\ size \in Nat
    BY <2>1, <2>2
  <2>4. Agree(p, target, a .. b) \in Nat /\ Agree(p, target, a .. b) <= size
    BY <2>3, AgreeType
  <2>. QED BY <1>4, <2>1, <2>2, <2>4
<1>6. PICK f : f = [start \in S |-> IF matches[start] = size THEN top ELSE 3 - matches[start]]
  OBVIOUS
<1>7. f \in [S -> Nat]
  <2>1. ASSUME NEW start \in S PROVE f[start] \in Nat
    BY <1>5, <1>6
  <2>. QED BY <1>6, <2>1
<1>8. DOMAIN matches = S
  BY <1>4
<1>9. Trap(p, target, size, top) = SumFunction(f)
  BY <1>1, <1>3, <1>4, <1>6, <1>8, Zenon DEF Trap
<1>. QED BY <1>2, <1>7, <1>9, SumType

LEMMA FlagType == \A b : Flag(b) \in Nat
BY DEF Flag

LEMMA HalfType == ASSUME NEW n \in Nat PROVE n \div 2 \in Nat /\ n \div 3 \in Nat /\ n \div 2 <= n
OBVIOUS

-----------------------------------------------------------------------------
(* The landscapes: every score is a number, from zero up where feasible.     *)

LEMMA PointIs ==
    ASSUME NEW n \in Nat, NEW p \in PointsOf(n)
    PROVE  p \in Seq({0, 1}) /\ Len(p) = n /\ DOMAIN p = 1 .. n /\ \A i \in 1 .. n : p[i] \in {0, 1}
BY DEF PointsOf

Families2 == {"deceptive_trap_v2", "sparse_portals_v2", "neutral_plateau_v2",
              "epistatic_bridge_v2", "constraint_ridge_v2", "mixed_pressure_v2",
              "blind_rotated_composition_v2"}

\* What the score of a landscape reads.
Land(l, n) ==
    /\ n \in Nat /\ n >= 2 /\ l.target \in PointsOf(n)
    /\ l.study = "ar2" => l.family \in Families2

LEMMA RotatePoint ==
    ASSUME NEW n \in Nat, n >= 2, NEW t \in PointsOf(n), NEW by \in Nat
    PROVE  Rotate(t, by) \in PointsOf(n)
<1>1. Len(t) = n /\ DOMAIN t = 1 .. n /\ \A i \in 1 .. n : t[i] \in {0, 1}
  BY PointIs
<1>2. ASSUME NEW i \in 1 .. n PROVE ((i + by - 1) % n) + 1 \in 1 .. n
  <2>1. PICK k \in Nat : k = i + by - 1
    BY <1>2
  <2>2. k % n \in 0 .. n - 1
    BY <2>1
  <2>. QED BY <2>1, <2>2
<1>3. Rotate(t, by) = [i \in 1 .. n |-> t[((i + by - 1) % n) + 1]]
  BY <1>1 DEF Rotate
<1>. QED BY <1>1, <1>2, <1>3 DEF PointsOf

LEMMA OnesPoint == ASSUME NEW n \in Nat PROVE [i \in 1 .. n |-> 1] \in PointsOf(n)
BY DEF PointsOf

LEMMA LandIs ==
    ASSUME NEW l \in AllLandscapes
    PROVE  \E n : Land(l, n)
<1>1. ASSUME NEW t \in Ar1Targets \cup Ar2Targets
      PROVE  \E n \in Nat : n >= 2 /\ t \in PointsOf(n)
  <2>1. t \in Seq({0, 1}) /\ Len(t) >= 2
    BY LandscapeAssumption
  <2>2. Len(t) \in Nat /\ t \in [1 .. Len(t) -> {0, 1}]
    BY <2>1, LenProperties
  <2>. QED BY <2>1, <2>2 DEF PointsOf
<1>2. CASE l \in Ar0Landscapes
  <2>1. l.study = "ar0" /\ l.target = [i \in 1 .. Ar0Dimension |-> 1]
    BY <1>2 DEF Ar0Landscapes
  <2>. QED BY <2>1, OnesPoint, LandscapeAssumption DEF Land
<1>3. CASE l \in Ar1Landscapes
  <2>1. l.study = "ar1" /\ l.target \in Ar1Targets
    BY <1>3 DEF Ar1Landscapes, Balanced
  <2>. QED BY <1>1, <2>1 DEF Land
<1>4. CASE l \in Ar2Landscapes
  <2>1. /\ l.study = "ar2" /\ l.family \in Families2
        /\ \/ l.target \in Ar2Targets
           \/ \E t \in Ar2Targets, by \in Rotations : l.target = Rotate(t, by)
    BY <1>4 DEF Ar2Landscapes, Balanced, Families2
  <2>2. CASE l.target \in Ar2Targets
    BY <1>1, <2>1, <2>2 DEF Land
  <2>3. CASE \E t \in Ar2Targets, by \in Rotations : l.target = Rotate(t, by)
    <3>1. PICK t \in Ar2Targets, by \in Rotations : l.target = Rotate(t, by)
      BY <2>3
    <3>2. PICK n \in Nat : n >= 2 /\ t \in PointsOf(n)
      BY <1>1
    <3>3. by \in Nat
      BY LandscapeAssumption
    <3>4. Rotate(t, by) \in PointsOf(n)
      BY <3>2, <3>3, RotatePoint
    <3>. QED BY <2>1, <3>1, <3>2, <3>4 DEF Land
  <2>. QED BY <2>1, <2>2, <2>3
<1>. QED BY <1>2, <1>3, <1>4 DEF AllLandscapes

LEMMA Ar1Type ==
    ASSUME NEW l, NEW n, Land(l, n), NEW p \in PointsOf(n)
    PROVE  Ar1Score(l, p) \in Nat
<1>1. n \in Nat /\ DOMAIN p = 1 .. n
  BY PointIs DEF Land
<1>2. Trap(p, l.target, 4, 4) \in Nat
  BY <1>1, TrapType
<1>3. Agree(p, l.target, DOMAIN p) \in Nat
  BY <1>1, AgreeType
<1>4. Flag(p = l.target) \in Nat /\ Flag(Hamming(p, l.target) <= 2) \in Nat
  BY FlagType
<1>5. Epistatic(p, l.target) \in Nat
  <2>1. PICK first : first = \A i \in Left(Len(p)) : p[i] = l.target[i]
    OBVIOUS
  <2>2. PICK u, v \in Nat : u = Flag(first) /\ v = Flag(first /\ p = l.target)
    BY FlagType
  <2>3. Epistatic(p, l.target) = u + v
    BY <2>1, <2>2, Zenon DEF Epistatic
  <2>. QED BY <2>3
<1>6. PICK a, b, c, d, e : /\ a = Trap(p, l.target, 4, 4) /\ b = Flag(p = l.target)
        /\ c = Flag(Hamming(p, l.target) <= 2) /\ d = Agree(p, l.target, DOMAIN p)
        /\ e = Epistatic(p, l.target)
  OBVIOUS
<1>7. Ar1Score(l, p) \in {a, b, c, d, e}
  BY <1>6, Zenon DEF Ar1Score
<1>. QED BY <1>2, <1>3, <1>4, <1>5, <1>6, <1>7

LEMMA Ar2Type ==
    ASSUME NEW l, NEW n, Land(l, n), l.study = "ar2", NEW p \in PointsOf(n)
    PROVE  Ar2Score(l, p) \in Nat
<1>1. n \in Nat /\ DOMAIN p = 1 .. n /\ Len(p) = n
  BY PointIs DEF Land
<1>2. Trap(p, l.target, 3, 5) \in Nat
  BY <1>1, TrapType
<1>3. PICK matches \in Nat : matches = Agree(p, l.target, 1 .. n)
  BY <1>1, AgreeType
<1>4. PICK L : L = (\A i \in Left(n) : p[i] = l.target[i])
  OBVIOUS
<1>5. PICK toRight : toRight = Cardinality({i \in Right(n) : p[i] # l.target[i]})
  OBVIOUS
<1>6. PICK t1, t2, t3 \in Nat :
          /\ t1 = Flag(\A i \in 1 .. 1 * (n \div 3) : p[i] = l.target[i])
          /\ t2 = Flag(\A i \in 1 .. 2 * (n \div 3) : p[i] = l.target[i])
          /\ t3 = Flag(\A i \in 1 .. n : p[i] = l.target[i])
  BY FlagType
<1>7. PICK f, g, h, k \in Nat :
          /\ f = Flag(OnesIn(p, 1 .. n) = n \div 2) /\ g = Flag(\A i \in Left(n) : p[i] = l.target[i])
          /\ h = Flag(p = l.target) /\ k = Flag(matches >= n - 3)
  BY FlagType
<1>8. CASE l.family = "deceptive_trap_v2"
  <2>1. Ar2Score(l, p) = 100 * Trap(p, l.target, 3, 5)
    BY <1>8 DEF Ar2Score
  <2>. QED BY <1>2, <2>1
<1>9. CASE l.family = "sparse_portals_v2"
  <2>1. Ar2Score(l, p) \in {300, 60, 20, 0}
    BY <1>9 DEF Ar2Score
  <2>. QED BY <2>1
<1>10. CASE l.family = "neutral_plateau_v2"
  <2>1. Ar2Score(l, p) \in {100, 35 * k}
    BY <1>1, <1>3, <1>7, <1>10 DEF Ar2Score
  <2>. QED BY <2>1
<1>11. CASE l.family = "epistatic_bridge_v2"
  <2>1. Ar2Score(l, p) = 40 * t1 + 30 * t2 + 30 * t3
    BY <1>1, <1>6, <1>11 DEF Ar2Score
  <2>. QED BY <2>1
<1>12. CASE l.family = "constraint_ridge_v2"
  <2>1. Ar2Score(l, p) = 100 * matches + 150 * g
    BY <1>1, <1>3, <1>7, <1>12 DEF Ar2Score
  <2>. QED BY <2>1
<1>13. CASE l.family = "mixed_pressure_v2"
  <2>1. Ar2Score(l, p) = 10 * matches + 100 * g + 200 * h + 20 * f
    BY <1>1, <1>3, <1>7, <1>13 DEF Ar2Score
  <2>. QED BY <2>1
<1>14. CASE l.family = "blind_rotated_composition_v2"
  <2>1. Ar2Score(l, p) = 8 * matches + 80 * g + 70 * h + 20 * f
    BY <1>1, <1>3, <1>7, <1>14 DEF Ar2Score
  <2>. QED BY <2>1
<1>. QED BY <1>8, <1>9, <1>10, <1>11, <1>12, <1>13, <1>14 DEF Land, Families2

LEMMA ScoreType ==
    ASSUME NEW l, NEW n, Land(l, n), NEW p \in PointsOf(n)
    PROVE  IF FeasibleFn(l, p) THEN PointScore(l, p) \in Nat ELSE PointScore(l, p) = -1
BY Ar1Type, Ar2Type DEF PointScore, MinusInfinity

LEMMA ZerosScore ==
    ASSUME NEW l, NEW n, Land(l, n)
    PROVE  Zeros(n) \in PointsOf(n) /\ PointScore(l, Zeros(n)) \in Nat
<1>1. n \in Nat /\ Zeros(n) \in PointsOf(n)
  BY DEF Land, Zeros, PointsOf
<1>2. DOMAIN Zeros(n) = 1 .. n /\ Len(Zeros(n)) = n
  BY <1>1, PointIs
<1>3. {i \in 1 .. n : Zeros(n)[i] = 1} = {}
  BY DEF Zeros
<1>4. OnesIn(Zeros(n), 1 .. n) = 0
  BY <1>3, FS_EmptySet DEF OnesIn
<1>5. Capacity(l, n) \in Nat
  <2>1. n \div 2 \in Nat /\ n \div 3 \in Nat /\ MaxOnes \in Nat
    BY <1>1, LandscapeAssumption
  <2>2. Capacity(l, n) \in {MaxOnes, n \div 3, n \div 2, n}
    BY Zenon DEF Capacity
  <2>. QED BY <1>1, <2>1, <2>2
<1>6. FeasibleFn(l, Zeros(n))
  <2>1. PICK c \in Nat : c = Capacity(l, n)
    BY <1>5
  <2>2. FeasibleFn(l, Zeros(n)) = (0 <= c)
    BY <1>2, <1>4, <2>1 DEF FeasibleFn
  <2>3. 0 <= c
    BY <2>1
  <2>. QED BY <2>2, <2>3
<1>. QED BY <1>1, <1>6, ScoreType

-----------------------------------------------------------------------------
(* What enumeration finds, and the normalised scores.                        *)

LEMMA TwoMax ==
    ASSUME NEW a \in Int, NEW b \in Int
    PROVE  Max({a, b}) = IF a >= b THEN a ELSE b
<1>1. CASE a >= b
  <2>1. a \in {a, b} /\ \A y \in {a, b} : a >= y
    BY <1>1
  <2>2. \A x \in {a, b} : (\A y \in {a, b} : x >= y) => x = a
    BY <1>1
  <2>. QED BY <1>1, <2>1, <2>2 DEF Max
<1>2. CASE ~(a >= b)
  <2>1. b \in {a, b} /\ \A y \in {a, b} : b >= y
    BY <1>2
  <2>2. \A x \in {a, b} : (\A y \in {a, b} : x >= y) => x = b
    BY <1>2
  <2>. QED BY <1>2, <2>1, <2>2 DEF Max
<1>. QED BY <1>1, <1>2

LEMMA TwoMin ==
    ASSUME NEW a \in Int, NEW b \in Int
    PROVE  Min({a, b}) = IF a <= b THEN a ELSE b
<1>1. CASE a <= b
  <2>1. a \in {a, b} /\ \A y \in {a, b} : a <= y
    BY <1>1
  <2>2. \A x \in {a, b} : (\A y \in {a, b} : x <= y) => x = a
    BY <1>1
  <2>. QED BY <1>1, <2>1, <2>2 DEF Min
<1>2. CASE ~(a <= b)
  <2>1. b \in {a, b} /\ \A y \in {a, b} : b <= y
    BY <1>2
  <2>2. \A x \in {a, b} : (\A y \in {a, b} : x <= y) => x = b
    BY <1>2
  <2>. QED BY <1>2, <2>1, <2>2 DEF Min
<1>. QED BY <1>1, <1>2

\* A landscape that rises above its baseline, and knows where its top is.
Rising(l) ==
    /\ \E n : Land(l, n)
    /\ l.baseline \in Nat /\ l.optimum \in Nat /\ l.optimum > l.baseline
    /\ \E p \in PointsIn(l) : PointScore(l, p) = l.optimum
    /\ \A p \in PointsIn(l) : PointScore(l, p) <= l.optimum

LEMMA PointsInIs ==
    ASSUME NEW l, NEW n, Land(l, n)
    PROVE  PointsIn(l) = PointsOf(n) /\ Len(l.target) = n /\ IsFiniteSet(PointsIn(l))
<1>1. n \in Nat /\ Len(l.target) = n
  BY PointIs DEF Land
<1>2. PointsIn(l) = PointsOf(n)
  BY <1>1 DEF PointsIn
<1>. QED BY <1>1, <1>2, PointsFinite

LEMMA OptimumIs ==
    ASSUME NEW l, NEW n, Land(l, n)
    PROVE  /\ Optimum(l) \in Nat
           /\ \E p \in PointsIn(l) : PointScore(l, p) = Optimum(l)
           /\ \A p \in PointsIn(l) : PointScore(l, p) <= Optimum(l)
<1>1. PICK f : f = [p \in PointsIn(l) |-> PointScore(l, p)]
  OBVIOUS
<1>2. PointsIn(l) = PointsOf(n) /\ IsFiniteSet(PointsIn(l))
  BY PointsInIs
<1>3. PICK S : S = {f[p] : p \in PointsIn(l)}
  OBVIOUS
<1>4. IsFiniteSet(S)
  BY <1>1, <1>2, <1>3, ImageFinite
<1>5. S = {PointScore(l, p) : p \in PointsIn(l)}
  BY <1>1, <1>3
<1>6. \A p \in PointsIn(l) : PointScore(l, p) \in Int
  BY <1>2, ScoreType
<1>7. Zeros(n) \in PointsIn(l) /\ PointScore(l, Zeros(n)) \in Nat
  BY <1>2, ZerosScore
<1>8. S \subseteq Int /\ PointScore(l, Zeros(n)) \in S
  BY <1>5, <1>6, <1>7
<1>9. Max(S) \in S /\ Max(S) \in Int /\ \A y \in S : Max(S) >= y
  BY <1>4, <1>8, FiniteMax
<1>10. Optimum(l) = Max(S)
  BY <1>5 DEF Optimum
<1>11. PICK m \in Int : m = Optimum(l) /\ m \in S /\ \A y \in S : m >= y
  BY <1>9, <1>10
<1>12. m >= 0
  BY <1>7, <1>8, <1>11
<1>13. ASSUME NEW p \in PointsIn(l) PROVE PointScore(l, p) <= m
  BY <1>5, <1>6, <1>11
<1>. QED BY <1>5, <1>11, <1>12, <1>13

LEMMA BaselineIs ==
    ASSUME NEW l, NEW n, Land(l, n)
    PROVE  Baseline(l) \in Nat
<1>1. PICK z \in Nat : z = PointScore(l, Zeros(n))
  BY ZerosScore
<1>2. Len(l.target) = n
  BY PointsInIs
<1>3. Max({0, z}) \in Nat
  BY TwoMax
<1>. QED BY <1>1, <1>2, <1>3 DEF Baseline

LEMMA SameScore ==
    ASSUME NEW l, NEW m, l.study = m.study, l.family = m.family, l.target = m.target
    PROVE  /\ PointsIn(l) = PointsIn(m)
           /\ \A p : PointScore(l, p) = PointScore(m, p)
           /\ \A n : Land(m, n) => Land(l, n)
<1>1. \A p : Ar1Score(l, p) = Ar1Score(m, p)
  BY Zenon DEF Ar1Score
<1>2. \A p : Ar2Score(l, p) = Ar2Score(m, p)
  BY SMT DEF Ar2Score
<1>3. \A n : Capacity(l, n) = Capacity(m, n)
  BY Zenon DEF Capacity
<1>4. \A p : FeasibleFn(l, p) = FeasibleFn(m, p)
  BY <1>3, Zenon DEF FeasibleFn
<1>5. \A p : PointScore(l, p) = PointScore(m, p)
  BY <1>1, <1>2, <1>4, Zenon DEF PointScore
<1>6. PointsIn(l) = PointsIn(m)
  BY Zenon DEF PointsIn
<1>7. \A n : Land(m, n) => Land(l, n)
  BY Zenon DEF Land
<1>. QED BY <1>5, <1>6, <1>7

LEMMA ScaledRises ==
    ASSUME NEW m, NEW n, Land(m, n), Optimum(m) > Baseline(m),
           NEW l, l.study = m.study, l.family = m.family, l.target = m.target,
           l.optimum = Optimum(m), l.baseline = Baseline(m)
    PROVE  Rising(l)
BY OptimumIs, BaselineIs, SameScore DEF Rising

LEMMA Quotient ==
    ASSUME NEW a \in Int, NEW d \in Nat, d > 0
    PROVE  a \div d \in Int /\ (a = 1000 * d => a \div d = 1000)
<1>1. a \div d \in Int
  OBVIOUS
<1>2. ASSUME a = 1000 * d PROVE a \div d = 1000
  <2>1. a = d * 1000
    BY <1>2
  <2>. QED BY <2>1
<1>. QED BY <1>1, <1>2

LEMMA NormalType ==
    ASSUME NEW l, Rising(l), NEW score \in Int
    PROVE  /\ Normal(l, score) \in Nat
           /\ score = l.optimum => Normal(l, score) = 1000
<1>1. PICK d \in Nat : d = l.optimum - l.baseline /\ d > 0
  BY DEF Rising
<1>2. PICK a \in Int : a = 1000 * (score - l.baseline)
  BY DEF Rising
<1>3. PICK q \in Int : q = a \div d /\ (a = 1000 * d => q = 1000)
  BY <1>1, Quotient
<1>4. PICK low \in Int : low = Min({1000, q}) /\ (q = 1000 => low = 1000)
  BY TwoMin
<1>5. PICK high \in Nat : high = Max({0, low}) /\ (low = 1000 => high = 1000)
  BY TwoMax
<1>6. Normal(l, score) = IF score = -1 THEN 0 ELSE high
  BY <1>1, <1>2, <1>3, <1>4, <1>5 DEF Normal, MinusInfinity
<1>7. l.optimum \in Nat
  BY DEF Rising
<1>8. score = l.optimum => a = 1000 * d
  BY <1>1, <1>2, <1>7
<1>. QED BY <1>3, <1>4, <1>5, <1>6, <1>7, <1>8

LEMMA IdealPositive ==
    ASSUME NEW l, Rising(l)
    PROVE  IdealQd(l) \in Nat /\ IdealQd(l) > 0
<1>1. PICK n : Land(l, n)
  BY DEF Rising
<1>2. PointsIn(l) = PointsOf(n) /\ IsFiniteSet(PointsIn(l))
  BY <1>1, PointsInIs
<1>3. PICK valid : valid = {p \in PointsIn(l) : FeasibleFn(l, p)}
  OBVIOUS
<1>4. IsFiniteSet(valid) /\ valid \subseteq PointsIn(l)
  BY <1>2, <1>3, FS_Subset
<1>5. PICK niche : niche = [p \in valid |-> NicheOf(l, p)]
  OBVIOUS
<1>6. PICK niches : niches = {niche[p] : p \in valid}
  OBVIOUS
<1>7. IsFiniteSet(niches)
  BY <1>4, <1>5, <1>6, ImageFinite
<1> DEFINE Scores(k) == {PointScore(l, p) : p \in {r \in valid : NicheOf(l, r) = k}}
<1>8. ASSUME NEW k \in niches
      PROVE  /\ Max(Scores(k)) \in Int /\ Max(Scores(k)) \in Scores(k)
             /\ \A y \in Scores(k) : Max(Scores(k)) >= y
  <2>1. PICK In : In = {r \in valid : NicheOf(l, r) = k}
    OBVIOUS
  <2>2. IsFiniteSet(In) /\ In \subseteq valid /\ In # {}
    BY <1>4, <1>5, <1>6, <2>1, FS_Subset
  <2>3. PICK f : f = [p \in In |-> PointScore(l, p)]
    OBVIOUS
  <2>4. PICK S : S = {f[p] : p \in In}
    OBVIOUS
  <2>5. IsFiniteSet(S)
    BY <2>2, <2>3, <2>4, ImageFinite
  <2>6. S = Scores(k)
    BY <2>1, <2>3, <2>4
  <2>7. \A p \in In : PointScore(l, p) \in Int
    BY <1>1, <1>2, <1>4, <2>2, ScoreType
  <2>8. S \subseteq Int /\ S # {}
    BY <2>2, <2>3, <2>4, <2>7
  <2>9. Max(S) \in S /\ Max(S) \in Int /\ \A y \in S : Max(S) >= y
    BY <2>5, <2>8, FiniteMax
  <2>. QED BY <2>6, <2>9
<1> HIDE DEF Scores
<1>9. PICK f : f = [k \in niches |-> Normal(l, Max(Scores(k)))]
  OBVIOUS
<1>10. f \in [niches -> Nat]
  <2>1. ASSUME NEW k \in niches PROVE f[k] \in Nat
    BY <1>8, <1>9, NormalType
  <2>. QED BY <1>9, <2>1
<1>11. IdealQd(l) = SumFunction(f)
  <2>1. niches = {NicheOf(l, p) : p \in valid}
    BY <1>5, <1>6
  <2>. QED BY <1>3, <1>9, <2>1, Zenon DEF IdealQd, Scores
<1>12. PICK total \in Nat : total = IdealQd(l) /\ \A k \in niches : f[k] <= total
  BY <1>7, <1>10, <1>11, SumType
<1>13. PICK top \in PointsIn(l) : PointScore(l, top) = l.optimum
  BY DEF Rising
<1>14. top \in valid
  <2>1. l.optimum \in Nat
    BY DEF Rising
  <2>2. IF FeasibleFn(l, top) THEN TRUE ELSE PointScore(l, top) = -1
    BY <1>1, <1>2, <1>13, ScoreType
  <2>. QED BY <1>3, <1>13, <2>1, <2>2
<1>15. PICK k \in niches : k = NicheOf(l, top)
  BY <1>5, <1>6, <1>14
<1>16. Max(Scores(k)) = l.optimum
  <2>1. l.optimum \in Scores(k)
    BY <1>13, <1>14, <1>15 DEF Scores
  <2>2. \A y \in Scores(k) : y <= l.optimum
    BY <1>4 DEF Scores, Rising
  <2>3. l.optimum \in Int
    BY DEF Rising
  <2>4. PICK m \in Int : m = Max(Scores(k)) /\ m \in Scores(k) /\ \A y \in Scores(k) : m >= y
    BY <1>8
  <2>. QED BY <2>1, <2>2, <2>3, <2>4
<1>17. f[k] = 1000
  <2>1. l.optimum \in Int
    BY DEF Rising
  <2>. QED BY <1>9, <1>16, <2>1, NormalType
<1>. QED BY <1>12, <1>17

\* Every landscape of a trial rises, and its ideal is worth something.
LEMMA VerifiedIs ==
    ASSUME NEW l \in VerifiedLandscapes
    PROVE  /\ Rising(l) /\ l.ideal \in Nat /\ l.ideal > 0
           /\ \E m \in AllLandscapes : m.target = l.target
<1> DEFINE Scaled(m) == [study |-> m.study, family |-> m.family, target |-> m.target,
                         optimum |-> Optimum(m), baseline |-> Baseline(m)]
<1>1. PICK m, k :
          /\ m \in AllLandscapes /\ Optimum(m) > Baseline(m) /\ k = Scaled(m)
          /\ l = [study |-> k.study, family |-> k.family, target |-> k.target,
                  optimum |-> k.optimum, baseline |-> k.baseline, ideal |-> IdealQd(k)]
  BY DEF VerifiedLandscapes
<1>2. PICK n : Land(m, n)
  BY <1>1, LandIs
<1>3. Rising(k)
  BY <1>1, <1>2, ScaledRises
<1>4. Rising(l)
  BY <1>1, <1>2, ScaledRises
<1>. QED BY <1>1, <1>3, <1>4, IdealPositive

-----------------------------------------------------------------------------
(* What a step draws: one of the four operators, a point of the landscape,   *)
(* and parents among the records.                                            *)

FourOperators == {"mutation", "crossover", "simplification", "radical"}

LEMMA OperatorsAre ==
    /\ DOMAIN Operators = 1 .. 4 /\ Range(Operators) = FourOperators
    /\ \A i \in 1 .. 4 : Operators[i] \in FourOperators
    /\ IsFiniteSet(FourOperators)
    /\ \A op \in FourOperators : OperatorCost[op] \in Nat /\ OperatorCost[op] > 0
<1>1. DOMAIN Operators = 1 .. 4 /\ \A i \in 1 .. 4 : Operators[i] \in FourOperators
  BY DEF Operators, FourOperators
<1>2. /\ Operators[1] = "mutation" /\ Operators[2] = "crossover"
      /\ Operators[3] = "simplification" /\ Operators[4] = "radical"
  BY DEF Operators
<1>3. Range(Operators) = {Operators[i] : i \in 1 .. 4}
  BY <1>1 DEF Range
<1>4. 1 \in 1 .. 4 /\ 2 \in 1 .. 4 /\ 3 \in 1 .. 4 /\ 4 \in 1 .. 4
  OBVIOUS
<1>5. Range(Operators) = FourOperators
  BY <1>1, <1>2, <1>3, <1>4 DEF FourOperators
<1>6. IsFiniteSet({Operators[i] : i \in 1 .. 4})
  <2>1. IsFiniteSet(1 .. 4)
    <3>1. 1 \in Int /\ 4 \in Int
      OBVIOUS
    <3>. QED BY <3>1, FS_Interval
  <2>2. PICK f : f = [i \in 1 .. 4 |-> Operators[i]]
    OBVIOUS
  <2>3. DOMAIN f = 1 .. 4 /\ f = [i \in 1 .. 4 |-> f[i]]
    BY <2>2
  <2>4. IsFiniteSet({f[i] : i \in 1 .. 4})
    BY <2>1, <2>3, ImageFinite
  <2>5. {f[i] : i \in 1 .. 4} = {Operators[i] : i \in 1 .. 4}
    BY <2>2
  <2>. QED BY <2>4, <2>5
<1>. QED BY <1>1, <1>3, <1>5, <1>6 DEF OperatorCost, FourOperators

Modes == {"novelty", "cost_best_only", "primary", "none"}

LEMMA SetupIs ==
    ASSUME NEW s \in Setups
    PROVE  /\ s.land \in VerifiedLandscapes /\ s.mode \in Modes
           /\ s.weight \in {0, 250, 500}
<1>1. ASSUME s \in Ar0Setups
      PROVE  /\ s.land \in VerifiedLandscapes /\ s.mode \in Modes
             /\ s.weight \in {0, 250, 500}
  <2>1. s.land \in VerifiedLandscapes
    BY <1>1 DEF Ar0Setups, Setup, Of
  <2>2. s.mode \in Modes
    BY <1>1 DEF Ar0Setups, Setup, Modes
  <2>3. s.weight \in {0, 250, 500}
    BY <1>1 DEF Ar0Setups, Setup
  <2>. QED BY <2>1, <2>2, <2>3
<1>2. ASSUME s \in Ar1Setups
      PROVE  /\ s.land \in VerifiedLandscapes /\ s.mode \in Modes
             /\ s.weight \in {0, 250, 500}
  <2>1. s.land \in VerifiedLandscapes
    BY <1>2 DEF Ar1Setups, Setup, Of
  <2>2. s.mode \in Modes
    BY <1>2 DEF Ar1Setups, Setup, Modes
  <2>3. s.weight \in {0, 250, 500}
    BY <1>2 DEF Ar1Setups, Setup
  <2>. QED BY <2>1, <2>2, <2>3
<1>3. ASSUME s \in Ar2Setups
      PROVE  /\ s.land \in VerifiedLandscapes /\ s.mode \in Modes
             /\ s.weight \in {0, 250, 500}
  <2>1. s.land \in VerifiedLandscapes
    BY <1>3 DEF Ar2Setups, Setup, Of
  <2>2. s.mode \in Modes
    BY <1>3 DEF Ar2Setups, Setup, Modes
  <2>3. s.weight \in {0, 250, 500}
    BY <1>3 DEF Ar2Setups, Setup
  <2>. QED BY <2>1, <2>2, <2>3
<1>. QED BY <1>1, <1>2, <1>3 DEF Setups

LEMMA RootType ==
    ASSUME NEW n \in Nat
    PROVE  Root(n) \in Int
<1>1. PICK B : B = {r \in Nat : n < (r + 1) * (r + 1)}
  OBVIOUS
<1>2. n \in B
  <2>1. n < (n + 1) * (n + 1)
    OBVIOUS
  <2>. QED BY <1>1, <2>1
<1>3. PICK m \in B : \A y \in B : m <= y
  <2>1. B \subseteq Nat /\ B # {}
    BY <1>1, <1>2
  <2>. QED BY <2>1, LeastIs
<1>4. m \in Nat /\ m <= n /\ n < (m + 1) * (m + 1)
  BY <1>1, <1>2, <1>3
<1>5. m * m <= n
  <2>1. CASE m = 0
    BY <2>1
  <2>2. CASE m # 0
    <3>1. PICK k \in Nat : m = k + 1
      BY <1>4, <2>2
    <3>2. k \notin B
      BY <1>3, <1>4, <3>1
    <3>3. ~(n < (k + 1) * (k + 1))
      BY <1>1, <3>2
    <3>4. m * m = (k + 1) * (k + 1)
      BY <3>1
    <3>5. (k + 1) * (k + 1) \in Int
      BY <3>1
    <3>. QED BY <3>3, <3>4, <3>5
  <2>. QED BY <2>1, <2>2
<1>6. \E r \in 0 .. n : r * r <= n /\ n < (r + 1) * (r + 1)
  BY <1>4, <1>5
<1>7. Root(n) \in 0 .. n
  BY <1>6 DEF Root
<1>. QED BY <1>7

LEMMA MutatePoint ==
    ASSUME NEW n \in Nat, NEW p \in PointsOf(n), NEW at \in 1 .. n
    PROVE  Mutate(p, at) \in PointsOf(n)
BY DEF Mutate, PointsOf

LEMMA SimplifiedPoint ==
    ASSUME NEW n \in Nat, NEW p \in PointsOf(n), NEW q \in Simplified(p)
    PROVE  q \in PointsOf(n)
BY DEF Simplified, PointsOf

LEMMA CrossoverPoint ==
    ASSUME NEW n \in Nat, NEW p \in PointsOf(n), NEW q \in PointsOf(n), NEW cut \in 1 .. n - 1
    PROVE  Crossover(p, q, cut) \in PointsOf(n)
<1>1. /\ Len(p) = n /\ \A i \in 1 .. n : p[i] \in {0, 1} /\ q[i] \in {0, 1}
  BY PointIs
<1>2. PICK a, b : a = SubSeq(p, 1, cut) /\ b = SubSeq(q, cut + 1, n)
  OBVIOUS
<1>3. a \in Seq({0, 1}) /\ Len(a) = cut
  <2>1. \A i \in 1 .. cut : p[i] \in {0, 1}
    BY <1>1
  <2>2. 1 \in Int /\ cut \in Int /\ 1 <= cut
    OBVIOUS
  <2>3. Len(a) = IF 1 <= cut THEN cut - 1 + 1 ELSE 0
    BY <1>2, <2>1, <2>2, SubSeqProperties
  <2>4. a \in Seq({0, 1})
    BY <1>2, <2>1, <2>2, SubSeqProperties
  <2>. QED BY <2>2, <2>3, <2>4
<1>4. b \in Seq({0, 1}) /\ Len(b) = n - cut
  <2>1. \A i \in cut + 1 .. n : q[i] \in {0, 1}
    BY <1>1
  <2>2. cut + 1 \in Int /\ n \in Int /\ cut + 1 <= n
    OBVIOUS
  <2>3. Len(b) = IF cut + 1 <= n THEN n - (cut + 1) + 1 ELSE 0
    BY <1>2, <2>1, <2>2, SubSeqProperties
  <2>4. b \in Seq({0, 1})
    BY <1>2, <2>1, <2>2, SubSeqProperties
  <2>. QED BY <2>2, <2>3, <2>4
<1>5. a \o b \in Seq({0, 1}) /\ Len(a \o b) = n
  <2>1. a \o b \in Seq({0, 1}) /\ Len(a \o b) = Len(a) + Len(b)
    BY <1>3, <1>4, ConcatProperties
  <2>. QED BY <1>3, <1>4, <2>1
<1>6. Crossover(p, q, cut) = a \o b
  BY <1>1, <1>2 DEF Crossover
<1>7. PICK c : c = a \o b /\ c \in Seq({0, 1}) /\ Len(c) = n
  BY <1>5
<1>8. c \in [1 .. Len(c) -> {0, 1}]
  BY <1>7, LenProperties
<1>. QED BY <1>6, <1>7, <1>8 DEF PointsOf

-----------------------------------------------------------------------------
(* The books of a search trial.                                              *)

\* Its records: what each scores, and how it is numbered.
Records(t) ==
    /\ IsSeq(t.population) /\ t.step \in Nat /\ Len(t.population) = t.step + 1
    /\ t.best \in 1 .. t.step + 1
    /\ \A i \in 1 .. t.step + 1 :
          /\ t.population[i].point \in PointsIn(t.setup.land)
          /\ t.population[i].score = PointScore(t.setup.land, t.population[i].point)
          /\ t.population[i].number = IF i = 1 THEN 0 ELSE i - 2

IsGeneration(gen, population) ==
    gen = [i \in DOMAIN population |->
              IF population[i].parents = <<>> THEN 0
              ELSE 1 + Max({gen[population[i].parents[k]] : k \in DOMAIN population[i].parents})]

\* Where they descend from, and how deep.
Descent(t) ==
    /\ \A i \in 1 .. t.step + 1 :
          /\ IsSeq(t.population[i].parents) /\ t.population[i].depth \in Nat
          /\ \A k \in DOMAIN t.population[i].parents : t.population[i].parents[k] \in 1 .. i - 1
    /\ t.population[1].parents = <<>> /\ t.population[1].depth = 0
    /\ t.step >= 1 => t.population[2].depth = 1
    /\ \E gen : /\ IsGeneration(gen, t.population)
                /\ \A i \in 1 .. t.step + 1 :
                      gen[i] \in Nat /\ t.population[i].depth - gen[i] \in {0, 1}

\* Its archive: an entry a niche, the first of the best there.
Kept(t, k, i) ==
    /\ t.archive[k].key = ArchiveKey(t.setup, t.population[i].point)
    /\ \/ t.population[t.archive[k].record].score > t.population[i].score
       \/ /\ t.population[t.archive[k].record].score = t.population[i].score
          /\ t.archive[k].record <= i
Entry(t, k) ==
    /\ t.archive[k].record \in 1 .. t.step + 1
    /\ t.population[t.archive[k].record].score # MinusInfinity
    /\ t.archive[k].key = ArchiveKey(t.setup, t.population[t.archive[k].record].point)
Archived(t) ==
    /\ IsSeq(t.archive)
    /\ \A k \in DOMAIN t.archive : Entry(t, k)
    /\ \A k, j \in DOMAIN t.archive : t.archive[k].key = t.archive[j].key => k = j
    /\ \A i \in 1 .. t.step + 1 :
          t.population[i].score # MinusInfinity => \E k \in DOMAIN t.archive : Kept(t, k, i)

\* What its operators earned, and how often each was used.
CreditKey(s, p) == IF s.land.study = "ar0" THEN ArchiveKey(s, p) ELSE NicheOf(s.land, p)
ValidAt(t) == {i \in 1 .. t.step + 1 : t.population[i].score # MinusInfinity}
Found(t) == {CreditKey(t.setup, t.population[i].point) : i \in ValidAt(t)}
Gain(s, best, qd, found) ==
    CASE s.mode = "novelty" -> best + s.weight * found
      [] s.mode = "cost_best_only" -> 2 * best
      [] s.mode = "primary" -> best + qd
      [] s.mode = "none" -> 0
Gained(t) == Gain(t.setup, t.curve[t.step + 1].best - t.curve[1].best,
                  t.curve[t.step + 1].qd - t.curve[1].qd, Cardinality(Found(t)) - 1)
Earned(t) ==
    /\ t.uses \in [FourOperators -> Nat] /\ SumFunction(t.uses) = t.step
    /\ t.credit \in [FourOperators -> Int]
    /\ IsSeq(t.curve) /\ Len(t.curve) = t.step + 1
    /\ \A i \in 1 .. t.step + 1 : t.curve[i].best \in Int /\ t.curve[i].qd \in Int
    /\ SumFunction(t.credit) = IF t.setup.inverted THEN -Gained(t) ELSE Gained(t)

Accounted(t) ==
    /\ SearchShaped(t) /\ t.setup \in Setups
    /\ Records(t) /\ Descent(t) /\ Archived(t) /\ Earned(t)
-----------------------------------------------------------------------------
(* What a step draws: one of the four operators, a point of the landscape,   *)
(* and parents among the records.                                            *)

LEMMA SeqIs == ASSUME NEW s, IsSeq(s) PROVE Len(s) \in Nat /\ DOMAIN s = 1 .. Len(s)
<1>1. PICK S : s \in Seq(S)
  BY DEF IsSeq
<1>. QED BY <1>1

LEMMA LandOf ==
    ASSUME NEW t, t.setup \in Setups
    PROVE  \E n : /\ Land(t.setup.land, n) /\ Rising(t.setup.land)
                  /\ t.setup.land.ideal \in Nat /\ t.setup.land.ideal > 0
                  /\ n \in Nat /\ PointsIn(t.setup.land) = PointsOf(n)
                  /\ Flips \subseteq 1 .. n /\ Cuts \subseteq 1 .. n - 1
<1>1. PICK l : l = t.setup.land
  OBVIOUS
<1>2. l \in VerifiedLandscapes
  BY <1>1, SetupIs
<1>3. Rising(l) /\ l.ideal \in Nat /\ l.ideal > 0
  BY <1>2, VerifiedIs
<1>4. PICK m \in AllLandscapes : m.target = l.target
  BY <1>2, VerifiedIs
<1>5. PICK n : Land(l, n)
  BY <1>3 DEF Rising
<1>6. n \in Nat /\ PointsIn(l) = PointsOf(n) /\ Len(l.target) = n
  BY <1>5, PointsInIs DEF Land
<1>7. Flips \subseteq 1 .. n /\ Cuts \subseteq 1 .. n - 1
  BY <1>4, <1>6, SearchAssumption
<1>. QED BY <1>1, <1>3, <1>5, <1>6, <1>7

\* Positions among the records.
Places(t, s) == /\ DOMAIN s # {} /\ DOMAIN s \subseteq Nat
                /\ \A i \in DOMAIN s : s[i] \in 1 .. t.step + 1

LEMMA ParentsAre ==
    ASSUME NEW t, Records(t), Archived(t)
    PROVE  Places(t, Parents(t))
<1>1. t.step \in Nat /\ DOMAIN t.population = 1 .. t.step + 1
  BY SeqIs DEF Records
<1>2. CASE t.archive = <<>>
  <2>1. Parents(t) = [i \in 1 .. t.step + 1 |-> i]
    BY <1>1, <1>2 DEF Parents
  <2>2. 1 \in 1 .. t.step + 1
    BY <1>1
  <2>. QED BY <2>1, <2>2 DEF Places
<1>3. CASE t.archive # <<>>
  <2>1. PICK S : t.archive \in Seq(S)
    BY DEF Archived, IsSeq
  <2>2. Len(t.archive) \in Nat \ {0} /\ DOMAIN t.archive = 1 .. Len(t.archive)
    BY <1>3, <2>1, EmptySeq
  <2>3. 1 \in DOMAIN t.archive
    BY <2>2
  <2>4. Parents(t) = [i \in DOMAIN t.archive |-> t.archive[i].record]
    BY <1>3 DEF Parents
  <2>. QED BY <2>2, <2>3, <2>4 DEF Places, Archived, Entry
<1>. QED BY <1>2, <1>3

LEMMA EligibleAre ==
    ASSUME NEW t, Records(t), Archived(t)
    PROVE  Places(t, Eligible(t))
<1> DEFINE all == Parents(t)
           oldest == Min({t.population[all[i]].number : i \in DOMAIN all})
           at == Min({i \in DOMAIN all : t.population[all[i]].number = oldest})
<1>9. Eligible(t) = <<t.best>> \/ Eligible(t) = <<all[at]>> \/ Eligible(t) = all
  BY Zenon DEF Eligible
<1>1. all = Parents(t)
  OBVIOUS
<1>5. oldest = Min({t.population[all[i]].number : i \in DOMAIN all})
  OBVIOUS
<1>7. at = Min({i \in DOMAIN all : t.population[all[i]].number = oldest})
  OBVIOUS
<1> HIDE DEF all, oldest, at
<1>2. DOMAIN all # {} /\ DOMAIN all \subseteq Nat /\ \A i \in DOMAIN all : all[i] \in 1 .. t.step + 1
  BY <1>1, ParentsAre DEF Places
<1>3. PICK number : number = [i \in DOMAIN all |-> t.population[all[i]].number]
  OBVIOUS
<1>4. ASSUME NEW i \in DOMAIN all PROVE number[i] \in Nat
  <2>1. PICK j \in 1 .. t.step + 1 : j = all[i]
    BY <1>2
  <2>2. number[i] = IF j = 1 THEN 0 ELSE j - 2
    BY <1>3, <2>1 DEF Records
  <2>. QED BY <2>1, <2>2
<1>6. PICK j \in DOMAIN all : number[j] = oldest
  <2>1. PICK S : S = {number[i] : i \in DOMAIN all}
    OBVIOUS
  <2>2. S = {t.population[all[i]].number : i \in DOMAIN all}
    BY <1>3, <2>1
  <2>3. S \subseteq Nat /\ S # {}
    BY <1>2, <1>4, <2>1
  <2>4. Min(S) \in S
    BY <2>3, LeastIs
  <2>. QED BY <1>5, <2>1, <2>2, <2>4
<1>8. at \in DOMAIN all
  <2>1. PICK S : S = {i \in DOMAIN all : t.population[all[i]].number = oldest}
    OBVIOUS
  <2>2. j \in S
    BY <1>3, <1>6, <2>1
  <2>3. S \subseteq Nat /\ S # {}
    BY <1>2, <2>1, <2>2
  <2>4. Min(S) \in S
    BY <2>3, LeastIs
  <2>. QED BY <1>7, <2>1, <2>4
<1>10. ASSUME NEW e \in 1 .. t.step + 1 PROVE Places(t, <<e>>)
  BY DEF Places
<1>11. t.best \in 1 .. t.step + 1 /\ all[at] \in 1 .. t.step + 1
  BY <1>2, <1>8 DEF Records
<1>. QED BY <1>1, <1>9, <1>10, <1>11, ParentsAre

-----------------------------------------------------------------------------
(* The operators a policy chooses, and what it can draw.                     *)

LEMMA ConfidenceType ==
    ASSUME NEW t, t.setup \in Setups, Earned(t), t.step \in Nat,
           t.step < StepsOf[t.setup.policy],
           \A op \in FourOperators : t.uses[op] # 0, NEW op \in FourOperators
    PROVE  Confidence(t, t.step, op) \in Int
<1>1. PICK uses \in Nat : uses = t.uses[op] /\ uses > 0
  BY DEF Earned
<1>2. PICK total \in Nat : total = t.step
  OBVIOUS
<1>3. uses <= total
  <2>1. \A f \in [FourOperators -> Nat] :
           SumFunction(f) \in Nat /\ \A x \in FourOperators : f[x] <= SumFunction(f)
    BY OperatorsAre, SumType
  <2>. QED BY <1>1, <1>2, <2>1 DEF Earned
<1>4. PICK n \in Nat : n = Len(Ln)
  BY SearchAssumption, LenProperties
<1>5. total <= n /\ uses <= n
  <2>1. PICK most : most = StepsOf[t.setup.policy]
    OBVIOUS
  <2>2. most \in Nat /\ most <= n + 1
    BY <1>4, <2>1, SearchAssumption
  <2>. QED BY <1>2, <1>3, <2>1, <2>2
<1>6. DOMAIN Ln = 1 .. n /\ total \in 1 .. n /\ uses \in 1 .. n
  <2>1. DOMAIN Ln = 1 .. n
    BY <1>4, SearchAssumption, LenProperties
  <2>. QED BY <1>1, <1>3, <1>5, <2>1
<1>7. PICK r \in Nat : r = Ln[total]
  <2>1. Ln \in [1 .. n -> Nat]
    BY <1>4, SearchAssumption, LenProperties
  <2>. QED BY <1>6, <2>1
<1>8. PICK q \in Nat : q = (490 * r) \div uses
  <2>1. (490 * r) \div uses \in Nat
    BY <1>1, <1>7
  <2>. QED BY <2>1
<1>9. Bonus[total][uses] = Root(q)
  <2>1. Bonus[total][uses] = Root((490 * Ln[total]) \div uses)
    BY <1>6 DEF Bonus
  <2>. QED BY <1>7, <1>8, <2>1
<1>10. Root(q) \in Int
  BY RootType
<1>11. PICK c \in Int : c = t.credit[op]
  BY DEF Earned
<1>12. PICK d \in Nat : d = 2 * OperatorCost[op] /\ d > 0
  BY OperatorsAre
<1>13. (100 * c) \div d \in Int
  BY <1>11, <1>12
<1>14. PICK e \in Int : e = IF t.setup.mode = "novelty" THEN c ELSE (100 * c) \div d
  BY <1>13
<1>15. Confidence(t, t.step, op) = e \div uses + Bonus[total][uses]
  BY <1>1, <1>2, <1>11, <1>12, <1>14, Zenon DEF Confidence
<1>16. e \div uses \in Int
  BY <1>1
<1>17. PICK u, v \in Int : u = e \div uses /\ v = Bonus[total][uses]
  BY <1>9, <1>10, <1>16
<1>18. Confidence(t, t.step, op) = u + v
  BY <1>15, <1>17, Zenon
<1>. QED BY <1>17, <1>18

LEMMA ChosenAre ==
    ASSUME NEW t, t.setup \in Setups, Earned(t), t.step \in Nat,
           t.step < StepsOf[t.setup.policy]
    PROVE  ChosenOperators(t) \subseteq FourOperators
<1> DEFINE value == [op \in FourOperators |-> Confidence(t, t.step, op)]
<1>1. \/ ChosenOperators(t) = {"mutation"}
      \/ ChosenOperators(t) = FourOperators
      \/ /\ \E op \in FourOperators : t.uses[op] = 0
         /\ ChosenOperators(t) = {Operators[Min({i \in 1 .. 4 : t.uses[Operators[i]] = 0})]}
      \/ /\ ~ \E op \in FourOperators : t.uses[op] = 0
         /\ ChosenOperators(t) =
                {Operators[Min({i \in 1 .. 4 : value[Operators[i]] = Max(Range(value))})]}
  <2> DEFINE worth == [op \in Range(Operators) |-> Confidence(t, SumFunction(t.uses), op)]
  <2>1. \/ ChosenOperators(t) = {"mutation"}
        \/ ChosenOperators(t) = Range(Operators)
        \/ /\ \E op \in Range(Operators) : t.uses[op] = 0
           /\ ChosenOperators(t) =
                  {Operators[Min({i \in DOMAIN Operators : t.uses[Operators[i]] = 0})]}
        \/ /\ ~ \E op \in Range(Operators) : t.uses[op] = 0
           /\ ChosenOperators(t) =
                  {Operators[Min({i \in DOMAIN Operators :
                                    worth[Operators[i]] = Max(Range(worth))})]}
    <3>1. CASE t.setup.policy = "greedy"
      <4>1. ChosenOperators(t) = {"mutation"}
        BY <3>1, Zenon DEF ChosenOperators
      <4>. QED BY <4>1
    <3>2. CASE t.setup.policy = "map_elites_fixed"
      <4>1. ChosenOperators(t) = Range(Operators)
        BY <3>2, Zenon DEF ChosenOperators
      <4>. QED BY <4>1
    <3>3. CASE t.setup.policy \notin {"greedy", "map_elites_fixed"}
      <4>1. CASE \E op \in Range(Operators) : t.uses[op] = 0
        <5>1. ChosenOperators(t) = {FirstOperator(LAMBDA op : t.uses[op] = 0)}
          BY <3>3, <4>1 DEF ChosenOperators
        <5>. QED BY <4>1, <5>1 DEF FirstOperator
      <4>2. CASE ~ \E op \in Range(Operators) : t.uses[op] = 0
        <5>1. ChosenOperators(t) = {FirstOperator(LAMBDA op : worth[op] = Max(Range(worth)))}
          BY <3>3, <4>2 DEF ChosenOperators
        <5>. QED BY <4>2, <5>1 DEF FirstOperator
      <4>. QED BY <4>1, <4>2
    <3>. QED BY <3>1, <3>2, <3>3
  <2>2. SumFunction(t.uses) = t.step /\ Range(Operators) = FourOperators /\ DOMAIN Operators = 1 .. 4
    BY OperatorsAre DEF Earned
  <2>3. worth = value
    BY <2>2
  <2> HIDE DEF worth, value
  <2>. QED BY <2>1, <2>2, <2>3
<1>2. ASSUME NEW S, S \subseteq 1 .. 4, S # {}
      PROVE  {Operators[Min(S)]} \subseteq FourOperators
  <2>1. Min(S) \in S
    <3>1. S \subseteq Nat
      BY <1>2
    <3>. QED BY <1>2, <3>1, LeastIs
  <2>. QED BY <1>2, <2>1, OperatorsAre
<1>3. \A op \in FourOperators : \E i \in 1 .. 4 : Operators[i] = op
  <2>1. Range(Operators) = {Operators[i] : i \in 1 .. 4}
    BY OperatorsAre DEF Range
  <2>. QED BY <2>1, OperatorsAre
<1>4. CASE \E op \in FourOperators : t.uses[op] = 0
  <2>1. PICK S : S = {i \in 1 .. 4 : t.uses[Operators[i]] = 0}
    OBVIOUS
  <2>2. S # {} /\ S \subseteq 1 .. 4
    BY <1>3, <1>4, <2>1
  <2>3. {Operators[Min(S)]} \subseteq FourOperators
    BY <1>2, <2>2
  <2>4. "mutation" \in FourOperators
    BY DEF FourOperators
  <2>. QED BY <1>1, <1>4, <2>1, <2>3, <2>4
<1>5. CASE ~ \E op \in FourOperators : t.uses[op] = 0
  <2>1. \A op \in FourOperators : Confidence(t, t.step, op) \in Int
    BY <1>5, ConfidenceType
  <2>2. DOMAIN value = FourOperators /\ value = [op \in FourOperators |-> value[op]]
        /\ \A op \in FourOperators : value[op] \in Int
    BY <2>1
  <2> HIDE DEF value
  <2>3. PICK R : R = {value[op] : op \in FourOperators}
    OBVIOUS
  <2>4. IsFiniteSet(R)
    BY <2>2, <2>3, OperatorsAre, ImageFinite
  <2>5. R \subseteq Int /\ R # {}
    BY <2>2, <2>3 DEF FourOperators
  <2>6. Max(R) \in R
    BY <2>4, <2>5, FiniteMax
  <2>7. Range(value) = R
    BY <2>2, <2>3 DEF Range
  <2>8. PICK op \in FourOperators : value[op] = Max(R)
    BY <2>3, <2>6
  <2>9. PICK S : S = {i \in 1 .. 4 : value[Operators[i]] = Max(Range(value))}
    OBVIOUS
  <2>10. S # {} /\ S \subseteq 1 .. 4
    BY <1>3, <2>7, <2>8, <2>9
  <2>11. {Operators[Min(S)]} \subseteq FourOperators
    BY <1>2, <2>10
  <2>12. "mutation" \in FourOperators
    BY DEF FourOperators
  <2>. QED BY <1>1, <1>5, <2>9, <2>11, <2>12
<1>. QED BY <1>4, <1>5

LEMMA DrawIs ==
    ASSUME NEW t, t.setup \in Setups, Records(t), Archived(t), Earned(t),
           t.step < StepsOf[t.setup.policy], NEW draw \in Proposals(t)
    PROVE  /\ draw.op \in FourOperators /\ draw.point \in PointsIn(t.setup.land)
           /\ IsSeq(ParentsDrawn(t, draw)) /\ Places(t, ParentsDrawn(t, draw))
           /\ Len(ParentsDrawn(t, draw)) \in {1, 2}
<1>1. PICK first, all : first = Eligible(t) /\ all = Parents(t)
  OBVIOUS
<1>2. PICK op \in ChosenOperators(t), i \in DOMAIN first : draw \in Proposed(t, op, first, i)
  BY <1>1 DEF Proposals
<1>3. op \in FourOperators
  BY <1>2, ChosenAre DEF Records
<1>4. Places(t, first) /\ Places(t, all)
  BY <1>1, EligibleAre, ParentsAre
<1>5. PICK n \in Nat : /\ PointsIn(t.setup.land) = PointsOf(n)
                       /\ Flips \subseteq 1 .. n /\ Cuts \subseteq 1 .. n - 1
  BY LandOf
<1>6. PICK point : point = t.population[first[i]].point
  OBVIOUS
<1>7. point \in PointsOf(n)
  BY <1>2, <1>4, <1>5, <1>6 DEF Places, Records
<1>8. /\ draw.op = op /\ draw.point \in PointsOf(n)
      /\ draw.from = <<i>> \/ \E j \in DOMAIN all : draw.from = <<i, j>>
  <2>1. CASE op = "mutation"
    <3>1. PICK at \in Flips : draw = [op |-> op, from |-> <<i>>, point |-> Mutate(point, at)]
      BY <1>2, <1>6, <2>1 DEF Proposed
    <3>. QED BY <1>5, <1>7, <3>1, MutatePoint
  <2>2. CASE op = "crossover"
    <3>1. PICK j \in DOMAIN all, cut \in Cuts :
              draw = [op |-> op, from |-> <<i, j>>,
                      point |-> Crossover(point, t.population[all[j]].point, cut)]
      BY <1>1, <1>2, <1>6, <2>2 DEF Proposed
    <3>2. PICK q : q = t.population[all[j]].point
      OBVIOUS
    <3>3. q \in PointsOf(n) /\ cut \in 1 .. n - 1
      BY <1>4, <1>5, <3>2 DEF Places, Records
    <3>4. Crossover(point, q, cut) \in PointsOf(n)
      BY <1>7, <3>3, CrossoverPoint
    <3>. QED BY <3>1, <3>2, <3>4
  <2>3. CASE op = "simplification"
    <3>1. PICK q \in Simplified(point) : draw = [op |-> op, from |-> <<i>>, point |-> q]
      BY <1>2, <1>6, <2>3 DEF Proposed
    <3>. QED BY <1>7, <3>1, SimplifiedPoint
  <2>4. CASE op = "radical"
    <3>1. PICK q \in Radicals \cap PointsIn(t.setup.land) :
              draw = [op |-> op, from |-> <<i>>, point |-> q]
      BY <1>2, <2>4 DEF Proposed
    <3>. QED BY <1>5, <3>1
  <2>. QED BY <1>3, <2>1, <2>2, <2>3, <2>4 DEF FourOperators
<1>9. CASE draw.from = <<i>>
  <2>1. Len(draw.from) = 1 /\ draw.from[1] = i
    BY <1>9
  <2>2. ParentsDrawn(t, draw) = <<first[i]>>
    BY <1>1, <2>1 DEF ParentsDrawn
  <2>3. first[i] \in 1 .. t.step + 1
    BY <1>2, <1>4 DEF Places
  <2>4. PICK a \in 1 .. t.step + 1 : a = first[i]
    BY <2>3
  <2>5. <<a>> \in Seq({a}) /\ Len(<<a>>) = 1 /\ DOMAIN <<a>> = {1} /\ <<a>>[1] = a
    OBVIOUS
  <2>6. IsSeq(<<a>>) /\ Places(t, <<a>>) /\ Len(<<a>>) \in {1, 2}
    BY <2>5 DEF IsSeq, Places
  <2>. QED BY <1>3, <1>5, <1>8, <2>2, <2>4, <2>6
<1>10. CASE \E j \in DOMAIN all : draw.from = <<i, j>>
  <2>0. PICK j \in DOMAIN all : draw.from = <<i, j>>
    BY <1>10
  <2>1. Len(draw.from) = 2 /\ draw.from[1] = i /\ draw.from[2] = j
    BY <2>0
  <2>2. ParentsDrawn(t, draw) = <<first[i], all[j]>>
    BY <1>1, <2>1 DEF ParentsDrawn
  <2>3. first[i] \in 1 .. t.step + 1 /\ all[j] \in 1 .. t.step + 1
    BY <1>2, <1>4 DEF Places
  <2>4. PICK a, b \in 1 .. t.step + 1 : a = first[i] /\ b = all[j]
    BY <2>3
  <2>5. /\ <<a, b>> \in Seq({a, b}) /\ Len(<<a, b>>) = 2 /\ DOMAIN <<a, b>> = {1, 2}
        /\ <<a, b>>[1] = a /\ <<a, b>>[2] = b
    OBVIOUS
  <2>6. IsSeq(<<a, b>>) /\ Places(t, <<a, b>>) /\ Len(<<a, b>>) \in {1, 2}
    BY <2>5 DEF IsSeq, Places
  <2>. QED BY <1>3, <1>5, <1>8, <2>2, <2>4, <2>6
<1>. QED BY <1>8, <1>9, <1>10

-----------------------------------------------------------------------------
(* What a step writes in the books.                                          *)

Holding(t, key) == {i \in DOMAIN t.archive : t.archive[i].key = key}
NextArchive(t, record) ==
    LET key == ArchiveKey(t.setup, record.point)
        entry == [key |-> key, record |-> Len(t.population) + 1]
    IN  IF record.score = MinusInfinity THEN t.archive
        ELSE IF Holding(t, key) = {} THEN Append(t.archive, entry)
        ELSE [i \in DOMAIN t.archive |->
                IF /\ i \in Holding(t, key)
                   /\ record.score > t.population[t.archive[i].record].score
                THEN entry ELSE t.archive[i]]

\* Both sides of a record, and of the counters.
Written(t, record, u) ==
    /\ u.setup = t.setup /\ u.population = Append(t.population, record)
    /\ u.best = IF record.score > BestScore(t) THEN Len(t.population) + 1 ELSE t.best
    /\ u.archive = NextArchive(t, record)
Credits(t, draw, after, u) ==
    /\ u.uses = [after.uses EXCEPT ![draw.op] = @ + 1]
    /\ u.credit = [after.credit EXCEPT ![draw.op] =
                     @ + (IF t.setup.inverted THEN -Reward(t, after, draw.op)
                          ELSE Reward(t, after, draw.op))]

LEMMA AddedFields ==
    ASSUME NEW t, SearchShaped(t), NEW record, NEW u, u = Added(t, record)
    PROVE  /\ SearchShaped(u) /\ u.step = t.step /\ u.curve = t.curve
           /\ u.uses = t.uses /\ u.credit = t.credit /\ Written(t, record, u)
<1> DEFINE at == Len(t.population) + 1
           key == ArchiveKey(t.setup, record.point)
           held == {i \in DOMAIN t.archive : t.archive[i].key = key}
           better == {i \in held : record.score > t.population[t.archive[i].record].score}
           entry == [key |-> key, record |-> at]
           archive == IF record.score = MinusInfinity THEN t.archive
                      ELSE IF held = {} THEN Append(t.archive, entry)
                      ELSE [i \in DOMAIN t.archive |->
                              IF i \in better THEN entry ELSE t.archive[i]]
           best == IF record.score > BestScore(t) THEN at ELSE t.best
           deepest == Max({t.maxDepth, record.depth})
<1>1. u = [t EXCEPT !.population = Append(@, record), !.archive = archive,
                    !.seen = @ \cup {record.point},
                    !.best = IF record.score > BestScore(t) THEN at ELSE @,
                    !.maxDepth = Max({@, record.depth})]
  BY Zenon DEF Added
<1>2. archive = NextArchive(t, record)
  <2>1. \A i \in DOMAIN t.archive :
            i \in better <=> i \in held /\ record.score > t.population[t.archive[i].record].score
    OBVIOUS
  <2>. QED BY <2>1 DEF NextArchive, Holding
<1> HIDE DEF archive
<1>3. u = [t EXCEPT !.population = Append(@, record), !.archive = archive,
                    !.seen = @ \cup {record.point}, !.best = best, !.maxDepth = deepest]
  BY <1>1 DEF SearchShaped, SearchSnapshot
<1> HIDE DEF best, deepest, at, key
<1>4. /\ SearchShaped(u) /\ u.setup = t.setup /\ u.step = t.step /\ u.curve = t.curve
      /\ u.uses = t.uses /\ u.credit = t.credit
      /\ u.population = Append(t.population, record) /\ u.best = best /\ u.archive = archive
  BY <1>3 DEF SearchShaped, SearchSnapshot
<1>. QED BY <1>2, <1>4 DEF best, at, Written

LEMMA CurveFields ==
    ASSUME NEW t, SearchShaped(t), NEW u, u = WithCurve(t)
    PROVE  /\ SearchShaped(u) /\ u.setup = t.setup /\ u.step = t.step
           /\ u.population = t.population /\ u.archive = t.archive /\ u.best = t.best
           /\ u.uses = t.uses /\ u.credit = t.credit
           /\ \E c : /\ u.curve = Append(t.curve, c)
                     /\ c.best = Normal(t.setup.land, BestScore(t)) /\ c.qd = Qd(t)
<1>1. PICK c : c = [best |-> Normal(t.setup.land, BestScore(t)), qd |-> Qd(t), cost |-> t.cost]
  OBVIOUS
<1>2. u = [t EXCEPT !.curve = Append(@, c)]
  BY <1>1, Zenon DEF WithCurve
<1>3. c.best = Normal(t.setup.land, BestScore(t)) /\ c.qd = Qd(t)
  BY <1>1
<1>4. /\ SearchShaped(u) /\ u.setup = t.setup /\ u.step = t.step
      /\ u.population = t.population /\ u.archive = t.archive /\ u.best = t.best
      /\ u.uses = t.uses /\ u.credit = t.credit
      /\ u.curve = Append(t.curve, c)
  BY <1>2 DEF SearchShaped, SearchSnapshot
<1>. QED BY <1>3, <1>4

LEMMA CountedFields ==
    ASSUME NEW t, NEW draw, NEW after, SearchShaped(after), NEW u, u = Counted(t, draw, after)
    PROVE  /\ SearchShaped(u) /\ u.setup = after.setup /\ u.step = after.step + 1
           /\ u.population = after.population /\ u.archive = after.archive
           /\ u.best = after.best /\ u.curve = after.curve
           /\ Credits(t, draw, after, u)
<1>1. PICK uses : uses = [after.uses EXCEPT ![draw.op] = @ + 1]
  OBVIOUS
<1>2. PICK improvements : improvements = [after.improvements EXCEPT ![draw.op] =
          @ + (IF Last(after.population).score > BestScore(t) THEN 1 ELSE 0)]
  OBVIOUS
<1>3. PICK credit : credit = [after.credit EXCEPT ![draw.op] =
          @ + (IF t.setup.inverted THEN -Reward(t, after, draw.op)
               ELSE Reward(t, after, draw.op))]
  OBVIOUS
<1>4. PICK valid : valid = after.valid +
          (IF Last(after.population).score = MinusInfinity THEN 0 ELSE 1)
  OBVIOUS
<1>5. PICK duplicates : duplicates = after.duplicates + (IF draw.point \in t.seen THEN 1 ELSE 0)
  OBVIOUS
<1>6. PICK novelty : novelty = after.novelty +
          (IF t.seen \ {draw.point} = {} THEN 0
           ELSE Min({Hamming(draw.point, q) : q \in t.seen \ {draw.point}}))
  OBVIOUS
<1>7. u = [after EXCEPT !.step = @ + 1, !.uses = uses, !.improvements = improvements,
                        !.credit = credit, !.valid = valid, !.duplicates = duplicates,
                        !.novelty = novelty]
  BY <1>1, <1>2, <1>3, <1>4, <1>5, <1>6, Zenon DEF Counted
<1>8. /\ SearchShaped(u) /\ u.setup = after.setup /\ u.step = after.step + 1
      /\ u.population = after.population /\ u.archive = after.archive
      /\ u.best = after.best /\ u.curve = after.curve
      /\ u.uses = uses /\ u.credit = credit
  BY <1>7 DEF SearchShaped, SearchSnapshot
<1>. QED BY <1>1, <1>3, <1>8 DEF Credits

\* The quality-diversity of an archive over records.
QdOf(l, archive, population) ==
    LET worth == [i \in DOMAIN archive |-> Normal(l, population[archive[i].record].score)]
    IN  Min({1000, (1000 * SumFunction(worth)) \div l.ideal})

LEMMA QdIs == ASSUME NEW t PROVE Qd(t) = QdOf(t.setup.land, t.archive, t.population)
BY Zenon DEF Qd, QdOf

LEMMA StepFields ==
    ASSUME NEW t, SearchShaped(t), NEW draw, NEW u, u = SearchStepOf(t, draw)
    PROVE  /\ SearchShaped(u) /\ u.step = t.step + 1
           /\ Written(t, SearchRecord(t, draw), u)
           /\ \E c : /\ u.curve = Append(t.curve, c)
                     /\ c.best = Normal(u.setup.land, BestScore(u)) /\ c.qd = Qd(u)
           /\ \E after :
                 /\ after.population = u.population /\ after.curve = u.curve
                 /\ after.uses = t.uses /\ after.credit = t.credit
                 /\ Credits(t, draw, after, u)
<1>1. PICK record : record = SearchRecord(t, draw)
  OBVIOUS
<1>2. PICK a : a = Added(t, record)
  OBVIOUS
<1>3. PICK b : b = [a EXCEPT !.cost = @ + OperatorCost[draw.op]]
  OBVIOUS
<1>4. PICK after : after = WithCurve(b)
  OBVIOUS
<1>5. u = Counted(t, draw, after)
  BY <1>1, <1>2, <1>3, <1>4, Zenon DEF SearchStepOf
<1>6. /\ SearchShaped(a) /\ a.step = t.step /\ a.curve = t.curve
      /\ a.uses = t.uses /\ a.credit = t.credit /\ Written(t, record, a)
  BY <1>2, AddedFields
<1>7. /\ SearchShaped(b) /\ b.step = a.step /\ b.curve = a.curve /\ b.setup = a.setup
      /\ b.uses = a.uses /\ b.credit = a.credit /\ b.population = a.population
      /\ b.archive = a.archive /\ b.best = a.best
  BY <1>3, <1>6 DEF SearchShaped, SearchSnapshot
<1>8. /\ SearchShaped(after) /\ after.setup = b.setup /\ after.step = b.step
      /\ after.population = b.population /\ after.archive = b.archive /\ after.best = b.best
      /\ after.uses = b.uses /\ after.credit = b.credit
      /\ \E c : /\ after.curve = Append(b.curve, c)
                /\ c.best = Normal(b.setup.land, BestScore(b)) /\ c.qd = Qd(b)
  BY <1>4, <1>7, CurveFields
<1>9. /\ SearchShaped(u) /\ u.setup = after.setup /\ u.step = after.step + 1
      /\ u.population = after.population /\ u.archive = after.archive
      /\ u.best = after.best /\ u.curve = after.curve
      /\ Credits(t, draw, after, u)
  BY <1>5, <1>8, CountedFields
<1>10. Written(t, record, u)
  BY <1>6, <1>7, <1>8, <1>9 DEF Written
<1>11. BestScore(u) = BestScore(b)
  BY <1>7, <1>8, <1>9, Zenon DEF BestScore
<1>12. Qd(u) = Qd(b)
  <2>1. Qd(u) = QdOf(u.setup.land, u.archive, u.population)
    BY QdIs
  <2>2. Qd(b) = QdOf(b.setup.land, b.archive, b.population)
    BY QdIs
  <2>. QED BY <1>8, <1>9, <2>1, <2>2, Zenon
<1>13. PICK c : /\ u.curve = Append(t.curve, c)
                /\ c.best = Normal(u.setup.land, BestScore(u)) /\ c.qd = Qd(u)
  <2>1. b.curve = t.curve /\ u.curve = after.curve /\ u.setup = b.setup
    BY <1>6, <1>7, <1>8, <1>9, Zenon
  <2>2. PICK c : /\ after.curve = Append(b.curve, c)
                 /\ c.best = Normal(b.setup.land, BestScore(b)) /\ c.qd = Qd(b)
    BY <1>8
  <2>3. u.curve = Append(t.curve, c) /\ c.best = Normal(u.setup.land, BestScore(u)) /\ c.qd = Qd(u)
    BY <1>11, <1>12, <2>1, <2>2, Zenon
  <2>. QED BY <2>3
<1>14. after.uses = t.uses /\ after.credit = t.credit
  BY <1>6, <1>7, <1>8, Zenon
<1>16. u.step = t.step + 1
  BY <1>6, <1>7, <1>8, <1>9
<1>. QED BY <1>1, <1>9, <1>10, <1>13, <1>14, <1>16

-----------------------------------------------------------------------------
(* Each part of the books is kept by a step.                                 *)

\* u is t with one record more.
OneMore(t, record, u) ==
    /\ t.step \in Nat /\ u.step = t.step + 1
    /\ u.setup = t.setup
    /\ IsSeq(u.population) /\ Len(u.population) = u.step + 1
    /\ \A i \in 1 .. t.step + 1 : u.population[i] = t.population[i]
    /\ u.population[u.step + 1] = record
    /\ \A i \in 1 .. u.step + 1 : i \in 1 .. t.step + 1 \/ i = u.step + 1

LEMMA WrittenIs ==
    ASSUME NEW t, Records(t), NEW record, NEW u, Written(t, record, u), u.step = t.step + 1
    PROVE  OneMore(t, record, u)
<1>1. t.step \in Nat /\ IsSeq(t.population) /\ Len(t.population) = t.step + 1
  BY DEF Records
<1>2. u.setup = t.setup /\ u.population = Append(t.population, record)
  BY DEF Written
<1>3. Longer(u.population, t.population, record)
  BY <1>1, <1>2, Appended
<1>4. u.step = t.step + 1
  OBVIOUS
<1>5. \A i \in 1 .. u.step + 1 : i \in 1 .. t.step + 1 \/ i = u.step + 1
  BY <1>1
<1>. QED BY <1>1, <1>2, <1>3, <1>4, <1>5 DEF OneMore, Longer

LEMMA RecordsKept ==
    ASSUME NEW t, Records(t), NEW record, NEW u, Written(t, record, u), u.step = t.step + 1,
           record.point \in PointsIn(t.setup.land),
           record.score = PointScore(t.setup.land, record.point), record.number = t.step
    PROVE  Records(u)
<1>1. OneMore(t, record, u)
  BY WrittenIs
<1>2. t.step \in Nat /\ u.step \in Nat /\ u.step = t.step + 1 /\ u.setup = t.setup
      /\ IsSeq(u.population) /\ Len(u.population) = u.step + 1
  BY <1>1 DEF OneMore
<1>3. u.best \in 1 .. u.step + 1
  <2>1. u.best = t.best \/ u.best = Len(t.population) + 1
    BY DEF Written
  <2>2. t.best \in 1 .. t.step + 1 /\ Len(t.population) = t.step + 1
    BY DEF Records
  <2>. QED BY <1>2, <2>1, <2>2
<1>4. ASSUME NEW i \in 1 .. u.step + 1
      PROVE  /\ u.population[i].point \in PointsIn(u.setup.land)
             /\ u.population[i].score = PointScore(u.setup.land, u.population[i].point)
             /\ u.population[i].number = IF i = 1 THEN 0 ELSE i - 2
  <2>1. CASE i \in 1 .. t.step + 1
    <3>1. u.population[i] = t.population[i]
      BY <1>1, <2>1 DEF OneMore
    <3>. QED BY <1>2, <2>1, <3>1 DEF Records
  <2>2. CASE i = u.step + 1
    <3>1. u.population[i] = record
      BY <1>1, <2>2 DEF OneMore
    <3>2. i # 1 /\ i - 2 = t.step
      BY <1>2, <2>2
    <3>. QED BY <1>2, <3>1, <3>2
  <2>. QED BY <1>1, <2>1, <2>2 DEF OneMore
<1>. QED BY <1>2, <1>3, <1>4 DEF Records

\* The last record of a number: the seed's is the first proposal's.
LEMMA DepthIs ==
    ASSUME NEW t, Records(t), NEW p \in 1 .. t.step + 1
    PROVE  LET q == IF t.step = 0 THEN 1 ELSE IF p <= 2 THEN 2 ELSE p
           IN  Depth(t, t.population[p].number) = t.population[q].depth
<1>1. PICK n \in Nat : n = t.step
  BY DEF Records
<1>2. DOMAIN t.population = 1 .. n + 1
  BY <1>1, SeqIs DEF Records
<1>3. PICK q \in 1 .. n + 1 : q = IF n = 0 THEN 1 ELSE IF p <= 2 THEN 2 ELSE p
  BY <1>1
<1>4. PICK number \in Nat : number = t.population[p].number /\ number = IF p = 1 THEN 0 ELSE p - 2
  BY <1>1 DEF Records
<1>5. PICK held : held = {i \in 1 .. n + 1 : t.population[i].number = number}
  OBVIOUS
<1>6. ASSUME NEW i \in 1 .. n + 1
      PROVE  i \in held <=> (IF i = 1 THEN 0 ELSE i - 2) = number
  BY <1>1, <1>5 DEF Records
<1>7. q \in held
  BY <1>1, <1>3, <1>4, <1>6
<1>8. ASSUME NEW i \in held PROVE q >= i
  <2>1. i \in 1 .. n + 1 /\ (IF i = 1 THEN 0 ELSE i - 2) = number
    BY <1>5, <1>6, <1>8
  <2>. QED BY <1>1, <1>3, <1>4, <2>1
<1>9. held \subseteq Nat
  BY <1>5
<1>10. Max(held) = q
  BY <1>7, <1>8, <1>9, MaxIs
<1>11. held # {}
  BY <1>7
<1>12. Depth(t, number) = t.population[q].depth
  BY <1>2, <1>5, <1>10, <1>11 DEF Depth
<1>. QED BY <1>1, <1>3, <1>4, <1>12

Near(K, d, g, D, G) ==
    /\ IsFiniteSet(K) /\ K # {} /\ d \in [K -> Int] /\ g \in [K -> Int]
    /\ \A k \in K : d[k] - g[k] \in {0, 1}
    /\ D = {d[k] : k \in K} /\ G = {g[k] : k \in K}

\* Two greatest numbers are as near as the numbers are.
LEMMA NearMax ==
    ASSUME NEW K, NEW d, NEW g, NEW D, NEW G, Near(K, d, g, D, G)
    PROVE  /\ Max(D) \in Int /\ Max(G) \in Int /\ Max(D) \in D /\ Max(G) \in G
           /\ Max(D) - Max(G) \in {0, 1}
<1>0. /\ IsFiniteSet(K) /\ K # {} /\ d \in [K -> Int] /\ g \in [K -> Int]
      /\ \A k \in K : d[k] - g[k] \in {0, 1}
  BY DEF Near
<1>1. D = {d[k] : k \in K} /\ G = {g[k] : k \in K}
  BY DEF Near
<1>2. IsFiniteSet(D) /\ IsFiniteSet(G)
  <2>1. DOMAIN d = K /\ d = [k \in K |-> d[k]] /\ DOMAIN g = K /\ g = [k \in K |-> g[k]]
    BY <1>0
  <2>2. \A f : DOMAIN f = K /\ f = [k \in K |-> f[k]] => IsFiniteSet({f[k] : k \in K})
    BY <1>0, ImageFinite
  <2>. QED BY <1>1, <2>1, <2>2
<1>3. D \subseteq Int /\ D # {} /\ G \subseteq Int /\ G # {}
  BY <1>0, <1>1
<1>4. /\ Max(D) \in D /\ Max(D) \in Int /\ \A y \in D : Max(D) >= y
      /\ Max(G) \in G /\ Max(G) \in Int /\ \A y \in G : Max(G) >= y
  BY <1>2, <1>3, FiniteMax
<1>5. PICK a, b \in Int : a = Max(D) /\ b = Max(G)
  BY <1>4
<1>6. PICK i \in K : d[i] = a
  BY <1>1, <1>4, <1>5
<1>7. PICK j \in K : g[j] = b
  BY <1>1, <1>4, <1>5
<1>8. d[i] >= d[j] /\ g[j] >= g[i]
  BY <1>0, <1>1, <1>4, <1>5, <1>6, <1>7
<1>9. d[i] - g[i] \in {0, 1} /\ d[j] - g[j] \in {0, 1} /\ d[i] \in Int /\ d[j] \in Int
      /\ g[i] \in Int /\ g[j] \in Int
  BY <1>0
<1>10. a - b \in {0, 1}
  BY <1>6, <1>7, <1>8, <1>9
<1>. QED BY <1>1, <1>4, <1>5, <1>10

-----------------------------------------------------------------------------
(* Generations: how many proposals lie between a record and the seed.        *)

\* What a generation says of a record.
AtGeneration(gen, record, value) ==
    \E set : /\ set = {gen[record.parents[k]] : k \in DOMAIN record.parents}
            /\ value = IF record.parents = <<>> THEN 0 ELSE 1 + Max(set)

LEMMA GenerationAt ==
    ASSUME NEW gen, NEW population, IsGeneration(gen, population), NEW i \in DOMAIN population
    PROVE  AtGeneration(gen, population[i], gen[i])
<1>1. gen[i] = IF population[i].parents = <<>> THEN 0
               ELSE 1 + Max({gen[population[i].parents[k]] : k \in DOMAIN population[i].parents})
  BY Zenon DEF IsGeneration
<1>. QED BY <1>1, Zenon DEF AtGeneration

LEMMA DescentKept ==
    ASSUME NEW t, Records(t), Descent(t), NEW record, NEW u, OneMore(t, record, u),
           NEW par, IsSeq(par), Places(t, par), record.parents = par,
           record.depth = Max({Depth(t, t.population[par[k]].number) : k \in DOMAIN par}) + 1
    PROVE  Descent(u)
<1>1. PICK n \in Nat : n = t.step /\ u.step = n + 1
  BY DEF OneMore
<1>2. /\ DOMAIN u.population = 1 .. n + 2 /\ DOMAIN t.population = 1 .. n + 1
      /\ \A i \in 1 .. n + 1 : u.population[i] = t.population[i]
      /\ u.population[n + 2] = record
  <2>1. IsSeq(u.population) /\ Len(u.population) = n + 2
    BY <1>1 DEF OneMore
  <2>2. IsSeq(t.population) /\ Len(t.population) = n + 1
    BY <1>1 DEF Records
  <2>3. n + 1 + 1 = n + 2
    OBVIOUS
  <2>. QED BY <1>1, <2>1, <2>2, <2>3, SeqIs DEF OneMore
<1>3. PICK gen : /\ IsGeneration(gen, t.population)
                 /\ \A i \in 1 .. n + 1 :
                       gen[i] \in Nat /\ t.population[i].depth - gen[i] \in {0, 1}
  BY <1>1 DEF Descent
<1>4. \A i \in 1 .. n + 1 : t.population[i].depth \in Nat
  BY <1>1 DEF Descent
<1>5. PICK K : K = DOMAIN par
  OBVIOUS
<1>6. IsFiniteSet(K) /\ K # {} /\ \A k \in K : par[k] \in 1 .. n + 1
  <2>1. K = 1 .. Len(par) /\ Len(par) \in Nat
    BY <1>5, SeqIs
  <2>2. IsFiniteSet(1 .. Len(par))
    <3>1. PICK m \in Int : m = Len(par)
      BY <2>1
    <3>2. IsFiniteSet(1 .. m)
      BY FS_Interval
    <3>. QED BY <3>1, <3>2
  <2>. QED BY <1>1, <1>5, <2>1, <2>2 DEF Places
<1>7. PICK d, g : /\ d = [k \in K |-> Depth(t, t.population[par[k]].number)]
                  /\ g = [k \in K |-> gen[par[k]]]
  OBVIOUS
<1>8. ASSUME NEW k \in K
      PROVE  /\ d[k] \in Nat /\ g[k] \in Nat /\ d[k] - g[k] \in {0, 1}
             /\ n = 0 => d[k] = 0
  <2>1. PICK p \in 1 .. n + 1 : p = par[k]
    BY <1>6
  <2>2. PICK q \in 1 .. n + 1 : q = IF n = 0 THEN 1 ELSE IF p <= 2 THEN 2 ELSE p
    OBVIOUS
  <2>3. d[k] = t.population[q].depth /\ g[k] = gen[p]
    BY <1>1, <1>7, <2>1, <2>2, DepthIs
  <2>4. t.population[1].depth = 0 /\ (n >= 1 => t.population[2].depth = 1)
    BY <1>1 DEF Descent
  <2>5. gen[1] = 0
    <3>1. 1 \in 1 .. n + 1
      OBVIOUS
    <3>2. PICK a \in Nat : a = gen[1] /\ 0 - a \in {0, 1}
      BY <1>3, <2>4, <3>1
    <3>. QED BY <3>2
  <2>6. CASE q = p
    <3>1. gen[p] \in Nat /\ t.population[p].depth - gen[p] \in {0, 1} /\ t.population[p].depth \in Nat
      BY <1>3, <1>4
    <3>2. n = 0 => p = 1
      BY <2>2, <2>6
    <3>. QED BY <2>3, <2>4, <2>6, <3>1, <3>2
  <2>7. CASE q # p
    <3>1. p = 1 /\ q = 2 /\ n >= 1
      BY <2>2, <2>7
    <3>2. d[k] = 1 /\ g[k] = 0
      BY <2>3, <2>4, <2>5, <3>1
    <3>. QED BY <3>1, <3>2
  <2>. QED BY <2>6, <2>7
<1>9. PICK D, G : D = {d[k] : k \in K} /\ G = {g[k] : k \in K}
  OBVIOUS
<1>10. /\ Max(D) \in D /\ Max(G) \in G /\ Max(D) \in Int /\ Max(G) \in Int
       /\ Max(D) - Max(G) \in {0, 1}
  <2>1. d \in [K -> Int] /\ g \in [K -> Int] /\ \A k \in K : d[k] - g[k] \in {0, 1}
    BY <1>7, <1>8
  <2>2. Near(K, d, g, D, G)
    BY <1>6, <1>9, <2>1 DEF Near
  <2>. QED BY <2>2, NearMax
<1>11. PICK a, b \in Nat : a = Max(D) /\ b = Max(G) /\ a - b \in {0, 1} /\ (n = 0 => a = 0)
  <2>1. \A x \in D : x \in Nat /\ (n = 0 => x = 0)
    BY <1>8, <1>9
  <2>2. \A x \in G : x \in Nat
    BY <1>8, <1>9
  <2>. QED BY <1>10, <2>1, <2>2
<1>12. record.depth = a + 1 /\ record.depth \in Nat
  <2>1. D = {Depth(t, t.population[par[k]].number) : k \in DOMAIN par}
    BY <1>5, <1>7, <1>9
  <2>. QED BY <1>11, <2>1
<1>13. PICK h : h = [i \in 1 .. n + 2 |-> IF i = n + 2 THEN 1 + b ELSE gen[i]]
  OBVIOUS
<1>14. (\A i \in 1 .. n + 1 : h[i] = gen[i]) /\ h[n + 2] = 1 + b
  BY <1>13
<1>15. ASSUME NEW i \in 1 .. n + 2
       PROVE  AtGeneration(h, u.population[i], h[i])
  <2>1. CASE i = n + 2
    <3>1. u.population[i].parents = par
      BY <1>2, <2>1
    <3>2. par # <<>>
      BY <1>5, <1>6
    <3>3. {h[par[k]] : k \in DOMAIN par} = G
      BY <1>5, <1>6, <1>7, <1>9, <1>14
    <3>4. h[i] = 1 + Max(G)
      BY <1>11, <1>14, <2>1
    <3>. QED BY <3>1, <3>2, <3>3, <3>4, Zenon DEF AtGeneration
  <2>2. CASE i # n + 2
    <3>0. i \in 1 .. n + 1
      BY <2>2
    <3>1. PICK r : r = t.population[i]
      OBVIOUS
    <3>2. u.population[i] = r
      BY <1>2, <3>0, <3>1
    <3>7. PICK z : z = r.parents
      OBVIOUS
    <3>3. AtGeneration(gen, r, gen[i])
      BY <1>2, <1>3, <3>0, <3>1, GenerationAt
    <3>4. \A k \in DOMAIN z : z[k] \in 1 .. i - 1
      BY <1>1, <3>0, <3>1, <3>7 DEF Descent
    <3>5. \A k \in DOMAIN z : h[z[k]] = gen[z[k]]
      BY <1>14, <3>0, <3>4
    <3>6. {h[z[k]] : k \in DOMAIN z} = {gen[z[k]] : k \in DOMAIN z}
      BY <3>5
    <3>8. PICK set : /\ set = {gen[z[k]] : k \in DOMAIN z}
                     /\ gen[i] = IF z = <<>> THEN 0 ELSE 1 + Max(set)
      BY <3>3, <3>7, Zenon DEF AtGeneration
    <3>9. set = {h[z[k]] : k \in DOMAIN z}
      BY <3>6, <3>8, Zenon
    <3>10. h[i] = IF z = <<>> THEN 0 ELSE 1 + Max(set)
      BY <1>14, <3>0, <3>8
    <3>. QED BY <3>2, <3>7, <3>9, <3>10, Zenon DEF AtGeneration
  <2>. QED BY <2>1, <2>2
<1>16. IsGeneration(h, u.population)
  <2>1. h = [i \in 1 .. n + 2 |-> h[i]]
    BY <1>13
  <2>3. \A i \in 1 .. n + 2 :
           h[i] = IF u.population[i].parents = <<>> THEN 0
                  ELSE 1 + Max({h[u.population[i].parents[k]] :
                                  k \in DOMAIN u.population[i].parents})
    BY <1>15, Zenon DEF AtGeneration
  <2>2. h = [i \in 1 .. n + 2 |->
                IF u.population[i].parents = <<>> THEN 0
                ELSE 1 + Max({h[u.population[i].parents[k]] :
                                k \in DOMAIN u.population[i].parents})]
    BY <2>1, <2>3, Zenon
  <2>. QED BY <1>2, <2>2, Zenon DEF IsGeneration
<1>17. ASSUME NEW i \in 1 .. n + 2
       PROVE  /\ h[i] \in Nat /\ u.population[i].depth \in Nat
              /\ u.population[i].depth - h[i] \in {0, 1}
              /\ IsSeq(u.population[i].parents)
              /\ \A k \in DOMAIN u.population[i].parents : u.population[i].parents[k] \in 1 .. i - 1
  <2>1. CASE i = n + 2
    <3>1. u.population[i] = record /\ h[i] = 1 + b
      BY <1>2, <1>14, <2>1
    <3>2. (a + 1) - (1 + b) \in {0, 1}
      BY <1>11
    <3>3. \A k \in DOMAIN par : par[k] \in 1 .. i - 1
      BY <1>5, <1>6, <2>1
    <3>. QED BY <1>11, <1>12, <3>1, <3>2, <3>3
  <2>2. CASE i # n + 2
    <3>0. i \in 1 .. n + 1
      BY <2>2
    <3>1. u.population[i] = t.population[i] /\ h[i] = gen[i]
      BY <1>2, <1>14, <3>0
    <3>. QED BY <1>1, <1>3, <1>4, <3>0, <3>1 DEF Descent
  <2>. QED BY <2>1, <2>2
<1>18. u.population[1].parents = <<>> /\ u.population[1].depth = 0
  <2>1. 1 \in 1 .. n + 1
    OBVIOUS
  <2>. QED BY <1>2, <2>1 DEF Descent
<1>19. u.population[2].depth = 1
  <2>1. CASE n = 0
    BY <1>2, <1>11, <1>12, <2>1
  <2>2. CASE n # 0
    <3>1. 2 \in 1 .. n + 1 /\ n >= 1
      BY <2>2
    <3>. QED BY <1>1, <1>2, <3>1 DEF Descent
  <2>. QED BY <2>1, <2>2
<1>20. u.step + 1 = n + 2
  BY <1>1
<1>. QED BY <1>16, <1>17, <1>18, <1>19, <1>20 DEF Descent

\* There is one generation to a record.
LEMMA OneGeneration ==
    ASSUME NEW t, Records(t), Descent(t), NEW g, IsGeneration(g, t.population),
           NEW h, IsGeneration(h, t.population)
    PROVE  g = h
<1>1. PICK n \in Nat : n = t.step + 1
  BY DEF Records
<1>2. DOMAIN t.population = 1 .. n
  BY <1>1, SeqIs DEF Records
<1>3. PICK B : B = {i \in 1 .. n : g[i] # h[i]}
  OBVIOUS
<1>4. ASSUME B # {} PROVE FALSE
  <2>1. PICK i \in B : \A j \in B : i <= j
    <3>1. B \subseteq Nat
      BY <1>3
    <3>. QED BY <1>4, <3>1, LeastIs
  <2>2. i \in 1 .. n /\ g[i] # h[i]
    BY <1>3, <2>1
  <2>3. PICK z : z = t.population[i].parents
    OBVIOUS
  <2>4. \A k \in DOMAIN z : z[k] \in 1 .. i - 1
    BY <1>1, <2>2, <2>3 DEF Descent
  <2>5. \A k \in DOMAIN z : g[z[k]] = h[z[k]]
    BY <1>3, <2>1, <2>2, <2>4
  <2>6. {g[z[k]] : k \in DOMAIN z} = {h[z[k]] : k \in DOMAIN z}
    BY <2>5
  <2>7. AtGeneration(g, t.population[i], g[i]) /\ AtGeneration(h, t.population[i], h[i])
    BY <1>2, <2>2, GenerationAt
  <2>8. PICK x : /\ x = {g[z[k]] : k \in DOMAIN z}
                 /\ g[i] = IF z = <<>> THEN 0 ELSE 1 + Max(x)
    BY <2>3, <2>7, Zenon DEF AtGeneration
  <2>9. PICK y : /\ y = {h[z[k]] : k \in DOMAIN z}
                 /\ h[i] = IF z = <<>> THEN 0 ELSE 1 + Max(y)
    BY <2>3, <2>7, Zenon DEF AtGeneration
  <2>10. x = y
    BY <2>6, <2>8, <2>9, Zenon
  <2>11. g[i] = h[i]
    <3>1. CASE z = <<>>
      BY <2>8, <2>9, <3>1
    <3>2. CASE z # <<>>
      <4>1. g[i] = 1 + Max(x)
        BY <2>8, <3>2
      <4>2. h[i] = 1 + Max(y)
        BY <2>9, <3>2
      <4>. QED BY <2>10, <4>1, <4>2
    <3>. QED BY <3>1, <3>2
  <2>. QED BY <2>2, <2>11
<1>5. \A i \in 1 .. n : g[i] = h[i]
  BY <1>3, <1>4
<1>6. g = [i \in 1 .. n |-> g[i]] /\ h = [i \in 1 .. n |-> h[i]]
  BY <1>2 DEF IsGeneration
<1>. QED BY <1>5, <1>6

LEMMA DepthsFit ==
    ASSUME NEW t, Records(t), Descent(t)
    PROVE  LET gen == Generation(t.population)
           IN  \A i \in DOMAIN t.population : t.population[i].depth - gen[i] \in {0, 1}
<1>1. PICK g : /\ IsGeneration(g, t.population)
               /\ \A i \in 1 .. t.step + 1 : t.population[i].depth - g[i] \in {0, 1}
  BY DEF Descent
<1>2. Generation(t.population) = CHOOSE h : IsGeneration(h, t.population)
  BY Zenon DEF Generation, IsGeneration
<1>3. IsGeneration(Generation(t.population), t.population)
  BY <1>1, <1>2
<1>4. Generation(t.population) = g
  BY <1>1, <1>3, OneGeneration
<1>5. DOMAIN t.population = 1 .. t.step + 1
  BY SeqIs DEF Records
<1>. QED BY <1>1, <1>4, <1>5

-----------------------------------------------------------------------------
(* The archive keeps the first of the best of every niche.                   *)

Scored(t) == \A i \in 1 .. t.step + 1 : t.population[i].score \in Int

\* What the archive says of the records that were there.
LEMMA EntryStays ==
    ASSUME NEW t, NEW record, NEW u, OneMore(t, record, u), NEW k, Entry(t, k),
           u.archive[k] = t.archive[k]
    PROVE  Entry(u, k) /\ \A i \in 1 .. t.step + 1 : Kept(t, k, i) => Kept(u, k, i)
<1>1. PICK r \in 1 .. t.step + 1 : r = t.archive[k].record /\ r \in 1 .. u.step + 1
  BY DEF Entry, OneMore
<1>2. u.population[r] = t.population[r] /\ u.setup = t.setup
  BY <1>1 DEF OneMore
<1>3. Entry(u, k)
  BY <1>1, <1>2 DEF Entry
<1>4. ASSUME NEW i \in 1 .. t.step + 1, Kept(t, k, i) PROVE Kept(u, k, i)
  <2>1. u.population[i] = t.population[i]
    BY DEF OneMore
  <2>. QED BY <1>1, <1>2, <1>4, <2>1 DEF Kept
<1>. QED BY <1>3, <1>4

\* A record in the archive.
Enters(t, record, u, k) ==
    /\ u.archive[k].key = ArchiveKey(t.setup, record.point)
    /\ u.archive[k].record = u.step + 1

LEMMA EntryEnters ==
    ASSUME NEW t, NEW record, NEW u, OneMore(t, record, u), NEW k, Enters(t, record, u, k),
           record.score # MinusInfinity
    PROVE  Entry(u, k) /\ Kept(u, k, u.step + 1)
<1>1. u.population[u.step + 1] = record /\ u.setup = t.setup /\ u.step + 1 \in 1 .. u.step + 1
      /\ u.step + 1 <= u.step + 1
  BY DEF OneMore
<1>. QED BY <1>1 DEF Entry, Kept, Enters

LEMMA UnchangedKept ==
    ASSUME NEW t, Archived(t), NEW record, NEW u, OneMore(t, record, u),
           record.score = MinusInfinity, u.archive = t.archive
    PROVE  Archived(u)
<1>1. \A k \in DOMAIN t.archive :
         Entry(u, k) /\ \A i \in 1 .. t.step + 1 : Kept(t, k, i) => Kept(u, k, i)
  BY EntryStays DEF Archived
<1>2. ASSUME NEW i \in 1 .. u.step + 1, u.population[i].score # MinusInfinity
      PROVE  \E k \in DOMAIN u.archive : Kept(u, k, i)
  <2>1. i \in 1 .. t.step + 1 /\ u.population[i] = t.population[i]
    BY <1>2 DEF OneMore
  <2>2. PICK k \in DOMAIN t.archive : Kept(t, k, i)
    BY <1>2, <2>1 DEF Archived
  <2>. QED BY <1>1, <2>1, <2>2
<1>. QED BY <1>1, <1>2 DEF Archived

LEMMA AppendedKept ==
    ASSUME NEW t, Archived(t), NEW record, NEW u, OneMore(t, record, u),
           record.score # MinusInfinity, NEW e,
           e = [key |-> ArchiveKey(t.setup, record.point), record |-> u.step + 1],
           \A k \in DOMAIN t.archive : t.archive[k].key # e.key,
           u.archive = Append(t.archive, e)
    PROVE  Archived(u)
<1>1. IsSeq(t.archive)
  BY DEF Archived
<1>2. PICK n \in Nat : n = Len(t.archive) /\ DOMAIN t.archive = 1 .. n
  BY <1>1, SeqIs
<1>3. Longer(u.archive, t.archive, e)
  BY <1>1, Appended
<1>4. IsSeq(u.archive) /\ DOMAIN u.archive = 1 .. n + 1
      /\ (\A k \in 1 .. n : u.archive[k] = t.archive[k]) /\ u.archive[n + 1] = e
  <2>1. IsSeq(u.archive) /\ Len(u.archive) = n + 1
    BY <1>2, <1>3 DEF Longer
  <2>. QED BY <1>2, <1>3, <2>1, SeqIs DEF Longer
<1>5. Enters(t, record, u, n + 1)
  BY <1>4 DEF Enters
<1>6. Entry(u, n + 1) /\ Kept(u, n + 1, u.step + 1)
  BY <1>5, EntryEnters
<1>7. \A k \in 1 .. n :
         Entry(u, k) /\ \A i \in 1 .. t.step + 1 : Kept(t, k, i) => Kept(u, k, i)
  BY <1>2, <1>4, EntryStays DEF Archived
<1>8. \A k \in 1 .. n + 1 : k \in 1 .. n \/ k = n + 1
  BY <1>2
<1>9. ASSUME NEW k \in 1 .. n + 1, NEW j \in 1 .. n + 1, u.archive[k].key = u.archive[j].key
      PROVE  k = j
  <2>1. CASE k \in 1 .. n /\ j \in 1 .. n
    BY <1>2, <1>4, <1>9, <2>1 DEF Archived
  <2>2. CASE k \in 1 .. n /\ j = n + 1
    BY <1>2, <1>4, <1>9, <2>2
  <2>3. CASE k = n + 1 /\ j \in 1 .. n
    BY <1>2, <1>4, <1>9, <2>3
  <2>. QED BY <1>8, <2>1, <2>2, <2>3
<1>10. ASSUME NEW i \in 1 .. u.step + 1, u.population[i].score # MinusInfinity
       PROVE  \E k \in 1 .. n + 1 : Kept(u, k, i)
  <2>1. CASE i \in 1 .. t.step + 1
    <3>1. u.population[i] = t.population[i]
      BY <2>1 DEF OneMore
    <3>2. PICK k \in 1 .. n : Kept(t, k, i)
      BY <1>2, <1>10, <2>1, <3>1 DEF Archived
    <3>. QED BY <1>7, <2>1, <3>2
  <2>2. CASE i = u.step + 1
    BY <1>2, <1>6, <2>2
  <2>. QED BY <2>1, <2>2 DEF OneMore
<1>. QED BY <1>4, <1>6, <1>7, <1>8, <1>9, <1>10 DEF Archived

Replaced(t, record, u, k) ==
    IF /\ t.archive[k].key = ArchiveKey(t.setup, record.point)
       /\ record.score > t.population[t.archive[k].record].score
    THEN Enters(t, record, u, k) ELSE u.archive[k] = t.archive[k]

LEMMA ReplacedKept ==
    ASSUME NEW t, Archived(t), Scored(t), NEW record, NEW u, OneMore(t, record, u),
           record.score # MinusInfinity, record.score \in Int,
           IsSeq(u.archive), DOMAIN u.archive = DOMAIN t.archive,
           \A k \in DOMAIN t.archive : Replaced(t, record, u, k),
           \E k \in DOMAIN t.archive : t.archive[k].key = ArchiveKey(t.setup, record.point)
    PROVE  Archived(u)
<1>0. PICK key : key = ArchiveKey(t.setup, record.point)
  OBVIOUS
<1>1. \A k \in DOMAIN t.archive : u.archive[k].key = t.archive[k].key
  BY DEF Replaced, Enters
<1>2. \A k \in DOMAIN t.archive : Entry(t, k)
  BY DEF Archived
<1>3. \A i \in 1 .. t.step + 1 : u.population[i] = t.population[i] /\ t.population[i].score \in Int
  BY DEF OneMore, Scored
<1>4. u.population[u.step + 1] = record /\ u.setup = t.setup
  BY DEF OneMore
<1>5. ASSUME NEW k \in DOMAIN t.archive PROVE Entry(u, k)
  <2>1. CASE u.archive[k] = t.archive[k]
    BY <1>2, <2>1, EntryStays
  <2>2. CASE Enters(t, record, u, k)
    BY <2>2, EntryEnters
  <2>. QED BY <2>1, <2>2 DEF Replaced
<1>6. ASSUME NEW k \in DOMAIN t.archive, NEW i \in 1 .. t.step + 1, Kept(t, k, i)
      PROVE  Kept(u, k, i)
  <2>1. CASE u.archive[k] = t.archive[k]
    BY <1>2, <1>6, <2>1, EntryStays
  <2>2. CASE Enters(t, record, u, k) /\ record.score > t.population[t.archive[k].record].score
    <3>1. PICK a, b \in Int : a = t.population[t.archive[k].record].score /\ b = t.population[i].score
      BY <1>2, <1>3 DEF Entry
    <3>2. b <= a
      BY <1>6, <3>1 DEF Kept
    <3>3. record.score > b
      BY <2>2, <3>1, <3>2
    <3>4. u.population[u.archive[k].record].score = record.score /\ u.population[i].score = b
      BY <1>3, <1>4, <2>2, <3>1 DEF Enters
    <3>5. u.archive[k].key = ArchiveKey(u.setup, u.population[i].point)
      BY <1>1, <1>3, <1>4, <1>6 DEF Kept
    <3>. QED BY <3>3, <3>4, <3>5 DEF Kept
  <2>. QED BY <2>1, <2>2 DEF Replaced
<1>7. \E k \in DOMAIN t.archive : Kept(u, k, u.step + 1)
  <2>1. PICK k \in DOMAIN t.archive : t.archive[k].key = key
    BY <1>0
  <2>2. CASE Enters(t, record, u, k)
    BY <2>2, EntryEnters
  <2>3. CASE u.archive[k] = t.archive[k] /\ ~ (record.score > t.population[t.archive[k].record].score)
    <3>1. PICK r \in 1 .. t.step + 1 : r = t.archive[k].record
      BY <1>2 DEF Entry
    <3>2. PICK a \in Int : a = t.population[r].score
      BY <1>3
    <3>3. a >= record.score
      BY <2>3, <3>1, <3>2
    <3>4. u.archive[k].record = r /\ u.population[r].score = a
      BY <1>3, <2>3, <3>1, <3>2
    <3>5. r <= u.step + 1
      BY DEF OneMore
    <3>6. u.archive[k].key = ArchiveKey(u.setup, u.population[u.step + 1].point)
      BY <1>0, <1>4, <2>1, <2>3
    <3>. QED BY <1>4, <3>3, <3>4, <3>5, <3>6 DEF Kept
  <2>. QED BY <1>0, <2>1, <2>2, <2>3 DEF Replaced
<1>8. ASSUME NEW i \in 1 .. u.step + 1, u.population[i].score # MinusInfinity
      PROVE  \E k \in DOMAIN u.archive : Kept(u, k, i)
  <2>1. CASE i \in 1 .. t.step + 1
    <3>1. PICK k \in DOMAIN t.archive : Kept(t, k, i)
      BY <1>3, <1>8, <2>1 DEF Archived
    <3>. QED BY <1>6, <2>1, <3>1
  <2>2. CASE i = u.step + 1
    BY <1>7, <2>2
  <2>. QED BY <2>1, <2>2 DEF OneMore
<1>9. \A k, j \in DOMAIN u.archive : u.archive[k].key = u.archive[j].key => k = j
  BY <1>1 DEF Archived
<1>. QED BY <1>5, <1>8, <1>9 DEF Archived

LEMMA ArchivedKept ==
    ASSUME NEW t, Archived(t), Scored(t), Records(t), NEW record, record.score \in Int,
           NEW u, Written(t, record, u), OneMore(t, record, u)
    PROVE  Archived(u)
<1>1. PICK e : e = [key |-> ArchiveKey(t.setup, record.point), record |-> u.step + 1]
  OBVIOUS
<1>2. Len(t.population) + 1 = u.step + 1
  BY DEF Records, OneMore
<1>3. u.archive =
        IF record.score = MinusInfinity THEN t.archive
        ELSE IF Holding(t, e.key) = {} THEN Append(t.archive, e)
        ELSE [i \in DOMAIN t.archive |->
                IF /\ i \in Holding(t, e.key)
                   /\ record.score > t.population[t.archive[i].record].score
                THEN e ELSE t.archive[i]]
  <2>1. PICK key : key = ArchiveKey(t.setup, record.point)
    OBVIOUS
  <2>2. e = [key |-> key, record |-> Len(t.population) + 1] /\ e.key = key
    BY <1>1, <1>2, <2>1
  <2>. QED BY <2>1, <2>2 DEF Written, NextArchive
<1>4. CASE record.score = MinusInfinity
  BY <1>3, <1>4, UnchangedKept
<1>5. CASE record.score # MinusInfinity /\ Holding(t, e.key) = {}
  <2>1. u.archive = Append(t.archive, e)
    BY <1>3, <1>5
  <2>2. \A k \in DOMAIN t.archive : t.archive[k].key # e.key
    BY <1>5 DEF Holding
  <2>. QED BY <1>1, <1>5, <2>1, <2>2, AppendedKept
<1>6. CASE record.score # MinusInfinity /\ Holding(t, e.key) # {}
  <2>1. u.archive = [i \in DOMAIN t.archive |->
                IF /\ i \in Holding(t, e.key)
                   /\ record.score > t.population[t.archive[i].record].score
                THEN e ELSE t.archive[i]]
    BY <1>3, <1>6
  <2>2. DOMAIN u.archive = DOMAIN t.archive
    BY <2>1
  <2>3. PICK key : key = ArchiveKey(t.setup, record.point) /\ e.key = key /\ e.record = u.step + 1
    BY <1>1
  <2>4. ASSUME NEW k \in DOMAIN t.archive PROVE Replaced(t, record, u, k)
    <3>1. u.archive[k] = IF /\ t.archive[k].key = key
                            /\ record.score > t.population[t.archive[k].record].score
                         THEN e ELSE t.archive[k]
      BY <2>1, <2>3 DEF Holding
    <3>. QED BY <2>3, <3>1 DEF Replaced, Enters
  <2>5. \E k \in DOMAIN t.archive : t.archive[k].key = key
    BY <1>6, <2>3 DEF Holding
  <2>6. IsSeq(u.archive)
    <3>1. IsSeq(t.archive)
      BY DEF Archived
    <3>2. PICK n \in Nat : DOMAIN t.archive = 1 .. n
      BY <3>1, SeqIs
    <3>3. PICK A : \A k \in 1 .. n : t.archive[k] \in A
      <4>1. \A k \in 1 .. n : t.archive[k] \in {t.archive[j] : j \in 1 .. n}
        OBVIOUS
      <4>. QED BY <4>1
    <3>4. u.archive \in [1 .. n -> A \cup {e}]
      BY <2>1, <3>2, <3>3
    <3>5. u.archive \in Seq(A \cup {e})
      BY <3>4
    <3>. QED BY <3>5 DEF IsSeq
  <2>. QED BY <1>6, <2>2, <2>3, <2>4, <2>5, <2>6, ReplacedKept
<1>. QED BY <1>4, <1>5, <1>6

-----------------------------------------------------------------------------
(* What the books say of the properties, and the credit of a step.           *)

LEMMA FirstBestHeld ==
    ASSUME Records(trial), Archived(trial)
    PROVE  ArchiveHoldsFirstBest
<1> SUFFICES ASSUME NEW i \in DOMAIN trial.population, NEW r, r = trial.population[i],
                    NEW Entries,
                    Entries = {trial.archive[k].record :
                        k \in {m \in DOMAIN trial.archive :
                                 trial.archive[m].key = ArchiveKey(trial.setup, r.point)}},
                    r.score # MinusInfinity
             PROVE  /\ Cardinality(Entries) = 1
                    /\ \A e \in Entries : \/ trial.population[e].score > r.score
                                          \/ trial.population[e].score = r.score /\ e <= i
  BY Zenon DEF ArchiveHoldsFirstBest
<1>1. i \in 1 .. trial.step + 1
  BY SeqIs DEF Records
<1>2. PICK k \in DOMAIN trial.archive : Kept(trial, k, i)
  BY <1>1 DEF Archived
<1>3. trial.archive[k].key = ArchiveKey(trial.setup, r.point)
  BY <1>2 DEF Kept
<1>4. PICK e : e = trial.archive[k].record
  OBVIOUS
<1>5. Entries = {e}
  <2>1. \A m \in DOMAIN trial.archive :
            trial.archive[m].key = ArchiveKey(trial.setup, r.point) => m = k
    BY <1>3 DEF Archived
  <2>. QED BY <1>3, <1>4, <2>1
<1>6. Cardinality(Entries) = 1
  BY <1>5, FS_Singleton
<1>. QED BY <1>2, <1>4, <1>5, <1>6 DEF Kept

LEMMA DepthHeld ==
    ASSUME Records(trial), Descent(trial)
    PROVE  DepthWithinOne
BY DepthsFit DEF DepthWithinOne

\* A sum of nothing.
LEMMA SumZero ==
    ASSUME NEW S, IsFiniteSet(S), NEW f, f = [x \in S |-> 0]
    PROVE  SumFunction(f) = 0
<1> DEFINE Bad == {r \in SUBSET S : Over(f, r) # 0}
<1>1. ASSUME Bad # {} PROVE FALSE
  <2>1. PICK b \in Bad : \A c \in Bad : ~ (c \subseteq b /\ c # b)
    <3>1. Bad \subseteq SUBSET S
      OBVIOUS
    <3> HIDE DEF Bad
    <3>. QED BY <1>1, <3>1, LeastSet
  <2>2. b \subseteq S /\ Over(f, b) # 0 /\ IsFiniteSet(b)
    BY <2>1, FS_Subset
  <2>3. b # {} /\ Over(f, b) = f[FirstOf(b)] + Over(f, RestOf(b))
    BY <2>2, OverFirst
  <2>4. FirstOf(b) \in b /\ RestOf(b) \subseteq b /\ RestOf(b) # b
    BY <2>3, FirstIn
  <2>5. RestOf(b) \notin Bad
    BY <2>1, <2>4
  <2>6. Over(f, RestOf(b)) = 0
    BY <2>2, <2>4, <2>5
  <2>. QED BY <2>2, <2>3, <2>4, <2>6
<1>2. Over(f, S) = 0
  BY <1>1
<1>3. SumFunction(f) = Over(f, S)
  <2>1. DOMAIN f = S
    OBVIOUS
  <2>. QED BY <2>1, Zenon DEF SumFunction, Over
<1>. QED BY <1>2, <1>3
-----------------------------------------------------------------------------
(* Credit.                                                                   *)

Numbers(a, b, m) == a \in Int /\ b \in Int /\ m \in Int
Weighed(s) == s.mode \in Modes /\ s.weight \in {0, 250, 500}

LEMMA GainAdds ==
    ASSUME NEW s, Weighed(s), NEW a, NEW b, NEW m, Numbers(a, b, m),
           NEW c, NEW d, NEW n, Numbers(c, d, n)
    PROVE  /\ Gain(s, a, b, m) \in Int /\ Gain(s, c, d, n) \in Int
           /\ Gain(s, a + c, b + d, m + n) = Gain(s, a, b, m) + Gain(s, c, d, n)
<1>0. /\ s.mode \in Modes /\ s.weight \in {0, 250, 500} /\ a \in Int /\ b \in Int /\ m \in Int
      /\ c \in Int /\ d \in Int /\ n \in Int
  BY DEF Numbers, Weighed
<1>1. CASE s.mode = "novelty"
  <2>1. \A x, y, z : Gain(s, x, y, z) = x + s.weight * z
    BY <1>1 DEF Gain
  <2>2. CASE s.weight = 0
    <3>1. 0 * m = 0 /\ 0 * n = 0 /\ 0 * (m + n) = 0
      BY <1>0
    <3>. QED BY <1>0, <2>1, <2>2, <3>1
  <2>3. CASE s.weight = 250
    BY <1>0, <2>1, <2>3
  <2>4. CASE s.weight = 500
    BY <1>0, <2>1, <2>4
  <2>. QED BY <1>0, <2>2, <2>3, <2>4
<1>2. CASE s.mode = "cost_best_only"
  <2>1. \A x, y, z : Gain(s, x, y, z) = 2 * x
    BY <1>2 DEF Gain
  <2>. QED BY <1>0, <2>1
<1>3. CASE s.mode = "primary"
  <2>1. \A x, y, z : Gain(s, x, y, z) = x + y
    BY <1>3 DEF Gain
  <2>. QED BY <1>0, <2>1
<1>4. CASE s.mode = "none"
  <2>1. \A x, y, z : Gain(s, x, y, z) = 0
    BY <1>4 DEF Gain
  <2>. QED BY <1>0, <2>1
<1>. QED BY <1>0, <1>1, <1>2, <1>3, <1>4 DEF Modes

\* Whether a record opens a niche, and what that makes of the niches found.
Opening(t, record) ==
    IF record.score # MinusInfinity /\ CreditKey(t.setup, record.point) \notin Found(t)
    THEN 1 ELSE 0

LEMMA FoundFinite ==
    ASSUME NEW t, t.step \in Nat
    PROVE  IsFiniteSet(Found(t)) /\ Cardinality(Found(t)) \in Nat
<1>1. PICK n \in Int : n = t.step + 1
  OBVIOUS
<1>2. PICK V : V = ValidAt(t)
  OBVIOUS
<1>3. IsFiniteSet(1 .. n)
  BY FS_Interval
<1>4. V \subseteq 1 .. n
  BY <1>1, <1>2 DEF ValidAt
<1>5. IsFiniteSet(V)
  BY <1>3, <1>4, FS_Subset
<1>6. PICK f : f = [i \in V |-> CreditKey(t.setup, t.population[i].point)]
  OBVIOUS
<1>7. DOMAIN f = V /\ f = [i \in V |-> f[i]]
  BY <1>6
<1>8. IsFiniteSet({f[i] : i \in V})
  BY <1>5, <1>7, ImageFinite
<1>9. Found(t) = {f[i] : i \in V}
  BY <1>2, <1>6 DEF Found
<1>. QED BY <1>8, <1>9, FS_CardinalityType

LEMMA FoundMore ==
    ASSUME NEW t, t.step \in Nat, NEW record, NEW u, OneMore(t, record, u)
    PROVE  Cardinality(Found(u)) = Cardinality(Found(t)) + Opening(t, record)
<1>1. PICK key : key = CreditKey(t.setup, record.point)
  OBVIOUS
<1>2. \A i \in 1 .. t.step + 1 : u.population[i] = t.population[i] /\ i \in 1 .. u.step + 1
  BY DEF OneMore
<1>3. u.population[u.step + 1] = record /\ u.setup = t.setup /\ u.step + 1 \in 1 .. u.step + 1
      /\ \A i \in 1 .. u.step + 1 : i \in 1 .. t.step + 1 \/ i = u.step + 1
  BY DEF OneMore
<1>4. \A x : x \in Found(u) <=> x \in Found(t) \/ (record.score # MinusInfinity /\ x = key)
  <2>1. ASSUME NEW x \in Found(u)
        PROVE  x \in Found(t) \/ (record.score # MinusInfinity /\ x = key)
    <3>1. PICK i \in ValidAt(u) : x = CreditKey(u.setup, u.population[i].point)
      BY <2>1 DEF Found
    <3>2. i \in 1 .. u.step + 1 /\ u.population[i].score # MinusInfinity
      BY <3>1 DEF ValidAt
    <3>3. CASE i \in 1 .. t.step + 1
      <4>1. i \in ValidAt(t)
        BY <1>2, <3>2, <3>3 DEF ValidAt
      <4>2. x = CreditKey(t.setup, t.population[i].point)
        BY <1>2, <1>3, <3>1, <3>3
      <4>. QED BY <4>1, <4>2 DEF Found
    <3>4. CASE i = u.step + 1
      BY <1>1, <1>3, <3>1, <3>2, <3>4
    <3>. QED BY <1>3, <3>2, <3>3, <3>4
  <2>2. ASSUME NEW x \in Found(t) PROVE x \in Found(u)
    <3>1. PICK i \in ValidAt(t) : x = CreditKey(t.setup, t.population[i].point)
      BY <2>2 DEF Found
    <3>2. i \in ValidAt(u) /\ x = CreditKey(u.setup, u.population[i].point)
      BY <1>2, <1>3, <3>1 DEF ValidAt
    <3>. QED BY <3>2 DEF Found
  <2>3. ASSUME record.score # MinusInfinity PROVE key \in Found(u)
    <3>1. u.step + 1 \in ValidAt(u)
      BY <1>3, <2>3 DEF ValidAt
    <3>2. key = CreditKey(u.setup, u.population[u.step + 1].point)
      BY <1>1, <1>3
    <3>. QED BY <3>1, <3>2 DEF Found
  <2>. QED BY <2>1, <2>2, <2>3
<1>5. CASE record.score # MinusInfinity /\ key \notin Found(t)
  <2>1. PICK F, G : F = Found(t) /\ G = Found(u)
    OBVIOUS
  <2>2. G = F \cup {key} /\ key \notin F
    BY <1>4, <1>5, <2>1
  <2>3. IsFiniteSet(F)
    BY <2>1, FoundFinite
  <2>4. Cardinality(G) = Cardinality(F) + 1
    BY <2>2, <2>3, FS_AddElement
  <2>. QED BY <1>1, <1>5, <2>1, <2>4 DEF Opening
<1>6. CASE ~ (record.score # MinusInfinity /\ key \notin Found(t))
  <2>1. Found(u) = Found(t)
    BY <1>4, <1>6
  <2>2. Cardinality(Found(t)) \in Nat
    BY FoundFinite
  <2>. QED BY <1>1, <1>6, <2>1, <2>2 DEF Opening
<1>. QED BY <1>5, <1>6

\* after is t with u's records, and its curve went from c to d.
After(t, u, after, c, d) ==
    /\ after.population = u.population /\ Last(after.curve) = d /\ Last(t.curve) = c
    /\ c.best \in Int /\ d.best \in Int /\ c.qd \in Int /\ d.qd \in Int

Rewarded(t, record, c, d, reward) ==
    reward = Gain(t.setup, d.best - c.best, d.qd - c.qd, Opening(t, record))

\* What a step credits its operator with.
LEMMA RewardIs ==
    ASSUME NEW t, t.setup \in Setups, t.step \in Nat, Records(t),
           NEW record, NEW u, OneMore(t, record, u),
           NEW after, NEW c, NEW d, NEW op, After(t, u, after, c, d)
    PROVE  Rewarded(t, record, c, d, Reward(t, after, op))
<1> SUFFICES Reward(t, after, op) =
                Gain(t.setup, d.best - c.best, d.qd - c.qd, Opening(t, record))
  BY DEF Rewarded
<1> DEFINE new == Last(after.population)
           KeyOf(p) == IF t.setup.land.study = "ar0" THEN ArchiveKey(t.setup, p)
                       ELSE NicheOf(t.setup.land, p)
           isNew == /\ new.score # MinusInfinity
                    /\ \A i \in DOMAIN t.population :
                          t.population[i].score = MinusInfinity
                          \/ KeyOf(t.population[i].point) # KeyOf(new.point)
           bestDelta == Last(after.curve).best - Last(t.curve).best
           qdDelta == Last(after.curve).qd - Last(t.curve).qd
<1>1. Reward(t, after, op) =
        CASE t.setup.mode = "novelty" -> bestDelta + (IF isNew THEN t.setup.weight ELSE 0)
          [] t.setup.mode = "cost_best_only" -> 2 * bestDelta
          [] t.setup.mode = "primary" -> bestDelta + qdDelta
          [] t.setup.mode = "none" -> 0
  BY Zenon DEF Reward
<1>13. c.best \in Int /\ d.best \in Int /\ c.qd \in Int /\ d.qd \in Int
  BY DEF After
<1>2. bestDelta = d.best - c.best /\ qdDelta = d.qd - c.qd
  BY DEF After
<1>3. new = record
  BY DEF Last, OneMore, After
<1>4. \A p : KeyOf(p) = CreditKey(t.setup, p)
  BY DEF CreditKey
<1>5. DOMAIN t.population = 1 .. t.step + 1
  BY SeqIs DEF Records
<1> HIDE DEF KeyOf, new
<1>6. isNew <=> record.score # MinusInfinity /\ CreditKey(t.setup, record.point) \notin Found(t)
  BY <1>3, <1>4, <1>5 DEF Found, ValidAt
<1>7. PICK w : w = (IF isNew THEN t.setup.weight ELSE 0)
  OBVIOUS
<1>8. w = t.setup.weight * Opening(t, record)
  <2>1. t.setup.weight \in {0, 250, 500}
    BY SetupIs
  <2>. QED BY <1>6, <1>7, <2>1 DEF Opening
<1> HIDE DEF bestDelta, qdDelta, isNew
<1>9. CASE t.setup.mode = "novelty"
  BY <1>1, <1>2, <1>13, <1>7, <1>8, <1>9 DEF Gain
<1>10. CASE t.setup.mode = "cost_best_only"
  BY <1>1, <1>2, <1>13, <1>10 DEF Gain
<1>11. CASE t.setup.mode = "primary"
  BY <1>1, <1>2, <1>13, <1>11 DEF Gain
<1>12. CASE t.setup.mode = "none"
  BY <1>1, <1>12 DEF Gain
<1>. QED BY <1>9, <1>10, <1>11, <1>12, SetupIs DEF Modes

-----------------------------------------------------------------------------
(* The curve and the counters are kept.                                      *)

LEMMA ScoreOf ==
    ASSUME NEW t, t.setup \in Setups, NEW p \in PointsIn(t.setup.land)
    PROVE  PointScore(t.setup.land, p) \in Int
<1>1. PICK l : l = t.setup.land
  OBVIOUS
<1>2. PICK n : Land(l, n) /\ PointsIn(l) = PointsOf(n)
  BY <1>1, LandOf
<1>3. PICK q \in PointsOf(n) : q = p
  BY <1>1, <1>2
<1>4. IF FeasibleFn(l, q) THEN PointScore(l, q) \in Nat ELSE PointScore(l, q) = -1
  BY <1>2, ScoreType
<1>. QED BY <1>1, <1>3, <1>4

LEMMA ScoresAre ==
    ASSUME NEW t, t.setup \in Setups, Records(t)
    PROVE  Scored(t) /\ BestScore(t) \in Int
<1>1. ASSUME NEW i \in 1 .. t.step + 1 PROVE t.population[i].score \in Int
  <2>1. PICK p \in PointsIn(t.setup.land) :
            p = t.population[i].point /\ t.population[i].score = PointScore(t.setup.land, p)
    BY DEF Records
  <2>. QED BY <2>1, ScoreOf
<1>2. t.best \in 1 .. t.step + 1 /\ t.best # 0
  BY DEF Records
<1>. QED BY <1>1, <1>2 DEF Scored, BestScore

\* What a step adds to the curve are numbers.
LEMMA CurveType ==
    ASSUME NEW t, t.setup \in Setups, Records(t), Archived(t)
    PROVE  Normal(t.setup.land, BestScore(t)) \in Int /\ Qd(t) \in Int
<1> DEFINE worth == [i \in DOMAIN t.archive |->
                        Normal(t.setup.land, t.population[t.archive[i].record].score)]
           sum == SumFunction(worth)
           a == (1000 * sum) \div t.setup.land.ideal
<1>12. Qd(t) = Min({1000, a})
  BY Zenon DEF Qd
<1>14. a = (1000 * sum) \div t.setup.land.ideal
  OBVIOUS
<1> HIDE DEF a
<1>15. sum = SumFunction(worth)
  OBVIOUS
<1> HIDE DEF sum
<1>7. worth = [i \in DOMAIN t.archive |->
                  Normal(t.setup.land, t.population[t.archive[i].record].score)]
  OBVIOUS
<1> HIDE DEF worth
<1>1. PICK l : l = t.setup.land
  OBVIOUS
<1>2. Rising(l) /\ l.ideal \in Nat /\ l.ideal > 0
  BY <1>1, LandOf
<1>3. Scored(t) /\ BestScore(t) \in Int
  BY ScoresAre
<1>4. Normal(l, BestScore(t)) \in Int
  BY <1>2, <1>3, NormalType
<1>5. IsSeq(t.archive)
  BY DEF Archived
<1>6. PICK m \in Nat : DOMAIN t.archive = 1 .. m
  BY <1>5, SeqIs
<1>8. ASSUME NEW i \in 1 .. m PROVE worth[i] \in Nat
  <2>1. PICK score \in Int : score = t.population[t.archive[i].record].score
    BY <1>3, <1>6 DEF Archived, Entry, Scored
  <2>2. worth[i] = Normal(l, score)
    BY <1>1, <1>6, <1>7, <2>1
  <2>. QED BY <1>2, <2>2, NormalType
<1>9. worth \in [1 .. m -> Nat]
  <2>1. worth = [i \in 1 .. m |-> worth[i]]
    BY <1>6, <1>7
  <2>. QED BY <1>8, <2>1
<1>10. sum \in Nat
  <2>1. m \in Int /\ 1 \in Int
    OBVIOUS
  <2>2. IsFiniteSet(1 .. m)
    BY <2>1, FS_Interval
  <2>. QED BY <1>9, <1>15, <2>2, SumType
<1>11. a \in Int
  <2>1. PICK b \in Int : b = 1000 * sum
    BY <1>10
  <2>2. b \div l.ideal \in Int
    BY <1>2, <2>1, Quotient
  <2>. QED BY <1>1, <1>14, <2>1, <2>2
<1>13. Qd(t) \in Int
  BY <1>11, <1>12, TwoMin
<1>. QED BY <1>1, <1>4, <1>13

\* The curve and the credit, a step on.
LEMMA EarnedKept ==
    ASSUME NEW t, t.setup \in Setups, Records(t), Earned(t),
           NEW record, NEW u, OneMore(t, record, u),
           NEW c, u.curve = Append(t.curve, c), c.best \in Int, c.qd \in Int,
           NEW after, after.population = u.population, after.curve = u.curve,
           after.uses = t.uses, after.credit = t.credit,
           NEW draw, draw.op \in FourOperators, Credits(t, draw, after, u)
    PROVE  Earned(u)
<1>1. PICK n \in Nat : n = t.step /\ u.step = n + 1
  BY DEF OneMore
<1>2. /\ IsSeq(t.curve) /\ Len(t.curve) = n + 1
      /\ \A i \in 1 .. n + 1 : t.curve[i].best \in Int /\ t.curve[i].qd \in Int
  BY <1>1 DEF Earned
<1>3. Longer(u.curve, t.curve, c)
  BY <1>2, Appended
<1>4. /\ IsSeq(u.curve) /\ Len(u.curve) = n + 2
      /\ \A i \in 1 .. n + 1 : u.curve[i] = t.curve[i]
      /\ u.curve[n + 2] = c
  <2>1. n + 1 + 1 = n + 2
    OBVIOUS
  <2>. QED BY <1>2, <1>3, <2>1 DEF Longer
<1>5. ASSUME NEW i \in 1 .. n + 2 PROVE u.curve[i].best \in Int /\ u.curve[i].qd \in Int
  <2>1. i \in 1 .. n + 1 \/ i = n + 2
    OBVIOUS
  <2>. QED BY <1>2, <1>4, <2>1
<1>6. PICK a, b : a = t.curve[1] /\ b = t.curve[n + 1]
  OBVIOUS
<1>7. /\ a.best \in Int /\ a.qd \in Int /\ b.best \in Int /\ b.qd \in Int /\ u.curve[1] = a
  <2>1. 1 \in 1 .. n + 1 /\ n + 1 \in 1 .. n + 1
    OBVIOUS
  <2>. QED BY <1>2, <1>4, <1>6, <2>1
<1>8. Last(after.curve) = c /\ Last(t.curve) = b
  BY <1>2, <1>4, <1>6 DEF Last
<1>9. PICK k : k = Opening(t, record)
  OBVIOUS
<1>10. k \in Int /\ Cardinality(Found(u)) = Cardinality(Found(t)) + k /\ Cardinality(Found(t)) \in Nat
  <2>1. Cardinality(Found(u)) = Cardinality(Found(t)) + k
    BY <1>1, <1>9, FoundMore
  <2>2. Cardinality(Found(t)) \in Nat
    BY <1>1, FoundFinite
  <2>. QED BY <1>9, <2>1, <2>2 DEF Opening
<1>11. PICK r : r = Reward(t, after, draw.op)
  OBVIOUS
<1>12. r = Gain(t.setup, c.best - b.best, c.qd - b.qd, k)
  <2>1. t.step \in Nat
    BY <1>1
  <2>2. After(t, u, after, b, c)
    BY <1>7, <1>8 DEF After
  <2>. QED BY <1>9, <1>11, <2>1, <2>2, RewardIs DEF Rewarded
<1>13. PICK f \in Nat : f = Cardinality(Found(t))
  BY <1>10
<1>26. PICK a1, a2, b1, b2, c1, c2 : /\ a1 = a.best /\ a2 = a.qd /\ b1 = b.best
                                     /\ b2 = b.qd /\ c1 = c.best /\ c2 = c.qd
  OBVIOUS
<1>27. a1 \in Int /\ a2 \in Int /\ b1 \in Int /\ b2 \in Int /\ c1 \in Int /\ c2 \in Int
  BY <1>7, <1>26
<1>14. PICK x, y, z, v : /\ x = b1 - a1 /\ y = b2 - a2 /\ z = c1 - b1 /\ v = c2 - b2
  OBVIOUS
<1>28. x \in Int /\ y \in Int /\ z \in Int /\ v \in Int /\ c1 - a1 = x + z /\ c2 - a2 = y + v
  BY <1>14, <1>27
<1>15. Gained(t) = Gain(t.setup, x, y, f - 1)
  BY <1>1, <1>6, <1>13, <1>14, <1>26 DEF Gained
<1>16. Gained(u) = Gain(t.setup, x + z, y + v, (f - 1) + k)
  <2>1. u.step + 1 = n + 2 /\ u.setup = t.setup
    BY <1>1 DEF OneMore
  <2>2. c.best - a.best = x + z /\ c.qd - a.qd = y + v
    BY <1>26, <1>28
  <2>3. Cardinality(Found(u)) - 1 = (f - 1) + k
    BY <1>10, <1>13
  <2>. QED BY <1>4, <1>7, <2>1, <2>2, <2>3 DEF Gained
<1>17. Gained(t) \in Int /\ r \in Int /\ Gained(u) = Gained(t) + r
  <2>1. Weighed(t.setup)
    BY SetupIs DEF Weighed
  <2>2. PICK w : w = f - 1 /\ w \in Int
    OBVIOUS
  <2>3. r = Gain(t.setup, z, v, k)
    BY <1>12, <1>14, <1>26
  <2>4. /\ Gain(t.setup, x, y, w) \in Int /\ Gain(t.setup, z, v, k) \in Int
        /\ Gain(t.setup, x + z, y + v, w + k) = Gain(t.setup, x, y, w) + Gain(t.setup, z, v, k)
    <3>1. Numbers(x, y, w) /\ Numbers(z, v, k)
      BY <1>10, <1>28, <2>2 DEF Numbers
    <3>. QED BY <2>1, <3>1, GainAdds
  <2>. QED BY <1>15, <1>16, <2>2, <2>3, <2>4
<1>18. PICK e : e = IF t.setup.inverted THEN -r ELSE r
  OBVIOUS
<1>19. e \in Int
  BY <1>17, <1>18
<1>20. u.credit = [t.credit EXCEPT ![draw.op] = @ + e]
  BY <1>11, <1>18 DEF Credits
<1>21. t.credit \in [FourOperators -> Int] /\ IsFiniteSet(FourOperators)
  BY OperatorsAre DEF Earned
<1>22. /\ u.credit \in [FourOperators -> Int] /\ SumFunction(t.credit) \in Int
       /\ SumFunction(u.credit) = SumFunction(t.credit) + e
  <2>1. Bumped(FourOperators, t.credit, draw.op, e, u.credit)
    BY <1>19, <1>20, <1>21 DEF Bumped
  <2>. QED BY <2>1, SumChanged
<1>23. SumFunction(u.credit) = IF u.setup.inverted THEN -Gained(u) ELSE Gained(u)
  <2>1. u.setup = t.setup
    BY DEF OneMore
  <2>2. SumFunction(t.credit) = IF t.setup.inverted THEN -Gained(t) ELSE Gained(t)
    BY DEF Earned
  <2>3. CASE t.setup.inverted
    BY <1>17, <1>18, <1>22, <2>1, <2>2, <2>3
  <2>4. CASE ~t.setup.inverted
    BY <1>17, <1>18, <1>22, <2>1, <2>2, <2>4
  <2>. QED BY <2>3, <2>4
<1>24. u.uses \in [FourOperators -> Nat] /\ SumFunction(u.uses) = u.step
  <2>1. t.uses \in [FourOperators -> Nat] /\ SumFunction(t.uses) = n
    BY <1>1 DEF Earned
  <2>2. u.uses = [t.uses EXCEPT ![draw.op] = @ + 1]
    BY DEF Credits
  <2>3. t.uses \in [FourOperators -> Int] /\ 1 \in Int
    BY <2>1
  <2>4. SumFunction(u.uses) = SumFunction(t.uses) + 1
    <3>1. Bumped(FourOperators, t.uses, draw.op, 1, u.uses)
      BY <1>21, <2>2, <2>3 DEF Bumped
    <3>. QED BY <3>1, SumChanged
  <2>5. u.uses \in [FourOperators -> Nat]
    BY <2>1, <2>2
  <2>. QED BY <1>1, <2>1, <2>4, <2>5
<1>25. u.step + 1 = n + 2
  BY <1>1
<1>. QED BY <1>4, <1>5, <1>22, <1>23, <1>24, <1>25 DEF Earned

-----------------------------------------------------------------------------
(* A step keeps the books, and they are right from the start.                *)

LEMMA CreditHeld ==
    ASSUME trial.setup \in Setups, Records(trial), Earned(trial)
    PROVE  CreditTelescopes
<1> DEFINE s == trial.setup
           valid == {r \in Range(trial.population) : r.score # MinusInfinity}
           keys == {IF s.land.study = "ar0" THEN ArchiveKey(s, r.point)
                    ELSE NicheOf(s.land, r.point) : r \in valid}
           best == Last(trial.curve).best - Head(trial.curve).best
           qd == Last(trial.curve).qd - Head(trial.curve).qd
           gained == CASE s.mode = "novelty" -> best + s.weight * (Cardinality(keys) - 1)
                       [] s.mode = "cost_best_only" -> 2 * best
                       [] s.mode = "primary" -> best + qd
                       [] s.mode = "none" -> 0
<1>1. SUFFICES SumFunction(trial.credit) = IF s.inverted THEN -gained ELSE gained
  BY Zenon DEF CreditTelescopes
<1>2. PICK n \in Nat : n = trial.step
  BY DEF Records
<1>3. DOMAIN trial.population = 1 .. n + 1
  BY <1>2, SeqIs DEF Records
<1>4. keys = Found(trial)
  <2>1. \A x : x \in valid <=> \E i \in 1 .. n + 1 :
            x = trial.population[i] /\ trial.population[i].score # MinusInfinity
    BY <1>3 DEF Range
  <2>2. \A p : CreditKey(s, p) = IF s.land.study = "ar0" THEN ArchiveKey(s, p) ELSE NicheOf(s.land, p)
    BY DEF CreditKey
  <2> HIDE DEF valid
  <2>3. \A x : x \in keys <=> \E r \in valid : x = CreditKey(s, r.point)
    BY <2>2
  <2>4. \A x : x \in Found(trial) <=> \E i \in 1 .. n + 1 :
            trial.population[i].score # MinusInfinity /\ x = CreditKey(s, trial.population[i].point)
    BY <1>2 DEF Found, ValidAt
  <2> HIDE DEF keys, s
  <2>5. \A x : x \in keys <=> x \in Found(trial)
    BY <2>1, <2>3, <2>4, Zenon
  <2>. QED BY <2>5
<1>5. PICK a, b : a = trial.curve[1] /\ b = trial.curve[n + 1]
  OBVIOUS
<1>6. Last(trial.curve) = b /\ Head(trial.curve) = a
  <2>1. IsSeq(trial.curve) /\ Len(trial.curve) = n + 1
    BY <1>2 DEF Earned
  <2>2. PICK S : trial.curve \in Seq(S)
    BY <2>1 DEF IsSeq
  <2>. QED BY <1>5, <2>1, <2>2 DEF Last
<1>7. best = b.best - a.best /\ qd = b.qd - a.qd
  BY <1>6
<1>8. gained = Gain(s, best, qd, Cardinality(keys) - 1)
  BY Zenon DEF Gain
<1>9. Gained(trial) = Gain(s, b.best - a.best, b.qd - a.qd, Cardinality(Found(trial)) - 1)
  BY <1>2, <1>5 DEF Gained
<1>10. gained = Gained(trial)
  BY <1>4, <1>7, <1>8, <1>9, Zenon
<1>. QED BY <1>10, Zenon DEF Earned

\* A search trial keeps its books.
LEMMA StepAccounts ==
    ASSUME NEW t, Accounted(t), t.step < StepsOf[t.setup.policy], NEW draw \in Proposals(t),
           NEW u, u = SearchStepOf(t, draw)
    PROVE  Accounted(u)
<1>1. SearchShaped(t) /\ t.setup \in Setups /\ Records(t) /\ Descent(t) /\ Archived(t) /\ Earned(t)
  BY DEF Accounted
<1>2. PICK record : record = SearchRecord(t, draw)
  OBVIOUS
<1>3. PICK par : par = ParentsDrawn(t, draw)
  OBVIOUS
<1>4. draw.op \in FourOperators /\ draw.point \in PointsIn(t.setup.land)
      /\ IsSeq(par) /\ Places(t, par)
  BY <1>1, <1>3, DrawIs
<1>5. /\ record.point = draw.point /\ record.score = PointScore(t.setup.land, draw.point)
      /\ record.depth = Max({Depth(t, t.population[par[k]].number) : k \in DOMAIN par}) + 1
      /\ record.number = t.step /\ record.parents = par
  BY <1>2, <1>3 DEF SearchRecord
<1>6. SearchShaped(u) /\ u.step = t.step + 1 /\ Written(t, record, u)
  BY <1>1, <1>2, StepFields
<1>7. PICK c : u.curve = Append(t.curve, c) /\ c.best = Normal(u.setup.land, BestScore(u)) /\ c.qd = Qd(u)
  BY <1>1, StepFields
<1>8. PICK after : /\ after.population = u.population /\ after.curve = u.curve
                   /\ after.uses = t.uses /\ after.credit = t.credit
                   /\ Credits(t, draw, after, u)
  BY <1>1, StepFields
<1>9. OneMore(t, record, u)
  BY <1>1, <1>6, WrittenIs
<1>10. u.setup = t.setup
  BY <1>9 DEF OneMore
<1>11. Records(u)
  BY <1>1, <1>4, <1>5, <1>6, RecordsKept
<1>12. Descent(u)
  BY <1>1, <1>4, <1>5, <1>9, DescentKept
<1>13. Scored(t) /\ record.score \in Int
  BY <1>1, <1>4, <1>5, ScoresAre, ScoreOf
<1>14. Archived(u)
  BY <1>1, <1>6, <1>9, <1>13, ArchivedKept
<1>15. c.best \in Int /\ c.qd \in Int
  BY <1>1, <1>7, <1>10, <1>11, <1>14, CurveType
<1>16. Earned(u)
  BY <1>1, <1>4, <1>7, <1>8, <1>9, <1>15, EarnedKept
<1>. QED BY <1>1, <1>6, <1>10, <1>11, <1>12, <1>14, <1>16 DEF Accounted

LEMMA OneIs ==
    ASSUME NEW s, NEW e, s = <<e>>
    PROVE  IsSeq(s) /\ Len(s) = 1 /\ DOMAIN s = 1 .. 1 /\ s[1] = e
<1>1. s \in Seq({e})
  OBVIOUS
<1>2. Len(s) = 1 /\ DOMAIN s = 1 .. 1 /\ s[1] = e
  OBVIOUS
<1>. QED BY <1>1, <1>2 DEF IsSeq

LEMMA OnlyOne == ASSUME NEW e, NEW s, s = <<>>, NEW new, new = Append(s, e) PROVE new = <<e>>
OBVIOUS

LEMMA BeginsAccounted ==
    ASSUME NEW s \in Setups, NEW t, t = NewSearch(s)
    PROVE  Accounted(t)
<1>1. PICK zero : zero = [op \in FourOperators |-> 0]
  OBVIOUS
<1>2. PICK l, zeros : l = s.land /\ zeros = Zeros(Len(l.target))
  OBVIOUS
<1>3. PICK seed : seed = [point |-> zeros, score |-> PointScore(l, zeros), depth |-> 0,
                          number |-> 0, op |-> "seed", parents |-> <<>>]
  OBVIOUS
<1>4. PICK base : base =
          [setup |-> s, step |-> 0, population |-> <<>>, archive |-> <<>>, seen |-> {},
           best |-> 0, curve |-> <<>>, cost |-> 0, improvements |-> zero, credit |-> zero,
           uses |-> zero, valid |-> 0, duplicates |-> 0, novelty |-> 0, maxDepth |-> 0]
  OBVIOUS
<1>5. PICK a : a = Added(base, seed)
  OBVIOUS
<1>6. t = WithCurve(a)
  BY <1>1, <1>2, <1>3, <1>4, <1>5, OperatorsAre, Zenon DEF NewSearch
<1>7. SearchShaped(base)
  BY <1>4 DEF SearchShaped, SearchSnapshot
<1>8. /\ SearchShaped(a) /\ a.step = base.step /\ a.curve = base.curve
      /\ a.uses = base.uses /\ a.credit = base.credit /\ Written(base, seed, a)
  BY <1>5, <1>7, AddedFields
<1>9. /\ SearchShaped(t) /\ t.setup = a.setup /\ t.step = a.step
      /\ t.population = a.population /\ t.archive = a.archive /\ t.best = a.best
      /\ t.uses = a.uses /\ t.credit = a.credit
      /\ \E c : /\ t.curve = Append(a.curve, c)
                /\ c.best = Normal(a.setup.land, BestScore(a)) /\ c.qd = Qd(a)
  BY <1>6, <1>8, CurveFields
<1>10. /\ base.setup = s /\ base.step = 0 /\ base.population = <<>> /\ base.archive = <<>>
       /\ base.best = 0 /\ base.curve = <<>> /\ base.uses = zero /\ base.credit = zero
  BY <1>4
<1>11. /\ seed.point = zeros /\ seed.score = PointScore(l, zeros) /\ seed.depth = 0
       /\ seed.number = 0 /\ seed.parents = <<>>
  BY <1>3
<1>12. PICK n : Land(l, n) /\ n \in Nat /\ PointsIn(l) = PointsOf(n)
  <2>1. base.setup \in Setups /\ base.setup.land = l
    BY <1>2, <1>10
  <2>. QED BY <2>1, LandOf
<1>13. zeros \in PointsIn(l) /\ seed.score \in Nat
  <2>1. Len(l.target) = n
    BY <1>12, PointsInIs
  <2>. QED BY <1>2, <1>11, <1>12, <2>1, ZerosScore
<1>14. t.setup = s /\ t.population = <<seed>> /\ t.archive = NextArchive(base, seed) /\ t.best = 1
       /\ t.step = 0 /\ t.uses = zero /\ t.credit = zero
  <2>1. BestScore(base) = -1
    BY <1>10 DEF BestScore, MinusInfinity
  <2>2. Append(<<>>, seed) = <<seed>> /\ Len(<<>>) = 0
    OBVIOUS
  <2>3. t.population = <<seed>> /\ t.archive = NextArchive(base, seed) /\ t.setup = s
    BY <1>8, <1>9, <1>10, <2>2 DEF Written
  <2>4. t.best = 1
    BY <1>8, <1>9, <1>10, <1>13, <2>1, <2>2 DEF Written
  <2>. QED BY <1>8, <1>9, <1>10, <2>3, <2>4
<1>15. /\ IsSeq(t.population) /\ Len(t.population) = 1 /\ DOMAIN t.population = 1 .. 1
       /\ t.population[1] = seed
  BY <1>14, OneIs
<1>16. Records(t)
  <2>1. t.step = 0 /\ t.best = 1 /\ t.setup.land = l
    BY <1>2, <1>14
  <2>2. ASSUME NEW i \in 1 .. t.step + 1
        PROVE  /\ t.population[i].point \in PointsIn(t.setup.land)
               /\ t.population[i].score = PointScore(t.setup.land, t.population[i].point)
               /\ t.population[i].number = IF i = 1 THEN 0 ELSE i - 2
    <3>1. i = 1
      BY <2>1
    <3>. QED BY <1>11, <1>13, <1>15, <2>1, <3>1
  <2>. QED BY <1>15, <2>1, <2>2 DEF Records
<1>17. Descent(t)
  <2>1. PICK gen : gen = [i \in 1 .. 1 |-> 0]
    OBVIOUS
  <2>2. gen[1] = 0
    BY <2>1
  <2>3. gen = [i \in DOMAIN t.population |->
                IF t.population[i].parents = <<>> THEN 0
                ELSE 1 + Max({gen[t.population[i].parents[k]] : k \in DOMAIN t.population[i].parents})]
    <3>1. \A i \in 1 .. 1 : t.population[i].parents = <<>>
      BY <1>11, <1>15
    <3>. QED BY <1>15, <2>1, <3>1
  <2>4. IsGeneration(gen, t.population)
    BY <2>3, Zenon DEF IsGeneration
  <2>5. \A i \in 1 .. t.step + 1 : i = 1
    BY <1>14
  <2>6. t.population[1].parents = <<>> /\ t.population[1].depth = 0
    BY <1>11, <1>15
  <2>7. IsSeq(<<>>)
    BY DEF IsSeq
  <2>8. \A k \in DOMAIN <<>> : FALSE
    OBVIOUS
  <2>. QED BY <1>14, <2>2, <2>4, <2>5, <2>6, <2>7, <2>8 DEF Descent
<1>18. Archived(t)
  <2>1. PICK key : key = ArchiveKey(s, zeros)
    OBVIOUS
  <2>2. PICK e : e = [key |-> key, record |-> 1]
    OBVIOUS
  <2>3. t.archive = <<e>>
    <3>1. Holding(base, key) = {}
      BY <1>10 DEF Holding
    <3>2. seed.score # MinusInfinity
      BY <1>13 DEF MinusInfinity
    <3>3. Len(base.population) + 1 = 1
      BY <1>10
    <3>4. ArchiveKey(base.setup, seed.point) = key
      BY <1>10, <1>11, <2>1
    <3>5. NextArchive(base, seed) = Append(<<>>, e)
      BY <1>10, <2>2, <3>1, <3>2, <3>3, <3>4 DEF NextArchive
    <3>. QED BY <1>14, <3>5
  <2>4. IsSeq(t.archive) /\ DOMAIN t.archive = 1 .. 1 /\ t.archive[1] = e
    BY <2>3, OneIs
  <2>5. e.key = ArchiveKey(t.setup, t.population[1].point) /\ e.record = 1
    BY <1>11, <1>14, <1>15, <2>1, <2>2
  <2>6. 1 \in 1 .. t.step + 1 /\ \A i \in 1 .. t.step + 1 : i = 1
    BY <1>14
  <2>7. t.population[1].score # MinusInfinity
    BY <1>13, <1>15 DEF MinusInfinity
  <2>8. \A k \in DOMAIN t.archive : k = 1
    BY <2>4
  <2>9. Entry(t, 1) /\ Kept(t, 1, 1)
    BY <2>4, <2>5, <2>6, <2>7 DEF Entry, Kept
  <2>10. 1 \in DOMAIN t.archive
    BY <2>4
  <2>11. \A k \in DOMAIN t.archive : Entry(t, k)
    BY <2>8, <2>9
  <2>12. \A i \in 1 .. t.step + 1 :
           t.population[i].score # MinusInfinity => \E k \in DOMAIN t.archive : Kept(t, k, i)
    BY <2>6, <2>9, <2>10
  <2>. QED BY <2>4, <2>8, <2>11, <2>12 DEF Archived
<1>19. PICK c : t.curve = <<c>> /\ c.best \in Int /\ c.qd \in Int
  <2>1. PICK c : /\ t.curve = Append(a.curve, c)
                 /\ c.best = Normal(a.setup.land, BestScore(a)) /\ c.qd = Qd(a)
    BY <1>9
  <2>2. BestScore(t) = BestScore(a)
    BY <1>9, Zenon DEF BestScore
  <2>3. Qd(t) = Qd(a)
    <3>1. Qd(t) = QdOf(t.setup.land, t.archive, t.population)
      BY QdIs
    <3>2. Qd(a) = QdOf(a.setup.land, a.archive, a.population)
      BY QdIs
    <3>. QED BY <1>9, <3>1, <3>2, Zenon
  <2>4. Normal(t.setup.land, BestScore(t)) \in Int /\ Qd(t) \in Int
    <3>1. t.setup \in Setups
      BY <1>14
    <3>. QED BY <1>16, <1>18, <3>1, CurveType
  <2>5. c.best = Normal(t.setup.land, BestScore(t)) /\ c.qd = Qd(t)
    BY <1>9, <2>1, <2>2, <2>3, Zenon
  <2>6. t.curve = <<c>>
    BY <1>8, <1>10, <2>1, OnlyOne
  <2>. QED BY <2>4, <2>5, <2>6
<1>20. Earned(t)
  <2>1. t.uses \in [FourOperators -> Nat] /\ t.credit \in [FourOperators -> Int]
    BY <1>1, <1>14
  <2>2. SumFunction(t.uses) = 0 /\ SumFunction(t.credit) = 0
    BY <1>1, <1>14, OperatorsAre, SumZero
  <2>3. IsSeq(t.curve) /\ Len(t.curve) = 1 /\ t.curve[1] = c
    BY <1>19, OneIs
  <2>4. Cardinality(Found(t)) = 1
    <3>1. t.population[1].score # MinusInfinity
      BY <1>13, <1>15 DEF MinusInfinity
    <3>2. ValidAt(t) = {1}
      BY <1>14, <3>1 DEF ValidAt
    <3>3. Found(t) = {CreditKey(t.setup, t.population[1].point)}
      BY <3>2 DEF Found
    <3>. QED BY <3>3, FS_Singleton
  <2>5. Gained(t) = 0
    <3>1. c.best - c.best = 0 /\ c.qd - c.qd = 0 /\ Cardinality(Found(t)) - 1 = 0 /\ t.step + 1 = 1
      BY <1>14, <1>19, <2>4
    <3>2. Gained(t) = Gain(s, 0, 0, 0)
      BY <1>14, <2>3, <3>1 DEF Gained
    <3>3. s.mode \in Modes /\ s.weight \in {0, 250, 500}
      BY SetupIs
    <3>4. s.weight * 0 = 0
      BY <3>3
    <3>5. Gain(s, 0, 0, 0) = 0
      BY <3>3, <3>4 DEF Gain, Modes
    <3>. QED BY <3>2, <3>5
  <2>6. \A i \in 1 .. t.step + 1 : i = 1
    BY <1>14
  <2>7. \A i \in 1 .. t.step + 1 : t.curve[i].best \in Int /\ t.curve[i].qd \in Int
    BY <1>19, <2>3, <2>6
  <2>8. t.step = 0 /\ Len(t.curve) = t.step + 1
    BY <1>14, <2>3
  <2>9. SumFunction(t.credit) = IF t.setup.inverted THEN -Gained(t) ELSE Gained(t)
    <3>1. PICK g \in Int : g = Gained(t) /\ g = 0 /\ -g = 0
      BY <2>5
    <3>2. CASE t.setup.inverted
      BY <2>2, <3>1, <3>2
    <3>3. CASE ~t.setup.inverted
      BY <2>2, <2>5, <3>3
    <3>. QED BY <3>2, <3>3
  <2>. QED BY <2>1, <2>2, <2>3, <2>7, <2>8, <2>9 DEF Earned
<1>. QED BY <1>9, <1>14, <1>16, <1>17, <1>18, <1>20 DEF Accounted

-----------------------------------------------------------------------------
(* The states a search trial goes through, from its seed to its last step.   *)

SearchPath(states, n) ==
    /\ \A i \in 0 .. n :
          /\ SearchShaped(states[i]) /\ states[i].step = i /\ states[i].setup = states[0].setup
          /\ IsSeq(states[i].population) /\ Len(states[i].population) = i + 1
          /\ IsSeq(states[i].curve) /\ Len(states[i].curve) = i + 1
          /\ Accounted(states[i])
    /\ \A i \in 1 .. n :
          picks[i] \in Proposals(states[i - 1]) /\ states[i] = SearchStepOf(states[i - 1], picks[i])
    /\ \A i \in 0 .. n : \A k \in 1 .. i + 1 :
          /\ states[i].population[k] = states[n].population[k]
          /\ states[i].curve[k] = states[n].curve[k]

SearchCuts(states, n) ==
    LET most == StepsOf[trial.setup.policy]
    IN  /\ trial.setup \in Setups /\ n <= most
        /\ OnPath(states, n, trial) /\ full = states[n]
        /\ n >= Split(trial.setup) => saved = states[Split(trial.setup)]
        /\ IF restores = 0 THEN trial.step = n ELSE n = most

SearchInv ==
    LET n == Len(picks)
    IN  /\ IsSeq(picks) /\ restores \in Nat
        /\ \E states : SearchPath(states, n) /\ SearchCuts(states, n)

LEMMA SearchBegins == SearchInit => SearchInv
<1> SUFFICES ASSUME SearchInit PROVE SearchInv
  OBVIOUS
<1>1. PICK s \in Setups : trial = NewSearch(s)
  BY DEF SearchInit
<1>2. picks = <<>> /\ full = trial /\ restores = 0
  BY DEF SearchInit
<1>3. IsSeq(<<>>) /\ Len(<<>>) = 0
  <2>1. <<>> \in Seq({})
    OBVIOUS
  <2>. QED BY <2>1 DEF IsSeq
<1>4. /\ SearchShaped(trial) /\ trial.setup = s /\ trial.step = 0
      /\ Extends(trial.population, <<>>) /\ Extends(trial.curve, <<>>)
  BY <1>1, NewSearchParts
<1>5. /\ IsSeq(trial.population) /\ Len(trial.population) = 0 + 1
      /\ IsSeq(trial.curve) /\ Len(trial.curve) = 0 + 1
  <2>1. PICK z \in Nat : z = 0
    OBVIOUS
  <2>4. PICK e : e = <<>>
    OBVIOUS
  <2>5. IsSeq(e) /\ Len(e) = z
    BY <1>3, <2>1, <2>4
  <2>2. IsSeq(trial.population) /\ Len(trial.population) = z + 1
    BY <1>4, <2>4, <2>5, ExtendedParts
  <2>3. IsSeq(trial.curve) /\ Len(trial.curve) = z + 1
    BY <1>4, <2>4, <2>5, ExtendedParts
  <2>. QED BY <2>1, <2>2, <2>3
<1>6. PICK states : states = [i \in {0} |-> trial]
  OBVIOUS
<1>7. states[0] = trial
  BY <1>6
<1>10. Accounted(trial)
  BY <1>1, BeginsAccounted
<1>8. SearchPath(states, 0)
  <2>1. (\A i \in 0 .. 0 : i = 0) /\ \A i \in 1 .. 0 : FALSE
    OBVIOUS
  <2>. QED BY <1>4, <1>5, <1>7, <1>10, <2>1 DEF SearchPath
<1>9. SearchCuts(states, 0)
  <2>1. Split(s) \in 1 .. StepsOf[s.policy] /\ StepsOf[s.policy] \in Nat
    BY SplitIs
  <2>. QED BY <1>2, <1>4, <1>7, <2>1 DEF SearchCuts, OnPath
<1>. QED BY <1>2, <1>3, <1>8, <1>9 DEF SearchInv

LEMMA SearchLengthens ==
    ASSUME NEW states, NEW n \in Nat, SearchPath(states, n), IsSeq(picks), n = Len(picks),
           NEW draw \in Proposals(states[n]), NEW u, u = SearchStepOf(states[n], draw),
           Accounted(u), picks' = Append(picks, draw)
    PROVE  /\ IsSeq(picks') /\ Len(picks') = n + 1
           /\ \E s : /\ SearchPath(s, n + 1)' /\ s[n + 1] = u
                     /\ \A i \in 0 .. n : s[i] = states[i]
<1>1. PICK s : s = [i \in 0 .. n + 1 |-> IF i <= n THEN states[i] ELSE u]
  OBVIOUS
<1>2. (\A i \in 0 .. n : s[i] = states[i]) /\ s[n + 1] = u
  BY <1>1
<1>3. PICK t : t = states[n]
  OBVIOUS
<1>4. /\ SearchShaped(t) /\ t.step = n /\ t.setup = states[0].setup
      /\ IsSeq(t.population) /\ Len(t.population) = n + 1
      /\ IsSeq(t.curve) /\ Len(t.curve) = n + 1
  BY <1>3 DEF SearchPath
<1>5. Explored(t, u)
  BY <1>3, <1>4, SearchStepParts
<1>6. /\ SearchShaped(u) /\ u.setup = t.setup /\ u.step = n + 1
      /\ Extends(u.population, t.population) /\ Extends(u.curve, t.curve)
  BY <1>4, <1>5 DEF Explored
<1>7. n + 1 \in Nat
  OBVIOUS
<1>8. IsSeq(u.population) /\ Len(u.population) = (n + 1) + 1
      /\ \A k \in 1 .. n + 1 : u.population[k] = t.population[k]
  BY <1>4, <1>6, <1>7, ExtendedParts
<1>9. IsSeq(u.curve) /\ Len(u.curve) = (n + 1) + 1
      /\ \A k \in 1 .. n + 1 : u.curve[k] = t.curve[k]
  BY <1>4, <1>6, <1>7, ExtendedParts
<1>10. /\ IsSeq(picks') /\ Len(picks') = n + 1
       /\ \A k \in 1 .. n : picks'[k] = picks[k]
       /\ picks'[n + 1] = draw
  <2>1. Longer(picks', picks, draw)
    BY Appended
  <2>. QED BY <2>1 DEF Longer
<1>11. \A i \in 0 .. n + 1 : i \in 0 .. n \/ i = n + 1
  OBVIOUS
<1>12. s[0] = states[0]
  BY <1>2
<1>13. \A i \in 0 .. n + 1 :
          /\ SearchShaped(s[i]) /\ s[i].step = i /\ s[i].setup = s[0].setup
          /\ IsSeq(s[i].population) /\ Len(s[i].population) = i + 1
          /\ IsSeq(s[i].curve) /\ Len(s[i].curve) = i + 1
          /\ Accounted(s[i])
  BY <1>2, <1>4, <1>6, <1>8, <1>9, <1>11, <1>12 DEF SearchPath
<1>14. ASSUME NEW i \in 1 .. n + 1
       PROVE  picks'[i] \in Proposals(s[i - 1]) /\ s[i] = SearchStepOf(s[i - 1], picks'[i])
  <2>1. CASE i \in 1 .. n
    <3>1. i \in 0 .. n /\ i - 1 \in 0 .. n
      BY <2>1
    <3>2. s[i] = states[i] /\ s[i - 1] = states[i - 1] /\ picks'[i] = picks[i]
      BY <1>2, <1>10, <2>1, <3>1
    <3>. QED BY <2>1, <3>2 DEF SearchPath
  <2>2. CASE i = n + 1
    <3>1. i - 1 = n /\ n \in 0 .. n
      BY <2>2
    <3>2. s[i - 1] = states[n]
      BY <1>2, <3>1
    <3>. QED BY <1>2, <1>10, <2>2, <3>2
  <2>. QED BY <2>1, <2>2
<1>15. ASSUME NEW i \in 0 .. n + 1, NEW k \in 1 .. i + 1
       PROVE  /\ s[i].population[k] = s[n + 1].population[k]
              /\ s[i].curve[k] = s[n + 1].curve[k]
  <2>1. CASE i \in 0 .. n
    <3>1. k \in 1 .. n + 1
      BY <2>1
    <3>2. /\ states[i].population[k] = t.population[k]
          /\ states[i].curve[k] = t.curve[k]
      BY <1>3, <2>1 DEF SearchPath
    <3>. QED BY <1>2, <1>8, <1>9, <2>1, <3>1, <3>2
  <2>2. CASE i = n + 1
    BY <2>2
  <2>. QED BY <2>1, <2>2
<1>16. SearchPath(s, n + 1)'
  BY <1>13, <1>14, <1>15 DEF SearchPath
<1>. QED BY <1>2, <1>10, <1>16

\* A step takes the path a state further, or repeats the draw it took.
LEMMA SearchSteps ==
    ASSUME SearchInv, NEW draw \in Drawn, SearchStep(draw)
    PROVE  SearchInv'
<1>1. PICK n : n = Len(picks)
  OBVIOUS
<1>2. IsSeq(picks) /\ restores \in Nat /\ n \in Nat /\ DOMAIN picks = 1 .. n
  <2>1. IsSeq(picks) /\ restores \in Nat
    BY DEF SearchInv
  <2>2. PICK S : picks \in Seq(S)
    BY <2>1 DEF IsSeq
  <2>. QED BY <1>1, <2>1, <2>2
<1>3. PICK states : SearchPath(states, n) /\ SearchCuts(states, n)
  BY <1>1 DEF SearchInv
<1>4. PICK m, s, most, cut : /\ m = trial.step /\ s = trial.setup
                             /\ most = StepsOf[s.policy] /\ cut = Split(s)
  OBVIOUS
<1>5. /\ s \in Setups /\ n <= most /\ m \in 0 .. n /\ trial = states[m] /\ full = states[n]
      /\ n >= cut => saved = states[cut]
      /\ IF restores = 0 THEN m = n ELSE n = most
  BY <1>3, <1>4 DEF SearchCuts, OnPath
<1>6. cut \in 1 .. most /\ most \in Nat
  BY <1>4, <1>5, SplitIs
<1>7. /\ m < most /\ trial' = SearchStepOf(trial, draw) /\ restores' = restores
      /\ picks' = IF m < n THEN picks ELSE Append(picks, draw)
      /\ full' = IF restores = 0 THEN trial' ELSE full
      /\ saved' = IF restores = 0 /\ trial'.step = cut THEN SearchSnapshot(trial') ELSE saved
  BY <1>1, <1>4 DEF SearchStep
<1>8. CASE m = n
  <2>1. restores = 0 /\ ~(m < n)
    BY <1>2, <1>5, <1>7, <1>8
  <2>2. draw \in Proposals(states[n])
    BY <1>5, <1>8 DEF Drawn
  <2>3. PICK u : u = trial'
    OBVIOUS
  <2>4. u = SearchStepOf(states[n], draw) /\ picks' = Append(picks, draw)
    BY <1>5, <1>7, <1>8, <2>1, <2>3
  <2>13. Accounted(u)
    <3>1. PICK t : t = states[n]
      OBVIOUS
    <3>2. n \in 0 .. n /\ Accounted(t) /\ t = trial
      BY <1>2, <1>3, <1>5, <1>8, <3>1 DEF SearchPath
    <3>3. t.step < StepsOf[t.setup.policy]
      BY <1>4, <1>7, <3>2
    <3>. QED BY <2>2, <2>4, <3>1, <3>2, <3>3, StepAccounts
  <2>5. /\ IsSeq(picks') /\ Len(picks') = n + 1
        /\ \E z : /\ SearchPath(z, n + 1)' /\ z[n + 1] = u
                  /\ \A i \in 0 .. n : z[i] = states[i]
    BY <1>1, <1>2, <1>3, <2>2, <2>4, <2>13, SearchLengthens
  <2>6. PICK z : /\ SearchPath(z, n + 1)' /\ z[n + 1] = u
                 /\ \A i \in 0 .. n : z[i] = states[i]
    BY <2>5
  <2>7. n + 1 \in 0 .. n + 1 /\ m \in 0 .. n + 1
    BY <1>2, <1>8
  <2>8. /\ SearchShaped(u) /\ u.step = n + 1 /\ u.setup = s
    <3>1. SearchShaped(z[n + 1]) /\ z[n + 1].step = n + 1 /\ z[n + 1].setup = z[0].setup
      BY <2>6, <2>7 DEF SearchPath
    <3>2. z[m].setup = z[0].setup /\ z[m] = trial
      BY <1>5, <2>6, <2>7 DEF SearchPath
    <3>. QED BY <1>4, <2>6, <3>1, <3>2
  <2>9. OnPath(z, n + 1, trial') /\ full' = z[n + 1]
    BY <1>7, <2>1, <2>3, <2>6, <2>7, <2>8 DEF OnPath
  <2>10. ASSUME n + 1 >= cut PROVE saved' = z[cut]
    <3>1. CASE n + 1 = cut
      BY <1>7, <2>1, <2>3, <2>6, <2>8, <3>1 DEF SearchShaped
    <3>2. CASE n + 1 # cut
      <4>1. n >= cut /\ cut \in 0 .. n
        BY <1>2, <1>6, <2>10, <3>2
      <4>2. saved' = saved
        BY <1>7, <2>3, <2>8, <3>2
      <4>. QED BY <1>5, <2>6, <4>1, <4>2
    <3>. QED BY <3>1, <3>2
  <2>11. /\ trial'.setup = s /\ s \in Setups /\ n + 1 <= most
         /\ trial'.step = n + 1 /\ restores' = 0
    BY <1>2, <1>5, <1>6, <1>7, <1>8, <2>1, <2>3, <2>8
  <2>12. SearchCuts(z, n + 1)'
    BY <1>4, <2>9, <2>10, <2>11 DEF SearchCuts, OnPath
  <2>. QED BY <1>2, <1>7, <2>5, <2>6, <2>12 DEF SearchInv
<1>9. CASE m < n
  <2>1. restores # 0 /\ n = most
    BY <1>2, <1>5, <1>9
  <2>2. picks' = picks /\ full' = full /\ saved' = saved
    BY <1>7, <1>9, <2>1
  <2>3. PICK i : i = m + 1
    OBVIOUS
  <2>4. i \in 1 .. n /\ i \in 0 .. n /\ i - 1 = m
    BY <1>2, <1>5, <1>9, <2>3
  <2>5. picks[i] \in Proposals(trial) /\ states[i] = SearchStepOf(trial, picks[i])
    BY <1>3, <1>5, <2>4 DEF SearchPath
  <2>6. draw = picks[i]
    <3>1. {trial.step + 1} \cap DOMAIN picks = {i}
      BY <1>2, <1>4, <2>3, <2>4
    <3>2. {picks[k] : k \in {trial.step + 1} \cap DOMAIN picks} \cap Proposals(trial) = {picks[i]}
      BY <2>5, <3>1
    <3>. QED BY <3>2 DEF Drawn
  <2>7. trial' = states[i] /\ states[i].step = i /\ states[i].setup = s
    <3>1. states[i].step = i /\ states[i].setup = states[0].setup /\ states[m].setup = states[0].setup
      BY <1>3, <1>5, <2>4 DEF SearchPath
    <3>. QED BY <1>4, <1>5, <1>7, <2>5, <2>6, <3>1
  <2>8. OnPath(states, n, trial')
    BY <2>4, <2>7 DEF OnPath
  <2>9. SearchPath(states, n)'
    BY <1>3, <2>2 DEF SearchPath
  <2>10. SearchCuts(states, n)'
    BY <1>4, <1>5, <1>7, <2>1, <2>2, <2>7, <2>8 DEF SearchCuts, OnPath
  <2>. QED BY <1>1, <1>2, <1>7, <2>2, <2>9, <2>10 DEF SearchInv
<1>. QED BY <1>2, <1>5, <1>8, <1>9

LEMMA SearchRestores ==
    ASSUME SearchInv, SearchRestore
    PROVE  SearchInv'
<1>1. PICK n : n = Len(picks)
  OBVIOUS
<1>2. IsSeq(picks) /\ restores \in Nat /\ n \in Nat
  <2>1. IsSeq(picks) /\ restores \in Nat
    BY DEF SearchInv
  <2>2. PICK S : picks \in Seq(S)
    BY <2>1 DEF IsSeq
  <2>. QED BY <1>1, <2>1, <2>2
<1>3. PICK states : SearchPath(states, n) /\ SearchCuts(states, n)
  BY <1>1 DEF SearchInv
<1>4. PICK s, most, cut : s = trial.setup /\ most = StepsOf[s.policy] /\ cut = Split(s)
  OBVIOUS
<1>5. /\ s \in Setups /\ n <= most /\ trial.step \in 0 .. n /\ trial = states[trial.step]
      /\ full = states[n]
      /\ n >= cut => saved = states[cut]
  BY <1>3, <1>4 DEF SearchCuts, OnPath
<1>6. cut \in 1 .. most /\ most \in Nat
  BY <1>4, <1>5, SplitIs
<1>7. /\ trial.step = most /\ trial' = saved /\ restores' = restores + 1
      /\ picks' = picks /\ full' = full /\ saved' = saved
  BY <1>4 DEF SearchRestore
<1>8. n = most /\ cut \in 0 .. n /\ trial' = states[cut]
  <2>1. PICK m : m = trial.step
    OBVIOUS
  <2>2. m = most /\ m \in 0 .. n
    BY <1>5, <1>7, <2>1
  <2>3. n = most
    BY <1>2, <1>5, <1>6, <2>2
  <2>4. cut \in 0 .. n /\ n >= cut
    BY <1>2, <1>6, <2>3
  <2>5. trial' = states[cut]
    BY <1>5, <1>7, <2>4
  <2>. QED BY <2>3, <2>4, <2>5
<1>9. states[cut].step = cut /\ states[cut].setup = s
  <2>1. states[cut].step = cut /\ states[cut].setup = states[0].setup
    BY <1>3, <1>8 DEF SearchPath
  <2>2. states[trial.step].setup = states[0].setup
    BY <1>3, <1>5 DEF SearchPath
  <2>. QED BY <1>4, <1>5, <2>1, <2>2
<1>10. OnPath(states, n, trial')
  BY <1>8, <1>9 DEF OnPath
<1>11. SearchPath(states, n)'
  BY <1>3, <1>7 DEF SearchPath
<1>12. restores' \in Nat /\ restores' # 0
  BY <1>2, <1>7
<1>13. SearchCuts(states, n)'
  <2>1. trial'.setup = s
    BY <1>8, <1>9
  <2>2. full' = states[n] /\ saved' = states[cut]
    BY <1>5, <1>7, <1>8
  <2>. QED BY <1>4, <1>5, <1>8, <1>10, <1>12, <2>1, <2>2 DEF SearchCuts, OnPath
<1>. QED BY <1>1, <1>2, <1>7, <1>11, <1>12, <1>13 DEF SearchInv

LEMMA SearchHolds ==
    ASSUME SearchInv
    PROVE  /\ SearchShaped(trial) /\ Accounted(trial)
           /\ IsPrefix(trial.population, full.population) /\ IsPrefix(trial.curve, full.curve)
           /\ trial.step = full.step => trial = full
<1>1. PICK n : n = Len(picks)
  OBVIOUS
<1>2. n \in Nat
  <2>1. IsSeq(picks)
    BY DEF SearchInv
  <2>2. PICK S : picks \in Seq(S)
    BY <2>1 DEF IsSeq
  <2>. QED BY <1>1, <2>2
<1>3. PICK states : SearchPath(states, n) /\ SearchCuts(states, n)
  BY <1>1 DEF SearchInv
<1>4. PICK m : m = trial.step
  OBVIOUS
<1>5. m \in 0 .. n /\ n \in 0 .. n /\ trial = states[m] /\ full = states[n]
  BY <1>2, <1>3, <1>4 DEF SearchCuts, OnPath
<1>6. PICK a, b, c, d : /\ a = trial.population /\ b = full.population
                        /\ c = trial.curve /\ d = full.curve
  OBVIOUS
<1>7. /\ IsSeq(a) /\ IsSeq(b) /\ IsSeq(c) /\ IsSeq(d) /\ SearchShaped(trial)
      /\ Len(a) = m + 1 /\ Len(c) = m + 1 /\ Len(b) = n + 1 /\ Len(d) = n + 1
      /\ full.step = n /\ Accounted(trial)
  BY <1>3, <1>5, <1>6 DEF SearchPath
<1>8. \A k \in 1 .. m + 1 : a[k] = b[k] /\ c[k] = d[k]
  BY <1>3, <1>5, <1>6 DEF SearchPath
<1>9. m + 1 \in Nat /\ m + 1 <= n + 1
  BY <1>2, <1>5
<1>10. PICK k \in Nat : k = m + 1
  BY <1>9
<1>11. SubSeq(a, 1, k) = SubSeq(b, 1, k)
  BY <1>7, <1>8, <1>9, <1>10, SameSlice
<1>12. SubSeq(c, 1, k) = SubSeq(d, 1, k)
  BY <1>7, <1>8, <1>9, <1>10, SameSlice
<1>13. IsPrefix(a, b) /\ IsPrefix(c, d)
  BY <1>7, <1>9, <1>10, <1>11, <1>12 DEF IsPrefix
<1>. QED BY <1>4, <1>5, <1>6, <1>7, <1>13

-----------------------------------------------------------------------------
(* The trials of the studies.                                                *)

TrialsInv == IF Bursting THEN BurstInv ELSE SearchInv

LEMMA SearchIs == ASSUME NEW t, SearchShaped(t) PROVE "inBurst" \notin DOMAIN t
BY DEF SearchShaped, SearchSnapshot

LEMMA BurstingIs ==
    /\ BurstInv => Bursting
    /\ SearchInv => ~Bursting
BY BurstHolds, ShapedIs, SearchHolds, SearchIs DEF Bursting

LEMMA BurstingNext ==
    /\ BurstInv' => Bursting'
    /\ SearchInv' => ~Bursting'
BY BurstingIs, PTL

THEOREM AlwaysOnPath == TrialsSpec => []TrialsInv
<1>1. TrialsInit => TrialsInv
  BY BurstBegins, SearchBegins, BurstingIs DEF TrialsInit, TrialsInv
<1>2. TrialsInv /\ [TrialsNext]_vars => TrialsInv'
  <2> SUFFICES ASSUME TrialsInv, [TrialsNext]_vars PROVE TrialsInv'
    OBVIOUS
  <2>1. CASE Bursting /\ Next
    <3>1. BurstInv
      BY <2>1 DEF TrialsInv
    <3>2. BurstInv'
      BY <2>1, <3>1, BurstSteps, BurstRestores DEF Next
    <3>. QED BY <3>2, BurstingNext DEF TrialsInv
  <2>2. CASE ~Bursting /\ ((\E draw \in Drawn : SearchStep(draw)) \/ SearchRestore)
    <3>1. SearchInv
      BY <2>2 DEF TrialsInv
    <3>2. SearchInv'
      BY <2>2, <3>1, SearchSteps, SearchRestores
    <3>. QED BY <3>2, BurstingNext DEF TrialsInv
  <2>3. CASE UNCHANGED vars
    BY <2>3 DEF vars, TrialsInv, Bursting, BurstInv, BurstPath, SearchInv, SearchPath, SearchCuts
  <2>. QED BY <2>1, <2>2, <2>3 DEF TrialsNext
<1>. QED BY <1>1, <1>2, PTL DEF TrialsSpec

LEMMA AccountsHold == ASSUME SearchInv PROVE SearchAccounted
<1>1. Accounted(trial)
  BY SearchHolds
<1>2. Records(trial) /\ Descent(trial) /\ Archived(trial) /\ Earned(trial) /\ trial.setup \in Setups
  BY <1>1 DEF Accounted
<1>. QED BY <1>2, DepthHeld, FirstBestHeld, CreditHeld DEF SearchAccounted

\* A receipt is of a burst exactly when the receipts before it justify one.
THEOREM AlwaysJustified == TrialsSpec => []BurstsJustified
<1>1. TrialsInv => BurstsJustified
  BY BurstHolds DEF TrialsInv, BurstsJustified
<1>. QED BY <1>1, AlwaysOnPath, PTL

\* No burst is longer than MaxBurst, and none follows another within Cooldown.
THEOREM AlwaysApart == TrialsSpec => []BurstsApart
<1>1. TrialsInv => BurstsApart
  BY BurstHolds DEF TrialsInv, BurstsApart
<1>. QED BY <1>1, AlwaysOnPath, PTL

\* A restored trial repeats the one that never stopped.
THEOREM AlwaysRepeats == TrialsSpec => []RestoredRepeats
<1>1. TrialsInv => RestoredRepeats
  BY BurstHolds, SearchHolds DEF TrialsInv, RestoredRepeats
<1>. QED BY <1>1, AlwaysOnPath, PTL

\* The records of a search trial account for its depths, its archive and the
\* credit its operators earned.
THEOREM AlwaysAccounts == TrialsSpec => []SearchAccounted
<1>1. TrialsInv => SearchAccounted
  <2>1. BurstInv => SearchAccounted
    BY BurstingIs DEF SearchAccounted
  <2>. QED BY <2>1, AccountsHold DEF TrialsInv
<1>. QED BY <1>1, AlwaysOnPath, PTL
=============================================================================
