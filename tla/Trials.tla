------------------------------- MODULE Trials -------------------------------
(* The trials of the three studies under one roof: a burst trial of AR2, or  *)
(* a search trial that recovery_check cuts in the middle and runs again from *)
(* its snapshot.                                                             *)
EXTENDS Ar2Trial, SearchTrial

Bursting == "inBurst" \in DOMAIN trial

SearchInit ==
    /\ trial \in {NewSearch(s) : s \in Setups}
    /\ picks = <<>>
    /\ full = trial
    /\ saved = None
    /\ restores = 0

\* The generator repeats itself for the same trial, and only then.
Drawn ==
    LET offered == Proposals(trial)
        again == {picks[i] : i \in {trial.step + 1} \cap DOMAIN picks} \cap offered
    IN  IF again # {} THEN again ELSE offered

SearchStep(draw) ==
    /\ trial.step < StepsOf[trial.setup.policy]
    /\ picks' = IF trial.step < Len(picks) THEN picks ELSE Append(picks, draw)
    /\ trial' = SearchStepOf(trial, draw)
    /\ full' = IF restores = 0 THEN trial' ELSE full
    /\ saved' = IF restores = 0 /\ trial'.step = Split(trial.setup)
                THEN SearchSnapshot(trial') ELSE saved
    /\ UNCHANGED restores

SearchRestore ==
    /\ trial.step = StepsOf[trial.setup.policy] /\ restores < MaxRestores
    /\ trial' = saved
    /\ restores' = restores + 1
    /\ UNCHANGED <<picks, full, saved>>

TrialsInit == Init \/ SearchInit

TrialsNext ==
    \/ Bursting /\ Next
    \/ ~Bursting /\ \E draw \in Drawn : SearchStep(draw)
    \/ ~Bursting /\ SearchRestore

TrialsSpec == TrialsInit /\ [][TrialsNext]_vars
-----------------------------------------------------------------------------
\* The bursts of AR2 are those its receipts justify, and bounded.
BurstsJustified == Bursting => BurstsFollowReceipts
BurstsApart == Bursting => BurstsBounded

\* "recovery_resume_match": a restored trial goes through the records, the
\* curve and the counters of the trial that never stopped.
RestoredRepeats ==
    IF Bursting THEN RestoredContinues
    ELSE /\ IsPrefix(trial.population, full.population)
         /\ IsPrefix(trial.curve, full.curve)
         /\ trial.step = full.step => trial = full

\* How many proposals lie between a record and the seed.
Generation(population) ==
    LET gen[i \in DOMAIN population] ==
            IF population[i].parents = <<>> THEN 0
            ELSE 1 + Max({gen[population[i].parents[k]] : k \in DOMAIN population[i].parents})
    IN  gen

\* The seed and the first proposal share a candidate id, so the depth a record
\* reports may be one more than its generation, and is never anything else.
DepthWithinOne ==
    LET gen == Generation(trial.population)
    IN  \A i \in DOMAIN trial.population : trial.population[i].depth - gen[i] \in {0, 1}

\* Every valid proposal is answered in its niche by the first of the best.
ArchiveHoldsFirstBest ==
    \A i \in DOMAIN trial.population :
        LET r == trial.population[i]
            Entry == {trial.archive[k].record :
                        k \in {m \in DOMAIN trial.archive :
                                 trial.archive[m].key = ArchiveKey(trial.setup, r.point)}}
        IN  r.score # MinusInfinity =>
                /\ Cardinality(Entry) = 1
                /\ \A e \in Entry : LET s == trial.population[e].score
                                    IN  s > r.score \/ (s = r.score /\ e <= i)

\* What all operators earned together is what the trial gained: its best, its
\* quality-diversity and the niches it found first.
CreditTelescopes ==
    LET s == trial.setup
        earned == SumFunction(trial.credit)
        valid == {r \in Range(trial.population) : r.score # MinusInfinity}
        found == Cardinality({IF s.land.study = "ar0" THEN ArchiveKey(s, r.point)
                              ELSE NicheOf(s.land, r.point) : r \in valid}) - 1
        best == Last(trial.curve).best - Head(trial.curve).best
        qd == Last(trial.curve).qd - Head(trial.curve).qd
        gained == CASE s.mode = "novelty" -> best + s.weight * found
                    [] s.mode = "cost_best_only" -> 2 * best
                    [] s.mode = "primary" -> best + qd
                    [] s.mode = "none" -> 0
    IN  earned = IF s.inverted THEN -gained ELSE gained

\* A search trial's records account for its depths, its archive and its credit.
SearchAccounted ==
    ~Bursting => DepthWithinOne /\ ArchiveHoldsFirstBest /\ CreditTelescopes
=============================================================================
