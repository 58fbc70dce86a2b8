----------------------- MODULE ExperimentRunnerProofs -----------------------
(***************************************************************************)
(* Theorems about ExperimentRunner, for any number of processes, arms,     *)
(* scores and attempts, interrupted and killed at will.                    *)
(***************************************************************************)
EXTENDS ExperimentRunner, SequenceTheorems, TLAPS

\* Labels at which a process works on the attempt Attempt(p).
Attempting == TryLabels \cup {"propose", "started", "failed"}

\* Between Begin and the end, a process knows its arms, and its indices fit.
MemoryInv ==
    \A p \in Procs :
        /\ pc[p] # "idle" =>
              /\ Len(todo[p]) > 0
              /\ \A k \in 1 .. Len(todo[p]) : start[p][todo[p][k]] + Epoch <= MaxIndex
        /\ pc[p] \in Attempting => offset[p] < Epoch
        /\ pc[p] \in {"blind", "final", "promote"} => champion[p] # NoOne

\* The attempt of a working process is an experiment id of its current arm.
LEMMA AttemptType ==
    ASSUME TypeOK, MemoryInv, NEW p \in Procs, pc[p] \in Attempting
    PROVE  /\ Arm(p) \in Arms
           /\ Attempt(p) \in Experiments
           /\ Attempt(p)[1] = Arm(p)
<1>1. /\ todo[p] \in Seq(Arms) /\ Len(todo[p]) > 0
      /\ pc[p] # "idle"
  BY DEF TypeOK, MemoryInv, Attempting, TryLabels
<1>2. Arm(p) \in Arms /\ Arm(p) = todo[p][1] /\ 1 \in 1 .. Len(todo[p])
  BY <1>1 DEF Arm
<1>3. start[p][Arm(p)] \in 0 .. MaxIndex /\ offset[p] \in 0 .. Epoch
  BY <1>2 DEF TypeOK
<1>4. start[p][Arm(p)] + Epoch <= MaxIndex /\ offset[p] < Epoch
  BY <1>1, <1>2 DEF MemoryInv
<1>5. start[p][Arm(p)] + offset[p] \in Indices
  BY <1>3, <1>4, RunnerAssumption DEF Indices
<1>6. QED
  BY <1>2, <1>5 DEF Attempt, Experiments

\* The recorded parent is an experiment id or nobody.
LEMMA ParentType ==
    ASSUME TypeOK, NEW p \in Procs
    PROVE  Parent(p) \in Experiments \cup {NoOne}
BY DEF Parent, TypeOK

\* A row appended for a working process is well formed.
LEMMA AppendRowType ==
    ASSUME TypeOK, MemoryInv, NEW p \in Procs, pc[p] \in Attempting,
           NEW s \in Status, AppendRow(Attempt(p), s, Parent(p))
    PROVE  rows' \in Seq(Rows)
<1>1. [exp |-> Attempt(p), status |-> s, parent |-> Parent(p)] \in Rows
  BY AttemptType, ParentType DEF Rows
<1>2. rows \in Seq(Rows)
  BY DEF TypeOK
<1>3. QED
  BY <1>1, <1>2 DEF AppendRow

\* A step of do_run's loop body keeps the types of the process's memory.
LEMMA ReturnedType ==
    ASSUME TypeOK, MemoryInv, NEW p \in Procs, pc[p] \in Attempting,
           NEW r \in Results, r.exp = Attempt(p), Returned(p, r)
    PROVE  /\ results' \in [Procs -> Seq(Results)]
           /\ leader' \in [Procs -> Experiments \cup {NoOne}]
           /\ offset' \in [Procs -> 0 .. Epoch]
           /\ pc' \in [Procs -> Labels]
<1>1. offset[p] \in 0 .. Epoch /\ offset[p] < Epoch
  BY DEF TypeOK, MemoryInv
<1>2. offset' \in [Procs -> 0 .. Epoch]
  BY <1>1, RunnerAssumption DEF Returned, TypeOK
<1>3. results' \in [Procs -> Seq(Results)]
  BY DEF Returned, TypeOK
<1>4. leader' \in [Procs -> Experiments \cup {NoOne}]
  BY AttemptType DEF Returned, TypeOK
<1>5. pc' \in [Procs -> Labels]
  BY DEF Returned, TypeOK, Goto, Labels, OuterLabels
<1>6. QED
  BY <1>2, <1>3, <1>4, <1>5

\* A process that starts an arm or exits clears its results, leader, champion
\* and score.
ForgottenTypes ==
    /\ results' \in [Procs -> Seq(Results)]
    /\ leader' \in [Procs -> Experiments \cup {NoOne}]
    /\ champion' \in [Procs -> Experiments \cup {NoOne}]
    /\ score' \in [Procs -> Scores \cup {NoOne}]

LEMMA ForgottenType ==
    ASSUME TypeOK, NEW p \in Procs,
           results' = [results EXCEPT ![p] = <<>>],
           leader' = [leader EXCEPT ![p] = NoOne],
           champion' = [champion EXCEPT ![p] = NoOne],
           score' = [score EXCEPT ![p] = NoOne]
    PROVE  ForgottenTypes
<1>1. <<>> \in Seq(Results)
  OBVIOUS
<1>2. results' \in [Procs -> Seq(Results)]
  BY <1>1 DEF TypeOK
<1>3. QED
  BY <1>2 DEF TypeOK, ForgottenTypes

LEMMA ForgetType ==
    ASSUME TypeOK, NEW p \in Procs, Forget(p)
    PROVE  /\ ForgottenTypes
           /\ pc' \in [Procs -> Labels]
           /\ todo' \in [Procs -> Seq(Arms)]
           /\ start' \in [Procs -> [Arms -> 0 .. MaxIndex]]
           /\ offset' \in [Procs -> 0 .. Epoch]
<1>1. ForgottenTypes
  BY ForgottenType DEF Forget
<1>2. [a \in Arms |-> 0] \in [Arms -> 0 .. MaxIndex] /\ <<>> \in Seq(Arms)
  BY RunnerAssumption
<1>3. pc' \in [Procs -> Labels] /\ todo' \in [Procs -> Seq(Arms)]
  BY <1>2 DEF Forget, Goto, Labels, TypeOK
<1>4. start' \in [Procs -> [Arms -> 0 .. MaxIndex]] /\ offset' \in [Procs -> 0 .. Epoch]
  BY <1>2, RunnerAssumption DEF Forget, TypeOK
<1>5. QED
  BY <1>1, <1>3, <1>4

\* Every step keeps the types, given that every process's indices fit.
LEMMA TypeStep == TypeOK /\ MemoryInv /\ [Next]_vars => TypeOK'
<1> SUFFICES ASSUME TypeOK, MemoryInv, [Next]_vars
             PROVE  TypeOK'
  OBVIOUS
<1> USE RunnerAssumption
<1> USE DEF Labels, TryLabels, OuterLabels, Attempting
<1>1. ASSUME NEW p \in Procs, Begin(p) PROVE TypeOK'
  <2>1. PICK list \in ArmLists, n \in [Arms -> 0 .. MaxIndex] :
            /\ todo' = [todo EXCEPT ![p] = list]
            /\ start' = [start EXCEPT ![p] = n]
    BY <1>1 DEF Begin
  <2>2. todo' \in [Procs -> Seq(Arms)] /\ start' \in [Procs -> [Arms -> 0 .. MaxIndex]]
    <3>1. list \in Seq(Arms)
      OBVIOUS
    <3>2. QED
      BY <2>1, <3>1 DEF TypeOK
  <2>3. pc' \in [Procs -> Labels] /\ offset' \in [Procs -> 0 .. Epoch]
    BY <1>1, 0 \in 0 .. Epoch DEF Begin, TypeOK, Goto
  <2>4. ForgottenTypes
    BY <1>1, ForgottenType DEF Begin
  <2>5. QED
    BY <1>1, <2>2, <2>3, <2>4 DEF Begin, TypeOK, durable, ForgottenTypes
<1>2. ASSUME NEW p \in Procs, Propose(p) PROVE TypeOK'
  <2>1. rows' \in Seq(Rows)
    BY <1>2, AppendRowType DEF Propose, Status
  <2>2. QED
    BY <1>2, <2>1 DEF Propose, TypeOK, memory, Goto
<1>3. ASSUME NEW p \in Procs, EnterTry(p) PROVE TypeOK'
  BY <1>3 DEF EnterTry, TypeOK, durable, memory, Goto
<1>4. ASSUME NEW p \in Procs, AcquireLock(p) PROVE TypeOK'
  BY <1>4 DEF AcquireLock, TypeOK, durable, memory, Goto
<1>5. ASSUME NEW p \in Procs, LockTimeout(p) PROVE TypeOK'
  BY <1>5 DEF LockTimeout, TypeOK, durable, memory, Goto
<1>6. ASSUME NEW p \in Procs, TrainOk(p) PROVE TypeOK'
  BY <1>6 DEF TrainOk, TypeOK, durable, Goto, ReleaseLock
<1>7. ASSUME NEW p \in Procs, TrainFail(p) PROVE TypeOK'
  BY <1>7 DEF TrainFail, TypeOK, durable, memory, Goto, ReleaseLock
<1>8. ASSUME NEW p \in Procs, RecordCompleted(p) PROVE TypeOK'
  <2>1. rows' \in Seq(Rows)
    BY <1>8, AppendRowType DEF RecordCompleted, Status
  <2>2. QED
    BY <1>8, <2>1 DEF RecordCompleted, TypeOK, memory, Goto
<1>9. ASSUME NEW p \in Procs, RecordArtifact(p) PROVE TypeOK'
  <2>1. Attempt(p) \in Experiments
    BY <1>9, AttemptType DEF RecordArtifact
  <2>2. QED
    BY <1>9, <2>1 DEF RecordArtifact, TypeOK, memory, Goto
<1>10. ASSUME NEW p \in Procs, ArtifactConflict(p) PROVE TypeOK'
  BY <1>10 DEF ArtifactConflict, TypeOK, durable, memory, Goto
<1>11. ASSUME NEW p \in Procs, RecordEvent(p) PROVE TypeOK'
  <2>1. Attempt(p) \in Experiments
    BY <1>11, AttemptType DEF RecordEvent
  <2>2. QED
    BY <1>11, <2>1 DEF RecordEvent, TypeOK, memory, Goto
<1>12. ASSUME NEW p \in Procs, RecordArchive(p) PROVE TypeOK'
  <2>1. Attempt(p) \in Experiments
    BY <1>12, AttemptType DEF RecordArchive
  <2>2. QED
    BY <1>12, <2>1 DEF RecordArchive, TypeOK, memory, Goto
<1>13. ASSUME NEW p \in Procs, ReturnCompleted(p) PROVE TypeOK'
  <2> DEFINE r == [exp |-> Attempt(p), ok |-> TRUE, score |-> score[p]]
  <2>1. r \in Results /\ r.exp = Attempt(p)
    BY <1>13, AttemptType DEF ReturnCompleted, Results, TypeOK
  <2>2. Returned(p, r) /\ pc[p] \in Attempting
    BY <1>13 DEF ReturnCompleted
  <2> HIDE DEF r
  <2>3. QED
    BY <1>13, <2>1, <2>2, ReturnedType DEF ReturnCompleted, TypeOK, durable
<1>14. ASSUME NEW p \in Procs, RecordFailed(p) PROVE TypeOK'
  <2> DEFINE r == [exp |-> Attempt(p), ok |-> FALSE, score |-> NoOne]
  <2>1. r \in Results /\ r.exp = Attempt(p)
    BY <1>14, AttemptType DEF RecordFailed, Results, TypeOK
  <2>2. Returned(p, r) /\ pc[p] \in Attempting
    BY <1>14 DEF RecordFailed
  <2>3. rows' \in Seq(Rows)
    BY <1>14, AppendRowType DEF RecordFailed, Status
  <2> HIDE DEF r
  <2>4. QED
    BY <1>14, <2>1, <2>2, <2>3, ReturnedType DEF RecordFailed, TypeOK
<1>15. ASSUME NEW p \in Procs, ChooseChampion(p) PROVE TypeOK'
  <2>1. PICK i \in DOMAIN results[p] : champion' = [champion EXCEPT ![p] = results[p][i].exp]
    BY <1>15 DEF ChooseChampion
  <2>2. results[p] \in Seq(Results)
    BY DEF TypeOK
  <2>3. results[p][i] \in Results
    BY <2>1, <2>2
  <2>4. results[p][i].exp \in Experiments
    BY <2>3 DEF Results
  <2>5. QED
    BY <1>15, <2>1, <2>4 DEF ChooseChampion, TypeOK, durable, Goto
<1>16. ASSUME NEW p \in Procs, NoChampion(p) PROVE TypeOK'
  BY <1>16 DEF NoChampion, TypeOK, durable, memory, Goto
<1>17. ASSUME NEW p \in Procs, NEW part \in Parts, PutHidden(p, part) PROVE TypeOK'
  BY <1>17 DEF PutHidden, TypeOK, memory, Goto
<1>18. ASSUME NEW p \in Procs, RecordPromotion(p) PROVE TypeOK'
  <2>1. champion[p] \in Experiments
    BY <1>18 DEF RecordPromotion, TypeOK, MemoryInv
  <2>2. QED
    BY <1>18, <2>1 DEF RecordPromotion, TypeOK, memory, Goto
<1>19. ASSUME NEW p \in Procs, NextArm(p) PROVE TypeOK'
  <2>1. Tail(todo[p]) \in Seq(Arms)
    BY <1>19 DEF NextArm, TypeOK
  <2>2. todo' \in [Procs -> Seq(Arms)] /\ pc' \in [Procs -> Labels] /\ offset' \in [Procs -> 0 .. Epoch]
    BY <1>19, <2>1 DEF NextArm, TypeOK, Goto
  <2>3. ForgottenTypes
    BY <1>19, ForgottenType DEF NextArm
  <2>4. QED
    BY <1>19, <2>2, <2>3 DEF NextArm, TypeOK, durable, ForgottenTypes
<1>20. ASSUME NEW p \in Procs, Exit(p) \/ LateInterrupt(p) PROVE TypeOK'
  BY <1>20, ForgetType DEF Exit, LateInterrupt, TypeOK, durable, ForgottenTypes
<1>21. ASSUME NEW p \in Procs, Interrupt(p) PROVE TypeOK'
  BY <1>21 DEF Interrupt, TypeOK, durable, memory, Goto, ReleaseLock
<1>22. ASSUME NEW p \in Procs, HardKill(p) PROVE TypeOK'
  <2>1. pc[p] = "training" => Attempt(p) \in Experiments
    BY AttemptType
  <2>2. orphans' \subseteq Procs \X Experiments
    BY <1>22, <2>1 DEF HardKill, TypeOK
  <2>3. QED
    BY <1>22, <2>2, ForgetType DEF HardKill, ReleaseLock, TypeOK, durable, ForgottenTypes
<1>23. ASSUME NEW o \in orphans, OrphanExit(o) PROVE TypeOK'
  BY <1>23 DEF OrphanExit, TypeOK, durable, memory
<1>24. CASE UNCHANGED vars
  BY <1>24 DEF vars, TypeOK, durable, memory
<1>25. QED
  BY <1>1, <1>2, <1>3, <1>4, <1>5, <1>6, <1>7, <1>8, <1>9, <1>10, <1>11, <1>12, <1>13,
     <1>14, <1>15, <1>16, <1>17, <1>18, <1>19, <1>20, <1>21, <1>22, <1>23, <1>24
     DEF Next, Step

-----------------------------------------------------------------------------
\* MemoryInv for one process, and the part of it a step by another leaves alone.
MemoryOf(p) ==
    /\ pc[p] # "idle" =>
          /\ Len(todo[p]) > 0
          /\ \A k \in 1 .. Len(todo[p]) : start[p][todo[p][k]] + Epoch <= MaxIndex
    /\ pc[p] \in Attempting => offset[p] < Epoch
    /\ pc[p] \in {"blind", "final", "promote"} => champion[p] # NoOne

\* Every step keeps a working process's arms and the room for its indices.
LEMMA MemoryStep == TypeOK /\ MemoryInv /\ [Next]_vars => MemoryInv'
<1> SUFFICES ASSUME TypeOK, MemoryInv, [Next]_vars
             PROVE  MemoryInv'
  OBVIOUS
<1> USE RunnerAssumption
<1> USE DEF Labels, TryLabels, OuterLabels, Attempting
<1>0. \A q \in Procs : MemoryOf(q)
  BY DEF MemoryInv, MemoryOf
<1>a. SUFFICES \A q \in Procs : MemoryOf(q)'
  BY DEF MemoryInv, MemoryOf
<1>1. ASSUME NEW p \in Procs, Begin(p) PROVE \A q \in Procs : MemoryOf(q)'
  <2>1. PICK list \in ArmLists, n \in [Arms -> 0 .. MaxIndex] :
            /\ list # <<>>
            /\ \A k \in DOMAIN list : n[list[k]] + Epoch <= MaxIndex
            /\ todo' = [todo EXCEPT ![p] = list]
            /\ start' = [start EXCEPT ![p] = n]
    BY <1>1 DEF Begin
  <2>2. list \in Seq(Arms) /\ DOMAIN list = 1 .. Len(list) /\ Len(list) > 0
    <3>1. list \in Seq(Arms)
      OBVIOUS
    <3>2. QED
      BY <2>1, <3>1, EmptySeq, LenProperties
  <2>3. MemoryOf(p)'
    <3>1. todo'[p] = list /\ start'[p] = n /\ offset'[p] = 0 /\ pc'[p] = "propose"
      BY <1>1, <2>1 DEF Begin, TypeOK, Goto
    <3>2. \A k \in 1 .. Len(todo'[p]) : start'[p][todo'[p][k]] + Epoch <= MaxIndex
      BY <2>1, <2>2, <3>1
    <3>3. QED
      BY <2>1, <3>1, <3>2 DEF MemoryOf
  <2>4. ASSUME NEW q \in Procs, q # p PROVE MemoryOf(q)'
    BY <1>0, <1>1, <2>1, <2>4 DEF Begin, MemoryOf, TypeOK, Goto
  <2>5. QED
    BY <2>3, <2>4
<1>2. ASSUME NEW p \in Procs, Propose(p) \/ EnterTry(p) \/ AcquireLock(p) \/ LockTimeout(p)
      PROVE  \A q \in Procs : MemoryOf(q)'
  BY <1>0, <1>2 DEF Propose, EnterTry, AcquireLock, LockTimeout, MemoryOf, TypeOK, memory, Goto
<1>3. ASSUME NEW p \in Procs, TrainOk(p) \/ TrainFail(p) \/ RecordCompleted(p) \/ RecordArtifact(p)
      PROVE  \A q \in Procs : MemoryOf(q)'
  BY <1>0, <1>3 DEF TrainOk, TrainFail, RecordCompleted, RecordArtifact, MemoryOf, TypeOK, memory, Goto
<1>4. ASSUME NEW p \in Procs, ArtifactConflict(p) \/ RecordEvent(p) \/ RecordArchive(p) \/ Interrupt(p)
      PROVE  \A q \in Procs : MemoryOf(q)'
  BY <1>0, <1>4 DEF ArtifactConflict, RecordEvent, RecordArchive, Interrupt, MemoryOf, TypeOK, memory, Goto
<1>5. ASSUME NEW p \in Procs, NEW r, Returned(p, r), pc[p] \in Attempting,
             UNCHANGED <<todo, start, champion>>
      PROVE  \A q \in Procs : MemoryOf(q)'
  BY <1>0, <1>5 DEF Returned, MemoryOf, TypeOK, Goto
<1>6. ASSUME NEW p \in Procs, ReturnCompleted(p) \/ RecordFailed(p)
      PROVE  \A q \in Procs : MemoryOf(q)'
  BY <1>5, <1>6 DEF ReturnCompleted, RecordFailed
<1>7. ASSUME NEW p \in Procs, ChooseChampion(p) PROVE \A q \in Procs : MemoryOf(q)'
  <2>1. PICK i \in DOMAIN results[p] : champion' = [champion EXCEPT ![p] = results[p][i].exp]
    BY <1>7 DEF ChooseChampion
  <2>2. results[p] \in Seq(Results)
    BY DEF TypeOK
  <2>3. results[p][i] \in Results
    BY <2>1, <2>2
  <2>4. results[p][i].exp # NoOne
    BY <2>3 DEF Results, Experiments, Indices
  <2>5. QED
    BY <1>0, <1>7, <2>1, <2>4 DEF ChooseChampion, MemoryOf, TypeOK, Goto
<1>8. ASSUME NEW p \in Procs, NoChampion(p) \/ RecordPromotion(p) PROVE \A q \in Procs : MemoryOf(q)'
  BY <1>0, <1>8 DEF NoChampion, RecordPromotion, MemoryOf, TypeOK, memory, Goto
<1>9. ASSUME NEW p \in Procs, NEW part \in Parts, PutHidden(p, part)
      PROVE  \A q \in Procs : MemoryOf(q)'
  BY <1>0, <1>9 DEF PutHidden, Parts, MemoryOf, TypeOK, memory, Goto
<1>10. ASSUME NEW p \in Procs, NextArm(p) PROVE \A q \in Procs : MemoryOf(q)'
  <2>1. /\ todo[p] \in Seq(Arms) /\ Len(todo[p]) \in Nat /\ Len(todo[p]) > 1
        /\ \A k \in 1 .. Len(todo[p]) : start[p][todo[p][k]] + Epoch <= MaxIndex
    <3>1. todo[p] \in Seq(Arms) /\ Len(todo[p]) > 1
      BY <1>10 DEF NextArm, TypeOK
    <3>2. \A k \in 1 .. Len(todo[p]) : start[p][todo[p][k]] + Epoch <= MaxIndex
      BY <1>0, <1>10 DEF NextArm, MemoryOf
    <3>3. Len(todo[p]) \in Nat
      BY <3>1, LenProperties
    <3>4. QED
      BY <3>1, <3>2, <3>3
  <2>2. /\ Len(Tail(todo[p])) = Len(todo[p]) - 1
        /\ \A k \in 1 .. Len(Tail(todo[p])) : Tail(todo[p])[k] = todo[p][k + 1]
    <3>1. todo[p] # <<>>
      BY <2>1
    <3>2. QED
      BY <2>1, <3>1, HeadTailProperties
  <2>3. todo'[p] = Tail(todo[p]) /\ start' = start /\ offset'[p] = 0 /\ pc'[p] = "propose"
    BY <1>10 DEF NextArm, TypeOK, Goto
  <2>4. ASSUME NEW k \in 1 .. Len(todo'[p]) PROVE start'[p][todo'[p][k]] + Epoch <= MaxIndex
    <3>1. k + 1 \in 1 .. Len(todo[p])
      BY <2>1, <2>2, <2>3
    <3>2. QED
      BY <2>1, <2>2, <2>3, <3>1
  <2>5. MemoryOf(p)'
    <3>1. Len(todo'[p]) > 0
      BY <2>1, <2>2, <2>3
    <3>2. QED
      BY <2>3, <2>4, <3>1 DEF MemoryOf
  <2>6. ASSUME NEW q \in Procs, q # p PROVE MemoryOf(q)'
    BY <1>0, <1>10, <2>6 DEF NextArm, MemoryOf, TypeOK, Goto
  <2>7. QED
    BY <2>5, <2>6
<1>11. ASSUME NEW p \in Procs, Exit(p) \/ LateInterrupt(p) \/ HardKill(p)
       PROVE  \A q \in Procs : MemoryOf(q)'
  <2>1. Forget(p)
    BY <1>11 DEF Exit, LateInterrupt, HardKill
  <2>2. QED
    BY <1>0, <2>1 DEF Forget, MemoryOf, TypeOK, Goto
<1>12. ASSUME NEW o \in orphans, OrphanExit(o) PROVE \A q \in Procs : MemoryOf(q)'
  BY <1>0, <1>12 DEF OrphanExit, MemoryOf, memory
<1>13. CASE UNCHANGED vars
  BY <1>0, <1>13 DEF vars, MemoryOf, memory
<1>14. QED
  BY <1>1, <1>2, <1>3, <1>4, <1>6, <1>7, <1>8, <1>9, <1>10, <1>11, <1>12, <1>13
     DEF Next, Step

\* The initial state: no process, an empty ledger.
LEMMA TypeInit == Init => TypeOK /\ MemoryInv
<1> SUFFICES ASSUME Init PROVE TypeOK /\ MemoryInv
  OBVIOUS
<1>1. /\ <<>> \in Seq(Rows) /\ <<>> \in Seq(Experiments)
      /\ <<>> \in Seq(Arms) /\ <<>> \in Seq(Results)
  OBVIOUS
<1>2. TypeOK
  BY <1>1, RunnerAssumption DEF Init, TypeOK, Labels
<1>3. MemoryInv
  BY DEF Init, MemoryInv, Attempting, TryLabels
<1>4. QED
  BY <1>2, <1>3

\* Every reachable state of the run command is well typed: in particular no
\* invocation ever announces an index outside the room it reserved.
THEOREM TypeCorrect == Spec => [](TypeOK /\ MemoryInv)
<1>1. TypeOK /\ MemoryInv /\ [Next]_vars => (TypeOK /\ MemoryInv)'
  BY TypeStep, MemoryStep
<1>2. QED
  BY TypeInit, <1>1, PTL DEF Spec

-----------------------------------------------------------------------------
\* A step moves the lock and the label of its own process only, and moves them
\* together.
LEMMA LockStep == TypeOK /\ LockOwned /\ [Next]_vars => LockOwned'
<1> SUFFICES ASSUME TypeOK, LockOwned, [Next]_vars
             PROVE  LockOwned'
  OBVIOUS
<1> USE RunnerAssumption DEF LockOwned, TypeOK, Goto
<1>1. ASSUME NEW p \in Procs, NEW label,
             pc[p] # "training", label # "training", UNCHANGED lock, Goto(p, label)
      PROVE  LockOwned'
  BY <1>1
<1>2. ASSUME NEW p \in Procs, NEW label, label # "training", ReleaseLock(p), Goto(p, label)
      PROVE  LockOwned'
  BY <1>2 DEF ReleaseLock
<1>3. ASSUME NEW p \in Procs, AcquireLock(p) PROVE LockOwned'
  BY <1>3 DEF AcquireLock
<1>4. ASSUME NEW p \in Procs, Begin(p) \/ Propose(p) \/ EnterTry(p) \/ LockTimeout(p)
                               \/ RecordCompleted(p) \/ RecordArtifact(p) \/ ArtifactConflict(p)
      PROVE  LockOwned'
  BY <1>1, <1>4 DEF Begin, Propose, EnterTry, LockTimeout, RecordCompleted, RecordArtifact,
                    ArtifactConflict
<1>5. ASSUME NEW p \in Procs, RecordEvent(p) \/ RecordArchive(p) \/ ReturnCompleted(p)
                               \/ RecordFailed(p) \/ ChooseChampion(p) \/ NoChampion(p)
      PROVE  LockOwned'
  BY <1>1, <1>5 DEF RecordEvent, RecordArchive, ReturnCompleted, RecordFailed, Returned,
                    ChooseChampion, NoChampion
<1>6. ASSUME NEW p \in Procs, NEW part \in Parts, PutHidden(p, part) PROVE LockOwned'
  BY <1>1, <1>6 DEF PutHidden, Parts
<1>7. ASSUME NEW p \in Procs, RecordPromotion(p) \/ NextArm(p) \/ Exit(p) \/ LateInterrupt(p)
      PROVE  LockOwned'
  BY <1>1, <1>7 DEF RecordPromotion, NextArm, Exit, LateInterrupt, Forget, OuterLabels
<1>8. ASSUME NEW p \in Procs, TrainOk(p) \/ TrainFail(p) \/ Interrupt(p) \/ HardKill(p)
      PROVE  LockOwned'
  BY <1>2, <1>8 DEF TrainOk, TrainFail, Interrupt, HardKill, Forget
<1>9. ASSUME NEW o \in orphans, OrphanExit(o) PROVE LockOwned'
  BY <1>9 DEF OrphanExit
<1>10. CASE UNCHANGED vars
  BY <1>10 DEF vars
<1>11. QED
  BY <1>3, <1>4, <1>5, <1>6, <1>7, <1>8, <1>9, <1>10 DEF Next, Step

\* gpu_owner is exclusive however many invocations overlap and wherever they
\* are interrupted or killed: whoever trains owns the lock.
THEOREM LockOwnership == Spec => []LockOwned
<1>1. Init => LockOwned
  BY RunnerAssumption DEF Init, LockOwned
<1>2. QED
  BY <1>1, LockStep, TypeCorrect, PTL DEF Spec
-----------------------------------------------------------------------------
(* One promotion per candidate. The artifact's primary key gives an id to one *)
(* invocation at a time: the one that goes on to its event, its archive row   *)
(* and its result, and may promote it once.                                   *)

\* Process p has a completed result of e in its arm.
HasResult(p, e) == \E i \in DOMAIN results[p] : results[p][i].ok /\ results[p][i].exp = e

\* Process p recorded the artifact of e and may still promote it.
Holds(p, e) ==
    \/ pc[p] \in {"event", "archive", "return"} /\ Attempt(p) = e
    \/ pc[p] # "armdone" /\ HasResult(p, e)

Promoting == {"blind", "final", "promote"}

ClaimInv ==
    /\ \A p \in Procs, e \in Experiments : Holds(p, e) => e \in artifacts
    /\ \A p \in Procs, e \in Experiments : Holds(p, e) =>
          \A i \in DOMAIN promotions : promotions[i] # e
    /\ \A p, q \in Procs, e \in Experiments : Holds(p, e) /\ Holds(q, e) => p = q
    /\ \A i \in DOMAIN promotions : promotions[i] \in artifacts
    /\ \A p \in Procs : pc[p] \in Promoting => HasResult(p, champion[p])

\* The step leaves the other processes' memory alone.
Elsewhere(p) ==
    \A q \in Procs \ {p} :
        /\ pc'[q] = pc[q] /\ todo'[q] = todo[q] /\ start'[q] = start[q]
        /\ offset'[q] = offset[q] /\ results'[q] = results[q] /\ champion'[q] = champion[q]
        /\ leader'[q] = leader[q]

LEMMA ElsewhereStep ==
    ASSUME TypeOK, NEW p \in Procs,
           Begin(p) \/ Step(p) \/ Interrupt(p) \/ LateInterrupt(p) \/ HardKill(p)
    PROVE  Elsewhere(p)
<1> USE DEF TypeOK, Elsewhere, Goto, memory
<1>1. CASE Begin(p)
  BY <1>1 DEF Begin
<1>2. CASE Propose(p) \/ EnterTry(p) \/ AcquireLock(p) \/ LockTimeout(p) \/ TrainOk(p) \/ TrainFail(p)
  BY <1>2 DEF Propose, EnterTry, AcquireLock, LockTimeout, TrainOk, TrainFail
<1>3. CASE RecordCompleted(p) \/ RecordArtifact(p) \/ ArtifactConflict(p)
           \/ RecordEvent(p) \/ RecordArchive(p)
  BY <1>3 DEF RecordCompleted, RecordArtifact, ArtifactConflict, RecordEvent, RecordArchive
<1>4. CASE ReturnCompleted(p) \/ RecordFailed(p)
  BY <1>4 DEF ReturnCompleted, RecordFailed, Returned
<1>5. CASE ChooseChampion(p)
  BY <1>5 DEF ChooseChampion
<1>6. CASE NoChampion(p) \/ RecordPromotion(p) \/ NextArm(p)
  BY <1>6 DEF NoChampion, RecordPromotion, NextArm
<1>7. ASSUME NEW part \in Parts, PutHidden(p, part) PROVE Elsewhere(p)
  BY <1>7 DEF PutHidden
<1>8. CASE Exit(p) \/ Interrupt(p) \/ LateInterrupt(p) \/ HardKill(p)
  BY <1>8 DEF Exit, Interrupt, LateInterrupt, HardKill, Forget
<1>. QED
  BY <1>1, <1>2, <1>3, <1>4, <1>5, <1>6, <1>7, <1>8 DEF Step

LEMMA ElsewhereHolds ==
    ASSUME NEW p \in Procs, Elsewhere(p), NEW q \in Procs \ {p}
    PROVE  /\ \A e \in Experiments : Holds(q, e)' <=> Holds(q, e)
           /\ pc'[q] = pc[q]
           /\ HasResult(q, champion[q])' <=> HasResult(q, champion[q])
<1>1. /\ pc'[q] = pc[q] /\ todo'[q] = todo[q] /\ start'[q] = start[q]
      /\ offset'[q] = offset[q] /\ results'[q] = results[q] /\ champion'[q] = champion[q]
  BY DEF Elsewhere
<1>2. Attempt(q)' = Attempt(q)
  BY <1>1 DEF Attempt, Arm
<1>. QED BY <1>1, <1>2 DEF Holds, HasResult

\* A step that takes no artifact for itself and promotes nothing.
LEMMA ClaimKept ==
    ASSUME ClaimInv, NEW p \in Procs, Elsewhere(p),
           artifacts \subseteq artifacts', promotions' = promotions,
           \A e \in Experiments : Holds(p, e)' => Holds(p, e),
           pc'[p] \in Promoting => HasResult(p, champion[p])'
    PROVE  ClaimInv'
<1>1. \A q \in Procs, e \in Experiments : Holds(q, e)' => Holds(q, e)
  BY ElsewhereHolds
<1>2. \A q \in Procs : pc'[q] \in Promoting => HasResult(q, champion[q])'
  BY ElsewhereHolds DEF ClaimInv
<1>. QED BY <1>1, <1>2 DEF ClaimInv

\* A step after which the process has no result and carries no artifact.
LEMMA ClaimDropped ==
    ASSUME ClaimInv, NEW p \in Procs, Elsewhere(p),
           UNCHANGED <<artifacts, promotions>>,
           results'[p] = <<>>, pc'[p] \in {"idle", "propose"}
    PROVE  ClaimInv'
<1>1. \A e \in Experiments : ~Holds(p, e)'
  BY DEF Holds, HasResult
<1>2. pc'[p] \notin Promoting
  BY DEF Promoting
<1>. QED BY <1>1, <1>2, ClaimKept

\* A step of the attempt that changes the label alone.
LEMMA ClaimMoved ==
    ASSUME ClaimInv, NEW p \in Procs, Elsewhere(p),
           UNCHANGED <<artifacts, promotions>>,
           todo'[p] = todo[p], start'[p] = start[p], offset'[p] = offset[p],
           results'[p] = results[p], champion'[p] = champion[p], pc[p] # "armdone",
           pc'[p] \in {"event", "archive", "return"} => pc[p] \in {"event", "archive", "return"},
           pc'[p] \in Promoting => pc[p] \in Promoting
    PROVE  ClaimInv'
<1>1. Attempt(p)' = Attempt(p)
  BY DEF Attempt, Arm
<1>2. \A e \in Experiments : Holds(p, e)' => Holds(p, e)
  BY <1>1 DEF Holds, HasResult
<1>3. pc'[p] \in Promoting => HasResult(p, champion[p])'
  BY DEF ClaimInv, HasResult
<1>. QED BY <1>2, <1>3, ClaimKept

\* The artifact is new, so nobody holds the id and nobody promoted it.
LEMMA ClaimArtifact ==
    ASSUME TypeOK, MemoryInv, ClaimInv, NEW p \in Procs, RecordArtifact(p), Elsewhere(p)
    PROVE  ClaimInv'
<1>1. /\ pc[p] = "artifact" /\ pc'[p] = "event" /\ Attempt(p) \notin artifacts
      /\ artifacts' = artifacts \cup {Attempt(p)} /\ promotions' = promotions
      /\ UNCHANGED memory
  BY DEF RecordArtifact, Goto, TypeOK
<1>2. Attempt(p)' = Attempt(p)
  BY <1>1 DEF Attempt, Arm, memory
<1>3. \A e \in Experiments : Holds(p, e)' => Holds(p, e) \/ e = Attempt(p)
  BY <1>1, <1>2 DEF Holds, HasResult, memory
<1>4. \A q \in Procs, e \in Experiments : Holds(q, e)' => Holds(q, e) \/ (q = p /\ e = Attempt(p))
  BY <1>3, ElsewhereHolds
<1>5. \A q \in Procs : ~(Attempt(p) \in Experiments /\ Holds(q, Attempt(p)))
  BY <1>1 DEF ClaimInv
<1>6. \A i \in DOMAIN promotions : promotions[i] # Attempt(p)
  BY <1>1 DEF ClaimInv
<1>7. \A q \in Procs : pc'[q] \in Promoting => HasResult(q, champion[q])'
  BY <1>1, ElsewhereHolds DEF ClaimInv, Promoting
<1>8. \A q \in Procs, e \in Experiments : Holds(q, e)' => e \in artifacts'
  BY <1>1, <1>4 DEF ClaimInv
<1>9. \A q \in Procs, e \in Experiments : Holds(q, e)' =>
          \A i \in DOMAIN promotions' : promotions'[i] # e
  BY <1>1, <1>4, <1>6 DEF ClaimInv
<1>10. \A q, r \in Procs, e \in Experiments : Holds(q, e)' /\ Holds(r, e)' => q = r
  BY <1>4, <1>5 DEF ClaimInv
<1>11. \A i \in DOMAIN promotions' : promotions'[i] \in artifacts'
  BY <1>1 DEF ClaimInv
<1>. QED BY <1>7, <1>8, <1>9, <1>10, <1>11 DEF ClaimInv

\* What run_one returns is held already when it is ok.
LEMMA ClaimReturned ==
    ASSUME TypeOK, ClaimInv, NEW p \in Procs, Elsewhere(p), NEW r \in Results,
           pc[p] \in {"return", "failed"}, Returned(p, r),
           r.ok => pc[p] = "return" /\ r.exp = Attempt(p),
           UNCHANGED <<artifacts, promotions>>
    PROVE  ClaimInv'
<1>1. results[p] \in Seq(Results) /\ results'[p] = Append(results[p], r)
  BY DEF TypeOK, Returned
<1>2. pc'[p] \in {"propose", "choose"}
  BY DEF TypeOK, Returned, Goto
<1>3. \A i \in DOMAIN results'[p] :
          \/ i \in DOMAIN results[p] /\ results'[p][i] = results[p][i]
          \/ results'[p][i] = r
  BY <1>1
<1>4. \A e \in Experiments : Holds(p, e)' => Holds(p, e)
  BY <1>2, <1>3 DEF Holds, HasResult
<1>5. pc'[p] \notin Promoting
  BY <1>2 DEF Promoting
<1>. QED BY <1>4, <1>5, ClaimKept

LEMMA ClaimChosen ==
    ASSUME TypeOK, ClaimInv, NEW p \in Procs, ChooseChampion(p), Elsewhere(p)
    PROVE  ClaimInv'
<1>1. PICK i \in DOMAIN results[p] :
          IsChampion(p, i) /\ champion' = [champion EXCEPT ![p] = results[p][i].exp]
  BY DEF ChooseChampion
<1>2. /\ pc[p] = "choose" /\ pc'[p] = "blind" /\ champion'[p] = results[p][i].exp
      /\ UNCHANGED <<artifacts, promotions, results>>
  BY <1>1 DEF ChooseChampion, Goto, TypeOK, durable
<1>3. results[p][i].ok
  BY <1>1 DEF IsChampion, Valid
<1>4. HasResult(p, champion[p])'
  BY <1>2, <1>3 DEF HasResult
<1>5. \A e \in Experiments : Holds(p, e)' => Holds(p, e)
  BY <1>2 DEF Holds, HasResult
<1>. QED BY <1>2, <1>4, <1>5, ClaimKept

\* The champion is held by its promoter alone, who lets go of it.
LEMMA ClaimPromoted ==
    ASSUME TypeOK, MemoryInv, ClaimInv, PromotedOnce,
           NEW p \in Procs, RecordPromotion(p), Elsewhere(p)
    PROVE  ClaimInv' /\ PromotedOnce'
<1>1. /\ pc[p] = "promote" /\ pc'[p] = "armdone" /\ UNCHANGED artifacts
      /\ promotions' = Append(promotions, champion[p])
  BY DEF RecordPromotion, Goto, TypeOK
<1>2. champion[p] \in Experiments /\ promotions \in Seq(Experiments)
  BY <1>1 DEF MemoryInv, TypeOK
<1>3. Holds(p, champion[p])
  BY <1>1 DEF ClaimInv, Promoting, Holds
<1>4. \A e \in Experiments : ~Holds(p, e)'
  BY <1>1 DEF Holds
<1>5. \A q \in Procs, e \in Experiments : Holds(q, e)' => Holds(q, e) /\ q # p
  BY <1>4, ElsewhereHolds
<1>6. \A i \in DOMAIN promotions' :
          \/ i \in DOMAIN promotions /\ promotions'[i] = promotions[i]
          \/ i = Len(promotions) + 1 /\ promotions'[i] = champion[p]
  BY <1>1, <1>2
<1>7. \A i \in DOMAIN promotions : promotions[i] # champion[p]
  BY <1>2, <1>3 DEF ClaimInv
<1>8. PromotedOnce'
  BY <1>6, <1>7 DEF PromotedOnce
<1>9. \A q \in Procs, e \in Experiments : Holds(q, e)' => e # champion[p]
  BY <1>2, <1>3, <1>5 DEF ClaimInv
<1>10. champion[p] \in artifacts
  BY <1>2, <1>3 DEF ClaimInv
<1>11. \A q \in Procs, e \in Experiments : Holds(q, e)' =>
          e \in artifacts' /\ \A i \in DOMAIN promotions' : promotions'[i] # e
  BY <1>1, <1>5, <1>6, <1>9 DEF ClaimInv
<1>12. \A q, r \in Procs, e \in Experiments : Holds(q, e)' /\ Holds(r, e)' => q = r
  BY <1>5 DEF ClaimInv
<1>13. \A i \in DOMAIN promotions' : promotions'[i] \in artifacts'
  BY <1>1, <1>6, <1>10 DEF ClaimInv
<1>14. \A q \in Procs : pc'[q] \in Promoting => HasResult(q, champion[q])'
  BY <1>1, ElsewhereHolds DEF ClaimInv, Promoting
<1>. QED BY <1>8, <1>11, <1>12, <1>13, <1>14 DEF ClaimInv

LEMMA ClaimStep ==
    TypeOK /\ MemoryInv /\ ClaimInv /\ PromotedOnce /\ [Next]_vars
        => ClaimInv' /\ PromotedOnce'
<1> SUFFICES ASSUME TypeOK, MemoryInv, ClaimInv, PromotedOnce, [Next]_vars
             PROVE  ClaimInv' /\ PromotedOnce'
  OBVIOUS
<1> DEFINE Goal == ClaimInv' /\ PromotedOnce'
<1>1. ASSUME UNCHANGED promotions PROVE PromotedOnce'
  BY <1>1 DEF PromotedOnce
<1>2. CASE UNCHANGED vars \/ \E o \in orphans : OrphanExit(o)
  <2>1. UNCHANGED <<durable, pc, memory>>
    BY <1>2 DEF vars, OrphanExit
  <2>2. \A p \in Procs : Attempt(p)' = Attempt(p)
    BY <2>1 DEF Attempt, Arm, memory
  <2>3. \A p \in Procs, e \in Experiments : Holds(p, e)' <=> Holds(p, e)
    BY <2>1, <2>2 DEF Holds, HasResult, memory
  <2>4. \A p \in Procs : HasResult(p, champion[p])' <=> HasResult(p, champion[p])
    BY <2>1 DEF HasResult, memory
  <2>5. UNCHANGED <<artifacts, promotions, pc>>
    BY <2>1 DEF durable
  <2>. QED BY <1>1, <2>3, <2>4, <2>5 DEF ClaimInv
<1>3. ASSUME NEW p \in Procs,
             Begin(p) \/ Step(p) \/ Interrupt(p) \/ LateInterrupt(p) \/ HardKill(p)
      PROVE  Goal
  <2>1. Elsewhere(p)
    BY <1>3, ElsewhereStep
  <2>2. CASE Begin(p) \/ NextArm(p)
    <3>1. UNCHANGED <<artifacts, promotions>> /\ results'[p] = <<>> /\ pc'[p] = "propose"
      BY <2>2 DEF Begin, NextArm, Goto, TypeOK, durable
    <3>. QED BY <1>1, <2>1, <3>1, ClaimDropped
  <2>3. CASE Exit(p) \/ LateInterrupt(p) \/ HardKill(p)
    <3>1. UNCHANGED <<artifacts, promotions>> /\ results'[p] = <<>> /\ pc'[p] = "idle"
      BY <2>3 DEF Exit, LateInterrupt, HardKill, Forget, Goto, TypeOK, durable
    <3>. QED BY <1>1, <2>1, <3>1, ClaimDropped
  <2>4. CASE Propose(p) \/ EnterTry(p) \/ AcquireLock(p) \/ LockTimeout(p) \/ TrainFail(p)
             \/ RecordCompleted(p) \/ ArtifactConflict(p)
    <3>1. UNCHANGED <<artifacts, promotions, memory>>
      BY <2>4 DEF Propose, EnterTry, AcquireLock, LockTimeout, TrainFail, RecordCompleted,
                  ArtifactConflict, durable
    <3>2. pc[p] # "armdone" /\ pc'[p] \in {"started", "waiting", "training", "failed", "artifact"}
      BY <2>4 DEF Propose, EnterTry, AcquireLock, LockTimeout, TrainFail, RecordCompleted,
                  ArtifactConflict, Goto, TypeOK
    <3>. QED BY <1>1, <2>1, <3>1, <3>2, ClaimMoved DEF memory, Promoting
  <2>5. CASE TrainOk(p)
    <3>1. UNCHANGED <<artifacts, promotions, todo, start, offset, results, champion>>
      BY <2>5 DEF TrainOk, durable
    <3>2. pc[p] = "training" /\ pc'[p] = "completed"
      BY <2>5 DEF TrainOk, Goto, TypeOK
    <3>. QED BY <1>1, <2>1, <3>1, <3>2, ClaimMoved DEF Promoting
  <2>6. CASE Interrupt(p)
    <3>1. UNCHANGED <<artifacts, promotions, memory>>
      BY <2>6 DEF Interrupt, durable
    <3>2. pc[p] # "armdone" /\ pc'[p] = "failed"
      BY <2>6 DEF Interrupt, Goto, TypeOK, TryLabels
    <3>. QED BY <1>1, <2>1, <3>1, <3>2, ClaimMoved DEF memory, Promoting
  <2>7. CASE RecordEvent(p) \/ RecordArchive(p) \/ \E part \in Parts : PutHidden(p, part)
    <3>1. UNCHANGED <<artifacts, promotions, memory>>
      BY <2>7 DEF RecordEvent, RecordArchive, PutHidden
    <3>2. \/ pc[p] \in {"event", "archive"} /\ pc'[p] \in {"archive", "return"}
          \/ pc[p] \in {"blind", "final"} /\ pc'[p] \in {"final", "promote"}
      BY <2>7 DEF RecordEvent, RecordArchive, PutHidden, Parts, Goto, TypeOK
    <3>. QED BY <1>1, <2>1, <3>1, <3>2, ClaimMoved DEF memory, Promoting
  <2>8. CASE RecordArtifact(p)
    BY <1>1, <2>1, <2>8, ClaimArtifact DEF RecordArtifact
  <2>9. CASE ReturnCompleted(p)
    <3> DEFINE r == [exp |-> Attempt(p), ok |-> TRUE, score |-> score[p]]
    <3>1. r \in Results /\ r.exp = Attempt(p) /\ pc[p] = "return" /\ Returned(p, r)
      BY <2>9, AttemptType DEF ReturnCompleted, Results, TypeOK, Attempting, TryLabels
    <3>2. UNCHANGED <<artifacts, promotions>>
      BY <2>9 DEF ReturnCompleted, durable
    <3> HIDE DEF r
    <3>. QED BY <1>1, <2>1, <3>1, <3>2, ClaimReturned
  <2>10. CASE RecordFailed(p)
    <3> DEFINE r == [exp |-> Attempt(p), ok |-> FALSE, score |-> NoOne]
    <3>1. r \in Results /\ ~r.ok /\ pc[p] = "failed" /\ Returned(p, r)
      BY <2>10, AttemptType DEF RecordFailed, Results, Attempting
    <3>2. UNCHANGED <<artifacts, promotions>>
      BY <2>10 DEF RecordFailed
    <3> HIDE DEF r
    <3>. QED BY <1>1, <2>1, <3>1, <3>2, ClaimReturned
  <2>11. CASE ChooseChampion(p)
    BY <1>1, <2>1, <2>11, ClaimChosen DEF ChooseChampion, durable
  <2>12. CASE NoChampion(p)
    <3>1. UNCHANGED <<artifacts, promotions, memory>> /\ pc[p] = "choose" /\ pc'[p] = "armdone"
      BY <2>12 DEF NoChampion, Goto, TypeOK, durable
    <3>. QED BY <1>1, <2>1, <3>1, ClaimMoved DEF memory, Promoting
  <2>13. CASE RecordPromotion(p)
    BY <2>1, <2>13, ClaimPromoted
  <2>. QED
    BY <1>3, <2>2, <2>3, <2>4, <2>5, <2>6, <2>7, <2>8, <2>9, <2>10, <2>11, <2>12, <2>13 DEF Step
<1>. QED BY <1>2, <1>3 DEF Next

\* No candidate is promoted twice, however many invocations announce the same
\* id and wherever they are interrupted or killed.
THEOREM AlwaysPromotedOnce == Spec => []PromotedOnce
<1>1. Init => ClaimInv /\ PromotedOnce
  <2> SUFFICES ASSUME Init PROVE ClaimInv /\ PromotedOnce
    OBVIOUS
  <2>1. \A p \in Procs, e \in Experiments : ~Holds(p, e)
    BY DEF Init, Holds, HasResult
  <2>2. \A p \in Procs : pc[p] \notin Promoting
    BY DEF Init, Promoting
  <2>3. promotions = <<>>
    BY DEF Init
  <2>. QED BY <2>1, <2>2, <2>3 DEF ClaimInv, PromotedOnce
<1>2. QED
  BY <1>1, ClaimStep, TypeCorrect, PTL DEF Spec

-----------------------------------------------------------------------------
(* Evidence and lineage. What a process is about to write, and what it has    *)
(* in memory of the attempts before, rests on what the ledger already says.   *)

Announced == TryLabels \cup {"started", "failed"}

Backed(p) ==
    /\ pc[p] \in Announced => HasRow(Attempt(p), "RUNNING")
    /\ pc[p] = "artifact" => HasRow(Attempt(p), "COMPLETED")
    /\ pc[p] = "event" => Attempt(p) \in artifacts
    /\ pc[p] = "archive" => Attempt(p) \in completions
    /\ pc[p] = "return" => Attempt(p) \in archived
    /\ \A i \in DOMAIN results[p] : results[p][i].ok => results[p][i].exp \in archived
    /\ champion[p] # NoOne => champion[p] \in archived
    /\ leader[p] # NoOne =>
          pc[p] # "idle" /\ leader[p] \in archived /\ leader[p][1] = Arm(p)

StoresBacked ==
    /\ archived \subseteq completions
    /\ completions \subseteq artifacts
    /\ \A e \in artifacts : HasRow(e, "COMPLETED")

VerdictsBacked ==
    \A i \in DOMAIN rows : rows[i].status # "RUNNING" =>
        \E j \in 1 .. i - 1 : rows[j].exp = rows[i].exp /\ rows[j].status = "RUNNING"

EvidenceInv ==
    /\ StoresBacked /\ VerdictsBacked /\ LineageSound
    /\ \A p \in Procs : Backed(p)

\* The ledger only grows.
Grown ==
    /\ archived \subseteq archived' /\ completions \subseteq completions'
    /\ artifacts \subseteq artifacts'
    /\ \A e, s : HasRow(e, s) => HasRow(e, s)'

LEMMA BackedElsewhere ==
    ASSUME NEW p \in Procs, Elsewhere(p), Grown, NEW q \in Procs \ {p}, Backed(q)
    PROVE  Backed(q)'
<1>1. /\ pc'[q] = pc[q] /\ todo'[q] = todo[q] /\ start'[q] = start[q]
      /\ offset'[q] = offset[q] /\ results'[q] = results[q] /\ champion'[q] = champion[q]
      /\ leader'[q] = leader[q]
  BY DEF Elsewhere
<1>2. Attempt(q)' = Attempt(q) /\ Arm(q)' = Arm(q)
  BY <1>1 DEF Attempt, Arm
<1>. QED BY <1>1, <1>2 DEF Backed, Grown

\* An appended row keeps the others.
LEMMA RowAppended ==
    ASSUME TypeOK, NEW e, NEW s, NEW par, AppendRow(e, s, par)
    PROVE  /\ \A i \in DOMAIN rows : i \in DOMAIN rows' /\ rows'[i] = rows[i]
           /\ \A i \in DOMAIN rows' : i \in DOMAIN rows \/ i = Len(rows) + 1
           /\ rows'[Len(rows) + 1] = [exp |-> e, status |-> s, parent |-> par]
           /\ Len(rows) + 1 \in DOMAIN rows'
           /\ DOMAIN rows = 1 .. Len(rows) /\ Len(rows) \in Nat
<1>. DEFINE r == [exp |-> e, status |-> s, parent |-> par]
<1>1. rows \in Seq(Rows) /\ rows' = Append(rows, r)
  BY DEF TypeOK, AppendRow
<1>. HIDE DEF r
<1>2. /\ \A i \in DOMAIN rows : i \in DOMAIN rows' /\ rows'[i] = rows[i]
      /\ \A i \in DOMAIN rows' : i \in DOMAIN rows \/ i = Len(rows) + 1
      /\ rows'[Len(rows) + 1] = r
      /\ Len(rows) + 1 \in DOMAIN rows'
      /\ DOMAIN rows = 1 .. Len(rows) /\ Len(rows) \in Nat
  BY <1>1
<1>. QED BY <1>2 DEF r

\* The row a process appends has the evidence it needs, and its parent too.
LEMMA RowBacked ==
    ASSUME TypeOK, MemoryInv, EvidenceInv, NEW p \in Procs, NEW s \in Status,
           pc[p] \in Attempting, s # "RUNNING" => pc[p] \in Announced,
           AppendRow(Attempt(p), s, Parent(p))
    PROVE  /\ \A e, t : HasRow(e, t) => HasRow(e, t)'
           /\ \A e : e = Attempt(p) => HasRow(e, s)'
           /\ VerdictsBacked' /\ LineageSound'
<1> DEFINE n == Len(rows) + 1
<1>0. PICK e : e = Attempt(p)
  OBVIOUS
<1>1. /\ \A i \in DOMAIN rows : i \in DOMAIN rows' /\ rows'[i] = rows[i]
      /\ \A i \in DOMAIN rows' : i \in DOMAIN rows \/ i = n
      /\ rows'[n] = [exp |-> e, status |-> s, parent |-> Parent(p)]
      /\ n \in DOMAIN rows'
      /\ DOMAIN rows = 1 .. Len(rows) /\ Len(rows) \in Nat
  BY <1>0, RowAppended
<1>2. rows'[n].exp = e /\ rows'[n].status = s /\ rows'[n].parent = Parent(p)
  BY <1>1
<1>3. e[1] = Arm(p)
  BY <1>0, AttemptType
<1>4. \A f, t : HasRow(f, t) => HasRow(f, t)'
  BY <1>1 DEF HasRow
<1>5. HasRow(e, s)'
  BY <1>1, <1>2 DEF HasRow
<1>6. s # "RUNNING" => \E j \in 1 .. n - 1 : rows'[j].exp = e /\ rows'[j].status = "RUNNING"
  BY <1>0, <1>1 DEF EvidenceInv, Backed, HasRow
<1>7. VerdictsBacked'
  BY <1>1, <1>2, <1>6 DEF EvidenceInv, VerdictsBacked
<1>8. Parent(p) # NoOne =>
          /\ Parent(p)[1] = e[1]
          /\ \E j \in 1 .. n - 1 : rows'[j].exp = Parent(p) /\ rows'[j].status = "COMPLETED"
  <2>1. SUFFICES ASSUME Parent(p) # NoOne
                 PROVE  /\ Parent(p)[1] = e[1]
                        /\ \E j \in 1 .. n - 1 : rows'[j].exp = Parent(p) /\ rows'[j].status = "COMPLETED"
    OBVIOUS
  <2>2. Parent(p) = leader[p]
    BY <2>1 DEF Parent
  <2>3. Parent(p) \in archived /\ Parent(p)[1] = Arm(p)
    BY <2>1, <2>2 DEF EvidenceInv, Backed
  <2>4. HasRow(Parent(p), "COMPLETED")
    BY <2>3 DEF EvidenceInv, StoresBacked
  <2>. QED BY <1>1, <1>3, <2>3, <2>4 DEF HasRow
<1>9. LineageSound'
  <2>1. ASSUME NEW i \in DOMAIN rows PROVE i \in Nat /\ i <= Len(rows)
               /\ \A j \in 1 .. i - 1 : j \in DOMAIN rows
    BY <1>1
  <2>. QED BY <1>1, <1>2, <1>8, <2>1 DEF EvidenceInv, LineageSound
<1>. QED BY <1>0, <1>4, <1>5, <1>7, <1>9

\* A step that adds no row.
LEMMA EvidenceKept ==
    ASSUME EvidenceInv, NEW p \in Procs, Elsewhere(p), UNCHANGED rows,
           archived \subseteq archived', completions \subseteq completions',
           artifacts \subseteq artifacts', StoresBacked', Backed(p)'
    PROVE  EvidenceInv'
<1>1. Grown
  BY DEF Grown, HasRow
<1>2. \A q \in Procs : Backed(q)'
  BY <1>1, BackedElsewhere DEF EvidenceInv
<1>3. VerdictsBacked' /\ LineageSound'
  BY DEF EvidenceInv, VerdictsBacked, LineageSound
<1>. QED BY <1>2, <1>3 DEF EvidenceInv

LEMMA StoresKept ==
    ASSUME EvidenceInv, UNCHANGED <<rows, artifacts, completions, archived>>
    PROVE  StoresBacked'
BY DEF EvidenceInv, StoresBacked, HasRow

\* A step that adds a row.
LEMMA EvidenceAdded ==
    ASSUME TypeOK, MemoryInv, EvidenceInv, NEW p \in Procs, Elsewhere(p), NEW s \in Status,
           pc[p] \in Attempting, s # "RUNNING" => pc[p] \in Announced,
           AppendRow(Attempt(p), s, Parent(p)),
           UNCHANGED <<artifacts, completions, archived>>, Backed(p)'
    PROVE  EvidenceInv'
<1>1. (\A e, t : HasRow(e, t) => HasRow(e, t)') /\ VerdictsBacked' /\ LineageSound'
  BY RowBacked
<1>2. Grown
  BY <1>1 DEF Grown
<1>3. \A q \in Procs : Backed(q)'
  BY <1>2, BackedElsewhere DEF EvidenceInv
<1>4. StoresBacked'
  BY <1>1 DEF EvidenceInv, StoresBacked
<1>. QED BY <1>1, <1>3, <1>4 DEF EvidenceInv

\* A process that forgets everything, or starts an arm.
LEMMA EvidenceDropped ==
    ASSUME EvidenceInv, NEW p \in Procs, Elsewhere(p),
           UNCHANGED <<rows, artifacts, completions, archived>>,
           results'[p] = <<>>, champion'[p] = NoOne, leader'[p] = NoOne,
           pc'[p] \in {"idle", "propose"}
    PROVE  EvidenceInv'
<1>1. Backed(p)'
  BY DEF Backed, Announced, TryLabels
<1>. QED BY <1>1, StoresKept, EvidenceKept

\* A step of the process that changes its label, and the chain allows it.
LEMMA EvidenceMoved ==
    ASSUME EvidenceInv, NEW p \in Procs, Elsewhere(p),
           UNCHANGED <<rows, artifacts, completions, archived>>,
           todo'[p] = todo[p], start'[p] = start[p], offset'[p] = offset[p],
           results'[p] = results[p], champion'[p] = champion[p], leader'[p] = leader[p],
           pc'[p] \in Announced => pc[p] \in Announced,
           pc'[p] \notin {"artifact", "event", "archive", "return", "idle"}
    PROVE  EvidenceInv'
<1>1. Attempt(p)' = Attempt(p) /\ Arm(p)' = Arm(p)
  BY DEF Attempt, Arm
<1>2. \A e, s : HasRow(e, s)' <=> HasRow(e, s)
  BY DEF HasRow
<1>3. Backed(p)'
  BY <1>1, <1>2 DEF EvidenceInv, Backed
<1>. QED BY <1>3, StoresKept, EvidenceKept

LEMMA EvidencePropose ==
    ASSUME TypeOK, MemoryInv, EvidenceInv, NEW p \in Procs, Propose(p), Elsewhere(p)
    PROVE  EvidenceInv'
<1>1. /\ pc[p] = "propose" /\ pc'[p] = "started"
      /\ AppendRow(Attempt(p), "RUNNING", Parent(p))
      /\ UNCHANGED <<artifacts, completions, archived, memory>>
  BY DEF Propose, Goto, TypeOK
<1>2. Attempt(p)' = Attempt(p) /\ Arm(p)' = Arm(p)
  BY <1>1 DEF Attempt, Arm, memory
<1>3. "RUNNING" \in Status /\ pc[p] \in Attempting
  BY <1>1 DEF Status, Attempting
<1>4. HasRow(Attempt(p), "RUNNING")'
  BY <1>1, <1>2, <1>3, RowBacked
<1>5. Backed(p)'
  BY <1>1, <1>2, <1>4 DEF EvidenceInv, Backed, memory
<1>. QED BY <1>1, <1>3, <1>5, EvidenceAdded

LEMMA EvidenceCompleted ==
    ASSUME TypeOK, MemoryInv, EvidenceInv, NEW p \in Procs, RecordCompleted(p), Elsewhere(p)
    PROVE  EvidenceInv'
<1>1. /\ pc[p] = "completed" /\ pc'[p] = "artifact"
      /\ AppendRow(Attempt(p), "COMPLETED", Parent(p))
      /\ UNCHANGED <<artifacts, completions, archived, memory>>
  BY DEF RecordCompleted, Goto, TypeOK
<1>2. Attempt(p)' = Attempt(p) /\ Arm(p)' = Arm(p)
  BY <1>1 DEF Attempt, Arm, memory
<1>3. "COMPLETED" \in Status /\ pc[p] \in Attempting /\ pc[p] \in Announced
  BY <1>1 DEF Status, Attempting, Announced, TryLabels
<1>4. (\A e, t : HasRow(e, t) => HasRow(e, t)') /\ HasRow(Attempt(p), "COMPLETED")'
  BY <1>1, <1>2, <1>3, RowBacked
<1>5. Backed(p)'
  BY <1>1, <1>2, <1>3, <1>4 DEF EvidenceInv, Backed, memory
<1>. QED BY <1>1, <1>3, <1>5, EvidenceAdded

\* The artifact, the event and the archive row: each rests on the one before.
LEMMA EvidenceStored ==
    ASSUME TypeOK, EvidenceInv, NEW p \in Procs, Elsewhere(p),
           RecordArtifact(p) \/ RecordEvent(p) \/ RecordArchive(p)
    PROVE  EvidenceInv'
<1>1. UNCHANGED <<rows, memory>>
  BY DEF RecordArtifact, RecordEvent, RecordArchive
<1>2. Attempt(p)' = Attempt(p) /\ Arm(p)' = Arm(p)
  BY <1>1 DEF Attempt, Arm, memory
<1>3. \A e, s : HasRow(e, s)' <=> HasRow(e, s)
  BY <1>1 DEF HasRow
<1>4. CASE RecordArtifact(p)
  <2>1. /\ pc[p] = "artifact" /\ pc'[p] = "event"
        /\ artifacts' = artifacts \cup {Attempt(p)} /\ UNCHANGED <<completions, archived>>
    BY <1>4 DEF RecordArtifact, Goto, TypeOK
  <2>2. StoresBacked'
    BY <1>3, <2>1 DEF EvidenceInv, StoresBacked, Backed
  <2>3. Backed(p)'
    BY <1>1, <1>2, <1>3, <2>1 DEF EvidenceInv, Backed, memory, Announced, TryLabels
  <2>. QED BY <1>1, <2>1, <2>2, <2>3, EvidenceKept
<1>5. CASE RecordEvent(p)
  <2>1. /\ pc[p] = "event" /\ pc'[p] = "archive"
        /\ completions' = completions \cup {Attempt(p)} /\ UNCHANGED <<artifacts, archived>>
    BY <1>5 DEF RecordEvent, Goto, TypeOK
  <2>2. StoresBacked'
    BY <1>3, <2>1 DEF EvidenceInv, StoresBacked, Backed
  <2>3. Backed(p)'
    BY <1>1, <1>2, <1>3, <2>1 DEF EvidenceInv, Backed, memory, Announced, TryLabels
  <2>. QED BY <1>1, <2>1, <2>2, <2>3, EvidenceKept
<1>6. CASE RecordArchive(p)
  <2>1. /\ pc[p] = "archive" /\ pc'[p] = "return"
        /\ archived' = archived \cup {Attempt(p)} /\ UNCHANGED <<artifacts, completions>>
    BY <1>6 DEF RecordArchive, Goto, TypeOK
  <2>2. StoresBacked'
    BY <1>3, <2>1 DEF EvidenceInv, StoresBacked, Backed
  <2>3. Backed(p)'
    BY <1>1, <1>2, <1>3, <2>1 DEF EvidenceInv, Backed, memory, Announced, TryLabels
  <2>. QED BY <1>1, <2>1, <2>2, <2>3, EvidenceKept
<1>. QED BY <1>4, <1>5, <1>6

\* What run_one returned, and the leader it may become.
LEMMA ReturnedBacked ==
    ASSUME TypeOK, MemoryInv, EvidenceInv, NEW p \in Procs, NEW r \in Results,
           pc[p] \in {"return", "failed"}, Returned(p, r), r.exp = Attempt(p),
           r.ok => pc[p] = "return", UNCHANGED <<archived, todo, champion>>
    PROVE  Backed(p)'
<1>1. results[p] \in Seq(Results) /\ results'[p] = Append(results[p], r)
  BY DEF TypeOK, Returned
<1>2. pc'[p] \in {"propose", "choose"}
  BY DEF TypeOK, Returned, Goto
<1>3. \A i \in DOMAIN results'[p] :
          \/ i \in DOMAIN results[p] /\ results'[p][i] = results[p][i]
          \/ results'[p][i] = r
  BY <1>1
<1>4. leader'[p] = leader[p] \/ (leader'[p] = Attempt(p) /\ r.ok)
  BY DEF TypeOK, Returned
<1>5. r.ok => Attempt(p) \in archived
  BY DEF EvidenceInv, Backed
<1>6. Attempt(p)[1] = Arm(p) /\ Arm(p)' = Arm(p)
  BY AttemptType DEF Arm, Attempting, TryLabels
<1>7. pc'[p] \notin Announced \cup {"artifact", "event", "archive", "return", "idle"}
  BY <1>2 DEF Announced, TryLabels
<1>8. \A i \in DOMAIN results'[p] : results'[p][i].ok => results'[p][i].exp \in archived'
  BY <1>3, <1>5 DEF EvidenceInv, Backed
<1>9. leader'[p] # NoOne => leader'[p] \in archived' /\ leader'[p][1] = Arm(p)'
  BY <1>4, <1>5, <1>6 DEF EvidenceInv, Backed
<1>10. champion'[p] # NoOne => champion'[p] \in archived'
  BY DEF EvidenceInv, Backed
<1>. QED BY <1>7, <1>8, <1>9, <1>10 DEF Backed

LEMMA EvidenceReturned ==
    ASSUME TypeOK, MemoryInv, EvidenceInv, NEW p \in Procs, Elsewhere(p),
           ReturnCompleted(p) \/ RecordFailed(p)
    PROVE  EvidenceInv'
<1>1. CASE ReturnCompleted(p)
  <2> DEFINE r == [exp |-> Attempt(p), ok |-> TRUE, score |-> score[p]]
  <2>1. r \in Results /\ r.exp = Attempt(p) /\ pc[p] = "return" /\ Returned(p, r)
    BY <1>1, AttemptType DEF ReturnCompleted, Results, TypeOK, Attempting, TryLabels
  <2>2. UNCHANGED <<rows, artifacts, completions, archived, todo, champion>>
    BY <1>1 DEF ReturnCompleted, durable
  <2> HIDE DEF r
  <2>3. Backed(p)'
    BY <2>1, <2>2, ReturnedBacked
  <2>. QED BY <2>2, <2>3, StoresKept, EvidenceKept
<1>2. CASE RecordFailed(p)
  <2> DEFINE r == [exp |-> Attempt(p), ok |-> FALSE, score |-> NoOne]
  <2>1. pc[p] = "failed" /\ "FAILED" \in Status /\ pc[p] \in Attempting /\ pc[p] \in Announced
    BY <1>2 DEF RecordFailed, Status, Attempting, Announced
  <2>2. r \in Results /\ r.exp = Attempt(p) /\ ~r.ok /\ Returned(p, r)
    BY <1>2, <2>1, AttemptType DEF RecordFailed, Results
  <2>3. /\ UNCHANGED <<artifacts, completions, archived, todo, champion>>
        /\ AppendRow(Attempt(p), "FAILED", Parent(p))
    BY <1>2 DEF RecordFailed
  <2> HIDE DEF r
  <2>4. Backed(p)'
    BY <2>1, <2>2, <2>3, ReturnedBacked
  <2>. QED BY <2>1, <2>3, <2>4, EvidenceAdded
<1>. QED BY <1>1, <1>2

LEMMA EvidenceChosen ==
    ASSUME TypeOK, EvidenceInv, NEW p \in Procs, ChooseChampion(p), Elsewhere(p)
    PROVE  EvidenceInv'
<1>1. PICK i \in DOMAIN results[p] :
          IsChampion(p, i) /\ champion' = [champion EXCEPT ![p] = results[p][i].exp]
  BY DEF ChooseChampion
<1>2. /\ pc[p] = "choose" /\ pc'[p] = "blind" /\ champion'[p] = results[p][i].exp
      /\ UNCHANGED <<rows, artifacts, completions, archived, results, leader, todo>>
  BY <1>1 DEF ChooseChampion, Goto, TypeOK, durable
<1>3. results[p][i].ok
  BY <1>1 DEF IsChampion, Valid
<1>4. Arm(p)' = Arm(p)
  BY <1>2 DEF Arm
<1>5. Backed(p)'
  BY <1>2, <1>3, <1>4 DEF EvidenceInv, Backed, Announced, TryLabels
<1>. QED BY <1>2, <1>5, StoresKept, EvidenceKept

LEMMA EvidenceStep == TypeOK /\ MemoryInv /\ EvidenceInv /\ [Next]_vars => EvidenceInv'
<1> SUFFICES ASSUME TypeOK, MemoryInv, EvidenceInv, [Next]_vars
             PROVE  EvidenceInv'
  OBVIOUS
<1>1. CASE UNCHANGED vars \/ \E o \in orphans : OrphanExit(o)
  <2>1. UNCHANGED <<durable, pc, memory>>
    BY <1>1 DEF vars, OrphanExit
  <2>2. \A p \in Procs : Attempt(p)' = Attempt(p) /\ Arm(p)' = Arm(p)
    BY <2>1 DEF Attempt, Arm, memory
  <2>3. \A e, s : HasRow(e, s)' <=> HasRow(e, s)
    BY <2>1 DEF HasRow, durable
  <2>4. UNCHANGED <<rows, artifacts, completions, archived, pc, results, champion, leader>>
    BY <2>1 DEF durable, memory
  <2>5. \A p \in Procs : Backed(p)'
    BY <2>2, <2>3, <2>4 DEF EvidenceInv, Backed
  <2>6. VerdictsBacked' /\ LineageSound'
    BY <2>4 DEF EvidenceInv, VerdictsBacked, LineageSound
  <2>. QED BY <2>4, <2>5, <2>6, StoresKept DEF EvidenceInv
<1>2. ASSUME NEW p \in Procs,
             Begin(p) \/ Step(p) \/ Interrupt(p) \/ LateInterrupt(p) \/ HardKill(p)
      PROVE  EvidenceInv'
  <2>1. Elsewhere(p)
    BY <1>2, ElsewhereStep
  <2>2. CASE Begin(p) \/ NextArm(p)
    <3>1. /\ UNCHANGED <<rows, artifacts, completions, archived>> /\ pc'[p] = "propose"
          /\ results'[p] = <<>> /\ champion'[p] = NoOne /\ leader'[p] = NoOne
      BY <2>2 DEF Begin, NextArm, Goto, TypeOK, durable
    <3>. QED BY <2>1, <3>1, EvidenceDropped
  <2>3. CASE Exit(p) \/ LateInterrupt(p) \/ HardKill(p)
    <3>1. /\ UNCHANGED <<rows, artifacts, completions, archived>> /\ pc'[p] = "idle"
          /\ results'[p] = <<>> /\ champion'[p] = NoOne /\ leader'[p] = NoOne
      BY <2>3 DEF Exit, LateInterrupt, HardKill, Forget, Goto, TypeOK, durable
    <3>. QED BY <2>1, <3>1, EvidenceDropped
  <2>4. CASE EnterTry(p) \/ AcquireLock(p) \/ LockTimeout(p) \/ TrainFail(p)
             \/ ArtifactConflict(p) \/ Interrupt(p)
    <3>1. UNCHANGED <<rows, artifacts, completions, archived, memory>>
      BY <2>4 DEF EnterTry, AcquireLock, LockTimeout, TrainFail, ArtifactConflict, Interrupt, durable
    <3>2. pc[p] \in Announced /\ pc'[p] \in {"waiting", "training", "failed"}
      BY <2>4 DEF EnterTry, AcquireLock, LockTimeout, TrainFail, ArtifactConflict, Interrupt,
                  Goto, TypeOK, Announced, TryLabels
    <3>. QED BY <2>1, <3>1, <3>2, EvidenceMoved DEF memory
  <2>5. CASE TrainOk(p)
    <3>1. UNCHANGED <<rows, artifacts, completions, archived, todo, start, offset, results,
                      champion, leader>>
      BY <2>5 DEF TrainOk, durable
    <3>2. pc[p] = "training" /\ pc'[p] = "completed"
      BY <2>5 DEF TrainOk, Goto, TypeOK
    <3>. QED BY <2>1, <3>1, <3>2, EvidenceMoved DEF Announced, TryLabels
  <2>6. CASE NoChampion(p) \/ RecordPromotion(p) \/ \E part \in Parts : PutHidden(p, part)
    <3>1. UNCHANGED <<rows, artifacts, completions, archived, memory>>
      BY <2>6 DEF NoChampion, RecordPromotion, PutHidden, durable
    <3>2. pc'[p] \in {"final", "promote", "armdone"}
      BY <2>6 DEF NoChampion, RecordPromotion, PutHidden, Goto, TypeOK
    <3>. QED BY <2>1, <3>1, <3>2, EvidenceMoved DEF memory, Announced, TryLabels
  <2>7. CASE Propose(p)
    BY <2>1, <2>7, EvidencePropose
  <2>8. CASE RecordCompleted(p)
    BY <2>1, <2>8, EvidenceCompleted
  <2>9. CASE RecordArtifact(p) \/ RecordEvent(p) \/ RecordArchive(p)
    BY <2>1, <2>9, EvidenceStored
  <2>10. CASE ReturnCompleted(p) \/ RecordFailed(p)
    BY <2>1, <2>10, EvidenceReturned
  <2>11. CASE ChooseChampion(p)
    BY <2>1, <2>11, EvidenceChosen
  <2>. QED
    BY <1>2, <2>2, <2>3, <2>4, <2>5, <2>6, <2>7, <2>8, <2>9, <2>10, <2>11 DEF Step
<1>. QED BY <1>1, <1>2 DEF Next

LEMMA EvidenceInit == Init => EvidenceInv
<1> SUFFICES ASSUME Init PROVE EvidenceInv
  OBVIOUS
<1>1. rows = <<>> /\ artifacts = {} /\ completions = {} /\ archived = {}
  BY DEF Init
<1>2. StoresBacked /\ VerdictsBacked /\ LineageSound
  BY <1>1 DEF StoresBacked, VerdictsBacked, LineageSound
<1>3. \A p \in Procs : Backed(p)
  BY DEF Init, Backed, Announced, TryLabels
<1>. QED BY <1>2, <1>3 DEF EvidenceInv

LEMMA EvidenceAlways == Spec => []EvidenceInv
BY EvidenceInit, EvidenceStep, TypeCorrect, PTL DEF Spec

\* Every durable trace of a success rests on the one written before it, and a
\* champion has the whole chain, whatever stops the processes in between.
THEOREM AlwaysEvidence == Spec => []EvidenceChain
<1>1. EvidenceInv => EvidenceChain
  BY DEF EvidenceInv, StoresBacked, VerdictsBacked, Backed, EvidenceChain
<1>. QED BY <1>1, EvidenceAlways, PTL

\* A recorded parent is an attempt of the same arm that had completed before.
THEOREM AlwaysLineage == Spec => []LineageSound
<1>1. EvidenceInv => LineageSound
  BY DEF EvidenceInv
<1>. QED BY <1>1, EvidenceAlways, PTL

-----------------------------------------------------------------------------
(* The runner implements the life cycle of an attempt, as long as one        *)
(* invocation runs at a time and no arm is listed twice.                     *)

OneAtATime == \A p, q \in Procs : p = q
DistinctArms ==
    \A list \in ArmLists : \A k, l \in 1 .. Len(list) : list[k] = list[l] => k = l

-----------------------------------------------------------------------------
(* The latest row.                                                           *)

IsLatest(e, i) == i \in RowsOf(e) /\ \A j \in RowsOf(e) : j <= i

\* Part of the invariant, since that finitely many rows have a last one is an
\* induction over them.
LatestInv == \A e \in Experiments : RowsOf(e) # {} => \E i \in RowsOf(e) : IsLatest(e, i)

LEMMA PhaseOfLatest ==
    ASSUME TypeOK, NEW e, NEW i, IsLatest(e, i)
    PROVE  Phase(e) = rows[i].status
<1> DEFINE P(k) == \A j \in RowsOf(e) : j <= k
<1>1. RowsOf(e) \subseteq Nat
  BY DEF TypeOK, RowsOf
<1>2. i \in RowsOf(e) /\ P(i)
  BY DEF IsLatest
<1>3. (CHOOSE k \in RowsOf(e) : P(k)) \in RowsOf(e) /\ P(CHOOSE k \in RowsOf(e) : P(k))
  BY <1>2
<1>4. (CHOOSE k \in RowsOf(e) : P(k)) = i
  BY <1>1, <1>2, <1>3
<1>. QED BY <1>2, <1>4 DEF Phase

\* The same, of this state and of the next.
PhaseIsLatest == \A e : \A i : IsLatest(e, i) => Phase(e) = rows[i].status

LEMMA PhasesAreLatest == (TypeOK => PhaseIsLatest) /\ (TypeOK => PhaseIsLatest)'
<1>1. TypeOK => PhaseIsLatest
  BY PhaseOfLatest DEF PhaseIsLatest
<1>. QED BY <1>1, PTL

\* An appended row is the latest of its attempt and of no other.
LEMMA PhaseAppended ==
    ASSUME TypeOK, TypeOK', LatestInv, NEW e \in Experiments, NEW s, NEW par, AppendRow(e, s, par)
    PROVE  /\ LatestInv'
           /\ Phase(e)' = s
           /\ \A f \in Experiments \ {e} : Phase(f)' = Phase(f)
<1>0. PICK n : n = Len(rows) + 1
  OBVIOUS
<1>1. /\ \A i \in DOMAIN rows : i \in DOMAIN rows' /\ rows'[i] = rows[i]
      /\ \A i \in DOMAIN rows' : i \in DOMAIN rows \/ i = n
      /\ rows'[n] = [exp |-> e, status |-> s, parent |-> par]
      /\ n \in DOMAIN rows'
      /\ DOMAIN rows = 1 .. Len(rows) /\ Len(rows) \in Nat
  BY <1>0, RowAppended
<1>2. rows'[n].exp = e /\ rows'[n].status = s
  BY <1>1
<1>3. \A i \in DOMAIN rows' : i <= n
  BY <1>0, <1>1
<1>4. IsLatest(e, n)'
  BY <1>1, <1>2, <1>3 DEF IsLatest, RowsOf
<1>5. \A f \in Experiments \ {e} : RowsOf(f)' = RowsOf(f)
  BY <1>1, <1>2 DEF RowsOf
<1>6. \A f \in Experiments \ {e} : \A i : IsLatest(f, i) => IsLatest(f, i)'
  BY <1>5 DEF IsLatest
<1>7. LatestInv'
  <2>1. ASSUME NEW f \in Experiments \ {e}, RowsOf(f)' # {}
        PROVE  \E i \in RowsOf(f)' : IsLatest(f, i)'
    BY <1>5, <1>6, <2>1 DEF LatestInv
  <2>2. n \in RowsOf(e)'
    BY <1>4 DEF IsLatest
  <2>. QED BY <1>4, <2>1, <2>2 DEF LatestInv
<1>8. Phase(e)' = s
  <2>1. Phase(e)' = rows'[n].status
    BY <1>4, PhasesAreLatest DEF PhaseIsLatest
  <2>. QED BY <1>2, <2>1
<1>9. ASSUME NEW f \in Experiments \ {e} PROVE Phase(f)' = Phase(f)
  <2>1. CASE RowsOf(f) = {}
    BY <1>5, <2>1 DEF Phase
  <2>2. CASE RowsOf(f) # {}
    <3>1. PICK i \in RowsOf(f) : IsLatest(f, i)
      BY <2>2 DEF LatestInv
    <3>2. Phase(f) = rows[i].status
      BY <3>1, PhaseOfLatest
    <3>3. IsLatest(f, i)'
      BY <1>6, <3>1
    <3>4. Phase(f)' = rows'[i].status
      BY <3>3, PhasesAreLatest DEF PhaseIsLatest
    <3>5. rows'[i] = rows[i]
      BY <1>1, <3>1 DEF RowsOf
    <3>. QED BY <3>2, <3>4, <3>5
  <2>. QED BY <2>1, <2>2
<1>. QED BY <1>7, <1>8, <1>9

-----------------------------------------------------------------------------
(* What the invocation under way knows: the ids it will announce are unused,  *)
(* and the one it works on is in the phase its place in run_one says.         *)

Unused(a, n) == \A i \in DOMAIN rows : rows[i].exp[1] = a => rows[i].exp[2] < n

Running == {"started", "waiting", "training", "completed"}
Finished == {"artifact", "event", "archive", "return"}

Number(p) == start[p][Arm(p)] + offset[p]

Queued(p) ==
    /\ \A k, l \in 1 .. Len(todo[p]) : todo[p][k] = todo[p][l] => k = l
    /\ \A k \in 2 .. Len(todo[p]) : Unused(todo[p][k], start[p][todo[p][k]])

Current(p) ==
    /\ pc[p] = "propose" => Unused(Arm(p), Number(p))
    /\ pc[p] \in Announced => Unused(Arm(p), Number(p) + 1)
    /\ pc[p] \in Running => Phase(Attempt(p)) = "RUNNING"
    /\ pc[p] \in Finished => Phase(Attempt(p)) = "COMPLETED"
    /\ pc[p] = "failed" => Phase(Attempt(p)) \in {"RUNNING", "COMPLETED"}

LifeInv == LatestInv /\ \A p \in Procs : pc[p] # "idle" => Queued(p) /\ Current(p)

LEMMA NumberType ==
    ASSUME TypeOK, MemoryInv, NEW p \in Procs, pc[p] # "idle"
    PROVE  /\ Len(todo[p]) \in Nat /\ Len(todo[p]) > 0 /\ Arm(p) = todo[p][1] /\ Arm(p) \in Arms
           /\ Number(p) \in Nat /\ Attempt(p) = <<Arm(p), Number(p)>>
           /\ \A k \in 1 .. Len(todo[p]) : start[p][todo[p][k]] \in Nat
<1>1. todo[p] \in Seq(Arms) /\ Len(todo[p]) > 0
  BY DEF TypeOK, MemoryInv
<1>2. Arm(p) = todo[p][1] /\ \A k \in 1 .. Len(todo[p]) : todo[p][k] \in Arms
  BY <1>1 DEF Arm
<1>3. \A a \in Arms : start[p][a] \in Nat
  BY RunnerAssumption DEF TypeOK
<1>4. offset[p] \in Nat
  BY RunnerAssumption DEF TypeOK
<1>5. Arm(p) \in Arms /\ Number(p) \in Nat
  BY <1>1, <1>2, <1>3, <1>4 DEF Number
<1>6. Attempt(p) = <<Arm(p), Number(p)>>
  BY DEF Attempt, Number
<1>. QED BY <1>1, <1>2, <1>3, <1>5, <1>6

LEMMA UnusedAppended ==
    ASSUME TypeOK, NEW e, NEW s, NEW par, AppendRow(e, s, par),
           NEW a, NEW n, Unused(a, n), e[1] = a => e[2] < n
    PROVE  Unused(a, n)'
<1>1. /\ \A i \in DOMAIN rows : rows'[i] = rows[i]
      /\ \A i \in DOMAIN rows' : i \in DOMAIN rows \/ rows'[i].exp = e
  <2>1. PICK m : m = Len(rows) + 1
    OBVIOUS
  <2>2. /\ \A i \in DOMAIN rows : rows'[i] = rows[i]
        /\ \A i \in DOMAIN rows' : i \in DOMAIN rows \/ i = m
        /\ rows'[m] = [exp |-> e, status |-> s, parent |-> par]
    BY <2>1, RowAppended
  <2>3. rows'[m].exp = e
    BY <2>2
  <2>. QED BY <2>2, <2>3
<1>. QED BY <1>1 DEF Unused

\* A row of the current attempt leaves the queued arms unused.
LEMMA QueuedAppended ==
    ASSUME TypeOK, MemoryInv, NEW p \in Procs, pc[p] # "idle", Queued(p), NEW s, NEW par,
           AppendRow(Attempt(p), s, par), todo' = todo, start' = start
    PROVE  Queued(p)'
<1>1. Attempt(p)[1] = todo[p][1] /\ 1 \in 1 .. Len(todo[p])
  BY NumberType
<1>2. ASSUME NEW k \in 2 .. Len(todo[p]) PROVE Unused(todo[p][k], start[p][todo[p][k]])'
  <2>1. todo[p][k] # todo[p][1] /\ Unused(todo[p][k], start[p][todo[p][k]])
    BY <1>1 DEF Queued
  <2>2. PICK e, a, n : e = Attempt(p) /\ a = todo[p][k] /\ n = start[p][todo[p][k]]
    OBVIOUS
  <2>3. Unused(a, n)'
    BY <1>1, <2>1, <2>2, UnusedAppended
  <2>. QED BY <2>2, <2>3 DEF Unused
<1>. QED BY <1>2 DEF Queued

LEMMA QueuedKept ==
    ASSUME NEW p, Queued(p), UNCHANGED <<rows, todo, start>> PROVE Queued(p)'
BY DEF Queued, Unused

\* The phase of the current attempt may move on, and the others' stand.
Advances(p, from, to) ==
    /\ Phase(Attempt(p)) \in from
    /\ LatestInv'
    /\ \A e : e = Attempt(p) => Phase(e)' = to
    /\ \A f \in Experiments : f # Attempt(p) => Phase(f)' = Phase(f)

LEMMA AttemptAdvances ==
    ASSUME TypeOK, TypeOK', MemoryInv, LifeInv, NEW p \in Procs, pc[p] \in Attempting,
           NEW from, Phase(Attempt(p)) \in from, NEW to, NEW par, AppendRow(Attempt(p), to, par)
    PROVE  Advances(p, from, to)
<1>1. Attempt(p) \in Experiments
  BY AttemptType
<1>2. PICK e : e = Attempt(p)
  OBVIOUS
<1>3. LatestInv' /\ Phase(e)' = to /\ \A f \in Experiments \ {e} : Phase(f)' = Phase(f)
  BY <1>1, <1>2, PhaseAppended DEF LifeInv
<1>. QED BY <1>2, <1>3 DEF Advances

\* A step of the abstract specification.
Phases == [e \in Experiments |-> Phase(e)]
LifeStep == Lifecycle!Next \/ UNCHANGED Phases

LEMMA AdvanceIsStep ==
    ASSUME NEW p, Attempt(p) \in Experiments, NEW from, NEW to, Advances(p, from, to),
           \/ from = {"absent"} /\ to = "RUNNING"
           \/ from = {"RUNNING"} /\ to = "COMPLETED"
           \/ from = {"RUNNING", "COMPLETED"} /\ to = "FAILED"
    PROVE  LifeStep
<1>1. PICK e \in Experiments : e = Attempt(p)
  OBVIOUS
<1>2. Phases' = [Phases EXCEPT ![e] = to]
  BY <1>1 DEF Advances, Phases
<1>3. Phases[e] \in from
  BY <1>1 DEF Advances, Phases
<1>4. Lifecycle!Move(e, from, to)
  BY <1>2, <1>3 DEF Lifecycle!Move, Phases
<1>. QED BY <1>4 DEF LifeStep, Lifecycle!Next

LEMMA NoRowNoStep == UNCHANGED rows => LifeStep
BY DEF LifeStep, Phases, Phase, RowsOf

LEMMA LatestKept == LatestInv /\ UNCHANGED rows => LatestInv'
BY DEF LatestInv, IsLatest, RowsOf

-----------------------------------------------------------------------------
LifeGoal == LifeInv' /\ LifeStep

LEMMA LifePropose ==
    ASSUME OneAtATime, TypeOK, TypeOK', MemoryInv, LifeInv, NEW p \in Procs, Propose(p)
    PROVE  LifeGoal
<1>1. /\ pc[p] = "propose" /\ pc'[p] = "started" /\ UNCHANGED memory
      /\ AppendRow(Attempt(p), "RUNNING", Parent(p))
  BY DEF Propose, Goto, TypeOK
<1>2. Queued(p) /\ Unused(Arm(p), Number(p)) /\ LatestInv
  BY <1>1 DEF LifeInv, Current
<1>3. Attempt(p) = <<Arm(p), Number(p)>> /\ Number(p) \in Nat /\ Attempt(p) \in Experiments
  BY <1>1, NumberType, AttemptType DEF Attempting
<1>4. RowsOf(Attempt(p)) = {}
  BY <1>2, <1>3 DEF Unused, RowsOf
<1>5. Phase(Attempt(p)) \in {"absent"}
  BY <1>4 DEF Phase
<1>6. Advances(p, {"absent"}, "RUNNING")
  BY <1>1, <1>5, AttemptAdvances DEF Attempting
<1>7. Attempt(p)' = Attempt(p) /\ Arm(p)' = Arm(p) /\ Number(p)' = Number(p)
  BY <1>1 DEF Attempt, Arm, Number, memory
<1>8. Unused(Arm(p), Number(p) + 1)
  <2>1. \A i \in DOMAIN rows : rows[i].exp[2] \in Nat
    <3>1. \A i \in DOMAIN rows : rows[i] \in Rows
      BY DEF TypeOK
    <3>2. \A r \in Rows : r.exp[2] \in Nat
      BY RunnerAssumption DEF Rows, Experiments, Indices
    <3>. QED BY <3>1, <3>2
  <2>. QED BY <1>2, <1>3, <2>1 DEF Unused
<1>9. PICK e, a, n : e = Attempt(p) /\ a = Arm(p) /\ n = Number(p) + 1
  OBVIOUS
<1>10. e[2] < n
  BY <1>3, <1>9
<1>11. Unused(a, n)'
  BY <1>1, <1>8, <1>9, <1>10, UnusedAppended
<1>12. Current(p)'
  BY <1>1, <1>6, <1>7, <1>9, <1>11 DEF Current, Advances, Unused, Running, Finished
<1>13. Queued(p)'
  BY <1>1, <1>2, QueuedAppended DEF memory
<1>14. LifeInv'
  BY <1>6, <1>12, <1>13 DEF LifeInv, Advances, OneAtATime
<1>. QED BY <1>3, <1>6, <1>14, AdvanceIsStep DEF LifeGoal

LEMMA LifeCompleted ==
    ASSUME OneAtATime, TypeOK, TypeOK', MemoryInv, LifeInv, NEW p \in Procs, RecordCompleted(p)
    PROVE  LifeGoal
<1>1. /\ pc[p] = "completed" /\ pc'[p] = "artifact" /\ UNCHANGED memory
      /\ AppendRow(Attempt(p), "COMPLETED", Parent(p))
  BY DEF RecordCompleted, Goto, TypeOK
<1>2. Queued(p) /\ Unused(Arm(p), Number(p) + 1) /\ Phase(Attempt(p)) \in {"RUNNING"}
  BY <1>1 DEF LifeInv, Current, Announced, TryLabels, Running
<1>3. /\ Attempt(p) = <<Arm(p), Number(p)>> /\ Number(p) \in Nat
      /\ pc[p] \in Attempting /\ Attempt(p) \in Experiments
  BY <1>1, NumberType, AttemptType DEF Attempting, TryLabels
<1>4. Advances(p, {"RUNNING"}, "COMPLETED")
  BY <1>1, <1>2, <1>3, AttemptAdvances
<1>5. Attempt(p)' = Attempt(p) /\ Arm(p)' = Arm(p) /\ Number(p)' = Number(p)
  BY <1>1 DEF Attempt, Arm, Number, memory
<1>6. PICK e, a, n : e = Attempt(p) /\ a = Arm(p) /\ n = Number(p) + 1
  OBVIOUS
<1>7. e[2] < n
  BY <1>3, <1>6
<1>8. Unused(a, n)'
  BY <1>1, <1>2, <1>6, <1>7, UnusedAppended
<1>9. Current(p)'
  BY <1>1, <1>4, <1>5, <1>6, <1>8 DEF Current, Advances, Unused, Running, Finished
<1>10. Queued(p)'
  BY <1>1, <1>2, QueuedAppended DEF memory
<1>11. LifeInv'
  BY <1>4, <1>9, <1>10 DEF LifeInv, Advances, OneAtATime
<1>. QED BY <1>3, <1>4, <1>11, AdvanceIsStep DEF LifeGoal

\* What follows the verdict: the next number, or the choice of a champion.
LEMMA NextNumber ==
    ASSUME TypeOK, MemoryInv, NEW p \in Procs, pc[p] \in {"return", "failed"}, NEW r,
           Returned(p, r), UNCHANGED <<todo, start>>,
           NEW a, NEW n, a = Arm(p), n = Number(p) + 1, Unused(a, n)'
    PROVE  pc'[p] \in {"propose", "choose"} /\ Current(p)'
<1>1. pc'[p] \in {"propose", "choose"} /\ offset'[p] = offset[p] + 1
  BY DEF Returned, Goto, TypeOK
<1>2. Arm(p)' = a
  BY DEF Arm
<1>3. start[p][Arm(p)] \in Nat /\ offset[p] \in Nat
  <2>1. pc[p] # "idle"
    OBVIOUS
  <2>2. Len(todo[p]) \in Nat /\ Len(todo[p]) > 0 /\ Arm(p) = todo[p][1]
    BY <2>1, NumberType
  <2>3. start[p][todo[p][1]] \in Nat
    BY <2>1, <2>2, NumberType
  <2>4. offset[p] \in 0 .. Epoch
    BY DEF TypeOK
  <2>. QED BY <2>2, <2>3, <2>4, RunnerAssumption
<1>4. Number(p)' = n
  BY <1>1, <1>2, <1>3 DEF Number
<1>5. pc'[p] \notin Announced \cup Running \cup Finished
  BY <1>1 DEF Announced, TryLabels, Running, Finished
<1>. QED BY <1>1, <1>2, <1>4, <1>5 DEF Current, Unused

LEMMA LifeFailed ==
    ASSUME OneAtATime, TypeOK, TypeOK', MemoryInv, LifeInv, NEW p \in Procs, RecordFailed(p)
    PROVE  LifeGoal
<1>1. /\ pc[p] = "failed" /\ UNCHANGED <<todo, start>>
      /\ AppendRow(Attempt(p), "FAILED", Parent(p))
      /\ Returned(p, [exp |-> Attempt(p), ok |-> FALSE, score |-> NoOne])
  BY DEF RecordFailed
<1>2. /\ Queued(p) /\ Unused(Arm(p), Number(p) + 1)
      /\ Phase(Attempt(p)) \in {"RUNNING", "COMPLETED"}
  BY <1>1 DEF LifeInv, Current, Announced
<1>3. /\ Attempt(p) = <<Arm(p), Number(p)>> /\ Number(p) \in Nat
      /\ pc[p] \in Attempting /\ Attempt(p) \in Experiments
  BY <1>1, NumberType, AttemptType DEF Attempting
<1>4. Advances(p, {"RUNNING", "COMPLETED"}, "FAILED")
  BY <1>1, <1>2, <1>3, AttemptAdvances
<1>5. PICK e, a, n : e = Attempt(p) /\ a = Arm(p) /\ n = Number(p) + 1
  OBVIOUS
<1>6. e[2] < n
  BY <1>3, <1>5
<1>7. Unused(a, n)'
  BY <1>1, <1>2, <1>5, <1>6, UnusedAppended
<1>8. Current(p)'
  BY <1>1, <1>5, <1>7, NextNumber
<1>9. Queued(p)'
  BY <1>1, <1>2, QueuedAppended
<1>10. LifeInv'
  BY <1>4, <1>8, <1>9 DEF LifeInv, Advances, OneAtATime
<1>. QED BY <1>3, <1>4, <1>10, AdvanceIsStep DEF LifeGoal

\* The other steps write no row, so the abstract specification stutters.
LEMMA LifeReturned ==
    ASSUME OneAtATime, TypeOK, MemoryInv, LifeInv, NEW p \in Procs, ReturnCompleted(p)
    PROVE  LifeGoal
<1>1. /\ pc[p] = "return" /\ UNCHANGED <<rows, todo, start>>
      /\ Returned(p, [exp |-> Attempt(p), ok |-> TRUE, score |-> score[p]])
  BY DEF ReturnCompleted, durable
<1>2. Queued(p) /\ Unused(Arm(p), Number(p) + 1)
  BY <1>1 DEF LifeInv, Current, Announced, TryLabels
<1>3. PICK a, n : a = Arm(p) /\ n = Number(p) + 1
  OBVIOUS
<1>4. Unused(a, n)'
  BY <1>1, <1>2, <1>3 DEF Unused
<1>5. Current(p)'
  BY <1>1, <1>3, <1>4, NextNumber
<1>6. Queued(p)'
  BY <1>1, <1>2, QueuedKept
<1>7. LatestInv'
  BY <1>1, LatestKept DEF LifeInv
<1>8. LifeInv'
  BY <1>5, <1>6, <1>7 DEF LifeInv, OneAtATime
<1>. QED BY <1>1, <1>8, NoRowNoStep DEF LifeGoal

\* A step within the attempt, or past it.
LEMMA LifeMoved ==
    ASSUME OneAtATime, LifeInv, NEW p \in Procs, pc[p] # "idle",
           UNCHANGED <<rows, todo, start, offset>>,
           pc'[p] # "propose",
           pc'[p] \in Announced => pc[p] \in Announced,
           pc'[p] \in Running => pc[p] \in Running,
           pc'[p] \in Finished => pc[p] \in Finished,
           pc'[p] = "failed" => pc[p] \in Running \cup Finished
    PROVE  LifeGoal
<1>1. Attempt(p)' = Attempt(p) /\ Arm(p)' = Arm(p) /\ Number(p)' = Number(p)
  BY DEF Attempt, Arm, Number
<1>2. Phase(Attempt(p))' = Phase(Attempt(p))
  BY <1>1 DEF Phase, RowsOf
<1>3. Queued(p) /\ Current(p)
  BY DEF LifeInv
<1>4. Current(p)'
  BY <1>1, <1>2, <1>3 DEF Current, Unused
<1>5. Queued(p)'
  BY <1>3, QueuedKept
<1>6. LifeInv'
  BY <1>4, <1>5, LatestKept DEF LifeInv, OneAtATime
<1>. QED BY <1>6, NoRowNoStep DEF LifeGoal

LEMMA LifeBegun ==
    ASSUME OneAtATime, DistinctArms, TypeOK, LifeInv, NEW p \in Procs, Begin(p)
    PROVE  LifeGoal
<1>1. PICK list \in ArmLists, n \in [Arms -> 0 .. MaxIndex] :
          /\ list # <<>>
          /\ \A a \in Arms : IsNextIndex(a, n[a])
          /\ todo' = [todo EXCEPT ![p] = list]
          /\ start' = [start EXCEPT ![p] = n]
  BY DEF Begin
<1>2. /\ todo'[p] = list /\ start'[p] = n /\ offset'[p] = 0 /\ pc'[p] = "propose"
      /\ UNCHANGED rows
  BY <1>1 DEF Begin, Goto, TypeOK, durable
<1>3. list \in Seq(Arms) /\ Len(list) > 0 /\ \A k \in 1 .. Len(list) : list[k] \in Arms
  BY <1>1, RunnerAssumption
<1>4. \A a \in Arms : Unused(a, n[a])
  BY <1>1 DEF IsNextIndex, Used, Unused
<1>5. Arm(p)' = list[1] /\ list[1] \in Arms
  BY <1>2, <1>3 DEF Arm
<1>6. n[list[1]] \in Nat
  BY <1>5, RunnerAssumption
<1>7. Number(p)' = n[list[1]]
  BY <1>2, <1>5, <1>6 DEF Number
<1>8. Unused(list[1], n[list[1]])'
  BY <1>2, <1>4, <1>5 DEF Unused
<1>9. Current(p)'
  BY <1>2, <1>5, <1>7, <1>8 DEF Current, Announced, TryLabels, Running, Finished, Unused
<1>10. Queued(p)'
  BY <1>2, <1>3, <1>4 DEF Queued, Unused, DistinctArms
<1>11. LifeInv'
  BY <1>2, <1>9, <1>10, LatestKept DEF LifeInv, OneAtATime
<1>. QED BY <1>2, <1>11, NoRowNoStep DEF LifeGoal

LEMMA LifeNextArm ==
    ASSUME OneAtATime, TypeOK, MemoryInv, LifeInv, NEW p \in Procs, NextArm(p)
    PROVE  LifeGoal
<1>1. /\ pc[p] = "armdone" /\ pc'[p] = "propose" /\ Len(todo[p]) > 1
      /\ todo'[p] = Tail(todo[p]) /\ offset'[p] = 0 /\ UNCHANGED <<rows, start>>
  BY DEF NextArm, Goto, TypeOK, durable
<1>2. todo[p] \in Seq(Arms) /\ Queued(p)
  BY <1>1 DEF TypeOK, LifeInv
<1>3. /\ Len(todo'[p]) = Len(todo[p]) - 1 /\ Len(todo[p]) \in Nat
      /\ \A k \in 1 .. Len(todo'[p]) : todo'[p][k] = todo[p][k + 1] /\ k + 1 \in 2 .. Len(todo[p])
  BY <1>1, <1>2
<1>4. ASSUME NEW k \in 1 .. Len(todo'[p])
      PROVE  Unused(todo[p][k], start[p][todo[p][k]])'
  <2>1. PICK a, n : a = todo[p][k + 1] /\ n = start[p][todo[p][k + 1]]
    OBVIOUS
  <2>2. Unused(a, n)
    BY <1>2, <1>3, <2>1 DEF Queued
  <2>3. todo'[p][k] = a /\ start'[p][todo'[p][k]] = n
    BY <1>1, <1>3, <2>1
  <2>. QED BY <1>1, <2>2, <2>3 DEF Unused
<1>5. Arm(p)' = todo'[p][1] /\ 1 \in 1 .. Len(todo'[p]) /\ todo'[p][1] \in Arms
  BY <1>1, <1>2, <1>3 DEF Arm
<1>6. start'[p][todo'[p][1]] \in Nat
  BY <1>1, <1>5, RunnerAssumption DEF TypeOK
<1>7. Number(p)' = start'[p][todo'[p][1]]
  BY <1>1, <1>5, <1>6 DEF Number
<1>8. Unused(todo[p][1], start[p][todo[p][1]])'
  BY <1>4, <1>5
<1>9. Current(p)'
  BY <1>1, <1>5, <1>7, <1>8 DEF Current, Announced, TryLabels, Running, Finished, Unused
<1>10. \A k, l \in 1 .. Len(todo'[p]) : todo'[p][k] = todo'[p][l] => k = l
  <2>1. ASSUME NEW k \in 1 .. Len(todo'[p]), NEW l \in 1 .. Len(todo'[p]), todo'[p][k] = todo'[p][l]
        PROVE  k = l
    <3>1. todo[p][k + 1] = todo[p][l + 1] /\ k + 1 \in 1 .. Len(todo[p]) /\ l + 1 \in 1 .. Len(todo[p])
      BY <1>3, <2>1
    <3>2. k + 1 = l + 1
      BY <1>2, <3>1 DEF Queued
    <3>. QED BY <1>3, <3>2
  <2>. QED BY <2>1
<1>11. Queued(p)'
  <2>1. \A k \in 2 .. Len(todo'[p]) : k \in 1 .. Len(todo'[p])
    BY <1>3
  <2>. QED BY <1>4, <1>10, <2>1 DEF Queued
<1>12. LifeInv'
  BY <1>1, <1>9, <1>11, LatestKept DEF LifeInv, OneAtATime
<1>. QED BY <1>1, <1>12, NoRowNoStep DEF LifeGoal

\* An invocation that has ended knows nothing.
LEMMA LifeEnded ==
    ASSUME OneAtATime, LifeInv, NEW p \in Procs, UNCHANGED rows, pc'[p] = "idle"
    PROVE  LifeGoal
<1>1. LifeInv'
  BY LatestKept DEF LifeInv, OneAtATime
<1>. QED BY <1>1, NoRowNoStep DEF LifeGoal

-----------------------------------------------------------------------------
LEMMA LifeNext ==
    ASSUME OneAtATime, DistinctArms, TypeOK, TypeOK', MemoryInv, LifeInv, [Next]_vars
    PROVE  LifeGoal
<1>1. CASE UNCHANGED vars \/ \E o \in orphans : OrphanExit(o)
  <2>1. UNCHANGED <<rows, pc, todo, start, offset>>
    BY <1>1 DEF vars, OrphanExit, durable, memory
  <2>2. ASSUME NEW p \in Procs, pc'[p] # "idle" PROVE Queued(p)' /\ Current(p)'
    <3>1. Queued(p) /\ Current(p)
      BY <2>1, <2>2 DEF LifeInv
    <3>2. Attempt(p)' = Attempt(p) /\ Arm(p)' = Arm(p) /\ Number(p)' = Number(p)
      BY <2>1 DEF Attempt, Arm, Number
    <3>3. Phase(Attempt(p))' = Phase(Attempt(p))
      BY <2>1, <3>2 DEF Phase, RowsOf
    <3>4. Current(p)'
      BY <2>1, <3>1, <3>2, <3>3 DEF Current, Unused
    <3>. QED BY <2>1, <3>1, <3>4, QueuedKept
  <2>6. LifeInv'
    BY <2>1, <2>2, LatestKept DEF LifeInv
  <2>. QED BY <2>1, <2>6, NoRowNoStep DEF LifeGoal
<1>2. ASSUME NEW p \in Procs,
             Begin(p) \/ Step(p) \/ Interrupt(p) \/ LateInterrupt(p) \/ HardKill(p)
      PROVE  LifeGoal
  <2>1. CASE Exit(p) \/ LateInterrupt(p) \/ HardKill(p)
    <3>1. UNCHANGED rows /\ pc'[p] = "idle"
      BY <2>1 DEF Exit, LateInterrupt, HardKill, Forget, Goto, TypeOK, durable
    <3>. QED BY <3>1, LifeEnded
  <2>2. CASE EnterTry(p) \/ AcquireLock(p) \/ LockTimeout(p) \/ TrainOk(p) \/ TrainFail(p)
    <3>1. UNCHANGED <<rows, todo, start, offset>>
      BY <2>2 DEF EnterTry, AcquireLock, LockTimeout, TrainOk, TrainFail, durable, memory
    <3>2. /\ pc[p] \in {"started", "waiting", "training"}
          /\ pc'[p] \in {"waiting", "training", "completed", "failed"}
      BY <2>2 DEF EnterTry, AcquireLock, LockTimeout, TrainOk, TrainFail, Goto, TypeOK
    <3>. QED BY <3>1, <3>2, LifeMoved DEF Announced, TryLabels, Running, Finished
  <2>3. CASE RecordArtifact(p) \/ ArtifactConflict(p) \/ RecordEvent(p) \/ RecordArchive(p)
    <3>1. UNCHANGED <<rows, todo, start, offset>>
      BY <2>3 DEF RecordArtifact, ArtifactConflict, RecordEvent, RecordArchive, durable, memory
    <3>2. /\ pc[p] \in {"artifact", "event", "archive"}
          /\ pc'[p] \in {"event", "archive", "return", "failed"}
      BY <2>3 DEF RecordArtifact, ArtifactConflict, RecordEvent, RecordArchive, Goto, TypeOK
    <3>. QED BY <3>1, <3>2, LifeMoved DEF Announced, TryLabels, Running, Finished
  <2>4. CASE Interrupt(p)
    <3>1. UNCHANGED <<rows, todo, start, offset>>
      BY <2>4 DEF Interrupt, durable, memory
    <3>2. pc[p] \in TryLabels /\ pc'[p] = "failed"
      BY <2>4 DEF Interrupt, Goto, TypeOK
    <3>. QED BY <3>1, <3>2, LifeMoved DEF Announced, TryLabels, Running, Finished
  <2>5. CASE ChooseChampion(p) \/ NoChampion(p) \/ RecordPromotion(p)
             \/ \E part \in Parts : PutHidden(p, part)
    <3>1. UNCHANGED <<rows, todo, start, offset>>
      BY <2>5 DEF ChooseChampion, NoChampion, RecordPromotion, PutHidden, durable, memory
    <3>2. /\ pc[p] \in {"choose", "blind", "final", "promote"}
          /\ pc'[p] \in {"blind", "final", "promote", "armdone"}
      BY <2>5 DEF ChooseChampion, NoChampion, RecordPromotion, PutHidden, Parts, Goto, TypeOK
    <3>. QED BY <3>1, <3>2, LifeMoved DEF Announced, TryLabels, Running, Finished
  <2>. QED
    BY <1>2, <2>1, <2>2, <2>3, <2>4, <2>5, LifeBegun, LifePropose, LifeCompleted, LifeReturned,
       LifeFailed, LifeNextArm DEF Step
<1>. QED BY <1>1, <1>2 DEF Next

LEMMA LifeInit == Init => LifeInv /\ Lifecycle!Init
<1> SUFFICES ASSUME Init PROVE LifeInv /\ Lifecycle!Init
  OBVIOUS
<1>1. \A e : RowsOf(e) = {}
  BY DEF Init, RowsOf
<1>2. \A p \in Procs : pc[p] = "idle"
  BY DEF Init
<1>3. \A e \in Experiments : Phase(e) = "absent"
  BY <1>1 DEF Phase
<1>. QED BY <1>1, <1>2, <1>3 DEF LifeInv, LatestInv, Lifecycle!Init

\* With one invocation at a time and no arm listed twice, the ledger's latest
\* rows go through the abstract life cycle: an id is announced once, gets its
\* verdict once, and a failure is final.
THEOREM ImplementsLifecycle ==
    ASSUME OneAtATime, DistinctArms
    PROVE  Spec => LifecycleSpec
<1>1. TypeOK /\ TypeOK' /\ MemoryInv /\ LifeInv /\ [Next]_vars => LifeInv' /\ [Lifecycle!Next]_Phases
  BY LifeNext DEF LifeGoal, LifeStep
<1>. QED
  BY <1>1, LifeInit, TypeCorrect, PTL DEF Spec, LifecycleSpec, Lifecycle!Spec, Phases
=============================================================================
