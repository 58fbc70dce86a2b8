-------------------------- MODULE ActiveRunProofs --------------------------
(* A theorem about ActiveRun, for any number of processes, runs and freezes: *)
(* commands that race, and are not killed, leave an active run with its row. *)
EXTENDS ActiveRun, TLAPS

\* A process that has made its run's directory and not yet its row.
Creating(q, r) == pc[q] \in {"mark", "row"} /\ run[q] = r

LabelInv ==
    /\ pc \in [Procs -> Labels]
    /\ run \in [Procs -> Runs \cup {NoOne}]
    /\ dirs \subseteq Runs

\* The active run, and any run still being created, has its directory.
DirInv ==
    /\ marker # NoOne => marker \in dirs
    /\ \A q \in Procs : pc[q] \in {"mark", "row"} => run[q] \in dirs

\* Unless somebody was killed, a directory has its row or a process about to
\* write it. The marker is not enough to say this of: resume may point it at
\* a directory another command has just made.
RowInv ==
    ~killed => \A r \in dirs : r \in runRows \/ \E q \in Procs : Creating(q, r)

ServeInv == LabelInv /\ DirInv /\ RowInv

LEMMA ServeInit == Init => ServeInv
BY DEF Init, ServeInv, LabelInv, DirInv, RowInv, Labels

\* A step that changes neither the stores nor who is creating a run.
LEMMA ServeKept ==
    ASSUME ServeInv, NEW p \in Procs, NEW label \in Labels \ {"mark", "row"},
           pc[p] \notin {"mark", "row"},
           pc' = [pc EXCEPT ![p] = label],
           run' \in [Procs -> Runs \cup {NoOne}],
           \A q \in Procs \ {p} : run'[q] = run[q],
           UNCHANGED <<marker, dirs, runRows, killed>>
    PROVE  ServeInv'
<1>1. LabelInv'
  BY DEF ServeInv, LabelInv
<1>2. \A q \in Procs : (pc'[q] \in {"mark", "row"} <=> pc[q] \in {"mark", "row"})
  BY DEF ServeInv, LabelInv
<1>3. \A q \in Procs : pc[q] \in {"mark", "row"} => run'[q] = run[q]
  OBVIOUS
<1>4. DirInv'
  BY <1>2, <1>3 DEF ServeInv, DirInv
<1>5. \A q \in Procs : \A r : Creating(q, r) => Creating(q, r)'
  BY <1>2, <1>3 DEF Creating
<1>6. RowInv'
  BY <1>5 DEF ServeInv, RowInv
<1>. QED BY <1>1, <1>4, <1>6 DEF ServeInv

\* The same, of a process that ends.
LEMMA ServeLeft ==
    ASSUME ServeInv, NEW p \in Procs, pc[p] \notin {"mark", "row"}, Leave(p),
           UNCHANGED <<marker, dirs, runRows, killed>>
    PROVE  ServeInv'
<1>1. run' \in [Procs -> Runs \cup {NoOne}] /\ \A q \in Procs \ {p} : run'[q] = run[q]
  BY DEF ServeInv, LabelInv, Leave
<1>2. pc' = [pc EXCEPT ![p] = "idle"]
  BY DEF Leave, Goto
<1>3. "idle" \in Labels \ {"mark", "row"}
  BY DEF Labels
<1>. QED BY <1>1, <1>2, <1>3, ServeKept

LEMMA ServeCreateDir ==
    ASSUME ServeInv, NEW p \in Procs, CreateDir(p)
    PROVE  ServeInv'
<1>. USE DEF ServeInv, LabelInv
<1>1. PICK r \in Runs \ dirs : run' = [run EXCEPT ![p] = r] /\ dirs' = dirs \cup {r}
  BY DEF CreateDir
<1>2. pc' = [pc EXCEPT ![p] = "mark"] /\ pc[p] = "load" /\ marker = NoOne
      /\ UNCHANGED <<marker, runRows, killed>>
  BY DEF CreateDir, Goto
<1>3. LabelInv'
  BY <1>1, <1>2 DEF Labels
<1>4. DirInv'
  BY <1>1, <1>2 DEF DirInv
<1>5. Creating(p, r)'
  BY <1>1, <1>2 DEF Creating
<1>6. \A q \in Procs : \A s : Creating(q, s) => Creating(q, s)'
  BY <1>1, <1>2 DEF Creating
<1>7. RowInv'
  BY <1>1, <1>2, <1>5, <1>6 DEF RowInv
<1>. QED BY <1>3, <1>4, <1>7

LEMMA ServeWriteMarker ==
    ASSUME ServeInv, NEW p \in Procs, WriteMarker(p)
    PROVE  ServeInv'
<1>. USE DEF ServeInv, LabelInv
<1>1. pc' = [pc EXCEPT ![p] = "row"] /\ pc[p] = "mark" /\ marker' = run[p]
      /\ UNCHANGED <<dirs, runRows, killed, run>>
  BY DEF WriteMarker, Goto
<1>2. LabelInv'
  BY <1>1 DEF Labels
<1>3. DirInv'
  BY <1>1 DEF DirInv
<1>4. \A q \in Procs : \A s : Creating(q, s) => Creating(q, s)'
  BY <1>1 DEF Creating
<1>5. RowInv'
  BY <1>1, <1>4 DEF RowInv
<1>. QED BY <1>2, <1>3, <1>5

LEMMA ServeCreateRow ==
    ASSUME ServeInv, NEW p \in Procs, CreateRow(p)
    PROVE  ServeInv'
<1>. USE DEF ServeInv, LabelInv
<1>1. pc' = [pc EXCEPT ![p] = "loaded"] /\ runRows' = runRows \cup {run[p]}
      /\ UNCHANGED <<marker, dirs, killed, run>>
  BY DEF CreateRow, Goto
<1>2. LabelInv'
  BY <1>1 DEF Labels
<1>3. DirInv'
  BY <1>1 DEF DirInv
<1>4. ASSUME NEW r \in dirs, NEW q \in Procs, Creating(q, r)
      PROVE  Creating(q, r)' \/ r \in runRows'
  <2>1. CASE q = p
    BY <1>1, <1>4, <2>1 DEF Creating
  <2>2. CASE q # p
    BY <1>1, <1>4, <2>2 DEF Creating
  <2>. QED BY <2>1, <2>2
<1>5. RowInv'
  BY <1>1, <1>4 DEF RowInv
<1>. QED BY <1>2, <1>3, <1>5

\* After a kill nothing is promised of rows, but directories stay.
LEMMA ServeKill ==
    ASSUME ServeInv, NEW p \in Procs, HardKill(p)
    PROVE  ServeInv'
<1>. USE DEF ServeInv, LabelInv
<1>1. pc' = [pc EXCEPT ![p] = "idle"] /\ run' = [run EXCEPT ![p] = NoOne]
      /\ killed' = TRUE /\ UNCHANGED <<marker, dirs>>
  BY DEF HardKill, Leave, Goto
<1>2. LabelInv'
  BY <1>1 DEF Labels
<1>3. DirInv'
  BY <1>1 DEF DirInv
<1>4. RowInv'
  BY <1>1 DEF RowInv
<1>. QED BY <1>2, <1>3, <1>4

LEMMA ServeStep == ServeInv /\ [Next]_vars => ServeInv'
<1> SUFFICES ASSUME ServeInv, [Next]_vars PROVE ServeInv'
  OBVIOUS
<1>1. CASE UNCHANGED vars
  BY <1>1 DEF vars, stores, ServeInv, LabelInv, DirInv, RowInv, Creating
<1>2. ASSUME NEW p \in Procs, Invoke(p) PROVE ServeInv'
  BY <1>2, ServeKept DEF Invoke, Goto, stores, Labels, ServeInv, LabelInv
<1>3. ASSUME NEW p \in Procs, Resume(p) PROVE ServeInv'
  <2>1. marker' \in dirs /\ UNCHANGED <<dirs, runRows, killed, pc, run>>
    BY <1>3 DEF Resume
  <2>. QED BY <2>1 DEF ServeInv, LabelInv, DirInv, RowInv, Creating
<1>4. ASSUME NEW p \in Procs, LoadMarked(p) PROVE ServeInv'
  <2>1. "loaded" \in Labels \ {"mark", "row"}
    BY DEF Labels
  <2>. QED BY <1>4, <2>1, ServeKept DEF LoadMarked, Goto, stores, ServeInv, LabelInv, DirInv
<1>5. ASSUME NEW p \in Procs, Dispatch(p) PROVE ServeInv'
  <2>1. AfterLoad(command[p], run[p]) \in Labels \ {"mark", "row"}
    BY DEF AfterLoad, Labels
  <2>. QED BY <1>5, <2>1, ServeKept DEF Dispatch, Goto, stores, ServeInv, LabelInv
<1>6. ASSUME NEW p \in Procs, KernelFreeze(p) PROVE ServeInv'
  <2>1. PICK officialKeys \in BOOLEAN : Goto(p, IF officialKeys THEN "record" ELSE "note")
    BY <1>6 DEF KernelFreeze
  <2>2. (IF officialKeys THEN "record" ELSE "note") \in Labels \ {"mark", "row"}
    BY DEF Labels
  <2>. QED BY <1>6, <2>1, <2>2, ServeKept DEF KernelFreeze, Goto, ServeInv, LabelInv
<1>7. ASSUME NEW p \in Procs, Annotate(p) PROVE ServeInv'
  <2>1. "record" \in Labels \ {"mark", "row"}
    BY DEF Labels
  <2>. QED BY <1>7, <2>1, ServeKept DEF Annotate, Goto, ServeInv, LabelInv
<1>8. ASSUME NEW p \in Procs, RecordPartition(p) PROVE ServeInv'
  <2>1. pc[p] = "record" /\ UNCHANGED <<marker, dirs, runRows, killed>>
    BY <1>8 DEF RecordPartition
  <2>2. CASE Leave(p)
    BY <2>1, <2>2, ServeLeft
  <2>3. CASE Goto(p, "epoch") /\ UNCHANGED run
    <3>1. "epoch" \in Labels \ {"mark", "row"}
      BY DEF Labels
    <3>. QED BY <2>1, <2>3, <3>1, ServeKept DEF Goto, ServeInv, LabelInv
  <2>. QED BY <1>8, <2>2, <2>3 DEF RecordPartition, AfterFreeze
<1>9. ASSUME NEW p \in Procs,
             PartitionConflict(p) \/ RunEpoch(p) \/ Snapshot(p) \/ SnapshotFails(p)
      PROVE  ServeInv'
  <2>1. pc[p] \notin {"mark", "row"} /\ Leave(p) /\ UNCHANGED <<marker, dirs, runRows, killed>>
    BY <1>9 DEF PartitionConflict, RunEpoch, Snapshot, SnapshotFails, stores
  <2>. QED BY <2>1, ServeLeft
<1>. QED
  BY <1>1, <1>2, <1>3, <1>4, <1>5, <1>6, <1>7, <1>8, <1>9,
     ServeCreateDir, ServeWriteMarker, ServeCreateRow, ServeKill DEF Next

\* With no command under way and none killed, the active run has its row.
THEOREM AlwaysServes == Spec => []UnkilledRunServes
<1>1. ServeInv => UnkilledRunServes
  BY DEF ServeInv, DirInv, RowInv, UnkilledRunServes, Quiet, Creating
<1>. QED BY <1>1, ServeInit, ServeStep, PTL DEF Spec
=============================================================================
