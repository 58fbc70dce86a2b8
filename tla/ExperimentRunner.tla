-------------------------- MODULE ExperimentRunner --------------------------
(***************************************************************************)
(* The `run` command of the autoresearch harness working inside one run:   *)
(* tools/autoresearch_next/cli.py (do_run, next_candidate_index) driving   *)
(* runner.py (gpu_owner, ExperimentRunner.run_one, promote_champion) over  *)
(* the SQLite ledger of ledger.py.                                         *)
(*                                                                         *)
(* Several invocations may overlap (an overnight scheduler and a user),    *)
(* each one an operating-system process.  A process keeps its results in   *)
(* memory; what outlives it is the ledger, the hidden score files and, if  *)
(* it is killed while training, its orphaned training child.  Every ledger *)
(* call commits by itself, so a process may stop between any two of them.  *)
(***************************************************************************)
EXTENDS Integers, Sequences, FiniteSets

CONSTANTS
    Procs,       \* processes that run `autoresearch_next run`
    Arms,        \* the search arms, "greedy" and "evolve" in the code
    Evolve,      \* the arm whose candidates name the current leader as parent
    ArmLists,    \* what --arm expands to: sequences of distinct arms
    Scores,      \* values of raw_learned_score
    Epoch,       \* --experiments: attempts per arm and invocation
    MaxIndex,    \* bound: candidate indices are 0 .. MaxIndex - 1
    Interrupts,  \* BOOLEAN: may the user press Ctrl-C inside run_one's try?
    LateInterrupts, \* BOOLEAN: ... or outside it?
    HardKills,   \* BOOLEAN: may a process be killed without running handlers?
    NoOne        \* neither a process nor a candidate

ASSUME RunnerAssumption ==
    /\ Evolve \in Arms
    /\ Epoch \in Nat \ {0}
    /\ MaxIndex \in Nat \ {0}
    /\ Scores \subseteq Int
    /\ ArmLists \subseteq Seq(Arms)
    /\ {Interrupts, LateInterrupts, HardKills} \subseteq BOOLEAN
    /\ NoOne \notin Procs
    /\ NoOne \notin Arms \X (0 .. MaxIndex - 1)

Indices == 0 .. MaxIndex - 1
Experiments == Arms \X Indices            \* experiment ids: <<arm, index>>
Status == {"RUNNING", "COMPLETED", "FAILED"}
Parts == {"blind", "final"}
Rows == [exp : Experiments, status : Status, parent : Experiments \cup {NoOne}]
Results == [exp : Experiments, ok : BOOLEAN, score : Scores \cup {NoOne}]

VARIABLES
    (* durable *)
    rows,        \* table experiments, in seq order
    artifacts,   \* primary keys of table artifacts
    completions, \* experiments with an experiment_completed event
    archived,    \* experiments with a row in archive_entries
    promotions,  \* experiments with a champion_promoted event, in order
    hidden,      \* the hidden score files: whose score each one holds
    lock,        \* owner of gpu.owner.lock
    orphans,     \* training children that outlived the process that began them
    (* in the memory of each process *)
    pc, todo, start, offset, score, results, leader, champion

durable == <<rows, artifacts, completions, archived, promotions, hidden>>
memory == <<todo, start, offset, score, results, leader, champion>>
vars == <<durable, lock, orphans, pc, memory>>

-----------------------------------------------------------------------------
(* The ledger, read. *)

RowsOf(e) == {i \in DOMAIN rows : rows[i].exp = e}

HasRow(e, s) == \E i \in DOMAIN rows : rows[i].exp = e /\ rows[i].status = s

\* Status of the latest row of an experiment.
Phase(e) ==
    IF RowsOf(e) = {} THEN "absent"
    ELSE rows[CHOOSE i \in RowsOf(e) : \A j \in RowsOf(e) : j <= i].status

\* AppendOnlyLedger.pending_experiments (no code path writes INTERRUPTED).
Pending == {e \in Experiments : Phase(e) = "RUNNING"}

\* Mutant: rows of failed or running attempts do not count as used.
UsedCompletedOnly(a) ==
    {rows[i].exp[2] : i \in {j \in DOMAIN rows : rows[j].exp[1] = a /\ rows[j].status = "COMPLETED"}}

\* Indices an arm has used, whatever became of the attempt.
Used(a) == {rows[i].exp[2] : i \in {j \in DOMAIN rows : rows[j].exp[1] = a}}

\* n is next_candidate_index(snapshot, a).
IsNextIndex(a, n) ==
    /\ \A u \in Used(a) : u < n
    /\ n = 0 \/ (n - 1) \in Used(a)

(* The ledger, written: one committed INSERT each. *)

AppendRow(e, s, par) ==
    rows' = Append(rows, [exp |-> e, status |-> s, parent |-> par])

-----------------------------------------------------------------------------
(* One process. *)

Arm(p) == Head(todo[p])
Attempt(p) == <<Arm(p), start[p][Arm(p)] + offset[p]>>
Parent(p) == IF Arm(p) = Evolve THEN leader[p] ELSE NoOne

Goto(p, label) == pc' = [pc EXCEPT ![p] = label]

ReleaseLock(p) == lock' = IF lock = p THEN NoOne ELSE lock

\* `x or -1` of a Python score: zero and None are both falsy.
Rank(s) == IF s \in {0, NoOne} THEN -1 ELSE s

Valid(p) == {i \in DOMAIN results[p] : results[p][i].ok}

\* max(valid, key=...) returns the first of the best.
IsChampion(p, i) ==
    /\ i \in Valid(p)
    /\ \A j \in Valid(p) :
          \/ Rank(results[p][j].score) < Rank(results[p][i].score)
          \/ Rank(results[p][j].score) = Rank(results[p][i].score) /\ i <= j

TryLabels == {"waiting", "training", "completed", "artifact", "event", "archive", "return"}
OuterLabels == {"propose", "started", "failed", "choose", "blind", "final", "promote", "armdone"}
Labels == TryLabels \cup OuterLabels \cup {"idle"}

\* do_run reads ledger.snapshot once, before the first arm.
Begin(p) ==
    /\ pc[p] = "idle"
    /\ \E list \in ArmLists, n \in [Arms -> 0 .. MaxIndex] :
          /\ list # <<>>
          /\ \A a \in Arms : IsNextIndex(a, n[a])
          /\ \A k \in DOMAIN list : n[list[k]] + Epoch <= MaxIndex
          /\ todo' = [todo EXCEPT ![p] = list]
          /\ start' = [start EXCEPT ![p] = n]
    /\ offset' = [offset EXCEPT ![p] = 0]
    /\ results' = [results EXCEPT ![p] = <<>>]
    /\ leader' = [leader EXCEPT ![p] = NoOne]
    /\ champion' = [champion EXCEPT ![p] = NoOne]
    /\ score' = [score EXCEPT ![p] = NoOne]
    /\ Goto(p, "propose")
    /\ UNCHANGED <<durable, lock, orphans>>

\* The RUNNING row of run_one; the contract of contract_for is always valid.
Propose(p) ==
    /\ pc[p] = "propose"
    /\ AppendRow(Attempt(p), "RUNNING", Parent(p))
    /\ Goto(p, "started")
    /\ UNCHANGED <<artifacts, completions, archived, promotions, hidden, lock, orphans, memory>>

\* The experiment_started event and the command line; then the try is entered.
EnterTry(p) ==
    /\ pc[p] = "started"
    /\ Goto(p, "waiting")
    /\ UNCHANGED <<durable, lock, orphans, memory>>

AcquireLock(p) ==
    /\ pc[p] = "waiting"
    /\ lock = NoOne
    /\ lock' = p
    /\ Goto(p, "training")
    /\ UNCHANGED <<durable, orphans, memory>>

\* TimeoutError of gpu_owner, caught by run_one.
LockTimeout(p) ==
    /\ pc[p] = "waiting"
    /\ lock # NoOne
    /\ Goto(p, "failed")
    /\ UNCHANGED <<durable, lock, orphans, memory>>

\* Mutant: the artifact is recorded without the COMPLETED row before it.
TrainOkSkipsRow(p) ==
    /\ pc[p] = "training"
    /\ \E s \in Scores : score' = [score EXCEPT ![p] = s]
    /\ ReleaseLock(p)
    /\ Goto(p, "artifact")
    /\ UNCHANGED <<durable, orphans, todo, start, offset, results, leader, champion>>

\* The child exits with status 0 and its output file parses.
TrainOk(p) ==
    /\ pc[p] = "training"
    /\ \E s \in Scores : score' = [score EXCEPT ![p] = s]
    /\ ReleaseLock(p)
    /\ Goto(p, "completed")
    /\ UNCHANGED <<durable, orphans, todo, start, offset, results, leader, champion>>

\* Non-zero exit, TimeoutExpired (the child is killed), unreadable output.
TrainFail(p) ==
    /\ pc[p] = "training"
    /\ ReleaseLock(p)
    /\ Goto(p, "failed")
    /\ UNCHANGED <<durable, orphans, memory>>

RecordCompleted(p) ==
    /\ pc[p] = "completed"
    /\ AppendRow(Attempt(p), "COMPLETED", Parent(p))
    /\ Goto(p, "artifact")
    /\ UNCHANGED <<artifacts, completions, archived, promotions, hidden, lock, orphans, memory>>

RecordArtifact(p) ==
    /\ pc[p] = "artifact"
    /\ Attempt(p) \notin artifacts
    /\ artifacts' = artifacts \cup {Attempt(p)}
    /\ Goto(p, "event")
    /\ UNCHANGED <<rows, completions, archived, promotions, hidden, lock, orphans, memory>>

\* Mutant: INSERT OR IGNORE.
ArtifactIgnored(p) ==
    /\ pc[p] = "artifact"
    /\ Attempt(p) \in artifacts
    /\ Goto(p, "event")
    /\ UNCHANGED <<durable, lock, orphans, memory>>

\* IntegrityError: artifact_id is the table's primary key.
ArtifactConflict(p) ==
    /\ pc[p] = "artifact"
    /\ Attempt(p) \in artifacts
    /\ Goto(p, "failed")
    /\ UNCHANGED <<durable, lock, orphans, memory>>

RecordEvent(p) ==
    /\ pc[p] = "event"
    /\ completions' = completions \cup {Attempt(p)}
    /\ Goto(p, "archive")
    /\ UNCHANGED <<rows, artifacts, archived, promotions, hidden, lock, orphans, memory>>

\* archive.propose in memory, then the archive_entries row, accepted or not.
RecordArchive(p) ==
    /\ pc[p] = "archive"
    /\ archived' = archived \cup {Attempt(p)}
    /\ Goto(p, "return")
    /\ UNCHANGED <<rows, artifacts, completions, promotions, hidden, lock, orphans, memory>>

\* The rest of do_run's loop body once run_one has returned r.
Returned(p, r) ==
    /\ results' = [results EXCEPT ![p] = Append(@, r)]
    /\ leader' = IF r.ok /\ (leader[p] = NoOne \/ Rank(r.score) >= 0)
                 THEN [leader EXCEPT ![p] = r.exp] ELSE leader
    /\ offset' = [offset EXCEPT ![p] = @ + 1]
    /\ Goto(p, IF offset[p] + 1 < Epoch THEN "propose" ELSE "choose")

ReturnCompleted(p) ==
    /\ pc[p] = "return"
    /\ Returned(p, [exp |-> Attempt(p), ok |-> TRUE, score |-> score[p]])
    /\ UNCHANGED <<durable, lock, orphans, todo, start, score, champion>>

\* Mutant: the handler forgets the FAILED row.
FailedUnrecorded(p) ==
    /\ pc[p] = "failed"
    /\ Returned(p, [exp |-> Attempt(p), ok |-> FALSE, score |-> NoOne])
    /\ UNCHANGED <<durable, lock, orphans, todo, start, score, champion>>

\* Every except clause falls through to the FAILED row.
RecordFailed(p) ==
    /\ pc[p] = "failed"
    /\ AppendRow(Attempt(p), "FAILED", Parent(p))
    /\ Returned(p, [exp |-> Attempt(p), ok |-> FALSE, score |-> NoOne])
    /\ UNCHANGED <<artifacts, completions, archived, promotions, hidden, lock, orphans,
                   todo, start, score, champion>>

-----------------------------------------------------------------------------
(* Promotion of the arm's champion. *)

ChooseChampion(p) ==
    /\ pc[p] = "choose"
    /\ \E i \in DOMAIN results[p] :
          /\ IsChampion(p, i)
          /\ champion' = [champion EXCEPT ![p] = results[p][i].exp]
    /\ Goto(p, "blind")
    /\ UNCHANGED <<durable, lock, orphans, todo, start, offset, score, results, leader>>

NoChampion(p) ==
    /\ pc[p] = "choose"
    /\ Valid(p) = {}
    /\ Goto(p, "armdone")
    /\ UNCHANGED <<durable, lock, orphans, memory>>

\* HiddenScoreStore.put: the file is named by run, arm and partition alone.
PutHidden(p, part) ==
    /\ pc[p] = part
    /\ hidden' = [hidden EXCEPT ![<<Arm(p), part>>] = champion[p]]
    /\ Goto(p, IF part = "blind" THEN "final" ELSE "promote")
    /\ UNCHANGED <<rows, artifacts, completions, archived, promotions, lock, orphans, memory>>

RecordPromotion(p) ==
    /\ pc[p] = "promote"
    /\ promotions' = Append(promotions, champion[p])
    /\ Goto(p, "armdone")
    /\ UNCHANGED <<rows, artifacts, completions, archived, hidden, lock, orphans, memory>>

\* Mutant: the leader of one arm survives into the next.
NextArmKeepsLeader(p) ==
    /\ pc[p] = "armdone"
    /\ Len(todo[p]) > 1
    /\ todo' = [todo EXCEPT ![p] = Tail(@)]
    /\ offset' = [offset EXCEPT ![p] = 0]
    /\ results' = [results EXCEPT ![p] = <<>>]
    /\ champion' = [champion EXCEPT ![p] = NoOne]
    /\ score' = [score EXCEPT ![p] = NoOne]
    /\ Goto(p, "propose")
    /\ UNCHANGED <<durable, lock, orphans, start, leader>>

\* The arm_completed event; leader and completed_results start afresh.
NextArm(p) ==
    /\ pc[p] = "armdone"
    /\ Len(todo[p]) > 1
    /\ todo' = [todo EXCEPT ![p] = Tail(@)]
    /\ offset' = [offset EXCEPT ![p] = 0]
    /\ results' = [results EXCEPT ![p] = <<>>]
    /\ leader' = [leader EXCEPT ![p] = NoOne]
    /\ champion' = [champion EXCEPT ![p] = NoOne]
    /\ score' = [score EXCEPT ![p] = NoOne]
    /\ Goto(p, "propose")
    /\ UNCHANGED <<durable, lock, orphans, start>>

\* The process is gone, and its memory with it.
Forget(p) ==
    /\ Goto(p, "idle")
    /\ todo' = [todo EXCEPT ![p] = <<>>]
    /\ start' = [start EXCEPT ![p] = [a \in Arms |-> 0]]
    /\ offset' = [offset EXCEPT ![p] = 0]
    /\ results' = [results EXCEPT ![p] = <<>>]
    /\ leader' = [leader EXCEPT ![p] = NoOne]
    /\ champion' = [champion EXCEPT ![p] = NoOne]
    /\ score' = [score EXCEPT ![p] = NoOne]

Exit(p) ==
    /\ pc[p] = "armdone"
    /\ Len(todo[p]) = 1
    /\ Forget(p)
    /\ UNCHANGED <<durable, lock, orphans>>

-----------------------------------------------------------------------------
(* What ends a process early. *)

\* KeyboardInterrupt inside the try: subprocess.run kills the child, gpu_owner
\* unlocks, the handler makes it a failure of this attempt.
Interrupt(p) ==
    /\ Interrupts
    /\ pc[p] \in TryLabels
    /\ ReleaseLock(p)
    /\ Goto(p, "failed")
    /\ UNCHANGED <<durable, orphans, memory>>

\* KeyboardInterrupt anywhere else leaves do_run.
LateInterrupt(p) ==
    /\ LateInterrupts
    /\ pc[p] \in OuterLabels
    /\ Forget(p)
    /\ UNCHANGED <<durable, lock, orphans>>

\* SIGKILL or the OOM killer: the kernel drops the flock with the process, and
\* the child, which does not inherit the lock's descriptor, trains on.
HardKill(p) ==
    /\ HardKills
    /\ pc[p] # "idle"
    /\ orphans' = IF pc[p] = "training" THEN orphans \cup {<<p, Attempt(p)>>} ELSE orphans
    /\ ReleaseLock(p)
    /\ Forget(p)
    /\ UNCHANGED durable

OrphanExit(o) ==
    /\ orphans' = orphans \ {o}
    /\ UNCHANGED <<durable, lock, pc, memory>>

-----------------------------------------------------------------------------
Init ==
    /\ rows = <<>>
    /\ artifacts = {} /\ completions = {} /\ archived = {}
    /\ promotions = <<>>
    /\ hidden = [f \in Arms \X Parts |-> NoOne]
    /\ lock = NoOne
    /\ orphans = {}
    /\ pc = [p \in Procs |-> "idle"]
    /\ todo = [p \in Procs |-> <<>>]
    /\ start = [p \in Procs |-> [a \in Arms |-> 0]]
    /\ offset = [p \in Procs |-> 0]
    /\ score = [p \in Procs |-> NoOne]
    /\ results = [p \in Procs |-> <<>>]
    /\ leader = [p \in Procs |-> NoOne]
    /\ champion = [p \in Procs |-> NoOne]

\* One step of do_run's own code.
Step(p) ==
    \/ Propose(p)          \/ EnterTry(p)        \/ AcquireLock(p)
    \/ LockTimeout(p)      \/ TrainOk(p)         \/ TrainFail(p)
    \/ RecordCompleted(p)  \/ RecordArtifact(p)  \/ ArtifactConflict(p)
    \/ RecordEvent(p)      \/ RecordArchive(p)   \/ ReturnCompleted(p)
    \/ RecordFailed(p)     \/ ChooseChampion(p)  \/ NoChampion(p)
    \/ \E part \in Parts : PutHidden(p, part)
    \/ RecordPromotion(p)  \/ NextArm(p)         \/ Exit(p)

Next ==
    \/ \E p \in Procs : Begin(p) \/ Step(p) \/ Interrupt(p) \/ LateInterrupt(p) \/ HardKill(p)
    \/ \E o \in orphans : OrphanExit(o)

Spec == Init /\ [][Next]_vars

\* A process that the operating system schedules goes on; nothing obliges a
\* user to start one, to interrupt one or to kill one.
FairSpec == Spec /\ \A p \in Procs : WF_vars(Step(p))

-----------------------------------------------------------------------------
TypeOK ==
    /\ rows \in Seq(Rows)
    /\ artifacts \subseteq Experiments
    /\ completions \subseteq Experiments
    /\ archived \subseteq Experiments
    /\ promotions \in Seq(Experiments)
    /\ hidden \in [Arms \X Parts -> Experiments \cup {NoOne}]
    /\ lock \in Procs \cup {NoOne}
    /\ orphans \subseteq Procs \X Experiments
    /\ pc \in [Procs -> Labels]
    /\ todo \in [Procs -> Seq(Arms)]
    /\ start \in [Procs -> [Arms -> 0 .. MaxIndex]]
    /\ offset \in [Procs -> 0 .. Epoch]
    /\ score \in [Procs -> Scores \cup {NoOne}]
    /\ results \in [Procs -> Seq(Results)]
    /\ leader \in [Procs -> Experiments \cup {NoOne}]
    /\ champion \in [Procs -> Experiments \cup {NoOne}]

\* Every durable trace of a success rests on the one written before it: an
\* archive row on an experiment_completed event, that on an artifact, that on
\* a COMPLETED row, and every verdict on a RUNNING row; a candidate that gets a
\* hidden evaluation has the whole chain.  It holds whatever stops a process
\* between the commits of run_one and however many overlap.
EvidenceChain ==
    /\ archived \subseteq completions
    /\ completions \subseteq artifacts
    /\ \A p \in Procs : champion[p] # NoOne => champion[p] \in archived
    /\ \A e \in artifacts : HasRow(e, "COMPLETED")
    /\ \A i \in DOMAIN rows : rows[i].status # "RUNNING" =>
          \E j \in 1 .. i - 1 : rows[j].exp = rows[i].exp /\ rows[j].status = "RUNNING"

\* promote_champion: "one blind and one final evaluation per arm champion".
\* No candidate is ever promoted twice, even when two invocations ran it under
\* the same id: the artifact's primary key lets only one of them return it as
\* completed.
PromotedOnce ==
    \A i, j \in DOMAIN promotions : promotions[i] = promotions[j] => i = j

\* A candidate's recorded parent had completed, in the same arm, when the
\* candidate was proposed: lineage never points at a failed or future attempt.
LineageSound ==
    \A i \in DOMAIN rows : rows[i].parent # NoOne =>
        /\ rows[i].parent[1] = rows[i].exp[1]
        /\ \E j \in 1 .. i - 1 : rows[j].exp = rows[i].parent /\ rows[j].status = "COMPLETED"

\* gpu_owner is exclusive: a process whose child trains is the lock's owner.
LockOwned ==
    \A p \in Procs : pc[p] = "training" <=> lock = p

\* An attempt the ledger calls RUNNING gets its verdict unless every process
\* that announced it was stopped: whatever the GPU's owner, the child, Ctrl-C
\* inside run_one and the other invocation do, including its death with the
\* lock, nobody works on it for ever, and only a stop takes a process off an
\* attempt that has no COMPLETED or FAILED row.
Working(e) ==
    {p \in Procs : pc[p] \in TryLabels \cup {"started", "failed"} /\ Attempt(p) = e}
Settled(e) == HasRow(e, "COMPLETED") \/ HasRow(e, "FAILED")
AttemptsSettle ==
    /\ \A e \in Experiments :
          (e \in Pending /\ Working(e) # {}) ~> (e \notin Pending \/ Working(e) = {})
    /\ [][\A e \in Experiments, p \in Procs :
             p \in Working(e) /\ p \notin Working(e)' => Settled(e)' \/ pc'[p] = "idle"]_vars

\* The latest status of each experiment, as the abstract life cycle sees it.
Lifecycle == INSTANCE AttemptLifecycle WITH phase <- [e \in Experiments |-> Phase(e)]
LifecycleSpec == Lifecycle!Spec
=============================================================================
