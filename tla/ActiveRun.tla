------------------------------ MODULE ActiveRun ------------------------------
(***************************************************************************)
(* How the autoresearch commands find, create, freeze and report a run:    *)
(* load_or_create_run, freeze, init, run (its prologue), report, status    *)
(* and resume of tools/autoresearch_next/cli.py.  A run is a directory     *)
(* with a partitions.json and a ledger of its own; the file ACTIVE_RUN     *)
(* names the run every command works on.  Files and ledger are separate    *)
(* stores, so a command stopped between two writes leaves them apart.      *)
(***************************************************************************)
EXTENDS Naturals

CONSTANTS
    Procs,       \* processes that run a command
    Runs,        \* fresh run ids (time and uuid4)
    MaxFreezes,  \* bound: how often partitions are frozen
    HardKills,   \* BOOLEAN: may a process be killed?
    NoOne        \* no run, no manifest

ASSUME ActiveRunAssumption ==
    /\ MaxFreezes \in Nat
    /\ HardKills \in BOOLEAN
    /\ NoOne \notin Runs

\* A manifest carries created_at, so no two freezes agree; `noted` tells the
\* one rewritten without official task keys from the kernel's own.
Manifests == [created : 1 .. MaxFreezes, noted : BOOLEAN]

Commands == {"init", "run", "report", "status"}

VARIABLES
    marker,   \* ACTIVE_RUN
    dirs,     \* run directories (their ledger has its schema, maybe no rows)
    runRows,  \* runs with a row in table runs
    file,     \* partitions.json of each run
    frozen,   \* the manifest in table partitions (primary key partitions-v1)
    attempts, \* runs with a row in table experiments
    freezes,  \* clock of created_at
    killed,   \* ghost: has a process been killed?
    pc, command, run, manifest   \* of each process

stores == <<marker, dirs, runRows, file, frozen, attempts, freezes, killed>>
vars == <<stores, pc, command, run, manifest>>

Labels == {"idle", "load", "mark", "row", "loaded", "freeze", "note", "record", "epoch", "snapshot"}

Goto(p, label) == pc' = [pc EXCEPT ![p] = label]

\* The process ends and its memory with it.
Leave(p) ==
    /\ Goto(p, "idle")
    /\ command' = [command EXCEPT ![p] = "status"]
    /\ run' = [run EXCEPT ![p] = NoOne]
    /\ manifest' = [manifest EXCEPT ![p] = NoOne]

-----------------------------------------------------------------------------
Invoke(p) ==
    /\ pc[p] = "idle"
    /\ \E c \in Commands : command' = [command EXCEPT ![p] = c]
    /\ Goto(p, "load")
    /\ UNCHANGED <<stores, run, manifest>>

\* resume: an existing directory becomes the active run; pending work is
\* counted and reported, never retried.
Resume(p) ==
    /\ pc[p] = "idle"
    /\ \E r \in dirs : marker' = r
    /\ UNCHANGED <<dirs, runRows, file, frozen, attempts, freezes, killed,
                   pc, command, run, manifest>>

LoadMarked(p) ==
    /\ pc[p] = "load"
    /\ marker # NoOne
    /\ run' = [run EXCEPT ![p] = marker]
    /\ Goto(p, "loaded")
    /\ UNCHANGED <<stores, command, manifest>>

CreateDir(p) ==
    /\ pc[p] = "load"
    /\ marker = NoOne
    /\ \E r \in Runs \ dirs :
          /\ run' = [run EXCEPT ![p] = r]
          /\ dirs' = dirs \cup {r}
    /\ Goto(p, "mark")
    /\ UNCHANGED <<marker, runRows, file, frozen, attempts, freezes, killed, command, manifest>>

WriteMarker(p) ==
    /\ pc[p] = "mark"
    /\ marker' = run[p]
    /\ Goto(p, "row")
    /\ UNCHANGED <<dirs, runRows, file, frozen, attempts, freezes, killed, command, run, manifest>>

\* Mutant: the run's row is left to a later command.
RowSkipped(p) ==
    /\ pc[p] = "row"
    /\ Goto(p, "loaded")
    /\ UNCHANGED <<stores, command, run, manifest>>

CreateRow(p) ==
    /\ pc[p] = "row"
    /\ runRows' = runRows \cup {run[p]}
    /\ Goto(p, "loaded")
    /\ UNCHANGED <<marker, dirs, file, frozen, attempts, freezes, killed, command, run, manifest>>

\* What each command does once it has its run; `run` freezes only when
\* partitions.json is missing.
AfterLoad(c, r) ==
    CASE c = "init"                     -> "freeze"
      [] c = "run" /\ file[r] = NoOne   -> "freeze"
      [] c = "run" /\ file[r] # NoOne   -> "epoch"
      [] OTHER                          -> "snapshot"

Dispatch(p) ==
    /\ pc[p] = "loaded"
    /\ Goto(p, AfterLoad(command[p], run[p]))
    /\ UNCHANGED <<stores, command, run, manifest>>

-----------------------------------------------------------------------------
(* freeze *)

Save(p, m) ==
    /\ file' = [file EXCEPT ![run[p]] = m]
    /\ manifest' = [manifest EXCEPT ![p] = m]

\* TrustKernel.freeze_partitions writes the file; the official keys may or may
\* not be importable here.
KernelFreeze(p) ==
    /\ pc[p] = "freeze"
    /\ freezes < MaxFreezes
    /\ freezes' = freezes + 1
    /\ Save(p, [created |-> freezes + 1, noted |-> FALSE])
    /\ \E officialKeys \in BOOLEAN : Goto(p, IF officialKeys THEN "record" ELSE "note")
    /\ UNCHANGED <<marker, dirs, runRows, frozen, attempts, killed, command, run>>

\* Without official keys the file is written again, with a note.
Annotate(p) ==
    /\ pc[p] = "note"
    /\ Save(p, [manifest[p] EXCEPT !.noted = TRUE])
    /\ Goto(p, "record")
    /\ UNCHANGED <<marker, dirs, runRows, frozen, attempts, freezes, killed, command, run>>

\* init is done; run goes on, and reads the file again where it needs it.
AfterFreeze(p) ==
    \/ command[p] = "init" /\ Leave(p)
    \/ /\ command[p] # "init"
       /\ Goto(p, "epoch")
       /\ manifest' = [manifest EXCEPT ![p] = NoOne]
       /\ UNCHANGED <<command, run>>

RecordPartition(p) ==
    /\ pc[p] = "record"
    /\ frozen[run[p]] = NoOne
    /\ frozen' = [frozen EXCEPT ![run[p]] = manifest[p]]
    /\ AfterFreeze(p)
    /\ UNCHANGED <<marker, dirs, runRows, file, attempts, freezes, killed>>

\* IntegrityError: the key is taken, the command dies, the file stays as it is.
PartitionConflict(p) ==
    /\ pc[p] = "record"
    /\ frozen[run[p]] # NoOne
    /\ Leave(p)
    /\ UNCHANGED stores

-----------------------------------------------------------------------------
(* run, report, status *)

\* The experiments of do_run, seen as the first RUNNING row they write.
RunEpoch(p) ==
    /\ pc[p] = "epoch"
    /\ run[p] \in runRows
    /\ attempts' = attempts \cup {run[p]}
    /\ Leave(p)
    /\ UNCHANGED <<marker, dirs, runRows, file, frozen, freezes, killed>>

Snapshot(p) ==
    /\ pc[p] = "snapshot"
    /\ run[p] \in runRows
    /\ Leave(p)
    /\ UNCHANGED stores

\* ledger.snapshot of a run without a row: dict(None) raises.
SnapshotFails(p) ==
    /\ pc[p] \in {"epoch", "snapshot"}
    /\ run[p] \notin runRows
    /\ Leave(p)
    /\ UNCHANGED stores

HardKill(p) ==
    /\ HardKills
    /\ pc[p] # "idle"
    /\ Leave(p)
    /\ killed' = TRUE
    /\ UNCHANGED <<marker, dirs, runRows, file, frozen, attempts, freezes>>

-----------------------------------------------------------------------------
Init ==
    /\ marker = NoOne
    /\ dirs = {} /\ runRows = {} /\ attempts = {}
    /\ file = [r \in Runs |-> NoOne]
    /\ frozen = [r \in Runs |-> NoOne]
    /\ freezes = 0 /\ killed = FALSE
    /\ pc = [p \in Procs |-> "idle"]
    /\ command = [p \in Procs |-> "status"]
    /\ run = [p \in Procs |-> NoOne]
    /\ manifest = [p \in Procs |-> NoOne]

Next == \E p \in Procs :
    \/ Invoke(p)           \/ Resume(p)
    \/ LoadMarked(p)       \/ CreateDir(p)        \/ WriteMarker(p)
    \/ CreateRow(p)        \/ Dispatch(p)
    \/ KernelFreeze(p)     \/ Annotate(p)
    \/ RecordPartition(p)  \/ PartitionConflict(p)
    \/ RunEpoch(p)         \/ Snapshot(p)         \/ SnapshotFails(p)
    \/ HardKill(p)

Spec == Init /\ [][Next]_vars

-----------------------------------------------------------------------------
Quiet == \A p \in Procs : pc[p] = "idle"

\* cli.py: "Runs are intentionally append-only and may be invoked repeatedly":
\* with no command under way the active run has its row, so the next command's
\* snapshot succeeds, whatever commands raced (a killed one may leave it out).
UnkilledRunServes == Quiet /\ ~killed /\ marker # NoOne => marker \in runRows
=============================================================================
