------------------------------ MODULE Ar2Study ------------------------------
(* The AR2 study of tools/autoresearch_next/ar2.py: a schedule of seeded     *)
(* trials whose receipts, result rows and ledger events are appended one     *)
(* line at a time, a resume command for a study that was stopped, and the    *)
(* summary whose hard gate re-reads the receipts.  The process may be killed *)
(* between any two writes.  A trial is seeded, so the receipts of a trial    *)
(* depend on its key and step alone; a digest stands for what it digests.    *)
EXTENDS Integers, Sequences, FiniteSets, SequencesExt

CONSTANTS
    Trials,      \* the schedule is 1 .. Trials, the keys of its trials in order
    Budget,      \* receipts of one trial
    MaxResumes,  \* bound: how often the operator resumes the study
    MaxKills     \* bound: how often a command is killed

ASSUME StudyAssumption ==
    /\ Trials \in Nat \ {0}
    /\ Budget \in Nat \ {0}
    /\ MaxResumes \in Nat
    /\ MaxKills \in Nat

VARIABLES
    receipts,    \* receipts.jsonl
    results,     \* results.jsonl: the keys of its rows
    summary,     \* summary.json, or None
    status,      \* the status of the run's row in the ledger
    events,      \* the ledger's events
    artifact,    \* the summary whose digest the ledger records, or None
    pc,          \* where the command stands; "idle" when none runs
    mode,        \* "run" or "resume"
    before,      \* rows a resume found
    rows,        \* the rows in the command's memory
    at,          \* the trial being written
    written,     \* its receipts written so far
    resumes,     \* resumes so far, for the bound
    kills        \* kills so far, for the bound

files == <<receipts, results, summary>>
ledger == <<status, events, artifact>>
memory == <<mode, before, rows, at, written>>
bounds == <<resumes, kills>>
vars == <<files, ledger, pc, memory, bounds>>

None == [scored |-> <<>>, eligible |-> FALSE, before |-> -1]
Schedule == [i \in 1..Trials |-> i]

-----------------------------------------------------------------------------
(* The chain of one trial, and the verification of the whole file. *)

Payload(key, step) == [key |-> key, step |-> step, score |-> "measured"]

Digest(prev, payload) == Append(prev, payload)

\* The digest of a trial's receipts before step.
ChainBefore(key, step) == [i \in 1..step |-> Payload(key, i - 1)]

Receipt(key, step) ==
    [payload |-> Payload(key, step), prev |-> ChainBefore(key, step), hash |-> ChainBefore(key, step + 1)]

\* Mutant: the links between receipts are not checked.
VerifyHashesOnly(segment) ==
    \A i \in DOMAIN segment : segment[i].hash = Digest(segment[i].prev, segment[i].payload)

VerifyChain(segment) ==
    \A i \in DOMAIN segment :
        /\ segment[i].prev = (IF i = 1 THEN <<>> ELSE segment[i - 1].hash)
        /\ segment[i].hash = Digest(segment[i].prev, segment[i].payload)

\* Mutant: a trial that was started again is one segment with its first start.
StartsByKey(lines, i) == i = 1 \/ lines[i].payload.key # lines[i - 1].payload.key

\* A segment starts where the key changes and at every step 0.
StartsSegment(lines, i) ==
    \/ i = 1
    \/ lines[i].payload.key # lines[i - 1].payload.key
    \/ lines[i].payload.step = 0

EndsSegment(lines, i) == i = Len(lines) \/ StartsSegment(lines, i + 1)

Segments(lines) ==
    {SubSeq(lines, span[1], span[2]) : span \in
        {s \in (DOMAIN lines) \X (DOMAIN lines) :
            /\ s[1] <= s[2]
            /\ StartsSegment(lines, s[1])
            /\ EndsSegment(lines, s[2])
            /\ \A i \in s[1]..(s[2] - 1) : ~EndsSegment(lines, i)}}

VerifyStream(lines, complete) ==
    /\ lines # <<>>
    /\ \A segment \in Segments(lines) :
        /\ VerifyChain(segment)
        /\ Len(segment) <= Budget
        /\ Len(segment) < Budget => segment[1].payload.key \in complete

Altered(lines, i) == [lines EXCEPT ![i].payload.score = "altered"]

\* The summary's own test of the verification: one receipt, altered.
Corrupted(lines) == IF lines = <<>> THEN lines ELSE Altered(lines, (Len(lines) \div 2) + 1)

\* A first run accepts no partial stream, a resume those of finished trials.
CompleteKeys == IF mode = "run" THEN {} ELSE Range(results)

Eligible ==
    /\ VerifyStream(receipts, CompleteKeys)
    /\ ~VerifyStream(Corrupted(receipts), CompleteKeys)

-----------------------------------------------------------------------------
(* The command. *)

Init ==
    /\ receipts = <<>> /\ results = <<>> /\ summary = None
    /\ status = "absent" /\ events = <<>> /\ artifact = None
    /\ pc = "idle" /\ mode = "run" /\ before = 0 /\ rows = <<>> /\ at = 0 /\ written = 0
    /\ resumes = 0 /\ kills = 0

\* Mutant: a resume redoes trials that have their row.
SkippedNever(key) == FALSE

\* The next trial of the schedule a command finds no row for.
Skipped(key) == key \in Range(SubSeq(rows, 1, before))
IsNext(key, k) ==
    /\ k \in (key + 1)..Trials
    /\ ~Skipped(k)
    /\ \A j \in (key + 1)..(k - 1) : Skipped(j)

Proceed(key) ==
    /\ written' = 0
    /\ \/ \E k \in 1..Trials : IsNext(key, k) /\ at' = k /\ pc' = "receipts"
       \/ /\ \A k \in (key + 1)..Trials : Skipped(k)
          /\ at' = Trials + 1 /\ pc' = "summary"

\* A command that ends or dies forgets what it knew.
Forget == mode' = "run" /\ before' = 0 /\ rows' = <<>> /\ at' = 0 /\ written' = 0

\* run_ar2 up to its first trial: directory, marker, row and frozen protocol.
RunAr2 ==
    /\ pc = "idle" /\ status = "absent"
    /\ status' = "RUNNING"
    /\ events' = Append(events, [type |-> "ar2_protocol_frozen", key |-> 0])
    /\ pc' = "receipts" /\ at' = 1 /\ written' = 0
    /\ UNCHANGED <<files, artifact, mode, before, rows, bounds>>

\* resume_ar2 reads both files and raises when there is no result row yet.
ResumeAr2 ==
    /\ pc = "idle" /\ results # <<>> /\ resumes < MaxResumes
    /\ mode' = "resume" /\ before' = Len(results) /\ rows' = results
    /\ status' = "RUNNING"
    /\ at' = 0 /\ written' = 0
    /\ resumes' = resumes + 1
    /\ pc' = "resumed"
    /\ UNCHANGED <<files, events, artifact, kills>>

RecordResumed ==
    /\ pc = "resumed"
    /\ events' = Append(events, [type |-> "ar2_resumed", key |-> 0])
    /\ Proceed(0)
    /\ UNCHANGED <<files, status, artifact, mode, before, rows, bounds>>

\* One line of receipts.jsonl.
AppendReceipt ==
    /\ pc = "receipts"
    /\ receipts' = Append(receipts, Receipt(at, written))
    /\ written' = written + 1
    /\ pc' = IF written' = Budget THEN "row" ELSE "receipts"
    /\ UNCHANGED <<results, summary, ledger, mode, before, rows, at, bounds>>

AppendRow ==
    /\ pc = "row"
    /\ results' = Append(results, at)
    /\ pc' = "event"
    /\ UNCHANGED <<receipts, summary, ledger, memory, bounds>>

RecordTrial ==
    /\ pc = "event"
    /\ events' = Append(events, [type |-> "ar2_trial_completed", key |-> at])
    /\ rows' = Append(rows, at)
    /\ Proceed(at)
    /\ UNCHANGED <<files, status, artifact, mode, before, bounds>>

\* The summary is written over an earlier one.
WriteSummary ==
    /\ pc = "summary"
    /\ summary' = [scored |-> rows, eligible |-> Eligible,
                   before |-> IF mode = "run" THEN -1 ELSE before]
    /\ pc' = "artifact"
    /\ UNCHANGED <<receipts, results, ledger, memory, bounds>>

RecordArtifact ==
    /\ pc = "artifact" /\ artifact = None
    /\ artifact' = summary
    /\ pc' = "completed"
    /\ UNCHANGED <<files, status, events, memory, bounds>>

\* Mutant: a second artifact is ignored instead of refused.
ArtifactIgnored ==
    /\ pc = "artifact" /\ artifact # None
    /\ pc' = "completed"
    /\ UNCHANGED <<files, ledger, memory, bounds>>

\* The artifact's id is a primary key: the command dies on a second one.
ArtifactConflict ==
    /\ pc = "artifact" /\ artifact # None
    /\ pc' = "idle" /\ Forget
    /\ UNCHANGED <<files, ledger, bounds>>

\* Mutant: a resume ends as a first run does.
RecordCompletedAlike ==
    /\ pc = "completed"
    /\ events' = Append(events, [type |-> "ar2_completed", key |-> 0])
    /\ pc' = "idle" /\ Forget
    /\ UNCHANGED <<files, status, artifact, bounds>>

\* run_ar2 ends here and leaves the row RUNNING; resume_ar2 completes it.
RecordCompleted ==
    /\ pc = "completed"
    /\ events' = Append(events, [type |-> "ar2_completed", key |-> 0])
    /\ \/ mode = "run" /\ pc' = "idle" /\ Forget
       \/ mode = "resume" /\ pc' = "status" /\ UNCHANGED memory
    /\ UNCHANGED <<files, status, artifact, bounds>>

MarkCompleted ==
    /\ pc = "status"
    /\ status' = "COMPLETED"
    /\ pc' = "idle" /\ Forget
    /\ UNCHANGED <<files, events, artifact, bounds>>

Kill ==
    /\ pc # "idle" /\ kills < MaxKills
    /\ pc' = "idle" /\ Forget
    /\ kills' = kills + 1
    /\ UNCHANGED <<files, ledger, resumes>>

Step ==
    \/ RecordResumed \/ AppendReceipt \/ AppendRow \/ RecordTrial
    \/ WriteSummary \/ RecordArtifact \/ ArtifactConflict \/ RecordCompleted \/ MarkCompleted

Next == RunAr2 \/ ResumeAr2 \/ Step \/ Kill

Spec == Init /\ [][Next]_vars

\* A command that runs goes on; nobody has to start, resume or kill one.
FairSpec == Spec /\ WF_vars(Step)

-----------------------------------------------------------------------------
(* Properties. *)

Stream(key) == [i \in 1..Budget |-> Receipt(key, i - 1)]
BackedBy(lines) == \A key \in Range(results) : Stream(key) \in Segments(lines)

(* However often the study is killed and resumed, the result rows are the    *)
(* schedule from its start, each trial once and in order: a resume redoes    *)
(* the trial that was cut short and none that has its row.                   *)
RowsFollowSchedule == IsPrefix(results, Schedule)

(* Every summary scores each scheduled trial exactly once, although the rows *)
(* come from the file as a resume found it and from the memory of a command. *)
ScoredOnce == summary # None => summary.scored = Schedule

(* The hard gate passes: the partial streams that crashes leave behind never *)
(* make the verification refuse an honest study, nor accept the altered one. *)
GatePassed == summary # None => summary.eligible

(* A study whose row says COMPLETED has all its rows, its closing event and  *)
(* the very summary whose digest the ledger recorded.                        *)
CompletedIsWhole ==
    status = "COMPLETED" =>
        /\ results = Schedule
        /\ artifact = summary
        /\ \E e \in Range(events) : e.type = "ar2_completed"

(* What may happen to one line of receipts.jsonl, short of dropping the last *)
(* line of a stream, which the verification of a resumed study lets pass.    *)
Edits ==
    {Altered(receipts, i) : i \in DOMAIN receipts}
        \cup {RemoveAt(receipts, i) : i \in {j \in DOMAIN receipts : ~EndsSegment(receipts, j)}}
        \cup {InsertAt(receipts, i, receipts[i]) : i \in DOMAIN receipts}
        \cup {[receipts EXCEPT ![i] = receipts[i + 1], ![i + 1] = receipts[i]] : i \in 1..(Len(receipts) - 1)}

(* One line altered, dropped, doubled or swapped with its neighbour: the     *)
(* verification refuses the file, or every row still has its whole stream.   *)
EditsCaught ==
    pc = "artifact" => \A lines \in Edits : VerifyStream(lines, CompleteKeys) => BackedBy(lines)

(* A resumed study without a recorded summary that nobody kills any more is  *)
(* completed: no combination of earlier crashes leaves it stuck.             *)
ResumeCompletes ==
    (pc = "resumed" /\ artifact = None /\ kills = MaxKills) ~> status = "COMPLETED"
=============================================================================
