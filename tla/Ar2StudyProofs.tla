--------------------------- MODULE Ar2StudyProofs ---------------------------
(* Theorems about Ar2Study, for every number of trials and receipts, killed  *)
(* and resumed any number of times.                                          *)
EXTENDS Ar2Study, SequenceTheorems, WellFoundedInduction, TLAPS

\* The sequence 1, 2, ... of some length, which the schedule and its prefixes are.
Numbered(s) == s \in Seq(Nat) /\ \A i \in 1..Len(s) : s[i] = i

\* The result rows are the schedule's first ones, and a command knows them.
RowInv ==
    /\ Numbered(results) /\ Numbered(rows)
    /\ Len(results) <= Trials
    /\ before \in Nat /\ before <= Len(rows)
    /\ status = "absent" => results = <<>>

\* Where a command stands, and how far it has come.
PlaceInv ==
    /\ pc \in {"idle", "resumed", "receipts", "row", "event", "summary", "artifact", "completed", "status"}
    /\ pc = "idle" => rows = <<>> /\ before = 0
    /\ status = "absent" => pc = "idle"
    /\ pc = "resumed" => Len(rows) = Len(results) /\ before = Len(rows)
    /\ pc \in {"receipts", "row"} =>
          at = Len(results) + 1 /\ at <= Trials /\ Len(rows) = Len(results)
    /\ pc = "event" => at = Len(results) /\ at = Len(rows) + 1
    /\ pc \in {"summary", "artifact", "completed", "status"} =>
          Len(rows) = Trials /\ Len(results) = Trials

StudyInv == RowInv /\ PlaceInv

LEMMA EmptyNumbered == Numbered(<<>>)
BY DEF Numbered

\* A numbered sequence is continued by the next number.
LEMMA NumberedAppend ==
    ASSUME NEW s, Numbered(s), NEW k, k = Len(s) + 1
    PROVE  Numbered(Append(s, k)) /\ Len(Append(s, k)) = k
<1>1. s \in Seq(Nat) /\ Len(s) \in Nat /\ k \in Nat
  BY DEF Numbered
<1>2. Append(s, k) \in Seq(Nat) /\ Len(Append(s, k)) = k
  BY <1>1
<1>3. \A i \in 1..Len(Append(s, k)) : Append(s, k)[i] = i
  BY <1>1, <1>2 DEF Numbered
<1>. QED BY <1>2, <1>3 DEF Numbered

LEMMA ScheduleNumbered == Numbered(Schedule) /\ Len(Schedule) = Trials
BY StudyAssumption DEF Schedule, Numbered

\* Numbered sequences of one length are equal.
LEMMA NumberedEqual ==
    ASSUME NEW s, NEW t, Numbered(s), Numbered(t), Len(s) = Len(t)
    PROVE  s = t
BY SeqEqual DEF Numbered

LEMMA NumberedPrefix ==
    ASSUME NEW s, Numbered(s), Len(s) <= Trials
    PROVE  IsPrefix(s, Schedule)
<1>. DEFINE p == SubSeq(s, 1, Len(s))  q == SubSeq(Schedule, 1, Len(s))
<1>1. s \in Seq(Nat) /\ Schedule \in Seq(Nat) /\ Len(s) \in Nat /\ Len(Schedule) = Trials
  BY ScheduleNumbered DEF Numbered
<1>2. p \in Seq(Nat) /\ q \in Seq(Nat) /\ Len(p) = Len(s) /\ Len(q) = Len(s)
  BY <1>1, StudyAssumption
<1>3. \A i \in 1..Len(s) : p[i] = i /\ q[i] = i
  BY <1>1, ScheduleNumbered, StudyAssumption DEF Numbered
<1>4. p = q
  BY <1>2, <1>3, SeqEqual
<1>. QED BY <1>1, <1>4 DEF IsPrefix

\* The keys a command skips are those up to the number of rows it found.
LEMMA SkippedFirst ==
    ASSUME RowInv, NEW k \in 1..Trials
    PROVE  Skipped(k) <=> k <= before
<1>. DEFINE found == SubSeq(rows, 1, before)
<1>1. /\ rows \in Seq(Nat) /\ before \in Nat /\ before <= Len(rows)
      /\ \A i \in 1..Len(rows) : rows[i] = i
  BY DEF RowInv, Numbered
<1>2. found \in Seq(Nat) /\ Len(found) = before /\ \A i \in 1..before : found[i] = i
  BY <1>1
<1>3. DOMAIN found = 1..before
  BY <1>2
<1>4. Range(found) = 1..before
  BY <1>2, <1>3 DEF Range
<1>. QED BY <1>1, <1>4, StudyAssumption DEF Skipped

\* Proceeding past the rows there are leads to the next trial or the summary.
LEMMA ProceedNext ==
    ASSUME RowInv, NEW key \in Nat, key <= Trials,
           key <= Len(results), before <= Len(results),
           key = Len(results) \/ before = Len(results), Proceed(key)
    PROVE  \/ pc' = "receipts" /\ at' = Len(results) + 1 /\ at' <= Trials
           \/ pc' = "summary" /\ Len(results) = Trials
<1>1. Len(results) \in Nat /\ Len(results) <= Trials /\ before \in Nat /\ Trials \in Nat
  BY StudyAssumption DEF RowInv, Numbered
<1>2. \A k \in 1..Trials : Skipped(k) <=> k <= before
  BY SkippedFirst
<1>3. CASE \E k \in 1..Trials : IsNext(key, k) /\ at' = k /\ pc' = "receipts"
  <2>1. PICK k \in 1..Trials : IsNext(key, k) /\ at' = k /\ pc' = "receipts"
    BY <1>3
  <2>2. k > key /\ k > before /\ \A j \in (key + 1)..(k - 1) : j <= before
    BY <2>1, <1>1, <1>2 DEF IsNext
  <2>3. k > Len(results)
    BY <2>2, <1>1
  <2>4. k = Len(results) + 1
    <3>1. SUFFICES ASSUME k > Len(results) + 1 PROVE FALSE
      BY <2>3, <1>1
    <3>2. Len(results) + 1 \in (key + 1)..(k - 1)
      BY <3>1, <1>1
    <3>3. Len(results) + 1 <= before
      BY <3>2, <2>2
    <3>. QED BY <3>3, <1>1
  <2>. QED BY <2>1, <2>4
<1>4. CASE (\A k \in (key + 1)..Trials : Skipped(k)) /\ pc' = "summary"
  <2>1. SUFFICES ASSUME Len(results) < Trials PROVE FALSE
    BY <1>4, <1>1
  <2>2. Len(results) + 1 \in (key + 1)..Trials /\ Len(results) + 1 \in 1..Trials
    BY <2>1, <1>1
  <2>. QED BY <2>2, <1>1, <1>2, <1>4
<1>. QED BY <1>3, <1>4 DEF Proceed

LEMMA StudyInvInit == Init => StudyInv
BY EmptyNumbered, StudyAssumption DEF Init, StudyInv, RowInv, PlaceInv

LEMMA StudyInvStep == StudyInv /\ [Next]_vars => StudyInv'
<1>1. SUFFICES ASSUME StudyInv, [Next]_vars PROVE StudyInv'
  OBVIOUS
<1>. USE <1>1
<1>2. /\ RowInv /\ PlaceInv
      /\ Len(results) \in Nat /\ Len(rows) \in Nat /\ Trials \in Nat \ {0} /\ before \in Nat
  BY StudyAssumption DEF StudyInv, RowInv, Numbered
<1>3. CASE RunAr2
  BY <1>2, <1>3, EmptyNumbered DEF RunAr2, StudyInv, RowInv, PlaceInv, files, bounds
<1>4. CASE ResumeAr2
  BY <1>2, <1>4 DEF ResumeAr2, StudyInv, RowInv, PlaceInv, files
<1>5. CASE RecordResumed
  <2>1. pc = "resumed" /\ Proceed(0) /\ before = Len(results) /\ Len(rows) = Len(results)
    BY <1>2, <1>5 DEF RecordResumed, PlaceInv
  <2>2. \/ pc' = "receipts" /\ at' = Len(results) + 1 /\ at' <= Trials
        \/ pc' = "summary" /\ Len(results) = Trials
    <3>1. 0 \in Nat /\ 0 <= Trials /\ 0 <= Len(results) /\ before <= Len(results)
      BY <1>2, <2>1
    <3>. QED BY <1>2, <2>1, <3>1, ProceedNext
  <2>3. UNCHANGED <<results, rows, before, status>>
    BY <1>5 DEF RecordResumed, files
  <2>. QED BY <1>2, <2>1, <2>2, <2>3 DEF StudyInv, RowInv, PlaceInv
<1>6. CASE AppendReceipt
  BY <1>2, <1>6 DEF AppendReceipt, StudyInv, RowInv, PlaceInv, ledger
<1>7. CASE AppendRow
  <2>1. /\ pc = "row" /\ pc' = "event" /\ results' = Append(results, at)
        /\ UNCHANGED <<rows, before, at, status>>
    BY <1>7 DEF AppendRow, ledger, memory
  <2>2. at = Len(results) + 1 /\ at <= Trials /\ Len(rows) = Len(results)
    BY <1>2, <2>1 DEF PlaceInv
  <2>3. Numbered(results)
    BY <1>2 DEF RowInv
  <2>4. Numbered(results') /\ Len(results') = at
    BY <2>1, <2>2, <2>3, NumberedAppend
  <2>5. status # "absent"
    BY <1>2, <2>1 DEF PlaceInv
  <2>. QED BY <1>2, <2>1, <2>2, <2>4, <2>5 DEF StudyInv, RowInv, PlaceInv
<1>8. CASE RecordTrial
  <2>1. /\ pc = "event" /\ rows' = Append(rows, at) /\ Proceed(at)
        /\ UNCHANGED <<results, before, status>>
    BY <1>8 DEF RecordTrial, files
  <2>2. at = Len(results) /\ at = Len(rows) + 1 /\ before <= Len(rows) /\ at \in Nat /\ at <= Trials
    BY <1>2, <2>1 DEF PlaceInv, RowInv
  <2>3. Numbered(rows') /\ Len(rows') = at
    <3>1. Numbered(rows)
      BY <1>2 DEF RowInv
    <3>. QED BY <2>1, <2>2, <3>1, NumberedAppend
  <2>4. \/ pc' = "receipts" /\ at' = Len(results) + 1 /\ at' <= Trials
        \/ pc' = "summary" /\ Len(results) = Trials
    <3>1. before <= Len(results)
      BY <1>2, <2>2
    <3>. QED BY <1>2, <2>1, <2>2, <3>1, ProceedNext
  <2>. QED BY <1>2, <2>1, <2>2, <2>3, <2>4 DEF StudyInv, RowInv, PlaceInv
<1>9. CASE WriteSummary
  BY <1>2, <1>9 DEF WriteSummary, StudyInv, RowInv, PlaceInv, ledger, memory
<1>10. CASE RecordArtifact
  BY <1>2, <1>10 DEF RecordArtifact, StudyInv, RowInv, PlaceInv, files, memory
<1>11. CASE ArtifactConflict
  BY <1>2, <1>11, EmptyNumbered DEF ArtifactConflict, Forget, StudyInv, RowInv, PlaceInv, files, ledger
<1>12. CASE RecordCompleted
  BY <1>2, <1>12, EmptyNumbered DEF RecordCompleted, Forget, StudyInv, RowInv, PlaceInv, files, memory
<1>13. CASE MarkCompleted
  BY <1>2, <1>13, EmptyNumbered DEF MarkCompleted, Forget, StudyInv, RowInv, PlaceInv, files
<1>14. CASE Kill
  BY <1>2, <1>14, EmptyNumbered DEF Kill, Forget, StudyInv, RowInv, PlaceInv, files, ledger
<1>15. CASE UNCHANGED vars
  BY <1>2, <1>15 DEF vars, files, ledger, memory, StudyInv, RowInv, PlaceInv
<1>. QED BY <1>3, <1>4, <1>5, <1>6, <1>7, <1>8, <1>9, <1>10, <1>11, <1>12, <1>13, <1>14, <1>15 DEF Next, Step

(* The result rows are always the first trials of the schedule, each once    *)
(* and in order, whatever crashes and resumes came before.                   *)
THEOREM AlwaysFollows == Spec => []RowsFollowSchedule
<1>1. StudyInv => RowsFollowSchedule
  BY NumberedPrefix DEF StudyInv, RowInv, RowsFollowSchedule
<1>. QED BY <1>1, StudyInvInit, StudyInvStep, PTL DEF Spec

-----------------------------------------------------------------------------
(* The summary and the closing of a study. *)

Events == [type : {"ar2_protocol_frozen", "ar2_resumed", "ar2_trial_completed", "ar2_completed"}, key : Nat]

Closed == \E e \in Range(events) : e.type = "ar2_completed"

\* What the summary, the artifact and the closing event agree on.
ClosingInv ==
    /\ events \in Seq(Events)
    /\ ScoredOnce
    /\ pc \in {"completed", "status"} => artifact = summary
    /\ pc = "status" => Closed
    /\ status = "COMPLETED" => pc = "idle" /\ CompletedIsWhole

\* What the commands record.
LEMMA EventType ==
    /\ \A k \in Nat : [type |-> "ar2_trial_completed", key |-> k] \in Events
    /\ [type |-> "ar2_protocol_frozen", key |-> 0] \in Events
    /\ [type |-> "ar2_resumed", key |-> 0] \in Events
    /\ [type |-> "ar2_completed", key |-> 0] \in Events
BY DEF Events

LEMMA ClosingInvInit == Init => ClosingInv
BY DEF Init, ClosingInv, ScoredOnce

\* An event more: the earlier ones stay.
LEMMA EventAppend ==
    ASSUME events \in Seq(Events), NEW e \in Events,
           events' = Append(events, e)
    PROVE  /\ events' \in Seq(Events)
           /\ Range(events') = Range(events) \cup {e}
<1>1. /\ events' \in Seq(Events) /\ Len(events) \in Nat
      /\ Len(events') = Len(events) + 1
      /\ DOMAIN events = 1..Len(events) /\ DOMAIN events' = 1..(Len(events) + 1)
      /\ events'[Len(events) + 1] = e
      /\ \A i \in 1..Len(events) : events'[i] = events[i]
  OBVIOUS
<1>. QED BY <1>1 DEF Range

LEMMA ClosingInvStep == StudyInv /\ ClosingInv /\ [Next]_vars => ClosingInv'
<1>1. SUFFICES ASSUME StudyInv, ClosingInv, [Next]_vars PROVE ClosingInv'
  OBVIOUS
<1>. USE <1>1 DEF ClosingInv
<1>2. PlaceInv /\ Trials \in Nat
  BY StudyAssumption DEF StudyInv
<1>3. ASSUME UNCHANGED <<results, summary, artifact, status, events>>,
             pc' \notin {"completed", "status"}, pc' = "idle" \/ status # "COMPLETED"
      PROVE  ClosingInv'
  BY <1>3 DEF ScoredOnce, CompletedIsWhole, Closed
<1>4. CASE RunAr2
  <2>1. events' \in Seq(Events)
    BY <1>4, EventAppend, EventType DEF RunAr2
  <2>. QED BY <1>4, <2>1 DEF RunAr2, files, ScoredOnce
<1>5. CASE ResumeAr2
  BY <1>5 DEF ResumeAr2, files, ScoredOnce
<1>6. CASE RecordResumed
  <2>1. events' \in Seq(Events)
    BY <1>6, EventAppend, EventType DEF RecordResumed
  <2>2. pc' \in {"receipts", "summary"}
    BY <1>6 DEF RecordResumed, Proceed
  <2>. QED BY <1>6, <2>1, <2>2 DEF RecordResumed, files, ScoredOnce
<1>7. CASE AppendReceipt
  BY <1>3, <1>7 DEF AppendReceipt, ledger
<1>8. CASE AppendRow
  BY <1>8 DEF AppendRow, ledger, ScoredOnce
<1>9. CASE RecordTrial
  <2>1. at \in Nat
    BY <1>2, <1>9 DEF RecordTrial, PlaceInv, StudyInv, RowInv, Numbered
  <2>2. events' \in Seq(Events)
    BY <1>9, <2>1, EventAppend, EventType DEF RecordTrial
  <2>3. pc' \in {"receipts", "summary"}
    BY <1>9 DEF RecordTrial, Proceed
  <2>. QED BY <1>9, <2>2, <2>3 DEF RecordTrial, files, ScoredOnce
<1>10. CASE WriteSummary
  <2>1. rows = Schedule
    BY <1>2, <1>10, ScheduleNumbered, NumberedEqual DEF WriteSummary, PlaceInv, StudyInv, RowInv
  <2>2. summary'.scored = Schedule
    BY <1>10, <2>1 DEF WriteSummary
  <2>. QED BY <1>10, <2>2 DEF WriteSummary, ledger, ScoredOnce
<1>11. CASE RecordArtifact
  BY <1>11 DEF RecordArtifact, files, ScoredOnce
<1>12. CASE ArtifactConflict
  BY <1>3, <1>12 DEF ArtifactConflict, files, ledger
<1>13. CASE RecordCompleted
  <2>. DEFINE e == [type |-> "ar2_completed", key |-> 0]
  <2>1. events' = Append(events, e) /\ e \in Events
    BY <1>13, EventType DEF RecordCompleted
  <2>2. events' \in Seq(Events) /\ Range(events') = Range(events) \cup {e}
    BY <2>1, EventAppend
  <2>3. e.type = "ar2_completed" /\ e \in Range(events')
    BY <2>2
  <2>4. Closed'
    BY <2>3 DEF Closed
  <2>. QED BY <1>13, <2>2, <2>4 DEF RecordCompleted, files, ScoredOnce
<1>14. CASE MarkCompleted
  <2>1. results = Schedule
    BY <1>2, <1>14, ScheduleNumbered, NumberedEqual DEF MarkCompleted, PlaceInv, StudyInv, RowInv
  <2>. QED BY <1>14, <2>1 DEF MarkCompleted, files, ScoredOnce, CompletedIsWhole, Closed
<1>15. CASE Kill
  BY <1>3, <1>15 DEF Kill, files, ledger
<1>16. CASE UNCHANGED vars
  BY <1>16 DEF vars, files, ledger, ScoredOnce, CompletedIsWhole, Closed
<1>. QED BY <1>4, <1>5, <1>6, <1>7, <1>8, <1>9, <1>10, <1>11, <1>12, <1>13, <1>14, <1>15, <1>16 DEF Next, Step

(* Every summary ever written scores each scheduled trial exactly once.      *)
THEOREM AlwaysScoredOnce == Spec => []ScoredOnce
<1>1. ClosingInv => ScoredOnce
  BY DEF ClosingInv
<1>. QED BY <1>1, StudyInvInit, StudyInvStep, ClosingInvInit, ClosingInvStep, PTL DEF Spec

(* A study marked COMPLETED has all its rows, its closing event and the      *)
(* summary the ledger recorded.                                              *)
THEOREM AlwaysWhole == Spec => []CompletedIsWhole
<1>1. ClosingInv => CompletedIsWhole
  BY DEF ClosingInv, CompletedIsWhole
<1>. QED BY <1>1, StudyInvInit, StudyInvStep, ClosingInvInit, ClosingInvStep, PTL DEF Spec

-----------------------------------------------------------------------------
(* The streams of receipts.jsonl, and what the verification makes of them.   *)

LEMMA LeastOf ==
    ASSUME NEW T, T \subseteq Nat, T # {}
    PROVE  \E x \in T : \A y \in T : x <= y
<1>1. PICK R : R = OpToRel(<, Nat)
  OBVIOUS
<1>2. IsWellFoundedOn(R, Nat)
  BY <1>1, NatLessThanWellFounded
<1>3. PICK x \in T : \A y \in T : ~(<<y, x>> \in R)
  BY <1>2, WFMin
<1>4. R = {ss \in Nat \X Nat : ss[1] < ss[2]}
  BY <1>1 DEF OpToRel
<1>5. ASSUME NEW y \in T PROVE x <= y
  <2>1. y < x => <<y, x>> \in R
    BY <1>4
  <2>. QED BY <1>3, <2>1
<1>. QED BY <1>5

IsSeq(s) == \E S : s \in Seq(S)

LEMMA SeqIs == ASSUME NEW s, IsSeq(s) PROVE Len(s) \in Nat /\ DOMAIN s = 1..Len(s)
BY DEF IsSeq

\* A line as a trial of the schedule writes it.
Genuine(line) ==
    /\ line.payload.key \in 1..Trials /\ line.payload.step \in 0..(Budget - 1)
    /\ line = Receipt(line.payload.key, line.payload.step)

GenuineLines(lines) == IsSeq(lines) /\ \A i \in 1..Len(lines) : Genuine(lines[i])

\* Every line starts a stream or goes on with the line before it.
GoesOn(lines, i) ==
    /\ i > 1
    /\ lines[i].payload.key = lines[i - 1].payload.key
    /\ lines[i].payload.step = lines[i - 1].payload.step + 1
Chained(lines) == \A i \in 1..Len(lines) : lines[i].payload.step = 0 \/ GoesOn(lines, i)

LEMMA ReceiptIs ==
    ASSUME NEW k, NEW s
    PROVE  /\ Receipt(k, s).payload = Payload(k, s)
           /\ Receipt(k, s).payload.key = k /\ Receipt(k, s).payload.step = s
           /\ Receipt(k, s).payload.score = "measured"
           /\ Receipt(k, s).prev = ChainBefore(k, s) /\ Receipt(k, s).hash = ChainBefore(k, s + 1)
BY DEF Receipt, Payload

LEMMA ChainIs ==
    ASSUME NEW k, NEW s \in Nat
    PROVE  /\ ChainBefore(k, 0) = <<>>
           /\ ChainBefore(k, s + 1) = Append(ChainBefore(k, s), Payload(k, s))
           /\ Len(ChainBefore(k, s)) = s
<1>1. PICK S : S = {Payload(k, i) : i \in Nat}
  OBVIOUS
<1>2. ChainBefore(k, s) \in Seq(S) /\ Len(ChainBefore(k, s)) = s
  <2>1. \A i \in 1..s : Payload(k, i - 1) \in S
    BY <1>1
  <2>. QED BY <2>1 DEF ChainBefore
<1>3. ChainBefore(k, s + 1) \in Seq(S) /\ Len(ChainBefore(k, s + 1)) = s + 1
  <2>1. \A i \in 1..(s + 1) : Payload(k, i - 1) \in S
    BY <1>1
  <2>. QED BY <2>1 DEF ChainBefore
<1>4. PICK p : p = Append(ChainBefore(k, s), Payload(k, s))
  OBVIOUS
<1>5. p \in Seq(S) /\ Len(p) = s + 1
  <2>1. Payload(k, s) \in S
    BY <1>1
  <2>. QED BY <1>2, <1>4, <2>1
<1>6. \A i \in 1..(s + 1) : p[i] = ChainBefore(k, s + 1)[i]
  <2>1. \A i \in 1..s : p[i] = ChainBefore(k, s)[i]
    BY <1>2, <1>4
  <2>2. p[s + 1] = Payload(k, s)
    BY <1>2, <1>4
  <2>3. \A i \in 1..s : ChainBefore(k, s)[i] = Payload(k, i - 1)
    BY DEF ChainBefore
  <2>4. \A i \in 1..(s + 1) : ChainBefore(k, s + 1)[i] = Payload(k, i - 1)
    BY DEF ChainBefore
  <2>5. \A i \in 1..(s + 1) : i \in 1..s \/ i = s + 1
    OBVIOUS
  <2>. QED BY <2>1, <2>2, <2>3, <2>4, <2>5
<1>7. p = ChainBefore(k, s + 1)
  BY <1>3, <1>5, <1>6, SeqEqual
<1>8. ChainBefore(k, 0) = <<>>
  BY DEF ChainBefore
<1>. QED BY <1>2, <1>4, <1>7, <1>8

\* Behind a line of a chained file stands the stream it goes on.
LEMMA StreamBehind ==
    ASSUME NEW lines, GenuineLines(lines), Chained(lines), NEW q \in 1..Len(lines),
           NEW k, NEW s, k = lines[q].payload.key, s = lines[q].payload.step
    PROVE  /\ s \in Nat /\ s < q
           /\ \A j \in 0..s : lines[q - j] = Receipt(k, s - j)
<1>1. Len(lines) \in Nat /\ q \in Nat
  BY SeqIs DEF GenuineLines
<1>2. s \in Nat /\ lines[q] = Receipt(k, s)
  BY StudyAssumption DEF GenuineLines, Genuine
<1>3. PICK T : T = {j \in 0..s : ~(j < q /\ lines[q - j] = Receipt(k, s - j))}
  OBVIOUS
<1>4. T = {}
  <2> SUFFICES ASSUME T # {} PROVE FALSE
    OBVIOUS
  <2>1. PICK j \in T : \A y \in T : j <= y
    <3>1. T \subseteq Nat
      BY <1>2, <1>3
    <3>. QED BY <3>1, LeastOf
  <2>2. j \in 0..s /\ ~(j < q /\ lines[q - j] = Receipt(k, s - j))
    BY <1>3
  <2>3. j # 0
    <3>1. q - 0 = q /\ s - 0 = s /\ 0 < q
      BY <1>1, <1>2
    <3>. QED BY <1>2, <2>2, <3>1
  <2>4. PICK i : i = j - 1
    OBVIOUS
  <2>5. i \in 0..s /\ i \notin T
    BY <1>2, <2>1, <2>2, <2>3, <2>4
  <2>6. i < q /\ lines[q - i] = Receipt(k, s - i)
    BY <1>3, <2>5
  <2>7. PICK m : m = q - i
    OBVIOUS
  <2>8. m \in 1..Len(lines) /\ lines[m].payload.key = k /\ lines[m].payload.step = s - i
    BY <1>1, <1>2, <2>5, <2>6, <2>7, ReceiptIs
  <2>9. s - i # 0
    BY <1>2, <2>2, <2>4
  <2>10. GoesOn(lines, m)
    BY <2>8, <2>9 DEF Chained
  <2>11. m > 1 /\ lines[m - 1].payload.key = k /\ lines[m - 1].payload.step + 1 = s - i
    BY <2>8, <2>10 DEF GoesOn
  <2>12. m - 1 \in 1..Len(lines) /\ m - 1 = q - j
    BY <1>1, <1>2, <2>2, <2>4, <2>7, <2>8, <2>11
  <2>13. Genuine(lines[m - 1])
    BY <2>12 DEF GenuineLines
  <2>14. lines[m - 1].payload.step \in Int
    BY <2>13, StudyAssumption DEF Genuine
  <2>15. lines[m - 1].payload.step = s - j
    <3>1. PICK z \in Int : z = lines[m - 1].payload.step
      BY <2>14
    <3>2. z + 1 = s - i /\ i = j - 1 /\ j \in Nat /\ s \in Nat
      BY <1>2, <2>2, <2>4, <2>11, <3>1
    <3>3. z = s - j
      BY <3>2
    <3>. QED BY <3>1, <3>3
  <2>16. lines[m - 1] = Receipt(k, s - j)
    BY <2>11, <2>13, <2>15 DEF Genuine
  <2>. QED BY <1>1, <2>2, <2>11, <2>12, <2>16, <2>7, <2>8
<1>5. \A j \in 0..s : j < q /\ lines[q - j] = Receipt(k, s - j)
  BY <1>3, <1>4
<1>6. s \in 0..s
  BY <1>2
<1>. QED BY <1>2, <1>5, <1>6

\* The segment between two places.
IsSegment(lines, a, b) ==
    /\ a \in 1..Len(lines) /\ b \in 1..Len(lines) /\ a <= b
    /\ StartsSegment(lines, a) /\ EndsSegment(lines, b)
    /\ \A i \in a..(b - 1) : ~EndsSegment(lines, i)

LEMMA SegmentIs ==
    ASSUME NEW lines, IsSeq(lines)
    PROVE  /\ \A a, b : IsSegment(lines, a, b) => SubSeq(lines, a, b) \in Segments(lines)
           /\ \A segment \in Segments(lines) :
                 \E a, b : IsSegment(lines, a, b) /\ segment = SubSeq(lines, a, b)
<1>1. DOMAIN lines = 1..Len(lines)
  BY SeqIs
<1>2. ASSUME NEW a, NEW b, IsSegment(lines, a, b) PROVE SubSeq(lines, a, b) \in Segments(lines)
  <2>1. PICK span : span = <<a, b>>
    OBVIOUS
  <2>2. span[1] = a /\ span[2] = b /\ span \in (DOMAIN lines) \X (DOMAIN lines)
    BY <1>1, <1>2, <2>1 DEF IsSegment
  <2>3. /\ span[1] <= span[2] /\ StartsSegment(lines, span[1]) /\ EndsSegment(lines, span[2])
        /\ \A i \in span[1]..(span[2] - 1) : ~EndsSegment(lines, i)
    BY <1>2, <2>2 DEF IsSegment
  <2>4. SubSeq(lines, span[1], span[2]) \in Segments(lines)
    BY <2>2, <2>3 DEF Segments
  <2>. QED BY <2>2, <2>4
<1>3. ASSUME NEW segment \in Segments(lines)
      PROVE  \E a, b : IsSegment(lines, a, b) /\ segment = SubSeq(lines, a, b)
  <2>1. PICK span \in (DOMAIN lines) \X (DOMAIN lines) :
            /\ segment = SubSeq(lines, span[1], span[2])
            /\ span[1] <= span[2] /\ StartsSegment(lines, span[1]) /\ EndsSegment(lines, span[2])
            /\ \A i \in span[1]..(span[2] - 1) : ~EndsSegment(lines, i)
    BY DEF Segments
  <2>2. IsSegment(lines, span[1], span[2])
    BY <1>1, <2>1 DEF IsSegment
  <2>. QED BY <2>1, <2>2
<1>. QED BY <1>2, <1>3

\* Every line lies in a segment.
LEMMA SegmentThrough ==
    ASSUME NEW lines, IsSeq(lines), NEW i \in 1..Len(lines)
    PROVE  \E a, b : IsSegment(lines, a, b) /\ a <= i /\ i <= b
<1>1. PICK n : n = Len(lines)
  OBVIOUS
<1>2. n \in Nat /\ i \in 1..n
  BY <1>1, SeqIs
<1>3. PICK b \in i..n : EndsSegment(lines, b) /\ \A j \in i..(b - 1) : ~EndsSegment(lines, j)
  <2>1. PICK T : T = {j \in i..n : EndsSegment(lines, j)}
    OBVIOUS
  <2>2. T \subseteq Nat /\ T # {}
    <3>1. n \in i..n /\ EndsSegment(lines, n)
      BY <1>1, <1>2 DEF EndsSegment
    <3>. QED BY <1>2, <2>1, <3>1
  <2>3. PICK b \in T : \A y \in T : b <= y
    BY <2>2, LeastOf
  <2>4. b \in i..n /\ EndsSegment(lines, b)
    BY <2>1
  <2>5. ASSUME NEW j \in i..(b - 1) PROVE ~EndsSegment(lines, j)
    <3>1. j \in i..n /\ ~(b <= j)
      BY <1>2, <2>4
    <3>. QED BY <2>1, <2>3, <3>1
  <2>. QED BY <2>4, <2>5
<1>4. PICK a \in 1..i : StartsSegment(lines, a) /\ \A j \in (a + 1)..i : ~StartsSegment(lines, j)
  <2>1. PICK T : T = {j \in 0..(i - 1) : StartsSegment(lines, i - j)}
    OBVIOUS
  <2>2. T \subseteq Nat /\ T # {}
    <3>1. i - 1 \in 0..(i - 1) /\ i - (i - 1) = 1
      BY <1>2
    <3>2. StartsSegment(lines, i - (i - 1))
      BY <3>1 DEF StartsSegment
    <3>3. i - 1 \in T
      BY <2>1, <3>1, <3>2
    <3>4. 0..(i - 1) \subseteq Nat
      BY <1>2
    <3>. QED BY <2>1, <3>3, <3>4
  <2>3. PICK d \in T : \A y \in T : d <= y
    BY <2>2, LeastOf
  <2>4. PICK a : a = i - d
    OBVIOUS
  <2>5. d \in 0..(i - 1) /\ a \in 1..i /\ StartsSegment(lines, a)
    BY <1>2, <2>1, <2>4
  <2>6. ASSUME NEW j \in (a + 1)..i PROVE ~StartsSegment(lines, j)
    <3>1. i - j \in 0..(i - 1) /\ ~(d <= i - j) /\ i - (i - j) = j
      BY <1>2, <2>4, <2>5
    <3>. QED BY <2>1, <2>3, <3>1
  <2>. QED BY <2>5, <2>6
<1>5. ASSUME NEW j \in a..(b - 1) PROVE ~EndsSegment(lines, j)
  <2>1. CASE j \in i..(b - 1)
    BY <1>3, <2>1
  <2>2. CASE j < i
    <3>1. j + 1 \in (a + 1)..i /\ j # n
      BY <1>2, <1>4, <2>2
    <3>. QED BY <1>1, <1>4, <3>1 DEF EndsSegment
  <2>. QED BY <1>2, <1>4, <2>1, <2>2
<1>6. a \in 1..n /\ b \in 1..n /\ a <= b /\ a <= i /\ i <= b
  BY <1>2, <1>3, <1>4
<1>7. IsSegment(lines, a, b)
  BY <1>1, <1>3, <1>4, <1>5, <1>6 DEF IsSegment
<1>. QED BY <1>6, <1>7

LEMMA SliceIs ==
    ASSUME NEW lines, IsSeq(lines), NEW a \in 1..Len(lines), NEW b \in 1..Len(lines), a <= b,
           NEW segment, segment = SubSeq(lines, a, b)
    PROVE  /\ IsSeq(segment) /\ Len(segment) = b - a + 1
           /\ \A i \in 1..(b - a + 1) : segment[i] = lines[a + i - 1]
<1>1. PICK S : lines \in Seq(S)
  BY DEF IsSeq
<1>2. segment \in Seq(S) /\ Len(segment) = b - a + 1
  BY <1>1
<1>3. \A i \in 1..(b - a + 1) : segment[i] = lines[a + i - 1]
  BY <1>1
<1>4. IsSeq(segment)
  BY <1>2 DEF IsSeq
<1>. QED BY <1>2, <1>3, <1>4

\* What the verification of a file says of the segment through a line.
LEMMA StreamVerified ==
    ASSUME NEW lines, IsSeq(lines), NEW complete, VerifyStream(lines, complete),
           NEW a, NEW b, IsSegment(lines, a, b), NEW i \in a..b
    PROVE  /\ lines[i].prev = IF i = a THEN <<>> ELSE lines[i - 1].hash
           /\ lines[i].hash = Digest(lines[i].prev, lines[i].payload)
<1>1. PICK segment : segment = SubSeq(lines, a, b)
  OBVIOUS
<1>2. a \in 1..Len(lines) /\ b \in 1..Len(lines) /\ a <= b /\ Len(lines) \in Nat
  BY SeqIs DEF IsSegment
<1>3. /\ IsSeq(segment) /\ Len(segment) = b - a + 1
      /\ \A k \in 1..(b - a + 1) : segment[k] = lines[a + k - 1]
  BY <1>1, <1>2, SliceIs
<1>4. VerifyChain(segment)
  BY <1>1, SegmentIs DEF VerifyStream
<1>5. PICK k : k = i - a + 1
  OBVIOUS
<1>6. k \in 1..(b - a + 1) /\ a + k - 1 = i /\ (k = 1 <=> i = a)
  BY <1>2, <1>5
<1>7. k \in DOMAIN segment
  BY <1>3, <1>6, SeqIs
<1>8. segment[k] = lines[i]
  BY <1>3, <1>6
<1>9. /\ segment[k].prev = (IF k = 1 THEN <<>> ELSE segment[k - 1].hash)
      /\ segment[k].hash = Digest(segment[k].prev, segment[k].payload)
  BY <1>4, <1>7 DEF VerifyChain
<1>10. k # 1 => segment[k - 1] = lines[i - 1]
  <2> SUFFICES ASSUME k # 1 PROVE segment[k - 1] = lines[i - 1]
    OBVIOUS
  <2>1. k - 1 \in 1..(b - a + 1) /\ a + (k - 1) - 1 = i - 1
    BY <1>2, <1>5, <1>6
  <2>. QED BY <1>3, <2>1
<1>. QED BY <1>6, <1>8, <1>9, <1>10

\* A file that is verified is chained.
LEMMA VerifiedChained ==
    ASSUME NEW lines, GenuineLines(lines), NEW complete, VerifyStream(lines, complete)
    PROVE  Chained(lines)
<1>. SUFFICES ASSUME NEW i \in 1..Len(lines), lines[i].payload.step # 0 PROVE GoesOn(lines, i)
  BY DEF Chained
<1>1. IsSeq(lines) /\ Len(lines) \in Nat /\ i \in Nat
  BY SeqIs DEF GenuineLines
<1>2. PICK a, b : IsSegment(lines, a, b) /\ a <= i /\ i <= b
  BY <1>1, SegmentThrough
<1>3. a \in 1..Len(lines) /\ b \in 1..Len(lines) /\ i \in a..b
  BY <1>1, <1>2 DEF IsSegment
<1>4. /\ lines[i].prev = IF i = a THEN <<>> ELSE lines[i - 1].hash
  BY <1>1, <1>2, <1>3, StreamVerified
<1>5. PICK k, s : k = lines[i].payload.key /\ s = lines[i].payload.step
  OBVIOUS
<1>6. s \in Nat /\ s # 0 /\ lines[i] = Receipt(k, s)
  BY <1>5, StudyAssumption DEF GenuineLines, Genuine
<1>7. lines[i].prev = ChainBefore(k, s) /\ Len(lines[i].prev) = s
  BY <1>6, ReceiptIs, ChainIs
<1>8. i # a
  BY <1>4, <1>6, <1>7
<1>9. i - 1 \in 1..Len(lines) /\ i > 1 /\ i - 1 \in a..(b - 1) /\ i # 1
  BY <1>1, <1>3, <1>8
<1>10. PICK t : t = lines[i - 1].payload.step
  OBVIOUS
<1>11. t \in Nat /\ lines[i - 1] = Receipt(lines[i - 1].payload.key, t)
  BY <1>9, <1>10, StudyAssumption DEF GenuineLines, Genuine
<1>12. lines[i - 1].hash = ChainBefore(lines[i - 1].payload.key, t + 1)
  BY <1>11, ReceiptIs
<1>13. Len(lines[i - 1].hash) = t + 1
  BY <1>11, <1>12, ChainIs
<1>14. s = t + 1
  BY <1>4, <1>7, <1>8, <1>13
<1>15. ~StartsSegment(lines, i)
  <2>1. ~EndsSegment(lines, i - 1)
    BY <1>2, <1>9 DEF IsSegment
  <2>2. (i - 1) + 1 = i
    BY <1>1
  <2>. QED BY <2>1, <2>2 DEF EndsSegment
<1>16. lines[i].payload.key = lines[i - 1].payload.key
  BY <1>9, <1>15 DEF StartsSegment
<1>. QED BY <1>5, <1>9, <1>10, <1>14, <1>16 DEF GoesOn

\* An altered receipt is never verified.
LEMMA AlteredRefused ==
    ASSUME NEW lines, GenuineLines(lines), NEW i \in 1..Len(lines), NEW complete
    PROVE  ~VerifyStream(Altered(lines, i), complete)
<1>. SUFFICES ASSUME VerifyStream(Altered(lines, i), complete) PROVE FALSE
  OBVIOUS
<1>1. PICK edited : edited = Altered(lines, i)
  OBVIOUS
<1>2. PICK S : lines \in Seq(S)
  BY DEF GenuineLines, IsSeq
<1>3. PICK k, s : k = lines[i].payload.key /\ s = lines[i].payload.step
  OBVIOUS
<1>4. s \in Nat /\ lines[i] = Receipt(k, s)
  BY <1>3, StudyAssumption DEF GenuineLines, Genuine
<1>5. PICK line : line = [lines[i] EXCEPT !.payload.score = "altered"]
  OBVIOUS
<1>6. /\ line.payload.score = "altered"
      /\ line.prev = ChainBefore(k, s) /\ line.hash = ChainBefore(k, s + 1)
  BY <1>4, <1>5 DEF Receipt, Payload
<1>7. edited = [lines EXCEPT ![i] = line]
  BY <1>1, <1>5 DEF Altered
<1>8. edited \in Seq(S \cup {line}) /\ Len(edited) = Len(lines) /\ edited[i] = line
  BY <1>2, <1>7
<1>9. IsSeq(edited) /\ i \in 1..Len(edited)
  BY <1>8 DEF IsSeq
<1>10. PICK a, b : IsSegment(edited, a, b) /\ a <= i /\ i <= b
  BY <1>9, SegmentThrough
<1>11. i \in a..b
  <2>1. a \in Nat /\ b \in Nat /\ i \in Nat
    BY <1>9, <1>10, SeqIs DEF IsSegment
  <2>. QED BY <1>10, <2>1
<1>12. VerifyStream(edited, complete)
  BY <1>1
<1>13. line.hash = Digest(line.prev, line.payload)
  BY <1>8, <1>9, <1>10, <1>11, <1>12, StreamVerified
<1>14. Append(ChainBefore(k, s), Payload(k, s)) = Append(ChainBefore(k, s), line.payload)
  BY <1>4, <1>6, <1>13, ChainIs DEF Digest
<1>15. Payload(k, s) = line.payload
  <2>1. PICK T : ChainBefore(k, s) \in Seq(T)
    <3>1. PICK T : T = {Payload(k, m) : m \in Nat}
      OBVIOUS
    <3>2. \A j \in 1..s : Payload(k, j - 1) \in T
      BY <1>4, <3>1
    <3>3. ChainBefore(k, s) \in Seq(T)
      BY <1>4, <3>2 DEF ChainBefore
    <3>. QED BY <3>3
  <2>2. PICK U : U = T \cup {Payload(k, s), line.payload}
    OBVIOUS
  <2>3. ChainBefore(k, s) \in Seq(U) /\ Payload(k, s) \in U /\ line.payload \in U
    BY <2>1, <2>2
  <2>. QED BY <1>14, <2>3
<1>. QED BY <1>6, <1>15 DEF Payload

\* The segment of a chained file that ends at a line starts where its stream does.
LEMMA SegmentStream ==
    ASSUME NEW lines, GenuineLines(lines), Chained(lines), NEW a, NEW b, IsSegment(lines, a, b),
           NEW k, NEW s, k = lines[b].payload.key, s = lines[b].payload.step
    PROVE  s \in Nat /\ a = b - s /\ \A i \in a..b : lines[i] = Receipt(k, i - a)
<1>1. a \in 1..Len(lines) /\ b \in 1..Len(lines) /\ a <= b /\ Len(lines) \in Nat
  BY SeqIs DEF IsSegment, GenuineLines
<1>2. s \in Nat /\ s < b /\ \A j \in 0..s : lines[b - j] = Receipt(k, s - j)
  BY <1>1, StreamBehind
<1>3. PICK c : c = b - s
  OBVIOUS
<1>4. c \in 1..b
  BY <1>1, <1>2, <1>3
<1>5. ASSUME NEW i \in c..b PROVE lines[i] = Receipt(k, i - c)
  <2>1. b - i \in 0..s /\ b - (b - i) = i /\ s - (b - i) = i - c
    BY <1>1, <1>2, <1>3, <1>4
  <2>. QED BY <1>2, <2>1
<1>6. ~(c < a)
  <2> SUFFICES ASSUME c < a PROVE FALSE
    OBVIOUS
  <2>1. a \in c..b /\ a - 1 \in c..b /\ a # 1 /\ a - c # 0
    BY <1>1, <1>4
  <2>2. lines[a].payload.key = k /\ lines[a].payload.step = a - c /\ lines[a - 1].payload.key = k
    BY <1>5, <2>1, ReceiptIs
  <2>3. ~StartsSegment(lines, a)
    BY <2>1, <2>2 DEF StartsSegment
  <2>. QED BY <2>3 DEF IsSegment
<1>7. ~(a < c)
  <2> SUFFICES ASSUME a < c PROVE FALSE
    OBVIOUS
  <2>1. c \in c..b /\ c - 1 \in a..(b - 1) /\ c - c = 0 /\ (c - 1) + 1 = c
    BY <1>1, <1>4
  <2>2. lines[c].payload.step = 0
    BY <1>5, <2>1, ReceiptIs
  <2>3. EndsSegment(lines, c - 1)
    BY <2>1, <2>2 DEF StartsSegment, EndsSegment
  <2>. QED BY <2>1, <2>3 DEF IsSegment
<1>8. a = c
  BY <1>1, <1>4, <1>6, <1>7
<1>. QED BY <1>2, <1>3, <1>5, <1>8

\* A chained file whose short streams are of finished trials is verified.
LEMMA ChainedVerified ==
    ASSUME NEW lines, GenuineLines(lines), Chained(lines), lines # <<>>, NEW complete,
           \A b \in 1..Len(lines) :
              EndsSegment(lines, b) /\ lines[b].payload.step < Budget - 1
                 => lines[b].payload.key \in complete
    PROVE  VerifyStream(lines, complete)
<1>1. IsSeq(lines) /\ Len(lines) \in Nat
  BY SeqIs DEF GenuineLines
<1>. SUFFICES ASSUME NEW segment \in Segments(lines)
              PROVE  /\ VerifyChain(segment) /\ Len(segment) <= Budget
                     /\ Len(segment) < Budget => segment[1].payload.key \in complete
  BY DEF VerifyStream
<1>2. PICK a, b : IsSegment(lines, a, b) /\ segment = SubSeq(lines, a, b)
  BY <1>1, SegmentIs
<1>3. a \in 1..Len(lines) /\ b \in 1..Len(lines) /\ a <= b /\ EndsSegment(lines, b)
  BY <1>2 DEF IsSegment
<1>4. /\ IsSeq(segment) /\ Len(segment) = b - a + 1
      /\ \A i \in 1..(b - a + 1) : segment[i] = lines[a + i - 1]
  BY <1>1, <1>2, <1>3, SliceIs
<1>5. PICK k, s : k = lines[b].payload.key /\ s = lines[b].payload.step
  OBVIOUS
<1>6. s \in Nat /\ a = b - s /\ \A i \in a..b : lines[i] = Receipt(k, i - a)
  BY <1>2, <1>5, SegmentStream
<1>7. s <= Budget - 1 /\ Budget \in Nat
  BY <1>3, <1>5, StudyAssumption DEF GenuineLines, Genuine
<1>8. Len(segment) = s + 1 /\ Len(segment) <= Budget
  BY <1>1, <1>3, <1>4, <1>6, <1>7
<1>9. ASSUME NEW i \in 1..(s + 1) PROVE segment[i] = Receipt(k, i - 1)
  <2>1. a + i - 1 \in a..b /\ (a + i - 1) - a = i - 1 /\ i \in 1..(b - a + 1)
    BY <1>1, <1>3, <1>6
  <2>. QED BY <1>4, <1>6, <2>1
<1>10. DOMAIN segment = 1..(s + 1)
  BY <1>4, <1>8, SeqIs
<1>11. VerifyChain(segment)
  <2> SUFFICES ASSUME NEW i \in 1..(s + 1)
               PROVE  /\ segment[i].prev = (IF i = 1 THEN <<>> ELSE segment[i - 1].hash)
                      /\ segment[i].hash = Digest(segment[i].prev, segment[i].payload)
    BY <1>10 DEF VerifyChain
  <2>1. PICK j \in Nat : j = i - 1
    BY <1>6
  <2>2. segment[i] = Receipt(k, j)
    BY <1>9, <2>1
  <2>3. /\ segment[i].prev = ChainBefore(k, j) /\ segment[i].payload = Payload(k, j)
        /\ segment[i].hash = ChainBefore(k, j + 1)
    BY <2>2, ReceiptIs
  <2>4. segment[i].hash = Digest(segment[i].prev, segment[i].payload)
    BY <2>3, ChainIs DEF Digest
  <2>5. CASE i = 1
    <3>1. j = 0
      BY <2>1, <2>5
    <3>. QED BY <2>3, <2>4, <2>5, <3>1, ChainIs
  <2>6. CASE i # 1
    <3>1. j \in 1..(s + 1) /\ (j - 1) + 1 = j
      BY <1>6, <2>1, <2>6
    <3>2. segment[j] = Receipt(k, j - 1)
      BY <1>9, <3>1
    <3>3. segment[j].hash = ChainBefore(k, j)
      BY <3>1, <3>2, ReceiptIs
    <3>. QED BY <2>1, <2>3, <2>4, <2>6, <3>3
  <2>. QED BY <2>5, <2>6
<1>12. ASSUME Len(segment) < Budget PROVE segment[1].payload.key \in complete
  <2>1. s < Budget - 1
    BY <1>6, <1>7, <1>8, <1>12
  <2>2. k \in complete
    BY <1>3, <1>5, <2>1
  <2>3. 1 \in 1..(s + 1)
    BY <1>6
  <2>. QED BY <1>9, <2>2, <2>3, ReceiptIs
<1>. QED BY <1>8, <1>11, <1>12

\* The last receipt of a trial ends a segment.
LEMMA LastEnds ==
    ASSUME NEW lines, GenuineLines(lines), Chained(lines), NEW q \in 1..Len(lines), NEW k,
           lines[q] = Receipt(k, Budget - 1)
    PROVE  EndsSegment(lines, q)
<1>. SUFFICES ASSUME q # Len(lines), lines[q + 1].payload.step # 0 PROVE FALSE
  BY DEF EndsSegment, StartsSegment
<1>1. Len(lines) \in Nat /\ Budget \in Nat \ {0} /\ lines[q].payload.step = Budget - 1
  BY SeqIs, ReceiptIs, StudyAssumption DEF GenuineLines
<1>2. PICK m \in 1..Len(lines) : m = q + 1 /\ m - 1 = q
  BY <1>1
<1>3. GoesOn(lines, m)
  BY <1>2 DEF Chained
<1>4. lines[m].payload.step = Budget
  BY <1>1, <1>2, <1>3 DEF GoesOn
<1>5. lines[m].payload.step \in 0..(Budget - 1)
  BY DEF GenuineLines, Genuine
<1>. QED BY <1>1, <1>4, <1>5

\* A chained file with the last receipt of a trial has its whole stream.
LEMMA WholeStream ==
    ASSUME NEW lines, GenuineLines(lines), Chained(lines), NEW q \in 1..Len(lines), NEW k,
           lines[q] = Receipt(k, Budget - 1)
    PROVE  Stream(k) \in Segments(lines)
<1>1. IsSeq(lines) /\ Len(lines) \in Nat /\ Budget \in Nat \ {0}
  BY SeqIs, StudyAssumption DEF GenuineLines
<1>2. lines[q].payload.key = k /\ lines[q].payload.step = Budget - 1
  BY ReceiptIs
<1>3. EndsSegment(lines, q)
  BY LastEnds
<1>4. PICK a, b : IsSegment(lines, a, b) /\ a <= q /\ q <= b
  BY <1>1, SegmentThrough
<1>5. b = q /\ a \in 1..Len(lines)
  <2>1. a \in 1..Len(lines) /\ b \in 1..Len(lines) /\ \A i \in a..(b - 1) : ~EndsSegment(lines, i)
    BY <1>4 DEF IsSegment
  <2>2. q < b => q \in a..(b - 1)
    BY <1>1, <1>4, <2>1
  <2>. QED BY <1>1, <1>3, <1>4, <2>1, <2>2
<1>6. a = q - (Budget - 1) /\ \A i \in a..q : lines[i] = Receipt(k, i - a)
  <2>1. PICK z, s : z = lines[b].payload.key /\ s = lines[b].payload.step
    OBVIOUS
  <2>2. a = b - s /\ \A i \in a..b : lines[i] = Receipt(z, i - a)
    BY <1>4, <2>1, SegmentStream
  <2>3. z = k /\ s = Budget - 1
    BY <1>2, <1>5, <2>1
  <2>. QED BY <1>5, <2>2, <2>3
<1>7. PICK segment : segment = SubSeq(lines, a, q)
  OBVIOUS
<1>8. segment \in Segments(lines)
  BY <1>1, <1>4, <1>5, <1>7, SegmentIs
<1>9. /\ IsSeq(segment) /\ Len(segment) = Budget
      /\ \A i \in 1..Budget : segment[i] = lines[a + i - 1]
  <2>1. q - a + 1 = Budget /\ a <= q
    BY <1>1, <1>5, <1>6
  <2>2. /\ IsSeq(segment) /\ Len(segment) = b - a + 1
        /\ \A i \in 1..(b - a + 1) : segment[i] = lines[a + i - 1]
    <3>1. /\ a \in 1..Len(lines) /\ b \in 1..Len(lines) /\ a <= b
          /\ IsSeq(lines) /\ segment = SubSeq(lines, a, b)
      BY <1>1, <1>5, <1>7, <2>1
    <3>. QED BY <3>1, SliceIs
  <2>3. b - a + 1 = Budget
    BY <1>5, <2>1
  <2>. QED BY <2>2, <2>3
<1>10. ASSUME NEW i \in 1..Budget PROVE segment[i] = Receipt(k, i - 1)
  <2>1. a + i - 1 \in a..q /\ (a + i - 1) - a = i - 1
    BY <1>1, <1>5, <1>6
  <2>. QED BY <1>6, <1>9, <2>1
<1>11. segment = Stream(k)
  <2>1. PICK S : segment \in Seq(S)
    BY <1>9 DEF IsSeq
  <2>2. segment = [i \in 1..Budget |-> segment[i]]
    BY <1>9, <2>1
  <2>. QED BY <1>10, <2>2 DEF Stream
<1>. QED BY <1>8, <1>11

-----------------------------------------------------------------------------
(* The gate of every summary passes, and edits of the file are caught.       *)

EndsWith(lines, k, s) == lines # <<>> /\ lines[Len(lines)] = Receipt(k, s)

\* Every row has its last receipt, and a trial being written its latest.
StreamInv ==
    /\ GenuineLines(receipts) /\ Chained(receipts)
    /\ \A k \in Range(results) : \E q \in 1..Len(receipts) : receipts[q] = Receipt(k, Budget - 1)
    /\ mode \in {"run", "resume"}
    /\ status = "absent" => receipts = <<>>
    /\ pc = "receipts" => written \in 0..(Budget - 1)
    /\ pc = "receipts" /\ written > 0 => EndsWith(receipts, at, written - 1)
    /\ pc = "row" => EndsWith(receipts, at, Budget - 1)
    /\ pc = "resumed" => mode = "resume"

\* A first run that nobody killed has only whole streams, but for its last.
Unbroken(lines) ==
    \A i \in 1..Len(lines) :
        i < Len(lines) /\ lines[i + 1].payload.step = 0 => lines[i].payload.step = Budget - 1
EndsWhole(lines) == lines # <<>> => lines[Len(lines)].payload.step = Budget - 1

FirstRunInv ==
    mode = "run" /\ pc # "idle" =>
        /\ Unbroken(receipts)
        /\ (pc = "receipts" /\ written > 0) \/ EndsWhole(receipts)

GateInv ==
    /\ StreamInv /\ FirstRunInv
    /\ GatePassed

LEMMA GateInvInit == Init => GateInv
<1> SUFFICES ASSUME Init PROVE GateInv
  OBVIOUS
<1>1. /\ receipts = <<>> /\ results = <<>> /\ pc = "idle" /\ mode = "run" /\ summary = None
  BY DEF Init
<1>2. GenuineLines(<<>>) /\ Chained(<<>>)
  <2>1. <<>> \in Seq({})
    OBVIOUS
  <2>. QED BY <2>1 DEF GenuineLines, IsSeq, Chained
<1>3. Range(results) = {}
  BY <1>1 DEF Range
<1>. QED BY <1>1, <1>2, <1>3 DEF GateInv, StreamInv, FirstRunInv, GatePassed

\* The rows of a finished schedule are its keys.
LEMMA WholeRows ==
    ASSUME Numbered(results), Len(results) = Trials
    PROVE  Range(results) = 1..Trials
<1>1. results \in Seq(Nat) /\ DOMAIN results = 1..Trials /\ \A i \in 1..Trials : results[i] = i
  BY StudyAssumption DEF Numbered
<1>. QED BY <1>1 DEF Range

LEMMA GateHolds ==
    ASSUME StudyInv, StreamInv, FirstRunInv, pc = "summary"
    PROVE  Eligible
<1>1. Numbered(results) /\ Len(results) = Trials /\ Trials \in Nat \ {0} /\ Budget \in Nat \ {0}
  BY StudyAssumption DEF StudyInv, RowInv, PlaceInv
<1>2. Range(results) = 1..Trials
  BY <1>1, WholeRows
<1>3. GenuineLines(receipts) /\ Chained(receipts) /\ mode \in {"run", "resume"}
  BY DEF StreamInv
<1>4. IsSeq(receipts) /\ Len(receipts) \in Nat
  BY <1>3, SeqIs DEF GenuineLines
<1>5. receipts # <<>>
  <2>1. 1 \in Range(results)
    BY <1>1, <1>2
  <2>2. PICK q \in 1..Len(receipts) : receipts[q] = Receipt(1, Budget - 1)
    BY <2>1 DEF StreamInv
  <2>. QED BY <1>4, <2>2
<1>6. ASSUME NEW b \in 1..Len(receipts), EndsSegment(receipts, b),
             receipts[b].payload.step < Budget - 1
      PROVE  receipts[b].payload.key \in CompleteKeys
  <2>1. CASE mode = "resume"
    <3>1. receipts[b].payload.key \in 1..Trials
      BY <1>3 DEF GenuineLines, Genuine
    <3>. QED BY <1>2, <2>1, <3>1 DEF CompleteKeys
  <2>2. CASE mode = "run"
    <3>1. Unbroken(receipts) /\ EndsWhole(receipts)
      BY <2>2 DEF FirstRunInv
    <3>2. receipts[b].payload.step \in 0..(Budget - 1) /\ receipts[b].payload.step # Budget - 1
      BY <1>1, <1>3, <1>6 DEF GenuineLines, Genuine
    <3>3. b # Len(receipts)
      BY <1>5, <3>1, <3>2 DEF EndsWhole
    <3>4. StartsSegment(receipts, b + 1) /\ b + 1 \in 1..Len(receipts) /\ b < Len(receipts)
          /\ b + 1 # 1 /\ (b + 1) - 1 = b
      BY <1>4, <1>6, <3>3 DEF EndsSegment
    <3>5. PICK m \in 1..Len(receipts) : m = b + 1
      BY <3>4
    <3>6. receipts[m].payload.step = 0
      BY <1>3, <3>4, <3>5 DEF StartsSegment, Chained, GoesOn
    <3>7. receipts[b].payload.step = Budget - 1
      BY <3>1, <3>4, <3>5, <3>6 DEF Unbroken
    <3>. QED BY <3>2, <3>7
  <2>. QED BY <1>3, <2>1, <2>2
<1>7. VerifyStream(receipts, CompleteKeys)
  BY <1>3, <1>5, <1>6, ChainedVerified
<1>8. ~VerifyStream(Corrupted(receipts), CompleteKeys)
  <2>1. PICK i : i = (Len(receipts) \div 2) + 1
    OBVIOUS
  <2>2. Len(receipts) # 0
    <3>1. PICK S : receipts \in Seq(S)
      BY <1>4 DEF IsSeq
    <3>. QED BY <1>5, <3>1
  <2>3. i \in 1..Len(receipts)
    BY <1>4, <2>1, <2>2
  <2>4. Corrupted(receipts) = Altered(receipts, i)
    BY <1>5, <2>1 DEF Corrupted
  <2>. QED BY <1>3, <2>3, <2>4, AlteredRefused
<1>. QED BY <1>7, <1>8 DEF Eligible

\* What a step that leaves the receipts and the rows alone has to keep.
LEMMA GateInvKept ==
    ASSUME GateInv, UNCHANGED <<receipts, results, summary>>, mode' \in {"run", "resume"},
           status' = "absent" => receipts = <<>>, pc' # "row",
           pc' = "receipts" => written' = 0, pc' = "resumed" => mode' = "resume",
           mode' = "run" /\ pc' # "idle" => Unbroken(receipts) /\ EndsWhole(receipts)
    PROVE  GateInv'
<1>1. 0 \in 0..(Budget - 1)
  BY StudyAssumption
<1>. QED BY <1>1 DEF GateInv, StreamInv, FirstRunInv, GatePassed, Chained, GenuineLines,
                  Unbroken, EndsWhole, EndsWith

LEMMA GateInvReceipt ==
    ASSUME StudyInv, GateInv, AppendReceipt
    PROVE  GateInv'
<1>1. PICK k, s : k = at /\ s = written
  OBVIOUS
<1>2. /\ pc = "receipts" /\ receipts' = Append(receipts, Receipt(k, s)) /\ written' = s + 1
      /\ pc' = IF s + 1 = Budget THEN "row" ELSE "receipts"
      /\ UNCHANGED <<results, summary, status, mode, at>>
  BY <1>1 DEF AppendReceipt, ledger
<1>3. k \in 1..Trials /\ s \in 0..(Budget - 1) /\ Budget \in Nat /\ status # "absent"
  <2>1. at = Len(results) + 1 /\ at <= Trials /\ Len(results) \in Nat /\ status # "absent"
    BY <1>2 DEF StudyInv, PlaceInv, RowInv, Numbered
  <2>. QED BY <1>1, <1>2, <2>1, StudyAssumption DEF GateInv, StreamInv
<1>4. PICK n : n = Len(receipts)
  OBVIOUS
<1>5. /\ IsSeq(receipts) /\ n \in Nat /\ IsSeq(receipts') /\ Len(receipts') = n + 1
      /\ \A i \in 1..n : receipts'[i] = receipts[i]
      /\ receipts'[n + 1] = Receipt(k, s)
  <2>1. PICK S : receipts \in Seq(S)
    BY DEF GateInv, StreamInv, GenuineLines, IsSeq
  <2>2. receipts \in Seq(S \cup {Receipt(k, s)})
    BY <2>1
  <2>3. receipts' \in Seq(S \cup {Receipt(k, s)})
    BY <1>2, <2>2
  <2>4. IsSeq(receipts) /\ IsSeq(receipts')
    BY <2>1, <2>3 DEF IsSeq
  <2>. QED BY <1>2, <1>4, <2>2, <2>3, <2>4
<1>6. \A i \in 1..(n + 1) : i \in 1..n \/ i = n + 1
  BY <1>5
<1>7. receipts'[n + 1].payload.key = k /\ receipts'[n + 1].payload.step = s
  BY <1>5, ReceiptIs
<1>8. GenuineLines(receipts')
  <2>1. Genuine(Receipt(k, s))
    BY <1>3, ReceiptIs DEF Genuine
  <2>. QED BY <1>4, <1>5, <1>6, <2>1 DEF GateInv, StreamInv, GenuineLines
<1>9. s > 0 => n > 0 /\ receipts[n] = Receipt(k, s - 1)
  <2> SUFFICES ASSUME s > 0 PROVE n > 0 /\ receipts[n] = Receipt(k, s - 1)
    OBVIOUS
  <2>1. EndsWith(receipts, k, s - 1)
    BY <1>1, <1>2 DEF GateInv, StreamInv
  <2>2. PICK S : receipts \in Seq(S)
    BY <1>5 DEF IsSeq
  <2>. QED BY <1>4, <2>1, <2>2 DEF EndsWith
<1>10. Chained(receipts')
  <2>1. ASSUME NEW i \in 1..n PROVE receipts'[i].payload.step = 0 \/ GoesOn(receipts', i)
    <3>1. receipts[i].payload.step = 0 \/ GoesOn(receipts, i)
      BY <1>4, <2>1 DEF GateInv, StreamInv, Chained
    <3>2. i > 1 => i - 1 \in 1..n
      BY <1>5
    <3>. QED BY <1>5, <3>1, <3>2 DEF GoesOn
  <2>2. s = 0 \/ GoesOn(receipts', n + 1)
    <3> SUFFICES ASSUME s # 0 PROVE GoesOn(receipts', n + 1)
      OBVIOUS
    <3>1. s > 0 /\ n > 0 /\ n \in 1..n /\ (n + 1) - 1 = n /\ (s - 1) + 1 = s
      BY <1>3, <1>5, <1>9
    <3>2. receipts'[n] = Receipt(k, s - 1)
      BY <1>5, <1>9, <3>1
    <3>3. receipts'[n].payload.key = k /\ receipts'[n].payload.step = s - 1
      BY <3>2, ReceiptIs
    <3>. QED BY <1>7, <3>1, <3>3 DEF GoesOn
  <2>. QED BY <1>5, <1>6, <1>7, <2>1, <2>2 DEF Chained
<1>11. EndsWith(receipts', k, s)
  <2>1. receipts' # <<>>
    <3>1. Len(receipts') # 0
      BY <1>5
    <3>. QED BY <3>1
  <2>. QED BY <1>5, <2>1 DEF EndsWith
<1>12. StreamInv'
  <2>1. ASSUME NEW z \in Range(results)
        PROVE  \E q \in 1..(n + 1) : receipts'[q] = Receipt(z, Budget - 1)
    <3>1. PICK q \in 1..n : receipts[q] = Receipt(z, Budget - 1)
      BY <1>4 DEF GateInv, StreamInv
    <3>2. q \in 1..(n + 1) /\ receipts'[q] = Receipt(z, Budget - 1)
      BY <1>5, <3>1
    <3>. QED BY <3>2
  <2>2. \A z \in Range(results)' : \E q \in 1..Len(receipts)' : receipts'[q] = Receipt(z, Budget - 1)
    BY <1>2, <1>5, <2>1 DEF Range
  <2>3. mode' \in {"run", "resume"} /\ pc' # "resumed" /\ status' # "absent"
    BY <1>2, <1>3 DEF GateInv, StreamInv
  <2>4. (s + 1) - 1 = s
    BY <1>3
  <2>5. pc' = "receipts" => written' \in 0..(Budget - 1) /\ EndsWith(receipts', at', written' - 1)
    BY <1>1, <1>2, <1>3, <1>11, <2>4
  <2>6. pc' = "row" => EndsWith(receipts', at', Budget - 1)
    BY <1>1, <1>2, <1>3, <1>11
  <2>. QED BY <1>8, <1>10, <2>2, <2>3, <2>5, <2>6 DEF StreamInv, EndsWith, GenuineLines, Chained
<1>13. FirstRunInv'
  <2> SUFFICES ASSUME mode = "run"
               PROVE  /\ Unbroken(receipts')
                      /\ (pc' = "receipts" /\ written' > 0) \/ EndsWhole(receipts')
    BY <1>2 DEF FirstRunInv, Unbroken, EndsWhole
  <2>1. Unbroken(receipts) /\ (s > 0 \/ EndsWhole(receipts))
    BY <1>1, <1>2 DEF GateInv, FirstRunInv
  <2>2. ASSUME NEW i \in 1..(n + 1), i < n + 1, receipts'[i + 1].payload.step = 0
        PROVE  receipts'[i].payload.step = Budget - 1
    <3>1. i \in 1..n
      BY <1>5, <2>2
    <3>2. CASE i = n
      <4>1. s = 0
        BY <1>7, <2>2, <3>2
      <4>2. receipts # <<>> /\ EndsWhole(receipts)
        <5>1. PICK S : receipts \in Seq(S)
          BY <1>5 DEF IsSeq
        <5>. QED BY <1>4, <2>1, <3>1, <3>2, <4>1, <5>1
      <4>. QED BY <1>4, <1>5, <3>1, <3>2, <4>2 DEF EndsWhole
    <3>3. CASE i # n
      <4>1. i < n /\ i + 1 \in 1..n
        BY <1>5, <3>1, <3>3
      <4>. QED BY <1>4, <1>5, <2>1, <2>2, <3>1, <4>1 DEF Unbroken
    <3>. QED BY <3>2, <3>3
  <2>3. Unbroken(receipts')
    BY <1>5, <2>2 DEF Unbroken
  <2>4. (pc' = "receipts" /\ written' > 0) \/ EndsWhole(receipts')
    <3>1. CASE s + 1 = Budget
      <4>1. s = Budget - 1
        BY <1>3, <3>1
      <4>. QED BY <1>5, <1>7, <4>1 DEF EndsWhole
    <3>2. CASE s + 1 # Budget
      BY <1>2, <1>3, <3>2
    <3>. QED BY <3>1, <3>2
  <2>. QED BY <2>3, <2>4
<1>. QED BY <1>2, <1>12, <1>13 DEF GateInv, GatePassed

LEMMA GateInvRow ==
    ASSUME StudyInv, GateInv, AppendRow
    PROVE  GateInv'
<1>1. /\ pc = "row" /\ pc' = "event" /\ results' = Append(results, at)
      /\ UNCHANGED <<receipts, summary, status, mode, written>>
  BY DEF AppendRow, ledger, memory
<1>2. EndsWith(receipts, at, Budget - 1) /\ IsSeq(receipts)
  BY <1>1 DEF GateInv, StreamInv, GenuineLines
<1>3. PICK n : n = Len(receipts)
  OBVIOUS
<1>4. n \in 1..n /\ receipts[n] = Receipt(at, Budget - 1)
  <2>1. PICK S : receipts \in Seq(S)
    BY <1>2 DEF IsSeq
  <2>. QED BY <1>2, <1>3, <2>1 DEF EndsWith
<1>5. ASSUME NEW z \in Range(results')
      PROVE  \E q \in 1..n : receipts[q] = Receipt(z, Budget - 1)
  <2>1. results \in Seq(Nat) /\ Len(results) \in Nat /\ at \in Nat
    BY <1>1 DEF StudyInv, RowInv, PlaceInv, Numbered
  <2>2. PICK i \in 1..(Len(results) + 1) : z = results'[i]
    <3>1. DOMAIN results' = 1..(Len(results) + 1)
      BY <1>1, <2>1
    <3>. QED BY <3>1 DEF Range
  <2>3. CASE i = Len(results) + 1
    <3>1. z = at
      BY <1>1, <2>1, <2>2, <2>3
    <3>. QED BY <1>4, <3>1
  <2>4. CASE i # Len(results) + 1
    <3>1. i \in 1..Len(results) /\ z = results[i]
      BY <1>1, <2>1, <2>2, <2>4
    <3>2. z \in Range(results)
      BY <2>1, <3>1 DEF Range
    <3>. QED BY <1>3, <3>2 DEF GateInv, StreamInv
  <2>. QED BY <2>3, <2>4
<1>6. \A z \in Range(results)' : \E q \in 1..Len(receipts)' : receipts'[q] = Receipt(z, Budget - 1)
  BY <1>1, <1>3, <1>5 DEF Range
<1>7. StreamInv'
  BY <1>1, <1>6 DEF GateInv, StreamInv, GenuineLines, Chained
<1>8. FirstRunInv'
  BY <1>1 DEF GateInv, FirstRunInv, Unbroken, EndsWhole
<1>. QED BY <1>1, <1>7, <1>8 DEF GateInv, GatePassed

LEMMA GateInvStep == StudyInv /\ GateInv /\ [Next]_vars => GateInv'
<1> SUFFICES ASSUME StudyInv, GateInv, [Next]_vars PROVE GateInv'
  OBVIOUS
<1>1. /\ status = "absent" => pc = "idle" /\ receipts = <<>>
      /\ mode \in {"run", "resume"} /\ (pc = "resumed" => mode = "resume")
      /\ mode = "run" /\ pc # "idle" /\ pc # "receipts" => Unbroken(receipts) /\ EndsWhole(receipts)
  BY DEF StudyInv, PlaceInv, GateInv, StreamInv, FirstRunInv
<1>2. CASE RunAr2
  <2>1. receipts = <<>> /\ Unbroken(receipts) /\ EndsWhole(receipts)
    BY <1>1, <1>2 DEF RunAr2, Unbroken, EndsWhole
  <2>. QED BY <1>1, <1>2, <2>1, GateInvKept DEF RunAr2, files
<1>3. CASE ResumeAr2
  BY <1>1, <1>3, GateInvKept DEF ResumeAr2, files
<1>4. CASE RecordResumed
  <2>1. pc' \in {"receipts", "summary"} /\ written' = 0 /\ mode' = "resume" /\ status' # "absent"
    BY <1>1, <1>4 DEF RecordResumed, Proceed
  <2>. QED BY <1>4, <2>1, GateInvKept DEF RecordResumed, files
<1>5. CASE AppendReceipt
  BY <1>5, GateInvReceipt
<1>6. CASE AppendRow
  BY <1>6, GateInvRow
<1>7. CASE RecordTrial
  <2>1. /\ pc' \in {"receipts", "summary"} /\ written' = 0 /\ mode' = mode /\ status' # "absent"
        /\ mode = "run" => Unbroken(receipts) /\ EndsWhole(receipts)
    BY <1>1, <1>7 DEF RecordTrial, Proceed
  <2>. QED BY <1>1, <1>7, <2>1, GateInvKept DEF RecordTrial, files
<1>8. CASE WriteSummary
  <2>1. Eligible
    BY <1>8, GateHolds DEF WriteSummary, GateInv
  <2>2. summary'.eligible = Eligible /\ pc' = "artifact" /\ UNCHANGED <<receipts, results, status, mode>>
    BY <1>8 DEF WriteSummary, ledger, memory
  <2>3. mode = "run" => Unbroken(receipts) /\ EndsWhole(receipts)
    BY <1>1, <1>8 DEF WriteSummary
  <2>4. StreamInv'
    BY <2>2 DEF GateInv, StreamInv, GenuineLines, Chained
  <2>5. FirstRunInv'
    BY <2>2, <2>3 DEF FirstRunInv, Unbroken, EndsWhole
  <2>. QED BY <2>1, <2>2, <2>4, <2>5 DEF GateInv, GatePassed
<1>9. CASE RecordArtifact
  BY <1>1, <1>9, GateInvKept DEF RecordArtifact, files, memory
<1>10. CASE ArtifactConflict
  BY <1>1, <1>10, GateInvKept DEF ArtifactConflict, Forget, files, ledger
<1>11. CASE RecordCompleted
  BY <1>1, <1>11, GateInvKept DEF RecordCompleted, Forget, files, memory
<1>12. CASE MarkCompleted
  BY <1>1, <1>12, GateInvKept DEF MarkCompleted, Forget, files
<1>13. CASE Kill
  BY <1>1, <1>13, GateInvKept DEF Kill, Forget, files, ledger
<1>14. CASE UNCHANGED vars
  BY <1>14 DEF vars, files, ledger, memory, GateInv, StreamInv, FirstRunInv, GatePassed, GenuineLines,
               Chained, Unbroken, EndsWhole
<1>. QED BY <1>2, <1>3, <1>4, <1>5, <1>6, <1>7, <1>8, <1>9, <1>10, <1>11, <1>12, <1>13, <1>14 DEF Next, Step

(* Every summary passes the hard gate, whatever partial streams crashes left *)
(* in the file, and so refuses the file with its middle receipt altered.     *)
THEOREM AlwaysPassed == Spec => []GatePassed
<1>1. GateInv => GatePassed
  BY DEF GateInv
<1>. QED BY <1>1, StudyInvInit, StudyInvStep, GateInvInit, GateInvStep, PTL DEF Spec

\* A genuine file with the last receipt of every row is backed when verified.
LEMMA Backed ==
    ASSUME NEW lines, GenuineLines(lines), NEW complete, VerifyStream(lines, complete),
           \A k \in Range(results) : \E q \in 1..Len(lines) : lines[q] = Receipt(k, Budget - 1)
    PROVE  BackedBy(lines)
<1>1. Chained(lines)
  BY VerifiedChained
<1>2. ASSUME NEW k \in Range(results) PROVE Stream(k) \in Segments(lines)
  <2>1. PICK q \in 1..Len(lines) : lines[q] = Receipt(k, Budget - 1)
    OBVIOUS
  <2>. QED BY <1>1, <2>1, WholeStream
<1>. QED BY <1>2 DEF BackedBy

\* A file made of the lines of another, none dropped that ends a segment.
Rearranged(lines, edited) ==
    /\ IsSeq(edited)
    /\ \A j \in 1..Len(edited) : \E i \in 1..Len(lines) : edited[j] = lines[i]
    /\ \A i \in 1..Len(lines) :
          EndsSegment(lines, i) => \E j \in 1..Len(edited) : edited[j] = lines[i]

Joined(S, s, t, u, m, n) ==
    /\ u \in Seq(S) /\ Len(u) = m + n
    /\ \A j \in 1..m : u[j] = s[j]
    /\ \A j \in (m + 1)..(m + n) : u[j] = t[j - m]

LEMMA JoinedIs ==
    ASSUME NEW S, NEW s \in Seq(S), NEW t \in Seq(S), NEW u, u = s \o t, NEW m \in Nat, Len(s) = m,
           NEW n \in Nat, Len(t) = n
    PROVE  Joined(S, s, t, u, m, n)
<1>1. /\ u \in Seq(S) /\ Len(u) = Len(s) + Len(t)
      /\ \A i \in 1..(Len(s) + Len(t)) : u[i] = IF i <= Len(s) THEN s[i] ELSE t[i - Len(s)]
  BY ConcatProperties
<1>2. \A i \in 1..(m + n) : u[i] = IF i <= m THEN s[i] ELSE t[i - m]
  BY <1>1
<1>. QED BY <1>1, <1>2 DEF Joined

LEMMA RemovedIs ==
    ASSUME NEW lines, IsSeq(lines), NEW i \in 1..Len(lines), ~EndsSegment(lines, i)
    PROVE  Rearranged(lines, RemoveAt(lines, i))
<1>1. PICK S : lines \in Seq(S)
  BY DEF IsSeq
<1>2. PICK n, edited : n = Len(lines) /\ edited = RemoveAt(lines, i)
  OBVIOUS
<1>3. n \in Nat /\ i \in 1..n
  BY <1>1, <1>2
<1>4. PICK left, right : left = SubSeq(lines, 1, i - 1) /\ right = SubSeq(lines, i + 1, n)
  OBVIOUS
<1>5. /\ left \in Seq(S) /\ Len(left) = i - 1 /\ \A j \in 1..(i - 1) : left[j] = lines[j]
      /\ right \in Seq(S) /\ Len(right) = n - i /\ \A j \in 1..(n - i) : right[j] = lines[i + j]
  BY <1>1, <1>2, <1>3, <1>4
<1>6. edited = left \o right
  BY <1>2, <1>4 DEF RemoveAt
<1>7. /\ edited \in Seq(S) /\ Len(edited) = (i - 1) + (n - i)
      /\ \A j \in 1..(i - 1) : edited[j] = left[j]
      /\ \A j \in ((i - 1) + 1)..((i - 1) + (n - i)) : edited[j] = right[j - (i - 1)]
  <2>1. PICK x \in Nat, y \in Nat : x = i - 1 /\ y = n - i
    BY <1>3
  <2>2. Len(left) = x /\ Len(right) = y /\ left \in Seq(S) /\ right \in Seq(S)
    BY <1>5, <2>1
  <2>3. Joined(S, left, right, edited, x, y)
    BY <1>6, <2>2, JoinedIs
  <2>. QED BY <2>1, <2>3 DEF Joined
<1>8. edited \in Seq(S) /\ Len(edited) = n - 1 /\ \A j \in 1..(i - 1) : edited[j] = lines[j]
  BY <1>3, <1>5, <1>7
<1>9. ASSUME NEW j \in i..(n - 1) PROVE edited[j] = lines[j + 1]
  <2>1. /\ j - (i - 1) \in 1..(n - i) /\ i + (j - (i - 1)) = j + 1
        /\ j \in ((i - 1) + 1)..((i - 1) + (n - i))
    BY <1>3
  <2>2. edited[j] = right[j - (i - 1)]
    BY <1>7, <2>1
  <2>. QED BY <1>5, <2>1, <2>2
<1>10. ASSUME NEW j \in 1..(n - 1) PROVE \E k \in 1..n : edited[j] = lines[k]
  <2>1. CASE j < i
    <3>1. j \in 1..(i - 1) /\ j \in 1..n
      BY <1>3, <2>1
    <3>. QED BY <1>8, <3>1
  <2>2. CASE ~(j < i)
    <3>1. j \in i..(n - 1) /\ j + 1 \in 1..n
      BY <1>3, <2>2
    <3>. QED BY <1>9, <3>1
  <2>. QED BY <2>1, <2>2
<1>11. ASSUME NEW k \in 1..n, EndsSegment(lines, k) PROVE \E j \in 1..(n - 1) : edited[j] = lines[k]
  <2>1. k # i
    BY <1>11
  <2>2. CASE k < i
    <3>1. k \in 1..(i - 1) /\ k \in 1..(n - 1)
      BY <1>3, <2>2
    <3>. QED BY <1>8, <3>1
  <2>3. CASE k > i
    <3>1. PICK j : j = k - 1
      OBVIOUS
    <3>2. j \in i..(n - 1) /\ j + 1 = k /\ j \in 1..(n - 1)
      BY <1>3, <2>3, <3>1
    <3>. QED BY <1>9, <3>2
  <2>. QED BY <1>3, <2>1, <2>2, <2>3
<1>12. IsSeq(edited)
  BY <1>8 DEF IsSeq
<1>. QED BY <1>2, <1>8, <1>10, <1>11, <1>12 DEF Rearranged

LEMMA DoubledIs ==
    ASSUME NEW lines, IsSeq(lines), NEW i \in 1..Len(lines)
    PROVE  Rearranged(lines, InsertAt(lines, i, lines[i]))
<1>1. PICK S : lines \in Seq(S)
  BY DEF IsSeq
<1>2. PICK n, edited : n = Len(lines) /\ edited = InsertAt(lines, i, lines[i])
  OBVIOUS
<1>3. n \in Nat /\ i \in 1..n /\ lines[i] \in S
  BY <1>1, <1>2
<1>4. PICK left, right, one : /\ left = SubSeq(lines, 1, i - 1) /\ right = SubSeq(lines, i, n)
                              /\ one = <<lines[i]>>
  OBVIOUS
<1>5. /\ left \in Seq(S) /\ Len(left) = i - 1 /\ \A j \in 1..(i - 1) : left[j] = lines[j]
      /\ right \in Seq(S) /\ Len(right) = n - i + 1
      /\ \A j \in 1..(n - i + 1) : right[j] = lines[i + j - 1]
      /\ one \in Seq(S) /\ Len(one) = 1 /\ one[1] = lines[i]
  BY <1>1, <1>2, <1>3, <1>4
<1>6. edited = (left \o one) \o right
  BY <1>2, <1>4 DEF InsertAt
<1>7. PICK both : both = left \o one
  OBVIOUS
<1>8. both \in Seq(S) /\ Len(both) = i /\ \A j \in 1..i : both[j] = lines[j]
  <2>1. i - 1 \in Nat /\ 1 \in Nat /\ (i - 1) + 1 = i
    BY <1>3
  <2>2. /\ both \in Seq(S) /\ Len(both) = (i - 1) + 1
        /\ \A j \in 1..(i - 1) : both[j] = left[j]
        /\ \A j \in ((i - 1) + 1)..((i - 1) + 1) : both[j] = one[j - (i - 1)]
    <3>1. PICK x \in Nat, y \in Nat : x = i - 1 /\ y = 1
      BY <2>1
    <3>2. Len(left) = x /\ Len(one) = y /\ left \in Seq(S) /\ one \in Seq(S)
      BY <1>5, <3>1
    <3>3. Joined(S, left, one, both, x, y)
      BY <1>7, <3>2, JoinedIs
    <3>. QED BY <3>1, <3>3 DEF Joined
  <2>3. i \in ((i - 1) + 1)..((i - 1) + 1) /\ i - (i - 1) = 1
    BY <1>3
  <2>4. both[i] = lines[i]
    BY <1>5, <2>2, <2>3
  <2>5. \A j \in 1..i : j \in 1..(i - 1) \/ j = i
    BY <1>3
  <2>. QED BY <1>5, <2>1, <2>2, <2>4, <2>5
<1>9. /\ edited \in Seq(S) /\ Len(edited) = i + (n - i + 1)
      /\ \A j \in 1..i : edited[j] = both[j]
      /\ \A j \in (i + 1)..(i + (n - i + 1)) : edited[j] = right[j - i]
  <2>1. PICK x \in Nat, y \in Nat : x = i /\ y = n - i + 1
    BY <1>3
  <2>2. Len(both) = x /\ Len(right) = y /\ both \in Seq(S) /\ right \in Seq(S)
    BY <1>5, <1>8, <2>1
  <2>3. Joined(S, both, right, edited, x, y)
    BY <1>6, <1>7, <2>2, JoinedIs
  <2>. QED BY <2>1, <2>3 DEF Joined
<1>10. edited \in Seq(S) /\ Len(edited) = n + 1 /\ \A j \in 1..i : edited[j] = lines[j]
  BY <1>3, <1>8, <1>9
<1>11. ASSUME NEW j \in (i + 1)..(n + 1) PROVE edited[j] = lines[j - 1]
  <2>1. /\ j - i \in 1..(n - i + 1) /\ i + (j - i) - 1 = j - 1
        /\ j \in (i + 1)..(i + (n - i + 1))
    BY <1>3
  <2>2. edited[j] = right[j - i]
    BY <1>9, <2>1
  <2>. QED BY <1>5, <2>1, <2>2
<1>12. ASSUME NEW j \in 1..(n + 1) PROVE \E k \in 1..n : edited[j] = lines[k]
  <2>1. CASE j \in 1..i
    <3>1. j \in 1..n
      BY <1>3, <2>1
    <3>. QED BY <1>10, <2>1, <3>1
  <2>2. CASE j \notin 1..i
    <3>1. j \in (i + 1)..(n + 1) /\ j - 1 \in 1..n
      BY <1>3, <2>2
    <3>. QED BY <1>11, <3>1
  <2>. QED BY <2>1, <2>2
<1>13. ASSUME NEW k \in 1..n PROVE \E j \in 1..(n + 1) : edited[j] = lines[k]
  <2>1. CASE k \in 1..i
    <3>1. k \in 1..(n + 1)
      BY <1>3
    <3>. QED BY <1>10, <2>1, <3>1
  <2>2. CASE k \notin 1..i
    <3>1. PICK j : j = k + 1
      OBVIOUS
    <3>2. j \in (i + 1)..(n + 1) /\ j - 1 = k /\ j \in 1..(n + 1)
      BY <1>3, <2>2, <3>1
    <3>. QED BY <1>11, <3>2
  <2>. QED BY <2>1, <2>2
<1>14. IsSeq(edited)
  BY <1>10 DEF IsSeq
<1>. QED BY <1>2, <1>10, <1>12, <1>13, <1>14 DEF Rearranged

LEMMA SwappedIs ==
    ASSUME NEW lines, IsSeq(lines), NEW i \in 1..(Len(lines) - 1)
    PROVE  Rearranged(lines, [lines EXCEPT ![i] = lines[i + 1], ![i + 1] = lines[i]])
<1>1. PICK S : lines \in Seq(S)
  BY DEF IsSeq
<1>2. PICK n, m, edited : /\ n = Len(lines) /\ m = i + 1
                          /\ edited = [lines EXCEPT ![i] = lines[i + 1], ![i + 1] = lines[i]]
  OBVIOUS
<1>3. n \in Nat /\ i \in 1..n /\ m \in 1..n /\ m # i
  BY <1>1, <1>2
<1>4. edited = [lines EXCEPT ![i] = lines[m], ![m] = lines[i]]
  BY <1>2
<1>5. /\ edited \in Seq(S) /\ Len(edited) = n /\ edited[i] = lines[m] /\ edited[m] = lines[i]
      /\ \A j \in 1..n : j # i /\ j # m => edited[j] = lines[j]
  BY <1>1, <1>2, <1>3, <1>4
<1>6. IsSeq(edited)
  BY <1>5 DEF IsSeq
<1>7. ASSUME NEW j \in 1..n PROVE \E k \in 1..n : edited[j] = lines[k]
  BY <1>3, <1>5
<1>8. ASSUME NEW k \in 1..n PROVE \E j \in 1..n : edited[j] = lines[k]
  BY <1>3, <1>5
<1>. QED BY <1>2, <1>5, <1>6, <1>7, <1>8 DEF Rearranged

LEMMA RearrangedCaught ==
    ASSUME StreamInv, NEW edited, Rearranged(receipts, edited), NEW complete,
           VerifyStream(edited, complete)
    PROVE  BackedBy(edited)
<1>1. GenuineLines(receipts) /\ Chained(receipts) /\ IsSeq(edited)
  BY DEF StreamInv, Rearranged
<1>2. GenuineLines(edited)
  BY <1>1 DEF GenuineLines, Rearranged
<1>3. ASSUME NEW k \in Range(results)
      PROVE  \E q \in 1..Len(edited) : edited[q] = Receipt(k, Budget - 1)
  <2>1. PICK p \in 1..Len(receipts) : receipts[p] = Receipt(k, Budget - 1)
    BY DEF StreamInv
  <2>2. EndsSegment(receipts, p)
    BY <1>1, <2>1, LastEnds
  <2>3. PICK q \in 1..Len(edited) : edited[q] = receipts[p]
    BY <2>2 DEF Rearranged
  <2>. QED BY <2>1, <2>3
<1>. QED BY <1>2, <1>3, Backed

(* A receipt altered, dropped inside a stream, doubled or swapped with its   *)
(* neighbour: the verification refuses the file, or every row keeps its      *)
(* whole stream.                                                             *)
THEOREM AlwaysCaught == Spec => []EditsCaught
<1>1. GateInv => EditsCaught
  <2> SUFFICES ASSUME GateInv, NEW lines \in Edits, VerifyStream(lines, CompleteKeys)
               PROVE  BackedBy(lines)
    BY DEF EditsCaught
  <2>1. StreamInv /\ IsSeq(receipts) /\ GenuineLines(receipts)
    BY DEF GateInv, StreamInv, GenuineLines
  <2>2. DOMAIN receipts = 1..Len(receipts)
    BY <2>1, SeqIs
  <2>3. \A i \in DOMAIN receipts : lines # Altered(receipts, i)
    BY <2>1, <2>2, AlteredRefused
  <2>4. Rearranged(receipts, lines)
    <3>1. CASE lines \in {RemoveAt(receipts, i) : i \in {j \in DOMAIN receipts : ~EndsSegment(receipts, j)}}
      <4>1. PICK i \in 1..Len(receipts) : ~EndsSegment(receipts, i) /\ lines = RemoveAt(receipts, i)
        BY <2>2, <3>1
      <4>. QED BY <2>1, <4>1, RemovedIs
    <3>2. CASE lines \in {InsertAt(receipts, i, receipts[i]) : i \in DOMAIN receipts}
      <4>1. PICK i \in 1..Len(receipts) : lines = InsertAt(receipts, i, receipts[i])
        BY <2>2, <3>2
      <4>. QED BY <2>1, <4>1, DoubledIs
    <3>3. CASE lines \in {[receipts EXCEPT ![i] = receipts[i + 1], ![i + 1] = receipts[i]] :
                              i \in 1..(Len(receipts) - 1)}
      <4>1. PICK i \in 1..(Len(receipts) - 1) :
                lines = [receipts EXCEPT ![i] = receipts[i + 1], ![i + 1] = receipts[i]]
        BY <3>3
      <4>. QED BY <2>1, <4>1, SwappedIs
    <3>. QED BY <2>3, <3>1, <3>2, <3>3 DEF Edits
  <2>. QED BY <2>1, <2>4, RearrangedCaught
<1>. QED BY <1>1, StudyInvInit, StudyInvStep, GateInvInit, GateInvStep, PTL DEF Spec
=============================================================================
