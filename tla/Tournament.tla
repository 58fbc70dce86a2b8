----------------------------- MODULE Tournament -----------------------------
(***************************************************************************)
(* The paid review tournament of tools/openrouter_tournament.py: canary    *)
(* calls, the reviewers' calls and the final board, each bounded by a      *)
(* budget computed from ledgers on disk.  A call is paid when the provider *)
(* answers; its row reaches a ledger only if the process lives until then. *)
(* The operator may set an attempt's ledger aside and start over, keeping  *)
(* the rows worth keeping (the attempt-* directories beside the ledger).   *)
(***************************************************************************)
EXTENDS Naturals, FiniteSets, Sequences, SequencesExt, FiniteSetsExt

CONSTANTS
    Reviewers,      \* REVIEWERS, in order
    Canaries,       \* the reviewers canary-pending probes, as canary names
    Board,          \* the final board
    Worst,          \* worst_case_cost of each call
    Overrun,        \* what a provider that ignores the token cap adds
    TournamentCap, BoardCap, GlobalCap, Reserve,
    Kills,          \* BOOLEAN: may a process die with a call in flight?
    MaxCalls,       \* bound: paid calls
    MaxArchives,    \* bound: attempts set aside
    MaxBoards       \* bound: paid board calls

Names == ToSet(Reviewers) \cup ToSet(Canaries) \cup {Board}

ASSUME TournamentAssumption ==
    /\ Reviewers \in Seq(Names) /\ Canaries \in Seq(Names)
    /\ Worst \in [Names -> Nat]
    /\ {Overrun, TournamentCap, BoardCap, GlobalCap, Reserve} \subseteq Nat
    /\ {MaxCalls, MaxArchives, MaxBoards} \subseteq Nat
    /\ Kills \in BOOLEAN
    /\ Board \notin ToSet(Reviewers) \cup ToSet(Canaries)

\* A row: `id` is the response id, `ok` a complete visible report.
Rows == [id : 1 .. MaxCalls, name : Names, cost : Nat, ok : BOOLEAN]

VARIABLES
    ledger,    \* ledger.json
    archives,  \* the ledgers set aside, in order
    board,     \* final-board-ledger.json
    pc,        \* idle, next, answered, boardAnswered
    command,   \* canary or tournament
    processed, \* the names recorded when the command began
    todo,      \* the names the loop has left
    memory,    \* the ledger as the process holds it
    reply,     \* the paid answer in hand, as the row it will become
    paid,      \* ghost: what the provider charged
    lost       \* ghost: ids of answers whose process died first

disk == <<ledger, archives, board>>
process == <<pc, command, processed, todo, memory, reply>>
vars == <<disk, process, paid, lost>>

Cost(rows) == MapThenSumSet(LAMBDA row : row.cost, rows)

Called(rows) == {row.name : row \in rows}

Exit == /\ pc' = "idle" /\ processed' = {} /\ todo' = <<>> /\ memory' = {} /\ reply' = {}
        /\ UNCHANGED command

-----------------------------------------------------------------------------
(* canary-pending and tournament *)

\* The tournament refuses a forecast above its cap before its first call.
Forecast(c) ==
    c = "tournament" =>
        Cost({[name |-> n, cost |-> Worst[n]] : n \in ToSet(Reviewers)}) <= TournamentCap

Start ==
    /\ pc = "idle"
    /\ \E c \in {"canary", "tournament"} :
          /\ Forecast(c)
          /\ command' = c
          /\ todo' = IF c = "canary" THEN Canaries ELSE Reviewers
    /\ memory' = ledger
    /\ processed' = Called(ledger)
    /\ pc' = "next"
    /\ UNCHANGED <<disk, reply, paid, lost>>

\* A recorded name is skipped, whatever became of its report.
Skip ==
    /\ pc = "next" /\ todo # <<>>
    /\ Head(todo) \in processed
    /\ todo' = Tail(todo)
    /\ UNCHANGED <<disk, pc, command, processed, memory, reply, paid, lost>>

Pending == pc = "next" /\ todo # <<>> /\ Head(todo) \notin processed

Affordable(rows, n) == Cost(rows) + Worst[n] <= TournamentCap

Refuse ==
    /\ Pending
    /\ ~Affordable(memory, Head(todo))
    /\ Exit
    /\ UNCHANGED <<disk, paid, lost>>

\* The provider answers, and is paid, for at most the worst case unless it
\* ignores the cap on its tokens.
Charge(n) ==
    \E cost \in 0 .. Worst[n] + Overrun, ok \in BOOLEAN :
        LET row == [id |-> Cardinality(paid) + 1, name |-> n, cost |-> cost, ok |-> ok]
        IN  /\ row.id <= MaxCalls
            /\ paid' = paid \cup {row}
            /\ reply' = {row}

Call ==
    /\ Pending
    /\ Affordable(memory, Head(todo))
    /\ Charge(Head(todo))
    /\ pc' = "answered"
    /\ UNCHANGED <<disk, command, processed, todo, memory, lost>>

\* HTTPError: no row. The tournament goes on with the next reviewer, the
\* canary gives up.
CallFails ==
    /\ Pending
    /\ Affordable(memory, Head(todo))
    /\ \/ /\ command = "tournament"
          /\ todo' = Tail(todo)
          /\ UNCHANGED <<pc, command, processed, memory, reply>>
       \/ command = "canary" /\ Exit
    /\ UNCHANGED <<disk, paid, lost>>

\* The ledger is written as a whole, from the process's copy.
Written(rows, answer) == rows \cup answer

\* The row is written, then the loop stops on an incomplete report and, in a
\* tournament, on a total above the caps.
Record ==
    /\ pc = "answered"
    /\ ledger' = Written(memory, reply)
    /\ \/ /\ \A row \in reply : row.ok
          /\ command = "tournament" => Cost(memory \cup reply) <= TournamentCap
                                       /\ Cost(memory \cup reply) <= GlobalCap
          /\ memory' = memory \cup reply
          /\ todo' = Tail(todo)
          /\ reply' = {}
          /\ pc' = "next"
          /\ UNCHANGED <<command, processed>>
       \/ /\ \/ \E row \in reply : ~row.ok
             \/ /\ command = "tournament"
                /\ Cost(memory \cup reply) > TournamentCap \/ Cost(memory \cup reply) > GlobalCap
          /\ Exit
    /\ UNCHANGED <<archives, board, paid, lost>>

Complete ==
    /\ pc = "next" /\ todo = <<>>
    /\ Exit
    /\ UNCHANGED <<disk, paid, lost>>

-----------------------------------------------------------------------------
(* board *)

Ledgers == {ledger, board} \cup ToSet(archives)

\* recorded_spend: every ledger under RUN_DIR, a response id counted once.
RecordedRows == UNION Ledgers

\* Mutant: the reserve for unaccounted calls is left out.
BoardAffordableUnreserved(known) ==
    /\ Worst[Board] <= BoardCap
    /\ known + Worst[Board] <= GlobalCap

BoardAffordable(known) ==
    /\ Worst[Board] <= BoardCap
    /\ known + Reserve + Worst[Board] <= GlobalCap

BoardCall ==
    /\ pc = "idle"
    /\ Cardinality({row \in paid : row.name = Board}) < MaxBoards
    /\ BoardAffordable(Cost(RecordedRows))
    /\ Charge(Board)
    /\ pc' = "boardAnswered"
    /\ UNCHANGED <<disk, command, processed, todo, memory, lost>>

\* The board's ledger is overwritten: it holds one row.
BoardRecord ==
    /\ pc = "boardAnswered"
    /\ board' = reply
    /\ Exit
    /\ UNCHANGED <<ledger, archives, paid, lost>>

-----------------------------------------------------------------------------
\* A kill, a timeout or a lost connection: the answer in hand, paid, is lost.
Kill ==
    /\ Kills
    /\ pc # "idle"
    /\ lost' = lost \cup {row.id : row \in reply}
    /\ Exit
    /\ UNCHANGED <<disk, paid>>

\* The operator sets an attempt aside and keeps some of its rows.
SetAside ==
    /\ pc = "idle"
    /\ ledger # {}
    /\ Len(archives) < MaxArchives
    /\ archives' = Append(archives, ledger)
    /\ \E kept \in SUBSET ledger : ledger' = kept
    /\ UNCHANGED <<board, process, paid, lost>>

Init ==
    /\ ledger = {} /\ archives = <<>> /\ board = {}
    /\ pc = "idle" /\ command = "canary" /\ processed = {} /\ todo = <<>>
    /\ memory = {} /\ reply = {}
    /\ paid = {} /\ lost = {}

Next ==
    \/ Start \/ Skip \/ Refuse \/ Call \/ CallFails \/ Record \/ Complete
    \/ BoardCall \/ BoardRecord \/ Kill \/ SetAside

Spec == Init /\ [][Next]_vars

-----------------------------------------------------------------------------
LostCost == Cost({row \in paid : row.id \in lost})

\* "global budget could be exceeded": a board call keeps everything paid so
\* far within GLOBAL_SOFTWARE_CAP while lost calls stay within the reserve.
BoardWithinGlobal ==
    [][(\E row \in paid' \ paid : row.name = Board) /\ LostCost <= Reserve
       => Cost(paid') <= GlobalCap + Overrun]_vars
=============================================================================
