--------------------------- MODULE LedgerExecution ---------------------------
(***************************************************************************)
(* raly run: build the ledger of a checked file, execute its constant      *)
(* bindings in source order and keep a receipt per node; verify_replay     *)
(* executes the built ledger again and compares receipts.  A node's value  *)
(* is remembered by address, so equal expressions run once.  Digests of    *)
(* states and values are taken to be what they digest.                     *)
(***************************************************************************)
EXTENDS SemanticLedger, Integers

CONSTANTS
    MaxInt,     \* i64::MAX, made small
    LitValue    \* the number a literal's text stands for

\* The resolver allocates every binding a DefId of its own.
ASSUME ExecutionAssumption ==
    /\ MaxInt \in Nat
    /\ \A file \in Programs : \A i, j \in DOMAIN file.root :
          /\ file.root[i].init # 0 /\ file.root[j].init # 0
          /\ file.root[i].def = file.root[j].def
          => i = j

IntRange == -MaxInt - 1 .. MaxInt

VARIABLES
    item,       \* the top-level item the loop has reached
    frames,     \* calls of evaluate: [node, inputs so far], innermost last
    bindings,   \* the value of each binding, by DefId
    values,     \* the values remembered, by address
    receipts,   \* [node, before, after, value], one per evaluated node
    outcome,    \* waiting, executing, executed, failed or verified
    expected,   \* the receipts a replay is held against
    original,   \* the receipts of the first run
    verdict     \* none, ok, diverged or length, and where

execution == <<item, frames, bindings, values, receipts, outcome>>
replay == <<expected, original, verdict>>
allVars == <<vars, execution, replay>>

Root == program.root
NoValue == [kind |-> "none"]
Bind(f, x, v) == [y \in DOMAIN f \cup {x} |-> IF y = x THEN v ELSE f[y]]

Frame == frames[Len(frames)]
Caller == SubSeq(frames, 1, Len(frames) - 1)

NodeOf(a) == nodes[NodeAt(a)].content

-----------------------------------------------------------------------------
(* evaluate_node *)

Failed(why) == [kind |-> "failed", why |-> why]
Number(n) == [kind |-> "int", v |-> n]
Truth(b) == [kind |-> "bool", v |-> b]

Checked(n) == IF n \in IntRange THEN Number(n) ELSE Failed("overflow")

\* checked_div truncates toward zero, and fails on zero and on MIN / -1.
Quotient(m, n) ==
    LET Abs(x) == IF x < 0 THEN -x ELSE x
        q == Abs(m) \div Abs(n)
    IN  IF (m < 0) = (n < 0) THEN q ELSE -q

Arithmetic(op, m, n) ==
    CASE op = "binary.+" -> Checked(m + n)
      [] op = "binary.-" -> Checked(m - n)
      [] op = "binary.*" -> Checked(m * n)
      [] op = "binary./" -> IF n = 0 THEN Failed("overflow") ELSE Checked(Quotient(m, n))

Compare(op, m, n) ==
    CASE op = "binary.<"  -> m < n
      [] op = "binary.<=" -> m <= n
      [] op = "binary.>"  -> m > n
      [] op = "binary.>=" -> m >= n

Ints(inputs) == Len(inputs) = 2 /\ inputs[1].kind = "int" /\ inputs[2].kind = "int"

\* Bindings are the values of the DefIds bound so far.
EvaluateNode(op, params, inputs, bound) ==
    CASE op = "literal.int" ->
            IF LitValue[params] \in 0 .. MaxInt THEN Number(LitValue[params]) ELSE Failed("literal")
      [] op = "literal.bool" -> Truth(params = "true")
      [] op = "literal.str" -> [kind |-> "str", v |-> params]
      [] op = "path" -> IF params \in DOMAIN bound THEN bound[params] ELSE Failed("unbound")
      [] op = "group" -> inputs[1]
      [] op = "unary.-" -> IF inputs[1].kind = "int" THEN Checked(-inputs[1].v) ELSE Failed("type")
      [] op = "unary.!" -> IF inputs[1].kind = "bool" THEN Truth(~inputs[1].v) ELSE Failed("type")
      [] op \in {"binary.+", "binary.-", "binary.*", "binary./"} ->
            IF Ints(inputs) THEN Arithmetic(op, inputs[1].v, inputs[2].v) ELSE Failed("type")
      [] op \in {"binary.<", "binary.<=", "binary.>", "binary.>="} ->
            IF Ints(inputs) THEN Truth(Compare(op, inputs[1].v, inputs[2].v)) ELSE Failed("type")
      [] op = "binary.==" -> Truth(inputs[1] = inputs[2])
      [] op \in {"list", "tuple"} -> [kind |-> op, v |-> inputs]
      [] OTHER -> Failed("unsupported")

-----------------------------------------------------------------------------
(* execute_constants *)

Fail ==
    /\ outcome' = "failed"
    /\ UNCHANGED <<item, frames, bindings, values, receipts>>

StartExecution ==
    /\ result = "built" /\ outcome = "waiting"
    /\ outcome' = "executing"
    /\ UNCHANGED <<item, frames, bindings, values, receipts>>

AtItem == outcome = "executing" /\ frames = <<>> /\ item \in DOMAIN Root

\* Mutant: an item without initializer stops the loop.
StallAtItem ==
    /\ AtItem /\ Root[item].init = 0
    /\ UNCHANGED execution

\* Items that are no let, or a let without initializer, are passed over.
SkipItem ==
    /\ AtItem /\ Root[item].init = 0
    /\ item' = item + 1
    /\ UNCHANGED <<frames, bindings, values, receipts, outcome>>

\* Mutant: a root already remembered is not bound.
SkipRemembered ==
    /\ AtItem /\ Root[item].init # 0 /\ exprIds[Root[item].init] \in DOMAIN values
    /\ bindings' = IF Len(receipts) > 0 /\ receipts[Len(receipts)].node = exprIds[Root[item].init]
                   THEN Bind(bindings, Root[item].def, values[exprIds[Root[item].init]])
                   ELSE bindings
    /\ item' = item + 1
    /\ UNCHANGED <<frames, values, receipts, outcome>>

BindConstant ==
    /\ AtItem /\ Root[item].init # 0 /\ exprIds[Root[item].init] \in DOMAIN values
    /\ bindings' = Bind(bindings, Root[item].def, values[exprIds[Root[item].init]])
    /\ item' = item + 1
    /\ UNCHANGED <<frames, values, receipts, outcome>>

Evaluate(a) == frames' = Append(frames, [node |-> a, inputs |-> <<>>])

EvaluateRoot ==
    /\ AtItem /\ Root[item].init # 0 /\ exprIds[Root[item].init] \notin DOMAIN values
    /\ Evaluate(exprIds[Root[item].init])
    /\ UNCHANGED <<item, bindings, values, receipts, outcome>>

Evaluating == outcome = "executing" /\ frames # <<>>
Pending == Evaluating /\ Len(Frame.inputs) < Len(NodeOf(Frame.node).inputs)
Input == NodeOf(Frame.node).inputs[Len(Frame.inputs) + 1]

TakeInput ==
    /\ Pending /\ Input \in DOMAIN values
    /\ frames' = Append(Caller, [Frame EXCEPT !.inputs = Append(@, values[Input])])
    /\ UNCHANGED <<item, bindings, values, receipts, outcome>>

EvaluateInput ==
    /\ Pending /\ Input \notin DOMAIN values
    /\ \A k \in DOMAIN frames : frames[k].node # Input
    /\ Evaluate(Input)
    /\ UNCHANGED <<item, bindings, values, receipts, outcome>>

ReceiptOf(a, value) ==
    [node |-> a, before |-> values, after |-> Bind(values, a, value), value |-> value]

Step ==
    /\ Evaluating /\ Len(Frame.inputs) = Len(NodeOf(Frame.node).inputs)
    /\ LET value == EvaluateNode(NodeOf(Frame.node).op, NodeOf(Frame.node).params, Frame.inputs, bindings)
       IN  \/ value.kind = "failed" /\ Fail
           \/ /\ value.kind # "failed"
              /\ values' = Bind(values, Frame.node, value)
              /\ receipts' = Append(receipts, ReceiptOf(Frame.node, value))
              /\ frames' = Caller
              /\ UNCHANGED <<item, bindings, outcome>>

FinishExecution ==
    /\ outcome = "executing" /\ frames = <<>> /\ item \notin DOMAIN Root
    /\ outcome' = "executed"
    /\ UNCHANGED <<item, frames, bindings, values, receipts>>

-----------------------------------------------------------------------------
(* verify_replay *)

\* Receipts a replay may be held against: the first run's, cut short,
\* prolonged, or changed at one place.
Claims(rs) ==
    {rs, SubSeq(rs, 1, Len(rs) - 1), Append(rs, [rs[Len(rs)] EXCEPT !.value = NoValue])}
    \cup {[rs EXCEPT ![k].value = NoValue] : k \in DOMAIN rs}

StartReplay ==
    /\ outcome = "executed" /\ verdict.kind = "none" /\ receipts # <<>>
    /\ \E claim \in Claims(receipts) : expected' = claim
    /\ original' = receipts
    /\ verdict' = [kind |-> "replaying"]
    /\ outcome' = "executing"
    /\ item' = 1 /\ frames' = <<>> /\ bindings' = <<>> /\ values' = <<>> /\ receipts' = <<>>

\* Mutant: zip alone, without the lengths.
CompareZipped(actual, claimed) ==
    LET differ == {k \in DOMAIN actual \cap DOMAIN claimed : actual[k] # claimed[k]}
    IN  IF differ # {} THEN [kind |-> "diverged", at |-> CHOOSE k \in differ : \A j \in differ : k <= j]
        ELSE [kind |-> "ok"]

\* The first receipt that differs, then the lengths.
Compared(actual, claimed) ==
    LET differ == {k \in DOMAIN actual \cap DOMAIN claimed : actual[k] # claimed[k]}
    IN  IF differ # {} THEN [kind |-> "diverged", at |-> CHOOSE k \in differ : \A j \in differ : k <= j]
        ELSE IF Len(actual) # Len(claimed) THEN [kind |-> "length"]
        ELSE [kind |-> "ok"]

Verify ==
    /\ outcome = "executed" /\ verdict.kind = "replaying"
    /\ verdict' = Compared(receipts, expected)
    /\ outcome' = "verified"
    /\ UNCHANGED <<item, frames, bindings, values, receipts, expected, original>>

-----------------------------------------------------------------------------
ExecuteStep ==
    \/ StartExecution \/ SkipItem \/ BindConstant \/ EvaluateRoot
    \/ TakeInput \/ EvaluateInput \/ Step \/ FinishExecution

RunInit ==
    /\ Init
    /\ item = 1 /\ frames = <<>> /\ bindings = <<>> /\ values = <<>> /\ receipts = <<>>
    /\ outcome = "waiting"
    /\ expected = <<>> /\ original = <<>> /\ verdict = [kind |-> "none"]

RunNext ==
    \/ Next /\ UNCHANGED <<execution, replay>>
    \/ ExecuteStep /\ UNCHANGED <<vars, replay>>
    \/ (StartReplay \/ Verify) /\ UNCHANGED vars

RunSpec == RunInit /\ [][RunNext]_allVars

\* A run is one call: it goes on until it returns.
FairRunSpec == RunSpec /\ WF_allVars(RunNext)

-----------------------------------------------------------------------------
\* The meaning of the source: the tree evaluated with no ledger, no addresses
\* and nothing remembered, each binding seeing those before it.
Tree(env) ==
    LET den[e \in Exprs] ==
            LET inputs == [k \in DOMAIN Arena[e].kids |-> den[Arena[e].kids[k]]]
                bad == {k \in DOMAIN inputs : inputs[k].kind = "failed"}
            IN  IF bad # {} THEN inputs[CHOOSE k \in bad : \A j \in bad : k <= j]
                ELSE EvaluateNode(Arena[e].op, Arena[e].params, inputs, env)
    IN  den

Environment[k \in Nat] ==
    IF k = 0 THEN <<>>
    ELSE IF Root[k].init = 0 THEN Environment[k - 1]
    ELSE Bind(Environment[k - 1], Root[k].def, Tree(Environment[k - 1])[Root[k].init])

\* What raly run prints is what the source means, for every sharing of nodes:
\* each binding has its meaning, and a run fails only on a binding that has none.
RunMatchesSource ==
    /\ outcome \in {"executing", "executed", "verified"} => bindings = Environment[item - 1]
    /\ outcome = "failed" => Tree(Environment[item - 1])[Root[item].init].kind = "failed"

\* ExecError::Cycle and MissingNode never happen on a ledger that was built:
\* an input not yet known is a node of the ledger that is not being evaluated.
EvaluationProceeds ==
    Pending /\ Input \notin DOMAIN values =>
        /\ Taken(Input)
        /\ \A k \in DOMAIN frames : frames[k].node # Input

\* "return the first receipt that differs": a replay executes exactly as the
\* first run did, so it accepts that run's receipts and nothing else, and
\* points at the first difference.
ReplayVerdict ==
    /\ verdict.kind = "ok" => expected = original
    /\ verdict.kind = "diverged" =>
          /\ expected[verdict.at] # original[verdict.at]
          /\ \A k \in 1 .. verdict.at - 1 : expected[k] = original[k]
    /\ verdict.kind = "length" => Len(expected) # Len(original)

\* build and execution come to an end on every file, one with a cycle
\* included: no endless descent, no endless evaluation.
RunEnds == <>(result \in {"cycle", "collision"} \/ outcome \in {"failed", "executed", "verified"})
=============================================================================
