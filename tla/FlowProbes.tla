----------------------------- MODULE FlowProbes -----------------------------
(* The probes about values that flow through a graph: the ledger runtime and *)
(* its intermediate form (31, 32), receipts (45), lineage (46, 47), short    *)
(* identifiers (48), caches (49) and schedules (50).                         *)
EXTENDS Probes

(* 31: nodes are appended one at a time, each with a receipt.  A digest      *)
(* stands for what it was taken of.                                          *)

Operations == {"input", "sort", "unique", "reverse", "count"}
InputTypes(op) == IF op = "input" THEN <<>> ELSE <<"List[Int]">>
OutputType(op) == IF op = "count" THEN "Int" ELSE "List[Int]"
RuntimeNode(id, op, inputs, type) == [id |-> id, op |-> op, inputs |-> inputs, type |-> type]
EmptyRuntime(values) == [values |-> values, nodes |-> <<>>, results |-> <<>>, receipts |-> <<>>]
TypeIn(r, id) == r.nodes[CHOOSE i \in DOMAIN r.nodes : r.nodes[i].id = id].type

Acceptable(r, n) ==
    /\ n.id \notin DOMAIN r.results
    /\ n.op \in Operations
    /\ n.op = "input" => r.nodes = <<>>
    /\ Len(n.inputs) = Len(InputTypes(n.op))
    /\ \A k \in DOMAIN n.inputs :
          n.inputs[k] \in DOMAIN r.results /\ TypeIn(r, n.inputs[k]) = InputTypes(n.op)[k]
    /\ n.type = OutputType(n.op)

FirstSeen(s) == FoldLeft(LAMBDA t, x : IF x \in ToSet(t) THEN t ELSE Append(t, x), <<>>, s)
Computed(r, n) ==
    CASE n.op = "input" -> r.values
      [] n.op = "sort" -> SortSeq(r.results[n.inputs[1]], <)
      [] n.op = "unique" -> FirstSeen(r.results[n.inputs[1]])
      [] n.op = "reverse" -> Reverse(r.results[n.inputs[1]])
      [] n.op = "count" -> Len(r.results[n.inputs[1]])

(* append raises before it changes anything.                                 *)
Appended(r, n) ==
    IF ~Acceptable(r, n) THEN r
    ELSE LET after == (n.id :> Computed(r, n)) @@ r.results
         IN  [r EXCEPT !.nodes = Append(@, n), !.results = after,
                       !.receipts = Append(@, [node |-> n, before |-> r.results, after |-> after,
                                               value |-> Computed(r, n)])]
Replays(r) == FoldLeft(Appended, EmptyRuntime(r.values), r.nodes).receipts = r.receipts

NodeNames == <<"n0", "n1", "n2", "n3">>
Proposed(r) ==
    LET names == {"n0", NodeNames[Len(r.nodes) + 1]}
    IN  {RuntimeNode(id, op, inputs, type) :
            id \in names, op \in Operations, type \in {"List[Int]", "Int"},
            inputs \in {<<>>} \cup {<<n>> : n \in DOMAIN r.results \cup {"future"}}}
RuntimeEdits(r) ==
    IF Len(r.nodes) = Len(NodeNames) THEN {}
    ELSE Edited("accepted", {Appended(r, n) : n \in {m \in Proposed(r) : Acceptable(r, m)}})
         \cup Edited("rejected", {Appended(r, n) : n \in {m \in Proposed(r) : ~Acceptable(r, m)}})
-----------------------------------------------------------------------------
(* 32: the intermediate form.                                                *)

LoadType(dimension, low, high, roles) ==
    [dimension |-> dimension, low |-> low, high |-> high, capacity |-> 8, roles |-> roles]
IrNode(id, op, inputs, type) == [id |-> id, op |-> op, inputs |-> inputs, output |-> type]
ValidType(t) ==
    /\ t.dimension # ""
    /\ 0 <= t.low /\ t.low <= t.high /\ t.high <= t.capacity
    /\ IsInjective(t.roles)
Validate(nodes) ==
    /\ \A i \in DOMAIN nodes :
          LET seen == {nodes[j].id : j \in 1 .. i - 1}
          IN  /\ nodes[i].id \notin seen
              /\ ValidType(nodes[i].output)
              /\ ToSet(nodes[i].inputs) \subseteq seen
              /\ nodes[i].op \in {"input", "map", "filter", "fold", "return"}
              /\ nodes[i].op = "input" <=> nodes[i].inputs = <<>>
    /\ nodes # <<>> /\ Last(nodes).op = "return"

ValidGraphs ==
    LET middle == UNION {[1 .. k -> {"map", "filter", "fold"}] : k \in 2 .. 4}
        type(high) == LoadType("S^1", 1, high, <<"value">>)
    IN  {[i \in 1 .. Len(ops) + 2 |->
            IrNode(i - 1, IF i = 1 THEN "input" ELSE IF i = Len(ops) + 2 THEN "return" ELSE ops[i - 1],
                   IF i = 1 THEN <<>> ELSE <<i - 2>>, type(high))] : ops \in middle, high \in {1, 3}}
(* Every control has lost the first node of the graph.                       *)
InvalidGraphs(good) ==
    LET rest == SubSeq(good, 3, Len(good))
    IN  {<<[good[2] EXCEPT !.inputs = <<99>>]>> \o rest,
         <<[good[2] EXCEPT !.output = LoadType("S^1", 0, 9, <<"value">>)]>> \o rest,
         <<[good[2] EXCEPT !.output = LoadType("", 0, 1, <<"value">>)]>> \o rest,
         <<[Last(good) EXCEPT !.op = "map"]>>}
Tampered(graph) == [graph EXCEPT ![2].op = IF @ # "filter" THEN "filter" ELSE "map"]
IrEdits(graph) ==
    IF ~Validate(graph) THEN {}
    ELSE Edited("tampered", {Tampered(graph)}) \cup Edited("invalid", InvalidGraphs(graph))
-----------------------------------------------------------------------------
(* 45: receipts of a run, checked three ways.  Digests are the values.       *)

RunStep(id, op, argument) == [id |-> id, op |-> op, argument |-> argument]
Execute(state, step) == IF step.op = "add" THEN state + step.argument ELSE state * step.argument
RECURSIVE StateAfter(_, _)
StateAfter(steps, k) == IF k = 0 THEN 0 ELSE Execute(StateAfter(steps, k - 1), steps[k])
MakeTrace(a, b, c) ==
    LET steps == <<RunStep(0, "add", a), RunStep(1, "mul", b), RunStep(2, "add", c)>>
    IN  [steps |-> steps,
         receipts |-> [i \in 1 .. 3 |-> [id |-> i - 1, input |-> StateAfter(steps, i - 1),
                                         output |-> StateAfter(steps, i)]]]

ReceiptsOf(t, i) == {r \in ToSet(t.receipts) : r.id = t.steps[i].id}
FirstOf(t, bad) == IF bad = {} THEN <<TRUE, None>> ELSE <<FALSE, t.steps[Min(bad)].id>>
\* Mutant: what a step put out is not recomputed.
ReplayInputsOnly(t) ==
    FirstOf(t, {i \in DOMAIN t.steps : \A r \in ReceiptsOf(t, i) : r.input # StateAfter(t.steps, i - 1)})
ReplayReceiptLedger(t) ==
    FirstOf(t, {i \in DOMAIN t.steps :
                   \A r \in ReceiptsOf(t, i) :
                       r.input # StateAfter(t.steps, i - 1) \/ r.output # StateAfter(t.steps, i)})
(* The look-ahead to the next receipt reports what its own turn would.       *)
HashChain(t) ==
    FirstOf(t, {i \in DOMAIN t.steps :
                   \A r \in ReceiptsOf(t, i) :
                       IF i = 1 THEN r.input # 0
                       ELSE \A q \in ReceiptsOf(t, i - 1) : r.input # q.output})
FinalOnly(t) ==
    IF t.receipts = <<>> THEN <<FALSE, 0>>
    ELSE <<Last(t.receipts).output = StateAfter(t.steps, Len(t.steps)), None>>

TraceAnswer(arch, t) ==
    CASE arch = "final_only" -> FinalOnly(t)
      [] arch = "hash_chain" -> HashChain(t)
      [] arch = "replay_receipt_ledger" -> ReplayReceiptLedger(t)

TraceEdits(t) ==
    Edited("altered_output_detection",
           {[t EXCEPT !.receipts = [i \in DOMAIN @ |-> IF @[i].id = 1 THEN [@[i] EXCEPT !.output = None] ELSE @[i]]]})
    \cup Edited("changed_argument_detection", {[t EXCEPT !.steps[2].argument = @ + 1]})
    \cup Edited("dropped_receipt_detection", {[t EXCEPT !.receipts = SelectSeq(@, LAMBDA r : r.id # 1)]})
(* detected, and at the step expected_first_divergence names.               *)
Detected(arch, t) == ~TraceAnswer(arch, t)[1]
Localized(arch, t) == Detected(arch, t) /\ TraceAnswer(arch, t) = ReplayReceiptLedger(t)
-----------------------------------------------------------------------------
(* 46 and 47: where an output comes from.                                    *)

FlowNode(id, op, inputs, parameter, source) ==
    [id |-> id, op |-> op, inputs |-> inputs, parameter |-> parameter, source |-> source, reachable |-> TRUE]
FlowOf(g, id) == g.nodes[Max({i \in DOMAIN g.nodes : g.nodes[i].id = id /\ g.nodes[i].reachable})]
LineageBase ==
    [nodes |-> <<FlowNode(0, "source", <<>>, None, "file_a.py:1"), FlowNode(1, "source", <<>>, None, "file_b.py:4"),
                 FlowNode(2, "normalize", <<0>>, None, "none"), FlowNode(3, "join", <<2, 1>>, None, "none"),
                 FlowNode(4, "project", <<3>>, None, "none")>>,
     output |-> 4]

RECURSIVE Lineage(_, _)
Lineage(g, id) ==
    LET n == FlowOf(g, id)
    IN  IF n.op = "source" THEN {n.source} \ {"none"}
        ELSE UNION {Lineage(g, n.inputs[i]) : i \in DOMAIN n.inputs}
OneHopMetadata(g) ==
    {FlowOf(g, i).source : i \in ToSet(FlowOf(g, g.output).inputs)} \ {"none"}
LineageAnswer(arch, g) ==
    CASE arch = "value_only" -> {}
      [] arch = "one_hop_metadata" -> OneHopMetadata(g)
      [] arch = "lineage_ledger" -> Lineage(g, g.output)

WithFlow(g, id, field, value) ==
    [g EXCEPT !.nodes = [i \in DOMAIN @ |-> IF @[i].id = id THEN [@[i] EXCEPT ![field] = value] ELSE @[i]]]
Hidden(id, op, parameter, source) == [FlowNode(id, op, <<>>, parameter, source) EXCEPT !.reachable = FALSE]
LineageEdits(g) ==
    Edited("reorder", {[g EXCEPT !.nodes = n] : n \in Shuffles(g.nodes)})
    \cup Edited("lineage_sensitivity", {WithFlow(g, 2, "inputs", <<1>>)})
    \cup Edited("placebo", {[g EXCEPT !.nodes = Append(@, Hidden(99, "secret_source", None, "oracle.answer"))]})
    \cup Edited("label_change", {WithFlow(g, 0, "source", "renamed.py:99")})

LineageOk(arch, label, base, g) ==
    /\ LineageAnswer(arch, g) = Lineage(g, g.output)
    /\ label = "lineage_sensitivity" => LineageAnswer(arch, g) # Lineage(base, base.output)

ProvenanceBase ==
    [nodes |-> <<FlowNode(0, "source", <<>>, None, "a.py:1"), FlowNode(1, "source", <<>>, None, "b.py:2"),
                 FlowNode(2, "add_constant", <<0>>, 1, "none"), FlowNode(3, "subtract", <<2, 1>>, None, "none")>>,
     output |-> 3]
RECURSIVE Ancestry(_, _)
Ancestry(g, id) == {id} \cup UNION {Ancestry(g, i) : i \in ToSet(FlowOf(g, id).inputs)}
SourceOnly(g) ==
    {FlowOf(g, id).source : id \in {i \in Ancestry(g, g.output) : FlowOf(g, i).op = "source"}} \ {"none"}
(* The sorted tuple says how often each tag occurs.                          *)
Tag(g, id) == <<FlowOf(g, id).op, FlowOf(g, id).parameter>>
OperationTags(g) ==
    LET ids == Ancestry(g, g.output)
    IN  [t \in {Tag(g, id) : id \in ids} |-> Cardinality({id \in ids : Tag(g, id) = t})]
\* Mutant: the addresses of the inputs are collected without their order.
RECURSIVE AddressUnordered(_, _)
AddressUnordered(g, id) ==
    LET n == FlowOf(g, id)
    IN  IF n.op = "source" THEN <<n.op, n.source>>
        ELSE <<n.op, n.parameter, {AddressUnordered(g, i) : i \in ToSet(n.inputs)}>>
RECURSIVE ContentAddressed(_, _)
ContentAddressed(g, id) ==
    LET n == FlowOf(g, id)
    IN  IF n.op = "source" THEN <<n.op, n.source>>
        ELSE <<n.op, n.parameter, [i \in DOMAIN n.inputs |-> ContentAddressed(g, n.inputs[i])]>>
ProvenanceEdits(g) ==
    Edited("reorder", {[g EXCEPT !.nodes = n] : n \in Shuffles(g.nodes)})
    \cup Edited("parameter_sensitivity", {WithFlow(g, 2, "parameter", 2)})
    \cup Edited("operand_sensitivity", {WithFlow(g, 3, "inputs", <<1, 2>>)})
    \cup Edited("placebo", {[g EXCEPT !.nodes = Append(@, Hidden(99, "oracle", 999, "none"))]})
ProvenanceAnswer(arch, g) ==
    CASE arch = "source_only" -> SourceOnly(g)
      [] arch = "operation_tags" -> OperationTags(g)
      [] arch = "content_addressed" -> ContentAddressed(g, g.output)
(* Whether an answer moves with the program, as the scores ask of two edits. *)
Notices(arch, base, g) == ProvenanceAnswer(arch, g) # ProvenanceAnswer(arch, base)
-----------------------------------------------------------------------------
(* 48: identifiers cut short, and the registry that notices.                 *)

IdNode(op, parameter, metadata) == [op |-> op, parameter |-> parameter, metadata |-> metadata]
SemanticPayload(n) == <<n.op, n.parameter>>
IdNodes == {IdNode("call", 7, <<"trace", "note">>), IdNode("call", 7, <<"note", "trace">>),
            IdNode("call", 7, <<"changed">>), IdNode("call", 8, <<"trace", "note">>),
            IdNode("literal", 1, <<>>), IdNode("literal", 2, <<>>)}
Payloads == {SemanticPayload(n) : n \in IdNodes}
RawHash(n) == <<SemanticPayload(n), n.metadata>>
FullHash(n) == SemanticPayload(n)
(* The first digits of a digest: some function of the payload, under which   *)
(* the two literals collide because find_collision looked for them.          *)
Truncations == {f \in [Payloads -> {"94", "c1"}] : f[<<"literal", 1>>] = f[<<"literal", 2>>]}
\* given: the payloads each identifier was handed out for.
EmptyRegistry(short) == [short |-> short, registry |-> <<>>, given |-> {}]
Conflicts(p, n) ==
    /\ p.short[SemanticPayload(n)] \in DOMAIN p.registry
    /\ p.registry[p.short[SemanticPayload(n)]] # SemanticPayload(n)
Registered(p, n) ==
    IF Conflicts(p, n) THEN p
    ELSE [p EXCEPT !.registry = (p.short[SemanticPayload(n)] :> SemanticPayload(n)) @@ @,
                   !.given = @ \cup {<<p.short[SemanticPayload(n)], SemanticPayload(n)>>}]
(* What an architecture answers for a node, given what the registry holds.   *)
Identifier(arch, p, n) ==
    CASE arch = "raw_hash" -> RawHash(n)
      [] arch = "truncated_unchecked" -> <<p.short[SemanticPayload(n)]>>
      [] arch = "truncated_collision_checked" ->
            IF Conflicts(p, n) THEN <<>> ELSE <<p.short[SemanticPayload(n)]>>
      [] arch = "full_hash" -> FullHash(n)
(* The two nodes answered one after the other.                               *)
Separates(arch, p, a, b) == Identifier(arch, p, a) # Identifier(arch, Registered(p, a), b)
Call(parameter, metadata) == IdNode("call", parameter, metadata)
IdScores(arch, p) ==
    LET first == Call(7, <<"trace", "note">>)
    IN  [equivalence |-> ~Separates(arch, p, first, Call(7, <<"note", "trace">>)),
         decorative |-> ~Separates(arch, p, first, Call(7, <<"changed">>)),
         mutation |-> Separates(arch, p, first, Call(8, <<"trace", "note">>)),
         collision |-> Separates(arch, p, IdNode("literal", 1, <<>>), IdNode("literal", 2, <<>>))]
RegistryEdits(p) == Edited("checked", {Registered(p, n) : n \in IdNodes})
-----------------------------------------------------------------------------
(* 49: what an edit makes stale.  Values are terms: stripping and lowering   *)
(* the names of the probe confuses none of them.                             *)

CacheNode(id, op, inputs, parameter) == [id |-> id, op |-> op, inputs |-> inputs, parameter |-> parameter]
CacheNodes ==
    <<CacheNode(0, "source", <<>>, "A"), CacheNode(1, "source", <<>>, "B"), CacheNode(2, "normalize", <<0>>, ""),
      CacheNode(3, "normalize", <<1>>, ""), CacheNode(4, "join", <<2, 3>>, ""), CacheNode(5, "render", <<4>>, ""),
      CacheNode(6, "checksum", <<1>>, ""), CacheNode(7, "package", <<5, 6>>, "")>>
CacheOutput == 7
CacheIds == 0 .. 7
InGraph(nodes, id) == nodes[CHOOSE i \in DOMAIN nodes : nodes[i].id = id]

Compute(n, inputs) == IF n.op = "source" THEN <<n.parameter>> ELSE <<n.op, inputs>>
(* visit, with a value at hand for the nodes that may be reused.             *)
RECURSIVE Incremental(_, _, _, _)
Incremental(nodes, old, invalidated, id) ==
    IF id \in DOMAIN old \ invalidated THEN old[id]
    ELSE LET n == InGraph(nodes, id)
         IN  Compute(n, [i \in DOMAIN n.inputs |-> Incremental(nodes, old, invalidated, n.inputs[i])])
RECURSIVE Recomputed(_, _, _, _)
Recomputed(nodes, old, invalidated, id) ==
    IF id \in DOMAIN old \ invalidated THEN {}
    ELSE {id} \cup UNION {Recomputed(nodes, old, invalidated, i) : i \in ToSet(InGraph(nodes, id).inputs)}
FullCache(nodes) == [id \in CacheIds |-> Incremental(nodes, <<>>, {}, id)]

(* One pass over the list, and passes until nothing is added.                *)
OnePass(nodes, result) ==
    FoldLeft(LAMBDA r, n : IF ToSet(n.inputs) \cap r # {} THEN r \cup {n.id} ELSE r, result, nodes)
RECURSIVE Descendants(_, _)
Descendants(nodes, result) ==
    IF OnePass(nodes, result) = result THEN result ELSE Descendants(nodes, OnePass(nodes, result))

\* Mutant: the nodes are passed over once.
InvalidatedOnce(arch, nodes, changed) ==
    CASE arch = "full_recompute" -> CacheIds
      [] arch = "no_invalidation_cache" -> {}
      [] arch = "suffix_cache" -> {id \in CacheIds : \E c \in changed : c <= id}
      [] arch = "dependency_cache" -> OnePass(nodes, changed)
Invalidated(arch, nodes, changed) ==
    CASE arch = "full_recompute" -> CacheIds
      [] arch = "no_invalidation_cache" -> {}
      [] arch = "suffix_cache" -> {id \in CacheIds : \E c \in changed : c <= id}
      [] arch = "dependency_cache" -> Descendants(nodes, changed)

CacheBase == [nodes |-> CacheNodes, old |-> FullCache(CacheNodes), changed |-> {}]
ArchOutput(arch, p) == Incremental(p.nodes, p.old, Invalidated(arch, p.nodes, p.changed), CacheOutput)
ArchCalls(arch, p) ==
    IF arch = "full_recompute" THEN CacheIds
    ELSE Recomputed(p.nodes, p.old, Invalidated(arch, p.nodes, p.changed), CacheOutput)
WithParameter(p, id, value) ==
    [p EXCEPT !.nodes = [i \in DOMAIN @ |-> IF @[i].id = id THEN [@[i] EXCEPT !.parameter = value] ELSE @[i]],
              !.changed = @ \cup {id}]
CacheEdits(p) ==
    Edited("local_edit", {WithParameter(p, 0, "A2")})
    \cup Edited("independent_edit", {WithParameter(p, 1, "B2")})
    \cup Edited("reorder", {[p EXCEPT !.nodes = n] : n \in Shuffles(p.nodes)})
CacheOk(arch, p) == ArchOutput(arch, p) = FullCache(p.nodes)[CacheOutput]
CacheSaves(arch, p) == Cardinality(ArchCalls(arch, p)) < Cardinality(CacheIds)
-----------------------------------------------------------------------------
(* 50: the order in which ready tasks run.                                   *)

Task(id, label, dependencies) == [id |-> id, label |-> label, dependencies |-> dependencies]
ScheduleBase ==
    <<Task(0, "read_config", {}), Task(1, "read_schema", {}), Task(2, "write_config", {0}),
      Task(3, "write_schema", {1, 2}), Task(4, "package", {2, 3})>>
Alphabetic == [package |-> 1, read_config |-> 2, read_schema |-> 3, write_config |-> 4, write_schema |-> 5]
ReadyTasks(tasks, out) ==
    {i \in DOMAIN tasks : tasks[i].id \notin ToSet(out) /\ tasks[i].dependencies \subseteq ToSet(out)}
Precedence(t) == 10 * Alphabetic[t.label] + t.id
Picks(policy, tasks, out) ==
    LET ready == ReadyTasks(tasks, out)
    IN  CASE policy = "input_fifo" -> {Min(ready)}
          [] policy = "random_ready_queue" -> ready
          [] policy = "semantic_topological" ->
                {i \in ready : \A j \in ready : Precedence(tasks[i]) <= Precedence(tasks[j])}
(* Every schedule a policy may produce; none where it would raise.           *)
RECURSIVE Schedules(_, _, _)
Schedules(policy, tasks, out) ==
    IF Len(out) = Len(tasks) THEN {out}
    ELSE IF ReadyTasks(tasks, out) = {} THEN {}
    ELSE UNION {Schedules(policy, tasks, Append(out, tasks[i].id)) : i \in Picks(policy, tasks, out)}
PositionIn(schedule, id) == CHOOSE k \in DOMAIN schedule : schedule[k] = id
ValidTopological(tasks, schedule) ==
    \A i \in DOMAIN tasks : \A d \in tasks[i].dependencies :
        PositionIn(schedule, d) < PositionIn(schedule, tasks[i].id)
(* One schedule for every draw of the queue, and the same for another list.  *)
Repeatable(policy, tasks) == Cardinality(Schedules(policy, tasks, <<>>)) = 1
OrderInvariant(policy, base, tasks) ==
    Schedules(policy, tasks, <<>>) = Schedules("semantic_topological", base, <<>>)
ScheduleEdits(tasks) == Edited("reorder", Shuffles(tasks))
=============================================================================
