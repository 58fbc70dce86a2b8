----------------------------- MODULE ProofProbes -----------------------------
(* The probes about what a certificate is worth: refinements (42), proof     *)
(* graphs (43), shared proofs (44), transitive effects (62) and suites of    *)
(* metamorphic tests (57, 58).                                               *)
EXTENDS Probes

(* 42: a predicate on a value is an obligation, not an annotation.           *)

Refined(id, type, annotations) == [id |-> id, type |-> type, annotations |-> annotations]
RefinementBase ==
    [values |-> {Refined(0, "Int", {"nonzero", "range_1_10"}), Refined(1, "Array[Int]", {"len_3"}),
                 Refined(2, "Int", {"index_0_2"}), Refined(3, "Int", {})},
     steps |-> <<[inputs |-> <<3, 0>>, types |-> <<"Int", "Int">>, requires |-> {<<1, "nonzero">>}],
                 [inputs |-> <<1, 2>>, types |-> <<"Array[Int]", "Int">>,
                  requires |-> {<<0, "len_3">>, <<1, "index_0_2">>}]>>,
     proofs |-> {<<0, "nonzero">>, <<1, "len_3">>, <<2, "index_0_2">>}]

ValueOf(p, id) == CHOOSE v \in p.values : v.id = id
StepTyped(p, step) == \A k \in DOMAIN step.inputs : ValueOf(p, step.inputs[k]).type = step.types[k]
(* What a step requires, of the value at the input named.                    *)
Obligations(step) == {<<step.inputs[r[1] + 1], r[2]>> : r \in step.requires}

BaseTypeChecker(p) == \A i \in DOMAIN p.steps : StepTyped(p, p.steps[i])
PredicateTags(p) ==
    /\ \A i \in DOMAIN p.steps : \A o \in Obligations(p.steps[i]) : o[2] \in ValueOf(p, o[1]).annotations
    /\ BaseTypeChecker(p)
ProofLedger(p) ==
    \A i \in DOMAIN p.steps : StepTyped(p, p.steps[i]) /\ Obligations(p.steps[i]) \subseteq p.proofs

RefinementAccepts(arch, p) ==
    CASE arch = "base_type_checker" -> BaseTypeChecker(p)
      [] arch = "predicate_tags" -> PredicateTags(p)
      [] arch = "proof_ledger" -> ProofLedger(p)

CorruptAnnotation(p) ==
    [p EXCEPT !.values = {IF v.id = 0 THEN [v EXCEPT !.annotations = @ \ {"nonzero"}] ELSE v : v \in @}]
AddSecret(p) == [p EXCEPT !.values = @ \cup {Refined(99, "Secret", {"oracle"})},
                          !.proofs = @ \cup {<<99, "oracle">>}]
RefinementEdits(p) ==
    Edited("erase_proof", {[p EXCEPT !.proofs = @ \ {<<0, "nonzero">>}]})
    \cup Edited("wrong_proof", {[p EXCEPT !.proofs = (@ \ {<<0, "nonzero">>}) \cup {<<3, "nonzero">>}]})
    \cup Edited("annotation_corruption", {CorruptAnnotation(p)})
    \cup Edited("step_reorder", {[p EXCEPT !.steps = s] : s \in Shuffles(p.steps)})
    \cup Edited("placebo", {AddSecret(p)})
RefinementOk(arch, p) == RefinementAccepts(arch, p) <=> ProofLedger(p)
-----------------------------------------------------------------------------
(* 43: a proof is a graph of rules, checked from its axioms up.              *)

ProofNode(id, rule, premises, fact, reachable) ==
    [id |-> id, rule |-> rule, premises |-> premises, fact |-> fact, reachable |-> reachable]
Nonnegative(n) == <<n, "nonnegative">>
ProofBase ==
    [axioms |-> {Nonnegative(0), Nonnegative(1)},
     nodes |-> <<ProofNode(0, "axiom", <<>>, Nonnegative(0), TRUE),
                 ProofNode(1, "axiom", <<>>, Nonnegative(1), TRUE),
                 ProofNode(2, "inc_nonnegative", <<0>>, Nonnegative(2), TRUE),
                 ProofNode(3, "sum_nonnegative", <<0, 1>>, Nonnegative(3), TRUE)>>,
     obligations |-> {Nonnegative(2), Nonnegative(3)}]

Reachable(p) == {p.nodes[i] : i \in {j \in DOMAIN p.nodes : p.nodes[j].reachable}}
Ids(p) == {n.id : n \in Reachable(p)}
NodeOf(p, id) == CHOOSE n \in Reachable(p) : n.id = id
FactsOf(nodes) == {n.fact : n \in nodes}

CheckRule(p, node) ==
    LET k == Len(node.premises)
        sound == /\ \A i \in 1 .. k : NodeOf(p, node.premises[i]).fact[2] = "nonnegative"
                 /\ node.fact[2] = "nonnegative"
    IN  \/ node.rule = "axiom" /\ k = 0 /\ node.fact \in p.axioms
        \/ node.rule = "inc_nonnegative" /\ k = 1 /\ sound
        \/ node.rule = "sum_nonnegative" /\ k = 2 /\ sound

(* visit: s = [verified, active, ok].                                        *)
\* Mutant: a node under way counts as verified.
RECURSIVE VisitTrusting(_, _, _)
VisitTrusting(p, id, s) ==
    IF id \in s.verified \cup s.active THEN s
    ELSE IF id \notin Ids(p) THEN [s EXCEPT !.ok = FALSE]
    ELSE LET below == FoldLeft(LAMBDA t, q : IF t.ok THEN VisitTrusting(p, q, t) ELSE t,
                               [s EXCEPT !.active = @ \cup {id}], NodeOf(p, id).premises)
         IN  IF ~below.ok THEN below
             ELSE [verified |-> below.verified \cup {id}, active |-> below.active \ {id},
                   ok |-> CheckRule(p, NodeOf(p, id))]
RECURSIVE Visit(_, _, _)
Visit(p, id, s) ==
    IF id \in s.verified THEN s
    ELSE IF id \in s.active \/ id \notin Ids(p) THEN [s EXCEPT !.ok = FALSE]
    ELSE LET below == FoldLeft(LAMBDA t, q : IF t.ok THEN Visit(p, q, t) ELSE t,
                               [s EXCEPT !.active = @ \cup {id}], NodeOf(p, id).premises)
         IN  IF ~below.ok THEN below
             ELSE [verified |-> below.verified \cup {id}, active |-> below.active \ {id},
                   ok |-> CheckRule(p, NodeOf(p, id))]

CompositionalTarget(p) ==
    /\ FoldLeft(LAMBDA s, n : IF s.ok /\ n.reachable THEN Visit(p, n.id, s) ELSE s,
                [verified |-> {}, active |-> {}, ok |-> TRUE], p.nodes).ok
    /\ p.obligations \subseteq FactsOf(Reachable(p))
ConclusionPresence(p) == p.obligations \subseteq FactsOf(Reachable(p))
ShallowRuleChecker(p) ==
    /\ \A n \in Reachable(p) : ToSet(n.premises) \subseteq Ids(p) /\ CheckRule(p, n)
    /\ p.obligations \subseteq FactsOf(Reachable(p))

ProofAccepts(arch, p) ==
    CASE arch = "conclusion_presence" -> ConclusionPresence(p)
      [] arch = "shallow_rule_checker" -> ShallowRuleChecker(p)
      [] arch = "compositional_proof_ledger" -> CompositionalTarget(p)

WithNode(p, id, rule, premises) ==
    [p EXCEPT !.nodes = [i \in DOMAIN @ |->
        IF @[i].id = id THEN [@[i] EXCEPT !.rule = rule, !.premises = premises] ELSE @[i]]]
ForgedAxiom(p) == WithNode(p, 3, "axiom", <<>>)
MissingPremise(p) == WithNode(p, 2, "inc_nonnegative", <<>>)
CyclicProof(p) ==
    [p EXCEPT !.nodes = [i \in DOMAIN @ |->
        CASE @[i].id = 2 -> [@[i] EXCEPT !.premises = <<3>>]
          [] @[i].id = 3 -> [@[i] EXCEPT !.premises = <<2, 1>>]
          [] OTHER -> @[i]]]
ExtendChain(p) ==
    [p EXCEPT !.nodes = Append(@, ProofNode(4, "inc_nonnegative", <<3>>, Nonnegative(4), TRUE)),
              !.obligations = @ \cup {Nonnegative(4)}]
Unreached(p) ==
    [p EXCEPT !.nodes = Append(@, ProofNode(99, "axiom", <<>>, <<99, "unreachable">>, FALSE))]
ProofEdits(p) ==
    Edited("reorder", {[p EXCEPT !.nodes = n] : n \in Shuffles(p.nodes)})
    \cup Edited("forged_rule_rejection", {ForgedAxiom(p)})
    \cup Edited("missing_premise_rejection", {MissingPremise(p)})
    \cup Edited("cycle_rejection", {CyclicProof(p)})
    \cup Edited("placebo", {Unreached(p)})
    \cup Edited("chain_extension", {ExtendChain(p)})
ProofOk(arch, p) == ProofAccepts(arch, p) <=> CompositionalTarget(p)
-----------------------------------------------------------------------------
(* 44: branches that share the proof of a common prefix.                     *)

Half(depth) == IF depth \div 2 > 1 THEN depth \div 2 ELSE 1
FamilyNode(common, length, id) ==
    [id |-> id,
     rule |-> IF id = 0 THEN "axiom" ELSE IF id < common THEN "extend" ELSE "branch",
     premises |-> IF id = 0 THEN <<>>
                  ELSE IF id >= common /\ (id - common) % length = 0 THEN <<common - 1>>
                  ELSE <<id - 1>>]
MakeFamily(branches, depth) ==
    LET common == Half(depth)
        length == depth - common
    IN  [branches |-> branches, depth |-> depth, common |-> common,
         nodes |-> [i \in 1 .. common + branches * length |-> FamilyNode(common, length, i - 1)],
         obligations |-> [b \in 1 .. branches |-> common - 1 + b * length]]

FlatCost(f, n) == n * (f.depth * 3 + (f.depth - 1))
SharedCost(f, n) ==
    f.common * 4 + (IF n < f.branches THEN n ELSE f.branches) * ((f.depth - f.common) * 4 + 1)
HashOnlyCost(f, n) == n * 2
Cost(kind, f, n) ==
    CASE kind = "flat" -> FlatCost(f, n)
      [] kind = "shared" -> SharedCost(f, n)
      [] kind = "hash" -> HashOnlyCost(f, n)
(* The most obligations a budget covers.                                     *)
Affordable(kind, f, budget) ==
    Max({0} \cup {n \in 1 .. f.branches : Cost(kind, f, n) <= budget})
(* Hundredths of a percent the shared certificate saves.                     *)
Saving(f) ==
    ((FlatCost(f, f.branches) - SharedCost(f, f.branches)) * 10000) \div FlatCost(f, f.branches)
Families == {MakeFamily(f[1], f[2]) : f \in {<<2, 4>>, <<4, 4>>, <<8, 4>>, <<16, 4>>, <<4, 8>>, <<8, 8>>}}

VerifyShared(f) ==
    LET ids == {f.nodes[i].id : i \in DOMAIN f.nodes}
    IN  /\ \A i \in DOMAIN f.nodes :
              LET n == f.nodes[i]
              IN  /\ n.rule \in {"axiom", "extend", "branch"}
                  /\ Len(n.premises) = IF n.rule = "axiom" THEN 0 ELSE 1
                  /\ \A q \in ToSet(n.premises) : q \in ids /\ q < n.id
        /\ ToSet(f.obligations) \subseteq ids
MutateShared(f) ==
    [f EXCEPT !.nodes = [i \in DOMAIN @ |->
        IF @[i].id = f.common THEN [@[i] EXCEPT !.rule = "forged"] ELSE @[i]]]
FamilyEdits(f) == Edited("forged", {MutateShared(f)})
-----------------------------------------------------------------------------
(* 62: the effects of a module are those of everything it calls.             *)

EffectModule(name, declared, calls) == [name |-> name, declared |-> declared, calls |-> calls]
CapabilityBase ==
    [modules |-> <<EffectModule("read_file", {"read"}, <<>>), EffectModule("normalize", {}, <<>>),
                   EffectModule("safe_wrapper", {"read"}, <<"read_file", "normalize">>)>>,
     entry |-> "safe_wrapper", capabilities |-> {"read"}]

(* by_name is a dictionary: the last module of a name.                       *)
ModuleOf(p, name) ==
    p.modules[Max({i \in DOMAIN p.modules : p.modules[i].name = name})]

(* effects: s = [memo, active, found]; found is what the last call returned. *)
RECURSIVE Effects(_, _, _)
Effects(p, name, s) ==
    IF name \in DOMAIN s.memo THEN [s EXCEPT !.found = s.memo[name]]
    ELSE IF name \in s.active THEN [s EXCEPT !.found = {"cycle"}]
    ELSE LET below == FoldLeft(LAMBDA t, child : [Effects(p, child, t) EXCEPT !.found = @ \cup t.found],
                               [s EXCEPT !.active = @ \cup {name}, !.found = ModuleOf(p, name).declared],
                               ModuleOf(p, name).calls)
         IN  [below EXCEPT !.active = @ \ {name}, !.memo = (name :> below.found) @@ @]

DeclaredOnly(p) == ModuleOf(p, p.entry).declared \subseteq p.capabilities
ShallowEffects(p) ==
    LET entry == ModuleOf(p, p.entry)
    IN  entry.declared \cup UNION {ModuleOf(p, c).declared : c \in ToSet(entry.calls)}
            \subseteq p.capabilities
TransitiveLedger(p) ==
    Effects(p, p.entry, [memo |-> <<>>, active |-> {}, found |-> {}]).found \subseteq p.capabilities

CapabilityAccepts(arch, p) ==
    CASE arch = "declared_only" -> DeclaredOnly(p)
      [] arch = "shallow_effects" -> ShallowEffects(p)
      [] arch = "transitive_capability_ledger" -> TransitiveLedger(p)

Calling(modules, name, callee) ==
    [i \in DOMAIN modules |->
        IF modules[i].name = name THEN [modules[i] EXCEPT !.calls = <<callee>>] ELSE modules[i]]
NetworkSend == EffectModule("network_send", {"network"}, <<>>)
HiddenNetworkWrapper(p) ==
    [p EXCEPT !.modules = Calling(Append(@, NetworkSend), "safe_wrapper", "network_send")]
NestedHiddenNetwork(p) ==
    [p EXCEPT !.modules =
        Calling(@ \o <<NetworkSend, EffectModule("nested_wrapper", {}, <<"network_send">>)>>,
                "safe_wrapper", "nested_wrapper")]
CapabilityCycle(p) == [p EXCEPT !.modules = Calling(@, "normalize", "safe_wrapper")]
CapabilityEdits(p) ==
    Edited("hidden_network_rejection", {HiddenNetworkWrapper(p)})
    \cup Edited("nested_hidden_rejection", {NestedHiddenNetwork(p)})
    \cup Edited("cycle_rejection", {CapabilityCycle(p)})
    \cup Edited("reorder_invariance", {[p EXCEPT !.modules = m] : m \in Shuffles(p.modules)})
CapabilityOk(arch, p) == CapabilityAccepts(arch, p) <=> TransitiveLedger(p)
-----------------------------------------------------------------------------
(* 57 and 58: suites of metamorphic tests and the shortcuts they let pass.   *)

SmallProgram(l, r, op, name) == [left |-> l, right |-> r, operation |-> op, name |-> name]
SmallBase == SmallProgram(3, 4, "add", "x")
Evaluate(m) ==
    CASE m.operation = "add" -> m.left + m.right
      [] m.operation = "subtract" -> m.left - m.right
      [] m.operation = "multiply" -> m.left * m.right

NameLength == [x |-> 1, renamed |-> 7]
Shortcuts == {"constant", "first_argument", "commutative_add_only", "surface_sensitive", "semantic"}
Output(shortcut, m) ==
    CASE shortcut = "constant" -> 7
      [] shortcut = "first_argument" -> m.left
      [] shortcut = "commutative_add_only" -> m.left + m.right
      [] shortcut = "surface_sensitive" -> Evaluate(m) + NameLength[m.name]
      [] shortcut = "surface_parity" -> Evaluate(m) + 1   \* 57: both names have an odd digest
      [] shortcut = "semantic" -> Evaluate(m)

Test(name, m, relation) == [name |-> name, program |-> m, relation |-> relation, metadata |-> {}]
SurfaceSuite(m) ==
    <<Test("alpha_rename", [m EXCEPT !.name = "renamed"], "preserve"),
      Test("declaration_reorder", [m EXCEPT !.left = m.right, !.right = m.left], "preserve")>>
TypedCoreSuite(m) ==
    SurfaceSuite(m) \o
    <<Test("literal_delta", [m EXCEPT !.right = @ + 1], "change"),
      Test("operator_delta", [m EXCEPT !.operation = "multiply"], "change"),
      Test("operand_swap_noncommutative", [m EXCEPT !.operation = "subtract"], "change")>>
(* Dead code is no field here: nothing reads it.                             *)
StructuralSuite(m) ==
    TypedCoreSuite(m) \o
    <<Test("dead_code_placebo", m, "preserve"),
      Test("large_literal_delta", [m EXCEPT !.left = 20, !.right = 1], "change")>>

Passes(shortcut, test, m) ==
    IF test.relation = "preserve" THEN Output(shortcut, test.program) = Output(shortcut, m)
    ELSE /\ Output(shortcut, test.program) # Output(shortcut, m)
         /\ Output(shortcut, test.program) = Evaluate(test.program)
PassesSuite(shortcut, tests, m) == \A i \in DOMAIN tests : Passes(shortcut, tests[i], m)
Killed(tests, m) == {s \in Shortcuts : ~PassesSuite(s, tests, m)}

Score(shortcut, tests, m) ==
    LET passed(relation) == {i \in DOMAIN tests :
                                tests[i].relation = relation /\ Passes(shortcut, tests[i], m)}
    IN  [preserve |-> Cardinality(passed("preserve")), change |-> Cardinality(passed("change"))]

Forbidden == {"answer", "expected_output", "oracle", "hidden_test", "solution"}
LeakedMetadata(tests) ==
    {tests[i].name : i \in {j \in DOMAIN tests : tests[j].metadata \cap Forbidden # {}}}
LeakySuite(tests) == [tests EXCEPT ![1].metadata = @ \cup {"expected_output"}]
SuiteEdits(tests) ==
    Edited("shuffled", Shuffles(tests)) \cup Edited("leaky", {LeakySuite(tests)})
=============================================================================
