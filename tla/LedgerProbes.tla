---------------------------- MODULE LedgerProbes ----------------------------
(* The probes of experiments 31 to 62 as one machine: a study is chosen with *)
(* its base program, and the edits of that study are applied to the program  *)
(* in any order and with every shuffle.  Where the experiments score single  *)
(* edits of the base, the machine also composes them.                        *)
EXTENDS Integers, SequencesExt

CONSTANTS
    FullShuffle,    \* bound: longer lists are shuffled by one swap only
    MaxEdits        \* bound: edits composed in one behaviour

Names == INSTANCE NameProbes
Proofs == INSTANCE ProofProbes
Gates == INSTANCE GateProbes
Flows == INSTANCE FlowProbes

VARIABLES study, base, program, edits
vars == <<study, base, program, edits>>

Bases ==
    [scoped |-> {Names!ScopedBase}, group |-> {Names!GroupBase}, overload |-> {Names!OverloadBase},
     library |-> {Names!TrustedModules}, refinement |-> {Proofs!RefinementBase},
     proof |-> {Proofs!ProofBase}, capability |-> {Proofs!CapabilityBase},
     family |-> Proofs!Families,
     suite |-> {Proofs!SurfaceSuite(Proofs!SmallBase), Proofs!TypedCoreSuite(Proofs!SmallBase),
                Proofs!StructuralSuite(Proofs!SmallBase)},
     effect |-> {Gates!EffectBase}, ownership |-> {Gates!OwnershipBase},
     speculation |-> {Gates!SpeculationBase}, ranking |-> {Gates!RankingBase},
     selective |-> {Gates!SelectiveBase}, blindspot |-> {Gates!BlindspotBase},
     runtime |-> {Flows!EmptyRuntime(<<2, 1, 2>>), Flows!EmptyRuntime(<<>>)},
     ir |-> Flows!ValidGraphs,
     trace |-> {Flows!MakeTrace(a, b, c) : a, c \in 1 .. 4, b \in 2 .. 4},
     lineage |-> {Flows!LineageBase}, provenance |-> {Flows!ProvenanceBase},
     registry |-> {Flows!EmptyRegistry(f) : f \in Flows!Truncations},
     cache |-> {Flows!CacheBase}, schedule |-> {Flows!ScheduleBase}]

Init ==
    /\ study \in DOMAIN Bases
    /\ base \in Bases[study]
    /\ program = base
    /\ edits = {}

(* The edits of a study, each a label and a program.                         *)
Edits(s, p) ==
    CASE s = "scoped" -> Names!ScopedEdits(p)
      [] s = "group" -> Names!GroupEdits(p)
      [] s = "overload" -> Names!OverloadEdits(p)
      [] s = "library" -> Names!LibraryEdits(p)
      [] s = "refinement" -> Proofs!RefinementEdits(p)
      [] s = "proof" -> Proofs!ProofEdits(p)
      [] s = "family" -> Proofs!FamilyEdits(p)
      [] s = "capability" -> Proofs!CapabilityEdits(p)
      [] s = "suite" -> Proofs!SuiteEdits(p)
      [] s = "effect" -> Gates!EffectEdits(p)
      [] s = "ownership" -> Gates!OwnershipEdits(p)
      [] s = "speculation" -> Gates!SpeculationEdits(p)
      [] s = "ranking" -> Gates!RankingEdits(p)
      [] s = "selective" -> Gates!SelectiveEdits(p)
      [] s = "ir" -> Flows!IrEdits(p)
      [] s = "trace" -> Flows!TraceEdits(p)
      [] s = "lineage" -> Flows!LineageEdits(p)
      [] s = "provenance" -> Flows!ProvenanceEdits(p)
      [] s = "cache" -> Flows!CacheEdits(p)
      [] s = "schedule" -> Flows!ScheduleEdits(p)
      [] OTHER -> {}

(* Each edit is made at most once.                                           *)
NewEdits == {e \in Edits(study, program) : e.label \notin edits}
EditProgram ==
    /\ Cardinality(edits) < MaxEdits
    /\ \E e \in NewEdits : program' = e.program /\ edits' = edits \cup {e.label}
    /\ UNCHANGED <<study, base>>

(* The runtime and the registry take the nodes they are given, or refuse.    *)
AppendNode ==
    /\ study = "runtime"
    /\ \E e \in Flows!RuntimeEdits(program) : program' = e.program
    /\ UNCHANGED <<study, base, edits>>
RegisterNode ==
    /\ study = "registry"
    /\ \E e \in Flows!RegistryEdits(program) : program' = e.program
    /\ UNCHANGED <<study, base, edits>>

Next == EditProgram \/ AppendNode \/ RegisterNode

Spec == Init /\ [][Next]_vars
-----------------------------------------------------------------------------
(* What the ledger of a study says of a program.                             *)
LedgerSays(s, p) ==
    CASE s = "scoped" -> Names!ScopedTypedLedger(p)
      [] s = "group" -> Names!GroupResult(p, "recursive_group_ledger")
      [] s = "overload" -> Names!Overloads(p, "typed_overload_ledger")
      [] s = "library" -> Names!ResolveModules(p, "trusted")
      [] s = "refinement" -> Proofs!ProofLedger(p)
      [] s = "proof" -> Proofs!CompositionalTarget(p)
      [] s = "family" -> Proofs!VerifyShared(p)
      [] s = "capability" -> Proofs!TransitiveLedger(p)
      [] s = "suite" -> <<Proofs!Killed(p, Proofs!SmallBase), Proofs!LeakedMetadata(p)>>
      [] s = "effect" -> Gates!TargetSignature(p)
      [] s = "ownership" -> Gates!OwnershipTarget(p)
      [] s = "speculation" -> Gates!TransactionalLedger(p)
      [] s = "ranking" -> Gates!ExactTarget(p)
      [] s = "selective" -> Gates!SelectiveCounts(p, "proof_selective")
      [] s = "ir" -> Flows!Validate(p)
      [] s = "trace" -> Flows!ReplayReceiptLedger(p)
      [] s = "lineage" -> Flows!Lineage(p, p.output)
      [] s = "provenance" -> Flows!ContentAddressed(p, p.output)
      [] s = "cache" -> Flows!ArchOutput("dependency_cache", p)
      [] s = "schedule" -> Flows!Schedules("semantic_topological", p, <<>>)
      [] OTHER -> TRUE

(* The edits that leave the meaning of a program alone.                      *)
Neutral ==
    [scoped |-> {"alpha_rename", "reorder", "placebo"},
     group |-> {"alpha_rename", "group_reorder", "placebo"},
     overload |-> {"family_rename", "reorder", "placebo"},
     library |-> {"poison_rejection", "counterfeit_rejection", "reorder_invariance"},
     refinement |-> {"annotation_corruption", "step_reorder", "placebo"},
     proof |-> {"reorder", "placebo", "chain_extension"},
     family |-> {}, capability |-> {"reorder_invariance"}, suite |-> {"shuffled"},
     effect |-> {"pure_reorder", "placebo"}, ownership |-> {"rename", "reorder", "placebo"},
     speculation |-> {"reorder", "placebo_isolation"},
     ranking |-> {"reorder", "near_tie", "invalid_filter", "semantic_tie"},
     selective |-> {"reorder"}, ir |-> {"tampered"}, trace |-> {},
     lineage |-> {"reorder", "placebo"}, provenance |-> {"reorder", "placebo"},
     cache |-> {"reorder"}, schedule |-> {"reorder"}]

(* PROPERTY.  An edit that keeps the meaning (a renaming, another order of a *)
(* list, something unreachable) keeps what the ledger of its study says,     *)
(* whatever was edited before it; any other edit of the base changes it.     *)
OnlyMeaningMoves ==
    \A e \in NewEdits :
        IF e.label \in Neutral[study]
        THEN LedgerSays(study, e.program) = LedgerSays(study, program)
        ELSE edits = {} => LedgerSays(study, e.program) # LedgerSays(study, program)
-----------------------------------------------------------------------------
RECURSIVE Reached(_, _)
Reached(edges, from) ==
    LET more == from \cup {e[2] : e \in {x \in edges : x[1] \in from}}
    IN  IF more = from THEN from ELSE Reached(edges, more)

(* A fact holds when a finite derivation of sound rules ends in it.          *)
RECURSIVE Derived(_, _)
Derived(p, known) ==
    LET more == {n \in Proofs!Reachable(p) :
                    /\ ToSet(n.premises) \subseteq {m.id : m \in known}
                    /\ Proofs!CheckRule(p, n)}
    IN  IF more = known THEN known ELSE Derived(p, more)

Calls(p) == {<<m.name, c>> : m \in ToSet(p.modules), c \in {d.name : d \in ToSet(p.modules)}}
CallEdges(p) ==
    {e \in Calls(p) : e[2] \in ToSet(Proofs!ModuleOf(p, e[1]).calls)}
InputEdges(nodes) ==
    UNION {{<<n.id, i>> : i \in ToSet(n.inputs)} : n \in ToSet(nodes)}

(* The scopes of a name's search, and how far out each is.                   *)
RECURSIVE Depth(_, _, _)
Depth(parent, s, outer) ==
    IF s = outer THEN 0 ELSE IF s \in DOMAIN parent THEN 1 + Depth(parent, parent[s], outer) ELSE 100

(* PROPERTY.  The recursive checkers compute what their words say: a proof   *)
(* is accepted exactly when every node of it has a finite derivation, effects*)
(* are those of every module that can be reached and a reachable cycle is    *)
(* refused, a lineage is the sources that reach the output, a name is its    *)
(* innermost binding, a validated graph is grounded in inputs, and a shared  *)
(* certificate has a cell per node and premise, never more than flat paths.  *)
Grounded ==
    CASE study = "proof" ->
            Proofs!CompositionalTarget(program) <=>
                /\ Derived(program, {}) = Proofs!Reachable(program)
                /\ program.obligations \subseteq Proofs!FactsOf(Derived(program, {}))
      [] study = "capability" ->
            LET reached == Reached(CallEdges(program), {program.entry})
                acyclic == \A m \in reached :
                    m \notin Reached(CallEdges(program), ToSet(Proofs!ModuleOf(program, m).calls))
            IN  Proofs!TransitiveLedger(program) <=>
                    /\ acyclic
                    /\ UNION {Proofs!ModuleOf(program, m).declared : m \in reached}
                          \subseteq program.capabilities
      [] study = "lineage" ->
            Flows!Lineage(program, program.output) =
                {n.source : n \in {m \in ToSet(program.nodes) :
                    m.id \in Reached(InputEdges(program.nodes), {program.output})}} \ {"none"}
      [] study = "scoped" ->
            \A r \in ToSet(program.references), b \in ToSet(program.bindings) :
                LET found == Names!Resolved(program, r)
                    far(x) == Depth(program.parent, r.scope, x.scope)
                IN  (b.name = r.name /\ far(b) < 100) =>
                        found # Names!Nowhere /\ found.name = r.name /\ far(found) <= far(b)
      [] study = "ir" ->
            Flows!Validate(program) =>
                \A n \in ToSet(program) :
                    LET sources == Reached(InputEdges(program), {n.id})
                    IN  /\ n.id \notin Reached(InputEdges(program), ToSet(n.inputs))
                        /\ \E m \in ToSet(program) : m.id \in sources /\ m.op = "input"
      [] study = "family" ->
            /\ Proofs!SharedCost(program, program.branches)
                    = 4 * Len(program.nodes) + program.branches
            /\ \A n \in 2 .. program.branches :
                    Proofs!SharedCost(program, n) <= Proofs!FlatCost(program, n)
      [] OTHER -> TRUE
-----------------------------------------------------------------------------
(* PROPERTY.  After any edits of the parameters and any order of the nodes,  *)
(* the caches that invalidate give the output of a full computation, and the *)
(* dependency cache recomputes exactly the nodes whose value changed, at most*)
(* those a suffix cache does.  The semantic scheduler has one schedule, the  *)
(* same for every list of the tasks, and every policy respects dependencies. *)
NothingStale ==
    CASE study = "cache" ->
            LET fresh == Flows!FullCache(program.nodes)
                calls(arch) == Flows!ArchCalls(arch, program)
            IN  /\ \A arch \in {"dependency_cache", "suffix_cache", "full_recompute"} :
                        Flows!ArchOutput(arch, program) = fresh[Flows!CacheOutput]
                /\ calls("dependency_cache") = {id \in Flows!CacheIds : fresh[id] # base.old[id]}
                /\ calls("dependency_cache") \subseteq calls("suffix_cache")
      [] study = "schedule" ->
            /\ Flows!Schedules("semantic_topological", program, <<>>)
                    = Flows!Schedules("semantic_topological", base, <<>>)
            /\ Cardinality(Flows!Schedules("semantic_topological", program, <<>>)) = 1
            /\ \A order \in Flows!Schedules("random_ready_queue", program, <<>>) :
                    Flows!ValidTopological(program, order)
      [] OTHER -> TRUE
-----------------------------------------------------------------------------
(* PROPERTY.  The runtime's receipts can be replayed, each from the results  *)
(* before it, whatever was refused in between, and its results are of the    *)
(* types its nodes declare to their consumers.  The registry never gives one *)
(* identifier to two payloads, whichever digests the truncation makes equal. *)
(* A trace that replays passes the checks that do not replay, however it was *)
(* edited, and the chain of digests blames no step before the replay does.   *)
ReceiptsHold ==
    CASE study = "runtime" ->
            /\ Flows!Replays(program)
            /\ \A i \in DOMAIN program.receipts :
                  /\ program.receipts[i].node = program.nodes[i]
                  /\ program.receipts[i].before =
                        (IF i = 1 THEN <<>> ELSE program.receipts[i - 1].after)
            /\ \A n \in ToSet(program.nodes), i \in ToSet(program.nodes) :
                  i.id \in ToSet(n.inputs) => i.op # "count"
      [] study = "registry" ->
            \A g, h \in program.given : g[1] = h[1] => g[2] = h[2]
      [] study = "trace" ->
            LET replay == Flows!ReplayReceiptLedger(program)
                chain == Flows!HashChain(program)
            IN  /\ replay[1] => chain[1] /\ Flows!FinalOnly(program)[1]
                /\ ~chain[1] => replay[2] <= chain[2]
      [] OTHER -> TRUE
-----------------------------------------------------------------------------
(* The cases an architecture gets wrong, as the experiments report them.     *)
Failing ==
    [scoped |-> [position_sequence |-> {"original", "reorder", "placebo"},
                 flat_name_map |-> {"original", "reorder", "placebo"},
                 scoped_name_map |-> {}, scoped_typed_ledger |-> {}],
     group |-> [prior_declaration_sequence |->
                    {"original", "alpha_rename", "group_reorder", "illegal_rejection", "placebo"},
                scope_name_map |-> {"illegal_rejection"}, recursive_group_ledger |-> {}],
     overload |-> [a \in {"name_only", "argument_only"} |->
                    {"original", "family_rename", "reorder", "argument_edit", "ambiguity_rejection",
                     "placebo"}],
     effect |-> [value_type_only |-> {"original", "pure_reorder", "effect_order_sensitivity",
                                      "capability_rejection", "throw_rejection", "placebo"},
                 effect_tags |-> {}, capability_effect_ledger |-> {}],
     ownership |-> [value_only |-> {"overlap_rejection", "move_rejection"},
                    interval_borrow_checker |-> {"move_rejection"}],
     refinement |-> [base_type_checker |-> {"erase_proof", "wrong_proof"},
                     predicate_tags |-> {"erase_proof", "wrong_proof", "annotation_corruption"}],
     proof |-> [conclusion_presence |->
                    {"forged_rule_rejection", "missing_premise_rejection", "cycle_rejection"},
                shallow_rule_checker |-> {"cycle_rejection"}],
     capability |-> [declared_only |->
                        {"hidden_network_rejection", "nested_hidden_rejection", "cycle_rejection"},
                     shallow_effects |-> {"nested_hidden_rejection", "cycle_rejection"}],
     speculation |-> [a \in {"eager_executor", "undo_log"} |->
                        {"original", "reorder", "late_failure_isolation", "all_invalid",
                         "placebo_isolation"}],
     library |-> [a \in {"name_only", "typed_only"} |-> {"poison_rejection", "counterfeit_rejection"}],
     lineage |-> [a \in {"value_only", "one_hop_metadata"} |->
                    {"original", "reorder", "lineage_sensitivity", "placebo", "label_change"}],
     cache |-> [no_invalidation_cache |-> {"local_edit", "independent_edit"},
                suffix_cache |-> {}, dependency_cache |-> {}, full_recompute |-> {}]]

Passing(s, a, label) ==
    CASE s = "scoped" -> Names!ScopedOk(a, label, base, program)
      [] s = "group" -> Names!GroupOk(a, label, program)
      [] s = "overload" -> Names!OverloadOk(a, program)
      [] s = "library" -> Names!LibraryOk(a, program)
      [] s = "refinement" -> Proofs!RefinementOk(a, program)
      [] s = "proof" -> Proofs!ProofOk(a, program)
      [] s = "capability" -> Proofs!CapabilityOk(a, program)
      [] s = "effect" -> Gates!EffectOk(a, label, base, program)
      [] s = "ownership" -> Gates!OwnershipOk(a, program)
      [] s = "speculation" -> Gates!SpeculationOk(a, program)
      [] s = "lineage" -> Flows!LineageOk(a, label, base, program)
      [] s = "cache" -> Flows!CacheOk(a, program)

Label == IF edits = {} THEN "original" ELSE CHOOSE e \in edits : TRUE
Survivors(tests) == Proofs!Shortcuts \ Proofs!Killed(tests, Proofs!SmallBase)

(* PROPERTY.  Every architecture passes and fails the cases FINDINGS.md of   *)
(* its experiment says, and would for any seed: which shuffle was drawn      *)
(* decides none of the reported results, but for rankings and schedules.     *)
FindingsHold ==
    Cardinality(edits) <= 1 =>
    /\ study \in DOMAIN Failing =>
        \A a \in DOMAIN Failing[study] : Passing(study, a, Label) <=> Label \notin Failing[study][a]
    /\ study = "ranking" /\ Label # "reorder" =>
        (Gates!RankingOk("input_order_argmax", program) <=> Label = "near_tie")
    /\ study = "trace" =>
        /\ Flows!Detected("replay_receipt_ledger", program) <=> Label # "original"
        /\ Flows!Detected("hash_chain", program)
              <=> Label \in {"altered_output_detection", "dropped_receipt_detection"}
        /\ Flows!Detected("final_only", program) <=> Label = "changed_argument_detection"
        /\ Label = "altered_output_detection" =>
              /\ Flows!Localized("replay_receipt_ledger", program)
              /\ ~Flows!Localized("hash_chain", program)
    /\ study = "provenance" =>
        /\ ~Flows!Notices("source_only", base, program)
        /\ Label = "operand_sensitivity" => ~Flows!Notices("operation_tags", base, program)
        /\ Flows!Notices("content_addressed", base, program)
              <=> Label \in {"parameter_sensitivity", "operand_sensitivity"}
    /\ (study = "registry" /\ program = base) =>
        \A arch \in {"raw_hash", "truncated_unchecked", "truncated_collision_checked", "full_hash"} :
            LET scores == Flows!IdScores(arch, program)
            IN  /\ (scores.equivalence /\ scores.decorative) <=> arch # "raw_hash"
                /\ scores.collision <=> arch # "truncated_unchecked"
    /\ study = "schedule" =>
        /\ Flows!Repeatable("input_fifo", program)
        /\ Flows!OrderInvariant("semantic_topological", base, program)
        /\ ~Flows!Repeatable("random_ready_queue", program)
    /\ study = "family" /\ Label = "original" =>
        /\ program.depth = 4 =>
              /\ Proofs!Saving(program) =
                    (CASE program.branches = 2 -> 1333 [] program.branches = 4 -> 2666
                       [] program.branches = 8 -> 3333 [] program.branches = 16 -> 3666)
              /\ program.branches \in {8, 16} =>
                    Proofs!Affordable("shared", program, 64) = 6 /\ Proofs!Affordable("flat", program, 64) = 4
        /\ (program.depth = 8 /\ program.branches = 8) =>
              Proofs!Saving(program) = 3870 /\ Len(program.nodes) = 36
    /\ study = "cache" =>
        /\ Label = "independent_edit" => Flows!CacheSaves("suffix_cache", program)
        /\ Label \in {"local_edit", "independent_edit"} =>
              Flows!CacheSaves("dependency_cache", program)
    /\ study = "suite" =>
        /\ "constant" \in Survivors(program) <=> base = Proofs!SurfaceSuite(Proofs!SmallBase)
        /\ Cardinality(Survivors(program)) =
              (IF base = Proofs!SurfaceSuite(Proofs!SmallBase) THEN 3 ELSE 1)
        /\ Proofs!LeakedMetadata(program) # {} <=> Label = "leaky"
    /\ study = "selective" /\ Label = "original" =>
        /\ Gates!SelectiveCounts(program, "confidence_only") = [emitted |-> 6, errors |-> 3, confident |-> 2]
        /\ Gates!SelectiveCounts(program, "proof_gated") = [emitted |-> 4, errors |-> 1, confident |-> 0]
        /\ Gates!SelectiveCounts(program, "proof_selective") = [emitted |-> 3, errors |-> 0, confident |-> 0]
    /\ study = "blindspot" =>
        /\ Gates!BlindspotCounts(program, "unanimous_standard") = [emitted |-> 5, errors |-> 2, shared |-> 2]
        /\ Gates!BlindspotCounts(program, "unanimous_plus_challenge")
              = [emitted |-> 3, errors |-> 0, shared |-> 0]
=============================================================================
