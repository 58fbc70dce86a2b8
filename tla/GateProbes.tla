---------------------------- MODULE GateProbes -----------------------------
(* The probes about what may be done: effects (40), ownership (41),          *)
(* speculation (51), ranking (52) and gates on emission (53, 56).            *)
EXTENDS Probes

(* 40: effects keep their order, and need a capability.                      *)

Operation(id, effectful, needs, throws) ==
    [id |-> id, effectful |-> effectful, needs |-> needs, throws |-> throws, reachable |-> TRUE]
EffectBase ==
    [operations |-> <<Operation(0, FALSE, {}, FALSE), Operation(2, TRUE, {"write"}, FALSE),
                      Operation(1, TRUE, {"read"}, TRUE), Operation(3, FALSE, {}, FALSE)>>,
     capabilities |-> {"read", "write"}, catches |-> TRUE]

Live(p) == SelectSeq(p.operations, LAMBDA o : o.reachable)
Permitted(p) ==
    \A o \in ToSet(Live(p)) : o.needs \subseteq p.capabilities /\ (o.throws => p.catches)
IdsOf(operations) == [i \in DOMAIN operations |-> operations[i].id]
Effectful(operations) == SelectSeq(operations, LAMBDA o : o.effectful)
TargetSignature(p) == <<Permitted(p), IdsOf(Effectful(Live(p)))>>
EffectTags(p) == <<Permitted(p), IdsOf(Effectful(Live(p)))>>
(* Everything is accepted, in the order of the identifiers.                  *)
ValueTypeOnly(p) == <<TRUE, SortSeq(IdsOf(Effectful(p.operations)), <)>>

EffectAnswer(arch, p) ==
    CASE arch = "value_type_only" -> ValueTypeOnly(p)
      [] arch = "effect_tags" -> EffectTags(p)
      [] arch = "capability_effect_ledger" -> TargetSignature(p)

Pure(p) == SelectSeq(p.operations, LAMBDA o : ~o.effectful)
PureReorder(p) ==
    {[p EXCEPT !.operations = <<q[1]>> \o Effectful(p.operations) \o Tail(q)] : q \in Shuffles(Pure(p))}
(* The two effects of the program change places; more would not unpack.      *)
EffectSwap(p) ==
    LET at == {i \in DOMAIN p.operations : p.operations[i].effectful}
    IN  IF Cardinality(at) # 2 THEN {}
        ELSE {[p EXCEPT !.operations[Min(at)] = p.operations[Max(at)],
                        !.operations[Max(at)] = p.operations[Min(at)]]}
DeadWrite == [Operation(99, TRUE, {"write"}, FALSE) EXCEPT !.reachable = FALSE]
EffectEdits(p) ==
    Edited("pure_reorder", PureReorder(p))
    \cup Edited("effect_order_sensitivity", EffectSwap(p))
    \cup Edited("capability_rejection", {[p EXCEPT !.capabilities = {"read"}]})
    \cup Edited("throw_rejection", {[p EXCEPT !.catches = FALSE]})
    \cup Edited("placebo", {[p EXCEPT !.operations = Append(@, DeadWrite)]})
EffectOk(arch, label, base, p) ==
    IF label = "effect_order_sensitivity"
    THEN EffectAnswer(arch, p)[1] /\ EffectAnswer(arch, p)[2] # EffectAnswer(arch, base)[2]
    ELSE EffectAnswer(arch, p) = TargetSignature(p)
-----------------------------------------------------------------------------
(* 41: leases of a resource, and its uses.                                   *)

Lease(r, b, k, s, e) ==
    [resource |-> r, borrower |-> b, kind |-> k, start |-> s, end |-> e, reachable |-> TRUE]
UseAt(r, at) == [resource |-> r, at |-> at, reachable |-> TRUE]
OwnershipBase ==
    [leases |-> <<Lease("buf", "reader_a", "shared", 0, 2), Lease("buf", "reader_b", "shared", 0, 2),
                  Lease("buf", "writer_a", "mut", 3, 5), Lease("buf", "writer_b", "mut", 6, 7),
                  Lease("token", "consumer", "move", 1, 1)>>,
     uses |-> <<UseAt("buf", 4), UseAt("buf", 6), UseAt("buf", 7)>>]

(* Two places of the list: the same one is not another lease.                *)
Overlaps(a, b) == a.start <= b.end /\ b.start <= a.end
Clash(a, b) == a.resource = b.resource /\ Overlaps(a, b) /\ ~(a.kind = "shared" /\ b.kind = "shared")
LiveLeases(p) == {i \in DOMAIN p.leases : p.leases[i].reachable}
LiveUses(p) == {i \in DOMAIN p.uses : p.uses[i].reachable}
OwnershipTarget(p) ==
    \A i \in LiveLeases(p) :
        LET left == p.leases[i]
        IN  /\ \A j \in LiveLeases(p) : i < j => ~Clash(left, p.leases[j])
            /\ left.kind = "move" =>
                 /\ \A j \in LiveLeases(p) :
                       i # j => ~(p.leases[j].resource = left.resource /\ Overlaps(left, p.leases[j]))
                 /\ \A j \in LiveUses(p) :
                       ~(p.uses[j].resource = left.resource /\ p.uses[j].at > left.start)
IntervalBorrowChecker(p) ==
    \A i, j \in LiveLeases(p) :
        (i < j /\ p.leases[i].kind # "move" /\ p.leases[j].kind # "move")
            => ~Clash(p.leases[i], p.leases[j])

OwnershipAccepts(arch, p) ==
    CASE arch = "value_only" -> TRUE
      [] arch = "interval_borrow_checker" -> IntervalBorrowChecker(p)
      [] arch = "ownership_ledger" -> OwnershipTarget(p)

Retitled(s) ==
    [i \in DOMAIN s |-> [s[i] EXCEPT !.resource = IF @ = "buf" THEN "buffer" ELSE "ticket"]]
RenameResource(p) == [leases |-> Retitled(p.leases), uses |-> Retitled(p.uses)]
ReorderResources(p) ==
    {[leases |-> l, uses |-> u] : l \in Shuffles(p.leases), u \in Shuffles(p.uses)}
OverlapViolation(p) == [p EXCEPT !.leases = Append(@, Lease("buf", "writer_bad", "mut", 1, 2))]
MoveUseViolation(p) == [p EXCEPT !.uses = Append(@, UseAt("token", 2))]
DeadWriter(p) ==
    [leases |-> Append(p.leases, [Lease("buf", "dead_writer", "mut", 0, 100) EXCEPT !.reachable = FALSE]),
     uses |-> Append(p.uses, [UseAt("buf", 50) EXCEPT !.reachable = FALSE])]
OwnershipEdits(p) ==
    Edited("rename", {RenameResource(p)})
    \cup Edited("reorder", ReorderResources(p))
    \cup Edited("overlap_rejection", {OverlapViolation(p)})
    \cup Edited("move_rejection", {MoveUseViolation(p)})
    \cup Edited("placebo", {DeadWriter(p)})
OwnershipOk(arch, p) == OwnershipAccepts(arch, p) <=> OwnershipTarget(p)
-----------------------------------------------------------------------------
(* 51: candidates run ahead of their proofs.                                 *)

Effect(kind, payload) == [kind |-> kind, payload |-> payload]
Speculated(id, score, effects, valid) == [id |-> id, score |-> score, effects |-> effects, valid |-> valid]
SpeculationBase ==
    <<Speculated(0, 100, <<Effect("memory", "temp_bad"), Effect("external", "email_bad")>>, FALSE),
      Speculated(1, 80, <<Effect("memory", "answer"), Effect("external", "write_good")>>, TRUE)>>

NoCandidate == [id |-> None, effects |-> <<>>]
Selected(p) ==
    LET valid == {c \in ToSet(p) : c.valid}
    IN  IF valid = {} THEN NoCandidate
        ELSE CHOOSE c \in valid : \A d \in valid : d.score < c.score \/ (d.score = c.score /\ c.id <= d.id)

EagerExecutor(p) == <<Selected(p).id, FlattenSeq([i \in DOMAIN p |-> p[i].effects])>>
Leaked(c) == SelectSeq(c.effects, LAMBDA e : e.kind = "external" /\ ~c.valid)
UndoLog(p) == <<Selected(p).id, FlattenSeq([i \in DOMAIN p |-> Leaked(p[i])]) \o Selected(p).effects>>
TransactionalLedger(p) == <<Selected(p).id, Selected(p).effects>>

SpeculationAnswer(arch, p) ==
    CASE arch = "eager_executor" -> EagerExecutor(p)
      [] arch = "undo_log" -> UndoLog(p)
      [] arch = "transactional_ledger" -> TransactionalLedger(p)

Invalid(p, ids) == [i \in DOMAIN p |-> IF p[i].id \in ids THEN [p[i] EXCEPT !.valid = FALSE] ELSE p[i]]
SpeculationEdits(p) ==
    Edited("reorder", Shuffles(p))
    \cup Edited("late_failure_isolation", {Invalid(p, {1})})
    \cup Edited("all_invalid", {Invalid(p, {p[i].id : i \in DOMAIN p})})
    \cup Edited("placebo_isolation",
                {Append(p, Speculated(99, 1000, <<Effect("external", "oracle_leak")>>, FALSE))})
SpeculationOk(arch, p) == SpeculationAnswer(arch, p) = TransactionalLedger(p)
-----------------------------------------------------------------------------
(* 52: the best of the proved candidates.  Scores are exact fractions.       *)

Ranked(id, n, d, complexity, signature, valid) ==
    [id |-> id, num |-> n, den |-> d, complexity |-> complexity, signature |-> signature, valid |-> valid]
RankingBase ==
    <<Ranked(0, 10, 10, 3, "zeta", TRUE), Ranked(1, 10, 10, 2, "alpha", TRUE),
      Ranked(2, 9, 10, 1, "invalid", FALSE)>>
Alphabet == [alpha |-> 1, invalid |-> 2, zeta |-> 3]

Above(c, d) == c.num * d.den > d.num * c.den
Level(c, d) == c.num * d.den = d.num * c.den
(* The keys of min are compared in turn.                                     *)
Precedes(c, d) ==
    \/ Above(c, d)
    \/ /\ Level(c, d)
       /\ \/ c.complexity < d.complexity
          \/ c.complexity = d.complexity /\ Alphabet[c.signature] < Alphabet[d.signature]
Proved(p) == {i \in DOMAIN p : p[i].valid}
\* min and max return the first of the best.
FirstBest(p, best) == IF best = {} THEN None ELSE p[Min(best)].id
ExactTarget(p) == FirstBest(p, {i \in Proved(p) : \A j \in Proved(p) : ~Precedes(p[j], p[i])})
InputOrderArgmax(p) == FirstBest(p, {i \in Proved(p) : \A j \in Proved(p) : ~Above(p[j], p[i])})

RankingAnswer(arch, p) == IF arch = "input_order_argmax" THEN InputOrderArgmax(p) ELSE ExactTarget(p)

Rewritten(p, id, field, value) ==
    [i \in DOMAIN p |-> IF p[i].id = id THEN [p[i] EXCEPT ![field] = value] ELSE p[i]]
Scored(p, id, n, d) == Rewritten(Rewritten(p, id, "num", n), id, "den", d)
(* The near tie of the code, scaled to TLC's integers: one part in 10000.    *)
RankingEdits(p) ==
    Edited("reorder", Shuffles(p))
    \cup Edited("near_tie", {Scored(p, 0, 9999, 10000)})
    \cup Edited("invalid_filter", {Scored(p, 2, 100, 1)})
    \cup Edited("semantic_tie", {Rewritten(p, 0, "complexity", 2)})
RankingOk(arch, p) == RankingAnswer(arch, p) = ExactTarget(p)
-----------------------------------------------------------------------------
(* 53 and 56: which candidates are emitted.  Only counts are taken of a      *)
(* batch, so it is a set.                                                    *)

Confident(id, confidence, proof, verified, correct) ==
    [id |-> id, confidence |-> confidence, proof |-> proof, verified |-> verified, correct |-> correct]
SelectiveBase ==
    {Confident(0, 95, TRUE, TRUE, TRUE), Confident(1, 91, FALSE, FALSE, FALSE),
     Confident(2, 89, TRUE, TRUE, TRUE), Confident(3, 86, TRUE, FALSE, FALSE),
     Confident(4, 79, TRUE, TRUE, TRUE), Confident(5, 75, TRUE, TRUE, TRUE),
     Confident(6, 93, TRUE, TRUE, TRUE), Confident(7, 97, FALSE, FALSE, FALSE)}
Emit(c, policy) ==
    /\ c.confidence >= 80
    /\ policy # "confidence_only" => c.proof
    /\ policy = "proof_selective" => c.verified
Emitted(batch, policy) == {c \in batch : Emit(c, policy)}
Wrong(batch) == {c \in batch : ~c.correct}
SelectiveCounts(batch, policy) ==
    [emitted |-> Cardinality(Emitted(batch, policy)), errors |-> Cardinality(Wrong(Emitted(batch, policy))),
     confident |-> Cardinality({c \in Wrong(Emitted(batch, policy)) : c.confidence >= 90})]
VerifierImprovement(batch) ==
    {IF c.id = 3 THEN [c EXCEPT !.verified = TRUE, !.correct = TRUE] ELSE c : c \in batch}
SelectiveEdits(batch) ==
    Edited("reorder", {batch}) \cup Edited("verifier_improvement", {VerifierImprovement(batch)})

(* The checks a candidate passes.                                            *)
Checked(id, passes, correct) == [id |-> id, passes |-> passes, correct |-> correct]
Standard == {"type", "effect", "execution"}
BlindspotBase ==
    {Checked(0, Standard \cup {"challenge"}, TRUE), Checked(1, Standard, FALSE),
     Checked(2, {"type", "execution"}, FALSE), Checked(3, {}, FALSE),
     Checked(4, Standard \cup {"challenge"}, TRUE), Checked(5, Standard, FALSE),
     Checked(6, {"type", "effect"}, FALSE), Checked(7, Standard \cup {"challenge"}, TRUE)}
Accepts(c, policy) ==
    Standard \subseteq c.passes /\ (policy = "unanimous_plus_challenge" => "challenge" \in c.passes)
BlindspotCounts(batch, policy) ==
    LET selected == {c \in batch : Accepts(c, policy)}
    IN  [emitted |-> Cardinality(selected), errors |-> Cardinality(Wrong(selected)),
         shared |-> Cardinality({c \in selected : c.id \in {1, 5}})]
=============================================================================
