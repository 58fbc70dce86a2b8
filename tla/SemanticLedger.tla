--------------------------- MODULE SemanticLedger ---------------------------
(***************************************************************************)
(* Ledger::build of compiler/crates/raly-ledger: every expression of a     *)
(* checked file gets a content address, the hash of its operation, type,   *)
(* parameters and the addresses of its inputs.  Expressions with the same  *)
(* address share one node.  A 64-bit hash may collide, so it is modelled   *)
(* as an oracle that may answer any address for content it has not seen.   *)
(***************************************************************************)
EXTENDS Naturals, Sequences, FiniteSets, Functions

CONSTANTS
    Programs,   \* files: [arena, root], root items with an initializer or 0
    Addresses   \* what a SemanticId may be; ordered, as u64 is

\* An expression: its operation, parameters, inferred type and children.
Expressions == [op : STRING, params : STRING, type : STRING, kids : Seq(Nat)]

ASSUME LedgerAssumption ==
    /\ Addresses \subseteq Nat
    /\ \A file \in Programs :
          /\ file.arena \in Seq(Expressions)
          /\ \A e \in DOMAIN file.arena : \A k \in DOMAIN file.arena[e].kids :
                file.arena[e].kids[k] \in DOMAIN file.arena
          /\ \A i \in DOMAIN file.root : file.root[i].init \in {0} \cup DOMAIN file.arena

Commutative == {"vsa.bind", "vsa.bundle"}

VARIABLES
    program,  \* the checked file
    next,     \* the arena id the outer loop has reached
    stack,    \* calls of materialize: [expr, inputs so far], innermost last
    nodes,    \* LedgerNodes in order: [id, content, sources]
    exprIds,  \* expr_ids: the address of each materialized expression
    result    \* building, built, cycle or collision

vars == <<program, next, stack, nodes, exprIds, result>>

Arena == program.arena
Exprs == DOMAIN Arena

Top == stack[Len(stack)]
Pop == SubSeq(stack, 1, Len(stack) - 1)

Known(e) == e \in DOMAIN exprIds
Active(e) == \E k \in DOMAIN stack : stack[k].expr = e

\* sort_unstable over the addresses: one order for operands that commute.
SortingOrder(s) ==
    CHOOSE m \in Injection(DOMAIN s, DOMAIN s) :
        \A j, k \in DOMAIN s : j < k => s[m[j]] <= s[m[k]]

Sorted(s) == [k \in DOMAIN s |-> s[SortingOrder(s)[k]]]

\* Mutant: the inferred type is not part of the content.
UntypedContent(e, inputs) ==
    [op |-> Arena[e].op, params |-> Arena[e].params, type |-> "unknown",
     inputs |-> IF Arena[e].op \in Commutative THEN Sorted(inputs) ELSE inputs]

\* canonical_payload: operation, type, parameters and inputs, each delimited.
Content(e, inputs) ==
    [op |-> Arena[e].op, params |-> Arena[e].params, type |-> Arena[e].type,
     inputs |-> IF Arena[e].op \in Commutative THEN Sorted(inputs) ELSE inputs]

\* payloads and positions of the builder, read off the nodes.
NodeAt(a) == CHOOSE k \in DOMAIN nodes : nodes[k].id = a
Taken(a) == \E k \in DOMAIN nodes : nodes[k].id = a

\* stable_hash: the same content always has the same address.
AddressesOf(content) ==
    LET seen == {k \in DOMAIN nodes : nodes[k].content = content}
    IN  IF seen # {} THEN {nodes[k].id : k \in seen} ELSE Addresses

-----------------------------------------------------------------------------
Call(e) == stack' = Append(stack, [expr |-> e, inputs |-> <<>>])

\* The loop of build, over the arena in order.
Begin ==
    /\ result = "building" /\ stack = <<>> /\ next \in Exprs /\ ~Known(next)
    /\ Call(next)
    /\ UNCHANGED <<program, next, nodes, exprIds, result>>

Advance ==
    /\ result = "building" /\ stack = <<>> /\ next \in Exprs /\ Known(next)
    /\ next' = next + 1
    /\ UNCHANGED <<program, stack, nodes, exprIds, result>>

\* Mutant: the last expression of the arena is left out.
FinishEarly ==
    /\ result = "building" /\ stack = <<>> /\ next + 1 \notin Exprs
    /\ result' = "built"
    /\ UNCHANGED <<program, next, stack, nodes, exprIds>>

Finish ==
    /\ result = "building" /\ stack = <<>> /\ next \notin Exprs
    /\ result' = "built"
    /\ UNCHANGED <<program, next, stack, nodes, exprIds>>

\* Inside materialize: the next child of the innermost call.
Waiting == result = "building" /\ stack # <<>> /\ Len(Top.inputs) < Len(Arena[Top.expr].kids)
Child == Arena[Top.expr].kids[Len(Top.inputs) + 1]

CollectChild ==
    /\ Waiting /\ Known(Child)
    /\ stack' = Append(Pop, [Top EXCEPT !.inputs = Append(@, exprIds[Child])])
    /\ UNCHANGED <<program, next, nodes, exprIds, result>>

EnterChild ==
    /\ Waiting /\ ~Known(Child) /\ ~Active(Child)
    /\ Call(Child)
    /\ UNCHANGED <<program, next, nodes, exprIds, result>>

CycleFound ==
    /\ Waiting /\ ~Known(Child) /\ Active(Child)
    /\ result' = "cycle"
    /\ UNCHANGED <<program, next, stack, nodes, exprIds>>

-----------------------------------------------------------------------------
\* With its inputs complete an expression joins the node of its address.
Complete == result = "building" /\ stack # <<>> /\ Len(Top.inputs) = Len(Arena[Top.expr].kids)

Return(a) ==
    /\ exprIds' = [e \in DOMAIN exprIds \cup {Top.expr} |-> IF e = Top.expr THEN a ELSE exprIds[e]]
    /\ stack' = Pop

Merge(a, content) ==
    /\ Taken(a) /\ nodes[NodeAt(a)].content = content
    /\ nodes' = [nodes EXCEPT ![NodeAt(a)].sources = Append(@, Top.expr)]
    /\ Return(a)
    /\ UNCHANGED <<program, next, result>>

\* Mutant: the newcomer's content replaces the one it collides with.
CollisionOverwrites(a, content) ==
    /\ Taken(a) /\ nodes[NodeAt(a)].content # content
    /\ nodes' = [nodes EXCEPT ![NodeAt(a)].content = content]
    /\ Return(a)
    /\ UNCHANGED <<program, next, result>>

Collision(a, content) ==
    /\ Taken(a) /\ nodes[NodeAt(a)].content # content
    /\ result' = "collision"
    /\ UNCHANGED <<program, next, stack, nodes, exprIds>>

Add(a, content) ==
    /\ ~Taken(a)
    /\ nodes' = Append(nodes, [id |-> a, content |-> content, sources |-> <<Top.expr>>])
    /\ Return(a)
    /\ UNCHANGED <<program, next, result>>

Intern ==
    /\ Complete
    /\ LET content == Content(Top.expr, Top.inputs)
       IN  \E a \in AddressesOf(content) :
              Merge(a, content) \/ Collision(a, content) \/ Add(a, content)

-----------------------------------------------------------------------------
Init ==
    /\ program \in Programs
    /\ next = 1 /\ stack = <<>> /\ nodes = <<>> /\ exprIds = <<>>
    /\ result = "building"

Next == Begin \/ Advance \/ CollectChild \/ EnterChild \/ CycleFound \/ Intern \/ Finish

Spec == Init /\ [][Next]_vars

-----------------------------------------------------------------------------
Contents == [op : STRING, params : STRING, type : STRING, inputs : Seq(Addresses)]

TypeOK ==
    /\ program \in Programs
    /\ next \in 1 .. Len(Arena) + 1
    /\ stack \in Seq([expr : Exprs, inputs : Seq(Addresses)])
    /\ nodes \in Seq([id : Addresses, content : Contents, sources : Seq(Exprs)])
    /\ DOMAIN exprIds \subseteq Exprs
    /\ exprIds \in [DOMAIN exprIds -> Addresses]
    /\ result \in {"building", "built", "cycle", "collision"}

\* The addresses of an expression's children, in order.
InputsOf(e) == [k \in DOMAIN Arena[e].kids |-> exprIds[Arena[e].kids[k]]]

\* Collision-checked: whatever the hash does, the node at an expression's
\* address has exactly that expression's content.
Addressed ==
    \A e \in DOMAIN exprIds :
        /\ \A k \in DOMAIN Arena[e].kids : Known(Arena[e].kids[k])
        /\ \E n \in DOMAIN nodes :
              nodes[n].id = exprIds[e] /\ nodes[n].content = Content(e, InputsOf(e))

\* Same meaning, read off the tree with no addresses: operation, parameters
\* and type agree, and so do the children, in some order where it commutes.
Alike ==
    LET alike[pair \in Exprs \X Exprs] ==
            LET left == Arena[pair[1]]
                right == Arena[pair[2]]
                d == left.kids
                g == right.kids
            IN  /\ [left EXCEPT !.kids = <<>>] = [right EXCEPT !.kids = <<>>]
                /\ Len(d) = Len(g)
                /\ \/ \A k \in DOMAIN d : alike[<<d[k], g[k]>>]
                   \/ /\ left.op \in Commutative
                      /\ \E m \in [DOMAIN d -> DOMAIN d] :
                            /\ \A j, k \in DOMAIN d : m[j] = m[k] => j = k
                            /\ \A k \in DOMAIN d : alike[<<d[k], g[m[k]]>>]
    IN  alike

\* "rejects a collision rather than silently merging distinct nodes": once
\* built, two expressions share an address exactly when they mean the same.
NoSilentMerge ==
    result = "built" => \A e, f \in Exprs : exprIds[e] = exprIds[f] <=> Alike[<<e, f>>]

\* A node comes after its inputs, so nothing that walks the ledger can cycle.
InputsFirst ==
    \A n \in DOMAIN nodes : \A k \in DOMAIN nodes[n].content.inputs :
        \E m \in 1 .. n - 1 : nodes[m].id = nodes[n].content.inputs[k]

\* Following children from some expressions never leaves them, nor ends.
Cyclic ==
    \E S \in (SUBSET Exprs) \ {{}} :
        \A e \in S : \E k \in DOMAIN Arena[e].kids : Arena[e].kids[k] \in S

\* A verdict of build is true of the file: a built ledger covers the arena,
\* and BuildError::Cycle is reported only of a file that has one.
BuildVerdict ==
    /\ result = "built" => DOMAIN exprIds = Exprs /\ ~Cyclic
    /\ result = "cycle" => Cyclic
=============================================================================
