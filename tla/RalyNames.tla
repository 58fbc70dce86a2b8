----------------------------- MODULE RalyNames -----------------------------
(* The checker's demand-driven typing of a resolved module's definitions     *)
(* (raly-types): one item per step, memoising what it computes.              *)
EXTENDS RalyResolve

VARIABLES
    checked,  \* root items the checker has checked
    memo      \* the checker's caches and its reports

vars == <<resolverVars, checked, memo>>

NewMemo(root) ==
    [types |-> [i \in DOMAIN root |-> None],       \* def_types
     cache |-> {},                                \* type_cache: [node, ty]
     progress |-> {},                             \* in_progress
     stack |-> {},                                \* alias_stack
     cycles |-> {},                               \* aliases RECURSIVE_TYPE names
     mistakes |-> [i \in DOMAIN root |-> 0],       \* reports of an item's own mistake
     items |-> [i \in DOMAIN root |-> None]]       \* item_types

-----------------------------------------------------------------------------
(* The checker.  A type is [k |-> "int" | "space" | "sym" | "fn" | "error"]  *)
(* or a tuple of types; each operator returns the type and the memo after it. *)

Ty(k) == [k |-> k]
Is(ty, m) == [ty |-> ty, m |-> m]

\* lower_type: type expressions are cached by node, an alias's target as 0 and
\* its elements from 1; lower_alias keeps the aliases being expanded.
Cached(m, node) == \E c \in m.cache : c.node = node
Put(r, node) ==
    Is(r.ty, [r.m EXCEPT !.cache = {c \in @ : c.node # node} \cup {[node |-> node, ty |-> r.ty]}])

\* Mutant: the cycle is an error no one is told of.
CycleUnreported(d, m) == Is(Ty("error"), m)
CycleFound(d, m) == Is(Ty("error"), [m EXCEPT !.cycles = @ \cup {d.at}])

RECURSIVE LowerName(_, _, _), LowerTarget(_, _)
LowerName(i, x, m) ==
    IF Cached(m, <<i, x>>) THEN Is((CHOOSE c \in m.cache : c.node = <<i, x>>).ty, m)
    ELSE LET d == refs[i][x]
             r == IF d.kind = "builtin" THEN Is(Ty("int"), m)
                  ELSE IF d.kind # "alias" THEN Is(Ty(d.kind), m)
                  ELSE IF d.at \in m.stack THEN CycleFound(d, m)
                  ELSE LET inner == LowerTarget(d.at, [m EXCEPT !.stack = @ \cup {d.at}])
                       IN  Is(inner.ty, [inner.m EXCEPT !.stack = m.stack])
         IN  Put(r, <<i, x>>)
LowerTarget(i, m) ==
    IF Len(refs[i]) = 1 THEN LowerName(i, 1, m)
    ELSE IF Cached(m, <<i, 0>>) THEN Is((CHOOSE c \in m.cache : c.node = <<i, 0>>).ty, m)
    ELSE LET Element(acc, x) ==
                 LET r == LowerName(i, x, acc.m) IN [of |-> Append(acc.of, r.ty), m |-> r.m]
             all == FoldLeft(Element, [of |-> <<>>, m |-> m], [x \in DOMAIN refs[i] |-> x])
         IN  Put(Is([k |-> "tuple", of |-> all.of], all.m), <<i, 0>>)

\* Mutant: a constant whose type is known is not inferred again.
ReportedQuiet(m, i) ==
    IF Root[i].wrong /\ m.types[i] # None THEN [m EXCEPT !.mistakes[i] = @ + 1] ELSE m
Reported(m, i) == IF Root[i].wrong THEN [m EXCEPT !.mistakes[i] = @ + 1] ELSE m

\* def_type, module_constant_type and infer of an initialiser, whose operands
\* are inferred from left to right; arithmetic is Int.
RECURSIVE DefType(_, _), Infer(_, _)
DefType(d, m) ==
    IF d.kind = "error" THEN Is(Ty("error"), m)
    ELSE IF m.types[d.at] # None THEN Is(m.types[d.at], m)
    ELSE IF d.at \in m.progress THEN Is(Ty("error"), m)
    ELSE LET busy == [m EXCEPT !.progress = @ \cup {d.at}]
             r == CASE d.kind = "let" ->
                         IF Root[d.at].ann # None THEN Is(Ty("int"), busy) ELSE Infer(d.at, busy)
                    [] d.kind = "role" -> Is(Ty("sym"), busy)
                    [] OTHER -> Is(Ty(d.kind), busy)
         IN  Is(r.ty, [r.m EXCEPT !.progress = m.progress, !.types[d.at] = r.ty])
Infer(i, m) ==
    LET Operand(acc, d) == IF d = None THEN Is(Ty("int"), acc.m) ELSE DefType(d, acc.m)
        r == FoldLeft(Operand, Is(Ty("error"), m), refs[i])
    IN  Is(IF Root[i].value.op = "none" THEN r.ty ELSE Ty("int"), Reported(r.m, i))

\* check_item: an alias is expanded, a let's initialiser inferred (again, if
\* another definition asked for its type), and an annotation wins.
CheckItem ==
    /\ ~Resolving /\ checked < Len(Root)
    /\ LET i == checked + 1
           r == CASE Root[i].k = "alias" -> LowerTarget(i, memo)
                  [] Root[i].k = "let" -> Infer(i, memo)
                  [] OTHER -> Is(None, memo)
           ty == IF Root[i].k = "let" /\ Root[i].ann # None THEN Ty("int") ELSE r.ty
       IN  /\ memo' = [r.m EXCEPT !.items[i] = ty]
           /\ checked' = i
    /\ used' = NoLookup
    /\ UNCHANGED <<frames, scopes, refs, spaceOf>>

Init == ResolveInit /\ memo = NewMemo(Root) /\ checked = 0
Next ==
    \/ ResolveNext /\ UNCHANGED <<checked, memo>>
    \/ CheckItem

Spec == Init /\ [][Next]_vars
-----------------------------------------------------------------------------
Done == checked = Len(Root)

RECURSIVE Reaches(_, _)
Reaches(i, n) ==   \* the aliases n expansions away from alias i
    IF n = 0 THEN {i}
    ELSE UNION {{refs[j][x].at : x \in {y \in DOMAIN refs[j] : refs[j][y].kind = "alias"}} :
                j \in Reaches(i, n - 1)}

Expansions(i) == UNION {Reaches(i, n) : n \in 1 .. Len(Root)}
OnCycle(i) == i \in Expansions(i)

RECURSIVE HasError(_)
HasError(ty) ==
    \/ ty.k = "error"
    \/ ty.k = "tuple" /\ \E x \in DOMAIN ty.of : HasError(ty.of[x])

\* An alias has an error in its expansion exactly when it runs into a cycle or
\* an unresolved name, whatever was expanded, and cached, before it; and every
\* cycle is named at least once, nothing else ever.
AliasCyclesFound ==
    Done =>
        LET aliases == {i \in DOMAIN Root : Root[i].k = "alias"}
        IN  /\ \A i \in aliases :
                  HasError(memo.items[i])
                      = \E j \in Expansions(i) \cup {i} :
                            \/ OnCycle(j)
                            \/ \E x \in DOMAIN refs[j] : refs[j][x].kind = "error"
            /\ \A i \in memo.cycles : OnCycle(i)
            /\ \A i \in aliases : OnCycle(i) =>
                  \E j \in memo.cycles : j \in Expansions(i)

\* A mistake in a module constant is never lost, whoever asked for the
\* constant's type first and around whatever cycle, and never told more than
\* twice: once by check_item, once by the first use that asks.
MistakesAreTold ==
    Done => \A i \in DOMAIN Root :
        (Root[i].k = "let" /\ Root[i].wrong) =>
            /\ memo.mistakes[i] \in 1 .. 2
            /\ memo.mistakes[i] = 2 =>
                 Root[i].ann = None
                 /\ \E j \in DOMAIN Root : Root[j].k = "let" /\ Def("let", 1, i) \in ToSet(refs[j])
=============================================================================
