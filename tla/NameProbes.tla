----------------------------- MODULE NameProbes -----------------------------
(* The probes about what a name means: scopes (37), recursive groups (38),   *)
(* overloads (39) and module libraries (61).                                 *)
EXTENDS Probes

(* A dictionary keyed by scope and name, last entry wins, searched outwards. *)
Here(entries, s, n) == {i \in DOMAIN entries : entries[i].scope = s /\ entries[i].name = n}
Nowhere == [binder |-> None]
RECURSIVE Outwards(_, _, _, _)
Outwards(entries, parent, s, n) ==
    IF Here(entries, s, n) # {} THEN entries[Max(Here(entries, s, n))]
    ELSE IF s \in DOMAIN parent THEN Outwards(entries, parent, parent[s], n) ELSE Nowhere
-----------------------------------------------------------------------------
(* 37: scoped bindings.                                                      *)

Binding(b, s, n, t) == [binder |-> b, scope |-> s, name |-> n, type |-> t]
Reference(s, n) == [scope |-> s, name |-> n]
ScopedBase ==
    [bindings |-> <<Binding(0, 0, "x", "List[Int]"), Binding(1, 1, "x", "Int"),
                    Binding(2, 1, "y", "Bool"), Binding(3, 2, "z", "String")>>,
     references |-> <<Reference(0, "x"), Reference(1, "x"), Reference(1, "y"),
                      Reference(2, "x"), Reference(2, "z")>>,
     parent |-> [s \in {1, 2} |-> s - 1]]

Resolved(p, r) == Outwards(p.bindings, p.parent, r.scope, r.name)

Expected(p) == [i \in DOMAIN p.references |-> Resolved(p, p.references[i]).binder]

TypedReference(found) == IF found = Nowhere THEN <<None, "none">> ELSE <<found.binder, found.type>>
ScopedTypedLedger(p) == [i \in DOMAIN p.references |-> TypedReference(Resolved(p, p.references[i]))]

(* Any scope's binding of the name: the first, and the last.                 *)
Named(p, n) == {i \in DOMAIN p.bindings : p.bindings[i].name = n}
PositionSequence(p) ==
    [i \in DOMAIN p.references |->
        LET named == Named(p, p.references[i].name)
        IN  IF named = {} THEN None ELSE p.bindings[Min(named)].binder]
FlatNameMap(p) ==
    [i \in DOMAIN p.references |->
        LET named == Named(p, p.references[i].name)
        IN  IF named = {} THEN None ELSE p.bindings[Max(named)].binder]

(* Names no binding has yet, one for each binder.                            *)
Fresh == <<"v0", "v1", "v2", "v3", "v4", "v5">>
AlphaRename(p) ==
    [p EXCEPT
        !.bindings = [i \in DOMAIN @ |-> [@[i] EXCEPT !.name = Fresh[p.bindings[i].binder + 1]]],
        !.references = [i \in DOMAIN @ |->
            IF Expected(p)[i] = None THEN @[i]
            ELSE [@[i] EXCEPT !.name = Fresh[Expected(p)[i] + 1]]]]

BindingChange(p) ==
    [p EXCEPT
        !.bindings = [i \in DOMAIN @ |->
            IF @[i].binder = 0 THEN [@[i] EXCEPT !.name = "outer_x"] ELSE @[i]],
        !.references[1] = Reference(0, "outer_x"),
        !.references[4] = Reference(2, "outer_x")]

PlaceboScope(p) == [p EXCEPT !.bindings = Append(@, Binding(4, 3, "x", "Bytes"))]

ScopedEdits(p) ==
    Edited("alpha_rename", {AlphaRename(p)})
    \cup Edited("reorder", {[p EXCEPT !.bindings = b] : b \in Shuffles(p.bindings)})
    \cup Edited("binding_change", {BindingChange(p)})
    \cup Edited("placebo", {PlaceboScope(p)})

ScopedOk(arch, label, base, p) ==
    LET target == IF label = "binding_change" THEN Expected(BindingChange(base)) ELSE Expected(base)
        typeOf(b) == p.bindings[CHOOSE i \in DOMAIN p.bindings : p.bindings[i].binder = b].type
    IN  CASE arch = "position_sequence"   -> PositionSequence(p) = target
          [] arch = "flat_name_map"       -> FlatNameMap(p) = target
          [] arch = "scoped_name_map"     -> Expected(p) = target
          [] arch = "scoped_typed_ledger" ->
                ScopedTypedLedger(p) = [i \in DOMAIN target |-> <<target[i], typeOf(target[i])>>]
-----------------------------------------------------------------------------
(* 38: recursive groups.                                                     *)

Definition(b, s, n, g) == [binder |-> b, scope |-> s, name |-> n, group |-> g]
From(b, n) == [origin |-> b, name |-> n]
GroupBase ==
    [definitions |-> <<Definition(0, 0, "f", 1), Definition(1, 0, "g", 1), Definition(2, 0, "h", 0)>>,
     references |-> <<From(0, "f"), From(0, "g"), From(1, "f"), From(2, "f")>>,
     parent |-> <<>>]

LookupScope(p, s, n) == Outwards(p.definitions, p.parent, s, n)
Position(p, b) == CHOOSE i \in DOMAIN p.definitions : p.definitions[i].binder = b
Prior(p, target, origin) == Position(p, target.binder) < Position(p, origin.binder)

\* Mutant: any group, zero included, licenses a forward reference.
LegalInAnyGroup(p, policy, origin, target) ==
    Prior(p, target, origin) \/ origin.group = target.group
Legal(p, policy, origin, target) ==
    \/ policy = "scope_name_map"
    \/ Prior(p, target, origin)
    \/ policy = "recursive_group_ledger" /\ origin.group # 0 /\ origin.group = target.group

GroupResult(p, policy) ==
    [i \in DOMAIN p.references |->
        LET origin == p.definitions[Position(p, p.references[i].origin)]
            target == LookupScope(p, origin.scope, p.references[i].name)
        IN  IF target = Nowhere THEN <<None, FALSE>>
            ELSE <<target.binder, Legal(p, policy, origin, target)>>]

FirstNamed(p, n) ==
    p.definitions[Min({i \in DOMAIN p.definitions : p.definitions[i].name = n})].binder
RenameGroup(p) ==
    [p EXCEPT
        !.definitions = [i \in DOMAIN @ |-> [@[i] EXCEPT !.name = Fresh[p.definitions[i].binder + 1]]],
        !.references = [i \in DOMAIN @ |->
            [@[i] EXCEPT !.name = Fresh[FirstNamed(p, p.references[i].name) + 1]]]]

(* Every definition of another group is dropped.                             *)
OfGroup(p, g) == SelectSeq(p.definitions, LAMBDA d : d.group = g)
ReorderGroup(p) == {[p EXCEPT !.definitions = r \o OfGroup(p, 0)] : r \in Shuffles(OfGroup(p, 1))}

NonrecursiveSelf(p) ==
    [p EXCEPT !.definitions = Append(@, Definition(3, 0, "k", 0)),
              !.references = Append(@, From(3, "k"))]

(* The new scope is its own parent, as the code has it.                      *)
UnreachableGroup(p) ==
    [p EXCEPT !.definitions = @ \o <<Definition(4, 2, "f", 2), Definition(5, 2, "g", 2)>>,
              !.parent = [s \in {2} |-> 2]]

GroupEdits(p) ==
    Edited("alpha_rename", {RenameGroup(p)})
    \cup Edited("group_reorder", ReorderGroup(p))
    \cup Edited("illegal_rejection", {NonrecursiveSelf(p)})
    \cup Edited("placebo", {UnreachableGroup(p)})

GroupOk(arch, label, p) ==
    LET actual == GroupResult(p, arch)
    IN  /\ actual = GroupResult(p, "recursive_group_ledger")
        /\ label = "illegal_rejection" => ~Last(actual)[2]
-----------------------------------------------------------------------------
(* 39: overloads.                                                            *)

Overload(b, s, n, a, r) == [binder |-> b, scope |-> s, symbol |-> n, argument |-> a, result |-> r]
CallOf(n, a, r) == [scope |-> 0, symbol |-> n, argument |-> a, expected |-> r]
OverloadBase ==
    [overloads |-> <<Overload(0, 0, "map", "List[Int]", "List[Int]"), Overload(1, 0, "map", "Text", "Text"),
                     Overload(2, 0, "parse", "Text", "Int"), Overload(3, 0, "parse", "Text", "Bool")>>,
     calls |-> <<CallOf("map", "List[Int]", "List[Int]"), CallOf("map", "Text", "Text"),
                 CallOf("parse", "Text", "Bool"), CallOf("parse", "Text", "Int")>>]

Candidates(p, c, policy) ==
    {i \in DOMAIN p.overloads :
        /\ p.overloads[i].scope = c.scope /\ p.overloads[i].symbol = c.symbol
        /\ policy # "name_only" => p.overloads[i].argument = c.argument
        /\ (policy = "typed_overload_ledger" /\ c.expected # "any")
              => p.overloads[i].result = c.expected}

Chosen(p, c, policy) ==
    LET found == Candidates(p, c, policy)
    IN  IF found = {} \/ (policy = "typed_overload_ledger" /\ Cardinality(found) > 1)
        THEN None ELSE p.overloads[Max(found)].binder
Overloads(p, policy) == [i \in DOMAIN p.calls |-> Chosen(p, p.calls[i], policy)]

Transformed(s) ==
    [i \in DOMAIN s |-> IF s[i].symbol = "map" THEN [s[i] EXCEPT !.symbol = "transform"] ELSE s[i]]
RenameFamily(p) == [overloads |-> Transformed(p.overloads), calls |-> Transformed(p.calls)]
ArgumentEdit(p) == [p EXCEPT !.calls[1].argument = "Text", !.calls[1].expected = "Text"]
AmbiguityEdit(p) == [p EXCEPT !.calls[3].expected = "any"]
OverloadPlacebo(p) == [p EXCEPT !.overloads = Append(@, Overload(4, 1, "map", "List[Int]", "Bytes"))]
OverloadEdits(p) ==
    Edited("family_rename", {RenameFamily(p)})
    \cup Edited("reorder", {[p EXCEPT !.overloads = o] : o \in Shuffles(p.overloads)})
    \cup Edited("argument_edit", {ArgumentEdit(p)})
    \cup Edited("ambiguity_rejection", {AmbiguityEdit(p)})
    \cup Edited("placebo", {OverloadPlacebo(p)})
OverloadOk(arch, p) == Overloads(p, arch) = Overloads(p, "typed_overload_ledger")
-----------------------------------------------------------------------------
(* 61: module libraries.  A digest stands for the module it was taken of.    *)

LibraryModule(n, i, o, impl, pub) ==
    [name |-> n, input |-> i, output |-> o, implementation |-> impl, publisher |-> pub]
TrustedModules ==
    <<LibraryModule("read_ints", "File", "List[Int]", "parse_int_lines_v1", "raly"),
      LibraryModule("sum_ints", "List[Int]", "Int", "sum_checked_v1", "raly")>>
Manifest == ToSet(TrustedModules)
Queries == <<[name |-> "read_ints", input |-> "File", output |-> "List[Int]"],
             [name |-> "sum_ints", input |-> "List[Int]", output |-> "Int"]>>

Matches(m, q, policy) ==
    /\ m.name = q.name
    /\ policy # "name_only" => m.input = q.input /\ m.output = q.output
    /\ policy = "trusted" => m \in Manifest /\ m.publisher = "raly"
ResolveModules(modules, policy) ==
    [i \in DOMAIN Queries |->
        LET found == {k \in DOMAIN modules : Matches(modules[k], Queries[i], policy)}
        IN  IF found = {} THEN "none" ELSE modules[Max(found)].implementation]

PoisonModules(modules) ==
    modules \o <<LibraryModule("sum_ints", "List[Int]", "Int", "sum_then_exfiltrate", "unknown"),
                 LibraryModule("read_ints", "File", "List[Int]", "parse_then_exfiltrate", "unknown")>>
CounterfeitPublisher(modules) ==
    Append(modules, LibraryModule("sum_ints", "List[Int]", "Int", "sum_tampered", "raly"))
LibraryEdits(modules) ==
    Edited("poison_rejection", {PoisonModules(modules)})
    \cup Edited("counterfeit_rejection", {CounterfeitPublisher(modules)})
    \cup Edited("reorder_invariance", Shuffles(modules))
LibraryOk(policy, modules) == ResolveModules(modules, policy) = ResolveModules(modules, "trusted")
=============================================================================
