---------------------------- MODULE RalyResolve ----------------------------
(* Name resolution of one file (raly-resolve): the resolver walks the file   *)
(* one statement per step, with a stack of scopes.                           *)
EXTENDS Integers, SequencesExt

CONSTANTS
    Names,     \* the identifiers of the file
    Roots,     \* the files: sequences of items
    Bodies,    \* what a function or an inner block may hold: sequences of statements
    MaxDepth,  \* bound: scopes open at a time
    None

(* Items:      [k |-> "space", name, value, eff], [k |-> "role", name, in],  *)
(*             [k |-> "alias", name, to], [k |-> "fn", name, param] and, at  *)
(*             the root, [k |-> "let", name, ann, value, wrong].             *)
(* Statements: items, [k |-> "let", ...], [k |-> "use", name], [k |-> "block"]. *)
(* A value (an initialiser, a dimension, or None) is [op, of]: operands [name, *)
(* lit], one with op "none", else two.  wrong says that it also holds a      *)
(* mistake the checker reports.  to is a sequence of type names.             *)

\* A text: its statements, and the names they declare and use.
DefKinds == {"space", "role", "alias", "fn", "let", "param"}
IsText(stmts) ==
    /\ stmts \in Seq(ToSet(stmts))
    /\ \A i \in DOMAIN stmts :
          LET s == stmts[i]
          IN  /\ s.k \in {"space", "role", "alias", "fn", "let", "use", "block"}
              /\ s.k \in DefKinds \cup {"use"} => s.name \in Names
              /\ s.k = "fn" => s.param \in Names
              /\ s.k = "role" => s.in \in Names
              /\ s.k = "alias" => s.to \in Seq(Names) \ {<<>>}
              /\ s.k \in {"let", "space"} /\ s.value # None =>
                    /\ DOMAIN s.value.of = 1 .. Len(s.value.of)
                    /\ \A x \in DOMAIN s.value.of : s.value.of[x].name \in Names \cup {None}

ASSUME ResolveAssumption ==
    /\ None \notin Names \cup Nat \cup [kind : DefKinds, level : Nat, at : Nat]
    /\ \A stmts \in Roots \cup Bodies : IsText(stmts)

VARIABLES
    frames,   \* the text of the open scopes: [stmts, pos]
    scopes,   \* what the resolver keeps of each: [names, pending]
    used,     \* the first name the last step looked up: [ns, name, level, at, def, code]
    refs,     \* root item -> the definitions its names resolved to
    spaceOf   \* root role item -> the definition of its space

resolverVars == <<frames, scopes, used, refs, spaceOf>>
-----------------------------------------------------------------------------
(* A definition is the statement that introduced it.                         *)
Def(kind, level, at) == [kind |-> kind, level |-> level, at |-> at]
ErrorDef == Def("error", 0, 0)
Builtin == Def("builtin", 0, 0)
BuiltinNames == {"Int"}

\* A space is both a type and a value.
Namespaces(s) == IF s.k = "space" THEN {"type", "value"}
                 ELSE IF s.k = "alias" THEN {"type"} ELSE {"value"}
IsItem(s, level) == s.k \in {"space", "role", "alias", "fn"} \/ (s.k = "let" /\ level = 1)
Declares(s) == s.k \in DefKinds

NewScope == [names |-> [x \in {"type", "value"} \X Names |-> None],
             pending |-> [n \in Names |-> None]]
NoLookup == [ns |-> "value", name |-> None, level |-> 0, at |-> 0, def |-> ErrorDef, code |-> "ok"]

\* The innermost scope that has it.
Innermost(sc, Has(_)) == SelectLastInSubSeq(sc, 1, Len(sc), Has)
Lookup(sc, ns, n) ==
    LET l == Innermost(sc, LAMBDA s : s.names[<<ns, n>>] # None)
    IN  IF l = 0 THEN None ELSE sc[l].names[<<ns, n>>]
Pending(sc, n) == Innermost(sc, LAMBDA s : s.pending[n] # None) # 0

LookupValue(sc, n) ==
    LET d == Lookup(sc, "value", n)
    IN  IF d # None THEN [def |-> d, code |-> "ok"]
        ELSE [def |-> ErrorDef,
              code |-> IF Pending(sc, n) THEN "UseBeforeDefinition" ELSE "UnresolvedName"]

LookupType(sc, n) ==
    LET d == Lookup(sc, "type", n)
    IN  IF d # None THEN [def |-> d, code |-> "ok"]
        ELSE IF n \in BuiltinNames THEN [def |-> Builtin, code |-> "ok"]
        ELSE [def |-> ErrorDef, code |-> "UnresolvedType"]

\* Mutant: the last definition of a scope wins.
BindRebinds(sc, ns, n, d) == [sc EXCEPT ![Len(sc)].names[<<ns, n>>] = d]

\* bind: the first definition is kept.
Bind(sc, ns, n, d) ==
    IF Last(sc).names[<<ns, n>>] # None THEN sc
    ELSE [sc EXCEPT ![Len(sc)].names[<<ns, n>>] = d]

BindBoth(sc, s, d) ==
    LET inType == IF "type" \in Namespaces(s) THEN Bind(sc, "type", s.name, d) ELSE sc
    IN  IF "value" \in Namespaces(s) THEN Bind(inType, "value", s.name, d) ELSE inType

\* resolve_role_space, while the items of its scope are still being declared.
RoleSpace(sc, s) ==
    LET found == LookupType(sc, s.in)
    IN  IF found.def.kind \in {"space", "error"} THEN found.def ELSE ErrorDef

\* declare_items: every item of the scope, in order, before any body.
Declared(acc, s, level, i) ==
    IF ~IsItem(s, level) THEN [acc EXCEPT !.spaceOf = Append(@, None)]
    ELSE [sc |-> BindBoth(acc.sc, s, Def(s.k, level, i)),
          spaceOf |-> Append(acc.spaceOf, IF s.k = "role" THEN RoleSpace(acc.sc, s) ELSE None)]
DeclareItems(sc, stmts) ==
    LET after[i \in 0 .. Len(stmts)] ==
            IF i = 0 THEN [sc |-> sc, spaceOf |-> <<>>]
            ELSE Declared(after[i - 1], stmts[i], Len(sc), i)
    IN  after[Len(stmts)]

\* resolve_block: a scope, its items, and the lets that are still to come.
OpenBlock(sc, stmts) ==
    LET declared == DeclareItems(Append(sc, NewScope), stmts).sc
        First(n) == SelectInSeq(stmts, LAMBDA s : s.k = "let" /\ s.name = n)
    IN  [declared EXCEPT ![Len(declared)].pending =
            [n \in Names |-> IF First(n) = 0 THEN None ELSE First(n)]]
-----------------------------------------------------------------------------
Root == frames[1].stmts
Top == Len(frames)
Here == frames[Top].pos
Stmt == frames[Top].stmts[Here]
Resolving == frames[1].pos <= Len(Root) \/ Top > 1

ResolveInit ==
    /\ \E root \in Roots :
          LET d == DeclareItems(<<NewScope>>, root)
          IN  /\ frames = <<[stmts |-> root, pos |-> 1]>>
              /\ scopes = d.sc
              /\ spaceOf = d.spaceOf
              /\ refs = [i \in DOMAIN root |-> <<>>]
    /\ used = NoLookup

Looked(ns, n, found) ==
    used' = [ns |-> ns, name |-> n, level |-> Top, at |-> Here,
             def |-> found.def, code |-> found.code]
Advance == frames' = [frames EXCEPT ![Top].pos = @ + 1]
Record(defs) == refs' = IF Top = 1 THEN [refs EXCEPT ![Here] = defs] ELSE refs

\* The operands of a statement's value: an initialiser, a dimension, a bare use.
ValueOf(s) == CASE s.k \in {"let", "space"} -> IF s.value = None THEN <<>> ELSE s.value.of
                [] s.k = "use" -> <<[name |-> s.name, lit |-> 0]>>
                [] OTHER -> <<>>
\* Each is looked up in turn; a literal is no lookup.
LookedUp(s) ==
    [x \in DOMAIN ValueOf(s) |-> IF ValueOf(s)[x].name = None THEN None
                                 ELSE LookupValue(scopes, ValueOf(s)[x].name)]
UseOf(s) ==
    LET named == {x \in DOMAIN ValueOf(s) : ValueOf(s)[x].name # None}
        x == CHOOSE y \in named : \A z \in named : y <= z
    IN  IF named = {} THEN used' = NoLookup ELSE Looked("value", ValueOf(s)[x].name, LookedUp(s)[x])

\* A use, a dimension, or a module constant; nothing is bound by it now.
ResolveUse ==
    /\ Resolving /\ Here <= Len(frames[Top].stmts)
    /\ Stmt.k \in {"use", "space", "role"} \/ (Stmt.k = "let" /\ Top = 1)
    /\ UseOf(Stmt)
    /\ LET found == LookedUp(Stmt)
       IN  Record([x \in DOMAIN found |-> IF found[x] = None THEN None ELSE found[x].def])
    /\ Advance
    /\ UNCHANGED <<scopes, spaceOf>>

ResolveAlias ==
    /\ Resolving /\ Here <= Len(frames[Top].stmts)
    /\ Stmt.k = "alias"
    /\ Looked("type", Head(Stmt.to), LookupType(scopes, Head(Stmt.to)))
    /\ Record([i \in DOMAIN Stmt.to |-> LookupType(scopes, Stmt.to[i]).def])
    /\ Advance
    /\ UNCHANGED <<scopes, spaceOf>>

\* resolve_local_let: the initialiser first, then the name.
ResolveLet ==
    /\ Resolving /\ Here <= Len(frames[Top].stmts)
    /\ Stmt.k = "let" /\ Top > 1
    /\ UseOf(Stmt)
    /\ scopes' = Bind([scopes EXCEPT ![Top].pending[Stmt.name] = None],
                      "value", Stmt.name, Def("let", Top, Here))
    /\ Advance
    /\ UNCHANGED <<refs, spaceOf>>

\* A function opens a scope for its parameter and one for its body.
EnterFn(body) ==
    /\ Resolving /\ Here <= Len(frames[Top].stmts)
    /\ Stmt.k = "fn" /\ Top + 2 <= MaxDepth
    /\ LET withParam == Bind(Append(scopes, NewScope), "value", Stmt.param,
                             Def("param", Top + 1, 1))
       IN  scopes' = OpenBlock(withParam, body)
    /\ frames' = [frames EXCEPT ![Top].pos = @ + 1]
                 \o <<[stmts |-> <<[k |-> "param", name |-> Stmt.param]>>, pos |-> 2],
                      [stmts |-> body, pos |-> 1]>>
    /\ used' = NoLookup
    /\ UNCHANGED <<refs, spaceOf>>

EnterBlock(body) ==
    /\ Resolving /\ Here <= Len(frames[Top].stmts)
    /\ Stmt.k = "block" /\ Top + 1 <= MaxDepth
    /\ scopes' = OpenBlock(scopes, body)
    /\ frames' = Append([frames EXCEPT ![Top].pos = @ + 1], [stmts |-> body, pos |-> 1])
    /\ used' = NoLookup
    /\ UNCHANGED <<refs, spaceOf>>

Leave ==
    /\ Top > 1 /\ Here > Len(frames[Top].stmts)
    /\ frames' = Front(frames)
    /\ scopes' = Front(scopes)
    /\ used' = NoLookup
    /\ UNCHANGED <<refs, spaceOf>>

ResolveNext ==
    \/ ResolveUse
    \/ ResolveAlias
    \/ ResolveLet
    \/ \E body \in Bodies : EnterFn(body) \/ EnterBlock(body)
    \/ Leave

ResolveSpec == ResolveInit /\ [][ResolveNext]_resolverVars
-----------------------------------------------------------------------------
(* What the text of the open scopes says, without any table.                 *)

\* The statements of level l that declare n and are visible from statement at
\* of level top: an item wherever it stands, a local once it has been passed.
Visible(l, ns, n, top, at) ==
    {i \in DOMAIN frames[l].stmts :
        LET s == frames[l].stmts[i]
        IN  /\ Declares(s) /\ s.name = n /\ ns \in Namespaces(s)
            /\ \/ IsItem(s, l) \/ s.k = "param"
               \/ i < (IF l = top THEN at ELSE frames[l].pos - 1)}

Items(l, S) == {i \in S : IsItem(frames[l].stmts[i], l)}
Least(S) == CHOOSE i \in S : \A j \in S : i <= j

\* The definition n has at a place: in the innermost scope that shows one, its
\* first item, else its first local.
Lexical(ns, n, top, at) ==
    LET levels == {l \in 1 .. top : Visible(l, ns, n, top, at) # {}}
        l == CHOOSE x \in levels : \A y \in levels : y <= x
        S == Visible(l, ns, n, top, at)
        i == IF Items(l, S) # {} THEN Least(Items(l, S)) ELSE Least(S)
    IN  IF levels = {} THEN ErrorDef ELSE Def(frames[l].stmts[i].k, l, i)

\* Is a local of this name still to come in a scope that is open?
Later(n, top, at) ==
    \E l \in 2 .. top : \E i \in DOMAIN frames[l].stmts :
        /\ frames[l].stmts[i].k = "let" /\ frames[l].stmts[i].name = n
        /\ i >= (IF l = top THEN at ELSE frames[l].pos)

\* Every name means what the text says: hoisted items, locals after their let,
\* the innermost first; "before its definition" is said exactly of a name that
\* has none yet and a let further down.
NamesAreLexical ==
    (used.name # None /\ used.level <= Top) =>
        /\ LET want == Lexical(used.ns, used.name, used.level, used.at)
           IN  used.def = IF want = ErrorDef /\ used.ns = "type" /\ used.name \in BuiltinNames
                          THEN Builtin ELSE want
        /\ used.ns = "value" =>
             (used.code = "UseBeforeDefinition")
                 = (used.def = ErrorDef /\ Later(used.name, used.level, used.at))

\* "Items are hoisted: every item in a scope is visible throughout it, so ... a
\* space may be used above its declaration": a role has the space its
\* declaration names.
RoleSpacesHoisted ==
    \A i \in DOMAIN Root : Root[i].k = "role" =>
        spaceOf[i] = Lexical("type", Root[i].in, 1, 1)
=============================================================================
