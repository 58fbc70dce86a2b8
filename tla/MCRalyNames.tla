---------------------------- MODULE MCRalyNames ----------------------------
(* Files: cycles of aliases, cycles of constants, scopes, and dimensions.    *)
EXTENDS RalyDims

Name(n) == [name |-> n, lit |-> 0]
Number(x) == [name |-> None, lit |-> x]
Value(u) == [op |-> "none", of |-> <<u>>]
Space(n, d) == [k |-> "space", name |-> n, value |-> IF d = None THEN None ELSE Value(Name(d)), eff |-> None]
Role(n, s) == [k |-> "role", name |-> n, in |-> s]
Alias(n, to) == [k |-> "alias", name |-> n, to |-> to]
Let(n, u) == [k |-> "let", name |-> n, ann |-> None, wrong |-> FALSE,
              value |-> Value(IF u = None THEN Number(2) ELSE Name(u))]
Wrong(n, u) == [Let(n, u) EXCEPT !.wrong = TRUE]
Annotated(n, u) == [Wrong(n, u) EXCEPT !.ann = "Int"]
Use(n) == [k |-> "use", name |-> n]
Block == [k |-> "block"]
Fn(n, p) == [k |-> "fn", name |-> n, param |-> p]

\* type a, b, c, each a name or a pair of names.
Targets == {<<"Int">>, <<"a">>, <<"b">>, <<"c">>, <<"b", "Int">>, <<"a", "c">>}
AliasFiles == {<<Alias("a", t), Alias("b", u), Alias("c", v)>> : t, u, v \in Targets}

\* let a, b, c, wrong or annotated, in terms of each other.
Constants(n) == {Let(n, None), Let(n, "a"), Wrong(n, None), Annotated(n, "b")}
                \cup {Wrong(n, m) : m \in {"a", "b", "c"}}
ConstantFiles == {<<x, y, z>> : x \in Constants("a"), y \in Constants("b"), z \in Constants("c")}

\* A space, a role or a constant around a function.
Around == {Space("a", None), Space("b", "a"), Role("a", "b"), Role("b", "a"), Let("a", "b")}
ScopeFiles == {<<x, y, Fn("f", p)>> : x, y \in Around, p \in {"a", "b"}}

\* Two constants in terms of numbers and of each other, and two spaces.
Pairs(n) == {<<Number(2), Number(3)>>, <<Number(2), Name(n)>>, <<Name(n), Number(2)>>,
             <<Name(n), Name(n)>>, <<Number(0), Name(n)>>}
Values(n) ==
    {Value(u) : u \in {Number(1), Number(3), Name(n)}}
    \cup {[op |-> o, of |-> p] : o \in {"mul", "div", "add", "sub"}, p \in Pairs(n)}
Dim(o, u, v) == [Space("c", None) EXCEPT !.value = [op |-> o, of |-> <<u, v>>]]
Bounded(e) == [Space("c", "a") EXCEPT !.eff = e]
DimSpaces ==
    {Space("c", "a"), [Space("c", None) EXCEPT !.value = Value(Number(10))],
     Dim("mul", Name("a"), Name("a")), Dim("sub", Name("a"), Name("b")),
     Bounded(Value(Number(4))), Bounded(Value(Number(6))),
     Bounded([op |-> "div", of |-> <<Number(4), Number(2)>>])}
DimFiles ==
    {<<s, [Let("a", None) EXCEPT !.value = v], [Let("b", None) EXCEPT !.value = w], Space("f", "b")>> :
       s \in DimSpaces, v \in Values("b"), w \in Values("a")}

SomeFiles == AliasFiles \cup ConstantFiles \cup ScopeFiles \cup DimFiles

Statements == {Let("a", "a"), Let("a", "b"), Let("b", "a"), Use("a"), Use("b"),
               Space("a", "b"), Role("b", "a"), Block}
SomeBodies == {<<x, y>> : x, y \in Statements}
                \cup {<<x, Block, z>> : x \in {Let("b", "a"), Let("a", None)},
                                         z \in {Let("a", "b"), Use("b")}}
=============================================================================
