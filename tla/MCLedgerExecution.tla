------------------------- MODULE MCLedgerExecution -------------------------
(* Files for SemanticLedger and LedgerExecution, with integers of -4 .. 3:   *)
(* small arenas, children first as the parser makes them, and two it never   *)
(* makes, for the builder's own defence.                                     *)
EXTENDS LedgerExecution

Node(op, params, type, kids) == [op |-> op, params |-> params, type |-> type, kids |-> kids]
Lit(text) == Node("literal.int", text, "int", <<>>)
Path(def) == Node("path", def, "int", <<>>)
Let(def, init) == [def |-> def, init |-> init]
Function == Let("f", 0)

Texts == [t \in {"1", "02", "3"} |-> CASE t = "1" -> 1 [] t = "02" -> 2 [] OTHER -> 3]

\* let a = 1 + 1, a function, let b = a - (1 + 1)
Sharing == [arena |-> <<Lit("1"), Lit("1"), Node("binary.+", "", "int", <<1, 2>>), Path("a"),
                        Lit("1"), Node("binary.+", "", "int", <<5, 1>>), Node("binary.-", "", "int", <<4, 6>>)>>,
            root |-> <<Let("a", 3), Function, Let("b", 7)>>]
\* let a = 1, let b = 1, let c = a == b: one node, two bindings
SameRoot == [arena |-> <<Lit("1"), Lit("1"), Path("a"), Path("b"), Node("binary.==", "", "bool", <<3, 4>>)>>,
             root |-> <<Let("a", 1), Let("b", 2), Let("c", 5)>>]
\* let a = 1, let b = 02, let c = 1
Again == [arena |-> <<Lit("1"), Lit("02"), Lit("1")>>, root |-> <<Let("a", 1), Let("b", 2), Let("c", 3)>>]
\* let a = 02, let b = 3 * 02
Overflow == [arena |-> <<Lit("3"), Lit("02"), Node("binary.*", "", "int", <<1, 2>>)>>,
             root |-> <<Let("a", 2), Let("b", 3)>>]
\* let a = [-3 / 02, 02]
Divide == [arena |-> <<Lit("3"), Node("unary.-", "", "int", <<1>>), Lit("02"),
                       Node("binary./", "", "int", <<2, 3>>), Node("list", "", "list:int", <<4, 3>>)>>,
           root |-> <<Let("a", 5)>>]
\* let a = b, let b = 1
Forward == [arena |-> <<Path("b"), Lit("1")>>, root |-> <<Let("a", 1), Let("b", 2)>>]
\* [] at two types
Empties == [arena |-> <<Node("list", "", "list:int", <<>>), Node("list", "", "list:str", <<>>),
                        Node("tuple", "", "tuple", <<1, 2>>), Node("tuple", "", "tuple", <<1, 1>>)>>,
            root |-> <<Let("a", 3)>>]
\* bind(bind(a, b), c) and bind(c, bind(b, a)) in a function's body
Nested == [arena |-> <<Path("a"), Path("b"), Node("vsa.bind", "", "vec", <<1, 2>>), Path("c"),
                       Node("vsa.bind", "", "vec", <<3, 4>>), Path("b"), Path("a"),
                       Node("vsa.bind", "", "vec", <<6, 7>>), Node("vsa.bind", "", "vec", <<4, 8>>)>>,
           root |-> <<Function>>]
\* let v = call f, which nothing executes
Effect == [arena |-> <<Path("f"), Node("call", "", "int", <<1>>)>>, root |-> <<Function, Let("v", 2)>>]
\* A parent before its child, and a cycle of two.
Parents == [arena |-> <<Node("group", "", "int", <<2>>), Node("unary.-", "", "int", <<3>>), Lit("1")>>,
            root |-> <<Let("a", 1)>>]
Loop == [arena |-> <<Lit("1"), Node("tuple", "", "tuple", <<1, 3>>), Node("group", "", "tuple", <<2>>)>>,
         root |-> <<Let("a", 2)>>]

Files == {Sharing, SameRoot, Again, Overflow, Divide, Forward, Empties, Nested, Effect, Parents, Loop}
=============================================================================
