----------------------------- MODULE RalyParse -----------------------------
(* The recovering parser of raly-parse: a pure function from the tokens of a *)
(* file to a tree and its diagnostics, which an editor calls again after     *)
(* every keystroke.  Each production takes the parser and returns it with    *)
(* the node it built; a span is the pair of token positions it runs between. *)
EXTENDS Integers, FiniteSets, SequencesExt

CONSTANTS
    Identifiers,  \* the identifiers among the tokens; the rest are their own kind
    Openings,     \* [topics -> the tokens a file of that topic starts with]
    Pieces,       \* [topics -> what one keystroke may append]
    MaxKeys       \* bound: keystrokes

VARIABLES topic, tokens, keys, parsed

vars == <<topic, tokens, keys, parsed>>
-----------------------------------------------------------------------------
(* The cursor.                                                               *)

ITEM_STARTS == {"fn", "let", "space", "role", "type", "import", "struct"}
\* Mutant: a skip inside a statement runs over a type declaration.
STMT_STARTS_FEWER == {"fn", "let", "space", "role", "import", "return", "if", ";", "}"}
STMT_STARTS == {"fn", "let", "space", "role", "type", "import", "return", "if", ";", "}"}
PARAM_STOPS == {",", ")", "{", "->", "fn", "let", "space", "role", "type", "import"}
QUAL_STOPS == {";", "]"}
Openers == {"(", "[", "{"}
Closers == {")", "]", "}"}

Parser(toks) == [toks |-> toks, pos |-> 1, silenced |-> FALSE, diags |-> <<>>]
Text(p) == IF p.pos > Len(p.toks) THEN "eof" ELSE p.toks[p.pos]
KindOf(t) == IF t \in Identifiers THEN "ident" ELSE t
Kind(p) == KindOf(Text(p))
At(p, k) == Kind(p) = k

\* Real progress ends the suppression window.
Bump(p) == IF At(p, "eof") THEN p ELSE [p EXCEPT !.pos = @ + 1, !.silenced = FALSE]
Eat(p, k) == IF At(p, k) THEN Bump(p) ELSE p

Say(p, code, at) == [p EXCEPT !.diags = Append(@, [code |-> code, at |-> at])]
PushSilencing(p, code, at) == [Say(p, code, at) EXCEPT !.silenced = TRUE]
Unexpected(p) == IF p.silenced THEN p ELSE PushSilencing(p, "UnexpectedToken", p.pos)
Expect(p, k) == IF At(p, k) THEN Bump(p) ELSE Unexpected(p)
ExpectClose(p, k) ==
    IF At(p, k) THEN Bump(p)
    ELSE IF p.silenced THEN p ELSE PushSilencing(p, "UnclosedDelimiter", p.pos)

\* Where a skip from i at a bracket depth stops: at a stop outside brackets,
\* or at a closer that was not opened within the skip.
RECURSIVE SkipFrom(_, _, _, _)
SkipFrom(toks, i, stops, depth) ==
    IF i > Len(toks) THEN i
    ELSE LET k == KindOf(toks[i])
         IN  IF depth = 0 /\ k \in stops \cup Closers THEN i
             ELSE SkipFrom(toks, i + 1, stops, depth + (IF k \in Openers THEN 1
                                                        ELSE IF k \in Closers THEN -1 ELSE 0))

\* Mutant: every skip lets the next report through.
SyncUnsilences(p, stops) ==
    [p EXCEPT !.pos = SkipFrom(p.toks, p.pos, stops, 0), !.silenced = FALSE]

\* Only a skip that consumed something lets the next report through.
Sync(p, stops) ==
    LET i == SkipFrom(p.toks, p.pos, stops, 0)
    IN  [p EXCEPT !.pos = i, !.silenced = @ /\ i = p.pos]

Here(p) == <<p.pos, IF At(p, "eof") THEN p.pos ELSE p.pos + 1>>
Prev(p) == <<IF p.pos = 1 THEN 1 ELSE p.pos - 1, p.pos>>
AfterPrev(p) == <<p.pos, p.pos>>
Merge(s, t) == <<IF s[1] < t[1] THEN s[1] ELSE t[1], IF s[2] > t[2] THEN s[2] ELSE t[2]>>
\* Mutant: a node spans its first token only.
SpanHere(start, p) == Here(start)
SpanFrom(start, p) == Merge(Here(start), Prev(p))
Skipped(p, q) == Merge(Here(p), <<p.pos, q.pos>>)

\* A node records whether recovery made it up; its children stay in order.
Node(k, s, of) == [k |-> k, s |-> s, of |-> of, recovered |-> FALSE]
Recovered(k, s, of) == [Node(k, s, of) EXCEPT !.recovered = TRUE]
R(p, n) == [p |-> p, n |-> n]
-----------------------------------------------------------------------------
(* The four productions that contain one another, each defined further down. *)
RECURSIVE Rule(_, _, _)
Expr(p, min) == Rule("expr", p, min)
Type(p) == Rule("type", p, 0)
Block(p) == Rule("block", p, 0)
Item(p) == Rule("item", p, 0)

\* "while not at a stop: one element, then a comma or the end".
Element(what, p) ==
    CASE what = "expr" -> Expr(p, 0)
      [] what = "type" -> Type(p)
      [] what = "param" ->
            IF ~At(p, "ident")
            THEN R(Sync(Unexpected(p), PARAM_STOPS), Recovered("param", AfterPrev(p), <<>>))
            ELSE LET q == Bump(p)
                     t == Type(Bump(q))
                 IN  IF At(q, ":") THEN R(t.p, Node("param", SpanFrom(p, t.p), <<t.n>>))
                     ELSE R(PushSilencing(q, "MissingParamType", p.pos),
                            Node("param", SpanFrom(p, q), <<>>))

RECURSIVE CommaList(_, _, _, _)
AfterElement(what, stops, e, acc) ==
    IF At(e.p, ",") THEN CommaList(what, stops, Bump(e.p), Append(acc, e.n))
    ELSE [p |-> e.p, n |-> Append(acc, e.n), comma |-> FALSE]
CommaList(what, stops, p, acc) ==
    IF Kind(p) \in stops \cup {"eof"} THEN [p |-> p, n |-> acc, comma |-> acc # <<>>]
    ELSE AfterElement(what, stops, Element(what, p), acc)

RECURSIVE Path(_)
\* IDENT { "::" IDENT }, from the token after the first.
Path(p) ==
    IF ~At(p, "::") THEN p
    ELSE IF At(Bump(p), "ident") THEN Path(Bump(Bump(p))) ELSE Unexpected(Bump(p))
-----------------------------------------------------------------------------
(* Expressions.                                                              *)

LeftPower(k) ==
    CASE k = "|>" -> 1
      [] k \in {"==", "<"} -> 3
      [] k \in {"+", "-"} -> 5
      [] k \in {"*", "/"} -> 7
      [] OTHER -> 0
\* Mutant: both powers of an operator are the same.
RightPowerSame(k) == LeftPower(k)
RightPower(k) == LeftPower(k) + 1
PREFIX_POWER == 9
VsaOps == {"bind", "bundle", "permute", "unbind", "cleanup", "broadcast"}

Closing(l, k) == R(ExpectClose(l.p, k), l)
Arguments(p) == Closing(CommaList("expr", {")"}, p, <<>>), ")")

RECURSIVE Postfix(_)
Called(e, a) == R(a.p, Node("call", Merge(e.s, Prev(a.p)), <<e>> \o a.n.n))
Postfix(r) ==
    CASE At(r.p, "(") -> Postfix(Called(r.n, Arguments(Bump(r.p))))
      [] At(r.p, ".") ->
            LET q == Bump(r.p)
            IN  IF At(q, "ident")
                THEN Postfix(R(Bump(q), Node("field", Merge(r.n.s, Here(q)), <<r.n>>)))
                ELSE R(Unexpected(q), r.n)
      [] OTHER -> r

Unimplemented(p, stops) ==
    LET q == PushSilencing(Bump(p), "UnimplementedConstruct", p.pos)
        r == Sync(q, stops)
    IN  R(r, Recovered("error", Merge(Here(p), <<q.pos, r.pos>>), <<>>))

BlockOrMissing(p) ==
    IF At(p, "{") THEN Block(p)
    ELSE R(Unexpected(p), Recovered("error", AfterPrev(p), <<>>))

RECURSIVE If(_)
If(p) ==
    LET c == Expr(Bump(p), 0)
        t == BlockOrMissing(c.p)
        q == Bump(t.p)
        e == IF At(q, "if") THEN If(q) ELSE BlockOrMissing(q)
    IN  IF At(t.p, "else") THEN R(e.p, Node("if", SpanFrom(p, e.p), <<c.n, t.n, e.n>>))
        ELSE R(t.p, Node("if", SpanFrom(p, t.p), <<c.n, t.n>>))

\* VsaOp::arity: the fewest and the most operands, the most none as 0.
Arity(op, left) ==
    CASE op = "bind" -> <<2, 0>>
      [] op = "bundle" -> IF left THEN <<2, 0>> ELSE <<1, 0>>
      [] op \in {"permute", "cleanup"} -> <<1, 2>>
      [] op \in {"unbind", "broadcast"} -> <<2, 2>>

ArityCode(op, left, count) ==
    LET a == Arity(op, left)
    IN  IF op = "bundle" /\ ~left /\ count = 0 THEN "EmptyBundle"
        ELSE IF count >= a[1] /\ (a[2] = 0 \/ count <= a[2]) THEN "ok" ELSE "BadOpArity"

VsaNode(p, implicit, left, bare, args) ==
    LET code == ArityCode(Kind(p), left, Len(args.n.n) + implicit)
        call == Node("vsa", SpanFrom(p, args.p), args.n.n)
    IN  IF code = "ok" THEN R(args.p, call)
        ELSE R(Say(args.p, code, p.pos), [call EXCEPT !.recovered = ~bare])

VsaArguments(p, implicit, left, named) ==
    LET bare == implicit > 0 /\ ~At(named, "(")
    IN  VsaNode(p, implicit, left, bare,
            IF At(named, "(") THEN Arguments(Bump(named))
            ELSE R(IF bare THEN named ELSE Unexpected(named), [n |-> <<>>]))

\* implicit: 1 when the first operand comes from the left of a |>.
VsaCall(p, implicit) ==
    LET dotted == At(Bump(p), ".") /\ At(Bump(Bump(p)), "ident")
        name == Bump(Bump(p))
        left == dotted /\ At(p, "bundle") /\ Text(name) = "left"
    IN  VsaArguments(p, implicit, left,
            IF ~dotted THEN Bump(p)
            ELSE IF left THEN Bump(name) ELSE Say(Bump(name), "UnknownOpVariant", name.pos))

\* One element without a comma is not a tuple.
Listed(p, a, one, many) ==
    R(a.p, Node(IF Len(a.n.n) = 1 /\ ~a.n.comma THEN one ELSE many, SpanFrom(p, a.p), a.n.n))

Primary(p) ==
    CASE Kind(p) \in VsaOps -> VsaCall(p, 0)
      [] At(p, "int") -> R(Bump(p), Node("literal", Here(p), <<>>))
      [] At(p, "ident") -> LET q == Path(Bump(p)) IN R(q, Node("path", SpanFrom(p, q), <<>>))
      [] At(p, "(") ->
            Listed(p, Arguments(Bump(p)), "group", "tuple")
      [] At(p, "[") ->
            Listed(p, Closing(CommaList("expr", {"]"}, Bump(p), <<>>), "]"), "list", "list")
      [] At(p, "{") -> Block(p)
      [] At(p, "if") -> If(p)
      [] At(p, "for") -> Unimplemented(p, STMT_STARTS)
      [] OTHER ->
            LET q == Sync(Unexpected(p), STMT_STARTS)
            IN  R(q, Recovered("error", Skipped(p, q), <<>>))

Prefix(p) ==
    IF Kind(p) \notin {"-", "!"} THEN Postfix(Primary(p))
    ELSE LET e == Expr(Bump(p), PREFIX_POWER)
         IN  R(e.p, Node("unary", Merge(Here(p), e.n.s), <<e.n>>))

RECURSIVE Climb(_, _)
Joined(k, lhs, rhs) == R(rhs.p, Node(k, Merge(lhs.s, rhs.n.s), <<lhs, rhs.n>>))
\* A stage that starts with an operation is the call alone.
Climb(l, min) ==
    LET k == Kind(l.p)
        q == Bump(l.p)
    IN  IF LeftPower(k) = 0 \/ LeftPower(k) < min THEN l
        ELSE Climb(Joined(k, l.n, IF k = "|>" /\ Kind(q) \in VsaOps THEN VsaCall(q, 1)
                                  ELSE Expr(q, RightPower(k))), min)

ExprRule(p, min) == Climb(Prefix(p), min)
-----------------------------------------------------------------------------
(* Blocks and statements.                                                    *)

Typed(p, mark) ==
    LET t == Type(Bump(p)) IN IF At(p, mark) THEN R(t.p, <<t.n>>) ELSE R(p, <<>>)

LetBinding(p) ==
    LET named == Expect(Bump(p), "ident")
        typed == Typed(named, ":")
        e == Expr(Bump(typed.p), 0)
    IN  IF At(typed.p, "=") THEN R(e.p, Append(typed.n, e.n))
        ELSE R(Unexpected(typed.p), typed.n)

Stmt(p) ==
    CASE At(p, "let") ->
            LET b == LetBinding(p)
                q == Eat(b.p, ";")
            IN  R(q, Node("let", SpanFrom(p, q), b.n))
      [] At(p, "return") ->
            LET q == Bump(p)
                none == Kind(q) \in {";", "}"}
                e == Expr(q, 0)
                r == Eat(IF none THEN q ELSE e.p, ";")
            IN  R(r, Node("return", SpanFrom(p, r), IF none THEN <<>> ELSE <<e.n>>))
      [] Kind(p) \in ITEM_STARTS -> Item(p)
      [] OTHER ->
            LET e == Expr(p, 0)
                q == Eat(e.p, ";")
            IN  IF At(e.p, "}") THEN R(e.p, Node("tail", e.n.s, <<e.n>>))
                ELSE R(q, Node("expr", SpanFrom(p, q), <<e.n>>))

\* Forced progress: a statement or an item that consumed nothing costs its
\* first token.
Progress(p, s, acc) ==
    IF s.p.pos > p.pos THEN R(s.p, Append(acc, s.n))
    ELSE R(Bump(s.p), acc \o <<s.n, Recovered("skipped", Here(s.p), <<>>)>>)

RECURSIVE Stmts(_)
Stmts(r) ==
    IF Kind(r.p) \in {"}", "eof"} THEN r ELSE Stmts(Progress(r.p, Stmt(r.p), r.n))

Braced(p, b) == R(b.p, Node("block", SpanFrom(p, b.p), b.n.n))
BlockRule(p) == Braced(p, Closing(Stmts(R(Bump(p), <<>>)), "}"))
-----------------------------------------------------------------------------
(* Types.                                                                    *)

RECURSIVE RoleNames(_, _)
RoleNames(p, seen) ==
    IF Kind(p) \in {"}", "eof"} THEN p
    ELSE IF ~At(p, "ident") THEN Unexpected(p)
    ELSE LET q == IF Text(p) \in seen THEN Say(Bump(p), "DuplicateRole", p.pos) ELSE Bump(p)
         IN  IF At(q, ",") THEN RoleNames(Bump(q), seen \cup {Text(p)}) ELSE q

Qual(p) ==
    LET q == Bump(p)
    IN  CASE ~At(p, "ident") -> R(Unexpected(p), Recovered("qual", AfterPrev(p), <<>>))
          [] Text(p) = "load" ->
                LET e == Expr(q, 0) IN R(e.p, Node("load", SpanFrom(p, e.p), <<e.n>>))
          [] Text(p) = "roles" ->
                IF ~At(q, "{") THEN R(Unexpected(q), Recovered("qual", SpanFrom(p, q), <<>>))
                ELSE LET r == ExpectClose(RoleNames(Bump(q), {}), "}")
                     IN  R(r, Node("roles", SpanFrom(p, r), <<>>))
          [] Text(p) \in {"clean", "noisy"} -> R(q, Node(Text(p), Here(p), <<>>))
          [] OTHER ->
                LET r == Sync(PushSilencing(q, "UnknownTypeQualifier", p.pos), QUAL_STOPS)
                IN  R(r, Recovered("qual", SpanFrom(p, r), <<>>))

RECURSIVE Quals(_, _)
\* A qualifier that consumed nothing ends the list.
AfterQual(p, q, acc) ==
    IF q.p.pos > p.pos + 1 THEN Quals(q.p, Append(acc, q.n)) ELSE R(q.p, Append(acc, q.n))
Quals(p, acc) == IF At(p, ";") THEN AfterQual(p, Qual(Bump(p)), acc) ELSE R(p, acc)

FnOrTuple(p, l) ==
    LET ret == Type(Bump(l.p))
    IN  IF At(l.p, "->") THEN R(ret.p, Node("fn", SpanFrom(p, ret.p), Append(l.n.n, ret.n)))
        ELSE IF Len(l.n.n) = 1 /\ ~l.n.comma THEN R(l.p, l.n.n[1])
        ELSE R(l.p, Node("tuple", SpanFrom(p, l.p), l.n.n))

Bracketed(p, r) == R(r.p, Node("named", SpanFrom(p, r.p), r.n.n))
Qualified(args) == Quals(args.p, args.n)
Named(p, q) ==
    IF At(q, "[")
    THEN Bracketed(p, Closing(Qualified(CommaList("type", {"]", ";"}, Bump(q), <<>>)), "]"))
    ELSE R(q, Node("named", SpanFrom(p, q), <<>>))

TypeRule(p) ==
    CASE At(p, "(") ->
            FnOrTuple(p, Closing(CommaList("type", {")"}, Bump(p), <<>>), ")"))
      [] At(p, "ident") -> Named(p, Path(Bump(p)))
      [] OTHER -> R(Unexpected(p), Recovered("error", AfterPrev(p), <<>>))
-----------------------------------------------------------------------------
(* Items.                                                                    *)

RECURSIVE Attrs(_, _)
\* "where" Attr%",", from the token after the keyword or a comma.
Attrs(p, acc) ==
    IF ~At(p, "ident") THEN R(Unexpected(p), acc)
    ELSE LET e == Expr(Bump(Bump(p)), 0)
             v == IF At(Bump(p), "=") THEN R(e.p, <<e.n>>) ELSE R(Unexpected(Bump(p)), <<>>)
             all == Append(acc, Node("attr", SpanFrom(p, v.p), v.n))
         IN  IF At(v.p, ",") THEN Attrs(Bump(v.p), all) ELSE R(v.p, all)

WhereClause(p) == IF At(p, "where") THEN Attrs(Bump(p), <<>>) ELSE R(p, <<>>)
After(parts, r) == R(r.p, parts \o r.n)
Attributed(r) == After(r.n, WhereClause(r.p))

\* A family and a dimension; complete says that both are there.
SpaceBody(p) ==
    LET q == Bump(p)
        bare == Expr(PushSilencing(p, "BadSpaceDecl", p.pos), 0)
        dim == Expr(Bump(q), 0)
    IN  CASE At(p, "int") -> [p |-> bare.p, n |-> <<bare.n>>, complete |-> FALSE]
          [] At(p, "ident") /\ At(q, "[") ->
                [p |-> ExpectClose(dim.p, "]"), n |-> <<dim.n>>, complete |-> TRUE]
          [] At(p, "ident") /\ ~At(q, "[") ->
                [p |-> PushSilencing(q, "BadSpaceDecl", q.pos), n |-> <<>>, complete |-> FALSE]
          [] OTHER -> [p |-> Unexpected(p), n |-> <<>>, complete |-> FALSE]

SpaceNode(p, w, complete) ==
    R(w.p, [Node("space", SpanFrom(p, w.p), w.n) EXCEPT !.recovered = ~complete])
Spaced(p, b) == SpaceNode(p, Attributed(b), b.complete)
Space(p) == Spaced(p, SpaceBody(Expect(Expect(Bump(p), "ident"), "=")))

RECURSIVE Names(_)
Names(p) == IF ~At(p, "ident") THEN Unexpected(p)
            ELSE IF At(Bump(p), ",") THEN Names(Bump(Bump(p))) ELSE Bump(p)

\* The missing "in" is said (as RALY2001, like any unexpected token) whether
\* or not the parser is silenced.
Role(p) ==
    LET n == Names(Bump(p))
        q == IF At(n, "in") THEN Expect(Bump(n), "ident")
             ELSE PushSilencing(n, "MissingIn", n.pos)
        complete == At(Bump(p), "ident") /\ At(n, "in") /\ At(Bump(n), "ident")
    IN  R(q, [Node("role", SpanFrom(p, q), <<>>) EXCEPT !.recovered = ~complete])

Alias(p) ==
    LET q == Expect(Bump(p), "ident")
        t == Type(Bump(q))
    IN  IF At(q, "=") THEN R(t.p, Node("alias", SpanFrom(p, t.p), <<t.n>>))
        ELSE R(Unexpected(q), Node("alias", SpanFrom(p, q), <<>>))

\* A list of parameters ends where a body starts.
Params(named) ==
    IF At(named, "(")
    THEN Closing(CommaList("param", {")", "{", "->"}, Bump(named), <<>>), ")")
    ELSE R(Unexpected(named), [n |-> <<>>])

Signature(params) == Attributed(After(params.n.n, Typed(params.p, "->")))

\* A missing body is said all the same too (RALY2001).
Body(p, w) ==
    LET b == Block(w.p)
        none == Sync(PushSilencing(w.p, "MissingBody", w.p.pos), ITEM_STARTS)
    IN  IF At(w.p, "{") THEN R(b.p, Node("fn", SpanFrom(p, b.p), Append(w.n, b.n)))
        ELSE R(none, Recovered("fn", SpanFrom(p, none), w.n))

Fn(p) == Body(p, Signature(Params(Expect(Bump(p), "ident"))))

Import(p) ==
    LET q == IF At(Bump(p), "ident") THEN Path(Bump(Bump(p))) ELSE Unexpected(Bump(p))
    IN  R(q, Node("import", SpanFrom(p, q), <<>>))

ItemRule(p) ==
    CASE At(p, "import") -> Import(p)
      [] At(p, "space") -> Space(p)
      [] At(p, "role") -> Role(p)
      [] At(p, "type") -> Alias(p)
      [] At(p, "fn") -> Fn(p)
      [] At(p, "let") -> LET b == LetBinding(p) IN R(b.p, Node("let", SpanFrom(p, b.p), b.n))
      [] Kind(p) \in {"struct", "for"} -> Unimplemented(p, ITEM_STARTS)
      [] OTHER ->
            LET q == IF p.silenced THEN p ELSE PushSilencing(p, "ExpectedItem", p.pos)
                r == Sync(q, ITEM_STARTS)
            IN  R(r, Recovered("error", Skipped(p, r), <<>>))

Rule(what, p, min) ==
    CASE what = "expr" -> ExprRule(p, min)
      [] what = "type" -> TypeRule(p)
      [] what = "block" -> BlockRule(p)
      [] what = "item" -> ItemRule(p)

RECURSIVE Items(_)
Items(r) == IF At(r.p, "eof") THEN r ELSE Items(Progress(r.p, Item(r.p), r.n))

\* The reports come sorted by position, in the order they were made.
ByPosition(diags, toks) ==
    FlattenSeq([i \in 1 .. Len(toks) + 1 |-> SelectSeq(diags, LAMBDA d : d.at = i)])
Result(r) == [root |-> r.n, diags |-> ByPosition(r.p.diags, r.p.toks)]
Parse(toks) == Result(Items(R(Parser(toks), <<>>)))
-----------------------------------------------------------------------------
Init ==
    /\ topic \in DOMAIN Openings
    /\ tokens = Openings[topic]
    /\ keys = 0
    /\ parsed = Parse(tokens)

Keystroke(piece) ==
    /\ keys < MaxKeys
    /\ tokens' = tokens \o piece
    /\ parsed' = Parse(tokens')
    /\ keys' = keys + 1
    /\ UNCHANGED topic

Next == \E piece \in Pieces[topic] : Keystroke(piece)

Spec == Init /\ [][Next]_vars
-----------------------------------------------------------------------------
(* Properties.                                                               *)

RECURSIVE Nodes(_)
Nodes(n) == {n} \cup UNION {Nodes(n.of[i]) : i \in DOMAIN n.of}
Tree == UNION {Nodes(parsed.root[i]) : i \in DOMAIN parsed.root}

RECURSIVE Shape(_)
Shape(n) == <<n.k, n.recovered, [i \in DOMAIN n.of |-> Shape(n.of[i])]>>
Shapes(t) == [i \in DOMAIN t.root |-> Shape(t.root[i])]

\* Every bracket opened in the first n tokens is closed there, by its own kind.
CloserOf(t) == CASE t = "(" -> ")" [] t = "[" -> "]" [] t = "{" -> "}"
Depth(i, j) == Cardinality({x \in i .. j : tokens[x] \in Openers})
                 - Cardinality({x \in i .. j : tokens[x] \in Closers})
AllClosed(n) ==
    \A i \in 1 .. n : tokens[i] \in Openers =>
        \E j \in i + 1 .. n :
            /\ tokens[j] = CloserOf(tokens[i]) /\ Depth(i, j) = 0
            /\ \A x \in i .. j - 1 : Depth(i, x) > 0

\* The declarations of the language; struct is kept for later.
Declarations == {"fn", "let", "space", "role", "type", "import"}

\* A declaration is parsed and reported the same whatever came before it in
\* the file, so long as the brackets before it are closed: no error hides the
\* next mistake, or invents one.
IsOneAfterAnother(before, after, n) ==
    /\ Shapes(parsed) = Shapes(before) \o Shapes(after)
    /\ parsed.diags = before.diags
           \o [i \in DOMAIN after.diags |-> [after.diags[i] EXCEPT !.at = @ + n]]

ItemsAreIndependent ==
    \A n \in 1 .. Len(tokens) - 1 :
        (tokens[n + 1] \in Declarations /\ AllClosed(n)) =>
            IsOneAfterAnother(Parse(SubSeq(tokens, 1, n)),
                              Parse(SubSeq(tokens, n + 1, Len(tokens))), n)

\* The level of GRAMMAR.md 8.1 a node stands on.
Level(n) ==
    CASE n.k = "|>" -> 1
      [] n.k \in {"==", "<"} -> 2
      [] n.k \in {"+", "-"} -> 3
      [] n.k \in {"*", "/"} -> 4
      [] n.k = "unary" -> 5
      [] OTHER -> 6

\* A file accepted without a word is the tree the grammar gives it: nothing
\* in it was made up, every operator's right operand binds tighter than it
\* and its left operand at least as tight, unless the left operand is a
\* pipeline ending in an operation.
AcceptedIsGrammatical ==
    parsed.diags = <<>> =>
        \A n \in Tree :
            /\ ~n.recovered
            /\ Level(n) \in 1 .. 4 =>
                 /\ Level(n.of[2]) > Level(n)
                 /\ Level(n.of[1]) >= Level(n) \/ (n.of[1].k = "|>" /\ n.of[1].of[2].k = "vsa")
            /\ Level(n) = 5 => Level(n.of[1]) >= 5
            /\ \A i \in DOMAIN n.of : n.s[1] <= n.of[i].s[1] /\ n.of[i].s[2] <= n.s[2]
            /\ \A i, j \in DOMAIN n.of : i < j => n.of[i].s[2] <= n.of[j].s[1]

\* "Every significant token lies inside some node", and every node recovery
\* made up is next to a report.
NothingIsDropped ==
    /\ \A t \in DOMAIN tokens :
          \E i \in DOMAIN parsed.root : parsed.root[i].s[1] <= t /\ t < parsed.root[i].s[2]
    /\ \A n \in Tree : n.recovered =>
          \E d \in DOMAIN parsed.diags :
              n.s[1] - 1 <= parsed.diags[d].at /\ parsed.diags[d].at <= n.s[2]

\* "After an error the parser suppresses further "unexpected token" reports
\* until it has consumed at least one token": no token is complained about
\* twice.  A missing body or "in" is said all the same.
OneReportPerToken ==
    LET Suppressed(d) == d.code \in {"UnexpectedToken", "UnclosedDelimiter", "ExpectedItem"}
    IN  \A i, j \in DOMAIN parsed.diags :
            (i < j /\ Suppressed(parsed.diags[i]) /\ Suppressed(parsed.diags[j]))
                => parsed.diags[i].at # parsed.diags[j].at
=============================================================================
