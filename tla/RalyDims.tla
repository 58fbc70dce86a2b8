------------------------------ MODULE RalyDims ------------------------------
(* The spaces of a resolved file: before it checks any item, the checker     *)
(* folds every dimension to a product of numbers and unfolded names, and     *)
(* takes from it what the capacity of the space is measured by.              *)
EXTENDS RalyNames

CONSTANTS
    MaxDim,    \* the largest u64
    MaxInt     \* the largest u32

VARIABLE spaces   \* SpaceInfo of every root space, None before it is collected

(* A dimension: the integer powers, none zero, of its atoms.                 *)
One == <<>>
Atom(kind, x) == <<kind, x>>
Constant(n) == IF n = 1 THEN One ELSE (Atom("const", n) :> 1)
Variable(name) == Atom("var", name) :> 1

Power(d, a) == IF a \in DOMAIN d THEN d[a] ELSE 0
Product(d, e, sign) ==
    LET power(a) == Power(d, a) + sign * Power(e, a)
    IN  [a \in {b \in DOMAIN d \cup DOMAIN e : power(b) # 0} |-> power(a)]
Multiply(d, e) == Product(d, e, 1)
Divide(d, e) == Product(d, e, -1)
Unify(d, e) == Divide(d, e) = One

\* A number, of constants with positive powers alone, that fits.
Total(d) == FoldFunctionOnSet(LAMBDA m, n : m * n, 1, [a \in DOMAIN d |-> a[2] ^ d[a]], DOMAIN d)
Numeric(d) == \A a \in DOMAIN d : a[1] = "const" /\ d[a] > 0
\* Mutant: the product wraps.
AsConstantWraps(d) == IF Numeric(d) THEN Total(d) % (MaxDim + 1) ELSE None
AsConstant(d) == IF Numeric(d) /\ Total(d) <= MaxDim THEN Total(d) ELSE None

Sum(op, a, b) == IF op = "add" THEN a + b ELSE a - b
\* An operation on folded operands: checked, where it is a sum.
Folded(op, d, e) ==
    CASE op = "mul" -> Multiply(d, e)
      [] op = "div" -> Divide(d, e)
      [] op \in {"add", "sub"} ->
            LET a == AsConstant(d)
                b == AsConstant(e)
            IN  IF a = None \/ b = None THEN None
                ELSE IF Sum(op, a, b) \in 0 .. MaxDim THEN Constant(Sum(op, a, b)) ELSE None

(* fold_dim: seen holds the definitions being folded; what does not fold and *)
(* has a name is a variable.  uses are the definitions of the operands.      *)
RECURSIVE FoldDim(_, _, _), FoldPath(_, _)
FoldPath(d, seen) ==
    IF d = ErrorDef \/ d \in seen THEN None
    ELSE LET folded == IF d.kind = "let" THEN FoldDim(Root[d.at].value, refs[d.at], seen \cup {d}) ELSE None
         IN  IF folded # None THEN folded ELSE Variable(Root[d.at].name)
FoldDim(value, uses, seen) ==
    LET operand(x) ==
            IF value.of[x].name # None THEN FoldPath(uses[x], seen)
            ELSE IF value.of[x].lit <= MaxDim THEN Constant(value.of[x].lit) ELSE None
        left == operand(1)
        right == operand(2)
    IN  IF value.op = "none" THEN left
        ELSE IF left = None \/ right = None THEN None ELSE Folded(value.op, left, right)

\* Attributes are not resolved: a name in one folds to nothing.
Unresolved(value) == [x \in DOMAIN value.of |-> ErrorDef]
FoldInt(value) ==
    LET d == FoldDim(value, Unresolved(value), {})
        n == IF d = None THEN None ELSE AsConstant(d)
    IN  IF n = None THEN None ELSE IF n <= MaxInt THEN n ELSE None

SpaceInfo(i) ==
    LET value == Root[i].value
        folded == IF value = None THEN None ELSE FoldDim(value, refs[i], {})
        effective == IF Root[i].eff = None THEN None ELSE FoldInt(Root[i].eff)
        nominal == IF folded = None THEN None ELSE AsConstant(folded)
    IN  [dim |-> IF folded = None THEN One ELSE folded,
         known |-> folded # None,
         reported |-> value # None /\ folded = None,
         basis |-> IF effective # None THEN "effective" ELSE "nominal",
         capacityDim |-> IF effective # None THEN effective ELSE nominal]

RootSpaces == {i \in DOMAIN Root : Root[i].k = "space"}

CollectSpaces ==
    /\ ~Resolving /\ spaces = None
    /\ spaces' = [i \in RootSpaces |-> SpaceInfo(i)]
    /\ UNCHANGED vars

FileInit == Init /\ spaces = None
FileNext ==
    \/ CollectSpaces
    \/ /\ Resolving \/ spaces # None
       /\ Next
       /\ UNCHANGED spaces
FileSpec == FileInit /\ [][FileNext]_<<vars, spaces>>
-----------------------------------------------------------------------------
(* The exact value of an expression as a fraction <<n, d>>: {} where a cycle,*)
(* an unknown name or a divisor that is zero leaves it without one.          *)
Exact(op, p, q) ==
    CASE op = "mul" -> {<<p[1] * q[1], p[2] * q[2]>>}
      [] op = "div" -> IF q[1] = 0 THEN {} ELSE {<<p[1] * q[2], p[2] * q[1]>>}
      [] OTHER -> {<<Sum(op, p[1] * q[2], q[1] * p[2]), p[2] * q[2]>>}
Same(p, q) == p[1] * q[2] = q[1] * p[2]

RECURSIVE Meaning(_, _, _)
Meaning(value, uses, above) ==
    LET operand(x) ==
            IF value.of[x].name = None THEN {<<value.of[x].lit, 1>>}
            ELSE IF uses[x].kind # "let" \/ uses[x].at \in above THEN {}
            ELSE Meaning(Root[uses[x].at].value, refs[uses[x].at], above \cup {uses[x].at})
    IN  IF value.op = "none" THEN operand(1)
        ELSE UNION {Exact(value.op, p, q) : p \in operand(1), q \in operand(2)}
MeaningOf(i) == Meaning(Root[i].value, refs[i], {i})

\* The statements an expression is made of, itself included.
RECURSIVE Parts(_, _)
Parts(i, n) ==
    LET uses == {d \in ToSet(refs[i]) \ {None} : d.kind = "let"}
    IN  {i} \cup (IF n = 0 THEN {} ELSE UNION {Parts(d.at, n - 1) : d \in uses})
\* No part divides, and each is a number in range.
Plain(i) ==
    \A j \in Parts(i, Len(Root)) :
        /\ Root[j].value.op # "div"
        /\ \A x \in DOMAIN Root[j].value.of : Root[j].value.of[x].lit <= MaxDim
        /\ \E n \in 0 .. MaxDim : \E p \in MeaningOf(j) : Same(p, <<n, 1>>)

\* A dimension that folds to a number is that number, exactly, and dimensions
\* that unify are equal, through every chain of constants, overflow, negative
\* difference and fraction; and a dimension of sums and products in range
\* always folds, however often and in whatever order its constants are used.
FoldedIsTrue ==
    spaces # None =>
        \A i \in {j \in RootSpaces : Root[j].value # None} :
            /\ \A p \in MeaningOf(i) :
                  /\ AsConstant(spaces[i].dim) # None /\ spaces[i].known =>
                        Same(p, <<AsConstant(spaces[i].dim), 1>>)
                  /\ \A j \in {k \in RootSpaces : Root[k].value # None} :
                        \A q \in MeaningOf(j) :
                            (spaces[i].known /\ spaces[j].known /\ Unify(spaces[i].dim, spaces[j].dim))
                                => Same(p, q)
            /\ Plain(i) => /\ spaces[i].known
                           /\ AsConstant(spaces[i].dim) # None
                           /\ Root[i].eff = None => spaces[i].capacityDim = AsConstant(spaces[i].dim)
=============================================================================
