----------------------------- MODULE RalyTypes -----------------------------
(* The checker of raly-types on a straight-line program: every step of the   *)
(* specification is one operand of a bind or bundle, or one other            *)
(* expression, applied to values the program already has.                    *)
(*                                                                           *)
(* A value carries the type the checker infers for it (ty) and, as a         *)
(* history, what the vector really is (m).  The properties compare the two.  *)
EXTENDS Integers, FiniteSets

CONSTANTS
    Spaces,       \* the space declarations of the file
    FamilyOf,     \* [Spaces -> families]
    DimOf,        \* [Spaces -> folded dimensions]
    CapacityOf,   \* [Spaces -> Nat \cup {NoCapacity}]
    Roles,        \* the role declarations
    RoleSpace,    \* [Roles -> Spaces]
    MaxLoad,      \* Load::UNBOUNDED, u32::MAX in the code
    Declared,     \* the types annotations of the program lower to
    Signatures,   \* the functions it may call: [param, ret]
    MaxOperands,  \* bound: operands of one call
    MaxItems,     \* bound: terms superposed in one value
    MaxSteps,     \* bound: expressions of the program
    GoOn,         \* bound: the words after which a program goes on
    NoSpace, NoCapacity, NoRole

\* An annotation that names no space is refused where it is written, and its
\* row counts each role.
ASSUME TypesAssumption ==
    /\ MaxLoad \in Nat \ {0}
    /\ RoleSpace \in [Roles -> Spaces]
    /\ NoSpace \notin Spaces
    /\ NoRole \notin Roles
    /\ \A t \in Declared : t.k = "vec" => t.space \in Spaces /\ t.roles.labels \in [Roles -> Nat]

VARIABLES
    values,    \* what the program can still name
    call,      \* the operand loop of a bind or bundle, or Idle
    reports,   \* the codes reported by the current expression
    made,      \* the expression just finished: [op, value, of]
    steps

vars == <<values, call, reports, made, steps>>
-----------------------------------------------------------------------------
(* Loads: intervals of saturating u32s.                                      *)

Sat(n) == IF n > MaxLoad THEN MaxLoad ELSE n
Exactly(n) == [low |-> n, high |-> n]
AnyLoad == [low |-> 1, high |-> MaxLoad]
\* Mutant: u32 addition that wraps instead of saturating.
AddLoadWraps(a, b) ==
    [low |-> (a.low + b.low) % (MaxLoad + 1), high |-> (a.high + b.high) % (MaxLoad + 1)]
AddLoad(a, b) == [low |-> Sat(a.low + b.low), high |-> Sat(a.high + b.high)]
MultiplyLoad(a, b) == [low |-> Sat(a.low * b.low), high |-> Sat(a.high * b.high)]
\* Mutant: one end of the interval is compared.
IntersectsLow(a, b) == a.low <= b.high
Intersects(a, b) == a.low <= b.high /\ b.low <= a.high

(* Rows: how often each role was bound in, and whether more may have been.   *)

ClosedEmpty == [labels |-> [r \in Roles |-> 0], open |-> FALSE]
UnknownRow == [ClosedEmpty EXCEPT !.open = TRUE]
Extend(row, r) == IF r = NoRole THEN row ELSE [row EXCEPT !.labels[r] = @ + 1]
\* Mutant: an unbind takes every binding of the role away.
RestrictAll(row, r) == [row EXCEPT !.labels[r] = 0]
Restrict(row, r) == [row EXCEPT !.labels[r] = IF @ > 0 THEN @ - 1 ELSE 0]
UnionRow(a, b) == [labels |-> [r \in Roles |-> a.labels[r] + b.labels[r]],
                   open |-> a.open \/ b.open]
MissingFrom(want, found) == {r \in Roles : found.labels[r] < want.labels[r]}

(* Types.  A symbol may be used wherever a vector may: it is a clean one.    *)

Vec(space, load, roles, clean, depth) ==
    [k |-> "vec", space |-> space, load |-> load, roles |-> roles,
     clean |-> clean, depth |-> depth]
Sym(space, role) == [k |-> "sym", space |-> space, role |-> role]
ListOf(t) == [k |-> "list", elem |-> t]
ErrorTy == [k |-> "error"]
IntTy == [k |-> "int"]
IsVector(t) == t.k \in {"vec", "sym"}
AsVector(t) == IF t.k = "vec" THEN t ELSE Vec(t.space, Exactly(1), ClosedEmpty, "clean", 0)
RoleOf(t) == IF t.k = "sym" THEN t.role ELSE NoRole
\* Mutant: the depth of the last operand.
DeeperLast(d, e) == e
Deeper(d, e) == IF d > e THEN d ELSE e
-----------------------------------------------------------------------------
(* What a vector really is: the codebooks its terms come from, how many      *)
(* terms are superposed, which roles each was keyed by (an unbind takes one  *)
(* off every term, a permutation none), the unbinds since the last cleanup,  *)
(* and whether the residue of an unbind or a broadcast is in it.             *)

Unkeyed == [r \in Roles |-> 0]
Atom(space, role) ==
    [spaces |-> {space}, items |-> 1, terms |-> {Unkeyed}, unbinds |-> 0,
     residue |-> FALSE, role |-> role]

(* Keying by a role is what a bind does when the operand is a bare role.     *)
Keyed(m) ==
    IF m.role = NoRole THEN m.terms
    ELSE {[t EXCEPT ![m.role] = @ + 1] : t \in m.terms}

Superpose(op, m, n) ==
    [spaces |-> m.spaces \cup n.spaces,
     items |-> IF op = "bind" THEN m.items * n.items ELSE m.items + n.items,
     terms |-> IF op = "bind"
               THEN {[r \in Roles |-> t[r] + u[r]] : t \in m.terms, u \in Keyed(n)}
               ELSE m.terms \cup n.terms,
     unbinds |-> Deeper(m.unbinds, n.unbinds),
     residue |-> m.residue \/ n.residue,
     role |-> NoRole]
-----------------------------------------------------------------------------
(* The checks: each returns the set of codes it reports.                     *)

(* report_space_mismatch: family, then dimension, then codebook.             *)
SpaceMismatch(a, b) ==
    IF FamilyOf[a] # FamilyOf[b] THEN {"FamilyMismatch"}
    ELSE IF DimOf[a] # DimOf[b] THEN {"DimensionMismatch"} ELSE {"CodebookMismatch"}

RequireSpace(a, b) ==
    IF a = NoSpace \/ b = NoSpace \/ a = b THEN {} ELSE SpaceMismatch(a, b)

(* Only bind and bundle would broadcast, and only over shape.                *)
OperandMismatch(first, other) ==
    IF FamilyOf[first] # FamilyOf[other] \/ DimOf[first] # DimOf[other]
    THEN {"SilentBroadcast"} ELSE SpaceMismatch(other, first)

RequireLoad(found, want) ==
    IF Intersects(found.load, want.load) THEN {} ELSE {"LoadMismatch"}

RequireRoles(found, want) ==
    IF \/ want.roles.open
       \/ /\ MissingFrom(want.roles, found.roles) = {}
          /\ found.roles.open \/ MissingFrom(found.roles, want.roles) = {}
    THEN {} ELSE {"RoleNotBound"}

RequireClean(found, want) ==
    IF want.clean = "clean" /\ found.clean = "noisy" THEN {"NotClean"} ELSE {}

RequireVector(found, want) ==
    UNION {RequireSpace(found.space, want.space), RequireLoad(found, want),
           RequireRoles(found, want), RequireClean(found, want)}

(* Lists nest once here, as annotations do.                                  *)
RequirePlain(actual, expected) ==
    IF actual.k = "error" \/ expected.k = "error" THEN {}
    ELSE IF expected.k = "sym" /\ actual.k = "sym"
         THEN RequireSpace(actual.space, expected.space)
    ELSE IF expected.k = "vec" /\ IsVector(actual)
         THEN RequireVector(AsVector(actual), expected)
    ELSE IF expected.k \notin {"sym", "vec"} /\ actual = expected THEN {}
    ELSE {"TypeMismatch"}

Require(actual, expected) ==
    IF actual.k = "list" /\ expected.k = "list"
    THEN RequirePlain(actual.elem, expected.elem)
    ELSE RequirePlain(actual, expected)

CheckCapacity(space, items) ==
    IF space # NoSpace /\ CapacityOf[space] # NoCapacity /\ items > CapacityOf[space]
    THEN {"CapacityExceeded"} ELSE {}

(* build_vec: an exact load is held against the capacity at the annotation.  *)
CheckAnnotation(t) ==
    IF t.k = "vec" /\ t.load.low = t.load.high
    THEN CheckCapacity(t.space, t.load.low) ELSE {}

(* The least type two list elements fit; the space is checked, not joined.   *)
Join(a, b) ==
    IF a = b \/ b.k = "error" THEN a
    ELSE IF a.k = "error" THEN b
    ELSE IF ~IsVector(a) \/ ~IsVector(b) THEN ErrorTy
    ELSE LET v == AsVector(a)
             w == AsVector(b)
         IN  Vec(IF v.space = NoSpace THEN w.space ELSE v.space,
                 [low |-> IF v.load.low < w.load.low THEN v.load.low ELSE w.load.low,
                  high |-> IF v.load.high > w.load.high THEN v.load.high ELSE w.load.high],
                 [UnionRow(v.roles, w.roles) EXCEPT !.open = TRUE],
                 IF v.clean = w.clean THEN v.clean ELSE "unknown",
                 Deeper(v.depth, w.depth))

JoinReports(a, b) ==
    IF a = b \/ a.k = "error" \/ b.k = "error" THEN {}
    ELSE IF ~IsVector(a) \/ ~IsVector(b) THEN {"TypeMismatch"}
    ELSE RequireSpace(b.space, a.space)
-----------------------------------------------------------------------------
(* The operand loop of check_bind and check_bundle, one operand at a time.   *)

Idle == [op |-> "none"]

Start(op) ==
    [op |-> op, n |-> 0, vectors |-> 0, word |-> "none",
     ty |-> Vec(NoSpace, Exactly(IF op = "bind" THEN 1 ELSE 0), ClosedEmpty, "clean", 0),
     m |-> [spaces |-> {}, items |-> IF op = "bind" THEN 1 ELSE 0,
            terms |-> IF op = "bind" THEN {Unkeyed} ELSE {}, unbinds |-> 0,
            residue |-> FALSE, role |-> NoRole]]

(* Whose word a value rests on: nobody's, a branch's, an annotation's, or    *)
(* that of a program already reported.                                       *)
Words == {"none", "branch", "annotation", "error"}
Worse(w, x) ==
    IF "error" \in {w, x} THEN "error"
    ELSE IF "annotation" \in {w, x} THEN "annotation"
    ELSE IF "branch" \in {w, x} THEN "branch" ELSE "none"
IsWarning(code) == code \in {"LossyFold", "NestingWarning"}
Blamed(w, codes) == IF \E c \in codes : ~IsWarning(c) THEN "error" ELSE w

TakeReports(c, v) ==
    IF v.ty.k = "error" THEN {}
    ELSE IF ~IsVector(v.ty) THEN {"TypeMismatch"}
    ELSE IF c.ty.space \notin {NoSpace, v.ty.space} /\ v.ty.space # NoSpace
    THEN OperandMismatch(c.ty.space, v.ty.space) ELSE {}

\* Mutant: the cleanliness of the last operand.
CleanOfLast(u, t) == t.clean
CleanOf(u, t) == IF t.clean = "noisy" THEN "noisy" ELSE u.clean

Taken(c, t, role) ==
    LET u == c.ty
        roles == UnionRow(u.roles, t.roles)
    IN  Vec(IF u.space = NoSpace THEN t.space ELSE u.space,
            IF c.op = "bind" THEN MultiplyLoad(u.load, t.load) ELSE AddLoad(u.load, t.load),
            IF c.op = "bind" THEN Extend(roles, role) ELSE roles,
            CleanOf(u, t),
            Deeper(u.depth, t.depth))

Take(c, v) ==
    IF ~IsVector(v.ty) THEN [c EXCEPT !.n = @ + 1, !.word = "error"]
    ELSE [op |-> c.op, n |-> c.n + 1, vectors |-> c.vectors + 1,
          word |-> Worse(Blamed(c.word, TakeReports(c, v)), v.word),
          ty |-> Taken(c, AsVector(v.ty), RoleOf(v.ty)),
          m |-> Superpose(c.op, c.m, v.m)]

CallReports(c) ==
    IF c.op = "bind" \/ c.vectors = 0 THEN {}
    ELSE CheckCapacity(c.ty.space, c.ty.load.low)
         \cup (IF c.op = "bundle.left" /\ c.n >= 3 THEN {"LossyFold"} ELSE {})

CallType(c) == IF c.vectors = 0 THEN ErrorTy ELSE c.ty
-----------------------------------------------------------------------------
Value(ty, m, w) == [ty |-> ty, m |-> m, word |-> w]
Nothing == [op |-> "none", value |-> Value(ErrorTy, Atom(NoSpace, NoRole), "error"),
            of |-> Value(ErrorTy, Atom(NoSpace, NoRole), "error")]

(* Roles, a plain symbol of every space, an integer and a broken expression. *)
Globals ==
    {Value(Sym(RoleSpace[r], r), Atom(RoleSpace[r], r), "none") : r \in Roles}
    \cup {Value(Sym(s, NoRole), Atom(s, NoRole), "none") : s \in Spaces}
    \cup {Value(IntTy, Atom(NoSpace, NoRole), "none"),
          Value(ErrorTy, Atom(NoSpace, NoRole), "error")}

Init ==
    /\ values = Globals
    /\ call = Idle
    /\ reports = {}
    /\ made = Nothing
    /\ steps = 0

Finish(op, of, ty, m, w, codes) ==
    LET v == Value(ty, m, Blamed(w, codes))
    IN  /\ values' = values \cup {v}
        /\ made' = [op |-> op, value |-> v, of |-> of]
        /\ reports' = codes
        /\ call' = Idle
        /\ steps' = steps + 1

Ready ==
    /\ call = Idle
    /\ steps < MaxSteps
    /\ made = Nothing \/ made.value.word \in GoOn

StartCall(op) ==
    /\ Ready
    /\ call' = Start(op)
    /\ reports' = {}
    /\ made' = Nothing
    /\ UNCHANGED <<values, steps>>

TakeOperand(v) ==
    /\ call # Idle
    /\ call.n < MaxOperands
    /\ Superpose(call.op, call.m, v.m).items <= MaxItems
    /\ reports' = reports \cup TakeReports(call, v)
    /\ call' = Take(call, v)
    /\ UNCHANGED <<values, made, steps>>

FinishCall ==
    /\ call # Idle
    /\ call.n > 0
    /\ Finish(call.op, Nothing.of, CallType(call), call.m, call.word,
              reports \cup CallReports(call))

(* check_permute: the vector keeps its type.                                 *)
Permute(v, shift) ==
    /\ Ready
    /\ LET codes == Require(shift.ty, IntTy)
                    \cup (IF IsVector(v.ty) \/ v.ty.k = "error" THEN {} ELSE {"TypeMismatch"})
       IN  Finish("permute", v, IF IsVector(v.ty) THEN AsVector(v.ty) ELSE ErrorTy,
                  [v.m EXCEPT !.role = NoRole], v.word, codes)

(* check_unbind: only a declared role is a key.                              *)
UnbindReports(t, key) ==
    IF key.k = "error" THEN {}
    ELSE IF RoleOf(key) = NoRole THEN {"NotARole"}
    ELSE RequireSpace(key.space, t.space)
         \cup (IF t.roles.labels[key.role] = 0 /\ ~t.roles.open THEN {"RoleNotBound"} ELSE {})

NestingReports(depth) ==
    IF depth >= 3 THEN {"NestingError"}
    ELSE IF depth = 2 THEN {"NestingWarning"} ELSE {}

Unbound(m, role) ==
    [m EXCEPT !.items = 1, !.unbinds = @ + 1, !.residue = TRUE, !.role = NoRole,
              !.terms = IF role = NoRole THEN @ ELSE {[t EXCEPT ![role] = @ - 1] : t \in @}]

Unbind(v, key) ==
    /\ Ready
    /\ IF ~IsVector(v.ty)
       THEN Finish("unbind", v, ErrorTy, v.m, "error",
                   IF v.ty.k = "error" THEN {} ELSE {"TypeMismatch"})
       ELSE LET t == AsVector(v.ty)
                row == IF RoleOf(key.ty) = NoRole THEN t.roles
                       ELSE Restrict(t.roles, RoleOf(key.ty))
            IN  Finish("unbind", v, Vec(t.space, Exactly(1), row, "noisy", t.depth + 1),
                       Unbound(v.m, key.m.role), Worse(v.word, key.word),
                       UnbindReports(t, key.ty) \cup NestingReports(t.depth + 1))

(* check_cleanup: an atom again, whatever it was.  s = NoSpace when the      *)
(* codebook is not named.                                                    *)
Cleanup(v, s) ==
    /\ Ready
    /\ LET space == IF IsVector(v.ty) THEN v.ty.space ELSE NoSpace
       IN  IF v.ty.k # "error" /\ ~IsVector(v.ty)
           THEN Finish("cleanup", v, ErrorTy, v.m, "error", {"TypeMismatch"})
           ELSE Finish("cleanup", v, Sym(space, NoRole), Atom(space, NoRole),
                       v.word, RequireSpace(s, space))

(* check_broadcast: the one way into another space, and a noisy one.         *)
Broadcast(v, s) ==
    /\ Ready
    /\ IF ~IsVector(v.ty)
       THEN Finish("broadcast", v, ErrorTy, v.m, "error",
                   IF v.ty.k = "error" THEN {} ELSE {"TypeMismatch"})
       ELSE LET t == AsVector(v.ty)
                into == IF s = NoSpace THEN t.space ELSE s
            IN  Finish("broadcast", v, Vec(into, t.load, t.roles, "noisy", t.depth),
                       [v.m EXCEPT !.spaces = {into}, !.residue = TRUE, !.role = NoRole],
                       v.word, {})

(* check_binding: the name has the type it was declared with.                *)
Annotate(v, t) ==
    /\ Ready
    /\ Finish("annotate", v, t, v.m, Worse(v.word, "annotation"),
              Require(v.ty, t) \cup CheckAnnotation(t))

(* check_call with one argument: the result is the signature's word.         *)
Call(v, f) ==
    /\ Ready
    /\ Finish("call", v, f.ret, v.m, Worse(v.word, "annotation"), Require(v.ty, f.param))

(* An if: the else arm is held against the then arm, whose type the whole    *)
(* has; which arm runs is not known.                                         *)
If(t, e) ==
    /\ Ready
    /\ \E taken \in {t, e} :
          Finish("if", e, t.ty, taken.m,
                 Worse(Worse(t.word, e.word), IF t.ty = e.ty THEN "none" ELSE "branch"),
                 Require(e.ty, t.ty))

(* A list literal of two.                                                    *)
List(a, b) ==
    /\ Ready
    /\ a.ty.k # "list" /\ b.ty.k # "list"
    /\ Finish("list", b, ListOf(Join(a.ty, b.ty)), a.m, Worse(a.word, b.word),
              JoinReports(a.ty, b.ty))

Next ==
    \/ \E op \in {"bind", "bundle", "bundle.left"} : StartCall(op)
    \/ \E v \in values : TakeOperand(v)
    \/ FinishCall
    \/ \E v, w \in values : Permute(v, w) \/ Unbind(v, w) \/ If(v, w) \/ List(v, w)
    \/ \E v \in values, s \in Spaces \cup {NoSpace} : Cleanup(v, s) \/ Broadcast(v, s)
    \/ \E v \in values, t \in Declared : Annotate(v, t)
    \/ \E v \in values, f \in Signatures : Call(v, f)

Spec == Init /\ [][Next]_vars
-----------------------------------------------------------------------------
(* Properties.  A value is sure when it rests on nobody's word.              *)

Sure(v) == v.word = "none" /\ IsVector(v.ty)

(* The load the checker infers is the number of terms superposed, saturated  *)
(* at the largest count: no path of binds, bundles and permutations makes it *)
(* wrap, and so look small again.                                            *)
LoadsAreTrue ==
    \A v \in values : Sure(v) => AsVector(v.ty).load = Exactly(Sat(v.m.items))

(* A row misses no role a term is still keyed by, so an unbind that works is *)
(* never refused; and before the first unbind it names no role that no term  *)
(* is keyed by, so one that yields pure crosstalk is.                        *)
RowTrue(row, m) ==
    /\ \A t \in m.terms, r \in Roles : t[r] <= row.labels[r]
    /\ m.unbinds = 0 =>
         \A r \in Roles : row.labels[r] > 0 => \E t \in m.terms : t[r] > 0

RowsAreTrue ==
    \A v \in values : Sure(v) =>
        ~AsVector(v.ty).roles.open /\ RowTrue(AsVector(v.ty).roles, v.m)

(* Residue is never forgotten nor invented, the nesting counter counts the   *)
(* unbinds since the last cleanup, and a value nothing was reported about    *)
(* holds terms of its own space only.                                        *)
ResidueIsKnown ==
    \A v \in values : Sure(v) =>
        LET t == AsVector(v.ty)
        IN  /\ (t.clean = "noisy") = v.m.residue
            /\ t.depth = v.m.unbinds
            /\ v.m.spaces = {t.space}

(* An annotation nothing was reported about is true of a sure value: its     *)
(* space, its load, its closed row and its cleanliness.                      *)
AnnotationsHold ==
    LET t == made.value.ty
        m == made.value.m
    IN  (made.op = "annotate" /\ Sure(made.of) /\ reports = {} /\ t.k = "vec") =>
            /\ m.spaces = {t.space}
            /\ t.load.low <= Sat(m.items) /\ Sat(m.items) <= t.load.high
            /\ t.roles.open \/ RowTrue(t.roles, m)
            /\ t.clean = "clean" => ~m.residue

(* Operand order carries no information, nor does the nesting of bundles.    *)
OrderIrrelevant ==
    \A b \in values, op \in {"bind", "bundle"} :
        LET a == made.value
        IN  Sure(a) /\ Sure(b) /\ a.ty.space = b.ty.space =>
            LET both == Take(Take(Start(op), a), b)
                swapped == Take(Take(Start(op), b), a)
                nested == Value(both.ty, both.m, both.word)
            IN  /\ both.ty = swapped.ty
                /\ Take(both, a).ty = Take(Take(Start(op), nested), a).ty
=============================================================================
