--------------------------- MODULE RalyTypesProofs ---------------------------
(* Theorems about RalyTypes: what the checker infers of a sure value is true *)
(* of the vector, for any spaces, roles, counters and straight-line program. *)
EXTENDS RalyTypes, TLAPS

-----------------------------------------------------------------------------
(* Saturation.                                                               *)

LEMMA SatType == \A n \in Nat : Sat(n) \in Nat
BY TypesAssumption DEF Sat

LEMMA SatSum == \A a, b \in Nat : Sat(Sat(a) + Sat(b)) = Sat(a + b)
BY TypesAssumption DEF Sat

LEMMA ProductGrows == \A a, b \in Nat : b >= 1 => a * b >= a
<1> SUFFICES ASSUME NEW a \in Nat, NEW b \in Nat, b >= 1 PROVE a * b >= a
  OBVIOUS
<1>1. b - 1 \in Nat /\ a * (b - 1) \in Nat
  OBVIOUS
<1>2. a * b = a * (b - 1) + a
  OBVIOUS
<1>. QED BY <1>1, <1>2

LEMMA SatProduct == \A a, b \in Nat : Sat(Sat(a) * Sat(b)) = Sat(a * b)
<1> SUFFICES ASSUME NEW a \in Nat, NEW b \in Nat
             PROVE  Sat(Sat(a) * Sat(b)) = Sat(a * b)
  OBVIOUS
<1>1. CASE a <= MaxLoad /\ b <= MaxLoad
  BY <1>1, TypesAssumption DEF Sat
<1>2. CASE a = 0 \/ b = 0
  BY <1>2, SatType, TypesAssumption DEF Sat
<1>3. CASE a > MaxLoad /\ b >= 1
  <2>1. Sat(a) = MaxLoad /\ Sat(b) \in Nat /\ Sat(b) >= 1
    BY <1>3, TypesAssumption DEF Sat
  <2>2. MaxLoad * Sat(b) >= MaxLoad /\ a * b >= a
    BY <1>3, <2>1, ProductGrows, TypesAssumption
  <2>3. MaxLoad * Sat(b) \in Nat /\ a * b \in Nat
    BY <2>1, TypesAssumption
  <2>. QED BY <1>3, <2>1, <2>2, <2>3, TypesAssumption DEF Sat
<1>4. CASE b > MaxLoad /\ a >= 1
  <2>1. Sat(b) = MaxLoad /\ Sat(a) \in Nat /\ Sat(a) >= 1
    BY <1>4, TypesAssumption DEF Sat
  <2>2. MaxLoad * Sat(a) >= MaxLoad /\ b * a >= b
    BY <1>4, <2>1, ProductGrows, TypesAssumption
  <2>3. MaxLoad * Sat(a) = Sat(a) * MaxLoad /\ b * a = a * b /\ a * b \in Nat
        /\ Sat(a) * MaxLoad \in Nat
    BY <2>1, TypesAssumption
  <2>. QED BY <1>4, <2>1, <2>2, <2>3, TypesAssumption DEF Sat
<1>. QED BY <1>1, <1>2, <1>3, <1>4, TypesAssumption

LEMMA LoadSum ==
    ASSUME NEW a \in Nat, NEW b \in Nat
    PROVE  AddLoad(Exactly(Sat(a)), Exactly(Sat(b))) = Exactly(Sat(a + b))
BY SatSum DEF AddLoad, Exactly

LEMMA LoadProduct ==
    ASSUME NEW a \in Nat, NEW b \in Nat
    PROVE  MultiplyLoad(Exactly(Sat(a)), Exactly(Sat(b))) = Exactly(Sat(a * b))
BY SatProduct DEF MultiplyLoad, Exactly

-----------------------------------------------------------------------------
(* Rows, against the terms of a vector.                                      *)

Counts == [Roles -> Int]
ClosedRows == [labels : [Roles -> Nat], open : {FALSE}]

Covers(row, terms) == \A t \in terms, r \in Roles : t[r] <= row.labels[r]
Names(row, terms) == \A r \in Roles : row.labels[r] > 0 => \E t \in terms : t[r] > 0
Positive(terms) == \A t \in terms, r \in Roles : t[r] >= 0

Sums(terms, others) == {[r \in Roles |-> t[r] + u[r]] : t \in terms, u \in others}
KeyedBy(terms, role) ==
    IF role = NoRole THEN terms ELSE {[t EXCEPT ![role] = @ + 1] : t \in terms}

LEMMA SumOf ==
    ASSUME NEW T \in SUBSET Counts, NEW U \in SUBSET Counts
    PROVE  /\ Sums(T, U) \subseteq Counts
           /\ T # {} /\ U # {} => Sums(T, U) # {}
<1>1. ASSUME NEW t \in T, NEW u \in U PROVE [r \in Roles |-> t[r] + u[r]] \in Counts
  BY DEF Counts
<1>2. ASSUME NEW t \in T, NEW u \in U PROVE Sums(T, U) # {}
  <2>1. [r \in Roles |-> t[r] + u[r]] \in Sums(T, U)
    BY DEF Sums
  <2>. QED BY <2>1
<1>. QED BY <1>1, <1>2 DEF Sums

LEMMA KeyOf ==
    ASSUME NEW U \in SUBSET Counts, NEW role \in Roles \cup {NoRole}
    PROVE  /\ KeyedBy(U, role) \subseteq Counts
           /\ U # {} => KeyedBy(U, role) # {}
           /\ Positive(U) => Positive(KeyedBy(U, role))
<1>1. CASE role = NoRole
  BY <1>1 DEF KeyedBy
<1>2. CASE role # NoRole
  <2>1. KeyedBy(U, role) = {[t EXCEPT ![role] = @ + 1] : t \in U}
    BY <1>2 DEF KeyedBy
  <2>2. ASSUME NEW t \in U PROVE [t EXCEPT ![role] = @ + 1] \in Counts
    BY <1>2 DEF Counts
  <2>3. ASSUME NEW t \in U, NEW r \in Roles, t[r] >= 0
        PROVE  [t EXCEPT ![role] = @ + 1][r] >= 0
    BY <1>2, <2>3 DEF Counts
  <2>4. U # {} => KeyedBy(U, role) # {}
    BY <2>1
  <2>5. Positive(U) => Positive(KeyedBy(U, role))
    BY <2>1, <2>3 DEF Positive
  <2>. QED BY <2>1, <2>2, <2>4, <2>5
<1>. QED BY <1>1, <1>2

LEMMA UnionType ==
    ASSUME NEW a \in ClosedRows, NEW b \in ClosedRows
    PROVE  /\ UnionRow(a, b) \in ClosedRows
           /\ \A r \in Roles : UnionRow(a, b).labels[r] = a.labels[r] + b.labels[r]
<1>1. \A r \in Roles : a.labels[r] \in Nat /\ b.labels[r] \in Nat
  BY DEF ClosedRows
<1>2. [r \in Roles |-> a.labels[r] + b.labels[r]] \in [Roles -> Nat]
  BY <1>1
<1>3. (a.open \/ b.open) = FALSE
  BY DEF ClosedRows
<1>4. UnionRow(a, b).labels = [r \in Roles |-> a.labels[r] + b.labels[r]]
  BY DEF UnionRow
<1>5. UnionRow(a, b) \in ClosedRows
  BY <1>2, <1>3 DEF UnionRow, ClosedRows
<1>. QED BY <1>4, <1>5

LEMMA ExtendType ==
    ASSUME NEW a \in ClosedRows, NEW role \in Roles \cup {NoRole}
    PROVE  /\ Extend(a, role) \in ClosedRows
           /\ \A r \in Roles : Extend(a, role).labels[r] = a.labels[r] + (IF r = role THEN 1 ELSE 0)
<1>1. a.labels \in [Roles -> Nat] /\ a.open = FALSE
  BY DEF ClosedRows
<1>2. CASE role = NoRole
  BY <1>1, <1>2, TypesAssumption DEF Extend
<1>3. CASE role \in Roles
  <2>1. Extend(a, role) = [a EXCEPT !.labels[role] = @ + 1]
    BY <1>3, TypesAssumption DEF Extend
  <2>2. Extend(a, role).labels = [a.labels EXCEPT ![role] = @ + 1]
    BY <2>1 DEF ClosedRows
  <2>3. [a.labels EXCEPT ![role] = @ + 1] \in [Roles -> Nat]
    BY <1>1, <1>3
  <2>4. Extend(a, role) \in ClosedRows
    BY <2>1, <2>3 DEF ClosedRows
  <2>. QED BY <1>1, <1>3, <2>2, <2>4
<1>. QED BY <1>2, <1>3

\* A bind adds the roles of both, and the key's own when the operand is a role.
LEMMA BindRows ==
    ASSUME NEW a \in ClosedRows, NEW b \in ClosedRows, NEW role \in Roles \cup {NoRole},
           NEW T \in SUBSET Counts, NEW U \in SUBSET Counts, Covers(a, T), Covers(b, U)
    PROVE  /\ Covers(Extend(UnionRow(a, b), role), Sums(T, KeyedBy(U, role)))
           /\ Names(a, T) /\ Names(b, U) /\ Positive(T) /\ Positive(U) /\ T # {} /\ U # {} =>
                 /\ Names(Extend(UnionRow(a, b), role), Sums(T, KeyedBy(U, role)))
                 /\ Positive(Sums(T, KeyedBy(U, role)))
<1> DEFINE row == Extend(UnionRow(a, b), role)
<1>1. /\ row \in ClosedRows
      /\ \A r \in Roles : row.labels[r] = a.labels[r] + b.labels[r] + (IF r = role THEN 1 ELSE 0)
  <2>1. /\ UnionRow(a, b) \in ClosedRows
        /\ \A r \in Roles : UnionRow(a, b).labels[r] = a.labels[r] + b.labels[r]
    BY UnionType
  <2>2. /\ row \in ClosedRows
        /\ \A r \in Roles :
              row.labels[r] = UnionRow(a, b).labels[r] + (IF r = role THEN 1 ELSE 0)
    BY <2>1, ExtendType
  <2>. QED BY <2>1, <2>2
<1>2. /\ \A r \in Roles : a.labels[r] \in Nat /\ b.labels[r] \in Nat
      /\ \A t \in T \cup U, r \in Roles : t[r] \in Int
  BY DEF ClosedRows, Counts
<1>3. \A u \in KeyedBy(U, role) : \E v \in U :
          \A r \in Roles : u[r] = v[r] + (IF r = role THEN 1 ELSE 0)
  BY <1>2, TypesAssumption DEF KeyedBy, Counts
<1>4. \A v \in U : \E u \in KeyedBy(U, role) :
          \A r \in Roles : u[r] = v[r] + (IF r = role THEN 1 ELSE 0)
  <2>1. CASE role = NoRole
    BY <2>1, <1>2, TypesAssumption DEF KeyedBy
  <2>2. CASE role \in Roles
    <3>1. ASSUME NEW v \in U
          PROVE  \E u \in KeyedBy(U, role) :
                     \A r \in Roles : u[r] = v[r] + (IF r = role THEN 1 ELSE 0)
      <4>1. [v EXCEPT ![role] = @ + 1] \in KeyedBy(U, role)
        BY <2>2, TypesAssumption DEF KeyedBy
      <4>2. \A r \in Roles : [v EXCEPT ![role] = @ + 1][r] = v[r] + (IF r = role THEN 1 ELSE 0)
        BY <2>2, <1>2 DEF Counts
      <4>. QED BY <4>1, <4>2
    <3>. QED BY <3>1
  <2>. QED BY <2>1, <2>2
<1>5. Covers(row, Sums(T, KeyedBy(U, role)))
  <2>1. ASSUME NEW t \in T, NEW u \in KeyedBy(U, role), NEW r \in Roles
        PROVE  t[r] + u[r] <= row.labels[r]
    <3>1. PICK v \in U : u[r] = v[r] + (IF r = role THEN 1 ELSE 0)
      BY <1>3
    <3>2. t[r] <= a.labels[r] /\ v[r] <= b.labels[r]
      BY DEF Covers
    <3>. QED BY <1>1, <1>2, <3>1, <3>2
  <2>. QED BY <2>1 DEF Covers, Sums
<1>6. ASSUME Names(a, T), Names(b, U), Positive(T), Positive(U), T # {}, U # {}
      PROVE  Names(row, Sums(T, KeyedBy(U, role))) /\ Positive(Sums(T, KeyedBy(U, role)))
  <2>1. ASSUME NEW t \in T, NEW v \in U
        PROVE  \E w \in Sums(T, KeyedBy(U, role)) :
                   \A r \in Roles : w[r] = t[r] + v[r] + (IF r = role THEN 1 ELSE 0)
    <3>1. PICK u \in KeyedBy(U, role) :
              \A r \in Roles : u[r] = v[r] + (IF r = role THEN 1 ELSE 0)
      BY <1>4
    <3>2. [r \in Roles |-> t[r] + u[r]] \in Sums(T, KeyedBy(U, role))
      BY DEF Sums
    <3>. QED BY <1>2, <3>1, <3>2
  <2>2. ASSUME NEW r \in Roles, row.labels[r] > 0
        PROVE  \E w \in Sums(T, KeyedBy(U, role)) : w[r] > 0
    <3>1. \A t \in T, v \in U : t[r] >= 0 /\ v[r] >= 0
      BY <1>6 DEF Positive
    <3>2. CASE r = role
      <4>1. PICK t \in T, v \in U : TRUE
        BY <1>6
      <4>. QED BY <1>2, <2>1, <3>1, <3>2, <4>1
    <3>3. CASE r # role /\ a.labels[r] > 0
      <4>1. PICK t \in T : t[r] > 0
        BY <1>6, <3>3 DEF Names
      <4>2. PICK v \in U : TRUE
        BY <1>6
      <4>. QED BY <1>2, <2>1, <3>1, <3>3, <4>1, <4>2
    <3>4. CASE r # role /\ b.labels[r] > 0
      <4>1. PICK v \in U : v[r] > 0
        BY <1>6, <3>4 DEF Names
      <4>2. PICK t \in T : TRUE
        BY <1>6
      <4>. QED BY <1>2, <2>1, <3>1, <3>4, <4>1, <4>2
    <3>. QED BY <1>1, <1>2, <2>2, <3>2, <3>3, <3>4
  <2>3. Positive(Sums(T, KeyedBy(U, role)))
    <3>1. Positive(KeyedBy(U, role)) /\ KeyedBy(U, role) \subseteq Counts
      BY <1>6, KeyOf
    <3>2. ASSUME NEW t \in T, NEW u \in KeyedBy(U, role), NEW r \in Roles
          PROVE  t[r] + u[r] >= 0
      BY <1>2, <1>6, <3>1 DEF Positive, Counts
    <3>. QED BY <3>2 DEF Positive, Sums
  <2>. QED BY <2>2, <2>3 DEF Names
<1>. QED BY <1>5, <1>6

\* A bundle holds the terms of both.
LEMMA BundleRows ==
    ASSUME NEW a \in ClosedRows, NEW b \in ClosedRows,
           NEW T \in SUBSET Counts, NEW U \in SUBSET Counts, Covers(a, T), Covers(b, U)
    PROVE  /\ Covers(UnionRow(a, b), T \cup U)
           /\ Names(a, T) /\ Names(b, U) => Names(UnionRow(a, b), T \cup U)
           /\ Positive(T) /\ Positive(U) => Positive(T \cup U)
<1>1. \A r \in Roles : /\ UnionRow(a, b).labels[r] = a.labels[r] + b.labels[r]
                       /\ a.labels[r] \in Nat /\ b.labels[r] \in Nat
  BY UnionType DEF ClosedRows
<1>2. \A t \in T \cup U, r \in Roles : t[r] \in Int
  BY DEF Counts
<1>. QED BY <1>1, <1>2 DEF Covers, Names, Positive

-----------------------------------------------------------------------------
(* What the checker knows of a value nobody was reported for.                *)

Meanings ==
    [spaces : SUBSET Spaces, items : Nat, terms : SUBSET Counts, unbinds : Nat,
     residue : BOOLEAN, role : Roles \cup {NoRole}]

Agree(t, m) ==
    /\ m \in Meanings
    /\ t.load = Exactly(Sat(m.items))
    /\ t.roles \in ClosedRows /\ Covers(t.roles, m.terms)
    /\ m.unbinds = 0 => Names(t.roles, m.terms) /\ Positive(m.terms)
    /\ t.clean \in {"clean", "noisy"} /\ (t.clean = "noisy" <=> m.residue)
    /\ t.depth = m.unbinds

VectorFits(ty, m) ==
    /\ Agree(AsVector(ty), m)
    /\ AsVector(ty).space \in Spaces /\ m.spaces = {AsVector(ty).space}
    /\ m.terms # {}
    /\ m.role = RoleOf(ty)

TyFits(ty, m) == ty.k # "error" /\ (IsVector(ty) => VectorFits(ty, m))

ValueFits(v) == v.word \in Words /\ (v.word = "none" => TyFits(v.ty, v.m))

\* Halfway through its operands, of which there may be none so far.
SpacesFit(c) ==
    IF c.n = 0 THEN c.ty.space = NoSpace /\ c.m.spaces = {}
    ELSE c.ty.space \in Spaces /\ c.m.spaces = {c.ty.space}

OperandsFit(c) ==
    /\ c.n \in Nat /\ c.vectors = c.n
    /\ c.ty.k = "vec" /\ Agree(c.ty, c.m) /\ c.m.role = NoRole
    /\ SpacesFit(c)
    /\ c.op = "bind" \/ c.n > 0 => c.m.terms # {}

CallFits(c) ==
    /\ {"op", "word"} \subseteq DOMAIN c
    /\ c.op \in {"bind", "bundle", "bundle.left"}
    /\ c.word \in Words
    /\ c.word = "none" => OperandsFit(c)

FitInv ==
    /\ \A v \in values : ValueFits(v)
    /\ call = Idle \/ (CallFits(call) /\ made = Nothing)
    /\ made = Nothing \/ made.value \in values

-----------------------------------------------------------------------------
LEMMA WorseNone ==
    ASSUME NEW w \in Words, NEW x \in Words
    PROVE  Worse(w, x) \in Words /\ (Worse(w, x) = "none" => w = "none" /\ x = "none")
BY DEF Worse, Words

LEMMA BlamedNone ==
    ASSUME NEW w \in Words, NEW codes
    PROVE  /\ Blamed(w, codes) \in Words
           /\ Blamed(w, codes) = "none" => w = "none" /\ \A c \in codes : IsWarning(c)
BY DEF Blamed, Words

\* A symbol is a clean vector of one term.
LEMMA AtomFits ==
    ASSUME NEW s \in Spaces, NEW role \in Roles \cup {NoRole}
    PROVE  TyFits(Sym(s, role), Atom(s, role))
<1> DEFINE ty == Sym(s, role)  m == Atom(s, role)
<1>1. ty.k = "sym" /\ ty.space = s /\ RoleOf(ty) = role
  BY DEF Sym, RoleOf
<1>2. AsVector(ty) = Vec(s, Exactly(1), ClosedEmpty, "clean", 0)
  BY <1>1 DEF AsVector
<1>3. /\ AsVector(ty).space = s /\ AsVector(ty).load = Exactly(1)
      /\ AsVector(ty).roles = ClosedEmpty /\ AsVector(ty).clean = "clean" /\ AsVector(ty).depth = 0
  BY <1>2 DEF Vec
<1>4. /\ m.spaces = {s} /\ m.items = 1 /\ m.terms = {Unkeyed} /\ m.unbinds = 0
      /\ m.residue = FALSE /\ m.role = role
  BY DEF Atom
<1>5. Unkeyed \in Counts /\ \A r \in Roles : Unkeyed[r] = 0
  BY DEF Unkeyed, Counts
<1>6. m \in Meanings
  BY <1>5 DEF Atom, Meanings
<1>7. ClosedEmpty \in ClosedRows /\ \A r \in Roles : ClosedEmpty.labels[r] = 0
  BY DEF ClosedEmpty, ClosedRows
<1>8. Sat(1) = 1
  BY TypesAssumption DEF Sat
<1>9. Agree(AsVector(ty), m)
  BY <1>3, <1>4, <1>5, <1>6, <1>7, <1>8 DEF Agree, Covers, Names, Positive
<1>. QED BY <1>1, <1>3, <1>4, <1>9 DEF TyFits, VectorFits

LEMMA GlobalsFit == \A v \in Globals : ValueFits(v)
<1>1. ASSUME NEW r \in Roles
      PROVE  ValueFits(Value(Sym(RoleSpace[r], r), Atom(RoleSpace[r], r), "none"))
  <2>1. TyFits(Sym(RoleSpace[r], r), Atom(RoleSpace[r], r))
    BY AtomFits, TypesAssumption
  <2>. QED BY <2>1 DEF ValueFits, Value, Words
<1>2. ASSUME NEW s \in Spaces
      PROVE  ValueFits(Value(Sym(s, NoRole), Atom(s, NoRole), "none"))
  BY AtomFits DEF ValueFits, Value, Words
<1>3. ValueFits(Value(IntTy, Atom(NoSpace, NoRole), "none"))
  BY DEF ValueFits, Value, Words, TyFits, IntTy, IsVector
<1>4. ValueFits(Value(ErrorTy, Atom(NoSpace, NoRole), "error"))
  BY DEF ValueFits, Value, Words
<1>. QED BY <1>1, <1>2, <1>3, <1>4 DEF Globals

LEMMA StartFits ==
    ASSUME NEW op \in {"bind", "bundle", "bundle.left"} PROVE CallFits(Start(op))
<1> DEFINE c == Start(op)
<1>1. /\ c.op = op /\ c.n = 0 /\ c.vectors = 0 /\ c.word = "none"
      /\ c.ty = Vec(NoSpace, Exactly(IF op = "bind" THEN 1 ELSE 0), ClosedEmpty, "clean", 0)
      /\ c.m = [spaces |-> {}, items |-> IF op = "bind" THEN 1 ELSE 0,
                terms |-> IF op = "bind" THEN {Unkeyed} ELSE {}, unbinds |-> 0,
                residue |-> FALSE, role |-> NoRole]
      /\ {"op", "word"} \subseteq DOMAIN c
  BY DEF Start
<1>2. /\ c.ty.k = "vec" /\ c.ty.space = NoSpace /\ c.ty.load = Exactly(c.m.items)
      /\ c.ty.roles = ClosedEmpty /\ c.ty.clean = "clean" /\ c.ty.depth = 0
  BY <1>1 DEF Vec
<1>3. Unkeyed \in Counts /\ \A r \in Roles : Unkeyed[r] = 0
  BY DEF Unkeyed, Counts
<1>4. c.m \in Meanings
  BY <1>1, <1>3 DEF Meanings
<1>5. ClosedEmpty \in ClosedRows /\ \A r \in Roles : ClosedEmpty.labels[r] = 0
  BY DEF ClosedEmpty, ClosedRows
<1>6. c.m.items \in {0, 1} /\ Sat(c.m.items) = c.m.items
  BY <1>1, TypesAssumption DEF Sat
<1>7. \A t \in c.m.terms : t = Unkeyed
  BY <1>1
<1>8. Agree(c.ty, c.m)
  BY <1>1, <1>2, <1>3, <1>4, <1>5, <1>6, <1>7 DEF Agree, Covers, Names, Positive
<1>9. OperandsFit(c)
  BY <1>1, <1>2, <1>8 DEF OperandsFit, SpacesFit
<1>. QED BY <1>1, <1>9 DEF CallFits, Words

\* The type of two operands, but for the space.
Merged(new, op, u, t, role) ==
    /\ new.load = IF op = "bind" THEN MultiplyLoad(u.load, t.load) ELSE AddLoad(u.load, t.load)
    /\ new.roles = IF op = "bind" THEN Extend(UnionRow(u.roles, t.roles), role)
                                  ELSE UnionRow(u.roles, t.roles)
    /\ new.clean = CleanOf(u, t)
    /\ new.depth = Deeper(u.depth, t.depth)

\* What one more operand makes of two descriptions that agree.
LEMMA SuperposeAgrees ==
    ASSUME NEW op, NEW u, NEW m, Agree(u, m), m.role = NoRole,
           NEW t, NEW n, Agree(t, n), n.terms # {}, op = "bind" => m.terms # {},
           NEW new, Merged(new, op, u, t, n.role)
    PROVE  Agree(new, Superpose(op, m, n)) /\ Superpose(op, m, n).terms # {}
<1> DEFINE w == Superpose(op, m, n)
<1>0. /\ new.load = IF op = "bind" THEN MultiplyLoad(u.load, t.load) ELSE AddLoad(u.load, t.load)
      /\ new.roles = IF op = "bind" THEN Extend(UnionRow(u.roles, t.roles), n.role)
                                    ELSE UnionRow(u.roles, t.roles)
      /\ new.clean = CleanOf(u, t)
      /\ new.depth = Deeper(u.depth, t.depth)
  BY DEF Merged
<1>1. /\ m.spaces \in SUBSET Spaces /\ m.items \in Nat /\ m.terms \in SUBSET Counts
      /\ m.unbinds \in Nat /\ m.residue \in BOOLEAN
      /\ n.spaces \in SUBSET Spaces /\ n.items \in Nat /\ n.terms \in SUBSET Counts
      /\ n.unbinds \in Nat /\ n.residue \in BOOLEAN /\ n.role \in Roles \cup {NoRole}
  BY DEF Agree, Meanings
<1>2. /\ w.spaces = m.spaces \cup n.spaces
      /\ w.items = IF op = "bind" THEN m.items * n.items ELSE m.items + n.items
      /\ w.terms = IF op = "bind" THEN Sums(m.terms, KeyedBy(n.terms, n.role)) ELSE m.terms \cup n.terms
      /\ w.unbinds = Deeper(m.unbinds, n.unbinds)
      /\ w.residue = (m.residue \/ n.residue)
      /\ w.role = NoRole
  BY DEF Superpose, Keyed, KeyedBy, Sums
<1>3. KeyedBy(n.terms, n.role) \in SUBSET Counts /\ KeyedBy(n.terms, n.role) # {}
  BY <1>1, KeyOf
<1>4. w.terms \in SUBSET Counts /\ w.terms # {}
  BY <1>1, <1>2, <1>3, SumOf
<1>5. w.items \in Nat /\ new.load = Exactly(Sat(w.items))
  <2>1. u.load = Exactly(Sat(m.items)) /\ t.load = Exactly(Sat(n.items))
    BY DEF Agree
  <2>2. AddLoad(u.load, t.load) = Exactly(Sat(m.items + n.items))
    BY <1>1, <2>1, LoadSum
  <2>3. MultiplyLoad(u.load, t.load) = Exactly(Sat(m.items * n.items))
    BY <1>1, <2>1, LoadProduct
  <2>4. m.items * n.items \in Nat /\ m.items + n.items \in Nat
    BY <1>1
  <2>. QED BY <1>0, <1>2, <2>2, <2>3, <2>4
<1>6. /\ w.unbinds \in Nat /\ new.depth = w.unbinds
      /\ w.unbinds = 0 => m.unbinds = 0 /\ n.unbinds = 0
  BY <1>0, <1>1, <1>2 DEF Deeper, Agree
<1>7. w \in Meanings
  <2>1. w = [spaces |-> w.spaces, items |-> w.items, terms |-> w.terms,
             unbinds |-> w.unbinds, residue |-> w.residue, role |-> w.role]
    BY DEF Superpose
  <2>2. w.spaces \in SUBSET Spaces /\ w.residue \in BOOLEAN /\ w.role = NoRole
    BY <1>1, <1>2
  <2>. QED BY <1>4, <1>5, <1>6, <2>1, <2>2 DEF Meanings
<1>8. new.clean \in {"clean", "noisy"} /\ (new.clean = "noisy" <=> w.residue)
  <2>1. new.clean \in {"clean", "noisy"}
        /\ (new.clean = "noisy" <=> u.clean = "noisy" \/ t.clean = "noisy")
    BY <1>0 DEF CleanOf, Agree
  <2>2. (u.clean = "noisy" <=> m.residue) /\ (t.clean = "noisy" <=> n.residue)
    BY DEF Agree
  <2>. QED BY <1>2, <2>1, <2>2
<1>9. u.roles \in ClosedRows /\ t.roles \in ClosedRows /\ Covers(u.roles, m.terms) /\ Covers(t.roles, n.terms)
  BY DEF Agree
<1>10. CASE op = "bind"
  <2>1. new.roles = Extend(UnionRow(u.roles, t.roles), n.role)
    BY <1>0, <1>10
  <2>2. new.roles \in ClosedRows
    BY <1>1, <1>9, <2>1, UnionType, ExtendType
  <2>3. w.terms = Sums(m.terms, KeyedBy(n.terms, n.role))
    BY <1>2, <1>10
  <2>4. Covers(new.roles, w.terms)
    BY <1>1, <1>9, <2>1, <2>3, BindRows
  <2>5. ASSUME w.unbinds = 0 PROVE Names(new.roles, w.terms) /\ Positive(w.terms)
    <3>1. Names(u.roles, m.terms) /\ Names(t.roles, n.terms) /\ Positive(m.terms) /\ Positive(n.terms)
      BY <1>6, <2>5 DEF Agree
    <3>. QED BY <1>1, <1>9, <1>10, <2>1, <2>3, <3>1, BindRows
  <2>. QED BY <1>4, <1>5, <1>6, <1>7, <1>8, <2>2, <2>4, <2>5 DEF Agree
<1>11. CASE op # "bind"
  <2>1. new.roles = UnionRow(u.roles, t.roles) /\ w.terms = m.terms \cup n.terms
    BY <1>0, <1>2, <1>11
  <2>2. new.roles \in ClosedRows
    BY <1>9, <2>1, UnionType
  <2>3. Covers(UnionRow(u.roles, t.roles), m.terms \cup n.terms)
    BY <1>1, <1>9, BundleRows
  <2>4. Covers(new.roles, w.terms)
    BY <2>1, <2>3
  <2>5. ASSUME w.unbinds = 0 PROVE Names(new.roles, w.terms) /\ Positive(w.terms)
    <3>1. Names(u.roles, m.terms) /\ Names(t.roles, n.terms) /\ Positive(m.terms) /\ Positive(n.terms)
      BY <1>6, <2>5 DEF Agree
    <3>2. /\ Names(UnionRow(u.roles, t.roles), m.terms \cup n.terms)
          /\ Positive(m.terms \cup n.terms)
      BY <1>1, <1>9, <3>1, BundleRows
    <3>. QED BY <2>1, <3>2
  <2>. QED BY <1>4, <1>5, <1>6, <1>7, <1>8, <2>2, <2>4, <2>5 DEF Agree
<1>. QED BY <1>10, <1>11

LEMMA VectorKinds == \A ty : AsVector(ty).space = ty.space /\ (IsVector(ty) => AsVector(ty).k = "vec")
BY DEF AsVector, IsVector, Vec

\* An operand nothing is reported about is of the call's space.
LEMMA TakenSpace ==
    ASSUME NEW c, NEW v, IsVector(v.ty), v.ty.space \in Spaces,
           \A code \in TakeReports(c, v) : IsWarning(code)
    PROVE  c.ty.space \in {NoSpace, v.ty.space}
<1> SUFFICES ASSUME c.ty.space \notin {NoSpace, v.ty.space} PROVE FALSE
  OBVIOUS
<1>1. TakeReports(c, v) = OperandMismatch(c.ty.space, v.ty.space)
  BY TypesAssumption DEF TakeReports, IsVector
<1>2. \E code \in OperandMismatch(c.ty.space, v.ty.space) : ~IsWarning(code)
  BY DEF OperandMismatch, SpaceMismatch, IsWarning
<1>. QED BY <1>1, <1>2

LEMMA TakenParts ==
    ASSUME NEW c, NEW t, NEW role, NEW ty, ty = Taken(c, t, role)
    PROVE  /\ ty.k = "vec"
           /\ ty.space = IF c.ty.space = NoSpace THEN t.space ELSE c.ty.space
           /\ Merged(ty, c.op, c.ty, t, role)
BY DEF Taken, Vec, Merged

LEMMA TakeFits ==
    ASSUME NEW c, CallFits(c), NEW v, ValueFits(v)
    PROVE  CallFits(Take(c, v))
<1>1. CASE ~IsVector(v.ty)
  <2>1. Take(c, v) = [c EXCEPT !.n = @ + 1, !.word = "error"]
    BY <1>1, Zenon DEF Take
  <2>2. Take(c, v).word = "error" /\ Take(c, v).op = c.op /\ DOMAIN Take(c, v) = DOMAIN c
    BY <2>1 DEF CallFits
  <2>. QED BY <2>2 DEF CallFits, Words
<1>2. CASE IsVector(v.ty)
  <2> DEFINE t == AsVector(v.ty)
             u == c.ty
             codes == TakeReports(c, v)
             new == Take(c, v)
  <2>1. /\ new.op = c.op /\ new.n = c.n + 1 /\ new.vectors = c.vectors + 1
        /\ new.word = Worse(Blamed(c.word, codes), v.word)
        /\ new.m = Superpose(c.op, c.m, v.m)
        /\ new.ty = Taken(c, t, RoleOf(v.ty))
        /\ {"op", "word"} \subseteq DOMAIN new
    BY <1>2 DEF Take
  <2>2. /\ new.ty.k = "vec"
        /\ new.ty.space = IF u.space = NoSpace THEN t.space ELSE u.space
        /\ Merged(new.ty, c.op, u, t, RoleOf(v.ty))
    BY <2>1, TakenParts
  <2>3. c.word \in Words /\ v.word \in Words /\ new.word \in Words
    BY <2>1, BlamedNone, WorseNone DEF CallFits, ValueFits
  <2>4. ASSUME new.word = "none" PROVE OperandsFit(new)
    <3>1. v.word = "none" /\ c.word = "none" /\ \A code \in codes : IsWarning(code)
      BY <2>1, <2>3, <2>4, BlamedNone, WorseNone
    <3>2. OperandsFit(c) /\ VectorFits(v.ty, v.m)
      BY <1>2, <3>1 DEF CallFits, ValueFits, TyFits
    <3>3. c.n \in Nat /\ c.vectors = c.n /\ Agree(u, c.m) /\ c.m.role = NoRole
          /\ (c.op = "bind" => c.m.terms # {})
      BY <3>2 DEF OperandsFit
    <3>4. Agree(t, v.m) /\ t.space \in Spaces /\ v.m.spaces = {t.space} /\ v.m.terms # {}
          /\ v.m.role = RoleOf(v.ty)
      BY <3>2 DEF VectorFits
    <3>5. Agree(new.ty, new.m) /\ new.m.terms # {}
      <4>1. Merged(new.ty, c.op, u, t, v.m.role)
        BY <2>2, <3>4
      <4>2. Agree(new.ty, Superpose(c.op, c.m, v.m)) /\ Superpose(c.op, c.m, v.m).terms # {}
        <5>1. PICK op, x, m, y, n, z : /\ op = c.op /\ x = u /\ m = c.m
                                       /\ y = t /\ n = v.m /\ z = new.ty
          OBVIOUS
        <5>2. /\ Agree(x, m) /\ m.role = NoRole /\ Agree(y, n) /\ n.terms # {}
              /\ op = "bind" => m.terms # {}
              /\ Merged(z, op, x, y, n.role)
          BY <3>3, <3>4, <4>1, <5>1, Zenon
        <5>3. Agree(z, Superpose(op, m, n)) /\ Superpose(op, m, n).terms # {}
          BY <5>2, SuperposeAgrees
        <5>. QED BY <5>1, <5>3, Zenon
      <4>. QED BY <2>1, <4>2
    <3>6. new.m.role = NoRole /\ new.m.spaces = c.m.spaces \cup v.m.spaces
      BY <2>1 DEF Superpose
    <3>7. u.space \in {NoSpace, t.space}
      BY <1>2, <3>1, <3>4, VectorKinds, TakenSpace
    <3>8. new.ty.space = t.space /\ new.m.spaces = {t.space}
      BY <2>2, <3>2, <3>4, <3>6, <3>7, TypesAssumption DEF OperandsFit, SpacesFit
    <3>. QED BY <2>1, <2>2, <3>3, <3>4, <3>5, <3>6, <3>8 DEF OperandsFit, SpacesFit
  <2>. QED BY <2>1, <2>3, <2>4 DEF CallFits
<1>. QED BY <1>1, <1>2

-----------------------------------------------------------------------------
(* The other expressions.                                                    *)

LEMMA AsVectorOnce == \A ty : IsVector(ty) => AsVector(AsVector(ty)) = AsVector(ty)
BY VectorKinds DEF AsVector

\* A vector that is no symbol has no role of its own.
LEMMA VecFits ==
    ASSUME NEW ty, NEW m, ty.k = "vec", Agree(ty, m), ty.space \in Spaces,
           m.spaces = {ty.space}, m.terms # {}, m.role = NoRole
    PROVE  TyFits(ty, m)
BY DEF TyFits, VectorFits, AsVector, RoleOf

LEMMA SureVector ==
    ASSUME NEW v, ValueFits(v), v.word = "none", IsVector(v.ty), NEW t, t = AsVector(v.ty)
    PROVE  /\ t.k = "vec" /\ Agree(t, v.m) /\ t.space \in Spaces /\ v.m.spaces = {t.space}
           /\ v.m.terms # {} /\ v.m.role = RoleOf(v.ty)
BY VectorKinds DEF ValueFits, TyFits, VectorFits

LEMMA Blameless ==
    ASSUME NEW w \in Words, NEW codes, Blamed(w, codes) = "none"
    PROVE  w = "none" /\ \A c \in codes : IsWarning(c)
BY BlamedNone

LEMMA CallEnds ==
    ASSUME NEW c, CallFits(c), c.n > 0, c.word = "none"
    PROVE  TyFits(CallType(c), c.m)
<1>1. OperandsFit(c)
  BY DEF CallFits
<1>2. CallType(c) = c.ty
  BY <1>1 DEF CallType, OperandsFit
<1>3. /\ c.ty.k = "vec" /\ Agree(c.ty, c.m) /\ c.ty.space \in Spaces /\ c.m.spaces = {c.ty.space}
      /\ c.m.terms # {} /\ c.m.role = NoRole
  BY <1>1 DEF OperandsFit, SpacesFit
<1>. QED BY <1>2, <1>3, VecFits

LEMMA PermuteFits ==
    ASSUME NEW v, ValueFits(v), v.word = "none", IsVector(v.ty)
    PROVE  TyFits(AsVector(v.ty), [v.m EXCEPT !.role = NoRole])
<1>1. PICK t, m : t = AsVector(v.ty) /\ m = [v.m EXCEPT !.role = NoRole]
  OBVIOUS
<1>2. /\ t.k = "vec" /\ Agree(t, v.m) /\ t.space \in Spaces /\ v.m.spaces = {t.space}
      /\ v.m.terms # {}
  BY <1>1, SureVector
<1>3. v.m \in Meanings
  BY <1>2 DEF Agree
<1>4. /\ m.spaces = v.m.spaces /\ m.items = v.m.items /\ m.terms = v.m.terms
      /\ m.unbinds = v.m.unbinds /\ m.residue = v.m.residue /\ m.role = NoRole /\ m \in Meanings
  BY <1>1, <1>3 DEF Meanings
<1>5. Agree(t, m)
  BY <1>2, <1>4 DEF Agree
<1>. QED BY <1>1, <1>2, <1>4, <1>5, VecFits

LEMMA BroadcastFits ==
    ASSUME NEW v, ValueFits(v), v.word = "none", IsVector(v.ty), NEW into \in Spaces,
           NEW t, t = AsVector(v.ty)
    PROVE  TyFits(Vec(into, t.load, t.roles, "noisy", t.depth),
                  [v.m EXCEPT !.spaces = {into}, !.residue = TRUE, !.role = NoRole])
<1>1. PICK ty, m : /\ ty = Vec(into, t.load, t.roles, "noisy", t.depth)
                   /\ m = [v.m EXCEPT !.spaces = {into}, !.residue = TRUE, !.role = NoRole]
  OBVIOUS
<1>2. Agree(t, v.m) /\ v.m.terms # {}
  BY SureVector
<1>3. v.m \in Meanings
  BY <1>2 DEF Agree
<1>4. /\ m.spaces = {into} /\ m.items = v.m.items /\ m.terms = v.m.terms
      /\ m.unbinds = v.m.unbinds /\ m.residue = TRUE /\ m.role = NoRole /\ m \in Meanings
  BY <1>1, <1>3 DEF Meanings
<1>5. /\ ty.k = "vec" /\ ty.space = into /\ ty.load = t.load /\ ty.roles = t.roles
      /\ ty.clean = "noisy" /\ ty.depth = t.depth
  BY <1>1 DEF Vec
<1>6. Agree(ty, m)
  BY <1>2, <1>4, <1>5 DEF Agree
<1>7. ty.space \in Spaces /\ m.spaces = {ty.space} /\ m.terms # {}
  BY <1>2, <1>4, <1>5
<1>8. TyFits(ty, m)
  BY <1>4, <1>5, <1>6, <1>7, VecFits
<1>. QED BY <1>1, <1>8, Zenon

LEMMA RestrictType ==
    ASSUME NEW a \in ClosedRows, NEW role \in Roles, a.labels[role] # 0
    PROVE  /\ Restrict(a, role) \in ClosedRows
           /\ \A r \in Roles : Restrict(a, role).labels[r] = a.labels[r] - (IF r = role THEN 1 ELSE 0)
<1>1. a.labels \in [Roles -> Nat] /\ a.open = FALSE
  BY DEF ClosedRows
<1>2. PICK f : f = [a.labels EXCEPT ![role] = @ - 1]
  OBVIOUS
<1>3. f \in [Roles -> Nat] /\ \A r \in Roles : f[r] = a.labels[r] - (IF r = role THEN 1 ELSE 0)
  BY <1>1, <1>2
<1>4. Restrict(a, role) = [a EXCEPT !.labels = f]
  BY <1>1, <1>2 DEF Restrict, ClosedRows
<1>5. Restrict(a, role).labels = f /\ Restrict(a, role) \in ClosedRows
  BY <1>3, <1>4 DEF ClosedRows
<1>. QED BY <1>3, <1>5

LEMMA UnbindFits ==
    ASSUME NEW v, ValueFits(v), v.word = "none", IsVector(v.ty), NEW t, t = AsVector(v.ty),
           NEW role \in Roles, t.roles.labels[role] # 0
    PROVE  TyFits(Vec(t.space, Exactly(1), Restrict(t.roles, role), "noisy", t.depth + 1),
                  Unbound(v.m, role))
<1>1. PICK ty, m : /\ ty = Vec(t.space, Exactly(1), Restrict(t.roles, role), "noisy", t.depth + 1)
                   /\ m = Unbound(v.m, role)
  OBVIOUS
<1>2. /\ Agree(t, v.m) /\ v.m.terms # {} /\ t.space \in Spaces /\ v.m.spaces = {t.space}
  BY SureVector
<1>3. v.m \in Meanings /\ t.roles \in ClosedRows /\ Covers(t.roles, v.m.terms) /\ t.depth = v.m.unbinds
  BY <1>2 DEF Agree
<1>4. PICK T : T = {[x EXCEPT ![role] = @ - 1] : x \in v.m.terms}
  OBVIOUS
<1>5. v.m.terms \subseteq Counts /\ v.m.unbinds \in Nat
  BY <1>3 DEF Meanings
<1>6. T \subseteq Counts /\ T # {}
  <2>1. ASSUME NEW x \in v.m.terms PROVE [x EXCEPT ![role] = @ - 1] \in Counts
    BY <1>5 DEF Counts
  <2>2. T \subseteq Counts
    BY <1>4, <2>1
  <2>3. PICK x \in v.m.terms : TRUE
    BY <1>2
  <2>4. [x EXCEPT ![role] = @ - 1] \in T
    BY <1>4, <2>3
  <2>. QED BY <2>2, <2>4
<1>7. m = [v.m EXCEPT !.items = 1, !.unbinds = v.m.unbinds + 1, !.residue = TRUE,
                      !.role = NoRole, !.terms = T]
  BY <1>1, <1>3, <1>4, TypesAssumption DEF Unbound, Meanings
<1>8. /\ m.spaces = v.m.spaces /\ m.items = 1 /\ m.terms = T /\ m.unbinds = v.m.unbinds + 1
      /\ m.residue = TRUE /\ m.role = NoRole /\ m \in Meanings
  <2>1. v.m.unbinds + 1 \in Nat
    BY <1>5
  <2>2. m = [spaces |-> v.m.spaces, items |-> 1, terms |-> T, unbinds |-> v.m.unbinds + 1,
             residue |-> TRUE, role |-> NoRole]
    BY <1>3, <1>7 DEF Meanings
  <2>3. v.m.spaces \in SUBSET Spaces
    BY <1>3 DEF Meanings
  <2>4. m \in Meanings
    BY <1>6, <2>1, <2>2, <2>3 DEF Meanings
  <2>. QED BY <2>2, <2>4
<1>9. /\ ty.k = "vec" /\ ty.space = t.space /\ ty.load = Exactly(1)
      /\ ty.roles = Restrict(t.roles, role) /\ ty.clean = "noisy" /\ ty.depth = t.depth + 1
  BY <1>1 DEF Vec
<1>10. Sat(1) = 1
  BY TypesAssumption DEF Sat
<1>11. ty.roles \in ClosedRows /\ Covers(ty.roles, T)
  <2>1. ASSUME NEW x \in v.m.terms, NEW r \in Roles
        PROVE  [x EXCEPT ![role] = @ - 1][r] <= ty.roles.labels[r]
    <3>1. x[r] \in Int /\ x[r] <= t.roles.labels[r] /\ t.roles.labels[r] \in Nat
      BY <1>3, <1>5 DEF Covers, Counts, ClosedRows
    <3>2. ty.roles.labels[r] = t.roles.labels[r] - (IF r = role THEN 1 ELSE 0)
      BY <1>3, <1>9, RestrictType
    <3>3. [x EXCEPT ![role] = @ - 1][r] = x[r] - (IF r = role THEN 1 ELSE 0)
      BY <1>5, <3>1 DEF Counts
    <3>. QED BY <3>1, <3>2, <3>3
  <2>2. ty.roles \in ClosedRows
    BY <1>3, <1>9, RestrictType
  <2>. QED BY <1>4, <2>1, <2>2 DEF Covers
<1>12. Agree(ty, m)
  BY <1>3, <1>5, <1>8, <1>9, <1>10, <1>11 DEF Agree
<1>13. TyFits(ty, m)
  BY <1>2, <1>6, <1>8, <1>9, <1>12, VecFits
<1>. QED BY <1>1, <1>13, Zenon

-----------------------------------------------------------------------------
(* Every action that finishes an expression finishes it soundly.             *)

Sound(ty, m, w, codes) == w \in Words /\ (Blamed(w, codes) = "none" => TyFits(ty, m))

Finished(op, of) == \E ty, m, w, codes : Sound(ty, m, w, codes) /\ Finish(op, of, ty, m, w, codes)

LEMMA SoundError == ASSUME NEW ty, NEW m, NEW codes PROVE Sound(ty, m, "error", codes)
BY DEF Sound, Words, Blamed

LEMMA SoundCall ==
    ASSUME NEW c, CallFits(c), c.n > 0, NEW codes
    PROVE  Sound(CallType(c), c.m, c.word, codes)
<1>1. c.word \in Words
  BY DEF CallFits
<1>2. Blamed(c.word, codes) = "none" => c.word = "none"
  BY <1>1, BlamedNone
<1>. QED BY <1>1, <1>2, CallEnds DEF Sound

LEMMA SoundPermute ==
    ASSUME NEW v, ValueFits(v), NEW codes,
           ~(IsVector(v.ty) \/ v.ty.k = "error") => "TypeMismatch" \in codes
    PROVE  Sound(IF IsVector(v.ty) THEN AsVector(v.ty) ELSE ErrorTy,
                 [v.m EXCEPT !.role = NoRole], v.word, codes)
<1>1. v.word \in Words
  BY DEF ValueFits
<1>2. ASSUME Blamed(v.word, codes) = "none" PROVE v.word = "none" /\ IsVector(v.ty)
  <2>1. v.word = "none" /\ \A c \in codes : IsWarning(c)
    BY <1>1, <1>2, BlamedNone
  <2>2. v.ty.k # "error" /\ ~IsWarning("TypeMismatch")
    BY <2>1 DEF ValueFits, TyFits, IsWarning
  <2>. QED BY <2>1, <2>2
<1>3. v.word = "none" /\ IsVector(v.ty) =>
          TyFits(AsVector(v.ty), [v.m EXCEPT !.role = NoRole])
  BY PermuteFits
<1>. QED BY <1>1, <1>2, <1>3 DEF Sound

\* A key nothing is reported about is a role, and one the row holds.
LEMMA SoundKey ==
    ASSUME NEW key, ValueFits(key), key.word = "none", NEW t, t.roles.open = FALSE,
           \A c \in UnbindReports(t, key.ty) : IsWarning(c)
    PROVE  /\ RoleOf(key.ty) # NoRole /\ RoleOf(key.ty) \in Roles
           /\ key.m.role = RoleOf(key.ty) /\ t.roles.labels[RoleOf(key.ty)] # 0
<1>1. key.ty.k # "error" /\ (IsVector(key.ty) => VectorFits(key.ty, key.m))
  BY DEF ValueFits, TyFits
<1>2. RoleOf(key.ty) # NoRole
  BY <1>1 DEF UnbindReports, IsWarning
<1>3. key.ty.k = "sym" /\ RoleOf(key.ty) = key.ty.role
  BY <1>2 DEF RoleOf
<1>4. key.m.role = RoleOf(key.ty) /\ key.m \in Meanings
  BY <1>1, <1>3 DEF IsVector, VectorFits, Agree
<1>5. RoleOf(key.ty) \in Roles
  BY <1>2, <1>4 DEF Meanings
<1>6. UnbindReports(t, key.ty) =
          RequireSpace(key.ty.space, t.space)
          \cup (IF t.roles.labels[key.ty.role] = 0 /\ ~t.roles.open THEN {"RoleNotBound"} ELSE {})
  BY <1>1, <1>2 DEF UnbindReports
<1>7. t.roles.labels[key.ty.role] # 0
  <2> SUFFICES ASSUME t.roles.labels[key.ty.role] = 0 PROVE FALSE
    OBVIOUS
  <2>1. "RoleNotBound" \in UnbindReports(t, key.ty)
    BY <1>6
  <2>. QED BY <2>1 DEF IsWarning
<1>. QED BY <1>2, <1>3, <1>4, <1>5, <1>7

LEMMA SoundUnbind ==
    ASSUME NEW v, ValueFits(v), IsVector(v.ty), NEW key, ValueFits(key), NEW codes,
           NEW t, t = AsVector(v.ty), UnbindReports(t, key.ty) \subseteq codes, NEW row,
           row = IF RoleOf(key.ty) = NoRole THEN t.roles ELSE Restrict(t.roles, RoleOf(key.ty))
    PROVE  Sound(Vec(t.space, Exactly(1), row, "noisy", t.depth + 1),
                 Unbound(v.m, key.m.role), Worse(v.word, key.word), codes)
<1>1. PICK w : w = Worse(v.word, key.word)
  OBVIOUS
<1>2. v.word \in Words /\ key.word \in Words
  BY DEF ValueFits
<1>3. w \in Words /\ (w = "none" => v.word = "none" /\ key.word = "none")
  BY <1>1, <1>2, WorseNone
<1>4. ASSUME Blamed(w, codes) = "none"
      PROVE  TyFits(Vec(t.space, Exactly(1), row, "noisy", t.depth + 1), Unbound(v.m, key.m.role))
  <2>1. w = "none" /\ \A c \in codes : IsWarning(c)
    BY <1>3, <1>4, BlamedNone
  <2>2. v.word = "none" /\ key.word = "none" /\ \A c \in UnbindReports(t, key.ty) : IsWarning(c)
    BY <1>3, <2>1
  <2>3. Agree(t, v.m)
    BY <2>2, SureVector
  <2>4. t.roles.open = FALSE
    BY <2>3 DEF Agree, ClosedRows
  <2>5. PICK role : role = RoleOf(key.ty)
    OBVIOUS
  <2>6. role # NoRole /\ role \in Roles /\ key.m.role = role /\ t.roles.labels[role] # 0
    BY <2>2, <2>4, <2>5, SoundKey
  <2>7. row = Restrict(t.roles, role)
    BY <2>5, <2>6
  <2>8. TyFits(Vec(t.space, Exactly(1), Restrict(t.roles, role), "noisy", t.depth + 1),
               Unbound(v.m, role))
    BY <2>2, <2>6, UnbindFits
  <2>. QED BY <2>6, <2>7, <2>8
<1>. QED BY <1>1, <1>3, <1>4 DEF Sound

LEMMA SoundCleanup ==
    ASSUME NEW v, ValueFits(v), v.ty.k = "error" \/ IsVector(v.ty), NEW codes, NEW space,
           space = IF IsVector(v.ty) THEN v.ty.space ELSE NoSpace
    PROVE  Sound(Sym(space, NoRole), Atom(space, NoRole), v.word, codes)
<1>1. v.word \in Words
  BY DEF ValueFits
<1>2. ASSUME Blamed(v.word, codes) = "none" PROVE space \in Spaces
  <2>1. v.word = "none"
    BY <1>1, <1>2, BlamedNone
  <2>2. IsVector(v.ty)
    BY <2>1 DEF ValueFits, TyFits
  <2>3. PICK t : t = AsVector(v.ty)
    OBVIOUS
  <2>4. t.space \in Spaces
    BY <2>1, <2>2, <2>3, SureVector
  <2>. QED BY <2>2, <2>3, <2>4, VectorKinds
<1>. QED BY <1>1, <1>2, AtomFits DEF Sound

LEMMA SoundBroadcast ==
    ASSUME NEW v, ValueFits(v), IsVector(v.ty), NEW s \in Spaces \cup {NoSpace},
           NEW t, t = AsVector(v.ty), NEW into, into = IF s = NoSpace THEN t.space ELSE s
    PROVE  Sound(Vec(into, t.load, t.roles, "noisy", t.depth),
                 [v.m EXCEPT !.spaces = {into}, !.residue = TRUE, !.role = NoRole], v.word, {})
<1>1. v.word \in Words
  BY DEF ValueFits
<1>2. Blamed(v.word, {}) = "none" => v.word = "none"
  BY <1>1, BlamedNone
<1>3. ASSUME v.word = "none"
      PROVE  TyFits(Vec(into, t.load, t.roles, "noisy", t.depth),
                    [v.m EXCEPT !.spaces = {into}, !.residue = TRUE, !.role = NoRole])
  <2>1. t.space \in Spaces
    BY <1>3, SureVector
  <2>2. into \in Spaces
    BY <2>1
  <2>. QED BY <1>3, <2>2, BroadcastFits
<1>. QED BY <1>1, <1>2, <1>3 DEF Sound

LEMMA SoundWord ==
    ASSUME NEW v, ValueFits(v), NEW ty, NEW m, NEW codes
    PROVE  Sound(ty, m, Worse(v.word, "annotation"), codes)
<1>1. v.word \in Words
  BY DEF ValueFits
<1>2. Worse(v.word, "annotation") \in {"annotation", "error"}
  BY DEF Worse
<1>. QED BY <1>2 DEF Sound, Blamed, Words

LEMMA SoundIf ==
    ASSUME NEW t, ValueFits(t), NEW e, ValueFits(e), NEW taken \in {t, e}, NEW codes
    PROVE  Sound(t.ty, taken.m,
                 Worse(Worse(t.word, e.word), IF t.ty = e.ty THEN "none" ELSE "branch"), codes)
<1>1. PICK x, y, w : /\ x = Worse(t.word, e.word)
                     /\ y = IF t.ty = e.ty THEN "none" ELSE "branch"
                     /\ w = Worse(x, y)
  OBVIOUS
<1>2. t.word \in Words /\ e.word \in Words /\ y \in Words
  BY <1>1 DEF ValueFits, Words
<1>3. x \in Words /\ (x = "none" => t.word = "none" /\ e.word = "none")
  BY <1>1, <1>2, WorseNone
<1>4. w \in Words /\ (w = "none" => x = "none" /\ y = "none")
  BY <1>1, <1>2, <1>3, WorseNone
<1>5. ASSUME Blamed(w, codes) = "none" PROVE TyFits(t.ty, taken.m)
  <2>1. w = "none"
    BY <1>4, <1>5, BlamedNone
  <2>2. t.word = "none" /\ e.word = "none" /\ t.ty = e.ty
    BY <1>1, <1>3, <1>4, <2>1
  <2>. QED BY <2>2 DEF ValueFits
<1>. QED BY <1>1, <1>4, <1>5, Zenon DEF Sound

LEMMA SoundList ==
    ASSUME NEW a, ValueFits(a), NEW b, ValueFits(b), NEW ty, NEW m, NEW codes
    PROVE  Sound(ListOf(ty), m, Worse(a.word, b.word), codes)
<1>1. Worse(a.word, b.word) \in Words
  BY WorseNone DEF ValueFits
<1>2. TyFits(ListOf(ty), m)
  BY DEF TyFits, ListOf, IsVector
<1>. QED BY <1>1, <1>2 DEF Sound

LEMMA PermuteStep ==
    ASSUME \A x \in values : ValueFits(x), NEW v \in values, NEW shift \in values, Permute(v, shift)
    PROVE  Finished("permute", v)
<1>1. PICK codes : codes = Require(shift.ty, IntTy)
              \cup (IF IsVector(v.ty) \/ v.ty.k = "error" THEN {} ELSE {"TypeMismatch"})
  OBVIOUS
<1>2. ~(IsVector(v.ty) \/ v.ty.k = "error") => "TypeMismatch" \in codes
  BY <1>1
<1>3. PICK ty, m, w : /\ ty = (IF IsVector(v.ty) THEN AsVector(v.ty) ELSE ErrorTy)
                      /\ m = [v.m EXCEPT !.role = NoRole] /\ w = v.word
  OBVIOUS
<1>4. Sound(ty, m, w, codes)
  BY <1>2, <1>3, SoundPermute
<1>5. Finish("permute", v, ty, m, w, codes)
  BY <1>1, <1>3, Zenon DEF Permute
<1>. QED BY <1>4, <1>5 DEF Finished

LEMMA UnbindStep ==
    ASSUME \A x \in values : ValueFits(x), NEW v \in values, NEW key \in values, Unbind(v, key)
    PROVE  Finished("unbind", v)
<1>1. CASE ~IsVector(v.ty)
  <2>1. PICK codes : codes = IF v.ty.k = "error" THEN {} ELSE {"TypeMismatch"}
    OBVIOUS
  <2>2. Finish("unbind", v, ErrorTy, v.m, "error", codes)
    BY <1>1, <2>1, Zenon DEF Unbind
  <2>. QED BY <2>2, SoundError DEF Finished
<1>2. CASE IsVector(v.ty)
  <2>1. PICK t : t = AsVector(v.ty)
    OBVIOUS
  <2>2. PICK row : row = IF RoleOf(key.ty) = NoRole THEN t.roles ELSE Restrict(t.roles, RoleOf(key.ty))
    OBVIOUS
  <2>3. PICK codes : codes = UnbindReports(t, key.ty) \cup NestingReports(t.depth + 1)
    OBVIOUS
  <2>4. PICK ty, m, w : /\ ty = Vec(t.space, Exactly(1), row, "noisy", t.depth + 1)
                        /\ m = Unbound(v.m, key.m.role) /\ w = Worse(v.word, key.word)
    OBVIOUS
  <2>5. Sound(ty, m, w, codes)
    <3>1. UnbindReports(t, key.ty) \subseteq codes
      BY <2>3
    <3>2. Sound(Vec(t.space, Exactly(1), row, "noisy", t.depth + 1),
                Unbound(v.m, key.m.role), Worse(v.word, key.word), codes)
      BY <1>2, <2>1, <2>2, <3>1, SoundUnbind
    <3>. QED BY <2>4, <3>2
  <2>6. Finish("unbind", v, ty, m, w, codes)
    BY <1>2, <2>1, <2>2, <2>3, <2>4, Zenon DEF Unbind
  <2>. QED BY <2>5, <2>6 DEF Finished
<1>. QED BY <1>1, <1>2

LEMMA CleanupStep ==
    ASSUME \A x \in values : ValueFits(x), NEW v \in values, NEW s, Cleanup(v, s)
    PROVE  Finished("cleanup", v)
<1>1. CASE v.ty.k # "error" /\ ~IsVector(v.ty)
  <2>1. Finish("cleanup", v, ErrorTy, v.m, "error", {"TypeMismatch"})
    BY <1>1, Zenon DEF Cleanup
  <2>. QED BY <2>1, SoundError DEF Finished
<1>2. CASE v.ty.k = "error" \/ IsVector(v.ty)
  <2>1. PICK space : space = IF IsVector(v.ty) THEN v.ty.space ELSE NoSpace
    OBVIOUS
  <2>2. PICK ty, m, w, codes : /\ ty = Sym(space, NoRole) /\ m = Atom(space, NoRole)
                               /\ w = v.word /\ codes = RequireSpace(s, space)
    OBVIOUS
  <2>3. Sound(ty, m, w, codes)
    BY <1>2, <2>1, <2>2, SoundCleanup
  <2>4. Finish("cleanup", v, ty, m, w, codes)
    BY <1>2, <2>1, <2>2, Zenon DEF Cleanup
  <2>. QED BY <2>3, <2>4 DEF Finished
<1>. QED BY <1>1, <1>2

LEMMA BroadcastStep ==
    ASSUME \A x \in values : ValueFits(x), NEW v \in values, NEW s \in Spaces \cup {NoSpace},
           Broadcast(v, s)
    PROVE  Finished("broadcast", v)
<1>1. CASE ~IsVector(v.ty)
  <2>1. PICK codes : codes = IF v.ty.k = "error" THEN {} ELSE {"TypeMismatch"}
    OBVIOUS
  <2>2. Finish("broadcast", v, ErrorTy, v.m, "error", codes)
    BY <1>1, <2>1, Zenon DEF Broadcast
  <2>. QED BY <2>2, SoundError DEF Finished
<1>2. CASE IsVector(v.ty)
  <2>1. PICK t : t = AsVector(v.ty)
    OBVIOUS
  <2>2. PICK into : into = IF s = NoSpace THEN t.space ELSE s
    OBVIOUS
  <2>3. PICK ty, m, w : /\ ty = Vec(into, t.load, t.roles, "noisy", t.depth) /\ w = v.word
                        /\ m = [v.m EXCEPT !.spaces = {into}, !.residue = TRUE, !.role = NoRole]
    OBVIOUS
  <2>4. Sound(ty, m, w, {})
    BY <1>2, <2>1, <2>2, <2>3, SoundBroadcast
  <2>5. Finish("broadcast", v, ty, m, w, {})
    BY <1>2, <2>1, <2>2, <2>3, Zenon DEF Broadcast
  <2>. QED BY <2>4, <2>5 DEF Finished
<1>. QED BY <1>1, <1>2

LEMMA CallStep ==
    ASSUME \A x \in values : ValueFits(x), NEW v \in values, NEW f, Call(v, f)
    PROVE  Finished("call", v)
<1>1. PICK ty, m, w, codes : /\ ty = f.ret /\ m = v.m /\ w = Worse(v.word, "annotation")
                             /\ codes = Require(v.ty, f.param)
  OBVIOUS
<1>2. Finish("call", v, ty, m, w, codes)
  BY <1>1, Zenon DEF Call
<1>. QED BY <1>1, <1>2, SoundWord DEF Finished

LEMMA AnnotateStep ==
    ASSUME \A x \in values : ValueFits(x), NEW v \in values, NEW t, Annotate(v, t)
    PROVE  Finished("annotate", v)
<1>1. PICK m, w, codes : /\ m = v.m /\ w = Worse(v.word, "annotation")
                         /\ codes = Require(v.ty, t) \cup CheckAnnotation(t)
  OBVIOUS
<1>2. Finish("annotate", v, t, m, w, codes)
  BY <1>1, Zenon DEF Annotate
<1>. QED BY <1>1, <1>2, SoundWord DEF Finished

LEMMA IfStep ==
    ASSUME \A x \in values : ValueFits(x), NEW t \in values, NEW e \in values, If(t, e)
    PROVE  Finished("if", e)
<1>1. PICK w, codes : /\ w = Worse(Worse(t.word, e.word), IF t.ty = e.ty THEN "none" ELSE "branch")
                      /\ codes = Require(e.ty, t.ty)
  OBVIOUS
<1>2. PICK taken \in {t, e} : Finish("if", e, t.ty, taken.m, w, codes)
  BY <1>1, Zenon DEF If
<1>3. PICK ty, m : ty = t.ty /\ m = taken.m
  OBVIOUS
<1>4. Sound(ty, m, w, codes)
  BY <1>1, <1>3, SoundIf
<1>. QED BY <1>2, <1>3, <1>4 DEF Finished

LEMMA ListStep ==
    ASSUME \A x \in values : ValueFits(x), NEW a \in values, NEW b \in values, List(a, b)
    PROVE  Finished("list", b)
<1>1. PICK ty, m, w, codes : /\ ty = ListOf(Join(a.ty, b.ty)) /\ m = a.m
                             /\ w = Worse(a.word, b.word) /\ codes = JoinReports(a.ty, b.ty)
  OBVIOUS
<1>2. Finish("list", b, ty, m, w, codes)
  BY <1>1, Zenon DEF List
<1>. QED BY <1>1, <1>2, SoundList DEF Finished

LEMMA CallEndStep ==
    ASSUME CallFits(call), FinishCall
    PROVE  call.op \in {"bind", "bundle", "bundle.left"} /\ Finished(call.op, Nothing.of)
<1>1. PICK ty, m, w, codes, c : /\ c = call /\ ty = CallType(c) /\ m = c.m /\ w = c.word
                                /\ codes = reports \cup CallReports(c)
  OBVIOUS
<1>2. Sound(ty, m, w, codes)
  BY <1>1, SoundCall DEF FinishCall
<1>3. Finish(call.op, Nothing.of, ty, m, w, codes)
  BY <1>1, Zenon DEF FinishCall
<1>. QED BY <1>2, <1>3 DEF Finished, CallFits

\* What a finished expression leaves is fit again.
LEMMA FinishedFits ==
    ASSUME FitInv, NEW op, NEW of, Finished(op, of)
    PROVE  FitInv' /\ made'.op = op /\ made'.of = of
<1>1. PICK ty, m, w, codes : Sound(ty, m, w, codes) /\ Finish(op, of, ty, m, w, codes)
  BY DEF Finished
<1>2. PICK v : v = Value(ty, m, Blamed(w, codes))
  OBVIOUS
<1>3. /\ values' = values \cup {v} /\ made' = [op |-> op, value |-> v, of |-> of]
      /\ call' = Idle
  BY <1>1, <1>2 DEF Finish
<1>4. ValueFits(v)
  BY <1>1, <1>2, BlamedNone DEF Sound, ValueFits, Value
<1>5. \A x \in values' : ValueFits(x)
  BY <1>3, <1>4 DEF FitInv
<1>. QED BY <1>3, <1>5 DEF FitInv

LEMMA FitInvStep == FitInv /\ [Next]_vars => FitInv'
<1> SUFFICES ASSUME FitInv, [Next]_vars PROVE FitInv'
  OBVIOUS
<1>0. /\ \A x \in values : ValueFits(x)
      /\ call = Idle \/ (CallFits(call) /\ made = Nothing)
  BY DEF FitInv
<1>1. CASE \E op \in {"bind", "bundle", "bundle.left"} : StartCall(op)
  <2>1. PICK op \in {"bind", "bundle", "bundle.left"} : StartCall(op)
    BY <1>1
  <2>2. call' = Start(op) /\ made' = Nothing /\ values' = values
    BY <2>1 DEF StartCall
  <2>3. CallFits(Start(op))
    BY StartFits
  <2>. QED BY <1>0, <2>2, <2>3 DEF FitInv
<1>2. CASE \E v \in values : TakeOperand(v)
  <2>1. PICK v \in values : TakeOperand(v)
    BY <1>2
  <2>2. call # Idle /\ call' = Take(call, v) /\ made' = made /\ values' = values
    BY <2>1 DEF TakeOperand
  <2>3. PICK c : c = call
    OBVIOUS
  <2>4. CallFits(Take(c, v))
    BY <1>0, <2>2, <2>3, TakeFits
  <2>. QED BY <1>0, <2>2, <2>3, <2>4 DEF FitInv
<1>3. CASE FinishCall
  <2>1. Finished(call.op, Nothing.of)
    BY <1>0, <1>3, CallEndStep DEF FinishCall
  <2>2. PICK op : op = call.op
    OBVIOUS
  <2>3. Finished(op, Nothing.of)
    BY <2>1, <2>2
  <2>. QED BY <2>3, FinishedFits
<1>4. CASE \E v, w \in values : Permute(v, w) \/ Unbind(v, w) \/ If(v, w) \/ List(v, w)
  <2>1. PICK v \in values, w \in values :
            Permute(v, w) \/ Unbind(v, w) \/ If(v, w) \/ List(v, w)
    BY <1>4
  <2>. QED BY <1>0, <2>1, PermuteStep, UnbindStep, IfStep, ListStep, FinishedFits
<1>5. CASE \E v \in values, s \in Spaces \cup {NoSpace} : Cleanup(v, s) \/ Broadcast(v, s)
  BY <1>0, <1>5, CleanupStep, BroadcastStep, FinishedFits
<1>6. CASE \E v \in values, t \in Declared : Annotate(v, t)
  BY <1>0, <1>6, AnnotateStep, FinishedFits
<1>7. CASE \E v \in values, f \in Signatures : Call(v, f)
  BY <1>0, <1>7, CallStep, FinishedFits
<1>8. CASE UNCHANGED vars
  BY <1>8 DEF vars, FitInv
<1>. QED BY <1>1, <1>2, <1>3, <1>4, <1>5, <1>6, <1>7, <1>8 DEF Next

LEMMA FitInvInit == Init => FitInv
BY GlobalsFit DEF Init, FitInv

\* What the checker infers of a value nobody was reported for is what it is.
THEOREM AlwaysFits == Spec => []FitInv
BY FitInvInit, FitInvStep, PTL DEF Spec

-----------------------------------------------------------------------------
(* The properties of the runs.                                               *)

LEMMA SureFits ==
    ASSUME FitInv, NEW v \in values, Sure(v), NEW t, t = AsVector(v.ty)
    PROVE  /\ t.space \in Spaces /\ v.m.spaces = {t.space} /\ v.m \in Meanings
           /\ t.load = Exactly(Sat(v.m.items)) /\ t.roles \in ClosedRows
           /\ RowTrue(t.roles, v.m)
           /\ (t.clean = "noisy") = v.m.residue /\ t.depth = v.m.unbinds
<1>1. Agree(t, v.m) /\ t.space \in Spaces /\ v.m.spaces = {t.space}
  BY SureVector DEF FitInv, Sure
<1>2. /\ v.m \in Meanings /\ t.load = Exactly(Sat(v.m.items)) /\ t.roles \in ClosedRows
      /\ Covers(t.roles, v.m.terms) /\ (v.m.unbinds = 0 => Names(t.roles, v.m.terms))
      /\ (t.clean = "noisy" <=> v.m.residue) /\ t.depth = v.m.unbinds
  BY <1>1 DEF Agree
<1>3. RowTrue(t.roles, v.m)
  BY <1>2 DEF RowTrue, Covers, Names
<1>4. v.m.residue \in BOOLEAN
  BY <1>2 DEF Meanings
<1>. QED BY <1>1, <1>2, <1>3, <1>4

\* The load inferred of a sure value is the number of its terms, saturated.
THEOREM AlwaysLoads == Spec => []LoadsAreTrue
<1>1. FitInv => LoadsAreTrue
  BY SureFits DEF LoadsAreTrue
<1>. QED BY <1>1, AlwaysFits, PTL

\* A row misses no role a term is keyed by, and invents none before an unbind.
THEOREM AlwaysRows == Spec => []RowsAreTrue
<1>1. ASSUME FitInv, NEW v \in values, Sure(v)
      PROVE  ~AsVector(v.ty).roles.open /\ RowTrue(AsVector(v.ty).roles, v.m)
  <2>1. PICK t : t = AsVector(v.ty)
    OBVIOUS
  <2>2. t.roles \in ClosedRows /\ RowTrue(t.roles, v.m)
    BY <1>1, <2>1, SureFits
  <2>. QED BY <2>1, <2>2 DEF ClosedRows
<1>2. FitInv => RowsAreTrue
  BY <1>1 DEF RowsAreTrue
<1>. QED BY <1>2, AlwaysFits, PTL

\* Residue, nesting and space of a sure value are the vector's own.
THEOREM AlwaysResidue == Spec => []ResidueIsKnown
<1>1. FitInv => ResidueIsKnown
  BY SureFits DEF ResidueIsKnown
<1>. QED BY <1>1, AlwaysFits, PTL

LEMMA SpaceRequired ==
    ASSUME NEW a, NEW b, a \in Spaces, b \in Spaces, RequireSpace(a, b) = {} PROVE a = b
BY TypesAssumption DEF RequireSpace, SpaceMismatch

LEMMA RowRequired ==
    ASSUME NEW found, NEW want, RequireRoles(found, want) = {}, ~want.roles.open,
           found.roles \in ClosedRows, want.roles.labels \in [Roles -> Nat]
    PROVE  want.roles.labels = found.roles.labels
<1>1. MissingFrom(want.roles, found.roles) = {} /\ MissingFrom(found.roles, want.roles) = {}
  BY DEF RequireRoles, ClosedRows
<1>2. found.roles.labels \in [Roles -> Nat]
  BY DEF ClosedRows
<1>3. \A r \in Roles : /\ ~(found.roles.labels[r] < want.roles.labels[r])
                       /\ ~(want.roles.labels[r] < found.roles.labels[r])
  BY <1>1 DEF MissingFrom
<1>4. \A r \in Roles : found.roles.labels[r] = want.roles.labels[r]
  BY <1>2, <1>3
<1>. QED BY <1>2, <1>4

LEMMA AnnotateHolds ==
    ASSUME FitInv, NEW v \in values, NEW t \in Declared, Annotate(v, t)
    PROVE  AnnotationsHold'
<1>1. PICK codes : codes = Require(v.ty, t) \cup CheckAnnotation(t)
  OBVIOUS
<1>2. PICK w : Finish("annotate", v, t, v.m, w, codes)
  BY <1>1 DEF Annotate
<1>3. /\ made'.op = "annotate" /\ made'.of = v /\ made'.value.ty = t /\ made'.value.m = v.m
      /\ reports' = codes
  BY <1>2 DEF Finish, Value
<1>4. ASSUME Sure(v), codes = {}, t.k = "vec"
      PROVE  /\ v.m.spaces = {t.space}
             /\ t.load.low <= Sat(v.m.items) /\ Sat(v.m.items) <= t.load.high
             /\ t.roles.open \/ RowTrue(t.roles, v.m)
             /\ t.clean = "clean" => ~v.m.residue
  <2>1. PICK f : f = AsVector(v.ty)
    OBVIOUS
  <2>2. /\ f.space \in Spaces /\ v.m.spaces = {f.space}
        /\ f.load = Exactly(Sat(v.m.items)) /\ f.roles \in ClosedRows
        /\ RowTrue(f.roles, v.m) /\ (f.clean = "noisy") = v.m.residue
    BY <1>4, <2>1, SureFits
  <2>3. Require(v.ty, t) = RequireVector(f, t)
    BY <1>4, <2>1 DEF Require, RequirePlain, Sure, IsVector
  <2>4. RequireVector(f, t) = {}
    BY <1>1, <1>4, <2>3
  <2>5. /\ RequireSpace(f.space, t.space) = {} /\ RequireLoad(f, t) = {}
        /\ RequireRoles(f, t) = {} /\ RequireClean(f, t) = {}
    BY <2>4 DEF RequireVector
  <2>6. t.space \in Spaces /\ t.roles.labels \in [Roles -> Nat]
    BY <1>4, TypesAssumption
  <2>7. f.space = t.space
    BY <2>2, <2>5, <2>6, SpaceRequired
  <2>8. t.load.low <= Sat(v.m.items) /\ Sat(v.m.items) <= t.load.high
    BY <2>2, <2>5 DEF RequireLoad, Intersects, Exactly
  <2>9. ASSUME ~t.roles.open PROVE RowTrue(t.roles, v.m)
    <3>1. t.roles.labels = f.roles.labels
      BY <2>2, <2>5, <2>6, <2>9, RowRequired
    <3>. QED BY <2>2, <3>1 DEF RowTrue
  <2>10. t.clean = "clean" => ~v.m.residue
    BY <2>2, <2>5 DEF RequireClean
  <2>. QED BY <2>2, <2>7, <2>8, <2>9, <2>10
<1>. QED BY <1>3, <1>4 DEF AnnotationsHold

\* An annotation nothing was reported about is true of the value it is put on.
THEOREM AlwaysAnnotations == Spec => []AnnotationsHold
<1>1. Init => AnnotationsHold
  BY DEF Init, AnnotationsHold, Nothing
<1>2. FitInv /\ AnnotationsHold /\ [Next]_vars => AnnotationsHold'
  <2> SUFFICES ASSUME FitInv, AnnotationsHold, [Next]_vars PROVE AnnotationsHold'
    OBVIOUS
  <2>0. /\ \A x \in values : ValueFits(x)
        /\ call = Idle \/ (CallFits(call) /\ made = Nothing)
    BY DEF FitInv
  <2>1. ASSUME made'.op # "annotate" PROVE AnnotationsHold'
    BY <2>1 DEF AnnotationsHold
  <2>2. CASE \E op \in {"bind", "bundle", "bundle.left"} : StartCall(op)
    BY <2>1, <2>2 DEF StartCall, Nothing
  <2>3. CASE \E v \in values : TakeOperand(v)
    BY <2>0, <2>1, <2>3 DEF TakeOperand, Nothing
  <2>4. CASE FinishCall
    <3>1. PICK op \in {"bind", "bundle", "bundle.left"} : Finished(op, Nothing.of)
      BY <2>0, <2>4, CallEndStep DEF FinishCall
    <3>. QED BY <2>1, <3>1, FinishedFits
  <2>5. CASE \E v, w \in values : Permute(v, w) \/ Unbind(v, w) \/ If(v, w) \/ List(v, w)
    <3>1. PICK v \in values, w \in values :
              Permute(v, w) \/ Unbind(v, w) \/ If(v, w) \/ List(v, w)
      BY <2>5
    <3>. QED BY <2>0, <2>1, <3>1, PermuteStep, UnbindStep, IfStep, ListStep, FinishedFits
  <2>6. CASE \E v \in values, s \in Spaces \cup {NoSpace} : Cleanup(v, s) \/ Broadcast(v, s)
    BY <2>0, <2>1, <2>6, CleanupStep, BroadcastStep, FinishedFits
  <2>7. CASE \E v \in values, t \in Declared : Annotate(v, t)
    BY <2>7, AnnotateHolds
  <2>8. CASE \E v \in values, f \in Signatures : Call(v, f)
    BY <2>0, <2>1, <2>8, CallStep, FinishedFits
  <2>9. CASE UNCHANGED vars
    BY <2>9 DEF vars, AnnotationsHold
  <2>. QED BY <2>2, <2>3, <2>4, <2>5, <2>6, <2>7, <2>8, <2>9 DEF Next
<1>. QED BY <1>1, <1>2, AlwaysFits, PTL DEF Spec

-----------------------------------------------------------------------------
(* The order of operands.                                                    *)

LEMMA SameRow ==
    ASSUME NEW a \in ClosedRows, NEW b \in ClosedRows,
           \A r \in Roles : a.labels[r] = b.labels[r]
    PROVE  a = b
<1>1. a.labels \in [Roles -> Nat] /\ b.labels \in [Roles -> Nat] /\ a.open = FALSE /\ b.open = FALSE
  BY DEF ClosedRows
<1>2. a.labels = b.labels
  BY <1>1
<1>3. a = [labels |-> a.labels, open |-> a.open] /\ b = [labels |-> b.labels, open |-> b.open]
  BY DEF ClosedRows
<1>. QED BY <1>1, <1>2, <1>3

\* What an operand makes of a call whose type is that of i terms.
Superposed(ty, bind, space, n, row, role, clean, depth) ==
    /\ ty = Vec(ty.space, ty.load, ty.roles, ty.clean, ty.depth)
    /\ ty.space = space
    /\ ty.load = Exactly(Sat(n))
    /\ ty.roles \in ClosedRows
    /\ \A r \in Roles : ty.roles.labels[r] = row[r] + (IF bind /\ r = role THEN 1 ELSE 0)
    /\ ty.clean = clean
    /\ ty.depth = depth

LEMMA TakenType ==
    ASSUME NEW op, NEW u, NEW c, c.op = op, c.ty = u, NEW t, NEW role \in Roles \cup {NoRole},
           NEW i \in Nat, NEW j \in Nat, u.load = Exactly(Sat(i)), t.load = Exactly(Sat(j)),
           u.roles \in ClosedRows, t.roles \in ClosedRows,
           NEW n, n = IF op = "bind" THEN i * j ELSE i + j,
           NEW row, row = [r \in Roles |-> u.roles.labels[r] + t.roles.labels[r]],
           NEW ty, ty = Taken(c, t, role)
    PROVE  Superposed(ty, op = "bind", IF u.space = NoSpace THEN t.space ELSE u.space, n, row,
                      role, CleanOf(u, t), Deeper(u.depth, t.depth))
<1>1. /\ ty.k = "vec"
      /\ ty.space = IF u.space = NoSpace THEN t.space ELSE u.space
      /\ Merged(ty, op, u, t, role)
  BY TakenParts
<1>2. ty = Vec(ty.space, ty.load, ty.roles, ty.clean, ty.depth)
  BY DEF Taken, Vec
<1>3. ty.load = Exactly(Sat(n))
  <2>1. AddLoad(u.load, t.load) = Exactly(Sat(i + j))
    BY LoadSum
  <2>2. MultiplyLoad(u.load, t.load) = Exactly(Sat(i * j))
    BY LoadProduct
  <2>. QED BY <1>1, <2>1, <2>2 DEF Merged
<1>4. PICK union : union = UnionRow(u.roles, t.roles)
  OBVIOUS
<1>5. union \in ClosedRows /\ \A r \in Roles : union.labels[r] = row[r] /\ union.labels[r] \in Nat
  <2>1. union \in ClosedRows
        /\ \A r \in Roles : union.labels[r] = u.roles.labels[r] + t.roles.labels[r]
    BY <1>4, UnionType
  <2>. QED BY <2>1 DEF ClosedRows
<1>6. ty.roles = IF op = "bind" THEN Extend(union, role) ELSE union
  BY <1>1, <1>4 DEF Merged
<1>7. /\ Extend(union, role) \in ClosedRows
      /\ \A r \in Roles : Extend(union, role).labels[r] = union.labels[r] + (IF r = role THEN 1 ELSE 0)
  BY <1>5, ExtendType
<1>8. ty.roles \in ClosedRows
      /\ \A r \in Roles : ty.roles.labels[r] = row[r] + (IF op = "bind" /\ r = role THEN 1 ELSE 0)
  BY <1>5, <1>6, <1>7
<1>9. ty.clean = CleanOf(u, t) /\ ty.depth = Deeper(u.depth, t.depth)
  BY <1>1 DEF Merged
<1>. QED BY <1>1, <1>2, <1>3, <1>8, <1>9 DEF Superposed

Known(t, i) ==
    /\ t.space \in Spaces /\ i \in Nat /\ t.load = Exactly(Sat(i)) /\ t.roles \in ClosedRows
    /\ t.clean \in {"clean", "noisy"} /\ t.depth \in Nat

Times(op, role, r) == IF op = "bind" /\ r = role THEN 1 ELSE 0

First(op, t, i, role, ty) ==
    /\ ty = Vec(ty.space, ty.load, ty.roles, ty.clean, ty.depth)
    /\ ty.space = t.space /\ Known(ty, i) /\ ty.clean = t.clean /\ ty.depth = t.depth
    /\ \A r \in Roles : ty.roles.labels[r] = t.roles.labels[r] + Times(op, role, r)

Second(op, u, i, t, j, role, ty) ==
    /\ ty = Vec(ty.space, ty.load, ty.roles, ty.clean, ty.depth)
    /\ ty.space = u.space /\ ty.load = Exactly(Sat(IF op = "bind" THEN i * j ELSE i + j))
    /\ Known(ty, IF op = "bind" THEN i * j ELSE i + j)
    /\ ty.clean = CleanOf(u, t) /\ ty.depth = Deeper(u.depth, t.depth)
    /\ \A r \in Roles :
          ty.roles.labels[r] = u.roles.labels[r] + t.roles.labels[r] + Times(op, role, r)

LEMMA OneTaken ==
    ASSUME NEW op \in {"bind", "bundle"}, NEW c, c = Start(op), NEW t, NEW i, Known(t, i),
           NEW role \in Roles \cup {NoRole}, NEW ty, ty = Taken(c, t, role)
    PROVE  First(op, t, i, role, ty)
<1>1. PICK u, n : u = c.ty /\ n = IF op = "bind" THEN 1 ELSE 0
  OBVIOUS
<1>2. /\ c.op = op /\ u.space = NoSpace /\ u.load = Exactly(n) /\ u.roles = ClosedEmpty
      /\ u.clean = "clean" /\ u.depth = 0
  BY <1>1 DEF Start, Vec
<1>3. Sat(n) = n /\ n \in Nat
  BY <1>1, TypesAssumption DEF Sat
<1>4. u.roles \in ClosedRows /\ \A r \in Roles : u.roles.labels[r] = 0
  BY <1>2 DEF ClosedEmpty, ClosedRows
<1>5. i \in Nat /\ t.load = Exactly(Sat(i)) /\ t.roles \in ClosedRows
  BY DEF Known
<1>6. i = IF op = "bind" THEN n * i ELSE n + i
  BY <1>1, <1>5
<1>7. PICK row : row = [r \in Roles |-> u.roles.labels[r] + t.roles.labels[r]]
  OBVIOUS
<1>8. u.load = Exactly(Sat(n))
  BY <1>2, <1>3
<1>9. Superposed(ty, op = "bind", IF u.space = NoSpace THEN t.space ELSE u.space, i, row,
                 role, CleanOf(u, t), Deeper(u.depth, t.depth))
  BY <1>1, <1>2, <1>3, <1>4, <1>5, <1>6, <1>7, <1>8, TakenType
<1>10. CleanOf(u, t) = t.clean /\ Deeper(u.depth, t.depth) = t.depth
  BY <1>2 DEF CleanOf, Deeper, Known
<1>11. \A r \in Roles : row[r] = t.roles.labels[r]
  <2>1. \A r \in Roles : t.roles.labels[r] \in Nat
    BY <1>5 DEF ClosedRows
  <2>. QED BY <1>4, <1>7, <2>1
<1>12. /\ ty = Vec(ty.space, ty.load, ty.roles, ty.clean, ty.depth)
       /\ ty.space = t.space /\ ty.load = Exactly(Sat(i)) /\ ty.roles \in ClosedRows
       /\ ty.clean = t.clean /\ ty.depth = t.depth
       /\ \A r \in Roles : ty.roles.labels[r] = row[r] + (IF op = "bind" /\ r = role THEN 1 ELSE 0)
  BY <1>2, <1>9, <1>10 DEF Superposed
<1>13. Known(ty, i)
  BY <1>12 DEF Known
<1>. QED BY <1>11, <1>12, <1>13 DEF First, Times

LEMMA TwoTaken ==
    ASSUME NEW op \in {"bind", "bundle"}, NEW u, NEW i, Known(u, i), NEW c, c.op = op, c.ty = u,
           NEW t, NEW j, Known(t, j), NEW role \in Roles \cup {NoRole},
           NEW ty, ty = Taken(c, t, role)
    PROVE  Second(op, u, i, t, j, role, ty)
<1>1. PICK n : n = IF op = "bind" THEN i * j ELSE i + j
  OBVIOUS
<1>2. PICK row : row = [r \in Roles |-> u.roles.labels[r] + t.roles.labels[r]]
  OBVIOUS
<1>3. /\ i \in Nat /\ j \in Nat /\ u.load = Exactly(Sat(i)) /\ t.load = Exactly(Sat(j))
      /\ u.roles \in ClosedRows /\ t.roles \in ClosedRows
  BY DEF Known
<1>4. Superposed(ty, op = "bind", IF u.space = NoSpace THEN t.space ELSE u.space, n, row,
                 role, CleanOf(u, t), Deeper(u.depth, t.depth))
  BY <1>1, <1>2, <1>3, TakenType
<1>5. u.space # NoSpace
  BY TypesAssumption DEF Known
<1>6. n \in Nat
  BY <1>1, <1>3
<1>7. CleanOf(u, t) \in {"clean", "noisy"} /\ Deeper(u.depth, t.depth) \in Nat
  BY DEF CleanOf, Deeper, Known
<1>8. \A r \in Roles : row[r] = u.roles.labels[r] + t.roles.labels[r]
  BY <1>2
<1>9. /\ ty = Vec(ty.space, ty.load, ty.roles, ty.clean, ty.depth)
      /\ ty.space = u.space /\ ty.load = Exactly(Sat(n)) /\ ty.roles \in ClosedRows
      /\ ty.clean = CleanOf(u, t) /\ ty.depth = Deeper(u.depth, t.depth)
      /\ \A r \in Roles : ty.roles.labels[r] = row[r] + (IF op = "bind" /\ r = role THEN 1 ELSE 0)
  BY <1>4, <1>5 DEF Superposed
<1>10. Known(ty, n)
  BY <1>6, <1>7, <1>9 DEF Known
<1>11. \A r \in Roles :
          ty.roles.labels[r] = u.roles.labels[r] + t.roles.labels[r] + Times(op, role, r)
  BY <1>8, <1>9 DEF Times
<1>. QED BY <1>1, <1>9, <1>10, <1>11 DEF Second

\* Two operands make the same type in either order.
LEMMA Swapped ==
    ASSUME NEW op \in {"bind", "bundle"}, NEW c, c = Start(op),
           NEW t, NEW i, Known(t, i), NEW p \in Roles \cup {NoRole},
           NEW u, NEW j, Known(u, j), NEW q \in Roles \cup {NoRole}, t.space = u.space,
           NEW d, d.op = op, d.ty = Taken(c, t, p), NEW e, e.op = op, e.ty = Taken(c, u, q)
    PROVE  /\ Taken(d, u, q) = Taken(e, t, p)
           /\ Known(Taken(d, u, q), IF op = "bind" THEN i * j ELSE i + j)
           /\ Taken(d, u, q).k = "vec"
<1>1. PICK x, y, z, w : /\ x = Taken(c, t, p) /\ y = Taken(d, u, q)
                        /\ z = Taken(c, u, q) /\ w = Taken(e, t, p)
  OBVIOUS
<1>a. First(op, t, i, p, x) /\ First(op, u, j, q, z)
  BY <1>1, OneTaken
<1>b. Known(x, i) /\ Known(z, j) /\ d.ty = x /\ e.ty = z
  BY <1>1, <1>a DEF First
<1>c. Second(op, x, i, u, j, q, y) /\ Second(op, z, j, t, i, p, w)
  BY <1>1, <1>b, TwoTaken
<1>2. /\ x.space = t.space /\ Known(x, i) /\ x.clean = t.clean /\ x.depth = t.depth
      /\ \A r \in Roles : x.roles.labels[r] = t.roles.labels[r] + Times(op, p, r)
  BY <1>a DEF First
<1>3. /\ z.space = u.space /\ Known(z, j) /\ z.clean = u.clean /\ z.depth = u.depth
      /\ \A r \in Roles : z.roles.labels[r] = u.roles.labels[r] + Times(op, q, r)
  BY <1>a DEF First
<1>4. /\ y = Vec(y.space, y.load, y.roles, y.clean, y.depth)
      /\ y.space = x.space /\ y.load = Exactly(Sat(IF op = "bind" THEN i * j ELSE i + j))
      /\ Known(y, IF op = "bind" THEN i * j ELSE i + j)
      /\ y.clean = CleanOf(x, u) /\ y.depth = Deeper(x.depth, u.depth)
      /\ \A r \in Roles :
            y.roles.labels[r] = x.roles.labels[r] + u.roles.labels[r] + Times(op, q, r)
  BY <1>c DEF Second
<1>5. /\ w = Vec(w.space, w.load, w.roles, w.clean, w.depth)
      /\ w.space = z.space /\ w.load = Exactly(Sat(IF op = "bind" THEN j * i ELSE j + i))
      /\ Known(w, IF op = "bind" THEN j * i ELSE j + i)
      /\ w.clean = CleanOf(z, t) /\ w.depth = Deeper(z.depth, t.depth)
      /\ \A r \in Roles :
            w.roles.labels[r] = z.roles.labels[r] + t.roles.labels[r] + Times(op, p, r)
  BY <1>c DEF Second
<1>6. i * j = j * i /\ i + j = j + i
  BY DEF Known
<1>7. y.space = w.space /\ y.load = w.load
  BY <1>2, <1>3, <1>4, <1>5, <1>6
<1>8. y.clean = w.clean /\ y.depth = w.depth
  BY <1>2, <1>3, <1>4, <1>5 DEF CleanOf, Deeper, Known
<1>9. y.roles = w.roles
  <2>1. y.roles \in ClosedRows /\ w.roles \in ClosedRows
    BY <1>4, <1>5 DEF Known
  <2>2. \A r \in Roles : t.roles.labels[r] \in Nat /\ u.roles.labels[r] \in Nat
                         /\ Times(op, p, r) \in Nat /\ Times(op, q, r) \in Nat
    BY DEF Known, ClosedRows, Times
  <2>3. ASSUME NEW r \in Roles PROVE y.roles.labels[r] = w.roles.labels[r]
    <3>1. x.roles.labels[r] = t.roles.labels[r] + Times(op, p, r)
          /\ z.roles.labels[r] = u.roles.labels[r] + Times(op, q, r)
      BY <1>2, <1>3
    <3>2. y.roles.labels[r] = x.roles.labels[r] + u.roles.labels[r] + Times(op, q, r)
          /\ w.roles.labels[r] = z.roles.labels[r] + t.roles.labels[r] + Times(op, p, r)
      BY <1>4, <1>5
    <3>. QED BY <2>2, <3>1, <3>2
  <2>. QED BY <2>1, <2>3, SameRow
<1>10. y = w
  BY <1>4, <1>5, <1>7, <1>8, <1>9
<1>11. y.k = "vec"
  BY <1>4 DEF Vec
<1>. QED BY <1>1, <1>4, <1>10, <1>11

\* What was superposed apart goes in as it is.
LEMMA Nested ==
    ASSUME NEW op \in {"bind", "bundle"}, NEW c, c = Start(op), NEW t, NEW i, Known(t, i),
           t = Vec(t.space, t.load, t.roles, t.clean, t.depth)
    PROVE  Taken(c, t, NoRole) = t
<1>1. PICK x : x = Taken(c, t, NoRole)
  OBVIOUS
<1>2. /\ x = Vec(x.space, x.load, x.roles, x.clean, x.depth)
      /\ x.space = t.space /\ Known(x, i) /\ x.clean = t.clean /\ x.depth = t.depth
      /\ \A r \in Roles : x.roles.labels[r] = t.roles.labels[r] + Times(op, NoRole, r)
  <2>1. First(op, t, i, NoRole, x)
    BY <1>1, OneTaken
  <2>. QED BY <2>1 DEF First
<1>3. x.load = t.load /\ x.roles \in ClosedRows /\ t.roles \in ClosedRows
  BY <1>2 DEF Known
<1>4. \A r \in Roles : x.roles.labels[r] = t.roles.labels[r]
  <2>1. \A r \in Roles : Times(op, NoRole, r) = 0 /\ t.roles.labels[r] \in Nat
    BY <1>3, TypesAssumption DEF Times, ClosedRows
  <2>. QED BY <1>2, <2>1
<1>5. x.roles = t.roles
  BY <1>3, <1>4, SameRow
<1>. QED BY <1>1, <1>2, <1>3, <1>5

LEMMA TakeParts ==
    ASSUME NEW c, NEW v, IsVector(v.ty)
    PROVE  Take(c, v).op = c.op /\ Take(c, v).ty = Taken(c, AsVector(v.ty), RoleOf(v.ty))
BY DEF Take

LEMMA SureKnown ==
    ASSUME FitInv, NEW v \in values, Sure(v), NEW t, t = AsVector(v.ty)
    PROVE  /\ Known(t, v.m.items) /\ RoleOf(v.ty) \in Roles \cup {NoRole}
           /\ t.space = v.ty.space
<1>1. Agree(t, v.m) /\ t.space \in Spaces /\ v.m.role = RoleOf(v.ty)
  BY SureVector DEF FitInv, Sure
<1>2. v.m \in Meanings /\ t.depth = v.m.unbinds
  BY <1>1 DEF Agree
<1>3. v.m.items \in Nat /\ v.m.unbinds \in Nat /\ v.m.role \in Roles \cup {NoRole}
  BY <1>2 DEF Meanings
<1>. QED BY <1>1, <1>2, <1>3, VectorKinds DEF Known, Agree

LEMMA OrderHolds ==
    ASSUME FitInv, NEW a \in values, NEW b \in values, Sure(a), Sure(b), a.ty.space = b.ty.space,
           NEW op \in {"bind", "bundle"}, NEW both, both = Take(Take(Start(op), a), b),
           NEW nested, nested = Value(both.ty, both.m, both.word)
    PROVE  /\ both.ty = Take(Take(Start(op), b), a).ty
           /\ Take(both, a).ty = Take(Take(Start(op), nested), a).ty
<1>1. PICK c, d, e, t, u, p, q, i, j : /\ c = Start(op) /\ d = Take(c, a) /\ e = Take(c, b)
                                       /\ t = AsVector(a.ty) /\ u = AsVector(b.ty)
                                       /\ p = RoleOf(a.ty) /\ q = RoleOf(b.ty)
                                       /\ i = a.m.items /\ j = b.m.items
  OBVIOUS
<1>2. /\ Known(t, i) /\ Known(u, j) /\ t.space = u.space
      /\ p \in Roles \cup {NoRole} /\ q \in Roles \cup {NoRole}
  BY <1>1, SureKnown
<1>3. c.op = op /\ IsVector(a.ty) /\ IsVector(b.ty)
  BY <1>1 DEF Start, Sure
<1>4. d.op = op /\ e.op = op /\ d.ty = Taken(c, t, p) /\ e.ty = Taken(c, u, q)
  BY <1>1, <1>3, TakeParts
<1>5. both = Take(d, b) /\ Take(Take(Start(op), b), a) = Take(e, a)
  BY <1>1
<1>6. both.op = op /\ both.ty = Taken(d, u, q) /\ Take(e, a).ty = Taken(e, t, p)
  BY <1>1, <1>3, <1>4, <1>5, TakeParts
<1>7. /\ Taken(d, u, q) = Taken(e, t, p)
      /\ Known(Taken(d, u, q), IF op = "bind" THEN i * j ELSE i + j)
      /\ Taken(d, u, q).k = "vec"
  BY <1>1, <1>2, <1>4, Swapped
<1>8. PICK x, n : x = both.ty /\ n = IF op = "bind" THEN i * j ELSE i + j
  OBVIOUS
<1>9. Known(x, n) /\ x.k = "vec"
  BY <1>6, <1>7, <1>8
<1>10. x = Vec(x.space, x.load, x.roles, x.clean, x.depth)
  BY <1>6, <1>8 DEF Taken, Vec
<1>11. Taken(c, x, NoRole) = x
  BY <1>1, <1>9, <1>10, Nested
<1>12. nested.ty = x
  BY <1>8 DEF Value
<1>13. IsVector(nested.ty) /\ AsVector(nested.ty) = x /\ RoleOf(nested.ty) = NoRole
  BY <1>9, <1>12 DEF IsVector, AsVector, RoleOf
<1>14. PICK f : f = Take(c, nested)
  OBVIOUS
<1>15. f.op = op /\ f.ty = x
  BY <1>3, <1>11, <1>13, <1>14, TakeParts
<1>16. Take(f, a).ty = Taken(f, t, p) /\ Take(both, a).ty = Taken(both, t, p)
  BY <1>1, <1>3, TakeParts
<1>17. Taken(f, t, p) = Taken(both, t, p)
  BY <1>6, <1>8, <1>15 DEF Taken
<1>. QED BY <1>1, <1>5, <1>6, <1>7, <1>14, <1>16, <1>17

\* Operand order, and the nesting of like calls, make no difference to the type.
THEOREM AlwaysOrder == Spec => []OrderIrrelevant
<1>1. ASSUME FitInv, NEW b \in values, NEW op \in {"bind", "bundle"}, Sure(made.value), Sure(b),
             made.value.ty.space = b.ty.space
      PROVE  LET a == made.value
                 both == Take(Take(Start(op), a), b)
                 nested == Value(both.ty, both.m, both.word)
             IN  /\ both.ty = Take(Take(Start(op), b), a).ty
                 /\ Take(both, a).ty = Take(Take(Start(op), nested), a).ty
  <2>1. PICK a : a = made.value
    OBVIOUS
  <2>2. a \in values /\ Sure(a) /\ a.ty.space = b.ty.space
    BY <1>1, <2>1 DEF FitInv, Nothing, Sure, Value
  <2>3. PICK both : both = Take(Take(Start(op), a), b)
    OBVIOUS
  <2>4. PICK nested : nested = Value(both.ty, both.m, both.word)
    OBVIOUS
  <2>5. /\ both.ty = Take(Take(Start(op), b), a).ty
        /\ Take(both, a).ty = Take(Take(Start(op), nested), a).ty
    BY <1>1, <2>2, <2>3, <2>4, OrderHolds
  <2>. QED BY <2>1, <2>3, <2>4, <2>5
<1>2. FitInv => OrderIrrelevant
  BY <1>1 DEF OrderIrrelevant
<1>. QED BY <1>2, AlwaysFits, PTL
=============================================================================
