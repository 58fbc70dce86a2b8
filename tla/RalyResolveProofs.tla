------------------------- MODULE RalyResolveProofs -------------------------
(***************************************************************************)
(* Theorems about RalyResolve, for every text, every set of names and any  *)
(* depth of blocks: the tables of the open scopes are what their texts say *)
(* so far, so every name means what the text says.                         *)
(***************************************************************************)
EXTENDS RalyResolve, SequenceTheorems, WellFoundedInduction, TLAPS

-----------------------------------------------------------------------------
(* Least and greatest.                                                     *)

LEMMA LeastOf ==
    ASSUME NEW S, S \subseteq Nat, S # {}
    PROVE  Least(S) \in S /\ \A y \in S : Least(S) <= y
<1>1. PICK R : R = OpToRel(<, Nat)
  OBVIOUS
<1>2. IsWellFoundedOn(R, Nat)
  BY <1>1, NatLessThanWellFounded
<1>3. PICK x \in S : \A y \in S : ~(<<y, x>> \in R)
  BY <1>2, WFMin
<1>4. R = {ss \in Nat \X Nat : ss[1] < ss[2]}
  BY <1>1 DEF OpToRel
<1>5. ASSUME NEW y \in S PROVE x <= y
  <2>1. y < x => <<y, x>> \in R
    BY <1>4
  <2>. QED BY <1>3, <2>1
<1>. QED BY <1>3, <1>5 DEF Least

LEMMA LeastIs ==
    ASSUME NEW S, S \subseteq Nat, NEW x \in S, \A y \in S : x <= y
    PROVE  Least(S) = x
<1>1. Least(S) \in S /\ \A y \in S : Least(S) <= y
  BY LeastOf
<1>2. PICK z \in S : z = Least(S)
  BY <1>1
<1>3. z \in Nat /\ x \in Nat /\ z <= x /\ x <= z
  BY <1>1, <1>2
<1>. QED BY <1>2, <1>3

\* A set of levels has a greatest.
LEMMA GreatestOf ==
    ASSUME NEW n \in Nat, NEW S, S \subseteq 1 .. n, S # {}
    PROVE  \E x \in S : \A y \in S : y <= x
<1> DEFINE T == {m \in Nat : \A y \in S : y <= m}
<1>1. n \in T
  OBVIOUS
<1>2. PICK m \in T : \A k \in T : m <= k
  <2>1. T \subseteq Nat /\ T # {}
    BY <1>1
  <2> HIDE DEF T
  <2>. QED BY <2>1, LeastOf
<1>3. m \in S
  <2> SUFFICES ASSUME m \notin S PROVE FALSE
    OBVIOUS
  <2>1. ASSUME NEW y \in S PROVE y <= m - 1
    <3>1. y \in Nat /\ m \in Nat /\ y <= m /\ y # m
      BY <1>2
    <3>. QED BY <3>1
  <2>2. m - 1 \in Nat
    <3>1. PICK y : y \in S
      OBVIOUS
    <3>2. y \in 1 .. n /\ m \in Nat /\ y <= m
      BY <1>2, <3>1
    <3>. QED BY <3>2
  <2>. QED BY <1>2, <2>1, <2>2
<1>. QED BY <1>2, <1>3

-----------------------------------------------------------------------------
(* What a text says of a name: the statements of a scope at level l that    *)
(* show it when the resolver stands at `limit`, and the definition it has.  *)

Shown(stmts, l, ns, n, limit) ==
    {i \in DOMAIN stmts :
        /\ Declares(stmts[i]) /\ stmts[i].name = n /\ ns \in Namespaces(stmts[i])
        /\ IsItem(stmts[i], l) \/ stmts[i].k = "param" \/ i < limit}
Hoisted(stmts, l, S) == {i \in S : IsItem(stmts[i], l)}
First(stmts, l, S) ==
    IF Hoisted(stmts, l, S) # {} THEN Least(Hoisted(stmts, l, S)) ELSE Least(S)
Entry(stmts, l, S) ==
    IF S = {} THEN None ELSE Def(stmts[First(stmts, l, S)].k, l, First(stmts, l, S))

\* Lets of n before a position, and from it on.
LetsOf(stmts, n) == {i \in DOMAIN stmts : stmts[i].k = "let" /\ stmts[i].name = n}
ToCome(stmts, n, limit) ==
    LetsOf(stmts, n) # {} /\ \A i \in LetsOf(stmts, n) : i >= limit

Ns == {"type", "value"}
Defs == [kind : DefKinds, level : Nat, at : Nat]
ScopeTables ==
    [names : [Ns \X Names -> Defs \cup {None}], pending : [Names -> Nat \cup {None}]]

\* An open text: of a file or body, or the parameter of a function.
ParamText(stmts) ==
    /\ stmts \in Seq(ToSet(stmts)) /\ Len(stmts) = 1
    /\ stmts[1].k = "param" /\ stmts[1].name \in Names
OpenText(stmts) == IsText(stmts) \/ ParamText(stmts)

NamesFit(scope, stmts, l, limit) ==
    \A ns \in Ns, n \in Names :
        scope.names[<<ns, n>>] = Entry(stmts, l, Shown(stmts, l, ns, n, limit))
PendingFits(scope, stmts, l, limit) ==
    \A n \in Names : scope.pending[n] # None <=> (l > 1 /\ ToCome(stmts, n, limit))

\* Where the resolver stands in a text: an outer one waits after the statement
\* that opened the next.
Limit(fr, l) == IF l = Len(fr) THEN fr[l].pos ELSE fr[l].pos - 1

TextsOpen(fr) ==
    /\ Len(fr) >= 1
    /\ \E S : fr \in Seq([stmts : S, pos : Nat])
    /\ \A l \in 1 .. Len(fr) :
          /\ OpenText(fr[l].stmts)
          /\ fr[l].pos \in 1 .. Len(fr[l].stmts) + 1
    /\ IsText(fr[1].stmts)
    /\ \A l \in 1 .. Len(fr) - 1 :
          fr[l].pos > 1 /\ fr[l].stmts[fr[l].pos - 1].k \in {"fn", "block", "param"}

TablesAgree(fr, sc) ==
    /\ sc \in Seq(ScopeTables) /\ Len(sc) = Len(fr)
    /\ \A l \in 1 .. Len(fr) :
          /\ NamesFit(sc[l], fr[l].stmts, l, Limit(fr, l))
          /\ PendingFits(sc[l], fr[l].stmts, l, Limit(fr, l))

-----------------------------------------------------------------------------
(* Binding keeps the first definition.                                      *)

NamesOf(scope, ns, n, d) ==
    IF scope.names[<<ns, n>>] = None THEN [scope.names EXCEPT ![<<ns, n>>] = d] ELSE scope.names

LEMMA BindIs ==
    ASSUME NEW sc \in Seq(ScopeTables), Len(sc) >= 1, NEW ns \in Ns, NEW n \in Names, NEW d \in Defs,
           NEW new, new = Bind(sc, ns, n, d)
    PROVE  /\ new \in Seq(ScopeTables) /\ Len(new) = Len(sc)
           /\ \A l \in 1 .. Len(sc) - 1 : new[l] = sc[l]
           /\ new[Len(sc)].pending = sc[Len(sc)].pending
           /\ new[Len(sc)].names[<<ns, n>>] =
                 IF sc[Len(sc)].names[<<ns, n>>] = None THEN d ELSE sc[Len(sc)].names[<<ns, n>>]
           /\ \A ms \in Ns, m \in Names : <<ms, m>> # <<ns, n>> =>
                 new[Len(sc)].names[<<ms, m>>] = sc[Len(sc)].names[<<ms, m>>]
<1>1. PICK k \in Nat : k = Len(sc) /\ k \in 1 .. Len(sc) /\ DOMAIN sc = 1 .. k
  BY LenProperties
<1>2. sc[k] \in ScopeTables /\ <<ns, n>> \in Ns \X Names
  BY <1>1
<1>3. PICK t : t = sc[k].names
  OBVIOUS
<1>4. t \in [Ns \X Names -> Defs \cup {None}]
  BY <1>2, <1>3 DEF ScopeTables
<1>5. CASE t[<<ns, n>>] # None
  <2>1. new = sc
    BY <1>1, <1>3, <1>5 DEF Bind, Last
  <2>. QED BY <1>1, <1>3, <1>5, <2>1
<1>6. CASE t[<<ns, n>>] = None
  <2>1. PICK u : u = [t EXCEPT ![<<ns, n>>] = d]
    OBVIOUS
  <2>2. u \in [Ns \X Names -> Defs \cup {None}]
    BY <1>4, <2>1
  <2>3. new = [sc EXCEPT ![k].names[<<ns, n>>] = d]
    BY <1>1, <1>3, <1>6 DEF Bind, Last
  <2>4. PICK e : e = [sc[k] EXCEPT !.names = u]
    OBVIOUS
  <2>5. e \in ScopeTables /\ e.names = u /\ e.pending = sc[k].pending
    BY <1>2, <2>2, <2>4 DEF ScopeTables
  <2>6. new = [sc EXCEPT ![k] = e]
    BY <1>3, <2>1, <2>3, <2>4
  <2>7. new \in Seq(ScopeTables) /\ Len(new) = Len(sc) /\ new[k] = e
        /\ \A l \in 1 .. k - 1 : new[l] = sc[l]
    BY <1>1, <2>5, <2>6, ExceptSeq
  <2>8. u[<<ns, n>>] = d /\ \A ms \in Ns, m \in Names : <<ms, m>> # <<ns, n>> => u[<<ms, m>>] = t[<<ms, m>>]
    BY <1>2, <1>4, <2>1
  <2>. QED BY <1>1, <1>3, <1>6, <2>5, <2>7, <2>8
<1>. QED BY <1>5, <1>6

\* new is sc with the names of s bound to d in the innermost scope.
Bound(new, sc, s, d) ==
    /\ new \in Seq(ScopeTables) /\ Len(new) = Len(sc)
    /\ \A l \in 1 .. Len(sc) - 1 : new[l] = sc[l]
    /\ new[Len(sc)].pending = sc[Len(sc)].pending
    /\ \A ms \in Ns, m \in Names :
          new[Len(sc)].names[<<ms, m>>] =
              IF ms \in Namespaces(s) /\ m = s.name /\ sc[Len(sc)].names[<<ms, m>>] = None
              THEN d ELSE sc[Len(sc)].names[<<ms, m>>]

LEMMA BindBothIs ==
    ASSUME NEW sc \in Seq(ScopeTables), Len(sc) >= 1, NEW s, s.name \in Names, NEW d \in Defs,
           NEW new, new = BindBoth(sc, s, d)
    PROVE  Bound(new, sc, s, d)
<1>1. PICK mid : mid = (IF "type" \in Namespaces(s) THEN Bind(sc, "type", s.name, d) ELSE sc)
  OBVIOUS
<1>2. new = (IF "value" \in Namespaces(s) THEN Bind(mid, "value", s.name, d) ELSE mid)
  BY <1>1 DEF BindBoth
<1>3. PICK k \in Nat : k = Len(sc) /\ k >= 1
  OBVIOUS
<1>4. /\ mid \in Seq(ScopeTables) /\ Len(mid) = k
      /\ \A l \in 1 .. k - 1 : mid[l] = sc[l]
      /\ mid[k].pending = sc[k].pending
      /\ \A ms \in Ns, m \in Names :
            mid[k].names[<<ms, m>>] =
                IF ms = "type" /\ ms \in Namespaces(s) /\ m = s.name /\ sc[k].names[<<ms, m>>] = None
                THEN d ELSE sc[k].names[<<ms, m>>]
  <2>1. CASE "type" \in Namespaces(s)
    <3>1. mid = Bind(sc, "type", s.name, d) /\ "type" \in Ns
      BY <1>1, <2>1 DEF Ns
    <3>2. /\ mid \in Seq(ScopeTables) /\ Len(mid) = k
          /\ \A l \in 1 .. k - 1 : mid[l] = sc[l]
          /\ mid[k].pending = sc[k].pending
          /\ mid[k].names[<<"type", s.name>>] =
                IF sc[k].names[<<"type", s.name>>] = None THEN d ELSE sc[k].names[<<"type", s.name>>]
          /\ \A ms \in Ns, m \in Names : <<ms, m>> # <<"type", s.name>> =>
                mid[k].names[<<ms, m>>] = sc[k].names[<<ms, m>>]
      BY <1>3, <3>1, BindIs
    <3>. QED BY <2>1, <3>2
  <2>2. CASE "type" \notin Namespaces(s)
    BY <1>1, <1>3, <2>2
  <2>. QED BY <2>1, <2>2
<1>5. CASE "value" \in Namespaces(s)
  <2>1. new = Bind(mid, "value", s.name, d) /\ "value" \in Ns
    BY <1>2, <1>5 DEF Ns
  <2>2. /\ new \in Seq(ScopeTables) /\ Len(new) = k
        /\ \A l \in 1 .. k - 1 : new[l] = mid[l]
        /\ new[k].pending = mid[k].pending
        /\ new[k].names[<<"value", s.name>>] =
              IF mid[k].names[<<"value", s.name>>] = None THEN d ELSE mid[k].names[<<"value", s.name>>]
        /\ \A ms \in Ns, m \in Names : <<ms, m>> # <<"value", s.name>> =>
              new[k].names[<<ms, m>>] = mid[k].names[<<ms, m>>]
    BY <1>3, <1>4, <2>1, BindIs
  <2>3. ASSUME NEW ms \in Ns, NEW m \in Names
        PROVE  new[k].names[<<ms, m>>] =
                   IF ms \in Namespaces(s) /\ m = s.name /\ sc[k].names[<<ms, m>>] = None
                   THEN d ELSE sc[k].names[<<ms, m>>]
    <3>1. CASE ms = "value"
      BY <1>4, <1>5, <2>2, <3>1
    <3>2. CASE ms = "type"
      BY <1>4, <2>2, <3>2
    <3>. QED BY <3>1, <3>2 DEF Ns
  <2>. QED BY <1>3, <1>4, <2>2, <2>3 DEF Bound
<1>6. CASE "value" \notin Namespaces(s)
  <2>1. new = mid
    BY <1>2, <1>6
  <2>. QED BY <1>3, <1>4, <1>6, <2>1 DEF Ns, Bound
<1>. QED BY <1>5, <1>6

-----------------------------------------------------------------------------
(* Declaring the items of a scope, one after another.                       *)

DeclareBody(f, sc, stmts, i) ==
    IF i = 0 THEN [sc |-> sc, spaceOf |-> <<>>]
    ELSE Declared(f[i - 1], stmts[i], Len(sc), i)
Declares0(f, sc, stmts, n) == f = [i \in 0 .. n |-> DeclareBody(f, sc, stmts, i)]

LEMMA DeclareUnfolds ==
    ASSUME NEW sc, NEW stmts
    PROVE  DeclareItems(sc, stmts) = (CHOOSE f : Declares0(f, sc, stmts, Len(stmts)))[Len(stmts)]
BY Zenon DEF DeclareItems, Declares0, DeclareBody

LEMMA DeclareReads ==
    ASSUME NEW sc, NEW stmts, NEW f, NEW g, NEW i \in Nat, i # 0 => f[i - 1] = g[i - 1]
    PROVE  DeclareBody(f, sc, stmts, i) = DeclareBody(g, sc, stmts, i)
BY Zenon DEF DeclareBody

LEMMA DeclareStep ==
    ASSUME NEW sc, NEW stmts, NEW n \in Nat, NEW f, Declares0(f, sc, stmts, n)
    PROVE  \E g : Declares0(g, sc, stmts, n + 1)
<1>1. PICK last : last = DeclareBody(f, sc, stmts, n + 1)
  OBVIOUS
<1>2. PICK g : g = [i \in 0 .. n + 1 |-> IF i = n + 1 THEN last ELSE f[i]]
  OBVIOUS
<1>3. ASSUME NEW i \in 0 .. n + 1 PROVE g[i] = DeclareBody(g, sc, stmts, i)
  <2>1. i # 0 => f[i - 1] = g[i - 1]
    BY <1>2
  <2>2. DeclareBody(f, sc, stmts, i) = DeclareBody(g, sc, stmts, i)
    BY <2>1, DeclareReads
  <2>3. CASE i = n + 1
    BY <1>1, <1>2, <2>2, <2>3
  <2>4. CASE i # n + 1
    <3>1. i \in 0 .. n
      BY <2>4
    <3>2. f[i] = DeclareBody(f, sc, stmts, i)
      BY <3>1 DEF Declares0
    <3>3. g[i] = f[i]
      BY <1>2, <2>4
    <3>. QED BY <2>2, <3>2, <3>3
  <2>. QED BY <2>3, <2>4
<1>4. PICK h : h = [i \in 0 .. n + 1 |-> DeclareBody(g, sc, stmts, i)]
  OBVIOUS
<1>5. g = h
  <2>1. DOMAIN g = DOMAIN h /\ \A i \in 0 .. n + 1 : g[i] = h[i]
    BY <1>2, <1>3, <1>4
  <2>. QED BY <1>2, <1>4, <2>1
<1>. QED BY <1>4, <1>5 DEF Declares0

LEMMA DeclareExists ==
    ASSUME NEW sc, NEW stmts, NEW n \in Nat
    PROVE  \E f : Declares0(f, sc, stmts, n)
<1> DEFINE Bad == {m \in Nat : ~ \E f : Declares0(f, sc, stmts, m)}
<1>1. ASSUME Bad # {} PROVE FALSE
  <2>1. PICK m \in Bad : \A j \in Bad : m <= j
    <3>1. Bad \subseteq Nat
      OBVIOUS
    <3> HIDE DEF Bad
    <3>2. Least(Bad) \in Bad /\ \A j \in Bad : Least(Bad) <= j
      BY <1>1, <3>1, LeastOf
    <3>. QED BY <3>2
  <2>2. \E f : Declares0(f, sc, stmts, 0)
    <3>1. PICK e : e = [sc |-> sc, spaceOf |-> <<>>]
      OBVIOUS
    <3>2. PICK f : f = [i \in 0 .. 0 |-> e]
      OBVIOUS
    <3>3. \A i \in 0 .. 0 : DeclareBody(f, sc, stmts, i) = e
      BY <3>1 DEF DeclareBody
    <3>. QED BY <3>2, <3>3 DEF Declares0
  <2>3. m # 0 /\ m \in Nat
    BY <2>1, <2>2
  <2>4. PICK j \in Nat : m = j + 1
    BY <2>3
  <2>5. \E f : Declares0(f, sc, stmts, j)
    BY <2>1, <2>4
  <2>6. \E f : Declares0(f, sc, stmts, m)
    BY <2>4, <2>5, DeclareStep
  <2>. QED BY <2>1, <2>6
<1>. QED BY <1>1

\* The first i statements' items of a name, and what the table has of them.
ItemsTo(stmts, l, ns, n, i) ==
    {j \in 1 .. i : IsItem(stmts[j], l) /\ stmts[j].name = n /\ ns \in Namespaces(stmts[j])}
FirstItem(stmts, l, S) == IF S = {} THEN None ELSE Def(stmts[Least(S)].k, l, Least(S))

\* sc's innermost scope holds the items of S(ns, n), the rest is as in old.
Holds(sc, old, stmts, i) ==
    /\ sc \in Seq(ScopeTables) /\ Len(sc) = Len(old)
    /\ \A l \in 1 .. Len(old) - 1 : sc[l] = old[l]
    /\ sc[Len(old)].pending = old[Len(old)].pending
    /\ \A ns \in Ns, n \in Names :
          sc[Len(old)].names[<<ns, n>>] =
              FirstItem(stmts, Len(old), ItemsTo(stmts, Len(old), ns, n, i))

LEMMA DefIs ==
    ASSUME NEW k \in DefKinds, NEW l \in Nat, NEW i \in Nat
    PROVE  Def(k, l, i) \in Defs /\ Def(k, l, i) # None
<1>1. Def(k, l, i) \in Defs
  BY DEF Def, Defs
<1>. QED BY <1>1, ResolveAssumption DEF Defs

LEMMA TextIs ==
    ASSUME NEW stmts, IsText(stmts)
    PROVE  /\ Len(stmts) \in Nat /\ DOMAIN stmts = 1 .. Len(stmts)
           /\ \A i \in 1 .. Len(stmts) :
                 /\ stmts[i].k \in {"space", "role", "alias", "fn", "let", "use", "block"}
                 /\ \A l : IsItem(stmts[i], l) => stmts[i].k \in DefKinds /\ stmts[i].name \in Names
                 /\ stmts[i].k = "let" => stmts[i].name \in Names
<1>1. Len(stmts) \in Nat /\ DOMAIN stmts = 1 .. Len(stmts)
  BY DEF IsText
<1>. QED BY <1>1 DEF IsText, IsItem, DefKinds

LEMMA HoldsStep ==
    ASSUME NEW old \in Seq(ScopeTables), Len(old) >= 1, NEW stmts, IsText(stmts),
           NEW i \in 1 .. Len(stmts), NEW acc, Holds(acc.sc, old, stmts, i - 1),
           NEW new, new = Declared(acc, stmts[i], Len(old), i)
    PROVE  Holds(new.sc, old, stmts, i)
<1>1. PICK L \in Nat : L = Len(old) /\ L >= 1
  OBVIOUS
<1>2. PICK s : s = stmts[i]
  OBVIOUS
<1>3. i \in Nat /\ i >= 1 /\ Len(stmts) \in Nat
  BY TextIs
<1>4. \A ns \in Ns, n \in Names :
          /\ ItemsTo(stmts, L, ns, n, i - 1) \subseteq 1 .. i - 1
          /\ ItemsTo(stmts, L, ns, n, i) =
                IF IsItem(s, L) /\ s.name = n /\ ns \in Namespaces(s)
                THEN ItemsTo(stmts, L, ns, n, i - 1) \cup {i} ELSE ItemsTo(stmts, L, ns, n, i - 1)
  <2>1. 1 .. i = (1 .. i - 1) \cup {i}
    BY <1>3
  <2>. QED BY <1>2, <2>1 DEF ItemsTo
<1>5. CASE ~IsItem(s, L)
  <2>1. new = [acc EXCEPT !.spaceOf = Append(@, None)]
    BY <1>1, <1>2, <1>5 DEF Declared
  <2>2. new.sc = acc.sc
    BY <2>1
  <2>3. \A ns \in Ns, n \in Names : ItemsTo(stmts, L, ns, n, i) = ItemsTo(stmts, L, ns, n, i - 1)
    BY <1>4, <1>5
  <2>. QED BY <1>1, <2>2, <2>3 DEF Holds
<1>6. CASE IsItem(s, L)
  <2>1. PICK d : d = Def(s.k, L, i)
    OBVIOUS
  <2>2. s.k \in DefKinds /\ s.name \in Names /\ d \in Defs /\ d # None
    BY <1>2, <1>3, <1>6, <2>1, TextIs, DefIs
  <2>3. new.sc = BindBoth(acc.sc, s, d)
    BY <1>1, <1>2, <1>6, <2>1 DEF Declared
  <2>4. acc.sc \in Seq(ScopeTables) /\ Len(acc.sc) = L
    BY <1>1 DEF Holds
  <2>5. PICK sc : sc = acc.sc
    OBVIOUS
  <2>6. PICK nw : nw = new.sc
    OBVIOUS
  <2>7. /\ nw \in Seq(ScopeTables) /\ Len(nw) = L
        /\ \A l \in 1 .. L - 1 : nw[l] = sc[l]
        /\ nw[L].pending = sc[L].pending
        /\ \A ms \in Ns, m \in Names :
              nw[L].names[<<ms, m>>] =
                  IF ms \in Namespaces(s) /\ m = s.name /\ sc[L].names[<<ms, m>>] = None
                  THEN d ELSE sc[L].names[<<ms, m>>]
    <3>1. sc \in Seq(ScopeTables) /\ Len(sc) = L /\ Len(sc) >= 1 /\ nw = BindBoth(sc, s, d)
      BY <1>1, <2>3, <2>4, <2>5, <2>6
    <3>2. Bound(nw, sc, s, d)
      BY <2>2, <3>1, BindBothIs
    <3>. QED BY <1>1, <2>4, <2>5, <3>2 DEF Bound
  <2>8. ASSUME NEW ms \in Ns, NEW m \in Names
        PROVE  nw[L].names[<<ms, m>>] = FirstItem(stmts, L, ItemsTo(stmts, L, ms, m, i))
    <3>1. PICK S, T : S = ItemsTo(stmts, L, ms, m, i - 1) /\ T = ItemsTo(stmts, L, ms, m, i)
      OBVIOUS
    <3>2. sc[L].names[<<ms, m>>] = FirstItem(stmts, L, S)
      BY <1>1, <2>5, <3>1 DEF Holds
    <3>3. S \subseteq 1 .. i - 1
      BY <1>4, <3>1
    <3>4. CASE ms \in Namespaces(s) /\ m = s.name
      <4>1. T = S \cup {i}
        BY <1>4, <1>6, <3>1, <3>4
      <4>2. CASE S = {}
        <5>1. T = {i} /\ T \subseteq Nat /\ \A y \in T : i <= y
          BY <1>3, <4>1, <4>2
        <5>2. Least(T) = i
          BY <5>1, LeastIs
        <5>3. sc[L].names[<<ms, m>>] = None
          BY <3>2, <4>2 DEF FirstItem
        <5>4. nw[L].names[<<ms, m>>] = d
          BY <2>7, <3>4, <5>3
        <5>. QED BY <1>2, <2>1, <3>1, <5>1, <5>2, <5>4 DEF FirstItem
      <4>3. CASE S # {}
        <5>1. S \subseteq Nat
          BY <3>3
        <5>2. PICK x : x = Least(S)
          OBVIOUS
        <5>3. x \in S /\ \A y \in S : x <= y
          BY <4>3, <5>1, <5>2, LeastOf
        <5>4. T \subseteq Nat /\ x \in T /\ \A y \in T : x <= y
          BY <1>3, <3>3, <4>1, <5>3
        <5>5. Least(T) = x
          BY <5>4, LeastIs
        <5>6. FirstItem(stmts, L, T) = FirstItem(stmts, L, S)
          BY <4>1, <4>3, <5>2, <5>5 DEF FirstItem
        <5>7. stmts[x].k \in DefKinds
          <6>1. x \in 1 .. Len(stmts) /\ IsItem(stmts[x], L)
            BY <1>3, <3>1, <3>3, <5>3 DEF ItemsTo
          <6>. QED BY <6>1, TextIs
        <5>8. sc[L].names[<<ms, m>>] # None
          BY <3>2, <4>3, <5>1, <5>2, <5>3, <5>7, DefIs DEF FirstItem
        <5>. QED BY <2>7, <3>1, <3>2, <5>6, <5>8
      <4>. QED BY <4>2, <4>3
    <3>5. CASE ~(ms \in Namespaces(s) /\ m = s.name)
      BY <1>4, <2>7, <3>1, <3>2, <3>5
    <3>. QED BY <3>4, <3>5
  <2>9. /\ \A l \in 1 .. L - 1 : nw[l] = old[l]
        /\ nw[L].pending = old[L].pending
    BY <1>1, <2>5, <2>7 DEF Holds
  <2>. QED BY <1>1, <2>6, <2>7, <2>8, <2>9 DEF Holds
<1>. QED BY <1>5, <1>6

LEMMA DeclareIs ==
    ASSUME NEW sc \in Seq(ScopeTables), Len(sc) >= 1, NEW stmts, IsText(stmts),
           \A ns \in Ns, n \in Names : sc[Len(sc)].names[<<ns, n>>] = None
    PROVE  Holds(DeclareItems(sc, stmts).sc, sc, stmts, Len(stmts))
<1>1. PICK n \in Nat : n = Len(stmts)
  BY TextIs
<1>2. PICK f : f = CHOOSE g : Declares0(g, sc, stmts, n)
  OBVIOUS
<1>3. Declares0(f, sc, stmts, n) /\ DeclareItems(sc, stmts) = f[n]
  BY <1>1, <1>2, DeclareExists, DeclareUnfolds
<1> DEFINE Bad == {i \in 0 .. n : ~ Holds(f[i].sc, sc, stmts, i)}
<1>4. ASSUME Bad # {} PROVE FALSE
  <2>1. PICK m \in Bad : \A j \in Bad : m <= j
    <3>1. Bad \subseteq Nat
      OBVIOUS
    <3> HIDE DEF Bad
    <3>2. Least(Bad) \in Bad /\ \A j \in Bad : Least(Bad) <= j
      BY <1>4, <3>1, LeastOf
    <3>. QED BY <3>2
  <2>2. CASE m = 0
    <3>1. f[m] = DeclareBody(f, sc, stmts, 0)
      BY <1>1, <1>3, <2>2 DEF Declares0
    <3>2. f[m].sc = sc
      BY <3>1 DEF DeclareBody
    <3>3. \A l, ns, nm : ItemsTo(stmts, l, ns, nm, 0) = {}
      BY DEF ItemsTo
    <3>4. Holds(sc, sc, stmts, 0)
      BY <3>3 DEF Holds, FirstItem
    <3>. QED BY <2>1, <2>2, <3>2, <3>4
  <2>3. CASE m # 0
    <3>1. PICK j \in Nat : m = j + 1 /\ j = m - 1 /\ j \in 0 .. n /\ m \in 1 .. n /\ m \in 0 .. n
      BY <1>1, <2>1, <2>3
    <3>2. Holds(f[j].sc, sc, stmts, j)
      BY <2>1, <3>1
    <3>3. f[m] = Declared(f[j], stmts[m], Len(sc), m)
      BY <1>3, <2>3, <3>1 DEF Declares0, DeclareBody
    <3>4. PICK acc, new : acc = f[j] /\ new = f[m]
      OBVIOUS
    <3>5. m \in 1 .. Len(stmts) /\ Holds(acc.sc, sc, stmts, m - 1) /\ new = Declared(acc, stmts[m], Len(sc), m)
      BY <1>1, <3>1, <3>2, <3>3, <3>4
    <3>6. Holds(new.sc, sc, stmts, m)
      BY <3>5, HoldsStep
    <3>. QED BY <2>1, <3>4, <3>6
  <2>. QED BY <2>2, <2>3
<1>5. Holds(f[n].sc, sc, stmts, n)
  BY <1>1, <1>4
<1>. QED BY <1>1, <1>3, <1>5

\* What declare_items leaves in a scope is what its text shows from the start.
LEMMA ItemsShown ==
    ASSUME NEW stmts, IsText(stmts), NEW l, NEW ns \in Ns, NEW n \in Names
    PROVE  FirstItem(stmts, l, ItemsTo(stmts, l, ns, n, Len(stmts)))
           = Entry(stmts, l, Shown(stmts, l, ns, n, 1))
<1>1. ItemsTo(stmts, l, ns, n, Len(stmts)) = Shown(stmts, l, ns, n, 1)
  <2>1. ASSUME NEW j \in 1 .. Len(stmts)
        PROVE  IsItem(stmts[j], l) <=>
                   (Declares(stmts[j]) /\ (IsItem(stmts[j], l) \/ stmts[j].k = "param" \/ j < 1))
    <3>1. stmts[j].k # "param" /\ ~(j < 1)
      BY TextIs
    <3>2. IsItem(stmts[j], l) => stmts[j].k \in DefKinds
      BY TextIs
    <3>. QED BY <3>1, <3>2 DEF Declares
  <2>2. DOMAIN stmts = 1 .. Len(stmts)
    BY TextIs
  <2>. QED BY <2>1, <2>2 DEF ItemsTo, Shown
<1>2. Hoisted(stmts, l, Shown(stmts, l, ns, n, 1)) = Shown(stmts, l, ns, n, 1)
  BY <1>1 DEF Hoisted, ItemsTo
<1>. QED BY <1>1, <1>2 DEF FirstItem, Entry, First

-----------------------------------------------------------------------------
(* Opening a scope.                                                         *)

LEMMA NewScopeIs ==
    /\ NewScope \in ScopeTables
    /\ \A ns \in Ns, n \in Names : NewScope.names[<<ns, n>>] = None
    /\ \A n \in Names : NewScope.pending[n] = None
BY DEF NewScope, ScopeTables, Ns

LEMMA FirstLet ==
    ASSUME NEW stmts, IsText(stmts), NEW n, NEW x,
           x = SelectInSeq(stmts, LAMBDA s : s.k = "let" /\ s.name = n)
    PROVE  x \in Nat /\ (x # 0 <=> LetsOf(stmts, n) # {})
<1>1. PICK I : I = LetsOf(stmts, n)
  OBVIOUS
<1>2. I \subseteq 1 .. Len(stmts) /\ I \subseteq Nat
  BY <1>1, TextIs DEF LetsOf
<1>3. x = (IF I # {} THEN Min(I) ELSE 0)
  BY <1>1, TextIs DEF SelectInSeq, LetsOf
<1>4. Min(I) = Least(I)
  BY DEF Min, Least
<1>5. CASE I # {}
  <2>1. Least(I) \in I
    BY <1>2, <1>5, LeastOf
  <2>. QED BY <1>1, <1>2, <1>3, <1>4, <1>5, <2>1
<1>6. CASE I = {}
  BY <1>1, <1>3, <1>6
<1>. QED BY <1>5, <1>6

\* new is old with one scope more, whose tables fit the text from its start.
Opened(new, old, stmts) ==
    /\ new \in Seq(ScopeTables) /\ Len(new) = Len(old) + 1
    /\ \A l \in 1 .. Len(old) : new[l] = old[l]
    /\ NamesFit(new[Len(old) + 1], stmts, Len(old) + 1, 1)
    /\ PendingFits(new[Len(old) + 1], stmts, Len(old) + 1, 1)

LEMMA AppendedScope ==
    ASSUME NEW sc \in Seq(ScopeTables)
    PROVE  /\ Append(sc, NewScope) \in Seq(ScopeTables)
           /\ Len(Append(sc, NewScope)) = Len(sc) + 1
           /\ Append(sc, NewScope)[Len(sc) + 1] = NewScope
           /\ \A l \in 1 .. Len(sc) : Append(sc, NewScope)[l] = sc[l]
BY NewScopeIs

LEMMA OpenIs ==
    ASSUME NEW sc \in Seq(ScopeTables), Len(sc) >= 1, NEW stmts, IsText(stmts),
           NEW new, new = OpenBlock(sc, stmts)
    PROVE  Opened(new, sc, stmts)
<1>1. PICK k \in Nat : k = Len(sc) + 1 /\ k > 1 /\ Len(sc) = k - 1
  OBVIOUS
<1>2. PICK one : one = Append(sc, NewScope)
  OBVIOUS
<1>3. /\ one \in Seq(ScopeTables) /\ Len(one) = k /\ one[k] = NewScope
      /\ \A l \in 1 .. k - 1 : one[l] = sc[l]
  BY <1>1, <1>2, AppendedScope
<1>4. PICK all : all = DeclareItems(one, stmts).sc
  OBVIOUS
<1>5. Holds(all, one, stmts, Len(stmts))
  <2>1. Len(one) >= 1 /\ \A ns \in Ns, n \in Names : one[Len(one)].names[<<ns, n>>] = None
    BY <1>1, <1>3, NewScopeIs
  <2>. QED BY <1>3, <1>4, <2>1, DeclareIs
<1>6. /\ all \in Seq(ScopeTables) /\ Len(all) = k
      /\ \A l \in 1 .. k - 1 : all[l] = one[l]
      /\ \A ns \in Ns, n \in Names :
            all[k].names[<<ns, n>>] = FirstItem(stmts, k, ItemsTo(stmts, k, ns, n, Len(stmts)))
  BY <1>3, <1>5 DEF Holds
<1> DEFINE First0(n) == SelectInSeq(stmts, LAMBDA s : s.k = "let" /\ s.name = n)
<1>7. PICK lets : lets = [n \in Names |-> IF First0(n) = 0 THEN None ELSE First0(n)]
  OBVIOUS
<1>8. /\ lets \in [Names -> Nat \cup {None}]
      /\ \A n \in Names : lets[n] # None <=> LetsOf(stmts, n) # {}
  <2>1. ASSUME NEW n \in Names
        PROVE  First0(n) \in Nat /\ (First0(n) # 0 <=> LetsOf(stmts, n) # {})
    BY FirstLet
  <2> HIDE DEF First0
  <2>2. None \notin Nat
    BY ResolveAssumption
  <2>. QED BY <1>7, <2>1, <2>2
<1>9. new = [all EXCEPT ![k].pending = lets]
  <2>1. new = [all EXCEPT ![Len(all)].pending = lets]
    BY <1>2, <1>4, <1>7 DEF OpenBlock
  <2>. QED BY <1>6, <2>1
<1>10. PICK e : e = [all[k] EXCEPT !.pending = lets]
  OBVIOUS
<1>11. e \in ScopeTables /\ e.pending = lets /\ e.names = all[k].names
  <2>1. all[k] \in ScopeTables
    BY <1>1, <1>6
  <2>. QED BY <1>8, <1>10, <2>1 DEF ScopeTables
<1>12. new = [all EXCEPT ![k] = e]
  BY <1>9, <1>10
<1>13. /\ new \in Seq(ScopeTables) /\ Len(new) = k /\ new[k] = e
       /\ \A l \in 1 .. k - 1 : new[l] = all[l]
  BY <1>1, <1>6, <1>11, <1>12, ExceptSeq
<1>14. NamesFit(new[k], stmts, k, 1)
  BY <1>6, <1>11, <1>13, ItemsShown DEF NamesFit
<1>15. PendingFits(new[k], stmts, k, 1)
  <2>1. \A n \in Names : ToCome(stmts, n, 1) <=> LetsOf(stmts, n) # {}
    BY TextIs DEF ToCome, LetsOf
  <2>. QED BY <1>1, <1>8, <1>11, <1>13, <2>1 DEF PendingFits
<1>. QED BY <1>1, <1>3, <1>6, <1>13, <1>14, <1>15 DEF Opened

-----------------------------------------------------------------------------
(* Going on in a text.                                                      *)

LEMMA OpenTextIs ==
    ASSUME NEW stmts, OpenText(stmts)
    PROVE  Len(stmts) \in Nat /\ DOMAIN stmts = 1 .. Len(stmts)
BY TextIs DEF OpenText, ParamText

\* Passing a statement that is not a local let changes nothing.
LEMMA PassedOver ==
    ASSUME NEW stmts, OpenText(stmts), NEW l \in Nat \ {0}, NEW p \in 1 .. Len(stmts),
           stmts[p].k # "let" \/ l = 1, NEW scope,
           NamesFit(scope, stmts, l, p), PendingFits(scope, stmts, l, p)
    PROVE  NamesFit(scope, stmts, l, p + 1) /\ PendingFits(scope, stmts, l, p + 1)
<1>1. Len(stmts) \in Nat /\ DOMAIN stmts = 1 .. Len(stmts) /\ p \in Nat
  BY OpenTextIs
<1>2. ASSUME NEW ns, NEW n
      PROVE  Shown(stmts, l, ns, n, p) = Shown(stmts, l, ns, n, p + 1)
  <2>1. ASSUME NEW i \in 1 .. Len(stmts), Declares(stmts[i])
        PROVE  (IsItem(stmts[i], l) \/ stmts[i].k = "param" \/ i < p)
                   <=> (IsItem(stmts[i], l) \/ stmts[i].k = "param" \/ i < p + 1)
    <3>1. CASE i = p
      BY <2>1, <3>1 DEF Declares, DefKinds, IsItem
    <3>2. CASE i # p
      <4>1. i < p <=> i < p + 1
        BY <1>1, <3>2
      <4>. QED BY <4>1
    <3>. QED BY <3>1, <3>2
  <2>. QED BY <1>1, <2>1 DEF Shown
<1>3. NamesFit(scope, stmts, l, p + 1)
  BY <1>2 DEF NamesFit
<1>4. PendingFits(scope, stmts, l, p + 1)
  <2>1. CASE l = 1
    BY <2>1 DEF PendingFits
  <2>2. CASE stmts[p].k # "let"
    <3>1. \A n \in Names : ToCome(stmts, n, p) <=> ToCome(stmts, n, p + 1)
      <4>1. ASSUME NEW n, NEW i \in LetsOf(stmts, n)
            PROVE  i >= p <=> i >= p + 1
        <5>1. i \in Nat /\ i # p
          BY <1>1, <2>2, <4>1 DEF LetsOf
        <5>. QED BY <1>1, <5>1
      <4>. QED BY <4>1 DEF ToCome
    <3>. QED BY <3>1 DEF PendingFits
  <2>. QED BY <2>1, <2>2
<1>. QED BY <1>3, <1>4

\* A local let binds its name, unless the scope has it already.
LEMMA LetBound ==
    ASSUME NEW stmts, IsText(stmts), NEW l \in Nat, l > 1, NEW p \in 1 .. Len(stmts),
           stmts[p].k = "let", NEW scope \in ScopeTables,
           NamesFit(scope, stmts, l, p), PendingFits(scope, stmts, l, p),
           NEW new,
           \A n \in Names : new.pending[n] = IF n = stmts[p].name THEN None ELSE scope.pending[n],
           \A ns \in Ns, n \in Names :
               new.names[<<ns, n>>] =
                   IF ns = "value" /\ n = stmts[p].name /\ scope.names[<<ns, n>>] = None
                   THEN Def("let", l, p) ELSE scope.names[<<ns, n>>]
    PROVE  NamesFit(new, stmts, l, p + 1) /\ PendingFits(new, stmts, l, p + 1)
<1>1. Len(stmts) \in Nat /\ DOMAIN stmts = 1 .. Len(stmts) /\ p \in Nat
  BY TextIs
<1>2. PICK name : name = stmts[p].name
  OBVIOUS
<1>3. name \in Names
  BY <1>2, TextIs
<1>4. ~IsItem(stmts[p], l) /\ Namespaces(stmts[p]) = {"value"} /\ Declares(stmts[p])
  BY DEF IsItem, Namespaces, Declares, DefKinds
<1>5. ASSUME NEW i \in 1 .. Len(stmts), stmts[i].k # "param", ~IsItem(stmts[i], l)
      PROVE  /\ i # p => ((i < p) <=> (i < p + 1))
             /\ ~(p < p) /\ p < p + 1
  BY <1>1
<1>6. ASSUME NEW ns \in Ns, NEW n \in Names
      PROVE  Shown(stmts, l, ns, n, p + 1) =
                 IF ns = "value" /\ n = name THEN Shown(stmts, l, ns, n, p) \cup {p}
                 ELSE Shown(stmts, l, ns, n, p)
  <2>1. ASSUME NEW i \in 1 .. Len(stmts)
        PROVE  i \in Shown(stmts, l, ns, n, p + 1) <=>
                   (i \in Shown(stmts, l, ns, n, p) \/ (i = p /\ ns = "value" /\ n = name))
    <3>1. CASE i = p
      <4>1. i \in Shown(stmts, l, ns, n, p + 1) <=> (name = n /\ ns \in {"value"})
        BY <1>1, <1>2, <1>4, <3>1 DEF Shown
      <4>2. i \in Shown(stmts, l, ns, n, p) => (name = n /\ ns \in {"value"})
        BY <1>2, <1>4, <3>1 DEF Shown
      <4>. QED BY <3>1, <4>1, <4>2
    <3>2. CASE i # p
      <4>1. i < p <=> i < p + 1
        BY <1>1, <3>2
      <4>. QED BY <3>2, <4>1 DEF Shown
    <3>. QED BY <3>1, <3>2
  <2>2. \A q : Shown(stmts, l, ns, n, q) \subseteq 1 .. Len(stmts)
    BY <1>1 DEF Shown
  <2>. QED BY <2>1, <2>2
<1>7. ASSUME NEW ns \in Ns, NEW n \in Names
      PROVE  new.names[<<ns, n>>] = Entry(stmts, l, Shown(stmts, l, ns, n, p + 1))
  <2>1. PICK S, T : S = Shown(stmts, l, ns, n, p) /\ T = Shown(stmts, l, ns, n, p + 1)
    OBVIOUS
  <2>2. scope.names[<<ns, n>>] = Entry(stmts, l, S)
    BY <2>1 DEF NamesFit
  <2>3. S \subseteq 1 .. Len(stmts)
    BY <1>1, <2>1 DEF Shown
  <2>4. CASE ns = "value" /\ n = name
    <3>1. T = S \cup {p}
      BY <1>6, <2>1, <2>4
    <3>2. Hoisted(stmts, l, T) = Hoisted(stmts, l, S)
      BY <1>4, <3>1 DEF Hoisted
    <3>3. CASE S = {}
      <4>1. T = {p} /\ Hoisted(stmts, l, T) = {}
        BY <3>1, <3>2, <3>3 DEF Hoisted
      <4>2. Least(T) = p
        <5>1. T \subseteq Nat /\ p \in T /\ \A y \in T : p <= y
          BY <1>1, <4>1
        <5>. QED BY <5>1, LeastIs
      <4>3. Entry(stmts, l, T) = Def("let", l, p)
        BY <4>1, <4>2 DEF Entry, First
      <4>4. scope.names[<<ns, n>>] = None
        BY <2>2, <3>3 DEF Entry
      <4>. QED BY <1>2, <2>1, <2>4, <4>3, <4>4
    <3>4. CASE S # {}
      <4>1. PICK H : H = Hoisted(stmts, l, S)
        OBVIOUS
      <4>2. First(stmts, l, S) \in S
        <5>1. H # {} => Least(H) \in H
          <6>1. H \subseteq Nat
            <7>1. H \subseteq S
              BY <4>1 DEF Hoisted
            <7>2. S \subseteq Nat
              BY <1>1, <2>3
            <7>. QED BY <7>1, <7>2
          <6>. QED BY <6>1, LeastOf
        <5>2. Least(S) \in S
          <6>1. S \subseteq Nat
            BY <1>1, <2>3
          <6>. QED BY <3>4, <6>1, LeastOf
        <5>3. H \subseteq S
          BY <4>1 DEF Hoisted
        <5>. QED BY <4>1, <5>1, <5>2, <5>3 DEF First
      <4>3. First(stmts, l, T) = First(stmts, l, S)
        <5>1. CASE H # {}
          BY <3>2, <4>1, <5>1 DEF First
        <5>2. CASE H = {}
          <6>1. ASSUME NEW y \in S PROVE y < p
            <7>1. ~IsItem(stmts[y], l) /\ y \in 1 .. Len(stmts)
              BY <2>3, <4>1, <5>2 DEF Hoisted
            <7>2. stmts[y].k # "param"
              BY <7>1, TextIs
            <7>. QED BY <2>1, <7>1, <7>2 DEF Shown
          <6>2. PICK x : x = Least(S)
            OBVIOUS
          <6>3. x \in S /\ \A y \in S : x <= y
            <7>1. S \subseteq Nat
              BY <1>1, <2>3
            <7>. QED BY <3>4, <6>2, <7>1, LeastOf
          <6>4. T \subseteq Nat /\ x \in T /\ \A y \in T : x <= y
            <7>1. x < p /\ x \in Nat
              BY <1>1, <2>3, <6>1, <6>3
            <7>. QED BY <1>1, <2>3, <3>1, <6>3, <7>1
          <6>5. Least(T) = x
            BY <6>4, LeastIs
          <6>. QED BY <3>2, <4>1, <5>2, <6>2, <6>5 DEF First
        <5>. QED BY <5>1, <5>2
      <4>4. Entry(stmts, l, T) = Entry(stmts, l, S)
        BY <3>1, <3>4, <4>3 DEF Entry
      <4>5. Entry(stmts, l, S) # None
        <5>1. PICK f : f = First(stmts, l, S)
          OBVIOUS
        <5>2. f \in S /\ f \in Nat
          <6>1. f \in S
            BY <4>2, <5>1
          <6>. QED BY <1>1, <2>3, <6>1
        <5>3. stmts[f].k \in DefKinds
          BY <2>1, <5>2 DEF Shown, Declares
        <5>4. Def(stmts[f].k, l, f) # None
          BY <5>2, <5>3, DefIs
        <5>. QED BY <3>4, <5>1, <5>4 DEF Entry
      <4>. QED BY <2>1, <2>2, <4>4, <4>5
    <3>. QED BY <3>3, <3>4
  <2>5. CASE ~(ns = "value" /\ n = name)
    <3>1. T = S
      BY <1>6, <2>1, <2>5
    <3>. QED BY <1>2, <2>1, <2>2, <2>5, <3>1
  <2>. QED BY <2>4, <2>5
<1>8. ASSUME NEW n \in Names
      PROVE  new.pending[n] # None <=> (l > 1 /\ ToCome(stmts, n, p + 1))
  <2>1. CASE n = name
    <3>1. p \in LetsOf(stmts, n) /\ ~(p >= p + 1)
      BY <1>1, <1>2, <2>1 DEF LetsOf
    <3>2. new.pending[n] = None
      BY <1>2, <2>1
    <3>. QED BY <3>1, <3>2 DEF ToCome
  <2>2. CASE n # name
    <3>1. ASSUME NEW i \in LetsOf(stmts, n) PROVE i >= p <=> i >= p + 1
      <4>1. i \in Nat /\ i # p
        BY <1>1, <1>2, <2>2, <3>1 DEF LetsOf
      <4>. QED BY <1>1, <4>1
    <3>2. ToCome(stmts, n, p) <=> ToCome(stmts, n, p + 1)
      BY <3>1 DEF ToCome
    <3>3. new.pending[n] = scope.pending[n]
      BY <1>2, <2>2
    <3>. QED BY <3>2, <3>3 DEF PendingFits
  <2>. QED BY <2>1, <2>2
<1>. QED BY <1>7, <1>8 DEF NamesFit, PendingFits

-----------------------------------------------------------------------------
(* Looking a name up.                                                       *)

SeenAt(fr, l, ns, n, top, at) ==
    Shown(fr[l].stmts, l, ns, n, IF l = top THEN at ELSE fr[l].pos - 1)
Showing(fr, ns, n, top, at) == {l \in 1 .. top : SeenAt(fr, l, ns, n, top, at) # {}}
Greatest(S) == CHOOSE x \in S : \A y \in S : y <= x
LexicalAt(fr, ns, n, top, at) ==
    IF Showing(fr, ns, n, top, at) = {} THEN ErrorDef
    ELSE LET l == Greatest(Showing(fr, ns, n, top, at))
         IN  Entry(fr[l].stmts, l, SeenAt(fr, l, ns, n, top, at))
LaterAt(fr, n, top, at) ==
    \E l \in 2 .. top : \E i \in LetsOf(fr[l].stmts, n) :
        i >= (IF l = top THEN at ELSE fr[l].pos)

ToldBy(u, fr) ==
    u.name # None /\ u.level <= Len(fr) =>
        /\ u.def = IF /\ LexicalAt(fr, u.ns, u.name, u.level, u.at) = ErrorDef
                      /\ u.ns = "type" /\ u.name \in BuiltinNames
                   THEN Builtin ELSE LexicalAt(fr, u.ns, u.name, u.level, u.at)
        /\ u.ns = "value" =>
             (u.code = "UseBeforeDefinition"
                 <=> (u.def = ErrorDef /\ LaterAt(fr, u.name, u.level, u.at)))

\* Entries of shown statements are definitions.
LEMMA EntryIs ==
    ASSUME NEW stmts, OpenText(stmts), NEW l \in Nat, NEW ns, NEW n, NEW limit, NEW S,
           S = Shown(stmts, l, ns, n, limit)
    PROVE  /\ S = {} => Entry(stmts, l, S) = None
           /\ S # {} => Entry(stmts, l, S) \in Defs /\ Entry(stmts, l, S) # None
<1>1. S = {} => Entry(stmts, l, S) = None
  BY DEF Entry
<1>2. ASSUME S # {}
      PROVE  Entry(stmts, l, S) \in Defs /\ Entry(stmts, l, S) # None
  <2>1. S \subseteq 1 .. Len(stmts) /\ S \subseteq Nat
    BY OpenTextIs DEF Shown
  <2>2. PICK H : H = Hoisted(stmts, l, S)
    OBVIOUS
  <2>3. H \subseteq S
    BY <2>2 DEF Hoisted
  <2>4. PICK f : f = First(stmts, l, S)
    OBVIOUS
  <2>5. f \in S
    <3>1. H # {} => Least(H) \in H
      BY <2>1, <2>3, LeastOf
    <3>2. Least(S) \in S
      BY <1>2, <2>1, LeastOf
    <3>. QED BY <2>2, <2>3, <2>4, <3>1, <3>2 DEF First
  <2>6. stmts[f].k \in DefKinds /\ f \in Nat
    BY <2>1, <2>5 DEF Shown, Declares
  <2>7. Def(stmts[f].k, l, f) \in Defs /\ Def(stmts[f].k, l, f) # None
    BY <2>6, DefIs
  <2>. QED BY <1>2, <2>4, <2>7 DEF Entry
<1>. QED BY <1>1, <1>2

\* Which scope a lookup finds a name in.
LEMMA InnermostNames ==
    ASSUME NEW sc \in Seq(ScopeTables), NEW ns, NEW n, NEW S,
           S = {l \in 1 .. Len(sc) : sc[l].names[<<ns, n>>] # None}
    PROVE  /\ S = {} => Lookup(sc, ns, n) = None
           /\ S # {} => Greatest(S) \in S /\ Lookup(sc, ns, n) = sc[Greatest(S)].names[<<ns, n>>]
<1>1. Len(sc) \in Nat
  OBVIOUS
<1>2. PICK x : x = Innermost(sc, LAMBDA s : s.names[<<ns, n>>] # None)
  OBVIOUS
<1>3. x = (IF S # {} THEN Max(S) ELSE 0)
  BY <1>2 DEF Innermost, SelectLastInSubSeq
<1>4. Lookup(sc, ns, n) = (IF x = 0 THEN None ELSE sc[x].names[<<ns, n>>])
  BY <1>2 DEF Lookup
<1>5. CASE S = {}
  BY <1>3, <1>4, <1>5
<1>6. CASE S # {}
  <2>1. PICK y \in S : \A z \in S : z <= y
    BY <1>1, <1>6, GreatestOf
  <2>2. S \subseteq Nat
    BY <1>1
  <2>3. Greatest(S) \in S /\ \A z \in S : z <= Greatest(S)
    BY <2>1 DEF Greatest
  <2>4. Max(S) \in S /\ \A z \in S : Max(S) >= z
    <3>1. \A z \in S : y >= z
      BY <2>1, <2>2
    <3>. QED BY <2>1, <3>1 DEF Max
  <2>5. PICK a, b : a = Greatest(S) /\ b = Max(S)
    OBVIOUS
  <2>6. a \in Nat /\ b \in Nat /\ a <= b /\ b <= a
    BY <2>2, <2>3, <2>4, <2>5
  <2>7. a = b /\ a \in S /\ a # 0
    BY <1>1, <2>3, <2>5, <2>6
  <2>. QED BY <1>3, <1>4, <1>6, <2>5, <2>7
<1>. QED BY <1>5, <1>6

LEMMA PendingIs ==
    ASSUME NEW sc \in Seq(ScopeTables), NEW n
    PROVE  Pending(sc, n) <=> \E l \in 1 .. Len(sc) : sc[l].pending[n] # None
<1>1. Len(sc) \in Nat
  OBVIOUS
<1>2. PICK S : S = {l \in 1 .. Len(sc) : sc[l].pending[n] # None}
  OBVIOUS
<1>3. PICK x : x = Innermost(sc, LAMBDA s : s.pending[n] # None)
  OBVIOUS
<1>4. x = (IF S # {} THEN Max(S) ELSE 0)
  BY <1>2, <1>3 DEF Innermost, SelectLastInSubSeq
<1>5. Pending(sc, n) <=> x # 0
  BY <1>3 DEF Pending
<1>6. S # {} => Max(S) # 0
  <2> SUFFICES ASSUME S # {} PROVE Max(S) # 0
    OBVIOUS
  <2>1. PICK y \in S : \A z \in S : z <= y
    BY <1>1, <1>2, GreatestOf
  <2>2. \A z \in S : y >= z
    BY <1>1, <1>2, <2>1
  <2>3. Max(S) \in S
    BY <2>1, <2>2 DEF Max
  <2>. QED BY <1>2, <2>3
<1>. QED BY <1>2, <1>4, <1>5, <1>6

LEMMA DefsNot == \A d \in Defs : d # ErrorDef /\ d # Builtin /\ d # None
<1>1. \A d \in Defs : d.kind \in DefKinds
  BY DEF Defs
<1>2. ErrorDef.kind = "error" /\ Builtin.kind = "builtin"
  BY DEF ErrorDef, Builtin, Def
<1>3. "error" \notin DefKinds /\ "builtin" \notin DefKinds
  BY DEF DefKinds
<1>4. None \notin Defs
  BY ResolveAssumption DEF Defs
<1>. QED BY <1>1, <1>2, <1>3, <1>4

LEMMA FramesAre ==
    ASSUME NEW fr, TextsOpen(fr)
    PROVE  /\ Len(fr) \in Nat /\ Len(fr) >= 1 /\ Len(fr) \in 1 .. Len(fr)
           /\ \A l \in 1 .. Len(fr) :
                 /\ OpenText(fr[l].stmts) /\ fr[l].pos \in 1 .. Len(fr[l].stmts) + 1
                 /\ fr[l].pos \in Nat /\ fr[l].pos >= 1
                 /\ Len(fr[l].stmts) \in Nat /\ DOMAIN fr[l].stmts = 1 .. Len(fr[l].stmts)
<1>1. Len(fr) \in Nat /\ Len(fr) >= 1
  BY DEF TextsOpen
<1>2. ASSUME NEW l \in 1 .. Len(fr)
      PROVE  /\ OpenText(fr[l].stmts) /\ fr[l].pos \in 1 .. Len(fr[l].stmts) + 1
             /\ fr[l].pos \in Nat /\ fr[l].pos >= 1
             /\ Len(fr[l].stmts) \in Nat /\ DOMAIN fr[l].stmts = 1 .. Len(fr[l].stmts)
  <2>1. OpenText(fr[l].stmts) /\ fr[l].pos \in 1 .. Len(fr[l].stmts) + 1
    BY <1>2 DEF TextsOpen
  <2>2. Len(fr[l].stmts) \in Nat /\ DOMAIN fr[l].stmts = 1 .. Len(fr[l].stmts)
    BY <2>1, OpenTextIs
  <2>. QED BY <2>1, <2>2
<1>. QED BY <1>1, <1>2

\* A lookup finds what the texts say, and fails where they say nothing.
LEMMA LookupIs ==
    ASSUME NEW fr, TextsOpen(fr), NEW sc, TablesAgree(fr, sc), NEW ns \in Ns, NEW n \in Names,
           NEW top, top = Len(fr), NEW at, at = fr[top].pos,
           NEW d, d = Lookup(sc, ns, n), NEW w, w = LexicalAt(fr, ns, n, top, at)
    PROVE  (d = None /\ w = ErrorDef) \/ (d \in Defs /\ d # None /\ w = d)
<1>1. sc \in Seq(ScopeTables) /\ Len(sc) = top /\ top \in Nat /\ top >= 1
  BY FramesAre DEF TablesAgree
<1>2. ASSUME NEW l \in 1 .. top
      PROVE  sc[l].names[<<ns, n>>] = Entry(fr[l].stmts, l, SeenAt(fr, l, ns, n, top, at))
  <2>1. Limit(fr, l) = (IF l = top THEN at ELSE fr[l].pos - 1)
    BY DEF Limit
  <2>2. NamesFit(sc[l], fr[l].stmts, l, Limit(fr, l))
    BY <1>2 DEF TablesAgree
  <2>. QED BY <2>1, <2>2 DEF NamesFit, SeenAt
<1>3. ASSUME NEW l \in 1 .. top
      PROVE  /\ SeenAt(fr, l, ns, n, top, at) = {} => sc[l].names[<<ns, n>>] = None
             /\ SeenAt(fr, l, ns, n, top, at) # {} =>
                   sc[l].names[<<ns, n>>] \in Defs /\ sc[l].names[<<ns, n>>] # None
  <2>1. PICK S : S = SeenAt(fr, l, ns, n, top, at)
    OBVIOUS
  <2>2. OpenText(fr[l].stmts) /\ l \in Nat
    BY <1>1, <1>3, FramesAre
  <2>3. PICK limit : S = Shown(fr[l].stmts, l, ns, n, limit)
    BY <2>1 DEF SeenAt
  <2>4. /\ S = {} => Entry(fr[l].stmts, l, S) = None
        /\ S # {} => Entry(fr[l].stmts, l, S) \in Defs /\ Entry(fr[l].stmts, l, S) # None
    BY <2>2, <2>3, EntryIs
  <2>. QED BY <1>2, <2>1, <2>4
<1>4. PICK S : S = {l \in 1 .. Len(sc) : sc[l].names[<<ns, n>>] # None}
  OBVIOUS
<1>5. S = Showing(fr, ns, n, top, at) /\ S \subseteq 1 .. top
  BY <1>1, <1>3, <1>4 DEF Showing
<1>6. /\ S = {} => d = None
      /\ S # {} => Greatest(S) \in S /\ d = sc[Greatest(S)].names[<<ns, n>>]
  BY <1>1, <1>4, InnermostNames
<1>7. CASE S = {}
  BY <1>5, <1>6, <1>7 DEF LexicalAt
<1>8. CASE S # {}
  <2>1. PICK l \in S : l = Greatest(S)
    BY <1>6, <1>8
  <2>2. l \in 1 .. top /\ d = sc[l].names[<<ns, n>>]
    BY <1>5, <1>6, <1>8, <2>1
  <2>3. w = Entry(fr[l].stmts, l, SeenAt(fr, l, ns, n, top, at))
    BY <1>5, <1>8, <2>1 DEF LexicalAt
  <2>4. SeenAt(fr, l, ns, n, top, at) # {}
    BY <1>5, <2>1 DEF Showing
  <2>. QED BY <1>2, <1>3, <2>2, <2>3, <2>4
<1>. QED BY <1>7, <1>8

\* Where no scope has a value, one still expects it exactly if a let follows.
LEMMA LaterIs ==
    ASSUME NEW fr, TextsOpen(fr), NEW sc, TablesAgree(fr, sc), NEW n \in Names,
           NEW top, top = Len(fr), NEW at, at = fr[top].pos, Lookup(sc, "value", n) = None
    PROVE  Pending(sc, n) <=> LaterAt(fr, n, top, at)
<1>1. sc \in Seq(ScopeTables) /\ Len(sc) = top /\ top \in Nat /\ top >= 1 /\ "value" \in Ns
  BY FramesAre DEF TablesAgree, Ns
<1>2. ASSUME NEW l \in 1 .. top
      PROVE  sc[l].names[<<"value", n>>] = None
  <2>1. PICK S : S = {k \in 1 .. Len(sc) : sc[k].names[<<"value", n>>] # None}
    OBVIOUS
  <2>2. S # {} => /\ Greatest(S) \in S
                  /\ Lookup(sc, "value", n) = sc[Greatest(S)].names[<<"value", n>>]
    BY <1>1, <2>1, InnermostNames
  <2>3. S = {}
    BY <2>1, <2>2
  <2>. QED BY <1>1, <1>2, <2>1, <2>3
<1>3. ASSUME NEW l \in 1 .. top, NEW i \in LetsOf(fr[l].stmts, n)
      PROVE  i >= Limit(fr, l)
  <2>1. OpenText(fr[l].stmts) /\ DOMAIN fr[l].stmts = 1 .. Len(fr[l].stmts) /\ l \in Nat
        /\ Limit(fr, l) \in Int /\ Len(fr[l].stmts) \in Nat
    <3>1. l \in 1 .. Len(fr)
      BY <1>3
    <3>2. fr[l].pos \in Nat
      BY <3>1, FramesAre
    <3>. QED BY <1>1, <3>1, <3>2, FramesAre DEF Limit
  <2>2. PICK S : S = Shown(fr[l].stmts, l, "value", n, Limit(fr, l))
    OBVIOUS
  <2>3. NamesFit(sc[l], fr[l].stmts, l, Limit(fr, l))
    BY <1>3 DEF TablesAgree
  <2>4. S = {}
    <3>1. sc[l].names[<<"value", n>>] = Entry(fr[l].stmts, l, S)
      BY <1>1, <2>2, <2>3 DEF NamesFit
    <3>2. S # {} => Entry(fr[l].stmts, l, S) # None
      BY <2>1, <2>2, EntryIs
    <3>. QED BY <1>2, <3>1, <3>2
  <2>5. i \in DOMAIN fr[l].stmts /\ fr[l].stmts[i].k = "let" /\ fr[l].stmts[i].name = n
    BY <1>3 DEF LetsOf
  <2>6. i < Limit(fr, l) => i \in S
    BY <2>2, <2>5 DEF Shown, Declares, DefKinds, Namespaces
  <2>7. i \in Int
    BY <2>1, <2>5
  <2>. QED BY <2>1, <2>4, <2>6, <2>7
<1>4. ASSUME NEW l \in 1 .. top, NEW i \in LetsOf(fr[l].stmts, n)
      PROVE  i >= (IF l = top THEN at ELSE fr[l].pos)
  <2>1. CASE l = top
    BY <1>3, <1>4, <2>1 DEF Limit
  <2>2. CASE l # top
    <3>1. l \in 1 .. Len(fr) - 1 /\ l \in 1 .. Len(fr)
      BY <1>1, <2>2
    <3>2. fr[l].stmts[fr[l].pos - 1].k # "let"
      BY <3>1 DEF TextsOpen
    <3>3. i # fr[l].pos - 1
      BY <1>4, <3>2 DEF LetsOf
    <3>4. i >= fr[l].pos - 1
      BY <1>3, <1>4, <2>2 DEF Limit
    <3>5. i \in Int /\ fr[l].pos \in Int
      <4>1. DOMAIN fr[l].stmts = 1 .. Len(fr[l].stmts) /\ Len(fr[l].stmts) \in Nat /\ fr[l].pos \in Nat
        BY <3>1, FramesAre
      <4>. QED BY <1>4, <4>1 DEF LetsOf
    <3>. QED BY <2>2, <3>3, <3>4, <3>5
  <2>. QED BY <2>1, <2>2
<1>5. Pending(sc, n) <=> \E l \in 1 .. top : sc[l].pending[n] # None
  BY <1>1, PendingIs
<1>6. ASSUME NEW l \in 1 .. top
      PROVE  sc[l].pending[n] # None <=> (l \in 2 .. top /\ LetsOf(fr[l].stmts, n) # {})
  <2>1. PendingFits(sc[l], fr[l].stmts, l, Limit(fr, l))
    BY <1>6 DEF TablesAgree
  <2>2. sc[l].pending[n] # None <=> (l > 1 /\ ToCome(fr[l].stmts, n, Limit(fr, l)))
    BY <2>1 DEF PendingFits
  <2>3. l > 1 <=> l \in 2 .. top
    BY <1>1
  <2>. QED BY <1>3, <2>2, <2>3 DEF ToCome
<1>7. LaterAt(fr, n, top, at) <=> \E l \in 2 .. top : LetsOf(fr[l].stmts, n) # {}
  <2>1. 2 .. top \subseteq 1 .. top
    BY <1>1
  <2>. QED BY <1>4, <2>1 DEF LaterAt
<1>8. 2 .. top \subseteq 1 .. top
  BY <1>1
<1>. QED BY <1>5, <1>6, <1>7, <1>8

-----------------------------------------------------------------------------
(* One step further in the innermost text.                                  *)

Advanced(new, old) ==
    /\ Len(new) = Len(old)
    /\ \A l \in 1 .. Len(old) : new[l].stmts = old[l].stmts
    /\ \A l \in 1 .. Len(old) - 1 : new[l] = old[l]
    /\ new[Len(old)].pos = old[Len(old)].pos + 1

LEMMA AdvancedIs ==
    ASSUME NEW fr, TextsOpen(fr), NEW top, top = Len(fr), fr[top].pos <= Len(fr[top].stmts),
           NEW new, new = [fr EXCEPT ![top].pos = @ + 1]
    PROVE  TextsOpen(new) /\ Advanced(new, fr)
<1>1. top \in Nat /\ top >= 1 /\ top \in 1 .. top /\ fr[top].pos \in Nat /\ fr[top].pos >= 1
      /\ Len(fr[top].stmts) \in Nat
  BY FramesAre
<1>2. PICK S : fr \in Seq([stmts : S, pos : Nat])
  BY DEF TextsOpen
<1>3. PICK e : e = [fr[top] EXCEPT !.pos = @ + 1]
  OBVIOUS
<1>4. fr[top] \in [stmts : S, pos : Nat]
  BY <1>1, <1>2, ElementOfSeq
<1>5. e \in [stmts : S, pos : Nat] /\ e.stmts = fr[top].stmts /\ e.pos = fr[top].pos + 1
  BY <1>1, <1>3, <1>4
<1>6. new = [fr EXCEPT ![top] = e]
  BY <1>3
<1>7. /\ new \in Seq([stmts : S, pos : Nat]) /\ Len(new) = top /\ new[top] = e
      /\ \A l \in 1 .. top - 1 : new[l] = fr[l]
  BY <1>1, <1>2, <1>5, <1>6, ExceptSeq
<1>8. \A l \in 1 .. top : l = top \/ l \in 1 .. top - 1
  BY <1>1
<1>9. Advanced(new, fr)
  BY <1>5, <1>7, <1>8 DEF Advanced
<1>10. ASSUME NEW l \in 1 .. Len(new)
       PROVE  OpenText(new[l].stmts) /\ new[l].pos \in 1 .. Len(new[l].stmts) + 1
  <2>1. OpenText(fr[l].stmts) /\ fr[l].pos \in 1 .. Len(fr[l].stmts) + 1
    BY <1>7, <1>10 DEF TextsOpen
  <2>2. CASE l = top
    <3>1. e.pos \in 1 .. Len(e.stmts) + 1
      BY <1>1, <1>5
    <3>. QED BY <1>5, <1>7, <2>1, <2>2, <3>1
  <2>3. CASE l # top
    BY <1>7, <1>8, <1>10, <2>1, <2>3
  <2>. QED BY <2>2, <2>3
<1>11. IsText(new[1].stmts)
  <2>1. new[1].stmts = fr[1].stmts
    BY <1>1, <1>7, <1>9 DEF Advanced
  <2>. QED BY <2>1 DEF TextsOpen
<1>12. \A l \in 1 .. Len(new) - 1 :
           new[l].pos > 1 /\ new[l].stmts[new[l].pos - 1].k \in {"fn", "block", "param"}
  BY <1>7 DEF TextsOpen
<1>. QED BY <1>1, <1>7, <1>9, <1>10, <1>11, <1>12 DEF TextsOpen

\* new is old with the innermost tables as they are past statement p.
Passed(new, old, stmts, p) ==
    /\ new \in Seq(ScopeTables) /\ Len(new) = Len(old)
    /\ \A l \in 1 .. Len(old) - 1 : new[l] = old[l]
    /\ NamesFit(new[Len(old)], stmts, Len(old), p + 1)
    /\ PendingFits(new[Len(old)], stmts, Len(old), p + 1)

LEMMA TablesAdvance ==
    ASSUME NEW fr, TextsOpen(fr), NEW new, Advanced(new, fr), NEW sc, TablesAgree(fr, sc),
           NEW top, top = Len(fr), NEW sc2, Passed(sc2, sc, fr[top].stmts, fr[top].pos)
    PROVE  TablesAgree(new, sc2)
<1>1. PICK q : q = fr[top].pos + 1
  OBVIOUS
<1>2. Len(new) = top /\ Len(sc) = top /\ top \in Nat /\ top >= 1
      /\ sc2 \in Seq(ScopeTables) /\ Len(sc2) = top /\ \A l \in 1 .. top - 1 : sc2[l] = sc[l]
  BY FramesAre DEF Advanced, TablesAgree, Passed
<1>3. /\ NamesFit(sc2[top], fr[top].stmts, top, q)
      /\ PendingFits(sc2[top], fr[top].stmts, top, q)
  BY <1>1, <1>2 DEF Passed
<1>4. ASSUME NEW l \in 1 .. top
      PROVE  /\ NamesFit(sc2[l], new[l].stmts, l, Limit(new, l))
             /\ PendingFits(sc2[l], new[l].stmts, l, Limit(new, l))
  <2>1. CASE l = top
    <3>1. Limit(new, l) = q /\ new[l].stmts = fr[top].stmts
      BY <1>1, <1>2, <1>4, <2>1 DEF Limit, Advanced
    <3>. QED BY <1>3, <2>1, <3>1
  <2>2. CASE l # top
    <3>1. l \in 1 .. top - 1
      BY <1>2, <1>4, <2>2
    <3>2. new[l] = fr[l] /\ sc2[l] = sc[l]
      BY <1>2, <3>1 DEF Advanced
    <3>3. Limit(new, l) = Limit(fr, l)
      BY <1>2, <2>2, <3>2 DEF Limit
    <3>4. NamesFit(sc[l], fr[l].stmts, l, Limit(fr, l)) /\ PendingFits(sc[l], fr[l].stmts, l, Limit(fr, l))
      BY <1>4 DEF TablesAgree
    <3>. QED BY <3>2, <3>3, <3>4
  <2>. QED BY <2>1, <2>2
<1>. QED BY <1>2, <1>4 DEF TablesAgree

\* A statement that binds no local leaves the tables as they are.
LEMMA TablesStay ==
    ASSUME NEW fr, TextsOpen(fr), NEW new, Advanced(new, fr), NEW sc, TablesAgree(fr, sc),
           NEW top, top = Len(fr), fr[top].pos <= Len(fr[top].stmts),
           fr[top].stmts[fr[top].pos].k # "let" \/ top = 1
    PROVE  TablesAgree(new, sc)
<1>1. top \in Nat /\ top >= 1 /\ top \in 1 .. top /\ OpenText(fr[top].stmts)
      /\ fr[top].pos \in Nat /\ fr[top].pos >= 1 /\ Len(fr[top].stmts) \in Nat
  BY FramesAre
<1>2. Limit(fr, top) = fr[top].pos /\ sc \in Seq(ScopeTables)
  BY DEF Limit, TablesAgree
<1>3. NamesFit(sc[top], fr[top].stmts, top, fr[top].pos)
      /\ PendingFits(sc[top], fr[top].stmts, top, fr[top].pos)
  BY <1>1, <1>2 DEF TablesAgree
<1>4. fr[top].pos \in 1 .. Len(fr[top].stmts) /\ top \in Nat \ {0}
  BY <1>1
<1>5. NamesFit(sc[top], fr[top].stmts, top, fr[top].pos + 1)
      /\ PendingFits(sc[top], fr[top].stmts, top, fr[top].pos + 1)
  BY <1>1, <1>3, <1>4, PassedOver
<1>6. Passed(sc, sc, fr[top].stmts, fr[top].pos)
  BY <1>2, <1>5 DEF Passed, TablesAgree
<1>. QED BY <1>6, TablesAdvance

-----------------------------------------------------------------------------
(* What a lookup tells stays true when the resolver goes on.                *)

LEMMA ToldOn ==
    ASSUME NEW fr, NEW new, Advanced(new, fr), NEW u, u.level = Len(fr), ToldBy(u, fr),
           Len(fr) \in Nat
    PROVE  ToldBy(u, new)
<1>1. PICK top \in Nat : top = Len(fr) /\ u.level = top /\ Len(new) = top
  BY DEF Advanced
<1>2. ASSUME NEW l \in 1 .. top
      PROVE  new[l].stmts = fr[l].stmts /\ (l # top => new[l] = fr[l])
  <2>1. l = top \/ l \in 1 .. top - 1
    BY <1>1
  <2>. QED BY <1>1, <2>1 DEF Advanced
<1>3. \A l \in 1 .. top : SeenAt(new, l, u.ns, u.name, top, u.at) = SeenAt(fr, l, u.ns, u.name, top, u.at)
  BY <1>2 DEF SeenAt
<1>4. Showing(new, u.ns, u.name, top, u.at) = Showing(fr, u.ns, u.name, top, u.at)
  BY <1>3 DEF Showing
<1>5. LexicalAt(new, u.ns, u.name, top, u.at) = LexicalAt(fr, u.ns, u.name, top, u.at)
  <2>1. CASE Showing(fr, u.ns, u.name, top, u.at) = {}
    BY <1>4, <2>1 DEF LexicalAt
  <2>2. CASE Showing(fr, u.ns, u.name, top, u.at) # {}
    <3>1. PICK l : l = Greatest(Showing(fr, u.ns, u.name, top, u.at))
      OBVIOUS
    <3>2. l \in 1 .. top
      <4>1. PICK S : S = Showing(fr, u.ns, u.name, top, u.at)
        OBVIOUS
      <4>2. S \subseteq 1 .. top /\ S # {}
        BY <2>2, <4>1 DEF Showing
      <4>3. \E x \in S : \A y \in S : y <= x
        BY <4>2, GreatestOf
      <4>. QED BY <3>1, <4>1, <4>2, <4>3 DEF Greatest
    <3>3. SeenAt(new, l, u.ns, u.name, top, u.at) = SeenAt(fr, l, u.ns, u.name, top, u.at)
          /\ new[l].stmts = fr[l].stmts
      BY <1>2, <1>3, <3>2
    <3>. QED BY <1>4, <2>2, <3>1, <3>3 DEF LexicalAt
  <2>. QED BY <2>1, <2>2
<1>6. LaterAt(new, u.name, top, u.at) <=> LaterAt(fr, u.name, top, u.at)
  <2>1. ASSUME NEW l \in 2 .. top
        PROVE  /\ LetsOf(new[l].stmts, u.name) = LetsOf(fr[l].stmts, u.name)
               /\ (IF l = top THEN u.at ELSE new[l].pos) = (IF l = top THEN u.at ELSE fr[l].pos)
    <3>1. l \in 1 .. top
      BY <1>1, <2>1
    <3>. QED BY <1>2, <3>1
  <2>. QED BY <2>1 DEF LaterAt
<1>. QED BY <1>1, <1>5, <1>6 DEF ToldBy

LEMMA ValueTold ==
    ASSUME NEW fr, TextsOpen(fr), NEW sc, TablesAgree(fr, sc), NEW n \in Names, NEW u,
           u = [ns |-> "value", name |-> n, level |-> Len(fr), at |-> fr[Len(fr)].pos,
                def |-> LookupValue(sc, n).def, code |-> LookupValue(sc, n).code]
    PROVE  ToldBy(u, fr)
<1>1. PICK top, at : top = Len(fr) /\ at = fr[top].pos
  OBVIOUS
<1>2. PICK d, w : d = Lookup(sc, "value", n) /\ w = LexicalAt(fr, "value", n, top, at)
  OBVIOUS
<1>3. "value" \in Ns
  BY DEF Ns
<1>4. (d = None /\ w = ErrorDef) \/ (d \in Defs /\ d # None /\ w = d)
  BY <1>1, <1>2, <1>3, LookupIs
<1>5. d = None => (Pending(sc, n) <=> LaterAt(fr, n, top, at))
  BY <1>1, <1>2, LaterIs
<1>6. PICK found : found = LookupValue(sc, n)
  OBVIOUS
<1>7. found = IF d # None THEN [def |-> d, code |-> "ok"]
              ELSE [def |-> ErrorDef,
                    code |-> IF Pending(sc, n) THEN "UseBeforeDefinition" ELSE "UnresolvedName"]
  BY <1>2, <1>6 DEF LookupValue
<1>8. /\ u.ns = "value" /\ u.name = n /\ u.level = top /\ u.at = at
      /\ u.def = found.def /\ u.code = found.code
  BY <1>1, <1>6
<1>9. CASE d = None
  <2>1. found.def = ErrorDef
        /\ found.code = (IF Pending(sc, n) THEN "UseBeforeDefinition" ELSE "UnresolvedName")
    BY <1>7, <1>9
  <2>2. u.code = "UseBeforeDefinition" <=> LaterAt(fr, n, top, at)
    BY <1>5, <1>8, <1>9, <2>1
  <2>3. u.def = w /\ u.def = ErrorDef
    BY <1>4, <1>8, <1>9, <2>1
  <2>. QED BY <1>2, <1>8, <2>2, <2>3 DEF ToldBy
<1>10. CASE d # None
  <2>1. found.def = d /\ found.code = "ok"
    BY <1>7, <1>10
  <2>2. u.def = w /\ u.def # ErrorDef
    BY <1>4, <1>8, <1>10, <2>1, DefsNot
  <2>. QED BY <1>2, <1>8, <2>1, <2>2 DEF ToldBy
<1>. QED BY <1>9, <1>10

LEMMA TypeTold ==
    ASSUME NEW fr, TextsOpen(fr), NEW sc, TablesAgree(fr, sc), NEW n \in Names, NEW u,
           u = [ns |-> "type", name |-> n, level |-> Len(fr), at |-> fr[Len(fr)].pos,
                def |-> LookupType(sc, n).def, code |-> LookupType(sc, n).code]
    PROVE  ToldBy(u, fr)
<1>1. PICK top, at : top = Len(fr) /\ at = fr[top].pos
  OBVIOUS
<1>2. PICK d, w : d = Lookup(sc, "type", n) /\ w = LexicalAt(fr, "type", n, top, at)
  OBVIOUS
<1>3. "type" \in Ns
  BY DEF Ns
<1>4. (d = None /\ w = ErrorDef) \/ (d \in Defs /\ d # None /\ w = d)
  BY <1>1, <1>2, <1>3, LookupIs
<1>5. LookupType(sc, n).def =
          IF d # None THEN d ELSE IF n \in BuiltinNames THEN Builtin ELSE ErrorDef
  BY <1>2 DEF LookupType
<1>6. /\ u.ns = "type" /\ u.name = n /\ u.level = top /\ u.at = at
      /\ u.def = IF d # None THEN d ELSE IF n \in BuiltinNames THEN Builtin ELSE ErrorDef
  BY <1>1, <1>5
<1>7. w = ErrorDef <=> d = None
  BY <1>4, DefsNot
<1>. QED BY <1>2, <1>4, <1>6, <1>7 DEF ToldBy

-----------------------------------------------------------------------------
(* Opening and leaving scopes.                                              *)

\* The tables of scopes that all wait for one opened by their last statement.
TablesWait(fr, sc) ==
    /\ sc \in Seq(ScopeTables) /\ Len(sc) = Len(fr)
    /\ \A l \in 1 .. Len(fr) :
          /\ NamesFit(sc[l], fr[l].stmts, l, fr[l].pos - 1)
          /\ PendingFits(sc[l], fr[l].stmts, l, fr[l].pos - 1)
Opening(frame) == frame.pos > 1 /\ frame.stmts[frame.pos - 1].k \in {"fn", "block", "param"}

LEMMA TablesLeft ==
    ASSUME NEW fr, TextsOpen(fr), NEW new, Advanced(new, fr), NEW sc, TablesAgree(fr, sc)
    PROVE  TablesWait(new, sc)
<1>1. PICK top \in Nat : top = Len(fr) /\ top >= 1 /\ Len(new) = top /\ Len(sc) = top
  BY FramesAre DEF Advanced, TablesAgree
<1>2. ASSUME NEW l \in 1 .. top
      PROVE  Limit(fr, l) = new[l].pos - 1 /\ new[l].stmts = fr[l].stmts
  <2>1. fr[l].pos \in Nat
    BY <1>1, <1>2, FramesAre
  <2>2. CASE l = top
    BY <1>1, <1>2, <2>1, <2>2 DEF Limit, Advanced
  <2>3. CASE l # top
    <3>1. l \in 1 .. top - 1
      BY <1>1, <1>2, <2>3
    <3>. QED BY <1>1, <1>2, <2>3, <3>1 DEF Limit, Advanced
  <2>. QED BY <2>2, <2>3
<1>. QED BY <1>1, <1>2 DEF TablesAgree, TablesWait

\* new is old with one text more, whose statement p is next.
Pushed(new, old, stmts, p) ==
    /\ TextsOpen(new) /\ Len(new) = Len(old) + 1
    /\ \A l \in 1 .. Len(old) : new[l] = old[l]
    /\ new[Len(old) + 1] = [stmts |-> stmts, pos |-> p]

LEMMA TextPushed ==
    ASSUME NEW fr, TextsOpen(fr), Opening(fr[Len(fr)]), NEW stmts, OpenText(stmts),
           NEW p, p \in 1 .. Len(stmts) + 1, NEW new, new = Append(fr, [stmts |-> stmts, pos |-> p])
    PROVE  Pushed(new, fr, stmts, p)
<1>1. PICK top \in Nat : top = Len(fr) /\ top >= 1
  BY FramesAre
<1>2. PICK S : fr \in Seq([stmts : S, pos : Nat])
  BY DEF TextsOpen
<1>3. PICK e : e = [stmts |-> stmts, pos |-> p]
  OBVIOUS
<1>4. PICK F : F = [stmts : S \cup {stmts}, pos : Nat]
  OBVIOUS
<1>5. fr \in Seq(F) /\ e \in F
  <2>1. p \in Nat
    BY OpenTextIs
  <2>2. [stmts : S, pos : Nat] \subseteq F
    BY <1>4
  <2>3. \A l \in 1 .. Len(fr) : fr[l] \in F
    BY <1>2, <2>2, ElementOfSeq
  <2>4. fr \in [1 .. top -> F]
    BY <1>1, <1>2, <2>3
  <2>5. fr \in Seq(F)
    BY <2>4, SeqDef
  <2>6. e \in F
    BY <1>3, <1>4, <2>1
  <2>. QED BY <2>5, <2>6
<1>6. /\ new \in Seq(F) /\ Len(new) = top + 1 /\ new[top + 1] = e
      /\ \A l \in 1 .. top : new[l] = fr[l]
  BY <1>1, <1>3, <1>5, AppendProperties
<1>7. ASSUME NEW l \in 1 .. Len(new)
      PROVE  OpenText(new[l].stmts) /\ new[l].pos \in 1 .. Len(new[l].stmts) + 1
  <2>1. CASE l \in 1 .. top
    BY <1>1, <1>6, <2>1 DEF TextsOpen
  <2>2. CASE l = top + 1
    BY <1>3, <1>6, <2>2
  <2>. QED BY <1>1, <1>6, <1>7, <2>1, <2>2
<1>8. IsText(new[1].stmts)
  BY <1>1, <1>6 DEF TextsOpen
<1>9. ASSUME NEW l \in 1 .. Len(new) - 1
      PROVE  new[l].pos > 1 /\ new[l].stmts[new[l].pos - 1].k \in {"fn", "block", "param"}
  <2>1. l \in 1 .. top /\ new[l] = fr[l]
    BY <1>1, <1>6, <1>9
  <2>2. CASE l = top
    BY <1>1, <2>1, <2>2 DEF Opening
  <2>3. CASE l # top
    <3>1. l \in 1 .. Len(fr) - 1
      BY <1>1, <2>1, <2>3
    <3>. QED BY <2>1, <3>1 DEF TextsOpen
  <2>. QED BY <2>2, <2>3
<1>10. \E R : new \in Seq([stmts : R, pos : Nat])
  BY <1>4, <1>6
<1>11. TextsOpen(new)
  <2>1. Len(new) >= 1
    BY <1>1, <1>6
  <2>. QED BY <1>7, <1>8, <1>9, <1>10, <2>1 DEF TextsOpen
<1>. QED BY <1>1, <1>3, <1>6, <1>11 DEF Pushed

\* A text opened at its start fits; a parameter, which is passed at once, waits.
LEMMA TablesPushed ==
    ASSUME NEW fr, TextsOpen(fr), NEW sc, TablesWait(fr, sc), NEW stmts, NEW p \in {1, 2},
           NEW new, Pushed(new, fr, stmts, p), NEW sc2, Opened(sc2, sc, stmts)
    PROVE  (p = 1 => TablesAgree(new, sc2)) /\ (p = 2 => TablesWait(new, sc2))
<1>1. PICK top \in Nat : top = Len(fr) /\ top >= 1 /\ Len(sc) = top
  BY FramesAre DEF TablesWait
<1>2. Len(new) = top + 1 /\ Len(sc2) = top + 1 /\ sc2 \in Seq(ScopeTables)
      /\ \A l \in 1 .. top : new[l] = fr[l] /\ sc2[l] = sc[l]
  BY <1>1 DEF Pushed, Opened
<1>3. ASSUME NEW l \in 1 .. top
      PROVE  /\ NamesFit(sc2[l], new[l].stmts, l, new[l].pos - 1)
             /\ PendingFits(sc2[l], new[l].stmts, l, new[l].pos - 1)
  BY <1>1, <1>2, <1>3 DEF TablesWait
<1>4. /\ NamesFit(sc2[top + 1], new[top + 1].stmts, top + 1, 1)
      /\ PendingFits(sc2[top + 1], new[top + 1].stmts, top + 1, 1)
      /\ new[top + 1].pos = p
  BY <1>1 DEF Pushed, Opened
<1>5. \A l \in 1 .. top + 1 : l = top + 1 \/ (l \in 1 .. top /\ l # top + 1)
  BY <1>1
<1>6. ASSUME p = 1 PROVE TablesAgree(new, sc2)
  <2>1. ASSUME NEW l \in 1 .. top + 1
        PROVE  /\ NamesFit(sc2[l], new[l].stmts, l, Limit(new, l))
               /\ PendingFits(sc2[l], new[l].stmts, l, Limit(new, l))
    <3>1. CASE l = top + 1
      <4>1. Limit(new, l) = 1
        BY <1>2, <1>4, <1>6, <3>1 DEF Limit
      <4>. QED BY <1>4, <3>1, <4>1
    <3>2. CASE l \in 1 .. top /\ l # top + 1
      <4>1. Limit(new, l) = new[l].pos - 1
        BY <1>2, <3>2 DEF Limit
      <4>. QED BY <1>3, <3>2, <4>1
    <3>. QED BY <1>5, <3>1, <3>2
  <2>. QED BY <1>2, <2>1 DEF TablesAgree
<1>7. ASSUME p = 2 PROVE TablesWait(new, sc2)
  <2>1. ASSUME NEW l \in 1 .. top + 1
        PROVE  /\ NamesFit(sc2[l], new[l].stmts, l, new[l].pos - 1)
               /\ PendingFits(sc2[l], new[l].stmts, l, new[l].pos - 1)
    BY <1>3, <1>4, <1>5, <1>7
  <2>. QED BY <1>2, <2>1 DEF TablesWait
<1>. QED BY <1>6, <1>7

\* The scope of a function's parameter.
LEMMA ParamScope ==
    ASSUME NEW sc \in Seq(ScopeTables), Len(sc) >= 1, NEW name \in Names, NEW l \in Nat, l = Len(sc) + 1,
           NEW new, new = Bind(Append(sc, NewScope), "value", name, Def("param", l, 1)),
           NEW text, text = <<[k |-> "param", name |-> name]>>
    PROVE  Opened(new, sc, text) /\ OpenText(text) /\ Len(text) = 1
<1>1. PICK d, one : d = Def("param", l, 1) /\ one = Append(sc, NewScope)
  OBVIOUS
<1>2. d \in Defs /\ d # None /\ "value" \in Ns
  BY <1>1, DefIs DEF DefKinds, Ns
<1>3. /\ one \in Seq(ScopeTables) /\ Len(one) = l /\ one[l] = NewScope
      /\ \A i \in 1 .. l - 1 : one[i] = sc[i]
  BY <1>1, AppendedScope
<1>4. /\ new \in Seq(ScopeTables) /\ Len(new) = l
      /\ \A i \in 1 .. l - 1 : new[i] = one[i]
      /\ new[l].pending = one[l].pending
      /\ \A ms \in Ns, m \in Names :
            new[l].names[<<ms, m>>] =
                IF ms = "value" /\ m = name /\ one[l].names[<<ms, m>>] = None
                THEN d ELSE one[l].names[<<ms, m>>]
  <2>1. PICK s : s = [k |-> "param", name |-> name]
    OBVIOUS
  <2>2. s.name \in Names /\ s.name = name /\ Namespaces(s) = {"value"}
    BY <2>1 DEF Namespaces
  <2>3. new = BindBoth(one, s, d) /\ Len(one) >= 1 /\ one \in Seq(ScopeTables)
    BY <1>1, <1>3, <2>2 DEF BindBoth
  <2>4. Bound(new, one, s, d)
    BY <1>2, <2>2, <2>3, BindBothIs
  <2>. QED BY <1>3, <2>2, <2>4 DEF Bound
<1>5. text[1].k = "param" /\ text[1].name = name /\ Len(text) = 1 /\ DOMAIN text = {1}
      /\ text \in Seq(ToSet(text))
  BY DEF ToSet
<1>6. OpenText(text)
  BY <1>5 DEF OpenText, ParamText
<1>7. ASSUME NEW ns \in Ns, NEW n \in Names
      PROVE  new[l].names[<<ns, n>>] = Entry(text, l, Shown(text, l, ns, n, 1))
  <2>1. Declares(text[1]) /\ Namespaces(text[1]) = {"value"} /\ ~IsItem(text[1], l)
    BY <1>5 DEF Declares, DefKinds, Namespaces, IsItem
  <2>2. CASE ns = "value" /\ n = name
    <3>1. Shown(text, l, ns, n, 1) = {1}
      BY <1>5, <2>1, <2>2 DEF Shown
    <3>2. Hoisted(text, l, {1}) = {}
      BY <2>1 DEF Hoisted
    <3>3. Least({1}) = 1
      BY LeastIs
    <3>4. Entry(text, l, {1}) = d
      BY <1>1, <1>5, <3>2, <3>3 DEF Entry, First
    <3>5. new[l].names[<<ns, n>>] = d
      BY <1>3, <1>4, <2>2, NewScopeIs
    <3>. QED BY <3>1, <3>4, <3>5
  <2>3. CASE ~(ns = "value" /\ n = name)
    <3>1. Shown(text, l, ns, n, 1) = {}
      BY <1>5, <2>1, <2>3 DEF Shown
    <3>2. new[l].names[<<ns, n>>] = None
      BY <1>3, <1>4, <2>3, NewScopeIs
    <3>. QED BY <3>1, <3>2 DEF Entry
  <2>. QED BY <2>2, <2>3
<1>8. ASSUME NEW n \in Names
      PROVE  new[l].pending[n] # None <=> (l > 1 /\ ToCome(text, n, 1))
  <2>1. LetsOf(text, n) = {}
    BY <1>5 DEF LetsOf
  <2>. QED BY <1>3, <1>4, <2>1, NewScopeIs DEF ToCome
<1>9. NamesFit(new[l], text, l, 1) /\ PendingFits(new[l], text, l, 1)
  BY <1>7, <1>8 DEF NamesFit, PendingFits
<1>. QED BY <1>3, <1>4, <1>5, <1>6, <1>9 DEF Opened

LEMMA TextLeft ==
    ASSUME NEW fr, TextsOpen(fr), Len(fr) > 1, NEW new, new = Front(fr)
    PROVE  TextsOpen(new) /\ Len(new) = Len(fr) - 1 /\ \A l \in 1 .. Len(fr) - 1 : new[l] = fr[l]
<1>1. PICK top \in Nat : top = Len(fr) /\ top >= 1 /\ top - 1 \in Nat /\ top - 1 >= 1
  BY FramesAre
<1>2. PICK F, S : F = [stmts : S, pos : Nat] /\ fr \in Seq(F)
  BY DEF TextsOpen
<1>3. /\ new \in Seq(F) /\ Len(new) = top - 1
      /\ \A l \in 1 .. top - 1 : new[l] = fr[l]
  <2>1. new = SubSeq(fr, 1, top - 1)
    BY <1>1 DEF Front
  <2>2. ASSUME NEW i \in 1 .. top - 1 PROVE fr[i] \in F
    <3>1. i \in 1 .. Len(fr)
      BY <1>1, <2>2
    <3>. QED BY <1>2, <3>1, ElementOfSeq
  <2>. QED BY <1>1, <2>1, <2>2, SubSeqProperties
<1>4. \A l \in 1 .. top - 1 : l \in 1 .. Len(fr)
  BY <1>1
<1>5. \A l \in 1 .. Len(new) : OpenText(new[l].stmts) /\ new[l].pos \in 1 .. Len(new[l].stmts) + 1
  BY <1>3, <1>4 DEF TextsOpen
<1>6. IsText(new[1].stmts)
  BY <1>1, <1>3 DEF TextsOpen
<1>7. ASSUME NEW l \in 1 .. Len(new) - 1
      PROVE  new[l].pos > 1 /\ new[l].stmts[new[l].pos - 1].k \in {"fn", "block", "param"}
  <2>1. l \in 1 .. Len(fr) - 1 /\ new[l] = fr[l]
    BY <1>1, <1>3, <1>7
  <2>. QED BY <2>1 DEF TextsOpen
<1>8. \E R : new \in Seq([stmts : R, pos : Nat])
  BY <1>2, <1>3
<1>9. TextsOpen(new)
  BY <1>1, <1>3, <1>5, <1>6, <1>7, <1>8 DEF TextsOpen
<1>. QED BY <1>1, <1>3, <1>9

\* The statement that opened the scope is passed when the scope is left.
LEMMA TablesLeave ==
    ASSUME NEW fr, TextsOpen(fr), Len(fr) > 1, NEW sc, TablesAgree(fr, sc),
           NEW new, new = Front(fr), NEW sc2, sc2 = Front(sc)
    PROVE  TablesAgree(new, sc2)
<1>1. PICK top \in Nat : top = Len(fr) /\ top >= 1 /\ top - 1 \in Nat /\ top - 1 >= 1 /\ Len(sc) = top
  BY FramesAre DEF TablesAgree
<1>2. Len(new) = top - 1 /\ \A l \in 1 .. top - 1 : new[l] = fr[l]
  BY <1>1, TextLeft
<1>3. /\ sc2 \in Seq(ScopeTables) /\ Len(sc2) = top - 1
      /\ \A l \in 1 .. top - 1 : sc2[l] = sc[l]
  <2>1. sc2 = SubSeq(sc, 1, top - 1)
    BY <1>1 DEF Front
  <2>2. \A i \in 1 .. top - 1 : sc[i] \in ScopeTables
    BY <1>1, ElementOfSeq DEF TablesAgree
  <2>. QED BY <1>1, <2>1, <2>2, SubSeqProperties
<1>4. ASSUME NEW l \in 1 .. top - 1
      PROVE  /\ NamesFit(sc2[l], new[l].stmts, l, Limit(new, l))
             /\ PendingFits(sc2[l], new[l].stmts, l, Limit(new, l))
  <2>1. l \in 1 .. Len(fr) /\ l \in 1 .. Len(fr) - 1 /\ l # Len(fr) /\ l \in Nat \ {0}
    BY <1>1, <1>4
  <2>2. Limit(fr, l) = fr[l].pos - 1
    BY <2>1 DEF Limit
  <2>3. NamesFit(sc[l], fr[l].stmts, l, fr[l].pos - 1) /\ PendingFits(sc[l], fr[l].stmts, l, fr[l].pos - 1)
    BY <2>1, <2>2 DEF TablesAgree
  <2>4. CASE l = top - 1
    <3>1. fr[l].pos > 1 /\ fr[l].stmts[fr[l].pos - 1].k # "let" /\ OpenText(fr[l].stmts)
          /\ fr[l].pos \in 1 .. Len(fr[l].stmts) + 1
      BY <2>1 DEF TextsOpen
    <3>2. PICK p, stmts, scope : p = fr[l].pos - 1 /\ stmts = fr[l].stmts /\ scope = sc[l]
      OBVIOUS
    <3>3. p \in 1 .. Len(stmts) /\ p + 1 = fr[l].pos
      <4>1. fr[l].pos \in Nat /\ Len(stmts) \in Nat
        BY <2>1, <3>2, FramesAre
      <4>. QED BY <3>1, <3>2, <4>1
    <3>4. NamesFit(scope, stmts, l, p + 1) /\ PendingFits(scope, stmts, l, p + 1)
      <4>1. OpenText(stmts) /\ stmts[p].k # "let" /\ NamesFit(scope, stmts, l, p) /\ PendingFits(scope, stmts, l, p)
        BY <2>3, <3>1, <3>2
      <4>. QED BY <2>1, <3>3, <4>1, PassedOver
    <3>5. Limit(new, l) = p + 1
      BY <1>2, <2>4, <3>3 DEF Limit
    <3>. QED BY <1>2, <1>3, <3>2, <3>4, <3>5
  <2>5. CASE l # top - 1
    <3>1. Limit(new, l) = fr[l].pos - 1
      BY <1>2, <2>5 DEF Limit
    <3>. QED BY <1>2, <1>3, <2>3, <3>1
  <2>. QED BY <2>4, <2>5
<1>. QED BY <1>2, <1>3, <1>4 DEF TablesAgree

\* A local let.
LEMMA TablesLet ==
    ASSUME NEW fr, TextsOpen(fr), NEW new, Advanced(new, fr), NEW sc, TablesAgree(fr, sc),
           NEW top, top = Len(fr), top > 1, NEW p, p = fr[top].pos, p <= Len(fr[top].stmts),
           NEW s, s = fr[top].stmts[p], s.k = "let",
           NEW sc2, sc2 = Bind([sc EXCEPT ![top].pending[s.name] = None],
                               "value", s.name, Def("let", top, p))
    PROVE  TablesAgree(new, sc2)
<1>1. top \in Nat /\ top >= 1 /\ top \in 1 .. top /\ Len(sc) = top /\ sc \in Seq(ScopeTables)
      /\ p \in Nat /\ p \in 1 .. Len(fr[top].stmts)
  BY FramesAre DEF TablesAgree
<1>2. PICK stmts, scope : stmts = fr[top].stmts /\ scope = sc[top]
  OBVIOUS
<1>3. IsText(stmts) /\ s = stmts[p] /\ stmts[p].k = "let" /\ p \in 1 .. Len(stmts)
  <2>1. OpenText(stmts)
    BY <1>1, <1>2, FramesAre
  <2>2. ~ParamText(stmts)
    BY <1>1, <1>2 DEF ParamText
  <2>. QED BY <1>1, <1>2, <2>1, <2>2 DEF OpenText
<1>4. s.name \in Names
  BY <1>3, TextIs
<1>5. scope \in ScopeTables
  BY <1>1, <1>2, ElementOfSeq
<1>6. NamesFit(scope, stmts, top, p) /\ PendingFits(scope, stmts, top, p)
  <2>1. Limit(fr, top) = p
    BY DEF Limit
  <2>. QED BY <1>1, <1>2, <2>1 DEF TablesAgree
<1>7. PICK pend, e : pend = [scope.pending EXCEPT ![s.name] = None] /\ e = [scope EXCEPT !.pending = pend]
  OBVIOUS
<1>8. /\ e \in ScopeTables /\ e.names = scope.names
      /\ \A n \in Names : e.pending[n] = IF n = s.name THEN None ELSE scope.pending[n]
  BY <1>4, <1>5, <1>7 DEF ScopeTables
<1>9. PICK mid : mid = [sc EXCEPT ![top].pending[s.name] = None]
  OBVIOUS
<1>10. mid = [sc EXCEPT ![top] = e]
  BY <1>2, <1>7, <1>9
<1>11. /\ mid \in Seq(ScopeTables) /\ Len(mid) = top /\ mid[top] = e
       /\ \A l \in 1 .. top - 1 : mid[l] = sc[l]
  BY <1>1, <1>8, <1>10, ExceptSeq
<1>12. PICK d : d = Def("let", top, p)
  OBVIOUS
<1>13. d \in Defs
  BY <1>1, <1>12, DefIs DEF DefKinds
<1>14. Bound(sc2, mid, s, d)
  <2>1. Namespaces(s) = {"value"}
    BY DEF Namespaces
  <2>2. sc2 = BindBoth(mid, s, d)
    BY <1>9, <1>12, <2>1 DEF BindBoth
  <2>3. Len(mid) >= 1
    BY <1>1, <1>11
  <2>. QED BY <1>4, <1>11, <1>13, <2>2, <2>3, BindBothIs
<1>15. /\ sc2 \in Seq(ScopeTables) /\ Len(sc2) = top
       /\ \A l \in 1 .. top - 1 : sc2[l] = sc[l]
  BY <1>11, <1>14 DEF Bound
<1>16. PICK after : after = sc2[top]
  OBVIOUS
<1>17. /\ after.pending = e.pending
       /\ \A ms \in Ns, m \in Names :
             after.names[<<ms, m>>] =
                 IF ms \in Namespaces(s) /\ m = s.name /\ e.names[<<ms, m>>] = None
                 THEN d ELSE e.names[<<ms, m>>]
  <2>1. Len(mid) = top /\ mid[Len(mid)] = e /\ sc2[Len(mid)] = after
    BY <1>11, <1>16
  <2>. QED BY <1>14, <2>1 DEF Bound
<1>18. \A n \in Names : after.pending[n] = IF n = stmts[p].name THEN None ELSE scope.pending[n]
  BY <1>3, <1>8, <1>17
<1>19. \A ns \in Ns, n \in Names :
           after.names[<<ns, n>>] =
               IF ns = "value" /\ n = stmts[p].name /\ scope.names[<<ns, n>>] = None
               THEN Def("let", top, p) ELSE scope.names[<<ns, n>>]
  <2>1. Namespaces(s) = {"value"}
    BY DEF Namespaces
  <2>2. ASSUME NEW ns \in Ns, NEW n \in Names
        PROVE  after.names[<<ns, n>>] =
                   IF ns = "value" /\ n = s.name /\ scope.names[<<ns, n>>] = None
                   THEN d ELSE scope.names[<<ns, n>>]
    <3>1. ns \in Namespaces(s) <=> ns = "value"
      BY <2>1
    <3>2. e.names[<<ns, n>>] = scope.names[<<ns, n>>]
      BY <1>8
    <3>. QED BY <1>17, <3>1, <3>2
  <2>. QED BY <1>3, <1>12, <2>2
<1>20. NamesFit(after, stmts, top, p + 1) /\ PendingFits(after, stmts, top, p + 1)
  BY <1>1, <1>3, <1>5, <1>6, <1>18, <1>19, LetBound
<1>21. Len(sc2) = Len(sc)
  BY <1>1, <1>15
<1>22. NamesFit(sc2[top], fr[top].stmts, top, fr[top].pos + 1)
       /\ PendingFits(sc2[top], fr[top].stmts, top, fr[top].pos + 1)
  BY <1>2, <1>16, <1>20
<1>23. Passed(sc2, sc, fr[top].stmts, fr[top].pos)
  BY <1>1, <1>15, <1>21, <1>22 DEF Passed
<1>. QED BY <1>23, TablesAdvance

-----------------------------------------------------------------------------
(* The invariant.                                                           *)

UsedTold(u, fr) == u.level \in Nat /\ ToldBy(u, fr)
InvOf(fr, sc, u) == TextsOpen(fr) /\ TablesAgree(fr, sc) /\ UsedTold(u, fr)
ResolveInv == InvOf(frames, scopes, used)

\* Lexical, with its parts named.
ShownAt(l, ns, n, top, at) ==
    LET S == Visible(l, ns, n, top, at)
        i == IF Items(l, S) # {} THEN Least(Items(l, S)) ELSE Least(S)
    IN  Def(frames[l].stmts[i].k, l, i)
LexicalFrom(levels, ns, n, top, at) ==
    IF levels = {} THEN ErrorDef ELSE ShownAt(Greatest(levels), ns, n, top, at)

\* What the last lookup told, said of the state, is NamesAreLexical.
LEMMA ToldIsLexical ==
    ASSUME TextsOpen(frames), UsedTold(used, frames)
    PROVE  NamesAreLexical
<1> SUFFICES ASSUME used.name # None, used.level <= Top
             PROVE  /\ LET want == Lexical(used.ns, used.name, used.level, used.at)
                       IN  used.def = IF want = ErrorDef /\ used.ns = "type" /\ used.name \in BuiltinNames
                                      THEN Builtin ELSE want
                    /\ used.ns = "value" =>
                         (used.code = "UseBeforeDefinition")
                             = (used.def = ErrorDef /\ Later(used.name, used.level, used.at))
  BY DEF NamesAreLexical
<1>1. PICK ns, n, top, at : ns = used.ns /\ n = used.name /\ top = used.level /\ at = used.at
  OBVIOUS
<1>2. top \in Nat
  BY <1>1 DEF UsedTold
<1>3. \A l : Visible(l, ns, n, top, at) = SeenAt(frames, l, ns, n, top, at)
  BY DEF Visible, SeenAt, Shown
<1>4. PICK L : L = Showing(frames, ns, n, top, at)
  OBVIOUS
<1>5. L = {l \in 1 .. top : Visible(l, ns, n, top, at) # {}}
  BY <1>3, <1>4 DEF Showing
<1>6. Lexical(ns, n, top, at) = LexicalAt(frames, ns, n, top, at)
  <2>1. CASE L = {}
    <3>1. Lexical(ns, n, top, at) = ErrorDef
      BY <1>5, <2>1 DEF Lexical
    <3>2. LexicalAt(frames, ns, n, top, at) = ErrorDef
      BY <1>4, <2>1 DEF LexicalAt
    <3>. QED BY <3>1, <3>2
  <2>2. CASE L # {}
    <3>1. PICK l : l = Greatest(L)
      OBVIOUS
    <3>2. l \in L
      <4>1. L \subseteq 1 .. top
        BY <1>5
      <4>2. \E x \in L : \A y \in L : y <= x
        BY <1>2, <2>2, <4>1, GreatestOf
      <4>. QED BY <3>1, <4>2 DEF Greatest
    <3>3. PICK S : S = SeenAt(frames, l, ns, n, top, at)
      OBVIOUS
    <3>4. S # {} /\ Visible(l, ns, n, top, at) = S
      BY <1>3, <1>4, <3>2, <3>3 DEF Showing
    <3>5. PICK i : i = First(frames[l].stmts, l, S)
      OBVIOUS
    <3>6. LexicalAt(frames, ns, n, top, at) = Def(frames[l].stmts[i].k, l, i)
      BY <1>4, <2>2, <3>1, <3>3, <3>4, <3>5 DEF LexicalAt, Entry
    <3>8. i = IF Items(l, S) # {} THEN Least(Items(l, S)) ELSE Least(S)
      BY <3>5 DEF First, Hoisted, Items
    <3>9. Lexical(ns, n, top, at) = Def(frames[l].stmts[i].k, l, i)
      <4>1. Lexical(ns, n, top, at) =
                LexicalFrom({k \in 1 .. top : Visible(k, ns, n, top, at) # {}}, ns, n, top, at)
        BY Zenon DEF Lexical, LexicalFrom, ShownAt, Greatest
      <4>2. Lexical(ns, n, top, at) = LexicalFrom(L, ns, n, top, at)
        BY <1>5, <4>1
      <4>3. LexicalFrom(L, ns, n, top, at) = ShownAt(l, ns, n, top, at)
        BY <2>2, <3>1, Zenon DEF LexicalFrom
      <4>4. ShownAt(l, ns, n, top, at) = Def(frames[l].stmts[i].k, l, i)
        BY <3>4, <3>8, Zenon DEF ShownAt
      <4>. QED BY <4>2, <4>3, <4>4
    <3>. QED BY <3>6, <3>9
  <2>. QED BY <2>1, <2>2
<1>7. Later(n, top, at) <=> LaterAt(frames, n, top, at)
  BY DEF Later, LaterAt, LetsOf
<1>8. ToldBy(used, frames)
  BY DEF UsedTold
<1>9. /\ used.def = IF LexicalAt(frames, ns, n, top, at) = ErrorDef /\ ns = "type" /\ n \in BuiltinNames
                    THEN Builtin ELSE LexicalAt(frames, ns, n, top, at)
      /\ ns = "value" =>
           (used.code = "UseBeforeDefinition" <=> (used.def = ErrorDef /\ LaterAt(frames, n, top, at)))
  BY <1>1, <1>8 DEF ToldBy, Top
<1>10. ns = "value" => (used.code = "UseBeforeDefinition")
                           = (used.def = ErrorDef /\ Later(n, top, at))
  BY <1>7, <1>9
<1>. QED BY <1>1, <1>6, <1>9, <1>10

LEMMA NothingTold ==
    ASSUME NEW fr
    PROVE  UsedTold(NoLookup, fr)
BY DEF UsedTold, NoLookup, ToldBy

\* The operands of a statement are names, or literals.
LEMMA OperandsAre ==
    ASSUME NEW stmts, OpenText(stmts), NEW i \in DOMAIN stmts, NEW s, s = stmts[i], NEW v, v = ValueOf(s)
    PROVE  /\ DOMAIN v \subseteq Nat
           /\ \A x \in DOMAIN v : v[x].name \in Names \cup {None}
<1>1. CASE s.k \in {"let", "space"} /\ s.value # None
  <2>1. v = s.value.of
    BY <1>1 DEF ValueOf
  <2>2. IsText(stmts)
    <3>1. CASE ParamText(stmts)
      <4>1. DOMAIN stmts = {1}
        BY <3>1 DEF ParamText
      <4>. QED BY <1>1, <3>1, <4>1 DEF ParamText
    <3>. QED BY <3>1 DEF OpenText
  <2>3. DOMAIN v = 1 .. Len(v) /\ \A x \in DOMAIN v : v[x].name \in Names \cup {None}
    BY <1>1, <2>1, <2>2 DEF IsText
  <2>. QED BY <2>3
<1>2. CASE s.k \in {"let", "space"} /\ s.value = None
  BY <1>2 DEF ValueOf
<1>3. CASE s.k = "use"
  <2>1. v = <<[name |-> s.name, lit |-> 0]>>
    BY <1>3 DEF ValueOf
  <2>2. IsText(stmts)
    <3>1. CASE ParamText(stmts)
      <4>1. DOMAIN stmts = {1}
        BY <3>1 DEF ParamText
      <4>. QED BY <1>3, <3>1, <4>1 DEF ParamText
    <3>. QED BY <3>1 DEF OpenText
  <2>3. s.name \in Names
    BY <1>3, <2>2 DEF IsText
  <2>. QED BY <2>1, <2>3
<1>4. CASE s.k \notin {"let", "space", "use"}
  <2>1. v = <<>>
    BY <1>4 DEF ValueOf
  <2>. QED BY <2>1
<1>. QED BY <1>1, <1>2, <1>3, <1>4

LEMMA StandsAt ==
    ASSUME TextsOpen(frames), Here <= Len(frames[Top].stmts)
    PROVE  /\ OpenText(frames[Top].stmts) /\ Here \in DOMAIN frames[Top].stmts
           /\ Here \in 1 .. Len(frames[Top].stmts) /\ Top \in Nat /\ Top >= 1
BY FramesAre DEF Here, Top

\* A statement's lookup tells the truth of the state it was made in.
LEMMA UseTold ==
    ASSUME TextsOpen(frames), TablesAgree(frames, scopes), Here <= Len(frames[Top].stmts), UseOf(Stmt)
    PROVE  used' = NoLookup \/ (used'.level = Len(frames) /\ UsedTold(used', frames))
<1>1. PICK v, named : v = ValueOf(Stmt) /\ named = {x \in DOMAIN v : v[x].name # None}
  OBVIOUS
<1>2. DOMAIN v \subseteq Nat /\ \A x \in DOMAIN v : v[x].name \in Names \cup {None}
  BY <1>1, StandsAt, OperandsAre DEF Stmt
<1>3. CASE named = {}
  BY <1>1, <1>3 DEF UseOf
<1>4. CASE named # {}
  <2>1. PICK x : x = Least(named)
    OBVIOUS
  <2>2. x \in named
    BY <1>1, <1>2, <1>4, <2>1, LeastOf
  <2>3. PICK n \in Names : n = v[x].name /\ n # None
    BY <1>1, <1>2, <2>2
  <2>4. used' = [ns |-> "value", name |-> n, level |-> Top, at |-> Here,
                 def |-> LookedUp(Stmt)[x].def, code |-> LookedUp(Stmt)[x].code]
    BY <1>1, <1>4, <2>1, <2>3 DEF UseOf, Looked, Least
  <2>5. LookedUp(Stmt)[x] = LookupValue(scopes, n)
    BY <1>1, <2>2, <2>3 DEF LookedUp
  <2>6. PICK u : u = used'
    OBVIOUS
  <2>7. u = [ns |-> "value", name |-> n, level |-> Len(frames), at |-> frames[Len(frames)].pos,
             def |-> LookupValue(scopes, n).def, code |-> LookupValue(scopes, n).code]
    BY <2>4, <2>5, <2>6 DEF Top, Here
  <2>8. ToldBy(u, frames)
    BY <2>7, ValueTold
  <2>9. u.level = Len(frames) /\ Len(frames) \in Nat
    BY <2>7, FramesAre
  <2>. QED BY <2>6, <2>8, <2>9 DEF UsedTold
<1>. QED BY <1>3, <1>4

-----------------------------------------------------------------------------
(* Every step keeps the invariant.                                          *)

LEMMA InitInv ==
    ASSUME ResolveInit
    PROVE  InvOf(frames, scopes, used)
<1>1. PICK root \in Roots :
          /\ frames = <<[stmts |-> root, pos |-> 1]>>
          /\ scopes = DeclareItems(<<NewScope>>, root).sc
  BY DEF ResolveInit
<1>2. IsText(root) /\ OpenText(root)
  BY ResolveAssumption DEF OpenText
<1>3. Len(root) \in Nat
  BY <1>2, TextIs
<1>4. TextsOpen(frames)
  <2>1. Len(frames) = 1 /\ frames[1].stmts = root /\ frames[1].pos = 1
    BY <1>1
  <2>2. frames \in Seq([stmts : {root}, pos : Nat])
    BY <1>1
  <2>3. \E S : frames \in Seq([stmts : S, pos : Nat])
    BY <2>2
  <2>4. \A l \in 1 .. Len(frames) :
            OpenText(frames[l].stmts) /\ frames[l].pos \in 1 .. Len(frames[l].stmts) + 1
    BY <1>2, <1>3, <2>1
  <2>5. /\ Len(frames) >= 1 /\ IsText(frames[1].stmts)
        /\ \A l \in 1 .. Len(frames) - 1 :
              frames[l].pos > 1 /\ frames[l].stmts[frames[l].pos - 1].k \in {"fn", "block", "param"}
    BY <1>2, <2>1
  <2>. QED BY <2>3, <2>4, <2>5 DEF TextsOpen
<1>5. PICK one, sc : one = <<NewScope>> /\ sc = scopes
  OBVIOUS
<1>6. /\ one \in Seq(ScopeTables) /\ Len(one) = 1 /\ one[1] = NewScope
  BY <1>5, NewScopeIs
<1>7. Holds(sc, one, root, Len(root))
  <2>1. \A ns \in Ns, n \in Names : one[Len(one)].names[<<ns, n>>] = None
    BY <1>6, NewScopeIs
  <2>2. Len(one) >= 1
    BY <1>6
  <2>. QED BY <1>1, <1>2, <1>5, <1>6, <2>1, <2>2, DeclareIs
<1>8. /\ sc \in Seq(ScopeTables) /\ Len(sc) = 1
      /\ sc[1].pending = NewScope.pending
      /\ \A ns \in Ns, n \in Names :
            sc[1].names[<<ns, n>>] = FirstItem(root, 1, ItemsTo(root, 1, ns, n, Len(root)))
  BY <1>6, <1>7 DEF Holds
<1>9. NamesFit(sc[1], root, 1, 1)
  BY <1>2, <1>8, ItemsShown DEF NamesFit
<1>10. PendingFits(sc[1], root, 1, 1)
  BY <1>8, NewScopeIs DEF PendingFits
<1>11. TablesAgree(frames, sc)
  <2>1. Len(frames) = 1 /\ Limit(frames, 1) = 1 /\ frames[1].stmts = root
    BY <1>1 DEF Limit
  <2>. QED BY <1>8, <1>9, <1>10, <2>1 DEF TablesAgree
<1>12. UsedTold(used, frames)
  BY NothingTold DEF ResolveInit
<1>. QED BY <1>4, <1>5, <1>11, <1>12 DEF InvOf

LEMMA UseInv ==
    ASSUME InvOf(frames, scopes, used), ResolveUse
    PROVE  InvOf(frames', scopes', used')
<1>1. TextsOpen(frames) /\ TablesAgree(frames, scopes)
  BY DEF InvOf
<1>2. /\ Here <= Len(frames[Top].stmts)
      /\ Stmt.k \in {"use", "space", "role"} \/ (Stmt.k = "let" /\ Top = 1)
      /\ UseOf(Stmt) /\ frames' = [frames EXCEPT ![Top].pos = @ + 1] /\ scopes' = scopes
  BY DEF ResolveUse, Advance
<1>3. PICK fr2, u2 : fr2 = frames' /\ u2 = used'
  OBVIOUS
<1>4. TextsOpen(fr2) /\ Advanced(fr2, frames)
  BY <1>1, <1>2, <1>3, AdvancedIs DEF Here, Top
<1>5. TablesAgree(fr2, scopes)
  <2>1. frames[Top].stmts[frames[Top].pos].k # "let" \/ Top = 1
    BY <1>2 DEF Stmt, Here
  <2>2. frames[Top].pos <= Len(frames[Top].stmts) /\ Top = Len(frames)
    BY <1>2 DEF Here, Top
  <2>. QED BY <1>1, <1>4, <2>1, <2>2, TablesStay
<1>6. UsedTold(u2, fr2)
  <2>1. u2 = NoLookup \/ (u2.level = Len(frames) /\ UsedTold(u2, frames))
    BY <1>1, <1>2, <1>3, UseTold
  <2>2. Len(frames) \in Nat
    BY <1>1, FramesAre
  <2>. QED BY <1>4, <2>1, <2>2, NothingTold, ToldOn DEF UsedTold
<1>. QED BY <1>2, <1>3, <1>4, <1>5, <1>6 DEF InvOf

LEMMA AliasInv ==
    ASSUME InvOf(frames, scopes, used), ResolveAlias
    PROVE  InvOf(frames', scopes', used')
<1>1. TextsOpen(frames) /\ TablesAgree(frames, scopes)
  BY DEF InvOf
<1>2. /\ Here <= Len(frames[Top].stmts) /\ Stmt.k = "alias"
      /\ Looked("type", Head(Stmt.to), LookupType(scopes, Head(Stmt.to)))
      /\ frames' = [frames EXCEPT ![Top].pos = @ + 1] /\ scopes' = scopes
  BY DEF ResolveAlias, Advance
<1>3. PICK fr2, u2 : fr2 = frames' /\ u2 = used'
  OBVIOUS
<1>4. TextsOpen(fr2) /\ Advanced(fr2, frames)
  BY <1>1, <1>2, <1>3, AdvancedIs DEF Here, Top
<1>5. TablesAgree(fr2, scopes)
  <2>1. frames[Top].stmts[frames[Top].pos].k # "let" \/ Top = 1
    BY <1>2 DEF Stmt, Here
  <2>2. frames[Top].pos <= Len(frames[Top].stmts) /\ Top = Len(frames)
    BY <1>2 DEF Here, Top
  <2>. QED BY <1>1, <1>4, <2>1, <2>2, TablesStay
<1>6. UsedTold(u2, fr2)
  <2>1. PICK n : n = Head(Stmt.to)
    OBVIOUS
  <2>2. n \in Names
    <3>1. PICK stmts, i : stmts = frames[Top].stmts /\ i = Here
      OBVIOUS
    <3>2. OpenText(stmts) /\ i \in DOMAIN stmts /\ stmts[i].k = "alias" /\ Stmt = stmts[i]
      BY <1>1, <1>2, <3>1, StandsAt DEF Stmt
    <3>3. IsText(stmts)
      <4>1. CASE ParamText(stmts)
        <5>1. DOMAIN stmts = {1}
          BY <4>1 DEF ParamText
        <5>. QED BY <3>2, <4>1, <5>1 DEF ParamText
      <4>. QED BY <3>2, <4>1 DEF OpenText
    <3>4. Stmt.to \in Seq(Names) \ {<<>>}
      BY <3>2, <3>3 DEF IsText
    <3>. QED BY <2>1, <3>4
  <2>3. u2 = [ns |-> "type", name |-> n, level |-> Len(frames), at |-> frames[Len(frames)].pos,
              def |-> LookupType(scopes, n).def, code |-> LookupType(scopes, n).code]
    BY <1>2, <1>3, <2>1 DEF Looked, Top, Here
  <2>4. ToldBy(u2, frames)
    BY <1>1, <2>2, <2>3, TypeTold
  <2>5. u2.level = Len(frames) /\ Len(frames) \in Nat
    BY <1>1, <2>3, FramesAre
  <2>. QED BY <1>4, <2>4, <2>5, ToldOn DEF UsedTold
<1>. QED BY <1>2, <1>3, <1>4, <1>5, <1>6 DEF InvOf

LEMMA LetInv ==
    ASSUME InvOf(frames, scopes, used), ResolveLet
    PROVE  InvOf(frames', scopes', used')
<1>1. TextsOpen(frames) /\ TablesAgree(frames, scopes)
  BY DEF InvOf
<1>2. /\ Here <= Len(frames[Top].stmts) /\ Stmt.k = "let" /\ Top > 1 /\ UseOf(Stmt)
      /\ scopes' = Bind([scopes EXCEPT ![Top].pending[Stmt.name] = None],
                        "value", Stmt.name, Def("let", Top, Here))
      /\ frames' = [frames EXCEPT ![Top].pos = @ + 1]
  BY DEF ResolveLet, Advance
<1>3. PICK fr2, sc2, u2 : fr2 = frames' /\ sc2 = scopes' /\ u2 = used'
  OBVIOUS
<1>4. TextsOpen(fr2) /\ Advanced(fr2, frames)
  BY <1>1, <1>2, <1>3, AdvancedIs DEF Here, Top
<1>5. TablesAgree(fr2, sc2)
  <2>1. PICK top, p, s : top = Top /\ p = Here /\ s = Stmt
    OBVIOUS
  <2>2. /\ top = Len(frames) /\ top > 1 /\ p = frames[top].pos /\ p <= Len(frames[top].stmts)
        /\ s = frames[top].stmts[p] /\ s.k = "let"
        /\ sc2 = Bind([scopes EXCEPT ![top].pending[s.name] = None], "value", s.name, Def("let", top, p))
    BY <1>2, <1>3, <2>1 DEF Top, Here, Stmt
  <2>. QED BY <1>1, <1>4, <2>2, TablesLet
<1>6. UsedTold(u2, fr2)
  <2>1. u2 = NoLookup \/ (u2.level = Len(frames) /\ UsedTold(u2, frames))
    BY <1>1, <1>2, <1>3, UseTold
  <2>2. Len(frames) \in Nat
    BY <1>1, FramesAre
  <2>. QED BY <1>4, <2>1, <2>2, NothingTold, ToldOn DEF UsedTold
<1>. QED BY <1>3, <1>4, <1>5, <1>6 DEF InvOf

LEMMA LeaveInv ==
    ASSUME InvOf(frames, scopes, used), Leave
    PROVE  InvOf(frames', scopes', used')
<1>1. TextsOpen(frames) /\ TablesAgree(frames, scopes) /\ Len(frames) > 1
  BY DEF InvOf, Leave, Top
<1>2. PICK fr2, sc2 : fr2 = Front(frames) /\ sc2 = Front(scopes)
  OBVIOUS
<1>3. fr2 = frames' /\ sc2 = scopes' /\ used' = NoLookup
  BY <1>2 DEF Leave
<1>4. TextsOpen(fr2)
  BY <1>1, <1>2, TextLeft
<1>5. TablesAgree(fr2, sc2)
  BY <1>1, <1>2, TablesLeave
<1>. QED BY <1>3, <1>4, <1>5, NothingTold DEF InvOf

\* The text the resolver goes into waits after the statement that opens it.
LEMMA GoesIn ==
    ASSUME InvOf(frames, scopes, used), Here <= Len(frames[Top].stmts), Stmt.k \in {"fn", "block"},
           NEW adv, adv = [frames EXCEPT ![Top].pos = @ + 1]
    PROVE  /\ TextsOpen(adv) /\ Len(adv) = Top /\ Opening(adv[Len(adv)]) /\ TablesWait(adv, scopes)
           /\ scopes \in Seq(ScopeTables) /\ Len(scopes) = Top /\ Top \in Nat /\ Top >= 1
<1>1. TextsOpen(frames) /\ TablesAgree(frames, scopes)
  BY DEF InvOf
<1>2. TextsOpen(adv) /\ Advanced(adv, frames)
  BY <1>1, AdvancedIs DEF Here, Top
<1>3. TablesWait(adv, scopes)
  BY <1>1, <1>2, TablesLeft
<1>4. Top \in Nat /\ Top >= 1 /\ Top = Len(frames) /\ Here \in Nat /\ Here >= 1 /\ Here = frames[Top].pos
  BY <1>1, FramesAre DEF Top, Here
<1>5. Len(adv) = Top /\ adv[Top].stmts = frames[Top].stmts /\ adv[Top].pos = Here + 1
  BY <1>2, <1>4 DEF Advanced
<1>6. Opening(adv[Len(adv)])
  <2>1. adv[Top].stmts[adv[Top].pos - 1] = Stmt
    BY <1>4, <1>5 DEF Stmt
  <2>2. adv[Top].pos > 1
    BY <1>4, <1>5
  <2>. QED BY <1>5, <2>1, <2>2 DEF Opening
<1>. QED BY <1>1, <1>2, <1>3, <1>4, <1>5, <1>6 DEF TablesAgree

LEMMA BlockInv ==
    ASSUME InvOf(frames, scopes, used), NEW body \in Bodies, EnterBlock(body)
    PROVE  InvOf(frames', scopes', used')
<1>1. PICK adv : adv = [frames EXCEPT ![Top].pos = @ + 1]
  OBVIOUS
<1>2. PICK top : top = Top
  OBVIOUS
<1>3. /\ TextsOpen(adv) /\ Len(adv) = top /\ Opening(adv[Len(adv)]) /\ TablesWait(adv, scopes)
      /\ scopes \in Seq(ScopeTables) /\ Len(scopes) = top /\ top \in Nat /\ top >= 1
  BY <1>1, <1>2, GoesIn DEF EnterBlock
<1>4. IsText(body) /\ OpenText(body)
  BY ResolveAssumption DEF OpenText
<1>5. PICK fr2, sc2 : fr2 = Append(adv, [stmts |-> body, pos |-> 1]) /\ sc2 = OpenBlock(scopes, body)
  OBVIOUS
<1>6. fr2 = frames' /\ sc2 = scopes' /\ used' = NoLookup
  BY <1>1, <1>5 DEF EnterBlock
<1>7. PICK p : p = 1
  OBVIOUS
<1>8. Pushed(fr2, adv, body, p)
  <2>1. p \in 1 .. Len(body) + 1
    BY <1>4, <1>7, TextIs
  <2>2. fr2 = Append(adv, [stmts |-> body, pos |-> p])
    BY <1>5, <1>7
  <2>. QED BY <1>3, <1>4, <2>1, <2>2, TextPushed
<1>9. Opened(sc2, scopes, body)
  BY <1>3, <1>4, <1>5, OpenIs
<1>10. TablesAgree(fr2, sc2)
  <2>1. p \in {1, 2}
    BY <1>7
  <2>. QED BY <1>3, <1>7, <1>8, <1>9, <2>1, TablesPushed
<1>11. TextsOpen(fr2)
  BY <1>8 DEF Pushed
<1>. QED BY <1>6, <1>10, <1>11, NothingTold DEF InvOf

LEMMA FnInv ==
    ASSUME InvOf(frames, scopes, used), NEW body \in Bodies, EnterFn(body)
    PROVE  InvOf(frames', scopes', used')
<1>1. PICK adv, top, name, text :
          /\ adv = [frames EXCEPT ![Top].pos = @ + 1] /\ top = Top /\ name = Stmt.param
          /\ text = <<[k |-> "param", name |-> name]>>
  OBVIOUS
<1>2. /\ TextsOpen(adv) /\ Len(adv) = top /\ Opening(adv[Len(adv)]) /\ TablesWait(adv, scopes)
      /\ scopes \in Seq(ScopeTables) /\ Len(scopes) = top /\ top \in Nat /\ top >= 1
  BY <1>1, GoesIn DEF EnterFn
<1>3. IsText(body) /\ OpenText(body)
  BY ResolveAssumption DEF OpenText
<1>4. name \in Names
  <2>1. PICK stmts, i : stmts = frames[Top].stmts /\ i = Here
    OBVIOUS
  <2>2. OpenText(stmts) /\ i \in DOMAIN stmts /\ stmts[i].k = "fn" /\ Stmt = stmts[i]
    BY <2>1, StandsAt DEF EnterFn, InvOf, Stmt
  <2>3. IsText(stmts)
    <3>1. CASE ParamText(stmts)
      <4>1. DOMAIN stmts = {1}
        BY <3>1 DEF ParamText
      <4>. QED BY <2>2, <3>1, <4>1 DEF ParamText
    <3>. QED BY <2>2, <3>1 DEF OpenText
  <2>. QED BY <1>1, <2>2, <2>3 DEF IsText
<1>5. PICK mid, fr2 : /\ mid = Append(adv, [stmts |-> text, pos |-> 2])
                      /\ fr2 = Append(mid, [stmts |-> body, pos |-> 1])
  OBVIOUS
<1>6. PICK with, sc2 : /\ with = Bind(Append(scopes, NewScope), "value", name, Def("param", top + 1, 1))
                       /\ sc2 = OpenBlock(with, body)
  OBVIOUS
<1>7. PICK S : adv \in Seq([stmts : S, pos : Nat])
  BY <1>2 DEF TextsOpen
<1>8. /\ used' = NoLookup /\ sc2 = scopes'
      /\ frames' = adv \o <<[stmts |-> text, pos |-> 2], [stmts |-> body, pos |-> 1]>>
  BY <1>1, <1>6 DEF EnterFn
<1>9. Opened(with, scopes, text) /\ OpenText(text) /\ Len(text) = 1
  <2>1. PICK l : l = top + 1
    OBVIOUS
  <2>2. /\ l \in Nat /\ l = Len(scopes) + 1 /\ Len(scopes) >= 1
        /\ with = Bind(Append(scopes, NewScope), "value", name, Def("param", l, 1))
    BY <1>2, <1>6, <2>1
  <2>. QED BY <1>1, <1>2, <1>4, <2>2, ParamScope
<1>10. PICK p, q : p = 2 /\ q = 1
  OBVIOUS
<1>11. Pushed(mid, adv, text, p)
  <2>1. p \in 1 .. Len(text) + 1
    BY <1>9, <1>10
  <2>2. mid = Append(adv, [stmts |-> text, pos |-> p])
    BY <1>5, <1>10
  <2>. QED BY <1>2, <1>9, <2>1, <2>2, TextPushed
<1>12. TablesWait(mid, with) /\ TextsOpen(mid)
  <2>1. p \in {1, 2}
    BY <1>10
  <2>2. TextsOpen(mid)
    BY <1>11 DEF Pushed
  <2>. QED BY <1>2, <1>9, <1>10, <1>11, <2>1, <2>2, TablesPushed
<1>13. Opening(mid[Len(mid)])
  <2>1. mid[Len(mid)].pos = 2 /\ mid[Len(mid)].stmts = text
    BY <1>10, <1>11 DEF Pushed
  <2>2. text[1].k = "param"
    BY <1>1
  <2>. QED BY <2>1, <2>2 DEF Opening
<1>14. Pushed(fr2, mid, body, q)
  <2>1. q \in 1 .. Len(body) + 1
    BY <1>3, <1>10, TextIs
  <2>2. fr2 = Append(mid, [stmts |-> body, pos |-> q])
    BY <1>5, <1>10
  <2>. QED BY <1>3, <1>12, <1>13, <2>1, <2>2, TextPushed
<1>15. TablesAgree(fr2, sc2) /\ TextsOpen(fr2)
  <2>1. with \in Seq(ScopeTables) /\ Len(with) >= 1
    BY <1>2, <1>9 DEF Opened
  <2>2. Opened(sc2, with, body)
    BY <1>3, <1>6, <2>1, OpenIs
  <2>3. q \in {1, 2}
    BY <1>10
  <2>4. TextsOpen(fr2)
    BY <1>14 DEF Pushed
  <2>. QED BY <1>10, <1>12, <1>14, <2>2, <2>3, <2>4, TablesPushed
<1>16. fr2 = frames'
  <2>1. PICK a, b : a = [stmts |-> text, pos |-> 2] /\ b = [stmts |-> body, pos |-> 1]
    OBVIOUS
  <2>2. PICK F : F = [stmts : S \cup {text, body}, pos : Nat]
    OBVIOUS
  <2>3. a \in F /\ b \in F
    BY <2>1, <2>2
  <2>4. adv \in Seq(F)
    <3>1. [stmts : S, pos : Nat] \subseteq F
      BY <2>2
    <3>2. \A l \in 1 .. Len(adv) : adv[l] \in F
      BY <1>7, <3>1, ElementOfSeq
    <3>3. adv \in [1 .. top -> F]
      BY <1>2, <1>7, <3>2
    <3>. QED BY <1>2, <3>3, SeqDef
  <2>5. Append(Append(adv, a), b) = adv \o <<a, b>>
    BY <2>3, <2>4
  <2>. QED BY <1>5, <1>8, <2>1, <2>5
<1>. QED BY <1>8, <1>15, <1>16, NothingTold DEF InvOf

-----------------------------------------------------------------------------
\* The tables are what the texts of the open scopes say so far.
THEOREM TablesAreTexts == ResolveSpec => []ResolveInv
<1>1. ResolveInit => ResolveInv
  BY InitInv DEF ResolveInv
<1>2. ResolveInv /\ [ResolveNext]_resolverVars => ResolveInv'
  <2> SUFFICES ASSUME InvOf(frames, scopes, used), [ResolveNext]_resolverVars
               PROVE  InvOf(frames', scopes', used')
    BY DEF ResolveInv
  <2>1. CASE ResolveUse
    BY <2>1, UseInv
  <2>2. CASE ResolveAlias
    BY <2>2, AliasInv
  <2>3. CASE ResolveLet
    BY <2>3, LetInv
  <2>4. ASSUME NEW body \in Bodies, EnterFn(body) PROVE InvOf(frames', scopes', used')
    BY <2>4, FnInv
  <2>5. ASSUME NEW body \in Bodies, EnterBlock(body) PROVE InvOf(frames', scopes', used')
    BY <2>5, BlockInv
  <2>6. CASE Leave
    BY <2>6, LeaveInv
  <2>7. CASE UNCHANGED resolverVars
    BY <2>7 DEF resolverVars
  <2>. QED BY <2>1, <2>2, <2>3, <2>4, <2>5, <2>6, <2>7 DEF ResolveNext
<1>. QED BY <1>1, <1>2, PTL DEF ResolveSpec

\* Every name means what the text says: items are visible throughout their
\* scope, a local only after its let, the innermost scope first; and "used
\* before its definition" is said of exactly the names that have a let further
\* down.
THEOREM AlwaysLexical == ResolveSpec => []NamesAreLexical
<1>1. ResolveInv => NamesAreLexical
  BY ToldIsLexical DEF ResolveInv, InvOf
<1>. QED BY <1>1, TablesAreTexts, PTL
=============================================================================
