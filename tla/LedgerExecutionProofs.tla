------------------------ MODULE LedgerExecutionProofs ------------------------
(***************************************************************************)
(* Theorems about building a ledger, for every file, every set of          *)
(* addresses and every hash (which is never assumed to be injective), and  *)
(* about executing what was built: evaluate never meets a node that is     *)
(* missing or one that is already being evaluated, the bindings are what   *)
(* the source means, and a replay repeats the run it is held against.      *)
(***************************************************************************)
EXTENDS LedgerExecution, FiniteSetTheorems, FunctionTheorems, SequenceTheorems, TLAPS

-----------------------------------------------------------------------------
(* Sorting.  The facts about Sorted rest on the least element of a set of  *)
(* naturals, which serves as the induction principle.                      *)

\* A non-empty set of naturals has a least element.
LEMMA LeastNatural ==
    ASSUME NEW T, T \subseteq Nat, T # {}
    PROVE  \E n \in T : \A m \in T : n <= m
<1> DEFINE Below == {1 .. n : n \in T}
<1>1. Below \subseteq FiniteSubsetsOf(Nat)
  <2>1. \A n \in T : 1 .. n \subseteq Nat /\ IsFiniteSet(1 .. n)
    BY FS_Interval
  <2>2. QED
    BY <2>1 DEF FiniteSubsetsOf
<1>2. Below # {}
  OBVIOUS
<1>3. IsWellFoundedOn(StrictSubsetOrdering(Nat), FiniteSubsetsOf(Nat))
  BY FS_StrictSubsetOrderingWellFounded
<1>4. PICK b \in Below : \A c \in Below : ~ (<<c, b>> \in StrictSubsetOrdering(Nat))
  <2> HIDE DEF Below
  <2>1. QED
    BY <1>1, <1>2, <1>3, WFMin
<1>5. PICK n \in T : b = 1 .. n
  OBVIOUS
<1>6. ASSUME NEW m \in T, m < n PROVE FALSE
  <2>1. 1 .. m \in Below /\ 1 .. n \in SUBSET Nat /\ 1 .. m \in SUBSET Nat
    OBVIOUS
  <2>2. n \in 1 .. n /\ n \notin 1 .. m /\ 1 .. m \subseteq 1 .. n
    BY <1>6
  <2>3. <<1 .. m, 1 .. n>> \in StrictSubsetOrdering(Nat)
    BY <2>1, <2>2 DEF StrictSubsetOrdering
  <2>4. QED
    BY <2>1, <2>3, <1>4, <1>5
<1>7. QED
  BY <1>6

\* m repeats no position.
OneToOne(m, n) == \A j, k \in 1 .. n : m[j] = m[k] => j = k

\* m lists the positions of s in an order that sorts it.
Sorts(m, s, n) == \A j, k \in 1 .. n : j < k => s[m[j]] <= s[m[k]]

Sortable(n) ==
    \A s \in [1 .. n -> Nat] :
        \E m \in [1 .. n -> 1 .. n] :
            OneToOne(m, n) /\ Sorts(m, s, n)

\* The positions 1 .. n + 1 without p, and an order that begins with p.
Skip(p, n) == [k \in 1 .. n |-> IF k < p THEN k ELSE k + 1]
FirstThen(p, m, n) == [k \in 1 .. n + 1 |-> IF k = 1 THEN p ELSE Skip(p, n)[m[k - 1]]]

LEMMA SkipType ==
    ASSUME NEW n \in Nat, NEW p \in 1 .. n + 1
    PROVE  /\ Skip(p, n) \in [1 .. n -> 1 .. n + 1]
           /\ \A k \in 1 .. n : Skip(p, n)[k] # p
           /\ \A j, k \in 1 .. n : Skip(p, n)[j] = Skip(p, n)[k] => j = k
BY DEF Skip

LEMMA FirstThenType ==
    ASSUME NEW n \in Nat, NEW p \in 1 .. n + 1, NEW m \in [1 .. n -> 1 .. n],
           OneToOne(m, n)
    PROVE  /\ FirstThen(p, m, n) \in [1 .. n + 1 -> 1 .. n + 1]
           /\ OneToOne(FirstThen(p, m, n), n + 1)
           /\ FirstThen(p, m, n)[1] = p
           /\ \A k \in 2 .. n + 1 : /\ k - 1 \in 1 .. n
                                    /\ FirstThen(p, m, n)[k] = Skip(p, n)[m[k - 1]]
<1>1. \A k \in 1 .. n + 1 : k # 1 => k - 1 \in 1 .. n
  OBVIOUS
<1>2. \A k \in 1 .. n : m[k] \in 1 .. n
  OBVIOUS
<1>a. /\ Skip(p, n) \in [1 .. n -> 1 .. n + 1]
      /\ \A k \in 1 .. n : Skip(p, n)[k] # p
      /\ \A j, k \in 1 .. n : Skip(p, n)[j] = Skip(p, n)[k] => j = k
  BY SkipType
<1>3. FirstThen(p, m, n) \in [1 .. n + 1 -> 1 .. n + 1]
  <2>1. \A k \in 1 .. n + 1 : k # 1 => Skip(p, n)[m[k - 1]] \in 1 .. n + 1
    BY <1>1, <1>2, <1>a
  <2>2. QED
    BY <2>1 DEF FirstThen
<1>4. FirstThen(p, m, n)[1] = p
  BY DEF FirstThen
<1>5. \A k \in 2 .. n + 1 : /\ k - 1 \in 1 .. n
                            /\ FirstThen(p, m, n)[k] = Skip(p, n)[m[k - 1]]
  BY <1>1 DEF FirstThen
<1>6. ASSUME NEW j \in 1 .. n + 1, NEW k \in 1 .. n + 1,
             FirstThen(p, m, n)[j] = FirstThen(p, m, n)[k]
      PROVE  j = k
  <2>1. CASE j = 1 \/ k = 1
    <3>1. \A i \in 2 .. n + 1 : FirstThen(p, m, n)[i] # p
      BY <1>2, <1>5, <1>a
    <3>2. QED
      BY <3>1, <2>1, <1>4, <1>6
  <2>2. CASE j # 1 /\ k # 1
    <3>1. j \in 2 .. n + 1 /\ k \in 2 .. n + 1
      BY <2>2
    <3>2. Skip(p, n)[m[j - 1]] = Skip(p, n)[m[k - 1]]
      BY <3>1, <1>5, <1>6
    <3>3. m[j - 1] = m[k - 1]
      BY <3>1, <3>2, <1>2, <1>5, <1>a
    <3>4. j - 1 = k - 1
      BY <3>1, <3>3, <1>5 DEF OneToOne
    <3>5. QED
      BY <3>4
  <2>3. QED
    BY <2>1, <2>2
<1>7. QED
  BY <1>3, <1>4, <1>5, <1>6 DEF OneToOne

\* With the least element in front and the others sorted, all are sorted.
LEMMA SortableStep ==
    ASSUME NEW n \in Nat, Sortable(n)
    PROVE  Sortable(n + 1)
<1> SUFFICES ASSUME NEW s \in [1 .. n + 1 -> Nat]
             PROVE  \E m \in [1 .. n + 1 -> 1 .. n + 1] :
                        OneToOne(m, n + 1) /\ Sorts(m, s, n + 1)
  BY DEF Sortable
<1>1. \E p \in 1 .. n + 1 : \A k \in 1 .. n + 1 : s[p] <= s[k]
  <2> DEFINE Elements == {s[k] : k \in 1 .. n + 1}
  <2>1. Elements \subseteq Nat /\ s[1] \in Elements
    OBVIOUS
  <2>2. \E least \in Elements : \A x \in Elements : least <= x
    <3> HIDE DEF Elements
    <3>1. QED
      BY <2>1, LeastNatural
  <2>3. QED
    BY <2>2
<1>2. PICK p \in 1 .. n + 1 : \A k \in 1 .. n + 1 : s[p] <= s[k]
  BY <1>1
<1>3. [k \in 1 .. n |-> s[Skip(p, n)[k]]] \in [1 .. n -> Nat]
  <2>1. Skip(p, n) \in [1 .. n -> 1 .. n + 1]
    BY SkipType
  <2>2. QED
    BY <2>1
<1>4. PICK m \in [1 .. n -> 1 .. n] :
          OneToOne(m, n) /\ Sorts(m, [k \in 1 .. n |-> s[Skip(p, n)[k]]], n)
  BY <1>3 DEF Sortable
<1>5. \A j, k \in 1 .. n : j < k => s[Skip(p, n)[m[j]]] <= s[Skip(p, n)[m[k]]]
  <2>1. \A k \in 1 .. n : m[k] \in 1 .. n
    OBVIOUS
  <2>2. QED
    BY <2>1, <1>4 DEF Sorts
<1>a. /\ FirstThen(p, m, n) \in [1 .. n + 1 -> 1 .. n + 1]
      /\ OneToOne(FirstThen(p, m, n), n + 1)
      /\ FirstThen(p, m, n)[1] = p
      /\ \A k \in 2 .. n + 1 : /\ k - 1 \in 1 .. n
                               /\ FirstThen(p, m, n)[k] = Skip(p, n)[m[k - 1]]
  BY <1>4, FirstThenType
<1>6. ASSUME NEW j \in 1 .. n + 1, NEW k \in 1 .. n + 1, j < k
      PROVE  s[FirstThen(p, m, n)[j]] <= s[FirstThen(p, m, n)[k]]
  <2>1. CASE j = 1
    BY <2>1, <1>2, <1>a
  <2>2. CASE j # 1
    <3>1. j \in 2 .. n + 1 /\ k \in 2 .. n + 1 /\ j - 1 < k - 1
      BY <2>2, <1>6
    <3>2. /\ j - 1 \in 1 .. n /\ k - 1 \in 1 .. n
          /\ FirstThen(p, m, n)[j] = Skip(p, n)[m[j - 1]]
          /\ FirstThen(p, m, n)[k] = Skip(p, n)[m[k - 1]]
      BY <3>1, <1>a
    <3>3. QED
      BY <3>1, <3>2, <1>5
  <2>3. QED
    BY <2>1, <2>2
<1>7. QED
  BY <1>a, <1>6 DEF Sorts

\* Every sequence of naturals can be sorted: the least length that could not
\* would follow a length that can.
LEMMA AlwaysSortable == \A n \in Nat : Sortable(n)
<1> DEFINE Bad == {n \in Nat : ~ Sortable(n)}
<1> SUFFICES ASSUME Bad # {} PROVE FALSE
  OBVIOUS
<1>1. PICK n \in Bad : \A m \in Bad : n <= m
  <2>1. Bad \subseteq Nat
    OBVIOUS
  <2> HIDE DEF Bad
  <2>2. QED
    BY <2>1, LeastNatural
<1>2. Sortable(0)
  <2> SUFFICES ASSUME NEW s \in [1 .. 0 -> Nat]
               PROVE  \E m \in [1 .. 0 -> 1 .. 0] :
                        OneToOne(m, 0) /\ Sorts(m, s, 0)
    BY DEF Sortable
  <2>1. [k \in 1 .. 0 |-> k] \in [1 .. 0 -> 1 .. 0]
    OBVIOUS
  <2>2. Sorts([k \in 1 .. 0 |-> k], s, 0)
    BY DEF Sorts
  <2>3. QED
    BY <2>1, <2>2 DEF OneToOne
<1>3. n # 0
  BY <1>2
<1>4. n - 1 \in Nat /\ Sortable(n - 1)
  BY <1>1, <1>3
<1>5. Sortable((n - 1) + 1)
  BY <1>4, SortableStep
<1>6. QED
  BY <1>5

\* An order that repeats no position can be undone.
LEMMA InverseOrder ==
    ASSUME NEW n \in Nat, NEW p \in [1 .. n -> 1 .. n], OneToOne(p, n)
    PROVE  \E i \in [1 .. n -> 1 .. n] :
              /\ OneToOne(i, n)
              /\ \A k \in 1 .. n : p[i[k]] = k /\ i[p[k]] = k
<1>1. p \in Injection(1 .. n, 1 .. n)
  BY Fun_IsInj DEF OneToOne
<1>2. p \in Surjection(1 .. n, 1 .. n)
  BY <1>1, FS_Interval, FS_Injection
<1>3. \A k \in 1 .. n : \E j \in 1 .. n : p[j] = k
  BY <1>2 DEF Surjection
<1> DEFINE i == [k \in 1 .. n |-> CHOOSE j \in 1 .. n : p[j] = k]
<1>4. \A k \in 1 .. n : i[k] \in 1 .. n /\ p[i[k]] = k
  BY <1>3
<1>5. i \in [1 .. n -> 1 .. n]
  BY <1>4
<1> HIDE DEF i
<1>6. OneToOne(i, n)
  BY <1>4 DEF OneToOne
<1>7. \A k \in 1 .. n : i[p[k]] = k
  BY <1>4 DEF OneToOne
<1>8. QED
  BY <1>4, <1>5, <1>6, <1>7

\* s never falls.
Rising(s, n) == \A j, k \in 1 .. n : j < k => s[j] <= s[k]

\* t is s in the order m.
Reorders(m, s, t, n) == OneToOne(m, n) /\ \A k \in 1 .. n : s[k] = t[m[k]]

LEMMA Counting ==
    ASSUME NEW k \in Nat \ {0}
    PROVE  /\ IsFiniteSet(1 .. k) /\ IsFiniteSet(1 .. k - 1)
           /\ Cardinality(1 .. k) = k /\ Cardinality(1 .. k - 1) = k - 1
<1>1. 1 \in Int /\ k \in Int /\ k - 1 \in Int
  OBVIOUS
<1>2. IsFiniteSet(1 .. k) /\ Cardinality(1 .. k) = IF 1 > k THEN 0 ELSE k - 1 + 1
  BY <1>1, FS_Interval
<1>3. PICK j \in Int : j = k - 1
  BY <1>1
<1>4. IsFiniteSet(1 .. j) /\ Cardinality(1 .. j) = IF 1 > j THEN 0 ELSE j - 1 + 1
  BY <1>1, FS_Interval
<1>5. QED
  BY <1>2, <1>3, <1>4

LEMMA Within ==
    ASSUME NEW n \in Nat, NEW k \in 1 .. n, NEW i \in 1 .. k
    PROVE  i \in 1 .. n
OBVIOUS

\* Were u smaller at k, its first k elements would be among fewer than k of v.
LEMMA NoneSmaller ==
    ASSUME NEW n \in Nat, NEW u \in [1 .. n -> Nat], NEW v \in [1 .. n -> Nat],
           Rising(u, n), Rising(v, n),
           NEW q \in [1 .. n -> 1 .. n], Reorders(q, u, v, n),
           NEW k \in 1 .. n
    PROVE  v[k] <= u[k]
<1> SUFFICES ASSUME ~ (v[k] <= u[k]) PROVE FALSE
  OBVIOUS
<1>0. k \in Nat /\ k - 1 \in Nat
  OBVIOUS
<1>b. k \in Nat \ {0}
  OBVIOUS
<1>1. u[k] \in Nat /\ v[k] \in Nat /\ u[k] < v[k]
  OBVIOUS
<1>2. ASSUME NEW i \in 1 .. k PROVE q[i] \in 1 .. k - 1
  <2>1. i \in 1 .. n
    OBVIOUS
  <2>2. q[i] \in 1 .. n /\ u[i] \in Nat /\ v[q[i]] \in Nat
    BY <2>1
  <2>3. u[i] <= u[k]
    BY <1>1, <2>1 DEF Rising
  <2>4. v[q[i]] < v[k]
    BY <1>1, <2>1, <2>2, <2>3 DEF Reorders
  <2>5. PICK x \in 1 .. n : x = q[i]
    BY <2>2
  <2>6. ~ (v[k] <= v[x])
    <3>1. v[x] \in Nat /\ v[x] < v[k]
      BY <2>2, <2>4, <2>5
    <3>2. PICK y \in Nat, z \in Nat : y = v[x] /\ z = v[k]
      BY <1>1, <3>1
    <3>3. y < z
      BY <3>1, <3>2
    <3>4. ~ (z <= y)
      BY <3>3
    <3>5. QED
      BY <3>2, <3>4
  <2>7. ~ (k < x) /\ k # x
    <3>1. k # x
      BY <1>1, <2>6
    <3>2. QED
      BY <2>6, <3>1 DEF Rising
  <2>8. QED
    BY <1>0, <2>5, <2>7
<1>3. [i \in 1 .. k |-> q[i]] \in [1 .. k -> 1 .. k - 1]
  BY <1>2
<1>4. /\ IsFiniteSet(1 .. k) /\ IsFiniteSet(1 .. k - 1)
      /\ Cardinality(1 .. k - 1) < Cardinality(1 .. k)
  <2>1. /\ IsFiniteSet(1 .. k) /\ IsFiniteSet(1 .. k - 1)
        /\ Cardinality(1 .. k) = k
        /\ Cardinality(1 .. k - 1) = k - 1
    BY <1>b, Counting
  <2>2. QED
    BY <1>0, <2>1
<1> DEFINE first == [i \in 1 .. k |-> q[i]]
<1>5. \E i, j \in 1 .. k : i # j /\ first[i] = first[j]
  <2> HIDE DEF first
  <2>1. first \in [1 .. k -> 1 .. k - 1]
    BY <1>3 DEF first
  <2>2. QED
    BY <2>1, <1>4, FS_PigeonHole
<1>6. PICK i, j \in 1 .. k : i # j /\ q[i] = q[j]
  BY <1>5
<1>a. i \in 1 .. n /\ j \in 1 .. n
  BY <1>0, Within
<1>7. QED
  BY <1>6, <1>a DEF Reorders, OneToOne

\* Two rising sequences, one a reordering of the other, are the same.
LEMMA RisingOnce ==
    ASSUME NEW n \in Nat, NEW u \in [1 .. n -> Nat], NEW v \in [1 .. n -> Nat],
           Rising(u, n), Rising(v, n),
           NEW q \in [1 .. n -> 1 .. n], Reorders(q, u, v, n)
    PROVE  u = v
<1>1. \A k \in 1 .. n : v[k] <= u[k]
  BY NoneSmaller
<1>2. PICK r \in [1 .. n -> 1 .. n] :
          OneToOne(r, n) /\ \A k \in 1 .. n : q[r[k]] = k /\ r[q[k]] = k
  BY InverseOrder DEF Reorders
<1>3. \A k \in 1 .. n : v[k] = u[r[k]]
  <2>1. \A k \in 1 .. n : r[k] \in 1 .. n
    OBVIOUS
  <2>2. QED
    BY <1>2, <2>1 DEF Reorders
<1>4. Reorders(r, v, u, n)
  BY <1>2, <1>3 DEF Reorders
<1>5. \A k \in 1 .. n : u[k] <= v[k]
  BY <1>4, NoneSmaller
<1>6. ASSUME NEW k \in 1 .. n PROVE u[k] = v[k]
  <2>1. u[k] \in Nat /\ v[k] \in Nat
    OBVIOUS
  <2>2. u[k] <= v[k] /\ v[k] <= u[k]
    BY <1>1, <1>5
  <2>3. QED
    BY <2>1, <2>2
<1>7. QED
  BY <1>6

\* Sorting picks an order in which the addresses rise.
LEMMA SortedRises ==
    ASSUME NEW n \in Nat, NEW s \in [1 .. n -> Nat]
    PROVE  /\ SortingOrder(s) \in [1 .. n -> 1 .. n]
           /\ OneToOne(SortingOrder(s), n)
           /\ \A k \in 1 .. n : Sorted(s)[k] = s[SortingOrder(s)[k]]
           /\ Sorted(s) \in [1 .. n -> Nat]
           /\ Rising(Sorted(s), n)
<1>1. PICK m \in [1 .. n -> 1 .. n] : OneToOne(m, n) /\ Sorts(m, s, n)
  BY AlwaysSortable DEF Sortable
<1>2. DOMAIN s = 1 .. n
  OBVIOUS
<1>3. m \in Injection(DOMAIN s, DOMAIN s)
  BY <1>1, <1>2, Fun_IsInj DEF OneToOne
<1>4. \A j, k \in DOMAIN s : j < k => s[m[j]] <= s[m[k]]
  BY <1>1, <1>2 DEF Sorts
<1>5. /\ SortingOrder(s) \in Injection(DOMAIN s, DOMAIN s)
      /\ \A j, k \in DOMAIN s : j < k => s[SortingOrder(s)[j]] <= s[SortingOrder(s)[k]]
  BY <1>3, <1>4 DEF SortingOrder
<1>6. SortingOrder(s) \in [1 .. n -> 1 .. n] /\ OneToOne(SortingOrder(s), n)
  <2>1. PICK order : order = SortingOrder(s)
    OBVIOUS
  <2>2. order \in Injection(1 .. n, 1 .. n)
    BY <1>2, <1>5, <2>1
  <2>3. order \in [1 .. n -> 1 .. n] /\ \A a, b \in 1 .. n : order[a] = order[b] => a = b
    BY <2>2 DEF Injection, IsInjective
  <2>4. QED
    BY <2>1, <2>3 DEF OneToOne
<1>7. \A k \in 1 .. n : Sorted(s)[k] = s[SortingOrder(s)[k]]
  BY <1>2 DEF Sorted
<1>8. Sorted(s) \in [1 .. n -> Nat]
  BY <1>2, <1>6 DEF Sorted
<1>9. Rising(Sorted(s), n)
  BY <1>2, <1>5, <1>7 DEF Rising
<1>10. QED
  BY <1>6, <1>7, <1>8, <1>9

\* Composing two orders.
LEMMA Composed ==
    ASSUME NEW n \in Nat, NEW a \in [1 .. n -> 1 .. n], NEW b \in [1 .. n -> 1 .. n],
           OneToOne(a, n), OneToOne(b, n)
    PROVE  \E c \in [1 .. n -> 1 .. n] :
              OneToOne(c, n) /\ \A k \in 1 .. n : c[k] = b[a[k]]
<1> DEFINE c == [k \in 1 .. n |-> b[a[k]]]
<1>1. \A k \in 1 .. n : a[k] \in 1 .. n /\ b[a[k]] \in 1 .. n
  OBVIOUS
<1>2. c \in [1 .. n -> 1 .. n] /\ \A k \in 1 .. n : c[k] = b[a[k]]
  BY <1>1
<1> HIDE DEF c
<1>3. OneToOne(c, n)
  BY <1>1, <1>2 DEF OneToOne
<1>4. QED
  BY <1>2, <1>3

\* Sorting forgets the order of the operands and nothing else.
LEMMA SameSorted ==
    ASSUME NEW n \in Nat, NEW s \in [1 .. n -> Nat], NEW t \in [1 .. n -> Nat]
    PROVE  Sorted(s) = Sorted(t) <=> \E m \in [1 .. n -> 1 .. n] : Reorders(m, s, t, n)
<1>0. PICK p \in [1 .. n -> 1 .. n] :
          /\ OneToOne(p, n)
          /\ \A k \in 1 .. n : Sorted(s)[k] = s[p[k]]
  BY SortedRises
<1>1. PICK q \in [1 .. n -> 1 .. n] :
          /\ OneToOne(q, n)
          /\ \A k \in 1 .. n : Sorted(t)[k] = t[q[k]]
  BY SortedRises
<1>2. PICK i \in [1 .. n -> 1 .. n] :
          OneToOne(i, n) /\ \A k \in 1 .. n : p[i[k]] = k /\ i[p[k]] = k
  BY <1>0, InverseOrder
<1>3. PICK j \in [1 .. n -> 1 .. n] :
          OneToOne(j, n) /\ \A k \in 1 .. n : q[j[k]] = k /\ j[q[k]] = k
  BY <1>1, InverseOrder
<1>4. ASSUME Sorted(s) = Sorted(t)
      PROVE  \E m \in [1 .. n -> 1 .. n] : Reorders(m, s, t, n)
  <2>0. OneToOne(i, n) /\ OneToOne(q, n)
    BY <1>1, <1>2
  <2>1. PICK m \in [1 .. n -> 1 .. n] : OneToOne(m, n) /\ \A k \in 1 .. n : m[k] = q[i[k]]
    BY <2>0, Composed
  <2>2. ASSUME NEW k \in 1 .. n PROVE s[k] = t[m[k]]
    <3>1. i[k] \in 1 .. n
      OBVIOUS
    <3>2. s[p[i[k]]] = t[q[i[k]]]
      BY <1>0, <1>1, <1>4, <3>1
    <3>3. QED
      BY <1>2, <2>1, <3>2
  <2>3. QED
    BY <2>1, <2>2 DEF Reorders
<1>5. ASSUME NEW m \in [1 .. n -> 1 .. n], Reorders(m, s, t, n)
      PROVE  Sorted(s) = Sorted(t)
  <2>1. PICK c \in [1 .. n -> 1 .. n] : OneToOne(c, n) /\ \A k \in 1 .. n : c[k] = m[p[k]]
    BY <1>0, <1>5, Composed DEF Reorders
  <2>b. OneToOne(c, n) /\ OneToOne(j, n)
    BY <1>3, <2>1
  <2>2. PICK d \in [1 .. n -> 1 .. n] : OneToOne(d, n) /\ \A k \in 1 .. n : d[k] = j[c[k]]
    BY <2>b, Composed
  <2>3. ASSUME NEW k \in 1 .. n PROVE Sorted(s)[k] = Sorted(t)[d[k]]
    <3>1. p[k] \in 1 .. n /\ c[k] \in 1 .. n /\ d[k] \in 1 .. n
      OBVIOUS
    <3>2. Sorted(s)[k] = t[m[p[k]]]
      BY <1>0, <1>5, <3>1 DEF Reorders
    <3>3. q[d[k]] = c[k]
      BY <1>3, <2>2, <3>1
    <3>4. Sorted(t)[d[k]] = t[q[d[k]]]
      BY <1>1, <3>1
    <3>5. t[q[d[k]]] = t[m[p[k]]]
      BY <2>1, <3>3
    <3>6. QED
      BY <3>2, <3>4, <3>5
  <2>4. Reorders(d, Sorted(s), Sorted(t), n)
    BY <2>2, <2>3 DEF Reorders
  <2>5. /\ Sorted(s) \in [1 .. n -> Nat] /\ Sorted(t) \in [1 .. n -> Nat]
        /\ Rising(Sorted(s), n) /\ Rising(Sorted(t), n)
    BY SortedRises
  <2>6. QED
    BY <2>4, <2>5, RisingOnce
<1>6. QED
  BY <1>4, <1>5

\* Sorting addresses permutes them.
LEMMA SortedType ==
    ASSUME NEW A, A \subseteq Nat, NEW s \in Seq(A)
    PROVE  /\ Sorted(s) \in Seq(A)
           /\ \A k \in DOMAIN Sorted(s) : \E j \in DOMAIN s : Sorted(s)[k] = s[j]
           /\ \A j \in DOMAIN s : \E k \in DOMAIN Sorted(s) : Sorted(s)[k] = s[j]
<1> DEFINE n == Len(s)
<1>1. n \in Nat /\ DOMAIN s = 1 .. n /\ s \in [1 .. n -> A]
  BY LenProperties
<1>2. s \in [1 .. n -> Nat]
  BY <1>1
<1> HIDE DEF n
<1>3. PICK m \in [1 .. n -> 1 .. n] :
          /\ OneToOne(m, n)
          /\ \A k \in 1 .. n : Sorted(s)[k] = s[m[k]]
  BY <1>1, <1>2, SortedRises
<1>4. PICK i \in [1 .. n -> 1 .. n] : \A k \in 1 .. n : m[i[k]] = k
  BY <1>1, <1>3, InverseOrder
<1>5. DOMAIN Sorted(s) = 1 .. n
  BY <1>1 DEF Sorted
<1>6. \A k \in 1 .. n : m[k] \in 1 .. n /\ i[k] \in 1 .. n
  OBVIOUS
<1>7. Sorted(s) \in [1 .. n -> A]
  BY <1>1, <1>3, <1>6 DEF Sorted
<1>8. Sorted(s) \in Seq(A)
  BY <1>1, <1>7, SeqDef
<1>9. \A j \in 1 .. n : Sorted(s)[i[j]] = s[j]
  BY <1>3, <1>4, <1>6
<1>10. QED
  BY <1>1, <1>3, <1>5, <1>6, <1>8, <1>9

-----------------------------------------------------------------------------
(* Types *)

\* An expression's parts are typed and its children are expressions.
LEMMA ArenaType ==
    ASSUME program \in Programs
    PROVE  /\ Len(Arena) \in Nat
           /\ Exprs = 1 .. Len(Arena)
           /\ \A e \in Exprs :
                 /\ Arena[e].kids \in Seq(Nat)
                 /\ {Arena[e].op, Arena[e].params, Arena[e].type} \subseteq STRING
                 /\ \A k \in DOMAIN Arena[e].kids : Arena[e].kids[k] \in Exprs
<1>1. Arena \in Seq(Expressions)
  BY LedgerAssumption DEF Arena
<1>2. \A e \in Exprs : \A k \in DOMAIN Arena[e].kids : Arena[e].kids[k] \in Exprs
  BY LedgerAssumption DEF Arena, Exprs
<1>3. Len(Arena) \in Nat /\ Exprs = 1 .. Len(Arena)
  BY <1>1, LenProperties DEF Exprs
<1>4. \A e \in Exprs : Arena[e] \in Expressions
  BY <1>1, <1>3, ElementOfSeq
<1>5. QED
  BY <1>2, <1>3, <1>4 DEF Expressions

\* Content is well formed, and its inputs are the given ones in some order.
LEMMA ContentType ==
    ASSUME program \in Programs, NEW e \in Exprs, NEW inputs \in Seq(Addresses)
    PROVE  /\ Content(e, inputs) \in Contents
           /\ \A k \in DOMAIN Content(e, inputs).inputs :
                 \E j \in DOMAIN inputs : Content(e, inputs).inputs[k] = inputs[j]
           /\ \A j \in DOMAIN inputs :
                 \E k \in DOMAIN Content(e, inputs).inputs : Content(e, inputs).inputs[k] = inputs[j]
<1>1. /\ Sorted(inputs) \in Seq(Addresses)
      /\ \A k \in DOMAIN Sorted(inputs) : \E j \in DOMAIN inputs : Sorted(inputs)[k] = inputs[j]
      /\ \A j \in DOMAIN inputs : \E k \in DOMAIN Sorted(inputs) : Sorted(inputs)[k] = inputs[j]
  BY SortedType, LedgerAssumption
<1>2. Arena[e].op \in STRING /\ Arena[e].params \in STRING /\ Arena[e].type \in STRING
  BY ArenaType
<1>3. Content(e, inputs).inputs \in {inputs, Sorted(inputs)}
  BY DEF Content
<1>4. Content(e, inputs) \in Contents
  BY <1>1, <1>2, <1>3 DEF Content, Contents
<1>5. QED
  BY <1>1, <1>3, <1>4

Frames == [expr : Exprs, inputs : Seq(Addresses)]

\* The innermost call, and the calls around it.
LEMMA TopType ==
    ASSUME TypeOK, stack # <<>>
    PROVE  /\ Len(stack) \in Nat \ {0}
           /\ DOMAIN stack = 1 .. Len(stack)
           /\ Top = stack[Len(stack)]
           /\ Top.expr \in Exprs /\ Top.inputs \in Seq(Addresses)
           /\ Pop \in Seq(Frames)
           /\ Len(Pop) = Len(stack) - 1
           /\ \A k \in 1 .. Len(stack) - 1 : Pop[k] = stack[k]
<1>1. stack \in Seq(Frames)
  BY DEF TypeOK, Frames
<1>2. Len(stack) \in Nat \ {0} /\ DOMAIN stack = 1 .. Len(stack)
  BY <1>1, LenProperties, EmptySeq
<1>3. stack[Len(stack)] \in Frames
  BY <1>1, <1>2, ElementOfSeq
<1>4. /\ Pop \in Seq(Frames)
      /\ Len(Pop) = Len(stack) - 1
      /\ \A k \in 1 .. Len(stack) - 1 : Pop[k] = stack[k]
  BY <1>1, <1>2, SubSeqProperties DEF Pop
<1>5. QED
  BY <1>2, <1>3, <1>4 DEF Top, Frames

\* A call on the stack is well formed.
LEMMA CallType ==
    ASSUME TypeOK, NEW e \in Exprs, Call(e), UNCHANGED program
    PROVE  stack' \in Seq(Frames')
<1>1. <<>> \in Seq(Addresses)
  OBVIOUS
<1>2. [expr |-> e, inputs |-> <<>>] \in Frames
  BY <1>1 DEF Frames
<1>3. stack \in Seq(Frames) /\ Frames' = Frames
  BY DEF TypeOK, Frames, Exprs, Arena
<1>4. QED
  BY <1>2, <1>3, AppendProperties DEF Call

\* Returning from a call records one address.
LEMMA ReturnType ==
    ASSUME TypeOK, stack # <<>>, NEW a \in Addresses, Return(a), UNCHANGED program
    PROVE  /\ stack' \in Seq(Frames')
           /\ DOMAIN exprIds' = DOMAIN exprIds \cup {Top.expr}
           /\ DOMAIN exprIds' \subseteq Exprs'
           /\ exprIds' \in [DOMAIN exprIds' -> Addresses]
           /\ exprIds'[Top.expr] = a
           /\ \A e \in DOMAIN exprIds \ {Top.expr} : exprIds'[e] = exprIds[e]
<1>1. Frames' = Frames /\ Exprs' = Exprs
  BY DEF Frames, Exprs, Arena
<1>2. Pop \in Seq(Frames) /\ Top.expr \in Exprs
  BY TopType
<1>3. QED
  BY <1>1, <1>2 DEF Return, TypeOK

Nodes == [id : Addresses, content : Contents, sources : Seq(Exprs)]

\* What interning leaves behind: a node of that address and content, and the
\* identity of every node that was there.
Interned(a, content) ==
    /\ nodes' \in Seq(Nodes')
    /\ \E n \in DOMAIN nodes' : nodes'[n].id = a /\ nodes'[n].content = content
    /\ \A n \in DOMAIN nodes :
          /\ n \in DOMAIN nodes'
          /\ nodes'[n].id = nodes[n].id
          /\ nodes'[n].content = nodes[n].content

LEMMA NodesType ==
    ASSUME TypeOK
    PROVE  /\ Len(nodes) \in Nat
           /\ DOMAIN nodes = 1 .. Len(nodes)
           /\ \A n \in DOMAIN nodes : nodes[n] \in Nodes
<1>1. nodes \in Seq(Nodes)
  BY DEF TypeOK, Nodes
<1>2. Len(nodes) \in Nat /\ DOMAIN nodes = 1 .. Len(nodes)
  BY <1>1, LenProperties
<1>3. \A n \in 1 .. Len(nodes) : nodes[n] \in Nodes
  BY <1>1, ElementOfSeq
<1>4. QED
  BY <1>2, <1>3

LEMMA MergeInterns ==
    ASSUME TypeOK, stack # <<>>, NEW a \in Addresses, NEW content \in Contents,
           Merge(a, content)
    PROVE  /\ Interned(a, content)
           /\ DOMAIN nodes' = DOMAIN nodes
<1>1. NodeAt(a) \in DOMAIN nodes /\ nodes[NodeAt(a)].id = a
  BY DEF Merge, Taken, NodeAt
<1>2. nodes[NodeAt(a)].content = content
  BY DEF Merge
<1> DEFINE n == NodeAt(a)
<1> HIDE DEF n
<1>3. n \in DOMAIN nodes /\ nodes[n].id = a /\ nodes[n].content = content
  BY <1>1, <1>2 DEF n
<1>4. nodes' = [nodes EXCEPT ![n].sources = Append(@, Top.expr)]
  BY DEF Merge, n
<1>5. Top.expr \in Exprs
  BY TopType
<1>6. nodes[n] \in Nodes
  BY <1>3, NodesType
<1>7. Append(nodes[n].sources, Top.expr) \in Seq(Exprs)
  BY <1>5, <1>6, AppendProperties DEF Nodes
<1>8. Nodes' = Nodes
  BY DEF Merge, Nodes, Exprs, Arena
<1>9. nodes' \in Seq(Nodes)
  <2>1. [nodes[n] EXCEPT !.sources = Append(@, Top.expr)] \in Nodes
    BY <1>6, <1>7 DEF Nodes
  <2>2. nodes \in Seq(Nodes) /\ n \in 1 .. Len(nodes)
    BY <1>3, NodesType DEF TypeOK, Nodes
  <2>3. nodes' = [nodes EXCEPT ![n] = [nodes[n] EXCEPT !.sources = Append(@, Top.expr)]]
    BY <1>4
  <2>4. QED
    BY <2>1, <2>2, <2>3, ExceptSeq
<1>10. DOMAIN nodes' = DOMAIN nodes
  BY <1>4
<1>11. \A k \in DOMAIN nodes : nodes'[k].id = nodes[k].id /\ nodes'[k].content = nodes[k].content
  BY <1>4, <1>6, NodesType DEF Nodes
<1>12. QED
  BY <1>3, <1>8, <1>9, <1>10, <1>11 DEF Interned

LEMMA AddInterns ==
    ASSUME TypeOK, stack # <<>>, NEW a \in Addresses, NEW content \in Contents,
           Add(a, content)
    PROVE  /\ Interned(a, content)
           /\ DOMAIN nodes' = 1 .. Len(nodes) + 1
           /\ nodes'[Len(nodes) + 1].id = a
           /\ nodes'[Len(nodes) + 1].content = content
<1> DEFINE new == [id |-> a, content |-> content, sources |-> <<Top.expr>>]
<1>1. new \in Nodes
  <2>1. <<Top.expr>> \in Seq(Exprs)
    BY TopType
  <2>2. QED
    BY <2>1 DEF Nodes
<1>2. new.id = a /\ new.content = content
  OBVIOUS
<1>3. nodes' = Append(nodes, new)
  BY DEF Add
<1>4. Nodes' = Nodes
  BY DEF Add, Nodes, Exprs, Arena
<1>5. nodes \in Seq(Nodes)
  BY DEF TypeOK, Nodes
<1> HIDE DEF new
<1>6. /\ nodes' \in Seq(Nodes)
      /\ Len(nodes') = Len(nodes) + 1
      /\ \A k \in 1 .. Len(nodes) : nodes'[k] = nodes[k]
      /\ nodes'[Len(nodes) + 1] = new
  BY <1>1, <1>3, <1>5, AppendProperties
<1>7. DOMAIN nodes' = 1 .. Len(nodes) + 1 /\ DOMAIN nodes = 1 .. Len(nodes) /\ Len(nodes) \in Nat
  BY <1>5, <1>6, LenProperties
<1>8. QED
  BY <1>2, <1>4, <1>6, <1>7 DEF Interned

\* The hash of some content is an address, and belongs to that content if it
\* was hashed before.
LEMMA AddressType ==
    ASSUME TypeOK, NEW content, NEW a \in AddressesOf(content)
    PROVE  a \in Addresses
BY NodesType DEF AddressesOf, Nodes

\* With its inputs complete a call has the content of its expression.
LEMMA CompleteType ==
    ASSUME TypeOK, Complete
    PROVE  /\ stack # <<>> /\ Top.expr \in Exprs
           /\ Content(Top.expr, Top.inputs) \in Contents
<1>1. program \in Programs /\ stack # <<>>
  BY DEF TypeOK, Complete
<1>2. QED
  BY <1>1, TopType, ContentType

-----------------------------------------------------------------------------
LEMMA TypeInit == Init => TypeOK
<1> SUFFICES ASSUME Init PROVE TypeOK
  OBVIOUS
<1>1. program \in Programs /\ Len(Arena) \in Nat
  BY ArenaType DEF Init
<1>2. /\ <<>> \in Seq(Frames)
      /\ <<>> \in Seq(Nodes)
      /\ exprIds \in [DOMAIN exprIds -> Addresses] /\ DOMAIN exprIds \subseteq Exprs
  BY DEF Init
<1>3. QED
  BY <1>1, <1>2 DEF Init, TypeOK, Frames, Nodes

\* Every step keeps the types.
LEMMA TypeStep == TypeOK /\ [Next]_vars => TypeOK'
<1> SUFFICES ASSUME TypeOK, [Next]_vars PROVE TypeOK'
  OBVIOUS
<1>0. /\ program \in Programs
      /\ Len(Arena) \in Nat /\ Exprs = 1 .. Len(Arena)
      /\ \A e \in Exprs : \A k \in DOMAIN Arena[e].kids : Arena[e].kids[k] \in Exprs
      /\ \A e \in Exprs : Arena[e].kids \in Seq(Nat)
  BY ArenaType DEF TypeOK
<1>1. CASE Begin
  <2>1. next \in Exprs /\ Call(next) /\ UNCHANGED <<program, next, nodes, exprIds, result>>
    BY <1>1 DEF Begin
  <2>2. stack' \in Seq(Frames')
    BY <2>1, CallType
  <2>3. QED
    BY <2>1, <2>2 DEF TypeOK, Frames, Exprs, Arena
<1>2. CASE Advance
  <2>1. next' \in 1 .. Len(Arena) + 1
    BY <1>0, <1>2 DEF Advance
  <2>2. QED
    BY <1>2, <2>1 DEF Advance, TypeOK, Exprs, Arena
<1>3. CASE CollectChild
  <2>1. stack # <<>> /\ Len(Top.inputs) < Len(Arena[Top.expr].kids) /\ Child \in DOMAIN exprIds
    BY <1>3 DEF CollectChild, Waiting, Known
  <2>2. Top.expr \in Exprs /\ Top.inputs \in Seq(Addresses) /\ Pop \in Seq(Frames)
    BY <2>1, TopType
  <2>3. exprIds[Child] \in Addresses
    BY <2>1 DEF TypeOK
  <2>4. Append(Top.inputs, exprIds[Child]) \in Seq(Addresses)
    BY <2>2, <2>3, AppendProperties
  <2>5. Top \in Frames
    <3>1. stack \in Seq(Frames) /\ Len(stack) \in 1 .. Len(stack)
      BY <2>1, TopType DEF TypeOK, Frames
    <3>2. QED
      BY <3>1, ElementOfSeq DEF Top
  <2>6. [Top EXCEPT !.inputs = Append(@, exprIds[Child])] \in Frames
    BY <2>4, <2>5 DEF Frames
  <2>7. stack' \in Seq(Frames)
    BY <1>3, <2>2, <2>6, AppendProperties DEF CollectChild
  <2>8. QED
    BY <1>3, <2>7 DEF CollectChild, TypeOK, Frames, Exprs, Arena
<1>4. CASE EnterChild
  <2>1. /\ stack # <<>> /\ Len(Top.inputs) < Len(Arena[Top.expr].kids) /\ Call(Child)
        /\ UNCHANGED <<program, next, nodes, exprIds, result>>
    BY <1>4 DEF EnterChild, Waiting
  <2>2. Child \in Exprs
    <3>1. Top.expr \in Exprs /\ Len(Top.inputs) \in Nat /\ Arena[Top.expr].kids \in Seq(Nat)
      BY <2>1, <1>0, TopType, LenProperties
    <3>2. Len(Top.inputs) + 1 \in DOMAIN Arena[Top.expr].kids
      BY <3>1, <2>1, LenProperties
    <3>3. QED
      BY <3>1, <3>2, <1>0 DEF Child
  <2>3. stack' \in Seq(Frames')
    BY <2>1, <2>2, CallType
  <2>4. QED
    BY <2>1, <2>3 DEF TypeOK, Frames, Exprs, Arena
<1>5. CASE CycleFound
  BY <1>5 DEF CycleFound, TypeOK, Exprs, Arena
<1>6. CASE Intern
  <2> DEFINE content == Content(Top.expr, Top.inputs)
  <2>1. Complete
    BY <1>6 DEF Intern
  <2>2. stack # <<>> /\ Top.expr \in Exprs /\ content \in Contents
    BY <2>1, CompleteType
  <2>3. PICK a \in AddressesOf(content) : Merge(a, content) \/ Collision(a, content) \/ Add(a, content)
    BY <1>6 DEF Intern
  <2> HIDE DEF content
  <2>4. a \in Addresses
    BY <2>3, AddressType
  <2>5. CASE Collision(a, content)
    BY <2>5 DEF Collision, TypeOK, Exprs, Arena
  <2>6. CASE Merge(a, content) \/ Add(a, content)
    <3>1. nodes' \in Seq(Nodes')
      BY <2>2, <2>4, <2>6, MergeInterns, AddInterns DEF Interned
    <3>2. Return(a) /\ UNCHANGED <<program, next, result>>
      BY <2>6 DEF Merge, Add
    <3>3. /\ stack' \in Seq(Frames')
          /\ DOMAIN exprIds' \subseteq Exprs'
          /\ exprIds' \in [DOMAIN exprIds' -> Addresses]
      BY <2>2, <2>4, <3>2, ReturnType
    <3>4. QED
      BY <3>1, <3>2, <3>3 DEF TypeOK, Frames, Nodes, Exprs, Arena
  <2>7. QED
    BY <2>3, <2>5, <2>6
<1>7. CASE Finish
  BY <1>7 DEF Finish, TypeOK, Exprs, Arena
<1>8. CASE UNCHANGED vars
  BY <1>8 DEF vars, TypeOK, Exprs, Arena
<1>9. QED
  BY <1>1, <1>2, <1>3, <1>4, <1>5, <1>6, <1>7, <1>8 DEF Next

\* The builder keeps its types: the index of the loop stays in the arena, the
\* call stack holds expressions and their inputs' addresses, and every
\* materialized expression has an address.
THEOREM TypeCorrect == Spec => []TypeOK
<1>1. QED
  BY TypeInit, TypeStep, PTL DEF Spec

-----------------------------------------------------------------------------
(* The inductive invariant *)

\* A call in progress is of an expression not yet addressed, differs from
\* every other call, and has collected the addresses of its first children.
CallsInv ==
    /\ \A k \in DOMAIN stack :
          /\ ~Known(stack[k].expr)
          /\ \A i \in DOMAIN stack[k].inputs :
                /\ i \in DOMAIN Arena[stack[k].expr].kids
                /\ Known(Arena[stack[k].expr].kids[i])
                /\ stack[k].inputs[i] = exprIds[Arena[stack[k].expr].kids[i]]
    /\ \A j, k \in DOMAIN stack : stack[j].expr = stack[k].expr => j = k

\* No two nodes have the same address.
UniqueIds == \A m, n \in DOMAIN nodes : nodes[m].id = nodes[n].id => m = n

\* The loop leaves nothing out.
CoveredInv ==
    /\ \A e \in 1 .. next - 1 : Known(e)
    /\ result = "built" => next \notin Exprs

LedgerInv == CallsInv /\ UniqueIds /\ CoveredInv /\ Addressed /\ InputsFirst

\* A step that addresses nothing and keeps the nodes keeps what depends on
\* them alone.
LEMMA UnchangedAddresses ==
    ASSUME LedgerInv, UNCHANGED <<program, nodes, exprIds>>
    PROVE  UniqueIds' /\ Addressed' /\ InputsFirst'
<1>1. UniqueIds'
  BY DEF LedgerInv, UniqueIds
<1>2. InputsFirst'
  BY DEF LedgerInv, InputsFirst
<1>3. \A e : Content(e, InputsOf(e))' = Content(e, InputsOf(e))
  BY DEF Content, InputsOf, Sorted, SortingOrder, Arena
<1>4. Addressed'
  BY <1>3 DEF LedgerInv, Addressed, Known, Arena
<1>5. QED
  BY <1>1, <1>2, <1>4

\* A new call, made only for an expression neither addressed nor in progress.
LEMMA CallKeeps ==
    ASSUME TypeOK, LedgerInv, NEW e \in Exprs, ~Known(e), ~Active(e), Call(e),
           UNCHANGED <<program, exprIds>>
    PROVE  CallsInv'
<1>1. stack \in Seq(Frames) /\ <<>> \in Seq(Addresses)
  BY DEF TypeOK, Frames
<1>2. [expr |-> e, inputs |-> <<>>] \in Frames
  BY <1>1 DEF Frames
<1>3. /\ stack' \in Seq(Frames)
      /\ Len(stack') = Len(stack) + 1
      /\ \A k \in 1 .. Len(stack) : stack'[k] = stack[k]
      /\ stack'[Len(stack) + 1] = [expr |-> e, inputs |-> <<>>]
  BY <1>1, <1>2, AppendProperties DEF Call
<1>4. DOMAIN stack' = 1 .. Len(stack) + 1 /\ DOMAIN stack = 1 .. Len(stack) /\ Len(stack) \in Nat
  BY <1>1, <1>3, LenProperties
<1>5. \A k \in 1 .. Len(stack) : stack[k].expr # e
  BY <1>4 DEF Active
<1>6. ASSUME NEW k \in DOMAIN stack'
      PROVE  /\ ~Known(stack'[k].expr)
             /\ \A i \in DOMAIN stack'[k].inputs :
                   /\ i \in DOMAIN Arena[stack'[k].expr].kids
                   /\ Known(Arena[stack'[k].expr].kids[i])
                   /\ stack'[k].inputs[i] = exprIds[Arena[stack'[k].expr].kids[i]]
  <2>1. CASE k = Len(stack) + 1
    BY <1>3, <2>1 DEF Known
  <2>2. CASE k \in 1 .. Len(stack)
    BY <1>3, <1>4, <2>2 DEF Known, LedgerInv, CallsInv
  <2>3. QED
    BY <1>4, <2>1, <2>2
<1>7. ASSUME NEW j \in DOMAIN stack', NEW k \in DOMAIN stack', stack'[j].expr = stack'[k].expr
      PROVE  j = k
  <2>1. CASE j \in 1 .. Len(stack) /\ k \in 1 .. Len(stack)
    BY <1>3, <1>4, <1>7, <2>1 DEF LedgerInv, CallsInv
  <2>2. CASE j = Len(stack) + 1 \/ k = Len(stack) + 1
    BY <1>3, <1>4, <1>5, <1>7, <2>2
  <2>3. QED
    BY <1>4, <2>1, <2>2
<1>8. QED
  BY <1>6, <1>7 DEF CallsInv, Known, Arena

\* Collecting the next child's address.
LEMMA CollectKeeps ==
    ASSUME TypeOK, LedgerInv, CollectChild
    PROVE  CallsInv'
<1> DEFINE n == Len(stack)
           m == Len(Top.inputs)
<1>1. stack # <<>> /\ Known(Child) /\ m < Len(Arena[Top.expr].kids)
      /\ UNCHANGED <<program, exprIds>>
  BY DEF CollectChild, Waiting
<1>2. /\ n \in Nat \ {0} /\ DOMAIN stack = 1 .. n /\ Top = stack[n]
      /\ Top.expr \in Exprs /\ Top.inputs \in Seq(Addresses)
      /\ Pop \in Seq(Frames) /\ Len(Pop) = n - 1 /\ \A k \in 1 .. n - 1 : Pop[k] = stack[k]
  BY <1>1, TopType
<1>3. /\ m \in Nat /\ DOMAIN Top.inputs = 1 .. m
      /\ m + 1 \in DOMAIN Arena[Top.expr].kids
  <2>1. Arena[Top.expr].kids \in Seq(Nat)
    BY <1>2, ArenaType DEF TypeOK
  <2>2. QED
    BY <1>1, <1>2, <2>1, LenProperties
<1>4. exprIds[Child] \in Addresses
  BY <1>1 DEF TypeOK, Known
<1> DEFINE inputs == Append(Top.inputs, exprIds[Child])
<1>5. /\ inputs \in Seq(Addresses)
      /\ DOMAIN inputs = 1 .. m + 1
      /\ \A i \in 1 .. m : inputs[i] = Top.inputs[i]
      /\ inputs[m + 1] = exprIds[Child]
  BY <1>2, <1>3, <1>4, AppendProperties, LenProperties
<1>6. stack[n] \in Frames
  <2>1. stack \in Seq(Frames) /\ n \in 1 .. Len(stack)
    BY <1>2 DEF TypeOK, Frames
  <2>2. QED
    BY <2>1, ElementOfSeq
<1> DEFINE top == [Top EXCEPT !.inputs = inputs]
<1>7. top \in Frames /\ top.expr = Top.expr /\ top.inputs = inputs
  <2> HIDE DEF inputs
  <2>1. QED
    BY <1>2, <1>5, <1>6 DEF Frames
<1>8. stack' = Append(Pop, top)
  BY DEF CollectChild
<1> HIDE DEF top, inputs
<1>9. /\ DOMAIN stack' = 1 .. n
      /\ \A k \in 1 .. n - 1 : stack'[k] = stack[k]
      /\ stack'[n] = top
  <2> HIDE DEF n, m
  <2>1. /\ stack' \in Seq(Frames) /\ Len(stack') = Len(Pop) + 1
        /\ \A k \in 1 .. Len(Pop) : stack'[k] = Pop[k]
        /\ stack'[Len(Pop) + 1] = top
    BY <1>2, <1>7, <1>8, AppendProperties
  <2>2. DOMAIN stack' = 1 .. Len(stack')
    BY <2>1, LenProperties
  <2>3. QED
    BY <1>2, <2>1, <2>2
<1> HIDE DEF n, m
<1>10. \A k \in 1 .. n : stack'[k].expr = stack[k].expr
  BY <1>2, <1>7, <1>9
<1>11. ASSUME NEW k \in 1 .. n, NEW i \in DOMAIN stack'[k].inputs
       PROVE  /\ i \in DOMAIN Arena[stack[k].expr].kids
              /\ Known(Arena[stack[k].expr].kids[i])
              /\ stack'[k].inputs[i] = exprIds[Arena[stack[k].expr].kids[i]]
  <2>1. CASE k = n /\ i = m + 1
    BY <1>1, <1>2, <1>3, <1>5, <1>7, <1>9, <2>1 DEF Child, m
  <2>2. CASE k = n /\ i \in 1 .. m
    BY <1>2, <1>3, <1>5, <1>7, <1>9, <2>2 DEF LedgerInv, CallsInv
  <2>3. CASE k \in 1 .. n - 1
    BY <1>2, <1>9, <2>3 DEF LedgerInv, CallsInv
  <2>4. QED
    BY <1>2, <1>3, <1>5, <1>7, <1>9, <2>1, <2>2, <2>3
<1>12. QED
  BY <1>1, <1>2, <1>9, <1>10, <1>11 DEF LedgerInv, CallsInv, Known, Arena

\* A completed call has collected the address of every child, in order.
LEMMA CompleteInputs ==
    ASSUME TypeOK, LedgerInv, Complete
    PROVE  /\ Top.inputs = InputsOf(Top.expr)
           /\ \A k \in DOMAIN Arena[Top.expr].kids : Known(Arena[Top.expr].kids[k])
           /\ ~Known(Top.expr)
<1>1. stack # <<>> /\ Len(Top.inputs) = Len(Arena[Top.expr].kids)
  BY DEF Complete
<1>2. /\ Len(stack) \in DOMAIN stack /\ Top = stack[Len(stack)]
      /\ Top.expr \in Exprs /\ Top.inputs \in Seq(Addresses)
  BY <1>1, TopType
<1>3. Arena[Top.expr].kids \in Seq(Nat)
  BY <1>2, ArenaType DEF TypeOK
<1>4. /\ DOMAIN Top.inputs = DOMAIN Arena[Top.expr].kids
      /\ Top.inputs = [k \in DOMAIN Top.inputs |-> Top.inputs[k]]
  BY <1>1, <1>2, <1>3, LenProperties
<1>5. /\ ~Known(Top.expr)
      /\ \A k \in DOMAIN Top.inputs :
            /\ Known(Arena[Top.expr].kids[k])
            /\ Top.inputs[k] = exprIds[Arena[Top.expr].kids[k]]
  BY <1>2 DEF LedgerInv, CallsInv
<1>6. QED
  BY <1>4, <1>5 DEF InputsOf

\* A return addresses one expression; the addresses there were stay, and so
\* does what the calls around it have collected.
LEMMA ReturnKeeps ==
    ASSUME TypeOK, LedgerInv, Complete, NEW a \in Addresses,
           Interned(a, Content(Top.expr, Top.inputs)), Return(a), UNCHANGED program
    PROVE  CallsInv' /\ Addressed' /\ \A e : Known(e) => Known(e)'
<1> DEFINE n == Len(stack)
           e0 == Top.expr
<1>1. /\ n \in Nat \ {0} /\ DOMAIN stack = 1 .. n /\ Top = stack[n]
      /\ e0 \in Exprs /\ Top.inputs \in Seq(Addresses)
      /\ Pop \in Seq(Frames) /\ Len(Pop) = n - 1 /\ \A k \in 1 .. n - 1 : Pop[k] = stack[k]
  BY TopType DEF Complete
<1>2. /\ Top.inputs = InputsOf(e0) /\ e0 \notin DOMAIN exprIds
      /\ \A k \in DOMAIN Arena[e0].kids : Known(Arena[e0].kids[k])
  BY CompleteInputs DEF Known
<1>3. /\ DOMAIN exprIds' = DOMAIN exprIds \cup {e0}
      /\ exprIds'[e0] = a
      /\ \A e \in DOMAIN exprIds : exprIds'[e] = exprIds[e]
  BY <1>2, ReturnType DEF Complete
<1> HIDE DEF n, e0
<1>4. DOMAIN stack' = 1 .. n - 1 /\ \A k \in 1 .. n - 1 : stack'[k] = stack[k]
  BY <1>1, LenProperties DEF Return
<1>5. \A k \in 1 .. n - 1 : stack[k].expr # e0 /\ stack[k].expr \notin DOMAIN exprIds
  BY <1>1 DEF LedgerInv, CallsInv, Known, e0
<1>6. CallsInv'
  <2>1. ASSUME NEW k \in 1 .. n - 1, NEW i \in DOMAIN stack[k].inputs
        PROVE  /\ i \in DOMAIN Arena[stack[k].expr].kids
               /\ Arena[stack[k].expr].kids[i] \in DOMAIN exprIds'
               /\ stack[k].inputs[i] = exprIds'[Arena[stack[k].expr].kids[i]]
    BY <1>1, <1>3 DEF LedgerInv, CallsInv, Known
  <2>2. \A k \in 1 .. n - 1 : stack[k].expr \notin DOMAIN exprIds'
    BY <1>3, <1>5
  <2>3. \A j, k \in 1 .. n - 1 : stack[j].expr = stack[k].expr => j = k
    BY <1>1 DEF LedgerInv, CallsInv
  <2>4. QED
    BY <1>4, <2>1, <2>2, <2>3 DEF CallsInv, Known, Arena
<1>7. Addressed'
  <2> SUFFICES ASSUME NEW e \in DOMAIN exprIds'
               PROVE  /\ \A k \in DOMAIN Arena[e].kids : Arena[e].kids[k] \in DOMAIN exprIds'
                      /\ \E m \in DOMAIN nodes' :
                            nodes'[m].id = exprIds'[e] /\ nodes'[m].content = Content(e, InputsOf(e))'
    BY DEF Addressed, Known, Arena
  <2>1. \A f \in DOMAIN exprIds \cup {e0} : \A k \in DOMAIN Arena[f].kids : Arena[f].kids[k] \in DOMAIN exprIds
    BY <1>2 DEF LedgerInv, Addressed, Known
  <2>2. InputsOf(e)' = InputsOf(e)
    BY <1>3, <2>1 DEF InputsOf, Arena
  <2>3. Content(e, InputsOf(e))' = Content(e, InputsOf(e))
    BY <2>2 DEF Content, Sorted, SortingOrder, Arena
  <2>4. CASE e = e0
    BY <1>2, <1>3, <2>1, <2>3, <2>4 DEF Interned, e0
  <2>5. CASE e \in DOMAIN exprIds
    BY <1>3, <2>1, <2>3, <2>5 DEF LedgerInv, Addressed, Interned
  <2>6. QED
    BY <1>3, <2>4, <2>5
<1>8. \A e : Known(e) => Known(e)'
  BY <1>3 DEF Known
<1>9. QED
  BY <1>6, <1>7, <1>8

\* A new node has an address of its own and comes after its inputs.
LEMMA AddKeeps ==
    ASSUME TypeOK, LedgerInv, Complete, NEW a \in Addresses, Add(a, Content(Top.expr, Top.inputs))
    PROVE  UniqueIds' /\ InputsFirst'
<1> DEFINE content == Content(Top.expr, Top.inputs)
<1>1. /\ stack # <<>> /\ Top.expr \in Exprs /\ Top.inputs \in Seq(Addresses) /\ content \in Contents
  BY CompleteType, TopType
<1>2. \A k \in DOMAIN content.inputs : \E j \in DOMAIN Top.inputs : content.inputs[k] = Top.inputs[j]
  BY <1>1, ContentType DEF TypeOK
<1>3. ASSUME NEW k \in DOMAIN content.inputs
      PROVE  \E m \in DOMAIN nodes : nodes[m].id = content.inputs[k]
  <2>1. PICK j \in DOMAIN Top.inputs : content.inputs[k] = Top.inputs[j]
    BY <1>2, <1>3
  <2>2. /\ j \in DOMAIN Arena[Top.expr].kids
        /\ Arena[Top.expr].kids[j] \in DOMAIN exprIds
        /\ Top.inputs[j] = exprIds[Arena[Top.expr].kids[j]]
    BY <2>1, CompleteInputs DEF InputsOf, Known
  <2>3. QED
    BY <2>1, <2>2 DEF LedgerInv, Addressed
<1> HIDE DEF content
<1>4. /\ Interned(a, content)
      /\ DOMAIN nodes' = 1 .. Len(nodes) + 1
      /\ nodes'[Len(nodes) + 1].id = a
      /\ nodes'[Len(nodes) + 1].content = content
  BY <1>1, AddInterns DEF content
<1>5. /\ DOMAIN nodes = 1 .. Len(nodes) /\ Len(nodes) \in Nat
      /\ \A m \in DOMAIN nodes : nodes'[m].id = nodes[m].id /\ nodes'[m].content = nodes[m].content
  BY <1>4, NodesType DEF Interned
<1>6. \A m \in DOMAIN nodes : nodes[m].id # a
  BY DEF Add, Taken
<1>7. UniqueIds'
  BY <1>4, <1>5, <1>6 DEF LedgerInv, UniqueIds
<1>8. ASSUME NEW m \in DOMAIN nodes', NEW k \in DOMAIN nodes'[m].content.inputs
      PROVE  \E j \in 1 .. m - 1 : nodes'[j].id = nodes'[m].content.inputs[k]
  <2>1. CASE m = Len(nodes) + 1
    <3>1. PICK j \in DOMAIN nodes : nodes[j].id = content.inputs[k]
      BY <1>3, <1>4, <1>8, <2>1
    <3>2. j \in 1 .. m - 1 /\ nodes'[j].id = nodes'[m].content.inputs[k]
      BY <1>4, <1>5, <2>1, <3>1
    <3>3. QED
      BY <3>2
  <2>2. CASE m \in DOMAIN nodes
    <3>1. PICK j \in 1 .. m - 1 : nodes[j].id = nodes[m].content.inputs[k]
      BY <1>5, <1>8, <2>2 DEF LedgerInv, InputsFirst
    <3>2. j \in DOMAIN nodes
      BY <1>5, <2>2, <3>1
    <3>3. QED
      BY <1>5, <2>2, <3>1, <3>2
  <2>3. QED
    BY <1>4, <1>5, <2>1, <2>2
<1>9. QED
  BY <1>7, <1>8 DEF InputsFirst

LEMMA MergeKeeps ==
    ASSUME TypeOK, LedgerInv, Complete, NEW a \in Addresses, Merge(a, Content(Top.expr, Top.inputs))
    PROVE  UniqueIds' /\ InputsFirst'
<1>1. stack # <<>> /\ Content(Top.expr, Top.inputs) \in Contents
  BY CompleteType
<1>2. /\ DOMAIN nodes' = DOMAIN nodes
      /\ \A n \in DOMAIN nodes : nodes'[n].id = nodes[n].id /\ nodes'[n].content = nodes[n].content
  BY <1>1, MergeInterns DEF Interned
<1>3. UniqueIds'
  BY <1>2 DEF LedgerInv, UniqueIds
<1>4. \A n \in DOMAIN nodes : \A j \in 1 .. n - 1 : j \in DOMAIN nodes
  BY NodesType
<1>5. InputsFirst'
  BY <1>2, <1>4 DEF LedgerInv, InputsFirst
<1>6. QED
  BY <1>3, <1>5

LEMMA LedgerInit == Init => LedgerInv
BY DEF Init, LedgerInv, CallsInv, UniqueIds, CoveredInv, Addressed, InputsFirst, Known, Exprs

\* Every step keeps the invariant.
LEMMA LedgerStep == TypeOK /\ LedgerInv /\ [Next]_vars => LedgerInv'
<1> SUFFICES ASSUME TypeOK, LedgerInv, [Next]_vars PROVE LedgerInv'
  OBVIOUS
<1>0. program \in Programs /\ Len(Arena) \in Nat /\ Exprs = 1 .. Len(Arena) /\ next \in Nat
  BY ArenaType DEF TypeOK
<1>1. CASE Begin
  <2>1. /\ next \in Exprs /\ ~Known(next) /\ ~Active(next) /\ Call(next)
        /\ UNCHANGED <<program, next, nodes, exprIds, result>>
    BY <1>1 DEF Begin, Active
  <2>2. CallsInv'
    BY <2>1, CallKeeps
  <2>3. CoveredInv'
    BY <2>1 DEF LedgerInv, CoveredInv, Known, Exprs, Arena
  <2>4. QED
    BY <2>1, <2>2, <2>3, UnchangedAddresses DEF LedgerInv
<1>2. CASE Advance
  <2>1. /\ Known(next) /\ next' = next + 1 /\ result = "building"
        /\ UNCHANGED <<program, stack, nodes, exprIds, result>>
    BY <1>2 DEF Advance
  <2>2. CallsInv'
    BY <2>1 DEF LedgerInv, CallsInv, Known, Arena
  <2>3. CoveredInv'
    BY <1>0, <2>1 DEF LedgerInv, CoveredInv, Known
  <2>4. QED
    BY <2>1, <2>2, <2>3, UnchangedAddresses DEF LedgerInv
<1>3. CASE CollectChild
  <2>1. UNCHANGED <<program, next, nodes, exprIds, result>>
    BY <1>3 DEF CollectChild
  <2>2. CallsInv'
    BY <1>3, CollectKeeps
  <2>3. CoveredInv'
    BY <2>1 DEF LedgerInv, CoveredInv, Known, Exprs, Arena
  <2>4. QED
    BY <2>1, <2>2, <2>3, UnchangedAddresses DEF LedgerInv
<1>4. CASE EnterChild
  <2>1. /\ stack # <<>> /\ Len(Top.inputs) < Len(Arena[Top.expr].kids)
        /\ ~Known(Child) /\ ~Active(Child) /\ Call(Child)
        /\ UNCHANGED <<program, next, nodes, exprIds, result>>
    BY <1>4 DEF EnterChild, Waiting
  <2>2. Child \in Exprs
    <3>1. Top.expr \in Exprs /\ Len(Top.inputs) \in Nat /\ Arena[Top.expr].kids \in Seq(Nat)
      BY <2>1, <1>0, TopType, ArenaType, LenProperties
    <3>2. Len(Top.inputs) + 1 \in DOMAIN Arena[Top.expr].kids
      BY <3>1, <2>1, LenProperties
    <3>3. QED
      BY <3>1, <3>2, <1>0, ArenaType DEF Child
  <2>3. CallsInv'
    BY <2>1, <2>2, CallKeeps
  <2>4. CoveredInv'
    BY <2>1 DEF LedgerInv, CoveredInv, Known, Exprs, Arena
  <2>5. QED
    BY <2>1, <2>3, <2>4, UnchangedAddresses DEF LedgerInv
<1>5. CASE CycleFound
  <2>1. UNCHANGED <<program, next, stack, nodes, exprIds>> /\ result' = "cycle"
    BY <1>5 DEF CycleFound
  <2>2. CallsInv' /\ CoveredInv'
    BY <2>1 DEF LedgerInv, CallsInv, CoveredInv, Known, Exprs, Arena
  <2>3. QED
    BY <2>1, <2>2, UnchangedAddresses DEF LedgerInv
<1>6. CASE Intern
  <2> DEFINE content == Content(Top.expr, Top.inputs)
  <2>1. Complete
    BY <1>6 DEF Intern
  <2>2. stack # <<>> /\ content \in Contents
    BY <2>1, CompleteType
  <2>3. PICK a \in AddressesOf(content) : Merge(a, content) \/ Collision(a, content) \/ Add(a, content)
    BY <1>6 DEF Intern
  <2>4. a \in Addresses
    BY <2>3, AddressType
  <2>5. CASE Collision(a, content)
    <3>1. UNCHANGED <<program, next, stack, nodes, exprIds>> /\ result' = "collision"
      BY <2>5 DEF Collision
    <3>2. CallsInv' /\ CoveredInv'
      BY <3>1 DEF LedgerInv, CallsInv, CoveredInv, Known, Exprs, Arena
    <3>3. QED
      BY <3>1, <3>2, UnchangedAddresses DEF LedgerInv
  <2>6. CASE Merge(a, content) \/ Add(a, content)
    <3>1. Return(a) /\ UNCHANGED <<program, next, result>>
      BY <2>6 DEF Merge, Add
    <3>2. Interned(a, content)
      <4> HIDE DEF content
      <4>1. QED
        BY <2>2, <2>4, <2>6, MergeInterns, AddInterns
    <3>3. CallsInv' /\ Addressed' /\ \A e : Known(e) => Known(e)'
      BY <2>1, <2>4, <3>1, <3>2, ReturnKeeps
    <3>4. UniqueIds' /\ InputsFirst'
      BY <2>1, <2>4, <2>6, MergeKeeps, AddKeeps
    <3>5. CoveredInv'
      BY <3>1, <3>3 DEF LedgerInv, CoveredInv, Exprs, Arena
    <3>6. QED
      BY <3>3, <3>4, <3>5 DEF LedgerInv
  <2>7. QED
    BY <2>3, <2>5, <2>6
<1>7. CASE Finish
  <2>1. UNCHANGED <<program, next, stack, nodes, exprIds>> /\ next \notin Exprs
    BY <1>7 DEF Finish
  <2>2. CallsInv' /\ CoveredInv'
    BY <2>1 DEF LedgerInv, CallsInv, CoveredInv, Known, Exprs, Arena
  <2>3. QED
    BY <2>1, <2>2, UnchangedAddresses DEF LedgerInv
<1>8. CASE UNCHANGED vars
  <2>1. UNCHANGED <<program, next, stack, nodes, exprIds, result>>
    BY <1>8 DEF vars
  <2>2. CallsInv' /\ CoveredInv'
    BY <2>1 DEF LedgerInv, CallsInv, CoveredInv, Known, Exprs, Arena
  <2>3. QED
    BY <2>1, <2>2, UnchangedAddresses DEF LedgerInv
<1>9. QED
  BY <1>1, <1>2, <1>3, <1>4, <1>5, <1>6, <1>7, <1>8 DEF Next

LEMMA LedgerInvariant == Spec => [](TypeOK /\ LedgerInv)
<1>1. Init => TypeOK /\ LedgerInv
  BY TypeInit, LedgerInit
<1>2. TypeOK /\ LedgerInv /\ [Next]_vars => (TypeOK /\ LedgerInv)'
  BY TypeStep, LedgerStep
<1>3. QED
  BY <1>1, <1>2, PTL DEF Spec

-----------------------------------------------------------------------------
\* The node at an expression's address has that expression's content, for any
\* hash: AddressCollision is raised before a wrong merge.
THEOREM AlwaysAddressed == Spec => []Addressed
<1>1. LedgerInv => Addressed
  BY DEF LedgerInv
<1>2. QED
  BY <1>1, LedgerInvariant, PTL

\* The nodes are in topological order: a node's inputs are earlier nodes.
THEOREM AlwaysInputsFirst == Spec => []InputsFirst
<1>1. LedgerInv => InputsFirst
  BY DEF LedgerInv
<1>2. QED
  BY <1>1, LedgerInvariant, PTL

\* Two expressions that share an address agree in operation, type, parameters
\* and the addresses of their inputs.
SharedAlike ==
    \A e, f \in DOMAIN exprIds :
        exprIds[e] = exprIds[f] => Content(e, InputsOf(e)) = Content(f, InputsOf(f))

\* No silent merge: whatever the hash, only equal content shares an address.
THEOREM SharingIsSound == Spec => []SharedAlike
<1>1. LedgerInv => SharedAlike
  <2> SUFFICES ASSUME LedgerInv,
                      NEW e \in DOMAIN exprIds, NEW f \in DOMAIN exprIds, exprIds[e] = exprIds[f]
               PROVE  Content(e, InputsOf(e)) = Content(f, InputsOf(f))
    BY DEF SharedAlike
  <2>1. PICK m \in DOMAIN nodes : nodes[m].id = exprIds[e] /\ nodes[m].content = Content(e, InputsOf(e))
    BY DEF LedgerInv, Addressed
  <2>2. PICK n \in DOMAIN nodes : nodes[n].id = exprIds[f] /\ nodes[n].content = Content(f, InputsOf(f))
    BY DEF LedgerInv, Addressed
  <2>3. m = n
    BY <2>1, <2>2 DEF LedgerInv, UniqueIds
  <2>4. QED
    BY <2>1, <2>2, <2>3
<1>2. QED
  BY <1>1, LedgerInvariant, PTL

\* build succeeds only with every expression of the file addressed, those in
\* function bodies included.
BuiltCoversArena == result = "built" => DOMAIN exprIds = Exprs

LEMMA BuiltCovers == TypeOK /\ LedgerInv => BuiltCoversArena
<1> SUFFICES ASSUME TypeOK, LedgerInv, result = "built"
             PROVE  DOMAIN exprIds = Exprs
  BY DEF BuiltCoversArena
<1>1. Len(Arena) \in Nat /\ Exprs = 1 .. Len(Arena) /\ next \in 1 .. Len(Arena) + 1
  BY ArenaType DEF TypeOK
<1>2. next = Len(Arena) + 1
  BY <1>1 DEF LedgerInv, CoveredInv
<1>3. \A e \in Exprs : e \in DOMAIN exprIds
  BY <1>1, <1>2 DEF LedgerInv, CoveredInv, Known
<1>4. QED
  BY <1>3 DEF TypeOK

\* No expression is left out of a ledger that was built.
THEOREM AlwaysCovers == Spec => []BuiltCoversArena
<1>1. QED
  BY BuiltCovers, LedgerInvariant, PTL

-----------------------------------------------------------------------------
(* The verdict of build *)

\* A child's node comes before its parent's.
LEMMA ChildEarlier ==
    ASSUME TypeOK, LedgerInv, NEW e \in DOMAIN exprIds, NEW k \in DOMAIN Arena[e].kids
    PROVE  /\ Arena[e].kids[k] \in DOMAIN exprIds
           /\ NodeAt(exprIds[e]) \in Nat
           /\ NodeAt(exprIds[Arena[e].kids[k]]) < NodeAt(exprIds[e])
<1>1. /\ \A j \in DOMAIN Arena[e].kids : Arena[e].kids[j] \in DOMAIN exprIds
      /\ \E n \in DOMAIN nodes : nodes[n].id = exprIds[e] /\ nodes[n].content = Content(e, InputsOf(e))
  BY DEF LedgerInv, Addressed, Known
<1>2. PICK n \in DOMAIN nodes : nodes[n].id = exprIds[e] /\ nodes[n].content = Content(e, InputsOf(e))
  BY <1>1
<1>3. \A a, m : m \in DOMAIN nodes /\ nodes[m].id = a => NodeAt(a) = m
  BY DEF LedgerInv, UniqueIds, NodeAt
<1>4. InputsOf(e) \in Seq(Addresses) /\ DOMAIN InputsOf(e) = DOMAIN Arena[e].kids
  <2>1. Arena[e].kids \in Seq(Nat)
    BY ArenaType DEF TypeOK
  <2>2. DOMAIN Arena[e].kids = 1 .. Len(Arena[e].kids) /\ Len(Arena[e].kids) \in Nat
    BY <2>1, LenProperties
  <2>3. InputsOf(e) \in [1 .. Len(Arena[e].kids) -> Addresses]
    BY <1>1, <2>2 DEF InputsOf, TypeOK
  <2>4. QED
    BY <2>2, <2>3, SeqDef
<1>5. PICK i \in DOMAIN Content(e, InputsOf(e)).inputs : Content(e, InputsOf(e)).inputs[i] = InputsOf(e)[k]
  BY <1>4, ContentType DEF TypeOK
<1>6. PICK m \in 1 .. n - 1 : nodes[m].id = exprIds[Arena[e].kids[k]]
  BY <1>2, <1>5 DEF LedgerInv, InputsFirst, InputsOf
<1>7. n \in Nat /\ m \in DOMAIN nodes /\ m < n
  BY <1>6, NodesType
<1>8. NodeAt(exprIds[e]) = n /\ NodeAt(exprIds[Arena[e].kids[k]]) = m
  BY <1>2, <1>3, <1>6, <1>7
<1>9. QED
  BY <1>1, <1>7, <1>8

\* In a file with a cycle some expression of it has the earliest node, yet one
\* of its children, on the cycle too, has an earlier one.
LEMMA BuiltAcyclic ==
    ASSUME TypeOK, LedgerInv, result = "built"
    PROVE  ~Cyclic
<1> SUFFICES ASSUME Cyclic PROVE FALSE
  OBVIOUS
<1>0. PICK S \in (SUBSET Exprs) \ {{}} :
          \A e \in S : \E k \in DOMAIN Arena[e].kids : Arena[e].kids[k] \in S
  BY DEF Cyclic
<1>1. S \subseteq DOMAIN exprIds
  BY BuiltCovers DEF BuiltCoversArena
<1> DEFINE T == {NodeAt(exprIds[e]) : e \in S}
<1>2. T \subseteq Nat /\ T # {}
  <2>1. \A e \in S : NodeAt(exprIds[e]) \in Nat
    BY <1>0, <1>1, ChildEarlier
  <2>2. QED
    BY <1>0, <2>1
<1>3. \E n \in T : \A m \in T : n <= m
  <2> HIDE DEF T
  <2>1. QED
    BY <1>2, LeastNatural
<1>4. PICK e \in S : \A f \in S : NodeAt(exprIds[e]) <= NodeAt(exprIds[f])
  BY <1>3
<1>5. PICK k \in DOMAIN Arena[e].kids : Arena[e].kids[k] \in S
  BY <1>0
<1>6. NodeAt(exprIds[Arena[e].kids[k]]) < NodeAt(exprIds[e])
  BY <1>1, ChildEarlier
<1>7. NodeAt(exprIds[Arena[e].kids[k]]) \in Nat /\ NodeAt(exprIds[e]) \in Nat
  BY <1>2, <1>5
<1>8. QED
  BY <1>4, <1>5, <1>6, <1>7

\* The calls in progress are a path: each waits for the next one's address.
PathInv ==
    \A k \in DOMAIN stack : k + 1 \in DOMAIN stack =>
        /\ Len(stack[k].inputs) + 1 \in DOMAIN Arena[stack[k].expr].kids
        /\ stack[k + 1].expr = Arena[stack[k].expr].kids[Len(stack[k].inputs) + 1]

\* A cycle was found where the innermost call leads back into the path.
CycleInv ==
    result = "cycle" =>
        /\ stack # <<>>
        /\ Len(Top.inputs) + 1 \in DOMAIN Arena[Top.expr].kids
        /\ Active(Child)

\* The path, closed by the last child, is a cycle.
LEMMA CycleIsCyclic ==
    ASSUME TypeOK, PathInv, CycleInv, result = "cycle"
    PROVE  Cyclic
<1>1. /\ stack # <<>>
      /\ Len(Top.inputs) + 1 \in DOMAIN Arena[Top.expr].kids
      /\ Active(Child)
  BY DEF CycleInv
<1>2. Len(stack) \in Nat \ {0} /\ DOMAIN stack = 1 .. Len(stack) /\ Top = stack[Len(stack)]
  BY <1>1, TopType
<1> DEFINE S == {stack[k].expr : k \in DOMAIN stack}
<1>3. S \in (SUBSET Exprs) \ {{}}
  <2>1. \A k \in 1 .. Len(stack) : stack[k] \in Frames
    <3>1. stack \in Seq(Frames)
      BY DEF TypeOK, Frames
    <3>2. QED
      BY <3>1, ElementOfSeq
  <2>2. \A k \in DOMAIN stack : stack[k].expr \in Exprs
    BY <1>2, <2>1 DEF Frames
  <2>3. stack[1].expr \in S
    BY <1>2
  <2>4. QED
    BY <2>2, <2>3
<1>4. ASSUME NEW j \in DOMAIN stack
      PROVE  \E k \in DOMAIN Arena[stack[j].expr].kids : Arena[stack[j].expr].kids[k] \in S
  <2>1. CASE j = Len(stack)
    BY <1>1, <1>2, <2>1 DEF Active, Child
  <2>2. CASE j # Len(stack)
    <3>1. j + 1 \in DOMAIN stack
      BY <1>2, <2>2
    <3>2. QED
      BY <3>1 DEF PathInv
  <2>3. QED
    BY <2>1, <2>2
<1>5. QED
  BY <1>3, <1>4 DEF Cyclic

\* Only the innermost call changes, or a call is made for its next child.
LEMMA PathStep == TypeOK /\ PathInv /\ [Next]_vars => PathInv'
<1> SUFFICES ASSUME TypeOK, PathInv, [Next]_vars PROVE PathInv'
  OBVIOUS
<1>0. stack \in Seq(Frames) /\ DOMAIN stack = 1 .. Len(stack) /\ Len(stack) \in Nat
  BY LenProperties DEF TypeOK, Frames
<1>1. CASE UNCHANGED <<program, stack>>
  BY <1>1 DEF PathInv, Arena
<1>2. CASE Begin
  <2>1. stack' = <<[expr |-> next, inputs |-> <<>>]>> /\ program' = program
    BY <1>2 DEF Begin, Call
  <2>2. DOMAIN stack' = 1 .. 1
    BY <2>1
  <2>3. QED
    BY <2>2 DEF PathInv
<1>3. CASE CollectChild
  <2> DEFINE n == Len(stack)
             top == [Top EXCEPT !.inputs = Append(@, exprIds[Child])]
  <2>1. stack # <<>> /\ stack' = Append(Pop, top) /\ program' = program
    BY <1>3 DEF CollectChild, Waiting
  <2>2. /\ n \in Nat \ {0} /\ Top = stack[n] /\ Top.expr \in Exprs /\ Top.inputs \in Seq(Addresses)
        /\ Pop \in Seq(Frames) /\ Len(Pop) = n - 1 /\ \A k \in 1 .. n - 1 : Pop[k] = stack[k]
    BY <2>1, TopType
  <2>3. top \in Frames /\ top.expr = Top.expr
    <3>1. Top \in Frames
      BY <1>0, <2>2, ElementOfSeq
    <3>2. exprIds[Child] \in Addresses
      BY <1>3 DEF CollectChild, Known, TypeOK
    <3>3. Append(Top.inputs, exprIds[Child]) \in Seq(Addresses)
      BY <2>2, <3>2, AppendProperties
    <3>4. QED
      BY <3>1, <3>3 DEF Frames
  <2> HIDE DEF top
  <2>4. /\ DOMAIN stack' = 1 .. n
        /\ \A k \in 1 .. n - 1 : stack'[k] = stack[k]
        /\ stack'[n] = top
    <3>1. /\ stack' \in Seq(Frames) /\ Len(stack') = Len(Pop) + 1
          /\ \A k \in 1 .. Len(Pop) : stack'[k] = Pop[k]
          /\ stack'[Len(Pop) + 1] = top
      BY <2>1, <2>2, <2>3, AppendProperties
    <3>2. DOMAIN stack' = 1 .. Len(stack')
      BY <3>1, LenProperties
    <3>3. QED
      BY <2>2, <3>1, <3>2
  <2>5. \A k \in 1 .. n : stack'[k].expr = stack[k].expr
    BY <2>2, <2>3, <2>4
  <2>6. ASSUME NEW k \in 1 .. n, k + 1 \in 1 .. n
        PROVE  /\ Len(stack'[k].inputs) + 1 \in DOMAIN Arena[stack'[k].expr].kids
               /\ stack'[k + 1].expr = Arena[stack'[k].expr].kids[Len(stack'[k].inputs) + 1]
    <3>1. k \in 1 .. n - 1
      BY <2>2, <2>6
    <3>2. QED
      BY <1>0, <2>4, <2>5, <2>6, <3>1 DEF PathInv
  <2>7. QED
    BY <2>1, <2>4, <2>6 DEF PathInv, Arena
<1>4. CASE EnterChild
  <2>1. /\ stack # <<>> /\ Len(Top.inputs) < Len(Arena[Top.expr].kids) /\ program' = program
        /\ stack' = Append(stack, [expr |-> Child, inputs |-> <<>>])
    BY <1>4 DEF EnterChild, Waiting, Call
  <2>2. /\ Len(stack) \in Nat \ {0} /\ Top = stack[Len(stack)]
        /\ Top.expr \in Exprs /\ Top.inputs \in Seq(Addresses)
    BY <2>1, TopType
  <2>3. Len(Top.inputs) + 1 \in DOMAIN Arena[Top.expr].kids
    <3>1. Len(Top.inputs) \in Nat /\ Arena[Top.expr].kids \in Seq(Nat)
      BY <2>2, ArenaType, LenProperties DEF TypeOK
    <3>2. QED
      BY <2>1, <3>1, LenProperties
  <2>4. Child \in Exprs
    BY <2>2, <2>3, ArenaType DEF Child, TypeOK
  <2>5. [expr |-> Child, inputs |-> <<>>] \in Frames
    <3>1. <<>> \in Seq(Addresses)
      OBVIOUS
    <3>2. QED
      BY <2>4, <3>1 DEF Frames
  <2>6. /\ stack' \in Seq(Frames) /\ Len(stack') = Len(stack) + 1
        /\ \A k \in 1 .. Len(stack) : stack'[k] = stack[k]
        /\ stack'[Len(stack) + 1].expr = Child
    BY <1>0, <2>1, <2>5, AppendProperties
  <2>7. DOMAIN stack' = 1 .. Len(stack) + 1
    BY <2>6, LenProperties
  <2>8. ASSUME NEW k \in 1 .. Len(stack)
        PROVE  /\ Len(stack'[k].inputs) + 1 \in DOMAIN Arena[stack'[k].expr].kids
               /\ stack'[k + 1].expr = Arena[stack'[k].expr].kids[Len(stack'[k].inputs) + 1]
    <3>1. CASE k = Len(stack)
      BY <2>2, <2>3, <2>6, <3>1 DEF Child
    <3>2. CASE k # Len(stack)
      <4>1. k + 1 \in 1 .. Len(stack)
        BY <2>2, <3>2
      <4>2. QED
        BY <1>0, <2>6, <4>1 DEF PathInv
    <3>3. QED
      BY <3>1, <3>2
  <2>9. \A k \in DOMAIN stack' : k + 1 \in DOMAIN stack' => k \in 1 .. Len(stack)
    BY <1>0, <2>7
  <2>10. QED
    BY <2>1, <2>8, <2>9 DEF PathInv, Arena
<1>5. CASE stack # <<>> /\ stack' = Pop /\ program' = program
  <2>1. /\ Pop \in Seq(Frames) /\ Len(Pop) = Len(stack) - 1
        /\ \A k \in 1 .. Len(stack) - 1 : Pop[k] = stack[k]
    BY <1>5, TopType
  <2>2. DOMAIN stack' = 1 .. Len(stack) - 1
    BY <1>5, <2>1, LenProperties
  <2>3. QED
    BY <1>0, <1>5, <2>1, <2>2 DEF PathInv, Arena
<1>6. Intern => \/ UNCHANGED <<program, stack>>
                \/ stack # <<>> /\ stack' = Pop /\ program' = program
  BY DEF Intern, Merge, Collision, Add, Return, Complete
<1>7. Advance \/ CycleFound \/ Finish \/ UNCHANGED vars => UNCHANGED <<program, stack>>
  BY DEF Advance, CycleFound, Finish, vars
<1>8. QED
  BY <1>1, <1>2, <1>3, <1>4, <1>5, <1>6, <1>7 DEF Next

\* A cycle, once found, is the end of it.
LEMMA CycleStep == TypeOK /\ CycleInv /\ [Next]_vars => CycleInv'
<1> SUFFICES ASSUME TypeOK, CycleInv, [Next]_vars, result' = "cycle"
             PROVE  /\ stack' # <<>>
                    /\ Len(Top'.inputs) + 1 \in DOMAIN Arena'[Top'.expr].kids
                    /\ Active(Child)'
  BY DEF CycleInv
<1>1. CASE CycleFound
  <2>1. /\ stack # <<>> /\ Len(Top.inputs) < Len(Arena[Top.expr].kids) /\ Active(Child)
        /\ UNCHANGED <<program, stack>>
    BY <1>1 DEF CycleFound, Waiting
  <2>2. Top.expr \in Exprs /\ Top.inputs \in Seq(Addresses)
    BY <2>1, TopType
  <2>3. Len(Top.inputs) + 1 \in DOMAIN Arena[Top.expr].kids
    <3>1. Len(Top.inputs) \in Nat /\ Arena[Top.expr].kids \in Seq(Nat)
      BY <2>2, ArenaType, LenProperties DEF TypeOK
    <3>2. QED
      BY <2>1, <3>1, LenProperties
  <2>4. QED
    BY <2>1, <2>3 DEF Active, Child, Top, Arena
<1>2. CASE UNCHANGED vars
  BY <1>2 DEF vars, CycleInv, Active, Child, Top, Arena
<1>3. ASSUME Next, ~CycleFound PROVE FALSE
  BY <1>3 DEF Next, Begin, Advance, CollectChild, EnterChild, Intern, Merge, Collision, Add, Finish,
              Waiting, Complete
<1>4. QED
  BY <1>1, <1>2, <1>3

\* build's verdicts are true for every file and every hash: a ledger that was
\* built covers a file without cycles, and a reported cycle is one.
THEOREM VerdictIsRight == Spec => []BuildVerdict
<1>1. Init => PathInv /\ CycleInv
  BY DEF Init, PathInv, CycleInv
<1>2. TypeOK /\ LedgerInv /\ PathInv /\ CycleInv /\ [Next]_vars => (PathInv /\ CycleInv)'
  BY PathStep, CycleStep
<1>3. TypeOK /\ LedgerInv /\ PathInv /\ CycleInv => BuildVerdict
  BY BuiltCovers, BuiltAcyclic, CycleIsCyclic DEF BuildVerdict, BuiltCoversArena
<1>4. QED
  BY <1>1, <1>2, <1>3, LedgerInvariant, PTL DEF Spec

-----------------------------------------------------------------------------
(* Sharing is exact *)

\* No two nodes have the same content: content seen before is hashed to the
\* address it has.
UniqueContents == \A m, n \in DOMAIN nodes : nodes[m].content = nodes[n].content => m = n

\* A node is added only for content no node has.
LEMMA ContentsStep ==
    ASSUME TypeOK, UniqueContents, [Next]_vars
    PROVE  UniqueContents'
<1>1. CASE nodes' = nodes
  BY <1>1 DEF UniqueContents
<1>2. CASE Intern
  <2> DEFINE content == Content(Top.expr, Top.inputs)
  <2>1. Complete
    BY <1>2 DEF Intern
  <2>2. stack # <<>> /\ content \in Contents
    BY <2>1, CompleteType
  <2>3. PICK a \in AddressesOf(content) : Merge(a, content) \/ Collision(a, content) \/ Add(a, content)
    BY <1>2 DEF Intern
  <2> HIDE DEF content
  <2>4. a \in Addresses
    BY <2>3, AddressType
  <2>5. CASE Collision(a, content)
    BY <2>5, <1>1 DEF Collision
  <2>6. CASE Merge(a, content)
    <3>1. /\ DOMAIN nodes' = DOMAIN nodes
          /\ \A n \in DOMAIN nodes : nodes'[n].content = nodes[n].content
      BY <2>2, <2>4, <2>6, MergeInterns DEF Interned
    <3>2. QED
      BY <3>1 DEF UniqueContents
  <2>7. CASE Add(a, content)
    <3>1. /\ \A n \in DOMAIN nodes : nodes'[n].content = nodes[n].content
          /\ DOMAIN nodes' = 1 .. Len(nodes) + 1
          /\ nodes'[Len(nodes) + 1].content = content
      BY <2>2, <2>4, <2>7, AddInterns DEF Interned
    <3>2. \A n \in DOMAIN nodes : nodes[n].content # content
      BY <2>3, <2>7 DEF Add, Taken, AddressesOf
    <3>3. DOMAIN nodes = 1 .. Len(nodes) /\ Len(nodes) \in Nat
      BY NodesType
    <3>4. QED
      BY <3>1, <3>2, <3>3 DEF UniqueContents
  <2>8. QED
    BY <2>3, <2>5, <2>6, <2>7
<1>3. QED
  BY <1>1, <1>2 DEF Next, Begin, Advance, CollectChild, EnterChild, CycleFound, Finish, vars

\* Same content, same address, and the other way round.
LEMMA AddressIsContent ==
    ASSUME TypeOK, LedgerInv, UniqueContents,
           NEW e \in DOMAIN exprIds, NEW f \in DOMAIN exprIds
    PROVE  exprIds[e] = exprIds[f] <=> Content(e, InputsOf(e)) = Content(f, InputsOf(f))
<1>1. PICK m \in DOMAIN nodes : nodes[m].id = exprIds[e] /\ nodes[m].content = Content(e, InputsOf(e))
  BY DEF LedgerInv, Addressed
<1>2. PICK n \in DOMAIN nodes : nodes[n].id = exprIds[f] /\ nodes[n].content = Content(f, InputsOf(f))
  BY DEF LedgerInv, Addressed
<1>3. ASSUME exprIds[e] = exprIds[f] PROVE Content(e, InputsOf(e)) = Content(f, InputsOf(f))
  <2>1. m = n
    BY <1>1, <1>2, <1>3 DEF LedgerInv, UniqueIds
  <2>2. QED
    BY <1>1, <1>2, <2>1
<1>4. ASSUME Content(e, InputsOf(e)) = Content(f, InputsOf(f)) PROVE exprIds[e] = exprIds[f]
  <2>1. m = n
    BY <1>1, <1>2, <1>4 DEF UniqueContents
  <2>2. QED
    BY <1>1, <1>2, <2>1
<1>5. QED
  BY <1>3, <1>4

\* What Alike asks of two expressions, of their children's relation.
AlikeBody(alike, e, f) ==
    LET d == Arena[e].kids
        g == Arena[f].kids
    IN  /\ [Arena[e] EXCEPT !.kids = <<>>] = [Arena[f] EXCEPT !.kids = <<>>]
        /\ Len(d) = Len(g)
        /\ \/ \A k \in DOMAIN d : alike[<<d[k], g[k]>>]
           \/ /\ Arena[e].op \in Commutative
              /\ \E m \in [DOMAIN d -> DOMAIN d] :
                    /\ \A j, k \in DOMAIN d : m[j] = m[k] => j = k
                    /\ \A k \in DOMAIN d : alike[<<d[k], g[m[k]]>>]

LEMMA AlikeUnfolds ==
    Alike = CHOOSE alike :
                alike = [pair \in Exprs \X Exprs |-> AlikeBody(alike, pair[1], pair[2])]
BY Zenon DEF Alike, AlikeBody

\* The relation the addresses give.
SameAddress == [pair \in Exprs \X Exprs |-> exprIds[pair[1]] = exprIds[pair[2]]]

\* An expression without its children is its operation, parameters and type.
LEMMA SameHeads ==
    ASSUME program \in Programs, NEW e \in Exprs, NEW f \in Exprs
    PROVE  [Arena[e] EXCEPT !.kids = <<>>] = [Arena[f] EXCEPT !.kids = <<>>]
           <=> /\ Arena[e].op = Arena[f].op
               /\ Arena[e].params = Arena[f].params
               /\ Arena[e].type = Arena[f].type
<1>1. Arena[e] \in Expressions /\ Arena[f] \in Expressions
  BY LedgerAssumption, LenProperties, ElementOfSeq DEF Arena, Exprs
<1>2. QED
  BY <1>1 DEF Expressions

\* Two expressions have the same content when they have the same head and
\* their children the same addresses, in some order where it commutes.
LEMMA ContentsAlike ==
    ASSUME TypeOK, DOMAIN exprIds = Exprs, NEW e \in Exprs, NEW f \in Exprs
    PROVE  Content(e, InputsOf(e)) = Content(f, InputsOf(f)) <=> AlikeBody(SameAddress, e, f)
<1> DEFINE d == Arena[e].kids
           g == Arena[f].kids
           s == InputsOf(e)
           t == InputsOf(f)
<1>1. /\ d \in Seq(Nat) /\ g \in Seq(Nat)
      /\ \A k \in DOMAIN d : d[k] \in Exprs
      /\ \A k \in DOMAIN g : g[k] \in Exprs
  BY ArenaType DEF TypeOK
<1>2. PICK m \in Nat, n \in Nat : m = Len(d) /\ n = Len(g) /\ DOMAIN d = 1 .. m /\ DOMAIN g = 1 .. n
  BY <1>1, LenProperties
<1>3. /\ s \in [1 .. m -> Addresses] /\ t \in [1 .. n -> Addresses]
      /\ \A k \in 1 .. m : s[k] = exprIds[d[k]]
      /\ \A k \in 1 .. n : t[k] = exprIds[g[k]]
  BY <1>1, <1>2 DEF InputsOf, TypeOK
<1>4. s \in [1 .. m -> Nat] /\ t \in [1 .. n -> Nat]
  BY <1>3, LedgerAssumption
<1>5. DOMAIN Sorted(s) = 1 .. m /\ DOMAIN Sorted(t) = 1 .. n
  BY <1>4 DEF Sorted
<1>6. 1 .. m = 1 .. n <=> m = n
  <2>1. ASSUME 1 .. m = 1 .. n PROVE m = n
    <3>1. m \in 1 .. m \/ m = 0
      OBVIOUS
    <3>2. n \in 1 .. n \/ n = 0
      OBVIOUS
    <3>3. QED
      BY <2>1, <3>1, <3>2
  <2>2. QED
    BY <2>1
<1> DEFINE Heads == /\ Arena[e].op = Arena[f].op
                    /\ Arena[e].params = Arena[f].params
                    /\ Arena[e].type = Arena[f].type
<1>7. AlikeBody(SameAddress, e, f)
      <=> /\ Heads /\ m = n
          /\ \/ \A k \in 1 .. m : s[k] = t[k]
             \/ /\ Arena[e].op \in Commutative
                /\ \E o \in [1 .. m -> 1 .. m] : Reorders(o, s, t, m)
  <2>1. ASSUME m = n, NEW k \in 1 .. m, NEW l \in 1 .. m
        PROVE  SameAddress[<<d[k], g[l]>>] <=> s[k] = t[l]
    <3>1. d[k] \in Exprs /\ g[l] \in Exprs
      BY <1>1, <1>2, <2>1
    <3>2. QED
      BY <1>3, <2>1, <3>1 DEF SameAddress
  <2>2. ASSUME m = n
        PROVE  (\A k \in DOMAIN d : SameAddress[<<d[k], g[k]>>]) <=> (\A k \in 1 .. m : s[k] = t[k])
    BY <1>2, <2>1, <2>2
  <2>3. ASSUME m = n, NEW o \in [1 .. m -> 1 .. m]
        PROVE  (/\ \A j, k \in DOMAIN d : o[j] = o[k] => j = k
                /\ \A k \in DOMAIN d : SameAddress[<<d[k], g[o[k]]>>])
               <=> Reorders(o, s, t, m)
    <3>1. \A k \in 1 .. m : o[k] \in 1 .. m
      OBVIOUS
    <3>2. \A k \in 1 .. m : SameAddress[<<d[k], g[o[k]]>>] <=> s[k] = t[o[k]]
      BY <2>1, <2>3, <3>1
    <3>3. QED
      BY <1>2, <3>2 DEF Reorders, OneToOne
  <2>4. [Arena[e] EXCEPT !.kids = <<>>] = [Arena[f] EXCEPT !.kids = <<>>] <=> Heads
    BY SameHeads DEF TypeOK
  <2>5. QED
    BY <1>2, <2>2, <2>3, <2>4 DEF AlikeBody
<1>8. CASE Arena[e].op \notin Commutative
  <2>1. Heads => Content(e, s).inputs = s /\ Content(f, t).inputs = t
    BY <1>8 DEF Content
  <2>2. s = t <=> m = n /\ \A k \in 1 .. m : s[k] = t[k]
    BY <1>3, <1>6
  <2>3. Content(e, s) = Content(f, t) <=> Heads /\ s = t
    BY <1>8 DEF Content
  <2>4. QED
    BY <1>7, <1>8, <2>2, <2>3
<1>9. CASE Arena[e].op \in Commutative
  <2>1. Content(e, s) = Content(f, t) <=> Heads /\ Sorted(s) = Sorted(t)
    BY <1>9 DEF Content
  <2>2. Sorted(s) = Sorted(t) => m = n
    BY <1>5, <1>6
  <2>3. ASSUME m = n
        PROVE  Sorted(s) = Sorted(t) <=> \E o \in [1 .. m -> 1 .. m] : Reorders(o, s, t, m)
    BY <1>4, <2>3, SameSorted
  <2>4. ASSUME m = n, \A k \in 1 .. m : s[k] = t[k]
        PROVE  Sorted(s) = Sorted(t)
    BY <1>3, <2>4
  <2>5. QED
    BY <1>7, <1>9, <2>1, <2>2, <2>3, <2>4
<1>10. QED
  BY <1>8, <1>9

\* A relation of expressions that unfolds as Alike does.
Unfolds(h) == h = [pair \in Exprs \X Exprs |-> AlikeBody(h, pair[1], pair[2])]

LEMMA BodyBoolean ==
    ASSUME NEW h, NEW e, NEW f
    PROVE  AlikeBody(h, e, f) \in BOOLEAN
BY Zenon DEF AlikeBody

\* AlikeBody reads the relation at pairs whose first part is a child.
LEMMA BodyReads ==
    ASSUME program \in Programs, NEW e \in Exprs, NEW f \in Exprs, NEW h, NEW j,
           \A k \in DOMAIN Arena[e].kids : \A g \in Exprs :
               h[<<Arena[e].kids[k], g>>] = j[<<Arena[e].kids[k], g>>]
    PROVE  AlikeBody(h, e, f) <=> AlikeBody(j, e, f)
<1> DEFINE d == Arena[e].kids
           g == Arena[f].kids
<1>1. \A k \in DOMAIN g : g[k] \in Exprs
  BY ArenaType
<1>2. ASSUME Len(d) = Len(g)
      PROVE  DOMAIN d = DOMAIN g
  BY <1>2, ArenaType, LenProperties
<1>3. ASSUME Len(d) = Len(g), NEW k \in DOMAIN d, NEW l \in DOMAIN d
      PROVE  h[<<d[k], g[l]>>] = j[<<d[k], g[l]>>]
  BY <1>1, <1>2, <1>3
<1>4. CASE Len(d) = Len(g)
  <2>1. (\A k \in DOMAIN d : h[<<d[k], g[k]>>]) <=> (\A k \in DOMAIN d : j[<<d[k], g[k]>>])
    BY <1>3, <1>4
  <2>2. ASSUME NEW m \in [DOMAIN d -> DOMAIN d]
        PROVE  (\A k \in DOMAIN d : h[<<d[k], g[m[k]]>>]) <=> (\A k \in DOMAIN d : j[<<d[k], g[m[k]]>>])
    <3>1. \A k \in DOMAIN d : m[k] \in DOMAIN d
      OBVIOUS
    <3>2. \A k \in DOMAIN d : h[<<d[k], g[m[k]]>>] = j[<<d[k], g[m[k]]>>]
      BY <1>3, <1>4, <3>1
    <3>3. QED
      BY <3>2
  <2>3. QED
    BY <2>1, <2>2 DEF AlikeBody
<1>5. CASE Len(d) # Len(g)
  BY <1>5 DEF AlikeBody
<1>6. QED
  BY <1>4, <1>5

\* An addressed expression has a node.
LEMMA NodeOfExpr ==
    ASSUME TypeOK, LedgerInv, NEW e \in DOMAIN exprIds
    PROVE  NodeAt(exprIds[e]) \in DOMAIN nodes /\ NodeAt(exprIds[e]) \in Nat
<1>1. \E n \in DOMAIN nodes : nodes[n].id = exprIds[e]
  BY DEF LedgerInv, Addressed
<1>2. QED
  BY <1>1, NodesType DEF NodeAt

\* There is one such relation: where two differ, they differ at the children
\* too, whose nodes come earlier.
LEMMA OneUnfolds ==
    ASSUME TypeOK, LedgerInv, DOMAIN exprIds = Exprs,
           NEW h, NEW j, Unfolds(h), Unfolds(j)
    PROVE  h = j
<1> DEFINE Bad == {pair \in Exprs \X Exprs : h[pair] # j[pair]}
           T == {NodeAt(exprIds[pair[1]]) : pair \in Bad}
<1>1. ASSUME Bad # {} PROVE FALSE
  <2>1. T \subseteq Nat /\ T # {}
    <3>1. \A e \in Exprs : NodeAt(exprIds[e]) \in Nat
      BY NodeOfExpr
    <3>2. QED
      BY <1>1, <3>1
  <2>2. \E n \in T : \A m \in T : n <= m
    <3> HIDE DEF T
    <3>1. QED
      BY <2>1, LeastNatural
  <2>3. PICK pair \in Bad : \A other \in Bad :
            NodeAt(exprIds[pair[1]]) <= NodeAt(exprIds[other[1]])
    BY <2>2
  <2>4. PICK e \in Exprs, f \in Exprs : pair = <<e, f>>
    BY <2>3
  <2>5. ASSUME NEW k \in DOMAIN Arena[e].kids, NEW g \in Exprs
        PROVE  h[<<Arena[e].kids[k], g>>] = j[<<Arena[e].kids[k], g>>]
    <3> DEFINE kid == Arena[e].kids[k]
    <3>1. kid \in Exprs
      BY ArenaType DEF TypeOK
    <3>2. NodeAt(exprIds[kid]) < NodeAt(exprIds[e]) /\ NodeAt(exprIds[e]) \in Nat /\ NodeAt(exprIds[kid]) \in Nat
      BY <3>1, ChildEarlier, NodeOfExpr
    <3>3. ~ (NodeAt(exprIds[e]) <= NodeAt(exprIds[kid]))
      BY <3>2
    <3>4. <<kid, g>> \notin Bad
      BY <2>3, <2>4, <3>3
    <3>5. QED
      BY <3>1, <3>4
  <2>6. AlikeBody(h, e, f) <=> AlikeBody(j, e, f)
    <3>1. /\ program \in Programs
          /\ \A k \in DOMAIN Arena[e].kids : \A g \in Exprs :
                h[<<Arena[e].kids[k], g>>] = j[<<Arena[e].kids[k], g>>]
      BY <2>5 DEF TypeOK
    <3> HIDE DEF Bad, T
    <3>2. QED
      BY <3>1, BodyReads
  <2>7. h[<<e, f>>] = AlikeBody(h, e, f) /\ j[<<e, f>>] = AlikeBody(j, e, f)
    BY DEF Unfolds
  <2>8. h[<<e, f>>] = j[<<e, f>>]
    <3>1. AlikeBody(h, e, f) = AlikeBody(j, e, f)
      BY <2>6, BodyBoolean
    <3>2. QED
      BY <2>7, <3>1
  <2>9. QED
    BY <2>4, <2>8
<1>2. QED
  BY <1>1 DEF Unfolds

\* Once built, the addresses give such a relation, so Alike, defined by its
\* unfolding, exists and is that one.
LEMMA BuiltAlike ==
    ASSUME TypeOK, LedgerInv, UniqueContents, result = "built"
    PROVE  Alike = SameAddress
<1>1. DOMAIN exprIds = Exprs
  BY BuiltCovers DEF BuiltCoversArena
<1>2. \A e, f \in Exprs : exprIds[e] = exprIds[f] <=> AlikeBody(SameAddress, e, f)
  BY <1>1, AddressIsContent, ContentsAlike
<1>3. Unfolds(SameAddress)
  <2>1. ASSUME NEW pair \in Exprs \X Exprs
        PROVE  (exprIds[pair[1]] = exprIds[pair[2]]) = AlikeBody(SameAddress, pair[1], pair[2])
    <3>1. PICK e \in Exprs, f \in Exprs : e = pair[1] /\ f = pair[2]
      OBVIOUS
    <3>2. exprIds[e] = exprIds[f] <=> AlikeBody(SameAddress, e, f)
      BY <1>2
    <3>3. (exprIds[e] = exprIds[f]) = AlikeBody(SameAddress, e, f)
      BY <3>2, BodyBoolean
    <3>4. QED
      BY <3>1, <3>3
  <2>2. QED
    BY <2>1 DEF Unfolds, SameAddress
<1>4. Unfolds(Alike)
  BY <1>3, AlikeUnfolds, Zenon DEF Unfolds
<1>5. QED
  BY <1>1, <1>3, <1>4, OneUnfolds

\* Once built, two expressions share an address exactly when they mean the
\* same, read off the tree, whatever the hash: a ledger that was built merges
\* nothing that differs and leaves nothing apart that is alike.
THEOREM AlwaysNoSilentMerge == Spec => []NoSilentMerge
<1>1. Init => UniqueContents
  BY DEF Init, UniqueContents
<1>2. TypeOK /\ LedgerInv /\ UniqueContents /\ [Next]_vars => UniqueContents'
  BY ContentsStep
<1>3. TypeOK /\ LedgerInv /\ UniqueContents => NoSilentMerge
  <2> SUFFICES ASSUME TypeOK, LedgerInv, UniqueContents, result = "built",
                      NEW e \in Exprs, NEW f \in Exprs
               PROVE  exprIds[e] = exprIds[f] <=> Alike[<<e, f>>]
    BY DEF NoSilentMerge
  <2>1. Alike = SameAddress
    BY BuiltAlike
  <2>2. QED
    BY <2>1 DEF SameAddress
<1>4. QED
  BY <1>1, <1>2, <1>3, LedgerInvariant, PTL DEF Spec

-----------------------------------------------------------------------------
(* Executing what was built.                                               *)

\* The state of the builder is invariant, and stands still once it is done.
LEMMA BuilderStep ==
    TypeOK /\ LedgerInv /\ [RunNext]_allVars => (TypeOK /\ LedgerInv)'
<1>1. [RunNext]_allVars => [Next]_vars
  BY DEF RunNext, allVars
<1>2. QED
  BY <1>1, TypeStep, LedgerStep

\* Calls of evaluate: of nodes of the ledger, each before the one around it,
\* with inputs collected one by one.
FramesOver(S) == Seq([node : Addresses, inputs : Seq(S)])

EvaluationInv ==
    /\ outcome # "waiting" => result = "built"
    /\ \E S : frames \in FramesOver(S)
    /\ frames # <<>> => outcome \in {"executing", "failed"}
    /\ \A k \in DOMAIN frames : Taken(frames[k].node)
    /\ \A j, k \in DOMAIN frames : j < k => NodeAt(frames[k].node) < NodeAt(frames[j].node)

\* A frame is well formed, and so are the frames around it.
LEMMA FrameType ==
    ASSUME NEW S, frames \in FramesOver(S), frames # <<>>
    PROVE  /\ Len(frames) \in Nat \ {0}
           /\ DOMAIN frames = 1 .. Len(frames)
           /\ Frame = frames[Len(frames)]
           /\ Frame \in [node : Addresses, inputs : Seq(S)]
           /\ Caller \in FramesOver(S)
           /\ Len(Caller) = Len(frames) - 1
           /\ DOMAIN Caller = 1 .. Len(frames) - 1
           /\ \A k \in 1 .. Len(frames) - 1 : Caller[k] = frames[k]
<1>1. Len(frames) \in Nat \ {0} /\ DOMAIN frames = 1 .. Len(frames)
  BY LenProperties, EmptySeq DEF FramesOver
<1>2. \A k \in 1 .. Len(frames) : frames[k] \in [node : Addresses, inputs : Seq(S)]
  BY ElementOfSeq DEF FramesOver
<1>3. /\ Caller \in FramesOver(S)
      /\ Len(Caller) = Len(frames) - 1
      /\ \A k \in 1 .. Len(frames) - 1 : Caller[k] = frames[k]
  BY <1>1, <1>2, SubSeqProperties DEF Caller, FramesOver
<1>4. DOMAIN Caller = 1 .. Len(frames) - 1
  BY <1>3, LenProperties DEF FramesOver
<1>5. QED
  BY <1>1, <1>2, <1>3, <1>4 DEF Frame

\* The node of a taken address.
LEMMA NodeAtType ==
    ASSUME NEW a, Taken(a)
    PROVE  NodeAt(a) \in DOMAIN nodes /\ nodes[NodeAt(a)].id = a
BY DEF Taken, NodeAt

\* The next input of the innermost evaluation is an earlier node.
LEMMA InputEarlier ==
    ASSUME TypeOK, LedgerInv, EvaluationInv, Pending
    PROVE  Input \in Addresses /\ Taken(Input) /\ NodeAt(Input) < NodeAt(Frame.node)
<1>1. PICK S : frames \in FramesOver(S)
  BY DEF EvaluationInv
<1>2. frames # <<>> /\ Len(Frame.inputs) < Len(NodeOf(Frame.node).inputs)
  BY DEF Pending, Evaluating
<1>3. /\ Len(frames) \in DOMAIN frames /\ Frame = frames[Len(frames)]
      /\ Frame.inputs \in Seq(S)
  BY <1>1, <1>2, FrameType
<1>4. Taken(Frame.node)
  BY <1>3 DEF EvaluationInv
<1> DEFINE n == NodeAt(Frame.node)
           i == Len(Frame.inputs) + 1
<1>5. n \in DOMAIN nodes /\ n \in Nat
  BY <1>4, NodeAtType, NodesType
<1>6. nodes[n].content.inputs \in Seq(Addresses)
  BY <1>5, NodesType DEF Nodes, Contents
<1>7. i \in DOMAIN nodes[n].content.inputs /\ Input = nodes[n].content.inputs[i]
  <2>1. Len(Frame.inputs) \in Nat
    BY <1>3, LenProperties
  <2>2. DOMAIN nodes[n].content.inputs = 1 .. Len(nodes[n].content.inputs)
    BY <1>6, LenProperties
  <2>3. Len(Frame.inputs) < Len(nodes[n].content.inputs)
    BY <1>2 DEF NodeOf
  <2>4. Len(nodes[n].content.inputs) \in Nat
    BY <1>6, LenProperties
  <2>5. QED
    BY <2>1, <2>2, <2>3, <2>4 DEF Input, NodeOf
<1> HIDE DEF n, i
<1>8. PICK m \in 1 .. n - 1 : nodes[m].id = Input
  BY <1>5, <1>7 DEF LedgerInv, InputsFirst
<1>9. m \in DOMAIN nodes
  BY <1>5, <1>8, NodesType
<1>10. Taken(Input) /\ Input \in Addresses
  BY <1>8, <1>9, NodesType DEF Taken, Nodes
<1>11. NodeAt(Input) = m
  BY <1>8, <1>9, <1>10, NodeAtType DEF LedgerInv, UniqueIds
<1>12. QED
  BY <1>5, <1>8, <1>10, <1>11 DEF n

\* It comes before every node under evaluation.
LEMMA InputEarliest ==
    ASSUME TypeOK, LedgerInv, EvaluationInv, Pending
    PROVE  \A k \in DOMAIN frames : NodeAt(Input) < NodeAt(frames[k].node)
<1>1. PICK S : frames \in FramesOver(S)
  BY DEF EvaluationInv
<1>2. frames # <<>>
  BY DEF Pending, Evaluating
<1>3. /\ Len(frames) \in Nat \ {0} /\ DOMAIN frames = 1 .. Len(frames)
      /\ Frame = frames[Len(frames)]
  BY <1>1, <1>2, FrameType
<1>4. Taken(Input) /\ NodeAt(Input) < NodeAt(Frame.node)
  BY InputEarlier
<1>5. NodeAt(Input) \in Nat /\ \A k \in DOMAIN frames : NodeAt(frames[k].node) \in Nat
  BY <1>4, NodeAtType, NodesType DEF EvaluationInv
<1>6. \A k \in 1 .. Len(frames) - 1 : NodeAt(Frame.node) < NodeAt(frames[k].node)
  BY <1>3 DEF EvaluationInv
<1>7. QED
  BY <1>3, <1>4, <1>5, <1>6

\* A new innermost evaluation, of a node before the present ones.
LEMMA EvaluateKeeps ==
    ASSUME TypeOK, EvaluationInv, NEW a \in Addresses, Taken(a),
           \A k \in DOMAIN frames : NodeAt(a) < NodeAt(frames[k].node),
           Evaluate(a), outcome = "executing", outcome' = outcome, UNCHANGED vars
    PROVE  EvaluationInv'
<1>1. PICK S : frames \in FramesOver(S)
  BY DEF EvaluationInv
<1>2. [node |-> a, inputs |-> <<>>] \in [node : Addresses, inputs : Seq(S)]
  <2>1. <<>> \in Seq(S)
    OBVIOUS
  <2>2. QED
    BY <2>1
<1>3. /\ frames' \in FramesOver(S)
      /\ Len(frames') = Len(frames) + 1
      /\ \A k \in 1 .. Len(frames) : frames'[k] = frames[k]
      /\ frames'[Len(frames) + 1] = [node |-> a, inputs |-> <<>>]
  BY <1>1, <1>2, AppendProperties DEF Evaluate, FramesOver
<1>4. DOMAIN frames' = 1 .. Len(frames) + 1 /\ DOMAIN frames = 1 .. Len(frames) /\ Len(frames) \in Nat
  BY <1>1, <1>3, LenProperties DEF FramesOver
<1>5. /\ result' = result /\ nodes' = nodes
      /\ \A b : Taken(b)' <=> Taken(b)
  BY DEF vars, Taken
<1>6. \A k \in DOMAIN frames' : Taken(frames'[k].node)
  BY <1>3, <1>4 DEF EvaluationInv
<1>7. \A j, k \in DOMAIN frames' : j < k => NodeAt(frames'[k].node) < NodeAt(frames'[j].node)
  <2> SUFFICES ASSUME NEW j \in DOMAIN frames', NEW k \in DOMAIN frames', j < k
               PROVE  NodeAt(frames'[k].node) < NodeAt(frames'[j].node)
    OBVIOUS
  <2>1. j \in 1 .. Len(frames)
    BY <1>4
  <2>2. CASE k = Len(frames) + 1
    BY <1>3, <1>4, <2>1, <2>2
  <2>3. CASE k \in 1 .. Len(frames)
    BY <1>3, <1>4, <2>1, <2>3 DEF EvaluationInv
  <2>4. QED
    BY <1>4, <2>2, <2>3
<1>8. QED
  BY <1>3, <1>5, <1>6, <1>7 DEF EvaluationInv, Taken, NodeAt

\* Collecting an input changes no node and no order.
LEMMA TakeKeeps ==
    ASSUME TypeOK, EvaluationInv, TakeInput, UNCHANGED vars
    PROVE  EvaluationInv'
<1>1. PICK S : frames \in FramesOver(S)
  BY DEF EvaluationInv
<1>2. frames # <<>> /\ outcome = "executing"
  BY DEF TakeInput, Pending, Evaluating
<1>3. /\ Len(frames) \in Nat \ {0} /\ DOMAIN frames = 1 .. Len(frames)
      /\ Frame = frames[Len(frames)]
      /\ Frame \in [node : Addresses, inputs : Seq(S)]
      /\ Caller \in FramesOver(S) /\ Len(Caller) = Len(frames) - 1
      /\ \A k \in 1 .. Len(frames) - 1 : Caller[k] = frames[k]
  BY <1>1, <1>2, FrameType
<1> DEFINE T == S \cup {values[Input]}
           frame == [Frame EXCEPT !.inputs = Append(@, values[Input])]
<1>4. Seq(S) \subseteq Seq(T)
  BY SeqMonotonic
<1>5. Append(Frame.inputs, values[Input]) \in Seq(T)
  <2>1. Frame.inputs \in Seq(T) /\ values[Input] \in T
    BY <1>3, <1>4
  <2> HIDE DEF T
  <2>2. QED
    BY <2>1, AppendProperties
<1>6. frame \in [node : Addresses, inputs : Seq(T)] /\ frame.node = Frame.node
  <2> HIDE DEF T
  <2>1. QED
    BY <1>3, <1>5
<1>7. Caller \in FramesOver(T)
  <2>1. [node : Addresses, inputs : Seq(S)] \subseteq [node : Addresses, inputs : Seq(T)]
    <3> HIDE DEF T
    <3>1. QED
      BY <1>4
  <2> HIDE DEF T
  <2>2. QED
    BY <1>3, <2>1, SeqMonotonic DEF FramesOver
<1>8. frames' = Append(Caller, frame)
  BY DEF TakeInput
<1> HIDE DEF T, frame
<1>9. /\ frames' \in FramesOver(T)
      /\ Len(frames') = Len(frames)
      /\ \A k \in 1 .. Len(frames) - 1 : frames'[k] = frames[k]
      /\ frames'[Len(frames)] = frame
  <2>1. /\ Append(Caller, frame) \in FramesOver(T)
        /\ Len(Append(Caller, frame)) = Len(Caller) + 1
        /\ \A k \in 1 .. Len(Caller) : Append(Caller, frame)[k] = Caller[k]
        /\ Append(Caller, frame)[Len(Caller) + 1] = frame
    BY <1>6, <1>7, AppendProperties DEF FramesOver
  <2>2. QED
    BY <1>3, <1>8, <2>1
<1>10. DOMAIN frames' = DOMAIN frames
  BY <1>3, <1>9, LenProperties DEF FramesOver
<1>11. \A k \in DOMAIN frames : frames'[k].node = frames[k].node
  BY <1>3, <1>6, <1>9
<1>12. result' = result /\ nodes' = nodes /\ outcome' = outcome
  BY DEF vars, TakeInput
<1>13. /\ \A k \in DOMAIN frames' : Taken(frames'[k].node)
       /\ \A j, k \in DOMAIN frames' : j < k => NodeAt(frames'[k].node) < NodeAt(frames'[j].node)
  BY <1>10, <1>11 DEF EvaluationInv
<1>14. QED
  BY <1>2, <1>9, <1>12, <1>13 DEF EvaluationInv, Taken, NodeAt

\* The innermost evaluation ends.
LEMMA StepKeeps ==
    ASSUME TypeOK, EvaluationInv, Step, UNCHANGED vars
    PROVE  EvaluationInv'
<1>0. result' = result /\ nodes' = nodes
  BY DEF vars
<1>1. outcome = "executing" /\ frames # <<>>
  BY DEF Step, Evaluating
<1>2. CASE outcome' = "failed" /\ frames' = frames
  BY <1>0, <1>1, <1>2 DEF EvaluationInv, Taken, NodeAt
<1>3. CASE outcome' = outcome /\ frames' = Caller
  <2>1. PICK S : frames \in FramesOver(S)
    BY DEF EvaluationInv
  <2>2. /\ Len(frames) \in Nat /\ DOMAIN frames = 1 .. Len(frames)
        /\ Caller \in FramesOver(S) /\ DOMAIN Caller = 1 .. Len(frames) - 1
        /\ \A k \in 1 .. Len(frames) - 1 : Caller[k] = frames[k]
    BY <1>1, <2>1, FrameType
  <2>3. \A k \in DOMAIN Caller : k \in DOMAIN frames /\ Caller[k] = frames[k]
    BY <2>2
  <2>4. /\ \A k \in DOMAIN Caller : Taken(Caller[k].node)
        /\ \A j, k \in DOMAIN Caller : j < k => NodeAt(Caller[k].node) < NodeAt(Caller[j].node)
    BY <2>3 DEF EvaluationInv
  <2>5. QED
    BY <1>0, <1>1, <1>3, <2>2, <2>4 DEF EvaluationInv, Taken, NodeAt
<1>4. QED
  BY <1>2, <1>3 DEF Step, Fail

\* A step that makes no call and returns from none.
LEMMA QuietKeeps ==
    ASSUME EvaluationInv, UNCHANGED <<nodes, result>>, frames' = <<>>,
           outcome' # "waiting" => result = "built"
    PROVE  EvaluationInv'
<1>1. \A S : <<>> \in FramesOver(S)
  BY DEF FramesOver
<1>2. QED
  BY <1>1 DEF EvaluationInv

LEMMA EvaluationInit == RunInit => EvaluationInv
<1>1. \A S : <<>> \in FramesOver(S)
  BY DEF FramesOver
<1>2. QED
  BY <1>1 DEF RunInit, EvaluationInv

LEMMA EvaluationStep ==
    TypeOK /\ LedgerInv /\ EvaluationInv /\ [RunNext]_allVars => EvaluationInv'
<1> SUFFICES ASSUME TypeOK, LedgerInv, EvaluationInv, [RunNext]_allVars
             PROVE  EvaluationInv'
  OBVIOUS
<1>1. CASE Next /\ UNCHANGED <<execution, replay>>
  <2>1. result = "building"
    BY <1>1 DEF Next, Begin, Advance, CollectChild, EnterChild, CycleFound, Intern, Finish,
                Waiting, Complete
  <2>2. outcome = "waiting" /\ frames = <<>>
    BY <2>1 DEF EvaluationInv
  <2>3. QED
    BY <1>1, <2>2 DEF execution, EvaluationInv
<1>2. CASE ExecuteStep /\ UNCHANGED <<vars, replay>>
  <2>0. UNCHANGED vars /\ nodes' = nodes /\ result' = result
    BY <1>2 DEF vars
  <2>1. CASE StartExecution
    BY <2>0, <2>1, QuietKeeps DEF StartExecution, EvaluationInv
  <2>2. CASE SkipItem \/ BindConstant
    BY <2>0, <2>2, QuietKeeps DEF SkipItem, BindConstant, AtItem, EvaluationInv
  <2>3. CASE EvaluateRoot
    <3> DEFINE a == exprIds[Root[item].init]
    <3>1. /\ frames = <<>> /\ outcome = "executing" /\ outcome' = outcome
          /\ item \in DOMAIN Root /\ Root[item].init # 0 /\ Evaluate(a)
      BY <2>3 DEF EvaluateRoot, AtItem
    <3>2. Root[item].init \in Exprs
      BY <3>1, LedgerAssumption DEF TypeOK, Root, Exprs, Arena
    <3>3. DOMAIN exprIds = Exprs
      BY <3>1, BuiltCovers DEF EvaluationInv, BuiltCoversArena
    <3>4. a \in Addresses /\ Taken(a)
      BY <3>2, <3>3 DEF TypeOK, LedgerInv, Addressed, Taken
    <3> HIDE DEF a
    <3>5. \A k \in DOMAIN frames : NodeAt(a) < NodeAt(frames[k].node)
      BY <3>1
    <3>6. QED
      BY <2>0, <3>1, <3>4, <3>5, EvaluateKeeps
  <2>4. CASE TakeInput
    BY <2>0, <2>4, TakeKeeps
  <2>5. CASE EvaluateInput
    <3>1. Pending /\ Evaluate(Input) /\ outcome = "executing" /\ outcome' = outcome
      BY <2>5 DEF EvaluateInput, Pending, Evaluating
    <3>2. Input \in Addresses /\ Taken(Input) /\ NodeAt(Input) < NodeAt(Frame.node)
      BY <3>1, InputEarlier
    <3>3. \A k \in DOMAIN frames : NodeAt(Input) < NodeAt(frames[k].node)
      BY <3>1, <3>2, InputEarliest
    <3>4. QED
      BY <2>0, <3>1, <3>2, <3>3, EvaluateKeeps
  <2>6. CASE Step
    BY <2>0, <2>6, StepKeeps
  <2>7. CASE FinishExecution
    BY <2>0, <2>7, QuietKeeps DEF FinishExecution, EvaluationInv
  <2>8. QED
    BY <1>2, <2>1, <2>2, <2>3, <2>4, <2>5, <2>6, <2>7 DEF ExecuteStep
<1>3. CASE (StartReplay \/ Verify) /\ UNCHANGED vars
  <2>1. nodes' = nodes /\ result' = result
    BY <1>3 DEF vars
  <2>2. CASE StartReplay
    BY <2>1, <2>2, QuietKeeps DEF StartReplay, EvaluationInv
  <2>3. CASE Verify
    BY <2>1, <2>3, QuietKeeps DEF Verify, EvaluationInv
  <2>4. QED
    BY <1>3, <2>2, <2>3
<1>4. CASE UNCHANGED allVars
  BY <1>4 DEF allVars, vars, execution, EvaluationInv, Taken, NodeAt
<1>5. QED
  BY <1>1, <1>2, <1>3, <1>4 DEF RunNext

LEMMA EvaluationInvariant == RunSpec => [](TypeOK /\ LedgerInv /\ EvaluationInv)
<1>1. RunInit => TypeOK /\ LedgerInv /\ EvaluationInv
  BY TypeInit, LedgerInit, EvaluationInit DEF RunInit
<1>2. TypeOK /\ LedgerInv /\ EvaluationInv /\ [RunNext]_allVars
      => (TypeOK /\ LedgerInv /\ EvaluationInv)'
  BY BuilderStep, EvaluationStep
<1>3. QED
  BY <1>1, <1>2, PTL DEF RunSpec

-----------------------------------------------------------------------------
\* ExecError::Cycle and ExecError::MissingNode are unreachable: an input that
\* has no value yet is a node of the ledger, and none being evaluated.
THEOREM AlwaysProceeds == RunSpec => []EvaluationProceeds
<1>1. TypeOK /\ LedgerInv /\ EvaluationInv => EvaluationProceeds
  <2> SUFFICES ASSUME TypeOK, LedgerInv, EvaluationInv, Pending
               PROVE  Taken(Input) /\ \A k \in DOMAIN frames : frames[k].node # Input
    BY DEF EvaluationProceeds
  <2>1. \A k \in DOMAIN frames : NodeAt(Input) < NodeAt(frames[k].node)
    BY InputEarliest
  <2>2. \A k \in DOMAIN frames : NodeAt(frames[k].node) \in Nat
    BY NodeAtType, NodesType DEF EvaluationInv
  <2>3. QED
    BY <2>1, <2>2, InputEarlier
<1>2. QED
  BY <1>1, EvaluationInvariant, PTL

-----------------------------------------------------------------------------
(* The meaning of the source *)

\* The meaning of an expression, of its children's.
Combined(inputs, env, e) ==
    LET bad == {k \in DOMAIN inputs : inputs[k].kind = "failed"}
    IN  IF bad # {} THEN inputs[CHOOSE k \in bad : \A j \in bad : k <= j]
        ELSE EvaluateNode(Arena[e].op, Arena[e].params, inputs, env)

Meanings(den, e) == [k \in DOMAIN Arena[e].kids |-> den[Arena[e].kids[k]]]

TreeBody(den, env, e) == Combined(Meanings(den, e), env, e)

\* Tree is what its defining equation says, if anything is.
LEMMA TreeUnfolds ==
    ASSUME NEW env
    PROVE  Tree(env) = CHOOSE den : den = [e \in Exprs |-> TreeBody(den, env, e)]
BY Zenon DEF Tree, TreeBody, Combined, Meanings

Denotes(den, env) == den = [e \in Exprs |-> TreeBody(den, env, e)]

\* A meaning reads the children's only.
LEMMA TreeReads ==
    ASSUME NEW d, NEW h, NEW env, NEW e,
           \A k \in DOMAIN Arena[e].kids : d[Arena[e].kids[k]] = h[Arena[e].kids[k]]
    PROVE  TreeBody(d, env, e) = TreeBody(h, env, e)
<1>1. Meanings(d, e) = Meanings(h, e)
  BY DEF Meanings
<1>2. QED
  BY <1>1, Zenon DEF TreeBody

\* The place of an expression in the order of the nodes.
Rank(e) == NodeAt(exprIds[e])

\* A builder that is done.
Built == TypeOK /\ LedgerInv /\ DOMAIN exprIds = Exprs

\* Children come before their parents.
LEMMA RankType ==
    ASSUME Built, NEW e \in Exprs
    PROVE  /\ Rank(e) \in Nat /\ Rank(e) < Len(nodes) + 1 /\ 0 < Rank(e)
           /\ \A k \in DOMAIN Arena[e].kids :
                 /\ Arena[e].kids[k] \in Exprs
                 /\ Rank(Arena[e].kids[k]) \in Nat
                 /\ Rank(Arena[e].kids[k]) < Rank(e)
<1>1. e \in DOMAIN exprIds
  BY DEF Built
<1>2. Rank(e) \in DOMAIN nodes /\ Rank(e) \in Nat
  BY <1>1, NodeOfExpr DEF Built, Rank
<1>3. DOMAIN nodes = 1 .. Len(nodes) /\ Len(nodes) \in Nat
  BY NodesType DEF Built
<1>4. Rank(e) < Len(nodes) + 1 /\ 0 < Rank(e)
  BY <1>2, <1>3
<1>5. ASSUME NEW k \in DOMAIN Arena[e].kids
      PROVE  /\ Arena[e].kids[k] \in Exprs
             /\ Rank(Arena[e].kids[k]) \in Nat
             /\ Rank(Arena[e].kids[k]) < Rank(e)
  <2>1. Arena[e].kids[k] \in DOMAIN exprIds /\ Rank(Arena[e].kids[k]) < Rank(e)
    BY <1>1, ChildEarlier DEF Built, Rank
  <2>2. PICK kid \in DOMAIN exprIds : kid = Arena[e].kids[k]
    BY <2>1
  <2>3. Rank(kid) \in Nat
    BY NodeOfExpr DEF Built, Rank
  <2>4. QED
    BY <2>1, <2>2, <2>3 DEF Built
<1>6. QED
  BY <1>2, <1>4, <1>5

\* The meanings of the expressions of a rank below n.
DenotesBelow(den, env, n) ==
    den = [e \in Exprs |-> IF Rank(e) < n THEN TreeBody(den, env, e) ELSE NoValue]

\* Meanings up to a rank are extended by one rank.
LEMMA BelowStep ==
    ASSUME Built, NEW env, NEW n \in Nat, \E d : DenotesBelow(d, env, n)
    PROVE  \E d : DenotesBelow(d, env, n + 1)
<1>1. PICK d : DenotesBelow(d, env, n)
  OBVIOUS
<1> DEFINE h == [e \in Exprs |-> IF Rank(e) < n + 1 THEN TreeBody(d, env, e) ELSE NoValue]
<1>2. ASSUME NEW e \in Exprs, Rank(e) < n + 1
      PROVE  TreeBody(h, env, e) = TreeBody(d, env, e)
  <2>1. ASSUME NEW k \in DOMAIN Arena[e].kids
        PROVE  h[Arena[e].kids[k]] = d[Arena[e].kids[k]]
    <3>1. PICK kid \in Exprs : kid = Arena[e].kids[k]
      BY RankType
    <3>2. PICK r \in Nat, q \in Nat : r = Rank(kid) /\ q = Rank(e) /\ r < q
      BY <3>1, RankType
    <3>3. r < n /\ r < n + 1
      BY <1>2, <3>2
    <3>4. h[kid] = TreeBody(d, env, kid)
      BY <3>2, <3>3
    <3>5. d[kid] = TreeBody(d, env, kid)
      BY <1>1, <3>2, <3>3 DEF DenotesBelow
    <3>6. QED
      BY <3>1, <3>4, <3>5
  <2> HIDE DEF h
  <2>2. QED
    BY <2>1, TreeReads
<1>3. \A e \in Exprs :
          (IF Rank(e) < n + 1 THEN TreeBody(d, env, e) ELSE NoValue)
          = (IF Rank(e) < n + 1 THEN TreeBody(h, env, e) ELSE NoValue)
  <2> HIDE DEF h
  <2>1. QED
    BY <1>2
<1>4. DenotesBelow(h, env, n + 1)
  BY <1>3 DEF DenotesBelow
<1>5. QED
  BY <1>4

\* So there are meanings for every expression.
LEMMA TreeExists ==
    ASSUME Built, NEW env
    PROVE  \E den : Denotes(den, env)
<1> DEFINE Bad == {n \in Nat : ~ \E d : DenotesBelow(d, env, n)}
<1>1. ASSUME Bad # {} PROVE FALSE
  <2>1. PICK n \in Bad : \A m \in Bad : n <= m
    <3>1. Bad \subseteq Nat
      OBVIOUS
    <3> HIDE DEF Bad
    <3>2. QED
      BY <1>1, <3>1, LeastNatural
  <2>2. \E d : DenotesBelow(d, env, 0)
    <3>1. \A e \in Exprs : ~ (Rank(e) < 0)
      BY RankType
    <3>2. DenotesBelow([e \in Exprs |-> NoValue], env, 0)
      BY <3>1 DEF DenotesBelow
    <3>3. QED
      BY <3>2
  <2>3. n \in Nat /\ n # 0 /\ ~ \E d : DenotesBelow(d, env, n)
    BY <2>1, <2>2
  <2>4. PICK m \in Nat : n = m + 1
    BY <2>3
  <2>5. \E d : DenotesBelow(d, env, m)
    BY <2>1, <2>4
  <2>6. QED
    BY <2>3, <2>4, <2>5, BelowStep
<1>2. Len(nodes) + 1 \in Nat
  BY NodesType DEF Built
<1>3. PICK d : DenotesBelow(d, env, Len(nodes) + 1)
  BY <1>1, <1>2
<1>4. Denotes(d, env)
  <2>1. \A e \in Exprs : Rank(e) < Len(nodes) + 1
    BY RankType
  <2>2. QED
    BY <1>3, <2>1 DEF Denotes, DenotesBelow
<1>5. QED
  BY <1>4

\* On a built ledger the meaning of an expression is what Tree says of its
\* children's.
LEMMA TreeIs ==
    ASSUME Built, NEW env
    PROVE  \A e \in Exprs : Tree(env)[e] = TreeBody(Tree(env), env, e)
<1>1. Denotes(Tree(env), env)
  BY TreeExists, TreeUnfolds, Zenon DEF Denotes
<1>2. QED
  BY <1>1 DEF Denotes

-----------------------------------------------------------------------------
(* What a meaning depends on *)

\* A failure is told by its kind.
LEMMA FailedIs == \A why : Failed(why).kind = "failed"
BY DEF Failed

\* Only a path reads the bindings, and nothing evaluates what commutes.
LEMMA EvaluateReads ==
    ASSUME NEW op, NEW params, NEW inputs, NEW b, NEW c, op # "path"
    PROVE  EvaluateNode(op, params, inputs, b) = EvaluateNode(op, params, inputs, c)
BY Zenon DEF EvaluateNode

\* A path is the value its name is bound to.
LEMMA EvaluatePath ==
    ASSUME NEW params, NEW inputs, NEW b
    PROVE  EvaluateNode("path", params, inputs, b)
           = IF params \in DOMAIN b THEN b[params] ELSE Failed("unbound")
BY DEF EvaluateNode

\* raly run does not evaluate vsa.bind and vsa.bundle.
LEMMA EvaluateCommutative ==
    ASSUME NEW op \in Commutative, NEW params, NEW inputs, NEW b
    PROVE  EvaluateNode(op, params, inputs, b) = Failed("unsupported")
BY DEF EvaluateNode, Commutative

\* An expression has no meaning if one of its children has none.
LEMMA CombinedFails ==
    ASSUME NEW n \in Nat, NEW inputs, DOMAIN inputs = 1 .. n, NEW env, NEW e,
           NEW i \in 1 .. n, inputs[i].kind = "failed"
    PROVE  Combined(inputs, env, e).kind = "failed"
<1> DEFINE bad == {k \in DOMAIN inputs : inputs[k].kind = "failed"}
<1>1. bad \subseteq Nat /\ bad # {}
  OBVIOUS
<1>2. \E k \in bad : \A j \in bad : k <= j
  <2> HIDE DEF bad
  <2>1. QED
    BY <1>1, LeastNatural
<1>3. (CHOOSE k \in bad : \A j \in bad : k <= j) \in bad
  BY <1>2
<1>4. Combined(inputs, env, e) = inputs[CHOOSE k \in bad : \A j \in bad : k <= j]
  BY <1>1 DEF Combined
<1> HIDE DEF bad
<1>5. PICK k \in bad : Combined(inputs, env, e) = inputs[k]
  BY <1>3, <1>4
<1>6. QED
  BY <1>5 DEF bad

\* With meaningful children the operation decides.
LEMMA CombinedIs ==
    ASSUME NEW inputs, NEW env, NEW e, \A k \in DOMAIN inputs : inputs[k].kind # "failed"
    PROVE  Combined(inputs, env, e) = EvaluateNode(Arena[e].op, Arena[e].params, inputs, env)
<1>1. {k \in DOMAIN inputs : inputs[k].kind = "failed"} = {}
  OBVIOUS
<1>2. QED
  BY <1>1, Zenon DEF Combined

\* c binds what b does, to the same.
Extends(c, b) == \A x \in DOMAIN b : x \in DOMAIN c /\ c[x] = b[x]

\* More bindings keep a meaning there was.
LEMMA CombinedExtends ==
    ASSUME NEW inputs, NEW b, NEW c, Extends(c, b), NEW e,
           \A k \in DOMAIN inputs : inputs[k].kind # "failed",
           Combined(inputs, b, e).kind # "failed"
    PROVE  Combined(inputs, c, e) = Combined(inputs, b, e)
<1>1. /\ Combined(inputs, b, e) = EvaluateNode(Arena[e].op, Arena[e].params, inputs, b)
      /\ Combined(inputs, c, e) = EvaluateNode(Arena[e].op, Arena[e].params, inputs, c)
  BY CombinedIs
<1>2. CASE Arena[e].op # "path"
  BY <1>1, <1>2, EvaluateReads
<1>3. CASE Arena[e].op = "path"
  <2>1. PICK params : params = Arena[e].params
    OBVIOUS
  <2>2. /\ Combined(inputs, b, e) = IF params \in DOMAIN b THEN b[params] ELSE Failed("unbound")
        /\ Combined(inputs, c, e) = IF params \in DOMAIN c THEN c[params] ELSE Failed("unbound")
    BY <1>1, <1>3, <2>1, EvaluatePath
  <2>3. params \in DOMAIN b
    BY <2>2, FailedIs
  <2>4. QED
    BY <2>2, <2>3 DEF Extends
<1>4. QED
  BY <1>2, <1>3

\* Binding more names changes no meaning there was.
LEMMA TreeExtends ==
    ASSUME Built, NEW b, NEW c, Extends(c, b),
           NEW x \in Exprs, Tree(b)[x].kind # "failed"
    PROVE  Tree(c)[x] = Tree(b)[x]
<1> DEFINE Bad == {e \in Exprs : Tree(b)[e].kind # "failed" /\ Tree(c)[e] # Tree(b)[e]}
           T == {Rank(e) : e \in Bad}
<1>1. ASSUME Bad # {} PROVE FALSE
  <2>1. T \subseteq Nat /\ T # {}
    BY <1>1, RankType
  <2>2. \E n \in T : \A m \in T : n <= m
    <3> HIDE DEF T
    <3>1. QED
      BY <2>1, LeastNatural
  <2>3. PICK e \in Bad : \A f \in Bad : Rank(e) <= Rank(f)
    BY <2>2
  <2> DEFINE inputs == Meanings(Tree(b), e)
  <2>4. PICK n \in Nat : DOMAIN Arena[e].kids = 1 .. n
    BY ArenaType, LenProperties DEF Built, TypeOK
  <2>5. DOMAIN inputs = 1 .. n /\ \A k \in 1 .. n : inputs[k] = Tree(b)[Arena[e].kids[k]]
    BY <2>4 DEF Meanings
  <2>6. Tree(b)[e] = Combined(inputs, b, e)
    BY TreeIs DEF TreeBody
  <2>7. Tree(c)[e] = Combined(Meanings(Tree(c), e), c, e)
    BY TreeIs DEF TreeBody
  <2>8. \A k \in DOMAIN inputs : inputs[k].kind # "failed"
    <3> HIDE DEF inputs
    <3>1. Combined(inputs, b, e).kind # "failed"
      BY <2>6
    <3>2. QED
      BY <2>5, <3>1, CombinedFails
  <2>9. Meanings(Tree(c), e) = inputs
    <3>1. ASSUME NEW k \in DOMAIN Arena[e].kids
          PROVE  Tree(c)[Arena[e].kids[k]] = Tree(b)[Arena[e].kids[k]]
      <4>1. PICK kid \in Exprs : kid = Arena[e].kids[k]
        BY RankType
      <4>2. Rank(kid) \in Nat /\ Rank(e) \in Nat /\ Rank(kid) < Rank(e)
        BY <4>1, RankType
      <4>3. Tree(b)[kid].kind # "failed"
        BY <2>4, <2>5, <2>8, <4>1
      <4>4. kid \notin Bad
        BY <2>3, <4>2
      <4>5. QED
        BY <4>1, <4>3, <4>4
    <3>2. QED
      BY <3>1 DEF Meanings
  <2>10. Combined(inputs, b, e).kind # "failed"
    BY <2>6
  <2> HIDE DEF inputs
  <2>11. Combined(inputs, c, e) = Combined(inputs, b, e)
    BY <2>8, <2>10, CombinedExtends
  <2>12. QED
    BY <2>6, <2>7, <2>9, <2>11
<1>2. QED
  BY <1>1

-----------------------------------------------------------------------------
(* The environment of the first items *)

\* The environment after k items, of the one before the last.
EnvBody(env, k) ==
    IF k = 0 THEN <<>>
    ELSE IF Root[k].init = 0 THEN env[k - 1]
    ELSE Bind(env[k - 1], Root[k].def, Tree(env[k - 1])[Root[k].init])

\* Environment is what its defining equation says, if anything is.
LEMMA EnvironmentUnfolds ==
    Environment = CHOOSE env : env = [k \in Nat |-> EnvBody(env, k)]
BY Zenon DEF Environment, EnvBody

EnvBelow(env, n) == env = [k \in Nat |-> IF k < n THEN EnvBody(env, k) ELSE NoValue]

\* An environment reads the one before it only.
LEMMA EnvReads ==
    ASSUME NEW d, NEW h, NEW k \in Nat, k # 0 => d[k - 1] = h[k - 1]
    PROVE  EnvBody(d, k) = EnvBody(h, k)
BY Zenon DEF EnvBody

\* Environments up to an item are extended by one item.
LEMMA EnvStep ==
    ASSUME NEW n \in Nat, \E d : EnvBelow(d, n)
    PROVE  \E d : EnvBelow(d, n + 1)
<1>1. PICK d : EnvBelow(d, n)
  OBVIOUS
<1> DEFINE h == [k \in Nat |-> IF k < n + 1 THEN EnvBody(d, k) ELSE NoValue]
<1>2. ASSUME NEW k \in Nat, k < n + 1
      PROVE  EnvBody(h, k) = EnvBody(d, k)
  <2>1. k # 0 => h[k - 1] = d[k - 1]
    <3> SUFFICES ASSUME k # 0 PROVE h[k - 1] = d[k - 1]
      OBVIOUS
    <3>1. PICK j \in Nat : j = k - 1
      OBVIOUS
    <3>2. j < n /\ j < n + 1
      BY <1>2, <3>1
    <3>3. h[j] = EnvBody(d, j) /\ d[j] = EnvBody(d, j)
      BY <1>1, <3>2 DEF EnvBelow
    <3>4. QED
      BY <3>1, <3>3
  <2> HIDE DEF h
  <2>2. QED
    BY <2>1, EnvReads
<1>3. \A k \in Nat :
          (IF k < n + 1 THEN EnvBody(d, k) ELSE NoValue)
          = (IF k < n + 1 THEN EnvBody(h, k) ELSE NoValue)
  <2> HIDE DEF h
  <2>1. QED
    BY <1>2
<1>4. EnvBelow(h, n + 1)
  BY <1>3 DEF EnvBelow
<1>5. QED
  BY <1>4

\* So there are environments up to every item.
LEMMA EnvExistsBelow ==
    ASSUME NEW n \in Nat
    PROVE  \E d : EnvBelow(d, n)
<1> DEFINE Bad == {m \in Nat : ~ \E d : EnvBelow(d, m)}
<1>1. ASSUME Bad # {} PROVE FALSE
  <2>1. PICK m \in Bad : \A j \in Bad : m <= j
    <3>1. Bad \subseteq Nat
      OBVIOUS
    <3> HIDE DEF Bad
    <3>2. QED
      BY <1>1, <3>1, LeastNatural
  <2>2. \E d : EnvBelow(d, 0)
    <3>1. \A k \in Nat : ~ (k < 0)
      OBVIOUS
    <3>2. EnvBelow([k \in Nat |-> NoValue], 0)
      BY <3>1 DEF EnvBelow
    <3>3. QED
      BY <3>2
  <2>3. m \in Nat /\ m # 0 /\ ~ \E d : EnvBelow(d, m)
    BY <2>1, <2>2
  <2>4. PICK j \in Nat : m = j + 1
    BY <2>3
  <2>5. \E d : EnvBelow(d, j)
    BY <2>1, <2>4
  <2>6. QED
    BY <2>3, <2>4, <2>5, EnvStep
<1>2. QED
  BY <1>1

\* Environments up to different items agree where both are.
LEMMA EnvAgree ==
    ASSUME NEW n \in Nat, NEW m \in Nat, NEW d, NEW h, EnvBelow(d, n), EnvBelow(h, m),
           NEW k \in Nat, k < n, k < m
    PROVE  d[k] = h[k]
<1> DEFINE Bad == {j \in Nat : j < n /\ j < m /\ d[j] # h[j]}
<1>1. ASSUME Bad # {} PROVE FALSE
  <2>1. PICK j \in Bad : \A i \in Bad : j <= i
    <3>1. Bad \subseteq Nat
      OBVIOUS
    <3> HIDE DEF Bad
    <3>2. QED
      BY <1>1, <3>1, LeastNatural
  <2>2. d[j] = EnvBody(d, j) /\ h[j] = EnvBody(h, j)
    BY <2>1 DEF EnvBelow
  <2>3. j # 0 => d[j - 1] = h[j - 1]
    <3> SUFFICES ASSUME j # 0 PROVE d[j - 1] = h[j - 1]
      OBVIOUS
    <3>1. PICK i \in Nat : i = j - 1
      BY <2>1
    <3>2. i < n /\ i < m /\ ~ (j <= i)
      BY <2>1, <3>1
    <3>3. QED
      BY <2>1, <3>1, <3>2
  <2>4. EnvBody(d, j) = EnvBody(h, j)
    BY <2>1, <2>3, EnvReads
  <2>5. QED
    BY <2>1, <2>2, <2>4
<1>2. QED
  BY <1>1

\* Put together they are one for all items.
LEMMA EnvironmentExists ==
    \E env : env = [k \in Nat |-> EnvBody(env, k)]
<1> DEFINE Below(n) == CHOOSE d : EnvBelow(d, n)
           env == [k \in Nat |-> Below(k + 1)[k]]
<1>1. ASSUME NEW n \in Nat PROVE EnvBelow(Below(n), n)
  BY EnvExistsBelow
<1> HIDE DEF Below
<1>2. ASSUME NEW k \in Nat PROVE Below(k + 1)[k] = EnvBody(env, k)
  <2>1. PICK d : d = Below(k + 1) /\ EnvBelow(d, k + 1)
    BY <1>1
  <2>2. d[k] = EnvBody(d, k)
    BY <2>1 DEF EnvBelow
  <2>3. k # 0 => d[k - 1] = env[k - 1]
    <3> SUFFICES ASSUME k # 0 PROVE d[k - 1] = env[k - 1]
      OBVIOUS
    <3>1. PICK j \in Nat : j = k - 1 /\ k = j + 1 /\ j < k + 1 /\ j < k
      OBVIOUS
    <3>2. PICK h : h = Below(k) /\ EnvBelow(h, k)
      BY <1>1
    <3>3. d[j] = h[j]
      BY <2>1, <3>1, <3>2, EnvAgree
    <3>4. env[j] = h[j]
      BY <3>1, <3>2
    <3>5. QED
      BY <3>1, <3>3, <3>4
  <2> HIDE DEF env
  <2>4. QED
    BY <2>1, <2>2, <2>3, EnvReads
<1>3. env = [k \in Nat |-> EnvBody(env, k)]
  BY <1>2
<1>4. QED
  BY <1>3

\* The environment grows item by item.
LEMMA EnvironmentIs == \A k \in Nat : Environment[k] = EnvBody(Environment, k)
<1>1. Environment = [k \in Nat |-> EnvBody(Environment, k)]
  BY EnvironmentExists, EnvironmentUnfolds, Zenon
<1>2. QED
  BY <1>1

-----------------------------------------------------------------------------
(* What the run has found so far is what the source means *)

\* Before the run nothing is bound, remembered or under way.
WaitingInv ==
    outcome = "waiting" =>
        /\ item = 1 /\ frames = <<>> /\ bindings = <<>> /\ values = <<>> /\ receipts = <<>>
        /\ verdict = [kind |-> "none"]

\* The bindings are those of the items passed, and no later item has the name
\* of one.
BindingsInv ==
    /\ item \in Nat \ {0}
    /\ bindings = Environment[item - 1]
    /\ \A j \in DOMAIN Root : j \notin 1 .. item - 1 /\ Root[j].init # 0 => Root[j].def \notin DOMAIN bindings

\* A remembered value is the meaning of every expression of its address.
ValuesInv ==
    \A e \in DOMAIN exprIds : exprIds[e] \in DOMAIN values =>
        /\ values[exprIds[e]].kind # "failed"
        /\ Tree(bindings)[e] = values[exprIds[e]]

\* A node under evaluation is some expression's, and has the values of its
\* first inputs.
FrameMeans(frame, remembered) ==
    /\ \E e \in DOMAIN exprIds : exprIds[e] = frame.node
    /\ \A i \in DOMAIN frame.inputs :
          /\ i \in DOMAIN NodeOf(frame.node).inputs
          /\ NodeOf(frame.node).inputs[i] \in DOMAIN remembered
          /\ frame.inputs[i] = remembered[NodeOf(frame.node).inputs[i]]

InputsInv == \A k \in DOMAIN frames : FrameMeans(frames[k], values)

\* b is an input of the node a.
InputOf(a, b) == \E i \in DOMAIN NodeOf(a).inputs : NodeOf(a).inputs[i] = b

\* The nodes under evaluation lead from the item's root to the innermost.
DescentInv ==
    /\ frames # <<>> =>
          /\ item \in DOMAIN Root /\ Root[item].init # 0
          /\ frames[1].node = exprIds[Root[item].init]
    /\ \A k \in DOMAIN frames : k + 1 \in DOMAIN frames => InputOf(frames[k].node, frames[k + 1].node)

\* A run that failed did so on an item that has no meaning.
FailedInv == outcome = "failed" => Tree(bindings)[Root[item].init].kind = "failed"

MeaningInv == WaitingInv /\ BindingsInv /\ ValuesInv /\ InputsInv /\ DescentInv /\ FailedInv

-----------------------------------------------------------------------------
(* Nodes and meanings *)

\* Nothing is executed before the ledger is built.
LEMMA RunBuilt ==
    ASSUME TypeOK, LedgerInv, EvaluationInv, outcome # "waiting"
    PROVE  Built
BY BuiltCovers DEF EvaluationInv, Built, BuiltCoversArena

\* The node of an expression's address has its operation, its parameters and
\* the addresses of its children, in their order unless it commutes.
LEMMA NodeOfIs ==
    ASSUME Built, NEW e \in Exprs
    PROVE  /\ NodeOf(exprIds[e]).op = Arena[e].op
           /\ NodeOf(exprIds[e]).params = Arena[e].params
           /\ NodeOf(exprIds[e]).inputs \in Seq(Addresses)
           /\ \A i \in DOMAIN NodeOf(exprIds[e]).inputs :
                 \E k \in DOMAIN Arena[e].kids : NodeOf(exprIds[e]).inputs[i] = exprIds[Arena[e].kids[k]]
           /\ \A k \in DOMAIN Arena[e].kids :
                 \E i \in DOMAIN NodeOf(exprIds[e]).inputs : NodeOf(exprIds[e]).inputs[i] = exprIds[Arena[e].kids[k]]
           /\ Arena[e].op \notin Commutative => NodeOf(exprIds[e]).inputs = InputsOf(e)
<1>1. e \in DOMAIN exprIds
  BY DEF Built
<1>2. PICK n \in DOMAIN nodes : nodes[n].id = exprIds[e] /\ nodes[n].content = Content(e, InputsOf(e))
  BY <1>1 DEF Built, LedgerInv, Addressed
<1>3. NodeAt(exprIds[e]) = n
  BY <1>2 DEF Built, LedgerInv, UniqueIds, NodeAt
<1>4. NodeOf(exprIds[e]) = Content(e, InputsOf(e))
  BY <1>2, <1>3 DEF NodeOf
<1>5. InputsOf(e) \in Seq(Addresses) /\ DOMAIN InputsOf(e) = DOMAIN Arena[e].kids
  <2>1. Arena[e].kids \in Seq(Nat)
    BY ArenaType DEF Built, TypeOK
  <2>2. DOMAIN Arena[e].kids = 1 .. Len(Arena[e].kids) /\ Len(Arena[e].kids) \in Nat
    BY <2>1, LenProperties
  <2>3. \A k \in DOMAIN Arena[e].kids : Arena[e].kids[k] \in Exprs
    BY ArenaType DEF Built, TypeOK
  <2>4. InputsOf(e) \in [1 .. Len(Arena[e].kids) -> Addresses]
    BY <2>2, <2>3 DEF InputsOf, Built, TypeOK
  <2>5. QED
    BY <2>2, <2>4, SeqDef
<1>6. /\ Content(e, InputsOf(e)) \in Contents
      /\ \A k \in DOMAIN Content(e, InputsOf(e)).inputs :
            \E j \in DOMAIN InputsOf(e) : Content(e, InputsOf(e)).inputs[k] = InputsOf(e)[j]
      /\ \A j \in DOMAIN InputsOf(e) :
            \E k \in DOMAIN Content(e, InputsOf(e)).inputs : Content(e, InputsOf(e)).inputs[k] = InputsOf(e)[j]
  BY <1>5, ContentType DEF Built, TypeOK
<1>7. \A k \in DOMAIN Arena[e].kids : InputsOf(e)[k] = exprIds[Arena[e].kids[k]]
  BY DEF InputsOf
<1>8. /\ Content(e, InputsOf(e)).op = Arena[e].op
      /\ Content(e, InputsOf(e)).params = Arena[e].params
      /\ Arena[e].op \notin Commutative => Content(e, InputsOf(e)).inputs = InputsOf(e)
  BY DEF Content
<1>9. Content(e, InputsOf(e)).inputs \in Seq(Addresses)
  BY <1>6 DEF Contents
<1>10. QED
  BY <1>4, <1>5, <1>6, <1>7, <1>8, <1>9

\* A child's remembered value is its meaning.
LEMMA KidMeans ==
    ASSUME Built, ValuesInv, NEW e \in Exprs, NEW k \in DOMAIN Arena[e].kids,
           exprIds[Arena[e].kids[k]] \in DOMAIN values
    PROVE  /\ Meanings(Tree(bindings), e)[k] = values[exprIds[Arena[e].kids[k]]]
           /\ Meanings(Tree(bindings), e)[k].kind # "failed"
<1>1. PICK kid \in Exprs : kid = Arena[e].kids[k]
  BY RankType
<1>2. Meanings(Tree(bindings), e)[k] = Tree(bindings)[kid]
  BY <1>1 DEF Meanings
<1>3. kid \in DOMAIN exprIds
  BY DEF Built
<1>4. Tree(bindings)[kid] = values[exprIds[kid]] /\ values[exprIds[kid]].kind # "failed"
  BY <1>1, <1>3 DEF ValuesInv
<1>5. QED
  BY <1>1, <1>2, <1>4

\* With all its inputs a node evaluates to the meaning of each of its
\* expressions.
LEMMA StepMeans ==
    ASSUME Built, ValuesInv, NEW S, NEW frame \in [node : Addresses, inputs : Seq(S)],
           FrameMeans(frame, values), Len(frame.inputs) = Len(NodeOf(frame.node).inputs),
           NEW e \in Exprs, exprIds[e] = frame.node
    PROVE  Tree(bindings)[e]
           = EvaluateNode(NodeOf(frame.node).op, NodeOf(frame.node).params, frame.inputs, bindings)
<1> DEFINE node == NodeOf(frame.node)
           kids == Arena[e].kids
           meant == Meanings(Tree(bindings), e)
<1>1. /\ node.op = Arena[e].op /\ node.params = Arena[e].params
      /\ node.inputs \in Seq(Addresses)
      /\ \A k \in DOMAIN kids : \E i \in DOMAIN node.inputs : node.inputs[i] = exprIds[kids[k]]
      /\ Arena[e].op \notin Commutative => node.inputs = InputsOf(e)
  BY NodeOfIs
<1>2. PICK n \in Nat : /\ n = Len(frame.inputs) /\ DOMAIN frame.inputs = 1 .. n
                       /\ DOMAIN node.inputs = 1 .. n
  BY <1>1, LenProperties
<1>3. \A i \in 1 .. n : node.inputs[i] \in DOMAIN values /\ frame.inputs[i] = values[node.inputs[i]]
  BY <1>2 DEF FrameMeans
<1>4. \A k \in DOMAIN kids : exprIds[kids[k]] \in DOMAIN values
  BY <1>1, <1>2, <1>3
<1>5. DOMAIN meant = DOMAIN kids
  BY DEF Meanings
<1>6. \A k \in DOMAIN kids : meant[k] = values[exprIds[kids[k]]] /\ meant[k].kind # "failed"
  BY <1>4, KidMeans
<1>7. Tree(bindings)[e] = Combined(meant, bindings, e)
  BY TreeIs DEF TreeBody
<1> HIDE DEF meant
<1>8. Tree(bindings)[e] = EvaluateNode(Arena[e].op, Arena[e].params, meant, bindings)
  BY <1>5, <1>6, <1>7, CombinedIs
<1>9. CASE Arena[e].op \in Commutative
  <2>1. /\ EvaluateNode(Arena[e].op, Arena[e].params, meant, bindings) = Failed("unsupported")
        /\ EvaluateNode(Arena[e].op, Arena[e].params, frame.inputs, bindings) = Failed("unsupported")
    BY <1>9, EvaluateCommutative
  <2>2. QED
    BY <1>1, <1>8, <2>1
<1>10. CASE Arena[e].op \notin Commutative
  <2>1. node.inputs = InputsOf(e)
    BY <1>1, <1>10
  <2>2. DOMAIN kids = 1 .. n /\ \A k \in 1 .. n : node.inputs[k] = exprIds[kids[k]]
    <3>1. DOMAIN InputsOf(e) = DOMAIN kids
      BY DEF InputsOf
    <3>2. QED
      BY <1>2, <2>1, <3>1 DEF InputsOf
  <2>3. \A k \in 1 .. n : frame.inputs[k] = meant[k]
    BY <1>3, <1>6, <2>2
  <2>4. frame.inputs = [k \in 1 .. n |-> frame.inputs[k]]
    BY <1>2, LenProperties
  <2>5. meant = [k \in 1 .. n |-> meant[k]]
    BY <2>2 DEF meant, Meanings
  <2>6. frame.inputs = meant
    BY <2>3, <2>4, <2>5
  <2>7. QED
    BY <1>1, <1>8, <2>6
<1>11. QED
  BY <1>9, <1>10

\* An expression with a meaningless node among its inputs has no meaning.
LEMMA InputFails ==
    ASSUME Built, NEW e \in Exprs, NEW b, InputOf(exprIds[e], b),
           \A f \in Exprs : exprIds[f] = b => Tree(bindings)[f].kind = "failed"
    PROVE  Tree(bindings)[e].kind = "failed"
<1>0. PICK i \in DOMAIN NodeOf(exprIds[e]).inputs : NodeOf(exprIds[e]).inputs[i] = b
  BY Zenon DEF InputOf
<1>1. PICK k \in DOMAIN Arena[e].kids : exprIds[Arena[e].kids[k]] = b
  <2>1. \E k \in DOMAIN Arena[e].kids : NodeOf(exprIds[e]).inputs[i] = exprIds[Arena[e].kids[k]]
    BY NodeOfIs
  <2>2. QED
    BY <1>0, <2>1
<1>2. PICK kid \in Exprs : kid = Arena[e].kids[k]
  BY RankType
<1>3. Tree(bindings)[kid].kind = "failed"
  BY <1>1, <1>2
<1> DEFINE meant == Meanings(Tree(bindings), e)
<1>4. PICK n \in Nat : DOMAIN Arena[e].kids = 1 .. n
  BY ArenaType, LenProperties DEF Built, TypeOK
<1>5. DOMAIN meant = 1 .. n /\ meant[k].kind = "failed"
  BY <1>2, <1>3, <1>4 DEF Meanings
<1>6. Tree(bindings)[e] = Combined(meant, bindings, e)
  BY TreeIs DEF TreeBody
<1> HIDE DEF meant
<1>7. Combined(meant, bindings, e).kind = "failed"
  BY <1>4, <1>5, CombinedFails
<1>8. QED
  BY <1>6, <1>7

-----------------------------------------------------------------------------
(* Every step keeps it *)

\* What the file means stays as it is.
LEMMA MeaningPrimed ==
    ASSUME UNCHANGED program
    PROVE  /\ Environment' = Environment
           /\ Tree(bindings)' = Tree(bindings')
<1>1. Environment' = Environment
  BY DEF Environment, Tree, Root, Arena, Exprs
<1>2. Tree(bindings)' = Tree(bindings')
  BY DEF Tree, Arena, Exprs
<1>3. QED
  BY <1>1, <1>2

\* The ledger stays as it is.
LEMMA NodesPrimed ==
    ASSUME UNCHANGED vars
    PROVE  /\ UNCHANGED <<program, exprIds, nodes, result>>
           /\ \A a : NodeOf(a)' = NodeOf(a)
           /\ \A a, b : InputOf(a, b)' <=> InputOf(a, b)
           /\ Root' = Root
BY DEF vars, NodeOf, NodeAt, InputOf, Root

\* What is remembered stays as it is while the bindings stay.
LEMMA ValuesKept ==
    ASSUME ValuesInv, UNCHANGED vars, UNCHANGED <<bindings, values>>
    PROVE  ValuesInv'
<1>1. Tree(bindings)' = Tree(bindings) /\ UNCHANGED exprIds
  BY MeaningPrimed, NodesPrimed
<1>2. QED
  BY <1>1 DEF ValuesInv

\* So do the bindings, where no item is passed.
LEMMA BindingsKept ==
    ASSUME BindingsInv, UNCHANGED vars, UNCHANGED <<item, bindings>>
    PROVE  BindingsInv'
<1>1. Environment' = Environment /\ Root' = Root
  BY MeaningPrimed, NodesPrimed
<1>2. QED
  BY <1>1 DEF BindingsInv

\* More values change nothing for a node under evaluation.
LEMMA FrameKept ==
    ASSUME NEW v, NEW w, Extends(w, v), NEW frame, FrameMeans(frame, v)
    PROVE  FrameMeans(frame, w)
BY DEF FrameMeans, Extends

\* Frames that mean something are what InputsInv asks for.
LEMMA InputsPrimed ==
    ASSUME UNCHANGED vars, \A k \in DOMAIN frames' : FrameMeans(frames'[k], values')
    PROVE  InputsInv'
<1>1. UNCHANGED exprIds /\ \A a : NodeOf(a)' = NodeOf(a)
  BY NodesPrimed
<1>2. UNCHANGED <<exprIds, nodes>>
  BY NodesPrimed
<1>3. QED
  BY <1>2 DEF InputsInv, FrameMeans, NodeOf, NodeAt

\* An item with nothing to bind.
LEMMA SkipMeans ==
    ASSUME TypeOK, LedgerInv, EvaluationInv, MeaningInv, SkipItem, UNCHANGED <<vars, replay>>
    PROVE  MeaningInv'
<1>1. /\ outcome = "executing" /\ frames = <<>> /\ item \in DOMAIN Root /\ Root[item].init = 0
      /\ item' = item + 1 /\ UNCHANGED <<frames, bindings, values, receipts, outcome>>
  BY DEF SkipItem, AtItem
<1>2. Environment' = Environment /\ Root' = Root
  BY MeaningPrimed, NodesPrimed
<1>3. item \in Nat \ {0} /\ item - 1 \in Nat /\ (item + 1) - 1 = item
  BY DEF MeaningInv, BindingsInv
<1>4. Environment[item] = Environment[item - 1]
  BY <1>1, <1>3, EnvironmentIs DEF EnvBody
<1>5. BindingsInv'
  <2>1. bindings' = Environment'[item' - 1]
    BY <1>1, <1>2, <1>3, <1>4 DEF MeaningInv, BindingsInv
  <2>2. \A j : j \notin 1 .. item' - 1 => j \notin 1 .. item - 1
    BY <1>1, <1>3
  <2>3. QED
    BY <1>1, <1>2, <1>3, <2>1, <2>2 DEF MeaningInv, BindingsInv
<1>6. ValuesInv'
  BY <1>1, ValuesKept DEF MeaningInv
<1>7. InputsInv' /\ DescentInv'
  BY <1>1 DEF InputsInv, DescentInv
<1>8. QED
  BY <1>1, <1>5, <1>6, <1>7 DEF MeaningInv, WaitingInv, FailedInv

\* A binding gets its item's meaning, and no earlier meaning reads it.
LEMMA BindMeans ==
    ASSUME TypeOK, LedgerInv, EvaluationInv, MeaningInv, BindConstant, UNCHANGED <<vars, replay>>
    PROVE  MeaningInv'
<1> DEFINE root == Root[item].init
           def == Root[item].def
<1>1. /\ outcome = "executing" /\ frames = <<>> /\ item \in DOMAIN Root /\ root # 0
      /\ exprIds[root] \in DOMAIN values /\ bindings' = Bind(bindings, def, values[exprIds[root]])
      /\ item' = item + 1 /\ UNCHANGED <<frames, values, receipts, outcome>>
  BY DEF BindConstant, AtItem
<1>2. Environment' = Environment /\ Root' = Root /\ Tree(bindings)' = Tree(bindings') /\ exprIds' = exprIds
  BY MeaningPrimed, NodesPrimed
<1>3. item \in Nat \ {0} /\ item - 1 \in Nat /\ (item + 1) - 1 = item
  BY DEF MeaningInv, BindingsInv
<1>4. Built
  BY <1>1, RunBuilt
<1>5. root \in DOMAIN exprIds
  BY <1>1, <1>4, LedgerAssumption DEF Built, TypeOK, Root, Exprs, Arena
<1>6. Tree(bindings)[root] = values[exprIds[root]]
  BY <1>1, <1>5 DEF MeaningInv, ValuesInv
<1>7. Environment[item] = bindings'
  <2>1. Environment[item] = Bind(Environment[item - 1], def, Tree(Environment[item - 1])[root])
    BY <1>1, <1>3, EnvironmentIs DEF EnvBody
  <2>2. QED
    BY <1>1, <1>6, <2>1 DEF MeaningInv, BindingsInv
<1>8. DOMAIN bindings' = DOMAIN bindings \cup {def}
  BY <1>1 DEF Bind
<1>9. BindingsInv'
  <2>1. \A j : j \notin 1 .. item' - 1 => j \notin 1 .. item - 1 /\ j # item
    BY <1>1, <1>3
  <2>2. \A j \in DOMAIN Root : j # item /\ Root[j].init # 0 => Root[j].def # def
    BY <1>1, ExecutionAssumption DEF TypeOK, Root
  <2>3. \A j \in DOMAIN Root : j \notin 1 .. item' - 1 /\ Root[j].init # 0 => Root[j].def \notin DOMAIN bindings'
    BY <1>8, <2>1, <2>2 DEF MeaningInv, BindingsInv
  <2>4. QED
    BY <1>1, <1>2, <1>3, <1>7, <2>3 DEF BindingsInv
<1>10. Extends(bindings', bindings)
  <2>1. def \notin DOMAIN bindings
    <3>1. item \notin 1 .. item - 1
      BY <1>3
    <3>2. QED
      BY <1>1, <3>1 DEF MeaningInv, BindingsInv
  <2>2. QED
    BY <1>1, <2>1 DEF Bind, Extends
<1>11. ValuesInv'
  <2>1. ASSUME NEW e \in DOMAIN exprIds, exprIds[e] \in DOMAIN values
        PROVE  values[exprIds[e]].kind # "failed" /\ Tree(bindings')[e] = values[exprIds[e]]
    <3>1. values[exprIds[e]].kind # "failed" /\ Tree(bindings)[e] = values[exprIds[e]]
      BY <2>1 DEF MeaningInv, ValuesInv
    <3>2. PICK b, c : b = bindings /\ c = bindings'
      OBVIOUS
    <3>3. e \in Exprs /\ Extends(c, b) /\ Tree(b)[e].kind # "failed"
      BY <1>4, <1>10, <3>1, <3>2 DEF Built
    <3>4. Tree(c)[e] = Tree(b)[e]
      BY <1>4, <3>3, TreeExtends
    <3>5. QED
      BY <3>1, <3>2, <3>4
  <2>2. QED
    BY <1>1, <1>2, <2>1 DEF ValuesInv
<1>12. InputsInv' /\ DescentInv'
  BY <1>1 DEF InputsInv, DescentInv
<1>13. QED
  BY <1>1, <1>9, <1>11, <1>12 DEF MeaningInv, WaitingInv, FailedInv

\* A new innermost evaluation, of an expression's node.
LEMMA CallMeans ==
    ASSUME EvaluationInv, MeaningInv, UNCHANGED <<vars, replay>>, NEW a \in Addresses, Evaluate(a),
           \E e \in DOMAIN exprIds : exprIds[e] = a,
           outcome = "executing", UNCHANGED <<item, bindings, values, receipts, outcome>>,
           item \in DOMAIN Root, Root[item].init # 0,
           frames = <<>> => a = exprIds[Root[item].init],
           frames # <<>> => InputOf(frames[Len(frames)].node, a)
    PROVE  MeaningInv'
<1>1. PICK S : frames \in FramesOver(S)
  BY DEF EvaluationInv
<1> DEFINE new == [node |-> a, inputs |-> <<>>]
<1>2. new \in [node : Addresses, inputs : Seq(S)]
  <2>1. <<>> \in Seq(S)
    OBVIOUS
  <2>2. QED
    BY <2>1
<1>3. PICK n \in Nat :
          /\ n = Len(frames) /\ DOMAIN frames = 1 .. n
          /\ DOMAIN frames' = 1 .. n + 1
          /\ \A k \in 1 .. n : frames'[k] = frames[k]
          /\ frames'[n + 1] = new
  <2>1. /\ frames' \in FramesOver(S)
        /\ Len(frames') = Len(frames) + 1
        /\ \A k \in 1 .. Len(frames) : frames'[k] = frames[k]
        /\ frames'[Len(frames) + 1] = new
    BY <1>1, <1>2, AppendProperties DEF Evaluate, FramesOver
  <2>2. Len(frames) \in Nat /\ DOMAIN frames = 1 .. Len(frames) /\ DOMAIN frames' = 1 .. Len(frames')
    BY <1>1, <2>1, LenProperties DEF FramesOver
  <2>3. QED
    BY <2>1, <2>2
<1>4. /\ UNCHANGED exprIds /\ Root' = Root
      /\ \A x, y : InputOf(x, y)' <=> InputOf(x, y)
  BY NodesPrimed
<1>6. InputsInv'
  <2>1. \A k \in 1 .. n : FrameMeans(frames'[k], values')
    BY <1>3 DEF MeaningInv, InputsInv
  <2>2. FrameMeans(new, values')
    BY DEF FrameMeans
  <2>3. QED
    BY <1>3, <2>1, <2>2, InputsPrimed
<1>7. DescentInv'
  <2>1. frames'[1].node = exprIds[Root[item].init]
    <3>1. CASE n = 0
      <4>1. frames = <<>>
        BY <1>1, <1>3, <3>1, EmptySeq DEF FramesOver
      <4>2. QED
        BY <1>3, <3>1, <4>1
    <3>2. CASE n # 0
      <4>1. frames # <<>> /\ frames'[1] = frames[1]
        BY <1>3, <3>2
      <4>2. QED
        BY <4>1 DEF MeaningInv, DescentInv
    <3>3. QED
      BY <3>1, <3>2
  <2>2. ASSUME NEW k \in 1 .. n + 1, k + 1 \in 1 .. n + 1
        PROVE  InputOf(frames'[k].node, frames'[k + 1].node)
    <3>1. k \in 1 .. n /\ frames'[k] = frames[k]
      BY <1>3, <2>2
    <3>2. CASE k = n
      <4>1. frames # <<>> /\ frames[n] = frames[Len(frames)]
        BY <1>3, <3>1
      <4>2. QED
        BY <1>3, <3>1, <3>2, <4>1
    <3>3. CASE k # n
      <4>1. k + 1 \in 1 .. n
        BY <3>1, <3>3
      <4>2. QED
        BY <1>3, <3>1, <4>1 DEF MeaningInv, DescentInv
    <3>4. QED
      BY <3>2, <3>3
  <2>3. QED
    BY <1>3, <1>4, <2>1, <2>2 DEF DescentInv
<1>8. BindingsInv' /\ ValuesInv'
  BY BindingsKept, ValuesKept DEF MeaningInv
<1>9. QED
  BY <1>6, <1>7, <1>8 DEF MeaningInv, WaitingInv, FailedInv

\* The frames but the innermost.
LEMMA CallerMeans ==
    ASSUME EvaluationInv, MeaningInv, UNCHANGED vars, frames # <<>>,
           Extends(values', values), frames' = Caller, item' = item
    PROVE  InputsInv' /\ DescentInv'
<1>1. PICK S : frames \in FramesOver(S)
  BY DEF EvaluationInv
<1>2. PICK n \in Nat \ {0} :
          /\ n = Len(frames) /\ DOMAIN frames = 1 .. n
          /\ DOMAIN frames' = 1 .. n - 1
          /\ \A k \in 1 .. n - 1 : frames'[k] = frames[k]
  BY <1>1, FrameType
<1>3. /\ UNCHANGED exprIds /\ Root' = Root
      /\ \A x, y : InputOf(x, y)' <=> InputOf(x, y)
  BY NodesPrimed
<1>4. InputsInv'
  <2>1. ASSUME NEW k \in 1 .. n - 1 PROVE FrameMeans(frames'[k], values')
    <3>1. PICK frame : frame = frames[k] /\ frame = frames'[k] /\ k \in DOMAIN frames
      BY <1>2
    <3>2. FrameMeans(frame, values)
      BY <3>1 DEF MeaningInv, InputsInv
    <3>3. FrameMeans(frame, values')
      BY <3>2, FrameKept
    <3>4. QED
      BY <3>1, <3>3
  <2>2. QED
    BY <1>2, <2>1, InputsPrimed
<1>5. DescentInv'
  <2>1. ASSUME frames' # <<>>
        PROVE  item \in DOMAIN Root /\ Root[item].init # 0 /\ frames'[1].node = exprIds[Root[item].init]
    <3>1. 1 \in 1 .. n - 1
      <4>1. CASE n = 1
        <5>1. frames' \in FramesOver(S) /\ Len(frames') = n - 1
          BY <1>1, <1>2, FrameType
        <5>2. QED
          BY <2>1, <4>1, <5>1, EmptySeq DEF FramesOver
      <4>2. QED
        BY <4>1
    <3>2. frames'[1] = frames[1]
      BY <1>2, <3>1
    <3>3. QED
      BY <3>2 DEF MeaningInv, DescentInv
  <2>2. ASSUME NEW k \in 1 .. n - 1, k + 1 \in 1 .. n - 1
        PROVE  InputOf(frames'[k].node, frames'[k + 1].node)
    <3>1. k \in 1 .. n /\ k + 1 \in 1 .. n
      BY <2>2
    <3>2. InputOf(frames[k].node, frames[k + 1].node)
      BY <1>2, <3>1 DEF MeaningInv, DescentInv
    <3>3. QED
      BY <1>2, <2>2, <3>2
  <2>3. QED
    BY <1>2, <1>3, <2>1, <2>2 DEF DescentInv
<1>6. QED
  BY <1>4, <1>5

\* The next input of the innermost evaluation is some expression's node.
LEMMA InputNode ==
    ASSUME TypeOK, LedgerInv, EvaluationInv, MeaningInv, Pending
    PROVE  /\ Built /\ outcome = "executing" /\ frames # <<>>
           /\ Input \in Addresses
           /\ Len(Frame.inputs) + 1 \in DOMAIN NodeOf(Frame.node).inputs
           /\ InputOf(Frame.node, Input)
           /\ \E e \in DOMAIN exprIds : exprIds[e] = Input
<1>1. /\ outcome = "executing" /\ frames # <<>>
      /\ Len(Frame.inputs) < Len(NodeOf(Frame.node).inputs)
  BY DEF Pending, Evaluating
<1>2. Built
  BY <1>1, RunBuilt
<1>3. PICK S : frames \in FramesOver(S)
  BY DEF EvaluationInv
<1>4. Len(frames) \in DOMAIN frames /\ Frame = frames[Len(frames)] /\ Frame.inputs \in Seq(S)
  BY <1>1, <1>3, FrameType
<1>5. PICK frame : frame = Frame
  OBVIOUS
<1>6. FrameMeans(frame, values)
  BY <1>4, <1>5 DEF MeaningInv, InputsInv
<1>7. PICK e \in DOMAIN exprIds : exprIds[e] = frame.node
  BY <1>6 DEF FrameMeans
<1>8. e \in Exprs
  BY <1>2, <1>7 DEF Built
<1>9. /\ NodeOf(frame.node).inputs \in Seq(Addresses)
      /\ \A i \in DOMAIN NodeOf(frame.node).inputs :
            \E k \in DOMAIN Arena[e].kids : NodeOf(frame.node).inputs[i] = exprIds[Arena[e].kids[k]]
  BY <1>2, <1>7, <1>8, NodeOfIs
<1>10. PICK i : i = Len(frame.inputs) + 1 /\ i \in DOMAIN NodeOf(frame.node).inputs
  <2>1. Len(frame.inputs) \in Nat /\ Len(NodeOf(frame.node).inputs) \in Nat
    BY <1>4, <1>5, <1>9, LenProperties
  <2>2. DOMAIN NodeOf(frame.node).inputs = 1 .. Len(NodeOf(frame.node).inputs)
    BY <1>9, LenProperties
  <2>3. QED
    BY <1>1, <1>5, <2>1, <2>2
<1>11. Input = NodeOf(frame.node).inputs[i]
  BY <1>5, <1>10 DEF Input
<1>12. InputOf(frame.node, Input)
  BY <1>10, <1>11 DEF InputOf
<1>13. PICK k \in DOMAIN Arena[e].kids : Input = exprIds[Arena[e].kids[k]]
  BY <1>9, <1>10, <1>11
<1>14. Arena[e].kids[k] \in DOMAIN exprIds
  BY <1>2, <1>8, RankType DEF Built
<1>15. Input \in Addresses
  BY InputEarlier
<1>16. QED
  BY <1>1, <1>2, <1>5, <1>10, <1>12, <1>13, <1>14, <1>15

\* The evaluation of an item's root begins.
LEMMA RootMeans ==
    ASSUME TypeOK, LedgerInv, EvaluationInv, MeaningInv, EvaluateRoot, UNCHANGED <<vars, replay>>
    PROVE  MeaningInv'
<1>1. /\ outcome = "executing" /\ frames = <<>> /\ item \in DOMAIN Root /\ Root[item].init # 0
      /\ Evaluate(exprIds[Root[item].init])
      /\ UNCHANGED <<item, bindings, values, receipts, outcome>>
  BY DEF EvaluateRoot, AtItem
<1>2. Built
  BY <1>1, RunBuilt
<1>3. Root[item].init \in DOMAIN exprIds
  BY <1>1, <1>2, LedgerAssumption DEF Built, TypeOK, Root, Exprs, Arena
<1>4. exprIds[Root[item].init] \in Addresses
  BY <1>3 DEF TypeOK
<1>5. QED
  BY <1>1, <1>3, <1>4, CallMeans

\* The evaluation of an input begins.
LEMMA InputMeans ==
    ASSUME TypeOK, LedgerInv, EvaluationInv, MeaningInv, EvaluateInput, UNCHANGED <<vars, replay>>
    PROVE  MeaningInv'
<1>1. Pending /\ Evaluate(Input) /\ UNCHANGED <<item, bindings, values, receipts, outcome>>
  BY DEF EvaluateInput
<1>2. /\ outcome = "executing" /\ frames # <<>> /\ Input \in Addresses
      /\ InputOf(Frame.node, Input)
      /\ \E e \in DOMAIN exprIds : exprIds[e] = Input
  BY <1>1, InputNode
<1>3. item \in DOMAIN Root /\ Root[item].init # 0
  BY <1>2 DEF MeaningInv, DescentInv
<1>4. InputOf(frames[Len(frames)].node, Input)
  BY <1>2 DEF Frame
<1>5. QED
  BY <1>1, <1>2, <1>3, <1>4, CallMeans

\* Collecting the value of the next input.
LEMMA TakeMeans ==
    ASSUME TypeOK, LedgerInv, EvaluationInv, MeaningInv, TakeInput, UNCHANGED <<vars, replay>>
    PROVE  MeaningInv'
<1>1. /\ Pending /\ Input \in DOMAIN values
      /\ UNCHANGED <<item, bindings, values, receipts, outcome>>
  BY DEF TakeInput
<1>2. /\ outcome = "executing" /\ frames # <<>>
      /\ Len(Frame.inputs) + 1 \in DOMAIN NodeOf(Frame.node).inputs
  BY <1>1, InputNode
<1>3. PICK S : frames \in FramesOver(S)
  BY DEF EvaluationInv
<1>4. PICK n \in Nat \ {0} :
          /\ n = Len(frames) /\ DOMAIN frames = 1 .. n /\ Frame = frames[n]
          /\ Frame \in [node : Addresses, inputs : Seq(S)]
          /\ Caller \in FramesOver(S) /\ Len(Caller) = n - 1
          /\ \A k \in 1 .. n - 1 : Caller[k] = frames[k]
  BY <1>2, <1>3, FrameType
<1>5. PICK old, v : old = Frame /\ v = values[Input]
  OBVIOUS
<1> DEFINE T == S \cup {v}
           new == [old EXCEPT !.inputs = Append(@, v)]
<1>6. Seq(S) \subseteq Seq(T) /\ v \in T
  BY SeqMonotonic
<1>7. PICK m \in Nat : m = Len(old.inputs) /\ DOMAIN old.inputs = 1 .. m
  BY <1>4, <1>5, LenProperties
<1>8. PICK longer : longer = Append(old.inputs, v)
  OBVIOUS
<1>9. /\ longer \in Seq(T) /\ DOMAIN longer = 1 .. m + 1
      /\ \A i \in 1 .. m : longer[i] = old.inputs[i]
      /\ longer[m + 1] = v
  <2>1. old.inputs \in Seq(T) /\ v \in T
    BY <1>4, <1>5, <1>6
  <2> HIDE DEF T
  <2>2. /\ longer \in Seq(T) /\ Len(longer) = m + 1
        /\ \A i \in 1 .. m : longer[i] = old.inputs[i]
        /\ longer[m + 1] = v
    BY <1>7, <1>8, <2>1, AppendProperties
  <2>3. QED
    BY <2>2, LenProperties
<1>10. new \in [node : Addresses, inputs : Seq(T)] /\ new.node = old.node /\ new.inputs = longer
  <2> HIDE DEF T
  <2>1. QED
    BY <1>4, <1>5, <1>8, <1>9
<1>11. Caller \in FramesOver(T)
  <2>1. [node : Addresses, inputs : Seq(S)] \subseteq [node : Addresses, inputs : Seq(T)]
    <3> HIDE DEF T
    <3>1. QED
      BY <1>6
  <2> HIDE DEF T
  <2>2. QED
    BY <1>4, <2>1, SeqMonotonic DEF FramesOver
<1>12. frames' = Append(Caller, new)
  BY <1>5 DEF TakeInput
<1> HIDE DEF T, new
<1>13. /\ DOMAIN frames' = 1 .. n
       /\ \A k \in 1 .. n - 1 : frames'[k] = frames[k]
       /\ frames'[n] = new
  <2>1. /\ Append(Caller, new) \in FramesOver(T)
        /\ Len(Append(Caller, new)) = Len(Caller) + 1
        /\ \A k \in 1 .. Len(Caller) : Append(Caller, new)[k] = Caller[k]
        /\ Append(Caller, new)[Len(Caller) + 1] = new
    BY <1>10, <1>11, AppendProperties DEF FramesOver
  <2>2. DOMAIN Append(Caller, new) = 1 .. Len(Append(Caller, new))
    BY <2>1, LenProperties DEF FramesOver
  <2>3. QED
    BY <1>4, <1>12, <2>1, <2>2
<1>14. \A k \in 1 .. n : frames'[k].node = frames[k].node
  BY <1>4, <1>5, <1>10, <1>13
<1>15. FrameMeans(new, values)
  <2>1. FrameMeans(old, values)
    BY <1>4, <1>5 DEF MeaningInv, InputsInv
  <2>2. /\ m + 1 \in DOMAIN NodeOf(old.node).inputs
        /\ NodeOf(old.node).inputs[m + 1] = Input
    BY <1>2, <1>5, <1>7 DEF Input
  <2>3. \A i \in 1 .. m + 1 : i \in 1 .. m \/ i = m + 1
    BY <1>7
  <2>4. \A i \in DOMAIN longer :
            /\ i \in DOMAIN NodeOf(old.node).inputs
            /\ NodeOf(old.node).inputs[i] \in DOMAIN values
            /\ longer[i] = values[NodeOf(old.node).inputs[i]]
    <3>1. ASSUME NEW i \in 1 .. m
          PROVE  /\ i \in DOMAIN NodeOf(old.node).inputs
                 /\ NodeOf(old.node).inputs[i] \in DOMAIN values
                 /\ longer[i] = values[NodeOf(old.node).inputs[i]]
      BY <1>7, <1>9, <2>1 DEF FrameMeans
    <3>2. v = values[Input]
      BY <1>5
    <3>3. PICK a \in DOMAIN values : a = Input
      BY <1>1
    <3>4. /\ m + 1 \in DOMAIN NodeOf(old.node).inputs
          /\ NodeOf(old.node).inputs[m + 1] \in DOMAIN values
          /\ longer[m + 1] = values[NodeOf(old.node).inputs[m + 1]]
      BY <1>9, <2>2, <3>2, <3>3
    <3>5. QED
      BY <1>9, <2>3, <3>1, <3>4
  <2>5. QED
    BY <1>10, <2>1, <2>4 DEF FrameMeans
<1>16. InputsInv'
  <2>1. ASSUME NEW k \in 1 .. n PROVE FrameMeans(frames'[k], values')
    <3>1. CASE k = n
      BY <1>1, <1>13, <1>15, <3>1
    <3>2. CASE k # n
      <4>1. k \in 1 .. n - 1
        BY <3>2
      <4>2. QED
        BY <1>1, <1>4, <1>13, <4>1 DEF MeaningInv, InputsInv
    <3>3. QED
      BY <3>1, <3>2
  <2>2. QED
    BY <1>13, <2>1, InputsPrimed
<1>17. DescentInv'
  <2>1. /\ UNCHANGED exprIds /\ Root' = Root
        /\ \A x, y : InputOf(x, y)' <=> InputOf(x, y)
    BY NodesPrimed
  <2>2. item \in DOMAIN Root /\ Root[item].init # 0 /\ frames'[1].node = exprIds[Root[item].init]
    BY <1>2, <1>4, <1>14 DEF MeaningInv, DescentInv
  <2>3. ASSUME NEW k \in 1 .. n, k + 1 \in 1 .. n
        PROVE  InputOf(frames'[k].node, frames'[k + 1].node)
    BY <1>4, <1>14, <2>3 DEF MeaningInv, DescentInv
  <2>4. QED
    BY <1>1, <1>13, <2>1, <2>2, <2>3 DEF DescentInv
<1>18. BindingsInv' /\ ValuesInv'
  BY <1>1, BindingsKept, ValuesKept DEF MeaningInv
<1>19. QED
  BY <1>1, <1>2, <1>16, <1>17, <1>18 DEF MeaningInv, WaitingInv, FailedInv

\* The meaning of the innermost node is what it evaluates to.
LEMMA InnermostMeans ==
    ASSUME TypeOK, LedgerInv, EvaluationInv, MeaningInv, Step
    PROVE  /\ Built /\ frames # <<>>
           /\ \E e \in DOMAIN exprIds : exprIds[e] = Frame.node
           /\ \A e \in DOMAIN exprIds : exprIds[e] = Frame.node =>
                 Tree(bindings)[e]
                 = EvaluateNode(NodeOf(Frame.node).op, NodeOf(Frame.node).params, Frame.inputs, bindings)
<1>1. /\ outcome = "executing" /\ frames # <<>>
      /\ Len(Frame.inputs) = Len(NodeOf(Frame.node).inputs)
  BY DEF Step, Evaluating
<1>2. Built
  BY <1>1, RunBuilt
<1>3. PICK S : frames \in FramesOver(S)
  BY DEF EvaluationInv
<1>4. PICK frame \in [node : Addresses, inputs : Seq(S)] : frame = Frame /\ FrameMeans(frame, values)
  <2>1. /\ Len(frames) \in DOMAIN frames /\ Frame = frames[Len(frames)]
        /\ Frame \in [node : Addresses, inputs : Seq(S)]
    BY <1>1, <1>3, FrameType
  <2>2. PICK frame \in [node : Addresses, inputs : Seq(S)] : frame = Frame
    BY <2>1
  <2>3. FrameMeans(frame, values)
    BY <2>1, <2>2 DEF MeaningInv, InputsInv
  <2>4. QED
    BY <2>2, <2>3
<1>5. ASSUME NEW e \in DOMAIN exprIds, exprIds[e] = frame.node
      PROVE  Tree(bindings)[e]
             = EvaluateNode(NodeOf(frame.node).op, NodeOf(frame.node).params, frame.inputs, bindings)
  <2>1. e \in Exprs /\ ValuesInv /\ Len(frame.inputs) = Len(NodeOf(frame.node).inputs)
    BY <1>1, <1>2, <1>4 DEF Built, MeaningInv
  <2>2. QED
    BY <1>2, <1>4, <1>5, <2>1, StepMeans
<1>6. \E e \in DOMAIN exprIds : exprIds[e] = frame.node
  BY <1>4 DEF FrameMeans
<1>7. QED
  BY <1>1, <1>2, <1>4, <1>5, <1>6

\* The innermost node's value is remembered.
LEMMA ReturnMeans ==
    ASSUME TypeOK, LedgerInv, EvaluationInv, MeaningInv, Step, UNCHANGED <<vars, replay>>,
           NEW value,
           value = EvaluateNode(NodeOf(Frame.node).op, NodeOf(Frame.node).params, Frame.inputs, bindings),
           value.kind # "failed", values' = Bind(values, Frame.node, value),
           frames' = Caller, UNCHANGED <<item, bindings, outcome>>
    PROVE  MeaningInv'
<1>1. /\ outcome = "executing" /\ frames # <<>>
  BY DEF Step, Evaluating
<1>2. PICK e \in DOMAIN exprIds : exprIds[e] = Frame.node
  BY InnermostMeans
<1>3. \A f \in DOMAIN exprIds : exprIds[f] = Frame.node => Tree(bindings)[f] = value
  BY InnermostMeans
<1>4. Extends(values', values)
  <2>1. ASSUME Frame.node \in DOMAIN values PROVE values[Frame.node] = value
    BY <1>2, <1>3, <2>1 DEF MeaningInv, ValuesInv
  <2>2. QED
    BY <2>1 DEF Bind, Extends
<1>5. InputsInv' /\ DescentInv'
  BY <1>1, <1>4, CallerMeans DEF vars
<1>6. ValuesInv'
  <2>1. Tree(bindings)' = Tree(bindings) /\ UNCHANGED exprIds
    BY MeaningPrimed, NodesPrimed
  <2>2. ASSUME NEW f \in DOMAIN exprIds, exprIds[f] \in DOMAIN values'
        PROVE  values'[exprIds[f]].kind # "failed" /\ Tree(bindings)[f] = values'[exprIds[f]]
    <3>1. CASE exprIds[f] = Frame.node
      BY <1>3, <3>1 DEF Bind
    <3>2. CASE exprIds[f] # Frame.node
      <4>1. exprIds[f] \in DOMAIN values /\ values'[exprIds[f]] = values[exprIds[f]]
        BY <2>2, <3>2 DEF Bind
      <4>2. QED
        BY <4>1 DEF MeaningInv, ValuesInv
    <3>3. QED
      BY <3>1, <3>2
  <2>3. QED
    BY <2>1, <2>2 DEF ValuesInv
<1>7. BindingsInv'
  BY BindingsKept DEF MeaningInv
<1>8. QED
  BY <1>1, <1>5, <1>6, <1>7 DEF MeaningInv, WaitingInv, FailedInv

\* A node that evaluates to nothing leaves the item's root without a meaning.
LEMMA FailMeans ==
    ASSUME TypeOK, LedgerInv, EvaluationInv, MeaningInv, Step, UNCHANGED <<vars, replay>>,
           EvaluateNode(NodeOf(Frame.node).op, NodeOf(Frame.node).params, Frame.inputs, bindings).kind
           = "failed",
           Fail
    PROVE  MeaningInv'
<1>1. /\ outcome = "executing" /\ frames # <<>> /\ outcome' = "failed"
      /\ UNCHANGED <<item, frames, bindings, values, receipts>>
  BY DEF Step, Evaluating, Fail
<1>2. Built
  BY InnermostMeans
<1>3. PICK S : frames \in FramesOver(S)
  BY DEF EvaluationInv
<1>4. PICK n \in Nat \ {0} : n = Len(frames) /\ DOMAIN frames = 1 .. n /\ Frame = frames[n]
  BY <1>1, <1>3, FrameType
<1> DEFINE Lost(k) == \A e \in Exprs : exprIds[e] = frames[k].node => Tree(bindings)[e].kind = "failed"
           T == {k \in 1 .. n : \A j \in k .. n : Lost(j)}
<1>5. Lost(n)
  BY <1>2, <1>4, InnermostMeans DEF Built
<1>6. ASSUME NEW k \in 1 .. n, k + 1 \in 1 .. n, Lost(k + 1)
      PROVE  Lost(k)
  <2> SUFFICES ASSUME NEW e \in Exprs, exprIds[e] = frames[k].node
               PROVE  Tree(bindings)[e].kind = "failed"
    OBVIOUS
  <2>1. PICK b : b = frames[k + 1].node
    OBVIOUS
  <2>2. InputOf(exprIds[e], b)
    BY <1>4, <1>6, <2>1 DEF MeaningInv, DescentInv
  <2>3. \A f \in Exprs : exprIds[f] = b => Tree(bindings)[f].kind = "failed"
    BY <1>6, <2>1
  <2>4. QED
    BY <1>2, <2>2, <2>3, InputFails
<1> HIDE DEF Lost
<1>7. n \in T /\ T \subseteq Nat
  BY <1>5
<1>8. PICK k \in T : \A j \in T : k <= j
  <2> HIDE DEF T
  <2>1. QED
    BY <1>7, LeastNatural
<1>9. k = 1
  <2> SUFFICES ASSUME k # 1 PROVE FALSE
    OBVIOUS
  <2>1. k \in 1 .. n /\ \A j \in k .. n : Lost(j)
    BY <1>8
  <2>2. PICK i \in 1 .. n : k = i + 1 /\ i < k
    BY <2>1
  <2>3. Lost(i + 1)
    BY <2>1, <2>2
  <2>4. Lost(i)
    BY <1>6, <2>1, <2>2, <2>3
  <2>5. \A j \in i .. n : j = i \/ j \in k .. n
    BY <2>2
  <2>6. i \in T
    BY <2>1, <2>4, <2>5
  <2>7. QED
    BY <1>8, <2>2, <2>6
<1>10. Lost(1)
  <2>1. 1 \in k .. n
    BY <1>4, <1>9
  <2>2. QED
    BY <1>8, <2>1
<1>11. Tree(bindings)[Root[item].init].kind = "failed"
  <2>1. /\ item \in DOMAIN Root /\ Root[item].init # 0
        /\ frames[1].node = exprIds[Root[item].init]
    BY <1>1 DEF MeaningInv, DescentInv
  <2>2. Root[item].init \in Exprs
    BY <1>2, <2>1, LedgerAssumption DEF Built, TypeOK, Root, Exprs, Arena
  <2>3. QED
    BY <1>10, <2>1, <2>2 DEF Lost
<1>12. FailedInv'
  <2>1. Tree(bindings)' = Tree(bindings') /\ Root' = Root
    BY MeaningPrimed, NodesPrimed
  <2>2. QED
    BY <1>1, <1>11, <2>1 DEF FailedInv
<1>13. BindingsInv' /\ ValuesInv'
  BY <1>1, BindingsKept, ValuesKept DEF MeaningInv
<1>14. InputsInv' /\ DescentInv'
  <2>1. /\ Root' = Root /\ UNCHANGED <<exprIds, nodes>> /\ \A x, y : InputOf(x, y)' <=> InputOf(x, y)
    BY NodesPrimed
  <2>2. InputsInv'
    BY <1>1, InputsPrimed DEF MeaningInv, InputsInv
  <2>3. DescentInv'
    BY <1>1, <2>1 DEF MeaningInv, DescentInv
  <2>4. QED
    BY <2>2, <2>3
<1>15. QED
  BY <1>1, <1>12, <1>13, <1>14 DEF MeaningInv, WaitingInv

\* Before the first item nothing is bound.
Fresh == item = 1 /\ frames = <<>> /\ bindings = <<>> /\ values = <<>>

\* Then the bindings are those of no item.
LEMMA FreshMeans == Fresh => BindingsInv /\ ValuesInv /\ InputsInv /\ DescentInv
<1> SUFFICES ASSUME item = 1, frames = <<>>, bindings = <<>>, values = <<>>
             PROVE  BindingsInv /\ ValuesInv /\ InputsInv /\ DescentInv
  BY DEF Fresh
<1>1. Environment[0] = <<>>
  BY EnvironmentIs DEF EnvBody
<1>2. item - 1 = 0 /\ DOMAIN bindings = {} /\ DOMAIN values = {}
  OBVIOUS
<1>3. BindingsInv
  BY <1>1, <1>2 DEF BindingsInv
<1>4. ValuesInv
  BY <1>2 DEF ValuesInv
<1>5. InputsInv /\ DescentInv
  BY DEF InputsInv, DescentInv
<1>6. QED
  BY <1>3, <1>4, <1>5

\* The run begins so.
LEMMA MeaningInit == RunInit => MeaningInv
BY FreshMeans DEF Fresh, RunInit, MeaningInv, WaitingInv, FailedInv

\* The run and its meaning are as they were.
LEMMA MeaningKept ==
    ASSUME EvaluationInv, MeaningInv, UNCHANGED vars,
           UNCHANGED <<item, frames, bindings, values, receipts>>,
           outcome' \notin {"waiting", "failed"}
    PROVE  MeaningInv'
<1>1. BindingsInv' /\ ValuesInv'
  BY BindingsKept, ValuesKept DEF MeaningInv
<1>2. /\ Root' = Root /\ UNCHANGED <<exprIds, nodes>> /\ \A x, y : InputOf(x, y)' <=> InputOf(x, y)
  BY NodesPrimed
<1>3. InputsInv'
  BY InputsPrimed DEF MeaningInv, InputsInv
<1>4. DescentInv'
  BY <1>2 DEF MeaningInv, DescentInv
<1>5. QED
  BY <1>1, <1>3, <1>4 DEF MeaningInv, WaitingInv, FailedInv

\* Every step of the builder, the run and the replay keeps it.
LEMMA MeaningStep ==
    TypeOK /\ LedgerInv /\ EvaluationInv /\ MeaningInv /\ [RunNext]_allVars => MeaningInv'
<1> SUFFICES ASSUME TypeOK, LedgerInv, EvaluationInv, MeaningInv, [RunNext]_allVars
             PROVE  MeaningInv'
  OBVIOUS
<1>1. CASE Next /\ UNCHANGED <<execution, replay>>
  <2>1. result = "building"
    BY <1>1 DEF Next, Begin, Advance, CollectChild, EnterChild, CycleFound, Intern, Finish,
                Waiting, Complete
  <2>2. outcome = "waiting"
    BY <2>1 DEF EvaluationInv
  <2>3. /\ item = 1 /\ frames = <<>> /\ bindings = <<>> /\ values = <<>> /\ receipts = <<>>
        /\ verdict = [kind |-> "none"]
    BY <2>2 DEF MeaningInv, WaitingInv
  <2>4. UNCHANGED <<item, frames, bindings, values, receipts, outcome, verdict>>
    BY <1>1 DEF execution, replay
  <2>5. (BindingsInv /\ ValuesInv /\ InputsInv /\ DescentInv)'
    <3>1. Fresh'
      BY <2>3, <2>4 DEF Fresh
    <3>2. QED
      BY <3>1, FreshMeans, PTL
  <2>6. QED
    BY <2>2, <2>3, <2>4, <2>5 DEF MeaningInv, WaitingInv, FailedInv
<1>2. CASE ExecuteStep /\ UNCHANGED <<vars, replay>>
  <2>1. CASE StartExecution
    BY <1>2, <2>1, MeaningKept DEF StartExecution, vars
  <2>2. CASE SkipItem
    BY <1>2, <2>2, SkipMeans
  <2>3. CASE BindConstant
    BY <1>2, <2>3, BindMeans
  <2>4. CASE EvaluateRoot
    BY <1>2, <2>4, RootMeans
  <2>5. CASE TakeInput
    BY <1>2, <2>5, TakeMeans
  <2>6. CASE EvaluateInput
    BY <1>2, <2>6, InputMeans
  <2>7. CASE Step
    <3>1. PICK value : value = EvaluateNode(NodeOf(Frame.node).op, NodeOf(Frame.node).params,
                                            Frame.inputs, bindings)
      OBVIOUS
    <3>2. CASE value.kind = "failed" /\ Fail
      BY <1>2, <2>7, <3>1, <3>2, FailMeans
    <3>3. CASE /\ value.kind # "failed"
               /\ values' = Bind(values, Frame.node, value)
               /\ frames' = Caller
               /\ UNCHANGED <<item, bindings, outcome>>
      BY <1>2, <2>7, <3>1, <3>3, ReturnMeans
    <3>4. QED
      BY <2>7, <3>1, <3>2, <3>3, Zenon DEF Step
  <2>8. CASE FinishExecution
    BY <1>2, <2>8, MeaningKept DEF FinishExecution, vars
  <2>9. QED
    BY <1>2, <2>1, <2>2, <2>3, <2>4, <2>5, <2>6, <2>7, <2>8 DEF ExecuteStep
<1>3. CASE StartReplay /\ UNCHANGED vars
  <2>1. /\ item' = 1 /\ frames' = <<>> /\ bindings' = <<>> /\ values' = <<>>
        /\ outcome' = "executing"
    BY <1>3 DEF StartReplay
  <2>2. (BindingsInv /\ ValuesInv /\ InputsInv /\ DescentInv)'
    <3>1. Fresh'
      BY <2>1 DEF Fresh
    <3>2. QED
      BY <3>1, FreshMeans, PTL
  <2>3. QED
    BY <2>1, <2>2 DEF MeaningInv, WaitingInv, FailedInv
<1>4. CASE Verify /\ UNCHANGED vars
  BY <1>4, MeaningKept DEF Verify
<1>5. CASE UNCHANGED allVars
  <2>1. UNCHANGED <<vars, execution, replay>>
    BY <1>5 DEF allVars
  <2>2. /\ UNCHANGED <<item, frames, bindings, values, receipts, outcome, verdict>>
    BY <2>1 DEF execution, replay
  <2>3. /\ Root' = Root /\ UNCHANGED <<exprIds, nodes>> /\ \A x, y : InputOf(x, y)' <=> InputOf(x, y)
    BY <2>1, NodesPrimed
  <2>4. BindingsInv' /\ ValuesInv'
    BY <2>1, <2>2, BindingsKept, ValuesKept DEF MeaningInv
  <2>5. InputsInv'
    BY <2>1, <2>2, InputsPrimed DEF MeaningInv, InputsInv
  <2>6. DescentInv'
    BY <2>2, <2>3 DEF MeaningInv, DescentInv
  <2>7. FailedInv'
    <3>1. Tree(bindings)' = Tree(bindings')
      BY <2>1, MeaningPrimed DEF vars
    <3>2. QED
      BY <2>2, <2>3, <3>1 DEF MeaningInv, FailedInv
  <2>8. QED
    BY <2>2, <2>4, <2>5, <2>6, <2>7 DEF MeaningInv, WaitingInv
<1>6. QED
  BY <1>1, <1>2, <1>3, <1>4, <1>5 DEF RunNext

\* So it is an invariant.
LEMMA MeaningInvariant == RunSpec => [](TypeOK /\ LedgerInv /\ EvaluationInv /\ MeaningInv)
<1>1. RunInit => MeaningInv
  BY MeaningInit
<1>2. TypeOK /\ LedgerInv /\ EvaluationInv /\ MeaningInv /\ [RunNext]_allVars => MeaningInv'
  BY MeaningStep
<1>3. QED
  BY <1>1, <1>2, EvaluationInvariant, PTL DEF RunSpec

\* What raly run prints is what the source means: after every item the
\* bindings are those of the trees evaluated on their own, for every sharing
\* of nodes, and a run fails only on an item that has no meaning.
THEOREM AlwaysMatchesSource == RunSpec => []RunMatchesSource
<1>1. MeaningInv => RunMatchesSource
  <2> SUFFICES ASSUME MeaningInv PROVE RunMatchesSource
    OBVIOUS
  <2>1. bindings = Environment[item - 1]
    BY DEF MeaningInv, BindingsInv
  <2>2. outcome = "failed" => Tree(bindings)[Root[item].init].kind = "failed"
    BY DEF MeaningInv, FailedInv
  <2>3. QED
    BY <2>1, <2>2 DEF RunMatchesSource
<1>2. QED
  BY <1>1, MeaningInvariant, PTL

-----------------------------------------------------------------------------
(* An execution is determined by the ledger *)

State(i, f, b, v, r, o) ==
    [item |-> i, frames |-> f, bindings |-> b, values |-> v, receipts |-> r, outcome |-> o]

Now == State(item, frames, bindings, values, receipts, outcome)
Start == State(1, <<>>, <<>>, <<>>, <<>>, "executing")

\* What execute_constants does next with no evaluation under way ...
NextItem(s) ==
    LET root == Root[s.item].init
        a == exprIds[root]
    IN  IF s.item \notin DOMAIN Root
        THEN State(s.item, s.frames, s.bindings, s.values, s.receipts, "executed")
        ELSE IF root = 0
        THEN State(s.item + 1, s.frames, s.bindings, s.values, s.receipts, s.outcome)
        ELSE IF a \in DOMAIN s.values
        THEN State(s.item + 1, s.frames, Bind(s.bindings, Root[s.item].def, s.values[a]),
                   s.values, s.receipts, s.outcome)
        ELSE State(s.item, Append(s.frames, [node |-> a, inputs |-> <<>>]),
                   s.bindings, s.values, s.receipts, s.outcome)

\* ... and what evaluate does next in the innermost call.
NextInput(s) ==
    LET frame == s.frames[Len(s.frames)]
        callers == SubSeq(s.frames, 1, Len(s.frames) - 1)
        node == NodeOf(frame.node)
        input == node.inputs[Len(frame.inputs) + 1]
        value == EvaluateNode(node.op, node.params, frame.inputs, s.bindings)
        after == Bind(s.values, frame.node, value)
    IN  IF Len(frame.inputs) # Len(node.inputs)
        THEN IF input \in DOMAIN s.values
             THEN State(s.item, Append(callers, [frame EXCEPT !.inputs = Append(@, s.values[input])]),
                        s.bindings, s.values, s.receipts, s.outcome)
             ELSE State(s.item, Append(s.frames, [node |-> input, inputs |-> <<>>]),
                        s.bindings, s.values, s.receipts, s.outcome)
        ELSE IF value.kind = "failed"
        THEN State(s.item, s.frames, s.bindings, s.values, s.receipts, "failed")
        ELSE State(s.item, callers, s.bindings, after,
                   Append(s.receipts, [node |-> frame.node, before |-> s.values,
                                       after |-> after, value |-> value]),
                   s.outcome)

Then(s) == IF s.frames = <<>> THEN NextItem(s) ELSE NextInput(s)

\* The parts of a state.
LEMMA StateFields ==
    ASSUME NEW i, NEW f, NEW b, NEW v, NEW r, NEW o
    PROVE  /\ State(i, f, b, v, r, o).item = i
           /\ State(i, f, b, v, r, o).frames = f
           /\ State(i, f, b, v, r, o).bindings = b
           /\ State(i, f, b, v, r, o).values = v
           /\ State(i, f, b, v, r, o).receipts = r
           /\ State(i, f, b, v, r, o).outcome = o
BY DEF State

\* The parts of the present one.
LEMMA NowFields ==
    /\ Now.item = item /\ Now.frames = frames /\ Now.bindings = bindings
    /\ Now.values = values /\ Now.receipts = receipts /\ Now.outcome = outcome
BY StateFields DEF Now

\* Each step of an execution is the one it has to take.
LEMMA ThenItem ==
    ASSUME SkipItem \/ BindConstant \/ EvaluateRoot \/ FinishExecution
    PROVE  outcome = "executing" /\ Now' = Then(Now)
<1>1. outcome = "executing" /\ frames = <<>>
  BY DEF SkipItem, BindConstant, EvaluateRoot, FinishExecution, AtItem
<1>2. Then(Now) = NextItem(Now)
  BY <1>1, NowFields DEF Then
<1>3. Now' = State(item', frames', bindings', values', receipts', outcome')
  BY DEF Now
<1>4. CASE SkipItem
  <2>1. NextItem(Now) = State(item + 1, frames, bindings, values, receipts, outcome)
    BY <1>4, NowFields, Zenon DEF NextItem, SkipItem, AtItem
  <2>2. QED
    BY <1>1, <1>2, <1>3, <1>4, <2>1 DEF SkipItem
<1>5. CASE BindConstant
  <2>1. NextItem(Now) = State(item + 1, frames, bindings', values, receipts, outcome)
    BY <1>5, NowFields, Zenon DEF NextItem, BindConstant, AtItem
  <2>2. QED
    BY <1>1, <1>2, <1>3, <1>5, <2>1 DEF BindConstant
<1>6. CASE EvaluateRoot
  <2>1. NextItem(Now) = State(item, frames', bindings, values, receipts, outcome)
    BY <1>6, NowFields, Zenon DEF NextItem, EvaluateRoot, AtItem, Evaluate
  <2>2. QED
    BY <1>1, <1>2, <1>3, <1>6, <2>1 DEF EvaluateRoot
<1>7. CASE FinishExecution
  <2>1. NextItem(Now) = State(item, frames, bindings, values, receipts, "executed")
    BY <1>7, NowFields, Zenon DEF NextItem, FinishExecution
  <2>2. QED
    BY <1>1, <1>2, <1>3, <1>7, <2>1 DEF FinishExecution
<1>8. QED
  BY <1>4, <1>5, <1>6, <1>7

\* The steps of evaluate are the ones they have to be, too.
LEMMA ThenInput ==
    ASSUME EvaluationInv, TakeInput \/ EvaluateInput \/ Step
    PROVE  outcome = "executing" /\ Now' = Then(Now)
<1>1. outcome = "executing" /\ frames # <<>>
  BY DEF TakeInput, EvaluateInput, Step, Pending, Evaluating
<1>2. Then(Now) = NextInput(Now)
  BY <1>1, NowFields DEF Then
<1>3. Now' = State(item', frames', bindings', values', receipts', outcome')
  BY DEF Now
<1>4. Pending => Len(Frame.inputs) # Len(NodeOf(Frame.node).inputs)
  <2>1. PICK S : frames \in FramesOver(S)
    BY DEF EvaluationInv
  <2>2. Frame.inputs \in Seq(S)
    BY <1>1, <2>1, FrameType
  <2>3. PICK m \in Nat : m = Len(Frame.inputs)
    BY <2>2, LenProperties
  <2>4. PICK n : n = Len(NodeOf(Frame.node).inputs)
    OBVIOUS
  <2>5. m < n => m # n
    OBVIOUS
  <2>6. QED
    BY <2>3, <2>4, <2>5 DEF Pending
<1>5. CASE TakeInput
  <2>1. NextInput(Now) = State(item, frames', bindings, values, receipts, outcome)
    BY <1>4, <1>5, NowFields, Zenon DEF NextInput, TakeInput, Input, Frame, Caller
  <2>2. QED
    BY <1>1, <1>2, <1>3, <1>5, <2>1 DEF TakeInput
<1>6. CASE EvaluateInput
  <2>1. NextInput(Now) = State(item, frames', bindings, values, receipts, outcome)
    BY <1>4, <1>6, NowFields, Zenon DEF NextInput, EvaluateInput, Input, Frame, Evaluate
  <2>2. QED
    BY <1>1, <1>2, <1>3, <1>6, <2>1 DEF EvaluateInput
<1>7. CASE Step
  <2> DEFINE value == EvaluateNode(NodeOf(Frame.node).op, NodeOf(Frame.node).params, Frame.inputs, bindings)
  <2>1. CASE value.kind = "failed" /\ Fail
    <3>1. NextInput(Now) = State(item, frames, bindings, values, receipts, "failed")
      BY <1>7, <2>1, NowFields, Zenon DEF NextInput, Step, Frame
    <3>2. QED
      BY <1>1, <1>2, <1>3, <2>1, <3>1 DEF Fail
  <2>2. CASE /\ value.kind # "failed"
             /\ values' = Bind(values, Frame.node, value)
             /\ receipts' = Append(receipts, ReceiptOf(Frame.node, value))
             /\ frames' = Caller
             /\ UNCHANGED <<item, bindings, outcome>>
    <3>1. NextInput(Now) = State(item, frames', bindings, values', receipts', outcome)
      BY <1>7, <2>2, NowFields, Zenon DEF NextInput, Step, Frame, Caller, ReceiptOf
    <3>2. QED
      BY <1>1, <1>2, <1>3, <2>2, <3>1
  <2>3. QED
    BY <1>7, <2>1, <2>2, Zenon DEF Step
<1>8. QED
  BY <1>5, <1>6, <1>7

\* An execution from its start to its n-th state.
Path(p, n) ==
    /\ p[1] = Start
    /\ \A i \in 1 .. n - 1 : p[i].outcome = "executing" /\ p[i + 1] = Then(p[i])

\* A path is one whatever happens, while the ledger stays.
LEMMA PathPrimed ==
    ASSUME UNCHANGED vars, NEW p, NEW n
    PROVE  Path(p, n)' <=> Path(p, n)
<1>1. \A s : Then(s)' = Then(s)
  BY DEF Then, NextItem, NextInput, NodeOf, NodeAt, Root, vars
<1>2. Start' = Start
  BY DEF Start, State
<1>3. QED
  BY <1>1, <1>2 DEF Path

\* A path goes on as its last state does.
LEMMA PathGrows ==
    ASSUME NEW p, NEW n \in Nat \ {0}, Path(p, n), p[n].outcome = "executing"
    PROVE  \E q : Path(q, n + 1) /\ q[n + 1] = Then(p[n])
<1> DEFINE q == [i \in 1 .. n + 1 |-> IF i = n + 1 THEN Then(p[n]) ELSE p[i]]
<1>1. q[1] = p[1] /\ q[n + 1] = Then(p[n]) /\ \A i \in 1 .. n : q[i] = p[i]
  OBVIOUS
<1> HIDE DEF q
<1>2. ASSUME NEW i \in 1 .. (n + 1) - 1
      PROVE  q[i].outcome = "executing" /\ q[i + 1] = Then(q[i])
  <2>1. CASE i = n
    BY <1>1, <2>1
  <2>2. CASE i # n
    <3>1. i \in 1 .. n - 1 /\ i + 1 \in 1 .. n /\ i \in 1 .. n
      BY <2>2
    <3>2. QED
      BY <1>1, <3>1 DEF Path
  <2>3. QED
    BY <2>1, <2>2
<1>3. QED
  BY <1>1, <1>2 DEF Path

-----------------------------------------------------------------------------
(* A replay goes the way the run went *)

ReplayInv ==
    /\ \E S : receipts \in Seq(S) /\ original \in Seq(S) /\ expected \in Seq(S)
    /\ outcome # "waiting" /\ verdict.kind = "none" =>
          \E p, n : n \in Nat \ {0} /\ Path(p, n) /\ p[n] = Now
    /\ verdict.kind = "replaying" =>
          \E p, n, m :
              /\ n \in Nat \ {0} /\ m \in 1 .. n
              /\ Path(p, n) /\ p[n].outcome = "executed" /\ p[n].receipts = original
              /\ p[m] = Now
    /\ verdict.kind \notin {"none", "replaying"} =>
          outcome = "verified" /\ verdict = Compared(original, expected)

\* A claim is a sequence of receipts as well.
LEMMA ClaimType ==
    ASSUME NEW S, NEW rs \in Seq(S), rs # <<>>, NEW claim \in Claims(rs)
    PROVE  \E T : claim \in Seq(T) /\ rs \in Seq(T)
<1>1. PICK n \in Nat \ {0} : n = Len(rs) /\ DOMAIN rs = 1 .. n
  BY LenProperties, EmptySeq
<1> DEFINE last == [rs[n] EXCEPT !.value = NoValue]
           T == S \cup {last} \cup {[rs[k] EXCEPT !.value = NoValue] : k \in 1 .. n}
<1>2. rs \in Seq(T)
  <2>1. S \subseteq T
    OBVIOUS
  <2> HIDE DEF T
  <2>2. QED
    BY <2>1, SeqMonotonic
<1>3. \A k \in 1 .. n : rs[k] \in T /\ [rs[k] EXCEPT !.value = NoValue] \in T
  BY <1>1, ElementOfSeq
<1>4. last \in T
  OBVIOUS
<1> HIDE DEF T, last
<1>5. CASE claim = rs
  BY <1>2, <1>5
<1>6. CASE claim = SubSeq(rs, 1, Len(rs) - 1)
  <2>1. claim \in Seq(T)
    BY <1>1, <1>2, <1>3, <1>6, SubSeqProperties
  <2>2. QED
    BY <1>2, <2>1
<1>7. CASE claim = Append(rs, last)
  <2>1. claim \in Seq(T)
    BY <1>2, <1>4, <1>7, AppendProperties
  <2>2. QED
    BY <1>2, <2>1
<1>8. ASSUME NEW k \in DOMAIN rs, claim = [rs EXCEPT ![k].value = NoValue]
      PROVE  claim \in Seq(T)
  <2>1. claim = [i \in 1 .. n |-> IF i = k THEN [rs[k] EXCEPT !.value = NoValue] ELSE rs[i]]
    <3>1. rs = [i \in 1 .. n |-> rs[i]]
      BY <1>1, <1>2, LenProperties
    <3>2. QED
      BY <1>1, <1>8, <3>1
  <2>2. claim \in [1 .. n -> T]
    BY <1>1, <1>3, <2>1
  <2>3. QED
    BY <2>2, SeqDef
<1>9. QED
  BY <1>1, <1>2, <1>5, <1>6, <1>7, <1>8 DEF Claims, last

\* What Compared says of two sequences.
LEMMA ComparedIs ==
    ASSUME NEW S, NEW a \in Seq(S), NEW c \in Seq(S), NEW told, told = Compared(a, c)
    PROVE  /\ told.kind = "ok" => c = a
           /\ told.kind = "diverged" =>
                 /\ c[told.at] # a[told.at]
                 /\ \A k \in 1 .. told.at - 1 : c[k] = a[k]
           /\ told.kind = "length" => Len(c) # Len(a)
           /\ told.kind \notin {"none", "replaying"}
<1> DEFINE differ == {k \in DOMAIN a \cap DOMAIN c : a[k] # c[k]}
<1>1. PICK m \in Nat, n \in Nat : /\ m = Len(a) /\ DOMAIN a = 1 .. m
                                  /\ n = Len(c) /\ DOMAIN c = 1 .. n
  BY LenProperties
<1>2. CASE differ # {}
  <2>1. differ \subseteq Nat
    BY <1>1
  <2>2. \E k \in differ : \A j \in differ : k <= j
    <3> HIDE DEF differ
    <3>1. QED
      BY <1>2, <2>1, LeastNatural
  <2>3. PICK at : at = CHOOSE k \in differ : \A j \in differ : k <= j
    OBVIOUS
  <2>4. at \in differ /\ \A j \in differ : at <= j
    BY <2>2, <2>3
  <2>5. told = [kind |-> "diverged", at |-> at]
    BY <1>2, <2>3 DEF Compared
  <2>6. ASSUME NEW k \in 1 .. at - 1
        PROVE  c[k] = a[k]
    <3>1. k \in 1 .. m /\ k \in 1 .. n /\ ~ (at <= k)
      BY <1>1, <2>4
    <3>2. QED
      BY <1>1, <2>4, <3>1
  <2>7. QED
    BY <2>4, <2>5, <2>6
<1>3. CASE differ = {} /\ m # n
  <2>1. told = [kind |-> "length"]
    BY <1>1, <1>3 DEF Compared
  <2>2. QED
    BY <1>1, <1>3, <2>1
<1>4. CASE differ = {} /\ m = n
  <2>1. told = [kind |-> "ok"]
    BY <1>1, <1>4 DEF Compared
  <2>2. \A k \in 1 .. n : a[k] = c[k]
    BY <1>1, <1>4
  <2>3. a = [k \in 1 .. n |-> a[k]] /\ c = [k \in 1 .. n |-> c[k]]
    BY <1>1, <1>4, LenProperties
  <2>4. a = c
    BY <2>2, <2>3
  <2>5. QED
    BY <2>1, <2>4
<1>5. QED
  BY <1>2, <1>3, <1>4

\* Before the run there is nothing to replay.
LEMMA ReplayInit == RunInit => ReplayInv
<1>1. <<>> \in Seq({})
  OBVIOUS
<1>2. QED
  BY <1>1 DEF RunInit, ReplayInv

\* Receipts stay a sequence.
LEMMA ReceiptsType ==
    ASSUME ReplayInv, ExecuteStep, UNCHANGED replay
    PROVE  \E T : receipts' \in Seq(T) /\ original' \in Seq(T) /\ expected' \in Seq(T)
<1>1. PICK S : receipts \in Seq(S) /\ original \in Seq(S) /\ expected \in Seq(S)
  BY DEF ReplayInv
<1>2. original' = original /\ expected' = expected
  BY DEF replay
<1>3. CASE receipts' = receipts
  BY <1>1, <1>2, <1>3
<1>4. CASE \E r : receipts' = Append(receipts, r)
  <2>1. PICK r : receipts' = Append(receipts, r)
    BY <1>4
  <2> DEFINE T == S \cup {r}
  <2>2. S \subseteq T /\ r \in T
    OBVIOUS
  <2> HIDE DEF T
  <2>3. receipts \in Seq(T) /\ original \in Seq(T) /\ expected \in Seq(T)
    BY <1>1, <2>2, SeqMonotonic
  <2>4. QED
    BY <1>2, <2>1, <2>2, <2>3, AppendProperties
<1>5. receipts' = receipts \/ \E r : receipts' = Append(receipts, r)
  BY Zenon DEF ExecuteStep, StartExecution, SkipItem, BindConstant, EvaluateRoot, TakeInput,
               EvaluateInput, Step, Fail, FinishExecution
<1>6. QED
  BY <1>3, <1>4, <1>5

\* A step of the run prolongs its path; a step of the replay follows it.
LEMMA ExecuteReplay ==
    ASSUME EvaluationInv, MeaningInv, ReplayInv, ExecuteStep, UNCHANGED <<vars, replay>>
    PROVE  ReplayInv'
<1>0. UNCHANGED vars /\ verdict' = verdict /\ original' = original /\ expected' = expected
  BY DEF replay
<1>1. \E T : receipts' \in Seq(T) /\ original' \in Seq(T) /\ expected' \in Seq(T)
  BY ReceiptsType
<1>2. CASE StartExecution
  <2>1. Now' = Start
    BY <1>2 DEF StartExecution, MeaningInv, WaitingInv, Now, Start, State
  <2>2. verdict.kind = "none"
    BY <1>2 DEF StartExecution, MeaningInv, WaitingInv
  <2>3. \E p, n : n \in Nat \ {0} /\ Path(p, n) /\ p[n] = Start
    <3>1. Path([i \in 1 .. 1 |-> Start], 1)
      BY DEF Path
    <3>2. QED
      BY <3>1
  <2>4. \E p, n : n \in Nat \ {0} /\ Path(p, n)' /\ p[n] = Now'
    BY <1>0, <2>1, <2>3, PathPrimed
  <2>5. QED
    BY <1>0, <1>1, <2>2, <2>4 DEF ReplayInv
<1>3. CASE SkipItem \/ BindConstant \/ EvaluateRoot \/ FinishExecution \/ TakeInput \/ EvaluateInput \/ Step
  <2>1. outcome = "executing" /\ Now' = Then(Now)
    BY <1>3, ThenItem, ThenInput
  <2>2. Now.outcome = "executing"
    BY <2>1, NowFields
  <2>3. ASSUME verdict.kind = "none"
        PROVE  \E p, n : n \in Nat \ {0} /\ Path(p, n)' /\ p[n] = Now'
    <3>1. PICK p, n : n \in Nat \ {0} /\ Path(p, n) /\ p[n] = Now
      BY <2>1, <2>3 DEF ReplayInv
    <3>2. PICK q : Path(q, n + 1) /\ q[n + 1] = Then(p[n])
      BY <2>2, <3>1, PathGrows
    <3>3. n + 1 \in Nat \ {0} /\ Path(q, n + 1)'
      BY <1>0, <3>1, <3>2, PathPrimed
    <3>4. QED
      BY <2>1, <3>1, <3>2, <3>3
  <2>4. ASSUME verdict.kind = "replaying"
        PROVE  \E p, n, m :
                  /\ n \in Nat \ {0} /\ m \in 1 .. n
                  /\ Path(p, n)' /\ p[n].outcome = "executed" /\ p[n].receipts = original
                  /\ p[m] = Now'
    <3>1. PICK p, n, m :
              /\ n \in Nat \ {0} /\ m \in 1 .. n
              /\ Path(p, n) /\ p[n].outcome = "executed" /\ p[n].receipts = original
              /\ p[m] = Now
      BY <2>4 DEF ReplayInv
    <3>2. m # n
      BY <2>2, <3>1
    <3>3. m \in 1 .. n - 1 /\ m + 1 \in 1 .. n
      BY <3>1, <3>2
    <3>4. p[m + 1] = Now'
      BY <2>1, <3>1, <3>3 DEF Path
    <3>5. Path(p, n)'
      BY <1>0, <3>1, PathPrimed
    <3>6. QED
      BY <3>1, <3>3, <3>4, <3>5
  <2>5. verdict.kind \in {"none", "replaying"}
    BY <2>1 DEF ReplayInv
  <2>6. QED
    BY <1>0, <1>1, <2>3, <2>4, <2>5 DEF ReplayInv
<1>4. QED
  BY <1>2, <1>3 DEF ExecuteStep

\* A replay starts where the run started, with the run's path before it.
LEMMA StartReplays ==
    ASSUME ReplayInv, StartReplay, UNCHANGED vars
    PROVE  ReplayInv'
<1>1. /\ outcome = "executed" /\ verdict.kind = "none" /\ receipts # <<>>
      /\ expected' \in Claims(receipts) /\ original' = receipts
      /\ verdict' = [kind |-> "replaying"] /\ outcome' = "executing"
      /\ item' = 1 /\ frames' = <<>> /\ bindings' = <<>> /\ values' = <<>> /\ receipts' = <<>>
  BY DEF StartReplay
<1>2. PICK S : receipts \in Seq(S)
  BY DEF ReplayInv
<1>3. PICK T : expected' \in Seq(T) /\ receipts \in Seq(T)
  BY <1>1, <1>2, ClaimType
<1>4. \E U : receipts' \in Seq(U) /\ original' \in Seq(U) /\ expected' \in Seq(U)
  <2>1. <<>> \in Seq(T)
    OBVIOUS
  <2>2. QED
    BY <1>1, <1>3, <2>1
<1>5. PICK p, n : n \in Nat \ {0} /\ Path(p, n) /\ p[n] = Now
  BY <1>1 DEF ReplayInv
<1>6. p[n].outcome = "executed" /\ p[n].receipts = original'
  BY <1>1, <1>5, NowFields
<1>7. Now' = Start
  BY <1>1 DEF Now, Start, State
<1>8. p[1] = Now' /\ Path(p, n)' /\ 1 \in 1 .. n
  <2>1. p[1] = Start
    BY <1>5 DEF Path
  <2>2. Path(p, n)'
    BY <1>5, PathPrimed
  <2>3. QED
    BY <1>5, <1>7, <2>1, <2>2
<1>9. verdict'.kind = "replaying"
  BY <1>1
<1>10. QED
  BY <1>4, <1>5, <1>6, <1>8, <1>9 DEF ReplayInv

\* A replay that is done is where the run was.
LEMMA VerifyCompares ==
    ASSUME ReplayInv, Verify, UNCHANGED vars
    PROVE  ReplayInv'
<1>1. /\ outcome = "executed" /\ verdict.kind = "replaying"
      /\ verdict' = Compared(receipts, expected) /\ outcome' = "verified"
      /\ UNCHANGED <<receipts, expected, original>>
  BY DEF Verify
<1>2. PICK p, n, m :
          /\ n \in Nat \ {0} /\ m \in 1 .. n
          /\ Path(p, n) /\ p[n].outcome = "executed" /\ p[n].receipts = original
          /\ p[m] = Now
  BY <1>1 DEF ReplayInv
<1>3. p[m].outcome = "executed" /\ p[m].receipts = receipts
  BY <1>1, <1>2, NowFields
<1>4. m = n
  <2>1. m \in 1 .. n - 1 => p[m].outcome = "executing"
    BY <1>2 DEF Path
  <2>2. QED
    BY <1>2, <1>3, <2>1
<1>5. receipts = original
  BY <1>2, <1>3, <1>4
<1>6. PICK S : receipts \in Seq(S) /\ original \in Seq(S) /\ expected \in Seq(S)
  BY DEF ReplayInv
<1>7. verdict'.kind \notin {"none", "replaying"}
  BY <1>1, <1>6, ComparedIs
<1>8. verdict' = Compared(original', expected')
  BY <1>1, <1>5
<1>9. \E U : receipts' \in Seq(U) /\ original' \in Seq(U) /\ expected' \in Seq(U)
  BY <1>1, <1>6
<1>10. QED
  BY <1>1, <1>7, <1>8, <1>9 DEF ReplayInv

\* Every step keeps it.
LEMMA ReplayStep ==
    EvaluationInv /\ MeaningInv /\ ReplayInv /\ [RunNext]_allVars => ReplayInv'
<1> SUFFICES ASSUME EvaluationInv, MeaningInv, ReplayInv, [RunNext]_allVars
             PROVE  ReplayInv'
  OBVIOUS
<1>1. CASE Next /\ UNCHANGED <<execution, replay>>
  <2>1. result = "building"
    BY <1>1 DEF Next, Begin, Advance, CollectChild, EnterChild, CycleFound, Intern, Finish,
                Waiting, Complete
  <2>2. outcome = "waiting"
    BY <2>1 DEF EvaluationInv
  <2>3. UNCHANGED <<receipts, outcome, verdict, original, expected>>
    BY <1>1 DEF execution, replay
  <2>4. verdict.kind = "none"
    BY <2>2 DEF MeaningInv, WaitingInv
  <2>5. QED
    BY <2>2, <2>3, <2>4 DEF ReplayInv
<1>2. CASE ExecuteStep /\ UNCHANGED <<vars, replay>>
  BY <1>2, ExecuteReplay
<1>3. CASE (StartReplay \/ Verify) /\ UNCHANGED vars
  BY <1>3, StartReplays, VerifyCompares
<1>4. CASE UNCHANGED allVars
  <2>1. UNCHANGED vars /\ UNCHANGED <<receipts, outcome, verdict, original, expected>>
    BY <1>4 DEF allVars, execution, replay
  <2>2. Now' = Now
    BY <1>4 DEF allVars, execution, Now, State
  <2>3. \A p, n : Path(p, n)' <=> Path(p, n)
    BY <2>1, PathPrimed
  <2>4. QED
    BY <2>1, <2>2, <2>3 DEF ReplayInv
<1>5. QED
  BY <1>1, <1>2, <1>3, <1>4 DEF RunNext

\* verify_replay tells the truth about the receipts it is given: a replay
\* repeats the run state by state, so it accepts the run's receipts and no
\* others, and points at the first one that differs.
THEOREM AlwaysReplayVerdict == RunSpec => []ReplayVerdict
<1>1. RunInit => ReplayInv
  BY ReplayInit
<1>2. EvaluationInv /\ MeaningInv /\ ReplayInv /\ [RunNext]_allVars => ReplayInv'
  BY ReplayStep
<1>3. ReplayInv => ReplayVerdict
  <2> SUFFICES ASSUME ReplayInv PROVE ReplayVerdict
    OBVIOUS
  <2>1. PICK S : original \in Seq(S) /\ expected \in Seq(S)
    BY DEF ReplayInv
  <2>2. verdict.kind \notin {"none", "replaying"} => verdict = Compared(original, expected)
    BY DEF ReplayInv
  <2>3. PICK told, a, c : told = verdict /\ a = original /\ c = expected
    OBVIOUS
  <2>4. ASSUME told.kind \notin {"none", "replaying"}
        PROVE  /\ told.kind = "ok" => c = a
               /\ told.kind = "diverged" =>
                     /\ c[told.at] # a[told.at]
                     /\ \A k \in 1 .. told.at - 1 : c[k] = a[k]
               /\ told.kind = "length" => Len(c) # Len(a)
    <3>1. a \in Seq(S) /\ c \in Seq(S) /\ told = Compared(a, c)
      BY <2>1, <2>2, <2>3, <2>4
    <3>2. QED
      BY <3>1, ComparedIs
  <2>5. QED
    BY <2>3, <2>4 DEF ReplayVerdict
<1>4. QED
  BY <1>1, <1>2, <1>3, MeaningInvariant, PTL DEF RunSpec
=============================================================================
