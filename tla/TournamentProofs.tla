-------------------------- MODULE TournamentProofs --------------------------
(***************************************************************************)
(* Theorems about Tournament, for any reviewers, prices and caps, any      *)
(* number of calls, attempts set aside and processes that die: what was    *)
(* paid is accounted for, and one board stays within the global cap.       *)
(***************************************************************************)
EXTENDS Tournament, FiniteSetTheorems, SequenceTheorems, TLAPS

-----------------------------------------------------------------------------
(* What a set of rows costs.  A sum is taken row by row, in the order the  *)
(* rows are chosen in; the least of the sets a fact fails of serves as the *)
(* induction principle.                                                    *)

\* Rows a sum can be taken of.
Priced(S) == IsFiniteSet(S) /\ \A row \in S : row.cost \in Nat

LEMMA PricedSubset ==
    ASSUME NEW S, Priced(S), NEW T, T \subseteq S
    PROVE  Priced(T)
BY FS_Subset DEF Priced

LEMMA PricedUnion ==
    ASSUME NEW S, Priced(S), NEW T, Priced(T)
    PROVE  Priced(S \cup T)
BY FS_Union DEF Priced

\* Among sets of some of S there is one with no smaller one among them.
LEMMA LeastSet ==
    ASSUME NEW S, IsFiniteSet(S), NEW B, B \subseteq SUBSET S, B # {}
    PROVE  \E b \in B : \A c \in B : ~ (c \subseteq b /\ c # b)
<1>1. B \subseteq FiniteSubsetsOf(S)
  BY FS_Subset DEF FiniteSubsetsOf
<1>2. IsWellFoundedOn(StrictSubsetOrdering(S), FiniteSubsetsOf(S))
  BY FS_StrictSubsetOrderingWellFounded
<1>3. PICK b \in B : \A c \in B : ~ (<<c, b>> \in StrictSubsetOrdering(S))
  BY <1>1, <1>2, WFMin
<1>4. ASSUME NEW c \in B, c \subseteq b, c # b PROVE FALSE
  BY <1>3, <1>4 DEF StrictSubsetOrdering
<1>5. QED
  BY <1>4

\* The row a sum begins with.
FirstOf(s) == CHOOSE row \in s : TRUE

SumBody(sum, s) == IF s = {} THEN 0 ELSE FirstOf(s).cost + sum[s \ {FirstOf(s)}]

SumOf(sum, S) == sum = [s \in SUBSET S |-> SumBody(sum, s)]

\* Cost is what its defining equation says, if anything is.
LEMMA CostUnfolds ==
    ASSUME NEW S
    PROVE  Cost(S) = (CHOOSE sum : SumOf(sum, S))[S]
BY Zenon DEF Cost, MapThenSumSet, MapThenFoldSet, SumOf, SumBody, FirstOf

LEMMA FirstIn ==
    ASSUME NEW s, s # {}
    PROVE  /\ FirstOf(s) \in s
           /\ s \ {FirstOf(s)} \subseteq s
           /\ s \ {FirstOf(s)} # s
BY DEF FirstOf

LEMMA SumReads ==
    ASSUME NEW d, NEW h, NEW s,
           s # {} => d[s \ {FirstOf(s)}] = h[s \ {FirstOf(s)}]
    PROVE  SumBody(d, s) = SumBody(h, s)
BY Zenon DEF SumBody

\* Sums over two sets agree on the rows of both.
LEMMA SumsAgree ==
    ASSUME NEW S, NEW T, IsFiniteSet(S), NEW d, NEW h, SumOf(d, S), SumOf(h, T),
           NEW s, s \subseteq S, s \subseteq T
    PROVE  d[s] = h[s]
<1> DEFINE Bad == {r \in SUBSET S : r \subseteq T /\ d[r] # h[r]}
<1>1. ASSUME Bad # {} PROVE FALSE
  <2>1. PICK b \in Bad : \A c \in Bad : ~ (c \subseteq b /\ c # b)
    <3>1. Bad \subseteq SUBSET S
      OBVIOUS
    <3> HIDE DEF Bad
    <3>2. QED
      BY <1>1, <3>1, LeastSet
  <2>2. d[b] = SumBody(d, b) /\ h[b] = SumBody(h, b)
    BY <2>1 DEF SumOf
  <2>3. b # {} => d[b \ {FirstOf(b)}] = h[b \ {FirstOf(b)}]
    <3> SUFFICES ASSUME b # {} PROVE d[b \ {FirstOf(b)}] = h[b \ {FirstOf(b)}]
      OBVIOUS
    <3>1. PICK c : c = b \ {FirstOf(b)} /\ c \subseteq b /\ c # b
      BY FirstIn
    <3>2. c \notin Bad
      BY <2>1, <3>1
    <3>3. QED
      BY <2>1, <3>1, <3>2
  <2>4. SumBody(d, b) = SumBody(h, b)
    BY <2>3, SumReads
  <2>5. QED
    BY <2>1, <2>2, <2>4
<1>2. QED
  BY <1>1

\* There is a sum over every finite set.
LEMMA SumExists ==
    ASSUME NEW S, IsFiniteSet(S)
    PROVE  \E sum : SumOf(sum, S)
<1> DEFINE Bad == {r \in SUBSET S : ~ \E sum : SumOf(sum, r)}
<1>1. ASSUME Bad # {} PROVE FALSE
  <2>1. PICK T \in Bad : \A c \in Bad : ~ (c \subseteq T /\ c # T)
    <3>1. Bad \subseteq SUBSET S
      OBVIOUS
    <3> HIDE DEF Bad
    <3>2. QED
      BY <1>1, <3>1, LeastSet
  <2>2. T \subseteq S
    BY <2>1
  <2> DEFINE Part(s) == CHOOSE sum : SumOf(sum, s)
  <2>3. ASSUME NEW s, s \subseteq T, s # T
        PROVE  SumOf(Part(s), s)
    <3>1. s \notin Bad
      BY <2>1, <2>3
    <3>2. \E sum : SumOf(sum, s)
      BY <2>2, <2>3, <3>1
    <3>3. QED
      BY <3>2
  <2> DEFINE Smaller == [s \in SUBSET T |-> IF s = T THEN 0 ELSE Part(s)[s]]
             d == [s \in SUBSET T |-> SumBody(Smaller, s)]
  <2> HIDE DEF Part
  <2>4. ASSUME NEW s \in SUBSET T, s # {}
        PROVE  d[s \ {FirstOf(s)}] = Smaller[s \ {FirstOf(s)}]
    <3>1. PICK c : c = s \ {FirstOf(s)} /\ c \subseteq s /\ c # s
      BY <2>4, FirstIn
    <3>2. c \subseteq T /\ c # T
      BY <3>1
    <3>3. SumOf(Part(c), c)
      BY <2>3, <3>2
    <3>4. Smaller[c] = Part(c)[c]
      BY <3>2
    <3>5. Part(c)[c] = SumBody(Part(c), c)
      BY <3>3 DEF SumOf
    <3>6. d[c] = SumBody(Smaller, c)
      BY <3>2
    <3>7. c # {} => Smaller[c \ {FirstOf(c)}] = Part(c)[c \ {FirstOf(c)}]
      <4> SUFFICES ASSUME c # {} PROVE Smaller[c \ {FirstOf(c)}] = Part(c)[c \ {FirstOf(c)}]
        OBVIOUS
      <4>1. PICK b : b = c \ {FirstOf(c)} /\ b \subseteq c /\ b # c
        BY FirstIn
      <4>2. b \subseteq T /\ b # T
        BY <3>2, <4>1
      <4>3. SumOf(Part(b), b)
        BY <2>3, <4>2
      <4>4. IsFiniteSet(c)
        BY <2>2, <3>2, FS_Subset
      <4>5. PICK x, y : x = Part(b) /\ y = Part(c)
        OBVIOUS
      <4>6. x[b] = y[b]
        <5>1. SumOf(x, b) /\ SumOf(y, c) /\ IsFiniteSet(b) /\ b \subseteq b /\ b \subseteq c
          BY <3>3, <4>1, <4>3, <4>4, <4>5, FS_Subset
        <5>2. QED
          BY <5>1, SumsAgree
      <4>7. Smaller[b] = x[b]
        BY <4>2, <4>5
      <4>8. QED
        BY <4>1, <4>5, <4>6, <4>7
    <3> HIDE DEF Smaller, d
    <3>8. SumBody(Smaller, c) = SumBody(Part(c), c)
      BY <3>7, SumReads
    <3>9. QED
      BY <3>1, <3>4, <3>5, <3>6, <3>8
  <2>5. ASSUME NEW s \in SUBSET T PROVE SumBody(d, s) = SumBody(Smaller, s)
    <3> HIDE DEF Smaller, d
    <3>1. QED
      BY <2>4, SumReads
  <2>6. SumOf(d, T)
    BY <2>5 DEF SumOf
  <2>7. QED
    BY <2>1, <2>6
<1>2. QED
  BY <1>1

\* A set costs its first row and what the others cost.
LEMMA CostFirst ==
    ASSUME NEW S, IsFiniteSet(S)
    PROVE  /\ S = {} => Cost(S) = 0
           /\ S # {} => Cost(S) = FirstOf(S).cost + Cost(S \ {FirstOf(S)})
<1>1. PICK d : d = (CHOOSE sum : SumOf(sum, S))
  OBVIOUS
<1>2. SumOf(d, S) /\ Cost(S) = d[S]
  BY <1>1, SumExists, CostUnfolds
<1>3. Cost(S) = SumBody(d, S)
  BY <1>2 DEF SumOf
<1>4. ASSUME S # {}
      PROVE  d[S \ {FirstOf(S)}] = Cost(S \ {FirstOf(S)})
  <2>1. PICK T : T = S \ {FirstOf(S)} /\ T \subseteq S
    BY <1>4, FirstIn
  <2>2. IsFiniteSet(T)
    BY <2>1, FS_Subset
  <2>3. PICK h : h = CHOOSE sum : SumOf(sum, T)
    OBVIOUS
  <2>4. SumOf(h, T) /\ Cost(T) = h[T]
    BY <2>2, <2>3, SumExists, CostUnfolds
  <2>5. d[T] = h[T]
    BY <1>2, <2>1, <2>4, SumsAgree
  <2>6. QED
    BY <2>1, <2>4, <2>5
<1>5. QED
  BY <1>3, <1>4 DEF SumBody

LEMMA CostType ==
    ASSUME NEW S, Priced(S)
    PROVE  Cost(S) \in Nat
<1> DEFINE Bad == {r \in SUBSET S : Cost(r) \notin Nat}
<1>1. ASSUME Bad # {} PROVE FALSE
  <2>1. PICK b \in Bad : \A c \in Bad : ~ (c \subseteq b /\ c # b)
    <3>1. Bad \subseteq SUBSET S /\ IsFiniteSet(S)
      BY DEF Priced
    <3> HIDE DEF Bad
    <3>2. QED
      BY <1>1, <3>1, LeastSet
  <2>2. b \subseteq S /\ Cost(b) \notin Nat
    BY <2>1
  <2>3. Priced(b) /\ IsFiniteSet(b)
    BY <2>2, PricedSubset DEF Priced
  <2>4. b # {}
    BY <2>2, <2>3, CostFirst
  <2>5. PICK c : c = b \ {FirstOf(b)} /\ c \subseteq b /\ c # b /\ FirstOf(b) \in b
    BY <2>4, FirstIn
  <2>6. Cost(c) \in Nat
    BY <2>1, <2>2, <2>5
  <2>7. Cost(b) = FirstOf(b).cost + Cost(c)
    BY <2>3, <2>4, <2>5, CostFirst
  <2>8. FirstOf(b).cost \in Nat
    BY <2>3, <2>5 DEF Priced
  <2>9. QED
    BY <2>2, <2>6, <2>7, <2>8
<1>2. QED
  BY <1>1

\* Any row may be taken first.
LEMMA CostRow ==
    ASSUME NEW S, Priced(S), NEW x \in S
    PROVE  Cost(S) = x.cost + Cost(S \ {x})
<1> DEFINE Fits(r) == \A y \in r : Cost(r) = y.cost + Cost(r \ {y})
           Bad == {r \in SUBSET S : ~ Fits(r)}
<1>1. ASSUME Bad # {} PROVE FALSE
  <2>1. PICK b \in Bad : \A c \in Bad : ~ (c \subseteq b /\ c # b)
    <3>1. Bad \subseteq SUBSET S /\ IsFiniteSet(S)
      BY DEF Priced
    <3> HIDE DEF Bad
    <3>2. QED
      BY <1>1, <3>1, LeastSet
  <2>2. b \subseteq S /\ Priced(b) /\ IsFiniteSet(b)
    <3>1. b \subseteq S
      BY <2>1
    <3>2. QED
      BY <3>1, PricedSubset DEF Priced
  <2>3. PICK y \in b : Cost(b) # y.cost + Cost(b \ {y})
    BY <2>1
  <2>4. PICK f : f = FirstOf(b) /\ f \in b
    BY <2>3, FirstIn
  <2>5. Cost(b) = f.cost + Cost(b \ {f})
    BY <2>2, <2>3, <2>4, CostFirst
  <2>6. y # f
    BY <2>3, <2>5
  <2>7. PICK c, e, g : c = b \ {f} /\ e = b \ {y} /\ g = (b \ {f}) \ {y}
    OBVIOUS
  <2>8. Fits(c) /\ Fits(e)
    <3>1. c \subseteq b /\ c # b /\ e \subseteq b /\ e # b
      BY <2>3, <2>4, <2>7
    <3>2. c \notin Bad /\ e \notin Bad
      BY <2>1, <3>1
    <3>3. QED
      BY <2>2, <3>1, <3>2
  <2>9. Cost(c) = y.cost + Cost(g)
    BY <2>3, <2>6, <2>7, <2>8
  <2>10. Cost(e) = f.cost + Cost(g)
    <3>1. f \in e /\ e \ {f} = g
      BY <2>4, <2>6, <2>7
    <3>2. QED
      BY <2>8, <3>1
  <2>11. Cost(g) \in Nat /\ y.cost \in Nat /\ f.cost \in Nat
    <3>1. g \subseteq b
      BY <2>7
    <3>2. Priced(g)
      BY <2>2, <3>1, PricedSubset
    <3>3. QED
      BY <2>2, <2>3, <2>4, <3>2, CostType DEF Priced
  <2>12. PICK u, v, w \in Nat : u = Cost(g) /\ v = y.cost /\ w = f.cost
    BY <2>11
  <2>13. Cost(b) = w + (v + u) /\ y.cost + Cost(e) = v + (w + u)
    BY <2>5, <2>7, <2>9, <2>10, <2>12
  <2>14. w + (v + u) = v + (w + u)
    BY <2>12
  <2>15. QED
    BY <2>3, <2>7, <2>13, <2>14
<1>2. S \notin Bad
  BY <1>1
<1>3. QED
  BY <1>2

\* More rows cost more, and two sets together at most what each does.
LEMMA CostMore ==
    ASSUME NEW S, Priced(S), NEW T, T \subseteq S
    PROVE  Cost(T) <= Cost(S)
<1> DEFINE Bad == {r \in SUBSET S : ~ (\A t \in SUBSET r : Cost(t) <= Cost(r))}
<1>1. ASSUME Bad # {} PROVE FALSE
  <2>1. PICK b \in Bad : \A c \in Bad : ~ (c \subseteq b /\ c # b)
    <3>1. Bad \subseteq SUBSET S /\ IsFiniteSet(S)
      BY DEF Priced
    <3> HIDE DEF Bad
    <3>2. QED
      BY <1>1, <3>1, LeastSet
  <2>2. b \subseteq S /\ Priced(b)
    <3>1. b \subseteq S
      BY <2>1
    <3>2. QED
      BY <3>1, PricedSubset
  <2>3. PICK t \in SUBSET b : ~ (Cost(t) <= Cost(b))
    BY <2>1
  <2>4. Cost(t) \in Nat /\ Cost(b) \in Nat
    BY <2>2, <2>3, PricedSubset, CostType
  <2>5. t # b
    BY <2>3, <2>4
  <2>6. PICK x \in b : x \notin t
    BY <2>3, <2>5
  <2>7. PICK c : c = b \ {x} /\ c \subseteq b /\ c # b /\ t \subseteq c
    BY <2>3, <2>6
  <2>8. Cost(t) <= Cost(c)
    BY <2>1, <2>2, <2>7
  <2>9. Cost(b) = x.cost + Cost(c)
    BY <2>2, <2>6, <2>7, CostRow
  <2>10. Cost(c) \in Nat /\ x.cost \in Nat
    BY <2>2, <2>6, <2>7, PricedSubset, CostType DEF Priced
  <2>11. QED
    BY <2>3, <2>4, <2>8, <2>9, <2>10
<1>2. QED
  BY <1>1

LEMMA CostTogether ==
    ASSUME NEW S, Priced(S), NEW T, Priced(T)
    PROVE  Cost(S \cup T) <= Cost(S) + Cost(T)
<1> DEFINE Bad == {r \in SUBSET T : ~ (Cost(S \cup r) <= Cost(S) + Cost(r))}
<1>1. ASSUME Bad # {} PROVE FALSE
  <2>1. PICK b \in Bad : \A c \in Bad : ~ (c \subseteq b /\ c # b)
    <3>1. Bad \subseteq SUBSET T /\ IsFiniteSet(T)
      BY DEF Priced
    <3> HIDE DEF Bad
    <3>2. QED
      BY <1>1, <3>1, LeastSet
  <2>2. b \subseteq T /\ ~ (Cost(S \cup b) <= Cost(S) + Cost(b))
    BY <2>1
  <2>3. Priced(b)
    BY <2>2, PricedSubset
  <2>4. b # {}
    <3>1. CASE b = {}
      <4>1. PICK s : s = S \cup b
        OBVIOUS
      <4>2. s = S
        BY <3>1, <4>1
      <4>3. PICK k \in Nat : k = Cost(S)
        BY CostType
      <4>4. Cost(b) = 0
        BY <2>3, <3>1, CostFirst DEF Priced
      <4>5. Cost(s) <= Cost(S) + Cost(b)
        BY <4>2, <4>3, <4>4
      <4>6. QED
        BY <2>2, <4>1, <4>5
    <3>2. QED
      BY <3>1
  <2>5. PICK x : x \in b
    BY <2>4, FirstIn
  <2>6. PICK c : c = b \ {x} /\ c \subseteq b /\ c # b
    <3>1. PICK c : c = b \ {x}
      OBVIOUS
    <3>2. QED
      BY <2>5, <3>1
  <2>7. Cost(S \cup c) <= Cost(S) + Cost(c)
    BY <2>1, <2>2, <2>6
  <2>8. Cost(b) = x.cost + Cost(c)
    BY <2>3, <2>5, <2>6, CostRow
  <2>9. Priced(c) /\ x.cost \in Nat
    BY <2>3, <2>5, <2>6, PricedSubset DEF Priced
  <2>10. Priced(S \cup c) /\ Priced(S \cup b)
    BY <2>3, <2>9, PricedUnion
  <2>11. Cost(S \cup b) <= x.cost + Cost(S \cup c)
    <3>1. CASE x \in S
      <4>1. PICK s, r : s = S \cup b /\ r = S \cup c
        OBVIOUS
      <4>2. s = r
        BY <2>6, <3>1, <4>1
      <4>3. PICK k \in Nat, m \in Nat : k = Cost(r) /\ m = x.cost
        BY <2>9, <2>10, <4>1, CostType
      <4>4. Cost(s) <= m + Cost(r)
        BY <4>2, <4>3
      <4>5. QED
        BY <4>1, <4>3, <4>4
    <3>2. CASE x \notin S
      <4>1. x \in S \cup b /\ (S \cup b) \ {x} = S \cup c
        BY <2>5, <2>6, <3>2
      <4>2. Cost(S \cup b) = x.cost + Cost(S \cup c)
        BY <2>10, <4>1, CostRow
      <4>3. Cost(S \cup b) \in Nat
        BY <2>10, CostType
      <4>4. QED
        BY <4>2, <4>3
    <3>3. QED
      BY <3>1, <3>2
  <2>12. PICK k, l, m, n, o \in Nat :
             /\ k = Cost(S) /\ l = Cost(c) /\ m = x.cost
             /\ n = Cost(S \cup c) /\ o = Cost(S \cup b)
    BY <2>9, <2>10, CostType
  <2>13. n <= k + l /\ o <= m + n /\ ~ (o <= k + (m + l))
    BY <2>2, <2>7, <2>8, <2>11, <2>12
  <2>14. QED
    BY <2>12, <2>13
<1>2. QED
  BY <1>1

-----------------------------------------------------------------------------
(* Where a paid answer can be *)

\* The names a command may call.
Callable == ToSet(Reviewers) \cup ToSet(Canaries)

\* What a process holds: the ledger as it is on disk, the answer in hand, and
\* names to call, none of them the board's.
ProcessInv ==
    /\ todo \in Seq(Callable)
    /\ pc \in {"idle", "next", "answered", "boardAnswered"}
    /\ pc \in {"next", "answered"} => memory = ledger
    /\ pc = "answered" => todo # <<>>
    /\ pc \notin {"answered", "boardAnswered"} => reply = {}
    /\ pc = "boardAnswered" => \A row \in reply : row.name = Board

\* Everything on disk and in hand was paid, and the board's ledger is its own.
PaidInv ==
    /\ Priced(paid)
    /\ ledger \subseteq paid /\ board \subseteq paid /\ reply \subseteq paid
    /\ \E S : archives \in Seq(S)
    /\ \A i \in DOMAIN archives : archives[i] \subseteq paid
    /\ \A row \in board : row.name = Board

\* An answer that was paid is on disk, in hand or lost; a board's may have
\* been overwritten.
Accounted ==
    \A row \in paid :
        row.name = Board \/ row \in RecordedRows \/ row \in reply \/ row.id \in lost

SpendInv == ProcessInv /\ PaidInv /\ Accounted

LEMMA RecordedIs ==
    \A row : row \in RecordedRows <=>
        row \in ledger \/ row \in board \/ \E i \in DOMAIN archives : row \in archives[i]
BY DEF RecordedRows, Ledgers, ToSet

LEMMA RecordedPaid ==
    ASSUME PaidInv
    PROVE  RecordedRows \subseteq paid
BY RecordedIs DEF PaidInv

LEMMA CallableList ==
    Reviewers \in Seq(Callable) /\ Canaries \in Seq(Callable)
<1>1. ASSUME NEW s \in Seq(Names), ToSet(s) \subseteq Callable
      PROVE  s \in Seq(Callable)
  <2>1. PICK n \in Nat : s \in [1 .. n -> Names] /\ DOMAIN s = 1 .. n
    BY SeqDef
  <2>2. \A i \in 1 .. n : s[i] \in Callable
    BY <1>1, <2>1 DEF ToSet
  <2>3. s \in [1 .. n -> Callable]
    BY <2>1, <2>2
  <2>4. QED
    BY <2>3, SeqDef
<1>2. QED
  BY <1>1, TournamentAssumption DEF Callable

\* A process ends with nothing in hand.
LEMMA ExitKeeps ==
    ASSUME SpendInv, Exit, ledger' = ledger, archives' = archives, paid' = paid,
           board' \subseteq paid, \A row \in board' : row.name = Board,
           \A row \in board : row.name = Board \/ row \in board',
           \A row \in reply : row.name = Board \/ row.id \in lost' \/ row \in board',
           lost \subseteq lost'
    PROVE  SpendInv'
<1>1. pc' = "idle" /\ todo' = <<>> /\ memory' = {} /\ reply' = {}
  BY DEF Exit
<1>2. ProcessInv'
  <2>1. <<>> \in Seq(Callable)
    OBVIOUS
  <2>2. QED
    BY <1>1, <2>1 DEF ProcessInv, Callable
<1>3. PaidInv'
  BY <1>1 DEF SpendInv, PaidInv, Priced
<1>4. Accounted'
  <2>1. \A row : row \in RecordedRows' <=>
            row \in ledger \/ row \in board' \/ \E i \in DOMAIN archives : row \in archives[i]
    BY RecordedIs DEF RecordedRows, Ledgers, ToSet
  <2>2. ASSUME NEW row \in paid
        PROVE  row.name = Board \/ row \in RecordedRows' \/ row.id \in lost'
    <3>1. row.name = Board \/ row \in RecordedRows \/ row \in reply \/ row.id \in lost
      BY DEF SpendInv, Accounted
    <3>2. QED
      BY <2>1, <3>1, RecordedIs
  <2>3. QED
    BY <1>1, <2>2 DEF Accounted
<1>5. QED
  BY <1>2, <1>3, <1>4 DEF SpendInv

\* The provider's answer is paid and in hand.
LEMMA ChargeKeeps ==
    ASSUME SpendInv, NEW n, Charge(n), UNCHANGED <<disk, command, processed, todo, memory, lost>>,
           reply = {},
           \/ pc' = "answered" /\ memory = ledger /\ todo # <<>>
           \/ pc' = "boardAnswered" /\ n = Board
    PROVE  SpendInv'
<1>1. PICK row : /\ paid' = paid \cup {row} /\ reply' = {row}
                 /\ row.name = n /\ row.cost \in Nat
  <2>1. PICK cost \in 0 .. Worst[n] + Overrun, ok \in BOOLEAN :
            /\ paid' = paid \cup {[id |-> Cardinality(paid) + 1, name |-> n, cost |-> cost, ok |-> ok]}
            /\ reply' = {[id |-> Cardinality(paid) + 1, name |-> n, cost |-> cost, ok |-> ok]}
    BY DEF Charge
  <2>2. cost \in Nat
    OBVIOUS
  <2>3. PICK row : row = [id |-> Cardinality(paid) + 1, name |-> n, cost |-> cost, ok |-> ok]
    OBVIOUS
  <2>4. row.name = n /\ row.cost \in Nat
    BY <2>2, <2>3
  <2>5. paid' = paid \cup {row} /\ reply' = {row}
    BY <2>1, <2>3
  <2>6. QED
    BY <2>4, <2>5
<1>2. /\ ledger' = ledger /\ archives' = archives /\ board' = board /\ todo' = todo
      /\ memory' = memory /\ lost' = lost
  BY DEF disk
<1>3. ProcessInv'
  BY <1>1, <1>2 DEF SpendInv, ProcessInv, Callable
<1>4. PaidInv'
  <2>1. Priced(paid \cup {row})
    BY <1>1, FS_AddElement DEF SpendInv, PaidInv, Priced
  <2>2. QED
    BY <1>1, <1>2, <2>1 DEF SpendInv, PaidInv, Priced
<1>5. Accounted'
  <2>1. RecordedRows' = RecordedRows
    BY <1>2 DEF RecordedRows, Ledgers
  <2>2. QED
    BY <1>1, <1>2, <2>1 DEF SpendInv, Accounted
<1>6. QED
  BY <1>3, <1>4, <1>5 DEF SpendInv

LEMMA RecordKeeps ==
    ASSUME SpendInv, Record
    PROVE  SpendInv'
<1>1. /\ pc = "answered" /\ ledger' = memory \cup reply
      /\ UNCHANGED <<archives, board, paid, lost>>
  BY DEF Record, Written
<1>2. memory = ledger
  BY <1>1 DEF SpendInv, ProcessInv
<1>3. \/ /\ pc' = "next" /\ memory' = memory \cup reply /\ todo' = Tail(todo) /\ reply' = {}
      \/ pc' = "idle" /\ todo' = <<>> /\ memory' = {} /\ reply' = {}
  BY Zenon DEF Record, Exit
<1>4. ProcessInv'
  <2>1. <<>> \in Seq(Callable)
    OBVIOUS
  <2>2. CASE /\ pc' = "next" /\ memory' = memory \cup reply /\ todo' = Tail(todo) /\ reply' = {}
    <3>1. Tail(todo) \in Seq(Callable)
      BY <1>1, HeadTailProperties DEF SpendInv, ProcessInv
    <3>2. QED
      BY <1>1, <2>1, <2>2, <3>1 DEF ProcessInv, Callable
  <2>3. CASE pc' = "idle" /\ todo' = <<>> /\ memory' = {} /\ reply' = {}
    BY <2>1, <2>3 DEF ProcessInv, Callable
  <2>4. QED
    BY <1>3, <2>2, <2>3
<1>5. PaidInv'
  BY <1>1, <1>2, <1>3 DEF SpendInv, PaidInv, Priced
<1>6. Accounted'
  <2>1. \A row : row \in RecordedRows' <=>
            row \in ledger' \/ row \in board \/ \E i \in DOMAIN archives : row \in archives[i]
    BY <1>1, RecordedIs DEF RecordedRows, Ledgers, ToSet
  <2>2. QED
    BY <1>1, <1>2, <2>1, RecordedIs DEF SpendInv, Accounted
<1>7. QED
  BY <1>4, <1>5, <1>6 DEF SpendInv

LEMMA SetAsideKeeps ==
    ASSUME SpendInv, SetAside
    PROVE  SpendInv'
<1>1. /\ archives' = Append(archives, ledger) /\ ledger' \subseteq ledger
      /\ UNCHANGED <<board, pc, todo, memory, reply, paid, lost>>
      /\ pc = "idle"
  BY DEF SetAside, process
<1>2. PICK S : archives \in Seq(S)
  BY DEF SpendInv, PaidInv
<1> DEFINE T == S \cup {ledger}
<1>3. archives \in Seq(T) /\ ledger \in T
  <2>1. S \subseteq T /\ ledger \in T
    OBVIOUS
  <2> HIDE DEF T
  <2>2. QED
    BY <1>2, <2>1, SeqMonotonic
<1> HIDE DEF T
<1>4. PICK n \in Nat :
          /\ DOMAIN archives = 1 .. n /\ DOMAIN archives' = 1 .. n + 1
          /\ \A i \in 1 .. n : archives'[i] = archives[i]
          /\ archives'[n + 1] = ledger
          /\ archives' \in Seq(T)
  <2>1. /\ archives' \in Seq(T) /\ Len(archives') = Len(archives) + 1
        /\ \A i \in 1 .. Len(archives) : archives'[i] = archives[i]
        /\ archives'[Len(archives) + 1] = ledger
    BY <1>1, <1>3, AppendProperties
  <2>2. Len(archives) \in Nat /\ DOMAIN archives = 1 .. Len(archives) /\ DOMAIN archives' = 1 .. Len(archives')
    BY <1>3, <2>1, LenProperties
  <2>3. QED
    BY <2>1, <2>2
<1>5. ProcessInv'
  BY <1>1 DEF SpendInv, ProcessInv, Callable
<1>6. \A i \in 1 .. n + 1 : archives'[i] \subseteq paid
  <2>1. \A i \in 1 .. n + 1 : i \in 1 .. n \/ i = n + 1
    OBVIOUS
  <2>2. QED
    BY <1>4, <2>1 DEF SpendInv, PaidInv
<1>7. PaidInv'
  BY <1>1, <1>4, <1>6 DEF SpendInv, PaidInv, Priced
<1>8. Accounted'
  <2>1. \A row : row \in RecordedRows' <=>
            row \in ledger' \/ row \in board \/ \E i \in DOMAIN archives' : row \in archives'[i]
    BY <1>1, RecordedIs DEF RecordedRows, Ledgers, ToSet
  <2>2. ASSUME NEW row \in RecordedRows PROVE row \in RecordedRows'
    <3>1. CASE row \in ledger
      <4>1. n + 1 \in DOMAIN archives' /\ row \in archives'[n + 1]
        BY <1>4, <3>1
      <4>2. QED
        BY <2>1, <4>1
    <3>2. CASE \E i \in DOMAIN archives : row \in archives[i]
      <4>1. PICK i \in 1 .. n : row \in archives[i]
        BY <1>4, <3>2
      <4>2. i \in DOMAIN archives' /\ row \in archives'[i]
        BY <1>4, <4>1
      <4>3. QED
        BY <2>1, <4>2
    <3>3. CASE row \in board
      BY <2>1, <3>3
    <3>4. QED
      BY <3>1, <3>2, <3>3, RecordedIs
  <2>3. QED
    BY <1>1, <2>2 DEF SpendInv, Accounted
<1>9. QED
  BY <1>5, <1>7, <1>8 DEF SpendInv

LEMMA SpendInit == Init => SpendInv
<1> SUFFICES ASSUME Init PROVE SpendInv
  OBVIOUS
<1>1. <<>> \in Seq(Callable) /\ <<>> \in Seq({})
  OBVIOUS
<1>2. IsFiniteSet({})
  BY FS_EmptySet
<1>3. ProcessInv
  BY <1>1 DEF Init, ProcessInv
<1>4. PaidInv
  BY <1>1, <1>2 DEF Init, PaidInv, Priced
<1>5. QED
  BY <1>3, <1>4 DEF Init, SpendInv, Accounted

LEMMA SpendStep == SpendInv /\ [Next]_vars => SpendInv'
<1> SUFFICES ASSUME SpendInv, [Next]_vars PROVE SpendInv'
  OBVIOUS
<1> DEFINE Still == UNCHANGED <<disk, memory, reply, paid, lost>>
<1>0. ASSUME UNCHANGED <<disk, paid, lost>>, reply' = reply
      PROVE  PaidInv' /\ Accounted'
  <2>1. UNCHANGED <<ledger, archives, board, paid, lost, reply>>
    BY <1>0 DEF disk
  <2>2. RecordedRows' = RecordedRows
    BY <2>1 DEF RecordedRows, Ledgers
  <2>3. PaidInv'
    BY <2>1 DEF SpendInv, PaidInv, Priced
  <2>4. QED
    BY <2>1, <2>2, <2>3 DEF SpendInv, Accounted
<1>1. CASE Start
  <2>1. /\ pc = "idle" /\ pc' = "next" /\ memory' = ledger /\ todo' \in {Canaries, Reviewers}
        /\ UNCHANGED <<disk, reply, paid, lost>>
    BY <1>1 DEF Start
  <2>2. ProcessInv'
    BY <2>1, CallableList DEF SpendInv, ProcessInv, Callable, disk
  <2>3. QED
    BY <1>0, <2>1, <2>2 DEF SpendInv
<1>2. CASE Skip \/ (CallFails /\ pc' = "next")
  <2>1. /\ pc = "next" /\ pc' = "next" /\ todo # <<>> /\ todo' = Tail(todo) /\ memory' = memory
        /\ reply' = reply /\ UNCHANGED <<disk, paid, lost>>
    BY <1>2 DEF Skip, CallFails, Pending, Exit
  <2>2. Tail(todo) \in Seq(Callable)
    BY <2>1, HeadTailProperties DEF SpendInv, ProcessInv
  <2>3. ProcessInv'
    BY <2>1, <2>2 DEF SpendInv, ProcessInv, Callable, disk
  <2>4. QED
    BY <1>0, <2>1, <2>3 DEF SpendInv
<1>3. CASE Refuse \/ Complete \/ (CallFails /\ pc' # "next")
  <2>1. Exit /\ pc = "next" /\ UNCHANGED <<disk, paid, lost>>
    BY <1>3 DEF Refuse, Complete, CallFails, Pending
  <2>2. /\ ledger' = ledger /\ archives' = archives /\ board' = board /\ paid' = paid /\ lost' = lost
        /\ reply = {}
    BY <2>1 DEF disk, SpendInv, ProcessInv
  <2>3. QED
    BY <2>1, <2>2, ExitKeeps DEF SpendInv, PaidInv
<1>4. CASE Call
  <2>1. /\ Charge(Head(todo)) /\ pc = "next" /\ pc' = "answered"
        /\ UNCHANGED <<disk, command, processed, todo, memory, lost>>
    BY <1>4 DEF Call, Pending
  <2>2. reply = {} /\ memory = ledger /\ todo # <<>>
    BY <1>4, <2>1 DEF SpendInv, ProcessInv, Call, Pending
  <2>3. PICK n : n = Head(todo)
    OBVIOUS
  <2>4. QED
    BY <2>1, <2>2, <2>3, ChargeKeeps
<1>5. CASE Record
  BY <1>5, RecordKeeps
<1>6. CASE BoardCall
  <2>1. /\ Charge(Board) /\ pc = "idle" /\ pc' = "boardAnswered"
        /\ UNCHANGED <<disk, command, processed, todo, memory, lost>>
    BY <1>6 DEF BoardCall
  <2>2. reply = {}
    BY <2>1 DEF SpendInv, ProcessInv
  <2>3. QED
    BY <2>1, <2>2, ChargeKeeps
<1>7. CASE BoardRecord
  <2>1. /\ pc = "boardAnswered" /\ board' = reply /\ Exit
        /\ UNCHANGED <<ledger, archives, paid, lost>>
    BY <1>7 DEF BoardRecord
  <2>2. /\ reply \subseteq paid /\ \A row \in reply : row.name = Board
        /\ \A row \in board : row.name = Board
    BY <2>1 DEF SpendInv, ProcessInv, PaidInv
  <2>3. QED
    BY <2>1, <2>2, ExitKeeps
<1>8. CASE Kill
  <2>1. /\ lost' = lost \cup {row.id : row \in reply} /\ Exit /\ UNCHANGED <<disk, paid>>
    BY <1>8 DEF Kill
  <2>2. ledger' = ledger /\ archives' = archives /\ board' = board /\ paid' = paid
    BY <2>1 DEF disk
  <2>3. QED
    BY <2>1, <2>2, ExitKeeps DEF SpendInv, PaidInv
<1>9. CASE SetAside
  BY <1>9, SetAsideKeeps
<1>10. CASE UNCHANGED vars
  <2>1. UNCHANGED <<disk, pc, todo, memory, reply, paid, lost>>
    BY <1>10 DEF vars, process
  <2>2. ProcessInv'
    BY <2>1 DEF SpendInv, ProcessInv, Callable, disk
  <2>3. QED
    BY <1>0, <2>1, <2>2 DEF SpendInv
<1>11. QED
  BY <1>1, <1>2, <1>3, <1>4, <1>5, <1>6, <1>7, <1>8, <1>9, <1>10 DEF Next

\* No paid answer goes missing without a process dying or a board being
\* bought again: it is in a ledger, in the hands of the process that asked for
\* it, or was lost with one.
THEOREM AlwaysAccounted == Spec => []Accounted
<1>1. SpendInv => Accounted
  BY DEF SpendInv
<1>2. QED
  BY <1>1, SpendInit, SpendStep, PTL DEF Spec

-----------------------------------------------------------------------------
\* As long as one board is bought, whatever attempts are set aside and whoever
\* dies when: a board call keeps everything paid within the global cap, if
\* what was lost is within the reserve.
THEOREM AlwaysWithinGlobal ==
    ASSUME MaxBoards <= 1
    PROVE  Spec => BoardWithinGlobal
<1> DEFINE Bought == (\E row \in paid' \ paid : row.name = Board) /\ LostCost <= Reserve
                     => Cost(paid') <= GlobalCap + Overrun
<1>1. SpendInv /\ [Next]_vars => [Bought]_vars
  <2> SUFFICES ASSUME SpendInv, [Next]_vars,
                      NEW row \in paid' \ paid, row.name = Board, LostCost <= Reserve
               PROVE  Cost(paid') <= GlobalCap + Overrun
    OBVIOUS
  <2>1. paid' # paid
    OBVIOUS
  <2>2. CASE Call
    <3>1. Charge(Head(todo)) /\ todo # <<>>
      BY <2>2 DEF Call, Pending
    <3>2. row.name = Head(todo)
      BY <3>1 DEF Charge
    <3>3. Head(todo) \in Callable
      BY <3>1, HeadTailProperties DEF SpendInv, ProcessInv
    <3>4. QED
      BY <3>2, <3>3, TournamentAssumption DEF Callable
  <2>3. CASE BoardCall
    <3>1. /\ Charge(Board) /\ pc = "idle" /\ BoardAffordable(Cost(RecordedRows))
          /\ Cardinality({r \in paid : r.name = Board}) < MaxBoards
      BY <2>3 DEF BoardCall
    <3>2. paid' = paid \cup {row} /\ row.cost \in 0 .. Worst[Board] + Overrun
      BY <3>1 DEF Charge
    <3>3. {Worst[Board], Overrun, GlobalCap, Reserve, MaxBoards} \subseteq Nat
      BY TournamentAssumption DEF Names
    <3>4. \A r \in paid : r.name # Board
      <4>1. PICK B : B = {r \in paid : r.name = Board}
        OBVIOUS
      <4>2. IsFiniteSet(B)
        BY <4>1, FS_Subset DEF SpendInv, PaidInv, Priced
      <4>3. Cardinality(B) \in Nat /\ Cardinality(B) < MaxBoards
        BY <3>1, <4>1, <4>2, FS_CardinalityType
      <4>4. Cardinality(B) = 0
        BY <3>3, <4>3
      <4>5. B = {}
        BY <4>2, <4>4, FS_EmptySet
      <4>6. QED
        BY <4>1, <4>5
    <3>5. PICK Lost : Lost = {r \in paid : r.id \in lost}
      OBVIOUS
    <3>6. paid \subseteq RecordedRows \cup Lost
      <4>1. reply = {}
        BY <3>1 DEF SpendInv, ProcessInv
      <4>2. QED
        BY <3>4, <3>5, <4>1 DEF SpendInv, Accounted
    <3>7. Priced(paid) /\ Priced(RecordedRows) /\ Priced(Lost)
      BY <3>5, RecordedPaid, PricedSubset DEF SpendInv, PaidInv
    <3>8. Cost(paid) <= Cost(RecordedRows) + Cost(Lost)
      <4>1. PICK U : U = RecordedRows \cup Lost /\ Priced(U) /\ paid \subseteq U
        BY <3>6, <3>7, PricedUnion
      <4>2. Cost(paid) <= Cost(U) /\ Cost(U) <= Cost(RecordedRows) + Cost(Lost)
        BY <3>7, <4>1, CostMore, CostTogether
      <4>3. PICK k \in Nat, l \in Nat, m \in Nat, n \in Nat :
                k = Cost(paid) /\ l = Cost(U) /\ m = Cost(RecordedRows) /\ n = Cost(Lost)
        BY <3>7, <4>1, CostType
      <4>4. k <= l /\ l <= m + n
        BY <4>2, <4>3
      <4>5. QED
        BY <4>3, <4>4
    <3>9. Cost(paid') = row.cost + Cost(paid)
      <4>1. PICK P : P = paid' /\ P = paid \cup {row} /\ P \ {row} = paid /\ row \in P
        BY <3>2
      <4>2. Priced(P)
        <5>1. Priced({row})
          <6>1. row.cost \in Nat
            BY <3>2, <3>3
          <6>2. IsFiniteSet({row})
            BY FS_Singleton
          <6>3. QED
            BY <6>1, <6>2 DEF Priced
        <5>2. QED
          BY <3>7, <4>1, <5>1, PricedUnion
      <4>3. Cost(P) = row.cost + Cost(P \ {row})
        BY <4>1, <4>2, CostRow
      <4>4. QED
        BY <4>1, <4>3
    <3>10. PICK paidBefore \in Nat, recorded \in Nat, gone \in Nat, worst \in Nat, cost \in Nat :
               /\ paidBefore = Cost(paid) /\ recorded = Cost(RecordedRows) /\ gone = Cost(Lost)
               /\ worst = Worst[Board] /\ cost = row.cost
      <4>1. row.cost \in Nat
        BY <3>2, <3>3
      <4>2. QED
        BY <3>3, <3>7, <4>1, CostType
    <3>11. /\ paidBefore <= recorded + gone
           /\ cost <= worst + Overrun
           /\ recorded + Reserve + worst <= GlobalCap
           /\ gone <= Reserve
           /\ Cost(paid') = cost + paidBefore
      BY <3>1, <3>2, <3>3, <3>5, <3>8, <3>9, <3>10 DEF BoardAffordable, LostCost
    <3>12. cost + paidBefore <= GlobalCap + Overrun
      BY <3>3, <3>10, <3>11
    <3>13. QED
      BY <3>11, <3>12
  <2>4. CASE ~Call /\ ~BoardCall
    BY <2>1, <2>4 DEF Next, vars, Start, Skip, Refuse, CallFails, Record, Complete, BoardRecord, Kill, SetAside
  <2>5. QED
    BY <2>2, <2>3, <2>4
<1>2. QED
  BY <1>1, SpendInit, SpendStep, PTL DEF Spec, BoardWithinGlobal
=============================================================================
