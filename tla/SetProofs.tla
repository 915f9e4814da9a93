------------------------------ MODULE SetProofs ------------------------------
(***************************************************************************)
(* Facts about finite sets that the proofs of the decisions share: their   *)
(* elements in the order of a relation, their greatest and least ones, and *)
(* what is built of them one element at a time.                            *)
(***************************************************************************)
EXTENDS Ranks, Integers, Sequences, FiniteSets, FiniteSetTheorems, SequenceTheorems, WellFoundedInduction, TLAPS

\* The places of a sequence of length n are n.
LEMMA IntervalSize ==
    ASSUME NEW n \in Nat
    PROVE  IsFiniteSet(1 .. n) /\ Cardinality(1 .. n) = n
  BY FS_Interval

\* A strict total order on a set.
Orders(R, S) ==
  /\ \A x \in S : <<x, x>> \notin R
  /\ \A x, y, z \in S : <<x, y>> \in R /\ <<y, z>> \in R => <<x, z>> \in R
  /\ \A x, y \in S : x = y \/ <<x, y>> \in R \/ <<y, x>> \in R

\* Ranks follow the order.
LEMMA RanksFollow ==
    ASSUME NEW S, IsFiniteSet(S), NEW R, Orders(R, S)
    PROVE  /\ \A x \in S : Rank(S, R, x) \in 0 .. (Cardinality(S) - 1)
           /\ \A x, y \in S : <<x, y>> \in R => Rank(S, R, x) < Rank(S, R, y)
<1> DEFINE Below(x) == {y \in S : <<y, x>> \in R}
<1>0. \A x : IsFiniteSet(Below(x)) /\ Cardinality(Below(x)) \in Nat
  BY FS_Subset, FS_CardinalityType
<1>9. \A x : Rank(S, R, x) = Cardinality(Below(x))
  BY DEF Rank
<1>1. ASSUME NEW x \in S PROVE Rank(S, R, x) \in 0 .. (Cardinality(S) - 1)
  <2>1. Below(x) \subseteq S /\ Below(x) # S
    BY DEF Orders
  <2>3. Cardinality(S) \in Nat
    BY FS_CardinalityType
  <2> HIDE DEF Below
  <2>2. Cardinality(Below(x)) < Cardinality(S)
    BY <1>0, <2>1, <2>3, FS_Subset
  <2> QED BY <1>0, <1>9, <2>2, <2>3
<1>2. ASSUME NEW x \in S, NEW y \in S, <<x, y>> \in R PROVE Rank(S, R, x) < Rank(S, R, y)
  <2>1. Below(x) \subseteq Below(y) /\ x \in Below(y) /\ x \notin Below(x)
    BY <1>2 DEF Orders
  <2>2. Cardinality(Below(x)) < Cardinality(Below(y))
    <3> HIDE DEF Below
    <3> QED BY <2>1, <1>0, FS_Subset
  <2> QED BY <2>2 DEF Rank
<1> QED BY <1>1, <1>2

\* Every place up to the size of the set is taken, by one element.
LEMMA PlacesTaken ==
    ASSUME NEW S, IsFiniteSet(S), NEW R, Orders(R, S)
    PROVE  /\ Cardinality(S) \in Nat
           /\ \A k \in 1 .. Cardinality(S) : Nth(S, R, k) \in S /\ Rank(S, R, Nth(S, R, k)) = k - 1
           /\ \A x \in S : \E k \in 1 .. Cardinality(S) : x = Nth(S, R, k)
           /\ \A j, k \in 1 .. Cardinality(S) : j < k <=> <<Nth(S, R, j), Nth(S, R, k)>> \in R
<1> DEFINE n == Cardinality(S)
           f == [x \in S |-> Rank(S, R, x)]
<1>0. n \in Nat
  BY FS_CardinalityType
<1>1. f \in [S -> 0 .. (n - 1)]
  BY RanksFollow
<1>2. \A x, y \in S : Rank(S, R, x) = Rank(S, R, y) => x = y
  <2> SUFFICES ASSUME NEW x \in S, NEW y \in S, Rank(S, R, x) = Rank(S, R, y), x # y PROVE FALSE
    OBVIOUS
  <2>1. <<x, y>> \in R \/ <<y, x>> \in R
    BY DEF Orders
  <2>2. Rank(S, R, x) \in Int /\ Rank(S, R, y) \in Int
    BY RanksFollow, <1>0
  <2> QED BY <2>1, <2>2, RanksFollow
<1>3. IsFiniteSet(0 .. (n - 1)) /\ Cardinality(0 .. (n - 1)) = n
  BY <1>0, FS_Interval
<1>4. f \in Injection(S, 0 .. (n - 1))
  BY <1>1, <1>2 DEF Injection, IsInjective
<1>5. f \in Surjection(S, 0 .. (n - 1))
  <2> HIDE DEF f, n
  <2>1. Cardinality(S) = n
    BY DEF n
  <2> QED BY <1>3, <1>4, <2>1, FS_SurjSameCardinalityImpliesInj, FS_Injection
<1>6. ASSUME NEW k \in 1 .. n PROVE Nth(S, R, k) \in S /\ Rank(S, R, Nth(S, R, k)) = k - 1
  <2>1. k - 1 \in 0 .. (n - 1)
    BY <1>0
  <2>2. \E x \in S : f[x] = k - 1
    BY <2>1, <1>5 DEF Surjection
  <2> QED BY <2>2 DEF Nth
<1>7. ASSUME NEW x \in S PROVE \E k \in 1 .. n : x = Nth(S, R, k)
  <2>1. Rank(S, R, x) + 1 \in 1 .. n
    BY <1>0, RanksFollow
  <2>2. (Rank(S, R, x) + 1) - 1 = Rank(S, R, x)
    BY <1>0, RanksFollow
  <2> QED BY <2>1, <2>2, <1>6, <1>2
<1>8. ASSUME NEW j \in 1 .. n, NEW k \in 1 .. n
      PROVE  j < k <=> <<Nth(S, R, j), Nth(S, R, k)>> \in R
  <2> DEFINE x == Nth(S, R, j)
             y == Nth(S, R, k)
  <2>1. x \in S /\ y \in S /\ Rank(S, R, x) = j - 1 /\ Rank(S, R, y) = k - 1
    BY <1>6
  <2> HIDE DEF x, y
  <2>2. <<x, y>> \in R => j < k
    BY <2>1, RanksFollow, <1>0
  <2>3. <<y, x>> \in R => k < j
    BY <2>1, RanksFollow, <1>0
  <2>4. x = y \/ <<x, y>> \in R \/ <<y, x>> \in R
    BY <2>1 DEF Orders
  <2>5. x = y => j = k
    BY <2>1, <1>0
  <2>6. j < k <=> <<x, y>> \in R
    BY <2>2, <2>3, <2>4, <2>5, <1>0
  <2> QED BY <2>6 DEF x, y
<1> QED BY <1>0, <1>6, <1>7, <1>8

\* Integers from the least on: each once, and a lesser one before a greater.
LEMMA AscendingIsInOrder ==
    ASSUME NEW S, S \subseteq Int, IsFiniteSet(S)
    PROVE  /\ Cardinality(S) \in Nat
           /\ DOMAIN Ascending(S) = 1 .. Cardinality(S)
           /\ \A k \in 1 .. Cardinality(S) : Ascending(S)[k] \in S
           /\ \A x \in S : \E k \in 1 .. Cardinality(S) : x = Ascending(S)[k]
           /\ \A j, k \in 1 .. Cardinality(S) : j < k <=> Ascending(S)[j] < Ascending(S)[k]
<1> DEFINE R == Upwards(S)
           n == Cardinality(S)
           at(k) == Nth(S, R, k)
<1>1. \A x, y \in S : <<x, y>> \in R <=> x < y
  BY DEF Upwards
<1>2. Orders(R, S)
  <2> HIDE DEF R
  <2> QED BY <1>1 DEF Orders
<1>3. /\ n \in Nat
      /\ \A k \in 1 .. n : at(k) \in S
  BY <1>2, PlacesTaken
<1>4. \A x \in S : \E k \in 1 .. n : x = at(k)
  BY <1>2, PlacesTaken
<1>5. \A j, k \in 1 .. n : j < k <=> <<at(j), at(k)>> \in R
  BY <1>2, PlacesTaken
<1>6. Ascending(S) = [k \in 1 .. n |-> at(k)]
  BY DEF Ascending, InOrder
<1> HIDE DEF R, n, at
<1>7. \A j, k \in 1 .. n : j < k <=> at(j) < at(k)
  BY <1>1, <1>3, <1>5
<1> QED BY <1>3, <1>4, <1>6, <1>7 DEF n

\* A set of numbers up to a bound has a greatest element.
LEMMA GreatestExists ==
    ASSUME NEW N \in Nat, NEW S, \A x \in S : x \in 0 .. N, S # {}
    PROVE  \E x \in S : \A y \in S : y <= x
<1> DEFINE T == {N - x : x \in S}
<1>1. \A x \in S : N - x \in Nat
  OBVIOUS
<1>2. T \subseteq Nat /\ T # {}
  BY <1>1, Zenon
<1>3. \A x \in S : N - x \in T
  OBVIOUS
<1>4. PICK t \in T : \A u \in T : ~(<<u, t>> \in OpToRel(<, Nat))
  <2> HIDE DEF T
  <2> QED BY <1>2, NatLessThanWellFounded, WFMin
<1>5. PICK x \in S : t = N - x
  BY <1>4
<1> HIDE DEF T
<1>6. ASSUME NEW y \in S PROVE y <= x
  <2>1. N - y \in T /\ N - y \in Nat /\ N - x \in Nat
    BY <1>1, <1>3
  <2>2. ~(N - y < N - x)
    BY <1>4, <1>5, <2>1 DEF OpToRel
  <2> QED BY <2>2
<1> QED BY <1>6

\* A set of numbers has a least element.
LEMMA LeastExists ==
    ASSUME NEW S, S \subseteq Nat, S # {}
    PROVE  \E x \in S : \A y \in S : x <= y
<1>1. PICK x \in S : \A y \in S : ~(<<y, x>> \in OpToRel(<, Nat))
  BY NatLessThanWellFounded, WFMin
<1>2. \A y \in S : ~(y < x)
  BY <1>1 DEF OpToRel
<1> QED BY <1>2

\* What is picked of a sequence are its elements at the places, in their order.
LEMMA PickedPlaces ==
    ASSUME NEW T, NEW s \in Seq(T), NEW places, places \subseteq DOMAIN s
    PROVE  /\ Cardinality(places) \in Nat
           /\ Picked(s, places) \in Seq(T) /\ Len(Picked(s, places)) = Cardinality(places)
           /\ DOMAIN Picked(s, places) = 1 .. Cardinality(places)
           /\ \A k \in 1 .. Cardinality(places) :
                Ascending(places)[k] \in places /\ Picked(s, places)[k] = s[Ascending(places)[k]]
           /\ \A i \in places : \E k \in 1 .. Cardinality(places) : i = Ascending(places)[k]
           /\ \A j, k \in 1 .. Cardinality(places) : j < k <=> Ascending(places)[j] < Ascending(places)[k]
<1> DEFINE n == Cardinality(places)
           place(k) == Ascending(places)[k]
<1>1. Len(s) \in Nat /\ DOMAIN s = 1 .. Len(s) /\ \A i \in 1 .. Len(s) : s[i] \in T
  BY ElementOfSeq, LenProperties
<1>2. IsFiniteSet(1 .. Len(s)) /\ 1 .. Len(s) \subseteq Int
  BY <1>1, FS_Interval
<1>3. IsFiniteSet(places) /\ places \subseteq Int
  BY <1>1, <1>2, FS_Subset
<1>4. Picked(s, places) = [k \in 1 .. n |-> s[place(k)]]
  BY DEF Picked
<1>5. n \in Nat /\ (\A k \in 1 .. n : place(k) \in places) /\ \A i \in places : \E k \in 1 .. n : i = place(k)
  BY <1>3, AscendingIsInOrder
<1>6. \A j, k \in 1 .. n : j < k <=> place(j) < place(k)
  BY <1>3, AscendingIsInOrder
<1> HIDE DEF n, place
<1>7. Picked(s, places) \in [1 .. n -> T]
  BY <1>1, <1>4, <1>5
<1>8. Picked(s, places) \in Seq(T)
  BY <1>5, <1>7, SeqDef
<1>9. DOMAIN Picked(s, places) = 1 .. n /\ \A k \in 1 .. n : Picked(s, places)[k] = s[place(k)]
  BY <1>4
<1>10. Len(Picked(s, places)) = n
  BY <1>5, <1>8, <1>9, LenProperties
<1> QED BY <1>5, <1>6, <1>8, <1>9, <1>10 DEF n, place

\* What is left of a sequence without some elements is a sequence of the others.
LEMMA WithoutLeaves ==
    ASSUME NEW T, NEW s \in Seq(T), NEW S
    PROVE  /\ Without(s, S) \in Seq(T)
           /\ \A k \in DOMAIN Without(s, S) : \E i \in 1 .. Len(s) :
                Without(s, S)[k] = s[i] /\ s[i] \notin S
           /\ \A i \in 1 .. Len(s) : s[i] \notin S =>
                \E k \in DOMAIN Without(s, S) : Without(s, S)[k] = s[i]
<1> DEFINE left == {i \in DOMAIN s : s[i] \notin S}
           n == Cardinality(left)
<1>1. DOMAIN s = 1 .. Len(s)
  BY LenProperties
<1>2. Without(s, S) = Picked(s, left)
  BY DEF Without
<1>3. \A i : i \in left <=> i \in 1 .. Len(s) /\ s[i] \notin S
  BY <1>1
<1>4. left \subseteq DOMAIN s
  OBVIOUS
<1> HIDE DEF left
<1>5. /\ Picked(s, left) \in Seq(T) /\ DOMAIN Picked(s, left) = 1 .. n
      /\ \A k \in 1 .. n : Ascending(left)[k] \in left /\ Picked(s, left)[k] = s[Ascending(left)[k]]
      /\ \A i \in left : \E k \in 1 .. n : i = Ascending(left)[k]
  BY <1>4, PickedPlaces
<1> QED BY <1>2, <1>3, <1>5

\* No more elements than n have fewer than n before them.
LEMMA FewComeFirst ==
    ASSUME NEW S, IsFiniteSet(S), NEW R, Orders(R, S), NEW n \in Nat
    PROVE  /\ IsFiniteSet({x \in S : Rank(S, R, x) < n})
           /\ Cardinality({x \in S : Rank(S, R, x) < n}) <= n
<1> DEFINE T == {x \in S : Rank(S, R, x) < n}
           f == [x \in T |-> Rank(S, R, x)]
<1>1. Cardinality(S) \in Nat /\ \A x \in S : Rank(S, R, x) \in 0 .. (Cardinality(S) - 1)
  BY RanksFollow, FS_CardinalityType
<1>2. \A x, y \in T : Rank(S, R, x) = Rank(S, R, y) => x = y
  <2> SUFFICES ASSUME NEW x \in S, NEW y \in S, Rank(S, R, x) = Rank(S, R, y), x # y PROVE FALSE
    OBVIOUS
  <2>1. <<x, y>> \in R \/ <<y, x>> \in R
    BY DEF Orders
  <2> QED BY <1>1, <2>1, RanksFollow
<1>3. \A x \in T : Rank(S, R, x) \in 0 .. (n - 1)
  BY <1>1
<1>4. T \subseteq S
  OBVIOUS
<1> HIDE DEF T
<1>5. f \in Injection(T, 0 .. (n - 1))
  BY <1>2, <1>3 DEF Injection, IsInjective
<1>6. IsFiniteSet(0 .. (n - 1)) /\ Cardinality(0 .. (n - 1)) = n
  BY FS_Interval
<1>7. IsFiniteSet(T)
  BY <1>4, FS_Subset
<1> HIDE DEF f
<1>8. Cardinality(T) <= Cardinality(0 .. (n - 1))
  BY <1>5, <1>6, <1>7, FS_Injection DEF ExistsInjection
<1> QED BY <1>6, <1>7, <1>8 DEF T

-----------------------------------------------------------------------------
\* The steps F from one subset of S to a greater one, which `pick' says, lead from
\* b, of the empty set, to values in V.
Folds(S, V, b, pick, F) ==
  /\ IsFiniteSet(S) /\ b \in V[{}]
  /\ \A s \in SUBSET S : s # {} =>
        pick[s] \in s /\ \A y \in V[s \ {pick[s]}] : F[s][y] \in V[s]

\* What they lead to.
Folded(S, b, pick, F, g) ==
  g = [s \in SUBSET S |-> IF s = {} THEN b ELSE F[s][g[s \ {pick[s]}]]]

\* A function of the subsets of a finite set that is built one element at a
\* time exists, and has its values where every step leads to.
LEMMA FoldExists ==
    ASSUME NEW S, NEW V, NEW b, NEW pick, NEW F, Folds(S, V, b, pick, F)
    PROVE  \E g : Folded(S, b, pick, F, g) /\ \A s \in SUBSET S : g[s] \in V[s]
<1> USE DEF Folds, Folded
<1> DEFINE Small(n) == {s \in SUBSET S : Cardinality(s) <= n}
           IsFold(g, n) ==
             /\ g = [s \in Small(n) |-> IF s = {} THEN b ELSE F[s][g[s \ {pick[s]}]]]
             /\ \A s \in Small(n) : g[s] \in V[s]
           T == {n \in Nat : ~\E g : IsFold(g, n)}
<1>1. \A s \in SUBSET S : IsFiniteSet(s) /\ Cardinality(s) \in Nat
  BY FS_Subset, FS_CardinalityType
<1>2. ASSUME NEW s \in SUBSET S, s # {}
      PROVE  /\ s \ {pick[s]} \in SUBSET S /\ Cardinality(s \ {pick[s]}) = Cardinality(s) - 1
             /\ pick[s] \in s /\ \A y \in V[s \ {pick[s]}] : F[s][y] \in V[s]
  BY <1>1, <1>2, FS_RemoveElement
<1>3. \E g : IsFold(g, 0)
  <2>1. Small(0) = {{}}
    BY <1>1, FS_EmptySet
  <2> DEFINE g == [s \in {{}} |-> b]
  <2>2. g = [s \in {{}} |-> IF s = {} THEN b ELSE F[s][g[s \ {pick[s]}]]]
    OBVIOUS
  <2>3. \A s \in {{}} : g[s] \in V[s]
    OBVIOUS
  <2> HIDE DEF g
  <2>4. g = [s \in Small(0) |-> IF s = {} THEN b ELSE F[s][g[s \ {pick[s]}]]]
    BY <2>1, <2>2
  <2>5. \A s \in Small(0) : g[s] \in V[s]
    BY <2>1, <2>3
  <2>6. IsFold(g, 0)
    BY <2>4, <2>5
  <2> HIDE DEF IsFold
  <2> QED BY <2>6
<1>4. ASSUME NEW n \in Nat, NEW g, IsFold(g, n) PROVE \E h : IsFold(h, n + 1)
  <2> DEFINE h == [s \in Small(n + 1) |-> IF s = {} THEN b ELSE F[s][g[s \ {pick[s]}]]]
  <2>1. ASSUME NEW s \in Small(n + 1), s # {} PROVE s \ {pick[s]} \in Small(n)
    <3>1. s \in SUBSET S /\ Cardinality(s) <= n + 1 /\ Cardinality(s) \in Nat
      BY <1>1
    <3>2. s \ {pick[s]} \in SUBSET S /\ Cardinality(s \ {pick[s]}) = Cardinality(s) - 1
      BY <1>2, <2>1, <3>1
    <3>3. Cardinality(s) - 1 <= n
      BY <3>1
    <3> QED BY <3>2, <3>3
  <2>2. \A s \in Small(n) : s \in Small(n + 1)
    BY <1>1
  <2>3. \A s \in Small(n) : h[s] = g[s]
    <3> HIDE DEF Small
    <3> QED BY <1>4, <2>2
  <2>4. h = [s \in Small(n + 1) |-> IF s = {} THEN b ELSE F[s][h[s \ {pick[s]}]]]
    <3>1. \A s \in Small(n + 1) : s # {} => h[s \ {pick[s]}] = g[s \ {pick[s]}]
      BY <2>1, <2>3
    <3> HIDE DEF Small
    <3> QED BY <3>1
  <2>5. ASSUME NEW s \in Small(n + 1) PROVE h[s] \in V[s]
    <3>1. CASE s = {}
      BY <2>5, <3>1
    <3>2. CASE s # {}
      <4>1. g[s \ {pick[s]}] \in V[s \ {pick[s]}]
        BY <1>4, <2>1, <3>2
      <4>2. h[s] = F[s][g[s \ {pick[s]}]]
        BY <3>2
      <4> QED BY <1>2, <3>2, <4>1, <4>2
    <3> QED BY <3>1, <3>2
  <2> HIDE DEF h
  <2> QED BY <2>4, <2>5
<1>5. ASSUME T # {} PROVE FALSE
  <2>1. PICK n \in T : \A m \in T : ~(<<m, n>> \in OpToRel(<, Nat))
    <3>1. T \subseteq Nat
      OBVIOUS
    <3> HIDE DEF T
    <3> QED BY <1>5, <3>1, NatLessThanWellFounded, WFMin
  <2>2. n \in Nat /\ ~\E g : IsFold(g, n)
    OBVIOUS
  <2> HIDE DEF IsFold
  <2>3. n # 0
    BY <1>3, <2>2
  <2>4. n - 1 \in Nat /\ n - 1 < n /\ (n - 1) + 1 = n
    BY <2>2, <2>3
  <2>5. n - 1 \notin T
    <3> HIDE DEF T
    <3> QED BY <2>1, <2>2, <2>4 DEF OpToRel
  <2>6. \E g : IsFold(g, n - 1)
    BY <2>4, <2>5
  <2> QED BY <1>4, <2>2, <2>4, <2>6
<1>6. PICK g : IsFold(g, Cardinality(S))
  BY <1>1, <1>5
<1>7. Small(Cardinality(S)) = SUBSET S
  BY <1>1, FS_Subset
<1> QED BY <1>6, <1>7

\* Every element keeps h where V says.
Kept(S, V, pick, h) ==
  /\ IsFiniteSet(S) /\ h[{}] \in V[{}]
  /\ \A s \in SUBSET S : s # {} =>
        pick[s] \in s /\ (h[s \ {pick[s]}] \in V[s \ {pick[s]}] => h[s] \in V[s])

\* What is built one element at a time has its values where every step leads to.
LEMMA FoldKeeps ==
    ASSUME NEW S, NEW V, NEW pick, NEW h, Kept(S, V, pick, h)
    PROVE  h[S] \in V[S]
<1> USE DEF Kept
<1> DEFINE T == {Cardinality(s) : s \in {s \in SUBSET S : h[s] \notin V[s]}}
<1>1. \A s \in SUBSET S : IsFiniteSet(s) /\ Cardinality(s) \in Nat
  BY FS_Subset, FS_CardinalityType
<1>2. ASSUME NEW s \in SUBSET S, s # {}
      PROVE  /\ s \ {pick[s]} \in SUBSET S /\ Cardinality(s \ {pick[s]}) = Cardinality(s) - 1
             /\ pick[s] \in s
  BY <1>1, <1>2, FS_RemoveElement
<1>3. SUFFICES ASSUME h[S] \notin V[S] PROVE FALSE
  OBVIOUS
<1>4. T # {} /\ T \subseteq Nat
  BY <1>1, <1>3
<1>5. PICK n \in T : \A m \in T : ~(<<m, n>> \in OpToRel(<, Nat))
  <2> HIDE DEF T
  <2> QED BY <1>4, NatLessThanWellFounded, WFMin
<1>6. PICK s \in SUBSET S : h[s] \notin V[s] /\ n = Cardinality(s)
  BY <1>5
<1>7. s # {}
  BY <1>6
<1>8. h[s \ {pick[s]}] \notin V[s \ {pick[s]}]
  BY <1>6, <1>7
<1>9. n - 1 \in T
  BY <1>2, <1>6, <1>7, <1>8
<1>10. n \in Nat /\ n - 1 \in Nat /\ n - 1 < n
  <2> HIDE DEF T
  <2>1. n \in Nat /\ n - 1 \in Nat
    BY <1>4, <1>5, <1>9
  <2> QED BY <2>1
<1> QED
  <2> HIDE DEF T
  <2> QED BY <1>5, <1>9, <1>10 DEF OpToRel

\* What the values of f add up to over the subsets of its domain.
Adds(f, h) ==
  h = [s \in SUBSET DOMAIN f |->
         IF s = {} THEN 0 ELSE LET x == CHOOSE x \in s : TRUE IN f[x] + h[s \ {x}]]

SumOf(f) == (CHOOSE h : Adds(f, h))[DOMAIN f]

\* Any element of a set, the one that a sum takes first.
Any(s) == CHOOSE x \in s : TRUE
Sums(f, h) ==
  /\ h = [s \in SUBSET DOMAIN f |-> IF s = {} THEN 0 ELSE f[Any(s)] + h[s \ {Any(s)}]]
  /\ \A s \in SUBSET DOMAIN f : h[s] \in Int

\* A sum is one step for each element.
LEMMA SumIsFolded ==
    ASSUME NEW f, IsFiniteSet(DOMAIN f), \A i \in DOMAIN f : f[i] \in Int
    PROVE  \E h : Sums(f, h) /\ SumOf(f) = h[DOMAIN f]
<1> DEFINE S == DOMAIN f
           pick == [s \in SUBSET S |-> CHOOSE x \in s : TRUE]
           V == [s \in SUBSET S |-> Int]
           F == [s \in SUBSET S |-> [y \in Int |-> f[pick[s]] + y]]
           Eq(h) == h = [s \in SUBSET S |->
              IF s = {} THEN 0
              ELSE LET x == CHOOSE x \in s : TRUE IN f[x] + h[s \ {x}]]
<1>1. \A s \in SUBSET S : s # {} => pick[s] \in s /\ pick[s] = CHOOSE x \in s : TRUE
  OBVIOUS
<1>2. SumOf(f) = (CHOOSE h : Eq(h))[S]
  BY DEF SumOf, Adds
<1> HIDE DEF pick
<1>3. \A s \in SUBSET S : V[s] = Int /\ s \ {pick[s]} \in SUBSET S
  OBVIOUS
<1>4. 0 \in V[{}]
  BY <1>3
<1>5. \A s \in SUBSET S : s # {} =>
         pick[s] \in s /\ \A y \in V[s \ {pick[s]}] : F[s][y] \in V[s]
  BY <1>1, <1>3
<1> HIDE DEF V
<1>6. PICK g : /\ g = [s \in SUBSET S |-> IF s = {} THEN 0 ELSE F[s][g[s \ {pick[s]}]]]
               /\ \A s \in SUBSET S : g[s] \in V[s]
  <2> HIDE DEF F
  <2>1. Folds(S, V, 0, pick, F)
    BY <1>4, <1>5 DEF Folds
  <2>2. PICK g : Folded(S, 0, pick, F, g) /\ \A s \in SUBSET S : g[s] \in V[s]
    BY <2>1, FoldExists
  <2> QED BY <2>2 DEF Folded
<1>7. \A s \in SUBSET S : s # {} => F[s][g[s \ {pick[s]}]] = f[pick[s]] + g[s \ {pick[s]}]
  <2>1. \A s \in SUBSET S : g[s \ {pick[s]}] \in Int
    BY <1>3, <1>6
  <2> QED BY <2>1
<1>8. Eq(g)
  <2> HIDE DEF F
  <2> QED BY <1>1, <1>6, <1>7
<1> DEFINE h == CHOOSE h : Eq(h)
<1>9. Eq(h)
  <2> HIDE DEF Eq
  <2> QED BY <1>8
<1> HIDE DEF h
<1>10. h = [s \in SUBSET S |-> IF s = {} THEN 0 ELSE f[Any(s)] + h[s \ {Any(s)}]]
  BY <1>9, Zenon DEF Any
<1>11. h[{}] \in V[{}]
  BY <1>4, <1>9
<1>12. \A s \in SUBSET S : s # {} => h[s] = f[pick[s]] + h[s \ {pick[s]}]
  BY <1>1, <1>9
<1>13. \A s \in SUBSET S : s # {} =>
          pick[s] \in s /\ (h[s \ {pick[s]}] \in V[s \ {pick[s]}] => h[s] \in V[s])
  <2> TAKE s \in SUBSET S
  <2> HAVE s # {}
  <2>1. pick[s] \in s /\ f[pick[s]] \in Int
    BY <1>1
  <2>2. h[s] = f[pick[s]] + h[s \ {pick[s]}]
    BY <1>12
  <2>3. V[s] = Int /\ V[s \ {pick[s]}] = Int
    BY <1>3
  <2> HIDE DEF Eq
  <2> QED BY <2>1, <2>2, <2>3
<1>14. ASSUME NEW s \in SUBSET S PROVE h[s] \in Int
  <2> HIDE DEF Eq, S
  <2>1. Kept(s, V, pick, h)
    <3>1. IsFiniteSet(s) /\ SUBSET s \subseteq SUBSET S
      BY FS_Subset DEF S
    <3> QED BY <1>11, <1>13, <3>1 DEF Kept
  <2>2. h[s] \in V[s]
    BY <2>1, FoldKeeps
  <2> QED BY <1>3, <2>2
<1>15. Sums(f, h)
  BY <1>10, <1>14 DEF Sums
<1> QED BY <1>2, <1>15 DEF h

\* What is summed step by step of two functions that differ at one place differs
\* as much.
LEMMA SumAdds ==
    ASSUME NEW f, NEW g, IsFiniteSet(DOMAIN f), DOMAIN g = DOMAIN f, NEW k \in DOMAIN f, NEW d \in Int,
           \A i \in DOMAIN f : f[i] \in Int,
           \A i \in DOMAIN f : g[i] = f[i] + (IF i = k THEN d ELSE 0)
    PROVE  SumOf(f) \in Int /\ SumOf(g) = SumOf(f) + d
<1> DEFINE S == DOMAIN f
           pick == [s \in SUBSET S |-> Any(s)]
<1>1. \A i \in S : g[i] \in Int
  OBVIOUS
<1>2. PICK hf : Sums(f, hf) /\ SumOf(f) = hf[S]
  BY SumIsFolded
<1>3. PICK hg : Sums(g, hg) /\ SumOf(g) = hg[S]
  BY <1>1, SumIsFolded
<1> DEFINE V == [s \in SUBSET S |-> {hf[s] + (IF k \in s THEN d ELSE 0)}]
<1>4. \A s \in SUBSET S : s # {} => Any(s) \in s /\ pick[s] = Any(s) /\ s \ {Any(s)} \in SUBSET S
  BY DEF Any
<1>5. /\ hf[{}] = 0 /\ hg[{}] = 0
      /\ \A s \in SUBSET S : hf[s] \in Int /\ hg[s] \in Int
      /\ \A s \in SUBSET S : s # {} =>
           hf[s] = f[Any(s)] + hf[s \ {Any(s)}] /\ hg[s] = g[Any(s)] + hg[s \ {Any(s)}]
  BY <1>2, <1>3 DEF Sums
<1>6. hg[{}] \in V[{}]
  BY <1>5
<1>7. \A s \in SUBSET S : V[s] = {hf[s] + (IF k \in s THEN d ELSE 0)}
  OBVIOUS
<1> HIDE DEF V, pick
<1>8. ASSUME NEW s \in SUBSET S, s # {}
      PROVE  pick[s] \in s /\ (hg[s \ {pick[s]}] \in V[s \ {pick[s]}] => hg[s] \in V[s])
  <2> DEFINE x == Any(s)
             t == s \ {x}
  <2>1. x \in s /\ pick[s] = x /\ t \in SUBSET S /\ x \in S
    BY <1>4, <1>8
  <2>2. hf[s] = f[x] + hf[t] /\ hg[s] = g[x] + hg[t]
    BY <1>5, <1>8
  <2>3. k \in t <=> k \in s /\ k # x
    OBVIOUS
  <2>4. g[x] = f[x] + (IF x = k THEN d ELSE 0) /\ f[x] \in Int
    BY <2>1
  <2>5. hf[t] \in Int /\ hg[t] \in Int
    BY <1>5, <2>1
  <2> HIDE DEF x, t
  <2>6. hg[t] = hf[t] + (IF k \in t THEN d ELSE 0) => hg[s] = hf[s] + (IF k \in s THEN d ELSE 0)
    BY <2>1, <2>2, <2>3, <2>4, <2>5
  <2> QED BY <1>7, <2>1, <2>6 DEF t
<1>9. Kept(S, V, pick, hg)
  BY <1>6, <1>8 DEF Kept
<1>10. hg[S] \in V[S]
  BY <1>9, FoldKeeps
<1> QED BY <1>2, <1>3, <1>5, <1>7, <1>10

\* A sum of numbers that are not negative is none of them exceeds.
LEMMA SumBounds ==
    ASSUME NEW f, IsFiniteSet(DOMAIN f), \A i \in DOMAIN f : f[i] \in Nat
    PROVE  SumOf(f) \in Nat /\ \A i \in DOMAIN f : f[i] <= SumOf(f)
<1> DEFINE S == DOMAIN f
           pick == [s \in SUBSET S |-> Any(s)]
           V == [s \in SUBSET S |-> {y \in Nat : \A i \in s : f[i] <= y}]
<1>1. PICK h : Sums(f, h) /\ SumOf(f) = h[S]
  BY SumIsFolded
<1>2. \A s \in SUBSET S : s # {} => Any(s) \in s /\ pick[s] = Any(s) /\ s \ {Any(s)} \in SUBSET S
  BY DEF Any
<1>3. /\ h[{}] = 0
      /\ \A s \in SUBSET S : s # {} => h[s] = f[Any(s)] + h[s \ {Any(s)}]
  BY <1>1 DEF Sums
<1>4. \A s \in SUBSET S : V[s] = {y \in Nat : \A i \in s : f[i] <= y}
  OBVIOUS
<1>5. h[{}] \in V[{}]
  BY <1>3
<1> HIDE DEF V, pick
<1>6. ASSUME NEW s \in SUBSET S, s # {}
      PROVE  pick[s] \in s /\ (h[s \ {pick[s]}] \in V[s \ {pick[s]}] => h[s] \in V[s])
  <2> DEFINE x == Any(s)
             t == s \ {x}
  <2>1. x \in s /\ pick[s] = x /\ t \in SUBSET S /\ f[x] \in Nat
    BY <1>2, <1>6
  <2>2. h[s] = f[x] + h[t]
    BY <1>3, <1>6
  <2>3. \A i \in s : i = x \/ i \in t
    OBVIOUS
  <2>4. \A i \in s : f[i] \in Nat
    OBVIOUS
  <2> HIDE DEF x, t
  <2>5. h[t] \in Nat /\ (\A i \in t : f[i] <= h[t]) => h[s] \in Nat /\ \A i \in s : f[i] <= h[s]
    BY <2>1, <2>2, <2>3, <2>4
  <2> QED BY <1>4, <2>1, <2>5 DEF t
<1>7. Kept(S, V, pick, h)
  BY <1>5, <1>6 DEF Kept
<1>8. h[S] \in V[S]
  BY <1>7, FoldKeeps
<1> QED BY <1>1, <1>4, <1>8
=============================================================================
