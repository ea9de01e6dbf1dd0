----------------------------- MODULE CollectionProofs -----------------------------
(***************************************************************************)
(* Theorems about what the connector collects: that its payslips are those *)
(* of Sage, for any payroll, any order of the rows and any cut into        *)
(* batches; and that archiving one call at a time loses no batch, for any  *)
(* number of batches, of calls and of calls that end early.                *)
(***************************************************************************)
EXTENDS RawArchive, SageCollection, FiniteSetTheorems, WellFoundedInduction, TLAPS

-----------------------------------------------------------------------------
(***************************************************************************)
(* Finite sets: smallest members and orders.                               *)
(***************************************************************************)

Smallest(F, s) == s \in F /\ \A u \in F : u \subseteq s => u = s

\* A family of subsets of a finite set has one that holds no other.
LEMMA SmallestSubset ==
  ASSUME NEW S, IsFiniteSet(S), NEW F, F \subseteq SUBSET S, F # {}
  PROVE  \E s : Smallest(F, s)
<1>1. IsWellFoundedOn(StrictSubsetOrdering(S), SUBSET S)
  BY FS_StrictSubsetOrderingWellFounded, FS_FiniteSubsetsOfFinite
<1>2. PICK s \in F : \A u \in F : <<u, s>> \notin StrictSubsetOrdering(S)
  BY <1>1, WFMin
<1>3. ASSUME NEW u \in F, u \subseteq s PROVE u = s
  <2>1. u # s => <<u, s>> \in StrictSubsetOrdering(S)
    BY <1>3 DEF StrictSubsetOrdering
  <2> QED BY <1>2, <2>1
<1>4. Smallest(F, s)
  BY <1>3 DEF Smallest
<1> QED BY <1>4

\* A set of natural numbers has a least one.
LEMMA LeastNumber ==
  ASSUME NEW S \in SUBSET Nat, S # {}
  PROVE  \E n \in S : \A m \in S : n <= m
<1>1. PICK k \in S : TRUE
  OBVIOUS
<1> DEFINE Under(x) == {y \in S : y < x}
           Unders == {Under(x) : x \in {y \in S : y <= k}}
<1>2. Unders \subseteq SUBSET (0 .. k) /\ Unders # {}
  <2>1. ASSUME NEW x \in S, x <= k
        PROVE  Under(x) \subseteq 0 .. k
    <3>1. \A y \in S : y < x => y \in 0 .. k
      <4>1. k \in Nat /\ x \in Nat /\ \A y \in S : y \in Nat
        OBVIOUS
      <4> QED BY <2>1, <4>1
    <3> QED BY <3>1
  <2>2. k <= k
    OBVIOUS
  <2> QED BY <2>1, <2>2
<1>3. IsFiniteSet(0 .. k)
  BY FS_Interval
<1>4. PICK s : Smallest(Unders, s)
  <2> HIDE DEF Unders
  <2> QED BY <1>2, <1>3, SmallestSubset
<1>5. PICK n \in S : n <= k /\ s = Under(n)
  BY <1>4 DEF Smallest
<1>6. ASSUME NEW m \in S, m < n
      PROVE  FALSE
  <2>1. Under(m) \in Unders
    BY <1>5, <1>6
  <2>2. Under(m) \subseteq Under(n) /\ m \in Under(n) /\ m \notin Under(m)
    <3>1. \A z \in S : (z < m => z < n) /\ ~ (z < z)
      BY <1>6
    <3> QED BY <1>6, <3>1
  <2>3. Under(m) = Under(n)
    BY <1>4, <1>5, <2>1, <2>2 DEF Smallest
  <2> QED BY <2>2, <2>3
<1> QED BY <1>6

\* A finite set of natural numbers has a least and a greatest element.
LEMMA Extremes ==
  ASSUME NEW S \in SUBSET Nat, IsFiniteSet(S), S # {}
  PROVE  /\ Min(S) \in S /\ \A y \in S : Min(S) <= y
         /\ Max(S) \in S /\ \A y \in S : Max(S) >= y
<1>1. \E x \in S : \A y \in S : x <= y
  BY LeastNumber
<1>2. \E x \in S : \A y \in S : x >= y
  <2> DEFINE Over(x) == {y \in S : y > x}
             Overs == {Over(x) : x \in S}
  <2>1. Overs \subseteq SUBSET S /\ Overs # {}
    OBVIOUS
  <2>2. PICK s : Smallest(Overs, s)
    <3> HIDE DEF Overs
    <3> QED BY <2>1, SmallestSubset
  <2>3. PICK x \in S : s = Over(x)
    BY <2>2 DEF Smallest
  <2>4. ASSUME NEW y \in S, y > x
        PROVE  FALSE
    <3>1. Over(y) \in Overs
      OBVIOUS
    <3>2. Over(y) \subseteq Over(x) /\ y \in Over(x) /\ y \notin Over(y)
      <4>1. \A z \in S : z \in Nat /\ (z > y => z > x) /\ ~ (y > y)
        BY <2>4
      <4>2. QED
        BY <2>4, <4>1
    <3>3. Over(y) = Over(x)
      BY <2>2, <2>3, <3>1, <3>2 DEF Smallest
    <3> QED BY <3>2, <3>3
  <2> QED BY <2>4
<1> QED BY <1>1, <1>2 DEF Min, Max

StrictOrder(D, R) ==
  /\ \A x \in D : <<x, x>> \notin R
  /\ \A x, y, z \in D : <<x, y>> \in R /\ <<y, z>> \in R => <<x, z>> \in R
  /\ \A x, y \in D : x = y \/ <<x, y>> \in R \/ <<y, x>> \in R

Below(D, R, x) == {y \in D : <<y, x>> \in R}

\* What Ranked makes of a relation.
RankedBy(D, R) ==
  [n \in 1 .. Cardinality(D) |-> CHOOSE x \in D : Cardinality(Below(D, R, x)) = n - 1]

\* Counting who comes before puts a finite set in order, without a gap and
\* without a repetition.
LEMMA RankedInOrder ==
  ASSUME NEW D, IsFiniteSet(D), NEW R, StrictOrder(D, R)
  PROVE  /\ RankedBy(D, R) \in [1 .. Cardinality(D) -> D]
         /\ \A x \in D : \E n \in 1 .. Cardinality(D) : RankedBy(D, R)[n] = x
         /\ \A m, n \in 1 .. Cardinality(D) :
              m < n => <<RankedBy(D, R)[m], RankedBy(D, R)[n]>> \in R
<1> DEFINE size == Cardinality(D)
           rank(x) == Cardinality(Below(D, R, x))
<1>0. size \in Nat
  BY FS_CardinalityType
<1>1. ASSUME NEW x \in D
      PROVE  IsFiniteSet(Below(D, R, x)) /\ rank(x) \in 0 .. size - 1
  <2>1. x \notin Below(D, R, x) /\ Below(D, R, x) \in SUBSET (D \ {x})
    BY DEF StrictOrder, Below
  <2>2. IsFiniteSet(D \ {x}) /\ Cardinality(D \ {x}) = size - 1
    BY FS_RemoveElement
  <2>3. IsFiniteSet(Below(D, R, x)) /\ rank(x) <= size - 1
    BY <2>1, <2>2, FS_Subset
  <2>4. rank(x) \in Nat
    BY <2>3, FS_CardinalityType
  <2> HIDE DEF rank
  <2> QED BY <1>0, <2>3, <2>4
<1>2. ASSUME NEW x \in D, NEW y \in D, <<x, y>> \in R
      PROVE  rank(x) < rank(y)
  <2>1. x \notin Below(D, R, x) /\ Below(D, R, x) \cup {x} \in SUBSET Below(D, R, y)
    BY <1>2 DEF StrictOrder, Below
  <2>2. Cardinality(Below(D, R, x) \cup {x}) = rank(x) + 1
    BY <1>1, <2>1, FS_AddElement
  <2>3. Cardinality(Below(D, R, x) \cup {x}) <= rank(y)
    BY <1>1, <2>1, FS_Subset
  <2>4. rank(x) \in Int /\ rank(y) \in Int
    BY <1>1
  <2> HIDE DEF rank
  <2> QED BY <2>2, <2>3, <2>4
<1>3. \A n \in 1 .. size : \E x \in D : rank(x) = n - 1
  <2> DEFINE h == [x \in D |-> rank(x) + 1]
  <2>1. h \in [D -> 1 .. size]
    <3> HIDE DEF rank
    <3> QED BY <1>0, <1>1
  <2>2. \A x, y \in D : h[x] = h[y] => x = y
    <3>1. \A x, y \in D : rank(x) = rank(y) => x = y
      <4> SUFFICES ASSUME NEW x \in D, NEW y \in D, rank(x) = rank(y), x # y
                   PROVE  FALSE
        OBVIOUS
      <4>1. <<x, y>> \in R \/ <<y, x>> \in R
        BY DEF StrictOrder
      <4>2. rank(x) < rank(y) \/ rank(y) < rank(x)
        BY <1>2, <4>1
      <4>3. rank(x) \in Int /\ rank(y) \in Int
        BY <1>1
      <4> HIDE DEF rank
      <4> QED BY <4>2, <4>3
    <3>2. \A x \in D : rank(x) \in Int
      BY <1>1
    <3> HIDE DEF rank
    <3> QED BY <3>1, <3>2
  <2>3. h \in Injection(D, 1 .. size)
    BY <2>1, <2>2 DEF Injection, IsInjective
  <2>4. IsFiniteSet(1 .. size) /\ Cardinality(1 .. size) = size
    BY <1>0, FS_Interval
  <2>5. h \in Surjection(D, 1 .. size)
    <3> HIDE DEF h
    <3> QED BY <2>3, <2>4, FS_Injection
  <2>6. \A n \in 1 .. size : \E x \in D : h[x] = n
    BY <2>5 DEF Surjection
  <2>7. \A x \in D : rank(x) \in Int /\ h[x] = rank(x) + 1
    BY <1>1
  <2> HIDE DEF h, rank
  <2> QED BY <1>0, <2>6, <2>7
<1>4. ASSUME NEW n \in 1 .. size
      PROVE  RankedBy(D, R)[n] \in D /\ rank(RankedBy(D, R)[n]) = n - 1
  BY <1>3 DEF RankedBy
<1>5. RankedBy(D, R) \in [1 .. size -> D]
  <2>1. RankedBy(D, R) = [n \in 1 .. size |-> RankedBy(D, R)[n]]
    BY DEF RankedBy
  <2> QED BY <1>4, <2>1
<1>6. ASSUME NEW x \in D, NEW y \in D, rank(x) < rank(y)
      PROVE  <<x, y>> \in R
  <2>1. rank(x) \in Int /\ rank(y) \in Int /\ (<<y, x>> \in R => rank(y) < rank(x))
    BY <1>1, <1>2
  <2>2. x # y /\ <<y, x>> \notin R
    <3> HIDE DEF rank
    <3> QED BY <1>6, <2>1
  <2> QED BY <2>2 DEF StrictOrder
<1>7. ASSUME NEW x \in D
      PROVE  \E n \in 1 .. size : RankedBy(D, R)[n] = x
  <2>1. PICK n \in 1 .. size : n = rank(x) + 1
    <3>1. rank(x) \in 0 .. size - 1
      BY <1>1
    <3> HIDE DEF rank
    <3> QED BY <1>0, <3>1
  <2> DEFINE y == RankedBy(D, R)[n]
  <2>2. y \in D /\ rank(y) = rank(x)
    <3>1. rank(x) \in Int
      BY <1>1
    <3> HIDE DEF rank
    <3> QED BY <1>4, <2>1, <3>1
  <2>3. rank(x) \in Int /\ rank(y) \in Int
    BY <1>1, <2>2
  <2>4. <<x, y>> \notin R /\ <<y, x>> \notin R
    <3>1. /\ <<x, y>> \in R => rank(x) < rank(y)
          /\ <<y, x>> \in R => rank(y) < rank(x)
      BY <1>2, <2>2
    <3> HIDE DEF rank, y
    <3> QED BY <2>2, <2>3, <3>1
  <2> QED BY <2>2, <2>4 DEF StrictOrder
<1>8. ASSUME NEW m \in 1 .. size, NEW n \in 1 .. size, m < n
      PROVE  <<RankedBy(D, R)[m], RankedBy(D, R)[n]>> \in R
  <2>1. rank(RankedBy(D, R)[m]) < rank(RankedBy(D, R)[n])
    <3> HIDE DEF rank
    <3> QED BY <1>4, <1>8, <1>0
  <2> QED BY <1>4, <1>6, <2>1
<1> QED BY <1>5, <1>7, <1>8

-----------------------------------------------------------------------------
(***************************************************************************)
(* Sequences: their elements at some positions, and in another order.      *)
(***************************************************************************)

Less(K) == {p \in K \X K : p[1] < p[2]}

Positions(K) == Ranked(K, LAMBDA i, j : i < j)

\* The elements of s at the positions K, which is what Filter keeps.
Picked(s, K) == Map(Positions(K), LAMBDA i : s[i])

\* Each member of S stands at one place of s, and nothing else does.
Lists(s, S) ==
  /\ s \in Seq(S)
  /\ ToSet(s) = S
  /\ \A i, j \in DOMAIN s : s[i] = s[j] => i = j

LEMMA PositionsInOrder ==
  ASSUME NEW K \in SUBSET Nat, IsFiniteSet(K)
  PROVE  /\ Cardinality(K) \in Nat
         /\ Positions(K) \in [1 .. Cardinality(K) -> K]
         /\ \A k \in K : \E n \in 1 .. Cardinality(K) : Positions(K)[n] = k
         /\ \A m, n \in 1 .. Cardinality(K) :
              m < n => Positions(K)[m] < Positions(K)[n]
<1> DEFINE R == Less(K)
<1>1. StrictOrder(K, R)
  <2>1. \A x, y \in K : <<x, y>> \in R <=> x < y
    BY DEF Less
  <2>2. \A x \in K : x \in Int
    OBVIOUS
  <2> HIDE DEF R
  <2>3. \A x \in K : <<x, x>> \notin R
    BY <2>1, <2>2
  <2>4. \A x, y, z \in K : <<x, y>> \in R /\ <<y, z>> \in R => <<x, z>> \in R
    BY <2>1, <2>2
  <2>5. \A x, y \in K : x = y \/ <<x, y>> \in R \/ <<y, x>> \in R
    <3>1. \A x, y \in K : x = y \/ x < y \/ y < x
      BY <2>2
    <3> QED BY <2>1, <3>1
  <2> QED BY <2>3, <2>4, <2>5 DEF StrictOrder
<1>2. Positions(K) = RankedBy(K, R)
  <2>1. \A x \in K : {y \in K : y < x} = Below(K, R, x)
    BY DEF Below, Less
  <2>2. Positions(K) = [n \in 1 .. Cardinality(K) |->
                          CHOOSE x \in K : Cardinality({y \in K : y < x}) = n - 1]
    BY DEF Positions, Ranked
  <2>3. \A n \in 1 .. Cardinality(K) :
          (CHOOSE x \in K : Cardinality({y \in K : y < x}) = n - 1)
            = CHOOSE x \in K : Cardinality(Below(K, R, x)) = n - 1
    <3> HIDE DEF R
    <3> QED BY <2>1
  <2> QED BY <2>2, <2>3 DEF RankedBy
<1>3. Cardinality(K) \in Nat
  BY FS_CardinalityType
<1>4. \A m, n \in 1 .. Cardinality(K) :
        m < n => <<Positions(K)[m], Positions(K)[n]>> \in R
  <2> HIDE DEF R
  <2> QED BY <1>1, <1>2, RankedInOrder
<1>5. \A m, n \in 1 .. Cardinality(K) :
        m < n => Positions(K)[m] < Positions(K)[n]
  BY <1>4 DEF Less
<1> HIDE DEF R
<1> QED BY <1>1, <1>2, <1>3, <1>5, RankedInOrder

\* Some positions of a sequence are finitely many numbers.
LEMMA SomePositions ==
  ASSUME NEW S, NEW s \in Seq(S), NEW K \in SUBSET (DOMAIN s)
  PROVE  K \in SUBSET Nat /\ IsFiniteSet(K) /\ Cardinality(K) \in Nat
<1>1. DOMAIN s = 1 .. Len(s) /\ Len(s) \in Nat
  OBVIOUS
<1>2. IsFiniteSet(DOMAIN s)
  BY <1>1, FS_Interval
<1>3. IsFiniteSet(K)
  BY <1>2, FS_Subset
<1> QED BY <1>1, <1>3, FS_CardinalityType

LEMMA AtPositions ==
  ASSUME NEW S, NEW s \in Seq(S), NEW K \in SUBSET (DOMAIN s)
  PROVE  /\ Picked(s, K) \in Seq(S)
         /\ Len(Picked(s, K)) = Cardinality(K) /\ DOMAIN Picked(s, K) = 1 .. Cardinality(K)
         /\ ToSet(Picked(s, K)) = {s[i] : i \in K}
         /\ \A n \in DOMAIN Picked(s, K) :
              Positions(K)[n] \in K /\ Picked(s, K)[n] = s[Positions(K)[n]]
         /\ \A m, n \in DOMAIN Picked(s, K) :
              m < n => Positions(K)[m] < Positions(K)[n]
<1>1. K \in SUBSET Nat /\ IsFiniteSet(K) /\ Cardinality(K) \in Nat
  BY SomePositions
<1> DEFINE q == Positions(K)
           size == Cardinality(K)
<1>2. /\ q \in [1 .. size -> K]
      /\ \A k \in K : \E n \in 1 .. size : q[n] = k
      /\ \A m, n \in 1 .. size : m < n => q[m] < q[n]
  BY <1>1, PositionsInOrder
<1>3. Picked(s, K) = [n \in 1 .. size |-> s[q[n]]]
  <2>1. Picked(s, K) = [n \in DOMAIN q |-> s[q[n]]]
    BY DEF Picked, Map
  <2> HIDE DEF q, size
  <2> QED BY <1>2, <2>1
<1> HIDE DEF q, size
<1>4. \A n \in 1 .. size : q[n] \in K /\ s[q[n]] \in S
  BY <1>2
<1>5. Picked(s, K) \in Seq(S) /\ Len(Picked(s, K)) = size /\ DOMAIN Picked(s, K) = 1 .. size
  BY <1>1, <1>3, <1>4 DEF size
<1>6. ToSet(Picked(s, K)) = {s[i] : i \in K}
  BY <1>2, <1>3, <1>4, <1>5 DEF ToSet
<1> QED BY <1>2, <1>3, <1>4, <1>5, <1>6 DEF q, size

\* A sequence without positions is empty.
LEMMA AtNone ==
  ASSUME NEW S, NEW s \in Seq(S), NEW K \in SUBSET (DOMAIN s)
  PROVE  Picked(s, K) = <<>> <=> K = {}
<1>1. K \in SUBSET Nat /\ IsFiniteSet(K) /\ Cardinality(K) \in Nat
  BY SomePositions
<1>2. Cardinality(K) = 0 <=> K = {}
  BY <1>1, FS_EmptySet
<1>3. Picked(s, K) \in Seq(S) /\ Len(Picked(s, K)) = Cardinality(K)
  BY AtPositions
<1> QED BY <1>1, <1>2, <1>3

LEMMA AtLists ==
  ASSUME NEW S, NEW s, Lists(s, S), NEW K \in SUBSET (DOMAIN s)
  PROVE  Lists(Picked(s, K), {s[i] : i \in K})
<1> DEFINE t == Picked(s, K)
<1>1. s \in Seq(S) /\ \A i, j \in DOMAIN s : s[i] = s[j] => i = j
  BY DEF Lists
<1>2. /\ t \in Seq(S) /\ Len(t) = Cardinality(K) /\ DOMAIN t = 1 .. Cardinality(K)
      /\ ToSet(t) = {s[i] : i \in K}
      /\ \A n \in DOMAIN t : Positions(K)[n] \in K /\ t[n] = s[Positions(K)[n]]
      /\ \A m, n \in DOMAIN t : m < n => Positions(K)[m] < Positions(K)[n]
  BY <1>1, AtPositions
<1>3. Cardinality(K) \in Nat /\ K \in SUBSET Nat
  BY <1>1, SomePositions
<1> HIDE DEF t
<1>4. t \in Seq({s[i] : i \in K})
  <2>1. \A n \in 1 .. Len(t) : t[n] \in {s[i] : i \in K}
    BY <1>2
  <2> QED BY <1>2, <2>1
<1>5. ASSUME NEW m \in DOMAIN t, NEW n \in DOMAIN t, t[m] = t[n]
      PROVE  m = n
  <2>1. Positions(K)[m] = Positions(K)[n]
    BY <1>1, <1>2, <1>5
  <2>2. ~ (Positions(K)[m] < Positions(K)[n]) /\ ~ (Positions(K)[n] < Positions(K)[m])
    BY <1>2, <1>3, <2>1
  <2>3. ~ (m < n) /\ ~ (n < m)
    BY <1>2, <2>2
  <2> QED BY <1>2, <1>3, <2>3
<1> QED BY <1>2, <1>4, <1>5 DEF Lists, t

\* A list has as many places as members.
LEMMA ListSize ==
  ASSUME NEW S, NEW s, Lists(s, S)
  PROVE  IsFiniteSet(S) /\ Cardinality(S) = Len(s) /\ Len(s) \in Nat
<1>1. s \in Seq(S) /\ Len(s) \in Nat /\ s \in [1 .. Len(s) -> S]
  BY DEF Lists
<1>2. s \in Bijection(1 .. Len(s), S)
  <2>1. \A i, j \in 1 .. Len(s) : s[i] = s[j] => i = j
    BY <1>1 DEF Lists
  <2>2. \A x \in S : \E i \in 1 .. Len(s) : s[i] = x
    BY <1>1 DEF Lists, ToSet
  <2> QED BY <1>1, <2>1, <2>2 DEF Bijection, Injection, Surjection, IsInjective
<1>3. ExistsBijection(1 .. Len(s), S)
  BY <1>2 DEF ExistsBijection
<1>4. IsFiniteSet(1 .. Len(s)) /\ Cardinality(1 .. Len(s)) = Len(s)
  BY <1>1, FS_Interval
<1> QED BY <1>1, <1>3, <1>4, FS_Bijection

\* What StableSort makes of the order of the places.
Arranged(s, R) == Map(RankedBy(DOMAIN s, R), LAMBDA i : s[i])

LEMMA ArrangedInOrder ==
  ASSUME NEW S, NEW s \in Seq(S), NEW R, StrictOrder(DOMAIN s, R)
  PROVE  \E q \in [DOMAIN s -> DOMAIN s] :
           /\ Arranged(s, R) = [n \in DOMAIN s |-> s[q[n]]]
           /\ \A i \in DOMAIN s : \E n \in DOMAIN s : q[n] = i
           /\ \A m, n \in DOMAIN s : m < n => <<q[m], q[n]>> \in R
<1>1. DOMAIN s = 1 .. Len(s) /\ Len(s) \in Nat
  OBVIOUS
<1>2. IsFiniteSet(DOMAIN s) /\ Cardinality(DOMAIN s) = Len(s)
  BY <1>1, FS_Interval
<1> DEFINE q == RankedBy(DOMAIN s, R)
<1>3. /\ q \in [1 .. Len(s) -> DOMAIN s]
      /\ \A x \in DOMAIN s : \E n \in 1 .. Len(s) : q[n] = x
      /\ \A m, n \in 1 .. Len(s) : m < n => <<q[m], q[n]>> \in R
  BY <1>2, RankedInOrder
<1>4. Arranged(s, R) = [n \in DOMAIN q |-> s[q[n]]]
  BY DEF Arranged, Map
<1> HIDE DEF q
<1>5. Arranged(s, R) = [n \in DOMAIN s |-> s[q[n]]]
  BY <1>1, <1>3, <1>4
<1>6. q \in [DOMAIN s -> DOMAIN s]
  BY <1>1, <1>3
<1>7. \A i \in DOMAIN s : \E n \in DOMAIN s : q[n] = i
  BY <1>1, <1>3
<1>8. \A m, n \in DOMAIN s : m < n => <<q[m], q[n]>> \in R
  BY <1>1, <1>3
<1> QED BY <1>5, <1>6, <1>7, <1>8

-----------------------------------------------------------------------------
(***************************************************************************)
(* The batches of a table, put together in the order of their numbers, are *)
(* the rows that were read.                                                *)
(***************************************************************************)

LEMMA LeastOfTwo ==
  ASSUME NEW a \in Nat, NEW b \in Nat
  PROVE  Min({a, b}) = IF a <= b THEN a ELSE b
<1>1. {a, b} \in SUBSET Nat /\ {a, b} # {}
  OBVIOUS
<1>2. IsFiniteSet({a, b})
  <2>1. {a, b} = {a} \cup {b}
    OBVIOUS
  <2>2. IsFiniteSet({a})
    BY FS_Singleton
  <2>3. IsFiniteSet({a} \cup {b})
    BY <2>2, FS_AddElement
  <2> QED BY <2>1, <2>3
<1>3. Min({a, b}) \in {a, b} /\ \A y \in {a, b} : Min({a, b}) <= y
  BY <1>1, <1>2, Extremes
<1> QED BY <1>3

\* Two functions that start alike, and go on alike from alike values.
StepAlike(f, g, n) ==
  \A i \in 1 .. n : (\A j \in 1 .. n : j < i => f[j] = g[j]) => f[i] = g[i]

LEMMA StepsAgree ==
  ASSUME NEW n \in Nat, NEW f, NEW g, StepAlike(f, g, n)
  PROVE  \A i \in 1 .. n : f[i] = g[i]
<1> DEFINE Wrong == {i \in 1 .. n : f[i] # g[i]}
<1>1. SUFFICES ASSUME Wrong # {} PROVE FALSE
  OBVIOUS
<1>2. Wrong \in SUBSET Nat
  OBVIOUS
<1>3. PICK i \in Wrong : \A m \in Wrong : i <= m
  <2> HIDE DEF Wrong
  <2> QED BY <1>1, <1>2, LeastNumber
<1>4. i \in 1 .. n /\ f[i] # g[i]
  OBVIOUS
<1>5. ASSUME NEW j \in 1 .. n, j < i PROVE f[j] = g[j]
  <2>1. ~ (i <= j)
    BY <1>4, <1>5
  <2> QED BY <1>3, <2>1
<1> QED BY <1>4, <1>5 DEF StepAlike

\* What FlattenSeq defines by recursion.
Flattens(f, seqs) ==
  f = [i \in 1 .. Len(seqs) |-> IF i = 1 THEN seqs[i] ELSE f[i - 1] \o seqs[i]]

LEMMA Flattened ==
  ASSUME NEW seqs, NEW n \in Nat, n # 0, Len(seqs) = n, NEW g, Flattens(g, seqs)
  PROVE  FlattenSeq(seqs) = g[n]
<1>1. FlattenSeq(seqs) = (CHOOSE f : Flattens(f, seqs))[n]
  BY DEF FlattenSeq, Flattens
<1>2. Flattens(CHOOSE f : Flattens(f, seqs), seqs)
  OBVIOUS
<1>3. PICK f : f = (CHOOSE h : Flattens(h, seqs)) /\ Flattens(f, seqs)
  BY <1>2
<1>4. ASSUME NEW i \in 1 .. n, \A j \in 1 .. n : j < i => f[j] = g[j]
      PROVE  f[i] = g[i]
  <2>1. f[i] = IF i = 1 THEN seqs[i] ELSE f[i - 1] \o seqs[i]
    BY <1>3 DEF Flattens
  <2>2. g[i] = IF i = 1 THEN seqs[i] ELSE g[i - 1] \o seqs[i]
    BY DEF Flattens
  <2>3. i # 1 => f[i - 1] = g[i - 1]
    BY <1>4
  <2> QED BY <2>1, <2>2, <2>3
<1>5. \A i \in 1 .. n : f[i] = g[i]
  <2>1. StepAlike(f, g, n)
    BY <1>4 DEF StepAlike
  <2> QED BY <2>1, StepsAgree
<1> QED BY <1>1, <1>3, <1>5

\* How many batches there are, and how far they reach.
LEMMA BatchBounds ==
  ASSUME NEW n \in Nat, NEW k, k = (n + BatchSize - 1) \div BatchSize
  PROVE  /\ BatchSize \in Nat \ {0} /\ k \in Nat
         /\ n = 0 <=> k = 0
         /\ \A i \in 1 .. k : (i - 1) * BatchSize \in Nat /\ i * BatchSize \in Nat
              /\ i * BatchSize = (i - 1) * BatchSize + BatchSize
              /\ (i - 1) * BatchSize < n
         /\ k * BatchSize \in Nat /\ n <= k * BatchSize
<1>1. BatchSize \in Nat \ {0}
  BY SageCollectionAssumption
<1> DEFINE a == n + BatchSize - 1
<1>2. a \in Nat
  BY <1>1
<1>3. /\ a \div BatchSize \in Nat /\ BatchSize * (a \div BatchSize) <= a
      /\ a < BatchSize * (a \div BatchSize) + BatchSize
  <2> HIDE DEF a
  <2> QED BY <1>1, <1>2
<1>4. k \in Nat /\ BatchSize * k <= n + BatchSize - 1
      /\ n + BatchSize - 1 < BatchSize * k + BatchSize
  BY <1>3
<1>5. BatchSize * k = k * BatchSize /\ k * BatchSize \in Nat
  BY <1>1, <1>4
<1>6. ASSUME NEW i \in 1 .. k
      PROVE  (i - 1) * BatchSize \in Nat /\ i * BatchSize \in Nat
             /\ i * BatchSize = (i - 1) * BatchSize + BatchSize
             /\ i * BatchSize <= k * BatchSize
  BY <1>1, <1>4
<1>7. \A i \in 1 .. k : (i - 1) * BatchSize < n
  BY <1>1, <1>4, <1>5, <1>6
<1>8. n <= k * BatchSize
  BY <1>1, <1>4, <1>5
<1>9. n = 0 <=> k = 0
  <2>1. k = 0 => n <= 0
    BY <1>1, <1>8
  <2>2. k # 0 => 0 < n
    <3>1. k # 0 => 1 \in 1 .. k
      BY <1>4
    <3>2. k # 0 => (1 - 1) * BatchSize < n /\ (1 - 1) * BatchSize \in Nat
      BY <3>1, <1>6, <1>7
    <3> QED BY <3>2
  <2> QED BY <1>4, <2>1, <2>2
<1> QED BY <1>1, <1>4, <1>5, <1>6, <1>7, <1>8, <1>9

LEMMA BatchesTogether ==
  ASSUME NEW S, NEW rows \in Seq(S)
  PROVE  FlattenSeq(InBatches(rows)) = rows
<1> DEFINE n == Len(rows)
           k == (n + BatchSize - 1) \div BatchSize
           seqs == InBatches(rows)
           upTo(i) == Min({i * BatchSize, n})
           g == [i \in 1 .. k |-> SubSeq(rows, 1, upTo(i))]
<1>1. n \in Nat
  OBVIOUS
<1>2. /\ BatchSize \in Nat \ {0} /\ k \in Nat
      /\ n = 0 <=> k = 0
      /\ \A i \in 1 .. k : (i - 1) * BatchSize \in Nat /\ i * BatchSize \in Nat
           /\ i * BatchSize = (i - 1) * BatchSize + BatchSize
           /\ (i - 1) * BatchSize < n
      /\ k * BatchSize \in Nat /\ n <= k * BatchSize
  <2> HIDE DEF n
  <2> QED BY <1>1, BatchBounds
<1>3. seqs = [i \in 1 .. k |-> SubSeq(rows, (i - 1) * BatchSize + 1, upTo(i))]
  BY DEF InBatches
<1>4. \A i \in 1 .. k :
        upTo(i) = IF i * BatchSize <= n THEN i * BatchSize ELSE n
  <2> HIDE DEF n, k
  <2> QED BY <1>1, <1>2, LeastOfTwo
<1> HIDE DEF k, seqs, upTo
<1>5. CASE n = 0
  <2>1. k = 0 /\ rows = <<>>
    BY <1>2, <1>5
  <2>2. seqs = <<>>
    BY <1>3, <2>1
  <2>3. FlattenSeq(seqs) = seqs
    BY <2>2 DEF FlattenSeq
  <2> QED BY <2>1, <2>2, <2>3 DEF seqs
<1>6. CASE n # 0
  <2>1. k \in Nat \ {0} /\ Len(seqs) = k
    BY <1>2, <1>3, <1>6
  <2>2. ASSUME NEW i \in 1 .. k
        PROVE  g[i] = IF i = 1 THEN seqs[i] ELSE g[i - 1] \o seqs[i]
    <3>1. g[i] = SubSeq(rows, 1, upTo(i))
          /\ seqs[i] = SubSeq(rows, (i - 1) * BatchSize + 1, upTo(i))
      BY <1>3
    <3>2. CASE i = 1
      <4>1. (i - 1) * BatchSize + 1 = 1
        BY <1>2, <3>2
      <4> QED BY <3>1, <3>2, <4>1
    <3>3. CASE i # 1
      <4> DEFINE a == (i - 1) * BatchSize
                 m == upTo(i)
      <4>1. i - 1 \in 1 .. k
        BY <1>2, <3>3
      <4>2. a \in Nat /\ a < n /\ i * BatchSize = a + BatchSize /\ i * BatchSize \in Nat
        BY <1>2
      <4>3. upTo(i - 1) = a
        BY <1>4, <4>1, <4>2
      <4>4. m = IF a + BatchSize <= n THEN a + BatchSize ELSE n
        BY <1>4, <4>2
      <4>5. m \in Nat /\ a <= m /\ m <= n
        <5> HIDE DEF a, m, n
        <5> QED BY <1>1, <1>2, <4>2, <4>4
      <4>6. g[i - 1] = SubSeq(rows, 1, a)
        <5>1. g[i - 1] = SubSeq(rows, 1, upTo(i - 1))
          BY <4>1
        <5> HIDE DEF a
        <5> QED BY <4>3, <5>1
      <4>7. SubSeq(rows, 1, a) \o SubSeq(rows, a + 1, m) = SubSeq(rows, 1, m)
        <5>1. a \in Nat
          BY <4>2
        <5> HIDE DEF a, m
        <5> QED BY <4>5, <5>1
      <4> HIDE DEF g
      <4> QED BY <3>1, <3>3, <4>6, <4>7
    <3> QED BY <3>2, <3>3
  <2>3. g = [i \in 1 .. k |-> IF i = 1 THEN seqs[i] ELSE g[i - 1] \o seqs[i]]
    <3>1. g = [i \in 1 .. k |-> g[i]]
      OBVIOUS
    <3> HIDE DEF g
    <3> QED BY <2>2, <3>1
  <2>4. FlattenSeq(seqs) = g[k]
    <3> HIDE DEF g
    <3>1. Flattens(g, seqs)
      BY <2>1, <2>3 DEF Flattens
    <3> QED BY <2>1, <3>1, Flattened
  <2>5. upTo(k) = n
    <3>1. k \in 1 .. k
      BY <2>1
    <3> HIDE DEF n
    <3> QED BY <1>1, <1>2, <1>4, <3>1
  <2>6. g[k] = rows
    <3>1. k \in 1 .. k
      BY <2>1
    <3>2. ASSUME NEW i \in 1 .. k PROVE g[i] = SubSeq(rows, 1, upTo(i))
      OBVIOUS
    <3> HIDE DEF g
    <3>3. g[k] = SubSeq(rows, 1, n)
      BY <2>5, <3>1, <3>2
    <3> QED BY <3>3
  <2> QED BY <2>4, <2>6 DEF seqs
<1> QED BY <1>5, <1>6

-----------------------------------------------------------------------------
(***************************************************************************)
(* The events that are met: each once, in whatever order the rows come.    *)
(***************************************************************************)

\* p puts D in the order R, at the numbers 1 .. n.
Enumerates(p, n, D, R) ==
  /\ p \in [1 .. n -> D]
  /\ \A x \in D : \E i \in 1 .. n : p[i] = x
  /\ \A i, j \in 1 .. n : i < j => <<p[i], p[j]>> \in R

\* There is one way to put a set in order.
LEMMA EnumeratedOnce ==
  ASSUME NEW n \in Nat, NEW D, NEW R, StrictOrder(D, R),
         NEW p, Enumerates(p, n, D, R), NEW q, Enumerates(q, n, D, R)
  PROVE  p = q
<1>1. ASSUME NEW i \in 1 .. n, \A j \in 1 .. n : j < i => p[j] = q[j], p[i] # q[i]
      PROVE  FALSE
  <2>1. p[i] \in D /\ q[i] \in D
    BY DEF Enumerates
  <2>2. PICK j \in 1 .. n : q[j] = p[i]
    BY <2>1 DEF Enumerates
  <2>3. PICK k \in 1 .. n : p[k] = q[i]
    BY <2>1 DEF Enumerates
  <2>4. \A l, m \in 1 .. n : l < m => p[l] # p[m] /\ q[l] # q[m]
    <3>1. \A l, m \in 1 .. n : l < m => /\ p[l] \in D /\ <<p[l], p[m]>> \in R
                                        /\ q[l] \in D /\ <<q[l], q[m]>> \in R
      BY DEF Enumerates
    <3>2. \A x \in D : <<x, x>> \notin R
      BY DEF StrictOrder
    <3> QED BY <3>1, <3>2
  <2>5. i < j
    <3>1. ~ (j < i)
      BY <1>1, <2>2, <2>4
    <3>2. j # i
      BY <1>1, <2>2
    <3> QED BY <3>1, <3>2
  <2>6. i < k
    <3>1. ~ (k < i)
      BY <1>1, <2>3, <2>4
    <3>2. k # i
      BY <1>1, <2>3
    <3> QED BY <3>1, <3>2
  <2>7. <<q[i], p[i]>> \in R /\ <<p[i], q[i]>> \in R
    BY <2>2, <2>3, <2>5, <2>6 DEF Enumerates
  <2>8. <<p[i], p[i]>> \in R
    BY <2>1, <2>7 DEF StrictOrder
  <2> QED BY <2>1, <2>8 DEF StrictOrder
<1>2. StepAlike(p, q, n)
  BY <1>1 DEF StepAlike
<1>3. \A i \in 1 .. n : p[i] = q[i]
  BY <1>2, StepsAgree
<1>4. p \in [1 .. n -> D] /\ q \in [1 .. n -> D]
  BY DEF Enumerates
<1> QED BY <1>3, <1>4

\* Numbers are in the order of their sizes.
LEMMA PositionsEnumerate ==
  ASSUME NEW K \in SUBSET Nat, IsFiniteSet(K)
  PROVE  StrictOrder(K, Less(K)) /\ Enumerates(Positions(K), Cardinality(K), K, Less(K))
<1>1. \A x, y \in K : <<x, y>> \in Less(K) <=> x < y
  BY DEF Less
<1>2. StrictOrder(K, Less(K))
  <2>1. \A x \in K : ~ (x < x)
    OBVIOUS
  <2>2. \A x, y, z \in K : x < y /\ y < z => x < z
    OBVIOUS
  <2>3. \A x, y \in K : x = y \/ x < y \/ y < x
    OBVIOUS
  <2> QED BY <1>1, <2>1, <2>2, <2>3 DEF StrictOrder
<1> DEFINE p == Positions(K)
           n == Cardinality(K)
<1>3. /\ p \in [1 .. n -> K]
      /\ \A k \in K : \E i \in 1 .. n : p[i] = k
      /\ \A i, j \in 1 .. n : i < j => p[i] < p[j]
  BY PositionsInOrder
<1> HIDE DEF p, n
<1>4. \A i, j \in 1 .. n : i < j => <<p[i], p[j]>> \in Less(K)
  BY <1>1, <1>3
<1> QED BY <1>2, <1>3, <1>4 DEF Enumerates, p, n

\* One more position, after the others.
LEMMA AtAppended ==
  ASSUME NEW S, NEW s \in Seq(S), NEW K \in SUBSET (DOMAIN s),
         NEW m \in DOMAIN s, \A k \in K : k < m
  PROVE  Picked(s, K \cup {m}) = Append(Picked(s, K), s[m])
<1> DEFINE K1 == K \cup {m}
           n == Cardinality(K)
           p == Positions(K)
           p1 == Positions(K1)
           q == [i \in 1 .. n + 1 |-> IF i = n + 1 THEN m ELSE p[i]]
<1>1. K \in SUBSET Nat /\ IsFiniteSet(K) /\ n \in Nat /\ m \in Nat /\ m \notin K
  <2>1. K \in SUBSET Nat /\ IsFiniteSet(K) /\ n \in Nat
    BY SomePositions
  <2>2. m \in Nat /\ (m \in K => m < m)
    OBVIOUS
  <2> QED BY <2>1, <2>2
<1>2. K1 \in SUBSET Nat /\ IsFiniteSet(K1) /\ Cardinality(K1) = n + 1
  BY <1>1, FS_AddElement
<1>3. StrictOrder(K1, Less(K1)) /\ Enumerates(p1, n + 1, K1, Less(K1))
  <2>1. StrictOrder(K1, Less(K1)) /\ Enumerates(p1, Cardinality(K1), K1, Less(K1))
    <3> HIDE DEF K1
    <3> QED BY <1>2, PositionsEnumerate
  <2> HIDE DEF K1, n, p1
  <2> QED BY <1>2, <2>1
<1>4. /\ p \in [1 .. n -> K]
      /\ \A k \in K : \E i \in 1 .. n : p[i] = k
      /\ \A i, j \in 1 .. n : i < j => p[i] < p[j]
  BY <1>1, PositionsInOrder
<1> HIDE DEF n, p, p1
<1>5. q \in [1 .. n + 1 -> K1]
  BY <1>1, <1>4
<1>6. \A x \in K1 : \E i \in 1 .. n + 1 : q[i] = x
  <2>1. n + 1 \in 1 .. n + 1 /\ q[n + 1] = m
    BY <1>1
  <2>2. \A i \in 1 .. n : i \in 1 .. n + 1 /\ q[i] = p[i]
    BY <1>1
  <2> HIDE DEF q
  <2> QED BY <1>4, <2>1, <2>2
<1>7. ASSUME NEW i \in 1 .. n + 1, NEW j \in 1 .. n + 1, i < j
      PROVE  <<q[i], q[j]>> \in Less(K1)
  <2>1. i \in 1 .. n /\ q[i] = p[i] /\ p[i] \in K
    BY <1>1, <1>4, <1>7
  <2>2. q[i] < q[j]
    <3>1. CASE j = n + 1
      <4>1. q[j] = m
        BY <3>1
      <4> HIDE DEF q
      <4> QED BY <2>1, <4>1
    <3>2. CASE j # n + 1
      <4>1. j \in 1 .. n /\ q[j] = p[j]
        BY <1>1, <3>2
      <4> HIDE DEF q
      <4> QED BY <1>4, <1>7, <2>1, <4>1
    <3> QED BY <3>1, <3>2
  <2>3. q[i] \in K1 /\ q[j] \in K1
    BY <1>5
  <2> HIDE DEF q, K1
  <2> QED BY <2>2, <2>3 DEF Less
<1>8. Enumerates(q, n + 1, K1, Less(K1))
  <2> HIDE DEF q, K1
  <2> QED BY <1>5, <1>6, <1>7 DEF Enumerates
<1>9. p1 = q
  <2> HIDE DEF q, K1
  <2>1. n + 1 \in Nat
    BY <1>1
  <2> QED BY <1>3, <1>8, <2>1, EnumeratedOnce
<1>10. Picked(s, K1) = [i \in 1 .. n + 1 |-> s[q[i]]]
  <2>1. Picked(s, K1) = [i \in DOMAIN p1 |-> s[p1[i]]]
    BY DEF Picked, Map, p1
  <2>2. DOMAIN q = 1 .. n + 1
    OBVIOUS
  <2> HIDE DEF q, K1
  <2> QED BY <1>9, <2>1, <2>2
<1>11. Picked(s, K) = [i \in 1 .. n |-> s[p[i]]] /\ Picked(s, K) \in Seq(S)
  <2>1. Picked(s, K) = [i \in DOMAIN p |-> s[p[i]]]
    BY DEF Picked, Map, p
  <2>2. Picked(s, K) \in Seq(S)
    BY AtPositions
  <2> QED BY <1>4, <2>1, <2>2
<1> DEFINE t == Picked(s, K)
<1>12. Append(t, s[m]) = [i \in 1 .. n + 1 |-> IF i = n + 1 THEN s[m] ELSE s[p[i]]]
  <2>1. Len(t) = n
    BY <1>1, <1>11
  <2>2. \A i \in 1 .. n : t[i] = s[p[i]]
    BY <1>11
  <2> HIDE DEF t, q, K1
  <2> QED BY <1>1, <2>1, <2>2, <1>11 DEF t
<1>13. \A i \in 1 .. n + 1 : s[q[i]] = IF i = n + 1 THEN s[m] ELSE s[p[i]]
  OBVIOUS
<1> HIDE DEF q
<1> QED BY <1>10, <1>12, <1>13

\* Two functions of the subsets of a finite set that are alike where they
\* are alike on every smaller subset.
FoldAlike(f, g, S) ==
  \A s \in SUBSET S : (\A u \in SUBSET s : u # s => f[u] = g[u]) => f[s] = g[s]

LEMMA FoldsAgree ==
  ASSUME NEW S, IsFiniteSet(S), NEW f, NEW g, FoldAlike(f, g, S)
  PROVE  \A s \in SUBSET S : f[s] = g[s]
<1> DEFINE Wrong == {s \in SUBSET S : f[s] # g[s]}
<1>1. SUFFICES ASSUME Wrong # {} PROVE FALSE
  OBVIOUS
<1>2. PICK s : Smallest(Wrong, s)
  <2>1. Wrong \subseteq SUBSET S
    OBVIOUS
  <2> HIDE DEF Wrong
  <2> QED BY <1>1, <2>1, SmallestSubset
<1>3. s \in SUBSET S /\ f[s] # g[s]
  BY <1>2 DEF Smallest
<1>4. ASSUME NEW u \in SUBSET s, u # s PROVE f[u] = g[u]
  <2>1. u \in SUBSET S
    BY <1>3
  <2>2. u \notin Wrong
    BY <1>2, <1>4 DEF Smallest
  <2> QED BY <2>1, <2>2
<1> QED BY <1>3, <1>4 DEF FoldAlike

\* What MeetEvents defines by recursion over the places of the rows.
Meets(f, codes, rows) ==
  f = [s \in SUBSET (DOMAIN rows) |->
         IF s = {} THEN codes
         ELSE IF rows[Max(s)].event \in ToSet(f[s \ {Max(s)}])
              THEN f[s \ {Max(s)}]
              ELSE Append(f[s \ {Max(s)}], rows[Max(s)].event)]

LEMMA MeetEventsFolds ==
  ASSUME NEW S, NEW rows \in Seq(S), NEW codes, NEW g, Meets(g, codes, rows)
  PROVE  MeetEvents(codes, rows) = g[DOMAIN rows]
<1>1. MeetEvents(codes, rows) = (CHOOSE f : Meets(f, codes, rows))[DOMAIN rows]
  BY DEF MeetEvents, FoldLeft, MapThenFoldSet, Meets
<1>2. PICK f : f = (CHOOSE h : Meets(h, codes, rows)) /\ Meets(f, codes, rows)
  OBVIOUS
<1>3. DOMAIN rows = 1 .. Len(rows) /\ Len(rows) \in Nat
  OBVIOUS
<1>4. IsFiniteSet(DOMAIN rows)
  BY <1>3, FS_Interval
<1>5. ASSUME NEW s \in SUBSET (DOMAIN rows),
             \A u \in SUBSET s : u # s => f[u] = g[u]
      PROVE  f[s] = g[s]
  <2>1. CASE s = {}
    BY <1>2, <2>1 DEF Meets
  <2>2. CASE s # {}
    <3> DEFINE m == Max(s)
    <3>1. s \in SUBSET Nat /\ IsFiniteSet(s)
      BY <1>3, <1>4, FS_Subset
    <3>2. m \in s
      BY <2>2, <3>1, Extremes
    <3>3. f[s \ {m}] = g[s \ {m}]
      <4>1. s \ {m} \in SUBSET s /\ s \ {m} # s
        BY <3>2
      <4> QED BY <1>5, <4>1
    <3>4. f[s] = IF rows[m].event \in ToSet(f[s \ {m}]) THEN f[s \ {m}]
                 ELSE Append(f[s \ {m}], rows[m].event)
      BY <1>2, <2>2 DEF Meets
    <3>5. g[s] = IF rows[m].event \in ToSet(g[s \ {m}]) THEN g[s \ {m}]
                 ELSE Append(g[s \ {m}], rows[m].event)
      BY <2>2 DEF Meets
    <3> QED BY <3>3, <3>4, <3>5
  <2> QED BY <2>1, <2>2
<1>6. FoldAlike(f, g, DOMAIN rows)
  BY <1>5 DEF FoldAlike
<1>7. \A s \in SUBSET (DOMAIN rows) : f[s] = g[s]
  BY <1>4, <1>6, FoldsAgree
<1> QED BY <1>1, <1>2, <1>7

LEMMA JoinedElements ==
  ASSUME NEW S, NEW a \in Seq(S), NEW b \in Seq(S)
  PROVE  ToSet(a \o b) = ToSet(a) \cup ToSet(b)
<1> DEFINE n == Len(a)
           m == Len(b)
           c == a \o b
<1>1. /\ n \in Nat /\ m \in Nat /\ DOMAIN a = 1 .. n /\ DOMAIN b = 1 .. m
      /\ DOMAIN c = 1 .. n + m
      /\ \A i \in 1 .. n : c[i] = a[i]
      /\ \A i \in 1 .. m : c[n + i] = b[i]
      /\ \A i \in n + 1 .. n + m : c[i] = b[i - n]
  OBVIOUS
<1> HIDE DEF n, m, c
<1>2. \A i \in 1 .. n : i \in 1 .. n + m
  BY <1>1
<1>3. \A i \in 1 .. m : n + i \in 1 .. n + m
  BY <1>1
<1>4. \A i \in 1 .. n + m : i \in 1 .. n \/ (i \in n + 1 .. n + m /\ i - n \in 1 .. m)
  BY <1>1
<1>5. ASSUME NEW x \in ToSet(c) PROVE x \in ToSet(a) \cup ToSet(b)
  <2>1. PICK i \in 1 .. n + m : c[i] = x
    BY <1>1 DEF ToSet
  <2>2. CASE i \in 1 .. n
    BY <1>1, <2>1, <2>2 DEF ToSet
  <2>3. CASE i \in n + 1 .. n + m /\ i - n \in 1 .. m
    <3>1. b[i - n] = x
      BY <1>1, <2>1, <2>3
    <3> QED BY <1>1, <2>3, <3>1 DEF ToSet
  <2> QED BY <1>4, <2>2, <2>3
<1>6. ASSUME NEW x \in ToSet(a) PROVE x \in ToSet(c)
  <2>1. PICK i \in 1 .. n : a[i] = x
    BY <1>1 DEF ToSet
  <2>2. c[i] = x
    BY <1>1, <2>1
  <2> QED BY <1>1, <1>2, <2>2 DEF ToSet
<1>7. ASSUME NEW x \in ToSet(b) PROVE x \in ToSet(c)
  <2>1. PICK i \in 1 .. m : b[i] = x
    BY <1>1 DEF ToSet
  <2>2. c[n + i] = x
    BY <1>1, <2>1
  <2> QED BY <1>1, <1>3, <2>2 DEF ToSet
<1> QED BY <1>5, <1>6, <1>7 DEF c

\* The places of the rows of s whose event is new there.
FirstMet(codes, evs, s) ==
  {i \in s : evs[i] \notin ToSet(codes) /\ \A j \in s : j < i => evs[j] # evs[i]}

Met(codes, evs, s) == codes \o Picked(evs, FirstMet(codes, evs, s))

LEMMA MetElements ==
  ASSUME NEW E, NEW evs \in Seq(E), NEW codes \in Seq(E), NEW s \in SUBSET (DOMAIN evs)
  PROVE  /\ Met(codes, evs, s) \in Seq(E)
         /\ ToSet(Met(codes, evs, s)) = ToSet(codes) \cup {evs[i] : i \in s}
<1> DEFINE K == FirstMet(codes, evs, s)
<1>1. K \in SUBSET (DOMAIN evs) /\ K \subseteq s
  BY DEF FirstMet
<1>2. Picked(evs, K) \in Seq(E) /\ ToSet(Picked(evs, K)) = {evs[i] : i \in K}
  <2> HIDE DEF K
  <2> QED BY <1>1, AtPositions
<1>3. ToSet(codes \o Picked(evs, K)) = ToSet(codes) \cup {evs[i] : i \in K}
  <2> HIDE DEF K
  <2> QED BY <1>2, JoinedElements
<1>4. ASSUME NEW i \in s, evs[i] \notin ToSet(codes)
      PROVE  \E k \in K : evs[k] = evs[i]
  <2> DEFINE Same == {j \in s : evs[j] = evs[i]}
  <2>1. Same \in SUBSET Nat /\ Same # {}
    OBVIOUS
  <2>2. PICK k \in Same : \A j \in Same : k <= j
    <3> HIDE DEF Same
    <3> QED BY <2>1, LeastNumber
  <2>3. k \in s /\ evs[k] = evs[i] /\ k \in Nat
    BY <2>1
  <2>4. ASSUME NEW j \in s, j < k PROVE evs[j] # evs[k]
    <3>1. j \in Nat /\ ~ (k <= j)
      BY <2>3, <2>4
    <3> QED BY <2>2, <2>3, <3>1
  <2>5. k \in K
    BY <1>4, <2>3, <2>4 DEF FirstMet
  <2> QED BY <2>3, <2>5
<1>5. ToSet(codes) \cup {evs[i] : i \in K} = ToSet(codes) \cup {evs[i] : i \in s}
  <2> HIDE DEF K
  <2> QED BY <1>1, <1>4
<1>6. codes \o Picked(evs, K) \in Seq(E)
  <2> HIDE DEF K
  <2> QED BY <1>2
<1> QED BY <1>3, <1>5, <1>6 DEF Met

\* The last row adds its event, if that is new.
LEMMA MetStep ==
  ASSUME NEW E, NEW evs \in Seq(E), NEW codes \in Seq(E),
         NEW s \in SUBSET (DOMAIN evs), NEW m \in s, \A i \in s : i <= m
  PROVE  Met(codes, evs, s) =
           IF evs[m] \in ToSet(Met(codes, evs, s \ {m})) THEN Met(codes, evs, s \ {m})
           ELSE Append(Met(codes, evs, s \ {m}), evs[m])
<1> DEFINE u == s \ {m}
           K == FirstMet(codes, evs, s)
           L == FirstMet(codes, evs, u)
<1>1. u \in SUBSET (DOMAIN evs) /\ s \in SUBSET Nat /\ m \in DOMAIN evs
  OBVIOUS
<1>2. ToSet(Met(codes, evs, u)) = ToSet(codes) \cup {evs[i] : i \in u}
  <2> HIDE DEF u
  <2> QED BY <1>1, MetElements
<1>3. \A i \in u : i < m /\ ~ (m < i)
  BY <1>1
<1>4. L \in SUBSET (DOMAIN evs) /\ L \subseteq u
  BY DEF FirstMet
<1>5. \A i \in u : i \in K <=> i \in L
  BY <1>3 DEF FirstMet
<1>6. CASE evs[m] \in ToSet(Met(codes, evs, u))
  <2>1. m \notin K
    <3>1. evs[m] \in ToSet(codes) \/ \E j \in u : evs[j] = evs[m]
      BY <1>2, <1>6
    <3>2. \A j \in u : j \in s /\ j < m
      BY <1>3
    <3> QED BY <3>1, <3>2 DEF FirstMet
  <2>2. K = L
    <3>1. K \subseteq s
      BY DEF FirstMet
    <3> QED BY <1>4, <1>5, <2>1, <3>1
  <2> QED BY <1>6, <2>2 DEF Met
<1>7. CASE evs[m] \notin ToSet(Met(codes, evs, u))
  <2>1. evs[m] \notin ToSet(codes) /\ \A j \in u : evs[j] # evs[m]
    BY <1>2, <1>7
  <2>2. m \in K
    <3>1. \A j \in s : j < m => j \in u
      BY <1>1
    <3> QED BY <2>1, <3>1 DEF FirstMet
  <2>3. K = L \cup {m}
    <3>1. K \subseteq s
      BY DEF FirstMet
    <3> QED BY <1>4, <1>5, <2>2, <3>1
  <2>4. Picked(evs, L \cup {m}) = Append(Picked(evs, L), evs[m])
    <3>1. \A k \in L : k < m
      BY <1>3, <1>4
    <3> HIDE DEF L
    <3> QED BY <1>1, <1>4, <3>1, AtAppended
  <2>5. Picked(evs, L) \in Seq(E)
    <3> HIDE DEF L
    <3> QED BY <1>4, AtPositions
  <2>6. evs[m] \in E
    BY <1>1
  <2>7. codes \o Append(Picked(evs, L), evs[m]) = Append(codes \o Picked(evs, L), evs[m])
    <3> HIDE DEF L
    <3> QED BY <2>5, <2>6
  <2> QED BY <1>7, <2>3, <2>4, <2>7 DEF Met
<1> QED BY <1>6, <1>7

\* Each event is met once.
LEMMA EventsAreMet ==
  ASSUME NEW S, NEW rows, Lists(rows, S), NEW C, NEW codes, Lists(codes, C)
  PROVE  Lists(MeetEvents(codes, rows), C \cup {r.event : r \in S})
<1> DEFINE E == C \cup {r.event : r \in S}
           evs == [i \in DOMAIN rows |-> rows[i].event]
           g == [s \in SUBSET (DOMAIN rows) |-> Met(codes, evs, s)]
           K == FirstMet(codes, evs, DOMAIN rows)
<1>1. rows \in Seq(S) /\ ToSet(rows) = S /\ DOMAIN rows = 1 .. Len(rows) /\ Len(rows) \in Nat
  BY DEF Lists
<1>2. codes \in Seq(E) /\ ToSet(codes) = C
  <2>1. codes \in Seq(C) /\ ToSet(codes) = C
    BY DEF Lists
  <2> QED BY <2>1
<1>3. evs \in Seq(E) /\ DOMAIN evs = DOMAIN rows
  <2>1. \A i \in 1 .. Len(rows) : rows[i] \in S /\ rows[i].event \in E
    BY <1>1
  <2> HIDE DEF E
  <2> QED BY <1>1, <2>1
<1>4. Meets(g, codes, rows)
  <2>1. ASSUME NEW s \in SUBSET (DOMAIN rows)
        PROVE  g[s] = IF s = {} THEN codes
                      ELSE IF rows[Max(s)].event \in ToSet(g[s \ {Max(s)}])
                           THEN g[s \ {Max(s)}]
                           ELSE Append(g[s \ {Max(s)}], rows[Max(s)].event)
    <3>1. CASE s = {}
      <4>1. FirstMet(codes, evs, {}) = {}
        BY DEF FirstMet
      <4>2. Picked(evs, {}) = <<>>
        <5>1. {} \in SUBSET (DOMAIN evs)
          OBVIOUS
        <5> HIDE DEF evs, E
        <5> QED BY <1>3, <5>1, AtNone
      <4>3. Met(codes, evs, {}) = codes
        <5>1. Met(codes, evs, {}) = codes \o Picked(evs, FirstMet(codes, evs, {}))
          BY DEF Met
        <5> HIDE DEF evs, E
        <5>2. codes \o <<>> = codes
          BY <1>2
        <5> QED BY <4>1, <4>2, <5>1, <5>2
      <4>4. g[s] = Met(codes, evs, s)
        OBVIOUS
      <4> HIDE DEF g, evs
      <4> QED BY <3>1, <4>3, <4>4
    <3>2. CASE s # {}
      <4> DEFINE m == Max(s)
      <4>1. s \in SUBSET Nat /\ IsFiniteSet(s)
        <5>1. IsFiniteSet(DOMAIN rows)
          BY <1>1, FS_Interval
        <5> QED BY <1>1, <5>1, FS_Subset
      <4>2. m \in s /\ \A i \in s : m >= i
        BY <3>2, <4>1, Extremes
      <4>3. \A i \in s : i <= m
        BY <4>1, <4>2
      <4>4. rows[m].event = evs[m] /\ s \ {m} \in SUBSET (DOMAIN rows)
        BY <4>2
      <4>5. g[s] = Met(codes, evs, s) /\ g[s \ {m}] = Met(codes, evs, s \ {m})
        OBVIOUS
      <4> HIDE DEF g, m, evs, E
      <4>6. Met(codes, evs, s) =
              IF evs[m] \in ToSet(Met(codes, evs, s \ {m})) THEN Met(codes, evs, s \ {m})
              ELSE Append(Met(codes, evs, s \ {m}), evs[m])
        BY <1>2, <1>3, <4>2, <4>3, MetStep
      <4>7. g[s] = IF rows[m].event \in ToSet(g[s \ {m}]) THEN g[s \ {m}]
                   ELSE Append(g[s \ {m}], rows[m].event)
        BY <4>4, <4>5, <4>6
      <4> QED BY <3>2, <4>7 DEF m
    <3> QED BY <3>1, <3>2
  <2>2. g = [s \in SUBSET (DOMAIN rows) |-> g[s]]
    OBVIOUS
  <2> HIDE DEF g
  <2> QED BY <2>1, <2>2 DEF Meets
<1>5. MeetEvents(codes, rows) = codes \o Picked(evs, K)
  <2>1. MeetEvents(codes, rows) = g[DOMAIN rows]
    <3> HIDE DEF g
    <3> QED BY <1>1, <1>4, MeetEventsFolds
  <2>2. g[DOMAIN rows] = Met(codes, evs, DOMAIN rows)
    OBVIOUS
  <2> HIDE DEF g, evs
  <2> QED BY <2>1, <2>2 DEF Met
<1>6. /\ MeetEvents(codes, rows) \in Seq(E)
      /\ ToSet(MeetEvents(codes, rows)) = C \cup {evs[i] : i \in DOMAIN rows}
  <2>1. Met(codes, evs, DOMAIN rows) = MeetEvents(codes, rows)
    <3> HIDE DEF evs
    <3> QED BY <1>5 DEF Met
  <2> HIDE DEF evs, E
  <2> QED BY <1>2, <1>3, <2>1, MetElements
<1>7. {evs[i] : i \in DOMAIN rows} = {r.event : r \in S}
  BY <1>1 DEF ToSet
<1>8. Lists(MeetEvents(codes, rows), E)
  <2> DEFINE b == Picked(evs, K)
  <2>1. K \in SUBSET (DOMAIN evs)
    BY <1>3 DEF FirstMet
  <2>2. /\ b \in Seq(E) /\ DOMAIN b = 1 .. Len(b) /\ Len(b) \in Nat
        /\ \A n \in DOMAIN b : Positions(K)[n] \in K /\ b[n] = evs[Positions(K)[n]]
        /\ \A l, n \in DOMAIN b : l < n => Positions(K)[l] < Positions(K)[n]
    <3> HIDE DEF K, evs, E
    <3> QED BY <1>3, <2>1, AtPositions
  <2>3. \A k, l \in K : k < l => evs[k] # evs[l]
    BY DEF FirstMet
  <2>4. \A k \in K : evs[k] \notin C
    BY <1>2 DEF FirstMet
  <2> HIDE DEF b, K, evs, E
  <2>5. \A l, n \in DOMAIN b : b[l] = b[n] => l = n
    <3>1. \A l, n \in DOMAIN b : l < n => b[l] # b[n]
      BY <2>2, <2>3
    <3> QED BY <2>2, <3>1
  <2>6. \A n \in DOMAIN b : b[n] \notin C
    BY <2>2, <2>4
  <2>7. \A l, n \in DOMAIN codes : codes[l] = codes[n] => l = n
    BY DEF Lists
  <2>8. \A l \in DOMAIN codes : codes[l] \in C
    BY <1>2 DEF ToSet
  <2> DEFINE c == codes \o b
             k == Len(codes)
  <2>9. /\ k \in Nat /\ DOMAIN codes = 1 .. k /\ DOMAIN c = 1 .. k + Len(b)
        /\ \A i \in 1 .. k : c[i] = codes[i]
        /\ \A i \in k + 1 .. k + Len(b) : c[i] = b[i - k]
    BY <1>2, <2>2
  <2> HIDE DEF c, k
  <2>10. ASSUME NEW i \in DOMAIN c, NEW j \in DOMAIN c, i < j
         PROVE  c[i] # c[j]
    <3>1. CASE j <= k
      <4>1. i \in 1 .. k /\ j \in 1 .. k
        BY <2>9, <2>10, <3>1
      <4>2. c[i] = codes[i] /\ c[j] = codes[j]
        BY <2>9, <4>1
      <4>3. i # j
        BY <2>9, <2>10
      <4> QED BY <2>7, <2>9, <4>1, <4>2, <4>3
    <3>2. CASE i <= k /\ k < j
      <4>1. i \in 1 .. k /\ j \in k + 1 .. k + Len(b) /\ j - k \in 1 .. Len(b)
        BY <2>2, <2>9, <3>2
      <4>2. c[i] = codes[i] /\ c[j] = b[j - k]
        BY <2>9, <4>1
      <4>3. c[i] \in C
        BY <2>8, <2>9, <4>1, <4>2
      <4>4. c[j] \notin C
        BY <2>2, <2>6, <4>1, <4>2
      <4> QED BY <4>3, <4>4
    <3>3. CASE k < i
      <4>1. i \in k + 1 .. k + Len(b) /\ j \in k + 1 .. k + Len(b)
            /\ i - k \in 1 .. Len(b) /\ j - k \in 1 .. Len(b) /\ i - k # j - k
        BY <2>2, <2>9, <2>10, <3>3
      <4>2. c[i] = b[i - k] /\ c[j] = b[j - k]
        BY <2>9, <4>1
      <4> QED BY <2>2, <2>5, <4>1, <4>2
    <3> QED BY <2>2, <2>9, <3>1, <3>2, <3>3
  <2>11. \A i, j \in DOMAIN c : c[i] = c[j] => i = j
    BY <2>2, <2>9, <2>10
  <2>12. c = MeetEvents(codes, rows)
    BY <1>5 DEF b, c
  <2>13. ToSet(MeetEvents(codes, rows)) = E
    BY <1>6, <1>7 DEF E
  <2> QED BY <1>6, <2>11, <2>12, <2>13 DEF Lists
<1> QED BY <1>8 DEF E

-----------------------------------------------------------------------------
(***************************************************************************)
(* Sums.  A sum of natural numbers counts the pairs of a summand and a     *)
(* number up to it, so that its value does not depend on an order.         *)
(***************************************************************************)

Units(S, w) == {u \in S \X Nat : 1 <= u[2] /\ u[2] <= w[u[1]]}

Count(S, w) == Cardinality(Units(S, w))

UnitsOf(x, w) == {x} \X (1 .. w[x])

LEMMA CountType ==
  ASSUME NEW S, IsFiniteSet(S), NEW w, \A x \in S : w[x] \in Nat
  PROVE  IsFiniteSet(Units(S, w)) /\ Count(S, w) \in Nat
<1> DEFINE Parts == {UnitsOf(x, w) : x \in S}
<1>1. IsFiniteSet(Parts)
  <2> DEFINE part == [x \in S |-> UnitsOf(x, w)]
  <2>1. part \in Surjection(S, Parts)
    BY DEF Surjection
  <2> HIDE DEF part, Parts
  <2> QED BY <2>1, FS_Surjection
<1>2. ASSUME NEW x \in S PROVE IsFiniteSet(UnitsOf(x, w))
  <2>1. IsFiniteSet({x})
    BY FS_Singleton
  <2>2. IsFiniteSet(1 .. w[x])
    BY FS_Interval
  <2> QED BY <2>1, <2>2, FS_Product DEF UnitsOf
<1>3. \A P \in Parts : IsFiniteSet(P)
  BY <1>2
<1>4. IsFiniteSet(UNION Parts)
  <2> HIDE DEF Parts
  <2> QED BY <1>1, <1>3, FS_UNION
<1>5. Units(S, w) \subseteq UNION Parts
  <2>1. ASSUME NEW u \in Units(S, w)
        PROVE  u \in UnitsOf(u[1], w) /\ u[1] \in S
    BY DEF Units, UnitsOf
  <2> QED BY <2>1
<1>6. IsFiniteSet(Units(S, w))
  <2> HIDE DEF Parts
  <2> QED BY <1>4, <1>5, FS_Subset
<1> QED BY <1>6, FS_CardinalityType DEF Count

LEMMA CountNothing ==
  ASSUME NEW w
  PROVE  Count({}, w) = 0
<1>1. Units({}, w) = {}
  BY DEF Units
<1> QED BY <1>1, FS_EmptySet DEF Count

LEMMA CountStep ==
  ASSUME NEW S, IsFiniteSet(S), NEW w, \A x \in S : w[x] \in Nat, NEW x \in S
  PROVE  Count(S, w) = w[x] + Count(S \ {x}, w) /\ Count(S \ {x}, w) \in Nat
<1> DEFINE A == UnitsOf(x, w)
           B == Units(S \ {x}, w)
<1>1. IsFiniteSet(A) /\ Cardinality(A) = w[x]
  <2>1. IsFiniteSet({x}) /\ Cardinality({x}) = 1
    BY FS_Singleton
  <2>2. IsFiniteSet(1 .. w[x]) /\ Cardinality(1 .. w[x]) = w[x]
    BY FS_Interval
  <2>3. IsFiniteSet({x} \X (1 .. w[x]))
        /\ Cardinality({x} \X (1 .. w[x])) = Cardinality({x}) * Cardinality(1 .. w[x])
    BY <2>1, <2>2, FS_Product
  <2>4. Cardinality({x}) * Cardinality(1 .. w[x]) = w[x]
    BY <2>1, <2>2
  <2> QED BY <2>3, <2>4 DEF UnitsOf
<1>2. IsFiniteSet(S \ {x}) /\ \A y \in S \ {x} : w[y] \in Nat
  BY FS_RemoveElement
<1>3. IsFiniteSet(B) /\ Count(S \ {x}, w) \in Nat
  BY <1>2, CountType
<1>4. Units(S, w) = A \cup B
  <2>1. w[x] \in Nat
    OBVIOUS
  <2>2. ASSUME NEW u \in A PROVE u \in Units(S, w)
    BY <2>1 DEF Units, UnitsOf
  <2>3. ASSUME NEW u \in B PROVE u \in Units(S, w)
    BY DEF Units
  <2>4. ASSUME NEW u \in Units(S, w), u \notin B PROVE u \in A
    <3>1. u \in S \X Nat /\ 1 <= u[2] /\ u[2] <= w[u[1]]
      BY DEF Units
    <3>2. u[1] = x
      BY <2>4, <3>1 DEF Units
    <3> QED BY <2>1, <3>1, <3>2 DEF UnitsOf
  <2> QED BY <2>2, <2>3, <2>4
<1>5. A \cap B = {}
  BY DEF Units, UnitsOf
<1>6. Cardinality(A \cup B) = Cardinality(A) + Cardinality(B)
  <2>1. Cardinality(A \cup B) = Cardinality(A) + Cardinality(B) - Cardinality(A \cap B)
    BY <1>1, <1>3, FS_Union
  <2>2. Cardinality(A \cap B) = 0
    BY <1>5, FS_EmptySet
  <2>3. Cardinality(A) \in Nat /\ Cardinality(B) \in Nat
    BY <1>1, <1>3, FS_CardinalityType
  <2> HIDE DEF A, B
  <2> QED BY <2>1, <2>2, <2>3
<1> HIDE DEF A
<1> QED BY <1>1, <1>3, <1>4, <1>6 DEF Count

\* The same summands under other names.
LEMMA CountMoved ==
  ASSUME NEW S, IsFiniteSet(S), NEW w, \A x \in S : w[x] \in Nat,
         NEW T, NEW h \in [S -> T], NEW v,
         \A x, y \in S : h[x] = h[y] => x = y,
         \A z \in T : \E x \in S : h[x] = z,
         \A x \in S : v[h[x]] = w[x]
  PROVE  Count(S, w) = Count(T, v)
<1> DEFINE move == [u \in Units(S, w) |-> <<h[u[1]], u[2]>>]
<1>1. \A u \in Units(S, w) : u \in S \X Nat /\ 1 <= u[2] /\ u[2] <= w[u[1]]
  BY DEF Units
<1>2. move \in [Units(S, w) -> Units(T, v)]
  <2>1. ASSUME NEW u \in Units(S, w)
        PROVE  <<h[u[1]], u[2]>> \in Units(T, v)
    <3>1. u[1] \in S /\ u[2] \in Nat /\ 1 <= u[2] /\ u[2] <= w[u[1]]
      BY <1>1
    <3>2. h[u[1]] \in T /\ v[h[u[1]]] = w[u[1]]
      BY <3>1
    <3>3. <<h[u[1]], u[2]>> \in T \X Nat
      BY <3>1, <3>2
    <3> QED BY <3>1, <3>2, <3>3 DEF Units
  <2> QED BY <2>1
<1>3. ASSUME NEW u \in Units(S, w), NEW t \in Units(S, w), move[u] = move[t]
      PROVE  u = t
  <2>1. h[u[1]] = h[t[1]] /\ u[2] = t[2]
    BY <1>3
  <2>2. u[1] \in S /\ t[1] \in S /\ u = <<u[1], u[2]>> /\ t = <<t[1], t[2]>>
    BY <1>1
  <2>3. u[1] = t[1]
    BY <2>1, <2>2
  <2> QED BY <2>1, <2>2, <2>3
<1>4. ASSUME NEW z \in Units(T, v) PROVE \E u \in Units(S, w) : move[u] = z
  <2>1. z \in T \X Nat /\ 1 <= z[2] /\ z[2] <= v[z[1]]
    BY DEF Units
  <2>2. PICK x \in S : h[x] = z[1]
    BY <2>1
  <2>3. <<x, z[2]>> \in Units(S, w)
    BY <2>1, <2>2 DEF Units
  <2>4. move[<<x, z[2]>>] = <<h[x], z[2]>>
    BY <2>3
  <2>5. z = <<z[1], z[2]>>
    BY <2>1
  <2> QED BY <2>2, <2>3, <2>4, <2>5
<1> HIDE DEF move
<1>5. move \in Bijection(Units(S, w), Units(T, v))
  BY <1>2, <1>3, <1>4 DEF Bijection, Injection, Surjection, IsInjective
<1>6. ExistsBijection(Units(S, w), Units(T, v))
  BY <1>5 DEF ExistsBijection
<1>7. IsFiniteSet(Units(S, w))
  BY CountType
<1> QED BY <1>6, <1>7, FS_Bijection DEF Count

Magnitude(r) == IF r.amount < 0 THEN -r.amount ELSE r.amount

\* What Sum defines by recursion over the sets of rows.
Sums(f, T) ==
  f = [s \in SUBSET T |->
         IF s = {} THEN 0
         ELSE Magnitude(CHOOSE x \in s : TRUE) + f[s \ {CHOOSE x \in s : TRUE}]]

LEMMA SumCounts ==
  ASSUME NEW T, IsFiniteSet(T), NEW w, \A r \in T : w[r] = Magnitude(r) /\ w[r] \in Nat
  PROVE  Sum(T) = Count(T, w)
<1> DEFINE g == [s \in SUBSET T |-> Count(s, w)]
<1>1. Sum(T) = (CHOOSE f : Sums(f, T))[T]
  BY DEF Sum, MapThenSumSet, MapThenFoldSet, Sums, Magnitude
<1>2. ASSUME NEW s \in SUBSET T, s # {}, NEW x \in s
      PROVE  g[s] = Magnitude(x) + g[s \ {x}]
  <2>1. IsFiniteSet(s) /\ \A y \in s : w[y] \in Nat
    BY FS_Subset
  <2>2. Count(s, w) = w[x] + Count(s \ {x}, w)
    BY <2>1, CountStep
  <2>3. w[x] = Magnitude(x)
    OBVIOUS
  <2> QED BY <2>2, <2>3
<1>3. Sums(g, T)
  <2>1. ASSUME NEW s \in SUBSET T
        PROVE  g[s] = IF s = {} THEN 0
                      ELSE Magnitude(CHOOSE x \in s : TRUE)
                           + g[s \ {CHOOSE x \in s : TRUE}]
    <3>1. CASE s = {}
      BY <3>1, CountNothing
    <3>2. CASE s # {}
      <4>1. (CHOOSE x \in s : TRUE) \in s
        BY <3>2
      <4> HIDE DEF g
      <4> QED BY <1>2, <3>2, <4>1
    <3> QED BY <3>1, <3>2
  <2>2. g = [s \in SUBSET T |-> g[s]]
    OBVIOUS
  <2> HIDE DEF g
  <2> QED BY <2>1, <2>2 DEF Sums
<1>4. PICK f : f = (CHOOSE h : Sums(h, T)) /\ Sums(f, T)
  BY <1>3
<1>5. ASSUME NEW s \in SUBSET T, \A u \in SUBSET s : u # s => f[u] = g[u]
      PROVE  f[s] = g[s]
  <2>1. CASE s = {}
    BY <1>3, <1>4, <2>1 DEF Sums
  <2>2. CASE s # {}
    <3> DEFINE x == CHOOSE x \in s : TRUE
    <3>1. x \in s
      BY <2>2
    <3>2. f[s \ {x}] = g[s \ {x}]
      <4>1. s \ {x} \in SUBSET s /\ s \ {x} # s
        BY <3>1
      <4> QED BY <1>5, <4>1
    <3>3. f[s] = Magnitude(x) + f[s \ {x}]
      BY <1>4, <2>2 DEF Sums
    <3>4. g[s] = Magnitude(x) + g[s \ {x}]
      <4> HIDE DEF g, x
      <4> QED BY <1>2, <2>2, <3>1
    <3> HIDE DEF g
    <3> QED BY <3>2, <3>3, <3>4
  <2> QED BY <2>1, <2>2
<1>6. f[T] = g[T]
  <2>1. FoldAlike(f, g, T)
    BY <1>5 DEF FoldAlike
  <2>2. \A s \in SUBSET T : f[s] = g[s]
    <3> HIDE DEF g
    <3> QED BY <2>1, FoldsAgree
  <2> QED BY <2>2
<1>7. g[T] = Count(T, w)
  OBVIOUS
<1> QED BY <1>1, <1>4, <1>6, <1>7

\* What Total defines by recursion over the places of the items.
TotalOf(items) == FoldLeft(LAMBDA sum, item : sum + item.amount, 0, items)

Totals(f, items) ==
  f = [s \in SUBSET (DOMAIN items) |->
         IF s = {} THEN 0 ELSE f[s \ {Max(s)}] + items[Max(s)].amount]

LEMMA TotalCounts ==
  ASSUME NEW n \in Nat, NEW items, DOMAIN items = 1 .. n,
         NEW w, \A i \in 1 .. n : w[i] = items[i].amount /\ w[i] \in Nat
  PROVE  TotalOf(items) = Count(1 .. n, w)
<1> DEFINE g == [s \in SUBSET (1 .. n) |-> Count(s, w)]
<1>1. TotalOf(items) = (CHOOSE f : Totals(f, items))[1 .. n]
  BY DEF TotalOf, FoldLeft, MapThenFoldSet, Totals
<1>2. ASSUME NEW s \in SUBSET (1 .. n), s # {}
      PROVE  Max(s) \in s /\ g[s] = g[s \ {Max(s)}] + items[Max(s)].amount
  <2>1. IsFiniteSet(s) /\ s \in SUBSET Nat /\ \A y \in s : w[y] \in Nat
    <3>1. IsFiniteSet(1 .. n)
      BY FS_Interval
    <3>2. IsFiniteSet(s)
      BY <3>1, FS_Subset
    <3>3. \A y \in s : y \in 1 .. n
      OBVIOUS
    <3> QED BY <3>2, <3>3
  <2>2. Max(s) \in s
    BY <1>2, <2>1, Extremes
  <2>3. Count(s, w) = w[Max(s)] + Count(s \ {Max(s)}, w)
        /\ Count(s \ {Max(s)}, w) \in Nat
    BY <2>1, <2>2, CountStep
  <2>4. w[Max(s)] = items[Max(s)].amount /\ w[Max(s)] \in Nat
    BY <2>2
  <2>5. g[s] = Count(s, w) /\ g[s \ {Max(s)}] = Count(s \ {Max(s)}, w)
    OBVIOUS
  <2> HIDE DEF g
  <2> QED BY <2>2, <2>3, <2>4, <2>5
<1>3. Totals(g, items)
  <2>1. ASSUME NEW s \in SUBSET (1 .. n)
        PROVE  g[s] = IF s = {} THEN 0 ELSE g[s \ {Max(s)}] + items[Max(s)].amount
    <3>1. CASE s = {}
      BY <3>1, CountNothing
    <3>2. CASE s # {}
      <4> HIDE DEF g
      <4> QED BY <1>2, <3>2
    <3> QED BY <3>1, <3>2
  <2>2. g = [s \in SUBSET (1 .. n) |-> g[s]]
    OBVIOUS
  <2> HIDE DEF g
  <2> QED BY <2>1, <2>2 DEF Totals
<1>4. PICK f : f = (CHOOSE h : Totals(h, items)) /\ Totals(f, items)
  BY <1>3
<1>5. ASSUME NEW s \in SUBSET (1 .. n), \A u \in SUBSET s : u # s => f[u] = g[u]
      PROVE  f[s] = g[s]
  <2>1. CASE s = {}
    BY <1>3, <1>4, <2>1 DEF Totals
  <2>2. CASE s # {}
    <3> DEFINE x == Max(s)
    <3>1. x \in s
      BY <1>2, <2>2
    <3>2. f[s \ {x}] = g[s \ {x}]
      <4>1. s \ {x} \in SUBSET s /\ s \ {x} # s
        BY <3>1
      <4> QED BY <1>5, <4>1
    <3>3. f[s] = f[s \ {x}] + items[x].amount
      BY <1>4, <2>2 DEF Totals
    <3>4. g[s] = g[s \ {x}] + items[x].amount
      <4> HIDE DEF g
      <4> QED BY <1>2, <2>2
    <3> HIDE DEF g
    <3> QED BY <3>2, <3>3, <3>4
  <2> QED BY <2>1, <2>2
<1>6. f[1 .. n] = g[1 .. n]
  <2>1. FoldAlike(f, g, 1 .. n)
    BY <1>5 DEF FoldAlike
  <2>2. \A s \in SUBSET (1 .. n) : f[s] = g[s]
    <3> DEFINE D == 1 .. n
    <3>1. IsFiniteSet(D) /\ FoldAlike(f, g, D)
      BY <2>1, FS_Interval
    <3>2. SUFFICES \A s \in SUBSET D : f[s] = g[s]
      OBVIOUS
    <3> HIDE DEF g, D
    <3> QED BY <3>1, FoldsAgree
  <2> QED BY <2>2
<1>7. g[1 .. n] = Count(1 .. n, w)
  OBVIOUS
<1> QED BY <1>1, <1>4, <1>6, <1>7

\* Items made of the rows of a list, one of each, come to the sum of the rows.
LEMMA TotalIsSum ==
  ASSUME NEW T, \A r \in T : r.amount \in Int, NEW rows, Lists(rows, T),
         NEW items, DOMAIN items = DOMAIN rows,
         \A i \in DOMAIN rows : items[i].amount = Magnitude(rows[i])
  PROVE  TotalOf(items) = Sum(T) /\ Sum(T) \in Nat
<1> DEFINE n == Len(rows)
           w == [i \in 1 .. n |-> Magnitude(rows[i])]
           v == [r \in T |-> Magnitude(r)]
<1>1. n \in Nat /\ rows \in [1 .. n -> T] /\ IsFiniteSet(T) /\ DOMAIN rows = 1 .. n
  <2>1. rows \in Seq(T)
    BY DEF Lists
  <2> QED BY <2>1, ListSize
<1>2. \A r \in T : Magnitude(r) \in Nat
  BY DEF Magnitude
<1>3. \A i \in 1 .. n : w[i] = items[i].amount /\ w[i] \in Nat
  BY <1>1, <1>2
<1>4. \A r \in T : v[r] = Magnitude(r) /\ v[r] \in Nat
  BY <1>2
<1>5. \A i \in 1 .. n : v[rows[i]] = w[i]
  BY <1>1
<1> HIDE DEF n, w, v
<1>6. TotalOf(items) = Count(1 .. n, w)
  BY <1>1, <1>3, TotalCounts
<1>7. Sum(T) = Count(T, v)
  BY <1>1, <1>4, SumCounts
<1>8. Count(1 .. n, w) = Count(T, v)
  <2>1. \A i, j \in 1 .. n : rows[i] = rows[j] => i = j
    BY <1>1 DEF Lists
  <2>2. \A r \in T : \E i \in 1 .. n : rows[i] = r
    BY <1>1 DEF Lists, ToSet
  <2> DEFINE D == 1 .. n
  <2>3. IsFiniteSet(D) /\ rows \in [D -> T] /\ \A i \in D : w[i] \in Nat
    BY <1>1, <1>3, FS_Interval
  <2>4. /\ \A i, j \in D : rows[i] = rows[j] => i = j
        /\ \A r \in T : \E i \in D : rows[i] = r
        /\ \A i \in D : v[rows[i]] = w[i]
    BY <1>5, <2>1, <2>2
  <2>5. SUFFICES Count(D, w) = Count(T, v)
    OBVIOUS
  <2> HIDE DEF D
  <2> QED BY <2>3, <2>4, CountMoved
<1>9. Count(T, v) \in Nat
  BY <1>1, <1>4, CountType
<1> QED BY <1>6, <1>7, <1>8, <1>9

-----------------------------------------------------------------------------
(***************************************************************************)
(* What the normalizer makes of tables that hold the selected rows, each   *)
(* once and in any order.                                                  *)
(***************************************************************************)

SelectedRows(t) == {r \in sage[t] : r.key = Unkeyed \/ r.key.employee \in Targets}

SelectedEvents == {r.event : r \in SelectedRows("proc") \cup SelectedRows("mov")}

\* The definitions that have been asked for are those of every event, unless
\* there are too many.
Asked(asked) ==
  Cardinality(SelectedEvents) <= MaxEventCodes => SelectedEvents \subseteq asked

Collected(tables, asked) ==
  /\ Lists(tables.proc, SelectedRows("proc"))
  /\ Lists(tables.mov, SelectedRows("mov"))
  /\ Lists(tables.base, SelectedRows("base"))
  /\ Lists(tables.definitions, {d \in sage.definitions : d.event \in asked})
  /\ Asked(asked)

LEMMA ContentsOfSage ==
  ASSUME sage \in Contents
  PROVE  /\ IsFiniteSet(sage.proc) /\ IsFiniteSet(sage.mov)
         /\ IsFiniteSet(sage.base) /\ IsFiniteSet(sage.definitions)
         /\ \A r \in sage.proc \cup sage.mov :
              /\ r.event \in Int /\ r.amount \in Int \cup {Blank} /\ r.hint \in Hints
              /\ r.key # Unkeyed => r.key.competence \in Int
         /\ \A d \in sage.definitions : d.from \in Int \cup {Blank} /\ d.hint \in Hints
         /\ Blank \notin Int
<1>1. /\ \A t \in DOMAIN sage : IsFiniteSet(sage[t])
      /\ {"proc", "mov", "base", "definitions"} \subseteq DOMAIN sage
  BY SageCollectionAssumption
<1>2. /\ IsFiniteSet(sage.proc) /\ IsFiniteSet(sage.mov)
      /\ IsFiniteSet(sage.base) /\ IsFiniteSet(sage.definitions)
  BY <1>1
<1> QED BY <1>2, SageCollectionAssumption

\* The rows that are calculated are selected, and have a key and an amount.
LEMMA CalculatedRows ==
  ASSUME sage \in Contents, NEW r \in Calculated
  PROVE  /\ r \in SelectedRows("proc") \cup SelectedRows("mov")
         /\ r \in sage.proc \cup sage.mov
         /\ r.event \in Int /\ r.amount \in Int /\ r.hint \in Hints
         /\ r.key # Unkeyed /\ r.key.competence \in Int /\ r.key.employee \in Targets
<1>1. r \in PricedIn("proc") \cup PricedIn("mov")
  BY DEF Calculated
<1>2. /\ r \in sage.proc \cup sage.mov
      /\ r.key # Unkeyed /\ r.amount # Blank /\ r.key.employee \in Targets
  BY <1>1 DEF PricedIn
<1>3. r \in SelectedRows("proc") \cup SelectedRows("mov")
  BY <1>2 DEF SelectedRows
<1> QED BY <1>2, <1>3, ContentsOfSage

LEMMA ImageFinite ==
  ASSUME NEW S, IsFiniteSet(S), NEW f, DOMAIN f = S
  PROVE  IsFiniteSet({f[x] : x \in S})
<1> DEFINE g == [x \in S |-> f[x]]
           T == {f[x] : x \in S}
<1>1. g \in Surjection(S, T)
  BY DEF Surjection
<1> HIDE DEF g, T
<1>2. IsFiniteSet(T)
  BY <1>1, FS_Surjection
<1> QED BY <1>2 DEF T

\* When Sage is unambiguous, no event that is calculated goes unasked.
LEMMA CalculatedAsked ==
  ASSUME sage \in Contents, Unambiguous, NEW asked, Asked(asked), NEW r \in Calculated
  PROVE  r.event \in asked
<1> DEFINE U == Calculated \cup sage.mov \cup sage.proc
           E == {x.event : x \in U}
           f == [x \in U |-> x.event]
<1>1. Cardinality(E) <= MaxEventCodes
  BY DEF Unambiguous
<1>2. U = sage.mov \cup sage.proc
  BY CalculatedRows
<1>3. IsFiniteSet(U)
  <2> HIDE DEF U
  <2> QED BY <1>2, ContentsOfSage, FS_Union
<1>4. IsFiniteSet(E)
  <2>1. DOMAIN f = U /\ E = {f[x] : x \in U}
    OBVIOUS
  <2> HIDE DEF f, U, E
  <2> QED BY <1>3, <2>1, ImageFinite
<1>5. SelectedEvents \in SUBSET E
  BY DEF SelectedEvents, SelectedRows
<1>6. Cardinality(SelectedEvents) <= MaxEventCodes
  <2>1. IsFiniteSet(SelectedEvents) /\ Cardinality(SelectedEvents) <= Cardinality(E)
    <3> HIDE DEF E
    <3> QED BY <1>4, <1>5, FS_Subset
  <2>2. Cardinality(SelectedEvents) \in Nat /\ Cardinality(E) \in Nat
    BY <1>4, <2>1, FS_CardinalityType
  <2>3. MaxEventCodes \in Nat
    BY SageCollectionAssumption
  <2> HIDE DEF E
  <2> QED BY <1>1, <2>1, <2>2, <2>3
<1>7. SelectedEvents \subseteq asked
  BY <1>6 DEF Asked
<1> QED BY <1>7, CalculatedRows DEF SelectedEvents

\* The places K of s are those of the members T of S.
Keeps(s, K, S, T) ==
  /\ T \subseteq S /\ K \subseteq DOMAIN s
  /\ \A i \in DOMAIN s : i \in K <=> s[i] \in T

\* What a filter keeps of a list lists what it is to keep.
LEMMA KeptLists ==
  ASSUME NEW S, NEW s, Lists(s, S), NEW T, NEW K, Keeps(s, K, S, T)
  PROVE  Lists(Picked(s, K), T) /\ (Picked(s, K) = <<>> <=> T = {})
<1>1. s \in Seq(S) /\ ToSet(s) = S /\ K \in SUBSET (DOMAIN s)
  BY DEF Lists, Keeps
<1>2. {s[i] : i \in K} = T
  BY <1>1 DEF ToSet, Keeps
<1>3. Lists(Picked(s, K), T)
  BY <1>1, <1>2, AtLists
<1>4. Picked(s, K) = <<>> <=> K = {}
  BY <1>1, AtNone
<1>5. K = {} <=> T = {}
  BY <1>2
<1> QED BY <1>3, <1>4, <1>5

LEMMA PricedLists ==
  ASSUME NEW t, NEW rows, Lists(rows, SelectedRows(t))
  PROVE  Lists(Priced(rows), PricedIn(t)) /\ (Priced(rows) = <<>> <=> PricedIn(t) = {})
<1> DEFINE K == {i \in DOMAIN rows : /\ rows[i].key # Unkeyed
                                     /\ rows[i].key.employee \in Targets
                                     /\ rows[i].amount # Blank}
<1>1. Priced(rows) = Picked(rows, K)
  BY DEF Priced, Filter, Picked, Positions
<1>2. PricedIn(t) \in SUBSET SelectedRows(t)
  BY DEF PricedIn, SelectedRows
<1>3. \A i \in DOMAIN rows : rows[i] \in sage[t]
  BY DEF Lists, ToSet, SelectedRows
<1>4. \A i \in DOMAIN rows : i \in K <=> rows[i] \in PricedIn(t)
  BY <1>3 DEF PricedIn
<1>5. K \in SUBSET (DOMAIN rows)
  OBVIOUS
<1> HIDE DEF K
<1>6. Keeps(rows, K, SelectedRows(t), PricedIn(t))
  BY <1>2, <1>4, <1>5 DEF Keeps
<1> QED BY <1>1, <1>6, KeptLists

\* The rows that are paid are those that Sage has calculated.
LEMMA FinancialEventsList ==
  ASSUME NEW tables, NEW asked, Collected(tables, asked)
  PROVE  Lists(FinancialEvents(tables), Calculated)
<1>1. /\ Lists(Priced(tables.proc), PricedIn("proc"))
      /\ Priced(tables.proc) = <<>> <=> PricedIn("proc") = {}
  BY PricedLists DEF Collected
<1>2. Lists(Priced(tables.mov), PricedIn("mov"))
  BY PricedLists DEF Collected
<1> QED BY <1>1, <1>2 DEF FinancialEvents, Calculated

\* A row of ProcEvento that only describes its event.
Undated(r) == [event |-> r.event, from |-> Blank, nature |-> r.nature, hint |-> r.hint]

Describing == {r \in sage.proc : r.key = Unkeyed}

KnownDefinitions(asked) ==
  {d \in sage.definitions : d.event \in asked} \cup {Undated(r) : r \in Describing}

LEMMA DefinitionsKnown ==
  ASSUME NEW tables, NEW asked, Collected(tables, asked)
  PROVE  /\ Definitions(tables) \in Seq(KnownDefinitions(asked))
         /\ ToSet(Definitions(tables)) = KnownDefinitions(asked)
<1> DEFINE proc == tables.proc
           K == {i \in DOMAIN proc : proc[i].key = Unkeyed}
           rows == Picked(proc, K)
           more == [i \in DOMAIN rows |-> Undated(rows[i])]
           X == KnownDefinitions(asked)
<1>1. Definitions(tables) = tables.definitions \o more
  BY DEF Definitions, Filter, Map, Picked, Positions, Undated
<1>2. Lists(rows, Describing)
  <2>1. Lists(proc, SelectedRows("proc"))
    BY DEF Collected
  <2>2. Describing \in SUBSET SelectedRows("proc")
    BY DEF Describing, SelectedRows
  <2>3. \A i \in DOMAIN proc : i \in K <=> proc[i] \in Describing
    <3>1. \A i \in DOMAIN proc : proc[i] \in sage["proc"]
      BY <2>1 DEF Lists, ToSet, SelectedRows
    <3> QED BY <3>1 DEF Describing
  <2>4. K \in SUBSET (DOMAIN proc)
    OBVIOUS
  <2> HIDE DEF proc, K
  <2>5. Keeps(proc, K, SelectedRows("proc"), Describing)
    BY <2>2, <2>3, <2>4 DEF Keeps
  <2> QED BY <2>1, <2>5, KeptLists
<1> HIDE DEF rows
<1>3. rows \in Seq(Describing) /\ ToSet(rows) = Describing
  BY <1>2 DEF Lists
<1>4. more \in Seq(X)
  <2>1. \A i \in 1 .. Len(rows) : Undated(rows[i]) \in X
    BY <1>3 DEF KnownDefinitions
  <2>2. more = [i \in 1 .. Len(rows) |-> Undated(rows[i])] /\ Len(rows) \in Nat
    BY <1>3
  <2> HIDE DEF X, more
  <2> QED BY <2>1, <2>2
<1>5. ToSet(more) = {Undated(r) : r \in Describing}
  <2>1. DOMAIN more = DOMAIN rows /\ \A i \in DOMAIN rows : more[i] = Undated(rows[i])
    OBVIOUS
  <2> HIDE DEF more
  <2>2. ToSet(more) = {more[i] : i \in DOMAIN rows}
    BY <2>1 DEF ToSet
  <2>3. Describing = {rows[i] : i \in DOMAIN rows}
    BY <1>3 DEF ToSet
  <2> QED BY <2>1, <2>2, <2>3
<1>6. /\ tables.definitions \in Seq({d \in sage.definitions : d.event \in asked})
      /\ ToSet(tables.definitions) = {d \in sage.definitions : d.event \in asked}
  BY DEF Collected, Lists
<1>7. tables.definitions \in Seq(X)
  BY <1>6 DEF KnownDefinitions
<1> HIDE DEF more, X
<1>8. /\ tables.definitions \o more \in Seq(X)
      /\ ToSet(tables.definitions \o more) = ToSet(tables.definitions) \cup ToSet(more)
  BY <1>4, <1>7, JoinedElements
<1> QED BY <1>1, <1>5, <1>6, <1>8 DEF KnownDefinitions, X

LEMMA DefinitionsOfEvent ==
  ASSUME NEW asked, NEW event \in asked
  PROVE  DefinitionsOf(event) = {d \in KnownDefinitions(asked) : d.event = event}
<1>1. DefinitionsOf(event) =
        {d \in sage.definitions : d.event = event}
        \cup {[event |-> event, from |-> Blank, nature |-> r.nature, hint |-> r.hint] :
              r \in {r \in sage.proc : r.key = Unkeyed /\ r.event = event}}
  BY DEF DefinitionsOf
<1>2. \A r : Undated(r).event = r.event
  BY DEF Undated
<1>3. \A r : r.event = event =>
        Undated(r) = [event |-> event, from |-> Blank, nature |-> r.nature, hint |-> r.hint]
  BY DEF Undated
<1>4. ASSUME NEW d \in DefinitionsOf(event)
      PROVE  d \in KnownDefinitions(asked) /\ d.event = event
  <2>1. CASE d \in sage.definitions /\ d.event = event
    BY <2>1 DEF KnownDefinitions
  <2>2. ASSUME NEW r \in sage.proc, r.key = Unkeyed, r.event = event, d = Undated(r)
        PROVE  d \in KnownDefinitions(asked) /\ d.event = event
    BY <1>2, <2>2 DEF KnownDefinitions, Describing
  <2> QED BY <1>1, <1>3, <2>1, <2>2
<1>5. ASSUME NEW d \in KnownDefinitions(asked), d.event = event
      PROVE  d \in DefinitionsOf(event)
  <2>1. CASE d \in sage.definitions
    BY <1>1, <1>5, <2>1
  <2>2. ASSUME NEW r \in Describing, d = Undated(r)
        PROVE  d \in DefinitionsOf(event)
    <3>1. r.event = event /\ r \in {x \in sage.proc : x.key = Unkeyed /\ x.event = event}
      BY <1>2, <1>5, <2>2 DEF Describing
    <3> QED BY <1>1, <1>3, <2>2, <3>1
  <2> QED BY <2>1, <2>2 DEF KnownDefinitions
<1> QED BY <1>4, <1>5

\* The definitions of an event that is calculated have a date or none, and
\* a date of their own.
LEMMA DefinitionDates ==
  ASSUME sage \in Contents, Unambiguous, NEW r \in Calculated
  PROVE  /\ \A d \in DefinitionsOf(r.event) : d.from \in Int \cup {Blank} /\ d.hint \in Hints
         /\ \A d, e \in DefinitionsOf(r.event) : d.from = e.from => d = e
<1>1. \A d, e \in DefinitionsOf(r.event) : d.from = e.from => d = e
  BY DEF Unambiguous
<1>2. ASSUME NEW d \in DefinitionsOf(r.event)
      PROVE  d.from \in Int \cup {Blank} /\ d.hint \in Hints
  <2>1. CASE d \in sage.definitions
    BY <2>1, ContentsOfSage
  <2>2. ASSUME NEW x \in sage.proc,
               d = [event |-> r.event, from |-> Blank, nature |-> x.nature, hint |-> x.hint]
        PROVE  d.from \in Int \cup {Blank} /\ d.hint \in Hints
    BY <2>2, ContentsOfSage
  <2> QED BY <2>1, <2>2 DEF DefinitionsOf
<1> QED BY <1>1, <1>2

\* The outcome of a search: the only member of a set, or none.
Found(result, S) ==
  \/ S = {} /\ result = <<>>
  \/ \E x : S = {x} /\ result = <<x>>

LatestOf(S) == {d \in S : \A e \in S : e.from <= d.from}

\* The first of a list in descending order of dates is the latest.
LEMMA FirstIsLatest ==
  ASSUME NEW S, NEW s \in Seq(S), ToSet(s) = S, S # {},
         \A d \in S : d.from \in Int,
         \A d, e \in S : d.from = e.from => d = e,
         \A i, j \in DOMAIN s : i < j => s[j].from <= s[i].from
  PROVE  Found(<<Head(s)>>, LatestOf(S))
<1>1. DOMAIN s = 1 .. Len(s) /\ Len(s) \in Nat /\ Len(s) # 0
  BY DEF ToSet
<1>2. 1 \in DOMAIN s /\ Head(s) = s[1] /\ s[1] \in S
  BY <1>1
<1>3. ASSUME NEW e \in S PROVE e.from <= s[1].from
  <2>1. PICK i \in DOMAIN s : s[i] = e
    BY DEF ToSet
  <2>2. i = 1 \/ 1 < i
    BY <1>1
  <2>3. s[1].from \in Int
    BY <1>2
  <2> QED BY <1>2, <2>1, <2>2, <2>3
<1>4. ASSUME NEW d \in LatestOf(S) PROVE d = s[1]
  <2>1. d \in S /\ s[1].from <= d.from /\ d.from <= s[1].from
    BY <1>2, <1>3, <1>4 DEF LatestOf
  <2>2. d.from \in Int /\ s[1].from \in Int
    BY <1>2, <2>1
  <2>3. d.from = s[1].from
    BY <2>1, <2>2
  <2> QED BY <1>2, <2>1, <2>3
<1>5. s[1] \in LatestOf(S)
  BY <1>2, <1>3 DEF LatestOf
<1>6. LatestOf(S) = {s[1]}
  BY <1>4, <1>5
<1> QED BY <1>2, <1>6 DEF Found

\* Places in the order of one number, then of another, then as they are.
Lexicographic(n, k, l) ==
  {p \in (1 .. n) \X (1 .. n) :
     \/ k[p[1]] < k[p[2]]
     \/ k[p[1]] = k[p[2]] /\ l[p[1]] < l[p[2]]
     \/ k[p[1]] = k[p[2]] /\ l[p[1]] = l[p[2]] /\ p[1] < p[2]}

LEMMA LexicographicOrder ==
  ASSUME NEW n \in Nat, NEW k \in [1 .. n -> Int], NEW l \in [1 .. n -> Int]
  PROVE  StrictOrder(1 .. n, Lexicographic(n, k, l))
<1> DEFINE R == Lexicographic(n, k, l)
<1>1. \A x, y \in 1 .. n :
        <<x, y>> \in R <=> \/ k[x] < k[y]
                           \/ k[x] = k[y] /\ l[x] < l[y]
                           \/ k[x] = k[y] /\ l[x] = l[y] /\ x < y
  BY DEF Lexicographic
<1>2. \A x \in 1 .. n : k[x] \in Int /\ l[x] \in Int /\ x \in Int
  OBVIOUS
<1> HIDE DEF R
<1>3. \A x \in 1 .. n : <<x, x>> \notin R
  BY <1>1, <1>2
<1>4. ASSUME NEW x \in 1 .. n, NEW y \in 1 .. n, NEW z \in 1 .. n,
             <<x, y>> \in R, <<y, z>> \in R
      PROVE  <<x, z>> \in R
  <2>1. /\ k[x] \in Int /\ k[y] \in Int /\ k[z] \in Int
        /\ l[x] \in Int /\ l[y] \in Int /\ l[z] \in Int
    BY <1>2
  <2>2. /\ \/ k[x] < k[y]
           \/ k[x] = k[y] /\ l[x] < l[y]
           \/ k[x] = k[y] /\ l[x] = l[y] /\ x < y
        /\ \/ k[y] < k[z]
           \/ k[y] = k[z] /\ l[y] < l[z]
           \/ k[y] = k[z] /\ l[y] = l[z] /\ y < z
    BY <1>1, <1>4
  <2>3. \/ k[x] < k[z]
        \/ k[x] = k[z] /\ l[x] < l[z]
        \/ k[x] = k[z] /\ l[x] = l[z] /\ x < z
    BY <2>1, <2>2
  <2> QED BY <1>1, <2>3
<1>5. ASSUME NEW x \in 1 .. n, NEW y \in 1 .. n, x # y
      PROVE  <<x, y>> \in R \/ <<y, x>> \in R
  <2>1. k[x] \in Int /\ k[y] \in Int /\ l[x] \in Int /\ l[y] \in Int
    BY <1>2
  <2>2. /\ k[x] < k[y] \/ k[x] = k[y] \/ k[y] < k[x]
        /\ l[x] < l[y] \/ l[x] = l[y] \/ l[y] < l[x]
        /\ x < y \/ y < x
    BY <1>5, <2>1
  <2> QED BY <1>1, <2>2
<1> QED BY <1>3, <1>4, <1>5 DEF StrictOrder, R

\* The definitions with a date, the latest first.
DatesDescend(s) == StableSort(s, LAMBDA a, b : a.from > b.from)

LEMMA DatedInOrder ==
  ASSUME NEW S, NEW s \in Seq(S), \A d \in S : d.from \in Int
  PROVE  /\ DatesDescend(s) \in Seq(S) /\ ToSet(DatesDescend(s)) = ToSet(s)
         /\ \A i, j \in DOMAIN DatesDescend(s) :
              i < j => DatesDescend(s)[j].from <= DatesDescend(s)[i].from
<1> DEFINE n == Len(s)
           k == [i \in 1 .. n |-> -s[i].from]
           l == [i \in 1 .. n |-> 0]
           R == Lexicographic(n, k, l)
           t == DatesDescend(s)
<1>1. n \in Nat /\ DOMAIN s = 1 .. n /\ \A i \in 1 .. n : s[i] \in S /\ s[i].from \in Int
  OBVIOUS
<1>2. k \in [1 .. n -> Int] /\ l \in [1 .. n -> Int]
  BY <1>1
<1>3. StrictOrder(DOMAIN s, R)
  <2> HIDE DEF k, l, n
  <2> QED BY <1>1, <1>2, LexicographicOrder
<1>4. \A i, j \in 1 .. n :
        <<j, i>> \in R <=> \/ s[j].from > s[i].from
                           \/ ~ (s[i].from > s[j].from) /\ j < i
  <2>1. \A i, j \in 1 .. n :
          <<j, i>> \in R <=> \/ k[j] < k[i]
                             \/ k[j] = k[i] /\ l[j] < l[i]
                             \/ k[j] = k[i] /\ l[j] = l[i] /\ j < i
    BY DEF Lexicographic
  <2>2. \A i \in 1 .. n : k[i] = -s[i].from /\ l[i] = 0
    OBVIOUS
  <2> HIDE DEF k, l, n, R
  <2>3. ASSUME NEW i \in 1 .. n, NEW j \in 1 .. n
        PROVE  <<j, i>> \in R <=> \/ s[j].from > s[i].from
                                  \/ ~ (s[i].from > s[j].from) /\ j < i
    <3>1. /\ s[i].from \in Int /\ s[j].from \in Int /\ k[i] = -s[i].from
          /\ k[j] = -s[j].from /\ l[i] = 0 /\ l[j] = 0
      BY <1>1, <2>2
    <3>2. /\ k[j] < k[i] <=> s[j].from > s[i].from
          /\ k[j] = k[i] <=> s[j].from = s[i].from
          /\ l[j] = l[i] /\ ~ (l[j] < l[i])
      BY <3>1
    <3>3. <<j, i>> \in R <=> k[j] < k[i] \/ (k[j] = k[i] /\ j < i)
      BY <2>1, <3>2
    <3> QED BY <3>1, <3>2, <3>3
  <2> QED BY <2>3
<1>5. t = Arranged(s, R)
  <2> DEFINE Prior(i) == {j \in DOMAIN s : \/ s[j].from > s[i].from
                                           \/ ~ (s[i].from > s[j].from) /\ j < i}
             order == [m \in 1 .. Cardinality(DOMAIN s) |->
                         CHOOSE i \in DOMAIN s : Cardinality(Prior(i)) = m - 1]
  <2>1. t = Map(order, LAMBDA i : s[i])
    BY DEF DatesDescend, StableSort, Ranked
  <2>2. \A i \in DOMAIN s : Prior(i) = Below(DOMAIN s, R, i)
    <3> HIDE DEF n, R
    <3> QED BY <1>1, <1>4 DEF Below
  <2>3. order = RankedBy(DOMAIN s, R)
    <3> HIDE DEF Prior, R
    <3>1. \A m \in 1 .. Cardinality(DOMAIN s) :
            (CHOOSE i \in DOMAIN s : Cardinality(Below(DOMAIN s, R, i)) = m - 1)
            = CHOOSE i \in DOMAIN s : Cardinality(Prior(i)) = m - 1
      BY <2>2
    <3> QED BY <3>1 DEF RankedBy
  <2> HIDE DEF order
  <2> QED BY <2>1, <2>3 DEF Arranged
<1>6. PICK q \in [DOMAIN s -> DOMAIN s] :
        /\ Arranged(s, R) = [m \in DOMAIN s |-> s[q[m]]]
        /\ \A i \in DOMAIN s : \E m \in DOMAIN s : q[m] = i
        /\ \A i, j \in DOMAIN s : i < j => <<q[i], q[j]>> \in R
  <2> HIDE DEF R, n
  <2> QED BY <1>3, ArrangedInOrder
<1> HIDE DEF k, l, t
<1>7. t = [m \in 1 .. n |-> s[q[m]]] /\ \A m \in 1 .. n : q[m] \in 1 .. n
  <2> HIDE DEF R, n
  <2> QED BY <1>1, <1>5, <1>6
<1>8. t \in Seq(S) /\ DOMAIN t = 1 .. n
  <2> HIDE DEF R, n
  <2>1. \A m \in 1 .. n : s[q[m]] \in S
    BY <1>1, <1>7
  <2> QED BY <1>1, <1>7, <2>1
<1>9. ToSet(t) = ToSet(s)
  <2> HIDE DEF R, n
  <2> QED BY <1>1, <1>6, <1>7, <1>8 DEF ToSet
<1>10. ASSUME NEW i \in 1 .. n, NEW j \in 1 .. n, i < j
       PROVE  t[j].from <= t[i].from
  <2>1. <<q[i], q[j]>> \in R /\ q[i] \in 1 .. n /\ q[j] \in 1 .. n
    <3> HIDE DEF R, n
    <3> QED BY <1>1, <1>6, <1>7, <1>10
  <2>2. t[i] = s[q[i]] /\ t[j] = s[q[j]]
    <3> HIDE DEF R, n
    <3> QED BY <1>7
  <2> HIDE DEF R, n
  <2>3. s[q[i]].from > s[q[j]].from \/ ~ (s[q[j]].from > s[q[i]].from)
    BY <1>4, <2>1
  <2>4. s[q[i]].from \in Int /\ s[q[j]].from \in Int
    BY <1>1, <2>1
  <2> QED BY <2>2, <2>3, <2>4
<1> HIDE DEF R, n
<1> QED BY <1>8, <1>9, <1>10 DEF t

\* A sequence that may have a member twice.
Selects(s, K, T) == s \in Seq(ToSet(s)) /\ Keeps(s, K, ToSet(s), T)

\* What a filter keeps of a sequence.
LEMMA KeptElements ==
  ASSUME NEW s, NEW T, NEW K, Selects(s, K, T)
  PROVE  Picked(s, K) \in Seq(T) /\ ToSet(Picked(s, K)) = T /\ (Picked(s, K) = <<>> <=> T = {})
<1> DEFINE S == ToSet(s)
<1>0. s \in Seq(S) /\ K \in SUBSET (DOMAIN s)
  BY DEF Selects, Keeps
<1>1. {s[i] : i \in K} = T
  BY DEF ToSet, Selects, Keeps
<1> HIDE DEF S
<1>2. Picked(s, K) \in Seq(S) /\ ToSet(Picked(s, K)) = T
  <2>1. Picked(s, K) \in Seq(S) /\ ToSet(Picked(s, K)) = {s[i] : i \in K}
    BY <1>0, AtPositions
  <2> QED BY <1>1, <2>1
<1>3. Picked(s, K) \in Seq(T)
  <2>1. \A n \in 1 .. Len(Picked(s, K)) : Picked(s, K)[n] \in T
    BY <1>2 DEF ToSet
  <2>2. DOMAIN Picked(s, K) = 1 .. Len(Picked(s, K)) /\ Len(Picked(s, K)) \in Nat
    BY <1>2
  <2>3. Picked(s, K) = [n \in 1 .. Len(Picked(s, K)) |-> Picked(s, K)[n]]
    BY <1>2, <2>2
  <2> QED BY <1>2, <2>1, <2>2, <2>3
<1>4. Picked(s, K) = <<>> <=> K = {}
  BY <1>0, AtNone
<1>5. K = {} <=> T = {}
  BY <1>1
<1> QED BY <1>2, <1>3, <1>4, <1>5

DatedOf(all) == {d \in all : d.from # Blank}

BegunOf(all, competence) == {d \in DatedOf(all) : d.from <= competence}

\* What InForce chooses of the definitions of an event.
ForceOf(all, competence) ==
  IF BegunOf(all, competence) # {} THEN LatestOf(BegunOf(all, competence))
  ELSE IF DatedOf(all) # {} THEN LatestOf(DatedOf(all)) ELSE all

\* The code finds the definition in force by sorting.
LEMMA ApplicableFound ==
  ASSUME NEW X, NEW defs \in Seq(X), NEW event, NEW competence \in Int, NEW all,
         all = {d \in ToSet(defs) : d.event = event},
         \A d \in all : d.from \in Int \cup {Blank},
         \A d, e \in all : d.from = e.from => d = e
  PROVE  Found(ApplicableDefinition(defs, event, competence), ForceOf(all, competence))
<1> DEFINE cands == Picked(defs, {i \in DOMAIN defs : defs[i].event = event})
           some == Picked(cands, {i \in DOMAIN cands : cands[i].from # Blank})
           dated == DatesDescend(some)
           begun == Picked(dated, {i \in DOMAIN dated : dated[i].from <= competence})
<1>1. ApplicableDefinition(defs, event, competence) =
        CASE begun # <<>> -> <<Head(begun)>>
          [] begun = <<>> /\ dated # <<>> -> <<Head(dated)>>
          [] dated = <<>> /\ cands # <<>> -> <<Last(cands)>>
          [] OTHER -> <<>>
  BY DEF ApplicableDefinition, Filter, Picked, Positions, DatesDescend
<1>2. cands \in Seq(all) /\ ToSet(cands) = all /\ (cands = <<>> <=> all = {})
  <2> DEFINE K == {i \in DOMAIN defs : defs[i].event = event}
  <2>1. all \in SUBSET ToSet(defs) /\ K \in SUBSET (DOMAIN defs)
    OBVIOUS
  <2>2. \A i \in DOMAIN defs : i \in K <=> defs[i] \in all
    BY DEF ToSet
  <2>3. SUFFICES /\ Picked(defs, K) \in Seq(all) /\ ToSet(Picked(defs, K)) = all
                 /\ Picked(defs, K) = <<>> <=> all = {}
    OBVIOUS
  <2> HIDE DEF K, cands
  <2>4. Selects(defs, K, all)
    BY <2>1, <2>2 DEF Selects, Keeps, ToSet
  <2> QED BY <2>4, KeptElements
<1> HIDE DEF cands
<1>3. /\ some \in Seq(DatedOf(all)) /\ ToSet(some) = DatedOf(all)
  <2> DEFINE K == {i \in DOMAIN cands : cands[i].from # Blank}
  <2>1. DatedOf(all) \in SUBSET ToSet(cands) /\ K \in SUBSET (DOMAIN cands)
    BY <1>2 DEF DatedOf
  <2>2. \A i \in DOMAIN cands : i \in K <=> cands[i] \in DatedOf(all)
    BY <1>2 DEF DatedOf, ToSet
  <2>3. SUFFICES Picked(cands, K) \in Seq(DatedOf(all)) /\ ToSet(Picked(cands, K)) = DatedOf(all)
    OBVIOUS
  <2> HIDE DEF K, some
  <2>4. Selects(cands, K, DatedOf(all))
    BY <1>2, <2>1, <2>2 DEF Selects, Keeps
  <2> QED BY <2>4, KeptElements
<1> HIDE DEF some
<1>4. \A d \in DatedOf(all) : d.from \in Int
  BY DEF DatedOf
<1>5. /\ dated \in Seq(DatedOf(all)) /\ ToSet(dated) = DatedOf(all)
      /\ \A i, j \in DOMAIN dated : i < j => dated[j].from <= dated[i].from
  BY <1>3, <1>4, DatedInOrder
<1> HIDE DEF dated
<1>6. dated = <<>> <=> DatedOf(all) = {}
  <2>1. dated # <<>> => dated[1] \in DatedOf(all)
    BY <1>5
  <2>2. dated = <<>> => ToSet(dated) = {}
    BY DEF ToSet
  <2> QED BY <1>5, <2>1, <2>2
<1> DEFINE B == BegunOf(all, competence)
           K == {i \in DOMAIN dated : dated[i].from <= competence}
<1>7. begun \in Seq(B) /\ ToSet(begun) = B /\ (begun = <<>> <=> B = {})
  <2>1. B \in SUBSET ToSet(dated) /\ K \in SUBSET (DOMAIN dated)
    BY <1>5 DEF BegunOf
  <2>2. \A i \in DOMAIN dated : i \in K <=> dated[i] \in B
    BY <1>5 DEF BegunOf, ToSet
  <2>3. SUFFICES /\ Picked(dated, K) \in Seq(B) /\ ToSet(Picked(dated, K)) = B
                 /\ Picked(dated, K) = <<>> <=> B = {}
    OBVIOUS
  <2> HIDE DEF K, B, begun
  <2>4. Selects(dated, K, B)
    BY <1>5, <2>1, <2>2 DEF Selects, Keeps
  <2> QED BY <2>4, KeptElements
<1>8. \A i, j \in DOMAIN begun : i < j => begun[j].from <= begun[i].from
  <2>1. K \in SUBSET (DOMAIN dated)
    OBVIOUS
  <2>2. begun = Picked(dated, K)
    OBVIOUS
  <2> HIDE DEF K, begun
  <2>3. /\ \A i \in DOMAIN begun :
             Positions(K)[i] \in K /\ begun[i] = dated[Positions(K)[i]]
        /\ \A i, j \in DOMAIN begun : i < j => Positions(K)[i] < Positions(K)[j]
    BY <1>5, <2>1, <2>2, AtPositions
  <2> QED BY <1>5, <2>1, <2>3
<1> HIDE DEF begun, K, B
<1>9. CASE begun # <<>>
  <2>1. dated # <<>>
    BY <1>6, <1>7, <1>9 DEF BegunOf, B
  <2>2. ApplicableDefinition(defs, event, competence) = <<Head(begun)>>
    BY <1>1, <1>9, <2>1
  <2>3. B # {} /\ \A d \in B : d \in all /\ d.from \in Int
    BY <1>4, <1>7, <1>9 DEF BegunOf, DatedOf, B
  <2>4. Found(<<Head(begun)>>, LatestOf(B))
    BY <1>7, <1>8, <2>3, FirstIsLatest
  <2>5. ForceOf(all, competence) = LatestOf(B)
    BY <2>3 DEF ForceOf, B
  <2> QED BY <2>2, <2>4, <2>5
<1>10. CASE begun = <<>> /\ dated # <<>>
  <2>1. ApplicableDefinition(defs, event, competence) = <<Head(dated)>>
    BY <1>1, <1>10
  <2>2. DatedOf(all) # {} /\ \A d \in DatedOf(all) : d \in all
    BY <1>6, <1>10 DEF DatedOf
  <2>3. Found(<<Head(dated)>>, LatestOf(DatedOf(all)))
    BY <1>4, <1>5, <2>2, FirstIsLatest
  <2>4. ForceOf(all, competence) = LatestOf(DatedOf(all))
    BY <1>7, <1>10, <2>2 DEF ForceOf, B
  <2> QED BY <2>1, <2>3, <2>4
<1>11. CASE begun = <<>> /\ dated = <<>> /\ cands # <<>>
  <2>1. ApplicableDefinition(defs, event, competence) = <<Last(cands)>>
    BY <1>1, <1>11
  <2>2. ForceOf(all, competence) = all
    BY <1>6, <1>7, <1>11 DEF ForceOf, B
  <2>3. Last(cands) \in all
    <3>1. Len(cands) \in Nat /\ Len(cands) # 0
      BY <1>2, <1>11
    <3>2. cands[Len(cands)] \in all
      BY <1>2, <3>1
    <3> QED BY <3>2 DEF Last
  <2>4. \A d \in all : d = Last(cands)
    <3>1. \A d \in all : d.from = Blank
      BY <1>6, <1>11 DEF DatedOf
    <3> QED BY <2>3, <3>1
  <2>5. all = {Last(cands)}
    BY <2>3, <2>4
  <2> QED BY <2>1, <2>2, <2>5 DEF Found
<1>12. CASE begun = <<>> /\ dated = <<>> /\ cands = <<>>
  <2>1. ApplicableDefinition(defs, event, competence) = <<>>
    BY <1>1, <1>12
  <2>2. ForceOf(all, competence) = {}
    BY <1>2, <1>6, <1>7, <1>12 DEF ForceOf, B
  <2> QED BY <2>1, <2>2 DEF Found
<1> QED BY <1>9, <1>10, <1>11, <1>12

Natures == {"EARNING", "DEDUCTION", "BASE", "OTHER"}

\* A column that is known decides, and of any other, empty or not, the hint
\* of the description.
LEMMA NatureMeant ==
  ASSUME NEW column, NEW hint \in Hints, NEW amount
  PROVE  /\ Nature(column, hint, amount) = MeantNature(column, hint, amount)
         /\ MeantNature(column, hint, amount) \in Natures
<1>1. Blank \notin {"EARNING", "DEDUCTION", "BASE"}
  BY SageCollectionAssumption
<1>2. CASE column \in KnownColumns
  BY <1>2 DEF Nature, MeantNature, ColumnMeans, Suggests, KnownColumns, Natures
<1>3. CASE column \notin KnownColumns
  <2>1. column \notin DOMAIN ColumnMeans
    BY <1>3 DEF ColumnMeans, KnownColumns
  <2>2. hint \in {"EARNING", "DEDUCTION", "BASE"} <=> hint \notin {Blank, "PLAIN"}
    BY <1>1 DEF Hints
  <2>3. QED
    BY <1>3, <2>1, <2>2 DEF Nature, MeantNature, Suggests, KnownColumns, Natures
<1>4. QED
  BY <1>2, <1>3

\* The nature that the code infers of an event is the one that Sage's
\* definition of it, or the row itself, says.
LEMMA NatureFound ==
  ASSUME sage \in Contents, Unambiguous, NEW tables, NEW asked, Collected(tables, asked),
         NEW r \in Calculated
  PROVE  /\ InferNature(r, ApplicableDefinition(Definitions(tables), r.event,
                                                r.key.competence)) = NatureOf(r)
         /\ NatureOf(r) \in Natures
<1> DEFINE all == DefinitionsOf(r.event)
           found == ApplicableDefinition(Definitions(tables), r.event, r.key.competence)
           defined == InForce(r.event, r.key.competence)
<1>1. r.event \in asked /\ r.key.competence \in Int /\ r.hint \in Hints
  BY CalculatedAsked, CalculatedRows DEF Collected
<1>2. /\ \A d \in all : d.from \in Int \cup {Blank} /\ d.hint \in Hints
      /\ \A d, e \in all : d.from = e.from => d = e
  BY DefinitionDates
<1>3. /\ Definitions(tables) \in Seq(KnownDefinitions(asked))
      /\ all = {d \in ToSet(Definitions(tables)) : d.event = r.event}
  BY <1>1, DefinitionsKnown, DefinitionsOfEvent
<1>4. defined = ForceOf(all, r.key.competence)
  BY DEF InForce, ForceOf, BegunOf, DatedOf, LatestOf
<1> HIDE DEF all, defined, found
<1>5. Found(found, defined)
  BY <1>1, <1>2, <1>3, <1>4, ApplicableFound DEF found
<1>6. defined \subseteq all
  BY <1>4 DEF ForceOf, BegunOf, DatedOf, LatestOf
<1>7. NatureOf(r) =
        LET Of(name) == IF \E d \in defined : d[name] # Blank
                        THEN (CHOOSE d \in defined : TRUE)[name] ELSE r[name]
        IN MeantNature(Of("nature"), Of("hint"), r.amount)
  BY DEF NatureOf, defined
<1>8. CASE defined = {} /\ found = <<>>
  <2>1. NatureOf(r) = MeantNature(r["nature"], r["hint"], r.amount)
    BY <1>7, <1>8
  <2>2. InferNature(r, found) = Nature(r["nature"], r["hint"], r.amount)
    BY <1>8 DEF InferNature
  <2>3. /\ Nature(r["nature"], r["hint"], r.amount)
             = MeantNature(r["nature"], r["hint"], r.amount)
        /\ MeantNature(r["nature"], r["hint"], r.amount) \in Natures
    BY <1>1, NatureMeant
  <2> QED BY <2>1, <2>2, <2>3 DEF found
<1>9. ASSUME NEW d, defined = {d}, found = <<d>>
      PROVE  InferNature(r, found) = NatureOf(r) /\ NatureOf(r) \in Natures
  <2> DEFINE column == IF d["nature"] # Blank THEN d["nature"] ELSE r["nature"]
             hint == IF d["hint"] # Blank THEN d["hint"] ELSE r["hint"]
  <2>1. (CHOOSE e \in defined : TRUE) = d
    BY <1>9
  <2>2. NatureOf(r) = MeantNature(column, hint, r.amount)
    BY <1>7, <1>9, <2>1
  <2>3. found # <<>> /\ found[1] = d
    BY <1>9
  <2>4. InferNature(r, found) = Nature(column, hint, r.amount)
    BY <2>3 DEF InferNature
  <2>5. hint \in Hints
    BY <1>1, <1>2, <1>6, <1>9
  <2> HIDE DEF column, hint
  <2>6. /\ Nature(column, hint, r.amount) = MeantNature(column, hint, r.amount)
        /\ MeantNature(column, hint, r.amount) \in Natures
    BY <2>5, NatureMeant
  <2> QED BY <2>2, <2>4, <2>6
<1> QED BY <1>5, <1>8, <1>9 DEF Found, found

PaidIn(key) == {r \in Calculated : r.key = key}

ItemOf(r) == [code |-> r.event, amount |-> Magnitude(r), nature |-> NatureOf(r)]

Rank(r) == ItemNatureRank(NatureOf(r))

\* The rows of a payslip in the order in which their items are printed.
Printed(rows, tables, key) ==
  /\ Lists(rows, PaidIn(key))
  /\ Items(tables, key) = [i \in DOMAIN rows |-> ItemOf(rows[i])]
  /\ \A i, j \in DOMAIN rows : i < j =>
       \/ Rank(rows[i]) < Rank(rows[j])
       \/ Rank(rows[i]) = Rank(rows[j]) /\ rows[i].event <= rows[j].event

Reordered(s, q) == [m \in DOMAIN s |-> s[q[m]]]

\* A list in another order lists the same.
LEMMA ListReordered ==
  ASSUME NEW S, NEW s, Lists(s, S), NEW R, NEW q \in [DOMAIN s -> DOMAIN s],
         StrictOrder(DOMAIN s, R),
         \A i \in DOMAIN s : \E m \in DOMAIN s : q[m] = i,
         \A i, j \in DOMAIN s : i < j => <<q[i], q[j]>> \in R
  PROVE  Lists(Reordered(s, q), S)
<1> DEFINE n == Len(s)
           t == [m \in DOMAIN s |-> s[q[m]]]
<1>1. /\ n \in Nat /\ DOMAIN s = 1 .. n /\ ToSet(s) = S
      /\ \A i \in 1 .. n : s[i] \in S
      /\ \A i, j \in 1 .. n : s[i] = s[j] => i = j
  BY DEF Lists
<1>2. \A i \in 1 .. n : q[i] \in 1 .. n
  BY <1>1
<1>3. t = [m \in 1 .. n |-> s[q[m]]] /\ DOMAIN t = 1 .. n
  BY <1>1
<1>4. t \in Seq(S)
  <2>1. \A m \in 1 .. n : s[q[m]] \in S
    BY <1>1, <1>2
  <2> HIDE DEF n, t
  <2> QED BY <1>1, <1>3, <2>1
<1>5. \A i, j \in 1 .. n : i < j => q[i] # q[j]
  <2>1. \A i, j \in 1 .. n : i < j => <<q[i], q[j]>> \in R
    BY <1>1
  <2>2. \A x \in 1 .. n : <<x, x>> \notin R
    BY <1>1 DEF StrictOrder
  <2> HIDE DEF n, t
  <2> QED BY <1>2, <2>1, <2>2
<1> HIDE DEF n, t
<1>6. \A i, j \in 1 .. n : t[i] = t[j] => i = j
  <2>1. \A i, j \in 1 .. n : i # j => q[i] # q[j]
    BY <1>5
  <2> QED BY <1>1, <1>2, <1>3, <2>1
<1>7. ToSet(t) = S
  <2>1. ASSUME NEW x \in S PROVE x \in ToSet(t)
    <3>1. PICK i \in 1 .. n : s[i] = x
      BY <1>1 DEF ToSet
    <3>2. PICK m \in 1 .. n : q[m] = i
      BY <1>1
    <3>3. t[m] = x
      BY <1>3, <3>1, <3>2
    <3> QED BY <1>3, <3>3 DEF ToSet
  <2>2. ASSUME NEW x \in ToSet(t) PROVE x \in S
    BY <1>1, <1>2, <1>3 DEF ToSet
  <2> QED BY <2>1, <2>2
<1>8. Lists(t, S)
  BY <1>3, <1>4, <1>6, <1>7 DEF Lists
<1> QED BY <1>8 DEF Reordered, t

LEMMA RankType ==
  ASSUME NEW r, NatureOf(r) \in Natures
  PROVE  Rank(r) \in 0 .. 3
BY DEF Rank, ItemNatureRank, Natures

LEMMA ItemsPrinted ==
  ASSUME sage \in Contents, Unambiguous, NEW tables, NEW asked, Collected(tables, asked),
         NEW key
  PROVE  \E rows : Printed(rows, tables, key)
<1> DEFINE events == FinancialEvents(tables)
           K == {i \in DOMAIN events : events[i].key = key}
           paid == Picked(events, K)
<1>1. Lists(events, Calculated)
  BY FinancialEventsList
<1>2. Lists(paid, PaidIn(key))
  <2>1. K \in SUBSET (DOMAIN events) /\ PaidIn(key) \in SUBSET Calculated
    BY DEF PaidIn
  <2>2. \A i \in DOMAIN events : i \in K <=> events[i] \in PaidIn(key)
    BY <1>1 DEF PaidIn, Lists, ToSet
  <2> HIDE DEF events, K
  <2>3. Keeps(events, K, Calculated, PaidIn(key))
    BY <2>1, <2>2 DEF Keeps
  <2> QED BY <1>1, <2>3, KeptLists
<1> DEFINE made == [i \in DOMAIN paid |->
                     [code |-> paid[i].event,
                      amount |-> IF paid[i].amount < 0 THEN -paid[i].amount ELSE paid[i].amount,
                      nature |-> InferNature(paid[i], ApplicableDefinition(
                                   Definitions(tables), paid[i].event, key.competence))]]
           items == [i \in DOMAIN paid |-> ItemOf(paid[i])]
<1>3. Items(tables, key) = SortPayrollItems(made)
  BY DEF Items, Map, Filter, Picked, Positions
<1> HIDE DEF paid
<1>4. \A i \in DOMAIN paid :
        /\ paid[i] \in Calculated /\ paid[i].key = key
        /\ NatureOf(paid[i]) \in Natures /\ paid[i].event \in Int
  <2>1. \A i \in DOMAIN paid : paid[i] \in Calculated /\ paid[i].key = key
    BY <1>2 DEF Lists, ToSet, PaidIn
  <2> QED BY <2>1, NatureFound, CalculatedRows
<1>5. made = items
  <2>1. ASSUME NEW i \in DOMAIN paid
        PROVE  made[i] = items[i]
    <3>1. InferNature(paid[i], ApplicableDefinition(
            Definitions(tables), paid[i].event, key.competence)) = NatureOf(paid[i])
      BY <1>4, NatureFound
    <3> QED BY <3>1 DEF ItemOf, Magnitude
  <2>2. made = [i \in DOMAIN paid |-> made[i]] /\ items = [i \in DOMAIN paid |-> items[i]]
    OBVIOUS
  <2> HIDE DEF made, items
  <2> QED BY <2>1, <2>2
<1> HIDE DEF made
<1> DEFINE n == Len(paid)
           k == [i \in 1 .. n |-> Rank(paid[i])]
           l == [i \in 1 .. n |-> paid[i].event]
           R == Lexicographic(n, k, l)
<1>6. n \in Nat /\ DOMAIN paid = 1 .. n /\ DOMAIN items = 1 .. n
      /\ \A i \in 1 .. n : Rank(paid[i]) \in Int /\ paid[i].event \in Int
  <2>1. n \in Nat /\ DOMAIN paid = 1 .. n /\ DOMAIN items = 1 .. n
    BY <1>2 DEF Lists
  <2>2. \A i \in DOMAIN paid : Rank(paid[i]) \in 0 .. 3
    BY <1>4, RankType
  <2>3. \A x \in 0 .. 3 : x \in Int
    OBVIOUS
  <2> HIDE DEF n
  <2> QED BY <1>4, <2>1, <2>2, <2>3
<1>7. k \in [1 .. n -> Int] /\ l \in [1 .. n -> Int]
  <2> HIDE DEF n
  <2> QED BY <1>6
<1>8. StrictOrder(1 .. n, R)
  <2> HIDE DEF k, l, n
  <2> QED BY <1>6, <1>7, LexicographicOrder
<1>9. ASSUME NEW i \in 1 .. n, NEW j \in 1 .. n
      PROVE  /\ <<j, i>> \in R <=> \/ ItemBefore(items[j], items[i])
                                   \/ ~ ItemBefore(items[i], items[j]) /\ j < i
             /\ <<j, i>> \in R => \/ Rank(paid[j]) < Rank(paid[i])
                                  \/ /\ Rank(paid[j]) = Rank(paid[i])
                                     /\ paid[j].event <= paid[i].event
  <2>1. <<j, i>> \in R <=> \/ k[j] < k[i]
                           \/ k[j] = k[i] /\ l[j] < l[i]
                           \/ k[j] = k[i] /\ l[j] = l[i] /\ j < i
    BY DEF Lexicographic
  <2>2. /\ k[i] = Rank(paid[i]) /\ k[j] = Rank(paid[j])
        /\ l[i] = paid[i].event /\ l[j] = paid[j].event
        /\ k[i] \in Int /\ k[j] \in Int /\ l[i] \in Int /\ l[j] \in Int
    BY <1>6
  <2>3. items[i] = ItemOf(paid[i]) /\ items[j] = ItemOf(paid[j])
    BY <1>6
  <2>4. /\ ItemNatureRank(items[i].nature) = k[i] /\ items[i].code = l[i]
        /\ ItemNatureRank(items[j].nature) = k[j] /\ items[j].code = l[j]
    BY <2>2, <2>3 DEF ItemOf, Rank
  <2> HIDE DEF k, l, R, items, n
  <2>5. /\ ItemBefore(items[j], items[i]) <=> k[j] < k[i] \/ (k[j] = k[i] /\ l[j] < l[i])
        /\ ItemBefore(items[i], items[j]) <=> k[i] < k[j] \/ (k[i] = k[j] /\ l[i] < l[j])
    BY <2>4 DEF ItemBefore
  <2>6. <<j, i>> \in R <=> \/ ItemBefore(items[j], items[i])
                           \/ ~ ItemBefore(items[i], items[j]) /\ j < i
    BY <1>6, <2>1, <2>2, <2>5
  <2>7. <<j, i>> \in R => \/ k[j] < k[i]
                          \/ k[j] = k[i] /\ l[j] <= l[i]
    BY <2>1, <2>2
  <2> QED BY <2>2, <2>6, <2>7
<1>10. SortPayrollItems(items) = Arranged(items, R)
  <2> DEFINE Prior(i) == {j \in DOMAIN items :
                            \/ ItemBefore(items[j], items[i])
                            \/ ~ ItemBefore(items[i], items[j]) /\ j < i}
             order == [m \in 1 .. Cardinality(DOMAIN items) |->
                         CHOOSE i \in DOMAIN items : Cardinality(Prior(i)) = m - 1]
  <2> HIDE DEF items
  <2>1. SortPayrollItems(items) = Map(order, LAMBDA i : items[i])
    BY DEF SortPayrollItems, StableSort, Ranked
  <2>2. \A i \in DOMAIN items : Prior(i) = Below(DOMAIN items, R, i)
    <3> HIDE DEF n, R
    <3> QED BY <1>6, <1>9 DEF Below
  <2>3. order = RankedBy(DOMAIN items, R)
    <3> HIDE DEF Prior, R
    <3>1. \A m \in 1 .. Cardinality(DOMAIN items) :
            (CHOOSE i \in DOMAIN items : Cardinality(Below(DOMAIN items, R, i)) = m - 1)
            = CHOOSE i \in DOMAIN items : Cardinality(Prior(i)) = m - 1
      BY <2>2
    <3> QED BY <3>1 DEF RankedBy
  <2> HIDE DEF order
  <2> QED BY <2>1, <2>3 DEF Arranged
<1> HIDE DEF n, k, l, R
<1>11. items \in Seq({ItemOf(r) : r \in PaidIn(key)})
  <2>1. \A i \in 1 .. n : ItemOf(paid[i]) \in {ItemOf(r) : r \in PaidIn(key)}
    BY <1>2, <1>6 DEF Lists, ToSet
  <2>2. items = [i \in 1 .. n |-> ItemOf(paid[i])]
    BY <1>6
  <2> HIDE DEF items
  <2> QED BY <1>6, <2>1, <2>2
<1>12. PICK q \in [1 .. n -> 1 .. n] :
         /\ Arranged(items, R) = [m \in 1 .. n |-> items[q[m]]]
         /\ \A i \in 1 .. n : \E m \in 1 .. n : q[m] = i
         /\ \A i, j \in 1 .. n : i < j => <<q[i], q[j]>> \in R
  <2>1. StrictOrder(DOMAIN items, R)
    BY <1>6, <1>8
  <2>2. \E q \in [DOMAIN items -> DOMAIN items] :
         /\ Arranged(items, R) = [m \in DOMAIN items |-> items[q[m]]]
         /\ \A i \in DOMAIN items : \E m \in DOMAIN items : q[m] = i
         /\ \A i, j \in DOMAIN items : i < j => <<q[i], q[j]>> \in R
    <3> HIDE DEF items
    <3> QED BY <1>11, <2>1, ArrangedInOrder
  <2> HIDE DEF items
  <2> QED BY <1>6, <2>2
<1> DEFINE rows == [m \in DOMAIN paid |-> paid[q[m]]]
<1>13. Lists(rows, PaidIn(key))
  <2>1. q \in [DOMAIN paid -> DOMAIN paid]
    BY <1>6
  <2>2. /\ StrictOrder(DOMAIN paid, R)
        /\ \A i \in DOMAIN paid : \E m \in DOMAIN paid : q[m] = i
        /\ \A i, j \in DOMAIN paid : i < j => <<q[i], q[j]>> \in R
    BY <1>6, <1>8, <1>12
  <2>3. rows = Reordered(paid, q)
    BY DEF Reordered
  <2> HIDE DEF items, rows
  <2> QED BY <1>2, <2>1, <2>2, <2>3, ListReordered
<1>14. Items(tables, key) = [i \in DOMAIN rows |-> ItemOf(rows[i])]
  <2>1. Items(tables, key) = [m \in 1 .. n |-> items[q[m]]]
    BY <1>3, <1>5, <1>10, <1>12
  <2>2. \A m \in 1 .. n : items[q[m]] = ItemOf(rows[m])
    BY <1>6
  <2>3. DOMAIN rows = 1 .. n
    BY <1>6
  <2> HIDE DEF items, rows
  <2> QED BY <2>1, <2>2, <2>3
<1>15. ASSUME NEW i \in DOMAIN rows, NEW j \in DOMAIN rows, i < j
       PROVE  \/ Rank(rows[i]) < Rank(rows[j])
              \/ Rank(rows[i]) = Rank(rows[j]) /\ rows[i].event <= rows[j].event
  <2>1. i \in 1 .. n /\ j \in 1 .. n /\ rows[i] = paid[q[i]] /\ rows[j] = paid[q[j]]
    BY <1>6
  <2>2. q[i] \in 1 .. n /\ q[j] \in 1 .. n /\ <<q[i], q[j]>> \in R
    BY <1>12, <1>15, <2>1
  <2> HIDE DEF rows, items
  <2> QED BY <1>9, <2>1, <2>2
<1> HIDE DEF rows
<1>16. Printed(rows, tables, key)
  BY <1>13, <1>14, <1>15 DEF Printed
<1> QED BY <1>16

PaidAs(key, nature) == {r \in PaidIn(key) : NatureOf(r) = nature}

\* A total of the items is the sum of the rows of that nature.
LEMMA TotalPrinted ==
  ASSUME sage \in Contents, NEW rows, NEW tables, NEW key, Printed(rows, tables, key),
         NEW nature
  PROVE  /\ Total(Items(tables, key), nature) = Sum(PaidAs(key, nature))
         /\ Sum(PaidAs(key, nature)) \in Nat
<1> DEFINE items == Items(tables, key)
           K == {i \in DOMAIN items : items[i].nature = nature}
           T == PaidAs(key, nature)
           X == {ItemOf(r) : r \in PaidIn(key)}
           some == Picked(rows, K)
           made == Picked(items, K)
<1>1. Lists(rows, PaidIn(key)) /\ items = [i \in DOMAIN rows |-> ItemOf(rows[i])]
  BY DEF Printed
<1> HIDE DEF items
<1>2. DOMAIN items = DOMAIN rows /\ \A i \in DOMAIN rows :
        /\ items[i].nature = NatureOf(rows[i])
        /\ items[i].amount = Magnitude(rows[i])
        /\ rows[i] \in PaidIn(key)
  <2>1. DOMAIN items = DOMAIN rows /\ \A i \in DOMAIN rows : items[i] = ItemOf(rows[i])
    BY <1>1
  <2>2. \A i \in DOMAIN rows : rows[i] \in PaidIn(key)
    BY <1>1 DEF Lists, ToSet
  <2> QED BY <2>1, <2>2 DEF ItemOf
<1>3. Total(items, nature) = TotalOf(made)
  BY DEF Total, TotalOf, Filter, Picked, Positions
<1>4. K \in SUBSET (DOMAIN rows) /\ K \in SUBSET (DOMAIN items)
  BY <1>2
<1>5. Lists(some, T)
  <2>1. T \in SUBSET PaidIn(key)
    BY DEF PaidAs
  <2>2. \A i \in DOMAIN rows : i \in K <=> rows[i] \in T
    BY <1>2 DEF PaidAs
  <2> HIDE DEF K, T
  <2>3. Keeps(rows, K, PaidIn(key), T)
    BY <1>4, <2>1, <2>2 DEF Keeps
  <2> QED BY <1>1, <2>3, KeptLists
<1>6. items \in Seq(X)
  <2>1. rows \in Seq(PaidIn(key))
    BY <1>1 DEF Lists
  <2>2. \A i \in 1 .. Len(rows) : ItemOf(rows[i]) \in X
    BY <2>1
  <2> HIDE DEF X
  <2> QED BY <1>1, <2>1, <2>2
<1> HIDE DEF K, T, X, some, made
<1>7. /\ DOMAIN some = 1 .. Cardinality(K)
      /\ \A m \in DOMAIN some : Positions(K)[m] \in K /\ some[m] = rows[Positions(K)[m]]
  <2>1. rows \in Seq(PaidIn(key))
    BY <1>1 DEF Lists
  <2> QED BY <1>4, <2>1, AtPositions DEF some
<1>8. /\ DOMAIN made = 1 .. Cardinality(K)
      /\ \A m \in DOMAIN made : made[m] = items[Positions(K)[m]]
  BY <1>4, <1>6, AtPositions DEF made
<1>9. DOMAIN made = DOMAIN some
      /\ \A m \in DOMAIN some : made[m].amount = Magnitude(some[m])
  BY <1>2, <1>4, <1>7, <1>8
<1>10. \A r \in T : r.amount \in Int
  BY CalculatedRows DEF T, PaidAs, PaidIn
<1>11. TotalOf(made) = Sum(T) /\ Sum(T) \in Nat
  BY <1>5, <1>9, <1>10, TotalIsSum
<1> QED BY <1>3, <1>11 DEF T, items

\* A payslip that says what Sage says.
OfSage(p) ==
  LET earned == Sum(PaidAs(p.key, "EARNING"))
      taken == Sum(PaidAs(p.key, "DEDUCTION"))
  IN /\ Len(p.items) = Cardinality(PaidIn(p.key))
     /\ ToSet(p.items) = {ItemOf(r) : r \in PaidIn(p.key)}
     /\ p.gross = OrBlank(earned)
     /\ p.deductions = OrBlank(taken)
     /\ p.net = IF earned > 0 THEN earned - taken ELSE Blank

LEMMA PayslipOfSage ==
  ASSUME sage \in Contents, NEW rows, NEW tables, NEW key, Printed(rows, tables, key)
  PROVE  OfSage(Payslip(tables, key)) /\ Payslip(tables, key).key = key
<1> DEFINE items == Items(tables, key)
           earned == Sum(PaidAs(key, "EARNING"))
           taken == Sum(PaidAs(key, "DEDUCTION"))
           p == Payslip(tables, key)
<1>1. /\ p.key = key /\ p.items = items /\ p.gross = Gross(items)
      /\ p.deductions = Deductions(items) /\ p.net = Net(items)
  BY DEF Payslip
<1>2. Total(items, "EARNING") = earned /\ earned \in Nat
  BY TotalPrinted
<1>3. Total(items, "DEDUCTION") = taken /\ taken \in Nat
  BY TotalPrinted
<1>4. Lists(rows, PaidIn(key)) /\ items = [i \in DOMAIN rows |-> ItemOf(rows[i])]
  BY DEF Printed
<1>5. Len(items) = Cardinality(PaidIn(key)) /\ ToSet(items) = {ItemOf(r) : r \in PaidIn(key)}
  <2>1. Cardinality(PaidIn(key)) = Len(rows) /\ Len(rows) \in Nat
    BY <1>4, ListSize
  <2>2. rows \in Seq(PaidIn(key)) /\ ToSet(rows) = PaidIn(key)
    BY <1>4 DEF Lists
  <2>3. Len(items) = Len(rows) /\ DOMAIN items = DOMAIN rows
    BY <1>4, <2>2
  <2>4. \A i \in DOMAIN rows : items[i] = ItemOf(rows[i])
    BY <1>4
  <2> HIDE DEF items
  <2>5. ToSet(items) = {items[i] : i \in DOMAIN rows}
    BY <2>3 DEF ToSet
  <2>6. PaidIn(key) = {rows[i] : i \in DOMAIN rows}
    BY <2>2 DEF ToSet
  <2>7. ToSet(items) = {ItemOf(r) : r \in PaidIn(key)}
    BY <2>4, <2>5, <2>6
  <2> QED BY <2>1, <2>3, <2>7
<1> HIDE DEF items, earned, taken, p
<1>6. Gross(items) = OrBlank(earned) /\ Deductions(items) = OrBlank(taken)
  BY <1>2, <1>3 DEF Gross, Deductions, OrBlank
<1>7. Net(items) = IF earned > 0 THEN earned - taken ELSE Blank
  <2>1. Blank \notin Int
    BY SageCollectionAssumption
  <2>2. earned # Blank /\ taken # Blank
    BY <1>2, <1>3, <2>1
  <2>3. CASE earned > 0
    <3>1. Gross(items) = earned /\ Gross(items) # Blank
      BY <1>6, <2>2, <2>3 DEF OrBlank
    <3>2. (IF Deductions(items) = Blank THEN 0 ELSE Deductions(items)) = taken
      BY <1>3, <1>6, <2>2 DEF OrBlank
    <3> QED BY <2>3, <3>1, <3>2 DEF Net
  <2>4. CASE ~ (earned > 0)
    BY <1>6, <2>4 DEF Net, OrBlank
  <2> QED BY <2>3, <2>4
<1>8. OfSage(p)
  BY <1>1, <1>5, <1>6, <1>7 DEF OfSage, earned, taken
<1> QED BY <1>1, <1>8 DEF p

\* Each set of payslips was made of tables that held the selected rows.
Rendered ==
  \A payslips \in renders : \E tables, asked :
    Collected(tables, asked) /\ payslips = NormalizePayrollBatches(tables)

LEMMA KeysOfSage ==
  ASSUME NEW tables, NEW asked, Collected(tables, asked)
  PROVE  /\ NormalizePayrollBatches(tables) = {Payslip(tables, r.key) : r \in Calculated}
<1> DEFINE events == FinancialEvents(tables)
<1>1. ToSet(events) = Calculated
  BY FinancialEventsList DEF Lists
<1>2. NormalizePayrollBatches(tables) = {Payslip(tables, events[i].key) : i \in DOMAIN events}
  BY DEF NormalizePayrollBatches
<1> HIDE DEF events
<1>3. Calculated = {events[i] : i \in DOMAIN events}
  BY <1>1 DEF ToSet
<1> QED BY <1>2, <1>3

LEMMA RenderedOfSage ==
  ASSUME sage \in Contents, Rendered
  PROVE  PayslipsOfSage
<1> SUFFICES ASSUME Unambiguous, NEW payslips \in renders
             PROVE  /\ {p.key : p \in payslips} = {r.key : r \in Calculated}
                    /\ \A p \in payslips :
                         LET rows == {r \in Calculated : r.key = p.key}
                             earned == Sum({r \in rows : NatureOf(r) = "EARNING"})
                             taken == Sum({r \in rows : NatureOf(r) = "DEDUCTION"})
                         IN /\ Len(p.items) = Cardinality(rows)
                            /\ ToSet(p.items) =
                                 {[code |-> r.event, nature |-> NatureOf(r),
                                   amount |-> IF r.amount < 0 THEN -r.amount ELSE r.amount] :
                                  r \in rows}
                            /\ p.gross = OrBlank(earned)
                            /\ p.deductions = OrBlank(taken)
                            /\ p.net = IF earned > 0 THEN earned - taken ELSE Blank
  BY DEF PayslipsOfSage
<1>1. PICK tables, asked :
        Collected(tables, asked) /\ payslips = NormalizePayrollBatches(tables)
  BY DEF Rendered
<1>2. payslips = {Payslip(tables, r.key) : r \in Calculated}
  BY <1>1, KeysOfSage
<1>3. \A key : OfSage(Payslip(tables, key)) /\ Payslip(tables, key).key = key
  BY <1>1, ItemsPrinted, PayslipOfSage
<1>4. {p.key : p \in payslips} = {r.key : r \in Calculated}
  BY <1>2, <1>3
<1>5. ASSUME NEW p \in payslips
      PROVE  OfSage(p)
  BY <1>2, <1>3
<1>6. \A r : ItemOf(r) = [code |-> r.event, nature |-> NatureOf(r),
                          amount |-> IF r.amount < 0 THEN -r.amount ELSE r.amount]
  BY DEF ItemOf, Magnitude
<1>7. ASSUME NEW p \in payslips
      PROVE  LET rows == {r \in Calculated : r.key = p.key}
                 earned == Sum({r \in rows : NatureOf(r) = "EARNING"})
                 taken == Sum({r \in rows : NatureOf(r) = "DEDUCTION"})
             IN /\ Len(p.items) = Cardinality(rows)
                /\ ToSet(p.items) =
                     {[code |-> r.event, nature |-> NatureOf(r),
                       amount |-> IF r.amount < 0 THEN -r.amount ELSE r.amount] : r \in rows}
                /\ p.gross = OrBlank(earned)
                /\ p.deductions = OrBlank(taken)
                /\ p.net = IF earned > 0 THEN earned - taken ELSE Blank
  BY <1>5, <1>6 DEF OfSage, PaidAs, PaidIn
<1> QED BY <1>4, <1>7

LEMMA AtMostOne ==
  ASSUME NEW S, IsFiniteSet(S), Cardinality(S) <= 1, NEW a \in S, NEW b \in S
  PROVE  a = b
<1>1. Cardinality(S) \in Nat
  BY FS_CardinalityType
<1>2. Cardinality(S) # 0
  BY FS_EmptySet
<1>3. Cardinality(S) = 1
  BY <1>1, <1>2
<1>4. PICK x : S = {x}
  BY <1>3, FS_Singleton
<1> QED BY <1>4

\* The base of a payslip does not depend on the order, if there is one row.
LEMMA BaseStable ==
  ASSUME sage \in Contents, NEW key, Cardinality({b \in sage.base : b.key = key}) <= 1,
         NEW first, NEW asked, Collected(first, asked),
         NEW second, NEW wanted, Collected(second, wanted)
  PROVE  BaseOf(first, key) = BaseOf(second, key)
<1> DEFINE B == {b \in SelectedRows("base") : b.key = key}
           All == {b \in sage.base : b.key = key}
<1>1. \A a, b \in B : a = b
  <2>1. IsFiniteSet(All) /\ Cardinality(All) <= 1
    <3>1. IsFiniteSet(sage.base) /\ All \in SUBSET sage.base
      BY ContentsOfSage
    <3> QED BY <3>1, FS_Subset
  <2>2. B \subseteq All
    BY DEF SelectedRows
  <2> HIDE DEF All, B
  <2> QED BY <2>1, <2>2, AtMostOne
<1>2. ASSUME NEW tables, NEW some, Collected(tables, some)
      PROVE  IF B = {} THEN BaseOf(tables, key) = Blank
             ELSE \E b \in B : BaseOf(tables, key) = b.base
  <2> DEFINE base == tables.base
             K == {i \in DOMAIN base : base[i].key = key}
             rows == Picked(base, K)
  <2>1. BaseOf(tables, key) = IF rows = <<>> THEN Blank ELSE rows[1].base
    BY DEF BaseOf, Filter, Picked, Positions
  <2>2. Lists(base, SelectedRows("base"))
    BY <1>2 DEF Collected
  <2>3. Lists(rows, B) /\ (rows = <<>> <=> B = {})
    <3>1. B \in SUBSET SelectedRows("base") /\ K \in SUBSET (DOMAIN base)
      OBVIOUS
    <3>2. \A i \in DOMAIN base : i \in K <=> base[i] \in B
      BY <2>2 DEF Lists, ToSet
    <3> HIDE DEF K, B, base
    <3>3. Keeps(base, K, SelectedRows("base"), B)
      BY <3>1, <3>2 DEF Keeps
    <3> QED BY <2>2, <3>3, KeptLists
  <2> HIDE DEF rows, B
  <2>4. rows # <<>> => rows[1] \in B
    BY <2>3 DEF Lists
  <2> QED BY <2>1, <2>3, <2>4
<1>3. /\ IF B = {} THEN BaseOf(first, key) = Blank
         ELSE \E b \in B : BaseOf(first, key) = b.base
      /\ IF B = {} THEN BaseOf(second, key) = Blank
         ELSE \E b \in B : BaseOf(second, key) = b.base
  BY <1>2
<1> HIDE DEF B
<1> QED BY <1>1, <1>3

\* Natures, then codes.
PrintOrder(S) ==
  {x \in S \X S : \/ Rank(x[1]) < Rank(x[2])
                  \/ Rank(x[1]) = Rank(x[2]) /\ x[1].event < x[2].event}

\* Rows that the sort tells apart are printed in one order.
LEMMA PrintedOnce ==
  ASSUME sage \in Contents, Unambiguous, NEW key,
         ~ \E r, s \in PaidIn(key) : Interchangeable(r, s),
         NEW first, NEW asked, Collected(first, asked), NEW p, Printed(p, first, key),
         NEW second, NEW q, Printed(q, second, key)
  PROVE  Items(first, key) = Items(second, key)
<1> DEFINE T == PaidIn(key)
           R == PrintOrder(T)
           n == Cardinality(T)
<1>1. \A r \in T : r \in Calculated /\ r.key = key /\ r.event \in Int
  BY CalculatedRows DEF PaidIn
<1>2. \A r \in T : NatureOf(r) \in Natures
  BY <1>1, NatureFound
<1>3. \A r \in T : Rank(r) \in Int
  <2>1. \A r \in T : Rank(r) \in 0 .. 3
    BY <1>2, RankType
  <2> HIDE DEF T
  <2> QED BY <2>1
<1>4. ASSUME NEW r \in T, NEW s \in T, Rank(r) = Rank(s), r.event = s.event
      PROVE  r = s
  <2>1. NatureOf(r) = NatureOf(s)
    BY <1>2, <1>4 DEF Rank, ItemNatureRank, Natures
  <2>2. r.key = s.key
    BY <1>1
  <2> QED BY <1>4, <2>1, <2>2 DEF Interchangeable
<1>5. \A r, s \in T : <<r, s>> \in R <=> Rank(r) < Rank(s)
                                        \/ (Rank(r) = Rank(s) /\ r.event < s.event)
  BY DEF PrintOrder
<1> HIDE DEF T, R, n
<1>6. StrictOrder(T, R)
  <2>1. \A r \in T : <<r, r>> \notin R
    BY <1>1, <1>3, <1>5
  <2>2. ASSUME NEW r \in T, NEW s \in T, NEW t \in T, <<r, s>> \in R, <<s, t>> \in R
        PROVE  <<r, t>> \in R
    <3>1. /\ Rank(r) \in Int /\ Rank(s) \in Int /\ Rank(t) \in Int
          /\ r.event \in Int /\ s.event \in Int /\ t.event \in Int
      BY <1>1, <1>3
    <3>2. /\ Rank(r) < Rank(s) \/ (Rank(r) = Rank(s) /\ r.event < s.event)
          /\ Rank(s) < Rank(t) \/ (Rank(s) = Rank(t) /\ s.event < t.event)
      BY <1>5, <2>2
    <3>3. Rank(r) < Rank(t) \/ (Rank(r) = Rank(t) /\ r.event < t.event)
      BY <3>1, <3>2
    <3> QED BY <1>5, <3>3
  <2>3. ASSUME NEW r \in T, NEW s \in T, r # s
        PROVE  <<r, s>> \in R \/ <<s, r>> \in R
    <3>1. /\ Rank(r) \in Int /\ Rank(s) \in Int
          /\ r.event \in Int /\ s.event \in Int
      BY <1>1, <1>3
    <3>2. Rank(r) # Rank(s) \/ r.event # s.event
      BY <1>4, <2>3
    <3>3. \/ Rank(r) < Rank(s)
          \/ Rank(r) = Rank(s) /\ r.event < s.event
          \/ Rank(s) < Rank(r)
          \/ Rank(s) = Rank(r) /\ s.event < r.event
      BY <3>1, <3>2
    <3> QED BY <1>5, <3>3
  <2> QED BY <2>1, <2>2, <2>3 DEF StrictOrder
<1>7. ASSUME NEW rows, NEW tables, Printed(rows, tables, key)
      PROVE  n \in Nat /\ Enumerates(rows, n, T, R) /\ DOMAIN rows = 1 .. n
  <2>1. Lists(rows, T)
    BY <1>7 DEF Printed, T
  <2>2. n \in Nat /\ Len(rows) = n
    BY <2>1, ListSize DEF n
  <2>3. rows \in Seq(T) /\ rows \in [1 .. n -> T] /\ DOMAIN rows = 1 .. n
    BY <2>1, <2>2 DEF Lists
  <2>4. \A x \in T : \E i \in 1 .. n : rows[i] = x
    BY <2>1, <2>3 DEF Lists, ToSet
  <2>5. ASSUME NEW i \in 1 .. n, NEW j \in 1 .. n, i < j
        PROVE  <<rows[i], rows[j]>> \in R
    <3>1. rows[i] \in T /\ rows[j] \in T /\ rows[i] # rows[j]
      <4>1. i # j
        BY <2>2, <2>5
      <4> QED BY <2>1, <2>3, <4>1 DEF Lists
    <3>2. \/ Rank(rows[i]) < Rank(rows[j])
          \/ Rank(rows[i]) = Rank(rows[j]) /\ rows[i].event <= rows[j].event
      BY <1>7, <2>3, <2>5 DEF Printed
    <3>3. Rank(rows[i]) = Rank(rows[j]) => rows[i].event # rows[j].event
      BY <1>4, <3>1
    <3>4. rows[i].event \in Int /\ rows[j].event \in Int
      BY <1>1, <3>1
    <3>5. \/ Rank(rows[i]) < Rank(rows[j])
          \/ Rank(rows[i]) = Rank(rows[j]) /\ rows[i].event < rows[j].event
      BY <3>2, <3>3, <3>4
    <3> QED BY <1>5, <3>1, <3>5
  <2> QED BY <2>2, <2>3, <2>4, <2>5 DEF Enumerates
<1>8. p = q
  BY <1>6, <1>7, EnumeratedOnce
<1>9. /\ Items(first, key) = [i \in DOMAIN p |-> ItemOf(p[i])]
      /\ Items(second, key) = [i \in DOMAIN q |-> ItemOf(q[i])]
  BY DEF Printed
<1> QED BY <1>8, <1>9

LEMMA RenderedStable ==
  ASSUME sage \in Contents, Rendered
  PROVE  RenderStable
<1> SUFFICES ASSUME Unambiguous, NEW first \in renders, NEW second \in renders,
                    NEW p \in first, NEW q \in second, p.key = q.key,
                    ~ \E r, s \in {r \in Calculated : r.key = p.key} : Interchangeable(r, s),
                    Cardinality({b \in sage.base : b.key = p.key}) <= 1
             PROVE  p = q
  BY DEF RenderStable
<1>1. PICK one, asked : Collected(one, asked) /\ first = NormalizePayrollBatches(one)
  BY DEF Rendered
<1>2. PICK two, wanted : Collected(two, wanted) /\ second = NormalizePayrollBatches(two)
  BY DEF Rendered
<1>3. PICK r \in Calculated : p = Payslip(one, r.key)
  BY <1>1, KeysOfSage
<1>4. PICK s \in Calculated : q = Payslip(two, s.key)
  BY <1>2, KeysOfSage
<1> DEFINE key == r.key
<1>5. p.key = key /\ q.key = s.key
  BY <1>3, <1>4 DEF Payslip
<1>6. s.key = key
  BY <1>5
<1> HIDE DEF key
<1>7. PICK rows : Printed(rows, one, key)
  BY <1>1, ItemsPrinted
<1>8. PICK others : Printed(others, two, key)
  BY <1>2, ItemsPrinted
<1>9. ~ \E x, y \in PaidIn(key) : Interchangeable(x, y)
  BY <1>5 DEF PaidIn
<1>10. Items(one, key) = Items(two, key)
  BY <1>1, <1>7, <1>8, <1>9, PrintedOnce
<1>11. BaseOf(one, key) = BaseOf(two, key)
  <2>1. Cardinality({b \in sage.base : b.key = key}) <= 1
    BY <1>5
  <2> QED BY <1>1, <1>2, <2>1, BaseStable
<1>12. Payslip(one, key) = Payslip(two, key)
  BY <1>10, <1>11 DEF Payslip
<1> QED BY <1>3, <1>4, <1>6, <1>12 DEF key

-----------------------------------------------------------------------------
(***************************************************************************)
(* The collection: a table that has been read is there with its selected   *)
(* rows, the others are empty, and the events met are those of the rows.   *)
(***************************************************************************)

ReadRows(t) == FlattenSeq(batches[t])

DefinitionsRead(asked) ==
  /\ Lists(ReadRows("definitions"), {d \in sage.definitions : d.event \in asked})
  /\ Asked(asked)

TablesRead ==
  /\ reading >= 1 => Lists(ReadRows("proc"), SelectedRows("proc"))
  /\ reading < 1 => batches["proc"] = <<>>
  /\ reading >= 2 => Lists(ReadRows("mov"), SelectedRows("mov"))
  /\ reading < 2 => batches["mov"] = <<>>
  /\ reading >= 3 => Lists(ReadRows("base"), SelectedRows("base"))
  /\ reading < 3 => batches["base"] = <<>>
  /\ reading >= 4 => \E asked : DefinitionsRead(asked)
  /\ reading < 4 => batches["definitions"] = <<>>

EventsRead ==
  IF reading = 0 THEN {}
  ELSE IF reading = 1 THEN {r.event : r \in SelectedRows("proc")} ELSE SelectedEvents

TableNames == {"proc", "mov", "base", "definitions"}

CollectionInv ==
  /\ sage \in Contents
  /\ reading \in 0 .. 4
  /\ batches = [t \in TableNames |-> batches[t]]
  /\ TablesRead
  /\ Lists(eventCodes, EventsRead)
  /\ collections \in 0 .. MaxCollections
  /\ reading > 0 => collections > 0
  /\ Rendered

LEMMA FourTables ==
  /\ Len(PayrollTables) = 4
  /\ PayrollTables[1] = "proc" /\ PayrollTables[2] = "mov"
  /\ PayrollTables[3] = "base" /\ PayrollTables[4] = "definitions"
  /\ ToSet(PayrollTables) = TableNames
<1>1. /\ Len(PayrollTables) = 4
      /\ PayrollTables[1] = "proc" /\ PayrollTables[2] = "mov"
      /\ PayrollTables[3] = "base" /\ PayrollTables[4] = "definitions"
  BY DEF PayrollTables
<1>2. DOMAIN PayrollTables = {1, 2, 3, 4}
  <2>1. DOMAIN PayrollTables = 1 .. 4
    BY DEF PayrollTables
  <2> QED BY <2>1
<1>3. ToSet(PayrollTables) = {PayrollTables[1], PayrollTables[2], PayrollTables[3],
                              PayrollTables[4]}
  BY <1>2 DEF ToSet
<1> QED BY <1>1, <1>3 DEF TableNames

LEMMA NothingListed ==
  /\ Lists(<<>>, {})
  /\ FlattenSeq(<<>>) = <<>>
BY DEF Lists, ToSet, FlattenSeq

\* Any order of a finite set lists it.
LEMMA OrdersList ==
  ASSUME NEW S, IsFiniteSet(S), NEW rows \in SetToSeqs(S)
  PROVE  Lists(rows, S)
<1> DEFINE n == Cardinality(S)
<1>1. /\ rows \in [1 .. n -> S]
      /\ \A i, j \in 1 .. n : i # j => rows[i] # rows[j]
  BY DEF SetToSeqs
<1>2. n \in Nat
  BY FS_CardinalityType
<1>3. IsFiniteSet(1 .. n) /\ Cardinality(1 .. n) = n
  BY <1>2, FS_Interval
<1> DEFINE D == 1 .. n
<1>4. rows \in Injection(D, S)
  BY <1>1 DEF Injection, IsInjective
<1>5. rows \in Surjection(D, S)
  <2>1. IsFiniteSet(D) /\ Cardinality(D) = Cardinality(S)
    BY <1>3
  <2> HIDE DEF D, n
  <2> QED BY <1>4, <2>1, FS_Injection
<1>6. \A x \in S : \E i \in 1 .. n : rows[i] = x
  BY <1>5 DEF Surjection
<1> HIDE DEF n
<1>7. rows \in Seq(S) /\ DOMAIN rows = 1 .. n
  BY <1>1, <1>2
<1>8. ToSet(rows) = S
  BY <1>1, <1>6, <1>7 DEF ToSet
<1> QED BY <1>1, <1>7, <1>8 DEF Lists

LEMMA SelectedFinite ==
  ASSUME sage \in Contents
  PROVE  /\ \A t \in {"proc", "mov", "base"} :
              IsFiniteSet(SelectedRows(t)) /\ Selected(t) = SelectedRows(t)
         /\ \A asked : IsFiniteSet({d \in sage.definitions : d.event \in asked})
<1>1. /\ IsFiniteSet(sage["proc"]) /\ IsFiniteSet(sage["mov"])
      /\ IsFiniteSet(sage["base"]) /\ IsFiniteSet(sage["definitions"])
  BY ContentsOfSage
<1>2. ASSUME NEW t \in {"proc", "mov", "base"}
      PROVE  IsFiniteSet(SelectedRows(t)) /\ Selected(t) = SelectedRows(t)
  <2>1. IsFiniteSet(sage[t]) /\ SelectedRows(t) \in SUBSET sage[t]
    BY <1>1 DEF SelectedRows
  <2>2. t # "definitions"
    OBVIOUS
  <2> QED BY <2>1, <2>2, FS_Subset DEF Selected, SelectedRows
<1>3. ASSUME NEW asked
      PROVE  IsFiniteSet({d \in sage.definitions : d.event \in asked})
  <2>1. {d \in sage.definitions : d.event \in asked} \in SUBSET sage["definitions"]
    OBVIOUS
  <2> QED BY <1>1, <2>1, FS_Subset
<1> QED BY <1>2, <1>3

\* One step of reading: the batches of the next table hold its selected rows.
LEMMA TableRead ==
  ASSUME CollectionInv, ReadTable
  PROVE  \E t, rows :
           /\ t = PayrollTables[reading + 1]
           /\ Lists(rows, Selected(t))
           /\ FlattenSeq(InBatches(rows)) = rows
           /\ t \in TableNames
           /\ batches' = [batches EXCEPT ![t] = InBatches(rows)]
           /\ eventCodes' = EventsMet(t, eventCodes, rows)
<1> DEFINE t == PayrollTables[reading + 1]
<1>1. reading \in 0 .. 3 /\ sage \in Contents
  BY FourTables DEF CollectionInv, ReadTable
<1>2. t \in TableNames
  <2>1. reading = 0 \/ reading = 1 \/ reading = 2 \/ reading = 3
    BY <1>1
  <2>2. /\ reading = 0 => t = "proc"
        /\ reading = 1 => t = "mov"
        /\ reading = 2 => t = "base"
        /\ reading = 3 => t = "definitions"
    BY FourTables
  <2> HIDE DEF t
  <2> QED BY <2>1, <2>2 DEF TableNames
<1>3. PICK rows \in SetToSeqs(Selected(t)) :
        /\ batches' = [batches EXCEPT ![t] = InBatches(rows)]
        /\ eventCodes' = EventsMet(t, eventCodes, rows)
  BY DEF ReadTable
<1> HIDE DEF t
<1>4. IsFiniteSet(Selected(t))
  <2>1. CASE t \in {"proc", "mov", "base"}
    BY <1>1, <2>1, SelectedFinite
  <2>2. CASE t = "definitions"
    <3> DEFINE asked == ToSet(SubSeq(eventCodes, 1, Min({MaxEventCodes, Len(eventCodes)})))
    <3>1. Selected(t) = {d \in sage.definitions : d.event \in asked}
      BY <2>2 DEF Selected
    <3> HIDE DEF asked
    <3> QED BY <1>1, <3>1, SelectedFinite
  <2> QED BY <1>2, <2>1, <2>2 DEF TableNames
<1>5. Lists(rows, Selected(t))
  BY <1>4, OrdersList
<1>6. FlattenSeq(InBatches(rows)) = rows
  <2>1. rows \in Seq(Selected(t))
    BY <1>5 DEF Lists
  <2> QED BY <2>1, BatchesTogether
<1> QED BY <1>2, <1>3, <1>5, <1>6 DEF t

\* Unless there are too many events, those of every row are asked for.
LEMMA AllAsked ==
  ASSUME Lists(eventCodes, SelectedEvents)
  PROVE  Asked(ToSet(SubSeq(eventCodes, 1, Min({MaxEventCodes, Len(eventCodes)}))))
<1> SUFFICES ASSUME Cardinality(SelectedEvents) <= MaxEventCodes
             PROVE  SelectedEvents \subseteq
                      ToSet(SubSeq(eventCodes, 1, Min({MaxEventCodes, Len(eventCodes)})))
  BY DEF Asked
<1>1. Cardinality(SelectedEvents) = Len(eventCodes) /\ Len(eventCodes) \in Nat
  BY ListSize
<1>2. MaxEventCodes \in Nat
  BY SageCollectionAssumption
<1>3. Min({MaxEventCodes, Len(eventCodes)}) = Len(eventCodes)
  BY <1>1, <1>2, LeastOfTwo
<1>4. eventCodes \in Seq(SelectedEvents) /\ ToSet(eventCodes) = SelectedEvents
  BY DEF Lists
<1>5. SubSeq(eventCodes, 1, Len(eventCodes)) = eventCodes
  BY <1>4
<1> QED BY <1>3, <1>4, <1>5

\* What is selected depends on Sage alone.
LEMMA SageKept ==
  ASSUME sage' = sage
  PROVE  /\ SelectedRows("proc")' = SelectedRows("proc")
         /\ SelectedRows("mov")' = SelectedRows("mov")
         /\ SelectedRows("base")' = SelectedRows("base")
         /\ SelectedEvents' = SelectedEvents
         /\ \A asked : Asked(asked) => Asked(asked)'
         /\ \A asked : {d \in sage.definitions : d.event \in asked}'
                         = {d \in sage.definitions : d.event \in asked}
         /\ \A tables, asked : Collected(tables, asked) => Collected(tables, asked)'
<1>1. \A t : SelectedRows(t)' = SelectedRows(t)
  BY DEF SelectedRows
<1>2. SelectedEvents' = SelectedEvents
  BY <1>1 DEF SelectedEvents
<1>3. \A asked : Asked(asked) => Asked(asked)'
  BY <1>2 DEF Asked
<1>4. \A tables, asked : Collected(tables, asked) => Collected(tables, asked)'
  BY <1>1, <1>3 DEF Collected
<1> QED BY <1>1, <1>2, <1>3, <1>4

LEMMA CollectionInitially ==
  ASSUME CollectionInit
  PROVE  CollectionInv
<1>1. /\ sage \in Contents /\ reading = 0 /\ eventCodes = <<>> /\ batches = NoBatches
      /\ renders = {} /\ collections = MaxCollections
  BY DEF CollectionInit
<1>2. batches = [t \in TableNames |-> <<>>]
  BY <1>1, FourTables DEF NoBatches
<1>3. batches = [t \in TableNames |-> batches[t]] /\ \A t \in TableNames : batches[t] = <<>>
  BY <1>2
<1>4. TablesRead
  BY <1>1, <1>3 DEF TablesRead, TableNames
<1>5. Lists(eventCodes, EventsRead)
  BY <1>1, NothingListed DEF EventsRead
<1>6. Rendered
  BY <1>1 DEF Rendered
<1>7. collections \in 0 .. MaxCollections
  BY <1>1, SageCollectionAssumption
<1> QED BY <1>1, <1>3, <1>4, <1>5, <1>6, <1>7 DEF CollectionInv

LEMMA ReadTableKeeps ==
  ASSUME CollectionInv, ReadTable
  PROVE  CollectionInv'
<1>1. /\ reading \in 0 .. 3 /\ reading' = reading + 1 /\ collections > 0
      /\ sage' = sage /\ renders' = renders /\ collections' = collections
  BY FourTables DEF CollectionInv, ReadTable
<1>2. PICK t, rows :
        /\ t = PayrollTables[reading + 1]
        /\ Lists(rows, Selected(t))
        /\ FlattenSeq(InBatches(rows)) = rows
        /\ t \in TableNames
        /\ batches' = [batches EXCEPT ![t] = InBatches(rows)]
        /\ eventCodes' = EventsMet(t, eventCodes, rows)
  BY TableRead
<1>3. /\ batches' = [u \in TableNames |-> batches'[u]]
      /\ batches'[t] = InBatches(rows)
      /\ \A u \in TableNames : u # t => batches'[u] = batches[u]
  <2>1. batches = [u \in TableNames |-> batches[u]]
    BY DEF CollectionInv
  <2>2. DOMAIN batches = TableNames
    BY <2>1
  <2> QED BY <1>2, <2>2
<1>4. ReadRows(t)' = rows
  BY <1>2, <1>3 DEF ReadRows
<1>5. \A u \in TableNames : u # t => ReadRows(u)' = ReadRows(u)
  BY <1>3 DEF ReadRows
<1>6. TablesRead /\ Lists(eventCodes, EventsRead) /\ sage \in Contents
  BY DEF CollectionInv
<1>7. ASSUME reading = 0
      PROVE  TablesRead' /\ Lists(eventCodes', EventsRead')
  <2>1. t = "proc" /\ reading' = 1
    BY <1>1, <1>2, <1>7, FourTables
  <2>2. Lists(rows, SelectedRows("proc"))
    BY <1>2, <1>6, <2>1, SelectedFinite
  <2>3. Lists(ReadRows("proc")', SelectedRows("proc")')
    BY <1>1, <1>4, <2>1, <2>2, SageKept
  <2>4. /\ batches'["mov"] = <<>> /\ batches'["base"] = <<>> /\ batches'["definitions"] = <<>>
    BY <1>3, <1>6, <1>7, <2>1 DEF TablesRead, TableNames
  <2>5. TablesRead'
    BY <2>1, <2>3, <2>4 DEF TablesRead
  <2>6. Lists(eventCodes', EventsRead')
    <3>1. eventCodes' = MeetEvents(eventCodes, rows)
      BY <1>2, <2>1 DEF EventsMet
    <3>2. Lists(eventCodes, {})
      BY <1>6, <1>7 DEF EventsRead
    <3>3. Lists(MeetEvents(eventCodes, rows), {} \cup {r.event : r \in SelectedRows("proc")})
      BY <2>2, <3>2, EventsAreMet
    <3>4. EventsRead' = {r.event : r \in SelectedRows("proc")}
      BY <1>1, <2>1, SageKept DEF EventsRead
    <3>5. {} \cup {r.event : r \in SelectedRows("proc")} = EventsRead'
      BY <3>4
    <3> QED BY <3>1, <3>3, <3>5
  <2> QED BY <2>5, <2>6
<1>8. ASSUME reading = 1
      PROVE  TablesRead' /\ Lists(eventCodes', EventsRead')
  <2>1. t = "mov" /\ reading' = 2
    BY <1>1, <1>2, <1>8, FourTables
  <2>2. Lists(rows, SelectedRows("mov"))
    BY <1>2, <1>6, <2>1, SelectedFinite
  <2>3. Lists(ReadRows("mov")', SelectedRows("mov")')
    BY <1>1, <1>4, <2>1, <2>2, SageKept
  <2>4. Lists(ReadRows("proc")', SelectedRows("proc")')
    <3>1. ReadRows("proc")' = ReadRows("proc")
      BY <1>5, <2>1 DEF TableNames
    <3> QED BY <1>1, <1>6, <1>8, <3>1, SageKept DEF TablesRead
  <2>5. batches'["base"] = <<>> /\ batches'["definitions"] = <<>>
    BY <1>3, <1>6, <1>8, <2>1 DEF TablesRead, TableNames
  <2>6. TablesRead'
    BY <2>1, <2>3, <2>4, <2>5 DEF TablesRead
  <2>7. Lists(eventCodes', EventsRead')
    <3> DEFINE C == {r.event : r \in SelectedRows("proc")}
    <3>1. eventCodes' = MeetEvents(eventCodes, rows)
      BY <1>2, <2>1 DEF EventsMet
    <3>2. Lists(eventCodes, C)
      BY <1>6, <1>8 DEF EventsRead
    <3>3. Lists(MeetEvents(eventCodes, rows), C \cup {r.event : r \in SelectedRows("mov")})
      <4> HIDE DEF C
      <4> QED BY <2>2, <3>2, EventsAreMet
    <3>4. EventsRead' = SelectedEvents
      BY <1>1, <2>1, SageKept DEF EventsRead
    <3>5. C \cup {r.event : r \in SelectedRows("mov")} = SelectedEvents
      BY DEF SelectedEvents
    <3> HIDE DEF C
    <3> QED BY <3>1, <3>3, <3>4, <3>5
  <2> QED BY <2>6, <2>7
<1>9. ASSUME reading = 2
      PROVE  TablesRead' /\ Lists(eventCodes', EventsRead')
  <2>1. t = "base" /\ reading' = 3
    BY <1>1, <1>2, <1>9, FourTables
  <2>2. Lists(rows, SelectedRows("base"))
    BY <1>2, <1>6, <2>1, SelectedFinite
  <2>3. Lists(ReadRows("base")', SelectedRows("base")')
    BY <1>1, <1>4, <2>1, <2>2, SageKept
  <2>4. /\ Lists(ReadRows("proc")', SelectedRows("proc")')
        /\ Lists(ReadRows("mov")', SelectedRows("mov")')
    <3>1. ReadRows("proc")' = ReadRows("proc") /\ ReadRows("mov")' = ReadRows("mov")
      BY <1>5, <2>1 DEF TableNames
    <3> QED BY <1>1, <1>6, <1>9, <3>1, SageKept DEF TablesRead
  <2>5. batches'["definitions"] = <<>>
    BY <1>3, <1>6, <1>9, <2>1 DEF TablesRead, TableNames
  <2>6. TablesRead'
    BY <2>1, <2>3, <2>4, <2>5 DEF TablesRead
  <2>7. Lists(eventCodes', EventsRead')
    <3>1. eventCodes' = eventCodes
      BY <1>2, <2>1 DEF EventsMet
    <3>2. EventsRead' = EventsRead
      BY <1>1, <1>9, <2>1, SageKept DEF EventsRead
    <3> QED BY <1>6, <3>1, <3>2
  <2> QED BY <2>6, <2>7
<1>10. ASSUME reading = 3
       PROVE  TablesRead' /\ Lists(eventCodes', EventsRead')
  <2> DEFINE asked == ToSet(SubSeq(eventCodes, 1, Min({MaxEventCodes, Len(eventCodes)})))
  <2>1. t = "definitions" /\ reading' = 4
    BY <1>1, <1>2, <1>10, FourTables
  <2>2. Lists(eventCodes, SelectedEvents)
    BY <1>6, <1>10 DEF EventsRead
  <2>3. Asked(asked)
    BY <2>2, AllAsked
  <2>4. Lists(rows, {d \in sage.definitions : d.event \in asked})
    BY <1>2, <2>1 DEF Selected
  <2>5. PICK set : set = asked
    OBVIOUS
  <2> HIDE DEF asked
  <2>6. DefinitionsRead(set)'
    <3>1. Asked(set)'
      BY <1>1, <2>3, <2>5, SageKept
    <3>2. Lists(ReadRows("definitions")', {d \in sage.definitions : d.event \in set})
      BY <1>4, <2>1, <2>4, <2>5
    <3> QED BY <1>1, <3>1, <3>2 DEF DefinitionsRead
  <2>7. /\ Lists(ReadRows("proc")', SelectedRows("proc")')
        /\ Lists(ReadRows("mov")', SelectedRows("mov")')
        /\ Lists(ReadRows("base")', SelectedRows("base")')
    <3>1. /\ ReadRows("proc")' = ReadRows("proc") /\ ReadRows("mov")' = ReadRows("mov")
          /\ ReadRows("base")' = ReadRows("base")
      BY <1>5, <2>1 DEF TableNames
    <3> QED BY <1>1, <1>6, <1>10, <3>1, SageKept DEF TablesRead
  <2>8. TablesRead'
    BY <2>1, <2>6, <2>7 DEF TablesRead
  <2>9. Lists(eventCodes', EventsRead')
    <3>1. eventCodes' = eventCodes
      BY <1>2, <2>1 DEF EventsMet
    <3>2. EventsRead' = EventsRead
      BY <1>1, <1>10, <2>1, SageKept DEF EventsRead
    <3> QED BY <1>6, <3>1, <3>2
  <2> QED BY <2>8, <2>9
<1>11. TablesRead' /\ Lists(eventCodes', EventsRead')
  BY <1>1, <1>7, <1>8, <1>9, <1>10
<1>12. Rendered'
  <2>1. Rendered
    BY DEF CollectionInv
  <2> QED BY <1>1, <2>1, SageKept DEF Rendered
<1>13. reading' \in 0 .. 4
  BY <1>1
<1> QED BY <1>1, <1>3, <1>11, <1>12, <1>13 DEF CollectionInv

\* The tables of a job are gone, and another may be read.
LEMMA StartsOver ==
  ASSUME CollectionInv, sage' = sage, reading > 0,
         reading' = 0, eventCodes' = <<>>, batches' = NoBatches,
         collections' = collections - 1, Rendered'
  PROVE  CollectionInv'
<1>1. batches' = [t \in TableNames |-> <<>>]
  BY FourTables DEF NoBatches
<1>2. batches' = [t \in TableNames |-> batches'[t]] /\ \A t \in TableNames : batches'[t] = <<>>
  BY <1>1
<1>3. TablesRead'
  BY <1>2 DEF TablesRead, TableNames
<1>4. Lists(eventCodes, EventsRead)'
  BY NothingListed DEF EventsRead
<1>5. collections' \in 0 .. MaxCollections
  BY SageCollectionAssumption DEF CollectionInv
<1>6. sage' \in Contents
  BY DEF CollectionInv
<1> QED BY <1>2, <1>3, <1>4, <1>5, <1>6 DEF CollectionInv

LEMMA NormalizeKeeps ==
  ASSUME CollectionInv, Normalize
  PROVE  CollectionInv'
<1>1. /\ reading = 4 /\ sage' = sage
      /\ renders' = renders \cup {NormalizePayrollBatches(NormalizedInput)}
      /\ reading' = 0 /\ eventCodes' = <<>> /\ batches' = NoBatches
      /\ collections' = collections - 1
  BY FourTables DEF Normalize
<1>2. PICK tables : tables = NormalizedInput
  OBVIOUS
<1>3. DOMAIN batches = TableNames
  <2>1. batches = [t \in TableNames |-> batches[t]]
    BY DEF CollectionInv
  <2> QED BY <2>1
<1>4. /\ tables.proc = ReadRows("proc") /\ tables.mov = ReadRows("mov")
      /\ tables.base = ReadRows("base") /\ tables.definitions = ReadRows("definitions")
  BY <1>2, <1>3 DEF NormalizedInput, ReadRows, TableNames
<1>5. TablesRead
  BY DEF CollectionInv
<1>6. PICK asked : DefinitionsRead(asked)
  BY <1>1, <1>5 DEF TablesRead
<1>7. Collected(tables, asked)
  BY <1>1, <1>4, <1>5, <1>6 DEF TablesRead, DefinitionsRead, Collected
<1>8. Rendered'
  <2>1. ASSUME NEW payslips \in renders'
        PROVE  \E held, wanted :
                 Collected(held, wanted)' /\ payslips = NormalizePayrollBatches(held)
    <3>1. CASE payslips \in renders
      <4>1. PICK held, wanted :
              Collected(held, wanted) /\ payslips = NormalizePayrollBatches(held)
        BY <3>1 DEF CollectionInv, Rendered
      <4> QED BY <1>1, <4>1, SageKept
    <3>2. CASE payslips = NormalizePayrollBatches(NormalizedInput)
      <4>1. payslips = NormalizePayrollBatches(tables)
        BY <1>2, <3>2
      <4> QED BY <1>1, <1>7, <4>1, SageKept
    <3> QED BY <1>1, <3>1, <3>2
  <2> QED BY <2>1 DEF Rendered
<1> QED BY <1>1, <1>8, StartsOver

LEMMA CollectionFailsKeeps ==
  ASSUME CollectionInv, CollectionFails
  PROVE  CollectionInv'
<1>1. /\ reading > 0 /\ sage' = sage /\ renders' = renders
      /\ reading' = 0 /\ eventCodes' = <<>> /\ batches' = NoBatches
      /\ collections' = collections - 1
  <2>1. 0 < reading /\ reading \in 0 .. 4
    BY DEF CollectionFails, CollectionInv
  <2> QED BY <2>1 DEF CollectionFails
<1>2. Rendered'
  <2>1. Rendered
    BY DEF CollectionInv
  <2> QED BY <1>1, <2>1, SageKept DEF Rendered
<1> QED BY <1>1, <1>2, StartsOver

LEMMA CollectionStutters ==
  ASSUME CollectionInv, UNCHANGED collectionVars
  PROVE  CollectionInv'
<1>1. /\ sage' = sage /\ renders' = renders /\ reading' = reading /\ batches' = batches
      /\ eventCodes' = eventCodes /\ collections' = collections
  BY DEF collectionVars
<1>2. Rendered'
  <2>1. Rendered
    BY DEF CollectionInv
  <2> QED BY <1>1, <2>1, SageKept DEF Rendered
<1>3. TablesRead'
  <2>1. TablesRead
    BY DEF CollectionInv
  <2>2. \A t : ReadRows(t)' = ReadRows(t)
    BY <1>1 DEF ReadRows
  <2>3. \A asked : DefinitionsRead(asked) => DefinitionsRead(asked)'
    BY <1>1, <2>2, SageKept DEF DefinitionsRead
  <2>4. (\E asked : DefinitionsRead(asked)) => \E asked : DefinitionsRead(asked)'
    BY <2>3
  <2> QED BY <1>1, <2>1, <2>2, <2>4, SageKept DEF TablesRead
<1>4. Lists(eventCodes, EventsRead)'
  <2>1. EventsRead' = EventsRead
    BY <1>1, SageKept DEF EventsRead
  <2> QED BY <1>1, <2>1 DEF CollectionInv
<1> QED BY <1>1, <1>2, <1>3, <1>4 DEF CollectionInv

\* The invariant of the collection: every table that has been read is stored
\* with the rows that were selected, each once, and every set of payslips was
\* made of such tables.
THEOREM CollectionInvariant == CollectionSpec => []CollectionInv
<1>1. CollectionInit => CollectionInv
  BY CollectionInitially
<1>2. CollectionInv /\ [CollectionNext]_collectionVars => CollectionInv'
  <2> SUFFICES ASSUME CollectionInv, [CollectionNext]_collectionVars
               PROVE  CollectionInv'
    OBVIOUS
  <2>1. CASE ReadTable
    BY <2>1, ReadTableKeeps
  <2>2. CASE CollectionFails
    BY <2>2, CollectionFailsKeeps
  <2>3. CASE Normalize
    BY <2>3, NormalizeKeeps
  <2>4. CASE UNCHANGED collectionVars
    BY <2>4, CollectionStutters
  <2> QED BY <2>1, <2>2, <2>3, <2>4 DEF CollectionNext, AllCollected
<1> QED BY <1>1, <1>2, PTL DEF CollectionSpec

\* The payslips of a collection are those of Sage, for every payroll, in
\* whatever order Sage returns the rows and however they are cut into batches.
THEOREM PayslipsAlwaysOfSage == CollectionSpec => []PayslipsOfSage
<1>1. CollectionInv => PayslipsOfSage
  BY RenderedOfSage DEF CollectionInv
<1> QED BY <1>1, CollectionInvariant, PTL

\* Two collections of a payroll print the same payslips, so that the second
\* finds the render unchanged.
THEOREM RenderAlwaysStable == CollectionSpec => []RenderStable
<1>1. CollectionInv => RenderStable
  BY RenderedStable DEF CollectionInv
<1> QED BY <1>1, CollectionInvariant, PTL

LEMMA CollectionTyped == CollectionInv => CollectionTypeOK
<1> SUFFICES ASSUME CollectionInv PROVE CollectionTypeOK
  OBVIOUS
<1>1. /\ sage \in Contents /\ reading \in 0 .. 4 /\ TablesRead
      /\ Lists(eventCodes, EventsRead) /\ collections \in 0 .. MaxCollections /\ Rendered
      /\ DOMAIN batches = TableNames
  <2>1. batches = [t \in TableNames |-> batches[t]]
    BY DEF CollectionInv
  <2> QED BY <2>1 DEF CollectionInv
<1>2. reading \in 0 .. Len(PayrollTables)
  BY <1>1, FourTables
<1>3. ToSet(eventCodes) \subseteq {r.event : r \in sage.proc \cup sage.mov}
  <2>1. ToSet(eventCodes) = EventsRead
    BY <1>1 DEF Lists
  <2>2. SelectedRows("proc") \subseteq sage.proc /\ SelectedRows("mov") \subseteq sage.mov
    BY DEF SelectedRows
  <2> QED BY <2>1, <2>2 DEF EventsRead, SelectedEvents
<1>4. ASSUME NEW t \in DOMAIN batches
      PROVE  ToSet(FlattenSeq(batches[t])) \subseteq sage[t]
  <2>1. CASE batches[t] = <<>>
    <3>1. ToSet(FlattenSeq(batches[t])) = {}
      BY <2>1, NothingListed DEF Lists
    <3> QED BY <3>1
  <2>2. CASE batches[t] # <<>> /\ t # "definitions"
    <3>1. Lists(ReadRows(t), SelectedRows(t))
      BY <1>1, <1>4, <2>2 DEF TablesRead, TableNames
    <3> QED BY <3>1 DEF Lists, ReadRows, SelectedRows
  <2>3. CASE batches[t] # <<>> /\ t = "definitions"
    <3>1. PICK asked : DefinitionsRead(asked)
      BY <1>1, <2>3 DEF TablesRead
    <3> QED BY <2>3, <3>1 DEF DefinitionsRead, Lists, ReadRows
  <2> QED BY <2>1, <2>2, <2>3
<1>5. ASSUME NEW payslips \in renders, NEW p \in payslips
      PROVE  p.key.employee \in Targets
  <2>1. PICK tables, asked :
          Collected(tables, asked) /\ payslips = NormalizePayrollBatches(tables)
    BY <1>1 DEF Rendered
  <2>2. PICK r \in Calculated : p = Payslip(tables, r.key)
    BY <2>1, KeysOfSage
  <2>3. p.key = r.key
    BY <2>2 DEF Payslip
  <2> QED BY <1>1, <2>3, CalculatedRows
<1> QED BY <1>1, <1>2, <1>3, <1>4, <1>5 DEF CollectionTypeOK

\* What has been read is in Sage, and the payslips are of the targets.
THEOREM CollectionAlwaysTyped == CollectionSpec => []CollectionTypeOK
BY CollectionInvariant, CollectionTyped, PTL

-----------------------------------------------------------------------------
(***************************************************************************)
(* Archiving.                                                              *)
(***************************************************************************)

\* As long as no calls have met, one call at most is at work.
OneAtWork ==
  \A a, o \in Archivers :
    archiver[a].at # "idle" /\ archiver[o].at # "idle" => a = o

\* The rows it has before it still have their payloads, so that it finds none
\* gone, and the first of them is whole when its row is about to be updated.
RowsBeforeIt ==
  \A a \in Archivers :
    /\ archiver[a].todo \subseteq rawPayload
    /\ archiver[a].at # "remove"
    /\ \A b \in RawBatches :
         b \in archiver[a].todo /\ Archiving(a, "update", b)
           => batchFile[b] = "whole"

ArchiveInv == ~callsMet => OneAtWork /\ RowsBeforeIt /\ BatchesReadable

-----------------------------------------------------------------------------
\* A call goes from place to place, with the same rows before it.
LEMMA ArchiverMoved ==
  ASSUME ArchiveTypeOK, NEW a \in Archivers, archiver[a].at # "idle",
         NEW place \in {"open", "write", "update", "remove"}, ArchiverAt(a, place)
  PROVE  /\ archiver' \in [Archivers ->
              [at : {"idle", "open", "write", "update", "remove"},
               todo : SUBSET RawBatches]]
         /\ archiver'[a].at = place /\ archiver'[a].todo = archiver[a].todo
         /\ \A o \in Archivers : o # a => archiver'[o] = archiver[o]
         /\ \A o \in Archivers : archiver'[o].at = "idle" <=> archiver'[o].todo = {}
BY DEF ArchiveTypeOK, ArchiverAt

\* A call is done with a row, and has the rest before it.
LEMMA ArchiverWentOn ==
  ASSUME ArchiveTypeOK, NEW a \in Archivers, NEW b \in archiver[a].todo,
         NextBatch(a, b)
  PROVE  /\ archiver' \in [Archivers ->
              [at : {"idle", "open", "write", "update", "remove"},
               todo : SUBSET RawBatches]]
         /\ archiver'[a].at \in {"idle", "open"}
         /\ archiver'[a].todo = archiver[a].todo \ {b}
         /\ \A o \in Archivers : o # a => archiver'[o] = archiver[o]
         /\ \A o \in Archivers : archiver'[o].at = "idle" <=> archiver'[o].todo = {}
<1>1. CASE archiver[a].todo = {b}
  BY <1>1 DEF ArchiveTypeOK, NextBatch, NotArchiving
<1>2. CASE archiver[a].todo # {b}
  BY <1>2 DEF ArchiveTypeOK, NextBatch
<1>3. QED
  BY <1>1, <1>2

\* Rows and files stay what they are, and a call that is at work has rows.
THEOREM ArchiveTypeCorrect == ArchiveSpec => []ArchiveTypeOK
<1>1. ArchiveInit => ArchiveTypeOK
  <2> SUFFICES ASSUME ArchiveInit PROVE ArchiveTypeOK
    OBVIOUS
  <2>1. archiveStops \in 0 .. MaxArchiveStops
    BY ArchiveAssumption DEF ArchiveInit
  <2>2. \A a \in Archivers : archiver[a].at = "idle" /\ archiver[a].todo = {}
    BY DEF ArchiveInit, NotArchiving
  <2>3. NotArchiving \in [at : {"idle", "open", "write", "update", "remove"},
                         todo : SUBSET RawBatches]
    BY DEF NotArchiving
  <2>4. QED
    BY <2>1, <2>2, <2>3 DEF ArchiveInit, ArchiveTypeOK
<1>2. ArchiveTypeOK /\ [ArchiveNext]_archiveVars => ArchiveTypeOK'
  <2> SUFFICES ASSUME ArchiveTypeOK, [ArchiveNext]_archiveVars
               PROVE  ArchiveTypeOK'
    OBVIOUS
  <2>1. ASSUME NEW a \in Archivers, SelectPayloads(a) PROVE ArchiveTypeOK'
    BY <2>1 DEF SelectPayloads, HasPayloads, ArchiveTypeOK
  <2>2. ASSUME NEW a \in Archivers, ArchiverStops(a) PROVE ArchiveTypeOK'
    BY <2>2, ArchiveAssumption DEF ArchiverStops, NotArchiving, ArchiveTypeOK
  <2>3. ASSUME NEW a \in Archivers, NEW b \in archiver[a].todo, OpenFile(a, b)
        PROVE  ArchiveTypeOK'
    BY <2>3, ArchiverMoved DEF OpenFile, Archiving, ArchiveTypeOK
  <2>4. ASSUME NEW a \in Archivers, NEW b \in archiver[a].todo, FinishFile(a, b)
        PROVE  ArchiveTypeOK'
    BY <2>4, ArchiverMoved DEF FinishFile, Archiving, ArchiveTypeOK
  <2>5. ASSUME NEW a \in Archivers, NEW b \in archiver[a].todo, FreePayload(a, b)
        PROVE  ArchiveTypeOK'
    BY <2>5, ArchiverMoved, ArchiverWentOn DEF FreePayload, Archiving, ArchiveTypeOK
  <2>6. ASSUME NEW a \in Archivers, NEW b \in archiver[a].todo, RemoveFile(a, b)
        PROVE  ArchiveTypeOK'
    BY <2>6, ArchiverWentOn DEF RemoveFile, ArchiveTypeOK
  <2>7. CASE UNCHANGED archiveVars
    BY <2>7 DEF archiveVars, ArchiveTypeOK
  <2>8. QED
    BY <2>1, <2>2, <2>3, <2>4, <2>5, <2>6, <2>7 DEF ArchiveNext
<1>3. QED
  BY <1>1, <1>2, PTL DEF ArchiveSpec

(***************************************************************************)
(* No batch is lost as long as no two calls have overlapped.  A call that  *)
(* is alone touches only files of rows that still have their payloads, and *)
(* frees a payload only over the file that it has just finished itself.    *)
(***************************************************************************)
THEOREM ArchivingAloneLosesNothing == ArchiveSpec => []BatchesReadable
<1>1. ArchiveInit => ArchiveInv
  BY DEF ArchiveInit, ArchiveInv, OneAtWork, RowsBeforeIt, BatchesReadable,
         Readable, Archiving, NotArchiving
<1>2. ASSUME ArchiveTypeOK, ArchiveTypeOK', ArchiveInv, [ArchiveNext]_archiveVars
      PROVE  ArchiveInv'
  <2> SUFFICES ASSUME ~callsMet'
               PROVE  OneAtWork' /\ RowsBeforeIt' /\ BatchesReadable'
    BY DEF ArchiveInv
  <2> USE <1>2
  <2>1. CASE UNCHANGED archiveVars
    BY <2>1 DEF archiveVars, ArchiveInv, OneAtWork, RowsBeforeIt, BatchesReadable,
                Readable, Archiving
  <2>2. ASSUME NEW a \in Archivers, SelectPayloads(a)
        PROVE  OneAtWork' /\ RowsBeforeIt' /\ BatchesReadable'
    <3>1. ~callsMet /\ \A o \in Archivers : archiver[o].at = "idle"
      BY <2>2 DEF SelectPayloads
    <3>2. \A o \in Archivers : o # a => archiver'[o] = archiver[o]
      BY <2>2 DEF SelectPayloads, ArchiveTypeOK
    <3>3. archiver'[a].at = "open" /\ archiver'[a].todo = rawPayload
      BY <2>2 DEF SelectPayloads, ArchiveTypeOK
    <3>4. OneAtWork'
      BY <3>1, <3>2 DEF OneAtWork
    <3>5. RowsBeforeIt'
      BY <2>2, <3>1, <3>2, <3>3
      DEF SelectPayloads, RowsBeforeIt, Archiving, ArchiveInv, ArchiveTypeOK
    <3>6. QED
      BY <2>2, <3>1, <3>4, <3>5
      DEF SelectPayloads, ArchiveInv, BatchesReadable, Readable
  <2>3. ASSUME NEW a \in Archivers, ArchiverStops(a)
        PROVE  OneAtWork' /\ RowsBeforeIt' /\ BatchesReadable'
    <3>1. archiver'[a] = NotArchiving
          /\ \A o \in Archivers : o # a => archiver'[o] = archiver[o]
      BY <2>3 DEF ArchiverStops, ArchiveTypeOK
    <3>2. QED
      BY <2>3, <3>1
      DEF ArchiverStops, NotArchiving, ArchiveInv, OneAtWork, RowsBeforeIt,
          Archiving, BatchesReadable, Readable
  <2>4. ASSUME NEW a \in Archivers, NEW b \in archiver[a].todo,
               OpenFile(a, b) \/ FinishFile(a, b)
        PROVE  OneAtWork' /\ RowsBeforeIt' /\ BatchesReadable'
    <3>1. /\ ~callsMet /\ rawPayload' = rawPayload /\ archived' = archived
          /\ archiver[a].at \in {"open", "write"}
          /\ \A c \in archiver[a].todo : b <= c
      BY <2>4 DEF OpenFile, FinishFile, Archiving
    <3>2. /\ archiver'[a].at \in {"write", "update"}
          /\ archiver'[a].todo = archiver[a].todo
          /\ \A o \in Archivers : o # a => archiver'[o] = archiver[o]
          /\ archiver'[a].at = "update" => batchFile'[b] = "whole"
          /\ \A c \in RawBatches : c # b => batchFile'[c] = batchFile[c]
      BY <2>4, ArchiverMoved DEF OpenFile, FinishFile, Archiving, ArchiveTypeOK
    <3>3. b \in rawPayload /\ b \in RawBatches
      BY <3>1 DEF ArchiveInv, RowsBeforeIt, ArchiveTypeOK
    <3>4. OneAtWork' /\ BatchesReadable'
      BY <3>1, <3>2, <3>3 DEF ArchiveInv, OneAtWork, BatchesReadable, Readable
    <3>5. \A o \in Archivers : o # a => archiver[o].todo = {}
      BY <3>1 DEF ArchiveInv, OneAtWork, ArchiveTypeOK
    <3>6. \A c \in RawBatches :
            c \in archiver[a].todo /\ (\A later \in archiver[a].todo : c <= later)
              => c = b
      BY <3>1, <3>3, ArchiveAssumption DEF RawBatches
    <3>7. RowsBeforeIt'
      BY <3>1, <3>2, <3>5, <3>6 DEF ArchiveInv, RowsBeforeIt, Archiving
    <3>8. QED
      BY <3>4, <3>7
  <2>5. ASSUME NEW a \in Archivers, NEW b \in archiver[a].todo, FreePayload(a, b)
        PROVE  OneAtWork' /\ RowsBeforeIt' /\ BatchesReadable'
    <3>1. /\ ~callsMet /\ archiver[a].at = "update" /\ batchFile' = batchFile
          /\ b \in rawPayload /\ b \in RawBatches /\ batchFile[b] = "whole"
      BY <2>5 DEF FreePayload, Archiving, ArchiveInv, RowsBeforeIt, ArchiveTypeOK
    <3>2. /\ rawPayload' = rawPayload \ {b} /\ archived' = archived \cup {b}
          /\ NextBatch(a, b)
      BY <2>5, <3>1 DEF FreePayload
    <3>3. /\ archiver'[a].at \in {"idle", "open"}
          /\ archiver'[a].todo = archiver[a].todo \ {b}
          /\ \A o \in Archivers : o # a => archiver'[o] = archiver[o]
      BY <3>2, ArchiverWentOn
    <3>4. \A o \in Archivers : o # a => archiver[o].todo = {} /\ archiver[o].at = "idle"
      BY <3>1 DEF ArchiveInv, OneAtWork, ArchiveTypeOK
    <3>5. OneAtWork' /\ BatchesReadable'
      BY <3>1, <3>2, <3>3, <3>4
      DEF ArchiveInv, OneAtWork, BatchesReadable, Readable
    <3>6. RowsBeforeIt'
      BY <3>1, <3>2, <3>3, <3>4 DEF ArchiveInv, RowsBeforeIt, Archiving
    <3>7. QED
      BY <3>5, <3>6
  <2>6. ASSUME NEW a \in Archivers, NEW b \in archiver[a].todo, RemoveFile(a, b)
        PROVE  FALSE
    BY <2>6 DEF RemoveFile, Archiving, ArchiveInv, RowsBeforeIt
  <2>7. QED
    BY <2>1, <2>2, <2>3, <2>4, <2>5, <2>6 DEF ArchiveNext
<1>3. ArchiveInv => BatchesReadable
  BY DEF ArchiveInv, BatchesReadable
<1>4. QED
  BY ArchiveTypeCorrect, <1>1, <1>2, <1>3, PTL DEF ArchiveSpec
=============================================================================
