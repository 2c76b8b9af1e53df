---------------------------- MODULE SortedSetsProofs ----------------------------
(***************************************************************************)
(* Least numbers and ascending orders of finite sets of naturals, for the     *)
(* proofs about reorder buffers.                                             *)
(***************************************************************************)
EXTENDS SortedSets, Sequences, FiniteSetsExt, FiniteSetTheorems, WellFoundedInduction, TLAPS

\* A set of naturals has a least member (Min of FiniteSetsExt).
LEMMA MinFacts ==
    ASSUME NEW S \in SUBSET Nat, S # {}
    PROVE  Min(S) \in S /\ \A n \in S : Min(S) <= n
<1>1. PICK x \in S : \A y \in S : ~(<<y, x>> \in OpToRel(<, Nat))
    BY NatLessThanWellFounded, WFMin
<1>2. ASSUME NEW y \in S PROVE x <= y
  <2>1. x \in Nat /\ y \in Nat
      OBVIOUS
  <2>2. ASSUME y < x PROVE <<y, x>> \in OpToRel(<, Nat)
    <3> DEFINE p == <<y, x>>
    <3>1. p \in Nat \X Nat /\ p[1] < p[2]
        BY <2>1, <2>2
    <3> HIDE DEF p
    <3>2. p \in OpToRel(<, Nat)
        BY <3>1 DEF OpToRel
    <3> QED  BY <3>2 DEF p
  <2>3. ~(<<y, x>> \in OpToRel(<, Nat))
      BY <1>1
  <2>4. ~(y < x)
      BY <2>2, <2>3
  <2> QED  BY <2>1, <2>4
<1> QED  BY <1>2 DEF Min

LEMMA MaxOfTwo ==
    ASSUME NEW a \in Int, NEW b \in Int
    PROVE  Max({a, b}) = IF a >= b THEN a ELSE b
BY DEF Max

--------------------------------------------------------------------------------

\* How many members of S are less than n.
Below(S, n) == Cardinality({m \in S : m < n})

LEMMA BelowFacts ==
    ASSUME NEW S \in SUBSET Nat, IsFiniteSet(S)
    PROVE  /\ Cardinality(S) \in Nat
           /\ \A n \in S : Below(S, n) \in 0..Cardinality(S) - 1
           /\ \A m, n \in S : m < n => Below(S, m) < Below(S, n)
<1>1. Cardinality(S) \in Nat
    BY FS_CardinalityType
<1>2. ASSUME NEW n \in S PROVE Below(S, n) \in 0..Cardinality(S) - 1
  <2> DEFINE T == {m \in S : m < n}
  <2>1. T \in SUBSET S /\ n \notin T /\ T # S
      OBVIOUS
  <2>2. IsFiniteSet(T) /\ Cardinality(T) <= Cardinality(S) /\ Cardinality(S) # Cardinality(T)
      BY <2>1, FS_Subset
  <2>3. Cardinality(T) \in Nat
      BY <2>2, FS_CardinalityType
  <2> QED  BY <1>1, <2>2, <2>3 DEF Below
<1>3. ASSUME NEW m \in S, NEW n \in S, m < n PROVE Below(S, m) < Below(S, n)
  <2> DEFINE T == {x \in S : x < m}
             U == {x \in S : x < n}
  <2>1. T \in SUBSET U /\ m \in U /\ m \notin T
    <3>1. \A x \in S : x \in Nat
        OBVIOUS
    <3>2. \A x \in S : x < m => x < n
        BY <1>3, <3>1
    <3>3. ~(m < m)
        BY <3>1
    <3> QED  BY <1>3, <3>2, <3>3
  <2>2. U \in SUBSET S
      OBVIOUS
  <2>3. IsFiniteSet(U)
      BY <2>2, FS_Subset
  <2>4. IsFiniteSet(T) /\ Cardinality(T) <= Cardinality(U) /\ Cardinality(U) # Cardinality(T)
      BY <2>1, <2>3, FS_Subset
  <2>5. Cardinality(T) \in Nat /\ Cardinality(U) \in Nat
      BY <2>3, <2>4, FS_CardinalityType
  <2> QED  BY <2>4, <2>5 DEF Below
<1> QED  BY <1>1, <1>2, <1>3

\* Every place in the order is taken.
LEMMA BelowOnto ==
    ASSUME NEW S \in SUBSET Nat, IsFiniteSet(S), NEW i \in 1..Cardinality(S)
    PROVE  \E n \in S : Below(S, n) = i - 1
<1> DEFINE c == Cardinality(S)
           f == [n \in S |-> Below(S, n) + 1]
<1>1. c \in Nat
    BY BelowFacts
<1>2. IsFiniteSet(1..c) /\ Cardinality(1..c) = c
    BY <1>1, FS_Interval
<1>3. f \in Injection(S, 1..c)
  <2>1. \A n \in S : f[n] = Below(S, n) + 1 /\ f[n] \in 1..c
      BY <1>1, BelowFacts
  <2>2. \A m, n \in S : f[m] = f[n] => m = n
    <3> SUFFICES ASSUME NEW m \in S, NEW n \in S, f[m] = f[n] PROVE m = n
        OBVIOUS
    <3>1. Below(S, m) = Below(S, n) /\ Below(S, m) \in Nat
        BY <2>1, BelowFacts
    <3>2. ~(m < n) /\ ~(n < m)
        BY <3>1, BelowFacts
    <3> QED  BY <3>2
  <2> QED  BY <2>1, <2>2 DEF Injection, IsInjective
<1>4. f \in Surjection(S, 1..c)
    BY <1>2, <1>3, FS_Injection
<1>5. PICK n \in S : f[n] = i
    BY <1>4 DEF Surjection
<1> QED  BY <1>5, BelowFacts

\* Sorted(S) lists S and nothing else, in ascending order.
LEMMA SortedFacts ==
    ASSUME NEW S \in SUBSET Nat, IsFiniteSet(S)
    PROVE  /\ Sorted(S) \in Seq(S) /\ Len(Sorted(S)) = Cardinality(S)
           /\ {Sorted(S)[i] : i \in 1..Len(Sorted(S))} = S
           /\ \A i, j \in 1..Len(Sorted(S)) : i < j => Sorted(S)[i] < Sorted(S)[j]
<1> DEFINE c == Cardinality(S)
           q == Sorted(S)
<1>1. c \in Nat /\ \A n \in S : n \in Nat
    BY BelowFacts
<1>2. q = [i \in 1..c |-> CHOOSE n \in S : Below(S, n) = i - 1]
    BY DEF Sorted, Below
<1>3. \A i \in 1..c : q[i] \in S /\ Below(S, q[i]) = i - 1
    BY <1>2, BelowOnto
<1>4. q \in Seq(S) /\ Len(q) = c
    BY <1>1, <1>2, <1>3
<1> HIDE DEF c, q
<1>5. ASSUME NEW n \in S PROVE \E i \in 1..c : q[i] = n
  <2>1. Below(S, n) \in 0..c - 1
      BY BelowFacts DEF c
  <2>2. Below(S, n) + 1 \in 1..c /\ (Below(S, n) + 1) - 1 = Below(S, n)
      BY <1>1, <2>1
  <2>3. q[Below(S, n) + 1] \in S /\ Below(S, q[Below(S, n) + 1]) = Below(S, n)
      BY <1>3, <2>2
  <2>4. ~(q[Below(S, n) + 1] < n) /\ ~(n < q[Below(S, n) + 1])
    <3> DEFINE m == q[Below(S, n) + 1]
    <3>1. m \in S /\ Below(S, m) = Below(S, n) /\ Below(S, n) \in Nat
        BY <2>1, <2>3, <1>1
    <3> HIDE DEF m
    <3>2. ~(m < n) /\ ~(n < m)
        BY <3>1, BelowFacts
    <3> QED  BY <3>2 DEF m
  <2>5. q[Below(S, n) + 1] = n
    <3>1. \A a, b \in Nat : ~(a < b) /\ ~(b < a) => a = b
        OBVIOUS
    <3>2. q[Below(S, n) + 1] \in Nat /\ n \in Nat
        BY <1>1, <2>3
    <3> QED  BY <2>4, <3>1, <3>2
  <2> QED  BY <2>2, <2>5
<1>6. ASSUME NEW i \in 1..c, NEW j \in 1..c, i < j PROVE q[i] < q[j]
  <2>1. /\ q[i] \in S /\ Below(S, q[i]) = i - 1
        /\ q[j] \in S /\ Below(S, q[j]) = j - 1
      BY <1>3
  <2>2. q[j] < q[i] => j - 1 < i - 1
      BY <2>1, BelowFacts
  <2>3. q[i] = q[j] => i - 1 = j - 1
      BY <2>1
  <2>4. ~(j - 1 < i - 1) /\ ~(i - 1 = j - 1)
      BY <1>1, <1>6
  <2>5. \A a, b \in Nat : ~(b < a) /\ a # b => a < b
      OBVIOUS
  <2>6. q[i] \in Nat /\ q[j] \in Nat
      BY <1>1, <2>1
  <2> QED  BY <2>2, <2>3, <2>4, <2>5, <2>6
<1>7. {q[i] : i \in 1..Len(q)} = S
    BY <1>3, <1>4, <1>5
<1> QED  BY <1>4, <1>6, <1>7 DEF c, q

LEMMA SortedEmpty == Sorted({}) = << >>
<1>1. Cardinality({}) = 0
    BY FS_EmptySet
<1> QED  BY <1>1 DEF Sorted
================================================================================
