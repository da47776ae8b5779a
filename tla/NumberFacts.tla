----------------------------- MODULE NumberFacts -----------------------------
(***************************************************************************)
(* Facts about sets of natural numbers that proofs about several components*)
(* rest on: the least and the greatest element, and the k-th one.          *)
(***************************************************************************)
EXTENDS Integers, FiniteSetTheorems, WellFoundedInduction, TLAPS

(* Every set of naturals that is not empty has a least element.            *)
LEMMA LeastNat ==
  ASSUME NEW S \in SUBSET Nat, S # {}
  PROVE  \E x \in S : \A y \in S : x <= y
<1>0. \A y \in S : y \in Nat
  OBVIOUS
<1>1. PICK n \in S : TRUE
  OBVIOUS
<1> DEFINE below(x) == {y \in S : y < x}
           F == {below(x) : x \in {z \in S : z <= n}}
<1>2. IsWellFoundedOn(StrictSubsetOrdering(0..n), FiniteSubsetsOf(0..n))
  BY FS_StrictSubsetOrderingWellFounded
<1>3. F \subseteq FiniteSubsetsOf(0..n) /\ F # {}
  <2>1. IsFiniteSet(0..n)
    BY FS_Interval
  <2>2. \A x \in S : x <= n => below(x) \subseteq 0..n
    <3> SUFFICES ASSUME NEW x \in S, x <= n, NEW y \in S, y < x PROVE y \in 0..n
      OBVIOUS
    <3>1. x \in Nat /\ y \in Nat /\ n \in Nat
      BY <1>0
    <3> QED
      BY <3>1
  <2>3. FiniteSubsetsOf(0..n) = SUBSET (0..n)
    BY <2>1, FS_FiniteSubsetsOfFinite
  <2>4. F # {}
    <3>1. n \in Nat
      BY <1>0
    <3>2. n \in {z \in S : z <= n}
      BY <1>1, <3>1
    <3> QED
      BY <3>2
  <2> HIDE DEF below
  <2> QED
    BY <2>2, <2>3, <2>4
<1>4. PICK T \in F : \A U \in F : <<U, T>> \notin StrictSubsetOrdering(0..n)
  <2> HIDE DEF F
  <2> QED
    BY <1>2, <1>3, WFMin
<1>5. PICK x \in S : x <= n /\ T = below(x)
  OBVIOUS
<1>6. ASSUME NEW y \in S PROVE x <= y
  <2> SUFFICES ASSUME y < x PROVE FALSE
    OBVIOUS
  <2>0. x \in Nat /\ y \in Nat /\ n \in Nat
    BY <1>0
  <2>1. below(y) \in F
    BY <1>5, <2>0
  <2>2. below(y) \subseteq T
    <3> SUFFICES ASSUME NEW z \in S, z < y PROVE z < x
      BY <1>5
    <3>1. z \in Nat
      BY <1>0
    <3> QED
      BY <2>0, <3>1
  <2>3. y \in T /\ y \notin below(y)
    BY <1>5, <2>0
  <2>4. below(y) \in SUBSET (0..n) /\ T \in SUBSET (0..n)
    <3>1. F \subseteq SUBSET (0..n)
      BY <1>3 DEF FiniteSubsetsOf
    <3> HIDE DEF F
    <3> QED
      BY <2>1, <3>1
  <2> HIDE DEF F, below
  <2> QED
    BY <1>4, <2>1, <2>2, <2>3, <2>4 DEF StrictSubsetOrdering
<1> QED
  BY <1>6

(* A finite one also has a greatest.                                       *)
LEMMA GreatestNat ==
  ASSUME NEW S \in SUBSET Nat, S # {}, IsFiniteSet(S)
  PROVE  \E x \in S : \A y \in S : y <= x
<1> DEFINE above(x) == {y \in S : x < y}
           F == {above(x) : x \in S}
<1>1. IsWellFoundedOn(StrictSubsetOrdering(S), FiniteSubsetsOf(S))
  BY FS_StrictSubsetOrderingWellFounded
<1>2. F \subseteq SUBSET S /\ F # {}
  OBVIOUS
<1>3. PICK T \in F : \A U \in F : <<U, T>> \notin StrictSubsetOrdering(S)
  <2>1. F \subseteq FiniteSubsetsOf(S)
    BY <1>2, FS_FiniteSubsetsOfFinite
  <2> HIDE DEF F
  <2> QED
    BY <1>1, <1>2, <2>1, WFMin
<1>4. PICK x \in S : T = above(x)
  OBVIOUS
<1>5. ASSUME NEW y \in S PROVE y <= x
  <2> SUFFICES ASSUME x < y PROVE FALSE
    OBVIOUS
  <2>1. x \in Nat /\ y \in Nat
    OBVIOUS
  <2>2. above(y) \subseteq T
    <3> SUFFICES ASSUME NEW z \in S, y < z PROVE x < z
      BY <1>4
    <3>1. z \in Nat
      OBVIOUS
    <3> QED
      BY <2>1, <3>1
  <2>3. y \in T /\ y \notin above(y)
    BY <1>4, <2>1
  <2>4. above(y) \in F /\ T \in SUBSET S
    BY <1>2
  <2> HIDE DEF F, above
  <2> QED
    BY <1>2, <1>3, <2>2, <2>3, <2>4 DEF StrictSubsetOrdering
<1> QED
  BY <1>5

(* The elements up to a number are counted one by one, so every rank is    *)
(* that of an element.                                                     *)
LEMMA RankIsTaken ==
  ASSUME NEW n \in Nat, NEW S \in SUBSET (1..n), NEW k \in 1..Cardinality(S)
  PROVE  \E i \in S : Cardinality({j \in S : j <= i}) = k
<1> DEFINE upto(i) == {j \in S : j <= i}
           U == {i \in Nat : Cardinality(upto(i)) >= k}
<1>0. \A j \in S : j \in Nat /\ 1 <= j /\ j <= n
  OBVIOUS
<1>1. IsFiniteSet(S) /\ Cardinality(S) \in Nat /\ k \in Nat /\ 1 <= k /\ k <= Cardinality(S)
  <2>1. IsFiniteSet(1..n)
    BY FS_Interval
  <2>2. IsFiniteSet(S)
    BY <2>1, FS_Subset
  <2>3. Cardinality(S) \in Nat
    BY <2>2, FS_CardinalityType
  <2> QED
    BY <2>2, <2>3
<1>2. \A i \in Nat : IsFiniteSet(upto(i)) /\ Cardinality(upto(i)) \in Nat
  BY <1>1, FS_Subset, FS_CardinalityType
<1>3. n \in U
  <2>1. upto(n) = S
    BY <1>0
  <2> QED
    BY <2>1, <1>1
<1>4. PICK x \in U : \A y \in U : x <= y
  <2> HIDE DEF U
  <2>1. U \subseteq Nat
    BY DEF U
  <2> QED
    BY <1>3, <2>1, LeastNat
<1>5. x # 0
  <2>0. \A j \in S : ~(j <= 0)
    BY <1>0
  <2>1. upto(0) = {}
    BY <2>0
  <2>2. Cardinality(upto(0)) = 0
    BY <2>1, FS_EmptySet
  <2> QED
    BY <2>2, <1>1
<1>6. x - 1 \in Nat /\ Cardinality(upto(x - 1)) < k
  <2>1. x \in Nat /\ x - 1 \in Nat /\ ~(x <= x - 1)
    BY <1>5
  <2>2. x - 1 \notin U
    BY <1>4, <2>1
  <2>3. Cardinality(upto(x - 1)) \in Nat
    BY <1>2, <2>1
  <2> HIDE DEF upto
  <2> QED
    BY <1>1, <2>1, <2>2, <2>3
<1>7. upto(x) = IF x \in S THEN upto(x - 1) \cup {x} ELSE upto(x - 1)
  <2>1. x \in Nat
    BY <1>4
  <2>2. \A j \in S : j <= x <=> j = x \/ j <= x - 1
    BY <1>0, <2>1
  <2> QED
    BY <2>2
<1>8. x \in S /\ Cardinality(upto(x)) = k
  <2>1. Cardinality(upto(x)) >= k /\ Cardinality(upto(x)) \in Nat
    BY <1>2
  <2>2. Cardinality(upto(x - 1)) \in Nat /\ IsFiniteSet(upto(x - 1))
    BY <1>2, <1>6
  <2>3. x \in S
    BY <1>6, <1>7, <2>1, <2>2
  <2>4. x \notin upto(x - 1)
    BY <1>6
  <2>5. Cardinality(upto(x)) = Cardinality(upto(x - 1)) + 1
    <3> HIDE DEF upto
    <3> QED  BY <1>7, <2>2, <2>3, <2>4, FS_AddElement
  <2> HIDE DEF upto
  <2> QED
    BY <1>6, <2>1, <2>2, <2>3, <2>5
<1> QED
  BY <1>8
=============================================================================
