----------------------------- MODULE NumberSets -----------------------------
(***************************************************************************)
(* Lemmas about finite sets of numbers: the least and the greatest element *)
(* and the newest few, which is what a page or a list of mail is, ids      *)
(* being ordered by time.                                                  *)
(***************************************************************************)
EXTENDS Integers, FiniteSets, FiniteSetTheorems, TLAPS

\* A nonempty set of naturals has a least element.
LEMMA LeastNumber ==
    ASSUME NEW S \in SUBSET Nat, S # {}
    PROVE  \E x \in S : \A y \in S : x <= y
  <1> DEFINE R == {ss \in Nat \X Nat : ss[1] < ss[2]}
  <1>1. R = OpToRel(<, Nat)
    BY Zenon DEF OpToRel
  <1>2. IsWellFoundedOn(R, Nat)
    BY <1>1, NatLessThanWellFounded, Zenon
  <1>3. PICK x \in S : \A y \in S : ~(<<y, x>> \in R)
    BY <1>2, WFMin
  <1>4. ASSUME NEW y \in S
        PROVE  x <= y
    <2>1. <<y, x>> \notin R
      BY <1>3
    <2>2. QED
      BY <2>1
  <1>5. QED
    BY <1>4

-----------------------------------------------------------------------------
\* What is newer than m.
Above(S, m) == {x \in S : x > m}

\* The newest limit elements.
NewestOf(S, limit) == {m \in S : Cardinality(Above(S, m)) < limit}

LEMMA AboveCounts ==
    ASSUME NEW S \in SUBSET Nat, IsFiniteSet(S), NEW m
    PROVE  /\ Above(S, m) \in SUBSET S /\ IsFiniteSet(Above(S, m))
           /\ Cardinality(Above(S, m)) \in Nat
  <1>1. Above(S, m) \in SUBSET S
    BY DEF Above
  <1>2. QED
    BY <1>1, FS_Subset, FS_CardinalityType

\* Of two elements the greater has fewer above it.
LEMMA AboveShrinks ==
    ASSUME NEW S \in SUBSET Nat, IsFiniteSet(S), NEW x \in S, NEW y \in S, x < y
    PROVE  Cardinality(Above(S, y)) < Cardinality(Above(S, x))
  <1>1. ASSUME NEW z \in S, z > y
        PROVE  z > x /\ z # y
    BY <1>1
  <1>2. Above(S, y) \in SUBSET (Above(S, x) \ {y}) /\ y \in Above(S, x)
    BY <1>1 DEF Above
  <1>3. IsFiniteSet(Above(S, x) \ {y}) /\ Cardinality(Above(S, x) \ {y}) = Cardinality(Above(S, x)) - 1
    BY <1>2, AboveCounts, FS_RemoveElement
  <1>4. Cardinality(Above(S, y)) <= Cardinality(Above(S, x) \ {y})
    BY <1>2, <1>3, FS_Subset
  <1>5. QED
    BY <1>3, <1>4, AboveCounts

\* A nonempty part of a finite set of naturals has a greatest element.
LEMMA GreatestNumber ==
    ASSUME NEW S \in SUBSET Nat, IsFiniteSet(S), NEW T \in SUBSET S, T # {}
    PROVE  \E x \in T : \A y \in T : y <= x
  <1> DEFINE Ranks == {Cardinality(Above(S, y)) : y \in T}
  <1>1. Ranks \in SUBSET Nat /\ Ranks # {}
    BY AboveCounts
  <1>2. PICK k \in Ranks : \A l \in Ranks : k <= l
    <2> HIDE DEF Ranks
    <2>1. QED
      BY <1>1, LeastNumber
  <1>3. PICK x \in T : k = Cardinality(Above(S, x))
    BY <1>2
  <1>4. ASSUME NEW y \in T, x < y
        PROVE  FALSE
    <2>1. Cardinality(Above(S, y)) < k
      BY <1>3, <1>4, AboveShrinks
    <2>2. k <= Cardinality(Above(S, y))
      BY <1>2
    <2>3. k \in Nat /\ Cardinality(Above(S, y)) \in Nat
      BY <1>1, AboveCounts
    <2>4. QED
      BY <2>1, <2>2, <2>3
  <1>5. QED
    BY <1>3, <1>4

\* The newest are no more than the limit; where something is left out they
\* are that many, and all newer than it.
LEMMA NewestComplete ==
    ASSUME NEW S \in SUBSET Nat, IsFiniteSet(S), NEW limit \in Nat
    PROVE  /\ NewestOf(S, limit) \in SUBSET S
           /\ Cardinality(NewestOf(S, limit)) <= limit
           /\ \A m \in S \ NewestOf(S, limit) :
                 /\ Cardinality(NewestOf(S, limit)) = limit
                 /\ \A x \in NewestOf(S, limit) : x > m
  <1> DEFINE N == NewestOf(S, limit)
  <1>1. N \in SUBSET S /\ \A m \in S : m \in N <=> Cardinality(Above(S, m)) < limit
    BY DEF NewestOf
  <1> HIDE DEF N
  <1>2. IsFiniteSet(N) /\ Cardinality(N) \in Nat
    BY <1>1, FS_Subset, FS_CardinalityType
  <1>3. Cardinality(N) <= limit
    <2>1. CASE N = {}
      BY <2>1, FS_EmptySet
    <2>2. CASE N # {}
      <3>1. PICK x \in N : \A y \in N : x <= y
        BY <1>1, <2>2, LeastNumber
      <3>2. N \ {x} \in SUBSET Above(S, x)
        BY <1>1, <3>1 DEF Above
      <3>3. Cardinality(N \ {x}) <= Cardinality(Above(S, x))
        BY <3>2, AboveCounts, FS_Subset
      <3>4. Cardinality(N \ {x}) = Cardinality(N) - 1
        BY <1>2, <3>1, FS_RemoveElement
      <3>5. Cardinality(Above(S, x)) < limit /\ Cardinality(Above(S, x)) \in Nat
        BY <1>1, <3>1, AboveCounts
      <3>6. QED
        BY <1>2, <3>3, <3>4, <3>5
    <2>3. QED
      BY <2>1, <2>2
  <1>4. ASSUME NEW m \in S \ N, NEW x \in N
        PROVE  x > m
    <2>1. Cardinality(Above(S, x)) < Cardinality(Above(S, m))
      BY <1>1, AboveCounts
    <2>2. x \in S /\ x # m /\ Cardinality(Above(S, x)) \in Nat /\ Cardinality(Above(S, m)) \in Nat
      BY <1>1, AboveCounts
    <2>3. CASE x < m
      BY <2>1, <2>2, <2>3, AboveShrinks
    <2>4. QED
      BY <2>2, <2>3
  <1>5. ASSUME NEW m \in S \ N
        PROVE  Cardinality(N) = limit
    <2>1. PICK top \in S \ N : \A y \in S \ N : y <= top
      BY GreatestNumber
    <2>2. Above(S, top) \in SUBSET N
      <3>1. ASSUME NEW y \in S, y > top
            PROVE  y \in N
        BY <2>1, <3>1
      <3>2. QED
        BY <3>1 DEF Above
    <2>3. Cardinality(Above(S, top)) <= Cardinality(N)
      BY <1>2, <2>2, FS_Subset
    <2>4. limit <= Cardinality(Above(S, top)) /\ Cardinality(Above(S, top)) \in Nat
      BY <1>1, AboveCounts
    <2>5. QED
      BY <1>2, <1>3, <2>3, <2>4
  <1>6. QED
    BY <1>1, <1>3, <1>4, <1>5 DEF N

=============================================================================
