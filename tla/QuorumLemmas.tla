---------------------------- MODULE QuorumLemmas ----------------------------
(***************************************************************************)
(* Counting arguments shared by the proofs: committees with at most f      *)
(* faulty members among at least 3f+1, and sets of n-f signers.            *)
(***************************************************************************)
EXTENDS Integers, FiniteSets, FiniteSetTheorems, TLAPS

\* Cardinalities of disjoint finite sets add up.
LEMMA DisjointCount ==
    ASSUME NEW S, NEW T, IsFiniteSet(S), IsFiniteSet(T), S \cap T = {}
    PROVE  /\ IsFiniteSet(S \cup T)
           /\ Cardinality(S \cup T) = Cardinality(S) + Cardinality(T)
           /\ Cardinality(S) \in Nat /\ Cardinality(T) \in Nat
<1>1. Cardinality(S \cap T) = 0
  BY FS_EmptySet
<1>2. /\ IsFiniteSet(S \cup T)
      /\ Cardinality(S \cup T) = Cardinality(S) + Cardinality(T) - Cardinality(S \cap T)
  BY FS_Union
<1>3. Cardinality(S) \in Nat /\ Cardinality(T) \in Nat
  BY FS_CardinalityType
<1> QED
  BY <1>1, <1>2, <1>3

\* A subset of a finite set is finite and no larger.
LEMMA SubsetCount ==
    ASSUME NEW S, NEW T, IsFiniteSet(T), S \subseteq T
    PROVE  /\ IsFiniteSet(S) /\ Cardinality(S) \in Nat /\ Cardinality(T) \in Nat
           /\ Cardinality(S) <= Cardinality(T)
BY FS_Subset, FS_CardinalityType

\* A set that maps one to one into a finite one is no larger.
LEMMA InjectionCount ==
    ASSUME NEW S, NEW T, IsFiniteSet(T), NEW g \in [S -> T],
           \A x, y \in S : g[x] = g[y] => x = y
    PROVE  /\ IsFiniteSet(S) /\ Cardinality(S) <= Cardinality(T)
           /\ Cardinality(S) \in Nat /\ Cardinality(T) \in Nat
<1>1. g \in Injection(S, T)
  BY DEF Injection, IsInjective
<1> QED
  BY <1>1, FS_Injection, FS_CardinalityType

\* A finite set as large as its image maps one to one.
LEMMA ImageCount ==
    ASSUME NEW S, NEW T, IsFiniteSet(S), NEW g \in [S -> T],
           \A y \in T : \E x \in S : g[x] = y, Cardinality(S) = Cardinality(T)
    PROVE  \A x, y \in S : g[x] = g[y] => x = y
<1>1. g \in Surjection(S, T)
  BY DEF Surjection
<1>2. g \in Injection(S, T)
  BY <1>1, FS_SurjSameCardinalityImpliesInj
<1> QED
  BY <1>2 DEF Injection, IsInjective

\* Of k signers, at most f are faulty.
LEMMA CorrectSigners ==
    ASSUME NEW P, NEW B, NEW f \in Nat, NEW k \in Int, IsFiniteSet(P), B \subseteq P,
           Cardinality(B) <= f, NEW S \in SUBSET (P \ B), Cardinality(S \cup B) >= k
    PROVE  Cardinality(S) \in Nat /\ Cardinality(S) >= k - f
<1>1. IsFiniteSet(S) /\ IsFiniteSet(B) /\ S \cap B = {}
  BY FS_Subset
<1>2. /\ Cardinality(S \cup B) = Cardinality(S) + Cardinality(B)
      /\ Cardinality(S) \in Nat /\ Cardinality(B) \in Nat
  BY <1>1, DisjointCount
<1> QED
  BY <1>2

\* Two sets of n-f signers have a correct signer in common.
LEMMA SignersMeet ==
    ASSUME NEW P, NEW B, NEW f \in Nat, IsFiniteSet(P), B \subseteq P,
           Cardinality(B) <= f, Cardinality(P) >= 3 * f + 1,
           NEW S \in SUBSET (P \ B), NEW T \in SUBSET (P \ B),
           Cardinality(S \cup B) >= Cardinality(P) - f,
           Cardinality(T \cup B) >= Cardinality(P) - f
    PROVE  \E i \in S : i \in T
<1> SUFFICES ASSUME S \cap T = {} PROVE FALSE
  OBVIOUS
<1>1. IsFiniteSet(S) /\ IsFiniteSet(T) /\ IsFiniteSet(B)
  BY FS_Subset
<1>2. S \cap B = {} /\ T \cap B = {} /\ (S \cup T) \cap B = {}
  OBVIOUS
<1>3. /\ Cardinality(S \cup B) = Cardinality(S) + Cardinality(B)
      /\ Cardinality(T \cup B) = Cardinality(T) + Cardinality(B)
      /\ Cardinality(B) \in Nat
  BY <1>1, <1>2, DisjointCount
<1>4. /\ IsFiniteSet(S \cup T)
      /\ Cardinality(S \cup T) = Cardinality(S) + Cardinality(T)
      /\ Cardinality(S) \in Nat /\ Cardinality(T) \in Nat
  BY <1>1, DisjointCount
<1>5. Cardinality((S \cup T) \cup B) = Cardinality(S \cup T) + Cardinality(B)
  BY <1>1, <1>2, <1>4, DisjointCount
<1>6. /\ Cardinality((S \cup T) \cup B) <= Cardinality(P)
      /\ Cardinality(P) \in Nat
  <2>1. (S \cup T) \cup B \subseteq P
    OBVIOUS
  <2> QED
    BY <2>1, SubsetCount
<1> QED
  BY <1>3, <1>4, <1>5, <1>6

\* A finite set of numbers that is not empty has a largest element.
LEMMA FiniteMax ==
    ASSUME NEW S, IsFiniteSet(S), S \subseteq Int, S # {}
    PROVE  \E m \in S : \A z \in S : z <= m
<1> DEFINE Up(m) == {y \in S : m <= y}
           W == {Up(m) : m \in S}
           R == StrictSubsetOrdering(S)
<1>1. IsWellFoundedOn(R, SUBSET S)
  BY FS_StrictSubsetOrderingWellFounded, FS_FiniteSubsetsOfFinite
<1>2. W \subseteq SUBSET S /\ W # {}
  OBVIOUS
<1> HIDE DEF R, W
<1>3. PICK V \in W : \A X \in W : ~ (<<X, V>> \in R)
  BY <1>1, <1>2, WFMin
<1>4. PICK m \in S : V = Up(m)
  BY DEF W
<1>5. ASSUME NEW z \in S, ~ (z <= m) PROVE FALSE
  <2>1. z \in Int /\ m \in Int /\ (\A y \in S : y \in Int) /\ m < z
    BY <1>5
  <2>2. ASSUME NEW y \in Up(z) PROVE y \in Up(m)
    <3>1. y \in S /\ z <= y
      OBVIOUS
    <3>2. y \in Int
      BY <2>1, <3>1
    <3>3. m <= y
      BY <2>1, <3>1, <3>2
    <3> QED
      BY <3>1, <3>3
  <2>3. m \in Up(m) /\ m \notin Up(z)
    BY <2>1
  <2>4. Up(z) \in W /\ <<Up(z), V>> \in R
    BY <1>4, <2>2, <2>3 DEF W, R, StrictSubsetOrdering
  <2> QED
    BY <1>3, <2>4
<1> QED
  BY <1>5

\* A finite set of numbers has k smallest elements, if it has k elements.
LEMMA FirstElements ==
    ASSUME NEW S, IsFiniteSet(S), S \subseteq Int, NEW k \in Nat, k <= Cardinality(S)
    PROVE  \E T \in SUBSET S : Cardinality(T) = k /\ \A x \in T, y \in S \ T : x < y
<1> DEFINE U == {T \in SUBSET S : k <= Cardinality(T) /\ \A x \in T, y \in S \ T : x < y}
           R == StrictSubsetOrdering(S)
<1>1. IsWellFoundedOn(R, SUBSET S)
  BY FS_StrictSubsetOrderingWellFounded, FS_FiniteSubsetsOfFinite
<1>2. U \subseteq SUBSET S /\ S \in U
  OBVIOUS
<1>3. PICK T \in U : \A X \in U : ~ (<<X, T>> \in R)
  <2> HIDE DEF R, U
  <2> QED
    BY <1>1, <1>2, WFMin
<1>4. T \in SUBSET S /\ k <= Cardinality(T) /\ \A x \in T, y \in S \ T : x < y
  OBVIOUS
<1>5. IsFiniteSet(T) /\ Cardinality(T) \in Nat
  BY <1>4, SubsetCount
<1>6. ASSUME Cardinality(T) # k PROVE FALSE
  <2>1. T # {}
    BY <1>4, <1>5, <1>6, FS_EmptySet
  <2>2. PICK m \in T : \A z \in T : z <= m
    BY <1>4, <1>5, <2>1, FiniteMax
  <2>3. Cardinality(T \ {m}) = Cardinality(T) - 1
    BY <1>5, FS_RemoveElement
  <2>4. k <= Cardinality(T \ {m})
    BY <1>4, <1>5, <1>6, <2>3
  <2>5. ASSUME NEW x \in T \ {m}, NEW y \in S \ (T \ {m}) PROVE x < y
    BY <1>4, <2>2
  <2>6. T \ {m} \in U
    BY <1>4, <2>4, <2>5
  <2>7. <<T \ {m}, T>> \in R
    BY <1>4 DEF StrictSubsetOrdering
  <2> QED
    BY <1>3, <2>6, <2>7
<1> QED
  BY <1>4, <1>6

\* Remainders, and numbers less than n apart with the same one.
LEMMA ModRange == ASSUME NEW n \in Nat \ {0}, NEW x \in Nat PROVE x % n \in 0 .. n - 1
OBVIOUS

LEMMA NoMultiple ==
    ASSUME NEW n \in Nat \ {0}, NEW k \in Int, n * k < n, 0 - n < n * k
    PROVE  k = 0
<1>1. CASE k >= 1
  <2>1. n * k >= n
    BY <1>1
  <2> QED
    BY <2>1
<1>2. CASE k <= 0 - 1
  <2>1. n * k <= 0 - n
    BY <1>2
  <2> QED
    BY <2>1
<1> QED
  BY <1>1, <1>2

LEMMA ModOne ==
    ASSUME NEW n \in Nat \ {0}, NEW x \in Nat, NEW y \in Nat,
           x - y < n, y - x < n, x % n = y % n
    PROVE  x = y
<1> DEFINE k == (x \div n) - (y \div n)
<1>1. /\ x = n * (x \div n) + (x % n) /\ y = n * (y \div n) + (y % n)
      /\ (x \div n) \in Int /\ (y \div n) \in Int
  OBVIOUS
<1>2. x - y = n * k /\ k \in Int
  BY <1>1
<1>3. k = 0
  <2> HIDE DEF k
  <2> QED
    BY <1>2, NoMultiple
<1> QED
  BY <1>2, <1>3

LEMMA ModWrap ==
    ASSUME NEW n \in Nat \ {0}, NEW x \in Nat, NEW y \in 0 .. n - 1, x = y \/ x = y + n
    PROVE  x % n = y
<1>1. /\ x = n * (x \div n) + (x % n) /\ (x \div n) \in Int /\ x % n \in 0 .. n - 1
  BY ModRange
<1> DEFINE q == IF x = y THEN x \div n ELSE (x \div n) - 1
<1>2. y - (x % n) = n * q /\ q \in Int
  BY <1>1
<1>3. q = 0
  <2>1. n * q < n /\ 0 - n < n * q
    BY <1>1, <1>2
  <2> HIDE DEF q
  <2> QED
    BY <1>2, <2>1, NoMultiple
<1> QED
  BY <1>1, <1>2, <1>3
=============================================================================
