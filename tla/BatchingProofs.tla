---------------------------- MODULE BatchingProofs ----------------------------
(***************************************************************************)
(* Lemmas about the operators of Batching.                                 *)
(***************************************************************************)
EXTENDS Batching, FiniteSetTheorems, TLAPS

(* Capping and chunking only ever take candidates away.                    *)
LEMMA CutsAreSubsets == \A S, n : Cut(S, n) \subseteq S /\ FirstOf(S, n) \subseteq S
  BY DEF Cut, FirstOf

(* An element of a finite set of numbers has fewer smaller ones than a     *)
(* greater element has.                                                    *)
LEMMA RankGrows ==
    ASSUME NEW S \in SUBSET Nat, IsFiniteSet(S), NEW x \in S, NEW z \in S, x < z
    PROVE  Cardinality({y \in S : y < x}) < Cardinality({y \in S : y < z})
<1> DEFINE B == {y \in S : y < x}
           D == {y \in S : y < z}
<1>1. B \in SUBSET D
  <2> SUFFICES ASSUME NEW y \in S, y < x PROVE y < z
    OBVIOUS
  <2>1. x \in Nat /\ y \in Nat /\ z \in Nat
    OBVIOUS
  <2> QED
    BY <2>1
<1>2. x \in D /\ x \notin B
  OBVIOUS
<1>3. IsFiniteSet(D) /\ IsFiniteSet(B)
  BY FS_Subset
<1>4. Cardinality(B) <= Cardinality(D) /\ Cardinality(B) # Cardinality(D)
  BY <1>1, <1>2, <1>3, FS_Subset
<1>5. Cardinality(B) \in Nat /\ Cardinality(D) \in Nat
  BY <1>3, FS_CardinalityType
<1> QED
  BY <1>4, <1>5

(* There are as many places as there are elements, and each is taken: the  *)
(* number of smaller elements is an injection of the set into as many      *)
(* places, hence onto them.                                                *)
LEMMA EveryPlaceTaken ==
    ASSUME NEW S \in SUBSET Nat, IsFiniteSet(S)
    PROVE  /\ \A x \in S : Cardinality({y \in S : y < x}) \in 0..(Cardinality(S) - 1)
           /\ \A n \in 1..Cardinality(S) : \E x \in S : Cardinality({y \in S : y < x}) = n - 1
<1> DEFINE N == Cardinality(S)
           Rank == [x \in S |-> Cardinality({y \in S : y < x})]
<1>1. N \in Nat
  BY FS_CardinalityType
<1>2. \A x \in S : Cardinality({y \in S : y < x}) \in 0..(N - 1)
  <2> SUFFICES ASSUME NEW x \in S
               PROVE  Cardinality({y \in S : y < x}) \in 0..(N - 1)
    OBVIOUS
  <2> DEFINE B == {y \in S : y < x}
  <2>1. B \in SUBSET S /\ B # S
    OBVIOUS
  <2>2. IsFiniteSet(B) /\ Cardinality(B) <= N /\ Cardinality(B) # N
    BY <2>1, FS_Subset
  <2>3. Cardinality(B) \in Nat
    BY <2>2, FS_CardinalityType
  <2> QED
    BY <1>1, <2>2, <2>3
<1>3. Rank \in [S -> 0..(N - 1)]
  BY <1>2
<1>4. \A x, z \in S : Rank[x] = Rank[z] => x = z
  <2> SUFFICES ASSUME NEW x \in S, NEW z \in S, x # z
               PROVE  Rank[x] # Rank[z]
    OBVIOUS
  <2>1. x < z \/ z < x
    OBVIOUS
  <2>2. Rank[x] \in Int /\ Rank[z] \in Int
    BY <1>3
  <2>3. (x < z => Rank[x] < Rank[z]) /\ (z < x => Rank[z] < Rank[x])
    BY RankGrows
  <2> HIDE DEF Rank
  <2> QED
    BY <2>1, <2>2, <2>3
<1>5. Rank \in Injection(S, 0..(N - 1))
  <2> HIDE DEF Rank
  <2> QED
    BY <1>3, <1>4 DEF Injection, IsInjective
<1>6. IsFiniteSet(0..(N - 1)) /\ Cardinality(0..(N - 1)) = N
  <2>1. 0 \in Int /\ N - 1 \in Int
    BY <1>1
  <2>2. IsFiniteSet(0..(N - 1))
        /\ Cardinality(0..(N - 1)) = IF 0 > N - 1 THEN 0 ELSE (N - 1) - 0 + 1
    BY <2>1, FS_Interval
  <2> HIDE DEF N
  <2> QED
    BY <1>1, <2>2
<1>7. Rank \in Surjection(S, 0..(N - 1))
  <2> HIDE DEF Rank, N
  <2>1. N = Cardinality(S)
    BY DEF N
  <2> QED
    BY <1>5, <1>6, <2>1, FS_Injection
<1>8. \A n \in 1..N : \E x \in S : Rank[x] = n - 1
  <2> SUFFICES ASSUME NEW n \in 1..N PROVE \E x \in S : Rank[x] = n - 1
    OBVIOUS
  <2>1. n - 1 \in 0..(N - 1)
    BY <1>1
  <2> HIDE DEF Rank, N
  <2> QED
    BY <1>7, <2>1 DEF Surjection
<1> QED
  BY <1>2, <1>8

(* The element at a place has that many smaller ones, and the place of an  *)
(* element is after them.                                                  *)
LEMMA NthHasRank ==
    ASSUME NEW S \in SUBSET Nat, IsFiniteSet(S)
    PROVE  /\ Cardinality(S) \in Nat
           /\ \A n \in 1..Cardinality(S) :
                  Nth(S, n) \in S /\ Cardinality({y \in S : y < Nth(S, n)}) = n - 1
           /\ \A x \in S : /\ Cardinality({y \in S : y < x}) + 1 \in 1..Cardinality(S)
                           /\ Nth(S, Cardinality({y \in S : y < x}) + 1) = x
<1> DEFINE Before(x) == Cardinality({y \in S : y < x})
<1>1. Cardinality(S) \in Nat
  BY FS_CardinalityType
<1>2. \A n \in 1..Cardinality(S) : Nth(S, n) \in S /\ Before(Nth(S, n)) = n - 1
  <2> SUFFICES ASSUME NEW n \in 1..Cardinality(S)
               PROVE  Nth(S, n) \in S /\ Before(Nth(S, n)) = n - 1
    OBVIOUS
  <2>1. \E x \in S : Before(x) = n - 1
    BY EveryPlaceTaken
  <2>2. Nth(S, n) = CHOOSE x \in S : Before(x) = n - 1
    BY DEF Nth
  <2> HIDE DEF Before
  <2> QED
    BY <2>1, <2>2
<1>3. \A x \in S : Before(x) \in 0..(Cardinality(S) - 1)
  BY EveryPlaceTaken
<1>4. \A x, z \in S : Before(x) = Before(z) => x = z
  <2> SUFFICES ASSUME NEW x \in S, NEW z \in S, x # z
               PROVE  Before(x) # Before(z)
    OBVIOUS
  <2>1. (x < z => Before(x) < Before(z)) /\ (z < x => Before(z) < Before(x))
    BY RankGrows
  <2> HIDE DEF Before
  <2>2. Before(x) \in Int /\ Before(z) \in Int /\ (x < z \/ z < x)
    BY <1>1, <1>3
  <2> QED
    BY <2>1, <2>2
<1> HIDE DEF Before
<1>5. ASSUME NEW x \in S
      PROVE  Before(x) + 1 \in 1..Cardinality(S) /\ Nth(S, Before(x) + 1) = x
  <2>1. Before(x) + 1 \in 1..Cardinality(S) /\ Before(x) = (Before(x) + 1) - 1
    BY <1>1, <1>3
  <2>2. Before(Nth(S, Before(x) + 1)) = Before(x) /\ Nth(S, Before(x) + 1) \in S
    BY <1>2, <2>1
  <2> QED
    BY <1>4, <2>1, <2>2
<1> QED
  BY <1>1, <1>2, <1>5 DEF Before

(* The places of a finite set of numbers: each holds an element, no two    *)
(* hold the same one, and every element has a place.                       *)
LEMMA NthEnumerates ==
    ASSUME NEW S \in SUBSET Nat, IsFiniteSet(S)
    PROVE  /\ Cardinality(S) \in Nat
           /\ \A n \in 1..Cardinality(S) : Nth(S, n) \in S
           /\ \A m, n \in 1..Cardinality(S) : Nth(S, m) = Nth(S, n) => m = n
           /\ \A x \in S : \E n \in 1..Cardinality(S) : Nth(S, n) = x
<1>1. \A m, n \in 1..Cardinality(S) : Nth(S, m) = Nth(S, n) => m = n
  <2> SUFFICES ASSUME NEW m \in 1..Cardinality(S), NEW n \in 1..Cardinality(S),
                      Nth(S, m) = Nth(S, n)
               PROVE  m = n
    OBVIOUS
  <2>1. m - 1 = n - 1
    BY NthHasRank
  <2> QED
    BY <2>1
<1> QED
  BY <1>1, NthHasRank

(* An element above all of a set takes the place after them.               *)
LEMMA NthAdded ==
    ASSUME NEW S \in SUBSET Nat, IsFiniteSet(S), NEW x \in Nat, \A y \in S : y < x
    PROVE  /\ Cardinality(S) \in Nat
           /\ Cardinality(S \cup {x}) = Cardinality(S) + 1
           /\ \A n \in 1..Cardinality(S) : Nth(S \cup {x}, n) = Nth(S, n)
           /\ Nth(S \cup {x}, Cardinality(S) + 1) = x
<1> DEFINE T == S \cup {x}
           N == Cardinality(S)
<1>1. x \notin S
  <2>1. ~(x < x)
    OBVIOUS
  <2> QED
    BY <2>1
<1>2. N \in Nat /\ IsFiniteSet(T) /\ T \in SUBSET Nat /\ Cardinality(T) = N + 1
  BY <1>1, FS_CardinalityType, FS_AddElement
<1>3. {y \in T : y < x} = S
  <2>1. ~(x < x)
    OBVIOUS
  <2> QED
    BY <2>1
<1>4. \A z \in S : {y \in T : y < z} = {y \in S : y < z}
  <2> SUFFICES ASSUME NEW z \in S PROVE ~(x < z)
    OBVIOUS
  <2>1. z \in Nat /\ z < x
    OBVIOUS
  <2> QED
    BY <2>1
<1>5. Nth(T, N + 1) = x
  BY <1>2, <1>3, NthHasRank
<1>6. ASSUME NEW n \in 1..N PROVE Nth(T, n) = Nth(S, n)
  <2> DEFINE z == Nth(S, n)
  <2>1. z \in S /\ Cardinality({y \in S : y < z}) = n - 1
    BY NthHasRank
  <2> HIDE DEF z
  <2>2. Cardinality({y \in T : y < z}) = n - 1 /\ z \in T
    BY <1>4, <2>1
  <2> HIDE DEF T
  <2>3. Nth(T, Cardinality({y \in T : y < z}) + 1) = z
    BY <1>2, <2>2, NthHasRank
  <2>4. (n - 1) + 1 = n
    BY <1>2
  <2> QED
    BY <2>2, <2>3, <2>4 DEF z
<1> QED
  BY <1>2, <1>5, <1>6
=============================================================================
