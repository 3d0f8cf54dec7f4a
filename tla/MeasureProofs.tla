----------------------------- MODULE MeasureProofs -----------------------------
(***************************************************************************)
(* Proofs about what is read and measured: the logs and the flows from     *)
(* memory and from the tables, the drift monitor and its bins, and the     *)
(* report of an evaluation.  First what the library's operators are, of    *)
(* which these are built; then the inductive invariant of each part.       *)
(* EdgeProofs has the theorems that rest on them.                          *)
(***************************************************************************)
EXTENDS FlowReads, LogReads, Drift, Evaluation,
        SequenceTheorems, FiniteSetTheorems, WellFoundedInduction, TLAPS

(* The smaller of two numbers is one of them.                              *)
LEMMA MinOfTwo ==
    ASSUME NEW a \in Int, NEW b \in Int
    PROVE  Min({a, b}) = IF a <= b THEN a ELSE b
<1>1. CASE a <= b
  BY <1>1 DEF Min
<1>2. CASE ~(a <= b)
  BY <1>2 DEF Min
<1> QED
  BY <1>1, <1>2

LEMMA MaxOfTwo ==
    ASSUME NEW a \in Int, NEW b \in Int
    PROVE  Max({a, b}) = IF a <= b THEN b ELSE a
<1>1. CASE a <= b
  BY <1>1 DEF Max
<1>2. CASE ~(a <= b)
  BY <1>2 DEF Max
<1> QED
  BY <1>1, <1>2

(* A finite set has a maximum under any strict partial order.              *)
LEMMA FiniteHasMaximal ==
    ASSUME NEW S, IsFiniteSet(S), S # {}, NEW R,
           \A x, y, z \in S : <<x, y>> \in R /\ <<y, z>> \in R => <<x, z>> \in R,
           \A x \in S : <<x, x>> \notin R
    PROVE  \E x \in S : \A y \in S : <<x, y>> \notin R
<1> DEFINE Above(x) == {y \in S : <<x, y>> \in R}
           T == {Above(x) : x \in S}
<1>1. T \subseteq FiniteSubsetsOf(S) /\ T # {}
  <2>1. \A x \in S : Above(x) \in SUBSET S /\ IsFiniteSet(Above(x))
    BY FS_Subset
  <2>2. \A A \in T : A \in FiniteSubsetsOf(S)
    <3> SUFFICES ASSUME NEW x \in S PROVE Above(x) \in FiniteSubsetsOf(S)
      OBVIOUS
    <3> HIDE DEF Above
    <3> QED
      BY <2>1 DEF FiniteSubsetsOf
  <2>3. PICK x \in S : TRUE
    OBVIOUS
  <2>4. Above(x) \in T
    OBVIOUS
  <2> HIDE DEF T
  <2> QED
    BY <2>2, <2>4
<1>2. PICK A \in T : \A B \in T : <<B, A>> \notin StrictSubsetOrdering(S)
  <2> HIDE DEF T
  <2> QED
    BY <1>1, FS_StrictSubsetOrderingWellFounded, WFMin
<1>3. PICK x \in S : A = Above(x)
  OBVIOUS
<1>4. ASSUME NEW y \in S, <<x, y>> \in R PROVE FALSE
  <2>1. Above(y) \subseteq Above(x) /\ y \in Above(x) /\ y \notin Above(y)
    BY <1>4
  <2>2. <<Above(y), Above(x)>> \in StrictSubsetOrdering(S)
    BY <2>1 DEF StrictSubsetOrdering
  <2> QED
    BY <1>2, <1>3, <2>2
<1> QED
  BY <1>4

(* A strict total order, and ranks from 0 that rise with it.               *)
IsOrder(S, R) ==
    /\ \A x, y, z \in S : <<x, y>> \in R /\ <<y, z>> \in R => <<x, z>> \in R
    /\ \A x \in S : <<x, x>> \notin R
    /\ \A x, y \in S : x # y => <<x, y>> \in R \/ <<y, x>> \in R
AreRanks(S, R, rank) ==
    /\ Cardinality(S) \in Nat
    /\ \A x \in S : rank[x] \in 0..(Cardinality(S) - 1)
    /\ \A x, y \in S : rank[x] < rank[y] <=> <<x, y>> \in R
    /\ \A n \in 1..Cardinality(S) : \E x \in S : rank[x] = n - 1

(* In a finite set under a strict total order the ranks are 0, 1, 2 and on,*)
(* each of one element, and they rise with the order.                      *)
LEMMA Ranks ==
    ASSUME NEW S, IsFiniteSet(S), NEW R, IsOrder(S, R), NEW rank,
           rank = [x \in S |-> Cardinality({y \in S : <<y, x>> \in R})]
    PROVE  AreRanks(S, R, rank)
<1>0. /\ \A x, y, z \in S : <<x, y>> \in R /\ <<y, z>> \in R => <<x, z>> \in R
      /\ \A x \in S : <<x, x>> \notin R
      /\ \A x, y \in S : x # y => <<x, y>> \in R \/ <<y, x>> \in R
  BY DEF IsOrder
<1> DEFINE Below(x) == {y \in S : <<y, x>> \in R}
           n == Cardinality(S)
<1>1. n \in Nat
  BY FS_CardinalityType
<1>2. ASSUME NEW x \in S PROVE /\ IsFiniteSet(Below(x)) /\ rank[x] = Cardinality(Below(x))
                               /\ rank[x] \in 0..(n - 1)
  <2>1. rank[x] = Cardinality(Below(x))
    OBVIOUS
  <2>2. Below(x) \in SUBSET S /\ Below(x) # S
    BY <1>0
  <2> HIDE DEF Below
  <2>3. IsFiniteSet(Below(x)) /\ Cardinality(Below(x)) <= n /\ Cardinality(Below(x)) # n
    BY <2>2, FS_Subset
  <2>4. Cardinality(Below(x)) \in Nat
    BY <2>3, FS_CardinalityType
  <2> QED
    BY <1>1, <2>1, <2>3, <2>4
<1>3. ASSUME NEW x \in S, NEW y \in S, <<x, y>> \in R PROVE rank[x] < rank[y]
  <2>1. Below(x) \in SUBSET Below(y) /\ Below(x) # Below(y)
    BY <1>0, <1>3
  <2> HIDE DEF Below
  <2>2. Cardinality(Below(x)) <= Cardinality(Below(y))
        /\ Cardinality(Below(x)) # Cardinality(Below(y))
    BY <1>2, <2>1, FS_Subset
  <2> QED
    BY <1>1, <1>2, <2>2
<1>6. ASSUME NEW x \in S PROVE rank[x] \in 0..(n - 1) /\ rank[x] \in Int
  <2>1. rank[x] \in 0..(n - 1)
    BY <1>2
  <2> HIDE DEF n
  <2> QED
    BY <2>1, <1>1
<1>4. ASSUME NEW x \in S, NEW y \in S PROVE rank[x] < rank[y] <=> <<x, y>> \in R
  <2>1. rank[x] \in Int /\ rank[y] \in Int
    BY <1>6
  <2>2. CASE x = y
    BY <1>0, <2>1, <2>2
  <2>3. CASE x # y
    <3>1. CASE <<x, y>> \in R
      BY <1>3, <3>1
    <3>2. CASE <<y, x>> \in R
      <4>1. <<x, y>> \notin R
        BY <1>0, <3>2
      <4>2. rank[y] < rank[x]
        BY <1>3, <3>2
      <4> QED
        BY <2>1, <4>1, <4>2
    <3> QED
      BY <1>0, <2>3, <3>1, <3>2
  <2> QED
    BY <2>2, <2>3
<1>5. ASSUME NEW k \in 1..n PROVE \E x \in S : rank[x] = k - 1
  <2> DEFINE T == 0..(n - 1)
             f == [x \in S |-> rank[x]]
  <2>1. IsFiniteSet(T) /\ Cardinality(T) = n
    <3>1. 0 \in Int /\ n - 1 \in Int
      BY <1>1
    <3> QED
      BY <1>1, <3>1, FS_Interval
  <2>2. \A x, y \in S : f[x] = f[y] => x = y
    <3> SUFFICES ASSUME NEW x \in S, NEW y \in S, rank[x] = rank[y], x # y PROVE FALSE
      OBVIOUS
    <3>1. rank[x] < rank[y] \/ rank[y] < rank[x]
      BY <1>0, <1>3
    <3> QED
      BY <1>6, <3>1
  <2>3. f \in [S -> T]
    BY <1>2
  <2>4. f \in Injection(S, T)
    <3> HIDE DEF f, T
    <3> QED
      BY <2>2, <2>3 DEF Injection, IsInjective
  <2>5. f \in Surjection(S, T)
    <3> HIDE DEF f, T
    <3> QED
      BY <2>1, <2>4, FS_Injection
  <2>6. k - 1 \in T
    BY <1>1
  <2> HIDE DEF T
  <2> QED
    BY <2>5, <2>6 DEF Surjection
<1> QED
  BY <1>1, <1>2, <1>4, <1>5 DEF AreRanks

(* A finite set of integers has a least and a greatest member.             *)
LEMMA FiniteBounds ==
    ASSUME NEW T, IsFiniteSet(T), T # {}, T \subseteq Int
    PROVE  /\ Min(T) \in T /\ \A x \in T : Min(T) <= x
           /\ Max(T) \in T /\ \A x \in T : x <= Max(T)
<1>1. \E x \in T : \A y \in T : y <= x
  <2> DEFINE R == {p \in T \X T : p[1] < p[2]}
  <2>1. /\ \A x, y, z \in T : <<x, y>> \in R /\ <<y, z>> \in R => <<x, z>> \in R
        /\ \A x \in T : <<x, x>> \notin R
    OBVIOUS
  <2>2. PICK x \in T : \A y \in T : <<x, y>> \notin R
    <3> HIDE DEF R
    <3> QED
      BY <2>1, FiniteHasMaximal
  <2>3. ASSUME NEW y \in T, x < y PROVE FALSE
    <3>1. <<x, y>> \in R
      BY <2>3
    <3> QED
      BY <2>2, <3>1
  <2> QED
    BY <2>3
<1>2. \E x \in T : \A y \in T : x <= y
  <2> DEFINE R == {p \in T \X T : p[1] > p[2]}
  <2>1. /\ \A x, y, z \in T : <<x, y>> \in R /\ <<y, z>> \in R => <<x, z>> \in R
        /\ \A x \in T : <<x, x>> \notin R
    OBVIOUS
  <2>2. PICK x \in T : \A y \in T : <<x, y>> \notin R
    <3> HIDE DEF R
    <3> QED
      BY <2>1, FiniteHasMaximal
  <2>3. ASSUME NEW y \in T, x > y PROVE FALSE
    <3>1. <<x, y>> \in R
      BY <2>3
    <3> QED
      BY <2>2, <3>1
  <2> QED
    BY <2>3
<1> QED
  BY <1>1, <1>2, Zenon DEF Min, Max

(* Three sets that are apart hold as many members as their union.          *)
LEMMA ApartAddUp ==
    ASSUME NEW U, IsFiniteSet(U), NEW A, NEW B, NEW C, A \subseteq U, B \subseteq U, C \subseteq U,
           A \cap B = {}, A \cap C = {}, B \cap C = {}
    PROVE  /\ IsFiniteSet(A) /\ IsFiniteSet(B) /\ IsFiniteSet(C)
           /\ Cardinality(A) \in Nat /\ Cardinality(B) \in Nat /\ Cardinality(C) \in Nat
           /\ Cardinality(A \cup B \cup C) = Cardinality(A) + Cardinality(B) + Cardinality(C)
<1>1. /\ IsFiniteSet(A) /\ IsFiniteSet(B) /\ IsFiniteSet(C)
      /\ Cardinality(A) \in Nat /\ Cardinality(B) \in Nat /\ Cardinality(C) \in Nat
  BY FS_Subset, FS_CardinalityType
<1>2. IsFiniteSet(A \cup B) /\ Cardinality(A \cup B) = Cardinality(A) + Cardinality(B)
  <2>1. Cardinality(A \cap B) = 0
    BY FS_EmptySet
  <2>2. IsFiniteSet(A \cup B)
        /\ Cardinality(A \cup B) = Cardinality(A) + Cardinality(B) - Cardinality(A \cap B)
    BY <1>1, FS_Union
  <2> QED
    BY <1>1, <2>1, <2>2
<1>3. (A \cup B) \cap C = {}
  OBVIOUS
<1>4. Cardinality((A \cup B) \cup C) = Cardinality(A \cup B) + Cardinality(C) - Cardinality((A \cup B) \cap C)
  BY <1>1, <1>2, FS_Union
<1>5. Cardinality((A \cup B) \cap C) = 0
  BY <1>3, FS_EmptySet
<1> QED
  BY <1>1, <1>2, <1>4, <1>5
-----------------------------------------------------------------------------
LEMMA ShortSequences ==
    ASSUME NEW S, NEW s \in BoundedSeq(S, 2)
    PROVE  s \in Seq(S)
<1>1. PICK m \in 0..2 : s \in [1..m -> S]
  BY Zenon DEF BoundedSeq, SeqOf
<1>2. m \in Nat
  OBVIOUS
<1> QED
  BY <1>1, <1>2

(* One line is before another in the order of their instants, ties by      *)
(* arrival.                                                                *)
OlderThan(i, j) == stored[i].at < stored[j].at \/ (stored[i].at = stored[j].at /\ i < j)
OldRank(S, i) == Cardinality({j \in S : OlderThan(j, i)})
NewRank(S, i) == Cardinality({j \in S : NewestFirst(j, i)})

LEMMA LinesAre ==
    ASSUME stored \in Seq(LogLines), NEW S, S \subseteq DOMAIN stored
    PROVE  /\ IsFiniteSet(S) /\ Cardinality(S) \in Nat
           /\ \A i \in S : i \in Nat /\ stored[i].at \in Int /\ stored[i].key # EveryKey
<1>1. DOMAIN stored = 1..Len(stored) /\ Len(stored) \in Nat
  OBVIOUS
<1>2. IsFiniteSet(DOMAIN stored)
  BY <1>1, FS_Interval
<1>3. IsFiniteSet(S) /\ Cardinality(S) \in Nat
  BY <1>2, FS_Subset, FS_CardinalityType
<1>4. \A i \in DOMAIN stored : stored[i] \in LogLines /\ i \in Nat
  BY <1>1
<1> QED
  BY <1>3, <1>4, LogReadsAssumption

(* The ranks of a set of lines, from its oldest and from its newest.       *)
LEMMA OldRanks ==
    ASSUME stored \in Seq(LogLines), NEW S, S \subseteq DOMAIN stored
    PROVE  /\ \A x \in S : OldRank(S, x) \in 0..(Cardinality(S) - 1)
           /\ \A x, y \in S : OldRank(S, x) < OldRank(S, y) <=> OlderThan(x, y)
           /\ \A n \in 1..Cardinality(S) : \E x \in S : OldRank(S, x) = n - 1
<1> DEFINE R == {p \in S \X S : OlderThan(p[1], p[2])}
           rank == [x \in S |-> Cardinality({y \in S : <<y, x>> \in R})]
<1>1. \A x, y \in S : <<x, y>> \in R <=> OlderThan(x, y)
  OBVIOUS
<1> HIDE DEF R
<1>2. /\ \A x, y, z \in S : <<x, y>> \in R /\ <<y, z>> \in R => <<x, z>> \in R
      /\ \A x \in S : <<x, x>> \notin R
      /\ \A x, y \in S : x # y => <<x, y>> \in R \/ <<y, x>> \in R
  <2>1. \A x \in S : x \in Nat /\ stored[x].at \in Int
    BY LinesAre
  <2> QED
    BY <1>1, <2>1, SMTT(40) DEF OlderThan
<1>3. \A x \in S : rank[x] = OldRank(S, x)
  <2> SUFFICES ASSUME NEW x \in S PROVE rank[x] = OldRank(S, x)
    OBVIOUS
  <2>1. {y \in S : <<y, x>> \in R} = {y \in S : OlderThan(y, x)}
    BY <1>1
  <2> QED
    BY <2>1 DEF OldRank
<1>4. rank = [x \in S |-> Cardinality({y \in S : <<y, x>> \in R})]
  OBVIOUS
<1>5. IsFiniteSet(S)
  BY LinesAre
<1> HIDE DEF rank
<1>6. IsOrder(S, R)
  BY <1>2 DEF IsOrder
<1>7. AreRanks(S, R, rank)
  BY <1>4, <1>5, <1>6, Ranks
<1> QED
  BY <1>1, <1>3, <1>7 DEF AreRanks

LEMMA NewRanks ==
    ASSUME stored \in Seq(LogLines), NEW S, S \subseteq DOMAIN stored
    PROVE  /\ \A x \in S : NewRank(S, x) = Cardinality(S) - 1 - OldRank(S, x)
           /\ \A n \in 1..Cardinality(S) : \E x \in S : NewRank(S, x) = n - 1
<1>1. ASSUME NEW x \in S PROVE NewRank(S, x) = Cardinality(S) - 1 - OldRank(S, x)
  <2> DEFINE A == {j \in S : OlderThan(j, x)}
             B == {j \in S : NewestFirst(j, x)}
  <2>1. \A j \in S : j \in Nat /\ stored[j].at \in Int
    BY LinesAre
  <2>2. A \cap {x} = {} /\ A \cap B = {} /\ {x} \cap B = {} /\ S = A \cup {x} \cup B
    BY <2>1 DEF OlderThan, NewestFirst
  <2>3. IsFiniteSet(S)
    BY LinesAre
  <2>4. A \subseteq S /\ B \subseteq S /\ {x} \subseteq S
    OBVIOUS
  <2>5. OldRank(S, x) = Cardinality(A) /\ NewRank(S, x) = Cardinality(B)
    BY DEF OldRank, NewRank
  <2> DEFINE C == {x}
  <2> HIDE DEF A, B, C
  <2>6. /\ Cardinality(S) = Cardinality(A) + Cardinality({x}) + Cardinality(B)
        /\ Cardinality(A) \in Nat /\ Cardinality(B) \in Nat
    <3>1. S = A \cup C \cup B
      BY <2>2 DEF C
    <3>2. A \cap C = {} /\ A \cap B = {} /\ C \cap B = {} /\ A \subseteq S /\ B \subseteq S /\ C \subseteq S
      BY <2>2, <2>4 DEF C
    <3>3. Cardinality(A \cup C \cup B) = Cardinality(A) + Cardinality(C) + Cardinality(B)
      BY <2>3, <3>2, ApartAddUp
    <3>4. Cardinality(A) \in Nat /\ Cardinality(B) \in Nat
      BY <2>3, <3>2, FS_Subset, FS_CardinalityType
    <3> QED
      BY <3>1, <3>3, <3>4 DEF C
  <2>7. Cardinality({x}) = 1
    BY FS_Singleton
  <2> QED
    BY <2>5, <2>6, <2>7
<1>2. ASSUME NEW n \in 1..Cardinality(S) PROVE \E x \in S : NewRank(S, x) = n - 1
  <2>0. Cardinality(S) \in Nat
    BY LinesAre
  <2>1. Cardinality(S) + 1 - n \in 1..Cardinality(S)
    BY <2>0
  <2>2. PICK x \in S : OldRank(S, x) = (Cardinality(S) + 1 - n) - 1
    BY <2>1, OldRanks
  <2> QED
    BY <1>1, <2>0, <2>2
<1> QED
  BY <1>1, <1>2

(* The screen of newest lines, read from the newest down or off the end of *)
(* all of them in order, is the same.                                      *)
LEMMA NewestReadBothWays ==
    ASSUME stored \in Seq(LogLines), NEW S, S \subseteq DOMAIN stored
    PROVE  LastOf(StableByInstant(S)) = Reverse(InOrder(NewestLines(S), NewestFirst))
<1> DEFINE n == Cardinality(S)
           m == IF n <= LogLimit THEN n ELSE LogLimit
           T == NewestLines(S)
           inOrder == StableByInstant(S)
           newestFirst == InOrder(T, NewestFirst)
<1>1. n \in Nat /\ IsFiniteSet(S) /\ LogLimit \in Nat \ {0}
  BY LinesAre, LogReadsAssumption
<1> HIDE DEF n
<1>2. m \in Nat /\ m <= n /\ m <= LogLimit /\ (m = n \/ m = LogLimit)
  BY <1>1
<1>3. /\ \A x \in S : OldRank(S, x) \in 0..(n - 1)
      /\ \A x, y \in S : OldRank(S, x) = OldRank(S, y) => x = y
      /\ \A k \in 1..n : \E x \in S : OldRank(S, x) = k - 1
  <2>1. \A x, y \in S : x # y => OlderThan(x, y) \/ OlderThan(y, x)
    BY LinesAre, SMTT(40) DEF OlderThan
  <2>2. /\ \A x \in S : OldRank(S, x) \in 0..(n - 1)
        /\ \A x, y \in S : OldRank(S, x) < OldRank(S, y) <=> OlderThan(x, y)
        /\ \A k \in 1..n : \E x \in S : OldRank(S, x) = k - 1
    BY OldRanks DEF n
  <2>3. \A x, y \in S : OldRank(S, x) = OldRank(S, y) => x = y
    <3> SUFFICES ASSUME NEW x \in S, NEW y \in S, OldRank(S, x) = OldRank(S, y), x # y PROVE FALSE
      OBVIOUS
    <3>1. OldRank(S, x) \in Int /\ OldRank(S, y) \in Int
      BY <1>1, <2>2
    <3> QED
      BY <2>1, <2>2, <3>1
  <2> QED
    BY <2>2, <2>3
<1>4. inOrder = [k \in 1..n |-> CHOOSE i \in S : OldRank(S, i) = k - 1]
  BY DEF StableByInstant, InOrder, OldRank, OlderThan, n
<1>5. \A k \in 1..n : inOrder[k] \in S /\ OldRank(S, inOrder[k]) = k - 1
  BY <1>3, <1>4
<1>6. T = {i \in S : OldRank(S, i) >= n - m}
  <2>1. \A i \in S : NewRank(S, i) < LogLimit <=> OldRank(S, i) >= n - m
    <3> SUFFICES ASSUME NEW i \in S PROVE NewRank(S, i) < LogLimit <=> OldRank(S, i) >= n - m
      OBVIOUS
    <3>1. NewRank(S, i) = n - 1 - OldRank(S, i)
      BY NewRanks DEF n
    <3>2. OldRank(S, i) \in 0..(n - 1)
      BY <1>3
    <3> HIDE DEF m
    <3> QED
      BY <1>1, <1>2, <3>1, <3>2
  <2>2. T = {i \in S : NewRank(S, i) < LogLimit}
    BY DEF NewestLines, NewRank
  <2> HIDE DEF T, m
  <2> QED
    BY <2>1, <2>2
<1> HIDE DEF T, inOrder, m
<1>7. T \subseteq S /\ T \subseteq DOMAIN stored /\ IsFiniteSet(T)
  BY <1>1, <1>6, FS_Subset
<1>8. Cardinality(T) = m
  <2> DEFINE g == [k \in 1..m |-> inOrder[n - m + k]]
  <2>1. \A k \in 1..m : n - m + k \in 1..n
    BY <1>1, <1>2
  <2>2. \A k \in 1..m : g[k] \in T /\ OldRank(S, g[k]) = n - m + k - 1
    <3> SUFFICES ASSUME NEW k \in 1..m PROVE g[k] \in T /\ OldRank(S, g[k]) = n - m + k - 1
      OBVIOUS
    <3> DEFINE l == n - m + k
    <3>0. l \in 1..n
      BY <2>1
    <3> HIDE DEF l
    <3>1. inOrder[l] \in S /\ OldRank(S, inOrder[l]) = l - 1
      BY <1>5, <3>0
    <3> USE DEF l
    <3> QED
      BY <1>1, <1>2, <1>6, <3>1
  <2>3. g \in Injection(1..m, T)
    <3>1. \A k, l \in 1..m : g[k] = g[l] => k = l
      <4> SUFFICES ASSUME NEW k \in 1..m, NEW l \in 1..m, g[k] = g[l] PROVE k = l
        OBVIOUS
      <4>1. n - m + k - 1 = n - m + l - 1
        BY <2>2
      <4> QED
        BY <1>1, <1>2, <4>1
    <3> QED
      BY <2>2, <3>1 DEF Injection, IsInjective
  <2>4. \A x \in T : \E k \in 1..m : g[k] = x
    <3> SUFFICES ASSUME NEW x \in T PROVE \E k \in 1..m : g[k] = x
      OBVIOUS
    <3> DEFINE k == OldRank(S, x) - (n - m) + 1
    <3>1. OldRank(S, x) \in 0..(n - 1) /\ OldRank(S, x) >= n - m
      BY <1>3, <1>6
    <3>2. k \in 1..m /\ n - m + k - 1 = OldRank(S, x)
      BY <1>1, <1>2, <3>1
    <3> HIDE DEF k
    <3>3. g[k] \in S /\ OldRank(S, g[k]) = OldRank(S, x)
      BY <1>7, <2>2, <3>2
    <3> QED
      BY <1>3, <1>7, <3>2, <3>3
  <2>5. g \in Bijection(1..m, T)
    BY <2>3, <2>4 DEF Bijection, Surjection, Injection, IsInjective
  <2>6. IsFiniteSet(1..m) /\ Cardinality(1..m) = m
    BY <1>2, FS_Interval
  <2> QED
    BY <2>5, <2>6, FS_Bijection DEF ExistsBijection
<1>9. \A x \in T : NewRank(T, x) = n - 1 - OldRank(S, x)
  <2> SUFFICES ASSUME NEW x \in T PROVE NewRank(T, x) = n - 1 - OldRank(S, x)
    OBVIOUS
  <2>1. {j \in T : NewestFirst(j, x)} = {j \in S : NewestFirst(j, x)}
    <3> SUFFICES ASSUME NEW j \in S, NewestFirst(j, x) PROVE j \in T
      BY <1>7
    <3>1. OlderThan(x, j)
      BY LinesAre, <1>7 DEF NewestFirst, OlderThan
    <3>2. OldRank(S, x) < OldRank(S, j)
      BY <1>7, <3>1, OldRanks
    <3>3. OldRank(S, x) \in Int /\ OldRank(S, j) \in Int /\ OldRank(S, x) >= n - m
      BY <1>1, <1>3, <1>6
    <3> QED
      BY <1>1, <1>2, <1>6, <3>2, <3>3
  <2>2. NewRank(T, x) = NewRank(S, x)
    BY <2>1 DEF NewRank
  <2> QED
    BY <1>7, <2>2, NewRanks DEF n
<1>10. newestFirst = [k \in 1..m |-> CHOOSE i \in T : NewRank(T, i) = k - 1]
  BY <1>8 DEF InOrder, NewRank
<1>11. \A k \in 1..m : newestFirst[k] \in T /\ NewRank(T, newestFirst[k]) = k - 1
  BY <1>7, <1>8, <1>10, NewRanks
<1>12. \A k \in 1..m : newestFirst[m - k + 1] = inOrder[n - m + k]
  <2> SUFFICES ASSUME NEW k \in 1..m PROVE newestFirst[m - k + 1] = inOrder[n - m + k]
    OBVIOUS
  <2>1. m - k + 1 \in 1..m /\ n - m + k \in 1..n
    BY <1>1, <1>2
  <2> DEFINE x == newestFirst[m - k + 1]
             y == inOrder[n - m + k]
  <2>2. x \in T /\ NewRank(T, x) = (m - k + 1) - 1
    BY <1>11, <2>1
  <2>3. y \in S /\ OldRank(S, y) = (n - m + k) - 1
    BY <1>5, <2>1
  <2> HIDE DEF x, y
  <2>4. NewRank(T, x) = n - 1 - OldRank(S, x) /\ OldRank(S, x) \in Int /\ x \in S
    BY <1>1, <1>3, <1>7, <1>9, <2>2
  <2>5. OldRank(S, x) = OldRank(S, y)
    BY <1>1, <1>2, <2>2, <2>3, <2>4
  <2> QED
    BY <1>3, <2>3, <2>4, <2>5 DEF x, y
<1>13. Reverse(newestFirst) = [k \in 1..m |-> newestFirst[m - k + 1]]
  <2>1. Len(newestFirst) = m
    BY <1>2, <1>10
  <2> QED
    BY <2>1 DEF Reverse
<1>14. LastOf(inOrder) = [k \in 1..m |-> inOrder[n - m + k]]
  <2>1. Len(inOrder) = n /\ inOrder \in Seq(S)
    BY <1>1, <1>4, <1>5
  <2>2. Max({1, n - LogLimit + 1}) = n - m + 1
    <3>1. n - LogLimit + 1 \in Int /\ 1 \in Int
      BY <1>1
    <3>2. Max({1, n - LogLimit + 1}) = IF 1 <= n - LogLimit + 1 THEN n - LogLimit + 1 ELSE 1
      BY <3>1, MaxOfTwo
    <3> QED
      BY <1>1, <1>2, <3>2
  <2>3. LastOf(inOrder) = SubSeq(inOrder, n - m + 1, n)
    BY <2>1, <2>2 DEF LastOf
  <2>4. n - m + 1 \in 1..(n + 1)
    BY <1>1, <1>2
  <2>5. \A k \in (n - m + 1)..n : inOrder[k] \in S
    BY <1>1, <1>2, <1>5
  <2>6. /\ SubSeq(inOrder, n - m + 1, n) \in Seq(S)
        /\ Len(SubSeq(inOrder, n - m + 1, n)) = IF n - m + 1 <= n THEN n - (n - m + 1) + 1 ELSE 0
        /\ \A k \in 1..(n - (n - m + 1) + 1) : SubSeq(inOrder, n - m + 1, n)[k] = inOrder[(n - m + 1) + k - 1]
    <3> DEFINE from == n - m + 1
    <3>1. from \in Int /\ n \in Int /\ \A k \in from..n : inOrder[k] \in S
      BY <1>1, <1>2, <2>5
    <3> HIDE DEF from
    <3>2. /\ SubSeq(inOrder, from, n) \in Seq(S)
          /\ Len(SubSeq(inOrder, from, n)) = IF from <= n THEN n - from + 1 ELSE 0
          /\ \A k \in 1..(n - from + 1) : SubSeq(inOrder, from, n)[k] = inOrder[from + k - 1]
      BY <3>1, SubSeqProperties
    <3> QED
      BY <3>2 DEF from
  <2> DEFINE q == SubSeq(inOrder, n - m + 1, n)
  <2>7. q \in Seq(S) /\ Len(q) = m
    BY <1>1, <1>2, <2>6
  <2>8. \A k \in 1..m : q[k] = inOrder[n - m + k]
    BY <1>1, <1>2, <2>6
  <2>9. q = [k \in 1..m |-> inOrder[n - m + k]]
    <3> HIDE DEF q
    <3> QED
      BY <2>7, <2>8
  <2> QED
    BY <2>3, <2>9
<1> QED
  BY <1>12, <1>13, <1>14 DEF T, inOrder

(* The tail holds positions of what is stored, the last of them, and what  *)
(* it dropped is the rest.                                                 *)
LogInv == LogsTypeOK /\ tail \in Seq(DOMAIN stored)

LEMMA EvictedIs ==
    ASSUME NEW S, NEW lines \in Seq(S)
    PROVE  Evicted(lines) \in Seq(S) /\ Len(Evicted(lines)) <= MaxLines
<1> DEFINE n == Len(lines)
           young == {i \in DOMAIN lines : ~Aged(lines, i)}
           T == young \cup {n + 1}
           first == Min(T)
           start == Max({first, n - MaxLines + 1})
<1>1. n \in Nat /\ DOMAIN lines = 1..n /\ MaxLines \in Nat \ {0}
  BY LogReadsAssumption
<1>2. first \in 1..(n + 1)
  <2>1. T \subseteq 1..(n + 1) /\ T # {}
    BY <1>1
  <2>2. T \subseteq Int /\ IsFiniteSet(T)
    <3>1. IsFiniteSet(1..(n + 1))
      BY <1>1, FS_Interval
    <3>2. 1..(n + 1) \subseteq Int
      BY <1>1
    <3> HIDE DEF T, n
    <3>3. T \subseteq Int
      BY <2>1, <3>2
    <3>4. IsFiniteSet(T)
      BY <2>1, <3>1, FS_Subset
    <3> QED
      BY <3>3, <3>4
  <2> HIDE DEF T, n
  <2>3. first \in T
    BY <2>1, <2>2, FiniteBounds
  <2> QED
    BY <2>1, <2>3
<1> HIDE DEF first
<1>3. start \in 1..(n + 1) /\ n - start + 1 <= MaxLines
  <2>1. start = IF first <= n - MaxLines + 1 THEN n - MaxLines + 1 ELSE first
    <3>1. first \in Int /\ n - MaxLines + 1 \in Int
      BY <1>1, <1>2
    <3> QED
      BY <3>1, MaxOfTwo
  <2> HIDE DEF start, n
  <2> QED
    BY <1>1, <1>2, <2>1
<1>4. Evicted(lines) = SubSeq(lines, start, n)
  BY DEF Evicted, first
<1>5. \A i \in start..n : lines[i] \in S
  BY <1>1, <1>3
<1> HIDE DEF start, n
<1>6. /\ SubSeq(lines, start, n) \in Seq(S)
      /\ Len(SubSeq(lines, start, n)) = IF start <= n THEN n - start + 1 ELSE 0
  BY <1>1, <1>3, <1>5, SubSeqProperties
<1> QED
  BY <1>1, <1>3, <1>4, <1>6

LEMMA LogStart == LogsInit => LogInv
<1> SUFFICES ASSUME LogsInit PROVE LogInv
  OBVIOUS
<1>1. logNow = 0 /\ tail = <<>> /\ droppedLines = 0 /\ stored = <<>> /\ batches = 0
  BY DEF LogsInit
<1>2. MaxNow \in Nat /\ MaxBatches \in Nat /\ MaxLines \in Nat
  BY LogReadsAssumption
<1>3. Len(tail) = 0 /\ Len(stored) = 0 /\ ToSet(tail) = {}
  BY <1>1 DEF ToSet
<1> QED
  BY <1>1, <1>2, <1>3 DEF LogInv, LogsTypeOK

LEMMA InToSet ==
    ASSUME NEW S, NEW s \in Seq(S)
    PROVE  ToSet(s) \subseteq S
BY DEF ToSet

LEMMA AppendLinesKeeps ==
    ASSUME LogInv, NEW batch \in BoundedSeq(LogLines, 2) \ {<<>>}, AppendLines(batch)
    PROVE  LogInv'
<1>1. batch \in Seq(LogLines)
  BY ShortSequences
<1>2. /\ stored \in Seq(LogLines) /\ tail \in Seq(DOMAIN stored) /\ droppedLines = Len(stored) - Len(tail)
      /\ logNow \in 0..MaxNow /\ batches \in 0..MaxBatches
  BY DEF LogInv, LogsTypeOK
<1>3. /\ stored' = stored \o batch /\ batches < MaxBatches /\ batches' = batches + 1 /\ logNow' = logNow
  BY DEF AppendLines
<1> DEFINE new == [i \in DOMAIN batch |-> Len(stored) + i]
           lines == tail \o new
<1>4. tail' = Evicted(lines) /\ droppedLines' = droppedLines + Len(lines) - Len(tail')
  BY DEF AppendLines, EvictTo
<1>5. /\ stored' \in Seq(LogLines) /\ Len(stored') = Len(stored) + Len(batch)
      /\ DOMAIN stored' = 1..(Len(stored) + Len(batch))
  BY <1>1, <1>2, <1>3
<1>6. new \in Seq(DOMAIN stored') /\ Len(new) = Len(batch)
  <2>1. DOMAIN batch = 1..Len(batch) /\ Len(batch) \in Nat /\ Len(stored) \in Nat
    BY <1>1, <1>2
  <2>2. \A i \in 1..Len(batch) : Len(stored) + i \in DOMAIN stored'
    BY <1>5, <2>1
  <2> QED
    BY <2>1, <2>2
<1>7. tail \in Seq(DOMAIN stored')
  <2>1. DOMAIN stored \subseteq DOMAIN stored'
    BY <1>1, <1>2, <1>5
  <2> QED
    BY <1>2, <2>1
<1> HIDE DEF new
<1>8. lines \in Seq(DOMAIN stored') /\ Len(lines) = Len(tail) + Len(batch)
  BY <1>6, <1>7
<1> HIDE DEF lines
<1>9. tail' \in Seq(DOMAIN stored') /\ Len(tail') <= MaxLines
  BY <1>4, <1>8, EvictedIs
<1>10. droppedLines' = Len(stored') - Len(tail')
  <2>1. Len(tail) \in Nat /\ Len(tail') \in Nat /\ Len(batch) \in Nat /\ Len(stored) \in Nat
    BY <1>1, <1>2, <1>9
  <2> QED
    BY <1>2, <1>4, <1>5, <1>8, <2>1
<1>11. ToSet(tail') \subseteq DOMAIN stored'
  BY <1>9, InToSet
<1>12. batches' \in 0..MaxBatches
  BY <1>2, <1>3, LogReadsAssumption
<1> QED
  BY <1>2, <1>3, <1>5, <1>9, <1>10, <1>11, <1>12 DEF LogInv, LogsTypeOK

LEMMA LogStep == LogInv /\ [LogsNext]_logVars => LogInv'
<1> SUFFICES ASSUME LogInv, [LogsNext]_logVars PROVE LogInv'
  OBVIOUS
<1>1. CASE LogClock
  <2>1. logNow' \in 0..MaxNow /\ UNCHANGED <<tail, droppedLines, stored, batches>>
    BY <1>1, LogReadsAssumption DEF LogClock, LogInv, LogsTypeOK
  <2> QED
    BY <2>1 DEF LogInv, LogsTypeOK
<1>2. CASE ReadTail
  <2>1. /\ UNCHANGED <<logNow, stored, batches>> /\ tail' = Evicted(tail)
        /\ droppedLines' = droppedLines + Len(tail) - Len(tail')
    BY <1>2 DEF ReadTail, EvictTo
  <2>2. tail' \in Seq(DOMAIN stored) /\ Len(tail') <= MaxLines
    BY <2>1, EvictedIs DEF LogInv
  <2>3. ToSet(tail') \subseteq DOMAIN stored'
    BY <2>1, <2>2, InToSet
  <2>4. droppedLines' = Len(stored') - Len(tail')
    <3>1. Len(tail) \in Nat /\ Len(tail') \in Nat /\ Len(stored) \in Nat /\ droppedLines = Len(stored) - Len(tail)
      BY <2>2 DEF LogInv, LogsTypeOK
    <3> QED
      BY <2>1, <3>1
  <2> QED
    BY <2>1, <2>2, <2>3, <2>4 DEF LogInv, LogsTypeOK
<1>3. CASE UNCHANGED logVars
  BY <1>3 DEF logVars, LogInv, LogsTypeOK
<1>4. CASE \E batch \in BoundedSeq(LogLines, 2) \ {<<>>} : AppendLines(batch)
  BY <1>4, AppendLinesKeeps
<1> QED
  BY <1>1, <1>2, <1>3, <1>4 DEF LogsNext

(* What the tail still holds of a window is what the store has of it.      *)
LEMMA WholeIsTheStore ==
    ASSUME LogInv, NEW w \in LogWindows, Whole(w)
    PROVE  TailMatches(w) = StoreMatches(w) /\ (w.key = EveryKey => TailMatches(w) = Grouped(w))
<1>1. ToSet(tail) \subseteq DOMAIN stored
  BY DEF LogInv, LogsTypeOK
<1>2. \A i \in DOMAIN stored : Inside(w, i) => i \in ToSet(tail)
  BY DEF Whole
<1>3. w.key = EveryKey => \A i : WithKey(w, i)
  BY DEF WithKey
<1> QED
  BY <1>1, <1>2, <1>3 DEF TailMatches, StoreMatches, Grouped

LEMMA RowsOpenToTheirLines ==
    ASSUME LogInv, NEW w \in LogWindows, NEW k \in DOMAIN TailClusters(w).clusters
    PROVE  TailClusters(w).clusters[k].count = Cardinality(TailMatches([w EXCEPT !.key = k]))
<1> DEFINE M == TailMatches(w)
           fold == Fold(M)
           v == [w EXCEPT !.key = k]
<1>1. /\ M \subseteq DOMAIN stored /\ stored \in Seq(LogLines)
      /\ \A i \in M : WithKey(w, i)
  BY DEF TailMatches, LogInv, LogsTypeOK
<1>2. TailClusters(w).clusters = [l \in Top(fold) |-> fold[l]]
  BY DEF TailClusters, ClusterRead
<1> HIDE DEF M
<1>3. k \in Top(fold) /\ k \in DOMAIN fold
  BY <1>2 DEF Top
<1>4. DOMAIN fold = {stored[i].key : i \in M}
  BY DEF Fold
<1>5. fold[k] = Cluster({i \in M : stored[i].key = k})
  BY <1>3, <1>4 DEF Fold
<1>6. TailClusters(w).clusters[k].count = Cardinality({i \in M : stored[i].key = k})
  BY <1>2, <1>3, <1>5 DEF Cluster
<1>7. k # EveryKey
  BY <1>1, <1>3, <1>4, LinesAre
<1>8. v.start = w.start /\ v.end = w.end /\ v.level = w.level /\ v.key = k
  BY LogReadsAssumption
<1> HIDE DEF v, fold
<1>9. \A i : /\ Inside(v, i) <=> Inside(w, i)
             /\ AtLevel(v, i) <=> AtLevel(w, i)
             /\ WithKey(v, i) <=> stored[i].key = k
  BY <1>7, <1>8 DEF Inside, AtLevel, WithKey
<1>10. PICK i \in M : stored[i].key = k
  BY <1>3, <1>4
<1>11. \A j \in DOMAIN stored : stored[j].key = k => WithKey(w, j)
  BY <1>1, <1>7, <1>10 DEF WithKey
<1>12. ToSet(tail) \subseteq DOMAIN stored
  BY DEF LogInv, LogsTypeOK
<1>13. TailMatches(v) = {j \in M : stored[j].key = k}
  BY <1>9, <1>11, <1>12 DEF TailMatches, M
<1> QED
  BY <1>6, <1>13 DEF v

LEMMA LogGood == LogInv => TailAnswersAsStore /\ EmptyScreenSaysWhy
<1> SUFFICES ASSUME LogInv PROVE TailAnswersAsStore /\ EmptyScreenSaysWhy
  OBVIOUS
<1>1. /\ stored \in Seq(LogLines) /\ Len(stored) \in Nat /\ ToSet(tail) \subseteq DOMAIN stored
      /\ droppedLines = Len(stored) - Len(tail) /\ Len(tail) \in Nat /\ tail \in Seq(DOMAIN stored)
  BY DEF LogInv, LogsTypeOK
<1>2. TailAnswersAsStore
  <2> SUFFICES ASSUME NEW w \in LogWindows, Whole(w)
               PROVE  /\ w.key = EveryKey => TailClusters(w) = StoreClusters(w)
                      /\ TailLinesOf(w) = StoreLinesOf(w)
                      /\ \A k \in DOMAIN TailClusters(w).clusters :
                             TailClusters(w).clusters[k].count = Cardinality(TailMatches([w EXCEPT !.key = k]))
    BY DEF TailAnswersAsStore
  <2>1. w.key = EveryKey => TailClusters(w) = StoreClusters(w)
    BY WholeIsTheStore DEF TailClusters, StoreClusters
  <2>2. TailLinesOf(w) = StoreLinesOf(w)
    <3>1. StoreMatches(w) \subseteq DOMAIN stored
      BY DEF StoreMatches, Grouped
    <3>2. LastOf(StableByInstant(StoreMatches(w))) = Reverse(InOrder(NewestLines(StoreMatches(w)), NewestFirst))
      BY <1>1, <3>1, NewestReadBothWays
    <3> QED
      BY <3>2, WholeIsTheStore DEF TailLinesOf, StoreLinesOf
  <2> QED
    BY <2>1, <2>2, RowsOpenToTheirLines
<1>3. EmptyScreenSaysWhy
  <2> SUFFICES ASSUME NEW w \in LogWindows
               PROVE  /\ WhyEmpty(w) = "never" <=> stored = <<>>
                      /\ WhyEmpty(w) = "aged out" => stored # <<>> /\ tail = <<>>
                      /\ (TailMatches(w) = {} /\ Whole(w) /\ tail # <<>> /\ \E i \in DOMAIN stored : Inside(w, i))
                             => WhyEmpty(w) = "filtered"
    BY DEF EmptyScreenSaysWhy
  <2>1. tail = <<>> <=> ToSet(tail) = {}
    <3>1. ASSUME tail # <<>> PROVE ToSet(tail) # {}
      <4>1. 1 \in DOMAIN tail
        BY <1>1, <3>1
      <4> QED
        BY <4>1 DEF ToSet
    <3> QED
      BY <3>1 DEF ToSet
  <2>2. stored = <<>> <=> ToSet(tail) = {} /\ droppedLines = 0
    <3>1. stored = <<>> => DOMAIN stored = {}
      OBVIOUS
    <3>2. tail = <<>> => Len(tail) = 0
      OBVIOUS
    <3>3. stored = <<>> <=> Len(stored) = 0
      BY <1>1
    <3> QED
      BY <1>1, <2>1, <3>1, <3>2, <3>3
  <2> DEFINE inTail == ToSet(tail)
             present == {i \in inTail : Inside(w, i)}
             ats == {stored[i].at : i \in inTail}
             none == IF w.end <= Min(ats) THEN "before" ELSE IF w.start >= Max(ats) THEN "after" ELSE "between"
             some == IF TailMatches(w) = {} THEN "filtered" ELSE "not empty"
  <2>3. none \in {"before", "after", "between"} /\ some \in {"filtered", "not empty"}
    OBVIOUS
  <2>4. /\ ToSet(tail) = {} /\ droppedLines = 0 => WhyEmpty(w) = "never"
        /\ ToSet(tail) = {} /\ droppedLines # 0 => WhyEmpty(w) = "aged out"
        /\ ToSet(tail) # {} /\ present = {} => WhyEmpty(w) = none
        /\ ToSet(tail) # {} /\ present # {} => WhyEmpty(w) = some
    BY DEF WhyEmpty
  <2> HIDE DEF none
  <2>5. ASSUME TailMatches(w) = {}, Whole(w), tail # <<>>, \E i \in DOMAIN stored : Inside(w, i)
        PROVE  WhyEmpty(w) = "filtered"
    <3>1. present # {}
      BY <2>5 DEF Whole
    <3> QED
      BY <2>1, <2>4, <2>5, <3>1
  <2> HIDE DEF some, present
  <2>6. WhyEmpty(w) = "never" <=> stored = <<>>
    BY <2>2, <2>3, <2>4
  <2>7. WhyEmpty(w) = "aged out" => stored # <<>> /\ tail = <<>>
    BY <2>1, <2>2, <2>3, <2>4
  <2> QED
    BY <2>5, <2>6, <2>7
<1> QED
  BY <1>2, <1>3
-----------------------------------------------------------------------------
(* The memo and the reads of the store.  What a read carries with it: an   *)
(* append that was done when it began is still done, and a table that it   *)
(* found empty was read before any append.  And a memo that says "empty"   *)
(* is right of the appends that are done, or is known to be overtaken.     *)
ReadIs(rd, sent, done) ==
    \/ rd = NotReading
    \/ /\ rd \in [pc : {"lists", "coverage"}, before : BOOLEAN, quiet : BOOLEAN]
       /\ rd.before => done > 0
    \/ /\ rd.pc = "remember" /\ rd.seen \in 0..sent /\ rd.held \in {"empty", "held"}
       /\ rd.before => rd.held # "empty"
       /\ rd.held = "empty" => rd.seen = 0
    \/ rd.pc = "answered" /\ (rd.emptyEver /\ ~rd.misled => ~rd.before)

MemoIs(memo, overtaken, done) ==
    /\ memo \in {"none", "empty", "held"} /\ overtaken \in BOOLEAN
    /\ memo = "empty" /\ ~overtaken => done <= 0

ReadsAre(reads, sent, done) ==
    /\ reads = [r \in Readers |-> reads[r]]
    /\ \A r \in Readers : ReadIs(reads[r], sent, done)

TableIs ==
    /\ accepted \in Seq(StoredFlows) /\ appends \in Nat /\ appending \in 0..appends
    /\ flowSource = "store" => (accepted = <<>> <=> appends = 0)
    /\ flowSource # "store" => coverage = "none" /\ reading = [r \in Readers |-> NotReading]

ReadInv == TableIs /\ MemoIs(coverage, misread, Done) /\ ReadsAre(reading, appends, Done)

LEMMA ReadStart == FlowsInit => ReadInv
<1> SUFFICES ASSUME FlowsInit PROVE ReadInv
  OBVIOUS
<1>1. /\ accepted = <<>> /\ appends = 0 /\ appending = 0 /\ coverage = "none" /\ misread = FALSE
      /\ reading = [r \in Readers |-> NotReading]
  BY DEF FlowsInit
<1>2. TableIs
  BY <1>1 DEF TableIs
<1>3. MemoIs(coverage, misread, Done)
  BY <1>1 DEF MemoIs
<1>4. ReadsAre(reading, appends, Done)
  BY <1>1 DEF ReadsAre, ReadIs
<1> QED
  BY <1>2, <1>3, <1>4 DEF ReadInv

(* What holds of the reads holds after more was appended.                  *)
LEMMA ReadsStay ==
    ASSUME NEW reads, NEW sent \in Nat, NEW done \in Int, NEW sent2 \in Nat, NEW done2 \in Int,
           ReadsAre(reads, sent, done), sent <= sent2, done <= done2
    PROVE  ReadsAre(reads, sent2, done2)
<1>1. ASSUME NEW rd, ReadIs(rd, sent, done) PROVE ReadIs(rd, sent2, done2)
  BY <1>1 DEF ReadIs
<1> QED
  BY <1>1 DEF ReadsAre

LEMMA ReadsPut ==
    ASSUME NEW reads, NEW sent, NEW done, NEW q \in Readers, NEW rd,
           ReadsAre(reads, sent, done), ReadIs(rd, sent, done)
    PROVE  ReadsAre([reads EXCEPT ![q] = rd], sent, done)
<1> DEFINE new == [reads EXCEPT ![q] = rd]
<1>1. reads = [r \in Readers |-> reads[r]]
  BY DEF ReadsAre
<1>2. new = [r \in Readers |-> new[r]] /\ \A r \in Readers : new[r] = IF r = q THEN rd ELSE reads[r]
  BY <1>1
<1> HIDE DEF new
<1> QED
  BY <1>2 DEF ReadsAre, new

LEMMA AppendsKeepReads ==
    ASSUME ReadInv, NEW batch \in BoundedSeq(StoredFlows, 2) \ {<<>>},
           RollupAppend(batch) \/ StoreCommit(batch)
    PROVE  ReadInv'
<1>1. batch \in Seq(StoredFlows) /\ batch # <<>>
  BY ShortSequences
<1>2. /\ accepted \in Seq(StoredFlows) /\ appends \in Nat /\ appending \in 0..appends
      /\ flowSource # "store" => coverage = "none" /\ reading = [r \in Readers |-> NotReading]
  BY DEF ReadInv, TableIs
<1>3. /\ accepted' = accepted \o batch /\ appends' = appends + 1
      /\ UNCHANGED <<flowSource, coverage, reading, misread>>
  BY DEF RollupAppend, StoreCommit
<1>4. \/ flowSource = "rollup" /\ appending' = appending
      \/ flowSource = "store" /\ appending' = appending + 1
  BY DEF RollupAppend, StoreCommit
<1>5. accepted' \in Seq(StoredFlows) /\ accepted' # <<>> /\ appends' \in Nat /\ appends' # 0
  BY <1>1, <1>2, <1>3
<1>6. appending' \in 0..appends' /\ Done \in Int /\ Done' \in Int /\ Done <= Done'
  BY <1>2, <1>3, <1>4 DEF Done
<1>7. TableIs'
  <2>1. flowSource' # "store" => coverage' = "none" /\ reading' = [r \in Readers |-> NotReading]
    BY <1>2, <1>3
  <2>2. flowSource' = "store" => (accepted' = <<>> <=> appends' = 0)
    BY <1>5
  <2> QED
    BY <1>5, <1>6, <2>1, <2>2 DEF TableIs
<1>8. MemoIs(coverage, misread, Done)'
  <2>1. CASE flowSource = "store"
    <3>1. "rollup" # "store"
      OBVIOUS
    <3>2. Done' = Done
      BY <1>2, <1>3, <1>4, <2>1, <3>1 DEF Done
    <3> QED
      BY <1>3, <3>2 DEF ReadInv, MemoIs
  <2>2. CASE flowSource # "store"
    <3>1. coverage' = "none" /\ misread' \in BOOLEAN
      BY <1>2, <1>3, <2>2 DEF ReadInv, MemoIs
    <3> QED
      BY <3>1 DEF MemoIs
  <2> QED
    BY <2>1, <2>2
<1>9. ReadsAre(reading', appends', Done')
  <2>1. ReadsAre(reading, appends, Done) /\ appends <= appends'
    BY <1>2, <1>3 DEF ReadInv
  <2>2. ReadsAre(reading, appends', Done')
    BY <1>2, <1>5, <1>6, <2>1, ReadsStay
  <2> QED
    BY <1>3, <2>2
<1>10. ReadsAre(reading, appends, Done)'
  BY <1>9
<1> QED
  BY <1>7, <1>8, <1>10 DEF ReadInv

(* The end of an append, and the expiry: the memo is dropped.              *)
LEMMA DropsKeepReads ==
    ASSUME ReadInv, StoreAppended \/ CoverageExpires
    PROVE  ReadInv'
<1>1. /\ UNCHANGED <<flowSource, accepted, appends, reading>> /\ coverage' = "none" /\ misread' = FALSE
      /\ appending' = appending \/ (appending > 0 /\ appending' = appending - 1)
  BY DEF StoreAppended, CoverageExpires
<1>2. appends \in Nat /\ appending \in 0..appends
  BY DEF ReadInv, TableIs
<1>3. appending' \in 0..appends' /\ Done \in Int /\ Done' \in Int /\ Done <= Done'
  BY <1>1, <1>2 DEF Done
<1>4. TableIs'
  BY <1>1, <1>3 DEF ReadInv, TableIs
<1>5. MemoIs(coverage, misread, Done)'
  BY <1>1 DEF MemoIs
<1>6. ReadsAre(reading, appends, Done')
  BY <1>2, <1>3, ReadsStay DEF ReadInv
<1>7. ReadsAre(reading, appends, Done)'
  BY <1>1, <1>6
<1> QED
  BY <1>4, <1>5, <1>7 DEF ReadInv

LEMMA RequestsKeepReads ==
    ASSUME ReadInv, NEW q \in Readers,
           \/ \E w \in ReadWindows, protocols \in ReadProtocols : ReadSeries(q, w, protocols)
           \/ ReadLists(q) \/ ReadCoverage(q) \/ Remember(q) \/ ReadAnswered(q)
    PROVE  ReadInv'
<1> DEFINE Right(rd) == /\ ReadIs(rd, appends, Done) /\ MemoIs(coverage', misread', Done)
                        /\ flowSource = "store" /\ reading' = [reading EXCEPT ![q] = rd]
<1>1. /\ appends \in Nat /\ appending \in 0..appends /\ Done \in Int
      /\ flowSource = "store" => (accepted = <<>> <=> appends = 0)
      /\ Done <= appends
  BY DEF ReadInv, TableIs, Done
<1>2. /\ MemoIs(coverage, misread, Done) /\ ReadIs(reading[q], appends, Done)
      /\ reading[q] # NotReading => flowSource = "store"
  BY DEF ReadInv, TableIs, ReadsAre
<1>3. /\ NotReading.pc = "idle" /\ "idle" # "lists" /\ "idle" # "coverage" /\ "idle" # "remember"
      /\ "idle" # "answered" /\ "lists" # "remember" /\ "lists" # "answered" /\ "coverage" # "remember"
      /\ "coverage" # "answered" /\ "remember" # "answered" /\ "empty" # "held" /\ "none" # "empty"
  BY DEF NotReading
<1>4. \E rd : Right(rd)
  <2>1. ASSUME NEW w \in ReadWindows, NEW protocols \in ReadProtocols, ReadSeries(q, w, protocols)
        PROVE  Right([pc |-> "lists", before |-> Done > 0, quiet |-> RowsIn(w, protocols) = {}])
    <3>1. flowSource = "store" /\ UNCHANGED <<coverage, misread>>
      BY <2>1 DEF ReadSeries
    <3>2. ReadIs([pc |-> "lists", before |-> Done > 0, quiet |-> RowsIn(w, protocols) = {}], appends, Done)
      <4> DEFINE late == Done > 0
                 none == RowsIn(w, protocols) = {}
      <4>1. late \in BOOLEAN /\ none \in BOOLEAN /\ (late => Done > 0)
        OBVIOUS
      <4> HIDE DEF late, none
      <4>2. ReadIs([pc |-> "lists", before |-> late, quiet |-> none], appends, Done)
        BY <4>1 DEF ReadIs
      <4> QED
        BY <4>2 DEF late, none
    <3> QED
      BY <1>2, <2>1, <3>1, <3>2 DEF ReadSeries
  <2>2. ASSUME ReadLists(q) PROVE Right([reading[q] EXCEPT !.pc = "coverage"])
    <3>1. /\ reading[q].pc = "lists" /\ UNCHANGED <<coverage, misread>>
          /\ reading' = [reading EXCEPT ![q] = [reading[q] EXCEPT !.pc = "coverage"]]
      BY <2>2 DEF ReadLists
    <3>2. /\ reading[q] \in [pc : {"lists", "coverage"}, before : BOOLEAN, quiet : BOOLEAN]
          /\ reading[q].before => Done > 0
      BY <1>2, <1>3, <3>1 DEF ReadIs
    <3>3. ReadIs([reading[q] EXCEPT !.pc = "coverage"], appends, Done)
      BY <3>2 DEF ReadIs
    <3>4. flowSource = "store"
      BY <1>2, <1>3, <3>1
    <3> QED
      BY <1>2, <3>1, <3>3, <3>4
  <2>3. ASSUME ReadCoverage(q) PROVE \E rd : Right(rd)
    <3>1. reading[q].pc = "coverage" /\ UNCHANGED <<coverage, misread>>
      BY <2>3 DEF ReadCoverage
    <3>2. reading[q].before => Done > 0
      BY <1>2, <1>3, <3>1 DEF ReadIs
    <3>3. flowSource = "store"
      BY <1>2, <1>3, <3>1
    <3>4. CASE coverage # "none"
      <4> DEFINE rd == [pc |-> "answered", before |-> reading[q].before, misled |-> misread',
                        emptyEver |-> reading[q].quiet /\ coverage = "empty"]
      <4>1. reading' = [reading EXCEPT ![q] = rd]
        BY <2>3, <3>4 DEF ReadCoverage, Answer
      <4>2. coverage = "empty" /\ ~misread' => Done <= 0
        BY <1>2, <3>1 DEF MemoIs
      <4>3. rd.pc = "answered" /\ (rd.emptyEver /\ ~rd.misled => ~rd.before)
        <5>1. ASSUME rd.emptyEver, ~rd.misled, rd.before PROVE FALSE
          <6>1. coverage = "empty" /\ ~misread' /\ reading[q].before
            BY <5>1
          <6> HIDE DEF rd
          <6> QED
            BY <1>1, <3>2, <4>2, <6>1
        <5> QED
          BY <5>1
      <4>4. ReadIs(rd, appends, Done)
        BY <4>3 DEF ReadIs
      <4> HIDE DEF rd
      <4> QED
        BY <1>2, <3>1, <3>3, <4>1, <4>4
    <3>5. CASE coverage = "none"
      <4> DEFINE rd == [pc |-> "remember", before |-> reading[q].before, quiet |-> reading[q].quiet,
                        seen |-> appends, held |-> IF accepted = <<>> THEN "empty" ELSE "held"]
      <4>1. reading' = [reading EXCEPT ![q] = rd]
        BY <2>3, <3>5 DEF ReadCoverage
      <4>2. rd.held = "empty" => appends = 0
        BY <1>1, <1>3, <3>3
      <4>3. /\ rd.pc = "remember" /\ rd.seen \in 0..appends /\ rd.held \in {"empty", "held"}
            /\ rd.before => rd.held # "empty"
            /\ rd.held = "empty" => rd.seen = 0
        BY <1>1, <3>2, <4>2
      <4>4. ReadIs(rd, appends, Done)
        BY <4>3 DEF ReadIs
      <4> HIDE DEF rd
      <4> QED
        BY <1>2, <3>1, <3>3, <4>1, <4>4
    <3> QED
      BY <3>4, <3>5
  <2>4. ASSUME Remember(q) PROVE \E rd : Right(rd)
    <3> DEFINE rd == [pc |-> "answered", before |-> reading[q].before, misled |-> misread',
                      emptyEver |-> reading[q].quiet /\ reading[q].held = "empty"]
    <3>1. /\ reading[q].pc = "remember" /\ coverage' = reading[q].held
          /\ misread' = (Done > reading[q].seen) /\ reading' = [reading EXCEPT ![q] = rd]
      BY <2>4 DEF Remember, Answer
    <3>2. /\ reading[q].held \in {"empty", "held"} /\ reading[q].seen \in 0..appends
          /\ reading[q].before => reading[q].held # "empty"
          /\ reading[q].held = "empty" => reading[q].seen = 0
      BY <1>2, <1>3, <3>1 DEF ReadIs
    <3>3. flowSource = "store"
      BY <1>2, <1>3, <3>1
    <3>4. MemoIs(coverage', misread', Done)
      <4>1. misread' \in BOOLEAN /\ (reading[q].held = "empty" /\ ~misread' => Done <= 0)
        <5> DEFINE late == Done > reading[q].seen
        <5>1. late \in BOOLEAN /\ (reading[q].held = "empty" /\ ~late => Done <= 0)
          BY <1>1, <3>2
        <5>2. misread' = late
          BY <3>1
        <5> HIDE DEF late
        <5> QED
          BY <5>1, <5>2
      <4>2. coverage' \in {"none", "empty", "held"} /\ (coverage' = "empty" /\ ~misread' => Done <= 0)
        BY <3>1, <3>2, <4>1
      <4> QED
        BY <4>1, <4>2 DEF MemoIs
    <3>5. rd.pc = "answered" /\ (rd.emptyEver /\ ~rd.misled => ~rd.before)
      BY <3>2
    <3>6. ReadIs(rd, appends, Done)
      BY <3>5 DEF ReadIs
    <3> HIDE DEF rd
    <3> QED
      BY <3>1, <3>3, <3>4, <3>6
  <2>5. ASSUME ReadAnswered(q) PROVE Right(NotReading)
    <3>1. /\ reading[q].pc = "answered" /\ reading' = [reading EXCEPT ![q] = NotReading]
          /\ UNCHANGED <<coverage, misread>>
      BY <2>5 DEF ReadAnswered
    <3>2. flowSource = "store"
      BY <1>2, <1>3, <3>1
    <3> QED
      BY <1>2, <3>1, <3>2 DEF ReadIs
  <2> QED
    BY <2>1, <2>2, <2>3, <2>4, <2>5
<1>5. UNCHANGED <<flowSource, accepted, appends, appending>>
  BY DEF ReadSeries, ReadLists, ReadCoverage, Remember, ReadAnswered
<1>6. PICK rd : Right(rd)
  BY <1>4
<1>7. TableIs'
  BY <1>5, <1>6 DEF ReadInv, TableIs
<1>8. MemoIs(coverage, misread, Done)'
  BY <1>5, <1>6 DEF Done
<1>9. ReadsAre(reading, appends, Done) /\ ReadIs(rd, appends, Done) /\ reading' = [reading EXCEPT ![q] = rd]
  BY <1>6 DEF ReadInv
<1>10. ReadsAre(reading', appends, Done)
  BY <1>9, ReadsPut
<1>11. ReadsAre(reading, appends, Done)'
  BY <1>5, <1>10 DEF Done
<1> QED
  BY <1>7, <1>8, <1>11 DEF ReadInv

LEMMA ReadStep == ReadInv /\ [FlowsNext]_flowVars => ReadInv'
<1> SUFFICES ASSUME ReadInv, [FlowsNext]_flowVars PROVE ReadInv'
  OBVIOUS
<1>1. CASE UNCHANGED flowVars
  BY <1>1 DEF flowVars, ReadInv, TableIs, MemoIs, ReadsAre, Done
<1> QED
  BY <1>1, AppendsKeepReads, DropsKeepReads, RequestsKeepReads DEF FlowsNext

LEMMA ReadGood == ReadInv => EmptyMeansEmpty
<1> SUFFICES ASSUME ReadInv, NEW r \in Readers, reading[r].pc = "answered"
             PROVE  reading[r].emptyEver /\ ~reading[r].misled => ~reading[r].before
  BY DEF EmptyMeansEmpty
<1>1. NotReading.pc = "idle" /\ "idle" # "answered" /\ "answered" # "lists" /\ "answered" # "coverage"
      /\ "remember" # "answered"
  BY DEF NotReading
<1>2. ReadIs(reading[r], appends, Done)
  BY DEF ReadInv, ReadsAre
<1> QED
  BY <1>1, <1>2 DEF ReadIs
-----------------------------------------------------------------------------
(* The newest of the first k flows that were fed, up to a size.            *)
NewestOf(window, size, k) ==
    /\ window \in Seq(DriftFlows) /\ k \in 0..Len(fedFlows)
    /\ Len(window) = IF k <= size THEN k ELSE size
    /\ \A i \in 1..Len(window) : window[i] = fedFlows[k - Len(window) + i]

LEMMA NewestIs ==
    ASSUME NEW flows \in Seq(DriftFlows), NEW n \in Nat \ {0}
    PROVE  /\ Newest(n, flows) \in Seq(DriftFlows)
           /\ Len(Newest(n, flows)) = IF Len(flows) <= n THEN Len(flows) ELSE n
           /\ \A i \in 1..Len(Newest(n, flows)) :
                  Newest(n, flows)[i] = flows[Len(flows) - Len(Newest(n, flows)) + i]
<1> DEFINE k == Len(flows)
           from == Max({1, k - n + 1})
           s == SubSeq(flows, from, k)
<1>1. k \in Nat /\ DOMAIN flows = 1..k
  OBVIOUS
<1>2. from = IF 1 <= k - n + 1 THEN k - n + 1 ELSE 1
  <2>1. 1 \in Int /\ k - n + 1 \in Int
    BY <1>1
  <2> HIDE DEF k
  <2> QED
    BY <2>1, MaxOfTwo
<1>3. Newest(n, flows) = s
  BY DEF Newest
<1>4. \A i \in from..k : flows[i] \in DriftFlows
  BY <1>1, <1>2
<1> HIDE DEF from
<1>5. from \in Int
  BY <1>1, <1>2
<1>6. /\ s \in Seq(DriftFlows) /\ Len(s) = IF from <= k THEN k - from + 1 ELSE 0
      /\ \A i \in 1..(k - from + 1) : s[i] = flows[from + i - 1]
  BY <1>1, <1>4, <1>5, SubSeqProperties
<1> HIDE DEF s, k
<1>7. Len(s) = IF k <= n THEN k ELSE n
  BY <1>1, <1>2, <1>6
<1>8. \A i \in 1..Len(s) : s[i] = flows[k - Len(s) + i]
  <2> TAKE i \in 1..Len(s)
  <2>1. i \in 1..(k - from + 1) /\ from + i - 1 = k - Len(s) + i
    BY <1>1, <1>2, <1>6, <1>7
  <2> QED
    BY <1>6, <2>1
<1> QED
  BY <1>3, <1>6, <1>7, <1>8 DEF k

(* The newest of the newest, and the newest of a longer line.              *)
LEMMA NewestOfNewest ==
    ASSUME fedFlows \in Seq(DriftFlows), NEW big \in Nat \ {0}, NEW small \in Nat \ {0}, small <= big,
           NEW k, NEW window, NewestOf(window, big, k)
    PROVE  NewestOf(Newest(small, window), small, k)
<1> DEFINE new == Newest(small, window)
<1>1. /\ window \in Seq(DriftFlows) /\ k \in 0..Len(fedFlows) /\ k \in Nat
      /\ Len(window) = IF k <= big THEN k ELSE big
      /\ \A i \in 1..Len(window) : window[i] = fedFlows[k - Len(window) + i]
  BY DEF NewestOf
<1>2. /\ new \in Seq(DriftFlows) /\ Len(new) = IF Len(window) <= small THEN Len(window) ELSE small
      /\ \A i \in 1..Len(new) : new[i] = window[Len(window) - Len(new) + i]
  BY <1>1, NewestIs
<1> HIDE DEF new
<1>0. Len(window) \in Nat /\ Len(new) \in Nat /\ Len(new) <= Len(window)
  <2>1. Len(window) \in Nat /\ Len(new) \in Nat
    BY <1>1, <1>2
  <2>2. Len(window) <= small => Len(new) = Len(window)
    BY <1>2
  <2>3. ~(Len(window) <= small) => Len(new) = small
    BY <1>2
  <2> QED
    BY <2>1, <2>2, <2>3
<1>3. Len(new) = IF k <= small THEN k ELSE small
  <2>1. k <= small => Len(window) = k /\ Len(new) = k
    BY <1>1, <1>2
  <2>2. ~(k <= small) => Len(window) >= small /\ Len(new) = small
    BY <1>1, <1>2
  <2> QED
    BY <2>1, <2>2
<1>4. \A i \in 1..Len(new) : new[i] = fedFlows[k - Len(new) + i]
  <2> TAKE i \in 1..Len(new)
  <2> DEFINE j == Len(window) - Len(new) + i
  <2>1. j \in 1..Len(window) /\ k - Len(window) + j = k - Len(new) + i
    <3>1. PICK a, b : a = Len(window) /\ b = Len(new)
      OBVIOUS
    <3>2. a \in Nat /\ b \in Nat /\ b <= a /\ i \in 1..b /\ k \in Nat
      BY <1>0, <1>1, <3>1
    <3>3. a - b + i \in 1..a /\ k - a + (a - b + i) = k - b + i
      BY <3>2
    <3> QED
      BY <3>1, <3>3
  <2>2. new[i] = window[j] /\ window[j] = fedFlows[k - Len(window) + j]
    <3>1. new[i] = window[j]
      BY <1>2
    <3> HIDE DEF j
    <3> QED
      BY <1>1, <2>1, <3>1
  <2> QED
    BY <2>1, <2>2
<1>5. NewestOf(new, small, k)
  BY <1>1, <1>2, <1>3, <1>4 DEF NewestOf
<1> QED
  BY <1>5 DEF new

LEMMA FedKeepsNewest ==
    ASSUME fedFlows \in Seq(DriftFlows), NEW f \in DriftFlows, fedFlows' = Append(fedFlows, f),
           NEW window, NEW size, NEW k, NewestOf(window, size, k)
    PROVE  NewestOf(window, size, k)'
<1>1. /\ window \in Seq(DriftFlows) /\ k \in 0..Len(fedFlows)
      /\ Len(window) = IF k <= size THEN k ELSE size
      /\ \A i \in 1..Len(window) : window[i] = fedFlows[k - Len(window) + i]
  BY DEF NewestOf
<1>2. Len(fedFlows') = Len(fedFlows) + 1 /\ \A j \in 1..Len(fedFlows) : fedFlows'[j] = fedFlows[j]
  OBVIOUS
<1>3. Len(window) \in Nat /\ Len(window) <= k
  <2>1. Len(window) \in Nat
    BY <1>1
  <2> QED
    BY <1>1, <2>1
<1>4. \A i \in 1..Len(window) : window[i] = fedFlows'[k - Len(window) + i]
  <2> TAKE i \in 1..Len(window)
  <2>1. k - Len(window) + i \in 1..Len(fedFlows)
    BY <1>1, <1>3
  <2> QED
    BY <1>1, <1>2, <2>1
<1>5. k \in 0..Len(fedFlows')
  BY <1>1, <1>2
<1> QED
  BY <1>1, <1>4, <1>5 DEF NewestOf

GaugeIs(gauge, f) ==
    \/ gauge = NoGauge
    \/ \E window : NewestOf(window, RecentFlows, gauge.upTo) /\ gauge.counts = Distribution(window, f)

MonitorIs(t) ==
    \/ t.at \in {"none", "waiting", "ended"}
    \/ /\ t \in [at : {"publishing"}, window : Seq(DriftFlows), upTo : Nat, left : SUBSET Features]
       /\ NewestOf(t.window, RecentFlows, t.upTo)

(* The buffer holds the newest flows; the thread publishes what was newest *)
(* when it copied it; and a gauge shows what was newest when its cycle     *)
(* read it, however long ago that is.                                      *)
MonitorInv ==
    /\ fedFlows \in Seq(DriftFlows) /\ NewestOf(flowBuffer, BufferedFlows, Len(fedFlows))
    /\ MonitorIs(monitor)
    /\ gauges = [f \in Features |-> gauges[f]] /\ \A f \in Features : GaugeIs(gauges[f], f)

LEMMA MonitorStart == DriftInit => MonitorInv
<1> SUFFICES ASSUME DriftInit PROVE MonitorInv
  OBVIOUS
<1>1. /\ fedFlows = <<>> /\ flowBuffer = <<>> /\ monitor = NoThread
      /\ gauges = [f \in Features |-> NoGauge]
  BY DEF DriftInit
<1>2. <<>> \in Seq(DriftFlows) /\ Len(<<>>) = 0
  OBVIOUS
<1>3. BufferedFlows \in Int /\ 0 <= BufferedFlows
  BY DriftAssumption
<1>4. NewestOf(flowBuffer, BufferedFlows, Len(fedFlows))
  BY <1>1, <1>2, <1>3 DEF NewestOf
<1> QED
  BY <1>1, <1>2, <1>4 DEF MonitorInv, MonitorIs, GaugeIs, NoThread

LEMMA MonitorStep == MonitorInv /\ [DriftNext]_driftVars => MonitorInv'
<1> SUFFICES ASSUME MonitorInv, [DriftNext]_driftVars PROVE MonitorInv'
  OBVIOUS
<1>0. /\ fedFlows \in Seq(DriftFlows) /\ NewestOf(flowBuffer, BufferedFlows, Len(fedFlows))
      /\ MonitorIs(monitor)
      /\ gauges = [f \in Features |-> gauges[f]] /\ \A f \in Features : GaugeIs(gauges[f], f)
  BY DEF MonitorInv
<1>1. ASSUME NEW f \in DriftFlows, AddFlows(f) PROVE MonitorInv'
  <2>1. /\ fedFlows' = Append(fedFlows, f) /\ flowBuffer' = Newest(BufferedFlows, Append(flowBuffer, f))
        /\ UNCHANGED <<monitor, gauges>>
    BY <1>1 DEF AddFlows, Kept
  <2>2. NewestOf(flowBuffer, BufferedFlows, Len(fedFlows))'
    <3> DEFINE longer == Append(flowBuffer, f)
    <3>1. /\ flowBuffer \in Seq(DriftFlows)
          /\ Len(flowBuffer) = IF Len(fedFlows) <= BufferedFlows THEN Len(fedFlows) ELSE BufferedFlows
          /\ \A i \in 1..Len(flowBuffer) : flowBuffer[i] = fedFlows[Len(fedFlows) - Len(flowBuffer) + i]
      BY <1>0 DEF NewestOf
    <3>2. longer \in Seq(DriftFlows) /\ Len(longer) = Len(flowBuffer) + 1
          /\ longer[Len(flowBuffer) + 1] = f /\ \A i \in 1..Len(flowBuffer) : longer[i] = flowBuffer[i]
      BY <3>1
    <3>3. fedFlows' \in Seq(DriftFlows) /\ Len(fedFlows') = Len(fedFlows) + 1
          /\ fedFlows'[Len(fedFlows) + 1] = f /\ \A i \in 1..Len(fedFlows) : fedFlows'[i] = fedFlows[i]
      BY <1>0, <2>1
    <3> HIDE DEF longer
    <3>4. BufferedFlows \in Nat \ {0} /\ RecentFlows \in Nat
      BY DriftAssumption
    <3>5. PICK new : new = flowBuffer'
      OBVIOUS
    <3>6. /\ new \in Seq(DriftFlows)
          /\ Len(new) = IF Len(longer) <= BufferedFlows THEN Len(longer) ELSE BufferedFlows
          /\ \A i \in 1..Len(new) : new[i] = longer[Len(longer) - Len(new) + i]
      BY <2>1, <3>2, <3>4, <3>5, NewestIs DEF longer
    <3>7. Len(fedFlows) \in Nat /\ Len(flowBuffer) \in Nat /\ Len(new) \in Nat
      BY <1>0, <3>1, <3>6
    <3>8. Len(new) = IF Len(fedFlows') <= BufferedFlows THEN Len(fedFlows') ELSE BufferedFlows
      BY <3>1, <3>2, <3>3, <3>4, <3>6, <3>7
    <3>9. \A i \in 1..Len(new) : new[i] = fedFlows'[Len(fedFlows') - Len(new) + i]
      <4> TAKE i \in 1..Len(new)
      <4>1. PICK j : j = Len(longer) - Len(new) + i
        OBVIOUS
      <4>2. j \in 1..Len(longer) /\ new[i] = longer[j]
        BY <3>2, <3>6, <3>7, <4>1, SMTT(40)
      <4>3. CASE j = Len(flowBuffer) + 1
        <5>1. Len(fedFlows') - Len(new) + i = Len(fedFlows) + 1
          BY <3>2, <3>3, <3>7, <4>1, <4>3, SMTT(40)
        <5> QED
          BY <3>2, <3>3, <4>2, <4>3, <5>1
      <4>4. CASE j # Len(flowBuffer) + 1
        <5>1. j \in 1..Len(flowBuffer) /\ Len(fedFlows') - Len(new) + i = Len(fedFlows) - Len(flowBuffer) + j
          BY <3>2, <3>3, <3>7, <4>1, <4>2, <4>4, SMTT(40)
        <5>2. Len(fedFlows) - Len(flowBuffer) + j \in 1..Len(fedFlows)
          BY <3>1, <3>4, <3>7, <5>1
        <5> QED
          BY <3>1, <3>2, <3>3, <4>2, <5>1, <5>2
      <4> QED
        BY <4>3, <4>4
    <3>10. NewestOf(new, BufferedFlows, Len(fedFlows))'
      BY <3>3, <3>6, <3>7, <3>8, <3>9 DEF NewestOf
    <3> QED
      BY <3>5, <3>10
  <2>3. MonitorIs(monitor)'
    <3>1. PICK t : t = monitor
      OBVIOUS
    <3>2. MonitorIs(t)
      BY <1>0, <3>1
    <3>3. CASE t.at \in {"none", "waiting", "ended"}
      BY <2>1, <3>1, <3>3 DEF MonitorIs
    <3>4. CASE NewestOf(t.window, RecentFlows, t.upTo)
      <4>1. NewestOf(t.window, RecentFlows, t.upTo)'
        BY <1>0, <2>1, <3>4, FedKeepsNewest
      <4> QED
        BY <2>1, <3>1, <3>2, <4>1 DEF MonitorIs
    <3> QED
      BY <3>2, <3>3, <3>4 DEF MonitorIs
  <2>4. ASSUME NEW g \in Features PROVE GaugeIs(gauges[g], g)'
    <3>1. PICK gauge : gauge = gauges[g]
      OBVIOUS
    <3>2. GaugeIs(gauge, g) /\ gauges'[g] = gauge
      BY <1>0, <2>1, <3>1
    <3>3. ASSUME NEW window, NewestOf(window, RecentFlows, gauge.upTo)
          PROVE  NewestOf(window, RecentFlows, gauge.upTo)'
      BY <1>0, <2>1, <3>3, FedKeepsNewest
    <3>4. GaugeIs(gauge, g)'
      BY <3>2, <3>3 DEF GaugeIs
    <3> QED
      BY <3>2, <3>4
  <2>5. fedFlows' \in Seq(DriftFlows) /\ gauges' = [g \in Features |-> gauges'[g]]
    BY <1>0, <2>1
  <2> QED
    BY <2>2, <2>3, <2>4, <2>5 DEF MonitorInv
<1>2. CASE StartMonitor \/ StopMonitor \/ MonitorEnds
  <2>1. /\ UNCHANGED <<fedFlows, flowBuffer, gauges>>
        /\ monitor' = monitor \/ monitor' = [at |-> "waiting"] \/ monitor' = [at |-> "ended"]
    BY <1>2 DEF StartMonitor, StopMonitor, MonitorEnds
  <2>2. MonitorIs([at |-> "waiting"]) /\ MonitorIs([at |-> "ended"])
    BY DEF MonitorIs
  <2>3. MonitorIs(monitor')
    BY <1>0, <2>1, <2>2
  <2> QED
    BY <1>0, <2>1, <2>3 DEF MonitorInv, MonitorIs, GaugeIs, NewestOf
<1>3. CASE MonitorCycle
  <2> DEFINE window == Newest(RecentFlows, flowBuffer)
  <2>1. /\ UNCHANGED <<fedFlows, flowBuffer, gauges>>
        /\ monitor' = [at |-> "publishing", window |-> window, upTo |-> Len(fedFlows), left |-> Features]
    BY <1>3 DEF MonitorCycle
  <2>2. BufferedFlows \in Nat \ {0} /\ RecentFlows \in Nat \ {0} /\ RecentFlows <= BufferedFlows
    BY DriftAssumption
  <2>3. NewestOf(window, RecentFlows, Len(fedFlows))
    BY <1>0, <2>2, NewestOfNewest
  <2> HIDE DEF window
  <2>4. window \in Seq(DriftFlows) /\ Len(fedFlows) \in Nat
    BY <1>0, <2>3 DEF NewestOf
  <2>5. MonitorIs(monitor')
    BY <2>1, <2>3, <2>4 DEF MonitorIs
  <2> QED
    BY <1>0, <2>1, <2>5 DEF MonitorInv, MonitorIs, GaugeIs, NewestOf
<1>4. ASSUME NEW feature \in Features, PublishGauge(feature) PROVE MonitorInv'
  <2> DEFINE gauge == [upTo |-> monitor.upTo, counts |-> Distribution(monitor.window, feature)]
  <2>1. /\ monitor.at = "publishing" /\ UNCHANGED <<fedFlows, flowBuffer>>
        /\ gauges' = [gauges EXCEPT ![feature] = gauge]
        /\ \/ monitor' = [monitor EXCEPT !.left = @ \ {feature}]
           \/ monitor' = [at |-> IF monitorOn THEN "waiting" ELSE "ended"]
    BY <1>4 DEF PublishGauge
  <2>2. /\ monitor \in [at : {"publishing"}, window : Seq(DriftFlows), upTo : Nat, left : SUBSET Features]
        /\ NewestOf(monitor.window, RecentFlows, monitor.upTo)
    <3>1. "publishing" \notin {"none", "waiting", "ended"}
      OBVIOUS
    <3> QED
      BY <1>0, <2>1, <3>1 DEF MonitorIs
  <2>3. MonitorIs(monitor')
    <3>1. CASE monitor' = [monitor EXCEPT !.left = @ \ {feature}]
      <4>1. /\ monitor' \in [at : {"publishing"}, window : Seq(DriftFlows), upTo : Nat, left : SUBSET Features]
            /\ monitor'.window = monitor.window /\ monitor'.upTo = monitor.upTo
        BY <2>2, <3>1
      <4> QED
        BY <2>2, <4>1 DEF MonitorIs
    <3>2. CASE monitor' = [at |-> IF monitorOn THEN "waiting" ELSE "ended"]
      <4>1. monitor'.at \in {"waiting", "ended"}
        BY <3>2
      <4> QED
        BY <4>1 DEF MonitorIs
    <3> QED
      BY <2>1, <3>1, <3>2
  <2>4. GaugeIs(gauge, feature)
    <3>1. gauge.upTo = monitor.upTo /\ gauge.counts = Distribution(monitor.window, feature)
      OBVIOUS
    <3> HIDE DEF gauge
    <3> QED
      BY <2>2, <3>1 DEF GaugeIs
  <2> HIDE DEF gauge
  <2>5. /\ gauges' = [f \in Features |-> gauges'[f]] /\ gauges'[feature] = gauge
        /\ \A f \in Features \ {feature} : gauges'[f] = gauges[f]
    BY <1>0, <2>1
  <2>6. \A f \in Features : GaugeIs(gauges'[f], f)
    BY <1>0, <2>4, <2>5
  <2> QED
    BY <1>0, <2>1, <2>3, <2>5, <2>6, ZenonT(40) DEF MonitorInv, MonitorIs, GaugeIs, NewestOf
<1>5. CASE UNCHANGED driftVars
  BY <1>0, <1>5 DEF driftVars, MonitorInv, MonitorIs, GaugeIs, NewestOf
<1> QED
  BY <1>1, <1>2, <1>3, <1>4, <1>5 DEF DriftNext

(* How often a value comes does not depend on which end one counts from.   *)
LEMMA CountedFromTheEnd ==
    ASSUME NEW m \in Nat, NEW P, P \subseteq 1..m
    PROVE  Cardinality({i \in 1..m : (m + 1 - i) \in P}) = Cardinality(P)
<1> DEFINE T == {i \in 1..m : (m + 1 - i) \in P}
           g == [i \in P |-> m + 1 - i]
<1>1. \A i \in P : i \in Nat /\ m + 1 - i \in 1..m /\ m + 1 - (m + 1 - i) = i
  OBVIOUS
<1>2. g \in Bijection(P, T)
  <2>1. g \in [P -> T]
    BY <1>1
  <2>2. \A i, j \in P : g[i] = g[j] => i = j
    BY <1>1
  <2>3. \A t \in T : \E i \in P : g[i] = t
    <3> TAKE t \in T
    <3>1. t \in Nat /\ m + 1 - t \in P /\ m + 1 - (m + 1 - t) = t
      OBVIOUS
    <3> WITNESS m + 1 - t \in P
    <3> QED
      BY <3>1
  <2> QED
    BY <2>1, <2>2, <2>3 DEF Bijection, Surjection, Injection, IsInjective
<1>3. IsFiniteSet(P)
  <2>1. IsFiniteSet(1..m)
    BY FS_Interval
  <2> QED
    BY <2>1, FS_Subset
<1> HIDE DEF T, g
<1>4. Cardinality(T) = Cardinality(P)
  BY <1>2, <1>3, FS_Bijection DEF ExistsBijection
<1> QED
  BY <1>4 DEF T

LEMMA MonitorGood == MonitorInv => GaugesShowTheNewest
<1> SUFFICES ASSUME MonitorInv, NEW f \in Features, gauges[f] # NoGauge
             PROVE  LET n == gauges[f].upTo
                        window == [i \in 1..Min({n, RecentFlows}) |-> fedFlows[n + 1 - i][f]] IN
                    gauges[f].counts =
                        [b \in ToSet(window) |-> Cardinality({i \in DOMAIN window : window[i] = b})]
  BY DEF GaugesShowTheNewest
<1> DEFINE n == gauges[f].upTo
           m == Min({n, RecentFlows})
           window == [i \in 1..m |-> fedFlows[n + 1 - i][f]]
<1>1. PICK w : NewestOf(w, RecentFlows, n) /\ gauges[f].counts = Distribution(w, f)
  BY DEF MonitorInv, GaugeIs
<1> HIDE DEF n
<1>2. /\ w \in Seq(DriftFlows) /\ n \in 0..Len(fedFlows) /\ fedFlows \in Seq(DriftFlows)
      /\ Len(w) = IF n <= RecentFlows THEN n ELSE RecentFlows
      /\ \A i \in 1..Len(w) : w[i] = fedFlows[n - Len(w) + i]
  BY <1>1 DEF NewestOf, MonitorInv
<1>3. n \in Int /\ n \in Nat /\ RecentFlows \in Int /\ RecentFlows \in Nat
  BY <1>2, DriftAssumption
<1>4. Len(w) = m
  BY <1>2, <1>3, MinOfTwo
<1> HIDE DEF m
<1>5. m \in Nat /\ DOMAIN w = 1..m
  BY <1>2, <1>4
<1>6. \A i \in 1..m : (m + 1 - i) \in 1..m /\ window[i] = w[m + 1 - i][f]
  <2> TAKE i \in 1..m
  <2>1. (m + 1 - i) \in 1..m /\ n - m + (m + 1 - i) = n + 1 - i
    BY <1>3, <1>5
  <2>2. w[m + 1 - i] = fedFlows[n + 1 - i]
    BY <1>2, <1>4, <2>1
  <2> QED
    BY <2>1, <2>2
<1>7. DOMAIN window = 1..m
  OBVIOUS
<1> HIDE DEF window
<1>8. \A i \in 1..m : \E j \in 1..m : window[j] = w[i][f]
  <2> TAKE i \in 1..m
  <2>1. (m + 1 - i) \in 1..m /\ m + 1 - (m + 1 - i) = i
    BY <1>5
  <2>2. window[m + 1 - i] = w[m + 1 - (m + 1 - i)][f]
    BY <1>6, <2>1
  <2> QED
    BY <2>1, <2>2
<1>9. ToSet(window) = {w[i][f] : i \in 1..m}
  <2>1. \A j \in 1..m : \E i \in 1..m : window[j] = w[i][f]
    BY <1>6
  <2> QED
    <3>1. ToSet(window) = {window[j] : j \in 1..m}
      BY <1>7 DEF ToSet
    <3> DEFINE values == {w[i][f] : i \in 1..m}
    <3>2. ASSUME NEW x \in ToSet(window) PROVE x \in values
      BY <2>1, <3>1
    <3>3. ASSUME NEW x \in values PROVE x \in ToSet(window)
      BY <1>8, <3>1
    <3> HIDE DEF values
    <3>4. ToSet(window) = values
      BY <3>2, <3>3
    <3> QED
      BY <3>4 DEF values
<1>10. ASSUME NEW b
       PROVE  Cardinality({i \in DOMAIN window : window[i] = b}) = Cardinality({i \in 1..m : w[i][f] = b})
  <2> DEFINE P == {i \in 1..m : w[i][f] = b}
  <2>1. {i \in DOMAIN window : window[i] = b} = {i \in 1..m : (m + 1 - i) \in P}
    BY <1>6, <1>7
  <2>2. P \subseteq 1..m
    OBVIOUS
  <2> HIDE DEF P
  <2>3. Cardinality({i \in 1..m : (m + 1 - i) \in P}) = Cardinality(P)
    BY <1>5, <2>2, CountedFromTheEnd
  <2> QED
    BY <2>1, <2>3 DEF P
<1>11. Distribution(w, f) = [b \in {w[i][f] : i \in 1..m} |-> Cardinality({i \in 1..m : w[i][f] = b})]
  BY <1>5 DEF Distribution
<1>12. gauges[f].counts = [b \in ToSet(window) |-> Cardinality({i \in DOMAIN window : window[i] = b})]
  BY <1>1, <1>9, <1>10, <1>11
<1> QED
  BY <1>12 DEF window, m, n
-----------------------------------------------------------------------------
(* The sum of a tally over some of its keys, as the library folds it: take *)
(* a key, add what it holds to the sum over the others.                    *)
SumStep(bag, s, g) ==
    IF s = {} THEN 0 ELSE LET k == CHOOSE x \in s : TRUE IN bag[k] + g[s \ {k}]
TallySum(bag, keys) == MapThenSumSet(LAMBDA k : bag[k], keys)

(* ... is what any function says that grows by what each key holds.        *)
LEMMA TotalIs ==
    ASSUME NEW bag, NEW keys, IsFiniteSet(keys), NEW h, h[{}] = 0,
           \A s \in SUBSET keys : \A k \in s : h[s] = bag[k] + h[s \ {k}]
    PROVE  TallySum(bag, keys) = h[keys]
<1> DEFINE sum == CHOOSE g : g = [s \in SUBSET keys |-> SumStep(bag, s, g)]
           f == [s \in SUBSET keys |-> h[s]]
<1>1. TallySum(bag, keys) = sum[keys]
  BY DEF TallySum, MapThenSumSet, MapThenFoldSet, SumStep
<1>2. f = [s \in SUBSET keys |-> SumStep(bag, s, f)]
  <2>1. ASSUME NEW s \in SUBSET keys PROVE f[s] = SumStep(bag, s, f)
    <3>1. CASE s = {}
      BY <3>1 DEF SumStep
    <3>2. CASE s # {}
      <4> DEFINE k == CHOOSE x \in s : TRUE
      <4>1. k \in s
        BY <3>2
      <4>2. f[s] = bag[k] + f[s \ {k}]
        BY <4>1
      <4> HIDE DEF f
      <4> QED
        BY <3>2, <4>2 DEF SumStep
    <3> QED
      BY <3>1, <3>2
  <2> QED
    BY <2>1
<1>3. sum = [s \in SUBSET keys |-> SumStep(bag, s, sum)]
  <2> DEFINE Is(g) == g = [s \in SUBSET keys |-> SumStep(bag, s, g)]
  <2>1. Is(f)
    BY <1>2
  <2>2. sum = CHOOSE g : Is(g)
    OBVIOUS
  <2> HIDE DEF Is, sum, f
  <2>3. Is(sum)
    BY <2>1, <2>2
  <2> QED
    BY <2>3 DEF Is
<1> HIDE DEF sum
<1> DEFINE Wrong == {s \in SUBSET keys : sum[s] # h[s]}
<1>4. Wrong = {}
  <2> SUFFICES ASSUME Wrong # {} PROVE FALSE
    OBVIOUS
  <2> DEFINE Under == {p \in Wrong \X Wrong : p[2] \subseteq p[1] /\ p[2] # p[1]}
  <2>1. IsFiniteSet(Wrong)
    <3>1. IsFiniteSet(SUBSET keys)
      BY FS_SUBSET
    <3> QED
      BY <3>1, FS_Subset
  <2>2. /\ \A x, y, z \in Wrong : <<x, y>> \in Under /\ <<y, z>> \in Under => <<x, z>> \in Under
        /\ \A x \in Wrong : <<x, x>> \notin Under
    OBVIOUS
  <2>3. PICK s \in Wrong : \A y \in Wrong : <<s, y>> \notin Under
    <3> HIDE DEF Wrong, Under
    <3> QED
      BY <2>1, <2>2, FiniteHasMaximal
  <2>4. s # {}
    BY <1>3 DEF SumStep
  <2> DEFINE k == CHOOSE x \in s : TRUE
  <2>5. k \in s
    BY <2>4
  <2>6. s \ {k} \notin Wrong
    BY <2>3, <2>5, ZenonT(40)
  <2>7. sum[s] = bag[k] + sum[s \ {k}]
    <3>1. sum[s] = SumStep(bag, s, sum)
      BY <1>3
    <3> QED
      BY <2>4, <3>1 DEF SumStep
  <2>8. sum[s \ {k}] = h[s \ {k}]
    BY <2>6
  <2>9. h[s] = bag[k] + h[s \ {k}]
    BY <2>5
  <2> QED
    BY <2>7, <2>8, <2>9
<1> QED
  BY <1>1, <1>4

(* How often a key comes in a sequence of keys, and a set of them.         *)
TimesSeen(u, k) == Cardinality({i \in DOMAIN u : u[i] = k})
TimesIn(u, s) == Cardinality({i \in DOMAIN u : u[i] \in s})

LEMMA TimesInGrows ==
    ASSUME NEW u, IsFiniteSet(DOMAIN u), NEW s, NEW k \in s
    PROVE  /\ TimesIn(u, s) = TimesSeen(u, k) + TimesIn(u, s \ {k})
           /\ TimesSeen(u, k) \in Nat /\ TimesIn(u, s \ {k}) \in Nat /\ TimesIn(u, s) \in Nat
<1> DEFINE A == {i \in DOMAIN u : u[i] = k}  B == {i \in DOMAIN u : u[i] \in s \ {k}}
           AB == {i \in DOMAIN u : u[i] \in s}
<1>1. IsFiniteSet(A) /\ IsFiniteSet(B) /\ AB = A \cup B /\ A \cap B = {}
  BY FS_Subset
<1>2. Cardinality(AB) = Cardinality(A) + Cardinality(B) - Cardinality({})
  <2> HIDE DEF A, B, AB
  <2> QED
    BY <1>1, FS_Union
<1>3. Cardinality({}) = 0 /\ Cardinality(A) \in Nat /\ Cardinality(B) \in Nat
  BY <1>1, FS_EmptySet, FS_CardinalityType
<1> HIDE DEF A, B, AB
<1>4. Cardinality(AB) = Cardinality(A) + Cardinality(B) /\ Cardinality(AB) \in Nat
  BY <1>2, <1>3
<1> QED
  BY <1>3, <1>4 DEF A, B, AB, TimesSeen, TimesIn

(* The sum of what a tally holds is how often its keys came, in the two    *)
(* places a key may come in.                                               *)
LEMMA BothGrow ==
    ASSUME NEW u, NEW v, IsFiniteSet(DOMAIN u), IsFiniteSet(DOMAIN v), NEW s, NEW k \in s
    PROVE  TimesIn(u, s) + TimesIn(v, s) =
               (TimesSeen(u, k) + TimesSeen(v, k)) + (TimesIn(u, s \ {k}) + TimesIn(v, s \ {k}))
<1>1. /\ TimesIn(u, s) = TimesSeen(u, k) + TimesIn(u, s \ {k})
      /\ TimesSeen(u, k) \in Nat /\ TimesIn(u, s \ {k}) \in Nat
  BY TimesInGrows
<1>2. /\ TimesIn(v, s) = TimesSeen(v, k) + TimesIn(v, s \ {k})
      /\ TimesSeen(v, k) \in Nat /\ TimesIn(v, s \ {k}) \in Nat
  BY TimesInGrows
<1> QED
  BY <1>1, <1>2

CountsBoth(bag, keys, u, v) == \A k \in keys : bag[k] = TimesSeen(u, k) + TimesSeen(v, k)

LEMMA TotalOfTimes ==
    ASSUME NEW bag, NEW keys, IsFiniteSet(keys), NEW u, NEW v,
           IsFiniteSet(DOMAIN u), IsFiniteSet(DOMAIN v), CountsBoth(bag, keys, u, v)
    PROVE  TallySum(bag, keys) = TimesIn(u, keys) + TimesIn(v, keys)
<1>1. TimesIn(u, {}) + TimesIn(v, {}) = 0
  <2>1. TimesIn(u, {}) = Cardinality({}) /\ TimesIn(v, {}) = Cardinality({})
    BY DEF TimesIn
  <2>2. Cardinality({}) = 0
    BY FS_EmptySet
  <2> QED
    BY <2>1, <2>2
<1>2. ASSUME NEW s \in SUBSET keys, NEW k \in s
      PROVE  TimesIn(u, s) + TimesIn(v, s) = bag[k] + (TimesIn(u, s \ {k}) + TimesIn(v, s \ {k}))
  <2>1. TimesIn(u, s) + TimesIn(v, s) =
            (TimesSeen(u, k) + TimesSeen(v, k)) + (TimesIn(u, s \ {k}) + TimesIn(v, s \ {k}))
    BY BothGrow
  <2>2. bag[k] = TimesSeen(u, k) + TimesSeen(v, k)
    BY DEF CountsBoth
  <2> QED
    BY <2>1, <2>2
<1> DEFINE h == [s \in SUBSET keys |-> TimesIn(u, s) + TimesIn(v, s)]
<1>3. h[{}] = 0 /\ h[keys] = TimesIn(u, keys) + TimesIn(v, keys)
  BY <1>1
<1>4. \A s \in SUBSET keys : \A k \in s : h[s] = bag[k] + h[s \ {k}]
  BY <1>2
<1> HIDE DEF h
<1>5. TallySum(bag, keys) = h[keys]
  BY <1>3, <1>4, TotalIs
<1> QED
  BY <1>3, <1>5

(* What a flow is tallied under: its minute and protocol, and with them    *)
(* either end, or both.                                                    *)
DimOf(f) == <<MinuteOf(f.at), f.protocol>>
FlowDims == {DimOf(f) : f \in StoredFlows}
FlowEnds == {f.src : f \in StoredFlows} \cup {f.dst : f \in StoredFlows}
NodeKeys == FlowDims \X FlowEnds
EdgeKeys == FlowDims \X FlowEnds \X FlowEnds

(* A tally has finitely many keys and holds something of each.             *)
IsTally(bag, keys) ==
    /\ bag = [k \in DOMAIN bag |-> bag[k]]
    /\ IsFiniteSet(DOMAIN bag) /\ DOMAIN bag \subseteq keys
    /\ \A k \in DOMAIN bag : bag[k] \in Nat \ {0}

HeldOf(bag, k) == IF k \in DOMAIN bag THEN bag[k] ELSE 0

(* The rollup: its entries are the keys of its nodes and edges, and they   *)
(* are no more than it has room for.                                       *)
IsRollup(r) ==
    /\ r = [buckets |-> r.buckets, nodes |-> r.nodes, edges |-> r.edges,
            entries |-> r.entries, addresses |-> r.addresses, pairs |-> r.pairs]
    /\ IsTally(r.buckets, FlowDims) /\ IsTally(r.nodes, NodeKeys) /\ IsTally(r.edges, EdgeKeys)
    /\ r.entries = Cardinality(DOMAIN r.nodes) + Cardinality(DOMAIN r.edges)
    /\ r.entries <= MaxEntries
    /\ r.addresses \in Nat /\ r.pairs \in Nat

LEMMA FlowConstants ==
    /\ RetentionMinutes \in Nat /\ MaxEntries \in Nat
    /\ \A f \in StoredFlows : /\ MinuteOf(f.at) \in Int /\ DimOf(f) \in FlowDims /\ DimOf(f)[1] = MinuteOf(f.at)
                              /\ DimOf(f)[2] = f.protocol
                              /\ <<DimOf(f), f.src>> \in NodeKeys /\ <<DimOf(f), f.dst>> \in NodeKeys
                              /\ <<DimOf(f), f.src, f.dst>> \in EdgeKeys
    /\ \A d \in FlowDims : d[1] \in Int
<1>1. RetentionMinutes \in Nat /\ MaxEntries \in Nat /\ \A f \in StoredFlows : f.at \in Int
  BY FlowReadsAssumption
<1>2. ASSUME NEW f \in StoredFlows
      PROVE  /\ MinuteOf(f.at) \in Int /\ DimOf(f) \in FlowDims /\ DimOf(f)[1] = MinuteOf(f.at)
             /\ DimOf(f)[2] = f.protocol
             /\ <<DimOf(f), f.src>> \in NodeKeys /\ <<DimOf(f), f.dst>> \in NodeKeys
             /\ <<DimOf(f), f.src, f.dst>> \in EdgeKeys
  <2>1. f.at \div 2 \in Int
    BY <1>1
  <2>2. DimOf(f) \in FlowDims /\ f.src \in FlowEnds /\ f.dst \in FlowEnds
    BY DEF FlowDims, FlowEnds
  <2>3. <<DimOf(f), f.src>> \in NodeKeys /\ <<DimOf(f), f.dst>> \in NodeKeys
        /\ <<DimOf(f), f.src, f.dst>> \in EdgeKeys
    BY <2>2 DEF NodeKeys, EdgeKeys
  <2> QED
    BY <2>1, <2>2, <2>3 DEF DimOf, MinuteOf
<1>3. ASSUME NEW d \in FlowDims PROVE d[1] \in Int
  BY <1>2 DEF FlowDims
<1> QED
  BY <1>1, <1>2, <1>3

LEMMA OneMore ==
    ASSUME NEW bag, NEW keys, IsTally(bag, keys), NEW key \in keys
    PROVE  LET more == bag (+) SetToBag({key}) IN
           /\ IsTally(more, keys) /\ DOMAIN more = DOMAIN bag \cup {key}
           /\ \A k : HeldOf(more, k) = HeldOf(bag, k) + IF k = key THEN 1 ELSE 0
<1> DEFINE more == bag (+) SetToBag({key})
<1>1. more = [k \in DOMAIN bag \cup {key} |->
                 (IF k \in DOMAIN bag THEN bag[k] ELSE 0) + (IF k \in {key} THEN 1 ELSE 0)]
  BY DEF (+), SetToBag
<1>2. /\ IsFiniteSet(DOMAIN bag) /\ DOMAIN bag \subseteq keys
      /\ \A k \in DOMAIN bag : bag[k] \in Nat \ {0}
  BY DEF IsTally
<1> HIDE DEF more
<1>3. DOMAIN more = DOMAIN bag \cup {key} /\ more = [k \in DOMAIN more |-> more[k]]
  BY <1>1
<1>4. IsFiniteSet(DOMAIN more)
  BY <1>2, <1>3, FS_AddElement
<1>5. ASSUME NEW k \in DOMAIN more
      PROVE  more[k] = (IF k \in DOMAIN bag THEN bag[k] ELSE 0) + (IF k \in {key} THEN 1 ELSE 0)
  BY <1>1, <1>5
<1>6. ASSUME NEW k \in DOMAIN more PROVE more[k] \in Nat \ {0}
  BY <1>2, <1>3, <1>5
<1>7. ASSUME NEW k PROVE HeldOf(more, k) = HeldOf(bag, k) + IF k = key THEN 1 ELSE 0
  <2>1. CASE k \in DOMAIN more
    BY <1>5, <2>1 DEF HeldOf
  <2>2. CASE k \notin DOMAIN more
    BY <1>3, <2>2 DEF HeldOf
  <2> QED
    BY <2>1, <2>2
<1>8. IsTally(more, keys)
  BY <1>2, <1>3, <1>4, <1>6 DEF IsTally
<1> QED
  BY <1>3, <1>7, <1>8 DEF more

(* A key that a tally gains takes one of the entries there is room for.    *)
LEMMA OneMoreEntry ==
    ASSUME NEW bag, NEW keys, IsTally(bag, keys), NEW key \in keys, NEW other \in Nat, NEW entries,
           entries = Cardinality(DOMAIN bag) + other, entries <= MaxEntries,
           key \in DOMAIN bag \/ entries < MaxEntries
    PROVE  LET more == bag (+) SetToBag({key})
               n == IF key \in DOMAIN bag THEN entries ELSE entries + 1 IN
           n = Cardinality(DOMAIN more) + other /\ n <= MaxEntries
<1> DEFINE more == bag (+) SetToBag({key})
<1>1. DOMAIN more = DOMAIN bag \cup {key}
  BY OneMore
<1> HIDE DEF more
<1>2. IsFiniteSet(DOMAIN bag) /\ Cardinality(DOMAIN bag) \in Nat
  BY FS_CardinalityType DEF IsTally
<1>3. CASE key \in DOMAIN bag
  <2>1. DOMAIN more = DOMAIN bag
    BY <1>1, <1>3
  <2> QED
    BY <1>3, <2>1 DEF more
<1>4. CASE key \notin DOMAIN bag
  <2>1. Cardinality(DOMAIN more) = Cardinality(DOMAIN bag) + 1
    BY <1>1, <1>2, <1>4, FS_AddElement
  <2>2. MaxEntries \in Nat /\ entries < MaxEntries
    BY <1>4, FlowConstants
  <2>3. entries + 1 = Cardinality(DOMAIN more) + other /\ entries + 1 <= MaxEntries
    BY <1>2, <2>1, <2>2
  <2> QED
    BY <1>4, <2>3 DEF more
<1> QED
  BY <1>3, <1>4

LEMMA CountedNode ==
    ASSUME NEW r, IsRollup(r), NEW key \in NodeKeys
    PROVE  LET c == CountedIn(r, "nodes", key) IN
           /\ IsRollup(c) /\ c.buckets = r.buckets /\ c.edges = r.edges
           /\ c.addresses = r.addresses /\ c.pairs = r.pairs
           /\ Tracks(r, "nodes", key) =>
                  \A k : HeldOf(c.nodes, k) = HeldOf(r.nodes, k) + IF k = key THEN 1 ELSE 0
<1> DEFINE c == CountedIn(r, "nodes", key)
           more == r.nodes (+) SetToBag({key})
           n == IF key \in DOMAIN r.nodes THEN r.entries ELSE r.entries + 1
<1>1. CASE ~Tracks(r, "nodes", key)
  BY <1>1 DEF CountedIn
<1>2. CASE Tracks(r, "nodes", key)
  <2>1. r = [buckets |-> r.buckets, nodes |-> r.nodes, edges |-> r.edges,
             entries |-> r.entries, addresses |-> r.addresses, pairs |-> r.pairs]
    BY DEF IsRollup
  <2>2. c = [buckets |-> r.buckets, nodes |-> more, edges |-> r.edges,
             entries |-> n, addresses |-> r.addresses, pairs |-> r.pairs]
    <3>1. c = [r EXCEPT !["nodes"] = more, !.entries = n]
      BY <1>2 DEF CountedIn
    <3> HIDE DEF more, n, c
    <3> QED
      BY <2>1, <3>1
  <2>3. /\ IsTally(r.buckets, FlowDims) /\ IsTally(r.nodes, NodeKeys) /\ IsTally(r.edges, EdgeKeys)
        /\ r.addresses \in Nat /\ r.pairs \in Nat
    BY DEF IsRollup
  <2>4. /\ IsTally(more, NodeKeys)
        /\ \A k : HeldOf(more, k) = HeldOf(r.nodes, k) + IF k = key THEN 1 ELSE 0
    BY <2>3, OneMore, ZenonT(40)
  <2>5. n = Cardinality(DOMAIN more) + Cardinality(DOMAIN r.edges) /\ n <= MaxEntries
    <3>1. Cardinality(DOMAIN r.nodes) \in Nat /\ Cardinality(DOMAIN r.edges) \in Nat
      BY <2>3, FS_CardinalityType DEF IsTally
    <3>2. r.entries = Cardinality(DOMAIN r.nodes) + Cardinality(DOMAIN r.edges) /\ r.entries <= MaxEntries
      BY <3>1 DEF IsRollup
    <3>3. key \in DOMAIN r.nodes \/ r.entries < MaxEntries
      BY <1>2 DEF Tracks, RoomFor
    <3> QED
      BY <2>3, <3>1, <3>2, <3>3, OneMoreEntry
  <2>6. Cardinality(DOMAIN more) \in Nat /\ Cardinality(DOMAIN r.edges) \in Nat
    BY <2>3, <2>4, FS_CardinalityType DEF IsTally
  <2> HIDE DEF more, n, c
  <2>7. /\ c.buckets = r.buckets /\ c.nodes = more /\ c.edges = r.edges /\ c.entries = n
        /\ c.addresses = r.addresses /\ c.pairs = r.pairs
    BY <2>2
  <2>8. c = [buckets |-> c.buckets, nodes |-> c.nodes, edges |-> c.edges,
             entries |-> c.entries, addresses |-> c.addresses, pairs |-> c.pairs]
    BY <2>2
  <2>9. IsRollup(c)
    BY <2>3, <2>4, <2>5, <2>6, <2>7, <2>8 DEF IsRollup
  <2> QED
    BY <2>4, <2>7, <2>9 DEF c
<1> QED
  BY <1>1, <1>2

LEMMA CountedEdge ==
    ASSUME NEW r, IsRollup(r), NEW key \in EdgeKeys
    PROVE  LET c == CountedIn(r, "edges", key) IN
           /\ IsRollup(c) /\ c.buckets = r.buckets /\ c.nodes = r.nodes
           /\ c.addresses = r.addresses /\ c.pairs = r.pairs
           /\ Tracks(r, "edges", key) =>
                  \A k : HeldOf(c.edges, k) = HeldOf(r.edges, k) + IF k = key THEN 1 ELSE 0
<1> DEFINE c == CountedIn(r, "edges", key)
           more == r.edges (+) SetToBag({key})
           n == IF key \in DOMAIN r.edges THEN r.entries ELSE r.entries + 1
<1>1. CASE ~Tracks(r, "edges", key)
  BY <1>1 DEF CountedIn
<1>2. CASE Tracks(r, "edges", key)
  <2>1. r = [buckets |-> r.buckets, nodes |-> r.nodes, edges |-> r.edges,
             entries |-> r.entries, addresses |-> r.addresses, pairs |-> r.pairs]
    BY DEF IsRollup
  <2>2. c = [buckets |-> r.buckets, nodes |-> r.nodes, edges |-> more,
             entries |-> n, addresses |-> r.addresses, pairs |-> r.pairs]
    <3>1. c = [r EXCEPT !["edges"] = more, !.entries = n]
      BY <1>2 DEF CountedIn
    <3> HIDE DEF more, n, c
    <3> QED
      BY <2>1, <3>1
  <2>3. /\ IsTally(r.buckets, FlowDims) /\ IsTally(r.nodes, NodeKeys) /\ IsTally(r.edges, EdgeKeys)
        /\ r.addresses \in Nat /\ r.pairs \in Nat
    BY DEF IsRollup
  <2>4. /\ IsTally(more, EdgeKeys)
        /\ \A k : HeldOf(more, k) = HeldOf(r.edges, k) + IF k = key THEN 1 ELSE 0
    BY <2>3, OneMore, ZenonT(40)
  <2>5. n = Cardinality(DOMAIN more) + Cardinality(DOMAIN r.nodes) /\ n <= MaxEntries
    <3>1. Cardinality(DOMAIN r.edges) \in Nat /\ Cardinality(DOMAIN r.nodes) \in Nat
      BY <2>3, FS_CardinalityType DEF IsTally
    <3>2. r.entries = Cardinality(DOMAIN r.edges) + Cardinality(DOMAIN r.nodes) /\ r.entries <= MaxEntries
      BY <3>1 DEF IsRollup
    <3>3. key \in DOMAIN r.edges \/ r.entries < MaxEntries
      BY <1>2 DEF Tracks, RoomFor
    <3> QED
      BY <2>3, <3>1, <3>2, <3>3, OneMoreEntry
  <2>6. Cardinality(DOMAIN more) \in Nat /\ Cardinality(DOMAIN r.nodes) \in Nat
    BY <2>3, <2>4, FS_CardinalityType DEF IsTally
  <2> HIDE DEF more, n, c
  <2>7. /\ c.buckets = r.buckets /\ c.nodes = r.nodes /\ c.edges = more /\ c.entries = n
        /\ c.addresses = r.addresses /\ c.pairs = r.pairs
    BY <2>2
  <2>8. c = [buckets |-> c.buckets, nodes |-> c.nodes, edges |-> c.edges,
             entries |-> c.entries, addresses |-> c.addresses, pairs |-> c.pairs]
    BY <2>2
  <2>9. IsRollup(c)
    BY <2>3, <2>4, <2>5, <2>6, <2>7, <2>8 DEF IsRollup
  <2> QED
    BY <2>4, <2>7, <2>9 DEF c
<1> QED
  BY <1>1, <1>2

(* What one record adds to the rollup.                                     *)
LEMMA AddFlowIs ==
    ASSUME NEW r, IsRollup(r), NEW f \in StoredFlows
    PROVE  LET a == AddFlow(r, f)
               dim == DimOf(f) IN
           /\ IsRollup(a)
           /\ \A k : HeldOf(a.buckets, k) = HeldOf(r.buckets, k) + IF k = dim THEN 1 ELSE 0
           /\ a.addresses = 0 =>
                  /\ r.addresses = 0
                  /\ \A k : HeldOf(a.nodes, k) = HeldOf(r.nodes, k) + (IF k = <<dim, f.src>> THEN 1 ELSE 0)
                                                                    + (IF k = <<dim, f.dst>> THEN 1 ELSE 0)
           /\ a.pairs = 0 =>
                  /\ r.pairs = 0
                  /\ \A k : HeldOf(a.edges, k) = HeldOf(r.edges, k) + IF k = <<dim, f.src, f.dst>> THEN 1 ELSE 0
<1> DEFINE dim == DimOf(f)
           one == CountedIn(r, "nodes", <<dim, f.src>>)
           both == CountedIn(one, "nodes", <<dim, f.dst>>)
           all == CountedIn(both, "edges", <<dim, f.src, f.dst>>)
           tracked == Tracks(r, "nodes", <<dim, f.src>>) /\ Tracks(one, "nodes", <<dim, f.dst>>)
           paired == Tracks(both, "edges", <<dim, f.src, f.dst>>)
           more == all.buckets (+) SetToBag({dim})
           a == AddFlow(r, f)
<1>1. /\ dim \in FlowDims /\ <<dim, f.src>> \in NodeKeys /\ <<dim, f.dst>> \in NodeKeys
      /\ <<dim, f.src, f.dst>> \in EdgeKeys
  BY FlowConstants
<1>2. a = [all EXCEPT !.buckets = more,
                      !.addresses = IF tracked THEN all.addresses ELSE all.addresses + 1,
                      !.pairs = IF paired THEN all.pairs ELSE all.pairs + 1]
  BY DEF AddFlow, DimOf
<1> HIDE DEF dim
<1>3. /\ IsRollup(one) /\ one.buckets = r.buckets /\ one.edges = r.edges
      /\ one.addresses = r.addresses /\ one.pairs = r.pairs
      /\ tracked => \A k : HeldOf(one.nodes, k) = HeldOf(r.nodes, k) + IF k = <<dim, f.src>> THEN 1 ELSE 0
  BY <1>1, CountedNode
<1> HIDE DEF one
<1>4. /\ IsRollup(both) /\ both.buckets = one.buckets /\ both.edges = one.edges
      /\ both.addresses = one.addresses /\ both.pairs = one.pairs
      /\ tracked => \A k : HeldOf(both.nodes, k) = HeldOf(one.nodes, k) + IF k = <<dim, f.dst>> THEN 1 ELSE 0
  BY <1>1, <1>3, CountedNode
<1> HIDE DEF both
<1>5. /\ IsRollup(all) /\ all.buckets = both.buckets /\ all.nodes = both.nodes
      /\ all.addresses = both.addresses /\ all.pairs = both.pairs
      /\ paired => \A k : HeldOf(all.edges, k) = HeldOf(both.edges, k) + IF k = <<dim, f.src, f.dst>> THEN 1 ELSE 0
  BY <1>1, <1>4, CountedEdge
<1> HIDE DEF all, tracked, paired
<1>6. all = [buckets |-> all.buckets, nodes |-> all.nodes, edges |-> all.edges,
             entries |-> all.entries, addresses |-> all.addresses, pairs |-> all.pairs]
      /\ IsTally(all.buckets, FlowDims) /\ all.addresses \in Nat /\ all.pairs \in Nat
  BY <1>5 DEF IsRollup
<1>7. /\ IsTally(more, FlowDims)
      /\ \A k : HeldOf(more, k) = HeldOf(all.buckets, k) + IF k = dim THEN 1 ELSE 0
  BY <1>1, <1>6, OneMore, ZenonT(40)
<1> HIDE DEF more, a
<1>8. a = [buckets |-> more, nodes |-> all.nodes, edges |-> all.edges, entries |-> all.entries,
           addresses |-> IF tracked THEN all.addresses ELSE all.addresses + 1,
           pairs |-> IF paired THEN all.pairs ELSE all.pairs + 1]
  BY <1>2, <1>6
<1>9. /\ a.buckets = more /\ a.nodes = all.nodes /\ a.edges = all.edges /\ a.entries = all.entries
      /\ a.addresses = (IF tracked THEN all.addresses ELSE all.addresses + 1)
      /\ a.pairs = (IF paired THEN all.pairs ELSE all.pairs + 1)
      /\ a = [buckets |-> a.buckets, nodes |-> a.nodes, edges |-> a.edges,
               entries |-> a.entries, addresses |-> a.addresses, pairs |-> a.pairs]
  BY <1>8
<1>10. IsRollup(a)
  <2>1. a.addresses \in Nat /\ a.pairs \in Nat
    BY <1>6, <1>9
  <2> QED
    BY <1>5, <1>7, <1>9, <2>1 DEF IsRollup
<1>11. a.addresses = 0 => tracked /\ r.addresses = 0
  BY <1>3, <1>4, <1>5, <1>6, <1>9
<1>12. a.pairs = 0 => paired /\ r.pairs = 0
  BY <1>3, <1>4, <1>5, <1>6, <1>9
<1>13. ASSUME tracked, NEW k
       PROVE  HeldOf(a.nodes, k) = HeldOf(r.nodes, k) + (IF k = <<dim, f.src>> THEN 1 ELSE 0)
                                                      + (IF k = <<dim, f.dst>> THEN 1 ELSE 0)
  BY <1>3, <1>4, <1>5, <1>9, <1>13
<1>14. ASSUME paired, NEW k
       PROVE  HeldOf(a.edges, k) = HeldOf(r.edges, k) + IF k = <<dim, f.src, f.dst>> THEN 1 ELSE 0
  BY <1>3, <1>4, <1>5, <1>9, <1>14
<1>15. ASSUME NEW k PROVE HeldOf(a.buckets, k) = HeldOf(r.buckets, k) + IF k = dim THEN 1 ELSE 0
  BY <1>3, <1>4, <1>5, <1>7, <1>9
<1> QED
  BY <1>10, <1>11, <1>12, <1>13, <1>14, <1>15 DEF a, dim

(* What appending a batch of at most two records makes of the rollup,      *)
(* before it is pruned.                                                    *)
FoldStep(r, batch, s, g) == IF s = {} THEN r ELSE AddFlow(g[s \ {Max(s)}], batch[Max(s)])

LEMMA FoldOfTwo ==
    ASSUME NEW r, NEW batch \in BoundedSeq(StoredFlows, 2) \ {<<>>}
    PROVE  /\ Len(batch) \in {1, 2} /\ batch \in Seq(StoredFlows)
           /\ Len(batch) = 1 => FoldLeft(AddFlow, r, batch) = AddFlow(r, batch[1])
           /\ Len(batch) = 2 => FoldLeft(AddFlow, r, batch) = AddFlow(AddFlow(r, batch[1]), batch[2])
<1>1. PICK m \in 0..2 : batch \in [1..m -> StoredFlows]
  BY Zenon DEF BoundedSeq, SeqOf
<1>2. batch \in Seq(StoredFlows) /\ batch # <<>>
  BY ShortSequences
<1>3. Len(batch) = m /\ DOMAIN batch = 1..m /\ m \in {1, 2}
  BY <1>1, <1>2
<1> DEFINE D == DOMAIN batch
           fold == CHOOSE g : g = [s \in SUBSET D |-> FoldStep(r, batch, s, g)]
           f == [s \in SUBSET D |->
                    IF s = {} THEN r
                    ELSE IF s = {1} THEN AddFlow(r, batch[1])
                    ELSE IF s = {2} THEN AddFlow(r, batch[2])
                    ELSE AddFlow(AddFlow(r, batch[1]), batch[2])]
<1>4. FoldLeft(AddFlow, r, batch) = fold[D]
  BY DEF FoldLeft, MapThenFoldSet, FoldStep
<1>5. Max({1}) = 1 /\ Max({2}) = 2 /\ Max({1, 2}) = 2
  <2>1. {1} = {1, 1} /\ {2} = {2, 2}
    OBVIOUS
  <2>2. Max({1, 1}) = 1 /\ Max({2, 2}) = 2 /\ Max({1, 2}) = 2
    BY MaxOfTwo
  <2> QED
    BY <2>1, <2>2
<1>6. {1} \ {1} = {} /\ {2} \ {2} = {} /\ {1, 2} \ {2} = {1} /\ {1} # {} /\ {2} # {} /\ {1, 2} # {}
      /\ {1} # {2} /\ {1, 2} # {1} /\ {1, 2} # {2}
  <2>1. {1} \ {1} = {} /\ {2} \ {2} = {} /\ {1, 2} \ {2} = {1}
    OBVIOUS
  <2>2. 1 \in {1} /\ 2 \in {2} /\ 1 \in {1, 2} /\ 2 \in {1, 2} /\ 1 \notin {2} /\ 2 \notin {1}
    OBVIOUS
  <2> QED
    BY <2>1, <2>2
<1>7. \A s \in SUBSET D : s = {} \/ s = {1} \/ s = {2} \/ s = {1, 2}
  BY <1>3
<1>8. f = [s \in SUBSET D |-> FoldStep(r, batch, s, f)]
  <2>1. ASSUME NEW s \in SUBSET D PROVE f[s] = FoldStep(r, batch, s, f)
    <3>1. /\ s \ {Max(s)} \in SUBSET D
      OBVIOUS
    <3>2. CASE s = {}
      BY <3>2 DEF FoldStep
    <3>3. CASE s = {1}
      BY <1>5, <1>6, <3>1, <3>3 DEF FoldStep
    <3>4. CASE s = {2}
      BY <1>5, <1>6, <3>1, <3>4 DEF FoldStep
    <3>5. CASE s = {1, 2}
      BY <1>5, <1>6, <3>1, <3>5 DEF FoldStep
    <3> QED
      BY <1>7, <3>2, <3>3, <3>4, <3>5
  <2> QED
    BY <2>1
<1>9. fold = [s \in SUBSET D |-> FoldStep(r, batch, s, fold)]
  <2> DEFINE Is(g) == g = [s \in SUBSET D |-> FoldStep(r, batch, s, g)]
  <2>1. Is(f)
    BY <1>8
  <2>2. fold = CHOOSE g : Is(g)
    OBVIOUS
  <2> HIDE DEF Is, fold, f
  <2>3. Is(fold)
    BY <2>1, <2>2
  <2> QED
    BY <2>3 DEF Is
<1> HIDE DEF fold
<1>10. ASSUME NEW s \in SUBSET D PROVE fold[s] = FoldStep(r, batch, s, fold)
  BY <1>9
<1>11. {} \in SUBSET D /\ {1} \in SUBSET D /\ D \in SUBSET D
  BY <1>3
<1>12. fold[{}] = r /\ fold[{1}] = AddFlow(r, batch[1])
  <2>1. fold[{}] = r
    BY <1>10, <1>11 DEF FoldStep
  <2>2. fold[{1}] = AddFlow(fold[{1} \ {Max({1})}], batch[Max({1})])
    BY <1>10, <1>11, <1>6 DEF FoldStep
  <2> QED
    BY <1>5, <1>6, <2>1, <2>2
<1>13. CASE m = 1
  <2>1. D = {1}
    BY <1>3, <1>13
  <2> QED
    BY <1>2, <1>3, <1>4, <1>12, <1>13, <2>1
<1>14. CASE m = 2
  <2>1. D = {1, 2}
    BY <1>3, <1>14
  <2>2. fold[{1, 2}] = AddFlow(fold[{1, 2} \ {Max({1, 2})}], batch[Max({1, 2})])
    BY <1>10, <1>11, <1>6, <2>1 DEF FoldStep
  <2>3. fold[{1, 2}] = AddFlow(AddFlow(r, batch[1]), batch[2])
    BY <1>5, <1>6, <1>12, <2>2
  <2> QED
    BY <1>2, <1>3, <1>4, <1>14, <2>1, <2>3
<1> QED
  BY <1>3, <1>13, <1>14

(* The keys of the records that came, in their order.                      *)
DimsOf(seq) == [i \in DOMAIN seq |-> DimOf(seq[i])]
SrcsOf(seq) == [i \in DOMAIN seq |-> <<DimOf(seq[i]), seq[i].src>>]
DstsOf(seq) == [i \in DOMAIN seq |-> <<DimOf(seq[i]), seq[i].dst>>]
PairsOf(seq) == [i \in DOMAIN seq |-> <<DimOf(seq[i]), seq[i].src, seq[i].dst>>]

(* From a minute on, the rollup holds of each key how often it came, where *)
(* nothing found the breakdown full.                                       *)
Mirrors(r, first, seq) ==
    /\ \A k \in FlowDims : k[1] >= first => HeldOf(r.buckets, k) = TimesSeen(DimsOf(seq), k)
    /\ r.addresses = 0 => \A k \in NodeKeys : k[1][1] >= first =>
           HeldOf(r.nodes, k) = TimesSeen(SrcsOf(seq), k) + TimesSeen(DstsOf(seq), k)
    /\ r.pairs = 0 => \A k \in EdgeKeys : k[1][1] >= first =>
           HeldOf(r.edges, k) = TimesSeen(PairsOf(seq), k)

LEMMA TimesMore ==
    ASSUME NEW n \in Nat, NEW u, NEW more, DOMAIN u = 1..n, DOMAIN more = 1..(n + 1),
           \A i \in 1..n : more[i] = u[i], NEW k
    PROVE  /\ TimesSeen(u, k) \in Nat
           /\ TimesSeen(more, k) = TimesSeen(u, k) + IF k = more[n + 1] THEN 1 ELSE 0
<1> DEFINE A == {i \in DOMAIN u : u[i] = k}
           B == {i \in DOMAIN more : more[i] = k}
<1>1. IsFiniteSet(A) /\ n + 1 \notin A
  <2>1. IsFiniteSet(1..n)
    BY FS_Interval
  <2> QED
    BY <2>1, FS_Subset
<1>2. Cardinality(A) \in Nat
  BY <1>1, FS_CardinalityType
<1>0. TimesSeen(u, k) = Cardinality(A) /\ TimesSeen(more, k) = Cardinality(B)
  BY DEF TimesSeen
<1>3. n + 1 \in 1..(n + 1) /\ \A i \in 1..(n + 1) : i \in 1..n \/ i = n + 1
  OBVIOUS
<1>4. 1..n \subseteq 1..(n + 1)
  OBVIOUS
<1>5. CASE k = more[n + 1]
  <2>1. B = A \cup {n + 1}
    BY <1>3, <1>4, <1>5
  <2> HIDE DEF A, B
  <2>2. Cardinality(B) = Cardinality(A) + 1
    BY <1>1, <2>1, FS_AddElement
  <2> QED
    BY <1>0, <1>2, <1>5, <2>2
<1>6. CASE k # more[n + 1]
  <2>1. B = A
    BY <1>3, <1>4, <1>6
  <2> HIDE DEF A, B
  <2> QED
    BY <1>0, <1>2, <1>6, <2>1
<1> QED
  BY <1>5, <1>6

LEMMA AppendedIs ==
    ASSUME NEW S, NEW seq \in Seq(S), NEW e \in S
    PROVE  /\ DOMAIN seq = 1..Len(seq) /\ Len(seq) \in Nat
           /\ DOMAIN Append(seq, e) = 1..(Len(seq) + 1)
           /\ Append(seq, e)[Len(seq) + 1] = e
           /\ \A i \in 1..Len(seq) : Append(seq, e)[i] = seq[i]
<1>1. DOMAIN seq = 1..Len(seq) /\ Len(seq) \in Nat
  BY LenProperties
<1>2. PICK more \in Seq(S) : more = Append(seq, e)
  BY AppendProperties
<1>3. /\ Len(more) = Len(seq) + 1 /\ more[Len(seq) + 1] = e
      /\ \A i \in 1..Len(seq) : more[i] = seq[i]
  BY <1>2, AppendProperties
<1>4. DOMAIN more = 1..(Len(seq) + 1)
  BY <1>3, LenProperties
<1> QED
  BY <1>1, <1>2, <1>3, <1>4

LEMMA AddMirrors ==
    ASSUME NEW r, IsRollup(r), NEW f \in StoredFlows, NEW seq \in Seq(StoredFlows), NEW first \in Int,
           Mirrors(r, first, seq)
    PROVE  Mirrors(AddFlow(r, f), first, Append(seq, f))
<1> DEFINE a == AddFlow(r, f)
           dim == DimOf(f)
           more == Append(seq, f)
<1>1. PICK n \in Nat : /\ DOMAIN seq = 1..n /\ DOMAIN more = 1..(n + 1)
                       /\ more[n + 1] = f /\ \A i \in 1..n : more[i] = seq[i]
  <2>1. /\ DOMAIN seq = 1..Len(seq) /\ Len(seq) \in Nat
        /\ DOMAIN more = 1..(Len(seq) + 1)
        /\ more[Len(seq) + 1] = f /\ \A i \in 1..Len(seq) : more[i] = seq[i]
    BY AppendedIs
  <2> HIDE DEF more
  <2> QED
    BY <2>1
<1> HIDE DEF more
<1>2. n + 1 \in 1..(n + 1) /\ 1..n \subseteq 1..(n + 1)
  OBVIOUS
<1>3. ASSUME NEW k
      PROVE  /\ TimesSeen(DimsOf(seq), k) \in Nat /\ TimesSeen(SrcsOf(seq), k) \in Nat
             /\ TimesSeen(DstsOf(seq), k) \in Nat /\ TimesSeen(PairsOf(seq), k) \in Nat
             /\ TimesSeen(DimsOf(more), k) = TimesSeen(DimsOf(seq), k) + IF k = dim THEN 1 ELSE 0
             /\ TimesSeen(SrcsOf(more), k) = TimesSeen(SrcsOf(seq), k) + IF k = <<dim, f.src>> THEN 1 ELSE 0
             /\ TimesSeen(DstsOf(more), k) = TimesSeen(DstsOf(seq), k) + IF k = <<dim, f.dst>> THEN 1 ELSE 0
             /\ TimesSeen(PairsOf(more), k) = TimesSeen(PairsOf(seq), k) + IF k = <<dim, f.src, f.dst>> THEN 1 ELSE 0
  <2> HIDE DEF dim
  <2>1. /\ DOMAIN DimsOf(seq) = 1..n /\ DOMAIN DimsOf(more) = 1..(n + 1)
        /\ \A i \in 1..n : DimsOf(more)[i] = DimsOf(seq)[i]
        /\ DimsOf(more)[n + 1] = dim
    BY <1>1, <1>2 DEF DimsOf, dim
  <2>2. /\ DOMAIN SrcsOf(seq) = 1..n /\ DOMAIN SrcsOf(more) = 1..(n + 1)
        /\ \A i \in 1..n : SrcsOf(more)[i] = SrcsOf(seq)[i]
    BY <1>1, <1>2 DEF SrcsOf, dim
  <2>3. /\ DOMAIN DstsOf(seq) = 1..n /\ DOMAIN DstsOf(more) = 1..(n + 1)
        /\ \A i \in 1..n : DstsOf(more)[i] = DstsOf(seq)[i]
    BY <1>1, <1>2 DEF DstsOf, dim
  <2>4. /\ DOMAIN PairsOf(seq) = 1..n /\ DOMAIN PairsOf(more) = 1..(n + 1)
        /\ \A i \in 1..n : PairsOf(more)[i] = PairsOf(seq)[i]
    BY <1>1, <1>2 DEF PairsOf, dim
  <2>0. /\ SrcsOf(more)[n + 1] = <<dim, f.src>>
        /\ DstsOf(more)[n + 1] = <<dim, f.dst>>
        /\ PairsOf(more)[n + 1] = <<dim, f.src, f.dst>>
    BY <1>1, <1>2 DEF SrcsOf, DstsOf, PairsOf, dim
  <2>5. /\ TimesSeen(DimsOf(seq), k) \in Nat
        /\ TimesSeen(DimsOf(more), k) = TimesSeen(DimsOf(seq), k) + IF k = dim THEN 1 ELSE 0
    BY <2>1, TimesMore
  <2>6. /\ TimesSeen(SrcsOf(seq), k) \in Nat
        /\ TimesSeen(SrcsOf(more), k) = TimesSeen(SrcsOf(seq), k) + IF k = <<dim, f.src>> THEN 1 ELSE 0
    <3>1. /\ TimesSeen(SrcsOf(seq), k) \in Nat
          /\ TimesSeen(SrcsOf(more), k) = TimesSeen(SrcsOf(seq), k) + IF k = SrcsOf(more)[n + 1] THEN 1 ELSE 0
      BY <2>2, TimesMore
    <3> QED
      BY <3>1, <2>0
  <2>7. /\ TimesSeen(DstsOf(seq), k) \in Nat
        /\ TimesSeen(DstsOf(more), k) = TimesSeen(DstsOf(seq), k) + IF k = <<dim, f.dst>> THEN 1 ELSE 0
    <3>1. /\ TimesSeen(DstsOf(seq), k) \in Nat
          /\ TimesSeen(DstsOf(more), k) = TimesSeen(DstsOf(seq), k) + IF k = DstsOf(more)[n + 1] THEN 1 ELSE 0
      BY <2>3, TimesMore
    <3> QED
      BY <3>1, <2>0
  <2>8. /\ TimesSeen(PairsOf(seq), k) \in Nat
        /\ TimesSeen(PairsOf(more), k) = TimesSeen(PairsOf(seq), k) + IF k = <<dim, f.src, f.dst>> THEN 1 ELSE 0
    <3>1. /\ TimesSeen(PairsOf(seq), k) \in Nat
          /\ TimesSeen(PairsOf(more), k) = TimesSeen(PairsOf(seq), k) + IF k = PairsOf(more)[n + 1] THEN 1 ELSE 0
      BY <2>4, TimesMore
    <3> QED
      BY <3>1, <2>0
  <2> QED
    BY <2>5, <2>6, <2>7, <2>8
<1>4. /\ \A k : HeldOf(a.buckets, k) = HeldOf(r.buckets, k) + IF k = dim THEN 1 ELSE 0
      /\ a.addresses = 0 =>
             /\ r.addresses = 0
             /\ \A k : HeldOf(a.nodes, k) = HeldOf(r.nodes, k) + (IF k = <<dim, f.src>> THEN 1 ELSE 0)
                                                               + (IF k = <<dim, f.dst>> THEN 1 ELSE 0)
      /\ a.pairs = 0 =>
             /\ r.pairs = 0
             /\ \A k : HeldOf(a.edges, k) = HeldOf(r.edges, k) + IF k = <<dim, f.src, f.dst>> THEN 1 ELSE 0
  BY AddFlowIs
<1> HIDE DEF a, dim
<1>5. ASSUME NEW k \in FlowDims, k[1] >= first PROVE HeldOf(a.buckets, k) = TimesSeen(DimsOf(more), k)
  <2>1. HeldOf(r.buckets, k) = TimesSeen(DimsOf(seq), k)
    BY <1>5 DEF Mirrors
  <2> QED
    BY <1>3, <1>4, <2>1, ZenonT(40)
<1>6. ASSUME a.addresses = 0, NEW k \in NodeKeys, k[1][1] >= first
      PROVE  HeldOf(a.nodes, k) = TimesSeen(SrcsOf(more), k) + TimesSeen(DstsOf(more), k)
  <2>1. HeldOf(r.nodes, k) = TimesSeen(SrcsOf(seq), k) + TimesSeen(DstsOf(seq), k)
    BY <1>4, <1>6 DEF Mirrors
  <2>2. /\ TimesSeen(SrcsOf(seq), k) \in Nat /\ TimesSeen(DstsOf(seq), k) \in Nat
        /\ TimesSeen(SrcsOf(more), k) = TimesSeen(SrcsOf(seq), k) + IF k = <<dim, f.src>> THEN 1 ELSE 0
        /\ TimesSeen(DstsOf(more), k) = TimesSeen(DstsOf(seq), k) + IF k = <<dim, f.dst>> THEN 1 ELSE 0
    BY <1>3
  <2>3. HeldOf(a.nodes, k) = HeldOf(r.nodes, k) + (IF k = <<dim, f.src>> THEN 1 ELSE 0)
                                                + (IF k = <<dim, f.dst>> THEN 1 ELSE 0)
    BY <1>4, <1>6
  <2> QED
    BY <2>1, <2>2, <2>3
<1>7. ASSUME a.pairs = 0, NEW k \in EdgeKeys, k[1][1] >= first
      PROVE  HeldOf(a.edges, k) = TimesSeen(PairsOf(more), k)
  <2>1. HeldOf(r.edges, k) = TimesSeen(PairsOf(seq), k)
    BY <1>4, <1>7 DEF Mirrors
  <2>2. TimesSeen(PairsOf(more), k) = TimesSeen(PairsOf(seq), k) + IF k = <<dim, f.src, f.dst>> THEN 1 ELSE 0
    BY <1>3
  <2>3. HeldOf(a.edges, k) = HeldOf(r.edges, k) + IF k = <<dim, f.src, f.dst>> THEN 1 ELSE 0
    BY <1>4, <1>7
  <2> QED
    BY <2>1, <2>2, <2>3
<1> QED
  BY <1>5, <1>6, <1>7 DEF Mirrors, a, more

(* What is left of a tally from a minute on.                               *)
LEMMA KeptTally ==
    ASSUME NEW bag, NEW keys, IsTally(bag, keys), NEW S, S \subseteq DOMAIN bag
    PROVE  LET kept == [k \in S |-> bag[k]] IN
           /\ IsTally(kept, keys) /\ DOMAIN kept = S
           /\ Cardinality(S) \in Nat
           /\ Cardinality(S) = Cardinality(DOMAIN bag) - Cardinality(DOMAIN bag \ S)
           /\ Cardinality(DOMAIN bag \ S) \in Nat
           /\ \A k : k \in S \/ k \notin DOMAIN bag => HeldOf(kept, k) = HeldOf(bag, k)
<1> DEFINE kept == [k \in S |-> bag[k]]
           rest == DOMAIN bag \ S
           dom == DOMAIN bag
<1>1. IsFiniteSet(S) /\ IsFiniteSet(rest)
  BY FS_Subset DEF IsTally
<1>2. IsTally(kept, keys)
  BY <1>1 DEF IsTally
<1>3. S \cup rest = dom /\ S \cap rest = {}
  OBVIOUS
<1>4. \A k : k \in S \/ k \notin DOMAIN bag => HeldOf(kept, k) = HeldOf(bag, k)
  BY DEF HeldOf
<1> HIDE DEF rest, dom
<1>5. Cardinality(dom) = Cardinality(S) + Cardinality(rest) - Cardinality({})
  BY <1>1, <1>3, FS_Union
<1>6. Cardinality(S) \in Nat /\ Cardinality(rest) \in Nat /\ Cardinality({}) = 0
  BY <1>1, FS_CardinalityType, FS_EmptySet
<1>7. Cardinality(S) = Cardinality(dom) - Cardinality(rest)
  BY <1>5, <1>6
<1> QED
  BY <1>2, <1>4, <1>6, <1>7 DEF rest, dom

LEMMA PruneIs ==
    ASSUME NEW r, IsRollup(r), NEW newest \in Int
    PROVE  LET p == PruneBefore(r, newest) IN
           /\ IsRollup(p) /\ p.addresses = r.addresses /\ p.pairs = r.pairs
           /\ \A k \in FlowDims : k[1] >= Cutoff(newest) => HeldOf(p.buckets, k) = HeldOf(r.buckets, k)
           /\ \A k \in NodeKeys : k[1][1] >= Cutoff(newest) => HeldOf(p.nodes, k) = HeldOf(r.nodes, k)
           /\ \A k \in EdgeKeys : k[1][1] >= Cutoff(newest) => HeldOf(p.edges, k) = HeldOf(r.edges, k)
<1> DEFINE p == PruneBefore(r, newest)
           first == Cutoff(newest)
           B == {k \in DOMAIN r.buckets : ~(k[1] < first)}
           N == {k \in DOMAIN r.nodes : ~(k[1][1] < first)}
           E == {k \in DOMAIN r.edges : ~(k[1][1] < first)}
           goneN == {k \in DOMAIN r.nodes : k[1][1] < first}
           goneE == {k \in DOMAIN r.edges : k[1][1] < first}
           tallies == [k \in B |-> r.buckets[k]]
           nodes == [k \in N |-> r.nodes[k]]
           edges == [k \in E |-> r.edges[k]]
           n == r.entries - Cardinality(goneN) - Cardinality(goneE)
<1>1. p = [r EXCEPT !.buckets = tallies, !.nodes = nodes, !.edges = edges, !.entries = n]
  BY DEF PruneBefore
<1>2. first \in Int
  BY FlowConstants DEF Cutoff
<1>3. \A k \in FlowDims : k[1] \in Int
  BY FlowConstants
<1>4. \A k \in NodeKeys \cup EdgeKeys : k[1][1] \in Int
  BY <1>3 DEF NodeKeys, EdgeKeys
<1>5. r = [buckets |-> r.buckets, nodes |-> r.nodes, edges |-> r.edges,
           entries |-> r.entries, addresses |-> r.addresses, pairs |-> r.pairs]
      /\ IsTally(r.buckets, FlowDims) /\ IsTally(r.nodes, NodeKeys) /\ IsTally(r.edges, EdgeKeys)
      /\ r.entries = Cardinality(DOMAIN r.nodes) + Cardinality(DOMAIN r.edges)
      /\ r.entries <= MaxEntries /\ r.addresses \in Nat /\ r.pairs \in Nat
  BY DEF IsRollup
<1>6. goneN = DOMAIN r.nodes \ N /\ goneE = DOMAIN r.edges \ E
  OBVIOUS
<1>7. \A k \in FlowDims : k[1] >= first => k \in B \/ k \notin DOMAIN r.buckets
  BY <1>2, <1>3
<1>8. \A k \in NodeKeys : k[1][1] >= first => k \in N \/ k \notin DOMAIN r.nodes
  BY <1>2, <1>4
<1>9. \A k \in EdgeKeys : k[1][1] >= first => k \in E \/ k \notin DOMAIN r.edges
  BY <1>2, <1>4
<1>10. B \subseteq DOMAIN r.buckets /\ N \subseteq DOMAIN r.nodes /\ E \subseteq DOMAIN r.edges
  OBVIOUS
<1> HIDE DEF B, N, E, goneN, goneE, p, first
<1>11. /\ IsTally(tallies, FlowDims)
       /\ \A k : k \in B \/ k \notin DOMAIN r.buckets => HeldOf(tallies, k) = HeldOf(r.buckets, k)
  BY <1>5, <1>10, KeptTally
<1>12. /\ IsTally(nodes, NodeKeys) /\ DOMAIN nodes = N /\ Cardinality(N) \in Nat
       /\ Cardinality(N) = Cardinality(DOMAIN r.nodes) - Cardinality(goneN)
       /\ \A k : k \in N \/ k \notin DOMAIN r.nodes => HeldOf(nodes, k) = HeldOf(r.nodes, k)
  BY <1>5, <1>6, <1>10, KeptTally
<1>13. /\ IsTally(edges, EdgeKeys) /\ DOMAIN edges = E /\ Cardinality(E) \in Nat
       /\ Cardinality(E) = Cardinality(DOMAIN r.edges) - Cardinality(goneE)
       /\ \A k : k \in E \/ k \notin DOMAIN r.edges => HeldOf(edges, k) = HeldOf(r.edges, k)
  BY <1>5, <1>6, <1>10, KeptTally
<1>14. /\ Cardinality(goneN) \in Nat /\ Cardinality(goneE) \in Nat
       /\ Cardinality(DOMAIN r.nodes) \in Nat /\ Cardinality(DOMAIN r.edges) \in Nat
  <2>1. Cardinality(goneN) \in Nat /\ Cardinality(goneE) \in Nat
    BY <1>5, <1>6, <1>10, KeptTally
  <2>2. IsFiniteSet(DOMAIN r.nodes) /\ IsFiniteSet(DOMAIN r.edges)
    BY <1>5 DEF IsTally
  <2> QED
    BY <2>1, <2>2, FS_CardinalityType
<1>15. n = Cardinality(N) + Cardinality(E) /\ n <= MaxEntries
  <2>1. MaxEntries \in Nat
    BY FlowConstants
  <2> QED
    BY <1>5, <1>12, <1>13, <1>14, <2>1
<1> HIDE DEF n, tallies, nodes, edges
<1>16. p = [buckets |-> tallies, nodes |-> nodes, edges |-> edges, entries |-> n,
            addresses |-> r.addresses, pairs |-> r.pairs]
  BY <1>1, <1>5
<1>17. /\ p.buckets = tallies /\ p.nodes = nodes /\ p.edges = edges /\ p.entries = n
       /\ p.addresses = r.addresses /\ p.pairs = r.pairs
       /\ p = [buckets |-> p.buckets, nodes |-> p.nodes, edges |-> p.edges,
               entries |-> p.entries, addresses |-> p.addresses, pairs |-> p.pairs]
  BY <1>16
<1>18. IsRollup(p)
  BY <1>5, <1>11, <1>12, <1>13, <1>15, <1>17 DEF IsRollup
<1>19. ASSUME NEW k \in FlowDims, k[1] >= first PROVE HeldOf(p.buckets, k) = HeldOf(r.buckets, k)
  BY <1>7, <1>11, <1>17, <1>19
<1>20. ASSUME NEW k \in NodeKeys, k[1][1] >= first PROVE HeldOf(p.nodes, k) = HeldOf(r.nodes, k)
  BY <1>8, <1>12, <1>17, <1>20
<1>21. ASSUME NEW k \in EdgeKeys, k[1][1] >= first PROVE HeldOf(p.edges, k) = HeldOf(r.edges, k)
  BY <1>9, <1>13, <1>17, <1>21
<1> QED
  BY <1>17, <1>18, <1>19, <1>20, <1>21 DEF p, first

(* What came is what the rollup holds, from the latest minute on that any  *)
(* batch has made it forget.                                               *)
TallyInv ==
    /\ accepted \in Seq(StoredFlows) /\ IsRollup(rollup)
    /\ flowSource \in ReadSources /\ appends \in 0..MaxAppends
    /\ flowSource = "rollup" =>
           \A first \in Int :
               (\A i \in DOMAIN accepted : Cutoff(MinuteOf(accepted[i].at)) <= first) =>
                   Mirrors(rollup, first, accepted)

LEMMA TallyStart == FlowsInit => TallyInv
<1> SUFFICES ASSUME FlowsInit PROVE TallyInv
  OBVIOUS
<1>1. /\ accepted = <<>>
      /\ rollup = [buckets |-> EmptyBag, nodes |-> EmptyBag, edges |-> EmptyBag,
                   entries |-> 0, addresses |-> 0, pairs |-> 0]
  BY DEF FlowsInit
<1>2. DOMAIN EmptyBag = {} /\ EmptyBag = [k \in DOMAIN EmptyBag |-> EmptyBag[k]]
  BY DEF EmptyBag, SetToBag
<1>3. IsFiniteSet({}) /\ Cardinality({}) = 0
  BY FS_EmptySet
<1>4. \A keys : IsTally(EmptyBag, keys)
  BY <1>2, <1>3 DEF IsTally
<1>5. IsRollup(rollup)
  BY <1>1, <1>2, <1>3, <1>4, FlowConstants DEF IsRollup
<1>6. ASSUME NEW k
      PROVE  /\ HeldOf(EmptyBag, k) = 0 /\ TimesSeen(DimsOf(<<>>), k) = 0 /\ TimesSeen(SrcsOf(<<>>), k) = 0
             /\ TimesSeen(DstsOf(<<>>), k) = 0 /\ TimesSeen(PairsOf(<<>>), k) = 0
  <2>1. DOMAIN DimsOf(<<>>) = {} /\ DOMAIN SrcsOf(<<>>) = {} /\ DOMAIN DstsOf(<<>>) = {} /\ DOMAIN PairsOf(<<>>) = {}
    BY DEF DimsOf, SrcsOf, DstsOf, PairsOf
  <2>2. ASSUME NEW u, DOMAIN u = {} PROVE TimesSeen(u, k) = 0
    <3>1. {i \in DOMAIN u : u[i] = k} = {}
      BY <2>2
    <3> QED
      BY <1>3, <3>1 DEF TimesSeen
  <2> QED
    BY <1>2, <2>1, <2>2 DEF HeldOf
<1>7. rollup.buckets = EmptyBag /\ rollup.nodes = EmptyBag /\ rollup.edges = EmptyBag
  BY <1>1
<1>8. ASSUME NEW first \in Int PROVE Mirrors(rollup, first, accepted)
  BY <1>1, <1>6, <1>7 DEF Mirrors
<1>9. accepted \in Seq(StoredFlows) /\ flowSource \in ReadSources /\ appends \in 0..MaxAppends
  BY <1>1, FlowReadsAssumption DEF FlowsInit
<1> QED
  BY <1>5, <1>8, <1>9 DEF TallyInv

LEMMA PruneMirrors ==
    ASSUME NEW r, IsRollup(r), NEW newest \in Int, NEW first \in Int, Cutoff(newest) <= first,
           NEW seq, Mirrors(r, first, seq)
    PROVE  Mirrors(PruneBefore(r, newest), first, seq)
<1> DEFINE p == PruneBefore(r, newest)
<1>1. /\ p.addresses = r.addresses /\ p.pairs = r.pairs
      /\ \A k \in FlowDims : k[1] >= Cutoff(newest) => HeldOf(p.buckets, k) = HeldOf(r.buckets, k)
      /\ \A k \in NodeKeys : k[1][1] >= Cutoff(newest) => HeldOf(p.nodes, k) = HeldOf(r.nodes, k)
      /\ \A k \in EdgeKeys : k[1][1] >= Cutoff(newest) => HeldOf(p.edges, k) = HeldOf(r.edges, k)
  BY PruneIs
<1> HIDE DEF p
<1>2. Cutoff(newest) \in Int /\ \A k \in FlowDims : k[1] \in Int
  BY FlowConstants DEF Cutoff
<1>3. \A k \in NodeKeys \cup EdgeKeys : k[1][1] \in Int
  BY <1>2 DEF NodeKeys, EdgeKeys
<1>4. ASSUME NEW k \in FlowDims, k[1] >= first PROVE HeldOf(p.buckets, k) = TimesSeen(DimsOf(seq), k)
  <2>1. k[1] >= Cutoff(newest)
    BY <1>2, <1>4
  <2> QED
    BY <1>1, <1>4, <2>1 DEF Mirrors
<1>5. ASSUME p.addresses = 0, NEW k \in NodeKeys, k[1][1] >= first
      PROVE  HeldOf(p.nodes, k) = TimesSeen(SrcsOf(seq), k) + TimesSeen(DstsOf(seq), k)
  <2>1. k[1][1] >= Cutoff(newest)
    BY <1>2, <1>3, <1>5
  <2> QED
    BY <1>1, <1>5, <2>1 DEF Mirrors
<1>6. ASSUME p.pairs = 0, NEW k \in EdgeKeys, k[1][1] >= first
      PROVE  HeldOf(p.edges, k) = TimesSeen(PairsOf(seq), k)
  <2>1. k[1][1] >= Cutoff(newest)
    BY <1>2, <1>3, <1>6
  <2> QED
    BY <1>1, <1>6, <2>1 DEF Mirrors
<1> QED
  BY <1>4, <1>5, <1>6 DEF Mirrors, p

LEMMA FoldMirrors ==
    ASSUME NEW r, IsRollup(r), NEW seq \in Seq(StoredFlows),
           NEW batch \in BoundedSeq(StoredFlows, 2) \ {<<>>}
    PROVE  LET all == FoldLeft(AddFlow, r, batch) IN
           /\ IsRollup(all)
           /\ \A first \in Int : Mirrors(r, first, seq) => Mirrors(all, first, seq \o batch)
<1> DEFINE all == FoldLeft(AddFlow, r, batch)
<1>1. /\ Len(batch) \in {1, 2} /\ batch \in Seq(StoredFlows)
      /\ Len(batch) = 1 => all = AddFlow(r, batch[1])
      /\ Len(batch) = 2 => all = AddFlow(AddFlow(r, batch[1]), batch[2])
  BY FoldOfTwo
<1> HIDE DEF all
<1>2. CASE Len(batch) = 1
  <2>1. batch[1] \in StoredFlows
    BY <1>1, <1>2
  <2>2. seq \o batch = Append(seq, batch[1])
    <3> DEFINE s == seq \o batch
               t == Append(seq, batch[1])
    <3>1. /\ s \in Seq(StoredFlows) /\ Len(s) = Len(seq) + 1 /\ Len(seq) \in Nat
          /\ \A i \in 1..Len(seq) : s[i] = seq[i]
          /\ s[Len(seq) + 1] = batch[1]
      <4>1. /\ s \in Seq(StoredFlows) /\ Len(s) = Len(seq) + Len(batch)
            /\ \A i \in 1..(Len(seq) + Len(batch)) :
                   s[i] = IF i <= Len(seq) THEN seq[i] ELSE batch[i - Len(seq)]
        BY <1>1, ConcatProperties
      <4>2. Len(seq) \in Nat
        BY LenProperties
      <4> HIDE DEF s
      <4> QED
        BY <1>2, <4>1, <4>2
    <3>2. /\ t \in Seq(StoredFlows) /\ Len(t) = Len(seq) + 1
          /\ \A i \in 1..Len(seq) : t[i] = seq[i]
          /\ t[Len(seq) + 1] = batch[1]
      BY <2>1
    <3> HIDE DEF s, t
    <3>3. \A i \in 1..Len(s) : s[i] = t[i]
      BY <3>1, <3>2
    <3>4. s = t
      BY <3>1, <3>2, <3>3, SeqEqual
    <3> QED
      BY <3>4 DEF s, t
  <2>3. IsRollup(AddFlow(r, batch[1]))
    BY <2>1, AddFlowIs
  <2> QED
    BY <1>1, <1>2, <2>1, <2>2, <2>3, AddMirrors DEF all
<1>3. CASE Len(batch) = 2
  <2>1. batch[1] \in StoredFlows /\ batch[2] \in StoredFlows
    BY <1>1, <1>3
  <2>2. seq \o batch = Append(Append(seq, batch[1]), batch[2])
    <3> DEFINE s == seq \o batch
               t == Append(seq, batch[1])
               v == Append(t, batch[2])
    <3>1. /\ s \in Seq(StoredFlows) /\ Len(s) = Len(seq) + 2 /\ Len(seq) \in Nat
          /\ \A i \in 1..Len(seq) : s[i] = seq[i]
          /\ s[Len(seq) + 1] = batch[1] /\ s[Len(seq) + 2] = batch[2]
      <4>1. /\ s \in Seq(StoredFlows) /\ Len(s) = Len(seq) + Len(batch)
            /\ \A i \in 1..(Len(seq) + Len(batch)) :
                   s[i] = IF i <= Len(seq) THEN seq[i] ELSE batch[i - Len(seq)]
        BY <1>1, ConcatProperties
      <4>2. Len(seq) \in Nat
        BY LenProperties
      <4> HIDE DEF s
      <4> QED
        BY <1>3, <4>1, <4>2
    <3>2. /\ t \in Seq(StoredFlows) /\ Len(t) = Len(seq) + 1
          /\ \A i \in 1..Len(seq) : t[i] = seq[i]
          /\ t[Len(seq) + 1] = batch[1]
      BY <2>1
    <3> HIDE DEF t
    <3>3. /\ v \in Seq(StoredFlows) /\ Len(v) = Len(seq) + 2
          /\ \A i \in 1..(Len(seq) + 1) : v[i] = t[i]
          /\ v[Len(seq) + 2] = batch[2]
      BY <2>1, <3>2
    <3> HIDE DEF s, v
    <3>4. \A i \in 1..Len(s) : s[i] = v[i]
      BY <3>1, <3>2, <3>3, SMTT(40)
    <3>5. s = v
      BY <3>1, <3>3, <3>4, SeqEqual
    <3> QED
      BY <3>5 DEF s, t, v
  <2>3. IsRollup(AddFlow(r, batch[1]))
    BY <2>1, AddFlowIs
  <2>4. IsRollup(AddFlow(AddFlow(r, batch[1]), batch[2]))
    BY <2>1, <2>3, AddFlowIs
  <2>5. Append(seq, batch[1]) \in Seq(StoredFlows)
    BY <2>1, AppendProperties
  <2>6. ASSUME NEW first \in Int, Mirrors(r, first, seq)
        PROVE  Mirrors(AddFlow(AddFlow(r, batch[1]), batch[2]), first, Append(Append(seq, batch[1]), batch[2]))
    <3>1. Mirrors(AddFlow(r, batch[1]), first, Append(seq, batch[1]))
      BY <2>1, <2>6, AddMirrors
    <3> QED
      BY <2>1, <2>3, <2>5, <3>1, AddMirrors
  <2> QED
    BY <1>1, <1>3, <2>2, <2>4, <2>6 DEF all
<1> QED
  BY <1>1, <1>2, <1>3

(* The newest minute of some records is that of one of them.               *)
LEMMA NewestMinuteOf ==
    ASSUME NEW seq \in Seq(StoredFlows), seq # <<>>
    PROVE  LET newest == Max({MinuteOf(seq[i].at) : i \in DOMAIN seq}) IN
           /\ newest \in Int /\ \E j \in DOMAIN seq : newest = MinuteOf(seq[j].at)
           /\ \A i \in DOMAIN seq : MinuteOf(seq[i].at) <= newest
<1> DEFINE minutes == {MinuteOf(seq[i].at) : i \in DOMAIN seq}
           f == [i \in DOMAIN seq |-> MinuteOf(seq[i].at)]
<1>1. DOMAIN seq = 1..Len(seq) /\ Len(seq) \in Nat
  BY LenProperties
<1>2. IsFiniteSet(DOMAIN seq)
  BY <1>1, FS_Interval
<1>3. f \in Surjection(DOMAIN seq, minutes)
  BY DEF Surjection
<1>4. IsFiniteSet(minutes)
  <2> HIDE DEF f, minutes
  <2> QED
    BY <1>2, <1>3, FS_Surjection
<1>5. minutes # {} /\ minutes \subseteq Int
  <2>1. DOMAIN seq # {}
    BY <1>1
  <2>2. \A i \in DOMAIN seq : seq[i] \in StoredFlows
    BY <1>1, ElementOfSeq
  <2> QED
    BY <2>1, <2>2, FlowConstants, ZenonT(40)
<1>6. Max(minutes) \in minutes /\ \A m \in minutes : m <= Max(minutes)
  <2> HIDE DEF minutes
  <2> QED
    BY <1>4, <1>5, FiniteBounds
<1> QED
  BY <1>5, <1>6

LEMMA RollupAppendKeeps ==
    ASSUME TallyInv, NEW batch \in BoundedSeq(StoredFlows, 2) \ {<<>>}, RollupAppend(batch)
    PROVE  TallyInv'
<1> DEFINE all == FoldLeft(AddFlow, rollup, batch)
           minutes == {MinuteOf(batch[i].at) : i \in DOMAIN batch}
           newest == Max(minutes)
<1>1. /\ flowSource = "rollup" /\ flowSource' = flowSource
      /\ rollup' = PruneBefore(all, newest) /\ accepted' = accepted \o batch
  BY DEF RollupAppend
<1>2. accepted \in Seq(StoredFlows) /\ IsRollup(rollup)
  BY DEF TallyInv
<1>3. /\ IsRollup(all)
      /\ \A first \in Int : Mirrors(rollup, first, accepted) => Mirrors(all, first, accepted \o batch)
  BY <1>2, FoldMirrors
<1>4. batch \in Seq(StoredFlows) /\ batch # <<>>
  BY ShortSequences
<1>5. PICK j \in DOMAIN batch : newest = MinuteOf(batch[j].at)
  BY <1>4, NewestMinuteOf
<1>6. newest \in Int
  BY <1>4, NewestMinuteOf
<1> HIDE DEF all, minutes, newest
<1>7. IsRollup(rollup')
  BY <1>1, <1>3, <1>6, PruneIs
<1>8. accepted' \in Seq(StoredFlows)
  BY <1>1, <1>2, <1>4
<1>9. /\ \A i \in DOMAIN accepted : i \in DOMAIN accepted' /\ accepted'[i] = accepted[i]
      /\ Len(accepted) + j \in DOMAIN accepted' /\ accepted'[Len(accepted) + j] = batch[j]
  BY <1>1, <1>2, <1>4
<1>10. ASSUME NEW first \in Int, \A i \in DOMAIN accepted' : Cutoff(MinuteOf(accepted'[i].at)) <= first
       PROVE  Mirrors(rollup', first, accepted')
  <2>1. \A i \in DOMAIN accepted : Cutoff(MinuteOf(accepted[i].at)) <= first
    BY <1>9, <1>10
  <2>2. Cutoff(newest) <= first
    BY <1>5, <1>9, <1>10
  <2>3. Mirrors(rollup, first, accepted)
    BY <1>1, <2>1 DEF TallyInv
  <2>4. Mirrors(all, first, accepted')
    BY <1>1, <1>3, <2>3
  <2> QED
    BY <1>1, <1>3, <1>6, <2>2, <2>4, PruneMirrors
<1>11. flowSource' \in ReadSources /\ appends' \in 0..MaxAppends
  BY FlowReadsAssumption DEF RollupAppend, TallyInv
<1> QED
  BY <1>1, <1>7, <1>8, <1>10, <1>11 DEF TallyInv

LEMMA TallyStep == TallyInv /\ [FlowsNext]_flowVars => TallyInv'
<1> SUFFICES ASSUME TallyInv, [FlowsNext]_flowVars PROVE TallyInv'
  OBVIOUS
<1>1. ASSUME NEW batch \in BoundedSeq(StoredFlows, 2) \ {<<>>}, RollupAppend(batch) PROVE TallyInv'
  BY <1>1, RollupAppendKeeps
<1>2. ASSUME NEW batch \in BoundedSeq(StoredFlows, 2) \ {<<>>}, StoreCommit(batch) PROVE TallyInv'
  <2>1. batch \in Seq(StoredFlows)
    BY ShortSequences
  <2>2. /\ flowSource = "store" /\ flowSource' = flowSource /\ rollup' = rollup
        /\ accepted' = accepted \o batch
    BY <1>2 DEF StoreCommit
  <2>3. accepted' \in Seq(StoredFlows)
    BY <2>1, <2>2 DEF TallyInv
  <2>4. flowSource' # "rollup"
    BY <2>2
  <2>5. flowSource' \in ReadSources /\ appends' \in 0..MaxAppends
    BY <1>2, FlowReadsAssumption DEF StoreCommit, TallyInv
  <2> QED
    BY <2>2, <2>3, <2>4, <2>5 DEF TallyInv
<1>3. ASSUME UNCHANGED <<flowSource, accepted, appends, rollup>> PROVE TallyInv'
  BY <1>3 DEF TallyInv
<1>4. CASE StoreAppended \/ CoverageExpires
  BY <1>3, <1>4 DEF StoreAppended, CoverageExpires
<1>5. CASE \E r \in Readers, w \in ReadWindows, protocols \in ReadProtocols : ReadSeries(r, w, protocols)
  BY <1>3, <1>5 DEF ReadSeries
<1>6. CASE \E r \in Readers : ReadLists(r) \/ ReadCoverage(r) \/ Remember(r) \/ ReadAnswered(r)
  BY <1>3, <1>6 DEF ReadLists, ReadCoverage, Remember, ReadAnswered
<1>7. CASE UNCHANGED flowVars
  BY <1>3, <1>7 DEF flowVars
<1> QED
  BY <1>1, <1>2, <1>4, <1>5, <1>6, <1>7 DEF FlowsNext

(* A minute that overlaps a window of whole minutes is in it, and so is    *)
(* each instant of it, in the bucket of that minute.                       *)
LEMMA WholeMinutes ==
    ASSUME NEW w, w.start \in Int, w.end \in Int, w.start % 2 = 0, w.end % 2 = 0, NEW at \in Int
    PROVE  LET m == MinuteOf(at) IN
           /\ (2 * m < w.end /\ 2 * m + 2 > w.start) <=> (w.start <= at /\ at < w.end)
           /\ w.start <= at /\ at < w.end => BucketIndexOf(2 * m, w) = (at - w.start) \div 2
<1>1. PICK x \in Int, y \in Int : w.start = 2 * x /\ w.end = 2 * y
  <2>1. w.start = 2 * (w.start \div 2) /\ w.end = 2 * (w.end \div 2)
    OBVIOUS
  <2>2. w.start \div 2 \in Int /\ w.end \div 2 \in Int
    OBVIOUS
  <2> QED
    BY <2>1, <2>2
<1>2. PICK m \in Int : m = MinuteOf(at) /\ (at = 2 * m \/ at = 2 * m + 1)
  <2>1. at \div 2 \in Int /\ (at = 2 * (at \div 2) \/ at = 2 * (at \div 2) + 1)
    OBVIOUS
  <2> QED
    BY <2>1 DEF MinuteOf
<1>3. (2 * m < w.end /\ 2 * m + 2 > w.start) <=> (w.start <= at /\ at < w.end)
  BY <1>1, <1>2
<1>4. ASSUME w.start <= at, at < w.end PROVE BucketIndexOf(2 * m, w) = (at - w.start) \div 2
  <2>1. x <= m /\ m < y
    BY <1>1, <1>2, <1>4
  <2>2. (2 * m - w.start) \div 2 = m - x /\ (at - w.start) \div 2 = m - x
        /\ (w.end - w.start + 1) \div 2 = y - x
    <3>1. ASSUME NEW j \in Int PROVE (2 * j) \div 2 = j /\ (2 * j + 1) \div 2 = j
      OBVIOUS
    <3>2. m - x \in Int /\ y - x \in Int
      OBVIOUS
    <3>3. 2 * m - w.start = 2 * (m - x) /\ w.end - w.start + 1 = 2 * (y - x) + 1
          /\ (at - w.start = 2 * (m - x) \/ at - w.start = 2 * (m - x) + 1)
      BY <1>1, <1>2
    <3> QED
      BY <3>1, <3>2, <3>3
  <2>3. m - x \in Int /\ y - x - 1 \in Int /\ 0 <= m - x /\ m - x <= y - x - 1
    BY <2>1
  <2>4. Max({m - x, 0}) = m - x
    BY <2>3, MaxOfTwo
  <2>5. Min({m - x, y - x - 1}) = m - x
    BY <2>3, MinOfTwo
  <2> QED
    BY <2>2, <2>4, <2>5 DEF BucketIndexOf, BucketCount
<1> QED
  BY <1>2, <1>3, <1>4

LEMMA TimesIsPositive ==
    ASSUME NEW u, IsFiniteSet(DOMAIN u), NEW k
    PROVE  TimesSeen(u, k) \in Nat /\ (TimesSeen(u, k) # 0 <=> \E i \in DOMAIN u : u[i] = k)
<1> DEFINE A == {i \in DOMAIN u : u[i] = k}
<1>1. IsFiniteSet(A)
  BY FS_Subset
<1>2. Cardinality(A) \in Nat /\ (Cardinality(A) = 0 <=> A = {})
  BY <1>1, FS_CardinalityType, FS_EmptySet
<1>3. A # {} <=> \E i \in DOMAIN u : u[i] = k
  OBVIOUS
<1> HIDE DEF A
<1>4. TimesSeen(u, k) = Cardinality(A)
  BY DEF TimesSeen, A
<1> QED
  BY <1>2, <1>3, <1>4

LEMMA TotalOfOne ==
    ASSUME NEW bag, NEW keys, IsFiniteSet(keys), NEW u, IsFiniteSet(DOMAIN u),
           \A k \in keys : bag[k] = TimesSeen(u, k)
    PROVE  TallySum(bag, keys) = TimesIn(u, keys)
<1> DEFINE v == [i \in {} |-> 0]
<1>1. DOMAIN v = {} /\ IsFiniteSet({}) /\ Cardinality({}) = 0
  BY FS_EmptySet
<1>2. \A k : TimesSeen(v, k) = 0
  <2>1. \A k : {i \in DOMAIN v : v[i] = k} = {}
    BY <1>1
  <2> QED
    BY <1>1, <2>1 DEF TimesSeen
<1>3. TimesIn(v, keys) = 0
  <2>1. {i \in DOMAIN v : v[i] \in keys} = {}
    BY <1>1
  <2> QED
    BY <1>1, <2>1 DEF TimesIn
<1>4. IsFiniteSet(DOMAIN v)
  BY <1>1
<1> HIDE DEF v
<1>5. \A k \in keys : TimesSeen(u, k) \in Nat
  BY TimesIsPositive
<1>6. CountsBoth(bag, keys, u, v)
  BY <1>2, <1>5 DEF CountsBoth
<1>7. TallySum(bag, keys) = TimesIn(u, keys) + TimesIn(v, keys)
  BY <1>4, <1>6, TotalOfTimes
<1>8. TimesIn(u, keys) \in Nat
  <2>1. IsFiniteSet({i \in DOMAIN u : u[i] \in keys})
    BY FS_Subset
  <2> QED
    BY <2>1, FS_CardinalityType DEF TimesIn
<1> QED
  BY <1>3, <1>7, <1>8

(* The parts of the rollup's summary, with their sums by name.             *)
DimsIn(w, protocols) ==
    {d \in DOMAIN rollup.buckets : 2 * d[1] < w.end /\ 2 * d[1] + 2 > w.start /\ d[2] \in protocols}
RollupSeries(w, protocols) ==
    [b \in 0..(BucketCount(w) - 1) |->
        TallySum(rollup.buckets, {d \in DimsIn(w, protocols) : BucketIndexOf(2 * d[1], w) = b})]
RollupNodes(w, protocols) ==
    LET nodes == {k \in DOMAIN rollup.nodes : k[1] \in DimsIn(w, protocols)} IN
    [a \in {k[2] : k \in nodes} |-> TallySum(rollup.nodes, {k \in nodes : k[2] = a})]
RollupEdges(w, protocols) ==
    LET edges == {k \in DOMAIN rollup.edges : k[1] \in DimsIn(w, protocols)} IN
    [p \in {<<k[2], k[3]>> : k \in edges} |->
        TallySum(rollup.edges, {k \in edges : <<k[2], k[3]>> = p})]

LEMMA SummaryIs ==
    ASSUME NEW w, NEW protocols
    PROVE  RollupSummary(w, protocols) =
               Aggregate(RollupSeries(w, protocols), RollupNodes(w, protocols), RollupEdges(w, protocols))
BY DEF RollupSummary, RollupSeries, RollupNodes, RollupEdges, DimsIn, TallySum, MapThenSumSet, MapThenFoldSet

(* A window of whole minutes that the rollup has not forgotten any of.     *)
KeptWindow(w, first) ==
    /\ TallyInv /\ flowSource = "rollup" /\ first \in Int /\ Mirrors(rollup, first, accepted)
    /\ w.start \in Int /\ w.end \in Int /\ w.start % 2 = 0 /\ w.end % 2 = 0
    /\ w.start >= 2 * first

(* The records of the window are those whose minute and protocol it        *)
(* tallies, and it holds of each how often it came.                        *)
LEMMA DimsAre ==
    ASSUME NEW w, NEW first, KeptWindow(w, first), NEW protocols
    PROVE  /\ DOMAIN accepted = 1..Len(accepted) /\ Len(accepted) \in Nat
           /\ \A i \in DOMAIN accepted : /\ accepted[i] \in StoredFlows
                                         /\ DimOf(accepted[i]) \in DimsIn(w, protocols) <=> i \in RowsIn(w, protocols)
           /\ \A i \in RowsIn(w, protocols) : MinuteOf(accepted[i].at) >= first
           /\ \A d \in DimsIn(w, protocols) :
                  /\ d \in FlowDims /\ d[1] >= first
                  /\ rollup.buckets[d] = TimesSeen(DimsOf(accepted), d)
           /\ IsFiniteSet(DimsIn(w, protocols)) /\ IsFiniteSet(DOMAIN accepted)
<1> DEFINE dims == DimsIn(w, protocols)
           rows == RowsIn(w, protocols)
           u == DimsOf(accepted)
<1>1. /\ accepted \in Seq(StoredFlows) /\ IsTally(rollup.buckets, FlowDims) /\ first \in Int
      /\ w.start \in Int /\ w.end \in Int /\ w.start % 2 = 0 /\ w.end % 2 = 0 /\ w.start >= 2 * first
      /\ \A k \in FlowDims : k[1] >= first => HeldOf(rollup.buckets, k) = TimesSeen(u, k)
  BY DEF KeptWindow, TallyInv, IsRollup, Mirrors
<1>2. DOMAIN accepted = 1..Len(accepted) /\ Len(accepted) \in Nat
  BY <1>1, LenProperties
<1>3. IsFiniteSet(DOMAIN accepted) /\ DOMAIN u = DOMAIN accepted
  BY <1>2, FS_Interval DEF DimsOf
<1>4. \A i \in DOMAIN accepted : accepted[i] \in StoredFlows
  BY <1>1, <1>2, ElementOfSeq
<1>5. IsFiniteSet(dims)
  <2>1. IsFiniteSet(DOMAIN rollup.buckets)
    BY <1>1 DEF IsTally
  <2> QED
    BY <2>1, FS_Subset DEF DimsIn
<1>6. ASSUME NEW d \in dims
      PROVE  d \in FlowDims /\ d[1] >= first /\ rollup.buckets[d] = TimesSeen(u, d)
  <2>1. d \in DOMAIN rollup.buckets /\ 2 * d[1] + 2 > w.start
    BY DEF DimsIn
  <2>2. d \in FlowDims /\ d[1] \in Int
    BY <1>1, <2>1, FlowConstants DEF IsTally
  <2>3. d[1] >= first
    BY <1>1, <2>1, <2>2, SMTT(40)
  <2> QED
    BY <1>1, <2>1, <2>2, <2>3 DEF HeldOf
<1>7. ASSUME NEW i \in DOMAIN accepted
      PROVE  /\ DimOf(accepted[i]) \in dims <=> i \in rows
             /\ i \in rows => MinuteOf(accepted[i].at) >= first
  <2> DEFINE f == accepted[i]
             d == DimOf(f)
  <2>1. f \in StoredFlows /\ f.at \in Int
    BY <1>4, FlowReadsAssumption
  <2>2. d \in FlowDims /\ d[1] = MinuteOf(f.at) /\ d[2] = f.protocol /\ MinuteOf(f.at) \in Int
    BY <2>1, FlowConstants
  <2> HIDE DEF f, d
  <2>3. (2 * d[1] < w.end /\ 2 * d[1] + 2 > w.start) <=> (w.start <= f.at /\ f.at < w.end)
    BY <1>1, <2>1, <2>2, WholeMinutes
  <2>4. i \in rows <=> w.start <= f.at /\ f.at < w.end /\ f.protocol \in protocols
    BY DEF RowsIn, f
  <2>5. d \in dims <=> /\ d \in DOMAIN rollup.buckets /\ 2 * d[1] < w.end /\ 2 * d[1] + 2 > w.start
                       /\ d[2] \in protocols
    BY DEF DimsIn
  <2>6. ASSUME i \in rows PROVE d[1] >= first /\ d \in DOMAIN rollup.buckets
    <3>1. 2 * d[1] + 2 > w.start /\ d[1] \in Int
      BY <2>2, <2>3, <2>4, <2>6
    <3>2. d[1] >= first
      BY <1>1, <3>1, SMTT(40)
    <3>3. HeldOf(rollup.buckets, d) = TimesSeen(u, d)
      BY <1>1, <2>2, <3>2
    <3>4. u[i] = d
      BY DEF DimsOf, f, d
    <3>5. TimesSeen(u, d) # 0
      BY <1>3, <3>4, TimesIsPositive
    <3> QED
      BY <3>2, <3>3, <3>5 DEF HeldOf
  <2> QED
    BY <2>2, <2>3, <2>4, <2>5, <2>6 DEF f, d
<1>8. rows \subseteq DOMAIN accepted
  BY DEF RowsIn
<1> HIDE DEF dims, rows, u
<1>9. /\ \A i \in DOMAIN accepted : accepted[i] \in StoredFlows /\ (DimOf(accepted[i]) \in dims <=> i \in rows)
      /\ \A i \in rows : MinuteOf(accepted[i].at) >= first
  BY <1>4, <1>7, <1>8
<1> QED
  BY <1>2, <1>3, <1>5, <1>6, <1>9 DEF dims, rows, u

LEMMA SeriesAre ==
    ASSUME NEW w, NEW first, KeptWindow(w, first), NEW protocols
    PROVE  RollupSeries(w, protocols) = StoreSeries(w, RowsIn(w, protocols))
<1> DEFINE dims == DimsIn(w, protocols)
           rows == RowsIn(w, protocols)
           u == DimsOf(accepted)
           T(b) == {d \in dims : BucketIndexOf(2 * d[1], w) = b}
           I(b) == {i \in rows : (accepted[i].at - w.start) \div 2 = b}
<1>1. /\ \A i \in DOMAIN accepted : accepted[i] \in StoredFlows /\ (DimOf(accepted[i]) \in dims <=> i \in rows)
      /\ \A d \in dims : rollup.buckets[d] = TimesSeen(u, d)
      /\ IsFiniteSet(dims) /\ IsFiniteSet(DOMAIN accepted)
  BY DimsAre
<1>2. rows \subseteq DOMAIN accepted /\ DOMAIN u = DOMAIN accepted
      /\ \A i \in DOMAIN accepted : u[i] = DimOf(accepted[i])
  BY DEF RowsIn, DimsOf
<1>3. ASSUME NEW i \in rows PROVE BucketIndexOf(2 * DimOf(accepted[i])[1], w) = (accepted[i].at - w.start) \div 2
  <2>1. accepted[i] \in StoredFlows /\ w.start <= accepted[i].at /\ accepted[i].at < w.end
    BY <1>1, <1>2 DEF RowsIn
  <2>2. accepted[i].at \in Int /\ DimOf(accepted[i])[1] = MinuteOf(accepted[i].at)
    BY <2>1, FlowConstants, FlowReadsAssumption
  <2>3. w.start \in Int /\ w.end \in Int /\ w.start % 2 = 0 /\ w.end % 2 = 0
    BY DEF KeptWindow
  <2> QED
    BY <2>1, <2>2, <2>3, WholeMinutes
<1> HIDE DEF dims, rows, u
<1>4. ASSUME NEW b PROVE TallySum(rollup.buckets, T(b)) = Cardinality(I(b))
  <2>1. IsFiniteSet(T(b)) /\ \A d \in T(b) : rollup.buckets[d] = TimesSeen(u, d)
    BY <1>1, FS_Subset
  <2>2. TallySum(rollup.buckets, T(b)) = TimesIn(u, T(b))
    <3> HIDE DEF T
    <3> QED
      BY <1>1, <1>2, <2>1, TotalOfOne
  <2>3. {i \in DOMAIN u : u[i] \in T(b)} = I(b)
    BY <1>1, <1>2, <1>3
  <2> HIDE DEF T, I
  <2> QED
    BY <2>2, <2>3 DEF TimesIn
<1>5. RollupSeries(w, protocols) = [b \in 0..(BucketCount(w) - 1) |-> TallySum(rollup.buckets, T(b))]
  BY DEF RollupSeries, dims
<1>6. StoreSeries(w, rows) = [b \in 0..(BucketCount(w) - 1) |-> Cardinality(I(b))]
  BY DEF StoreSeries
<1> HIDE DEF T, I
<1> QED
  BY <1>4, <1>5, <1>6 DEF rows

LEMMA NodesAre ==
    ASSUME NEW w, NEW first, KeptWindow(w, first), NEW protocols, rollup.addresses = 0
    PROVE  RollupNodes(w, protocols) = NodeRows(RowsIn(w, protocols))
<1> DEFINE dims == DimsIn(w, protocols)
           rows == RowsIn(w, protocols)
           u == SrcsOf(accepted)
           v == DstsOf(accepted)
           src(i) == <<DimOf(accepted[i]), accepted[i].src>>
           dst(i) == <<DimOf(accepted[i]), accepted[i].dst>>
           nodes == {k \in DOMAIN rollup.nodes : k[1] \in dims}
           K(a) == {k \in nodes : k[2] = a}
           S(a) == {i \in rows : accepted[i].src = a}
           D(a) == {i \in rows : accepted[i].dst = a}
<1>1. /\ \A i \in DOMAIN accepted : accepted[i] \in StoredFlows /\ (DimOf(accepted[i]) \in dims <=> i \in rows)
      /\ \A i \in rows : MinuteOf(accepted[i].at) >= first
      /\ \A d \in dims : d[1] >= first
      /\ IsFiniteSet(DOMAIN accepted)
  BY DimsAre
<1>2. rows \subseteq DOMAIN accepted /\ DOMAIN u = DOMAIN accepted /\ DOMAIN v = DOMAIN accepted
      /\ \A i \in DOMAIN accepted : u[i] = src(i) /\ v[i] = dst(i)
  BY DEF RowsIn, SrcsOf, DstsOf
<1>3. /\ IsTally(rollup.nodes, NodeKeys)
      /\ \A k \in NodeKeys : k[1][1] >= first => HeldOf(rollup.nodes, k) = TimesSeen(u, k) + TimesSeen(v, k)
  BY DEF KeptWindow, TallyInv, IsRollup, Mirrors
<1>4. ASSUME NEW i \in DOMAIN accepted
      PROVE  /\ src(i) \in NodeKeys /\ src(i)[1] = DimOf(accepted[i]) /\ src(i)[2] = accepted[i].src
             /\ dst(i) \in NodeKeys /\ dst(i)[1] = DimOf(accepted[i]) /\ dst(i)[2] = accepted[i].dst
             /\ DimOf(accepted[i])[1] = MinuteOf(accepted[i].at)
  BY <1>1, FlowConstants
<1> HIDE DEF dims, rows, u, v, src, dst
<1>5. \A k : TimesSeen(u, k) \in Nat /\ (TimesSeen(u, k) # 0 <=> \E i \in DOMAIN accepted : src(i) = k)
  BY <1>1, <1>2, TimesIsPositive
<1>6. \A k : TimesSeen(v, k) \in Nat /\ (TimesSeen(v, k) # 0 <=> \E i \in DOMAIN accepted : dst(i) = k)
  BY <1>1, <1>2, TimesIsPositive
<1>7. ASSUME NEW i \in rows PROVE src(i) \in nodes /\ dst(i) \in nodes
  <2>1. i \in DOMAIN accepted /\ DimOf(accepted[i]) \in dims /\ DimOf(accepted[i])[1] >= first
    BY <1>1, <1>2, <1>4
  <2>2. HeldOf(rollup.nodes, src(i)) = TimesSeen(u, src(i)) + TimesSeen(v, src(i))
    BY <1>3, <1>4, <2>1
  <2>3. HeldOf(rollup.nodes, dst(i)) = TimesSeen(u, dst(i)) + TimesSeen(v, dst(i))
    BY <1>3, <1>4, <2>1
  <2>4. TimesSeen(u, src(i)) # 0 /\ TimesSeen(v, dst(i)) # 0
    BY <1>5, <1>6, <2>1
  <2>5. TimesSeen(u, src(i)) \in Nat /\ TimesSeen(v, src(i)) \in Nat /\ TimesSeen(u, dst(i)) \in Nat /\ TimesSeen(v, dst(i)) \in Nat
    BY <1>5, <1>6
  <2>6. src(i) \in DOMAIN rollup.nodes /\ dst(i) \in DOMAIN rollup.nodes
    BY <2>2, <2>3, <2>4, <2>5 DEF HeldOf
  <2> QED
    BY <1>4, <2>1, <2>6
<1>8. ASSUME NEW k \in nodes
      PROVE  /\ rollup.nodes[k] = TimesSeen(u, k) + TimesSeen(v, k)
             /\ \E i \in rows : src(i) = k \/ dst(i) = k
  <2>1. k \in NodeKeys /\ k[1] \in dims /\ k \in DOMAIN rollup.nodes
    BY <1>3 DEF IsTally
  <2>2. k[1][1] >= first
    BY <1>1, <2>1
  <2>3. rollup.nodes[k] = TimesSeen(u, k) + TimesSeen(v, k) /\ rollup.nodes[k] # 0
    BY <1>3, <2>1, <2>2 DEF HeldOf, IsTally
  <2>4. PICK i \in DOMAIN accepted : src(i) = k \/ dst(i) = k
    BY <1>5, <1>6, <2>3
  <2>5. DimOf(accepted[i]) = k[1]
    BY <1>4, <2>4
  <2>6. i \in rows
    BY <1>1, <2>1, <2>5
  <2> QED
    BY <2>3, <2>4, <2>6
<1>9. ASSUME NEW i \in DOMAIN accepted, NEW a
      PROVE  (src(i) \in K(a) <=> i \in S(a)) /\ (dst(i) \in K(a) <=> i \in D(a))
  <2>1. ASSUME src(i) \in nodes \/ dst(i) \in nodes PROVE i \in rows
    BY <1>1, <1>4, <2>1
  <2> HIDE DEF nodes
  <2> QED
    BY <1>4, <1>7, <2>1
<1>10. IsFiniteSet(nodes)
  <2>1. IsFiniteSet(DOMAIN rollup.nodes)
    BY <1>3 DEF IsTally
  <2> QED
    BY <2>1, FS_Subset
<1>11. {k[2] : k \in nodes} = {accepted[i].src : i \in rows} \cup {accepted[i].dst : i \in rows}
  <2>1. ASSUME NEW k \in nodes
        PROVE  k[2] \in {accepted[i].src : i \in rows} \cup {accepted[i].dst : i \in rows}
    BY <1>2, <1>4, <1>8
  <2>2. ASSUME NEW i \in rows PROVE accepted[i].src \in {k[2] : k \in nodes} /\ accepted[i].dst \in {k[2] : k \in nodes}
    BY <1>2, <1>4, <1>7
  <2> HIDE DEF nodes
  <2> QED
    BY <2>1, <2>2
<1> HIDE DEF nodes
<1>12. ASSUME NEW a PROVE TallySum(rollup.nodes, K(a)) = Cardinality(S(a)) + Cardinality(D(a))
  <2>1. IsFiniteSet(K(a)) /\ CountsBoth(rollup.nodes, K(a), u, v)
    <3>1. IsFiniteSet(K(a)) /\ \A k \in K(a) : rollup.nodes[k] = TimesSeen(u, k) + TimesSeen(v, k)
      BY <1>8, <1>10, FS_Subset
    <3> QED
      BY <3>1 DEF CountsBoth
  <2>2. {i \in DOMAIN u : u[i] \in K(a)} = S(a) /\ {i \in DOMAIN v : v[i] \in K(a)} = D(a)
    <3>1. S(a) \subseteq DOMAIN accepted /\ D(a) \subseteq DOMAIN accepted
      BY <1>2
    <3> HIDE DEF K, S, D
    <3> QED
      BY <1>2, <1>9, <3>1
  <2> HIDE DEF K, S, D
  <2>3. TallySum(rollup.nodes, K(a)) = TimesIn(u, K(a)) + TimesIn(v, K(a))
    BY <1>1, <1>2, <2>1, TotalOfTimes
  <2> QED
    BY <2>2, <2>3 DEF TimesIn
<1>13. RollupNodes(w, protocols) = [a \in {k[2] : k \in nodes} |-> TallySum(rollup.nodes, K(a))]
  BY DEF RollupNodes, nodes, dims
<1>14. NodeRows(rows) = [a \in {accepted[i].src : i \in rows} \cup {accepted[i].dst : i \in rows} |->
                            Cardinality(S(a)) + Cardinality(D(a))]
  BY DEF NodeRows
<1> HIDE DEF K, S, D
<1> QED
  BY <1>11, <1>12, <1>13, <1>14 DEF rows

LEMMA EdgesAre ==
    ASSUME NEW w, NEW first, KeptWindow(w, first), NEW protocols, rollup.pairs = 0
    PROVE  RollupEdges(w, protocols) = EdgeRows(RowsIn(w, protocols))
<1> DEFINE dims == DimsIn(w, protocols)
           rows == RowsIn(w, protocols)
           u == PairsOf(accepted)
           key(i) == <<DimOf(accepted[i]), accepted[i].src, accepted[i].dst>>
           pair(i) == <<accepted[i].src, accepted[i].dst>>
           ends(k) == <<k[2], k[3]>>
           edges == {k \in DOMAIN rollup.edges : k[1] \in dims}
           K(p) == {k \in edges : ends(k) = p}
           I(p) == {i \in rows : pair(i) = p}
<1>1. /\ \A i \in DOMAIN accepted : accepted[i] \in StoredFlows /\ (DimOf(accepted[i]) \in dims <=> i \in rows)
      /\ \A i \in rows : MinuteOf(accepted[i].at) >= first
      /\ \A d \in dims : d[1] >= first
      /\ IsFiniteSet(DOMAIN accepted)
  BY DimsAre
<1>2. rows \subseteq DOMAIN accepted /\ DOMAIN u = DOMAIN accepted
      /\ \A i \in DOMAIN accepted : u[i] = key(i)
  BY DEF RowsIn, PairsOf
<1>3. /\ IsTally(rollup.edges, EdgeKeys)
      /\ \A k \in EdgeKeys : k[1][1] >= first => HeldOf(rollup.edges, k) = TimesSeen(u, k)
  BY DEF KeptWindow, TallyInv, IsRollup, Mirrors
<1>4. ASSUME NEW i \in DOMAIN accepted
      PROVE  /\ key(i) \in EdgeKeys /\ key(i)[1] = DimOf(accepted[i]) /\ ends(key(i)) = pair(i)
             /\ DimOf(accepted[i])[1] = MinuteOf(accepted[i].at)
  BY <1>1, FlowConstants
<1> HIDE DEF dims, rows, u, key, pair, ends
<1>5. \A k : TimesSeen(u, k) \in Nat /\ (TimesSeen(u, k) # 0 <=> \E i \in DOMAIN accepted : key(i) = k)
  BY <1>1, <1>2, TimesIsPositive
<1>6. ASSUME NEW i \in rows PROVE key(i) \in edges
  <2>1. i \in DOMAIN accepted /\ DimOf(accepted[i]) \in dims /\ DimOf(accepted[i])[1] >= first
    BY <1>1, <1>2, <1>4
  <2>2. HeldOf(rollup.edges, key(i)) = TimesSeen(u, key(i))
    BY <1>3, <1>4, <2>1
  <2>3. key(i) \in DOMAIN rollup.edges
    BY <1>5, <2>1, <2>2 DEF HeldOf
  <2> QED
    BY <1>4, <2>1, <2>3
<1>7. ASSUME NEW k \in edges
      PROVE  /\ rollup.edges[k] = TimesSeen(u, k)
             /\ \E i \in rows : key(i) = k
  <2>1. k \in EdgeKeys /\ k[1] \in dims /\ k \in DOMAIN rollup.edges
    BY <1>3 DEF IsTally
  <2>2. k[1][1] >= first
    BY <1>1, <2>1
  <2>3. rollup.edges[k] = TimesSeen(u, k) /\ rollup.edges[k] # 0
    BY <1>3, <2>1, <2>2 DEF HeldOf, IsTally
  <2>4. PICK i \in DOMAIN accepted : key(i) = k
    BY <1>5, <2>3
  <2>5. i \in rows
    BY <1>1, <1>4, <2>1, <2>4
  <2> QED
    BY <2>3, <2>4, <2>5
<1>8. ASSUME NEW i \in DOMAIN accepted, NEW p PROVE key(i) \in K(p) <=> i \in I(p)
  <2>1. ASSUME key(i) \in edges PROVE i \in rows
    BY <1>1, <1>4, <2>1
  <2> HIDE DEF edges
  <2> QED
    BY <1>4, <1>6, <2>1
<1>9. IsFiniteSet(edges)
  <2>1. IsFiniteSet(DOMAIN rollup.edges)
    BY <1>3 DEF IsTally
  <2> QED
    BY <2>1, FS_Subset
<1>10. {ends(k) : k \in edges} = {pair(i) : i \in rows}
  <2>1. ASSUME NEW k \in edges PROVE ends(k) \in {pair(i) : i \in rows}
    BY <1>2, <1>4, <1>7
  <2>2. ASSUME NEW i \in rows PROVE pair(i) \in {ends(k) : k \in edges}
    BY <1>2, <1>4, <1>6
  <2> HIDE DEF edges
  <2> QED
    BY <2>1, <2>2
<1> HIDE DEF edges
<1>11. ASSUME NEW p PROVE TallySum(rollup.edges, K(p)) = Cardinality(I(p))
  <2>1. IsFiniteSet(K(p)) /\ \A k \in K(p) : rollup.edges[k] = TimesSeen(u, k)
    BY <1>7, <1>9, FS_Subset
  <2>2. {i \in DOMAIN u : u[i] \in K(p)} = I(p)
    <3>1. I(p) \subseteq DOMAIN accepted
      BY <1>2
    <3> HIDE DEF K, I
    <3> QED
      BY <1>2, <1>8, <3>1
  <2> HIDE DEF K, I
  <2>3. TallySum(rollup.edges, K(p)) = TimesIn(u, K(p))
    BY <1>1, <1>2, <2>1, TotalOfOne
  <2> QED
    BY <2>2, <2>3 DEF TimesIn
<1>12. RollupEdges(w, protocols) = [p \in {ends(k) : k \in edges} |-> TallySum(rollup.edges, K(p))]
  BY DEF RollupEdges, edges, dims, ends
<1>13. EdgeRows(rows) = [p \in {pair(i) : i \in rows} |-> Cardinality(I(p))]
  BY DEF EdgeRows, pair
<1> HIDE DEF K, I
<1> QED
  BY <1>10, <1>11, <1>12, <1>13 DEF rows

LEMMA TallyGood == TallyInv => RollupAnswersAsStore
<1> SUFFICES ASSUME TallyInv, flowSource = "rollup", accepted # <<>>,
                    NEW w \in ReadWindows, NEW protocols \in ReadProtocols,
                    w.start % 2 = 0, w.end % 2 = 0, w.start >= 2 * (NewestMinute - RetentionMinutes + 1)
             PROVE  LET mine == RollupSummary(w, protocols)  exact == StoreSummary(w, protocols) IN
                    /\ mine.series = exact.series
                    /\ rollup.addresses = 0 => mine.entities = exact.entities /\ mine.capped = exact.capped
                    /\ rollup.pairs = 0 => mine.edges = exact.edges
  BY Zenon DEF RollupAnswersAsStore
<1> DEFINE first == Cutoff(NewestMinute)
           rows == RowsIn(w, protocols)
<1>1. accepted \in Seq(StoredFlows) /\ RetentionMinutes \in Nat
  BY FlowConstants DEF TallyInv
<1>2. NewestMinute \in Int /\ \A i \in DOMAIN accepted : MinuteOf(accepted[i].at) <= NewestMinute
  BY <1>1, NewestMinuteOf DEF NewestMinute
<1>3. \A i \in DOMAIN accepted : MinuteOf(accepted[i].at) \in Int
  <2>1. \A i \in DOMAIN accepted : accepted[i] \in StoredFlows
    BY <1>1, LenProperties, ElementOfSeq
  <2> QED
    BY <2>1, FlowConstants
<1>4. first \in Int /\ w.start >= 2 * first /\ \A i \in DOMAIN accepted : Cutoff(MinuteOf(accepted[i].at)) <= first
  BY <1>1, <1>2, <1>3 DEF Cutoff
<1>5. Mirrors(rollup, first, accepted)
  BY <1>4 DEF TallyInv
<1>6. KeptWindow(w, first)
  BY <1>4, <1>5, FlowReadsAssumption DEF KeptWindow
<1> HIDE DEF first
<1>7. /\ RollupSeries(w, protocols) = StoreSeries(w, rows)
      /\ rollup.addresses = 0 => RollupNodes(w, protocols) = NodeRows(rows)
      /\ rollup.pairs = 0 => RollupEdges(w, protocols) = EdgeRows(rows)
  BY <1>6, SeriesAre, NodesAre, EdgesAre
<1>8. StoreSummary(w, protocols) = Aggregate(StoreSeries(w, rows), NodeRows(rows), EdgeRows(rows))
  BY DEF StoreSummary
<1>9. RollupSummary(w, protocols) =
          Aggregate(RollupSeries(w, protocols), RollupNodes(w, protocols), RollupEdges(w, protocols))
  BY SummaryIs
<1>10. ASSUME NEW series, NEW nodes, NEW edges, NEW nodes2, NEW edges2
       PROVE  LET a == Aggregate(series, nodes, edges)  b == Aggregate(series, nodes2, edges2) IN
              /\ a.series = b.series
              /\ nodes = nodes2 => a.entities = b.entities /\ a.capped = b.capped
              /\ edges = edges2 => a.edges = b.edges
  BY DEF Aggregate
<1> QED
  BY <1>7, <1>8, <1>9, <1>10

LEMMA FlowsAreTyped ==
    ASSUME TallyInv, coverage \in {"none", "empty", "held"}, appending \in 0..appends, misread \in BOOLEAN
    PROVE  FlowsTypeOK
<1>1. /\ accepted \in Seq(StoredFlows) /\ flowSource \in ReadSources /\ appends \in 0..MaxAppends
      /\ rollup.addresses \in Nat /\ rollup.pairs \in Nat
      /\ rollup.entries = Cardinality(DOMAIN rollup.nodes) + Cardinality(DOMAIN rollup.edges)
      /\ rollup.entries <= MaxEntries
      /\ IsFiniteSet(DOMAIN rollup.nodes) /\ IsFiniteSet(DOMAIN rollup.edges)
  BY DEF TallyInv, IsRollup, IsTally
<1>2. Cardinality(DOMAIN rollup.nodes) \in Nat /\ Cardinality(DOMAIN rollup.edges) \in Nat
  BY <1>1, FS_CardinalityType
<1>3. rollup.entries \in 0..MaxEntries
  BY <1>1, <1>2, FlowConstants
<1> QED
  BY <1>1, <1>3 DEF FlowsTypeOK

(* The k-th smallest of some numbers is one of them.                       *)
LEMMA SortedIs ==
    ASSUME NEW values \in Seq(Int), NEW k \in DOMAIN values
    PROVE  Sorted(values)[k] \in {values[i] : i \in DOMAIN values}
<1> DEFINE V == {values[i] : i \in DOMAIN values}
           under(v) == {i \in DOMAIN values : values[i] < v}
           upTo(v) == {i \in DOMAIN values : values[i] <= v}
           Enough == {v \in V : k <= Cardinality(upTo(v))}
           Is(v) == Cardinality(under(v)) < k /\ k <= Cardinality(upTo(v))
<1>1. DOMAIN values = 1..Len(values) /\ Len(values) \in Nat
  BY LenProperties
<1>2. V \subseteq Int /\ V # {} /\ k \in Int /\ k <= Len(values) /\ 0 < k
  BY <1>1, ElementOfSeq
<1>3. IsFiniteSet(V)
  <2>1. IsFiniteSet(DOMAIN values)
    BY <1>1, FS_Interval
  <2>2. values \in Surjection(DOMAIN values, V)
    BY LenProperties DEF Surjection
  <2> HIDE DEF V
  <2> QED
    BY <2>1, <2>2, FS_Surjection
<1>4. \A v : /\ IsFiniteSet(under(v)) /\ Cardinality(under(v)) \in Nat
             /\ IsFiniteSet(upTo(v)) /\ Cardinality(upTo(v)) \in Nat
  <2>1. IsFiniteSet(DOMAIN values)
    BY <1>1, FS_Interval
  <2>2. \A v : IsFiniteSet(under(v)) /\ IsFiniteSet(upTo(v))
    BY <2>1, FS_Subset
  <2> HIDE DEF under, upTo
  <2> QED
    BY <2>2, FS_CardinalityType
<1>5. Enough # {}
  <2>1. Max(V) \in V /\ \A v \in V : v <= Max(V)
    <3> HIDE DEF V
    <3> QED
      BY <1>2, <1>3, FiniteBounds
  <2>2. upTo(Max(V)) = DOMAIN values
    <3>1. \A i \in DOMAIN values : values[i] \in V
      OBVIOUS
    <3> QED
      BY <2>1, <3>1
  <2>3. Cardinality(1..Len(values)) = Len(values)
    <3>1. ASSUME NEW n \in Nat PROVE Cardinality(1..n) = n
      BY FS_Interval
    <3> QED
      BY <1>1, <3>1
  <2>4. Cardinality(upTo(Max(V))) = Len(values)
    BY <1>1, <2>2, <2>3
  <2>5. Max(V) \in Enough
    <3> HIDE DEF V, upTo
    <3> QED
      BY <1>2, <2>1, <2>4
  <2> QED
    BY <2>5
<1>6. PICK v \in Enough : \A x \in Enough : v <= x
  <2>1. IsFiniteSet(Enough) /\ Enough \subseteq Int
    BY <1>2, <1>3, FS_Subset
  <2> HIDE DEF Enough
  <2>2. Min(Enough) \in Enough /\ \A x \in Enough : Min(Enough) <= x
    BY <1>5, <2>1, FiniteBounds
  <2> QED
    BY <2>2
<1>7. Cardinality(under(v)) < k
  <2> SUFFICES ASSUME ~(Cardinality(under(v)) < k) PROVE FALSE
    OBVIOUS
  <2> DEFINE smaller == {values[i] : i \in under(v)}
  <2>1. k <= Cardinality(under(v))
    <3>1. k \in Int
      BY <1>2
    <3> HIDE DEF under
    <3>2. Cardinality(under(v)) \in Nat
      BY <1>4
    <3> QED
      BY <3>1, <3>2
  <2>2. under(v) # {}
    <3>1. Cardinality({}) = 0
      BY FS_EmptySet
    <3> HIDE DEF under
    <3> QED
      BY <1>2, <2>1, <3>1
  <2>3. smaller # {} /\ smaller \subseteq V /\ IsFiniteSet(smaller) /\ smaller \subseteq Int
    <3>1. smaller # {} /\ smaller \subseteq V
      BY <2>2
    <3> HIDE DEF smaller, V
    <3> QED
      BY <1>2, <1>3, <3>1, FS_Subset
  <2>4. Max(smaller) \in smaller /\ \A x \in smaller : x <= Max(smaller)
    <3> HIDE DEF smaller
    <3> QED
      BY <2>3, FiniteBounds
  <2>5. Max(smaller) \in V /\ Max(smaller) < v /\ v \in Int
    BY <1>2, <2>3, <2>4
  <2>6. under(v) \subseteq upTo(Max(smaller))
    BY <2>4
  <2>7. Cardinality(under(v)) <= Cardinality(upTo(Max(smaller)))
    <3> HIDE DEF under, upTo
    <3> QED
      BY <1>4, <2>6, FS_Subset
  <2>8. k <= Cardinality(upTo(Max(smaller)))
    <3> HIDE DEF under, upTo, smaller
    <3> QED
      BY <1>2, <1>4, <2>1, <2>7
  <2>9. Max(smaller) \in Enough
    BY <2>5, <2>8
  <2> HIDE DEF smaller, Enough
  <2> QED
    BY <1>6, <2>5, <2>9
<1>8. v \in V /\ Is(v)
  BY <1>6, <1>7
<1>9. Sorted(values)[k] = CHOOSE x \in V : Is(x)
  BY DEF Sorted
<1> HIDE DEF V, Is
<1> QED
  BY <1>8, <1>9 DEF V

(* A quantile lies between numbers of the sample.                          *)
LEMMA BetweenIs ==
    ASSUME NEW a \in Int, NEW b \in Int, NEW m \in Int, m <= a, m <= b,
           NEW n \in Nat, NEW u \in 0..n
    PROVE  a * (n - u) + b * u \in Int /\ m * n <= a * (n - u) + b * u
<1> DEFINE x == a - m
           y == b - m
           t == n - u
<1>1. x \in Nat /\ y \in Nat /\ t \in Nat /\ u \in Nat /\ a = m + x /\ b = m + y /\ n = t + u
  OBVIOUS
<1> HIDE DEF x, y, t
<1>2. x * t \in Nat /\ y * u \in Nat
  BY <1>1
<1>3. (m + x) * t = m * t + x * t /\ (m + y) * u = m * u + y * u /\ m * (t + u) = m * t + m * u
      /\ m * t \in Int /\ m * u \in Int
  BY <1>1
<1>4. a * t + b * u = m * n + x * t + y * u /\ m * n \in Int
  BY <1>1, <1>3
<1>5. a * (n - u) + b * u = m * n + x * t + y * u
  BY <1>4 DEF t
<1> QED
  BY <1>2, <1>4, <1>5

LEMMA QuantileIs ==
    ASSUME NEW reference \in Seq(Int) \ {<<>>}, NEW index \in 1..(Bins - 1), NEW m \in Int,
           \A i \in DOMAIN reference : m <= reference[i]
    PROVE  /\ QuantileTimesBins(Sorted(reference), index) \in Int
           /\ m * Bins <= QuantileTimesBins(Sorted(reference), index)
<1> DEFINE values == Sorted(reference)
           n == Len(reference)
           place == index * (n - 1)
           low == place \div Bins
           weight == place % Bins
           high == IF weight = 0 THEN low ELSE low + 1
<1>1. Bins \in Nat \ {0, 1} /\ n \in Nat \ {0} /\ DOMAIN reference = 1..n
  BY DriftBinsAssumption, LenProperties, EmptySeq
<1>2. Len(values) = n
  BY <1>1 DEF Sorted
<1>3. QuantileTimesBins(values, index) = values[low + 1] * (Bins - weight) + values[high + 1] * weight
  BY <1>2 DEF QuantileTimesBins
<1>4. place \in Nat /\ place <= (Bins - 1) * (n - 1)
  <2>1. PICK t \in Nat, j \in Nat : t = n - 1 /\ j = Bins - 1 - index
    <3>1. n - 1 \in Nat
      BY <1>1
    <3>2. Bins - 1 - index \in Nat
      BY <1>1
    <3> QED
      BY <3>1, <3>2
  <2>2. PICK i \in Nat : i = index
    BY <1>1
  <2>3. i * t \in Nat /\ j * t \in Nat /\ (i + j) * t = i * t + j * t
    OBVIOUS
  <2>4. Bins - 1 = index + j
    BY <1>1, <2>1
  <2> QED
    BY <2>1, <2>2, <2>3, <2>4
<1>5. low \in Nat /\ weight \in 0..(Bins - 1) /\ place = Bins * low + weight
  <2>1. ASSUME NEW a \in Nat, NEW c \in Nat \ {0}
        PROVE  a \div c \in Nat /\ a % c \in 0..(c - 1) /\ a = c * (a \div c) + (a % c)
    OBVIOUS
  <2> HIDE DEF place
  <2> QED
    BY <1>1, <1>4, <2>1
<1>6. low + 1 \in 1..n /\ high + 1 \in 1..n
  <2>1. (Bins - 1) * (n - 1) = Bins * (n - 1) - (n - 1)
    BY <1>1
  <2>2. Bins * low + weight <= Bins * (n - 1) - (n - 1)
    BY <1>4, <1>5, <2>1
  <2> HIDE DEF low, weight, place, n
  <2>3. low <= n - 1
    <3> SUFFICES ASSUME low >= n PROVE FALSE
      BY <1>1, <1>5
    <3>1. low - n \in Nat
      BY <1>1, <1>5
    <3>2. Bins * (low - n) \in Nat /\ Bins * (low - n) = Bins * low - Bins * n
          /\ Bins * (n - 1) = Bins * n - Bins /\ Bins * low \in Int /\ Bins * n \in Int
      BY <1>1, <1>5, <3>1
    <3> QED
      BY <1>1, <1>5, <2>2, <3>2
  <2>4. low = n - 1 => weight = 0
    BY <1>1, <1>5, <2>2
  <2> QED
    BY <1>1, <1>5, <2>3, <2>4
<1>7. ASSUME NEW k \in 1..n PROVE values[k] \in Int /\ m <= values[k]
  <2>1. values[k] \in {reference[i] : i \in DOMAIN reference}
    BY <1>1, SortedIs
  <2>2. \A i \in DOMAIN reference : reference[i] \in Int
    BY <1>1, ElementOfSeq
  <2> HIDE DEF values
  <2> QED
    BY <2>1, <2>2
<1>8. /\ values[low + 1] \in Int /\ m <= values[low + 1]
      /\ values[high + 1] \in Int /\ m <= values[high + 1]
  BY <1>6, <1>7
<1>9. weight \in 0..Bins /\ Bins \in Nat
  BY <1>1, <1>5
<1> HIDE DEF values, low, high, weight
<1> QED
  BY <1>3, <1>8, <1>9, BetweenIs, ZenonT(40) DEF values

LEMMA MaxIs ==
    ASSUME NEW k \in Nat
    PROVE  /\ Max(1..(k + 1)) = k + 1 /\ (1..(k + 1)) \ {k + 1} = 1..k
           /\ \A s \in SUBSET (1..(k + 1)) : k + 1 \in s => Max(s) = k + 1
           /\ \A s \in SUBSET (1..k) : s # {} => Max(s) \in s
<1>1. ASSUME NEW s \in SUBSET (1..(k + 1)), s # {} PROVE Max(s) \in s /\ \A x \in s : x <= Max(s)
  <2>1. IsFiniteSet(s)
    <3>1. k + 1 \in Int
      OBVIOUS
    <3>2. IsFiniteSet(1..(k + 1))
      BY <3>1, FS_Interval
    <3> QED
      BY <3>2, FS_Subset
  <2>2. s \subseteq Int
    OBVIOUS
  <2> QED
    BY <1>1, <2>1, <2>2, FiniteBounds
<1>2. ASSUME NEW s \in SUBSET (1..(k + 1)), k + 1 \in s PROVE Max(s) = k + 1
  <2>1. Max(s) \in s /\ k + 1 <= Max(s)
    BY <1>1, <1>2
  <2>2. Max(s) \in 1..(k + 1)
    BY <2>1
  <2> QED
    BY <2>1, <2>2
<1>3. 1..k \subseteq 1..(k + 1) /\ k + 1 \in 1..(k + 1) /\ (1..(k + 1)) \ {k + 1} = 1..k
  OBVIOUS
<1>4. ASSUME NEW s \in SUBSET (1..k), s # {} PROVE Max(s) \in s
  BY <1>1, <1>3, <1>4
<1> QED
  BY <1>2, <1>3, <1>4

(* How the edges grow with the quantiles, as the library folds them.       *)
EdgeAdded(edges, edge) == IF edges = <<>> \/ edge > Last(edges) THEN Append(edges, edge) ELSE edges
EdgesStep(quantile, s, g) ==
    IF s = {} THEN <<>> ELSE EdgeAdded(g[s \ {Max(s)}], quantile[Max(s)])
EdgesRec(quantile, k, g) == g = [s \in SUBSET (1..k) |-> EdgesStep(quantile, s, g)]

LEMMA EdgesGrow ==
    ASSUME NEW quantile, NEW k \in Nat, NEW g, EdgesRec(quantile, k, g)
    PROVE  \E h : EdgesRec(quantile, k + 1, h)
<1> DEFINE h == [s \in SUBSET (1..(k + 1)) |->
                    IF k + 1 \in s THEN EdgeAdded(g[s \ {k + 1}], quantile[k + 1]) ELSE g[s]]
<1>1. ASSUME NEW s \in SUBSET (1..(k + 1)) PROVE h[s] = EdgesStep(quantile, s, h)
  <2>1. CASE k + 1 \in s
    <3>1. Max(s) = k + 1 /\ s # {}
      BY <2>1, MaxIs
    <3>2. s \ {k + 1} \in SUBSET (1..(k + 1)) /\ k + 1 \notin s \ {k + 1}
      OBVIOUS
    <3>3. h[s] = EdgeAdded(g[s \ {k + 1}], quantile[k + 1]) /\ h[s \ {k + 1}] = g[s \ {k + 1}]
      BY <2>1, <3>2
    <3> HIDE DEF h
    <3> QED
      BY <3>1, <3>3 DEF EdgesStep
  <2>2. CASE k + 1 \notin s
    <3>1. s \in SUBSET (1..k)
      BY <2>2
    <3>2. g[s] = EdgesStep(quantile, s, g)
      BY <3>1 DEF EdgesRec
    <3>3. h[s] = g[s]
      BY <2>2
    <3>4. CASE s = {}
      BY <3>2, <3>3, <3>4 DEF EdgesStep
    <3>5. CASE s # {}
      <4>1. Max(s) \in s
        BY <3>1, <3>5, MaxIs
      <4>2. s \ {Max(s)} \in SUBSET (1..(k + 1)) /\ k + 1 \notin s \ {Max(s)}
        BY <2>2
      <4>3. h[s \ {Max(s)}] = g[s \ {Max(s)}]
        BY <4>2
      <4> HIDE DEF h
      <4> QED
        BY <3>2, <3>3, <3>5, <4>3 DEF EdgesStep
    <3> QED
      BY <3>4, <3>5
  <2> QED
    BY <2>1, <2>2
<1>2. h = [s \in SUBSET (1..(k + 1)) |-> h[s]]
  OBVIOUS
<1> HIDE DEF h
<1>3. h = [s \in SUBSET (1..(k + 1)) |-> EdgesStep(quantile, s, h)]
  BY <1>1, <1>2
<1> QED
  BY <1>3 DEF EdgesRec

(* A set of numbers up to n that has zero, and with a number the next one, *)
(* has all of them.                                                        *)
LEMMA UpTo ==
    ASSUME NEW n \in Nat, NEW T, 0 \in T, \A k \in 0..(n - 1) : k \in T => k + 1 \in T
    PROVE  0..n \subseteq T
<1> DEFINE Missing == (0..n) \ T
<1> SUFFICES ASSUME Missing # {} PROVE FALSE
  OBVIOUS
<1>1. IsFiniteSet(Missing) /\ Missing \subseteq Int
  <2>1. IsFiniteSet(0..n)
    BY FS_Interval
  <2> QED
    BY <2>1, FS_Subset
<1>2. Min(Missing) \in Missing /\ \A x \in Missing : Min(Missing) <= x
  <2> HIDE DEF Missing
  <2> QED
    BY <1>1, FiniteBounds
<1>3. PICK m \in Missing : \A x \in Missing : m <= x
  BY <1>2
<1>4. m \in 0..n /\ m \notin T /\ m # 0
  BY <1>3
<1>5. m - 1 \in 0..(n - 1) /\ m - 1 \in 0..n /\ m - 1 < m /\ (m - 1) + 1 = m
  BY <1>4
<1>6. m - 1 \in T
  BY <1>3, <1>5
<1> QED
  BY <1>4, <1>5, <1>6

LEMMA EdgesAreRecursive ==
    ASSUME NEW quantile, NEW n \in Nat
    PROVE  LET g == CHOOSE h : EdgesRec(quantile, n, h) IN
           /\ g[1..0] = <<>>
           /\ \A k \in 0..(n - 1) : g[1..(k + 1)] = EdgeAdded(g[1..k], quantile[k + 1])
<1> DEFINE g == CHOOSE h : EdgesRec(quantile, n, h)
           T == {k \in 0..n : \E h : EdgesRec(quantile, k, h)}
<1>1. 0 \in T
  <2> DEFINE h == [s \in SUBSET (1..0) |-> <<>>]
  <2>1. \A s \in SUBSET (1..0) : s = {}
    OBVIOUS
  <2>2. \A s \in SUBSET (1..0) : EdgesStep(quantile, s, h) = <<>>
    BY <2>1 DEF EdgesStep
  <2>3. h = [s \in SUBSET (1..0) |-> EdgesStep(quantile, s, h)]
    BY <2>2
  <2> HIDE DEF h
  <2>4. EdgesRec(quantile, 0, h)
    BY <2>3 DEF EdgesRec
  <2> QED
    BY <2>4
<1>2. \A k \in 0..(n - 1) : k \in T => k + 1 \in T
  BY EdgesGrow
<1>3. n \in T
  <2> HIDE DEF T
  <2> QED
    BY <1>1, <1>2, UpTo
<1>4. EdgesRec(quantile, n, g)
  BY <1>3
<1> HIDE DEF g, T
<1>5. \A s \in SUBSET (1..n) : g[s] = EdgesStep(quantile, s, g)
  BY <1>4 DEF EdgesRec
<1>6. g[1..0] = <<>>
  BY <1>5 DEF EdgesStep
<1>7. ASSUME NEW k \in 0..(n - 1) PROVE g[1..(k + 1)] = EdgeAdded(g[1..k], quantile[k + 1])
  <2>1. 1..(k + 1) \in SUBSET (1..n) /\ 1..(k + 1) # {}
    OBVIOUS
  <2>2. Max(1..(k + 1)) = k + 1 /\ (1..(k + 1)) \ {k + 1} = 1..k
    BY MaxIs, SMTT(40)
  <2> QED
    BY <1>5, <2>1, <2>2 DEF EdgesStep
<1> QED
  BY <1>6, <1>7 DEF g

(* Edges that rise, from a number on.                                      *)
AreEdges(edges, low) ==
    /\ edges \in Seq(Int)
    /\ \A i, j \in DOMAIN edges : i < j => edges[i] < edges[j]
    /\ edges # <<>> => low <= edges[1]

LEMMA OneMoreEdge ==
    ASSUME NEW edges, NEW low \in Int, AreEdges(edges, low), NEW edge \in Int, low <= edge
    PROVE  AreEdges(EdgeAdded(edges, edge), low) /\ EdgeAdded(edges, edge) # <<>>
<1> DEFINE more == Append(edges, edge)
           n == Len(edges)
<1>1. edges \in Seq(Int) /\ n \in Nat /\ DOMAIN edges = 1..n
  BY LenProperties DEF AreEdges
<1>2. /\ more \in Seq(Int) /\ Len(more) = n + 1 /\ more # <<>> /\ DOMAIN more = 1..(n + 1)
      /\ more[n + 1] = edge /\ \A i \in 1..n : more[i] = edges[i]
  BY <1>1, SMTT(40)
<1>3. CASE edges = <<>>
  <2>1. n = 0
    BY <1>3
  <2> HIDE DEF more, n
  <2>2. more[1] = edge
    BY <1>2, <2>1
  <2>3. AreEdges(more, low)
    BY <1>2, <2>1, <2>2 DEF AreEdges
  <2> QED
    BY <1>2, <1>3, <2>3 DEF EdgeAdded, more
<1>4. CASE edges # <<>> /\ ~(edge > Last(edges))
  BY <1>4 DEF EdgeAdded
<1>5. CASE edges # <<>> /\ edge > Last(edges)
  <2>1. n # 0 /\ edges[n] < edge
    BY <1>1, <1>5 DEF Last
  <2>2. \A i \in 1..n : edges[i] \in Int
    BY <1>1, ElementOfSeq
  <2> HIDE DEF more, n
  <2>3. \A i \in 1..n : edges[i] < edge
    <3> SUFFICES ASSUME NEW i \in 1..n, i # n PROVE edges[i] < edge
      BY <2>1
    <3>1. edges[i] < edges[n] /\ edges[n] \in Int /\ edges[i] \in Int
      BY <1>1, <2>1, <2>2 DEF AreEdges
    <3> QED
      BY <2>1, <3>1
  <2>4. \A i, j \in DOMAIN more : i < j => more[i] < more[j]
    <3> SUFFICES ASSUME NEW i \in 1..(n + 1), NEW j \in 1..(n + 1), i < j PROVE more[i] < more[j]
      BY <1>2
    <3>1. i \in 1..n /\ (j \in 1..n \/ j = n + 1)
      BY <1>1
    <3> QED
      BY <1>1, <1>2, <2>3, <3>1 DEF AreEdges
  <2>5. low <= more[1]
    <3>1. 1 \in 1..n
      BY <1>1, <2>1
    <3> QED
      BY <1>2, <1>5, <3>1 DEF AreEdges
  <2>6. AreEdges(more, low)
    BY <1>2, <2>4, <2>5 DEF AreEdges
  <2> QED
    BY <1>2, <1>5, <2>6 DEF EdgeAdded, more
<1> QED
  BY <1>3, <1>4, <1>5

LEMMA BinEdgesAre ==
    ASSUME NEW reference \in Seq(Int) \ {<<>>}, NEW m \in Int,
           \A i \in DOMAIN reference : m <= reference[i]
    PROVE  AreEdges(BinEdges(reference), m * Bins) /\ BinEdges(reference) # <<>>
<1> DEFINE n == Bins - 1
           quantile == [i \in 1..n |-> QuantileTimesBins(Sorted(reference), i)]
           index == [i \in 1..n |-> i]
           Is(h) == h = [s \in SUBSET (1..n) |->
                           IF s = {} THEN <<>>
                           ELSE EdgeAdded(h[s \ {Max(s)}], QuantileTimesBins(Sorted(reference), index[Max(s)]))]
           g == CHOOSE h : EdgesRec(quantile, n, h)
<1>1. Bins \in Nat \ {0, 1} /\ n \in Nat
  BY DriftBinsAssumption
<1>2. BinEdges(reference) = (CHOOSE h : Is(h))[1..n]
  BY DEF BinEdges, FoldLeft, MapThenFoldSet, EdgeAdded
<1>3. \A h : Is(h) <=> EdgesRec(quantile, n, h)
  <2> SUFFICES ASSUME NEW h PROVE Is(h) <=> EdgesRec(quantile, n, h)
    OBVIOUS
  <2>1. ASSUME NEW s \in SUBSET (1..n)
        PROVE  EdgesStep(quantile, s, h) =
                   IF s = {} THEN <<>>
                   ELSE EdgeAdded(h[s \ {Max(s)}], QuantileTimesBins(Sorted(reference), index[Max(s)]))
    <3>1. CASE s = {}
      BY <3>1 DEF EdgesStep
    <3>2. CASE s # {}
      <4>1. Max(s) \in 1..n
        BY <1>1, <3>2, MaxIs
      <4>2. quantile[Max(s)] = QuantileTimesBins(Sorted(reference), index[Max(s)])
        BY <4>1
      <4> HIDE DEF quantile, index
      <4> QED
        BY <3>2, <4>2 DEF EdgesStep
    <3> QED
      BY <3>1, <3>2
  <2> HIDE DEF quantile, index
  <2> QED
    BY <2>1 DEF EdgesRec
<1>4. BinEdges(reference) = g[1..n]
  <2> HIDE DEF Is, quantile, n
  <2> QED
    BY <1>2, <1>3
<1>5. \A k \in 1..n : quantile[k] \in Int /\ m * Bins <= quantile[k]
  BY QuantileIs
<1> HIDE DEF quantile, n
<1>6. /\ g[1..0] = <<>>
      /\ \A k \in 0..(n - 1) : g[1..(k + 1)] = EdgeAdded(g[1..k], quantile[k + 1])
  BY <1>1, EdgesAreRecursive
<1> HIDE DEF g
<1> DEFINE T == {k \in 0..n : AreEdges(g[1..k], m * Bins) /\ (k # 0 => g[1..k] # <<>>)}
<1>7. m * Bins \in Int
  BY <1>1
<1>8. 0 \in T
  <2>1. AreEdges(<<>>, m * Bins)
    BY DEF AreEdges
  <2> QED
    BY <1>1, <1>6, <2>1
<1>9. \A k \in 0..(n - 1) : k \in T => k + 1 \in T
  <2> SUFFICES ASSUME NEW k \in 0..(n - 1), k \in T PROVE k + 1 \in T
    OBVIOUS
  <2>1. k + 1 \in 1..n /\ k + 1 \in 0..n
    BY <1>1
  <2>2. AreEdges(g[1..k], m * Bins) /\ quantile[k + 1] \in Int /\ m * Bins <= quantile[k + 1]
    BY <1>5, <2>1
  <2>3. AreEdges(g[1..(k + 1)], m * Bins) /\ g[1..(k + 1)] # <<>>
    BY <1>6, <1>7, <2>2, OneMoreEdge
  <2> QED
    BY <2>1, <2>3
<1>10. n \in T
  <2>1. n \in 0..n
    BY <1>1
  <2> HIDE DEF T
  <2>2. 0..n \subseteq T
    BY <1>1, <1>8, <1>9, UpTo
  <2> QED
    BY <2>1, <2>2
<1>11. n # 0
  BY <1>1 DEF n
<1> QED
  BY <1>4, <1>10, <1>11

(* A value goes in the one bin whose edges are around it.                  *)
LEMMA BinIs ==
    ASSUME NEW edges, NEW low, AreEdges(edges, low), NEW v \in Int, NEW b \in 1..(Len(edges) + 1)
    PROVE  BinOfValue(v, edges) = b <=> /\ b = 1 \/ edges[b - 1] < v * Bins
                                        /\ b > Len(edges) \/ v * Bins <= edges[b]
<1> DEFINE n == Len(edges)
           x == v * Bins
           fits == {j \in DOMAIN edges : x <= edges[j]}
           bin == BinOfValue(v, edges)
<1>1. /\ edges \in Seq(Int) /\ n \in Nat /\ DOMAIN edges = 1..n /\ x \in Int
      /\ \A i \in 1..n : edges[i] \in Int
      /\ \A i, j \in 1..n : i < j => edges[i] < edges[j]
  BY DriftBinsAssumption, LenProperties, ElementOfSeq DEF AreEdges
<1>2. bin = IF fits = {} THEN n + 1 ELSE Min(fits)
  BY DEF BinOfValue
<1>3. fits # {} => Min(fits) \in fits /\ \A j \in fits : Min(fits) <= j
  <2>1. IsFiniteSet(1..n)
    BY <1>1, FS_Interval
  <2>2. IsFiniteSet(fits) /\ fits \subseteq Int
    BY <1>1, <2>1, FS_Subset
  <2> HIDE DEF fits
  <2> QED
    BY <2>2, FiniteBounds
<1> HIDE DEF n, x, bin
<1>4. /\ bin \in 1..(n + 1)
      /\ bin > n \/ x <= edges[bin]
      /\ \A j \in 1..n : j < bin => edges[j] < x
  <2>1. CASE fits = {}
    BY <1>1, <1>2, <2>1
  <2>2. CASE fits # {}
    <3>1. bin \in 1..n /\ x <= edges[bin] /\ \A j \in 1..n : x <= edges[j] => bin <= j
      BY <1>1, <1>2, <1>3, <2>2
    <3> QED
      BY <1>1, <3>1
  <2> QED
    BY <2>1, <2>2
<1>5. b \in 1..(n + 1)
  BY DEF n
<1>6. ASSUME bin = b PROVE (b = 1 \/ edges[b - 1] < x) /\ (b > n \/ x <= edges[b])
  <2>1. b = 1 \/ (b - 1 \in 1..n /\ b - 1 < b)
    BY <1>1, <1>5
  <2> QED
    BY <1>4, <1>6, <2>1
<1>7. ASSUME b = 1 \/ edges[b - 1] < x, b > n \/ x <= edges[b] PROVE bin = b
  <2>1. ~(bin < b)
    <3> SUFFICES ASSUME bin < b PROVE FALSE
      OBVIOUS
    <3>1. bin \in 1..n /\ x <= edges[bin] /\ b - 1 \in 1..n /\ bin <= b - 1 /\ edges[b - 1] < x
      BY <1>1, <1>4, <1>5, <1>7
    <3>2. edges[bin] <= edges[b - 1]
      BY <1>1, <3>1, SMTT(40)
    <3> QED
      BY <1>1, <3>1, <3>2
  <2>2. ~(b < bin)
    <3> SUFFICES ASSUME b < bin PROVE FALSE
      OBVIOUS
    <3>1. b \in 1..n /\ x <= edges[b]
      BY <1>1, <1>4, <1>5, <1>7
    <3>2. edges[b] < x
      BY <1>4, <3>1
    <3> QED
      BY <1>1, <3>1, <3>2
  <2> QED
    BY <1>1, <1>4, <1>5, <2>1, <2>2
<1> QED
  BY <1>6, <1>7 DEF n, x, bin

(* What a comparison keeps is what its two samples give.                   *)
BinsInv ==
    measured # NotMeasured =>
        \E r, a \in Samples :
            measured = [edges |-> BinEdges(r), reference |-> r, actual |-> a,
                        expected |-> Histogram(r, BinEdges(r)), observed |-> Histogram(a, BinEdges(r))]

LEMMA BinsStart == DriftBinsInit => BinsInv
BY DEF DriftBinsInit, BinsInv

LEMMA BinsStep == BinsInv /\ [DriftBinsNext]_measured => BinsInv'
<1> SUFFICES ASSUME BinsInv, [DriftBinsNext]_measured PROVE BinsInv'
  OBVIOUS
<1>1. CASE DriftBinsNext
  <2>1. PICK r \in Samples, a \in Samples : Measure(r, a)
    BY <1>1 DEF DriftBinsNext
  <2> QED
    BY <2>1 DEF Measure, BinsInv
<1>2. CASE UNCHANGED measured
  BY <1>2 DEF BinsInv, NotMeasured
<1> QED
  BY <1>1, <1>2

(* A sample has a least number.                                            *)
LEMMA LeastOf ==
    ASSUME NEW reference \in Seq(Int) \ {<<>>}
    PROVE  \E j \in DOMAIN reference : \A i \in DOMAIN reference : reference[j] <= reference[i]
<1> DEFINE V == {reference[i] : i \in DOMAIN reference}
<1>1. DOMAIN reference = 1..Len(reference) /\ Len(reference) \in Nat \ {0}
  BY LenProperties, EmptySeq
<1>2. V \subseteq Int /\ V # {}
  BY <1>1, ElementOfSeq
<1>3. IsFiniteSet(V)
  <2>1. IsFiniteSet(DOMAIN reference)
    BY <1>1, FS_Interval
  <2>2. reference \in Surjection(DOMAIN reference, V)
    BY LenProperties DEF Surjection
  <2> HIDE DEF V
  <2> QED
    BY <2>1, <2>2, FS_Surjection
<1>4. Min(V) \in V /\ \A x \in V : Min(V) <= x
  <2> HIDE DEF V
  <2> QED
    BY <1>2, <1>3, FiniteBounds
<1> QED
  BY <1>4

LEMMA BinsGood == BinsInv => BinsHoldTheirValues
<1> SUFFICES ASSUME BinsInv, measured # NotMeasured PROVE BinsHoldTheirValues
  BY DEF BinsHoldTheirValues
<1>1. PICK r \in Samples, a \in Samples :
          measured = [edges |-> BinEdges(r), reference |-> r, actual |-> a,
                      expected |-> Histogram(r, BinEdges(r)), observed |-> Histogram(a, BinEdges(r))]
  BY DEF BinsInv
<1> DEFINE edges == BinEdges(r)
           n == Len(edges)
           In(b, v) == /\ b = 1 \/ edges[b - 1] < v * Bins
                       /\ b > n \/ v * Bins <= edges[b]
<1>2. /\ measured.edges = edges /\ measured.reference = r /\ measured.actual = a
      /\ measured.expected = Histogram(r, edges) /\ measured.observed = Histogram(a, edges)
  BY <1>1
<1>3. r \in Seq(Int) \ {<<>>} /\ a \in Seq(Int) /\ Bins \in Nat
  BY DriftBinsAssumption
<1>4. PICK least \in DOMAIN r : \A i \in DOMAIN r : r[least] <= r[i]
  BY <1>3, LeastOf
<1>5. /\ DOMAIN r = 1..Len(r) /\ Len(r) \in Nat /\ \A i \in DOMAIN r : r[i] \in Int
      /\ \A i \in DOMAIN a : a[i] \in Int
  BY <1>3, LenProperties, ElementOfSeq
<1>6. AreEdges(edges, r[least] * Bins) /\ edges # <<>>
  BY <1>3, <1>4, <1>5, BinEdgesAre
<1> HIDE DEF edges
<1>7. edges \in Seq(Int) /\ n \in Nat \ {0} /\ DOMAIN edges = 1..n
  BY <1>6, LenProperties, EmptySeq DEF AreEdges
<1>8. ASSUME NEW values \in Seq(Int), NEW b \in 1..(n + 1)
      PROVE  Histogram(values, edges)[b] = Cardinality({i \in DOMAIN values : In(b, values[i])})
  <2>1. \A i \in DOMAIN values : values[i] \in Int
    BY LenProperties, ElementOfSeq
  <2>2. \A i \in DOMAIN values : BinOfValue(values[i], edges) = b <=> In(b, values[i])
    BY <1>6, <2>1, BinIs
  <2> HIDE DEF In
  <2>3. {i \in DOMAIN values : BinOfValue(values[i], edges) = b} = {i \in DOMAIN values : In(b, values[i])}
    BY <2>2
  <2> QED
    BY <2>3 DEF Histogram
<1>9. DOMAIN measured.expected = 1..(n + 1)
  BY <1>2 DEF Histogram
<1>10. measured.expected[1] > 0
  <2> DEFINE B == {i \in DOMAIN r : In(1, r[i])}
  <2>1. 1 \in 1..(n + 1) /\ 1 \in 1..n
    BY <1>7
  <2>2. measured.expected[1] = Cardinality(B)
    BY <1>2, <1>3, <1>8, <2>1
  <2>3. r[least] * Bins <= edges[1]
    BY <1>6 DEF AreEdges
  <2>4. least \in B
    BY <2>3
  <2>5. IsFiniteSet(DOMAIN r)
    BY <1>5, FS_Interval
  <2>6. IsFiniteSet(B)
    BY <2>5, FS_Subset
  <2> HIDE DEF B
  <2>7. Cardinality(B) \in Nat /\ Cardinality(B) # 0
    BY <2>4, <2>6, FS_CardinalityType, FS_EmptySet
  <2> QED
    BY <2>2, <2>7
<1>11. \A i, j \in DOMAIN edges : i < j => edges[i] < edges[j]
  BY <1>6 DEF AreEdges
<1>12. ASSUME NEW b \in DOMAIN measured.expected
       PROVE  /\ measured.expected[b] = Cardinality({i \in DOMAIN r : In(b, r[i])})
              /\ measured.observed[b] = Cardinality({i \in DOMAIN a : In(b, a[i])})
  <2>1. b \in 1..(n + 1) /\ r \in Seq(Int) /\ a \in Seq(Int)
    BY <1>3, <1>9
  <2> HIDE DEF In, n
  <2>2. Histogram(r, edges)[b] = Cardinality({i \in DOMAIN r : In(b, r[i])})
    BY <1>8, <2>1
  <2>3. Histogram(a, edges)[b] = Cardinality({i \in DOMAIN a : In(b, a[i])})
    BY <1>8, <2>1
  <2> QED
    BY <1>2, <2>2, <2>3
<1> QED
  BY <1>2, <1>10, <1>11, <1>12, ZenonT(40) DEF BinsHoldTheirValues

LEMMA BinsAreTyped == BinsInv => DriftBinsTypeOK
<1> SUFFICES ASSUME BinsInv PROVE measured.edges \in Seq(Int)
  BY DEF DriftBinsTypeOK
<1>1. CASE measured = NotMeasured
  BY <1>1 DEF NotMeasured
<1>2. CASE measured # NotMeasured
  <2>1. PICK r \in Samples : measured.edges = BinEdges(r)
    BY <1>2 DEF BinsInv
  <2>2. r \in Seq(Int) \ {<<>>}
    BY DriftBinsAssumption
  <2>3. PICK j \in DOMAIN r : \A i \in DOMAIN r : r[j] <= r[i]
    BY <2>2, LeastOf
  <2>4. r[j] \in Int
    BY <2>2, LenProperties, ElementOfSeq
  <2> QED
    BY <2>1, <2>2, <2>3, <2>4, BinEdgesAre DEF AreEdges
<1> QED
  BY <1>1, <1>2

(* A fold over the numbers up to n, by way of functions: of a set of them  *)
(* it makes what the last one makes of the fold over the others.           *)
IsFold(op, base, n, h) ==
    h = [s \in SUBSET (1..n) |-> IF s = {} THEN base ELSE op[h[s \ {Max(s)}]][Max(s)]]

LEMMA FoldGrows ==
    ASSUME NEW A, NEW base \in A, NEW n \in Nat, NEW op \in [A -> [1..n -> A]],
           NEW k \in 0..(n - 1), NEW g \in [SUBSET (1..k) -> A], IsFold(op, base, k, g)
    PROVE  \E h \in [SUBSET (1..(k + 1)) -> A] : IsFold(op, base, k + 1, h)
<1> DEFINE h == [s \in SUBSET (1..(k + 1)) |-> IF k + 1 \in s THEN op[g[s \ {k + 1}]][k + 1] ELSE g[s]]
           Of(f, s) == IF s = {} THEN base ELSE op[f[s \ {Max(s)}]][Max(s)]
<1>0. k \in Nat /\ k + 1 \in 1..n
  OBVIOUS
<1>1. ASSUME NEW s \in SUBSET (1..(k + 1)) PROVE h[s] = Of(h, s) /\ h[s] \in A
  <2>1. CASE k + 1 \in s
    <3>1. Max(s) = k + 1 /\ s # {}
      BY <1>0, <2>1, MaxIs
    <3>2. s \ {k + 1} \in SUBSET (1..k) /\ s \ {k + 1} \in SUBSET (1..(k + 1)) /\ k + 1 \notin s \ {k + 1}
      OBVIOUS
    <3>3. h[s] = op[g[s \ {k + 1}]][k + 1] /\ h[s \ {k + 1}] = g[s \ {k + 1}]
      BY <2>1, <3>2
    <3>4. g[s \ {k + 1}] \in A
      BY <3>2
    <3> HIDE DEF h, Of
    <3>5. op[g[s \ {k + 1}]][k + 1] \in A
      <4> DEFINE x == g[s \ {k + 1}]
      <4>1. x \in A
        BY <3>4
      <4> HIDE DEF x
      <4>2. op[x] \in [1..n -> A]
        BY <4>1
      <4>3. op[x][k + 1] \in A
        BY <1>0, <4>2
      <4> QED
        BY <4>3 DEF x
    <3>6. h[s] = Of(h, s)
      BY <3>1, <3>3 DEF Of
    <3> QED
      BY <3>3, <3>5, <3>6
  <2>2. CASE k + 1 \notin s
    <3>1. s \in SUBSET (1..k)
      BY <2>2
    <3>2. g[s] = Of(g, s) /\ g[s] \in A
      BY <3>1 DEF IsFold
    <3>3. h[s] = g[s]
      BY <2>2
    <3>4. CASE s = {}
      BY <3>2, <3>3, <3>4
    <3>5. CASE s # {}
      <4>1. Max(s) \in s
        BY <1>0, <3>1, <3>5, MaxIs
      <4>2. s \ {Max(s)} \in SUBSET (1..(k + 1)) /\ k + 1 \notin s \ {Max(s)}
        BY <2>2
      <4>3. h[s \ {Max(s)}] = g[s \ {Max(s)}]
        BY <4>2
      <4> HIDE DEF h
      <4> QED
        BY <3>2, <3>3, <3>5, <4>3
    <3> QED
      BY <3>4, <3>5
  <2> QED
    BY <2>1, <2>2
<1>2. h = [s \in SUBSET (1..(k + 1)) |-> h[s]]
  OBVIOUS
<1> HIDE DEF h
<1>3. h = [s \in SUBSET (1..(k + 1)) |-> Of(h, s)] /\ h \in [SUBSET (1..(k + 1)) -> A]
  <2> HIDE DEF Of
  <2> QED
    BY <1>1, <1>2
<1> QED
  BY <1>3 DEF IsFold

LEMMA FoldExists ==
    ASSUME NEW A, NEW base \in A, NEW n \in Nat, NEW op \in [A -> [1..n -> A]]
    PROVE  \E h \in [SUBSET (1..n) -> A] : IsFold(op, base, n, h)
<1> DEFINE T == {k \in 0..n : \E h \in [SUBSET (1..k) -> A] : IsFold(op, base, k, h)}
<1>1. 0 \in T
  <2> DEFINE h == [s \in SUBSET (1..0) |-> base]
  <2>1. \A s \in SUBSET (1..0) : s = {}
    OBVIOUS
  <2>2. h = [s \in SUBSET (1..0) |-> IF s = {} THEN base ELSE op[h[s \ {Max(s)}]][Max(s)]]
    BY <2>1
  <2>3. h \in [SUBSET (1..0) -> A]
    OBVIOUS
  <2> HIDE DEF h
  <2>4. IsFold(op, base, 0, h)
    BY <2>2 DEF IsFold
  <2>5. 0 \in 0..n
    OBVIOUS
  <2> QED
    BY <2>3, <2>4, <2>5
<1>2. \A k \in 0..(n - 1) : k \in T => k + 1 \in T
  <2> SUFFICES ASSUME NEW k \in 0..(n - 1), k \in T PROVE k + 1 \in T
    OBVIOUS
  <2>1. \E h \in [SUBSET (1..(k + 1)) -> A] : IsFold(op, base, k + 1, h)
    BY FoldGrows
  <2> QED
    BY <2>1
<1>3. n \in T
  <2>1. n \in 0..n
    OBVIOUS
  <2> HIDE DEF T
  <2>2. 0..n \subseteq T
    BY <1>1, <1>2, UpTo
  <2> QED
    BY <2>1, <2>2
<1> QED
  BY <1>3

(* So many marks for each key as its weight.                               *)
Marks(weight, keys) == {p \in keys \X Nat : p[2] \in 1..weight[p[1]]}

(* The keys of some pairs: as many of each as there are pairs of it.       *)
LEMMA Fiber ==
    ASSUME NEW X, IsFiniteSet(X), NEW k, NEW Y, \A y : y \in Y <=> <<k, y>> \in X,
           \A p \in X : p = <<p[1], p[2]>>
    PROVE  Cardinality({p \in X : p[1] = k}) = Cardinality(Y) /\ IsFiniteSet(Y)
<1> DEFINE P == {p \in X : p[1] = k}
           f == [p \in P |-> p[2]]
<1>1. IsFiniteSet(P)
  BY FS_Subset
<1>2. f \in [P -> Y]
  <2>1. \A p \in P : p = <<k, p[2]>> /\ p \in X
    OBVIOUS
  <2> HIDE DEF P
  <2> QED
    BY <2>1
<1>3. \A y \in Y : <<k, y>> \in P /\ f[<<k, y>>] = y
  OBVIOUS
<1>4. \A p, q \in P : f[p] = f[q] => p = q
  <2>1. \A p \in P : p = <<k, p[2]>>
    OBVIOUS
  <2>2. \A p \in P : f[p] = p[2]
    OBVIOUS
  <2> HIDE DEF P, f
  <2> QED
    BY <2>1, <2>2
<1> HIDE DEF P, f
<1>5. f \in Bijection(P, Y)
  BY <1>2, <1>3, <1>4 DEF Bijection, Injection, Surjection, IsInjective
<1>6. ExistsBijection(P, Y)
  BY <1>5 DEF ExistsBijection
<1> QED
  BY <1>1, <1>6, FS_Bijection DEF P

(* The sum over the threats of the ranks is a sum of a tally of them.      *)
LEMMA RanksAreSummed ==
    MapThenSumSet(TwiceTheRank, Threats) = TallySum([i \in Threats |-> TwiceTheRank(i)], Threats)
<1> DEFINE bag == [i \in Threats |-> TwiceTheRank(i)]
           P(g) == g = [s \in SUBSET Threats |-> IF s = {} THEN 0 ELSE
                           TwiceTheRank(CHOOSE x \in s : TRUE) + g[s \ {CHOOSE x \in s : TRUE}]]
           Q(g) == g = [s \in SUBSET Threats |-> SumStep(bag, s, g)]
<1>1. MapThenSumSet(TwiceTheRank, Threats) = (CHOOSE g : P(g))[Threats]
  BY DEF MapThenSumSet, MapThenFoldSet
<1>2. TallySum(bag, Threats) = (CHOOSE g : Q(g))[Threats]
  BY DEF TallySum, MapThenSumSet, MapThenFoldSet, SumStep
<1>3. \A g : P(g) <=> Q(g)
  <2> TAKE g
  <2>1. ASSUME NEW s \in SUBSET Threats, s # {}
        PROVE bag[CHOOSE x \in s : TRUE] = TwiceTheRank(CHOOSE x \in s : TRUE)
    <3>1. (CHOOSE x \in s : TRUE) \in Threats
      BY <2>1
    <3> QED
      BY <3>1
  <2> HIDE DEF bag
  <2> QED
    BY <2>1 DEF SumStep
<1> HIDE DEF P, Q, bag
<1>4. (CHOOSE g : P(g)) = (CHOOSE g : Q(g))
  BY <1>3, Zenon
<1> QED
  BY <1>1, <1>2, <1>4 DEF bag


(* A report of the examples there are, at a threshold.                     *)
ReportOf(threshold) ==
    [is |-> "report", threshold |-> threshold, histogram |-> ScoreHistogram,
     positives |-> Cardinality(Threats), negatives |-> Cardinality(Benign),
     confusion |-> ConfusionAt(threshold), rocAuc |-> RocAuc,
     prAuc |-> AveragePrecision, sweep |-> Sweep, best |-> BestF1]

LEMMA ClassesAre ==
    ASSUME examples \in Seq(Example)
    PROVE  /\ All = 1..Len(examples) /\ IsFiniteSet(All) /\ IsFiniteSet(Threats) /\ IsFiniteSet(Benign)
           /\ All = Threats \cup Benign /\ Threats \cap Benign = {}
           /\ \A i \in All : examples[i].score \in Int /\ 0 <= examples[i].score
                             /\ examples[i].score <= ScoreTop
           /\ ScoreTop \in Nat \ {0}
<1>1. All = 1..Len(examples) /\ Len(examples) \in Nat
  BY DEF All
<1>2. IsFiniteSet(All)
  BY <1>1, FS_Interval
<1>3. Threats \subseteq All /\ Benign \subseteq All
  BY DEF Threats, Benign
<1>4. IsFiniteSet(Threats) /\ IsFiniteSet(Benign)
  BY <1>2, <1>3, FS_Subset
<1>5. \A i \in All : examples[i].score \in 0..ScoreTop
  <2> SUFFICES ASSUME NEW i \in All PROVE examples[i].score \in 0..ScoreTop
    OBVIOUS
  <2>1. examples[i] \in Example
    BY <1>1
  <2> QED
    BY <2>1 DEF Example
<1>6. ScoreTop \in Nat \ {0}
  BY EvaluationAssumption
<1>7. All = Threats \cup Benign /\ Threats \cap Benign = {}
  BY <1>3 DEF Benign
<1>8. \A i \in All : examples[i].score \in Int /\ 0 <= examples[i].score /\ examples[i].score <= ScoreTop
  BY <1>5, <1>6
<1> QED
  BY <1>1, <1>2, <1>4, <1>6, <1>7, <1>8

(* The width of a bin, and what a score's bin says of it.                  *)
LEMMA BinIsBy ==
    LET width == ScoreTop \div HistogramBins IN
    /\ width \in Nat \ {0} /\ HistogramBins \in Nat \ {0}
    /\ \A s \in 0..ScoreTop : BinOf(s) \in 1..HistogramBins
    /\ \A s \in 0..ScoreTop, k \in 0..(HistogramBins - 1) : k + 1 <= BinOf(s) <=> k * width <= s
<1> DEFINE width == ScoreTop \div HistogramBins
<1>1. ScoreTop \in Nat \ {0} /\ HistogramBins \in Nat \ {0} /\ ScoreTop % HistogramBins = 0
  BY EvaluationAssumption
<1>2. width \in Nat \ {0}
  <2>1. width \in Nat
    BY <1>1
  <2>2. ScoreTop = HistogramBins * width
    BY <1>1
  <2> HIDE DEF width
  <2> QED
    BY <1>1, <2>1, <2>2
<1> HIDE DEF width
<1>3. ASSUME NEW s \in 0..ScoreTop
      PROVE  /\ BinOf(s) \in 1..HistogramBins
             /\ \A k \in 0..(HistogramBins - 1) : k + 1 <= BinOf(s) <=> k * width <= s
  <2>1. PICK d \in Nat \ {0} : d = width
    BY <1>2
  <2>2. PICK x \in Nat : x = s
    BY <1>1
  <2> DEFINE q == x \div d
  <2>3. q \in Nat /\ d * q <= x /\ x < d * (q + 1)
    BY <2>1, <2>2
  <2> HIDE DEF q
  <2>4. BinOf(s) = Min({q, HistogramBins - 1}) + 1
    BY <2>1, <2>2 DEF BinOf, q, width
  <2>5. BinOf(s) = (IF q <= HistogramBins - 1 THEN q ELSE HistogramBins - 1) + 1
    BY <1>1, <2>3, <2>4, MinOfTwo
  <2>6. ASSUME NEW k \in 0..(HistogramBins - 1) PROVE k + 1 <= BinOf(s) <=> k * width <= s
    <3>1. k + 1 <= BinOf(s) <=> k <= q
      BY <1>1, <2>3, <2>5
    <3>2. k <= q => k * d <= x
      <4>1. k <= q => k * d <= d * q
        BY <2>1, <2>3
      <4> QED
        BY <2>1, <2>2, <2>3, <4>1
    <3>3. k > q => k * d > x
      <4>1. k >= q + 1 => d * (q + 1) <= k * d
        BY <2>1, <2>3
      <4> QED
        BY <2>1, <2>2, <2>3, <4>1
    <3> QED
      BY <2>1, <2>2, <2>3, <3>1, <3>2, <3>3
  <2> QED
    BY <1>1, <2>3, <2>5, <2>6
<1> QED
  BY <1>1, <1>2, <1>3 DEF width

(* The sum of some bins' counts of a class.                                *)
BinsOver(bins, class, keys) == MapThenSumSet(LAMBDA b : bins[b][class], keys)

LEMMA BinsAreSummed ==
    ASSUME NEW bins, NEW class, NEW keys
    PROVE  BinsOver(bins, class, keys) = TallySum([b \in keys |-> bins[b][class]], keys)
<1> DEFINE bag == [b \in keys |-> bins[b][class]]
           P(g) == g = [s \in SUBSET keys |-> IF s = {} THEN 0 ELSE
                           bins[CHOOSE x \in s : TRUE][class] + g[s \ {CHOOSE x \in s : TRUE}]]
           Q(g) == g = [s \in SUBSET keys |-> SumStep(bag, s, g)]
<1>1. BinsOver(bins, class, keys) = (CHOOSE g : P(g))[keys]
  BY DEF BinsOver, MapThenSumSet, MapThenFoldSet
<1>2. TallySum(bag, keys) = (CHOOSE g : Q(g))[keys]
  BY DEF TallySum, MapThenSumSet, MapThenFoldSet, SumStep
<1>3. \A g : P(g) <=> Q(g)
  <2> TAKE g
  <2>1. ASSUME NEW s \in SUBSET keys, s # {}
        PROVE bag[CHOOSE x \in s : TRUE] = bins[CHOOSE x \in s : TRUE][class]
    <3>1. (CHOOSE x \in s : TRUE) \in keys
      BY <2>1
    <3> QED
      BY <3>1
  <2> HIDE DEF bag
  <2> QED
    BY <2>1 DEF SumStep
<1> HIDE DEF P, Q, bag
<1>4. (CHOOSE g : P(g)) = (CHOOSE g : Q(g))
  BY <1>3, Zenon
<1> QED
  BY <1>1, <1>2, <1>4 DEF bag

CountsOf(bins, class, C) ==
    \A b \in 1..HistogramBins :
        bins[b][class] = Cardinality({i \in C : BinOf(examples[i].score) = b})

(* The bins from one on count a class's scores from that bin's edge on.    *)
LEMMA BinsCount ==
    ASSUME examples \in Seq(Example), NEW C, C \subseteq All, NEW class, NEW bins,
           CountsOf(bins, class, C),
           NEW k \in 0..(HistogramBins - 1)
    PROVE  BinsOver(bins, class, (k + 1)..HistogramBins)
               = Cardinality(C \cap AtLeast(k * (ScoreTop \div HistogramBins)))
<1> DEFINE keys == (k + 1)..HistogramBins
           width == ScoreTop \div HistogramBins
           bag == [b \in keys |-> bins[b][class]]
           u == [i \in C |-> BinOf(examples[i].score)]
<1>1. /\ C \subseteq All /\ IsFiniteSet(C)
      /\ \A i \in C : examples[i].score \in 0..ScoreTop /\ examples[i].score \in Int
  BY ClassesAre, FS_Subset
<1>2. /\ \A s \in 0..ScoreTop : BinOf(s) \in 1..HistogramBins
      /\ \A s \in 0..ScoreTop : k + 1 <= BinOf(s) <=> k * width <= s
      /\ HistogramBins \in Nat \ {0} /\ width \in Nat
  BY BinIsBy
<1>3. IsFiniteSet(keys) /\ keys \subseteq 1..HistogramBins
  <2>1. k + 1 \in Int /\ HistogramBins \in Int
    BY <1>2
  <2> QED
    BY <2>1, FS_Interval
<1>4. \A b \in keys : bag[b] = TimesSeen(u, b)
  <2> TAKE b \in keys
  <2>1. bag[b] = Cardinality({i \in C : BinOf(examples[i].score) = b})
    BY <1>3 DEF CountsOf
  <2>2. {i \in C : BinOf(examples[i].score) = b} = {i \in DOMAIN u : u[i] = b}
    OBVIOUS
  <2> QED
    BY <2>1, <2>2 DEF TimesSeen
<1>5. TallySum(bag, keys) = TimesIn(u, keys)
  <2>1. IsFiniteSet(DOMAIN u)
    BY <1>1
  <2> HIDE DEF bag, u, keys
  <2> QED
    BY <1>3, <1>4, <2>1, TotalOfOne
<1>6. {i \in DOMAIN u : u[i] \in keys} = C \cap AtLeast(k * width)
  <2>1. ASSUME NEW i \in C PROVE u[i] \in keys <=> i \in AtLeast(k * width)
    <3> DEFINE s == examples[i].score
    <3>1. s \in 0..ScoreTop /\ s \in Int /\ i \in All
      BY <1>1
    <3>2. u[i] = BinOf(s)
      OBVIOUS
    <3>3. i \in AtLeast(k * width) <=> s >= k * width
      BY <3>1 DEF AtLeast
    <3> HIDE DEF s, u, width
    <3>4. BinOf(s) \in 1..HistogramBins /\ (k + 1 <= BinOf(s) <=> k * width <= s)
      BY <1>2, <3>1
    <3>5. k * width \in Int
      BY <1>2
    <3> QED
      BY <1>2, <3>1, <3>2, <3>3, <3>4, <3>5
  <2>2. DOMAIN u = C
    OBVIOUS
  <2> HIDE DEF u, keys, width
  <2> QED
    BY <2>1, <2>2
<1>7. BinsOver(bins, class, keys) = TallySum(bag, keys)
  BY BinsAreSummed
<1> QED
  BY <1>5, <1>6, <1>7 DEF TimesIn

(* A report agrees with itself, so evaluate() never fails on one.          *)
LEMMA ReportsAgree ==
    ASSUME examples \in Seq(Example), NEW t \in 0..ScoreTop
    PROVE  AgreesWithItself(ReportOf(t))
<1> DEFINE r == ReportOf(t)
           h == ScoreHistogram
<1>1. /\ h = [b \in 1..HistogramBins |->
                 [threat |-> Cardinality({i \in Threats : BinOf(examples[i].score) = b}),
                  benign |-> Cardinality({i \in Benign : BinOf(examples[i].score) = b})]]
      /\ DOMAIN h = 1..HistogramBins
  BY DEF ScoreHistogram
<1>2. \A b \in 1..HistogramBins :
          /\ h[b]["threat"] = Cardinality({i \in Threats : BinOf(examples[i].score) = b})
          /\ h[b]["benign"] = Cardinality({i \in Benign : BinOf(examples[i].score) = b})
  BY <1>1
<1>3. PICK k \in 0..(HistogramBins - 1) : k = 0
  BY BinIsBy
<1> HIDE DEF h
<1>4. /\ BinsOver(h, "threat", (k + 1)..HistogramBins)
            = Cardinality(Threats \cap AtLeast(k * (ScoreTop \div HistogramBins)))
      /\ BinsOver(h, "benign", (k + 1)..HistogramBins)
            = Cardinality(Benign \cap AtLeast(k * (ScoreTop \div HistogramBins)))
  <2>1. BinsOver(h, "threat", (k + 1)..HistogramBins)
            = Cardinality(Threats \cap AtLeast(k * (ScoreTop \div HistogramBins)))
    <3>1. Threats \subseteq All
      BY DEF Threats, Benign
    <3>2. CountsOf(h, "threat", Threats)
      BY <1>2 DEF CountsOf
    <3> QED
      BY <3>1, <3>2, BinsCount
  <2>2. BinsOver(h, "benign", (k + 1)..HistogramBins)
            = Cardinality(Benign \cap AtLeast(k * (ScoreTop \div HistogramBins)))
    <3>1. Benign \subseteq All
      BY DEF Threats, Benign
    <3>2. CountsOf(h, "benign", Benign)
      BY <1>2 DEF CountsOf
    <3> QED
      BY <3>1, <3>2, BinsCount
  <2> QED
    BY <2>1, <2>2
<1>13. k + 1 = 1 /\ k * (ScoreTop \div HistogramBins) = 0
  BY <1>3, BinIsBy
<1>14. /\ BinsOver(h, "threat", 1..HistogramBins) = Cardinality(Threats \cap AtLeast(0))
       /\ BinsOver(h, "benign", 1..HistogramBins) = Cardinality(Benign \cap AtLeast(0))
  BY <1>4, <1>13
<1>5. Threats \cap AtLeast(0) = Threats /\ Benign \cap AtLeast(0) = Benign
  BY ClassesAre DEF AtLeast
<1>6. /\ r.histogram = h /\ r.confusion = ConfusionAt(t)
      /\ r.positives = Cardinality(Threats) /\ r.negatives = Cardinality(Benign)
  BY DEF ReportOf, h
<1>7. ASSUME NEW C, C \in {Threats, Benign}
      PROVE  Cardinality(C) = Cardinality(C \cap AtLeast(t)) + Cardinality(C \ AtLeast(t))
             /\ Cardinality(C \cap AtLeast(t)) \in Nat /\ Cardinality(C \ AtLeast(t)) \in Nat
  <2> DEFINE A == C \cap AtLeast(t)  B == C \ AtLeast(t)
  <2>1. IsFiniteSet(C)
    BY <1>7, ClassesAre
  <2>2. IsFiniteSet(A) /\ IsFiniteSet(B) /\ C = A \cup B /\ A \cap B = {}
    BY <2>1, FS_Subset
  <2> HIDE DEF A, B
  <2>3. Cardinality(C) = Cardinality(A) + Cardinality(B) - Cardinality({})
    BY <2>2, FS_Union
  <2>4. Cardinality(A) \in Nat /\ Cardinality(B) \in Nat /\ Cardinality({}) = 0
    BY <2>2, FS_CardinalityType, FS_EmptySet
  <2>5. Cardinality(C) = Cardinality(A) + Cardinality(B)
    BY <2>3, <2>4
  <2> QED
    BY <2>4, <2>5 DEF A, B
<1>8. /\ ConfusionAt(t).tp = Cardinality(Threats \cap AtLeast(t))
      /\ ConfusionAt(t).fn = Cardinality(Threats \ AtLeast(t))
      /\ ConfusionAt(t).fp = Cardinality(Benign \cap AtLeast(t))
      /\ ConfusionAt(t).tn = Cardinality(Benign \ AtLeast(t))
  BY DEF ConfusionAt
<1>9. /\ SumOver(h, "threat") = BinsOver(h, "threat", 1..HistogramBins)
      /\ SumOver(h, "benign") = BinsOver(h, "benign", 1..HistogramBins)
  <2>1. DOMAIN h = 1..HistogramBins
    BY <1>1
  <2> QED
    BY <2>1 DEF SumOver, BinsOver
<1> HIDE DEF r
<1>10. /\ SumOver(r.histogram, "threat") = r.positives /\ SumOver(r.histogram, "benign") = r.negatives
  BY <1>14, <1>5, <1>6, <1>9
<1>11. r.confusion.tp + r.confusion.fn = r.positives /\ r.confusion.tn + r.confusion.fp = r.negatives
  <2>1. /\ Cardinality(Threats) = Cardinality(Threats \cap AtLeast(t)) + Cardinality(Threats \ AtLeast(t))
        /\ Cardinality(Benign) = Cardinality(Benign \cap AtLeast(t)) + Cardinality(Benign \ AtLeast(t))
        /\ Cardinality(Benign \cap AtLeast(t)) \in Nat /\ Cardinality(Benign \ AtLeast(t)) \in Nat
    BY <1>7
  <2> QED
    BY <1>6, <1>8, <2>1
<1>12. AgreesWithItself(r)
  BY <1>10, <1>11 DEF AgreesWithItself
<1> QED
  BY <1>12 DEF r

(* The pairs of a threat and a benign example: with the threat's score     *)
(* above the other's, and not below it.                                    *)
Above(A, B) == {p \in A \X B : examples[p[2]].score < examples[p[1]].score}
NotBelow(A, B) == {p \in A \X B : examples[p[2]].score <= examples[p[1]].score}

LEMMA PairsAreCounted ==
    ASSUME NEW A, NEW B, IsFiniteSet(A), IsFiniteSet(B)
    PROVE  /\ IsFiniteSet(A \X B) /\ Cardinality(A \X B) = Cardinality(A) * Cardinality(B)
           /\ IsFiniteSet(Above(A, B)) /\ Cardinality(Above(A, B)) \in Nat
           /\ IsFiniteSet(NotBelow(A, B)) /\ Cardinality(NotBelow(A, B)) \in Nat
           /\ Cardinality(A) \in Nat /\ Cardinality(B) \in Nat
<1>1. IsFiniteSet(A \X B) /\ Cardinality(A \X B) = Cardinality(A) * Cardinality(B)
  BY FS_Product
<1>2. Above(A, B) \subseteq A \X B /\ NotBelow(A, B) \subseteq A \X B
  BY DEF Above, NotBelow
<1> QED
  BY <1>1, <1>2, FS_Subset, FS_CardinalityType

(* Among themselves the threats are above each other in as many pairs as   *)
(* they are below, so the two counts make all their pairs.                 *)
LEMMA PairsAmong ==
    ASSUME examples \in Seq(Example), NEW A, A \subseteq All
    PROVE  Cardinality(Above(A, A)) + Cardinality(NotBelow(A, A)) = Cardinality(A) * Cardinality(A)
<1> DEFINE Below == {p \in A \X A : examples[p[1]].score < examples[p[2]].score}
           flip == [p \in Above(A, A) |-> <<p[2], p[1]>>]
<1>0. IsFiniteSet(A) /\ \A i \in A : examples[i].score \in Int
  BY ClassesAre, FS_Subset
<1>1. /\ IsFiniteSet(A \X A) /\ Cardinality(A \X A) = Cardinality(A) * Cardinality(A)
      /\ IsFiniteSet(Above(A, A)) /\ IsFiniteSet(NotBelow(A, A))
      /\ Cardinality(NotBelow(A, A)) \in Nat
  BY <1>0, PairsAreCounted
<1>2. flip \in Bijection(Above(A, A), Below)
  <2>1. \A p \in A \X A : p = <<p[1], p[2]>> /\ p[1] \in A /\ p[2] \in A
    OBVIOUS
  <2>2. \A p \in Above(A, A) : flip[p] \in Below
    BY <2>1 DEF Above
  <2>3. \A q \in Below : <<q[2], q[1]>> \in Above(A, A) /\ flip[<<q[2], q[1]>>] = q
    BY <2>1 DEF Above
  <2>4. \A p, q \in Above(A, A) : flip[p] = flip[q] => p = q
    <3> SUFFICES ASSUME NEW p \in Above(A, A), NEW q \in Above(A, A), flip[p] = flip[q] PROVE p = q
      OBVIOUS
    <3>1. <<p[2], p[1]>> = <<q[2], q[1]>>
      OBVIOUS
    <3>2. p[1] = q[1] /\ p[2] = q[2]
      BY <3>1
    <3>3. p = <<p[1], p[2]>> /\ q = <<q[1], q[2]>>
      BY <2>1 DEF Above
    <3> QED
      BY <3>2, <3>3
  <2>5. flip \in [Above(A, A) -> Below]
    BY <2>2
  <2> HIDE DEF flip, Below
  <2> QED
    BY <2>3, <2>4, <2>5, ZenonT(40) DEF Bijection, Injection, Surjection, IsInjective
<1>3. Cardinality(Below) = Cardinality(Above(A, A)) /\ IsFiniteSet(Below)
  <2> HIDE DEF flip, Below
  <2>1. ExistsBijection(Above(A, A), Below)
    BY <1>2 DEF ExistsBijection
  <2> QED
    BY <1>1, <2>1, FS_Bijection
<1>4. A \X A = Below \cup NotBelow(A, A) /\ Below \cap NotBelow(A, A) = {}
  <2>1. \A p \in A \X A : examples[p[1]].score \in Int /\ examples[p[2]].score \in Int
    BY <1>0
  <2>2. \A p \in A \X A : p \in Below <=> p \notin NotBelow(A, A)
    BY <2>1 DEF NotBelow
  <2>3. Below \subseteq A \X A /\ NotBelow(A, A) \subseteq A \X A
    BY DEF NotBelow
  <2> HIDE DEF Below
  <2> QED
    BY <2>2, <2>3
<1> HIDE DEF Below
<1>5. Cardinality(A \X A) = Cardinality(Below) + Cardinality(NotBelow(A, A)) - Cardinality({})
  BY <1>1, <1>3, <1>4, FS_Union
<1>6. Cardinality({}) = 0 /\ Cardinality(Below) \in Nat
  BY <1>3, FS_EmptySet, FS_CardinalityType
<1> QED
  BY <1>1, <1>3, <1>5, <1>6

(* The pairs with the other of two classes are apart.                      *)
LEMMA PairsSplit ==
    ASSUME examples \in Seq(Example)
    PROVE  /\ Cardinality(Above(Threats, All)) = Cardinality(Above(Threats, Threats))
                                                 + Cardinality(Above(Threats, Benign))
           /\ Cardinality(NotBelow(Threats, All)) = Cardinality(NotBelow(Threats, Threats))
                                                    + Cardinality(NotBelow(Threats, Benign))
<1>1. /\ All = Threats \cup Benign /\ Threats \cap Benign = {}
      /\ IsFiniteSet(Threats) /\ IsFiniteSet(Benign)
  BY ClassesAre
<1>2. /\ IsFiniteSet(Above(Threats, Threats)) /\ IsFiniteSet(Above(Threats, Benign))
      /\ IsFiniteSet(NotBelow(Threats, Threats)) /\ IsFiniteSet(NotBelow(Threats, Benign))
      /\ Cardinality(Above(Threats, Threats)) \in Nat /\ Cardinality(Above(Threats, Benign)) \in Nat
      /\ Cardinality(NotBelow(Threats, Threats)) \in Nat /\ Cardinality(NotBelow(Threats, Benign)) \in Nat
  BY <1>1, PairsAreCounted
<1>3. /\ Above(Threats, All) = Above(Threats, Threats) \cup Above(Threats, Benign)
      /\ Above(Threats, Threats) \cap Above(Threats, Benign) = {}
  BY <1>1 DEF Above
<1>4. /\ NotBelow(Threats, All) = NotBelow(Threats, Threats) \cup NotBelow(Threats, Benign)
      /\ NotBelow(Threats, Threats) \cap NotBelow(Threats, Benign) = {}
  BY <1>1 DEF NotBelow
<1>5. Cardinality(Above(Threats, All)) = Cardinality(Above(Threats, Threats))
                                         + Cardinality(Above(Threats, Benign)) - Cardinality({})
  BY <1>2, <1>3, FS_Union
<1>6. Cardinality(NotBelow(Threats, All)) = Cardinality(NotBelow(Threats, Threats))
                                            + Cardinality(NotBelow(Threats, Benign)) - Cardinality({})
  BY <1>2, <1>4, FS_Union, ZenonT(40)
<1>7. Cardinality({}) = 0
  BY FS_EmptySet
<1> QED
  BY <1>2, <1>5, <1>6, <1>7

(* Twice the ranks of the threats: over each threat, those below it and    *)
(* those not above it, and one more.                                       *)
LEMMA RankSum ==
    ASSUME examples \in Seq(Example)
    PROVE  MapThenSumSet(TwiceTheRank, Threats)
               = Cardinality(Above(Threats, All)) + Cardinality(NotBelow(Threats, All))
                 + Cardinality(Threats)
<1> DEFINE L == Above(Threats, All)
           H == NotBelow(Threats, All)
           one == {<<i, 0>> : i \in Threats}
           u == [p \in L |-> p[1]]
           v == [p \in H \cup one |-> p[1]]
           bag == [i \in Threats |-> TwiceTheRank(i)]
<1>1. /\ All = 1..Len(examples) /\ IsFiniteSet(All) /\ IsFiniteSet(Threats) /\ Threats \subseteq All
      /\ Len(examples) \in Nat /\ \A i \in All : examples[i].score \in Int
  BY ClassesAre
<1>2. /\ IsFiniteSet(L) /\ IsFiniteSet(H) /\ Cardinality(L) \in Nat /\ Cardinality(H) \in Nat
      /\ Cardinality(Threats) \in Nat
  BY <1>1, PairsAreCounted
<1>3. /\ H \subseteq Threats \X All /\ L \subseteq Threats \X All
      /\ \A i, j : <<i, j>> \in L <=> i \in Threats /\ j \in All /\ examples[j].score < examples[i].score
      /\ \A i, j : <<i, j>> \in H <=> i \in Threats /\ j \in All /\ examples[j].score <= examples[i].score
  BY DEF Above, NotBelow
<1>4. IsFiniteSet(one) /\ Cardinality(one) = Cardinality(Threats)
  <2> DEFINE f == [i \in Threats |-> <<i, 0>>]
  <2>1. f \in [Threats -> one] /\ \A i, j \in Threats : f[i] = f[j] => i = j
    OBVIOUS
  <2>2. \A o \in one : \E i \in Threats : f[i] = o
    OBVIOUS
  <2> HIDE DEF f, one
  <2>3. f \in Bijection(Threats, one)
    BY <2>1, <2>2 DEF Bijection, Injection, Surjection, IsInjective
  <2>4. ExistsBijection(Threats, one)
    BY <2>3 DEF ExistsBijection
  <2> QED
    BY <1>1, <2>4, FS_Bijection
<1>5. H \cap one = {}
  BY <1>1, <1>3
<1>6. IsFiniteSet(H \cup one) /\ Cardinality(H \cup one) = Cardinality(H) + Cardinality(Threats)
  <2> HIDE DEF H, one
  <2>1. /\ IsFiniteSet(H \cup one)
        /\ Cardinality(H \cup one) = Cardinality(H) + Cardinality(one) - Cardinality(H \cap one)
    BY <1>2, <1>4, FS_Union
  <2>2. Cardinality(H \cap one) = 0
    BY <1>5, FS_EmptySet
  <2> QED
    BY <1>2, <1>4, <2>1, <2>2
<1>7. ASSUME NEW i \in Threats PROVE bag[i] = TimesSeen(u, i) + TimesSeen(v, i)
  <2> DEFINE Ls == {j \in All : examples[j].score < examples[i].score}
             Hs == {j \in All : examples[j].score <= examples[i].score}
  <2>1. IsFiniteSet(Ls) /\ IsFiniteSet(Hs) /\ Cardinality(Ls) \in Nat /\ Cardinality(Hs) \in Nat
    BY <1>1, FS_Subset, FS_CardinalityType
  <2>2. bag[i] = Cardinality(Ls) + (Cardinality(Hs) - 1) + 2
    BY DEF TwiceTheRank, Low, High
  <2>3. TimesSeen(u, i) = Cardinality(Ls)
    <3>1. \A p \in L : p = <<p[1], p[2]>>
      BY <1>3
    <3>2. \A j : j \in Ls <=> <<i, j>> \in L
      BY <1>3
    <3>3. {p \in L : p[1] = i} = {p \in DOMAIN u : u[p] = i}
      OBVIOUS
    <3> HIDE DEF L, Ls, u
    <3>4. Cardinality({p \in L : p[1] = i}) = Cardinality(Ls)
      BY <1>2, <3>1, <3>2, Fiber
    <3> QED
      BY <3>3, <3>4 DEF TimesSeen
  <2>4. TimesSeen(v, i) = Cardinality(Hs \cup {0})
    <3> DEFINE H1 == H \cup one
    <3>1. \A p \in H1 : p = <<p[1], p[2]>>
      BY <1>3
    <3>2. \A j : j \in Hs \cup {0} <=> <<i, j>> \in H1
      <4>1. \A j : <<i, j>> \in one <=> j = 0
        OBVIOUS
      <4>2. \A j : <<i, j>> \in H <=> j \in Hs
        BY <1>3
      <4> HIDE DEF H, one, Hs
      <4> QED
        BY <4>1, <4>2
    <3>3. {p \in H1 : p[1] = i} = {p \in DOMAIN v : v[p] = i}
      OBVIOUS
    <3>4. IsFiniteSet(H1)
      BY <1>6
    <3> HIDE DEF H1, Hs, v
    <3>5. Cardinality({p \in H1 : p[1] = i}) = Cardinality(Hs \cup {0})
      BY <3>4, <3>1, <3>2, Fiber
    <3> QED
      BY <3>3, <3>5 DEF TimesSeen
  <2>5. 0 \notin Hs
    BY <1>1
  <2>6. Cardinality(Hs \cup {0}) = Cardinality(Hs) + 1
    <3> HIDE DEF Hs
    <3> QED
      BY <2>1, <2>5, FS_AddElement
  <2> HIDE DEF Hs, Ls, u, v, bag
  <2> QED
    BY <2>1, <2>2, <2>3, <2>4, <2>6
<1>8. TimesIn(u, Threats) = Cardinality(L) /\ IsFiniteSet(DOMAIN u)
  <2>1. DOMAIN u = L /\ {p \in DOMAIN u : u[p] \in Threats} = L
    BY <1>3
  <2> QED
    BY <1>2, <2>1 DEF TimesIn
<1>9. TimesIn(v, Threats) = Cardinality(H \cup one) /\ IsFiniteSet(DOMAIN v)
  <2>1. \A p \in H \cup one : p[1] \in Threats
    BY <1>3
  <2>2. DOMAIN v = H \cup one /\ {p \in DOMAIN v : v[p] \in Threats} = H \cup one
    BY <2>1
  <2> QED
    BY <1>6, <2>2 DEF TimesIn
<1>10. TallySum(bag, Threats) = TimesIn(u, Threats) + TimesIn(v, Threats)
  <2> HIDE DEF bag, u, v
  <2>1. CountsBoth(bag, Threats, u, v)
    BY <1>7 DEF CountsBoth
  <2> QED
    BY <1>1, <1>8, <1>9, <2>1, TotalOfTimes
<1>11. MapThenSumSet(TwiceTheRank, Threats) = TallySum(bag, Threats)
  BY RanksAreSummed
<1> HIDE DEF L, H, u, v, bag, one
<1>12. TallySum(bag, Threats) = Cardinality(L) + (Cardinality(H) + Cardinality(Threats))
  BY <1>6, <1>8, <1>9, <1>10
<1> QED
  BY <1>2, <1>11, <1>12 DEF L, H

LEMMA RocIs ==
    ASSUME examples \in Seq(Example)
    PROVE  RocAuc = <<Cardinality(Above(Threats, Benign)) + Cardinality(NotBelow(Threats, Benign)),
                      2 * Cardinality(Threats) * Cardinality(Benign)>>
<1> DEFINE p == Cardinality(Threats)
           ranks == MapThenSumSet(TwiceTheRank, Threats)
           TT == Cardinality(Above(Threats, Threats))  NT == Cardinality(NotBelow(Threats, Threats))
           TB == Cardinality(Above(Threats, Benign))  NB == Cardinality(NotBelow(Threats, Benign))
<1>1. IsFiniteSet(Threats) /\ IsFiniteSet(Benign) /\ Threats \subseteq All
  BY ClassesAre
<1>2. p \in Nat /\ TT \in Nat /\ NT \in Nat /\ TB \in Nat /\ NB \in Nat
  BY <1>1, PairsAreCounted
<1>3. TT + NT = p * p
  BY <1>1, PairsAmong
<1>4. ranks = (TT + TB) + (NT + NB) + p
  <2>1. /\ Cardinality(Above(Threats, All)) = TT + TB
        /\ Cardinality(NotBelow(Threats, All)) = NT + NB
    BY PairsSplit
  <2>2. ranks = Cardinality(Above(Threats, All)) + Cardinality(NotBelow(Threats, All)) + p
    BY RankSum
  <2> HIDE DEF TT, TB, NT, NB, p, ranks
  <2> QED
    BY <2>1, <2>2
<1>9. RocAuc = <<ranks - p * (p + 1), 2 * p * Cardinality(Benign)>>
  BY DEF RocAuc
<1> HIDE DEF ranks, p, TT, TB, NT, NB
<1>5. ((TT + TB) + (NT + NB) + p) - p * (p + 1) = TB + NB
  <2>1. PICK q \in Nat : q = p * p
    BY <1>2
  <2>2. p * (p + 1) = q + p
    BY <1>2, <2>1
  <2> QED
    BY <1>2, <1>3, <2>1, <2>2
<1>7. ranks - p * (p + 1) = TB + NB
  BY <1>4, <1>5
<1>8. RocAuc = <<TB + NB, 2 * p * Cardinality(Benign)>>
  BY <1>9, <1>7, Zenon
<1> QED
  BY <1>8 DEF p, TB, NB

(* ... as the pairs say that MetricsMeanWhatTheySay sums.                  *)
PairScore(i, j) == IF examples[i].score > examples[j].score THEN 2
                   ELSE IF examples[i].score = examples[j].score THEN 1 ELSE 0
PairSum == MapThenSumSet(LAMBDA ij : PairScore(ij[1], ij[2]), Threats \X Benign)

LEMMA PairsAreSummed ==
    PairSum = TallySum([p \in Threats \X Benign |-> PairScore(p[1], p[2])], Threats \X Benign)
<1> DEFINE keys == Threats \X Benign
           bag == [p \in keys |-> PairScore(p[1], p[2])]
           P(g) == g = [s \in SUBSET keys |-> IF s = {} THEN 0 ELSE
                           PairScore((CHOOSE x \in s : TRUE)[1], (CHOOSE x \in s : TRUE)[2])
                           + g[s \ {CHOOSE x \in s : TRUE}]]
           Q(g) == g = [s \in SUBSET keys |-> SumStep(bag, s, g)]
<1>1. PairSum = (CHOOSE g : P(g))[keys]
  BY DEF PairSum, MapThenSumSet, MapThenFoldSet
<1>2. TallySum(bag, keys) = (CHOOSE g : Q(g))[keys]
  BY DEF TallySum, MapThenSumSet, MapThenFoldSet, SumStep
<1>3. \A g : P(g) <=> Q(g)
  <2> TAKE g
  <2>1. ASSUME NEW s \in SUBSET keys, s # {}
        PROVE bag[CHOOSE x \in s : TRUE]
                  = PairScore((CHOOSE x \in s : TRUE)[1], (CHOOSE x \in s : TRUE)[2])
    <3>1. (CHOOSE x \in s : TRUE) \in keys
      BY <2>1
    <3> HIDE DEF keys
    <3> QED
      BY <3>1
  <2> HIDE DEF bag, keys
  <2> QED
    BY <2>1 DEF SumStep
<1> HIDE DEF P, Q, bag, keys
<1>4. (CHOOSE g : P(g)) = (CHOOSE g : Q(g))
  BY <1>3, Zenon
<1> QED
  BY <1>1, <1>2, <1>4 DEF bag, keys

LEMMA PairSumIs ==
    ASSUME examples \in Seq(Example)
    PROVE  PairSum = Cardinality(Above(Threats, Benign)) + Cardinality(NotBelow(Threats, Benign))
<1> DEFINE keys == Threats \X Benign
           bag == [p \in keys |-> PairScore(p[1], p[2])]
           u == [p \in Above(Threats, Benign) |-> p]
           v == [p \in NotBelow(Threats, Benign) |-> p]
<1>1. /\ IsFiniteSet(Threats) /\ IsFiniteSet(Benign)
      /\ \A i \in Threats \cup Benign : examples[i].score \in Int
  BY ClassesAre
<1>2. /\ IsFiniteSet(keys) /\ IsFiniteSet(Above(Threats, Benign)) /\ IsFiniteSet(NotBelow(Threats, Benign))
      /\ Above(Threats, Benign) \subseteq keys /\ NotBelow(Threats, Benign) \subseteq keys
  BY <1>1, PairsAreCounted DEF Above, NotBelow
<1>3. Cardinality({}) = 0 /\ \A x : Cardinality({x}) = 1
  BY FS_EmptySet, FS_Singleton
<1>4. ASSUME NEW p \in keys PROVE bag[p] = TimesSeen(u, p) + TimesSeen(v, p)
  <2>1. p[1] \in Threats /\ p[2] \in Benign
    OBVIOUS
  <2>2. examples[p[1]].score \in Int /\ examples[p[2]].score \in Int
    BY <1>1, <2>1
  <2>3. bag[p] = PairScore(p[1], p[2])
    OBVIOUS
  <2>4. TimesSeen(u, p) = IF examples[p[2]].score < examples[p[1]].score THEN 1 ELSE 0
    <3>1. {q \in DOMAIN u : u[q] = p} = IF p \in Above(Threats, Benign) THEN {p} ELSE {}
      OBVIOUS
    <3>2. p \in Above(Threats, Benign) <=> examples[p[2]].score < examples[p[1]].score
      BY DEF Above
    <3> HIDE DEF u
    <3> QED
      BY <1>3, <3>1, <3>2 DEF TimesSeen
  <2>5. TimesSeen(v, p) = IF examples[p[2]].score <= examples[p[1]].score THEN 1 ELSE 0
    <3>1. {q \in DOMAIN v : v[q] = p} = IF p \in NotBelow(Threats, Benign) THEN {p} ELSE {}
      OBVIOUS
    <3>2. p \in NotBelow(Threats, Benign) <=> examples[p[2]].score <= examples[p[1]].score
      BY DEF NotBelow
    <3> HIDE DEF v
    <3> QED
      BY <1>3, <3>1, <3>2 DEF TimesSeen
  <2> HIDE DEF bag, u, v, keys
  <2> QED
    BY <2>2, <2>3, <2>4, <2>5 DEF PairScore
<1>5. TimesIn(u, keys) = Cardinality(Above(Threats, Benign)) /\ IsFiniteSet(DOMAIN u)
  <2>1. DOMAIN u = Above(Threats, Benign) /\ {p \in DOMAIN u : u[p] \in keys} = Above(Threats, Benign)
    BY <1>2
  <2> QED
    BY <1>2, <2>1 DEF TimesIn
<1>6. TimesIn(v, keys) = Cardinality(NotBelow(Threats, Benign)) /\ IsFiniteSet(DOMAIN v)
  <2>1. DOMAIN v = NotBelow(Threats, Benign)
        /\ {p \in DOMAIN v : v[p] \in keys} = NotBelow(Threats, Benign)
    BY <1>2
  <2> QED
    BY <1>2, <2>1 DEF TimesIn
<1>7. TallySum(bag, keys) = TimesIn(u, keys) + TimesIn(v, keys)
  <2> HIDE DEF bag, u, v, keys
  <2>1. CountsBoth(bag, keys, u, v)
    BY <1>4 DEF CountsBoth
  <2> QED
    BY <1>2, <1>5, <1>6, <2>1, TotalOfTimes
<1>8. PairSum = TallySum(bag, keys)
  BY PairsAreSummed
<1> QED
  BY <1>5, <1>6, <1>7, <1>8

(* The sum of some weights is the number of their marks.                   *)
LEMMA MarksAre ==
    ASSUME NEW keys, IsFiniteSet(keys), NEW weight, \A k \in keys : weight[k] \in Nat
    PROVE  /\ IsFiniteSet(Marks(weight, keys)) /\ Cardinality(Marks(weight, keys)) \in Nat
           /\ TallySum(weight, keys) = Cardinality(Marks(weight, keys))
<1> DEFINE M == Marks(weight, keys)
           u == [p \in M |-> p[1]]
<1>1. IsFiniteSet(M)
  <2> DEFINE W == {weight[k] : k \in keys}
             f == [k \in keys |-> weight[k]]
  <2>1. IsFiniteSet(W) /\ W \subseteq Int
    <3>1. f \in Surjection(keys, W)
      BY DEF Surjection
    <3> HIDE DEF f
    <3>2. IsFiniteSet(W)
      BY <3>1, FS_Surjection
    <3> QED
      BY <3>2
  <2>2. CASE keys = {}
    <3>1. M = {}
      BY <2>2 DEF Marks
    <3> QED
      BY <3>1, FS_EmptySet
  <2>3. CASE keys # {}
    <3>1. W # {}
      BY <2>3
    <3> HIDE DEF W
    <3>2. Max(W) \in W /\ \A x \in W : x <= Max(W)
      BY <2>1, <3>1, FiniteBounds
    <3>3. PICK top \in Int : \A x \in W : x <= top
      BY <2>1, <3>2
    <3>4. IsFiniteSet(keys \X (1..top))
      <4>1. IsFiniteSet(1..top)
        BY FS_Interval
      <4> QED
        BY <4>1, FS_Product
    <3>5. M \subseteq keys \X (1..top)
      <4>1. \A k \in keys : weight[k] \in Nat /\ weight[k] <= top
        BY <3>3 DEF W
      <4>2. ASSUME NEW p \in M PROVE p \in keys \X (1..top)
        <5>1. p = <<p[1], p[2]>> /\ p[1] \in keys /\ p[2] \in 1..weight[p[1]]
          BY DEF Marks
        <5>2. weight[p[1]] \in Nat /\ weight[p[1]] <= top
          BY <4>1, <5>1
        <5>3. p[2] \in 1..top
          BY <5>1, <5>2
        <5> QED
          BY <5>1, <5>3
      <4> QED
        BY <4>2
    <3> QED
      BY <3>4, <3>5, FS_Subset
  <2> QED
    BY <2>2, <2>3
<1>2. Cardinality(M) \in Nat
  BY <1>1, FS_CardinalityType
<1>3. ASSUME NEW k \in keys PROVE weight[k] = TimesSeen(u, k)
  <2> DEFINE Y == 1..weight[k]
  <2>1. \A p \in M : p = <<p[1], p[2]>>
    BY DEF Marks
  <2>2. \A y : y \in Y <=> <<k, y>> \in M
    BY DEF Marks
  <2>3. {p \in M : p[1] = k} = {p \in DOMAIN u : u[p] = k}
    OBVIOUS
  <2>4. Cardinality(Y) = weight[k]
    <3>1. 1 \in Int /\ weight[k] \in Nat
      OBVIOUS
    <3> QED
      BY <3>1, FS_Interval
  <2> HIDE DEF M, Y, u
  <2>5. Cardinality({p \in M : p[1] = k}) = Cardinality(Y)
    BY <1>1, <2>1, <2>2, Fiber
  <2> QED
    BY <2>3, <2>4, <2>5 DEF TimesSeen
<1>4. TimesIn(u, keys) = Cardinality(M) /\ IsFiniteSet(DOMAIN u)
  <2>1. \A p \in M : p[1] \in keys
    BY DEF Marks
  <2>2. DOMAIN u = M /\ {p \in DOMAIN u : u[p] \in keys} = M
    BY <2>1
  <2> QED
    BY <1>1, <2>2 DEF TimesIn
<1>5. TallySum(weight, keys) = TimesIn(u, keys)
  <2> HIDE DEF u, M
  <2> QED
    BY <1>3, <1>4, TotalOfOne
<1> QED
  BY <1>1, <1>2, <1>4, <1>5

(* More keys, of one weight, have that many more marks each.               *)
LEMMA MarksGrow ==
    ASSUME NEW A, NEW B, IsFiniteSet(A), IsFiniteSet(B), A \cap B = {}, NEW weight, NEW c \in Nat,
           \A k \in A : weight[k] \in Nat, \A k \in B : weight[k] = c
    PROVE  Cardinality(Marks(weight, A \cup B)) = Cardinality(Marks(weight, A)) + Cardinality(B) * c
<1>1. IsFiniteSet(Marks(weight, A)) /\ Cardinality(Marks(weight, A)) \in Nat
  BY MarksAre
<1>2. Marks(weight, B) = B \X (1..c)
  <2>1. ASSUME NEW p PROVE p \in Marks(weight, B) <=> p \in B \X (1..c)
    BY DEF Marks
  <2> QED
    BY <2>1
<1>3. IsFiniteSet(Marks(weight, B)) /\ Cardinality(Marks(weight, B)) = Cardinality(B) * c
  <2>1. IsFiniteSet(1..c) /\ Cardinality(1..c) = c
    <3>1. 1 \in Int
      OBVIOUS
    <3> QED
      BY <3>1, FS_Interval
  <2> QED
    BY <1>2, <2>1, FS_Product, ZenonT(40)
<1>4. /\ Marks(weight, A \cup B) = Marks(weight, A) \cup Marks(weight, B)
      /\ Marks(weight, A) \cap Marks(weight, B) = {}
  BY DEF Marks
<1>5. Cardinality(Marks(weight, A \cup B))
          = Cardinality(Marks(weight, A)) + Cardinality(Marks(weight, B)) - Cardinality({})
  <2> DEFINE MA == Marks(weight, A)  MB == Marks(weight, B)
  <2>1. IsFiniteSet(MA) /\ IsFiniteSet(MB) /\ MA \cap MB = {}
    BY <1>1, <1>3, <1>4
  <2>2. Marks(weight, A \cup B) = MA \cup MB
    BY <1>4
  <2> HIDE DEF MA, MB
  <2>3. Cardinality(MA \cup MB) = Cardinality(MA) + Cardinality(MB) - Cardinality({})
    BY <2>1, FS_Union
  <2> QED
    BY <2>2, <2>3 DEF MA, MB
<1>6. Cardinality({}) = 0 /\ Cardinality(Marks(weight, B)) \in Nat
  BY <1>3, FS_EmptySet, FS_CardinalityType
<1> QED
  BY <1>1, <1>3, <1>5, <1>6

(* The numbers of a set from the highest on.                               *)
LEMMA DescendingIs ==
    ASSUME NEW S, IsFiniteSet(S), S \subseteq Int
    PROVE  LET d == Descending(S)  n == Cardinality(S) IN
           /\ n \in Nat /\ DOMAIN d = 1..n /\ \A k \in 1..n : d[k] \in S
           /\ \A k, m \in 1..n : k < m => d[k] > d[m]
           /\ \A x \in S : \E k \in 1..n : d[k] = x
<1> DEFINE d == Descending(S)
           n == Cardinality(S)
           R == {p \in S \X S : p[1] > p[2]}
           rank == [x \in S |-> Cardinality({y \in S : <<y, x>> \in R})]
<1>1. IsOrder(S, R)
  BY DEF IsOrder
<1>2. AreRanks(S, R, rank)
  <2> HIDE DEF R
  <2> QED
    BY <1>1, Ranks
<1>3. \A x \in S : rank[x] = Cardinality({y \in S : y > x})
  <2>1. \A x \in S : {y \in S : <<y, x>> \in R} = {y \in S : y > x}
    OBVIOUS
  <2> HIDE DEF R
  <2> QED
    BY <2>1
<1>4. \A x, y \in S : rank[x] < rank[y] <=> x > y
  <2>1. \A x, y \in S : <<x, y>> \in R <=> x > y
    OBVIOUS
  <2> HIDE DEF R, rank
  <2> QED
    BY <1>2, <2>1 DEF AreRanks
<1> HIDE DEF rank
<1>5. n \in Nat /\ \A x \in S : rank[x] \in 0..(n - 1)
  BY <1>2 DEF AreRanks
<1>6. ASSUME NEW k \in 1..n PROVE d[k] \in S /\ rank[d[k]] = k - 1
  <2>1. d[k] = CHOOSE x \in S : Cardinality({y \in S : y > x}) = k - 1
    BY DEF Descending
  <2>2. \E x \in S : rank[x] = k - 1
    BY <1>2 DEF AreRanks
  <2>3. \E x \in S : Cardinality({y \in S : y > x}) = k - 1
    BY <1>3, <2>2
  <2>4. d[k] \in S /\ Cardinality({y \in S : y > d[k]}) = k - 1
    BY <2>1, <2>3
  <2> HIDE DEF d
  <2> QED
    BY <1>3, <2>4
<1>7. DOMAIN d = 1..n
  BY DEF Descending
<1> HIDE DEF d
<1>8. \A k, m \in 1..n : k < m => d[k] > d[m]
  <2> SUFFICES ASSUME NEW k \in 1..n, NEW m \in 1..n, k < m PROVE d[k] > d[m]
    OBVIOUS
  <2>1. d[k] \in S /\ d[m] \in S /\ rank[d[k]] < rank[d[m]]
    BY <1>5, <1>6
  <2> QED
    BY <1>4, <2>1
<1>9. ASSUME NEW x \in S PROVE \E k \in 1..n : d[k] = x
  <2>1. rank[x] \in 0..(n - 1) /\ rank[x] + 1 \in 1..n
    BY <1>5
  <2>2. PICK k \in 1..n : k = rank[x] + 1
    BY <2>1
  <2>3. d[k] \in S /\ rank[d[k]] = rank[x]
    BY <1>6, <2>1, <2>2
  <2>4. ~(rank[x] < rank[d[k]]) /\ ~(rank[d[k]] < rank[x])
    BY <2>1, <2>3
  <2>5. ~(x > d[k]) /\ ~(d[k] > x)
    BY <1>4, <2>3, <2>4
  <2>6. x \in Int /\ d[k] \in Int
    BY <2>3
  <2>7. x = d[k]
    BY <2>5, <2>6
  <2> QED
    BY <2>7
<1> QED
  BY <1>5, <1>6, <1>7, <1>8, <1>9 DEF d

(* A step of the average precision, over the group of a score.             *)
Group(score) == {i \in All : examples[i].score = score}
NoGroups == [found |-> 0, seen |-> 0, area |-> 0]
GroupSums == [found : Nat, seen : Nat, area : Nat]
WithGroup(sum, score) ==
    LET hits == Cardinality({i \in Threats : examples[i].score = score})
        count == Cardinality({i \in All : examples[i].score = score})
        found == sum.found + hits
        seen == sum.seen + count IN
    [found |-> found, seen |-> seen, area |-> sum.area + hits * found * (Parts \div seen)]
GroupStep(seq, s, g) == IF s = {} THEN NoGroups ELSE WithGroup(g[s \ {Max(s)}], seq[Max(s)])
ScoreSet == {examples[i].score : i \in All}

LEMMA WithGroupIs ==
    ASSUME examples \in Seq(Example), NEW score, NEW sum \in GroupSums, Group(score) # {}
    PROVE  LET hits == Cardinality(Threats \cap Group(score))
               count == Cardinality(Group(score)) IN
           /\ hits \in Nat /\ count \in Nat /\ sum.seen + count \in Nat \ {0}
           /\ WithGroup(sum, score)
                  = [found |-> sum.found + hits, seen |-> sum.seen + count,
                     area |-> sum.area + hits * (sum.found + hits) * (Parts \div (sum.seen + count))]
           /\ WithGroup(sum, score) \in GroupSums
<1> DEFINE hits == Cardinality(Threats \cap Group(score))
           count == Cardinality(Group(score))
<1>1. Threats \cap Group(score) = {i \in Threats : examples[i].score = score}
      /\ Group(score) = {i \in All : examples[i].score = score}
  BY DEF Group, Threats
<1>2. IsFiniteSet(Group(score)) /\ IsFiniteSet(Threats \cap Group(score))
  BY <1>1, ClassesAre, FS_Subset
<1>3. hits \in Nat /\ count \in Nat /\ count # 0
  BY <1>2, FS_CardinalityType, FS_EmptySet
<1>4. WithGroup(sum, score)
          = [found |-> sum.found + hits, seen |-> sum.seen + count,
             area |-> sum.area + hits * (sum.found + hits) * (Parts \div (sum.seen + count))]
  BY <1>1 DEF WithGroup
<1> HIDE DEF hits, count
<1>5. sum.found \in Nat /\ sum.seen \in Nat /\ sum.area \in Nat
  BY DEF GroupSums
<1>6. PICK d \in Nat \ {0} : d = sum.seen + count
  BY <1>3, <1>5
<1>7. PICK q \in Nat : q = Parts \div d
  BY <1>6, EvaluationAssumption
<1>8. PICK f \in Nat : f = sum.found + hits
  BY <1>3, <1>5
<1>9. hits * f \in Nat
  BY <1>3, <1>8
<1>10. hits * f * q \in Nat
  BY <1>7, <1>9
<1>11. WithGroup(sum, score) \in GroupSums
  <2>1. WithGroup(sum, score) = [found |-> f, seen |-> d, area |-> sum.area + hits * f * q]
    BY <1>4, <1>6, <1>7, <1>8
  <2>2. sum.area + hits * f * q \in Nat
    BY <1>5, <1>10
  <2> QED
    BY <1>6, <1>8, <2>1, <2>2 DEF GroupSums
<1> QED
  BY <1>3, <1>4, <1>6, <1>11 DEF hits, count

(* The fold that the library makes of it says of the numbers up to k what  *)
(* the k highest scores give.                                              *)
IsFolded(g, seq, n) == g = CHOOSE f : f = [s \in SUBSET (1..n) |-> GroupStep(seq, s, f)]

LEMMA GroupsAreFolded ==
    ASSUME examples \in Seq(Example), NEW seq, NEW n \in Nat, DOMAIN seq = 1..n,
           \A k \in 1..n : Group(seq[k]) # {},
           NEW g, IsFolded(g, seq, n)
    PROVE  /\ g[1..0] = NoGroups
           /\ \A k \in 0..(n - 1) : g[1..(k + 1)] = WithGroup(g[1..k], seq[k + 1])
<1> DEFINE op == [a \in GroupSums |-> [k \in 1..n |-> WithGroup(a, seq[k])]]
           Is(f) == f = [s \in SUBSET (1..n) |-> GroupStep(seq, s, f)]
<1>1. op \in [GroupSums -> [1..n -> GroupSums]]
  BY WithGroupIs
<1>2. NoGroups \in GroupSums
  BY DEF NoGroups, GroupSums
<1>3. \A a \in GroupSums : \A k \in 1..n : op[a][k] = WithGroup(a, seq[k])
  OBVIOUS
<1> HIDE DEF op
<1>4. PICK h \in [SUBSET (1..n) -> GroupSums] : IsFold(op, NoGroups, n, h)
  BY <1>1, <1>2, FoldExists
<1>5. Is(h)
  <2>1. h = [s \in SUBSET (1..n) |-> IF s = {} THEN NoGroups ELSE op[h[s \ {Max(s)}]][Max(s)]]
    BY <1>4 DEF IsFold
  <2>2. ASSUME NEW s \in SUBSET (1..n)
        PROVE (IF s = {} THEN NoGroups ELSE op[h[s \ {Max(s)}]][Max(s)]) = GroupStep(seq, s, h)
    <3>1. CASE s = {}
      BY <3>1 DEF GroupStep
    <3>2. CASE s # {}
      <4>1. Max(s) \in 1..n
        BY <3>2, MaxIs
      <4>2. h[s \ {Max(s)}] \in GroupSums
        OBVIOUS
      <4> QED
        BY <1>3, <3>2, <4>1, <4>2 DEF GroupStep
    <3> QED
      BY <3>1, <3>2
  <2> QED
    BY <2>1, <2>2
<1>6. Is(g)
  <2>1. g = CHOOSE f : Is(f)
    BY DEF IsFolded
  <2> HIDE DEF Is
  <2> QED
    BY <1>5, <2>1
<1>7. \A s \in SUBSET (1..n) : g[s] = GroupStep(seq, s, g)
  BY <1>6
<1>8. g[1..0] = NoGroups
  <2>1. 1..0 = {} /\ 1..0 \in SUBSET (1..n)
    OBVIOUS
  <2> QED
    BY <1>7, <2>1 DEF GroupStep
<1>9. ASSUME NEW k \in 0..(n - 1) PROVE g[1..(k + 1)] = WithGroup(g[1..k], seq[k + 1])
  <2>1. k \in Nat /\ k + 1 \in 1..(k + 1)
    OBVIOUS
  <2>2. Max(1..(k + 1)) = k + 1 /\ (1..(k + 1)) \ {k + 1} = 1..k /\ 1..(k + 1) # {}
    BY <2>1, MaxIs
  <2>3. 1..(k + 1) \in SUBSET (1..n)
    OBVIOUS
  <2>4. g[1..(k + 1)] = GroupStep(seq, 1..(k + 1), g)
    BY <1>7, <2>3
  <2> QED
    BY <2>2, <2>4 DEF GroupStep
<1> QED
  BY <1>8, <1>9

(* The precision at a threat's score.                                      *)
NotUnder(i) == {j \in All : examples[j].score >= examples[i].score}
PrecisionOf(i) == Cardinality(NotUnder(i) \cap Threats) * (Parts \div Cardinality(NotUnder(i)))
Precision == [i \in Threats |-> PrecisionOf(i)]

LEMMA PartsAre == \A d \in Nat \ {0} : Parts \div d \in Nat
  BY EvaluationAssumption

LEMMA PrecisionsAre ==
    ASSUME examples \in Seq(Example), NEW i \in Threats
    PROVE  Precision[i] \in Nat /\ Precision[i] = PrecisionOf(i)
<1>1. /\ IsFiniteSet(All) /\ Threats \subseteq All /\ \A j \in All : examples[j].score \in Int
  BY ClassesAre
<1>2. IsFiniteSet(NotUnder(i)) /\ IsFiniteSet(NotUnder(i) \cap Threats) /\ i \in NotUnder(i)
  BY <1>1, FS_Subset DEF NotUnder
<1>3. Cardinality(NotUnder(i)) \in Nat \ {0} /\ Cardinality(NotUnder(i) \cap Threats) \in Nat
  BY <1>2, FS_CardinalityType, FS_EmptySet
<1>4. PICK q \in Nat : q = Parts \div Cardinality(NotUnder(i))
  BY <1>3, PartsAre
<1>5. Cardinality(NotUnder(i) \cap Threats) * q \in Nat
  BY <1>3, <1>4
<1>6. PrecisionOf(i) \in Nat
  BY <1>4, <1>5 DEF PrecisionOf
<1> QED
  BY <1>6 DEF Precision

LEMMA ScoresFall ==
    ASSUME examples \in Seq(Example)
    PROVE  LET seq == Descending(ScoreSet)  n == Cardinality(ScoreSet) IN
           /\ n \in Nat /\ DOMAIN seq = 1..n /\ \A k \in 1..n : seq[k] \in Int /\ Group(seq[k]) # {}
           /\ \A k, m \in 1..n : k < m => seq[k] > seq[m]
           /\ \A i \in All : \E k \in 1..n : seq[k] = examples[i].score
<1> DEFINE f == [i \in All |-> examples[i].score]
           seq == Descending(ScoreSet)
           n == Cardinality(ScoreSet)
<1>1. IsFiniteSet(All) /\ \A i \in All : examples[i].score \in Int
  BY ClassesAre
<1>2. IsFiniteSet(ScoreSet) /\ ScoreSet \subseteq Int
  <2>1. f \in Surjection(All, ScoreSet)
    BY DEF Surjection, ScoreSet
  <2> HIDE DEF f
  <2>2. IsFiniteSet(ScoreSet)
    BY <1>1, <2>1, FS_Surjection
  <2> QED
    BY <1>1, <2>2 DEF ScoreSet
<1>3. /\ n \in Nat /\ DOMAIN seq = 1..n /\ \A k \in 1..n : seq[k] \in ScoreSet
      /\ \A k, m \in 1..n : k < m => seq[k] > seq[m]
      /\ \A x \in ScoreSet : \E k \in 1..n : seq[k] = x
  BY <1>2, DescendingIs
<1> HIDE DEF seq, n
<1>4. \A k \in 1..n : seq[k] \in Int /\ Group(seq[k]) # {}
  BY <1>2, <1>3 DEF ScoreSet, Group
<1>5. \A i \in All : \E k \in 1..n : seq[k] = examples[i].score
  BY <1>3 DEF ScoreSet
<1> QED
  BY <1>3, <1>4, <1>5 DEF seq, n

(* The examples that have one of the k highest scores.                     *)
TopScored(seq, k) == {i \in All : \E m \in 1..k : examples[i].score = seq[m]}
SumsOf(seq, k) ==
    [found |-> Cardinality(Threats \cap TopScored(seq, k)), seen |-> Cardinality(TopScored(seq, k)),
     area |-> Cardinality(Marks(Precision, Threats \cap TopScored(seq, k)))]

LEMMA OneMoreGroup ==
    ASSUME examples \in Seq(Example), NEW seq, NEW n \in Nat,
           \A k \in 1..n : seq[k] \in Int /\ Group(seq[k]) # {},
           \A k, m \in 1..n : k < m => seq[k] > seq[m],
           \A i \in All : \E k \in 1..n : seq[k] = examples[i].score,
           NEW k \in 0..(n - 1)
    PROVE  WithGroup(SumsOf(seq, k), seq[k + 1]) = SumsOf(seq, k + 1)
<1> DEFINE G == Group(seq[k + 1])
           T == TopScored(seq, k)
           T1 == TopScored(seq, k + 1)
           old == SumsOf(seq, k)
           hits == Cardinality(Threats \cap G)
           count == Cardinality(G)
<1>0. k + 1 \in 1..n /\ k \in Nat
  OBVIOUS
<1>1. /\ IsFiniteSet(All) /\ IsFiniteSet(Threats) /\ Threats \subseteq All
      /\ \A i \in All : examples[i].score \in Int
  BY ClassesAre
<1>2. T1 = T \cup G /\ T \cap G = {}
  <2>1. ASSUME NEW i \in All PROVE i \in T1 <=> i \in T \/ i \in G
    <3>1. \A m : m \in 1..(k + 1) <=> m \in 1..k \/ m = k + 1
      BY <1>0
    <3> QED
      BY <3>1 DEF TopScored, Group
  <2>2. ASSUME NEW i \in T, i \in G PROVE FALSE
    <3>1. PICK m \in 1..k : examples[i].score = seq[m]
      BY DEF TopScored
    <3>2. m \in 1..n /\ m < k + 1 /\ examples[i].score = seq[k + 1]
      <4>1. m \in 1..n /\ m < k + 1
        BY <1>0
      <4>2. examples[i].score = seq[k + 1]
        BY <2>2 DEF Group
      <4> QED
        BY <4>1, <4>2
    <3>3. seq[m] > seq[k + 1] /\ seq[m] \in Int /\ seq[k + 1] \in Int
      BY <1>0, <3>2
    <3> QED
      BY <3>1, <3>2, <3>3
  <2>3. T1 \subseteq All /\ T \subseteq All /\ G \subseteq All
    BY DEF TopScored, Group
  <2> HIDE DEF T1, T, G
  <2> QED
    BY <2>1, <2>2, <2>3
<1>3. /\ IsFiniteSet(T) /\ IsFiniteSet(G) /\ IsFiniteSet(Threats \cap T) /\ IsFiniteSet(Threats \cap G)
      /\ G # {}
  <2>1. T \subseteq All /\ G \subseteq All /\ Threats \cap T \subseteq All /\ Threats \cap G \subseteq All
    BY DEF TopScored, Group
  <2>2. G # {}
    BY <1>0
  <2> HIDE DEF T, G
  <2> QED
    BY <1>1, <2>1, <2>2, FS_Subset
<1>4. \A i \in Threats \cap T : Precision[i] \in Nat
  BY PrecisionsAre
<1>5. IsFiniteSet(Marks(Precision, Threats \cap T)) /\ Cardinality(Marks(Precision, Threats \cap T)) \in Nat
  <2> DEFINE A == Threats \cap T
  <2>1. IsFiniteSet(A) /\ \A i \in A : Precision[i] \in Nat
    BY <1>3, <1>4
  <2> HIDE DEF A
  <2>2. IsFiniteSet(Marks(Precision, A)) /\ Cardinality(Marks(Precision, A)) \in Nat
    BY <2>1, MarksAre
  <2> QED
    BY <2>2 DEF A
<1>6. old \in GroupSums
  BY <1>3, <1>5, FS_CardinalityType DEF GroupSums, SumsOf
<1>7. /\ hits \in Nat /\ count \in Nat /\ old.seen + count \in Nat \ {0}
      /\ WithGroup(old, seq[k + 1])
             = [found |-> old.found + hits, seen |-> old.seen + count,
                area |-> old.area + hits * (old.found + hits) * (Parts \div (old.seen + count))]
  <2> HIDE DEF old
  <2> QED
    BY <1>3, <1>6, WithGroupIs
<1>8. /\ old.found = Cardinality(Threats \cap T) /\ old.seen = Cardinality(T)
      /\ old.area = Cardinality(Marks(Precision, Threats \cap T))
  BY DEF SumsOf
<1>9. Cardinality(T1) = old.seen + count
  <2> HIDE DEF T1, T, G, old
  <2>1. Cardinality(T1) = Cardinality(T) + Cardinality(G) - Cardinality({})
    BY <1>2, <1>3, FS_Union
  <2>2. Cardinality({}) = 0 /\ Cardinality(T) \in Nat /\ Cardinality(G) \in Nat
    BY <1>3, FS_EmptySet, FS_CardinalityType
  <2> QED
    BY <1>8, <2>1, <2>2
<1>10. Cardinality(Threats \cap T1) = old.found + hits
  <2> DEFINE A == Threats \cap T  B == Threats \cap G
  <2>1. Threats \cap T1 = A \cup B /\ A \cap B = {} /\ IsFiniteSet(A) /\ IsFiniteSet(B)
    BY <1>2, <1>3
  <2>2. old.found = Cardinality(A) /\ hits = Cardinality(B)
    BY <1>8
  <2> HIDE DEF A, B, old, hits, T1
  <2>3. Cardinality(Threats \cap T1) = Cardinality(A) + Cardinality(B) - Cardinality({})
    BY <2>1, FS_Union, ZenonT(40)
  <2>4. Cardinality({}) = 0 /\ Cardinality(A) \in Nat /\ Cardinality(B) \in Nat
    BY <2>1, FS_EmptySet, FS_CardinalityType
  <2> QED
    BY <2>2, <2>3, <2>4
<1>11. \A i \in G : NotUnder(i) = T1
  <2> SUFFICES ASSUME NEW i \in G PROVE NotUnder(i) = T1
    OBVIOUS
  <2>1. i \in All /\ examples[i].score = seq[k + 1]
    BY DEF Group
  <2>2. ASSUME NEW j \in All PROVE j \in NotUnder(i) <=> j \in T1
    <3>1. PICK m \in 1..n : seq[m] = examples[j].score
      OBVIOUS
    <3>2. j \in NotUnder(i) <=> seq[m] >= seq[k + 1]
      BY <2>1, <3>1 DEF NotUnder
    <3>3. seq[m] >= seq[k + 1] <=> m <= k + 1
      <4>1. seq[m] \in Int /\ seq[k + 1] \in Int
        BY <1>0
      <4>2. m < k + 1 => seq[m] > seq[k + 1]
        BY <1>0
      <4>3. m > k + 1 => seq[k + 1] > seq[m]
        BY <1>0
      <4> QED
        BY <1>0, <4>1, <4>2, <4>3
    <3>4. j \in T1 <=> \E x \in 1..(k + 1) : seq[m] = seq[x]
      BY <3>1 DEF TopScored
    <3>5. \A x \in 1..(k + 1) : seq[m] = seq[x] => m = x
      <4> SUFFICES ASSUME NEW x \in 1..(k + 1), seq[m] = seq[x], m # x PROVE FALSE
        OBVIOUS
      <4>1. x \in 1..n /\ seq[m] \in Int /\ seq[x] \in Int
        BY <1>0
      <4>2. m < x \/ x < m
        BY <4>1
      <4>3. seq[m] > seq[x] \/ seq[x] > seq[m]
        BY <4>1, <4>2
      <4> QED
        BY <4>1, <4>3
    <3>6. m \in 1..(k + 1) <=> m <= k + 1
      BY <1>0
    <3> HIDE DEF T1
    <3> QED
      BY <3>2, <3>3, <3>4, <3>5, <3>6
  <2>3. NotUnder(i) \subseteq All /\ T1 \subseteq All
    BY DEF NotUnder, TopScored
  <2> HIDE DEF T1
  <2> QED
    BY <2>2, <2>3
<1>12. PICK c \in Nat : c = (old.found + hits) * (Parts \div (old.seen + count))
  <2>1. PICK d \in Nat \ {0} : d = old.seen + count
    BY <1>7
  <2>2. PICK q \in Nat : q = Parts \div d
    BY <2>1, PartsAre
  <2>3. PICK f \in Nat : f = old.found + hits
    BY <1>6, <1>7 DEF GroupSums
  <2>4. f * q \in Nat
    BY <2>2, <2>3
  <2> HIDE DEF old, hits, count
  <2> QED
    BY <2>1, <2>2, <2>3, <2>4
<1>13. \A i \in Threats \cap G : Precision[i] = c
  <2> SUFFICES ASSUME NEW i \in Threats \cap G PROVE Precision[i] = c
    OBVIOUS
  <2>1. Precision[i] = Cardinality(T1 \cap Threats) * (Parts \div Cardinality(T1))
    BY <1>11, PrecisionsAre DEF PrecisionOf
  <2>2. T1 \cap Threats = Threats \cap T1
    OBVIOUS
  <2> HIDE DEF T1, old, hits, count
  <2> QED
    BY <1>9, <1>10, <1>12, <2>1, <2>2
<1>14. Cardinality(Marks(Precision, Threats \cap T1)) = old.area + hits * c
  <2> DEFINE A == Threats \cap T  B == Threats \cap G
  <2>1. /\ Threats \cap T1 = A \cup B /\ A \cap B = {} /\ IsFiniteSet(A) /\ IsFiniteSet(B)
        /\ \A i \in A : Precision[i] \in Nat
        /\ \A i \in B : Precision[i] = c
    BY <1>2, <1>3, <1>4, <1>13
  <2>2. old.area = Cardinality(Marks(Precision, A)) /\ hits = Cardinality(B)
    BY <1>8
  <2> HIDE DEF A, B, old, hits, T1
  <2>3. Cardinality(Marks(Precision, A \cup B)) = Cardinality(Marks(Precision, A)) + Cardinality(B) * c
    BY <2>1, MarksGrow
  <2> QED
    BY <2>1, <2>2, <2>3
<1>15. hits * (old.found + hits) * (Parts \div (old.seen + count)) = hits * c
  <2>1. PICK f \in Nat : f = old.found + hits
    BY <1>6, <1>7 DEF GroupSums
  <2>2. PICK d \in Nat \ {0} : d = old.seen + count
    BY <1>7
  <2>3. PICK q \in Nat : q = Parts \div d
    BY <2>2, PartsAre
  <2>4. PICK x \in Nat : x = hits
    BY <1>7
  <2>5. x * f * q = x * (f * q)
    BY <2>1, <2>3, <2>4
  <2> HIDE DEF old, hits, count
  <2> QED
    BY <1>12, <2>1, <2>2, <2>3, <2>4, <2>5
<1> HIDE DEF old, hits, count, T, T1, G
<1>16. WithGroup(old, seq[k + 1])
           = [found |-> Cardinality(Threats \cap T1), seen |-> Cardinality(T1),
              area |-> Cardinality(Marks(Precision, Threats \cap T1))]
  BY <1>7, <1>9, <1>10, <1>14, <1>15
<1> QED
  BY <1>16 DEF old, T1, SumsOf

LEMMA AveragePrecisionIs ==
    ASSUME examples \in Seq(Example)
    PROVE  AveragePrecision[1] = Cardinality(Marks(Precision, Threats))
<1> DEFINE seq == Descending(ScoreSet)
           n == Cardinality(ScoreSet)
           g == CHOOSE f : f = [s \in SUBSET (1..n) |-> GroupStep(seq, s, f)]
           T == {k \in 0..n : g[1..k] = SumsOf(seq, k)}
<1>1. /\ n \in Nat /\ DOMAIN seq = 1..n /\ \A k \in 1..n : seq[k] \in Int /\ Group(seq[k]) # {}
      /\ \A k, m \in 1..n : k < m => seq[k] > seq[m]
      /\ \A i \in All : \E k \in 1..n : seq[k] = examples[i].score
  BY ScoresFall
<1>2. AveragePrecision[1] = g[1..n].area
  <2> DEFINE w == CHOOSE f : f = [s \in SUBSET DOMAIN seq |-> GroupStep(seq, s, f)]
  <2>1. AveragePrecision = <<w[DOMAIN seq].area, Cardinality(Threats) * Parts>>
    BY DEF AveragePrecision, FoldLeft, MapThenFoldSet, GroupStep, WithGroup, NoGroups, ScoreSet
  <2>2. AveragePrecision[1] = w[DOMAIN seq].area
    <3> HIDE DEF w, seq
    <3> QED
      BY <2>1
  <2>3. w[DOMAIN seq] = g[1..n]
    BY <1>1
  <2> HIDE DEF w, g
  <2> QED
    BY <2>2, <2>3
<1>3. /\ g[1..0] = NoGroups
      /\ \A k \in 0..(n - 1) : g[1..(k + 1)] = WithGroup(g[1..k], seq[k + 1])
  <2>1. IsFolded(g, seq, n)
    BY DEF IsFolded
  <2> HIDE DEF g, seq, n
  <2> QED
    BY <1>1, <2>1, GroupsAreFolded
<1> HIDE DEF g, seq, n
<1>4. 0 \in T
  <2>1. TopScored(seq, 0) = {}
    BY DEF TopScored
  <2>2. Threats \cap {} = {} /\ Marks(Precision, {}) = {} /\ Cardinality({}) = 0
    BY FS_EmptySet DEF Marks
  <2>3. SumsOf(seq, 0) = NoGroups
    BY <2>1, <2>2 DEF SumsOf, NoGroups
  <2> QED
    BY <1>1, <1>3, <2>3
<1>5. \A k \in 0..(n - 1) : k \in T => k + 1 \in T
  <2> SUFFICES ASSUME NEW k \in 0..(n - 1), k \in T PROVE k + 1 \in T
    OBVIOUS
  <2>1. g[1..(k + 1)] = WithGroup(SumsOf(seq, k), seq[k + 1])
    BY <1>3
  <2>2. WithGroup(SumsOf(seq, k), seq[k + 1]) = SumsOf(seq, k + 1)
    BY <1>1, OneMoreGroup
  <2>3. k + 1 \in 0..n
    BY <1>1
  <2> QED
    BY <2>1, <2>2, <2>3
<1>6. n \in T
  <2>1. n \in 0..n
    BY <1>1
  <2> HIDE DEF T
  <2>2. 0..n \subseteq T
    BY <1>1, <1>4, <1>5, UpTo
  <2> QED
    BY <2>1, <2>2
<1>7. Threats \cap TopScored(seq, n) = Threats
  <2>1. Threats \subseteq All
    BY ClassesAre
  <2>2. \A i \in All : i \in TopScored(seq, n)
    BY <1>1 DEF TopScored
  <2> QED
    BY <2>1, <2>2
<1>8. g[1..n] = SumsOf(seq, n)
  BY <1>6
<1>9. SumsOf(seq, n).area = Cardinality(Marks(Precision, Threats))
  BY <1>7 DEF SumsOf
<1> QED
  BY <1>2, <1>8, <1>9

(* The thresholds of a sweep are finitely many whole numbers.              *)
LEMMA ThresholdsAre == IsFiniteSet(SweepThresholds) /\ SweepThresholds \subseteq Int /\ SweepThresholds # {}
<1> DEFINE N == 0..(SweepSteps - 1)
           f == [k \in N |-> (k * ScoreTop) \div (SweepSteps - 1)]
<1>1. SweepSteps \in Nat \ {0, 1} /\ ScoreTop \in Nat
  BY EvaluationAssumption
<1>2. PICK d \in Nat \ {0} : d = SweepSteps - 1
  BY <1>1
<1>3. SweepThresholds = {(k * ScoreTop) \div d : k \in N}
  BY <1>2 DEF SweepThresholds
<1>4. IsFiniteSet(N) /\ N # {}
  <2>1. SweepSteps - 1 \in Int /\ 0 \in Int /\ 0 \in N
    BY <1>1
  <2> QED
    BY <2>1, FS_Interval
<1>5. f \in Surjection(N, SweepThresholds)
  <2>1. \A k \in N : f[k] = (k * ScoreTop) \div d
    BY <1>2
  <2>2. DOMAIN f = N /\ f = [k \in N |-> f[k]]
    OBVIOUS
  <2> HIDE DEF f, N
  <2> QED
    BY <1>3, <2>1, <2>2 DEF Surjection
<1>6. SweepThresholds \subseteq Int
  <2>1. \A k \in N : (k * ScoreTop) \div d \in Int
    <3> TAKE k \in N
    <3>1. k \in Nat
      BY <1>1
    <3>2. k * ScoreTop \in Nat
      BY <1>1, <3>1
    <3>3. PICK m \in Nat : m = k * ScoreTop
      BY <3>2
    <3>4. m \div d \in Int
      OBVIOUS
    <3> QED
      BY <3>3, <3>4
  <2> HIDE DEF N
  <2> QED
    BY <1>3, <2>1
<1>7. IsFiniteSet(SweepThresholds)
  <2> HIDE DEF f, N
  <2> QED
    BY <1>4, <1>5, FS_Surjection
<1> QED
  BY <1>3, <1>4, <1>6, <1>7

(* A fraction less than one that is not more than a third is less than it. *)
LEMMA FractionsAreOrdered ==
    ASSUME NEW a \in Nat, NEW b \in Nat, NEW c \in Nat,
           NEW x \in Nat \ {0}, NEW y \in Nat \ {0}, NEW z \in Nat \ {0},
           a * y <= b * x, b * z <= c * y
    PROVE  /\ a * z <= c * x
           /\ (a * y < b * x \/ b * z < c * y) => a * z < c * x
<1>1. (a * y) * z <= (b * x) * z /\ (b * z) * x <= (c * y) * x
  <2>1. PICK p \in Nat, q \in Nat, r \in Nat, s \in Nat :
            p = a * y /\ q = b * x /\ r = b * z /\ s = c * y
    OBVIOUS
  <2>2. p * z <= q * z /\ r * x <= s * x
    BY <2>1
  <2> QED
    BY <2>1, <2>2
<1>2. a * y < b * x => (a * y) * z < (b * x) * z
  <2>1. PICK p \in Nat, q \in Nat : p = a * y /\ q = b * x
    OBVIOUS
  <2>2. p < q => p * z < q * z
    OBVIOUS
  <2> QED
    BY <2>1, <2>2
<1>3. b * z < c * y => (b * z) * x < (c * y) * x
  <2>1. PICK r \in Nat, s \in Nat : r = b * z /\ s = c * y
    OBVIOUS
  <2>2. r < s => r * x < s * x
    OBVIOUS
  <2> QED
    BY <2>1, <2>2
<1>4. (a * z) * y = (a * y) * z /\ (b * x) * z = (b * z) * x /\ (c * y) * x = (c * x) * y
  OBVIOUS
<1>5. PICK t \in Nat, v \in Nat : t = a * z /\ v = c * x
  OBVIOUS
<1>6. t * y <= v * y /\ ((a * y < b * x \/ b * z < c * y) => t * y < v * y)
  <2>1. PICK m1 \in Nat, m2 \in Nat, m3 \in Nat :
            m1 = (a * y) * z /\ m2 = (b * x) * z /\ m3 = (c * y) * x
    OBVIOUS
  <2>2. t * y = m1 /\ v * y = m3 /\ (b * z) * x = m2
    BY <1>4, <1>5, <2>1
  <2> QED
    BY <1>1, <1>2, <1>3, <2>1, <2>2
<1>7. t * y <= v * y => t <= v
  <2> SUFFICES ASSUME t > v PROVE t * y > v * y
    OBVIOUS
  <2> QED
    OBVIOUS
<1>8. t * y < v * y => t < v
  <2> SUFFICES ASSUME t >= v PROVE t * y >= v * y
    OBVIOUS
  <2> QED
    OBVIOUS
<1> QED
  BY <1>5, <1>6, <1>7, <1>8

(* At a threshold, counts; and the fraction they make.                     *)
LEMMA SweepIs ==
    ASSUME examples \in Seq(Example), NEW t \in SweepThresholds
    PROVE  /\ Sweep[t] = ConfusionAt(t)
           /\ Sweep[t].tp = Cardinality(Threats \cap AtLeast(t))
           /\ Sweep[t].fp = Cardinality(Benign \cap AtLeast(t))
           /\ \E a \in Nat : \E x \in Nat \ {0} : F1(Sweep[t]) = <<a, x>>
<1>1. Sweep[t] = ConfusionAt(t)
  BY DEF Sweep
<1>2. /\ ConfusionAt(t).tp = Cardinality(Threats \cap AtLeast(t))
      /\ ConfusionAt(t).fp = Cardinality(Benign \cap AtLeast(t))
      /\ ConfusionAt(t).fn = Cardinality(Threats \ AtLeast(t))
  BY DEF ConfusionAt
<1>3. /\ IsFiniteSet(Threats \cap AtLeast(t)) /\ IsFiniteSet(Benign \cap AtLeast(t))
      /\ IsFiniteSet(Threats \ AtLeast(t))
  <2>1. IsFiniteSet(Threats) /\ IsFiniteSet(Benign)
    BY ClassesAre
  <2> QED
    BY <2>1, FS_Subset
<1>4. Sweep[t].tp \in Nat /\ Sweep[t].fp \in Nat /\ Sweep[t].fn \in Nat
  BY <1>1, <1>2, <1>3, FS_CardinalityType
<1>5. PICK p \in Nat, q \in Nat, r \in Nat : p = Sweep[t].tp /\ q = Sweep[t].fp /\ r = Sweep[t].fn
  BY <1>4
<1>6. F1(Sweep[t]) = <<2 * p, IF p = 0 THEN 1 ELSE 2 * p + q + r>>
  BY <1>5 DEF F1
<1>7. 2 * p \in Nat /\ (IF p = 0 THEN 1 ELSE 2 * p + q + r) \in Nat \ {0}
  OBVIOUS
<1> QED
  BY <1>1, <1>2, <1>6, <1>7

(* There is a best threshold, and BestF1 is one.                           *)
LEMMA BestIs ==
    ASSUME examples \in Seq(Example)
    PROVE  /\ BestF1 \in SweepThresholds
           /\ \A u \in SweepThresholds :
                  \/ Less(F1(Sweep[u]), F1(Sweep[BestF1]))
                  \/ ~Less(F1(Sweep[BestF1]), F1(Sweep[u])) /\ u <= BestF1
<1> DEFINE S == SweepThresholds
           num == [t \in S |-> F1(Sweep[t])[1]]
           den == [t \in S |-> F1(Sweep[t])[2]]
           Under(t, u) == num[t] * den[u] < num[u] * den[t]
           AtMost(t, u) == num[t] * den[u] <= num[u] * den[t]
           R == {p \in S \X S : Under(p[1], p[2]) \/ (AtMost(p[1], p[2]) /\ p[1] < p[2])}
           Best(t) == \A u \in S : Under(u, t) \/ (~Under(t, u) /\ u <= t)
<1>1. IsFiniteSet(S) /\ S \subseteq Int /\ S # {}
  BY ThresholdsAre
<1>2. \A t \in S : num[t] \in Nat /\ den[t] \in Nat \ {0}
  <2> TAKE t \in S
  <2>1. PICK a \in Nat : \E x \in Nat \ {0} : F1(Sweep[t]) = <<a, x>>
    BY SweepIs
  <2> QED
    BY <2>1
<1>3. \A t, u \in S : Less(F1(Sweep[t]), F1(Sweep[u])) <=> Under(t, u)
  BY DEF Less
<1> HIDE DEF num, den
<1>4. \A x, y, z \in S : <<x, y>> \in R /\ <<y, z>> \in R => <<x, z>> \in R
  <2> SUFFICES ASSUME NEW x \in S, NEW y \in S, NEW z \in S, <<x, y>> \in R, <<y, z>> \in R
               PROVE  <<x, z>> \in R
    OBVIOUS
  <2>1. PICK a \in Nat, b \in Nat, c \in Nat : a = num[x] /\ b = num[y] /\ c = num[z]
    BY <1>2
  <2>2. PICK d \in Nat \ {0}, e \in Nat \ {0}, f \in Nat \ {0} : d = den[x] /\ e = den[y] /\ f = den[z]
    BY <1>2
  <2>3. /\ a * e < b * d \/ (a * e <= b * d /\ x < y)
        /\ b * f < c * e \/ (b * f <= c * e /\ y < z)
    BY <2>1, <2>2
  <2>4. a * e <= b * d /\ b * f <= c * e
    <3>1. PICK p \in Nat, q \in Nat, r \in Nat, s \in Nat :
              p = a * e /\ q = b * d /\ r = b * f /\ s = c * e
      OBVIOUS
    <3>2. (p < q \/ (p <= q /\ x < y)) /\ (r < s \/ (r <= s /\ y < z))
      BY <2>3, <3>1
    <3>3. p <= q /\ r <= s
      BY <3>2
    <3> QED
      BY <3>1, <3>3
  <2>5. a * f <= c * d /\ ((a * e < b * d \/ b * f < c * e) => a * f < c * d)
    BY <2>4, FractionsAreOrdered
  <2>6. a * f < c * d \/ (a * f <= c * d /\ x < z)
    <3>1. CASE a * e < b * d \/ b * f < c * e
      BY <2>5, <3>1
    <3>2. CASE x < y /\ y < z
      <4>1. x \in Int /\ y \in Int /\ z \in Int
        BY <1>1
      <4>2. x < z
        BY <3>2, <4>1
      <4> QED
        BY <2>5, <4>2
    <3> QED
      BY <2>3, <3>1, <3>2
  <2> QED
    BY <2>1, <2>2, <2>6
<1>5. \A x \in S : <<x, x>> \notin R
  <2> SUFFICES ASSUME NEW x \in S PROVE <<x, x>> \notin R
    OBVIOUS
  <2>1. PICK p \in Nat : p = num[x] * den[x]
    BY <1>2
  <2>2. x \in Int
    BY <1>1
  <2> QED
    BY <2>1, <2>2
<1>6. PICK t \in S : \A u \in S : <<t, u>> \notin R
  <2> HIDE DEF R, S
  <2> QED
    BY <1>1, <1>4, <1>5, FiniteHasMaximal
<1>7. Best(t)
  <2> SUFFICES ASSUME NEW u \in S PROVE Under(u, t) \/ (~Under(t, u) /\ u <= t)
    OBVIOUS
  <2>0. PICK a \in Nat, b \in Nat, d \in Nat, e \in Nat :
            a = num[t] /\ b = num[u] /\ d = den[t] /\ e = den[u]
    BY <1>2
  <2>5. PICK p \in Nat, q \in Nat : p = a * e /\ q = b * d
    OBVIOUS
  <2>1. p = num[t] * den[u] /\ q = num[u] * den[t]
    BY <2>0, <2>5
  <2>2. ~(p < q) /\ ~(p <= q /\ t < u)
    BY <1>6, <2>1
  <2>3. t \in Int /\ u \in Int
    BY <1>1
  <2>4. q < p \/ (~(p < q) /\ u <= t)
    BY <2>2, <2>3
  <2> QED
    BY <2>1, <2>4
<1>8. BestF1 \in S /\ Best(BestF1)
  <2> DEFINE Is(x) == \A u \in S : \/ Less(F1(Sweep[u]), F1(Sweep[x]))
                                   \/ ~Less(F1(Sweep[x]), F1(Sweep[u])) /\ u <= x
  <2>1. BestF1 = CHOOSE x \in S : Is(x)
    BY DEF BestF1
  <2>2. \A x \in S : Is(x) <=> Best(x)
    <3> HIDE DEF Under, S
    <3> QED
      BY <1>3
  <2> HIDE DEF Is, Best
  <2> QED
    BY <1>7, <2>1, <2>2
<1> HIDE DEF Under
<1> QED
  BY <1>3, <1>8

(* What a report of some examples says, by sets of them.                   *)
ThreatsIn(ex) == {i \in DOMAIN ex : ex[i].threat}
BenignIn(ex) == DOMAIN ex \ ThreatsIn(ex)
PairsAbove(ex) == {p \in ThreatsIn(ex) \X BenignIn(ex) : ex[p[2]].score < ex[p[1]].score}
PairsNotBelow(ex) == {p \in ThreatsIn(ex) \X BenignIn(ex) : ex[p[2]].score <= ex[p[1]].score}
ScoredFrom(ex, score) == {i \in DOMAIN ex : ex[i].score >= score}
PrecisionsIn(ex) ==
    [i \in ThreatsIn(ex) |-> Cardinality(ScoredFrom(ex, ex[i].score) \cap ThreatsIn(ex))
                             * (Parts \div Cardinality(ScoredFrom(ex, ex[i].score)))]
InBinOf(ex, C, b) == {i \in C : BinOf(ex[i].score) = b}

IsReport(r, ex) ==
    /\ r.is = "report"
    /\ r.rocAuc = <<Cardinality(PairsAbove(ex)) + Cardinality(PairsNotBelow(ex)),
                    2 * Cardinality(ThreatsIn(ex)) * Cardinality(BenignIn(ex))>>
    /\ r.prAuc[1] = Cardinality(Marks(PrecisionsIn(ex), ThreatsIn(ex)))
    /\ \A b \in 1..HistogramBins :
           /\ r.histogram[b]["threat"] = Cardinality(InBinOf(ex, ThreatsIn(ex), b))
           /\ r.histogram[b]["benign"] = Cardinality(InBinOf(ex, BenignIn(ex), b))
    /\ DOMAIN r.sweep = SweepThresholds
    /\ \A t \in SweepThresholds :
           /\ r.sweep[t].tp = Cardinality(ThreatsIn(ex) \cap ScoredFrom(ex, t))
           /\ r.sweep[t].fp = Cardinality(BenignIn(ex) \cap ScoredFrom(ex, t))
           /\ \E a \in Nat : \E x \in Nat \ {0} : F1(r.sweep[t]) = <<a, x>>
    /\ r.best \in SweepThresholds
    /\ \A u \in SweepThresholds :
           \/ Less(F1(r.sweep[u]), F1(r.sweep[r.best]))
           \/ ~Less(F1(r.sweep[r.best]), F1(r.sweep[u])) /\ u <= r.best

(* What evaluate() makes is a report of all the examples that came; it has *)
(* none only when a class is empty.                                        *)
EvalInv ==
    /\ examples \in Seq(Example)
    /\ \/ evaluation = NoEvaluation
       \/ evaluation = Undefined /\ {} \in {ThreatsIn(examples), BenignIn(examples)}
       \/ IsReport(evaluation, examples)

LEMMA ByName ==
    /\ Threats = ThreatsIn(examples) /\ Benign = BenignIn(examples)
    /\ Above(Threats, Benign) = PairsAbove(examples)
    /\ NotBelow(Threats, Benign) = PairsNotBelow(examples)
    /\ \A score : AtLeast(score) = ScoredFrom(examples, score)
    /\ Precision = PrecisionsIn(examples)
<1>1. Threats = ThreatsIn(examples) /\ Benign = BenignIn(examples) /\ All = DOMAIN examples
  BY DEF Threats, ThreatsIn, Benign, BenignIn, All
<1>2. /\ Above(Threats, Benign) = PairsAbove(examples)
      /\ NotBelow(Threats, Benign) = PairsNotBelow(examples)
  BY <1>1 DEF Above, NotBelow, PairsAbove, PairsNotBelow
<1>3. \A score : AtLeast(score) = ScoredFrom(examples, score)
  BY <1>1 DEF AtLeast, ScoredFrom
<1>4. \A i \in Threats : PrecisionOf(i) =
          Cardinality(ScoredFrom(examples, examples[i].score) \cap Threats)
          * (Parts \div Cardinality(ScoredFrom(examples, examples[i].score)))
  <2> TAKE i \in Threats
  <2>1. NotUnder(i) = ScoredFrom(examples, examples[i].score)
    BY <1>1 DEF NotUnder, ScoredFrom
  <2> QED
    BY <2>1 DEF PrecisionOf
<1>5. Precision = PrecisionsIn(examples)
  BY <1>1, <1>4 DEF Precision, PrecisionsIn
<1> QED
  BY <1>1, <1>2, <1>3, <1>5

LEMMA ReportsAre ==
    ASSUME examples \in Seq(Example), NEW t \in 0..ScoreTop
    PROVE  IsReport(ReportOf(t), examples)
<1> DEFINE r == ReportOf(t)
<1>1. /\ r.is = "report" /\ r.rocAuc = RocAuc /\ r.prAuc = AveragePrecision
      /\ r.histogram = ScoreHistogram /\ r.sweep = Sweep /\ r.best = BestF1
  BY DEF ReportOf
<1> HIDE DEF r
<1>2. r.rocAuc = <<Cardinality(PairsAbove(examples)) + Cardinality(PairsNotBelow(examples)),
                   2 * Cardinality(ThreatsIn(examples)) * Cardinality(BenignIn(examples))>>
  <2>1. r.rocAuc = <<Cardinality(Above(Threats, Benign)) + Cardinality(NotBelow(Threats, Benign)),
                     2 * Cardinality(Threats) * Cardinality(Benign)>>
    BY <1>1, RocIs
  <2> QED
    BY <2>1, ByName, Zenon
<1>3. r.prAuc[1] = Cardinality(Marks(PrecisionsIn(examples), ThreatsIn(examples)))
  BY <1>1, AveragePrecisionIs, ByName
<1>4. \A b \in 1..HistogramBins :
          /\ r.histogram[b]["threat"] = Cardinality(InBinOf(examples, ThreatsIn(examples), b))
          /\ r.histogram[b]["benign"] = Cardinality(InBinOf(examples, BenignIn(examples), b))
  <2> TAKE b \in 1..HistogramBins
  <2>1. /\ ScoreHistogram[b]["threat"] = Cardinality({i \in Threats : BinOf(examples[i].score) = b})
        /\ ScoreHistogram[b]["benign"] = Cardinality({i \in Benign : BinOf(examples[i].score) = b})
    BY DEF ScoreHistogram
  <2>2. /\ InBinOf(examples, Threats, b) = {i \in Threats : BinOf(examples[i].score) = b}
        /\ InBinOf(examples, Benign, b) = {i \in Benign : BinOf(examples[i].score) = b}
    BY DEF InBinOf
  <2> QED
    BY <1>1, <2>1, <2>2, ByName
<1>5. DOMAIN r.sweep = SweepThresholds
  BY <1>1 DEF Sweep
<1>6. \A u \in SweepThresholds :
          /\ r.sweep[u].tp = Cardinality(ThreatsIn(examples) \cap ScoredFrom(examples, u))
          /\ r.sweep[u].fp = Cardinality(BenignIn(examples) \cap ScoredFrom(examples, u))
          /\ \E a \in Nat : \E x \in Nat \ {0} : F1(r.sweep[u]) = <<a, x>>
  BY <1>1, SweepIs, ByName
<1>7. /\ r.best \in SweepThresholds
      /\ \A u \in SweepThresholds :
             \/ Less(F1(r.sweep[u]), F1(r.sweep[r.best]))
             \/ ~Less(F1(r.sweep[r.best]), F1(r.sweep[u])) /\ u <= r.best
  BY <1>1, BestIs
<1>8. IsReport(r, examples)
  BY <1>1, <1>2, <1>3, <1>4, <1>5, <1>6, <1>7 DEF IsReport
<1> QED
  BY <1>8 DEF r

LEMMA EvalStart == EvaluationInit => EvalInv
  BY DEF EvaluationInit, EvalInv

LEMMA EvalStep == EvalInv /\ [EvaluationNext]_evaluationVars => EvalInv'
<1> SUFFICES ASSUME EvalInv, [EvaluationNext]_evaluationVars PROVE EvalInv'
  OBVIOUS
<1>1. ASSUME NEW e \in Example, Score(e) PROVE EvalInv'
  BY <1>1 DEF EvalInv, Score
<1>2. ASSUME NEW t \in 0..ScoreTop, Evaluate(t) PROVE EvalInv'
  <2>1. /\ examples \in Seq(Example) /\ examples' = examples
        /\ evaluation' = IF {} \in {Threats, Benign} \/ ~AgreesWithItself(ReportOf(t))
                         THEN Undefined ELSE ReportOf(t)
    BY <1>2 DEF EvalInv, Evaluate, ReportOf
  <2>2. AgreesWithItself(ReportOf(t)) /\ IsReport(ReportOf(t), examples)
    BY <2>1, ReportsAgree, ReportsAre
  <2>3. CASE {} \in {Threats, Benign}
    <3>1. evaluation' = Undefined /\ {} \in {ThreatsIn(examples), BenignIn(examples)}
      BY <2>1, <2>3, ByName
    <3>2. {} \in {ThreatsIn(examples'), BenignIn(examples')}
      BY <2>1, <3>1
    <3> QED
      BY <2>1, <3>1, <3>2 DEF EvalInv
  <2>4. CASE {} \notin {Threats, Benign}
    <3>1. IsReport(evaluation', examples')
      BY <2>1, <2>2, <2>4
    <3> QED
      BY <2>1, <3>1 DEF EvalInv
  <2> QED
    BY <2>3, <2>4
<1>3. ASSUME UNCHANGED evaluationVars PROVE EvalInv'
  BY <1>3 DEF evaluationVars, EvalInv
<1> QED
  BY <1>1, <1>2, <1>3 DEF EvaluationNext

LEMMA EvaluationIsTyped == EvalInv => EvaluationTypeOK
  BY DEF EvalInv, EvaluationTypeOK, NoEvaluation, Undefined, IsReport

LEMMA PrecisionsAreSummed ==
    MapThenSumSet(PrecisionOf, Threats) = TallySum(Precision, Threats)
<1> DEFINE P(g) == g = [s \in SUBSET Threats |-> IF s = {} THEN 0 ELSE
                           PrecisionOf(CHOOSE x \in s : TRUE) + g[s \ {CHOOSE x \in s : TRUE}]]
           Q(g) == g = [s \in SUBSET Threats |-> SumStep(Precision, s, g)]
<1>1. MapThenSumSet(PrecisionOf, Threats) = (CHOOSE g : P(g))[Threats]
  BY DEF MapThenSumSet, MapThenFoldSet
<1>2. TallySum(Precision, Threats) = (CHOOSE g : Q(g))[Threats]
  BY DEF TallySum, MapThenSumSet, MapThenFoldSet, SumStep
<1>3. \A g : P(g) <=> Q(g)
  <2> TAKE g
  <2>1. ASSUME NEW s \in SUBSET Threats, s # {}
        PROVE Precision[CHOOSE x \in s : TRUE] = PrecisionOf(CHOOSE x \in s : TRUE)
    <3>1. (CHOOSE x \in s : TRUE) \in Threats
      BY <2>1
    <3> QED
      BY <3>1 DEF Precision
  <2> QED
    BY <2>1 DEF SumStep
<1> HIDE DEF P, Q
<1>4. (CHOOSE g : P(g)) = (CHOOSE g : Q(g))
  BY <1>3, Zenon
<1> QED
  BY <1>1, <1>2, <1>4

(* MetricsMeanWhatTheySay of a report, with its sums by name.              *)
PrecisionSum == MapThenSumSet(PrecisionOf, Threats)
BinsFrom(r, class, k) == BinsOver(r.histogram, class, (k + 1)..HistogramBins)
EdgeOf(k) == k * (ScoreTop \div HistogramBins)
ReportSays(r) ==
    /\ r.rocAuc = <<PairSum, 2 * Cardinality(Threats) * Cardinality(Benign)>>
    /\ r.prAuc[1] = PrecisionSum
    /\ \A t, u \in DOMAIN r.sweep :
           t <= u => r.sweep[u].tp <= r.sweep[t].tp /\ r.sweep[u].fp <= r.sweep[t].fp
    /\ \A k \in 0..(HistogramBins - 1) :
           EdgeOf(k) \in DOMAIN r.sweep =>
               /\ BinsFrom(r, "threat", k) = r.sweep[EdgeOf(k)].tp
               /\ BinsFrom(r, "benign", k) = r.sweep[EdgeOf(k)].fp
    /\ \A t \in DOMAIN r.sweep :
           /\ ~Less(F1(r.sweep[r.best]), F1(r.sweep[t]))
           /\ ~Less(F1(r.sweep[t]), F1(r.sweep[r.best])) => r.sweep[r.best].fp <= r.sweep[t].fp

LEMMA MetricsSay ==
    /\ (evaluation.is = "undefined") => {} \in {Threats, Benign}
    /\ evaluation.is = "report" => ReportSays(evaluation)
    => MetricsMeanWhatTheySay
BY DEF MetricsMeanWhatTheySay, ReportSays, PrecisionSum, PairSum, PairScore, PrecisionOf, NotUnder,
       BinsFrom, BinsOver, EdgeOf

LEMMA SweepFalls ==
    ASSUME examples \in Seq(Example), NEW t \in Int, NEW u \in Int, t <= u, NEW C, C \in {Threats, Benign}
    PROVE  Cardinality(C \cap AtLeast(u)) <= Cardinality(C \cap AtLeast(t))
<1>1. IsFiniteSet(C) /\ C \subseteq All /\ \A i \in All : examples[i].score \in Int
  BY ClassesAre
<1>2. C \cap AtLeast(u) \subseteq C \cap AtLeast(t)
  BY <1>1 DEF AtLeast
<1>3. IsFiniteSet(C \cap AtLeast(t))
  BY <1>1, FS_Subset
<1> QED
  BY <1>2, <1>3, FS_Subset

LEMMA EvalGood == EvalInv => MetricsMeanWhatTheySay
<1> SUFFICES ASSUME EvalInv
             PROVE  /\ evaluation.is = "undefined" => {} \in {Threats, Benign}
                    /\ evaluation.is = "report" => ReportSays(evaluation)
  BY MetricsSay
<1>1. examples \in Seq(Example)
  BY DEF EvalInv
<1>2. evaluation.is = "undefined" => {} \in {Threats, Benign}
  BY ByName DEF EvalInv, NoEvaluation, IsReport
<1>3. ASSUME evaluation.is = "report" PROVE ReportSays(evaluation)
  <2> DEFINE r == evaluation
  <2>1. IsReport(r, examples)
    BY <1>3 DEF EvalInv, NoEvaluation, Undefined
  <2> HIDE DEF r
  <2>2. r.rocAuc = <<PairSum, 2 * Cardinality(Threats) * Cardinality(Benign)>>
    <3>1. PairSum = Cardinality(PairsAbove(examples)) + Cardinality(PairsNotBelow(examples))
      BY <1>1, PairSumIs, ByName
    <3>2. r.rocAuc = <<PairSum, 2 * Cardinality(ThreatsIn(examples)) * Cardinality(BenignIn(examples))>>
      BY <2>1, <3>1 DEF IsReport
    <3> QED
      BY <3>2, ByName, Zenon
  <2>3. r.prAuc[1] = PrecisionSum
    <3>1. IsFiniteSet(Threats)
      BY <1>1, ClassesAre
    <3>2. \A i \in Threats : Precision[i] \in Nat
      BY <1>1, PrecisionsAre
    <3>3. TallySum(Precision, Threats) = Cardinality(Marks(Precision, Threats))
      BY <3>1, <3>2, MarksAre
    <3>4. PrecisionSum = TallySum(Precision, Threats)
      BY PrecisionsAreSummed DEF PrecisionSum
    <3> QED
      BY <2>1, <3>3, <3>4, ByName DEF IsReport
  <2>4. /\ DOMAIN r.sweep = SweepThresholds /\ SweepThresholds \subseteq Int
        /\ r.best \in SweepThresholds
    BY <2>1, ThresholdsAre DEF IsReport
  <2>5. ASSUME NEW t \in SweepThresholds
        PROVE  /\ r.sweep[t].tp = Cardinality(Threats \cap AtLeast(t))
               /\ r.sweep[t].fp = Cardinality(Benign \cap AtLeast(t))
    BY <2>1, ByName DEF IsReport
  <2>6. ASSUME NEW t \in SweepThresholds, NEW u \in SweepThresholds, t <= u
        PROVE  r.sweep[u].tp <= r.sweep[t].tp /\ r.sweep[u].fp <= r.sweep[t].fp
    <3>1. t \in Int /\ u \in Int
      BY <2>4
    <3> QED
      BY <1>1, <2>5, <2>6, <3>1, SweepFalls
  <2>7. ASSUME NEW k \in 0..(HistogramBins - 1), EdgeOf(k) \in DOMAIN r.sweep
        PROVE  /\ BinsFrom(r, "threat", k) = r.sweep[EdgeOf(k)].tp
               /\ BinsFrom(r, "benign", k) = r.sweep[EdgeOf(k)].fp
    <3>1. /\ CountsOf(r.histogram, "threat", Threats) /\ CountsOf(r.histogram, "benign", Benign)
          /\ Threats \subseteq All /\ Benign \subseteq All
      <4>2. CountsOf(r.histogram, "threat", Threats)
        <5>1. ASSUME NEW b \in 1..HistogramBins
              PROVE  r.histogram[b]["threat"] = Cardinality({i \in Threats : BinOf(examples[i].score) = b})
          <6>1. r.histogram[b]["threat"] = Cardinality(InBinOf(examples, Threats, b))
            BY <2>1, ByName DEF IsReport
          <6> QED
            BY <6>1 DEF InBinOf
        <5> QED
          BY <5>1 DEF CountsOf
      <4>3. CountsOf(r.histogram, "benign", Benign)
        <5>1. ASSUME NEW b \in 1..HistogramBins
              PROVE  r.histogram[b]["benign"] = Cardinality({i \in Benign : BinOf(examples[i].score) = b})
          <6>1. r.histogram[b]["benign"] = Cardinality(InBinOf(examples, Benign, b))
            BY <2>1, ByName DEF IsReport
          <6> QED
            BY <6>1 DEF InBinOf
        <5> QED
          BY <5>1 DEF CountsOf
      <4> QED
        BY <1>1, <4>2, <4>3, ClassesAre
    <3>2. BinsFrom(r, "threat", k) = Cardinality(Threats \cap AtLeast(EdgeOf(k)))
      BY <1>1, <3>1, BinsCount DEF BinsFrom, EdgeOf
    <3>3. BinsFrom(r, "benign", k) = Cardinality(Benign \cap AtLeast(EdgeOf(k)))
      BY <1>1, <3>1, BinsCount DEF BinsFrom, EdgeOf
    <3>4. EdgeOf(k) \in SweepThresholds
      BY <2>4, <2>7
    <3> QED
      BY <2>5, <3>2, <3>3, <3>4
  <2>8. ASSUME NEW t \in SweepThresholds
        PROVE  /\ ~Less(F1(r.sweep[r.best]), F1(r.sweep[t]))
               /\ ~Less(F1(r.sweep[t]), F1(r.sweep[r.best])) => r.sweep[r.best].fp <= r.sweep[t].fp
    <3>1. \/ Less(F1(r.sweep[t]), F1(r.sweep[r.best]))
          \/ ~Less(F1(r.sweep[r.best]), F1(r.sweep[t])) /\ t <= r.best
      BY <2>1 DEF IsReport
    <3>2. Less(F1(r.sweep[t]), F1(r.sweep[r.best])) => ~Less(F1(r.sweep[r.best]), F1(r.sweep[t]))
      <4>1. PICK a \in Nat, x \in Nat \ {0} : F1(r.sweep[t]) = <<a, x>>
        BY <2>1 DEF IsReport
      <4>2. PICK b \in Nat, y \in Nat \ {0} : F1(r.sweep[r.best]) = <<b, y>>
        BY <2>1, <2>4 DEF IsReport
      <4>3. PICK p \in Nat, q \in Nat : p = a * y /\ q = b * x
        OBVIOUS
      <4>4. /\ Less(F1(r.sweep[t]), F1(r.sweep[r.best])) <=> p < q
            /\ Less(F1(r.sweep[r.best]), F1(r.sweep[t])) <=> q < p
        BY <4>1, <4>2, <4>3 DEF Less
      <4> QED
        BY <4>4
    <3> QED
      BY <2>4, <2>6, <3>1, <3>2
  <2>9. ReportSays(r)
    BY <2>2, <2>3, <2>4, <2>6, <2>7, <2>8 DEF ReportSays
  <2> QED
    BY <2>9 DEF r
<1> QED
  BY <1>2, <1>3
=============================================================================
