---------------------------- MODULE CorrelatorProofs ----------------------------
(***************************************************************************)
(* Proofs about Correlator, for any families, scores, close times, windows *)
(* of cool-down and grouping, retention, severity bands and number of      *)
(* deliveries.  IdsInv ties the evidence index to what was delivered and   *)
(* to what the cases retain; the other invariants rest on it.              *)
(***************************************************************************)
EXTENDS Correlator, FiniteSetTheorems, SequenceTheorems, WellFoundedInduction, TLAPS

(* A finite set has a maximum under any strict partial order.              *)
LEMMA FiniteHasMaximal ==
    ASSUME NEW S, IsFiniteSet(S), S # {}, NEW R,
           \A x, y, z \in S : <<x, y>> \in R /\ <<y, z>> \in R => <<x, z>> \in R,
           \A x \in S : <<x, x>> \notin R
    PROVE  \E x \in S : \A y \in S : <<x, y>> \notin R
<1> DEFINE Above(x) == {y \in S : <<x, y>> \in R}
           T == {Above(x) : x \in S}
<1>1. T \subseteq FiniteSubsetsOf(S) /\ T # {}
  <2>1. \A x \in S : Above(x) \in SUBSET S /\ IsFiniteSet(Above(x))
    BY FS_Subset
  <2>2. \A A \in T : A \in FiniteSubsetsOf(S)
    <3> SUFFICES ASSUME NEW x \in S PROVE Above(x) \in FiniteSubsetsOf(S)
      OBVIOUS
    <3> HIDE DEF Above
    <3> QED
      BY <2>1 DEF FiniteSubsetsOf
  <2>3. PICK x \in S : TRUE
    OBVIOUS
  <2>4. Above(x) \in T
    OBVIOUS
  <2> HIDE DEF T
  <2> QED
    BY <2>2, <2>4
<1>2. PICK A \in T : \A B \in T : <<B, A>> \notin StrictSubsetOrdering(S)
  <2> HIDE DEF T
  <2> QED
    BY <1>1, FS_StrictSubsetOrderingWellFounded, WFMin
<1>3. PICK x \in S : A = Above(x)
  OBVIOUS
<1>4. ASSUME NEW y \in S, <<x, y>> \in R PROVE FALSE
  <2>1. Above(y) \subseteq Above(x) /\ y \in Above(x) /\ y \notin Above(y)
    BY <1>4
  <2>2. <<Above(y), Above(x)>> \in StrictSubsetOrdering(S)
    BY <2>1 DEF StrictSubsetOrdering
  <2> QED
    BY <1>2, <1>3, <2>2
<1> QED
  BY <1>4

(* In a finite set under a strict total order the ranks are 0, 1, 2 and on,*)
(* each of one element, and they rise with the order.                      *)
LEMMA Ranks ==
    ASSUME NEW S, IsFiniteSet(S), NEW R, NEW rank,
           \A x, y, z \in S : <<x, y>> \in R /\ <<y, z>> \in R => <<x, z>> \in R,
           \A x \in S : <<x, x>> \notin R,
           \A x, y \in S : x # y => <<x, y>> \in R \/ <<y, x>> \in R,
           rank = [x \in S |-> Cardinality({y \in S : <<y, x>> \in R})]
    PROVE  /\ Cardinality(S) \in Nat
           /\ \A x \in S : rank[x] \in 0..(Cardinality(S) - 1)
           /\ \A x, y \in S : rank[x] < rank[y] <=> <<x, y>> \in R
           /\ \A n \in 1..Cardinality(S) : \E x \in S : rank[x] = n - 1
<1> DEFINE Below(x) == {y \in S : <<y, x>> \in R}
           n == Cardinality(S)
<1>1. n \in Nat
  BY FS_CardinalityType
<1>2. ASSUME NEW x \in S PROVE /\ IsFiniteSet(Below(x)) /\ rank[x] = Cardinality(Below(x))
                               /\ rank[x] \in 0..(n - 1)
  <2>1. rank[x] = Cardinality(Below(x))
    OBVIOUS
  <2>2. Below(x) \in SUBSET S /\ Below(x) # S
    OBVIOUS
  <2> HIDE DEF Below
  <2>3. IsFiniteSet(Below(x)) /\ Cardinality(Below(x)) <= n /\ Cardinality(Below(x)) # n
    BY <2>2, FS_Subset
  <2>4. Cardinality(Below(x)) \in Nat
    BY <2>3, FS_CardinalityType
  <2> QED
    BY <1>1, <2>1, <2>3, <2>4
<1>3. ASSUME NEW x \in S, NEW y \in S, <<x, y>> \in R PROVE rank[x] < rank[y]
  <2>1. Below(x) \in SUBSET Below(y) /\ Below(x) # Below(y)
    BY <1>3
  <2> HIDE DEF Below
  <2>2. Cardinality(Below(x)) <= Cardinality(Below(y))
        /\ Cardinality(Below(x)) # Cardinality(Below(y))
    BY <1>2, <2>1, FS_Subset
  <2> QED
    BY <1>1, <1>2, <2>2
<1>6. ASSUME NEW x \in S PROVE rank[x] \in 0..(n - 1) /\ rank[x] \in Int
  <2>1. rank[x] \in 0..(n - 1)
    BY <1>2
  <2> HIDE DEF n
  <2> QED
    BY <2>1, <1>1
<1>4. ASSUME NEW x \in S, NEW y \in S PROVE rank[x] < rank[y] <=> <<x, y>> \in R
  <2>1. rank[x] \in Int /\ rank[y] \in Int
    BY <1>6
  <2>2. CASE x = y
    BY <2>1, <2>2
  <2>3. CASE x # y
    <3>1. CASE <<x, y>> \in R
      BY <1>3, <3>1
    <3>2. CASE <<y, x>> \in R
      <4>1. <<x, y>> \notin R
        BY <3>2
      <4>2. rank[y] < rank[x]
        BY <1>3, <3>2
      <4> QED
        BY <2>1, <4>1, <4>2
    <3> QED
      BY <2>3, <3>1, <3>2
  <2> QED
    BY <2>2, <2>3
<1>5. ASSUME NEW k \in 1..n PROVE \E x \in S : rank[x] = k - 1
  <2> DEFINE T == 0..(n - 1)
             f == [x \in S |-> rank[x]]
  <2>1. IsFiniteSet(T) /\ Cardinality(T) = n
    <3>1. 0 \in Int /\ n - 1 \in Int
      BY <1>1
    <3> QED
      BY <1>1, <3>1, FS_Interval
  <2>2. \A x, y \in S : f[x] = f[y] => x = y
    <3> SUFFICES ASSUME NEW x \in S, NEW y \in S, rank[x] = rank[y], x # y PROVE FALSE
      OBVIOUS
    <3>1. rank[x] < rank[y] \/ rank[y] < rank[x]
      BY <1>3
    <3> QED
      BY <1>6, <3>1
  <2>3. f \in [S -> T]
    BY <1>2
  <2>4. f \in Injection(S, T)
    <3> HIDE DEF f, T
    <3> QED
      BY <2>2, <2>3 DEF Injection, IsInjective
  <2>5. f \in Surjection(S, T)
    <3> HIDE DEF f, T
    <3> QED
      BY <2>1, <2>4, FS_Injection
  <2>6. k - 1 \in T
    BY <1>1
  <2> HIDE DEF T
  <2> QED
    BY <2>5, <2>6 DEF Surjection
<1> QED
  BY <1>1, <1>2, <1>4, <1>5

(* Max and Min of a finite set of numbers are its bounds and members.      *)
LEMMA MaxOfSet ==
    ASSUME NEW S \in SUBSET Nat, IsFiniteSet(S), S # {}
    PROVE  Max(S) \in S /\ \A y \in S : Max(S) >= y
<1> DEFINE R == {p \in S \X S : p[1] < p[2]}
<1>1. \A x, y \in S : <<x, y>> \in R <=> x < y
  OBVIOUS
<1> HIDE DEF R
<1>2. \E x \in S : \A y \in S : <<x, y>> \notin R
  <2>1. \A x, y, z \in S : <<x, y>> \in R /\ <<y, z>> \in R => <<x, z>> \in R
    BY <1>1
  <2>2. \A x \in S : <<x, x>> \notin R
    BY <1>1
  <2> QED
    BY <2>1, <2>2, FiniteHasMaximal
<1>3. PICK x \in S : \A y \in S : <<x, y>> \notin R
  BY <1>2
<1>4. \A y \in S : x >= y
  <2> TAKE y \in S
  <2>1. x \in Nat /\ y \in Nat
    OBVIOUS
  <2>2. ~(x < y)
    BY <1>1, <1>3, Zenon
  <2> QED
    BY <2>1, <2>2
<1> QED
  BY <1>4 DEF Max

(* The same for Min: a lower bound, and a member.                          *)
LEMMA MinOfSet ==
    ASSUME NEW S \in SUBSET Nat, IsFiniteSet(S), S # {}
    PROVE  Min(S) \in S /\ \A y \in S : Min(S) <= y
<1> DEFINE R == {p \in S \X S : p[1] > p[2]}
<1>1. \A x, y \in S : <<x, y>> \in R <=> x > y
  OBVIOUS
<1> HIDE DEF R
<1>2. \E x \in S : \A y \in S : <<x, y>> \notin R
  <2>1. \A x, y, z \in S : <<x, y>> \in R /\ <<y, z>> \in R => <<x, z>> \in R
    BY <1>1
  <2>2. \A x \in S : <<x, x>> \notin R
    BY <1>1
  <2> QED
    BY <2>1, <2>2, FiniteHasMaximal
<1>3. PICK x \in S : \A y \in S : <<x, y>> \notin R
  BY <1>2
<1>4. \A y \in S : x <= y
  <2> TAKE y \in S
  <2>1. x \in Nat /\ y \in Nat
    OBVIOUS
  <2>2. ~(x > y)
    BY <1>1, <1>3, Zenon
  <2> QED
    BY <2>1, <2>2
<1> QED
  BY <1>4 DEF Min

(* What one more number does to the bounds.                                *)
LEMMA MaxJoins ==
    ASSUME NEW S \in SUBSET Nat, IsFiniteSet(S), S # {}, NEW x \in Nat
    PROVE  Max(S \cup {x}) = Max({Max(S), x})
<1> DEFINE T == S \cup {x}
           U == {Max(S), x}
<1>1. IsFiniteSet(T) /\ IsFiniteSet(U)
  <2>1. U = {Max(S)} \cup {x} /\ IsFiniteSet({Max(S)})
    BY FS_Singleton
  <2> HIDE DEF U
  <2> QED
    BY <2>1, FS_AddElement
<1>2. Max(S) \in S /\ \A y \in S : Max(S) >= y
  BY MaxOfSet
<1>3. Max(T) \in T /\ \A y \in T : Max(T) >= y
  BY <1>1, MaxOfSet
<1>4. Max(U) \in U /\ \A y \in U : Max(U) >= y
  <2>1. U \in SUBSET Nat /\ U # {}
    BY <1>2
  <2> HIDE DEF U
  <2> QED
    BY <1>1, <2>1, MaxOfSet
<1> HIDE DEF T, U
<1>5. Max(T) \in Nat /\ Max(U) \in Nat /\ Max(S) \in Nat
  BY <1>2, <1>3, <1>4 DEF T, U
<1>6. Max(U) >= Max(T)
  BY <1>2, <1>3, <1>4, <1>5 DEF T, U
<1>7. Max(T) >= Max(U)
  BY <1>2, <1>3, <1>4, <1>5 DEF T, U
<1> QED
  BY <1>5, <1>6, <1>7 DEF T, U

(* One more number joins the set: the least of both.                       *)
LEMMA MinJoins ==
    ASSUME NEW S \in SUBSET Nat, IsFiniteSet(S), S # {}, NEW x \in Nat
    PROVE  Min(S \cup {x}) = Min({Min(S), x})
<1> DEFINE T == S \cup {x}
           U == {Min(S), x}
<1>1. IsFiniteSet(T) /\ IsFiniteSet(U)
  <2>1. U = {Min(S)} \cup {x} /\ IsFiniteSet({Min(S)})
    BY FS_Singleton
  <2> HIDE DEF U
  <2> QED
    BY <2>1, FS_AddElement
<1>2. Min(S) \in S /\ \A y \in S : Min(S) <= y
  BY MinOfSet
<1>3. Min(T) \in T /\ \A y \in T : Min(T) <= y
  BY <1>1, MinOfSet
<1>4. Min(U) \in U /\ \A y \in U : Min(U) <= y
  <2>1. U \in SUBSET Nat /\ U # {}
    BY <1>2
  <2> HIDE DEF U
  <2> QED
    BY <1>1, <2>1, MinOfSet
<1> HIDE DEF T, U
<1>5. Min(T) \in Nat /\ Min(U) \in Nat /\ Min(S) \in Nat
  BY <1>2, <1>3, <1>4 DEF T, U
<1>6. Min(U) <= Min(T)
  BY <1>2, <1>3, <1>4, <1>5 DEF T, U
<1>7. Min(T) <= Min(U)
  BY <1>2, <1>3, <1>4, <1>5 DEF T, U
<1> QED
  BY <1>5, <1>6, <1>7 DEF T, U

(* Max of two numbers is the greater.                                      *)
LEMMA MaxOfTwo ==
    ASSUME NEW x \in Nat, NEW y \in Nat
    PROVE  Max({x, y}) = IF x >= y THEN x ELSE y
<1>1. \E m \in {x, y} : \A z \in {x, y} : m >= z
  OBVIOUS
<1> QED
  BY <1>1 DEF Max

(* Min of two numbers is the lesser.                                       *)
LEMMA MinOfTwo ==
    ASSUME NEW x \in Nat, NEW y \in Nat
    PROVE  Min({x, y}) = IF x <= y THEN x ELSE y
<1>1. \E m \in {x, y} : \A z \in {x, y} : m <= z
  OBVIOUS
<1> QED
  BY <1>1 DEF Min
-----------------------------------------------------------------------------
(* The case _latest picks is one of the candidates, and none of them was   *)
(* active later.                                                           *)
LEMMA LatestIsLast ==
    ASSUME TypeOK, NEW C \in SUBSET DOMAIN cases, C # {}
    PROVE  Latest(C) \in C /\ \A j \in C : cases[j].lastSeen <= cases[Latest(C)].lastSeen
<1> DEFINE later(i, j) == cases[j].lastSeen > cases[i].lastSeen
                          \/ (cases[j].lastSeen = cases[i].lastSeen /\ j < i)
           R == {p \in C \X C : later(p[1], p[2])}
<1>0. C \in SUBSET (1..Len(cases)) /\ Len(cases) \in Nat
  BY LenProperties DEF TypeOK
<1>1. \A i \in C : i \in Nat /\ cases[i].lastSeen \in Nat
  <2> TAKE i \in C
  <2>1. i \in Nat /\ cases[i] \in Case
    BY <1>0, ElementOfSeq DEF TypeOK
  <2>2. cases[i].lastSeen \in Times
    BY <2>1 DEF Case
  <2> QED
    BY <2>1, <2>2, CorrelatorAssumption
<1>2. \A i, j \in C : <<i, j>> \in R <=> later(i, j)
  OBVIOUS
<1>3. IsFiniteSet(C)
  BY <1>0, FS_Interval, FS_Subset
<1> HIDE DEF R
<1>4. \E i \in C : \A j \in C : <<i, j>> \notin R
  <2>1. \A i, j, k \in C : <<i, j>> \in R /\ <<j, k>> \in R => <<i, k>> \in R
    BY <1>1, <1>2
  <2>2. \A i \in C : <<i, i>> \notin R
    BY <1>1, <1>2
  <2> QED
    BY <1>3, <2>1, <2>2, FiniteHasMaximal
<1>5. PICK i \in C : \A j \in C : <<i, j>> \notin R
  BY <1>4
<1>6. \A j \in C :
         cases[i].lastSeen > cases[j].lastSeen \/ (cases[i].lastSeen = cases[j].lastSeen /\ i <= j)
  <2> TAKE j \in C
  <2>1. i \in Nat /\ j \in Nat /\ cases[i].lastSeen \in Nat /\ cases[j].lastSeen \in Nat
    BY <1>1
  <2>2. ~later(i, j)
    BY <1>2, <1>5
  <2> QED
    BY <2>1, <2>2
<1>7. /\ Latest(C) \in C
      /\ \A j \in C : \/ cases[Latest(C)].lastSeen > cases[j].lastSeen
                      \/ (cases[Latest(C)].lastSeen = cases[j].lastSeen /\ Latest(C) <= j)
  BY <1>6 DEF Latest
<1> QED
  BY <1>1, <1>7
-----------------------------------------------------------------------------
(* A stored case is a case and keeps one to Retention occurrences.         *)
LEMMA StoredCase ==
    ASSUME TypeOK, NEW i \in DOMAIN cases
    PROVE  /\ cases[i] \in Case /\ i \in 1..Len(cases) /\ i \in Nat
           /\ cases[i].occurrences \in Seq(Detection)
           /\ Len(cases[i].occurrences) \in 1..Retention
           /\ cases[i].score \in Nat /\ cases[i].count \in Nat
           /\ cases[i].firstSeen \in Times /\ cases[i].firstSeen \in Nat
           /\ cases[i].lastSeen \in Times /\ cases[i].lastSeen \in Nat
           /\ cases[i].opened \in Times /\ cases[i].opened \in Nat
<1>1. i \in 1..Len(cases) /\ Len(cases) \in Nat
  BY LenProperties DEF TypeOK
<1>2. cases[i] \in Case
  BY <1>1, ElementOfSeq DEF TypeOK
<1>3. /\ cases[i].occurrences \in Seq(Detection) /\ cases[i].score \in Nat /\ cases[i].count \in Nat
      /\ cases[i].firstSeen \in Times /\ cases[i].lastSeen \in Times /\ cases[i].opened \in Times
  BY <1>2 DEF Case
<1>4. Len(cases[i].occurrences) \in 1..Retention
  BY DEF TypeOK
<1>5. cases[i].firstSeen \in Nat /\ cases[i].lastSeen \in Nat /\ cases[i].opened \in Nat
  BY <1>3, CorrelatorAssumption
<1>6. i \in Nat
  BY <1>1
<1> QED
  BY <1>1, <1>2, <1>3, <1>4, <1>5, <1>6

(* A window's close time and score are numbers.                            *)
LEMMA WindowType ==
    ASSUME NEW d \in Detection
    PROVE  /\ d.id \in 1..MaxWindows /\ d.family \in Families /\ d.modality \in Modality
           /\ d.score \in Nat /\ d.at \in Times /\ d.at \in Nat
BY CorrelatorAssumption DEF Detection

(* The composite of any evidence is a number.                              *)
LEMMA CompositeType ==
    ASSUME NEW o \in Seq(Detection), o # <<>>
    PROVE  Composite(o) \in Nat
<1>1. DOMAIN o = 1..Len(o) /\ Len(o) \in Nat \ {0}
  BY LenProperties, EmptySeq
<1>2. ASSUME NEW m \in ModalitiesOf(o) PROVE BestScore(o, m) \in Nat
  <2> DEFINE I == {j \in DOMAIN o : o[j].modality = m}
             S == {o[i].score : i \in I}
  <2>1. PICK j \in DOMAIN o : o[j].modality = m
    BY DEF ModalitiesOf
  <2>2. S \in SUBSET Nat
    <3> SUFFICES ASSUME NEW i \in I PROVE o[i].score \in Nat
      OBVIOUS
    <3>1. o[i] \in Detection
      BY <1>1, ElementOfSeq
    <3> QED
      BY <3>1, WindowType
  <2>3. S # {}
    BY <2>1
  <2>4. IsFiniteSet(S)
    <3>0. I \in SUBSET (1..Len(o))
      BY <1>1
    <3>1. IsFiniteSet(I)
      <4> HIDE DEF I
      <4>1. IsFiniteSet(1..Len(o))
        BY <1>1, FS_Interval
      <4> QED
        BY <3>0, <4>1, FS_Subset
    <3> DEFINE f == [i \in I |-> o[i].score]
    <3>2. f \in Surjection(I, S)
      BY DEF Surjection
    <3> HIDE DEF I, S, f
    <3> QED
      BY <3>1, <3>2, FS_Surjection
  <2>5. BestScore(o, m) = Max(S)
    BY DEF BestScore
  <2> HIDE DEF S
  <2> QED
    BY <2>2, <2>3, <2>4, <2>5, MaxOfSet
<1>3. ModalitiesOf(o) # {}
  <2>1. 1 \in DOMAIN o
    BY <1>1
  <2>2. o[1].modality \in ModalitiesOf(o)
    BY <2>1 DEF ModalitiesOf
  <2> QED
    BY <2>2
<1>4. CASE ModalitiesOf(o) = Modality
  <2>1. BestScore(o, "flow") \in Nat /\ BestScore(o, "log") \in Nat
    BY <1>2, <1>4 DEF Modality
  <2> QED
    BY <1>4, <2>1 DEF Composite
<1>5. CASE ModalitiesOf(o) # Modality
  <2>1. (CHOOSE m \in ModalitiesOf(o) : TRUE) \in ModalitiesOf(o)
    BY <1>3
  <2>2. BestScore(o, CHOOSE m \in ModalitiesOf(o) : TRUE) \in Nat
    BY <1>2, <2>1
  <2> QED
    BY <1>5, <2>2 DEF Composite
<1> QED
  BY <1>4, <1>5

(* Occurrences that are the new window and some of those before it.        *)
Retains(o, before, d) ==
    /\ Len(o) \in 1..Retention
    /\ \A k \in DOMAIN o : o[k] = d \/ \E j \in DOMAIN before : o[k] = before[j]
    /\ \E k \in DOMAIN o : o[k] = d

(* What a case retains of its occurrences and one more: the new one and    *)
(* the latest before it.                                                   *)
LEMMA TrimmedKeepsNewest ==
    ASSUME NEW o \in Seq(Detection), NEW d \in Detection
    PROVE  Trimmed(Append(o, d)) \in Seq(Detection) /\ Retains(Trimmed(Append(o, d)), o, d)
<1> DEFINE u == Append(o, d)
           n == Len(u)
           a == n - Retention + 1
           m == Max({1, a})
           t == Trimmed(u)
<1>1. /\ u \in Seq(Detection) /\ n = Len(o) + 1 /\ Len(o) \in Nat /\ n \in Nat \ {0}
      /\ u[n] = d /\ \A j \in 1..Len(o) : u[j] = o[j]
      /\ DOMAIN o = 1..Len(o) /\ DOMAIN u = 1..n
  BY AppendProperties, LenProperties
<1>2. m \in 1..n /\ n - m + 1 <= Retention
  <2>1. Retention \in Nat \ {0}
    BY CorrelatorAssumption
  <2>2. a \in Int /\ a <= n
    BY <1>1, <2>1
  <2> HIDE DEF a, n
  <2>3. \E x \in {1, a} : \A y \in {1, a} : x >= y
    BY <2>2
  <2>4. m \in {1, a} /\ m >= 1 /\ m >= a
    BY <2>3 DEF Max
  <2>5. a = n - Retention + 1
    BY DEF a
  <2> HIDE DEF m
  <2> QED
    BY <1>1, <2>1, <2>2, <2>4, <2>5
<1>3. t = SubSeq(u, m, n)
  BY DEF Trimmed
<1> HIDE DEF u, n, m
<1>4. /\ t \in Seq(Detection) /\ Len(t) = n - m + 1
      /\ \A k \in 1..(n - m + 1) : t[k] = u[m + k - 1]
  <2>1. m \in 1..(n + 1) /\ n \in m - 1..n /\ n = Len(u)
    BY <1>1, <1>2 DEF n
  <2> QED
    BY <1>1, <1>2, <1>3, <2>1, SubSeqProperties
<1> HIDE DEF t
<1>5. Len(t) \in 1..Retention /\ DOMAIN t = 1..Len(t)
  BY <1>1, <1>2, <1>4, LenProperties, CorrelatorAssumption
<1>6. t[n - m + 1] = d /\ n - m + 1 \in DOMAIN t
  BY <1>1, <1>2, <1>4, <1>5, SMTT(30)
<1>7. ASSUME NEW k \in DOMAIN t PROVE t[k] = d \/ \E j \in DOMAIN o : t[k] = o[j]
  <2>1. k \in 1..(n - m + 1) /\ t[k] = u[m + k - 1] /\ m + k - 1 \in 1..n
    <3>1. k \in 1..(n - m + 1)
      BY <1>4, <1>5
    <3>2. t[k] = u[m + k - 1]
      BY <1>4, <3>1
    <3>3. m + k - 1 \in 1..n
      BY <1>1, <1>2, <3>1
    <3> QED
      BY <3>1, <3>2, <3>3
  <2>2. m + k - 1 = n \/ m + k - 1 \in DOMAIN o
    BY <1>1, <2>1
  <2> QED
    BY <1>1, <2>1, <2>2
<1> QED
  BY <1>4, <1>5, <1>6, <1>7 DEF t, u, Retains

(* A case once grouped stays grouped.                                      *)
StaysGrouped(old, c) == old.grouped => c.grouped

(* What _merge makes of a case, grouping or not.                           *)
MergesOf(i, d) == {Merged(cases[i], d, TRUE), Merged(cases[i], d, FALSE)}

(* A merge counts one more window, keeps the score it had or more, its     *)
(* label and its families, and widens what it spans.                       *)
LEMMA MergedCase ==
    ASSUME TypeOK, NEW i \in DOMAIN cases, NEW d \in Detection, NEW c \in MergesOf(i, d)
    PROVE  /\ c \in Case /\ Retains(c.occurrences, cases[i].occurrences, d)
           /\ c.count = cases[i].count + 1 /\ c.score >= cases[i].score
           /\ c.family = cases[i].family /\ cases[i].families \subseteq c.families
           /\ c.opened = cases[i].opened /\ StaysGrouped(cases[i], c)
           /\ c.firstSeen = Min({cases[i].firstSeen, d.at})
           /\ c.lastSeen = Max({cases[i].lastSeen, d.at})
<1> DEFINE old == cases[i]
           o == Trimmed(Append(old.occurrences, d))
<1>0. PICK g \in BOOLEAN : c = Merged(old, d, g)
  BY DEF MergesOf
<1>1. o \in Seq(Detection) /\ Retains(o, old.occurrences, d)
  BY StoredCase, TrimmedKeepsNewest
<1>2. old \in Case /\ old.score \in Nat /\ old.count \in Nat /\ old.firstSeen \in Times
      /\ old.lastSeen \in Times /\ old.firstSeen \in Nat /\ old.lastSeen \in Nat
  BY StoredCase
<1>3. d.family \in Families /\ d.at \in Times /\ d.at \in Nat
  BY WindowType
<1>4. Composite(o) \in Nat
  <2>1. o # <<>>
    BY <1>1, EmptySeq DEF Retains
  <2> HIDE DEF o
  <2> QED
    BY <1>1, <2>1, CompositeType
<1>5. PeakScore(old, o) \in Nat /\ PeakScore(old, o) >= old.score
  <2> HIDE DEF o, old
  <2> QED
    BY <1>2, <1>4, MaxOfTwo DEF PeakScore
<1>6. Min({old.firstSeen, d.at}) \in Times /\ LastSeen(old, d) \in Times
  <2> HIDE DEF old
  <2> QED
    BY <1>2, <1>3, MaxOfTwo, MinOfTwo DEF LastSeen
<1>7. c = [old EXCEPT !.families = @ \cup {d.family}, !.score = PeakScore(old, o),
                      !.firstSeen = Min({@, d.at}), !.lastSeen = LastSeen(old, d),
                      !.count = @ + 1, !.partial = Partial(o), !.grouped = @ \/ g,
                      !.occurrences = o]
  BY <1>0 DEF Merged
<1>8. Partial(o) \in BOOLEAN
  BY DEF Partial
<1> HIDE DEF o, old
<1>9. /\ c.families = old.families \cup {d.family} /\ c.score = PeakScore(old, o)
      /\ c.firstSeen = Min({old.firstSeen, d.at}) /\ c.lastSeen = LastSeen(old, d)
      /\ c.count = old.count + 1 /\ c.grouped = (old.grouped \/ g) /\ c.occurrences = o
      /\ c.family = old.family /\ c.opened = old.opened
  BY <1>2, <1>7 DEF Case
<1>10. c \in Case
  <2>1. old.families \cup {d.family} \in SUBSET Families /\ (old.grouped \/ g) \in BOOLEAN
        /\ old.count + 1 \in Nat
    BY <1>2, <1>3 DEF Case
  <2>2. Min({old.firstSeen, d.at}) \in Times
    BY <1>6
  <2> QED
    BY <1>1, <1>2, <1>5, <1>6, <1>7, <1>8, <2>1, ZenonT(60) DEF Case
<1>11. StaysGrouped(old, c)
  BY <1>9 DEF StaysGrouped
<1> QED
  BY <1>1, <1>5, <1>9, <1>10, <1>11 DEF old, LastSeen

(* What _create makes of a window.                                         *)
LEMMA CreatedCase ==
    ASSUME NEW d \in Detection, NEW c, c = NewCase(d)
    PROVE  /\ c \in Case /\ c.occurrences = <<d>> /\ Retains(c.occurrences, <<>>, d)
           /\ c.count = 1 /\ c.family = d.family /\ c.family \in c.families
           /\ c.firstSeen = d.at /\ c.lastSeen = d.at /\ c.opened = d.at
<1>1. <<d>> \in Seq(Detection) /\ <<d>> # <<>> /\ Len(<<d>>) = 1 /\ DOMAIN <<d>> = {1} /\ <<d>>[1] = d
  OBVIOUS
<1>2. Composite(<<d>>) \in Nat
  BY <1>1, CompositeType
<1>3. Partial(<<d>>) \in BOOLEAN
  BY DEF Partial
<1>4. NewCase(d) \in Case
  BY <1>1, <1>2, <1>3, WindowType DEF NewCase, Case
<1>5. Retains(<<d>>, <<>>, d)
  BY <1>1, CorrelatorAssumption DEF Retains
<1> QED
  BY <1>1, <1>4, <1>5 DEF NewCase
-----------------------------------------------------------------------------
(* Saving a case replaces it or appends it, and touches no other.          *)
LEMMA SavedCase ==
    ASSUME TypeOK, NEW i \in 1..(Len(cases) + 1), NEW c \in Case, Save(i, c)
    PROVE  /\ cases' \in Seq(Case) /\ DOMAIN cases = 1..Len(cases) /\ Len(cases) \in Nat
           /\ DOMAIN cases' = 1..Len(cases')
           /\ Len(cases') = IF i \in DOMAIN cases THEN Len(cases) ELSE Len(cases) + 1
           /\ DOMAIN cases' = DOMAIN cases \cup {i} /\ cases'[i] = c
           /\ \A j \in DOMAIN cases : j # i => cases'[j] = cases[j]
<1>1. cases \in Seq(Case) /\ DOMAIN cases = 1..Len(cases) /\ Len(cases) \in Nat
  BY LenProperties DEF TypeOK
<1>2. CASE i \in DOMAIN cases
  <2>1. cases' = [cases EXCEPT ![i] = c]
    BY <1>2 DEF Save
  <2>2. cases' \in Seq(Case) /\ Len(cases') = Len(cases) /\ DOMAIN cases' = DOMAIN cases
        /\ cases'[i] = c /\ \A j \in DOMAIN cases : j # i => cases'[j] = cases[j]
    BY <1>1, <1>2, <2>1, ExceptSeq
  <2> QED
    BY <1>1, <1>2, <2>2
<1>3. CASE i \notin DOMAIN cases
  <2>0. i = Len(cases) + 1
    BY <1>1, <1>3
  <2>1. cases' = Append(cases, c)
    BY <1>3 DEF Save
  <2>2. cases' \in Seq(Case) /\ Len(cases') = Len(cases) + 1
        /\ cases'[Len(cases) + 1] = c /\ \A j \in 1..Len(cases) : cases'[j] = cases[j]
    BY <1>1, <2>1, AppendProperties
  <2>3. DOMAIN cases' = 1..Len(cases')
    BY <2>2, LenProperties
  <2> QED
    BY <1>1, <1>3, <2>0, <2>1, <2>2, <2>3
<1> QED
  BY <1>2, <1>3

(* The case a window is grouped with is the one active last of those the   *)
(* group window reaches.                                                   *)
LEMMA GroupedIsLatest ==
    ASSUME TypeOK, NEW d \in Detection, NEW i \in Groupable(d)
    PROVE  /\ i \in DOMAIN cases /\ cases[i].lastSeen >= d.at - GroupWindow
           /\ \A j \in DOMAIN cases :
                 cases[j].lastSeen >= d.at - GroupWindow => cases[j].lastSeen <= cases[i].lastSeen
<1> DEFINE active == ActiveSince(d.at - GroupWindow)
<1>1. active # {} /\ i = Latest(active)
  BY DEF Groupable
<1>2. active \in SUBSET DOMAIN cases
  BY DEF ActiveSince
<1> HIDE DEF active
<1>3. i \in active /\ \A j \in active : cases[j].lastSeen <= cases[i].lastSeen
  BY <1>1, <1>2, LatestIsLast
<1> QED
  BY <1>3 DEF active, ActiveSince

(* The case a window repeats shows its family, within the cool-down.       *)
LEMMA RepeatedIsActive ==
    ASSUME TypeOK, NEW d \in Detection, NEW i \in Repeatable(d)
    PROVE  /\ i \in DOMAIN cases /\ cases[i].lastSeen >= d.at - CoolDown
           /\ d.family \in cases[i].families
<1> DEFINE active == {j \in ActiveSince(d.at - CoolDown) : d.family \in cases[j].families}
<1>1. active # {} /\ i = Latest(active)
  BY DEF Repeatable
<1>2. active \in SUBSET DOMAIN cases
  BY DEF ActiveSince
<1> HIDE DEF active
<1>3. i \in active
  BY <1>1, <1>2, LatestIsLast
<1> QED
  BY <1>3 DEF active, ActiveSince

(* A window not yet indexed joins one case or opens one.                   *)
Joins(i, d) == /\ i \in DOMAIN cases
               /\ i \in Groupable(d) \/ i \in Repeatable(d)
               /\ \E c \in MergesOf(i, d) : Save(i, c)
Opens(i, d) == /\ i = Len(cases) + 1
               /\ Repeatable(d) = {}
               /\ Save(i, NewCase(d))

(* _correlate leaves a window the index knows alone and places any other.  *)
LEMMA NewWindowIsPlaced ==
    ASSUME TypeOK, NEW d \in Detection, Ingest(d)
    PROVE  \/ d.id \in DOMAIN evidence /\ UNCHANGED <<cases, evidence>>
           \/ d.id \notin DOMAIN evidence /\ \E i \in 1..(Len(cases) + 1) : Joins(i, d) \/ Opens(i, d)
<1>1. Len(cases) \in Nat /\ DOMAIN cases = 1..Len(cases)
  BY LenProperties DEF TypeOK
<1>2. CASE Duplicate(d)
  BY <1>2 DEF Duplicate
<1>3. CASE Group(d)
  <2>1. PICK i \in Groupable(d) : Save(i, Merged(cases[i], d, TRUE))
    BY <1>3 DEF Group
  <2>2. Joins(i, d) /\ i \in 1..(Len(cases) + 1)
    <3>1. i \in DOMAIN cases
      BY GroupedIsLatest
    <3>2. Merged(cases[i], d, TRUE) \in MergesOf(i, d)
      BY DEF MergesOf
    <3>3. Joins(i, d)
      BY <2>1, <3>1, <3>2 DEF Joins
    <3> QED
      BY <1>1, <3>1, <3>3
  <2> QED
    BY <1>3, <2>2 DEF Group
<1>4. CASE Absorb(d)
  <2>1. PICK i \in Repeatable(d) : Save(i, Merged(cases[i], d, FALSE))
    BY <1>4 DEF Absorb
  <2>2. Joins(i, d) /\ i \in 1..(Len(cases) + 1)
    <3>1. i \in DOMAIN cases
      BY RepeatedIsActive
    <3>2. Merged(cases[i], d, FALSE) \in MergesOf(i, d)
      BY DEF MergesOf
    <3>3. Joins(i, d)
      BY <2>1, <3>1, <3>2 DEF Joins
    <3> QED
      BY <1>1, <3>1, <3>3
  <2> QED
    BY <1>4, <2>2 DEF Absorb
<1>5. CASE Create(d)
  <2>1. Opens(Len(cases) + 1, d) /\ Len(cases) + 1 \in 1..(Len(cases) + 1)
    BY <1>1, <1>5 DEF Create, Opens
  <2> QED
    BY <1>5, <2>1 DEF Create
<1> QED
  BY <1>2, <1>3, <1>4, <1>5 DEF Ingest

(* Where the window was placed: the case, what it retains, the index.      *)
LEMMA PlacedWindow ==
    ASSUME TypeOK, NEW d \in Detection, NEW i \in 1..(Len(cases) + 1), Joins(i, d) \/ Opens(i, d)
    PROVE  /\ cases' \in Seq(Case) /\ DOMAIN cases' = DOMAIN cases \cup {i}
           /\ DOMAIN cases = 1..Len(cases) /\ DOMAIN cases' = 1..Len(cases')
           /\ Len(cases) \in Nat /\ Len(cases') \in Len(cases)..(Len(cases) + 1)
           /\ \A j \in DOMAIN cases : j # i => cases'[j] = cases[j]
           /\ Retains(cases'[i].occurrences,
                      IF i \in DOMAIN cases THEN cases[i].occurrences ELSE <<>>, d)
           /\ evidence' = Index(i, cases'[i])
<1>1. CASE Joins(i, d)
  <2>1. PICK c \in MergesOf(i, d) : Save(i, c)
    BY <1>1 DEF Joins
  <2>2. i \in DOMAIN cases
    BY <1>1 DEF Joins
  <2>3. c \in Case /\ Retains(c.occurrences, cases[i].occurrences, d)
    BY <2>2, MergedCase
  <2>4. Save(i, c)
    BY <2>1
  <2>5. evidence' = Index(i, c)
    BY <2>4 DEF Save
  <2>6. /\ cases' \in Seq(Case) /\ DOMAIN cases = 1..Len(cases) /\ Len(cases) \in Nat
        /\ DOMAIN cases' = 1..Len(cases')
        /\ Len(cases') = IF i \in DOMAIN cases THEN Len(cases) ELSE Len(cases) + 1
        /\ DOMAIN cases' = DOMAIN cases \cup {i} /\ cases'[i] = c
        /\ \A j \in DOMAIN cases : j # i => cases'[j] = cases[j]
    BY <2>3, <2>4, SavedCase
  <2> QED
    BY <2>2, <2>3, <2>5, <2>6
<1>2. CASE Opens(i, d)
  <2>0. PICK c : c = NewCase(d)
    OBVIOUS
  <2>3. c \in Case /\ Retains(c.occurrences, <<>>, d)
    BY <2>0, CreatedCase
  <2>4. Save(i, c)
    BY <1>2, <2>0 DEF Opens
  <2>5. evidence' = Index(i, c)
    BY <2>4 DEF Save
  <2>6. /\ cases' \in Seq(Case) /\ DOMAIN cases = 1..Len(cases) /\ Len(cases) \in Nat
        /\ DOMAIN cases' = 1..Len(cases')
        /\ Len(cases') = IF i \in DOMAIN cases THEN Len(cases) ELSE Len(cases) + 1
        /\ DOMAIN cases' = DOMAIN cases \cup {i} /\ cases'[i] = c
        /\ \A j \in DOMAIN cases : j # i => cases'[j] = cases[j]
    BY <2>3, <2>4, SavedCase
  <2>7. i \notin DOMAIN cases
    BY <1>2, <2>6 DEF Opens
  <2> QED
    BY <2>3, <2>5, <2>6, <2>7
<1> QED
  BY <1>1, <1>2

(* Whatever happens to a window, the cases and the index keep their types. *)
LEMMA IngestType ==
    ASSUME TypeOK, NEW d \in Detection, Ingest(d)
    PROVE  /\ cases' \in Seq(Case)
           /\ \A i \in DOMAIN cases' : Len(cases'[i].occurrences) \in 1..Retention
           /\ DOMAIN evidence' \subseteq 1..MaxWindows
           /\ \A e \in DOMAIN evidence' : evidence'[e] \in DOMAIN cases'
<1>1. CASE UNCHANGED <<cases, evidence>>
  BY <1>1 DEF TypeOK
<1>2. ASSUME NEW i \in 1..(Len(cases) + 1), Joins(i, d) \/ Opens(i, d)
      PROVE  /\ cases' \in Seq(Case)
             /\ \A j \in DOMAIN cases' : Len(cases'[j].occurrences) \in 1..Retention
             /\ DOMAIN evidence' \subseteq 1..MaxWindows
             /\ \A e \in DOMAIN evidence' : evidence'[e] \in DOMAIN cases'
  <2> DEFINE c == cases'[i]
             before == IF i \in DOMAIN cases THEN cases[i].occurrences ELSE <<>>
  <2>1. /\ cases' \in Seq(Case) /\ DOMAIN cases' = DOMAIN cases \cup {i}
        /\ \A j \in DOMAIN cases : j # i => cases'[j] = cases[j]
        /\ Retains(c.occurrences, before, d) /\ evidence' = Index(i, c)
    BY <1>2, PlacedWindow
  <2>2. before \in Seq(Detection)
    BY StoredCase
  <2> HIDE DEF c, before
  <2>3. \A k \in DOMAIN c.occurrences : c.occurrences[k].id \in 1..MaxWindows
    <3> TAKE k \in DOMAIN c.occurrences
    <3>1. c.occurrences[k] \in Detection
      BY <2>1, <2>2, ElementOfSeq, LenProperties, ZenonT(60) DEF Retains
    <3> QED
      BY <3>1, WindowType
  <2>4. DOMAIN evidence' = DOMAIN evidence \cup {c.occurrences[k].id : k \in DOMAIN c.occurrences}
    BY <2>1 DEF Index
  <2>5. DOMAIN evidence' \subseteq 1..MaxWindows
    BY <2>3, <2>4 DEF TypeOK
  <2>6. ASSUME NEW e \in DOMAIN evidence' PROVE evidence'[e] \in DOMAIN cases'
    <3>1. evidence'[e] = IF \E k \in DOMAIN c.occurrences : c.occurrences[k].id = e THEN i ELSE evidence[e]
      BY <2>1, <2>4 DEF Index
    <3>2. (\E k \in DOMAIN c.occurrences : c.occurrences[k].id = e) \/ e \in DOMAIN evidence
      BY <2>4
    <3>3. e \in DOMAIN evidence => evidence[e] \in DOMAIN cases
      BY DEF TypeOK
    <3> QED
      BY <2>1, <3>1, <3>2, <3>3
  <2>7. ASSUME NEW j \in DOMAIN cases' PROVE Len(cases'[j].occurrences) \in 1..Retention
    BY <2>1 DEF Retains, c, TypeOK
  <2> QED
    BY <2>1, <2>5, <2>6, <2>7
<1> QED
  BY <1>1, <1>2, NewWindowIsPlaced

(* Every variable of the correlator keeps its type: a case keeps between   *)
(* one and Retention occurrences, and the index names existing cases only. *)
THEOREM TypeCorrect == Spec => []TypeOK
<1>1. Init => TypeOK
  <2> SUFFICES ASSUME Init PROVE TypeOK
    OBVIOUS
  <2>1. DOMAIN <<>> = {} /\ Len(<<>>) = 0
    OBVIOUS
  <2> QED
    BY <2>1, CorrelatorAssumption DEF Init, TypeOK
<1>2. TypeOK /\ [Next]_vars => TypeOK'
  <2> SUFFICES ASSUME TypeOK, [Next]_vars PROVE TypeOK'
    OBVIOUS
  <2>1. ASSUME NEW d \in Detection, Deliver(d) PROVE TypeOK'
    <3>1. /\ Ingest(d) /\ delivered' = Append(delivered, d) /\ Len(delivered) < MaxWindows
      BY <2>1 DEF Deliver
    <3>2. inOrder' \in BOOLEAN
      BY <2>1 DEF Deliver
    <3>3. delivered' \in Seq(Detection) /\ Len(delivered') <= MaxWindows
      <4>1. delivered' \in Seq(Detection) /\ Len(delivered') = Len(delivered) + 1 /\ Len(delivered) \in Nat
        BY <3>1, AppendProperties, LenProperties DEF TypeOK
      <4> QED
        BY <3>1, <4>1, CorrelatorAssumption
    <3> QED
      BY <3>1, <3>2, <3>3, IngestType DEF TypeOK
  <2>2. ASSUME NEW n \in DOMAIN delivered, Replay(n) PROVE TypeOK'
    <3>1. delivered[n] \in Detection
      BY ElementOfSeq, LenProperties DEF TypeOK
    <3>2. Ingest(delivered[n]) /\ UNCHANGED <<delivered, inOrder>>
      BY <2>2 DEF Replay
    <3> QED
      BY <3>1, <3>2, IngestType DEF TypeOK
  <2>3. CASE UNCHANGED vars
    BY <2>3 DEF vars, TypeOK
  <2> QED
    BY <2>1, <2>2, <2>3 DEF Next
<1> QED
  BY <1>1, <1>2, PTL DEF Spec
-----------------------------------------------------------------------------
(* The index holds exactly the windows delivered, known by their position, *)
(* and what a case retains is indexed under that case.                     *)
IdsInv ==
    /\ Len(cases) <= Len(delivered)
    /\ DOMAIN evidence = 1..Len(delivered)
    /\ \A e \in DOMAIN delivered : delivered[e].id = e
    /\ \A i \in DOMAIN cases : \A k \in DOMAIN cases[i].occurrences :
          LET e == cases[i].occurrences[k].id IN e \in DOMAIN evidence /\ evidence[e] = i

(* A window delivered again is a duplicate, whatever was evicted since.    *)
LEMMA ReplayIsDuplicate ==
    ASSUME TypeOK, IdsInv, NEW n \in DOMAIN delivered, Replay(n)
    PROVE  UNCHANGED vars
<1>1. delivered[n] \in Detection /\ n \in 1..Len(delivered)
  BY ElementOfSeq, LenProperties DEF TypeOK
<1>2. delivered[n].id \in DOMAIN evidence
  BY <1>1 DEF IdsInv
<1>3. UNCHANGED <<cases, evidence>>
  BY <1>1, <1>2, NewWindowIsPlaced DEF Replay
<1> QED
  BY <1>3 DEF Replay, vars

(* A new window is placed in one case and indexed under it; nothing else   *)
(* moves in the index.                                                     *)
LEMMA DeliveredWindow ==
    ASSUME TypeOK, IdsInv, NEW d \in Detection, Deliver(d)
    PROVE  /\ d.id = Len(delivered) + 1 /\ d.id \notin DOMAIN evidence
           /\ delivered \in Seq(Detection) /\ Len(delivered) \in Nat
           /\ delivered' = Append(delivered, d) /\ Len(delivered') = Len(delivered) + 1
           /\ DOMAIN delivered = 1..Len(delivered) /\ DOMAIN delivered' = 1..Len(delivered')
           /\ \A e \in DOMAIN delivered : delivered'[e] = delivered[e]
           /\ delivered'[d.id] = d
           /\ \E i \in 1..(Len(cases) + 1) :
                 /\ Joins(i, d) \/ Opens(i, d)
                 /\ DOMAIN evidence' = DOMAIN evidence \cup {d.id} /\ evidence'[d.id] = i
                 /\ \A e \in DOMAIN evidence : evidence'[e] = evidence[e]
<1>1. /\ d.id = Len(delivered) + 1 /\ Ingest(d) /\ delivered' = Append(delivered, d)
  BY DEF Deliver
<1>2. delivered \in Seq(Detection) /\ Len(delivered) \in Nat /\ DOMAIN delivered = 1..Len(delivered)
  BY LenProperties DEF TypeOK
<1>3. d.id \notin DOMAIN evidence
  BY <1>1, <1>2 DEF IdsInv
<1>4. /\ Len(delivered') = Len(delivered) + 1 /\ DOMAIN delivered' = 1..Len(delivered')
      /\ \A e \in DOMAIN delivered : delivered'[e] = delivered[e]
      /\ delivered'[d.id] = d
  BY <1>1, <1>2, AppendProperties, LenProperties
<1>5. PICK i \in 1..(Len(cases) + 1) : Joins(i, d) \/ Opens(i, d)
  BY <1>1, <1>3, NewWindowIsPlaced
<1> DEFINE c == cases'[i]
           before == IF i \in DOMAIN cases THEN cases[i].occurrences ELSE <<>>
<1>6. Retains(c.occurrences, before, d) /\ evidence' = Index(i, c)
  BY <1>5, PlacedWindow
<1>7. \A k \in DOMAIN before : before[k].id \in DOMAIN evidence /\ evidence[before[k].id] = i
  BY DEF IdsInv
<1> HIDE DEF c, before
<1>8. /\ \A k \in DOMAIN c.occurrences :
            \/ c.occurrences[k].id = d.id
            \/ c.occurrences[k].id \in DOMAIN evidence /\ evidence[c.occurrences[k].id] = i
      /\ \E k \in DOMAIN c.occurrences : c.occurrences[k].id = d.id
  BY <1>6, <1>7 DEF Retains
<1>9. DOMAIN evidence' = DOMAIN evidence \cup {d.id}
  <2>1. DOMAIN evidence' = DOMAIN evidence \cup {c.occurrences[k].id : k \in DOMAIN c.occurrences}
    BY <1>6 DEF Index
  <2> QED
    BY <1>8, <2>1
<1>10. \A e \in DOMAIN evidence' :
          evidence'[e] = IF \E k \in DOMAIN c.occurrences : c.occurrences[k].id = e THEN i ELSE evidence[e]
  BY <1>6 DEF Index
<1>11. evidence'[d.id] = i
  BY <1>8, <1>9, <1>10
<1>12. \A e \in DOMAIN evidence : evidence'[e] = evidence[e]
  BY <1>3, <1>8, <1>9, <1>10
<1> QED
  BY <1>1, <1>2, <1>3, <1>4, <1>5, <1>9, <1>11, <1>12

(* The index always holds what was delivered and what is retained.         *)
LEMMA IdsInvariant == Spec => []IdsInv
<1>1. Init => IdsInv
  <2> SUFFICES ASSUME Init PROVE IdsInv
    OBVIOUS
  <2>1. DOMAIN <<>> = {} /\ Len(<<>>) = 0 /\ 1..0 = {}
    OBVIOUS
  <2> QED
    BY <2>1 DEF Init, IdsInv
<1>2. TypeOK /\ IdsInv /\ [Next]_vars => IdsInv'
  <2> SUFFICES ASSUME TypeOK, IdsInv, [Next]_vars PROVE IdsInv'
    OBVIOUS
  <2>1. ASSUME NEW d \in Detection, Deliver(d) PROVE IdsInv'
    <3>1. /\ d.id = Len(delivered) + 1 /\ d.id \notin DOMAIN evidence /\ Len(delivered) \in Nat
          /\ Len(delivered') = Len(delivered) + 1
          /\ DOMAIN delivered = 1..Len(delivered) /\ DOMAIN delivered' = 1..Len(delivered')
          /\ \A e \in DOMAIN delivered : delivered'[e] = delivered[e]
          /\ delivered'[d.id] = d
      BY <2>1, DeliveredWindow
    <3>2. PICK i \in 1..(Len(cases) + 1) :
             /\ Joins(i, d) \/ Opens(i, d)
             /\ DOMAIN evidence' = DOMAIN evidence \cup {d.id} /\ evidence'[d.id] = i
             /\ \A e \in DOMAIN evidence : evidence'[e] = evidence[e]
      BY <2>1, DeliveredWindow
    <3> DEFINE before == IF i \in DOMAIN cases THEN cases[i].occurrences ELSE <<>>
    <3>3. /\ DOMAIN cases' = DOMAIN cases \cup {i}
          /\ Len(cases) \in Nat /\ Len(cases') \in Len(cases)..(Len(cases) + 1)
          /\ \A j \in DOMAIN cases : j # i => cases'[j] = cases[j]
          /\ Retains(cases'[i].occurrences, before, d)
      BY <3>2, PlacedWindow
    <3>4. Len(cases') <= Len(delivered')
      BY <3>1, <3>3 DEF IdsInv
    <3>5. DOMAIN evidence' = 1..Len(delivered')
      BY <3>1, <3>2 DEF IdsInv
    <3>6. \A e \in DOMAIN delivered' : delivered'[e].id = e
      <4> SUFFICES ASSUME NEW e \in DOMAIN delivered' PROVE delivered'[e].id = e
        OBVIOUS
      <4>1. e = d.id \/ e \in DOMAIN delivered
        BY <3>1
      <4> QED
        BY <3>1, <4>1 DEF IdsInv
    <3>7. ASSUME NEW j \in DOMAIN cases', NEW k \in DOMAIN cases'[j].occurrences
          PROVE  cases'[j].occurrences[k].id \in DOMAIN evidence'
                 /\ evidence'[cases'[j].occurrences[k].id] = j
      <4>1. CASE j # i
        <5>1. j \in DOMAIN cases /\ cases'[j] = cases[j]
          BY <3>3, <4>1
        <5>2. cases[j].occurrences[k].id \in DOMAIN evidence /\ evidence[cases[j].occurrences[k].id] = j
          BY <3>7, <5>1 DEF IdsInv
        <5> QED
          BY <3>2, <5>1, <5>2
      <4>2. CASE j = i
        <5> DEFINE x == cases'[i].occurrences[k]
        <5>1. x = d \/ \E m \in DOMAIN before : x = before[m]
          BY <3>3, <3>7, <4>2 DEF Retains
        <5>2. CASE x = d
          BY <3>2, <4>2, <5>2
        <5>3. ASSUME NEW m \in DOMAIN before, x = before[m]
              PROVE  x.id \in DOMAIN evidence' /\ evidence'[x.id] = i
          <6>1. i \in DOMAIN cases /\ before = cases[i].occurrences
            <7>1. DOMAIN <<>> = {}
              OBVIOUS
            <7> QED
              BY <5>3, <7>1
          <6>2. before[m].id \in DOMAIN evidence /\ evidence[before[m].id] = i
            BY <5>3, <6>1 DEF IdsInv
          <6> QED
            BY <3>2, <5>3, <6>2
        <5> QED
          BY <4>2, <5>1, <5>2, <5>3
      <4> QED
        BY <4>1, <4>2
    <3> QED
      BY <3>4, <3>5, <3>6, <3>7 DEF IdsInv
  <2>2. ASSUME NEW n \in DOMAIN delivered, Replay(n) PROVE IdsInv'
    BY <2>2, ReplayIsDuplicate DEF vars, IdsInv
  <2>3. CASE UNCHANGED vars
    BY <2>3 DEF vars, IdsInv
  <2> QED
    BY <2>1, <2>2, <2>3 DEF Next
<1> QED
  BY <1>1, <1>2, TypeCorrect, PTL DEF Spec
-----------------------------------------------------------------------------
(* NeverDeescalates: whatever is delivered, replayed or evicted, a case    *)
(* keeps the highest severity it showed, its label, its families and its   *)
(* grouping, although its composite is computed from what it retains.      *)
THEOREM Ratchets == Spec => NeverDeescalates
<1> DEFINE Kept == \A i \in DOMAIN cases :
                      /\ i \in DOMAIN cases'
                      /\ Severity(cases'[i].score) >= Severity(cases[i].score)
                      /\ cases[i].families \subseteq cases'[i].families
                      /\ cases'[i].family = cases[i].family
                      /\ cases[i].grouped => cases'[i].grouped
<1>1. TypeOK /\ [Next]_vars => [Kept]_vars
  <2> SUFFICES ASSUME TypeOK, Next PROVE Kept
    OBVIOUS
  <2>0. \A s \in Nat : Severity(s) \in Nat
    <3> TAKE s \in Nat
    <3>1. IsFiniteSet({b \in Bands : s >= b})
      BY CorrelatorAssumption, FS_Subset
    <3> QED
      BY <3>1, FS_CardinalityType DEF Severity
  <2>1. ASSUME NEW s \in Nat, NEW t \in Nat, t >= s PROVE Severity(t) >= Severity(s)
    <3> DEFINE A == {b \in Bands : s >= b}
               B == {b \in Bands : t >= b}
    <3>1. A \in SUBSET B
      <4>1. ASSUME NEW b \in Bands, s >= b PROVE t >= b
        <5>1. b \in Nat
          BY CorrelatorAssumption
        <5> QED
          BY <2>1, <4>1, <5>1
      <4> QED
        BY <4>1
    <3>2. IsFiniteSet(B)
      BY CorrelatorAssumption, FS_Subset
    <3>3. Cardinality(A) <= Cardinality(B)
      <4> HIDE DEF A, B
      <4> QED
        BY <3>1, <3>2, FS_Subset
    <3>4. Cardinality(A) = Severity(s) /\ Cardinality(B) = Severity(t)
      BY DEF Severity
    <3> HIDE DEF A, B
    <3> QED
      BY <2>0, <3>3, <3>4
  <2>2. ASSUME UNCHANGED cases PROVE Kept
    <3> SUFFICES ASSUME NEW i \in DOMAIN cases PROVE Severity(cases[i].score) >= Severity(cases[i].score)
      BY <2>2
    <3>1. cases[i].score \in Nat
      BY StoredCase
    <3> QED
      BY <2>1, <3>1
  <2>3. ASSUME NEW d \in Detection, Ingest(d) PROVE Kept
    <3>1. CASE UNCHANGED <<cases, evidence>>
      BY <2>2, <3>1
    <3>2. ASSUME NEW i \in 1..(Len(cases) + 1), Joins(i, d) PROVE Kept
      <4>1. PICK c \in MergesOf(i, d) : Save(i, c)
        BY <3>2 DEF Joins
      <4>2. i \in DOMAIN cases
        BY <3>2 DEF Joins
      <4>3. /\ c \in Case /\ c.score >= cases[i].score /\ c.family = cases[i].family
            /\ cases[i].families \subseteq c.families /\ StaysGrouped(cases[i], c)
        <5>1. c \in Case /\ c.score >= cases[i].score
          BY <4>2, MergedCase
        <5>2. c.family = cases[i].family /\ cases[i].families \subseteq c.families
          BY <4>2, MergedCase
        <5>3. StaysGrouped(cases[i], c)
          BY <4>2, MergedCase
        <5> QED
          BY <5>1, <5>2, <5>3
      <4>4. /\ DOMAIN cases' = DOMAIN cases \cup {i} /\ cases'[i] = c
            /\ \A j \in DOMAIN cases : j # i => cases'[j] = cases[j]
        BY <4>1, <4>3, SavedCase
      <4>5. c.score \in Nat
        BY <4>3 DEF Case
      <4> SUFFICES ASSUME NEW j \in DOMAIN cases
                   PROVE  /\ j \in DOMAIN cases'
                          /\ Severity(cases'[j].score) >= Severity(cases[j].score)
                          /\ cases[j].families \subseteq cases'[j].families
                          /\ cases'[j].family = cases[j].family
                          /\ cases[j].grouped => cases'[j].grouped
        OBVIOUS
      <4>6. cases[j].score \in Nat
        BY StoredCase
      <4>7. CASE j = i
        <5>1. Severity(c.score) >= Severity(cases[i].score)
          BY <2>1, <4>3, <4>5, <4>6, <4>7
        <5> QED
          BY <4>3, <4>4, <4>7, <5>1 DEF StaysGrouped
      <4>8. CASE j # i
        <5>1. Severity(cases[j].score) >= Severity(cases[j].score)
          BY <2>1, <4>6
        <5> QED
          BY <4>4, <4>8, <5>1
      <4> QED
        BY <4>7, <4>8
    <3>3. ASSUME NEW i \in 1..(Len(cases) + 1), Opens(i, d) PROVE Kept
      <4>1. /\ DOMAIN cases' = DOMAIN cases \cup {i} /\ DOMAIN cases = 1..Len(cases) /\ Len(cases) \in Nat
            /\ \A j \in DOMAIN cases : j # i => cases'[j] = cases[j]
        BY <3>3, PlacedWindow
      <4>2. \A j \in DOMAIN cases : j # i
        BY <3>3, <4>1 DEF Opens
      <4> SUFFICES ASSUME NEW j \in DOMAIN cases
                   PROVE  /\ j \in DOMAIN cases'
                          /\ Severity(cases'[j].score) >= Severity(cases[j].score)
                          /\ cases[j].families \subseteq cases'[j].families
                          /\ cases'[j].family = cases[j].family
                          /\ cases[j].grouped => cases'[j].grouped
        OBVIOUS
      <4>3. Severity(cases[j].score) >= Severity(cases[j].score)
        BY <2>1, StoredCase
      <4> QED
        BY <4>1, <4>2, <4>3
    <3> HIDE DEF Kept
    <3> QED
      BY <2>3, <3>1, <3>2, <3>3, NewWindowIsPlaced
  <2>4. ASSUME NEW d \in Detection, Deliver(d) PROVE Kept
    BY <2>3, <2>4 DEF Deliver
  <2>5. ASSUME NEW n \in DOMAIN delivered, Replay(n) PROVE Kept
    <3>1. delivered[n] \in Detection
      BY ElementOfSeq, LenProperties DEF TypeOK
    <3> QED
      BY <2>3, <2>5, <3>1 DEF Replay
  <2> HIDE DEF Kept
  <2> QED
    BY <2>4, <2>5 DEF Next
<1> QED
  BY <1>1, TypeCorrect, PTL DEF Spec, NeverDeescalates
-----------------------------------------------------------------------------
(* The close times of the windows a case has counted.                      *)
EvidenceTimes(i) == {delivered[e].at : e \in CountedIn(i)}

(* The close times of what a case has counted are finitely many numbers.   *)
LEMMA EvidenceTimesType ==
    ASSUME TypeOK, IdsInv, NEW i
    PROVE  EvidenceTimes(i) \in SUBSET Nat /\ IsFiniteSet(EvidenceTimes(i))
           /\ CountedIn(i) \subseteq DOMAIN delivered
<1>1. DOMAIN delivered = 1..Len(delivered) /\ Len(delivered) \in Nat
  BY LenProperties DEF TypeOK
<1>2. CountedIn(i) \in SUBSET (1..Len(delivered))
  BY DEF IdsInv, CountedIn
<1>3. \A e \in CountedIn(i) : delivered[e].at \in Nat
  <2> TAKE e \in CountedIn(i)
  <2>1. delivered[e] \in Detection
    BY <1>1, <1>2, ElementOfSeq DEF TypeOK
  <2> QED
    BY <2>1, WindowType
<1>4. IsFiniteSet(1..Len(delivered))
  BY <1>1, FS_Interval
<1>5. IsFiniteSet(CountedIn(i))
  BY <1>2, <1>4, FS_Subset
<1> DEFINE f == [e \in CountedIn(i) |-> delivered[e].at]
<1>6. f \in Surjection(CountedIn(i), EvidenceTimes(i))
  BY DEF Surjection, EvidenceTimes
<1> HIDE DEF f
<1>7. IsFiniteSet(EvidenceTimes(i))
  BY <1>5, <1>6, FS_Surjection
<1> QED
  BY <1>1, <1>2, <1>3, <1>7 DEF EvidenceTimes

(* A new window is counted in the case it was placed in, and in no other.  *)
LEMMA DeliveredCounts ==
    ASSUME TypeOK, IdsInv, NEW d \in Detection, Deliver(d)
    PROVE  \E i \in 1..(Len(cases) + 1) :
              /\ Joins(i, d) \/ Opens(i, d)
              /\ CountedIn(i)' = CountedIn(i) \cup {d.id}
              /\ EvidenceTimes(i)' = EvidenceTimes(i) \cup {d.at}
              /\ \A j \in Nat : j # i => /\ CountedIn(j)' = CountedIn(j)
                                         /\ EvidenceTimes(j)' = EvidenceTimes(j)
<1>1. /\ d.id = Len(delivered) + 1 /\ d.id \notin DOMAIN evidence /\ Len(delivered) \in Nat
      /\ DOMAIN delivered = 1..Len(delivered)
      /\ \A e \in DOMAIN delivered : delivered'[e] = delivered[e]
      /\ delivered'[d.id] = d
  BY DeliveredWindow
<1>2. PICK i \in 1..(Len(cases) + 1) :
         /\ Joins(i, d) \/ Opens(i, d)
         /\ DOMAIN evidence' = DOMAIN evidence \cup {d.id} /\ evidence'[d.id] = i
         /\ \A e \in DOMAIN evidence : evidence'[e] = evidence[e]
  BY DeliveredWindow
<1>3. CountedIn(i)' = CountedIn(i) \cup {d.id}
  BY <1>1, <1>2 DEF CountedIn
<1>4. ASSUME NEW j \in Nat, j # i PROVE CountedIn(j)' = CountedIn(j)
  BY <1>1, <1>2, <1>4 DEF CountedIn
<1>5. \A j \in Nat : \A e \in CountedIn(j) : delivered'[e] = delivered[e]
  BY <1>1, EvidenceTimesType
<1>6. \A j \in Nat : EvidenceTimes(j)' = {delivered'[e].at : e \in CountedIn(j)'}
  BY DEF EvidenceTimes
<1>7. EvidenceTimes(i)' = EvidenceTimes(i) \cup {d.at}
  BY <1>1, <1>3, <1>5, <1>6 DEF EvidenceTimes
<1>8. ASSUME NEW j \in Nat, j # i PROVE EvidenceTimes(j)' = EvidenceTimes(j)
  BY <1>4, <1>5, <1>6, <1>8 DEF EvidenceTimes
<1> QED
  BY <1>2, <1>3, <1>4, <1>7, <1>8

(* Every case has counted something, and spans it.                         *)
SpanInv == SpansItsEvidence /\ \A i \in DOMAIN cases : CountedIn(i) # {}

(* Every case spans what it has counted, evicted windows included.         *)
LEMMA SpanInvariant == Spec => []SpanInv
<1>1. Init => SpanInv
  <2> SUFFICES ASSUME Init PROVE SpanInv
    OBVIOUS
  <2>1. DOMAIN <<>> = {}
    OBVIOUS
  <2> QED
    BY <2>1 DEF Init, SpanInv, SpansItsEvidence
<1>2. TypeOK /\ IdsInv /\ SpanInv /\ [Next]_vars => SpanInv'
  <2> SUFFICES ASSUME TypeOK, IdsInv, SpanInv, [Next]_vars PROVE SpanInv'
    OBVIOUS
  <2>1. ASSUME NEW d \in Detection, Deliver(d) PROVE SpanInv'
    <3>1. PICK i \in 1..(Len(cases) + 1) :
              /\ Joins(i, d) \/ Opens(i, d)
              /\ CountedIn(i)' = CountedIn(i) \cup {d.id}
              /\ EvidenceTimes(i)' = EvidenceTimes(i) \cup {d.at}
              /\ \A j \in Nat : j # i => /\ CountedIn(j)' = CountedIn(j)
                                         /\ EvidenceTimes(j)' = EvidenceTimes(j)
      BY <2>1, DeliveredCounts
    <3>2. /\ DOMAIN cases' = DOMAIN cases \cup {i} /\ DOMAIN cases = 1..Len(cases) /\ Len(cases) \in Nat
          /\ \A j \in DOMAIN cases : j # i => cases'[j] = cases[j]
      BY <3>1, PlacedWindow
    <3>3. /\ EvidenceTimes(i) \in SUBSET Nat /\ IsFiniteSet(EvidenceTimes(i)) /\ d.at \in Nat
      BY EvidenceTimesType, WindowType
    <3>4. /\ cases'[i].firstSeen = Min(EvidenceTimes(i)')
          /\ cases'[i].lastSeen = Max(EvidenceTimes(i)')
      <4>1. CASE Joins(i, d)
        <5>1. PICK c \in MergesOf(i, d) : Save(i, c)
          BY <4>1 DEF Joins
        <5>2. i \in DOMAIN cases
          BY <4>1 DEF Joins
        <5>3. /\ c \in Case /\ c.firstSeen = Min({cases[i].firstSeen, d.at})
              /\ c.lastSeen = Max({cases[i].lastSeen, d.at})
          BY <5>2, MergedCase
        <5>4. cases'[i] = c
          BY <5>1, <5>3, SavedCase
        <5>5. cases[i].firstSeen = Min(EvidenceTimes(i)) /\ cases[i].lastSeen = Max(EvidenceTimes(i))
              /\ EvidenceTimes(i) # {}
          BY <5>2 DEF SpanInv, SpansItsEvidence, EvidenceTimes
        <5>6. Min(EvidenceTimes(i) \cup {d.at}) = Min({Min(EvidenceTimes(i)), d.at})
          BY <3>3, <5>5, MinJoins
        <5>7. Max(EvidenceTimes(i) \cup {d.at}) = Max({Max(EvidenceTimes(i)), d.at})
          BY <3>3, <5>5, MaxJoins
        <5>8. c.firstSeen = Min(EvidenceTimes(i)')
          BY <3>1, <5>3, <5>5, <5>6
        <5>9. c.lastSeen = Max(EvidenceTimes(i)')
          BY <3>1, <5>3, <5>5, <5>7
        <5> QED
          BY <5>4, <5>8, <5>9
      <4>2. CASE Opens(i, d)
        <5>1. NewCase(d) \in Case /\ NewCase(d).firstSeen = d.at /\ NewCase(d).lastSeen = d.at
          BY CreatedCase
        <5>2. cases'[i] = NewCase(d)
          BY <4>2, <5>1, SavedCase DEF Opens
        <5>3. CountedIn(i) = {}
          <6>1. i \notin DOMAIN cases
            BY <3>2, <4>2 DEF Opens
          <6> QED
            BY <6>1 DEF CountedIn, TypeOK
        <5>4. EvidenceTimes(i)' = {d.at}
          BY <3>1, <5>3 DEF EvidenceTimes
        <5>5. Min({d.at}) = d.at /\ Max({d.at}) = d.at
          <6>1. \A x \in Nat : Min({x}) = x /\ Max({x}) = x
            BY DEF Min, Max
          <6> QED
            BY <3>3, <6>1
        <5> QED
          BY <5>1, <5>2, <5>4, <5>5
      <4> QED
        BY <3>1, <4>1, <4>2
    <3> SUFFICES ASSUME NEW j \in DOMAIN cases'
                 PROVE  /\ cases'[j].firstSeen = Min(EvidenceTimes(j)')
                        /\ cases'[j].lastSeen = Max(EvidenceTimes(j)')
                        /\ CountedIn(j)' # {}
      BY DEF SpanInv, SpansItsEvidence, EvidenceTimes
    <3>5. CASE j = i
      BY <3>1, <3>4, <3>5
    <3>6. CASE j # i
      <4>1. j \in DOMAIN cases /\ j \in Nat
        BY <3>2, <3>6
      <4>2. /\ cases[j].firstSeen = Min(EvidenceTimes(j)) /\ cases[j].lastSeen = Max(EvidenceTimes(j))
            /\ CountedIn(j) # {}
        BY <4>1 DEF SpanInv, SpansItsEvidence, EvidenceTimes
      <4> QED
        BY <3>1, <3>2, <3>6, <4>1, <4>2
    <3> QED
      BY <3>5, <3>6
  <2>2. ASSUME NEW n \in DOMAIN delivered, Replay(n) PROVE SpanInv'
    BY <2>2, ReplayIsDuplicate DEF vars, SpanInv, SpansItsEvidence, CountedIn
  <2>3. CASE UNCHANGED vars
    BY <2>3 DEF vars, SpanInv, SpansItsEvidence, CountedIn
  <2> QED
    BY <2>1, <2>2, <2>3 DEF Next
<1> QED
  BY <1>1, <1>2, TypeCorrect, IdsInvariant, PTL DEF Spec

(* SpansItsEvidence: a case's first and last activity are those of the     *)
(* windows it ever counted, evicted ones included, in whatever order they  *)
(* came.                                                                   *)
THEOREM CasesSpanTheirEvidence == Spec => []SpansItsEvidence
BY SpanInvariant, PTL DEF SpanInv
-----------------------------------------------------------------------------
(* A case's label is one of its families, and it was active when a window  *)
(* opened it.                                                              *)
LabelInv ==
    \A i \in DOMAIN cases :
        /\ cases[i].family \in cases[i].families
        /\ cases[i].opened <= cases[i].lastSeen
        /\ \E e \in DOMAIN delivered : delivered[e].at = cases[i].opened

(* A case keeps its label among its families, and opened with a window.    *)
LEMMA LabelInvariant == Spec => []LabelInv
<1>1. Init => LabelInv
  <2> SUFFICES ASSUME Init PROVE LabelInv
    OBVIOUS
  <2>1. DOMAIN <<>> = {}
    OBVIOUS
  <2> QED
    BY <2>1 DEF Init, LabelInv
<1>2. TypeOK /\ IdsInv /\ LabelInv /\ [Next]_vars => LabelInv'
  <2> SUFFICES ASSUME TypeOK, IdsInv, LabelInv, [Next]_vars PROVE LabelInv'
    OBVIOUS
  <2>1. ASSUME NEW d \in Detection, Deliver(d) PROVE LabelInv'
    <3>1. /\ \A e \in DOMAIN delivered : e \in DOMAIN delivered' /\ delivered'[e] = delivered[e]
          /\ d.id \in DOMAIN delivered' /\ delivered'[d.id] = d
      <4>1. /\ d.id = Len(delivered) + 1 /\ Len(delivered) \in Nat
            /\ Len(delivered') = Len(delivered) + 1
            /\ DOMAIN delivered = 1..Len(delivered) /\ DOMAIN delivered' = 1..Len(delivered')
            /\ \A e \in DOMAIN delivered : delivered'[e] = delivered[e]
            /\ delivered'[d.id] = d
        BY <2>1, DeliveredWindow
      <4> QED
        BY <4>1
    <3>2. PICK i \in 1..(Len(cases) + 1) : Joins(i, d) \/ Opens(i, d)
      BY <2>1, DeliveredCounts
    <3>3. /\ DOMAIN cases' = DOMAIN cases \cup {i}
          /\ \A j \in DOMAIN cases : j # i => cases'[j] = cases[j]
      BY <3>2, PlacedWindow
    <3> SUFFICES ASSUME NEW j \in DOMAIN cases'
                 PROVE  /\ cases'[j].family \in cases'[j].families
                        /\ cases'[j].opened <= cases'[j].lastSeen
                        /\ \E e \in DOMAIN delivered' : delivered'[e].at = cases'[j].opened
      BY DEF LabelInv
    <3>4. ASSUME j # i PROVE j \in DOMAIN cases /\ cases'[j] = cases[j]
      BY <3>3, <3>4
    <3>5. CASE j # i
      BY <3>1, <3>4, <3>5 DEF LabelInv
    <3>6. CASE j = i /\ Joins(i, d)
      <4>1. PICK c \in MergesOf(i, d) : Save(i, c)
        BY <3>6 DEF Joins
      <4>2. i \in DOMAIN cases
        BY <3>6 DEF Joins
      <4>3. /\ c \in Case /\ c.family = cases[i].family /\ cases[i].families \subseteq c.families
            /\ c.opened = cases[i].opened /\ c.lastSeen = Max({cases[i].lastSeen, d.at})
        BY <4>2, MergedCase
      <4>4. cases'[i] = c
        BY <4>1, <4>3, SavedCase
      <4>5. /\ cases[i].family \in cases[i].families /\ cases[i].opened <= cases[i].lastSeen
            /\ \E e \in DOMAIN delivered : delivered[e].at = cases[i].opened
        BY <4>2 DEF LabelInv
      <4>6. cases[i].lastSeen \in Nat /\ cases[i].opened \in Nat /\ d.at \in Nat
        BY <4>2, StoredCase, WindowType
      <4>7. c.opened <= c.lastSeen
        BY <4>3, <4>5, <4>6, MaxOfTwo
      <4> QED
        BY <3>1, <3>6, <4>3, <4>4, <4>5, <4>7
    <3>7. CASE j = i /\ Opens(i, d)
      <4> DEFINE c == NewCase(d)
      <4>1. c \in Case /\ c.family \in c.families /\ c.opened = d.at /\ c.lastSeen = d.at
        BY CreatedCase
      <4> HIDE DEF c
      <4>2. cases'[i] = c
        BY <3>7, <4>1, SavedCase DEF Opens, c
      <4>3. d.at \in Nat
        BY WindowType
      <4> QED
        BY <3>1, <3>7, <4>1, <4>2, <4>3
    <3> QED
      BY <3>2, <3>5, <3>6, <3>7
  <2>2. ASSUME NEW n \in DOMAIN delivered, Replay(n) PROVE LabelInv'
    BY <2>2, ReplayIsDuplicate DEF vars, LabelInv
  <2>3. CASE UNCHANGED vars
    BY <2>3 DEF vars, LabelInv
  <2> QED
    BY <2>1, <2>2, <2>3 DEF Next
<1> QED
  BY <1>1, <1>2, TypeCorrect, IdsInvariant, PTL DEF Spec

(* OneCasePerCoolDown (FR-15): while windows arrive in order, two cases    *)
(* with one label are more than the cool-down apart, whatever families     *)
(* they took in since and however windows were grouped in between.         *)
THEOREM CasesApart == Spec => []OneCasePerCoolDown
<1>1. Init => OneCasePerCoolDown
  <2> SUFFICES ASSUME Init PROVE OneCasePerCoolDown
    OBVIOUS
  <2>1. DOMAIN <<>> = {}
    OBVIOUS
  <2> QED
    BY <2>1 DEF Init, OneCasePerCoolDown
<1>2. TypeOK /\ IdsInv /\ LabelInv /\ OneCasePerCoolDown /\ [Next]_vars => OneCasePerCoolDown'
  <2> SUFFICES ASSUME TypeOK, IdsInv, LabelInv, OneCasePerCoolDown, [Next]_vars
               PROVE  OneCasePerCoolDown'
    OBVIOUS
  <2>1. ASSUME NEW d \in Detection, Deliver(d) PROVE OneCasePerCoolDown'
    <3> SUFFICES ASSUME inOrder', NEW a \in DOMAIN cases', NEW b \in DOMAIN cases',
                        a < b, cases'[a].family = cases'[b].family
                 PROVE  cases'[a].lastSeen + CoolDown < cases'[b].opened
      BY DEF OneCasePerCoolDown
    <3>1. inOrder /\ \A e \in DOMAIN delivered : delivered[e].at <= d.at
      BY <2>1 DEF Deliver
    <3>2. PICK i \in 1..(Len(cases) + 1) : Joins(i, d) \/ Opens(i, d)
      BY <2>1, DeliveredCounts
    <3>3. /\ DOMAIN cases' = DOMAIN cases \cup {i}
          /\ \A j \in DOMAIN cases : j # i => cases'[j] = cases[j]
          /\ DOMAIN cases = 1..Len(cases) /\ Len(cases) \in Nat
      BY <3>2, PlacedWindow
    <3>4. d.at \in Nat /\ CoolDown \in Nat /\ GroupWindow \in Nat
      BY WindowType, CorrelatorAssumption
    <3>5. CASE Joins(i, d)
      <4>1. PICK c \in MergesOf(i, d) : Save(i, c)
        BY <3>5 DEF Joins
      <4>2. i \in DOMAIN cases
        BY <3>5 DEF Joins
      <4>3. /\ c \in Case /\ c.family = cases[i].family /\ c.opened = cases[i].opened
            /\ c.lastSeen = Max({cases[i].lastSeen, d.at})
        BY <4>2, MergedCase
      <4>4. cases'[i] = c
        BY <4>1, <4>3, SavedCase
      <4>5. a \in DOMAIN cases /\ b \in DOMAIN cases
        BY <3>3, <4>2
      <4>6. \A j \in DOMAIN cases : cases'[j].family = cases[j].family /\ cases'[j].opened = cases[j].opened
        BY <3>3, <4>3, <4>4
      <4>7. cases[a].lastSeen + CoolDown < cases[b].opened
        BY <3>1, <4>5, <4>6 DEF OneCasePerCoolDown
      <4>8. CASE a # i
        BY <3>3, <4>5, <4>6, <4>7, <4>8
      <4>9. CASE a = i
        <5>1. /\ cases[a].lastSeen \in Nat /\ cases[b].lastSeen \in Nat /\ cases[b].opened \in Nat
          BY <4>5, StoredCase
        <5>2. cases[b].opened <= cases[b].lastSeen /\ cases[b].opened <= d.at
          BY <3>1, <4>5 DEF LabelInv
        <5>3. i \notin Groupable(d)
          <6> SUFFICES ASSUME i \in Groupable(d) PROVE FALSE
            OBVIOUS
          <6>1. /\ cases[i].lastSeen >= d.at - GroupWindow
                /\ cases[b].lastSeen >= d.at - GroupWindow => cases[b].lastSeen <= cases[i].lastSeen
            BY <4>5, GroupedIsLatest
          <6>2. cases[a].lastSeen >= d.at - GroupWindow
            BY <4>9, <6>1
          <6>3. cases[a].lastSeen < cases[b].opened
            BY <3>4, <4>7, <5>1
          <6>4. cases[b].lastSeen > cases[a].lastSeen
            BY <5>1, <5>2, <6>3
          <6>5. cases[b].lastSeen >= d.at - GroupWindow
            BY <3>4, <5>1, <6>2, <6>4
          <6>6. cases[b].lastSeen <= cases[a].lastSeen
            BY <4>9, <6>1, <6>5
          <6> QED
            BY <5>1, <6>4, <6>6
        <5>4. i \notin Repeatable(d)
          <6> SUFFICES ASSUME i \in Repeatable(d) PROVE FALSE
            OBVIOUS
          <6>1. cases[i].lastSeen >= d.at - CoolDown
            BY RepeatedIsActive
          <6> QED
            BY <3>4, <4>7, <4>9, <5>1, <5>2, <6>1
        <5> QED
          BY <3>5, <5>3, <5>4 DEF Joins
      <4> QED
        BY <4>8, <4>9
    <3>6. CASE Opens(i, d)
      <4> DEFINE c == NewCase(d)
      <4>1. c \in Case /\ c.family = d.family /\ c.opened = d.at
        BY CreatedCase
      <4> HIDE DEF c
      <4>2. cases'[i] = c /\ i = Len(cases) + 1 /\ Repeatable(d) = {}
        BY <3>6, <4>1, SavedCase DEF Opens, c
      <4>3. a \in DOMAIN cases /\ a # i
        BY <3>3, <4>2
      <4>4. CASE b # i
        BY <3>1, <3>3, <4>3, <4>4 DEF OneCasePerCoolDown
      <4>5. CASE b = i
        <5>1. cases[a].family = d.family /\ cases'[a] = cases[a]
          BY <3>3, <4>1, <4>2, <4>3, <4>5
        <5>2. d.family \in cases[a].families
          BY <4>3, <5>1 DEF LabelInv
        <5>3. a \notin ActiveSince(d.at - CoolDown)
          BY <4>2, <5>2 DEF Repeatable
        <5>4. ~(cases[a].lastSeen >= d.at - CoolDown)
          BY <4>3, <5>3 DEF ActiveSince
        <5>5. cases[a].lastSeen \in Nat
          BY <4>3, StoredCase
        <5>6. cases[a].lastSeen + CoolDown < d.at
          BY <3>4, <5>4, <5>5
        <5> QED
          BY <4>1, <4>2, <4>5, <5>1, <5>6
      <4> QED
        BY <4>4, <4>5
    <3> QED
      BY <3>2, <3>5, <3>6
  <2>2. ASSUME NEW n \in DOMAIN delivered, Replay(n) PROVE OneCasePerCoolDown'
    BY <2>2, ReplayIsDuplicate DEF vars, OneCasePerCoolDown
  <2>3. CASE UNCHANGED vars
    BY <2>3 DEF vars, OneCasePerCoolDown
  <2> QED
    BY <2>1, <2>2, <2>3 DEF Next
<1> QED
  BY <1>1, <1>2, TypeCorrect, IdsInvariant, LabelInvariant, PTL DEF Spec
-----------------------------------------------------------------------------
(* What each case has counted, and the count it shows, as the ledger sees  *)
(* them: a case not yet opened has counted nothing.                        *)
CountedMap == [c \in 1..MaxWindows |-> CountedIn(c)]
CountMap == [c \in 1..MaxWindows |-> IF c \in DOMAIN cases THEN cases[c].count ELSE 0]

(* A window delivered for the first time is counted by one case, which     *)
(* shows one more.                                                         *)
LEMMA DeliverCounts ==
    ASSUME TypeOK, IdsInv, NEW d \in Detection, Deliver(d)
    PROVE  Ledger!Next
<1>1. PICK i \in 1..(Len(cases) + 1) :
          /\ Joins(i, d) \/ Opens(i, d)
          /\ CountedIn(i)' = CountedIn(i) \cup {d.id}
          /\ \A j \in Nat : j # i => CountedIn(j)' = CountedIn(j)
  BY DeliveredCounts
<1>2. /\ DOMAIN cases' = DOMAIN cases \cup {i} /\ DOMAIN cases = 1..Len(cases) /\ Len(cases) \in Nat
      /\ \A j \in DOMAIN cases : j # i => cases'[j] = cases[j]
  BY <1>1, PlacedWindow
<1>3. d.id \in 1..MaxWindows /\ MaxWindows \in Nat /\ d.id \notin DOMAIN evidence
  BY WindowType, CorrelatorAssumption, DeliveredWindow
<1>4. i \in 1..MaxWindows
  <2>1. Len(cases) <= Len(delivered) /\ Len(delivered) < MaxWindows /\ Len(delivered) \in Nat
    BY DeliveredWindow DEF IdsInv, Deliver
  <2> QED
    BY <1>2, <1>3, <2>1
<1>5. i \in DOMAIN cases' /\ cases'[i].count = CountMap[i] + 1
  <2>1. ASSUME Joins(i, d) PROVE cases'[i].count = CountMap[i] + 1
    <3>1. PICK c \in MergesOf(i, d) : Save(i, c)
      BY <2>1 DEF Joins
    <3>2. i \in DOMAIN cases
      BY <2>1 DEF Joins
    <3>3. c \in Case /\ c.count = cases[i].count + 1
      BY <3>2, MergedCase
    <3>4. cases'[i] = c
      BY <3>1, <3>3, SavedCase
    <3> QED
      BY <1>4, <3>2, <3>3, <3>4 DEF CountMap
  <2>2. ASSUME Opens(i, d) PROVE cases'[i].count = CountMap[i] + 1
    <3>1. PICK c : c = NewCase(d)
      OBVIOUS
    <3>2. c \in Case /\ c.count = 1
      BY <3>1, CreatedCase
    <3>3. cases'[i] = c
      BY <2>2, <3>1, <3>2, SavedCase DEF Opens
    <3>4. i \notin DOMAIN cases
      BY <1>2, <2>2 DEF Opens
    <3> QED
      BY <1>4, <3>2, <3>3, <3>4 DEF CountMap
  <2> QED
    BY <1>1, <1>2, <2>1, <2>2
<1>6. CountMap' = [CountMap EXCEPT ![i] = @ + 1]
  <2>1. ASSUME NEW c \in 1..MaxWindows, c # i PROVE CountMap'[c] = CountMap[c]
    BY <1>2, <2>1 DEF CountMap
  <2>2. CountMap'[i] = CountMap[i] + 1
    BY <1>4, <1>5 DEF CountMap
  <2>3. DOMAIN CountMap = 1..MaxWindows /\ CountMap' = [c \in 1..MaxWindows |-> CountMap'[c]]
        /\ CountMap = [c \in 1..MaxWindows |-> CountMap[c]]
    BY DEF CountMap
  <2> QED
    BY <1>4, <2>1, <2>2, <2>3
<1>7. CountedMap' = [CountedMap EXCEPT ![i] = @ \cup {d.id}]
  <2>1. ASSUME NEW c \in 1..MaxWindows, c # i PROVE CountedMap'[c] = CountedMap[c]
    BY <1>1, <2>1 DEF CountedMap
  <2>2. CountedMap'[i] = CountedMap[i] \cup {d.id}
    BY <1>1, <1>4 DEF CountedMap
  <2>3. DOMAIN CountedMap = 1..MaxWindows /\ CountedMap' = [c \in 1..MaxWindows |-> CountedMap'[c]]
        /\ CountedMap = [c \in 1..MaxWindows |-> CountedMap[c]]
    BY DEF CountedMap
  <2> QED
    BY <1>4, <2>1, <2>2, <2>3
<1>8. \A c \in 1..MaxWindows : d.id \notin CountedMap[c]
  BY <1>3 DEF CountedMap, CountedIn
<1> QED
  BY <1>3, <1>4, <1>6, <1>7, <1>8 DEF Ledger!Next, Ledger!Count, CountMap, CountedMap

(* CountsEachWindowOnce: the correlator is an IncidentLedger, so every     *)
(* window is counted by one case, once, and stays counted there, however   *)
(* often it is delivered again and whatever the case has evicted since.    *)
THEOREM ImplementsLedger == Spec => CountsEachWindowOnce
<1>1. Init => Ledger!Init
  <2>1. DOMAIN <<>> = {}
    OBVIOUS
  <2> QED
    BY <2>1 DEF Init, Ledger!Init, CountedIn
<1>2. TypeOK /\ IdsInv /\ [Next]_vars => [Ledger!Next]_Ledger!vars
  <2> SUFFICES ASSUME TypeOK, IdsInv, [Next]_vars PROVE [Ledger!Next]_Ledger!vars
    OBVIOUS
  <2>1. ASSUME NEW d \in Detection, Deliver(d) PROVE Ledger!Next
    BY <2>1, DeliverCounts
  <2>2. ASSUME UNCHANGED vars PROVE UNCHANGED Ledger!vars
    BY <2>2 DEF vars, Ledger!vars, CountedIn
  <2>3. ASSUME NEW n \in DOMAIN delivered, Replay(n) PROVE UNCHANGED Ledger!vars
    BY <2>2, <2>3, ReplayIsDuplicate
  <2> QED
    BY <2>1, <2>2, <2>3 DEF Next
<1> QED
  BY <1>1, <1>2, TypeCorrect, IdsInvariant, PTL DEF Spec, Ledger!Spec, CountsEachWindowOnce
-----------------------------------------------------------------------------
(* The first window to come has a case of its own.                         *)
FirstInv ==
    /\ Len(delivered) = 0 => cases = <<>>
    /\ Len(delivered) = 1 => cases = <<NewCase(delivered[1])>>

(* The first window always finds no case and opens one.                    *)
LEMMA FirstInvariant == Spec => []FirstInv
<1>1. Init => FirstInv
  <2>1. Len(<<>>) = 0
    OBVIOUS
  <2> QED
    BY <2>1 DEF Init, FirstInv
<1>2. TypeOK /\ IdsInv /\ FirstInv /\ [Next]_vars => FirstInv'
  <2> SUFFICES ASSUME TypeOK, IdsInv, FirstInv, [Next]_vars PROVE FirstInv'
    OBVIOUS
  <2>1. ASSUME NEW d \in Detection, Deliver(d) PROVE FirstInv'
    <3>1. /\ d.id = Len(delivered) + 1 /\ Len(delivered) \in Nat
          /\ Len(delivered') = Len(delivered) + 1 /\ delivered'[d.id] = d
      BY <2>1, DeliveredWindow
    <3>2. ASSUME Len(delivered) = 0 PROVE cases' = <<NewCase(d)>>
      <4>1. cases = <<>> /\ Len(cases) = 0 /\ DOMAIN cases = {}
        BY <3>2 DEF FirstInv
      <4>2. PICK i \in 1..(Len(cases) + 1) : Joins(i, d) \/ Opens(i, d)
        BY <2>1, DeliveredWindow
      <4>3. Save(1, NewCase(d))
        BY <4>1, <4>2 DEF Joins, Opens
      <4> QED
        BY <4>1, <4>3 DEF Save
    <3> QED
      BY <3>1, <3>2 DEF FirstInv
  <2>2. ASSUME NEW n \in DOMAIN delivered, Replay(n) PROVE FirstInv'
    BY <2>2, ReplayIsDuplicate DEF vars, FirstInv
  <2>3. CASE UNCHANGED vars
    BY <2>3 DEF vars, FirstInv
  <2> QED
    BY <2>1, <2>2, <2>3 DEF Next
<1> QED
  BY <1>1, <1>2, TypeCorrect, IdsInvariant, PTL DEF Spec

(* A flow and a log window weigh the same in either order.                 *)
LEMMA CompositeOfPair ==
    ASSUME NEW x \in Detection, NEW y \in Detection, x.modality # y.modality
    PROVE  Composite(<<x, y>>) = Composite(<<y, x>>) /\ ~Partial(<<x, y>>)
<1>1. \A u, v \in Detection : /\ DOMAIN <<u, v>> = {1, 2} /\ <<u, v>>[1] = u /\ <<u, v>>[2] = v
  OBVIOUS
<1>2. \A u, v \in Detection : ModalitiesOf(<<u, v>>) = {u.modality, v.modality}
  BY <1>1 DEF ModalitiesOf
<1>3. {x.modality, y.modality} = Modality
  BY WindowType DEF Modality
<1>4. ASSUME NEW m PROVE BestScore(<<x, y>>, m) = BestScore(<<y, x>>, m)
  <2> DEFINE S(o) == {o[i].score : i \in {j \in DOMAIN o : o[j].modality = m}}
  <2>1. S(<<x, y>>) = S(<<y, x>>)
    BY <1>1
  <2>2. \A o : BestScore(o, m) = Max(S(o))
    BY DEF BestScore
  <2> HIDE DEF S
  <2> QED
    BY <2>1, <2>2
<1>5. ModalitiesOf(<<x, y>>) = Modality /\ ModalitiesOf(<<y, x>>) = Modality
  BY <1>2, <1>3
<1>6. \A o : ModalitiesOf(o) = Modality =>
         Composite(o) = 12 * BestScore(o, "flow") + 8 * BestScore(o, "log") /\ ~Partial(o)
  BY DEF Composite, Partial
<1> QED
  BY <1>4, <1>5, <1>6

(* The second of a pair that closes near the first and saw the other       *)
(* modality joins the first one's case.                                    *)
LEMMA SecondJoins ==
    ASSUME TypeOK, IdsInv, FirstInv, Retention > 1, NEW d \in Detection, Deliver(d),
           Len(delivered) = 1, delivered[1].modality # d.modality,
           delivered[1].at - d.at <= GroupWindow, d.at - delivered[1].at <= GroupWindow
    PROVE  /\ Len(cases') = 1 /\ cases'[1].grouped /\ ~cases'[1].partial
           /\ cases'[1].score >= Composite(<<d, delivered[1]>>)
<1> DEFINE f == delivered[1]
           old == NewCase(f)
           c == Merged(old, d, TRUE)
<1>1. f \in Detection /\ f.at \in Nat /\ d.at \in Nat /\ GroupWindow \in Nat
  <2>1. f \in Detection
    BY ElementOfSeq DEF TypeOK
  <2> HIDE DEF f
  <2> QED
    BY <2>1, WindowType, CorrelatorAssumption
<1>2. cases = <<old>> /\ Len(cases) = 1 /\ DOMAIN cases = {1} /\ cases[1] = old
  BY DEF FirstInv
<1>3. old \in Case /\ old.occurrences = <<f>> /\ old.lastSeen = f.at /\ old.score \in Nat
  <2>1. PICK k : k = old
    OBVIOUS
  <2>2. k \in Case /\ k.occurrences = <<f>> /\ k.lastSeen = f.at
    BY <1>1, <2>1, CreatedCase
  <2> QED
    BY <2>1, <2>2 DEF Case
<1>4. Groupable(d) = {1}
  <2>1. ActiveSince(d.at - GroupWindow) = {1}
    BY <1>1, <1>2, <1>3 DEF ActiveSince
  <2>2. Latest({1}) = 1
    BY <1>2, LatestIsLast
  <2>3. Near(cases[1], d)
    BY <1>1, <1>2, <1>3 DEF Near
  <2>4. d.modality \notin ModalitiesOf(cases[1].occurrences)
    BY <1>2, <1>3 DEF ModalitiesOf
  <2> QED
    BY <2>1, <2>2, <2>3, <2>4 DEF Groupable
<1>5. Save(1, c)
  <2>1. d.id \notin DOMAIN evidence /\ Ingest(d)
    BY DeliveredWindow DEF Deliver
  <2>2. Group(d)
    BY <1>4, <2>1 DEF Ingest, Duplicate, Absorb, Create
  <2> QED
    BY <1>2, <1>4, <2>2 DEF Group
<1> HIDE DEF old
<1>6. c \in Case
  <2>1. c \in MergesOf(1, d)
    BY <1>2 DEF MergesOf
  <2> HIDE DEF c
  <2> QED
    BY <1>2, <2>1, MergedCase
<1>7. Len(cases') = 1 /\ cases'[1] = c
  <2> HIDE DEF c
  <2>1. 1 \in 1..(Len(cases) + 1) /\ 1 \in DOMAIN cases
    BY <1>2
  <2>2. cases'[1] = c /\ Len(cases') = IF 1 \in DOMAIN cases THEN Len(cases) ELSE Len(cases) + 1
    BY <1>5, <1>6, <2>1, SavedCase
  <2> QED
    BY <1>2, <2>1, <2>2
<1>8. Trimmed(Append(old.occurrences, d)) = <<f, d>>
  <2> HIDE DEF f
  <2>1. Append(<<f>>, d) = <<f, d>> /\ Len(<<f, d>>) = 2
    <3>1. /\ <<f>> \in Seq(Detection) /\ <<f, d>> \in Seq(Detection) /\ Len(<<f>>) = 1 /\ Len(<<f, d>>) = 2
          /\ <<f>>[1] = f /\ <<f, d>>[1] = f /\ <<f, d>>[2] = d
      BY <1>1
    <3>2. /\ Append(<<f>>, d) \in Seq(Detection) /\ Len(Append(<<f>>, d)) = 2
          /\ Append(<<f>>, d)[1] = f /\ Append(<<f>>, d)[2] = d
      BY <1>1, <3>1, AppendProperties
    <3> DEFINE s == Append(<<f>>, d)
               t == <<f, d>>
    <3> HIDE DEF s, t
    <3>3. s \in Seq(Detection) /\ t \in Seq(Detection) /\ Len(s) = 2 /\ Len(t) = 2 /\ s[1] = t[1] /\ s[2] = t[2]
      BY <3>1, <3>2 DEF s, t
    <3>4. \A i \in 1..Len(s) : s[i] = t[i]
      BY <3>3
    <3>5. s = t
      BY <3>3, <3>4, SeqEqual
    <3> QED
      BY <3>1, <3>5 DEF s, t
  <2>2. Max({1, 2 - Retention + 1}) = 1
    <3>1. 2 - Retention + 1 <= 1 /\ 2 - Retention + 1 \in Int
      BY CorrelatorAssumption
    <3> DEFINE a == 2 - Retention + 1
    <3> HIDE DEF a
    <3>2. a <= 1 /\ a \in Int
      BY <3>1 DEF a
    <3>3. 1 >= 1 /\ 1 >= a
      BY <3>2
    <3>4. \A m \in {1, a} : (\A z \in {1, a} : m >= z) => m = 1
      BY <3>2
    <3>5. Max({1, a}) = 1
      BY <3>3, <3>4 DEF Max
    <3> QED
      BY <3>5 DEF a
  <2>3. SubSeq(<<f, d>>, 1, 2) = <<f, d>>
    <3>1. <<f, d>> \in Seq(Detection)
      BY <1>1
    <3> QED
      BY <2>1, <3>1, SubSeqFull
  <2> QED
    BY <1>3, <2>1, <2>2, <2>3 DEF Trimmed
<1>9. /\ c.grouped /\ c.partial = Partial(<<f, d>>)
      /\ c.score = PeakScore(old, <<f, d>>)
  BY <1>3, <1>8 DEF Merged, Case
<1>10. Composite(<<f, d>>) = Composite(<<d, f>>) /\ ~Partial(<<f, d>>)
  BY <1>1, CompositeOfPair
<1>11. Composite(<<f, d>>) \in Nat
  <2>1. <<f, d>> \in Seq(Detection) /\ <<f, d>> # <<>>
    BY <1>1
  <2> QED
    BY <2>1, CompositeType
<1>12. PeakScore(old, <<f, d>>) >= Composite(<<f, d>>)
  BY <1>3, <1>11, MaxOfTwo DEF PeakScore
<1> HIDE DEF c, f
<1> QED
  BY <1>7, <1>9, <1>10, <1>12 DEF f

(* PairIsOneIncident (FR-19): a flow and a log window that close within    *)
(* the group window of each other and are all that came end up in one      *)
(* case, grouped and whole, whichever came first.  A case that retains one *)
(* occurrence only (evidence_retention 1) would forget the first of them.  *)
THEOREM PairsMeet == ASSUME Retention > 1 PROVE Spec => []PairIsOneIncident
<1>1. Init => PairIsOneIncident
  <2>1. Len(<<>>) = 0
    OBVIOUS
  <2> QED
    BY <2>1 DEF Init, PairIsOneIncident
<1>2. TypeOK /\ IdsInv /\ FirstInv /\ PairIsOneIncident /\ [Next]_vars => PairIsOneIncident'
  <2> SUFFICES ASSUME TypeOK, IdsInv, FirstInv, PairIsOneIncident, [Next]_vars
               PROVE  PairIsOneIncident'
    OBVIOUS
  <2>1. ASSUME NEW d \in Detection, Deliver(d) PROVE PairIsOneIncident'
    <3>1. /\ d.id = Len(delivered) + 1 /\ Len(delivered) \in Nat
          /\ Len(delivered') = Len(delivered) + 1 /\ delivered'[d.id] = d
          /\ DOMAIN delivered = 1..Len(delivered)
          /\ \A e \in DOMAIN delivered : delivered'[e] = delivered[e]
      BY <2>1, DeliveredWindow
    <3>2. CASE Len(delivered) = 1
      <4>1. delivered'[1] = delivered[1] /\ delivered'[2] = d
        BY <3>1, <3>2
      <4> QED
        BY <2>1, <3>2, <4>1, SecondJoins DEF PairIsOneIncident
    <3>3. CASE Len(delivered) # 1
      <4>1. Len(delivered') # 2
        BY <3>1, <3>3
      <4> QED
        BY <4>1 DEF PairIsOneIncident
    <3> QED
      BY <3>2, <3>3
  <2>2. ASSUME NEW n \in DOMAIN delivered, Replay(n) PROVE PairIsOneIncident'
    BY <2>2, ReplayIsDuplicate DEF vars, PairIsOneIncident
  <2>3. CASE UNCHANGED vars
    BY <2>3 DEF vars, PairIsOneIncident
  <2> QED
    BY <2>1, <2>2, <2>3 DEF Next
<1> QED
  BY <1>1, <1>2, TypeCorrect, IdsInvariant, FirstInvariant, PTL DEF Spec
=============================================================================
