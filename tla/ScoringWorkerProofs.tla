------------------------- MODULE ScoringWorkerProofs -------------------------
(***************************************************************************)
(* Proofs about ScoringWorker, for any number of partitions, keys and      *)
(* records, any window and batch size, any number of exceptions and        *)
(* restarts.  The order of the file: facts about sequences and windows,    *)
(* TypeOK, then one inductive invariant after the other and the property   *)
(* that rests on it: timers, accounting, one window per flow, the replay,  *)
(* and last the refinement of WindowStream.                                *)
(***************************************************************************)
EXTENDS ScoringWorker, FiniteSetTheorems, SequenceTheorems, TLAPS

(* Max and Min of the community modules, of two numbers.                   *)
LEMMA MaxOfTwo ==
    ASSUME NEW x \in Nat, NEW y \in Nat
    PROVE  Max({x, y}) = IF x >= y THEN x ELSE y
<1>1. \E m \in {x, y} : \A z \in {x, y} : m >= z
  OBVIOUS
<1> QED
  BY <1>1 DEF Max

(* The same, for the smaller of two numbers.                               *)
LEMMA MinOfTwo ==
    ASSUME NEW x \in Nat, NEW y \in Nat
    PROVE  Min({x, y}) = IF x <= y THEN x ELSE y
<1>1. \E m \in {x, y} : \A z \in {x, y} : m <= z
  OBVIOUS
<1> QED
  BY <1>1 DEF Min

(* The offsets of a finite set, listed in order.                           *)
LEMMA InOrderLists ==
    ASSUME NEW S \in SUBSET Nat, IsFiniteSet(S)
    PROVE  /\ InOrder(S) \in Seq(S) /\ Len(InOrder(S)) = Cardinality(S)
           /\ ToSet(InOrder(S)) = S
           /\ \A i, j \in 1..Cardinality(S) : i < j => InOrder(S)[i] < InOrder(S)[j]
           /\ \A i \in 1..Cardinality(S) : Cardinality({x \in S : x < InOrder(S)[i]}) = i - 1
<1> DEFINE n == Cardinality(S)
           Below(o) == {x \in S : x < o}
           Rank(o) == Cardinality(Below(o))
           f == [o \in S |-> Rank(o) + 1]
           s == InOrder(S)
<1>1. n \in Nat
  BY FS_CardinalityType
<1>2. ASSUME NEW o \in S PROVE Rank(o) \in Nat /\ Rank(o) < n
  <2>1. IsFiniteSet(Below(o)) /\ Cardinality(Below(o)) <= n /\ (n = Cardinality(Below(o)) => S = Below(o))
    BY FS_Subset
  <2>2. Below(o) # S
    OBVIOUS
  <2>3. Cardinality(Below(o)) \in Nat
    BY <2>1, FS_CardinalityType
  <2> QED
    BY <1>1, <2>1, <2>2, <2>3
<1>3. ASSUME NEW o \in S, NEW q \in S, o < q PROVE Rank(o) < Rank(q)
  <2>1. Below(o) \in SUBSET Below(q) /\ o \in Below(q) /\ o \notin Below(o)
    <3>1. o \in Nat /\ q \in Nat /\ \A x \in S : x \in Nat
      OBVIOUS
    <3>2. \A x \in Below(o) : x \in Below(q)
      BY <1>3, <3>1
    <3>3. o \in Below(q)
      BY <1>3
    <3>4. o \notin Below(o)
      BY <3>1
    <3> QED
      BY <3>2, <3>3, <3>4
  <2>2. IsFiniteSet(Below(q))
    BY FS_Subset
  <2>3. Rank(o) <= Rank(q) /\ (Rank(q) = Rank(o) => Below(q) = Below(o))
    BY <2>1, <2>2, FS_Subset
  <2> QED
    BY <1>2, <2>1, <2>3
<1> HIDE DEF Below, Rank
<1>4. f \in Injection(S, 1..n)
  <2>1. f \in [S -> 1..n]
    BY <1>1, <1>2
  <2>2. ASSUME NEW o \in S, NEW q \in S, f[o] = f[q] PROVE o = q
    <3>1. Rank(o) = Rank(q)
      BY <1>2, <2>2
    <3>2. ~(o < q) /\ ~(q < o)
      BY <1>2, <1>3, <3>1
    <3> QED
      BY <3>2
  <2> QED
    BY <2>1, <2>2 DEF Injection, IsInjective
<1>5. f \in Surjection(S, 1..n)
  <2>1. IsFiniteSet(1..n) /\ Cardinality(1..n) = n
    BY <1>1, FS_Interval
  <2> QED
    BY <1>4, <2>1, FS_Injection
<1>6. ASSUME NEW i \in 1..n
      PROVE  /\ s[i] \in S /\ Rank(s[i]) = i - 1
             /\ (CHOOSE q \in S : Rank(q) = i - 1) \in S
  <2>1. PICK o \in S : f[o] = i
    BY <1>5 DEF Surjection
  <2>2. Rank(o) = i - 1
    BY <1>1, <1>2, <2>1
  <2>3. s[i] = CHOOSE q \in S : Rank(q) = i - 1
    BY <1>6 DEF InOrder, Rank, Below
  <2> QED
    BY <2>2, <2>3
<1>7. s \in Seq(S) /\ Len(s) = n /\ DOMAIN s = 1..n
  <2>1. s \in [1..n -> S]
    <3>1. s = [i \in 1..n |-> CHOOSE q \in S : Rank(q) = i - 1]
      BY DEF InOrder, Rank, Below
    <3> QED
      BY <1>6, <3>1
  <2> QED
    BY <1>1, <2>1
<1>8. ToSet(s) = S
  <2>1. ASSUME NEW o \in S PROVE \E i \in 1..n : s[i] = o
    <3>1. Rank(o) + 1 \in 1..n
      BY <1>1, <1>2
    <3>2. s[Rank(o) + 1] \in S /\ Rank(s[Rank(o) + 1]) = Rank(o)
      BY <1>2, <1>6, <3>1
    <3>3. f[s[Rank(o) + 1]] = f[o]
      BY <3>2
    <3>4. s[Rank(o) + 1] = o
      BY <1>4, <3>2, <3>3 DEF Injection, IsInjective
    <3> QED
      BY <3>1, <3>4
  <2> QED
    BY <1>6, <1>7, <2>1 DEF ToSet
<1>9. ASSUME NEW i \in 1..n, NEW j \in 1..n, i < j PROVE s[i] < s[j]
  <2> DEFINE x == s[i]
             y == s[j]
  <2> HIDE DEF s
  <2>1. x \in S /\ y \in S /\ Rank(x) = i - 1 /\ Rank(y) = j - 1
    BY <1>6
  <2> HIDE DEF x, y
  <2>2. ASSUME x = y PROVE FALSE
    BY <1>1, <1>9, <2>1, <2>2
  <2>3. ASSUME y < x PROVE FALSE
    <3>1. Rank(y) < Rank(x)
      BY <1>3, <2>1, <2>3
    <3> QED
      BY <1>1, <1>9, <2>1, <3>1
  <2>4. x \in Nat /\ y \in Nat
    BY <2>1
  <2>5. x < y
    BY <2>2, <2>3, <2>4
  <2> QED
    BY <2>5 DEF x, y
<1>10. \A i \in 1..n : Cardinality({x \in S : x < s[i]}) = i - 1
  BY <1>6 DEF Rank, Below
<1> QED
  BY <1>7, <1>8, <1>9, <1>10

(* A concatenation holds the elements of both sequences.                   *)
LEMMA ConcatElems ==
    ASSUME NEW S, NEW s \in Seq(S), NEW t \in Seq(S)
    PROVE  ToSet(s \o t) = ToSet(s) \cup ToSet(t)
<1> DEFINE u == s \o t
<1>1. /\ Len(s) \in Nat /\ Len(t) \in Nat /\ DOMAIN s = 1..Len(s) /\ DOMAIN t = 1..Len(t)
      /\ DOMAIN u = 1..(Len(s) + Len(t))
      /\ \A i \in 1..(Len(s) + Len(t)) : u[i] = IF i <= Len(s) THEN s[i] ELSE t[i - Len(s)]
  BY ConcatProperties, LenProperties
<1> HIDE DEF u
<1>2. ASSUME NEW i \in 1..Len(s) PROVE s[i] \in ToSet(u)
  <2>1. i \in DOMAIN u /\ u[i] = s[i]
    BY <1>1
  <2> QED
    BY <2>1 DEF ToSet
<1>3. ASSUME NEW i \in 1..Len(t) PROVE t[i] \in ToSet(u)
  <2>1. Len(s) + i \in DOMAIN u /\ u[Len(s) + i] = t[i]
    BY <1>1
  <2> QED
    BY <2>1 DEF ToSet
<1>4. ASSUME NEW i \in DOMAIN u PROVE u[i] \in ToSet(s) \cup ToSet(t)
  <2>1. CASE i <= Len(s)
    <3>1. i \in DOMAIN s /\ u[i] = s[i]
      BY <1>1, <2>1
    <3> QED
      BY <3>1 DEF ToSet
  <2>2. CASE ~(i <= Len(s))
    <3>1. i - Len(s) \in DOMAIN t /\ u[i] = t[i - Len(s)]
      BY <1>1, <2>2
    <3> QED
      BY <3>1 DEF ToSet
  <2> QED
    BY <2>1, <2>2
<1>5. \A x \in ToSet(u) : x \in ToSet(s) \cup ToSet(t)
  BY <1>4 DEF ToSet
<1>6. \A x \in ToSet(s) \cup ToSet(t) : x \in ToSet(u)
  BY <1>1, <1>2, <1>3 DEF ToSet
<1> QED
  BY <1>5, <1>6 DEF u

(* A sequence cut after its n-th element: what each piece holds, as a      *)
(* chunk taken out of a buffer and the rest that stays.                    *)
LEMMA Split ==
    ASSUME NEW S, NEW s \in Seq(S), NEW n \in 0..Len(s)
    PROVE  LET front == SubSeq(s, 1, n)
               rest  == SubSeq(s, n + 1, Len(s))
           IN  /\ front \in Seq(S) /\ Len(front) = n /\ \A i \in 1..n : front[i] = s[i]
               /\ rest \in Seq(S) /\ Len(rest) = Len(s) - n
               /\ \A i \in 1..(Len(s) - n) : rest[i] = s[n + i]
               /\ ToSet(s) = ToSet(front) \cup ToSet(rest)
<1> DEFINE front == SubSeq(s, 1, n)
           rest == SubSeq(s, n + 1, Len(s))
<1>1. Len(s) \in Nat /\ n \in Nat /\ \A i \in 1..Len(s) : s[i] \in S
  BY LenProperties
<1>2. front \in Seq(S) /\ Len(front) = n /\ \A i \in 1..n : front[i] = s[i]
  <2>1. \A i \in 1..n : s[i] \in S
    BY <1>1
  <2>2. /\ front \in Seq(S) /\ Len(front) = (IF 1 <= n THEN n - 1 + 1 ELSE 0)
        /\ \A i \in 1..(n - 1 + 1) : front[i] = s[1 + i - 1]
    BY <1>1, <2>1, SubSeqProperties
  <2> QED
    BY <1>1, <2>2
<1>3. rest \in Seq(S) /\ Len(rest) = Len(s) - n /\ \A i \in 1..(Len(s) - n) : rest[i] = s[n + i]
  <2>1. \A i \in (n + 1)..Len(s) : s[i] \in S
    BY <1>1
  <2>2. /\ rest \in Seq(S)
        /\ Len(rest) = (IF n + 1 <= Len(s) THEN Len(s) - (n + 1) + 1 ELSE 0)
        /\ \A i \in 1..(Len(s) - (n + 1) + 1) : rest[i] = s[(n + 1) + i - 1]
    BY <1>1, <2>1, SubSeqProperties
  <2> QED
    BY <1>1, <2>2
<1>4. front \o rest = s
  <2>1. 1 \in 1..(Len(s) + 1) /\ n \in (1 - 1)..Len(s) /\ Len(s) \in n..Len(s)
    BY <1>1
  <2>2. front \o rest = SubSeq(s, 1, Len(s))
    BY <2>1, ConcatAdjacentSubSeq
  <2> QED
    BY <2>2, SubSeqFull
<1>5. ToSet(s) = ToSet(front) \cup ToSet(rest)
  BY <1>2, <1>3, <1>4, ConcatElems, ZenonT(60)
<1> QED
  BY <1>2, <1>3, <1>5

(* The full windows a buffer fills, and less than one window over.         *)
LEMMA DivBounds ==
    ASSUME NEW a \in Nat
    PROVE  a \div W \in Nat /\ (a \div W) * W <= a /\ a < (a \div W) * W + W
BY WorkerAssumption

(* Where a window starts grows with its number.                            *)
LEMMA TimesMonotonic ==
    ASSUME NEW a \in Nat, NEW b \in Nat
    PROVE  /\ a <= b => a * W <= b * W
           /\ a < b => a * W + W <= b * W
<1>1. ASSUME NEW c \in Nat, NEW d \in Nat, c <= d PROVE c * W <= d * W
  BY <1>1, WorkerAssumption
<1>2. ASSUME a < b PROVE a * W + W <= b * W
  <2>1. a + 1 <= b /\ (a + 1) * W = a * W + W /\ a + 1 \in Nat
    BY <1>2, WorkerAssumption
  <2> QED
    BY <1>1, <2>1
<1> QED
  BY <1>1, <1>2

(* How many windows a chunk is cut into.                                   *)
Pieces(chunk) == (Len(chunk) + W - 1) \div W

(* The i-th window cut from a chunk.                                       *)
LEMMA CutAt ==
    ASSUME NEW k \in Keys, NEW chunk \in Seq(1..MaxRecords), NEW i \in 1..Pieces(chunk)
    PROVE  LET w == Cut(k, chunk)[i]
               size == IF i * W <= Len(chunk) THEN W ELSE Len(chunk) - (i - 1) * W
           IN  /\ w \in Window /\ w.key = k
               /\ size \in 1..W /\ (i - 1) * W + size <= Len(chunk) /\ Len(w.recs) = size
               /\ \A j \in 1..size : w.recs[j] = chunk[(i - 1) * W + j]
<1> DEFINE L == Len(chunk)
           b == (i - 1) * W
           e == IF i * W <= L THEN i * W ELSE L
           size == IF i * W <= L THEN W ELSE L - b
           recs == SubSeq(chunk, b + 1, Min({i * W, L}))
<1>1. L \in Nat /\ W \in Nat \ {0} /\ \A j \in 1..L : chunk[j] \in 1..MaxRecords
  BY WorkerAssumption, LenProperties
<1>2. L + W - 1 \in Nat /\ Pieces(chunk) \in Nat /\ i \in Nat /\ i - 1 \in Nat /\ i <= Pieces(chunk)
  <2>1. L + W - 1 \in Nat
    BY <1>1
  <2> QED
    BY <2>1, DivBounds DEF Pieces
<1>3. b \in Nat /\ i * W = b + W
  BY <1>1, <1>2
<1>4. b + 1 <= L
  <2>1. i * W <= Pieces(chunk) * W
    BY <1>2, TimesMonotonic
  <2>2. Pieces(chunk) * W <= L + W - 1
    BY <1>2, DivBounds DEF Pieces
  <2>3. Pieces(chunk) * W \in Nat
    BY <1>1, <1>2
  <2> HIDE DEF b
  <2> QED
    BY <1>1, <1>3, <2>1, <2>2, <2>3
<1>5. i * W \in Nat
  BY <1>1, <1>2
<1>6. Min({i * W, L}) = e
  BY <1>1, <1>5, MinOfTwo
<1>7. e \in Nat /\ e = b + size /\ size \in 1..W /\ e <= L
  <2>1. CASE i * W <= L
    <3>1. e = i * W /\ size = W
      BY <2>1
    <3> HIDE DEF b, e, size
    <3> QED
      BY <1>1, <1>3, <1>5, <2>1, <3>1
  <2>2. CASE ~(i * W <= L)
    <3>1. e = L /\ size = L - b
      BY <2>2
    <3> HIDE DEF b, e, size
    <3> QED
      BY <1>1, <1>3, <1>4, <1>5, <2>2, <3>1
  <2> QED
    BY <2>1, <2>2
<1>8. recs = SubSeq(chunk, b + 1, e)
  BY <1>6
<1> HIDE DEF b, e, size, L, recs
<1>9. /\ recs \in Seq(1..MaxRecords) /\ Len(recs) = size
      /\ \A j \in 1..size : recs[j] = chunk[b + j]
  <2>1. b + 1 \in Int /\ e \in Int /\ \A j \in (b + 1)..e : chunk[j] \in 1..MaxRecords
    BY <1>1, <1>3, <1>7
  <2>2. /\ recs \in Seq(1..MaxRecords)
        /\ Len(recs) = (IF b + 1 <= e THEN e - (b + 1) + 1 ELSE 0)
        /\ \A j \in 1..(e - (b + 1) + 1) : recs[j] = chunk[(b + 1) + j - 1]
    BY <1>8, <2>1, SubSeqProperties
  <2>3. e - (b + 1) + 1 = size /\ b + 1 <= e
    BY <1>3, <1>7
  <2>4. \A j \in 1..size : (b + 1) + j - 1 = b + j
    BY <1>3, <1>7
  <2> QED
    BY <2>2, <2>3, <2>4
<1>10. recs # <<>>
  BY <1>7, <1>9
<1>11. Cut(k, chunk)[i] = [key |-> k, recs |-> recs]
  BY DEF Cut, Pieces, recs, b, L
<1>12. [key |-> k, recs |-> recs] \in Window
  BY <1>9, <1>10 DEF Window
<1> DEFINE w == Cut(k, chunk)[i]
<1>13. w \in Window /\ w.key = k /\ w.recs = recs
  BY <1>11, <1>12
<1>14. /\ w \in Window /\ w.key = k
       /\ size \in 1..W /\ b + size <= L /\ Len(w.recs) = size
       /\ \A j \in 1..size : w.recs[j] = chunk[b + j]
  BY <1>7, <1>9, <1>13
<1> QED
  BY <1>14 DEF L, b, size

(* The flows of a key at some offsets, and those of a list of windows.     *)
KeyFlows(k, offsets) == {<<k, o>> : o \in ToSet(offsets)}
WindowFlows(ws) == UNION {FlowsOf(ws[i]) : i \in 1..Len(ws)}

(* Cut gives non-empty windows that together hold exactly the chunk.       *)
LEMMA CutLists ==
    ASSUME NEW k \in Keys, NEW chunk \in Seq(1..MaxRecords)
    PROVE  /\ Cut(k, chunk) \in Seq(Window) /\ Len(Cut(k, chunk)) = Pieces(chunk)
           /\ WindowFlows(Cut(k, chunk)) = KeyFlows(k, chunk)
<1> DEFINE L == Len(chunk)
           m == Pieces(chunk)
           ws == Cut(k, chunk)
<1>1. L \in Nat /\ W \in Nat \ {0} /\ DOMAIN chunk = 1..L /\ m \in Nat
  <2>1. L \in Nat /\ W \in Nat \ {0} /\ DOMAIN chunk = 1..L
    BY WorkerAssumption, LenProperties
  <2>2. L + W - 1 \in Nat
    BY <2>1
  <2> QED
    BY <2>1, <2>2, DivBounds DEF Pieces
<1>2. ws \in Seq(Window) /\ Len(ws) = m
  <2>1. \A i \in 1..m : ws[i] \in Window
    BY CutAt
  <2>2. ws \in [1..m -> Window]
    BY <2>1 DEF Cut, Pieces
  <2> QED
    BY <1>1, <2>2
<1>3. ASSUME NEW i \in 1..m PROVE FlowsOf(ws[i]) \subseteq KeyFlows(k, chunk)
  <2> DEFINE w == ws[i]
             size == IF i * W <= L THEN W ELSE L - (i - 1) * W
  <2>1. /\ w \in Window /\ w.key = k /\ size \in 1..W /\ (i - 1) * W + size <= L
        /\ Len(w.recs) = size /\ \A j \in 1..size : w.recs[j] = chunk[(i - 1) * W + j]
    BY CutAt
  <2>2. (i - 1) * W \in Nat
    BY <1>1
  <2> HIDE DEF w, size
  <2>3. DOMAIN w.recs = 1..size
    <3>1. w.recs \in Seq(1..MaxRecords)
      BY <2>1 DEF Window
    <3> QED
      BY <2>1, <3>1
  <2>4. ASSUME NEW j \in 1..size PROVE w.recs[j] \in ToSet(chunk)
    <3>1. (i - 1) * W + j \in 1..L
      BY <1>1, <2>1, <2>2
    <3> QED
      BY <1>1, <2>1, <3>1 DEF ToSet
  <2>5. FlowsOf(w) \subseteq KeyFlows(k, chunk)
    BY <2>1, <2>3, <2>4 DEF FlowsOf, KeyFlows, ToSet
  <2> QED
    BY <2>5 DEF w
<1>4. ASSUME NEW p \in 1..L PROVE \E i \in 1..m : <<k, chunk[p]>> \in FlowsOf(ws[i])
  <2> DEFINE q == (p - 1) \div W
             i == q + 1
             j == p - q * W
  <2>1. p - 1 \in Nat /\ q \in Nat /\ q * W \in Nat /\ q * W <= p - 1 /\ p - 1 < q * W + W
    <3>1. p - 1 \in Nat
      BY <1>1
    <3>2. q \in Nat /\ q * W <= p - 1 /\ p - 1 < q * W + W
      BY <3>1, DivBounds
    <3> QED
      BY <1>1, <3>1, <3>2
  <2> HIDE DEF q
  <2>2. i \in 1..m
    <3>1. L + W - 1 \in Nat
      BY <1>1
    <3>2. m * W + W > L + W - 1 /\ m * W \in Nat
      BY <1>1, <3>1, DivBounds DEF Pieces
    <3>3. q < m
      <4> SUFFICES ASSUME m <= q PROVE FALSE
        BY <1>1, <2>1
      <4>1. m * W <= q * W
        BY <1>1, <2>1, TimesMonotonic
      <4> HIDE DEF m
      <4> QED
        BY <1>1, <2>1, <3>2, <4>1
    <3> QED
      BY <1>1, <2>1, <3>3
  <2> DEFINE w == ws[i]
             size == IF i * W <= L THEN W ELSE L - (i - 1) * W
  <2>3. /\ w \in Window /\ w.key = k /\ size \in 1..W
        /\ Len(w.recs) = size /\ \A n \in 1..size : w.recs[n] = chunk[(i - 1) * W + n]
    <3> HIDE DEF i
    <3> QED
      BY <2>2, CutAt
  <2>4. i - 1 = q /\ i * W = q * W + W
    BY <1>1, <2>1
  <2>5. j \in 1..size
    <3>1. size = (IF q * W + W <= L THEN W ELSE L - q * W)
      BY <2>4
    <3>2. j \in Nat /\ 1 <= j /\ j <= W /\ j <= L - q * W
      BY <1>1, <2>1
    <3>3. size = W \/ size = L - q * W
      BY <3>1
    <3> HIDE DEF size, j
    <3>4. j <= size
      BY <3>2, <3>3
    <3>5. size \in Int
      BY <1>1, <2>1, <3>3
    <3> QED
      BY <3>2, <3>4, <3>5
  <2>6. w.recs[j] = chunk[p]
    <3>1. q * W + j = p
      BY <1>1, <2>1
    <3> QED
      BY <2>3, <2>4, <2>5, <3>1
  <2> HIDE DEF w, size, j
  <2>7. w.recs \in Seq(1..MaxRecords) /\ j \in DOMAIN w.recs
    <3>1. w.recs \in Seq(1..MaxRecords)
      BY <2>3 DEF Window
    <3> QED
      BY <2>3, <2>5, <3>1
  <2>8. <<k, chunk[p]>> \in FlowsOf(w)
    BY <2>3, <2>6, <2>7 DEF FlowsOf, ToSet
  <2> QED
    BY <2>2, <2>8 DEF w
<1>5. KeyFlows(k, chunk) \subseteq WindowFlows(ws)
  BY <1>1, <1>2, <1>4 DEF KeyFlows, WindowFlows, ToSet
<1>6. WindowFlows(ws) \subseteq KeyFlows(k, chunk)
  BY <1>2, <1>3 DEF WindowFlows
<1> QED
  BY <1>2, <1>5, <1>6

(* A strictly increasing sequence of offsets.                              *)
Increasing(s) == \A i, j \in 1..Len(s) : i < j => s[i] < s[j]

(* The windows cut from an increasing chunk follow one another.            *)
LEMMA CutOrdered ==
    ASSUME NEW k \in Keys, NEW chunk \in Seq(1..MaxRecords), Increasing(chunk),
           NEW i \in 1..Pieces(chunk)
    PROVE  /\ Increasing(Cut(k, chunk)[i].recs)
           /\ \A j \in 1..Pieces(chunk) : i < j =>
                \A x \in ToSet(Cut(k, chunk)[i].recs), y \in ToSet(Cut(k, chunk)[j].recs) : x < y
<1> DEFINE L == Len(chunk)
           size(x) == IF x * W <= L THEN W ELSE L - (x - 1) * W
           w(x) == Cut(k, chunk)[x]
<1>1. L \in Nat /\ W \in Nat \ {0} /\ DOMAIN chunk = 1..L /\ Pieces(chunk) \in Nat
  <2>1. L \in Nat /\ W \in Nat \ {0} /\ DOMAIN chunk = 1..L
    BY WorkerAssumption, LenProperties
  <2>2. L + W - 1 \in Nat
    BY <2>1
  <2> QED
    BY <2>1, <2>2, DivBounds DEF Pieces
<1>2. ASSUME NEW x \in 1..Pieces(chunk)
      PROVE  /\ size(x) \in 1..W /\ (x - 1) * W + size(x) <= L /\ (x - 1) * W \in Nat
             /\ Len(w(x).recs) = size(x) /\ DOMAIN w(x).recs = 1..size(x)
             /\ \A n \in 1..size(x) : w(x).recs[n] = chunk[(x - 1) * W + n]
  <2>1. /\ w(x) \in Window /\ size(x) \in 1..W /\ (x - 1) * W + size(x) <= L
        /\ Len(w(x).recs) = size(x) /\ \A n \in 1..size(x) : w(x).recs[n] = chunk[(x - 1) * W + n]
    BY CutAt
  <2>2. w(x).recs \in Seq(1..MaxRecords)
    BY <2>1 DEF Window
  <2>3. (x - 1) * W \in Nat
    BY <1>1
  <2> HIDE DEF w, size
  <2> QED
    BY <2>1, <2>2, <2>3
<1> HIDE DEF w, size
<1>3. \A a, b \in 1..L : a < b => chunk[a] < chunk[b]
  BY DEF Increasing
<1>4. Increasing(w(i).recs)
  <2> SUFFICES ASSUME NEW n \in 1..size(i), NEW o \in 1..size(i), n < o
               PROVE  w(i).recs[n] < w(i).recs[o]
    BY <1>2 DEF Increasing
  <2>1. /\ (i - 1) * W + n \in 1..L /\ (i - 1) * W + o \in 1..L
        /\ (i - 1) * W + n < (i - 1) * W + o
    BY <1>1, <1>2, SMTT(30)
  <2> QED
    BY <1>2, <1>3, <2>1
<1>5. ASSUME NEW j \in 1..Pieces(chunk), i < j, NEW n \in 1..size(i), NEW o \in 1..size(j)
      PROVE  w(i).recs[n] < w(j).recs[o]
  <2>1. (i - 1) * W + W <= (j - 1) * W
    <3>1. i - 1 \in Nat /\ j - 1 \in Nat /\ i - 1 < j - 1
      BY <1>1, <1>5
    <3> QED
      BY <3>1, TimesMonotonic
  <2>2. /\ (i - 1) * W \in Nat /\ (j - 1) * W \in Nat /\ size(i) \in 1..W /\ size(j) \in 1..W
        /\ (i - 1) * W + size(i) <= L /\ (j - 1) * W + size(j) <= L
    BY <1>2
  <2>3. (i - 1) * W + n < (j - 1) * W + o
    BY <1>1, <2>1, <2>2, SMTT(30)
  <2>4. (i - 1) * W + n \in 1..L /\ (j - 1) * W + o \in 1..L
    BY <1>1, <2>2, SMTT(30)
  <2> QED
    BY <1>2, <1>3, <2>3, <2>4
<1>6. \A j \in 1..Pieces(chunk) : i < j =>
        \A x \in ToSet(w(i).recs), y \in ToSet(w(j).recs) : x < y
  <2> TAKE j \in 1..Pieces(chunk)
  <2> HAVE i < j
  <2>1. \A n \in 1..size(i), o \in 1..size(j) : w(i).recs[n] < w(j).recs[o]
    BY <1>5
  <2>2. /\ ToSet(w(i).recs) = {w(i).recs[n] : n \in 1..size(i)}
        /\ ToSet(w(j).recs) = {w(j).recs[o] : o \in 1..size(j)}
    BY <1>2 DEF ToSet
  <2> QED
    BY <2>1, <2>2
<1> QED
  BY <1>4, <1>6 DEF w

(* The offsets of key k's records between two offsets of partition p.      *)
OfKey(p, k, from, to) == {o \in from..to : log[p][o].key = k}
(* The elements of a set below one number.                                 *)
Under(S, o) == {x \in S : x < o}

(* What one batch holds of a key: its offsets, each once, in order.        *)
LEMMA BatchOffsets ==
    ASSUME TypeOK, NEW p \in Partitions, NEW k \in Keys,
           NEW from \in Nat \ {0}, NEW to \in Nat, to <= Len(log[p])
    PROVE  LET s == OffsetsIn(p, k, from, to)
               S == OfKey(p, k, from, to)
           IN  /\ s \in Seq(1..MaxRecords) /\ Increasing(s) /\ ToSet(s) = S
               /\ IsFiniteSet(S) /\ Len(s) = Cardinality(S)
               /\ \A i \in 1..Len(s) : Cardinality(Under(S, s[i])) = i - 1
<1> DEFINE S == {o \in from..to : log[p][o].key = k}
           s == InOrder(S)
<1>1. from..to \subseteq 1..MaxRecords
  <2>1. Len(log[p]) \in Nat /\ Len(log[p]) <= MaxRecords /\ MaxRecords \in Nat
    BY WorkerAssumption DEF TypeOK
  <2> QED
    BY <2>1
<1>2. S \in SUBSET Nat /\ S \subseteq 1..MaxRecords /\ IsFiniteSet(S)
  <2>1. S \in SUBSET (from..to) /\ IsFiniteSet(from..to)
    BY FS_Interval
  <2>2. IsFiniteSet(S)
    BY <2>1, FS_Subset
  <2> QED
    BY <1>1, <2>1, <2>2
<1> HIDE DEF S
<1>3. /\ s \in Seq(S) /\ Len(s) = Cardinality(S) /\ ToSet(s) = S
      /\ \A i, j \in 1..Cardinality(S) : i < j => s[i] < s[j]
      /\ \A i \in 1..Cardinality(S) : Cardinality({x \in S : x < s[i]}) = i - 1
  BY <1>2, InOrderLists
<1> HIDE DEF s
<1>4. s \in Seq(1..MaxRecords)
  BY <1>2, <1>3, SeqMonotonic
<1>5. Increasing(s)
  BY <1>3 DEF Increasing
<1> QED
  <2>1. s = OffsetsIn(p, k, from, to) /\ S = OfKey(p, k, from, to)
    BY DEF OffsetsIn, OfKey, S, s
  <2> QED
    BY <1>2, <1>3, <1>4, <1>5, <2>1 DEF Under

(* After a read every key of the batch is in the dict, and the old ones    *)
(* still are.                                                              *)
LEMMA BatchKeys ==
    ASSUME TypeOK, NEW p \in Partitions, NEW from \in Nat \ {0}, NEW to \in Nat, to <= Len(log[p])
    PROVE  /\ order \o NewKeys(p, from, to) \in Seq(Keys)
           /\ ToSet(order) \subseteq ToSet(order \o NewKeys(p, from, to))
           /\ \A o \in from..to : log[p][o].key \in ToSet(order \o NewKeys(p, from, to))
<1> DEFINE key(o) == log[p][o].key
           firsts == {o \in from..to : /\ key(o) \notin ToSet(order)
                                       /\ \A e \in from..(o - 1) : key(e) # key(o)}
           s == InOrder(firsts)
           new == [i \in 1..Cardinality(firsts) |-> key(s[i])]
<1>1. Len(log[p]) \in Nat /\ log[p] \in Seq(Record) /\ order \in Seq(Keys)
  BY DEF TypeOK
<1>2. \A o \in from..to : key(o) \in Keys
  <2>1. from..to \subseteq 1..Len(log[p])
    BY <1>1
  <2>2. \A o \in 1..Len(log[p]) : log[p][o] \in Record
    BY <1>1, ElementOfSeq
  <2> QED
    BY <2>1, <2>2 DEF Record
<1> HIDE DEF key
<1>3. firsts \in SUBSET Nat /\ IsFiniteSet(firsts) /\ Cardinality(firsts) \in Nat
  <2>1. firsts \in SUBSET (from..to) /\ IsFiniteSet(from..to)
    BY FS_Interval
  <2>2. IsFiniteSet(firsts)
    BY <2>1, FS_Subset
  <2>3. from..to \subseteq Nat
    OBVIOUS
  <2> QED
    BY <2>1, <2>2, <2>3, FS_CardinalityType
<1>4. s \in Seq(firsts) /\ Len(s) = Cardinality(firsts) /\ ToSet(s) = firsts
  BY <1>3, InOrderLists
<1>5. \A i \in 1..Cardinality(firsts) : s[i] \in firsts
  BY <1>4, ElementOfSeq
<1> HIDE DEF s
<1>6. new \in Seq(Keys) /\ DOMAIN new = 1..Cardinality(firsts)
  <2>1. \A i \in 1..Cardinality(firsts) : key(s[i]) \in Keys
    BY <1>2, <1>5
  <2>2. new \in [1..Cardinality(firsts) -> Keys]
    BY <2>1
  <2> QED
    BY <1>3, <2>2
<1>7. \A o \in firsts : key(o) \in ToSet(new)
  <2> SUFFICES ASSUME NEW o \in firsts PROVE key(o) \in ToSet(new)
    OBVIOUS
  <2>1. PICK i \in DOMAIN s : s[i] = o
    BY <1>4 DEF ToSet
  <2>2. i \in DOMAIN new
    BY <1>4, <1>6, LenProperties
  <2>3. new[i] = key(o)
    BY <1>6, <2>1, <2>2
  <2> QED
    BY <2>2, <2>3 DEF ToSet
<1>8. ASSUME NEW o \in from..to, key(o) \notin ToSet(order) PROVE key(o) \in ToSet(new)
  <2> DEFINE same == {e \in from..to : key(e) = key(o)}
             t == InOrder(same)
  <2>1. same \in SUBSET Nat /\ IsFiniteSet(same) /\ Cardinality(same) \in Nat
    <3>1. same \in SUBSET (from..to) /\ IsFiniteSet(from..to)
      BY FS_Interval
    <3>2. IsFiniteSet(same)
      BY <3>1, FS_Subset
    <3>3. from..to \subseteq Nat
      OBVIOUS
    <3> QED
      BY <3>1, <3>2, <3>3, FS_CardinalityType
  <2>2. /\ t \in Seq(same) /\ Len(t) = Cardinality(same) /\ ToSet(t) = same
        /\ \A i, j \in 1..Cardinality(same) : i < j => t[i] < t[j]
    BY <2>1, InOrderLists
  <2>3. DOMAIN t = 1..Cardinality(same)
    BY <2>2, LenProperties
  <2>4. \A e \in same : \E i \in 1..Cardinality(same) : t[i] = e
    BY <2>2, <2>3 DEF ToSet
  <2>5. \A i \in 1..Cardinality(same) : t[i] \in same
    BY <2>2, ElementOfSeq
  <2>6. o \in same
    OBVIOUS
  <2>7. 1 \in 1..Cardinality(same)
    BY <2>1, <2>4, <2>6
  <2> HIDE DEF t
  <2>8. t[1] \in from..to /\ key(t[1]) = key(o) /\ \A e \in same : t[1] <= e
    <3>1. t[1] \in same
      BY <2>5, <2>7
    <3>2. \A e \in same : t[1] <= e
      <4> SUFFICES ASSUME NEW e \in same PROVE t[1] <= e
        OBVIOUS
      <4>1. PICK i \in 1..Cardinality(same) : t[i] = e
        BY <2>4
      <4>2. t[1] \in Nat /\ e \in Nat
        BY <2>1, <3>1
      <4>3. CASE i = 1
        BY <4>1, <4>2, <4>3
      <4>4. CASE i # 1
        <5>1. 1 < i
          BY <4>4
        <5> QED
          BY <2>2, <2>7, <4>1, <4>2, <5>1
      <4> QED
        BY <4>3, <4>4
    <3> QED
      BY <3>1, <3>2
  <2>9. t[1] \in firsts
    <3>1. \A e \in from..(t[1] - 1) : key(e) # key(t[1])
      BY <2>8
    <3> QED
      BY <1>8, <2>8, <3>1
  <2> QED
    BY <1>7, <2>8, <2>9
<1>9. ToSet(order \o new) = ToSet(order) \cup ToSet(new) /\ order \o new \in Seq(Keys)
  <2> HIDE DEF new
  <2>1. ToSet(order \o new) = ToSet(order) \cup ToSet(new)
    BY <1>1, <1>6, ConcatElems
  <2>2. order \o new \in Seq(Keys)
    BY <1>1, <1>6, ConcatProperties
  <2> QED
    BY <2>1, <2>2
<1>10. NewKeys(p, from, to) = new
  BY DEF NewKeys, key, s
<1> QED
  BY <1>8, <1>9, <1>10 DEF key

(* An emission never takes more flows than are buffered.                   *)
LEMMA CutCountType ==
    ASSUME TypeOK, NEW k \in Keys
    PROVE  CutCount(k) \in 0..Len(pending[k])
<1>1. Len(pending[k]) \in Nat
  BY LenProperties DEF TypeOK
<1>2. /\ Len(pending[k]) \div W \in Nat /\ (Len(pending[k]) \div W) * W <= Len(pending[k])
      /\ (Len(pending[k]) \div W) * W \in Nat
  <2>1. Len(pending[k]) \div W \in Nat /\ (Len(pending[k]) \div W) * W <= Len(pending[k])
    BY <1>1, DivBounds
  <2>2. ASSUME NEW q \in Nat PROVE q * W \in Nat
    BY WorkerAssumption
  <2> QED
    BY <2>1, <2>2
<1> QED
  BY <1>1, <1>2 DEF CutCount

(* What TakeChunk does to the buffer.                                      *)
LEMMA ChunkTaken ==
    ASSUME TypeOK, NEW k \in Keys
    PROVE  LET n == CutCount(k)
               chunk == SubSeq(pending[k], 1, n)
               rest == SubSeq(pending[k], n + 1, Len(pending[k]))
           IN  /\ chunk \in Seq(1..MaxRecords) /\ Len(chunk) = n
               /\ \A i \in 1..n : chunk[i] = pending[k][i]
               /\ rest \in Seq(1..MaxRecords) /\ Len(rest) = Len(pending[k]) - n
               /\ \A i \in 1..(Len(pending[k]) - n) : rest[i] = pending[k][n + i]
               /\ ToSet(pending[k]) = ToSet(chunk) \cup ToSet(rest)
<1>1. pending[k] \in Seq(1..MaxRecords) /\ CutCount(k) \in 0..Len(pending[k])
  BY CutCountType DEF TypeOK
<1> DEFINE S == 1..MaxRecords
           s == pending[k]
           n == CutCount(k)
<1>2. s \in Seq(S) /\ n \in 0..Len(s)
  BY <1>1
<1> HIDE DEF S, s, n
<1>3. LET front == SubSeq(s, 1, n)
          rest  == SubSeq(s, n + 1, Len(s))
      IN  /\ front \in Seq(S) /\ Len(front) = n /\ \A i \in 1..n : front[i] = s[i]
          /\ rest \in Seq(S) /\ Len(rest) = Len(s) - n
          /\ \A i \in 1..(Len(s) - n) : rest[i] = s[n + i]
          /\ ToSet(s) = ToSet(front) \cup ToSet(rest)
  BY <1>2, Split
<1> QED
  BY <1>3 DEF S, s, n

(* The elements of a sequence over S are in S.                             *)
LEMMA ElemsType ==
    ASSUME NEW S, NEW s \in Seq(S)
    PROVE  ToSet(s) \subseteq S
BY ElementOfSeq, LenProperties DEF ToSet

(* A window's identity is one of its own flows: its first.                 *)
LEMMA WindowFlowsType ==
    ASSUME NEW w \in Window
    PROVE  /\ FlowsOf(w) \subseteq Keys \X (1..MaxRecords)
           /\ Identity(w) \in FlowsOf(w)
<1>1. w.key \in Keys /\ w.recs \in Seq(1..MaxRecords) /\ w.recs # <<>>
  BY DEF Window
<1>2. ToSet(w.recs) \subseteq 1..MaxRecords
  BY <1>1, ElemsType
<1>3. w.recs[1] \in ToSet(w.recs)
  BY <1>1, EmptySeq, LenProperties DEF ToSet
<1> QED
  BY <1>1, <1>2, <1>3 DEF FlowsOf, Identity

(* An exception leaves the variables it resets in their types.             *)
LEMMA AbortType ==
    ASSUME TypeOK, NEW lost \in SUBSET (Keys \X (1..MaxRecords)), Abort(lost)
    PROVE  /\ raises' \in 0..MaxRaises /\ dropped' \subseteq Keys \X (1..MaxRecords)
           /\ mode' \in Emitting \cup {"idle", "stopped"} /\ turn' \in 1..(N + 1)
           /\ windows' \in Seq(Window) /\ visit' \in Seq(Keys) /\ release' \subseteq Keys
           /\ upto' \in 0..MaxRecords
<1>1. MaxRecords \in Nat /\ MaxRaises \in Nat /\ N \in Nat
  BY WorkerAssumption
<1> QED
  BY <1>1, EmptySeq DEF Abort, TypeOK, Emitting

(* The flows cut but not yet scored are flows.                             *)
LEMMA UnscoredType ==
    ASSUME TypeOK
    PROVE  Unscored \subseteq Keys \X (1..MaxRecords)
<1>1. \A i \in 1..Len(windows) : windows[i] \in Window
  BY ElementOfSeq DEF TypeOK
<1> QED
  BY <1>1, WindowFlowsType DEF Unscored

(* The buffered flows are flows.                                           *)
LEMMA BufferedType ==
    ASSUME TypeOK
    PROVE  Buffered \subseteq Keys \X (1..MaxRecords)
<1>1. \A k \in Keys : ToSet(pending[k]) \subseteq 1..MaxRecords
  BY ElemsType DEF TypeOK
<1> QED
  BY <1>1 DEF Buffered

(* One read keeps the types.                                               *)
LEMMA ReadType ==
    ASSUME TypeOK, NEW p \in Partitions, NEW n \in 1..BatchSize, Read(p, n)
    PROVE  TypeOK'
<1> USE DEF buffers, emission, history
<1> DEFINE from == ResumeFrom(p)
           to == from + n - 1
           fresh(k) == IF PartitionOf[k] = p THEN OffsetsIn(p, k, from, to) ELSE <<>>
<1>1. from \in Nat \ {0} /\ to \in Nat /\ to <= Len(log[p]) /\ to \in 0..MaxRecords
  <2>1. committed[p] \in Nat /\ Len(log[p]) \in Nat /\ Len(log[p]) <= MaxRecords /\ MaxRecords \in Nat
        /\ n \in Nat \ {0}
    BY WorkerAssumption DEF TypeOK
  <2> QED
    BY <2>1, SMTT(30) DEF Read, ResumeFrom
<1> HIDE DEF from, to
<1>2. \A k \in Keys : fresh(k) \in Seq(1..MaxRecords)
  BY <1>1, BatchOffsets, EmptySeq
<1>3. pending' \in [Keys -> Seq(1..MaxRecords)]
  <2>1. \A k \in Keys : pending[k] \o fresh(k) \in Seq(1..MaxRecords)
    BY <1>2, ConcatProperties DEF TypeOK
  <2>2. pending' = [k \in Keys |-> pending[k] \o fresh(k)]
    BY DEF Read, BufferExtended, from, to
  <2> HIDE DEF fresh
  <2> QED
    BY <2>1, <2>2
<1>4. since' \in [Keys -> 0..MaxRecords]
  <2>1. \A k \in Keys : fresh(k) # <<>> => fresh(k)[1] \in 0..MaxRecords
    <3> HIDE DEF fresh
    <3> SUFFICES ASSUME NEW k \in Keys, fresh(k) # <<>> PROVE fresh(k)[1] \in 0..MaxRecords
      OBVIOUS
    <3>1. 1 \in 1..Len(fresh(k))
      BY <1>2, EmptySeq
    <3>2. fresh(k)[1] \in 1..MaxRecords
      BY <1>2, <3>1, ElementOfSeq
    <3>3. 1..MaxRecords \subseteq 0..MaxRecords
      BY WorkerAssumption
    <3> QED
      BY <3>2, <3>3
  <2>2. since' = [k \in Keys |-> IF since[k] = 0 /\ fresh(k) # <<>> THEN fresh(k)[1] ELSE since[k]]
    BY DEF Read, from, to
  <2> HIDE DEF fresh
  <2> QED
    BY <2>1, <2>2 DEF TypeOK
<1>5. order' \in Seq(Keys) /\ visit' \in Seq(Keys)
  BY <1>1, BatchKeys DEF Read, from, to
<1>6. upto' \in 0..MaxRecords
  BY <1>1 DEF Read, from, to
<1> QED
  BY <1>3, <1>4, <1>5, <1>6 DEF Read, TypeOK, Emitting

(* Taking a chunk keeps the types, with or without the refusal.            *)
LEMMA TakeChunkType ==
    ASSUME TypeOK, NEW k \in Keys, TakeChunk(k)
    PROVE  TypeOK'
<1> USE DEF buffers, emission, history
<1> DEFINE n == CutCount(k)
           chunk == SubSeq(pending[k], 1, n)
           rest == SubSeq(pending[k], n + 1, Len(pending[k]))
<1>1. chunk \in Seq(1..MaxRecords) /\ rest \in Seq(1..MaxRecords)
  BY ChunkTaken
<1>2. /\ pending' = [pending EXCEPT ![k] = rest]
      /\ since' = [since EXCEPT ![k] = TimerAfterCut(k, rest)]
      /\ UNCHANGED <<log, committed, order, seen, scored, restarts>>
      /\ visit # <<>>
  BY DEF TakeChunk
<1>3. /\ log' \in [Partitions -> Seq(Record)] /\ \A p \in Partitions : Len(log'[p]) <= MaxRecords
      /\ committed' \in [Partitions -> 0..MaxRecords]
      /\ order' \in Seq(Keys) /\ seen' \subseteq Keys \X (1..MaxRecords) /\ scored' \subseteq Window
      /\ restarts' \in 0..MaxRestarts
  BY <1>2 DEF TypeOK
<1>4. pending' \in [Keys -> Seq(1..MaxRecords)] /\ since' \in [Keys -> 0..MaxRecords]
  <2>1. TimerAfterCut(k, rest) \in 0..MaxRecords
    BY WorkerAssumption DEF TimerAfterCut, TypeOK
  <2> HIDE DEF rest
  <2> QED
    BY <1>1, <1>2, <2>1 DEF TypeOK
<1>5. /\ turn' \in 1..(N + 1) /\ mode' \in Emitting \cup {"idle", "stopped"}
      /\ upto' \in 0..MaxRecords /\ release' \subseteq Keys /\ windows' \in Seq(Window)
      /\ visit' \in Seq(Keys) /\ dropped' \subseteq Keys \X (1..MaxRecords)
      /\ raises' \in 0..MaxRaises
  <2>1. CASE /\ windows' = Cut(k, chunk) /\ visit' = Tail(visit)
             /\ UNCHANGED <<turn, mode, upto, release, dropped, raises>>
    <3>1. windows' \in Seq(Window)
      BY <1>1, <2>1, CutLists
    <3>2. visit' \in Seq(Keys)
      BY <1>2, <2>1, HeadTailProperties DEF TypeOK
    <3> QED
      BY <2>1, <3>1, <3>2 DEF TypeOK
  <2>2. CASE Abort({<<k, o>> : o \in ToSet(chunk)})
    <3>1. ToSet(chunk) \subseteq 1..MaxRecords
      BY <1>1, ElemsType
    <3>2. {<<k, o>> : o \in ToSet(chunk)} \in SUBSET (Keys \X (1..MaxRecords))
      BY <3>1
    <3> QED
      BY <2>2, <3>2, AbortType
  <2> QED
    BY <2>1, <2>2 DEF TakeChunk
<1> QED
  BY <1>3, <1>4, <1>5 DEF TypeOK

(* Handing a window to the correlator keeps the types.                     *)
LEMMA PutType ==
    ASSUME TypeOK, windows # <<>>, Put(Head(windows))
    PROVE  /\ seen' \subseteq Keys \X (1..MaxRecords) /\ scored' \subseteq Window
           /\ FlowsOf(Head(windows)) \subseteq Keys \X (1..MaxRecords)
           /\ Tail(windows) \in Seq(Window)
<1>1. Head(windows) \in Window /\ Tail(windows) \in Seq(Window)
  BY HeadTailProperties DEF TypeOK
<1>2. Identity(Head(windows)) \in FlowsOf(Head(windows)) /\ FlowsOf(Head(windows)) \subseteq Keys \X (1..MaxRecords)
  BY <1>1, WindowFlowsType
<1> QED
  BY <1>1, <1>2 DEF Put, TypeOK

(* Every variable of the worker keeps its type: no offset beyond the log   *)
(* is ever committed or buffered, and no empty window is ever cut.         *)
THEOREM TypeCorrect == Spec => []TypeOK
<1> USE DEF buffers, emission, history
<1>1. Init => TypeOK
  <2> SUFFICES ASSUME Init PROVE TypeOK
    OBVIOUS
  <2>1. N + 1 \in Nat /\ 1 \in 1..(N + 1) /\ 0 \in 0..MaxRecords /\ 0 \in 0..MaxRaises /\ 0 \in 0..MaxRestarts
    BY WorkerAssumption
  <2>2. <<>> \in Seq(Record) /\ Len(<<>>) <= MaxRecords /\ <<>> \in Seq(1..MaxRecords)
        /\ <<>> \in Seq(Keys) /\ <<>> \in Seq(Window)
    BY EmptySeq, WorkerAssumption
  <2> QED
    BY <2>1, <2>2 DEF Init, TypeOK
<1>2. TypeOK /\ [Next]_vars => TypeOK'
  <2> SUFFICES ASSUME TypeOK, [Next]_vars PROVE TypeOK'
    OBVIOUS
  <2>1. ASSUME NEW k \in Keys, NEW t \in Timestamps, Produce(k, t) PROVE TypeOK'
    <3> DEFINE r == [key |-> k, ts |-> t]
               p == PartitionOf[k]
    <3>1. p \in Partitions /\ r \in Record
      BY WorkerAssumption DEF Record
    <3>2. log[p] \in Seq(Record) /\ Len(log[p]) \in Nat /\ Len(log[p]) < MaxRecords /\ MaxRecords \in Nat
      BY <2>1, <3>1, WorkerAssumption DEF TypeOK, Produce
    <3>3. log' = [log EXCEPT ![p] = Append(log[p], r)]
      BY <2>1 DEF Produce
    <3> HIDE DEF r, p
    <3>4. Append(log[p], r) \in Seq(Record) /\ Len(Append(log[p], r)) = Len(log[p]) + 1
      BY <3>1, <3>2
    <3>5. log' \in [Partitions -> Seq(Record)] /\ \A q \in Partitions : Len(log'[q]) <= MaxRecords
      BY <3>1, <3>2, <3>3, <3>4 DEF TypeOK
    <3> QED
      BY <2>1, <3>5 DEF Produce, TypeOK
  <2>2. ASSUME NEW p \in Partitions, NEW n \in 1..BatchSize, Read(p, n) PROVE TypeOK'
    BY <2>2, ReadType
  <2>3. ASSUME NEW p \in Partitions, Drained(p) PROVE TypeOK'
    <3>1. p + 1 \in 1..(N + 1)
      BY WorkerAssumption DEF Partitions
    <3> QED
      BY <2>3, <3>1 DEF Drained, TypeOK
  <2>4. ASSUME NEW ks \in SUBSET Keys, FlushStale(ks) PROVE TypeOK'
    BY <2>4 DEF FlushStale, TypeOK, Emitting
  <2>5. 1 \in 1..(N + 1)
    BY WorkerAssumption
  <2>6. CASE NothingStale
    BY <2>5, <2>6 DEF NothingStale, TypeOK
  <2>7. CASE Stop
    BY <2>7 DEF Stop, TypeOK, Emitting
  <2>8. ASSUME NEW k \in Keys, Skip(k) PROVE TypeOK'
    <3>1. Tail(visit) \in Seq(Keys)
      BY <2>8, HeadTailProperties DEF Skip, TypeOK
    <3> QED
      BY <2>8, <3>1 DEF Skip, TypeOK
  <2>9. ASSUME NEW k \in Keys, TakeChunk(k) PROVE TypeOK'
    BY <2>9, TakeChunkType
  <2>10. CASE Score
    <3>1. /\ seen' \subseteq Keys \X (1..MaxRecords) /\ scored' \subseteq Window
          /\ FlowsOf(Head(windows)) \subseteq Keys \X (1..MaxRecords)
          /\ windows' \in Seq(Window)
      BY <2>10, PutType DEF Score
    <3> QED
      BY <2>10, <3>1 DEF Score, TypeOK
  <2>11. CASE ScoreFails
    <3>1. Abort(Unscored) /\ Unscored \in SUBSET (Keys \X (1..MaxRecords))
      BY <2>11, UnscoredType DEF ScoreFails
    <3> QED
      BY <2>11, <3>1, AbortType DEF ScoreFails, TypeOK
  <2>12. CASE SaveFails
    <3>1. /\ Abort(Unscored \ FlowsOf(Head(windows)))
          /\ Unscored \ FlowsOf(Head(windows)) \in SUBSET (Keys \X (1..MaxRecords))
          /\ seen' \subseteq Keys \X (1..MaxRecords) /\ scored' \subseteq Window
      BY <2>12, UnscoredType, PutType DEF SaveFails
    <3> QED
      BY <2>12, <3>1, AbortType DEF SaveFails, TypeOK
  <2>13. CASE Commit
    <3>1. committed' \in [Partitions -> 0..MaxRecords]
      <4>1. CASE turn \in Partitions
        <5>1. committed[turn] \in 0..MaxRecords /\ upto \in 0..MaxRecords /\ MaxRecords \in Nat
          BY <4>1, WorkerAssumption DEF TypeOK
        <5>2. Max({committed[turn], upto}) \in 0..MaxRecords
          BY <5>1, MaxOfTwo
        <5> QED
          BY <2>13, <5>2 DEF Commit, TypeOK
      <4>2. CASE turn \notin Partitions
        BY <2>13, <4>2 DEF Commit, TypeOK
      <4> QED
        BY <4>1, <4>2
    <3>2. 0 \in 0..MaxRecords
      BY WorkerAssumption
    <3> QED
      BY <2>13, <3>1, <3>2 DEF Commit, TypeOK
  <2>14. CASE FlushDone
    BY <2>5, <2>14 DEF FlushDone, TypeOK
  <2>15. CASE Restart
    <3>1. 0 \in 0..MaxRecords /\ MaxRestarts \in Nat
      BY WorkerAssumption
    <3>2. <<>> \in Seq(1..MaxRecords) /\ <<>> \in Seq(Keys) /\ <<>> \in Seq(Window)
      BY EmptySeq
    <3>3. dropped' \subseteq Keys \X (1..MaxRecords)
      <4>1. dropped' = dropped \cup (Buffered \cup Unscored)
        BY <2>15 DEF Restart
      <4> QED
        BY <4>1, BufferedType, UnscoredType DEF TypeOK
    <3>4. restarts' \in 0..MaxRestarts
      BY <2>15, <3>1 DEF Restart, TypeOK
    <3> QED
      BY <2>5, <2>15, <3>1, <3>2, <3>3, <3>4 DEF Restart, TypeOK
  <2>16. CASE UNCHANGED vars
    BY <2>16 DEF vars, TypeOK
  <2> QED
    BY <2>1, <2>2, <2>3, <2>4, <2>6, <2>7, <2>8, <2>9, <2>10, <2>11, <2>12, <2>13, <2>14,
       <2>15, <2>16 DEF Next, Loop
<1> QED
  BY <1>1, <1>2, PTL DEF Spec


(* A timer runs for exactly the sources that have flows buffered.          *)
THEOREM TimersMatchBuffers == Spec => []BufferedHasTimer
<1> USE DEF buffers, emission, history
<1>1. Init => BufferedHasTimer
  BY DEF Init, BufferedHasTimer
<1>2. TypeOK /\ BufferedHasTimer /\ [Next]_vars => BufferedHasTimer'
  <2> SUFFICES ASSUME TypeOK, BufferedHasTimer, [Next]_vars PROVE BufferedHasTimer'
    OBVIOUS
  <2>1. CASE UNCHANGED <<pending, since>>
    BY <2>1 DEF BufferedHasTimer
  <2>2. ASSUME NEW p \in Partitions, NEW n \in 1..BatchSize, Read(p, n) PROVE BufferedHasTimer'
    <3> DEFINE from == ResumeFrom(p)
               to == from + n - 1
               fresh(k) == IF PartitionOf[k] = p THEN OffsetsIn(p, k, from, to) ELSE <<>>
    <3> SUFFICES ASSUME NEW k \in Keys PROVE since'[k] # 0 <=> pending'[k] # <<>>
      BY DEF BufferedHasTimer
    <3>1. /\ pending'[k] = pending[k] \o fresh(k)
          /\ since'[k] = IF since[k] = 0 /\ fresh(k) # <<>> THEN fresh(k)[1] ELSE since[k]
      BY <2>2 DEF Read, BufferExtended
    <3>2. from \in Nat \ {0} /\ to \in Nat /\ to <= Len(log[p])
      <4>1. committed[p] \in Nat /\ n \in Nat \ {0}
        BY WorkerAssumption DEF TypeOK
      <4> QED
        BY <2>2, <4>1 DEF Read, ResumeFrom
    <3> HIDE DEF from, to
    <3>3. fresh(k) \in Seq(1..MaxRecords)
      BY <3>2, BatchOffsets, EmptySeq
    <3> HIDE DEF fresh
    <3>4. fresh(k) # <<>> => fresh(k)[1] # 0
      <4> SUFFICES ASSUME fresh(k) # <<>> PROVE fresh(k)[1] # 0
        OBVIOUS
      <4>1. 1 \in 1..Len(fresh(k))
        BY <3>3, EmptySeq
      <4>2. fresh(k)[1] \in 1..MaxRecords
        BY <3>3, <4>1, ElementOfSeq
      <4> QED
        BY <4>2
    <3>5. pending[k] \in Seq(1..MaxRecords) /\ (since[k] # 0 <=> pending[k] # <<>>)
      BY DEF TypeOK, BufferedHasTimer
    <3>6. pending'[k] = <<>> <=> pending[k] = <<>> /\ fresh(k) = <<>>
      <4>1. pending[k] = <<>> /\ fresh(k) = <<>> => pending[k] \o fresh(k) = <<>>
        BY <3>3, ConcatEmptySeq
      <4>2. pending[k] \o fresh(k) = <<>> => pending[k] = <<>> /\ fresh(k) = <<>>
        BY <3>3, <3>5, ConcatSimplifications!concIsEmpty
      <4> QED
        BY <3>1, <4>1, <4>2
    <3> QED
      BY <3>1, <3>4, <3>5, <3>6
  <2>3. ASSUME NEW k \in Keys, TakeChunk(k) PROVE BufferedHasTimer'
    <3> DEFINE rest == SubSeq(pending[k], CutCount(k) + 1, Len(pending[k]))
    <3>1. /\ pending' = [pending EXCEPT ![k] = rest]
          /\ since' = [since EXCEPT ![k] = TimerAfterCut(k, rest)]
          /\ CutCount(k) > 0
      BY <2>3 DEF TakeChunk
    <3>2. pending[k] # <<>>
      <4>1. CutCount(k) \in 0..Len(pending[k]) /\ Len(pending[k]) \in Nat
        BY CutCountType, LenProperties DEF TypeOK
      <4> QED
        BY <3>1, <4>1, EmptySeq
    <3> HIDE DEF rest
    <3>3. since[k] # 0
      BY <3>2 DEF BufferedHasTimer
    <3> QED
      BY <3>1, <3>3 DEF BufferedHasTimer, TimerAfterCut, TypeOK
  <2>4. CASE Restart
    BY <2>4 DEF Restart, BufferedHasTimer
  <2>5. ASSUME NEW k \in Keys, Skip(k) \/ \E t \in Timestamps : Produce(k, t) PROVE BufferedHasTimer'
    BY <2>1, <2>5 DEF Skip, Produce
  <2>6. ASSUME NEW p \in Partitions, Drained(p) PROVE BufferedHasTimer'
    BY <2>1, <2>6 DEF Drained
  <2>7. ASSUME NEW ks \in SUBSET Keys, FlushStale(ks) PROVE BufferedHasTimer'
    BY <2>1, <2>7 DEF FlushStale
  <2>8. ASSUME NothingStale \/ Stop \/ Score \/ ScoreFails \/ SaveFails \/ Commit \/ FlushDone
               \/ UNCHANGED vars
        PROVE  BufferedHasTimer'
    BY <2>1, <2>8 DEF NothingStale, Stop, Score, ScoreFails, SaveFails, Commit, FlushDone, vars
  <2> QED
    BY <2>2, <2>3, <2>4, <2>5, <2>6, <2>7, <2>8 DEF Next, Loop
<1> QED
  BY <1>1, <1>2, TypeCorrect, PTL DEF Spec
-----------------------------------------------------------------------------
(* The last offset of p read by an emission that runs or has succeeded.    *)
Reached(p) == IF mode = "batch" /\ turn = p THEN upto ELSE committed[p]

(* A record is in its key's partition, and no offset is reached that was   *)
(* not produced.                                                           *)
ProgressInv ==
    /\ \A p \in Partitions : \A o \in 1..Len(log[p]) : PartitionOf[log[p][o].key] = p
    /\ \A p \in Partitions : committed[p] <= Reached(p) /\ Reached(p) <= Len(log[p])
    /\ mode = "batch" => turn \in Partitions

(* Everything the worker can tell about a flow it has read.                *)
Accounted == Buffered \cup Unscored \cup Counted \cup dropped

(* What has been reached is accounted for, also in the middle of a batch.  *)
AccountedInv == \A p \in Partitions : \A o \in 1..Reached(p) : FlowAt(p, o) \in Accounted

(* What is reached and what is committed are offsets.                      *)
LEMMA ReachedType ==
    ASSUME TypeOK, NEW p \in Partitions
    PROVE  Reached(p) \in 0..MaxRecords /\ committed[p] \in 0..MaxRecords /\ Len(log[p]) \in Nat
BY LenProperties DEF TypeOK, Reached

(* A step inside an emission, or one that ends it, reaches nothing new.    *)
LEMMA NothingReached ==
    ASSUME TypeOK, ProgressInv, UNCHANGED <<log, committed>>,
           mode' # "batch" \/ UNCHANGED <<mode, turn, upto>>
    PROVE  ProgressInv' /\ \A p \in Partitions : Reached(p)' <= Reached(p)
<1>1. \A p \in Partitions : /\ Reached(p)' \in {Reached(p), committed[p]}
                            /\ committed[p] \in Nat /\ Reached(p) \in Nat /\ Len(log[p]) \in Nat
  <2> TAKE p \in Partitions
  <2>1. Reached(p) \in 0..MaxRecords /\ committed[p] \in 0..MaxRecords /\ Len(log[p]) \in Nat
    BY ReachedType
  <2>2. CASE mode' # "batch"
    BY <2>1, <2>2 DEF Reached
  <2>3. CASE UNCHANGED <<mode, turn, upto>>
    BY <2>1, <2>3 DEF Reached
  <2> QED
    BY <2>2, <2>3
<1>2. \A p \in Partitions : committed[p] <= Reached(p) /\ Reached(p) <= Len(log[p])
  BY DEF ProgressInv
<1>3. \A p \in Partitions : /\ Reached(p)' <= Reached(p)
                            /\ committed[p] <= Reached(p)' /\ Reached(p)' <= Len(log[p])
  BY <1>1, <1>2
<1>4. mode' = "batch" => turn' \in Partitions
  BY DEF ProgressInv
<1>5. \A p \in Partitions : committed'[p] <= Reached(p)' /\ Reached(p)' <= Len(log'[p])
  BY <1>3
<1>6. \A p \in Partitions : \A o \in 1..Len(log'[p]) : PartitionOf[log'[p][o].key] = p
  BY DEF ProgressInv
<1> QED
  BY <1>3, <1>4, <1>5, <1>6 DEF ProgressInv

(* A produced record joins the end of its partition; the others stay.      *)
LEMMA LogGrows ==
    ASSUME TypeOK, NEW k \in Keys, NEW t \in Timestamps, Produce(k, t)
    PROVE  LET p == PartitionOf[k] IN
           /\ p \in Partitions
           /\ \A q \in Partitions : Len(log'[q]) = IF q = p THEN Len(log[q]) + 1 ELSE Len(log[q])
           /\ \A q \in Partitions : \A o \in 1..Len(log[q]) : log'[q][o] = log[q][o]
           /\ log'[p][Len(log[p]) + 1].key = k
<1> DEFINE r == [key |-> k, ts |-> t]
           p == PartitionOf[k]
<1>1. p \in Partitions /\ r \in Record
  BY WorkerAssumption DEF Record
<1>2. \A q \in Partitions : log[q] \in Seq(Record) /\ Len(log[q]) \in Nat
  BY LenProperties DEF TypeOK
<1>3. log' = [log EXCEPT ![p] = Append(log[p], r)]
  BY DEF Produce
<1> HIDE DEF r, p
<1>4. /\ Len(Append(log[p], r)) = Len(log[p]) + 1 /\ Append(log[p], r)[Len(log[p]) + 1] = r
      /\ \A o \in 1..Len(log[p]) : Append(log[p], r)[o] = log[p][o]
  BY <1>1, <1>2, AppendProperties
<1>5. \A q \in Partitions : log'[q] = IF q = p THEN Append(log[p], r) ELSE log[q]
  BY <1>3 DEF TypeOK
<1> QED
  <2>1. r.key = k
    BY DEF r
  <2>2. /\ \A q \in Partitions : Len(log'[q]) = IF q = p THEN Len(log[q]) + 1 ELSE Len(log[q])
        /\ \A q \in Partitions : \A o \in 1..Len(log[q]) : log'[q][o] = log[q][o]
    BY <1>1, <1>4, <1>5
  <2>3. log'[p][Len(log[p]) + 1].key = k
    BY <1>1, <1>4, <1>5, <2>1
  <2> QED
    BY <1>1, <2>2, <2>3 DEF p

(* Offsets are never ahead of the broker, whatever is replayed.            *)
LEMMA ProgressInvariant == Spec => []ProgressInv
<1> USE DEF buffers, emission, history
<1>1. Init => ProgressInv
  BY EmptySeq DEF Init, ProgressInv, Reached
<1>2. TypeOK /\ TypeOK' /\ ProgressInv /\ [Next]_vars => ProgressInv'
  <2> SUFFICES ASSUME TypeOK, TypeOK', ProgressInv, [Next]_vars PROVE ProgressInv'
    OBVIOUS
  <2>1. ASSUME NEW k \in Keys, NEW t \in Timestamps, Produce(k, t) PROVE ProgressInv'
    <3> DEFINE p == PartitionOf[k]
    <3>1. /\ \A q \in Partitions : Len(log'[q]) = IF q = p THEN Len(log[q]) + 1 ELSE Len(log[q])
          /\ \A q \in Partitions : \A o \in 1..Len(log[q]) : log'[q][o] = log[q][o]
          /\ log'[p][Len(log[p]) + 1].key = k
      BY <2>1, LogGrows
    <3>2. UNCHANGED <<committed, mode, turn, upto>>
      BY <2>1 DEF Produce
    <3>3. \A q \in Partitions : Len(log[q]) \in Nat
      BY ReachedType
    <3>4. \A q \in Partitions : \A o \in 1..Len(log'[q]) : PartitionOf[log'[q][o].key] = q
      <4> TAKE q \in Partitions
      <4> TAKE o \in 1..Len(log'[q])
      <4>1. CASE o \in 1..Len(log[q])
        BY <3>1, <4>1 DEF ProgressInv
      <4>2. CASE o \notin 1..Len(log[q])
        <5>1. q = p /\ o = Len(log[p]) + 1
          BY <3>1, <3>3, <4>2
        <5> QED
          BY <3>1, <5>1
      <4> QED
        BY <4>1, <4>2
    <3>5. ASSUME NEW q \in Partitions PROVE committed'[q] <= Reached(q)' /\ Reached(q)' <= Len(log'[q])
      <4>1. Reached(q)' = Reached(q) /\ committed' = committed
        BY <3>2 DEF Reached
      <4>2. /\ Reached(q) \in Nat /\ Len(log[q]) \in Nat
            /\ committed[q] <= Reached(q) /\ Reached(q) <= Len(log[q])
        BY ReachedType DEF ProgressInv
      <4>3. Len(log'[q]) \in {Len(log[q]), Len(log[q]) + 1}
        BY <3>1
      <4> QED
        BY <4>1, <4>2, <4>3
    <3> QED
      BY <3>2, <3>4, <3>5 DEF ProgressInv
  <2>2. ASSUME NEW p \in Partitions, NEW n \in 1..BatchSize, Read(p, n) PROVE ProgressInv'
    <3>1. /\ mode = "idle" /\ turn = p /\ mode' = "batch" /\ upto' = committed[p] + 1 + n - 1
          /\ upto' <= Len(log[p]) /\ UNCHANGED <<log, committed, turn>>
      BY <2>2 DEF Read, ResumeFrom
    <3>2. ASSUME NEW q \in Partitions PROVE committed'[q] <= Reached(q)' /\ Reached(q)' <= Len(log'[q])
      <4>1. CASE q = p
        <5>1. Reached(q)' = upto' /\ committed[p] \in Nat /\ n \in Nat
          BY <3>1, <4>1, WorkerAssumption DEF Reached, TypeOK
        <5> QED
          BY <3>1, <4>1, <5>1
      <4>2. CASE q # p
        <5>1. Reached(q)' = Reached(q)
          BY <3>1, <4>2 DEF Reached
        <5> QED
          BY <3>1, <5>1 DEF ProgressInv
      <4> QED
        BY <4>1, <4>2
    <3> QED
      BY <3>1, <3>2 DEF ProgressInv
  <2>3. CASE Commit
    <3>1. /\ mode = "batch" /\ mode' = "idle" /\ UNCHANGED <<log, turn>>
          /\ committed' = [committed EXCEPT ![turn] = Max({committed[turn], upto})]
      BY <2>3 DEF Commit
    <3>2. turn \in Partitions /\ committed[turn] \in Nat /\ upto \in Nat /\ committed[turn] <= upto
          /\ Reached(turn) = upto
      BY <3>1, WorkerAssumption DEF ProgressInv, TypeOK, Reached
    <3>3. Max({committed[turn], upto}) = upto
      BY <3>2, MaxOfTwo
    <3>4. ASSUME NEW q \in Partitions PROVE committed'[q] = Reached(q) /\ Reached(q)' = Reached(q)
      BY <3>1, <3>2, <3>3 DEF Reached, TypeOK
    <3>5. ASSUME NEW q \in Partitions PROVE committed'[q] <= Reached(q)' /\ Reached(q)' <= Len(log'[q])
      <4>1. Reached(q) \in Nat /\ Reached(q) <= Len(log[q])
        BY ReachedType DEF ProgressInv
      <4>2. committed'[q] = Reached(q) /\ Reached(q)' = Reached(q) /\ log' = log
        BY <3>1, <3>4
      <4> QED
        BY <4>1, <4>2
    <3> QED
      BY <3>1, <3>5 DEF ProgressInv
  <2>4. CASE Restart
    <3>1. UNCHANGED log /\ mode' = "idle" /\ committed' = [p \in Partitions |-> 0]
      BY <2>4 DEF Restart
    <3>2. \A q \in Partitions : committed'[q] = 0 /\ Reached(q)' = 0 /\ Len(log[q]) \in Nat
      BY <3>1, ReachedType DEF Reached
    <3> QED
      BY <3>1, <3>2 DEF ProgressInv
  <2>5. ASSUME NEW k \in Keys, TakeChunk(k) PROVE ProgressInv'
    BY <2>5, NothingReached DEF TakeChunk, Abort
  <2>6. ASSUME NEW k \in Keys, Skip(k) PROVE ProgressInv'
    BY <2>6, NothingReached DEF Skip
  <2>7. ASSUME NEW p \in Partitions, Drained(p) PROVE ProgressInv'
    BY <2>7, NothingReached DEF Drained
  <2>8. ASSUME NEW ks \in SUBSET Keys, FlushStale(ks) PROVE ProgressInv'
    BY <2>8, NothingReached DEF FlushStale
  <2>9. CASE NothingStale \/ Stop
    BY <2>9, NothingReached DEF NothingStale, Stop
  <2>10. CASE ScoreFails \/ SaveFails
    BY <2>10, NothingReached DEF ScoreFails, SaveFails, Abort
  <2>11. CASE Score \/ FlushDone \/ UNCHANGED vars
    BY <2>11, NothingReached DEF Score, FlushDone, vars
  <2> QED
    BY <2>1, <2>2, <2>3, <2>4, <2>5, <2>6, <2>7, <2>8, <2>9, <2>10, <2>11 DEF Next, Loop
<1> QED
  BY <1>1, <1>2, TypeCorrect, PTL DEF Spec

-----------------------------------------------------------------------------
(* Where the flows go in each step, as sets.                               *)
LEMMA ReadFlows ==
    ASSUME TypeOK, ProgressInv, NEW p \in Partitions, NEW n \in 1..BatchSize, Read(p, n)
    PROVE  LET from == committed[p] + 1
               batch == {FlowAt(p, o) : o \in from..upto'}
           IN  /\ Buffered' = Buffered \cup batch
               /\ upto' \in Nat /\ upto' <= Len(log[p]) /\ committed[p] < upto'
               /\ \A k \in Keys : pending'[k] =
                    pending[k] \o (IF PartitionOf[k] = p THEN OffsetsIn(p, k, from, upto') ELSE <<>>)
<1> DEFINE from == committed[p] + 1
           to == upto'
           fresh(k) == IF PartitionOf[k] = p THEN OffsetsIn(p, k, from, to) ELSE <<>>
           batch == {FlowAt(p, o) : o \in from..to}
<1>1. from \in Nat \ {0} /\ to \in Nat /\ to <= Len(log[p]) /\ Len(log[p]) \in Nat /\ committed[p] < to
  <2>1. committed[p] \in Nat /\ Len(log[p]) \in Nat /\ n \in Nat \ {0}
    BY WorkerAssumption DEF TypeOK
  <2>2. to = committed[p] + 1 + n - 1 /\ to <= Len(log[p])
    BY DEF Read, ResumeFrom
  <2> QED
    BY <2>1, <2>2
<1>2. pending' = [k \in Keys |-> pending[k] \o fresh(k)]
  BY DEF Read, ResumeFrom, BufferExtended
<1>3. ASSUME NEW k \in Keys
      PROVE  ToSet(pending'[k]) = ToSet(pending[k]) \cup OfKey(p, k, from, to)
  <2>1. pending[k] \in Seq(1..MaxRecords)
    BY DEF TypeOK
  <2>2. fresh(k) \in Seq(1..MaxRecords) /\ ToSet(fresh(k)) = OfKey(p, k, from, to)
    <3>1. CASE PartitionOf[k] = p
      BY <1>1, <3>1, BatchOffsets
    <3>2. CASE PartitionOf[k] # p
      <4>1. \A o \in from..to : o \in 1..Len(log[p])
        BY <1>1
      <4>2. OfKey(p, k, from, to) = {}
        BY <3>2, <4>1 DEF ProgressInv, OfKey
      <4>3. fresh(k) = <<>> /\ ToSet(<<>>) = {}
        BY <3>2, EmptySeq DEF ToSet
      <4> QED
        BY <4>2, <4>3, EmptySeq
    <3> QED
      BY <3>1, <3>2
  <2>3. pending'[k] = pending[k] \o fresh(k)
    BY <1>2
  <2> HIDE DEF fresh
  <2> QED
    BY <2>1, <2>2, <2>3, ConcatElems
<1>4. ASSUME NEW o \in from..to PROVE log[p][o].key \in Keys
  <2>1. o \in 1..Len(log[p]) /\ log[p] \in Seq(Record)
    BY <1>1 DEF TypeOK
  <2>2. log[p][o] \in Record
    BY <2>1, ElementOfSeq
  <2> QED
    BY <2>2 DEF Record
<1>5. Buffered' = Buffered \cup batch
  <2> HIDE DEF from, to
  <2>1. Buffered' = UNION {{<<k, o>> : o \in ToSet(pending'[k])} : k \in Keys}
    BY DEF Buffered
  <2>2. \A k \in Keys : {<<k, o>> : o \in ToSet(pending'[k])} =
                            {<<k, o>> : o \in ToSet(pending[k])}
                                \cup {<<k, o>> : o \in OfKey(p, k, from, to)}
    BY <1>3
  <2>3. batch = UNION {{<<k, o>> : o \in OfKey(p, k, from, to)} : k \in Keys}
    BY <1>4 DEF FlowAt, OfKey
  <2> QED
    BY <2>1, <2>2, <2>3 DEF Buffered
<1> QED
  BY <1>1, <1>2, <1>5

(* Taking a chunk moves its flows from the buffer to the windows, or, when *)
(* the chunk is refused, out of the worker.                                *)
LEMMA ChunkFlows ==
    ASSUME TypeOK, NEW k \in Keys, TakeChunk(k)
    PROVE  LET chunk == SubSeq(pending[k], 1, CutCount(k))
               taken == KeyFlows(k, chunk)
           IN  /\ Buffered = Buffered' \cup taken /\ Unscored = {} /\ scored' = scored
               /\ \/ /\ windows' = Cut(k, chunk) /\ Unscored' = taken
                     /\ UNCHANGED <<dropped, raises, mode, turn, upto>>
                  \/ /\ windows' = <<>> /\ Unscored' = {} /\ dropped' = dropped \cup taken
                     /\ raises' = raises + 1 /\ mode' # "batch"
<1> DEFINE chunk == SubSeq(pending[k], 1, CutCount(k))
           rest == SubSeq(pending[k], CutCount(k) + 1, Len(pending[k]))
           taken == KeyFlows(k, chunk)
<1>1. chunk \in Seq(1..MaxRecords) /\ ToSet(pending[k]) = ToSet(chunk) \cup ToSet(rest)
  BY ChunkTaken
<1>2. pending' = [pending EXCEPT ![k] = rest] /\ windows = <<>> /\ scored' = scored
  BY DEF TakeChunk
<1>3. Buffered = Buffered' \cup taken
  <2> HIDE DEF chunk, rest
  <2>1. \A j \in Keys : pending'[j] = IF j = k THEN rest ELSE pending[j]
    BY <1>2 DEF TypeOK
  <2>2. \A j \in Keys : {<<j, o>> : o \in ToSet(pending[j])} =
            {<<j, o>> : o \in ToSet(pending'[j])} \cup (IF j = k THEN taken ELSE {})
    BY <1>1, <2>1 DEF KeyFlows
  <2>3. Buffered' = UNION {{<<j, o>> : o \in ToSet(pending'[j])} : j \in Keys}
    BY DEF Buffered
  <2> HIDE DEF taken
  <2> QED
    BY <2>2, <2>3 DEF Buffered
<1>4. WindowFlows(<<>>) = {} /\ Unscored = WindowFlows(windows) /\ Unscored' = WindowFlows(windows')
  BY EmptySeq DEF WindowFlows, Unscored
<1>5. WindowFlows(Cut(k, chunk)) = taken
  BY <1>1, CutLists
<1>6. \/ windows' = Cut(k, chunk) /\ UNCHANGED <<dropped, raises, mode, turn, upto>>
      \/ Abort(taken)
  BY DEF TakeChunk, KeyFlows
<1>7. ASSUME Abort(taken)
      PROVE  /\ windows' = <<>> /\ dropped' = dropped \cup taken
             /\ raises' = raises + 1 /\ mode' # "batch"
  BY <1>7 DEF Abort
<1> HIDE DEF chunk, taken
<1>8. \/ /\ windows' = Cut(k, chunk) /\ Unscored' = taken
         /\ UNCHANGED <<dropped, raises, mode, turn, upto>>
      \/ /\ windows' = <<>> /\ Unscored' = {} /\ dropped' = dropped \cup taken
         /\ raises' = raises + 1 /\ mode' # "batch"
  BY <1>4, <1>5, <1>6, <1>7
<1> QED
  BY <1>2, <1>3, <1>4, <1>8 DEF chunk, taken

(* What is in the windows still to score after the head left.              *)
LEMMA HeadFlows ==
    ASSUME TypeOK, windows # <<>>
    PROVE  /\ Unscored = FlowsOf(Head(windows)) \cup WindowFlows(Tail(windows))
           /\ Len(windows) \in Nat \ {0} /\ Head(windows) = windows[1] /\ Head(windows) \in Window
           /\ Tail(windows) \in Seq(Window) /\ Len(Tail(windows)) = Len(windows) - 1
           /\ \A i \in 1..Len(Tail(windows)) : Tail(windows)[i] = windows[i + 1]
<1> DEFINE t == Tail(windows)
<1>1. windows \in Seq(Window) /\ windows # <<>>
  BY DEF TypeOK
<1>2. /\ t \in Seq(Window) /\ Len(t) = Len(windows) - 1 /\ Len(windows) \in Nat \ {0}
      /\ Head(windows) = windows[1] /\ Head(windows) \in Window
      /\ \A i \in 1..Len(t) : t[i] = windows[i + 1]
  BY <1>1, HeadTailProperties, LenProperties, EmptySeq
<1> HIDE DEF t
<1>3. \A i \in 1..Len(windows) : i = 1 \/ (i - 1 \in 1..Len(t) /\ windows[i] = t[i - 1])
  BY <1>2
<1>4. \A i \in 1..Len(t) : i + 1 \in 1..Len(windows)
  BY <1>2
<1>5. Unscored = FlowsOf(windows[1]) \cup WindowFlows(t)
  <2>1. Unscored \subseteq FlowsOf(windows[1]) \cup WindowFlows(t)
    BY <1>3 DEF Unscored, WindowFlows
  <2>2. FlowsOf(windows[1]) \subseteq Unscored
    BY <1>2 DEF Unscored
  <2>3. WindowFlows(t) \subseteq Unscored
    BY <1>2, <1>4 DEF Unscored, WindowFlows
  <2> QED
    BY <2>1, <2>2, <2>3
<1> QED
  BY <1>2, <1>5 DEF t

(* A window's flows are counted unless its identity was seen before.       *)
LEMMA PutCounts ==
    ASSUME NEW w, Put(w)
    PROVE  Counted' = IF Identity(w) \in seen THEN Counted ELSE Counted \cup FlowsOf(w)
<1>1. CASE Identity(w) \in seen
  BY <1>1 DEF Put, Counted
<1>2. CASE Identity(w) \notin seen
  <2>1. scored' = scored \cup {w} /\ Counted' = UNION {FlowsOf(x) : x \in scored'}
    BY <1>2 DEF Put, Counted
  <2> QED
    BY <1>2, <2>1 DEF Counted
<1> QED
  BY <1>1, <1>2

(* A step that reaches nothing new and forgets no flow keeps AccountedInv. *)
LEMMA StillAccounted ==
    ASSUME AccountedInv, UNCHANGED log, Accounted \subseteq Accounted', TypeOK, TypeOK',
           \A p \in Partitions : Reached(p)' <= Reached(p)
    PROVE  AccountedInv'
<1> SUFFICES ASSUME NEW p \in Partitions, NEW o \in 1..Reached(p)' PROVE FlowAt(p, o)' \in Accounted'
  BY DEF AccountedInv
<1>1. Reached(p) \in Nat /\ Reached(p)' \in Nat
  <2>1. Reached(p) \in Nat
    BY ReachedType
  <2>2. Reached(p)' \in 0..MaxRecords
    BY DEF TypeOK, Reached
  <2> QED
    BY <2>1, <2>2
<1>2. o \in 1..Reached(p)
  BY <1>1
<1>3. FlowAt(p, o)' = FlowAt(p, o)
  BY DEF FlowAt
<1> QED
  BY <1>2, <1>3 DEF AccountedInv

(* The inductive step, for the actions that move flows.                    *)
LEMMA FlowsKept ==
    ASSUME TypeOK, windows # <<>>, Score \/ ScoreFails \/ SaveFails
    PROVE  Accounted \subseteq Accounted'
<1> DEFINE w == Head(windows)
<1>1. /\ Unscored = FlowsOf(w) \cup WindowFlows(Tail(windows))
      /\ Unscored' = WindowFlows(windows') /\ WindowFlows(<<>>) = {}
  BY HeadFlows, EmptySeq DEF Unscored, WindowFlows
<1>2. Buffered' = Buffered
  BY DEF Score, ScoreFails, SaveFails, Buffered, buffers
<1>3. CASE Score
  <2>1. Put(w) /\ windows' = Tail(windows)
        /\ dropped' = IF Identity(w) \in seen THEN dropped \cup FlowsOf(w) ELSE dropped
    BY <1>3 DEF Score
  <2> HIDE DEF w
  <2>2. Counted' = IF Identity(w) \in seen THEN Counted ELSE Counted \cup FlowsOf(w)
    BY <2>1, PutCounts
  <2> QED
    BY <1>1, <1>2, <2>1, <2>2 DEF Accounted
<1>4. CASE ScoreFails
  BY <1>1, <1>2, <1>4 DEF ScoreFails, Abort, Accounted, Counted
<1>5. CASE SaveFails
  <2>1. Put(w) /\ Identity(w) \notin seen /\ dropped' = dropped \cup (Unscored \ FlowsOf(w))
    BY <1>5 DEF SaveFails, Abort
  <2> HIDE DEF w
  <2>2. Counted' = Counted \cup FlowsOf(w)
    BY <2>1, PutCounts
  <2> QED
    BY <1>1, <1>2, <2>1, <2>2 DEF Accounted
<1> QED
  BY <1>3, <1>4, <1>5

(* Each handler passes the flows it takes on, or records their loss.       *)
LEMMA AccountedInvariant == Spec => []AccountedInv
<1> USE DEF buffers, emission, history
<1>1. Init => AccountedInv
  <2> SUFFICES ASSUME Init, NEW p \in Partitions PROVE Reached(p) = 0
    BY DEF AccountedInv
  <2> QED
    BY DEF Init, Reached
<1>2. TypeOK /\ TypeOK' /\ ProgressInv /\ AccountedInv /\ [Next]_vars => AccountedInv'
  <2> SUFFICES ASSUME TypeOK, TypeOK', ProgressInv, AccountedInv, [Next]_vars PROVE AccountedInv'
    OBVIOUS
  <2>1. ASSUME NEW k \in Keys, NEW t \in Timestamps, Produce(k, t) PROVE AccountedInv'
    <3> SUFFICES ASSUME NEW p \in Partitions, NEW o \in 1..Reached(p)'
                 PROVE  FlowAt(p, o)' \in Accounted'
      BY DEF AccountedInv
    <3>1. UNCHANGED <<committed, mode, turn, upto, pending, windows, scored, dropped>>
      BY <2>1 DEF Produce
    <3>2. Accounted' = Accounted /\ Reached(p)' = Reached(p)
      BY <3>1 DEF Accounted, Buffered, Unscored, Counted, Reached
    <3>3. o \in 1..Reached(p) /\ o \in 1..Len(log[p])
      <4>1. Reached(p) \in Nat /\ Reached(p) <= Len(log[p]) /\ Len(log[p]) \in Nat
        BY ReachedType DEF ProgressInv
      <4> QED
        BY <3>2, <4>1
    <3>4. log'[p][o] = log[p][o]
      BY <2>1, <3>3, LogGrows
    <3> QED
      BY <3>2, <3>3, <3>4 DEF AccountedInv, FlowAt
  <2>2. ASSUME NEW p \in Partitions, NEW n \in 1..BatchSize, Read(p, n) PROVE AccountedInv'
    <3> SUFFICES ASSUME NEW q \in Partitions, NEW o \in 1..Reached(q)'
                 PROVE  FlowAt(q, o)' \in Accounted'
      BY DEF AccountedInv
    <3>1. /\ mode = "idle" /\ turn = p /\ mode' = "batch"
          /\ UNCHANGED <<log, committed, turn, windows, scored, dropped>>
      BY <2>2 DEF Read
    <3>2. /\ Buffered' = Buffered \cup {FlowAt(p, x) : x \in (committed[p] + 1)..upto'}
          /\ upto' \in Nat /\ committed[p] < upto' /\ committed[p] \in Nat
      <4>1. committed[p] \in Nat
        BY ReachedType
      <4> QED
        BY <2>2, <4>1, ReadFlows
    <3>3. Accounted' = Accounted \cup {FlowAt(p, x) : x \in (committed[p] + 1)..upto'}
      BY <3>1, <3>2 DEF Accounted, Unscored, Counted
    <3>4. FlowAt(q, o)' = FlowAt(q, o)
      BY <3>1 DEF FlowAt
    <3>5. CASE o \in 1..Reached(q)
      BY <3>3, <3>4, <3>5 DEF AccountedInv
    <3>6. CASE o \notin 1..Reached(q)
      <4>1. q = p /\ Reached(q)' = upto' /\ Reached(q) = committed[p]
        BY <3>1, <3>6 DEF Reached
      <4>2. o \in (committed[p] + 1)..upto'
        BY <3>2, <3>6, <4>1
      <4> QED
        BY <3>3, <3>4, <4>1, <4>2
    <3> QED
      BY <3>5, <3>6
  <2>3. CASE Commit
    <3>1. Accounted' = Accounted /\ log' = log
      BY <2>3 DEF Commit, Accounted, Buffered, Unscored, Counted
    <3>2. \A q \in Partitions : Reached(q)' <= Reached(q)
      <4> TAKE q \in Partitions
      <4>1. /\ mode = "batch" /\ mode' = "idle"
            /\ committed' = [committed EXCEPT ![turn] = Max({committed[turn], upto})]
        BY <2>3 DEF Commit
      <4>2. turn \in Partitions /\ committed[turn] \in Nat /\ upto \in Nat /\ committed[turn] <= upto
        BY <4>1, WorkerAssumption DEF ProgressInv, TypeOK, Reached
      <4>3. Reached(q)' = Reached(q)
        BY <4>1, <4>2, MaxOfTwo DEF Reached, TypeOK
      <4>4. Reached(q) \in Nat
        BY ReachedType
      <4> QED
        BY <4>3, <4>4
    <3> QED
      BY <3>1, <3>2, StillAccounted
  <2>4. CASE Restart
    <3> SUFFICES ASSUME NEW p \in Partitions PROVE Reached(p)' = 0
      BY DEF AccountedInv
    <3> QED
      BY <2>4 DEF Restart, Reached
  <2>5. ASSUME NEW k \in Keys, TakeChunk(k) PROVE AccountedInv'
    <3>1. UNCHANGED <<log, committed>> /\ (mode' # "batch" \/ UNCHANGED <<mode, turn, upto>>)
      BY <2>5 DEF TakeChunk, Abort
    <3>2. Accounted \subseteq Accounted'
      <4> DEFINE taken == KeyFlows(k, SubSeq(pending[k], 1, CutCount(k)))
      <4>1. /\ Buffered = Buffered' \cup taken /\ Unscored = {} /\ scored' = scored
            /\ \/ Unscored' = taken /\ UNCHANGED dropped
               \/ dropped' = dropped \cup taken
        BY <2>5, ChunkFlows
      <4> HIDE DEF taken
      <4> QED
        BY <4>1 DEF Accounted, Counted
    <3> QED
      BY <3>1, <3>2, NothingReached, StillAccounted
  <2>6. CASE Score \/ ScoreFails \/ SaveFails
    <3>1. windows # <<>> /\ UNCHANGED <<log, committed>>
          /\ (mode' # "batch" \/ UNCHANGED <<mode, turn, upto>>)
      BY <2>6 DEF Score, ScoreFails, SaveFails, Abort
    <3> QED
      BY <2>6, <3>1, FlowsKept, NothingReached, StillAccounted
  <2>7. ASSUME UNCHANGED <<log, committed, pending, windows, scored, dropped>>,
               mode' # "batch" \/ UNCHANGED <<mode, turn, upto>>
        PROVE  AccountedInv'
    <3>1. Accounted' = Accounted
      BY <2>7 DEF Accounted, Buffered, Unscored, Counted
    <3> QED
      BY <2>7, <3>1, NothingReached, StillAccounted
  <2>8. ASSUME NEW k \in Keys, Skip(k) PROVE AccountedInv'
    BY <2>7, <2>8 DEF Skip
  <2>9. ASSUME NEW p \in Partitions, Drained(p) PROVE AccountedInv'
    BY <2>7, <2>9 DEF Drained
  <2>10. ASSUME NEW ks \in SUBSET Keys, FlushStale(ks) PROVE AccountedInv'
    BY <2>7, <2>10 DEF FlushStale
  <2>11. CASE NothingStale \/ Stop \/ FlushDone \/ UNCHANGED vars
    BY <2>7, <2>11 DEF NothingStale, Stop, FlushDone, vars
  <2> QED
    BY <2>1, <2>2, <2>3, <2>4, <2>5, <2>6, <2>8, <2>9, <2>10, <2>11 DEF Next, Loop
<1> QED
  BY <1>1, <1>2, TypeCorrect, ProgressInvariant, PTL DEF Spec

(* CommittedAccounted: a flow whose offset is committed is buffered, about *)
(* to be scored or counted, or it left through an exception, a duplicate   *)
(* identity or the end of the process.                                     *)
THEOREM CommittedIsAccounted == Spec => []CommittedAccounted
<1>1. TypeOK /\ ProgressInv /\ AccountedInv => CommittedAccounted
  <2> SUFFICES ASSUME TypeOK, ProgressInv, AccountedInv, NEW p \in Partitions, NEW o \in 1..committed[p]
               PROVE  FlowAt(p, o) \in Accounted
    BY DEF CommittedAccounted, CommittedFlows, Accounted
  <2>1. committed[p] \in Nat /\ Reached(p) \in Nat /\ committed[p] <= Reached(p)
    BY ReachedType DEF ProgressInv
  <2>2. o \in 1..Reached(p)
    BY <2>1
  <2> QED
    BY <2>2 DEF AccountedInv
<1> QED
  BY <1>1, TypeCorrect, ProgressInvariant, AccountedInvariant, PTL

-----------------------------------------------------------------------------
(* A full window may be buffered only while this emission has still to     *)
(* visit its key, and the dict's order names every buffered key.           *)
BelowInv ==
    /\ raises = 0 => \A k \in Keys : Len(pending[k]) < W \/ k \in ToSet(visit)
    /\ \A k \in Keys : pending[k] # <<>> => k \in ToSet(order)
    /\ mode \in Emitting \/ (windows = <<>> /\ visit = <<>>)

(* The elements of a sequence are its head and those of its tail.          *)
LEMMA HeadElems ==
    ASSUME NEW S, NEW s \in Seq(S), s # <<>>
    PROVE  ToSet(s) = {Head(s)} \cup ToSet(Tail(s))
<1> DEFINE t == Tail(s)
<1>1. /\ t \in Seq(S) /\ Len(t) = Len(s) - 1 /\ Len(s) \in Nat \ {0}
      /\ Head(s) = s[1] /\ \A i \in 1..Len(t) : t[i] = s[i + 1]
      /\ DOMAIN t = 1..Len(t) /\ DOMAIN s = 1..Len(s)
  BY HeadTailProperties, LenProperties, EmptySeq
<1> HIDE DEF t
<1>2. \A i \in 1..Len(s) : i = 1 \/ (i - 1 \in 1..Len(t) /\ s[i] = t[i - 1])
  BY <1>1
<1>3. \A i \in 1..Len(t) : i + 1 \in 1..Len(s)
  BY <1>1
<1>4. \A i \in 1..Len(s) : s[i] = Head(s) \/ s[i] \in ToSet(t)
  <2> TAKE i \in 1..Len(s)
  <2>1. CASE i = 1
    BY <1>1, <2>1
  <2>2. CASE i - 1 \in 1..Len(t) /\ s[i] = t[i - 1]
    BY <1>1, <2>2 DEF ToSet
  <2> QED
    BY <1>2, <2>1, <2>2
<1>5. ToSet(s) \subseteq {Head(s)} \cup ToSet(t)
  BY <1>1, <1>4 DEF ToSet
<1>6. ToSet(t) \subseteq ToSet(s) /\ Head(s) \in ToSet(s)
  BY <1>1, <1>3 DEF ToSet
<1> QED
  BY <1>5, <1>6 DEF t

(* What a visit leaves behind does not fill a window.                      *)
LEMMA LeftBehind ==
    ASSUME TypeOK, NEW k \in Keys
    PROVE  Len(pending[k]) - CutCount(k) < W
<1>1. Len(pending[k]) \in Nat /\ W \in Nat \ {0}
  BY LenProperties, WorkerAssumption DEF TypeOK
<1>2. Len(pending[k]) < (Len(pending[k]) \div W) * W + W
  BY <1>1, DivBounds
<1>3. CASE k \in release
  BY <1>1, <1>3 DEF CutCount
<1>4. CASE k \notin release
  <2>1. CutCount(k) = (Len(pending[k]) \div W) * W
    BY <1>4 DEF CutCount
  <2>2. Len(pending[k]) < CutCount(k) + W /\ CutCount(k) \in 0..Len(pending[k])
    BY <1>2, <2>1, CutCountType
  <2> QED
    BY <1>1, <2>2
<1> QED
  BY <1>3, <1>4

(* Every buffer that may fill a window is still to be visited.             *)
LEMMA BelowInvariant == Spec => []BelowInv
<1> USE DEF buffers, emission, history
<1>1. Init => BelowInv
  BY WorkerAssumption, EmptySeq DEF Init, BelowInv
<1>2. TypeOK /\ BelowInv /\ [Next]_vars => BelowInv'
  <2> SUFFICES ASSUME TypeOK, BelowInv, [Next]_vars PROVE BelowInv'
    OBVIOUS
  <2>1. ASSUME NEW p \in Partitions, NEW n \in 1..BatchSize, Read(p, n) PROVE BelowInv'
    <3> DEFINE from == committed[p] + 1
               to == from + n - 1
               fresh(k) == IF PartitionOf[k] = p THEN OffsetsIn(p, k, from, to) ELSE <<>>
    <3>1. /\ order' = order \o NewKeys(p, from, to) /\ visit' = order' /\ mode' = "batch"
          /\ to <= Len(log[p]) /\ UNCHANGED raises
          /\ pending' = [k \in Keys |-> pending[k] \o fresh(k)]
      BY <2>1 DEF Read, ResumeFrom, BufferExtended
    <3>2. from \in Nat \ {0} /\ to \in Nat
      <4>1. committed[p] \in Nat /\ n \in Nat \ {0}
        BY WorkerAssumption DEF TypeOK
      <4> QED
        BY <4>1
    <3> HIDE DEF from, to
    <3>3. /\ ToSet(order) \subseteq ToSet(order')
          /\ \A o \in from..to : log[p][o].key \in ToSet(order')
      BY <3>1, <3>2, BatchKeys
    <3>4. ASSUME NEW k \in Keys, pending'[k] # <<>> PROVE k \in ToSet(order')
      <4>1. CASE pending[k] # <<>>
        BY <3>3, <4>1 DEF BelowInv
      <4>2. CASE pending[k] = <<>>
        <5>1. /\ OffsetsIn(p, k, from, to) \in Seq(1..MaxRecords)
              /\ ToSet(OffsetsIn(p, k, from, to)) = OfKey(p, k, from, to)
          BY <3>1, <3>2, BatchOffsets
        <5>2. OffsetsIn(p, k, from, to) # <<>>
          BY <3>1, <3>4, <4>2, ConcatProperties, EmptySeq
        <5>3. OffsetsIn(p, k, from, to)[1] \in ToSet(OffsetsIn(p, k, from, to))
          BY <5>1, <5>2, EmptySeq, LenProperties DEF ToSet
        <5> QED
          BY <3>3, <5>1, <5>3 DEF OfKey
      <4> QED
        BY <4>1, <4>2
    <3>5. ASSUME NEW k \in Keys PROVE Len(pending'[k]) < W \/ k \in ToSet(visit')
      <4>1. CASE pending'[k] # <<>>
        BY <3>1, <3>4, <4>1
      <4>2. CASE pending'[k] = <<>>
        BY <4>2, WorkerAssumption, EmptySeq
      <4> QED
        BY <4>1, <4>2
    <3> QED
      BY <3>1, <3>4, <3>5 DEF BelowInv, Emitting
  <2>2. ASSUME NEW k \in Keys, Skip(k) PROVE BelowInv'
    <3>1. /\ mode \in Emitting /\ visit # <<>> /\ k = Head(visit) /\ CutCount(k) = 0
          /\ visit' = Tail(visit) /\ UNCHANGED <<pending, order, mode, windows, raises>>
      BY <2>2 DEF Skip
    <3>2. Len(pending[k]) < W
      <4>1. Len(pending[k]) \in Nat /\ Len(pending[k]) - CutCount(k) < W
        BY LeftBehind, LenProperties DEF TypeOK
      <4> QED
        BY <3>1, <4>1
    <3>3. ToSet(visit) = {k} \cup ToSet(visit')
      BY <3>1, HeadElems DEF TypeOK
    <3> QED
      BY <3>1, <3>2, <3>3 DEF BelowInv
  <2>3. ASSUME NEW k \in Keys, TakeChunk(k) PROVE BelowInv'
    <3> DEFINE rest == SubSeq(pending[k], CutCount(k) + 1, Len(pending[k]))
    <3>1. /\ mode \in Emitting /\ visit # <<>> /\ k = Head(visit) /\ CutCount(k) > 0
          /\ UNCHANGED order /\ pending' = [pending EXCEPT ![k] = rest]
      BY <2>3 DEF TakeChunk
    <3>2. \/ visit' = Tail(visit) /\ UNCHANGED <<mode, raises>>
          \/ raises' = raises + 1 /\ windows' = <<>> /\ visit' = <<>>
      BY <2>3 DEF TakeChunk, Abort
    <3>3. Len(rest) < W
      BY ChunkTaken, LeftBehind
    <3>4. pending[k] # <<>>
      BY <3>1, CutCountType, EmptySeq
    <3> HIDE DEF rest
    <3>5. \A j \in Keys : pending'[j] = IF j = k THEN rest ELSE pending[j]
      BY <3>1 DEF TypeOK
    <3>6. \A j \in Keys : pending'[j] # <<>> => j \in ToSet(order')
      BY <3>1, <3>4, <3>5 DEF BelowInv
    <3>7. CASE visit' = Tail(visit) /\ UNCHANGED <<mode, raises>>
      <4>1. ToSet(visit) = {k} \cup ToSet(visit')
        BY <3>1, <3>7, HeadElems DEF TypeOK
      <4> QED
        BY <3>1, <3>3, <3>5, <3>6, <3>7, <4>1 DEF BelowInv
    <3>8. CASE raises' = raises + 1 /\ windows' = <<>> /\ visit' = <<>>
      <4>1. raises' # 0
        BY <3>8, WorkerAssumption DEF TypeOK
      <4> QED
        BY <3>6, <3>8, <4>1 DEF BelowInv
    <3> QED
      BY <3>2, <3>7, <3>8
  <2>4. CASE ScoreFails \/ SaveFails
    <3>1. raises' = raises + 1 /\ windows' = <<>> /\ visit' = <<>> /\ UNCHANGED <<pending, order>>
      BY <2>4 DEF ScoreFails, SaveFails, Abort
    <3>2. raises' # 0
      BY <3>1, WorkerAssumption DEF TypeOK
    <3> QED
      BY <3>1, <3>2 DEF BelowInv
  <2>5. CASE Restart
    BY <2>5, WorkerAssumption, EmptySeq DEF Restart, BelowInv
  <2>6. CASE Stop
    <3>1. /\ visit' = order /\ mode' = "final" /\ UNCHANGED <<pending, order>>
      BY <2>6 DEF Stop
    <3> QED
      BY <3>1, WorkerAssumption, EmptySeq DEF BelowInv, Emitting
  <2>7. ASSUME NEW ks \in SUBSET Keys, FlushStale(ks) PROVE BelowInv'
    <3>1. /\ visit' = order /\ mode' = "stale" /\ UNCHANGED <<pending, order>>
      BY <2>7 DEF FlushStale
    <3> QED
      BY <3>1, WorkerAssumption, EmptySeq DEF BelowInv, Emitting
  <2>8. CASE Score
    BY <2>8 DEF Score, BelowInv
  <2>9. CASE Commit \/ FlushDone
    BY <2>9 DEF Commit, FlushDone, EmitDone, BelowInv
  <2>10. ASSUME UNCHANGED <<pending, order, visit, windows, mode, raises>> PROVE BelowInv'
    BY <2>10 DEF BelowInv
  <2>11. ASSUME NEW k \in Keys, NEW t \in Timestamps, Produce(k, t) PROVE BelowInv'
    BY <2>10, <2>11 DEF Produce
  <2>12. ASSUME NEW p \in Partitions, Drained(p) PROVE BelowInv'
    BY <2>10, <2>12 DEF Drained
  <2>13. CASE NothingStale \/ UNCHANGED vars
    BY <2>10, <2>13 DEF NothingStale, vars
  <2> QED
    BY <2>1, <2>2, <2>3, <2>4, <2>5, <2>6, <2>7, <2>8, <2>9, <2>11, <2>12, <2>13 DEF Next, Loop
<1> QED
  BY <1>1, <1>2, TypeCorrect, PTL DEF Spec
-----------------------------------------------------------------------------
(* The flows whose records have been read.                                 *)
ReachedFlows == {f \in Keys \X (1..MaxRecords) : f[2] <= Reached(PartitionOf[f[1]])}

(* In each key, the flows of A come before those of B.                     *)
Before(A, B) == \A f \in A, g \in B : f[1] = g[1] => f[2] < g[2]

(* While nothing raises: every buffer and every window is in order, the    *)
(* windows come before what stays buffered, and what was counted in this   *)
(* process before both.                                                    *)
InSequence ==
    /\ \A k \in Keys : Increasing(pending[k])
    /\ \A i \in 1..Len(windows) : Increasing(windows[i].recs)
    /\ \A i, j \in 1..Len(windows) : i < j => Before(FlowsOf(windows[i]), FlowsOf(windows[j]))
    /\ Before(Unscored, Buffered)
    /\ Before(seen, Buffered \cup Unscored)
    /\ Buffered \cup Unscored \cup seen \subseteq ReachedFlows

(* The order holds until an emission raises.                               *)
SequenceInv == raises = 0 => InSequence

(* Two sets in sequence have no flow in common.                            *)
LEMMA BeforeApart ==
    ASSUME NEW A \in SUBSET (Keys \X (1..MaxRecords)), NEW B, Before(A, B)
    PROVE  A \cap B = {}
<1> SUFFICES ASSUME NEW f \in A, f \in B PROVE FALSE
  OBVIOUS
<1>1. f[2] < f[2] /\ f[2] \in Nat
  BY DEF Before
<1> QED
  BY <1>1

(* Sequences of offsets are sequences of numbers.                          *)
LEMMA OffsetsAreNat == Seq(1..MaxRecords) \subseteq Seq(Nat)
<1>1. 1..MaxRecords \subseteq Nat
  BY WorkerAssumption
<1> QED
  BY <1>1, SeqMonotonic

(* Two increasing sequences, the second beyond the first, join into one.   *)
LEMMA ConcatIncreasing ==
    ASSUME NEW s \in Seq(Nat), NEW t \in Seq(Nat), Increasing(s), Increasing(t),
           \A x \in ToSet(s), y \in ToSet(t) : x < y
    PROVE  Increasing(s \o t)
<1> DEFINE u == s \o t
<1>1. /\ Len(s) \in Nat /\ Len(t) \in Nat /\ DOMAIN s = 1..Len(s) /\ DOMAIN t = 1..Len(t)
      /\ Len(u) = Len(s) + Len(t)
      /\ \A i \in 1..(Len(s) + Len(t)) : u[i] = IF i <= Len(s) THEN s[i] ELSE t[i - Len(s)]
  BY ConcatProperties, LenProperties
<1> HIDE DEF u
<1> SUFFICES ASSUME NEW i \in 1..(Len(s) + Len(t)), NEW j \in 1..(Len(s) + Len(t)), i < j
             PROVE  u[i] < u[j]
  BY <1>1 DEF Increasing, u
<1>2. CASE j <= Len(s)
  <2>1. i \in 1..Len(s) /\ j \in 1..Len(s) /\ u[i] = s[i] /\ u[j] = s[j]
    BY <1>1, <1>2
  <2> QED
    BY <2>1 DEF Increasing
<1>3. CASE i <= Len(s) /\ ~(j <= Len(s))
  <2>1. i \in 1..Len(s) /\ j - Len(s) \in 1..Len(t) /\ u[i] = s[i] /\ u[j] = t[j - Len(s)]
    BY <1>1, <1>3
  <2>2. s[i] \in ToSet(s) /\ t[j - Len(s)] \in ToSet(t)
    BY <1>1, <2>1 DEF ToSet
  <2> QED
    BY <2>1, <2>2
<1>4. CASE ~(i <= Len(s))
  <2>1. /\ i - Len(s) \in 1..Len(t) /\ j - Len(s) \in 1..Len(t) /\ i - Len(s) < j - Len(s)
        /\ u[i] = t[i - Len(s)] /\ u[j] = t[j - Len(s)]
    BY <1>1, <1>4
  <2> QED
    BY <2>1 DEF Increasing
<1> QED
  BY <1>1, <1>2, <1>3, <1>4

(* The chunk of an increasing buffer, and what comes after it.             *)
LEMMA ChunkFirst ==
    ASSUME TypeOK, NEW k \in Keys, Increasing(pending[k])
    PROVE  LET chunk == SubSeq(pending[k], 1, CutCount(k))
               rest == SubSeq(pending[k], CutCount(k) + 1, Len(pending[k]))
           IN  /\ Increasing(chunk) /\ Increasing(rest)
               /\ \A x \in ToSet(chunk), y \in ToSet(rest) : x < y
<1> DEFINE s == pending[k]
           n == CutCount(k)
           chunk == SubSeq(s, 1, n)
           rest == SubSeq(s, n + 1, Len(s))
<1>1. /\ Len(s) \in Nat /\ n \in 0..Len(s)
      /\ chunk \in Seq(1..MaxRecords) /\ rest \in Seq(1..MaxRecords)
      /\ Len(chunk) = n /\ Len(rest) = Len(s) - n
  BY ChunkTaken, CutCountType, LenProperties DEF TypeOK
<1>2. /\ \A i \in 1..n : chunk[i] = s[i]
      /\ \A i \in 1..(Len(s) - n) : rest[i] = s[n + i]
  BY ChunkTaken
<1>3. DOMAIN chunk = 1..n /\ DOMAIN rest = 1..(Len(s) - n)
  BY <1>1, LenProperties
<1>4. \A i, j \in 1..Len(s) : i < j => s[i] < s[j]
  BY DEF Increasing
<1> HIDE DEF s, n, chunk, rest
<1>5. Increasing(chunk)
  BY <1>1, <1>2, <1>4 DEF Increasing
<1>6. Increasing(rest)
  <2>1. \A i \in 1..(Len(s) - n) : n + i \in 1..Len(s)
    BY <1>1
  <2>2. \A i, j \in 1..(Len(s) - n) : i < j => n + i < n + j
    BY <1>1
  <2> QED
    BY <1>1, <1>2, <1>4, <2>1, <2>2, ZenonT(60) DEF Increasing
<1>7. \A i \in 1..n, j \in 1..(Len(s) - n) : chunk[i] < rest[j]
  <2> TAKE i \in 1..n, j \in 1..(Len(s) - n)
  <2>1. i \in 1..Len(s) /\ n + j \in 1..Len(s) /\ i < n + j
    BY <1>1
  <2> QED
    BY <1>2, <1>4, <2>1
<1>8. \A x \in ToSet(chunk), y \in ToSet(rest) : x < y
  BY <1>3, <1>7 DEF ToSet
<1> QED
  BY <1>5, <1>6, <1>8 DEF s, n, chunk, rest

(* A batch comes after all that was read before it.                        *)
LEMMA BatchAfter ==
    ASSUME TypeOK, ProgressInv, NEW p \in Partitions, NEW n \in 1..BatchSize, Read(p, n)
    PROVE  LET batch == {FlowAt(p, o) : o \in (committed[p] + 1)..upto'}
           IN  /\ batch \subseteq ReachedFlows' /\ ReachedFlows \subseteq ReachedFlows'
               /\ Before(ReachedFlows, batch)
<1> DEFINE from == committed[p] + 1
           batch == {FlowAt(p, o) : o \in from..upto'}
<1>1. upto' \in Nat /\ upto' <= Len(log[p]) /\ committed[p] < upto'
  BY ReadFlows
<1>2. /\ mode = "idle" /\ turn = p /\ mode' = "batch" /\ UNCHANGED <<log, committed, turn>>
  BY DEF Read
<1>3. committed[p] \in Nat /\ Len(log[p]) \in Nat
  BY ReachedType
<1>4. /\ Reached(p) = committed[p] /\ Reached(p)' = upto'
      /\ \A q \in Partitions : Reached(q)' = IF q = p THEN upto' ELSE Reached(q)
  BY <1>2 DEF Reached
<1>5. Len(log[p]) <= MaxRecords /\ MaxRecords \in Nat /\ from \in Nat \ {0}
  BY <1>3, WorkerAssumption DEF TypeOK
<1>6. ASSUME NEW o \in from..upto'
      PROVE  /\ FlowAt(p, o) \in Keys \X (1..MaxRecords) /\ FlowAt(p, o)[2] = o
             /\ PartitionOf[FlowAt(p, o)[1]] = p
  <2>1. o \in 1..Len(log[p]) /\ o \in 1..MaxRecords
    BY <1>1, <1>3, <1>5
  <2>2. log[p][o].key \in Keys
    <3>1. log[p] \in Seq(Record)
      BY DEF TypeOK
    <3>2. log[p][o] \in Record
      BY <2>1, <3>1, ElementOfSeq
    <3> QED
      BY <3>2 DEF Record
  <2>3. PartitionOf[log[p][o].key] = p
    BY <2>1 DEF ProgressInv
  <2> QED
    BY <2>1, <2>2, <2>3 DEF FlowAt
<1>7. Before(ReachedFlows, batch)
  <2> SUFFICES ASSUME NEW f \in ReachedFlows, NEW o \in from..upto', f[1] = FlowAt(p, o)[1]
               PROVE  f[2] < FlowAt(p, o)[2]
    BY DEF Before
  <2>1. f[2] <= Reached(p) /\ f[2] \in Nat
    BY <1>6 DEF ReachedFlows
  <2> QED
    BY <1>3, <1>4, <1>6, <2>1
<1>8. batch \subseteq ReachedFlows'
  <2> SUFFICES ASSUME NEW o \in from..upto' PROVE FlowAt(p, o) \in ReachedFlows'
    OBVIOUS
  <2>1. o <= Reached(p)'
    BY <1>1, <1>4
  <2> QED
    BY <1>6, <2>1 DEF ReachedFlows
<1>9. ReachedFlows \subseteq ReachedFlows'
  <2> SUFFICES ASSUME NEW f \in ReachedFlows PROVE f[2] <= Reached(PartitionOf[f[1]])'
    BY DEF ReachedFlows
  <2>1. /\ f[1] \in Keys /\ f[2] \in Nat /\ PartitionOf[f[1]] \in Partitions
        /\ f[2] <= Reached(PartitionOf[f[1]])
    BY WorkerAssumption DEF ReachedFlows
  <2> QED
    BY <1>1, <1>3, <1>4, <2>1
<1> QED
  BY <1>7, <1>8, <1>9

(* A commit writes down what was reached already.                          *)
LEMMA CommitReaches ==
    ASSUME TypeOK, ProgressInv, Commit
    PROVE  \A q \in Partitions : Reached(q)' = Reached(q)
<1> TAKE q \in Partitions
<1>1. /\ mode = "batch" /\ mode' = "idle"
      /\ committed' = [committed EXCEPT ![turn] = Max({committed[turn], upto})]
  BY DEF Commit
<1>2. turn \in Partitions /\ committed[turn] \in Nat /\ upto \in Nat /\ committed[turn] <= upto
  BY <1>1, WorkerAssumption DEF ProgressInv, TypeOK, Reached
<1> QED
  BY <1>1, <1>2, MaxOfTwo DEF Reached, TypeOK

(* Steps that neither read nor abandon a batch leave what was read alone.  *)
LEMMA ReachedSame ==
    ASSUME TypeOK, ProgressInv,
           \/ /\ UNCHANGED committed
              /\ (mode # "batch" /\ mode' # "batch") \/ UNCHANGED <<mode, turn, upto>>
           \/ Commit
    PROVE  ReachedFlows' = ReachedFlows
<1>1. \A q \in Partitions : Reached(q)' = Reached(q)
  <2> TAKE q \in Partitions
  <2>1. CASE /\ UNCHANGED committed
             /\ (mode # "batch" /\ mode' # "batch") \/ UNCHANGED <<mode, turn, upto>>
    BY <2>1 DEF Reached
  <2>2. CASE Commit
    BY <2>2, CommitReaches
  <2> QED
    BY <2>1, <2>2
<1>2. \A k \in Keys : PartitionOf[k] \in Partitions
  BY WorkerAssumption
<1> QED
  BY <1>1, <1>2 DEF ReachedFlows

(* A read extends each buffer by flows that come after all read before.    *)
LEMMA ReadInSequence ==
    ASSUME TypeOK, ProgressInv, InSequence, NEW p \in Partitions, NEW n \in 1..BatchSize, Read(p, n)
    PROVE  InSequence'
<1> DEFINE from == committed[p] + 1
           batch == {FlowAt(p, o) : o \in from..upto'}
           fresh(k) == IF PartitionOf[k] = p THEN OffsetsIn(p, k, from, upto') ELSE <<>>
<1>1. /\ Buffered' = Buffered \cup batch
      /\ upto' \in Nat /\ upto' <= Len(log[p]) /\ committed[p] < upto'
      /\ \A k \in Keys : pending'[k] = pending[k] \o fresh(k)
  BY ReadFlows
<1>2. /\ batch \subseteq ReachedFlows' /\ ReachedFlows \subseteq ReachedFlows'
      /\ Before(ReachedFlows, batch)
  BY BatchAfter
<1>3. windows' = windows /\ seen' = seen /\ Unscored' = Unscored
  BY DEF Read, Unscored
<1>4. from \in Nat \ {0}
  BY ReachedType
<1>5. ASSUME NEW k \in Keys PROVE Increasing(pending'[k])
  <2>1. pending[k] \in Seq(1..MaxRecords) /\ Increasing(pending[k]) /\ pending'[k] = pending[k] \o fresh(k)
    BY <1>1 DEF TypeOK, InSequence
  <2>2. CASE PartitionOf[k] = p
    <3>1. fresh(k) = OffsetsIn(p, k, from, upto')
      BY <2>2
    <3> HIDE DEF from, fresh
    <3>2. /\ fresh(k) \in Seq(1..MaxRecords) /\ Increasing(fresh(k))
          /\ ToSet(fresh(k)) = OfKey(p, k, from, upto')
      BY <1>1, <1>4, <3>1, BatchOffsets
    <3>3. \A x \in ToSet(pending[k]), y \in ToSet(fresh(k)) : x < y
      <4> TAKE x \in ToSet(pending[k]), y \in ToSet(fresh(k))
      <4>1. <<k, x>> \in ReachedFlows
        BY DEF Buffered, InSequence
      <4>2. <<k, y>> \in batch
        BY <3>2 DEF OfKey, FlowAt
      <4> HIDE DEF batch
      <4> QED
        BY <1>2, <4>1, <4>2 DEF Before
    <3> QED
      BY <2>1, <3>2, <3>3, OffsetsAreNat, ConcatIncreasing
  <2>3. CASE PartitionOf[k] # p
    <3>1. pending'[k] = pending[k]
      BY <2>1, <2>3, ConcatProperties, EmptySeq
    <3> QED
      BY <2>1, <3>1
  <2> QED
    BY <2>2, <2>3
<1> HIDE DEF batch, fresh, from
<1>6. Before(Unscored', Buffered') /\ Before(seen', Buffered' \cup Unscored')
  BY <1>1, <1>2, <1>3 DEF InSequence, Before
<1>7. Buffered' \cup Unscored' \cup seen' \subseteq ReachedFlows'
  BY <1>1, <1>2, <1>3 DEF InSequence
<1>8. /\ \A i \in 1..Len(windows') : Increasing(windows'[i].recs)
      /\ \A i, j \in 1..Len(windows') : i < j => Before(FlowsOf(windows'[i]), FlowsOf(windows'[j]))
  BY <1>3 DEF InSequence
<1> QED
  BY <1>5, <1>6, <1>7, <1>8 DEF InSequence

(* The windows cut from the front of a buffer precede what stays in it.    *)
LEMMA CutInSequence ==
    ASSUME TypeOK, ProgressInv, InSequence, NEW k \in Keys, TakeChunk(k), raises' = raises
    PROVE  InSequence'
<1> DEFINE chunk == SubSeq(pending[k], 1, CutCount(k))
           rest == SubSeq(pending[k], CutCount(k) + 1, Len(pending[k]))
           taken == KeyFlows(k, chunk)
<1>1. /\ Buffered = Buffered' \cup taken /\ Unscored = {}
      /\ windows' = Cut(k, chunk) /\ Unscored' = taken /\ UNCHANGED <<mode, turn, upto>>
  <2>1. raises \in Nat
    BY WorkerAssumption DEF TypeOK
  <2> QED
    BY <2>1, ChunkFlows
<1>2. UNCHANGED <<seen, committed>> /\ pending' = [pending EXCEPT ![k] = rest]
  BY DEF TakeChunk
<1>3. ReachedFlows' = ReachedFlows
  BY <1>1, <1>2, ReachedSame
<1>4. /\ Increasing(chunk) /\ Increasing(rest) /\ chunk \in Seq(1..MaxRecords)
      /\ \A x \in ToSet(chunk), y \in ToSet(rest) : x < y
  BY ChunkFirst, ChunkTaken DEF InSequence
<1>5. \A j \in Keys : pending'[j] = IF j = k THEN rest ELSE pending[j]
  BY <1>2 DEF TypeOK
<1>6. \A j \in Keys : Increasing(pending'[j])
  BY <1>4, <1>5 DEF InSequence
<1>7. /\ Len(windows') = Pieces(chunk)
      /\ \A i \in 1..Pieces(chunk) : windows'[i].key = k
  <2>1. Len(windows') = Pieces(chunk)
    BY <1>1, <1>4, CutLists
  <2>2. \A i \in 1..Pieces(chunk) : Cut(k, chunk)[i].key = k
    BY <1>4, CutAt, ZenonT(60)
  <2> QED
    BY <1>1, <2>1, <2>2
<1>8. \A i \in 1..Len(windows') : Increasing(windows'[i].recs)
  BY <1>1, <1>4, <1>7, CutOrdered
<1>9. \A i, j \in 1..Len(windows') : i < j => Before(FlowsOf(windows'[i]), FlowsOf(windows'[j]))
  <2> TAKE i, j \in 1..Len(windows')
  <2> HAVE i < j
  <2>1. \A x \in ToSet(windows'[i].recs), y \in ToSet(windows'[j].recs) : x < y
    BY <1>1, <1>4, <1>7, CutOrdered
  <2> QED
    BY <2>1 DEF Before, FlowsOf
<1> HIDE DEF chunk, rest
<1>10. Before(taken, Buffered')
  <2> SUFFICES ASSUME NEW x \in ToSet(chunk), NEW g \in Buffered', g[1] = k PROVE x < g[2]
    BY DEF Before, KeyFlows
  <2>1. Buffered' = UNION {{<<j, o>> : o \in ToSet(pending'[j])} : j \in Keys}
    BY DEF Buffered
  <2>2. PICK j \in Keys : g \in {<<j, o>> : o \in ToSet(pending'[j])}
    BY <2>1
  <2>3. j = k /\ g[2] \in ToSet(rest)
    BY <1>5, <2>2
  <2> QED
    BY <1>4, <2>3
<1> HIDE DEF taken
<1>11. Before(seen', Buffered' \cup Unscored')
  BY <1>1, <1>2 DEF InSequence, Before
<1>12. Buffered' \cup Unscored' \cup seen' \subseteq ReachedFlows'
  BY <1>1, <1>2, <1>3 DEF InSequence
<1> QED
  BY <1>1, <1>6, <1>8, <1>9, <1>10, <1>11, <1>12 DEF InSequence

(* The head window comes before all else that waits, and it is new.        *)
LEMMA HeadFirst ==
    ASSUME TypeOK, InSequence, windows # <<>>
    PROVE  LET w == Head(windows)
               later == WindowFlows(Tail(windows))
           IN  /\ Unscored = FlowsOf(w) \cup later /\ w \in Window
               /\ Before(FlowsOf(w), later \cup Buffered)
               /\ Identity(w) \in FlowsOf(w) /\ Identity(w) \notin seen
<1> DEFINE w == Head(windows)
           t == Tail(windows)
<1>1. /\ Unscored = FlowsOf(w) \cup WindowFlows(t)
      /\ Len(windows) \in Nat \ {0} /\ w = windows[1] /\ w \in Window
      /\ Len(t) = Len(windows) - 1 /\ \A i \in 1..Len(t) : t[i] = windows[i + 1]
  BY HeadFlows
<1> HIDE DEF w, t
<1>2. \A i \in 1..Len(t) : Before(FlowsOf(w), FlowsOf(t[i]))
  <2> TAKE i \in 1..Len(t)
  <2>1. 1 \in 1..Len(windows) /\ i + 1 \in 1..Len(windows) /\ 1 < i + 1
    BY <1>1
  <2> QED
    BY <1>1, <2>1 DEF InSequence
<1>3. Before(FlowsOf(w), WindowFlows(t))
  BY <1>2 DEF Before, WindowFlows
<1>4. Before(FlowsOf(w), Buffered) /\ Before(seen, Unscored)
  BY <1>1 DEF InSequence, Before
<1>5. Identity(w) \in FlowsOf(w)
  BY <1>1, WindowFlowsType
<1>6. seen \cap Unscored = {}
  BY <1>4, BeforeApart DEF TypeOK
<1> QED
  BY <1>1, <1>3, <1>4, <1>5, <1>6 DEF w, t, Before

(* Scoring the first window leaves the others in sequence.                 *)
LEMMA ScoreInSequence ==
    ASSUME TypeOK, ProgressInv, InSequence, Score
    PROVE  InSequence'
<1> DEFINE w == Head(windows)
<1>1. /\ windows # <<>> /\ windows' = Tail(windows) /\ seen' = seen \cup {Identity(w)}
      /\ UNCHANGED <<pending, committed, mode, turn, upto, raises>>
  BY DEF Score, Put, buffers
<1>2. /\ Unscored = FlowsOf(w) \cup Unscored' /\ Before(FlowsOf(w), Unscored' \cup Buffered)
      /\ Identity(w) \in FlowsOf(w)
  BY <1>1, HeadFirst DEF Unscored, WindowFlows
<1>3. /\ Len(windows) \in Nat \ {0} /\ Len(windows') = Len(windows) - 1
      /\ \A i \in 1..Len(windows') : windows'[i] = windows[i + 1]
  BY <1>1, HeadFlows
<1> HIDE DEF w
<1>4. ReachedFlows' = ReachedFlows /\ Buffered' = Buffered
  BY <1>1, ReachedSame DEF Buffered
<1>5. ASSUME NEW i \in 1..Len(windows')
      PROVE  /\ Increasing(windows'[i].recs)
             /\ \A j \in 1..Len(windows') : i < j => Before(FlowsOf(windows'[i]), FlowsOf(windows'[j]))
  <2>1. i + 1 \in 1..Len(windows)
        /\ \A j \in 1..Len(windows') : j + 1 \in 1..Len(windows) /\ (i < j => i + 1 < j + 1)
    BY <1>3
  <2> QED
    BY <1>3, <2>1 DEF InSequence
<1>6. Before(Unscored', Buffered') /\ Before(seen', Buffered' \cup Unscored')
  BY <1>1, <1>2, <1>4 DEF InSequence, Before
<1>7. Buffered' \cup Unscored' \cup seen' \subseteq ReachedFlows'
  BY <1>1, <1>2, <1>4 DEF InSequence
<1> QED
  BY <1>1, <1>5, <1>6, <1>7 DEF InSequence

(* Flows move through the worker in the order of their partition, until an *)
(* emission raises.                                                        *)
LEMMA SequenceInvariant == Spec => []SequenceInv
<1> USE DEF buffers, emission, history
<1>1. Init => SequenceInv
  <2> SUFFICES ASSUME Init PROVE InSequence
    BY DEF SequenceInv
  <2>1. ToSet(<<>>) = {} /\ Len(<<>>) = 0
    BY EmptySeq DEF ToSet
  <2>2. Buffered = {} /\ Unscored = {}
    BY <2>1 DEF Init, Buffered, Unscored
  <2> QED
    BY <2>1, <2>2 DEF Init, InSequence, Before, Increasing
<1>2. TypeOK /\ TypeOK' /\ ProgressInv /\ SequenceInv /\ [Next]_vars => SequenceInv'
  <2> SUFFICES ASSUME TypeOK, TypeOK', ProgressInv, SequenceInv, [Next]_vars PROVE SequenceInv'
    OBVIOUS
  <2>1. ASSUME NEW p \in Partitions, NEW n \in 1..BatchSize, Read(p, n) PROVE SequenceInv'
    BY <2>1, ReadInSequence DEF SequenceInv, Read
  <2>2. ASSUME NEW k \in Keys, TakeChunk(k) PROVE SequenceInv'
    <3>1. raises \in Nat /\ (raises' = raises \/ raises' = raises + 1)
      BY <2>2, WorkerAssumption DEF TakeChunk, Abort, TypeOK
    <3> QED
      BY <2>2, <3>1, CutInSequence DEF SequenceInv
  <2>3. CASE Score
    BY <2>3, ScoreInSequence DEF SequenceInv, Score
  <2>4. CASE ScoreFails \/ SaveFails
    <3>1. raises \in Nat /\ raises' = raises + 1
      BY <2>4, WorkerAssumption DEF ScoreFails, SaveFails, Abort, TypeOK
    <3> QED
      BY <3>1 DEF SequenceInv
  <2>5. CASE Restart
    <3>1. pending' = [k \in Keys |-> <<>>] /\ windows' = <<>> /\ seen' = {}
      BY <2>5 DEF Restart
    <3>2. ToSet(<<>>) = {} /\ Len(<<>>) = 0
      BY EmptySeq DEF ToSet
    <3>3. Buffered' = {} /\ Unscored' = {}
      BY <3>1, <3>2 DEF Buffered, Unscored
    <3> QED
      BY <3>1, <3>2, <3>3 DEF SequenceInv, InSequence, Before, Increasing
  <2>6. ASSUME ReachedFlows' = ReachedFlows, UNCHANGED <<pending, windows, seen, raises>>
        PROVE  SequenceInv'
    <3>1. Buffered' = Buffered /\ Unscored' = Unscored
      BY <2>6 DEF Buffered, Unscored
    <3>2. InSequence' <=> InSequence
      BY <2>6, <3>1 DEF InSequence
    <3> QED
      BY <2>6, <3>2 DEF SequenceInv
  <2>7. ASSUME NEW k \in Keys, Skip(k) \/ \E t \in Timestamps : Produce(k, t) PROVE SequenceInv'
    BY <2>6, <2>7, ReachedSame DEF Skip, Produce
  <2>8. ASSUME NEW p \in Partitions, Drained(p) PROVE SequenceInv'
    BY <2>6, <2>8, ReachedSame DEF Drained
  <2>9. ASSUME NEW ks \in SUBSET Keys, FlushStale(ks) PROVE SequenceInv'
    BY <2>6, <2>9, ReachedSame DEF FlushStale
  <2>10. CASE NothingStale \/ Stop \/ FlushDone \/ UNCHANGED vars
    BY <2>6, <2>10, ReachedSame DEF NothingStale, Stop, FlushDone, vars
  <2>11. CASE Commit
    BY <2>6, <2>11, ReachedSame DEF Commit
  <2> QED
    BY <2>1, <2>2, <2>3, <2>4, <2>5, <2>7, <2>8, <2>9, <2>10, <2>11 DEF Next, Loop
<1> QED
  BY <1>1, <1>2, TypeCorrect, ProgressInvariant, PTL DEF Spec
-----------------------------------------------------------------------------
(* Each counted flow is counted once, and neither buffered nor about to be *)
(* scored.                                                                 *)
CountedOnce ==
    /\ dropped = {}
    /\ seen \subseteq Counted
    /\ Counted \subseteq ReachedFlows
    /\ Counted \cap (Buffered \cup Unscored) = {}
    /\ \A v, w \in scored : v # w => FlowsOf(v) \cap FlowsOf(w) = {}

(* Counting is exact while every emission succeeds and the process lives.  *)
OnceInv == raises = 0 /\ restarts = 0 => CountedOnce

(* A scored window's identity is new, so its flows are counted now.        *)
LEMMA ScoreOnce ==
    ASSUME TypeOK, ProgressInv, InSequence, CountedOnce, Score
    PROVE  CountedOnce'
<1> DEFINE w == Head(windows)
<1>1. /\ windows # <<>> /\ Put(w) /\ windows' = Tail(windows)
      /\ dropped' = IF Identity(w) \in seen THEN dropped \cup FlowsOf(w) ELSE dropped
      /\ UNCHANGED <<pending, committed, mode, turn, upto>>
  BY DEF Score, buffers
<1>2. /\ Unscored = FlowsOf(w) \cup Unscored' /\ w \in Window
      /\ Before(FlowsOf(w), Unscored' \cup Buffered)
      /\ Identity(w) \in FlowsOf(w) /\ Identity(w) \notin seen
  BY <1>1, HeadFirst DEF Unscored, WindowFlows
<1> HIDE DEF w
<1>3. /\ scored' = scored \cup {w} /\ dropped' = dropped /\ seen' = seen \cup {Identity(w)}
      /\ Counted' = Counted \cup FlowsOf(w)
  BY <1>1, <1>2, PutCounts DEF Put
<1>4. ReachedFlows' = ReachedFlows /\ Buffered' = Buffered
  BY <1>1, ReachedSame DEF Buffered
<1>5. FlowsOf(w) \cap (Unscored' \cup Buffered) = {}
  BY <1>2, WindowFlowsType, BeforeApart
<1>6. \A v \in scored : FlowsOf(v) \cap FlowsOf(w) = {}
  BY <1>2 DEF CountedOnce, Counted
<1>7. \A u, v \in scored' : u # v => FlowsOf(u) \cap FlowsOf(v) = {}
  BY <1>3, <1>6 DEF CountedOnce
<1>8. FlowsOf(w) \subseteq ReachedFlows
  BY <1>2 DEF InSequence
<1> QED
  BY <1>2, <1>3, <1>4, <1>5, <1>7, <1>8 DEF CountedOnce

(* No flow is counted twice and none is dropped in such a run.             *)
LEMMA OnceInvariant == Spec => []OnceInv
<1> USE DEF buffers, emission, history
<1>1. Init => OnceInv
  <2> SUFFICES ASSUME Init PROVE CountedOnce
    BY DEF OnceInv
  <2>1. Counted = {}
    BY DEF Init, Counted
  <2> QED
    BY <2>1 DEF Init, CountedOnce
<1>2. TypeOK /\ TypeOK' /\ ProgressInv /\ SequenceInv /\ OnceInv /\ [Next]_vars => OnceInv'
  <2> SUFFICES ASSUME TypeOK, TypeOK', ProgressInv, SequenceInv, OnceInv, [Next]_vars PROVE OnceInv'
    OBVIOUS
  <2>1. ASSUME NEW p \in Partitions, NEW n \in 1..BatchSize, Read(p, n) PROVE OnceInv'
    <3> SUFFICES ASSUME CountedOnce PROVE CountedOnce'
      BY <2>1 DEF OnceInv, Read
    <3> DEFINE batch == {FlowAt(p, o) : o \in (committed[p] + 1)..upto'}
    <3>1. /\ Buffered' = Buffered \cup batch /\ ReachedFlows \subseteq ReachedFlows'
          /\ Before(ReachedFlows, batch)
      BY <2>1, ReadFlows, BatchAfter
    <3>2. UNCHANGED <<windows, scored, seen, dropped>>
      BY <2>1 DEF Read
    <3> HIDE DEF batch
    <3>3. Counted' = Counted /\ Unscored' = Unscored
      BY <3>2 DEF Counted, Unscored
    <3>4. ReachedFlows \cap batch = {}
      BY <3>1, BeforeApart DEF ReachedFlows
    <3> QED
      BY <3>1, <3>2, <3>3, <3>4 DEF CountedOnce
  <2>2. ASSUME NEW k \in Keys, TakeChunk(k) PROVE OnceInv'
    <3> DEFINE taken == KeyFlows(k, SubSeq(pending[k], 1, CutCount(k)))
    <3>1. /\ Buffered = Buffered' \cup taken /\ scored' = scored
          /\ \/ Unscored' = taken /\ UNCHANGED <<dropped, raises, mode, turn, upto>>
             \/ raises' = raises + 1
      BY <2>2, ChunkFlows
    <3>2. raises \in Nat /\ UNCHANGED <<seen, restarts, committed>>
      BY <2>2, WorkerAssumption DEF TypeOK, TakeChunk
    <3> HIDE DEF taken
    <3>3. CASE raises' = raises + 1
      BY <3>2, <3>3 DEF OnceInv
    <3>4. CASE Unscored' = taken /\ UNCHANGED <<dropped, raises, mode, turn, upto>>
      <4>1. ReachedFlows' = ReachedFlows /\ Counted' = Counted
        BY <3>1, <3>2, <3>4, ReachedSame DEF Counted
      <4>2. CountedOnce => CountedOnce'
        BY <3>1, <3>2, <3>4, <4>1 DEF CountedOnce
      <4> QED
        BY <3>2, <3>4, <4>2 DEF OnceInv
    <3> QED
      BY <3>1, <3>3, <3>4
  <2>3. CASE Score
    <3>1. UNCHANGED <<raises, restarts>>
      BY <2>3 DEF Score
    <3> QED
      BY <2>3, <3>1, ScoreOnce DEF OnceInv, SequenceInv
  <2>4. CASE ScoreFails \/ SaveFails \/ Restart
    <3>1. raises' = raises + 1 \/ restarts' = restarts + 1
      BY <2>4 DEF ScoreFails, SaveFails, Abort, Restart
    <3>2. raises \in Nat /\ restarts \in Nat
      BY WorkerAssumption DEF TypeOK
    <3> QED
      BY <3>1, <3>2 DEF OnceInv
  <2>5. ASSUME ReachedFlows' = ReachedFlows,
               UNCHANGED <<pending, windows, scored, seen, dropped, raises, restarts>>
        PROVE  OnceInv'
    <3>1. Buffered' = Buffered /\ Unscored' = Unscored /\ Counted' = Counted
      BY <2>5 DEF Buffered, Unscored, Counted
    <3>2. CountedOnce' <=> CountedOnce
      BY <2>5, <3>1 DEF CountedOnce
    <3> QED
      BY <2>5, <3>2 DEF OnceInv
  <2>6. ASSUME NEW k \in Keys, Skip(k) \/ \E t \in Timestamps : Produce(k, t) PROVE OnceInv'
    BY <2>5, <2>6, ReachedSame DEF Skip, Produce
  <2>7. ASSUME NEW p \in Partitions, Drained(p) PROVE OnceInv'
    BY <2>5, <2>7, ReachedSame DEF Drained
  <2>8. ASSUME NEW ks \in SUBSET Keys, FlushStale(ks) PROVE OnceInv'
    BY <2>5, <2>8, ReachedSame DEF FlushStale
  <2>9. CASE NothingStale \/ Stop \/ FlushDone \/ UNCHANGED vars
    BY <2>5, <2>9, ReachedSame DEF NothingStale, Stop, FlushDone, vars
  <2>10. CASE Commit
    BY <2>5, <2>10, ReachedSame DEF Commit
  <2> QED
    BY <2>1, <2>2, <2>3, <2>4, <2>6, <2>7, <2>8, <2>9, <2>10 DEF Next, Loop
<1> QED
  BY <1>1, <1>2, TypeCorrect, ProgressInvariant, SequenceInvariant, PTL DEF Spec

(* While every emission succeeds and the process lives, no flow is in two  *)
(* windows and none is lost; and no source holds a full window back.       *)
THEOREM EachFlowOnce == Spec => []HeldOrScoredOnce
<1>1. OnceInv => OncePerFlow
  BY DEF OnceInv, CountedOnce, OncePerFlow
<1>2. BelowInv => BufferedBelowWindow
  <2> SUFFICES ASSUME BelowInv, mode \in {"idle", "stopped"}, raises = 0, NEW k \in Keys
               PROVE  Len(pending[k]) < W
    BY DEF BufferedBelowWindow
  <2>1. visit = <<>>
    BY DEF BelowInv, Emitting
  <2>2. ToSet(visit) = {}
    BY <2>1, EmptySeq DEF ToSet
  <2> QED
    BY <2>2 DEF BelowInv
<1> QED
  BY <1>1, <1>2, OnceInvariant, BelowInvariant, PTL DEF HeldOrScoredOnce
-----------------------------------------------------------------------------
(* The flows that were produced.                                           *)
RealFlows == {f \in Keys \X (1..MaxRecords) :
                /\ f[2] <= Len(log[PartitionOf[f[1]]])
                /\ log[PartitionOf[f[1]]][f[2]].key = f[1]}

(* The worker holds and counts only flows that were produced.              *)
RealInv == Buffered \cup Unscored \cup Counted \subseteq RealFlows

(* Nothing in the worker is invented, after a restart as before.           *)
LEMMA RealInvariant == Spec => []RealInv
<1> USE DEF buffers, emission, history
<1>1. Init => RealInv
  <2> SUFFICES ASSUME Init PROVE RealInv
    OBVIOUS
  <2>1. ToSet(<<>>) = {} /\ Len(<<>>) = 0
    BY EmptySeq DEF ToSet
  <2>2. Buffered = {} /\ Unscored = {} /\ Counted = {}
    BY <2>1 DEF Init, Buffered, Unscored, Counted
  <2> QED
    BY <2>2 DEF RealInv
<1>2. TypeOK /\ ProgressInv /\ RealInv /\ [Next]_vars => RealInv'
  <2> SUFFICES ASSUME TypeOK, ProgressInv, RealInv, [Next]_vars PROVE RealInv'
    OBVIOUS
  <2>1. ASSUME log' = log, Buffered' \cup Unscored' \cup Counted' \subseteq
                            Buffered \cup Unscored \cup Counted
        PROVE  RealInv'
    <3>1. RealFlows' = RealFlows
      BY <2>1 DEF RealFlows
    <3> QED
      BY <2>1, <3>1 DEF RealInv
  <2>2. ASSUME NEW k \in Keys, NEW t \in Timestamps, Produce(k, t) PROVE RealInv'
    <3>1. Buffered' = Buffered /\ Unscored' = Unscored /\ Counted' = Counted
      BY <2>2 DEF Produce, Buffered, Unscored, Counted
    <3>2. RealFlows \subseteq RealFlows'
      <4> SUFFICES ASSUME NEW f \in RealFlows PROVE f \in RealFlows'
        OBVIOUS
      <4> DEFINE q == PartitionOf[f[1]]
      <4>1. /\ f \in Keys \X (1..MaxRecords) /\ q \in Partitions
            /\ f[2] \in 1..Len(log[q]) /\ log[q][f[2]].key = f[1] /\ Len(log[q]) \in Nat
        <5>1. q \in Partitions /\ f[2] \in 1..MaxRecords /\ f[2] <= Len(log[q])
          BY WorkerAssumption DEF RealFlows
        <5>2. Len(log[q]) \in Nat
          BY <5>1, ReachedType
        <5> QED
          BY <5>1, <5>2 DEF RealFlows
      <4> HIDE DEF q
      <4>2. log'[q][f[2]] = log[q][f[2]] /\ Len(log'[q]) \in {Len(log[q]), Len(log[q]) + 1}
        BY <2>2, <4>1, LogGrows
      <4> QED
        BY <4>1, <4>2 DEF RealFlows, q
    <3> QED
      BY <3>1, <3>2 DEF RealInv
  <2>3. ASSUME NEW p \in Partitions, NEW n \in 1..BatchSize, Read(p, n) PROVE RealInv'
    <3> DEFINE batch == {FlowAt(p, o) : o \in (committed[p] + 1)..upto'}
    <3>1. /\ Buffered' = Buffered \cup batch
          /\ upto' \in Nat /\ upto' <= Len(log[p]) /\ committed[p] \in Nat
      <4>1. committed[p] \in Nat
        BY ReachedType
      <4> QED
        BY <2>3, <4>1, ReadFlows
    <3>2. UNCHANGED <<log, windows, scored>>
      BY <2>3 DEF Read
    <3>3. Unscored' = Unscored /\ Counted' = Counted /\ RealFlows' = RealFlows
      BY <3>2 DEF Unscored, Counted, RealFlows
    <3>4. batch \subseteq RealFlows
      <4> SUFFICES ASSUME NEW o \in (committed[p] + 1)..upto' PROVE FlowAt(p, o) \in RealFlows
        OBVIOUS
      <4>1. /\ log[p] \in Seq(Record) /\ Len(log[p]) \in Nat /\ Len(log[p]) <= MaxRecords
            /\ MaxRecords \in Nat
        BY LenProperties, WorkerAssumption DEF TypeOK
      <4>2. o \in 1..Len(log[p]) /\ o \in 1..MaxRecords
        BY <3>1, <4>1
      <4>3. log[p][o] \in Record
        BY <4>1, <4>2, ElementOfSeq
      <4>4. log[p][o].key \in Keys /\ PartitionOf[log[p][o].key] = p
        BY <4>2, <4>3 DEF Record, ProgressInv
      <4> QED
        BY <4>2, <4>4 DEF RealFlows, FlowAt
    <3> HIDE DEF batch
    <3> QED
      BY <3>1, <3>3, <3>4 DEF RealInv
  <2>4. ASSUME NEW k \in Keys, TakeChunk(k) PROVE RealInv'
    <3> DEFINE taken == KeyFlows(k, SubSeq(pending[k], 1, CutCount(k)))
    <3>1. /\ Buffered = Buffered' \cup taken /\ scored' = scored
          /\ Unscored' = taken \/ Unscored' = {}
      BY <2>4, ChunkFlows
    <3>2. log' = log
      BY <2>4 DEF TakeChunk
    <3> HIDE DEF taken
    <3> QED
      BY <2>1, <3>1, <3>2 DEF Counted
  <2>5. CASE Score \/ SaveFails
    <3> DEFINE w == Head(windows)
    <3>1. /\ windows # <<>> /\ Put(w) /\ UNCHANGED <<log, pending>>
          /\ windows' = Tail(windows) \/ windows' = <<>>
      BY <2>5 DEF Score, SaveFails, Abort
    <3>2. Unscored = FlowsOf(w) \cup WindowFlows(Tail(windows))
      BY <3>1, HeadFlows
    <3>3. Unscored' = WindowFlows(windows') /\ WindowFlows(<<>>) = {}
      BY EmptySeq DEF Unscored, WindowFlows
    <3> HIDE DEF w
    <3>4. Counted' \subseteq Counted \cup FlowsOf(w)
      BY <3>1, PutCounts
    <3>5. Buffered' = Buffered
      BY <3>1 DEF Buffered
    <3> QED
      BY <2>1, <3>1, <3>2, <3>3, <3>4, <3>5
  <2>6. CASE ScoreFails \/ Restart
    <3>1. /\ log' = log /\ scored' = scored /\ windows' = <<>>
          /\ pending' = pending \/ pending' = [k \in Keys |-> <<>>]
      BY <2>6 DEF ScoreFails, Abort, Restart
    <3>2. ToSet(<<>>) = {} /\ Len(<<>>) = 0
      BY EmptySeq DEF ToSet
    <3>3. Unscored' = {} /\ Counted' = Counted /\ (Buffered' = Buffered \/ Buffered' = {})
      BY <3>1, <3>2 DEF Unscored, Counted, Buffered
    <3> QED
      BY <2>1, <3>1, <3>3
  <2>7. ASSUME UNCHANGED <<log, pending, windows, scored>> PROVE RealInv'
    BY <2>1, <2>7 DEF Buffered, Unscored, Counted
  <2>8. ASSUME NEW k \in Keys, Skip(k) PROVE RealInv'
    BY <2>7, <2>8 DEF Skip
  <2>9. ASSUME NEW p \in Partitions, Drained(p) PROVE RealInv'
    BY <2>7, <2>9 DEF Drained
  <2>10. ASSUME NEW ks \in SUBSET Keys, FlushStale(ks) PROVE RealInv'
    BY <2>7, <2>10 DEF FlushStale
  <2>11. CASE NothingStale \/ Stop \/ FlushDone \/ Commit \/ UNCHANGED vars
    BY <2>7, <2>11 DEF NothingStale, Stop, FlushDone, Commit, vars
  <2> QED
    BY <2>2, <2>3, <2>4, <2>5, <2>6, <2>8, <2>9, <2>10, <2>11 DEF Next, Loop
<1> QED
  BY <1>1, <1>2, TypeCorrect, ProgressInvariant, PTL DEF Spec
-----------------------------------------------------------------------------
(* A flow's place in its source: how many of the source's flows are before *)
(* it in the partition.                                                    *)
Place(k, o) == Cardinality(OfKey(PartitionOf[k], k, 1, o - 1))

(* A list of offsets takes consecutive places of its source, from m on.    *)
InPlaces(k, s, m) == \A i \in 1..Len(s) : Place(k, s[i]) = m + i - 1

(* The offsets of a key in a range are finitely many.                      *)
LEMMA OfKeyType ==
    ASSUME NEW p, NEW k, NEW from \in Int, NEW to \in Int
    PROVE  IsFiniteSet(OfKey(p, k, from, to)) /\ Cardinality(OfKey(p, k, from, to)) \in Nat
<1>1. IsFiniteSet(from..to) /\ OfKey(p, k, from, to) \in SUBSET (from..to)
  BY FS_Interval DEF OfKey
<1>2. IsFiniteSet(OfKey(p, k, from, to))
  BY <1>1, FS_Subset
<1> QED
  BY <1>2, FS_CardinalityType

(* Places count the source's own flows between two offsets.                *)
LEMMA PlaceSteps ==
    ASSUME NEW k \in Keys, NEW o \in Nat \ {0}, NEW q \in Nat, o <= q
    PROVE  /\ Place(k, o) \in Nat /\ Place(k, q) \in Nat
           /\ Place(k, q) = Place(k, o) + Cardinality(OfKey(PartitionOf[k], k, o, q - 1))
<1> DEFINE p == PartitionOf[k]
           A == OfKey(p, k, 1, o - 1)
           B == OfKey(p, k, o, q - 1)
<1>1. /\ IsFiniteSet(A) /\ Cardinality(A) \in Nat /\ IsFiniteSet(B) /\ Cardinality(B) \in Nat
      /\ Cardinality(OfKey(p, k, 1, q - 1)) \in Nat
  BY OfKeyType
<1>2. OfKey(p, k, 1, q - 1) = A \cup B /\ A \cap B = {}
  BY DEF OfKey
<1> HIDE DEF A, B
<1>3. Cardinality(A \cup B) = Cardinality(A) + Cardinality(B)
  <2>1. Cardinality(A \cup B) = Cardinality(A) + Cardinality(B) - Cardinality(A \cap B)
    BY <1>1, FS_Union
  <2>2. Cardinality(A \cap B) = 0
    BY <1>2, FS_EmptySet
  <2> QED
    BY <1>1, <2>1, <2>2
<1> QED
  BY <1>1, <1>2, <1>3 DEF Place, A, B

(* No two flows of a source have the same place.                           *)
LEMMA PlaceDiffers ==
    ASSUME TypeOK, NEW k \in Keys, NEW o \in Nat \ {0}, NEW q \in Nat, o < q, <<k, o>> \in RealFlows
    PROVE  Place(k, o) < Place(k, q)
<1> DEFINE B == OfKey(PartitionOf[k], k, o, q - 1)
<1>1. o \in B
  BY DEF OfKey, RealFlows
<1>2. IsFiniteSet(B) /\ Cardinality(B) \in Nat
  BY OfKeyType
<1>3. /\ Place(k, o) \in Nat /\ Place(k, q) = Place(k, o) + Cardinality(B)
  BY PlaceSteps
<1> HIDE DEF B
<1>4. Cardinality(B) # 0
  BY <1>1, <1>2, FS_EmptySet
<1> QED
  BY <1>2, <1>3, <1>4

(* A batch's flows of a source take the next places.                       *)
LEMMA BatchPlaces ==
    ASSUME TypeOK, NEW k \in Keys, NEW from \in Nat \ {0}, NEW to \in Nat, from <= to + 1,
           to <= Len(log[PartitionOf[k]])
    PROVE  LET s == OffsetsIn(PartitionOf[k], k, from, to)
           IN  InPlaces(k, s, Place(k, from)) /\ Place(k, to + 1) = Place(k, from) + Len(s)
<1> DEFINE p == PartitionOf[k]
           s == OffsetsIn(p, k, from, to)
           S == OfKey(p, k, from, to)
<1>1. p \in Partitions
  BY WorkerAssumption
<1>2. /\ s \in Seq(1..MaxRecords) /\ ToSet(s) = S /\ Len(s) = Cardinality(S)
      /\ \A i \in 1..Len(s) : Cardinality(Under(S, s[i])) = i - 1
  BY <1>1, BatchOffsets
<1>3. Place(k, to + 1) = Place(k, from) + Cardinality(OfKey(p, k, from, to + 1 - 1))
  BY PlaceSteps
<1>4. to + 1 - 1 = to
  OBVIOUS
<1>5. ASSUME NEW i \in 1..Len(s) PROVE Place(k, s[i]) = Place(k, from) + i - 1
  <2>1. s[i] \in S
    BY <1>2, LenProperties DEF ToSet
  <2> DEFINE o == s[i]
  <2>2. o \in Nat /\ from <= o /\ o <= to /\ Under(S, o) = OfKey(p, k, from, o - 1)
    BY <2>1 DEF OfKey, Under
  <2>3. Cardinality(Under(S, o)) = i - 1
    BY <1>2
  <2> HIDE DEF o, s, S
  <2>4. Place(k, o) = Place(k, from) + Cardinality(OfKey(p, k, from, o - 1)) /\ Place(k, from) \in Nat
    BY <2>2, PlaceSteps
  <2>5. i \in Nat
    BY <1>2, LenProperties
  <2> QED
    BY <2>2, <2>3, <2>4, <2>5 DEF o
<1>6. Len(s) = Cardinality(OfKey(p, k, from, to))
  BY <1>2
<1> HIDE DEF s
<1> QED
  BY <1>3, <1>4, <1>5, <1>6 DEF InPlaces, s

(* A source's windows lie on a grid of W places, and so does the start of  *)
(* its buffer as long as only full windows were cut before it.             *)
OnGrid(w) == \E m \in Nat : InPlaces(w.key, w.recs, m * W)

(* The buffer starts at a multiple of W, and the next record read follows  *)
(* it.                                                                     *)
NextOnGrid(k) ==
    \E m \in Nat : /\ InPlaces(k, pending[k], m * W)
                   /\ Place(k, Reached(PartitionOf[k]) + 1) = m * W + Len(pending[k])

(* The cuts stay on the grid, in this process and in the ones before it,   *)
(* whose windows `scored` still holds.                                     *)
GridInv ==
    (raises = 0 /\ \A w \in scored : Len(w.recs) = W) =>
        /\ \A w \in scored \cup ToSet(windows) : OnGrid(w)
        /\ (\A w \in ToSet(windows) : Len(w.recs) = W) => \A k \in Keys : NextOnGrid(k)

(* Moving a window along by some more windows.                             *)
LEMMA Distributes ==
    ASSUME NEW a \in Nat, NEW b \in Nat
    PROVE  (a + b) * W = a * W + b * W /\ a * W \in Nat /\ b * W \in Nat
BY WorkerAssumption

(* What is added to an aligned buffer stays aligned.                       *)
LEMMA ReadOnGrid ==
    ASSUME TypeOK, TypeOK', ProgressInv, NEW p \in Partitions, NEW n \in 1..BatchSize, Read(p, n),
           NEW k \in Keys, NextOnGrid(k)
    PROVE  NextOnGrid(k)'
<1> DEFINE q == PartitionOf[k]
           fresh == OffsetsIn(p, k, committed[p] + 1, upto')
<1>1. /\ mode = "idle" /\ turn = p /\ mode' = "batch" /\ UNCHANGED <<log, committed, turn>>
  BY DEF Read
<1>2. PICK m \in Nat : /\ InPlaces(k, pending[k], m * W)
                       /\ Place(k, Reached(q) + 1) = m * W + Len(pending[k])
  BY DEF NextOnGrid
<1>3. \A o : Place(k, o)' = Place(k, o)
  BY <1>1 DEF Place, OfKey
<1>4. /\ upto' \in Nat /\ upto' <= Len(log[p]) /\ committed[p] < upto' /\ committed[p] \in Nat
      /\ pending'[k] = pending[k] \o (IF q = p THEN fresh ELSE <<>>)
  <2>1. committed[p] \in Nat
    BY ReachedType
  <2> QED
    BY <2>1, ReadFlows
<1>5. pending[k] \in Seq(1..MaxRecords) /\ Len(pending[k]) \in Nat
  BY LenProperties DEF TypeOK
<1>6. CASE q # p
  <2>1. pending'[k] = pending[k]
    BY <1>4, <1>5, <1>6, ConcatProperties, EmptySeq
  <2>2. Reached(q)' = Reached(q)
    BY <1>1, <1>6 DEF Reached
  <2> QED
    BY <1>2, <1>3, <2>1, <2>2 DEF NextOnGrid, InPlaces
<1>7. CASE q = p
  <2>1. Reached(q) = committed[p] /\ Reached(q)' = upto'
    BY <1>1, <1>7 DEF Reached
  <2>2. fresh \in Seq(1..MaxRecords)
    BY <1>4, BatchOffsets
  <2>3. /\ InPlaces(k, fresh, Place(k, committed[p] + 1))
        /\ Place(k, upto' + 1) = Place(k, committed[p] + 1) + Len(fresh)
    <3> DEFINE from == committed[p] + 1
    <3>1. from \in Nat \ {0} /\ from <= upto' + 1
      BY <1>4
    <3> HIDE DEF from
    <3>2. LET s == OffsetsIn(PartitionOf[k], k, from, upto')
          IN  InPlaces(k, s, Place(k, from)) /\ Place(k, upto' + 1) = Place(k, from) + Len(s)
      BY <1>4, <1>7, <3>1, BatchPlaces
    <3> QED
      BY <1>7, <3>2 DEF from
  <2>4. pending'[k] = pending[k] \o fresh
    BY <1>4, <1>7
  <2> HIDE DEF fresh
  <2> DEFINE a == m * W
             s == pending[k]
             u == s \o fresh
  <2>5. a \in Nat
    BY Distributes
  <2> HIDE DEF a
  <2>6. /\ Len(fresh) \in Nat /\ Len(u) = Len(s) + Len(fresh)
        /\ \A i \in 1..(Len(s) + Len(fresh)) : u[i] = IF i <= Len(s) THEN s[i] ELSE fresh[i - Len(s)]
    BY <1>5, <2>2, ConcatProperties, LenProperties
  <2>7. Place(k, committed[p] + 1) = a + Len(s) /\ \A i \in 1..Len(s) : Place(k, s[i]) = a + i - 1
    BY <1>2, <2>1 DEF a, InPlaces
  <2>8. \A i \in 1..Len(fresh) : Place(k, fresh[i]) = a + Len(s) + i - 1
    BY <2>3, <2>7 DEF InPlaces
  <2> HIDE DEF s, u
  <2>9. ASSUME NEW i \in 1..(Len(s) + Len(fresh)) PROVE Place(k, u[i]) = a + i - 1
    <3>1. CASE i <= Len(s)
      BY <1>5, <2>6, <2>7, <3>1 DEF s
    <3>2. CASE ~(i <= Len(s))
      <4>1. i - Len(s) \in 1..Len(fresh) /\ u[i] = fresh[i - Len(s)]
        BY <1>5, <2>6, <3>2 DEF s
      <4>2. Place(k, u[i]) = a + Len(s) + (i - Len(s)) - 1
        BY <2>8, <4>1
      <4>3. Len(s) \in Nat
        BY <1>5 DEF s
      <4> QED
        BY <2>5, <4>2, <4>3
    <3> QED
      BY <3>1, <3>2
  <2>10. Place(k, upto' + 1) = a + Len(u)
    BY <1>5, <2>3, <2>5, <2>6, <2>7 DEF s
  <2>11. InPlaces(k, pending'[k], a) /\ Place(k, Reached(q)' + 1) = a + Len(pending'[k])
    BY <2>1, <2>4, <2>6, <2>9, <2>10 DEF InPlaces, s, u
  <2> QED
    BY <1>3, <2>11 DEF NextOnGrid, InPlaces, a
<1> QED
  BY <1>6, <1>7

(* The windows cut from an aligned buffer are on the grid, and when all of *)
(* them are full so is what stays behind.                                  *)
LEMMA CutOnGrid ==
    ASSUME TypeOK, NEW k \in Keys, TakeChunk(k), raises' = raises, NextOnGrid(k)
    PROVE  /\ \A w \in ToSet(windows') : OnGrid(w)
           /\ (\A w \in ToSet(windows') : Len(w.recs) = W) => NextOnGrid(k)'
<1> DEFINE s == pending[k]
           n == CutCount(k)
           chunk == SubSeq(s, 1, n)
           rest == SubSeq(s, n + 1, Len(s))
           pieces == Pieces(chunk)
           q == PartitionOf[k]
<1>1. windows' = Cut(k, chunk) /\ UNCHANGED <<mode, turn, upto>>
  <2>1. raises \in Nat
    BY WorkerAssumption DEF TypeOK
  <2> QED
    BY <2>1, ChunkFlows
<1>2. UNCHANGED <<log, committed>> /\ pending'[k] = rest
  BY DEF TakeChunk, TypeOK
<1>3. PICK m \in Nat : InPlaces(k, s, m * W) /\ Place(k, Reached(q) + 1) = m * W + Len(s)
  BY DEF NextOnGrid
<1>4. /\ Len(s) \in Nat /\ n \in 0..Len(s)
      /\ chunk \in Seq(1..MaxRecords) /\ rest \in Seq(1..MaxRecords)
      /\ Len(chunk) = n /\ Len(rest) = Len(s) - n
      /\ \A i \in 1..n : chunk[i] = s[i]
      /\ \A i \in 1..(Len(s) - n) : rest[i] = s[n + i]
  BY ChunkTaken, CutCountType, LenProperties DEF TypeOK
<1>5. W \in Nat \ {0}
  BY WorkerAssumption
<1>6. /\ Cut(k, chunk) \in Seq(Window) /\ Len(Cut(k, chunk)) = pieces
      /\ pieces \in Nat /\ n + W - 1 < pieces * W + W
  <2>1. n + W - 1 \in Nat
    BY <1>4, <1>5
  <2> QED
    BY <1>4, <2>1, CutLists, DivBounds DEF Pieces
<1> HIDE DEF s, n, chunk, rest, pieces
<1>7. ToSet(windows') = {Cut(k, chunk)[i] : i \in 1..pieces}
  BY <1>1, <1>6, LenProperties DEF ToSet
<1>8. ASSUME NEW i \in 1..pieces
      PROVE  LET w == Cut(k, chunk)[i]
                 size == IF i * W <= n THEN W ELSE n - (i - 1) * W
             IN  /\ OnGrid(w) /\ Len(w.recs) = size
                 /\ (i - 1) * W + size <= n
  <2> DEFINE w == Cut(k, chunk)[i]
             size == IF i * W <= n THEN W ELSE n - (i - 1) * W
             b == (i - 1) * W
  <2>1. /\ w.key = k /\ size \in 1..W /\ b + size <= n /\ Len(w.recs) = size
        /\ \A j \in 1..size : w.recs[j] = chunk[b + j]
    BY <1>4, CutAt DEF pieces
  <2>2. i - 1 \in Nat
    BY <1>6
  <2>3. (m + (i - 1)) * W = m * W + b /\ m * W \in Nat /\ b \in Nat
    BY <2>2, Distributes
  <2> DEFINE a == m * W
  <2> HIDE DEF w, size, a, b
  <2>4. ASSUME NEW j \in 1..size PROVE Place(k, w.recs[j]) = a + b + j - 1
    <3>1. b + j \in 1..n /\ b + j \in 1..Len(s)
      BY <1>4, <1>5, <2>1, <2>3
    <3>2. w.recs[j] = s[b + j]
      BY <1>4, <2>1, <3>1
    <3>3. Place(k, s[b + j]) = a + (b + j) - 1
      BY <1>3, <3>1 DEF InPlaces, a
    <3> QED
      BY <1>5, <2>1, <2>3, <3>2, <3>3 DEF a
  <2>5. InPlaces(w.key, w.recs, (m + (i - 1)) * W)
    BY <2>1, <2>3, <2>4 DEF InPlaces, a
  <2>6. OnGrid(w)
    BY <2>2, <2>5 DEF OnGrid
  <2> QED
    BY <2>1, <2>6 DEF w, size, b
<1>9. \A w \in ToSet(windows') : OnGrid(w)
  BY <1>7, <1>8
<1>10. ASSUME \A w \in ToSet(windows') : Len(w.recs) = W PROVE NextOnGrid(k)'
  <2> DEFINE c == pieces * W
             a == m * W
  <2>1. (m + pieces) * W = a + c /\ a \in Nat /\ c \in Nat
    BY <1>6, Distributes
  <2>2. n = c
    <3>1. CASE pieces = 0
      BY <1>4, <1>5, <1>6, <3>1
    <3>2. CASE pieces # 0
      <4>1. pieces \in 1..pieces
        BY <1>6, <3>2
      <4>2. /\ Len(Cut(k, chunk)[pieces].recs) = W
            /\ Len(Cut(k, chunk)[pieces].recs) = IF c <= n THEN W ELSE n - (pieces - 1) * W
            /\ (pieces - 1) * W + W <= n
        <5>1. Cut(k, chunk)[pieces] \in ToSet(windows')
          BY <1>7, <4>1
        <5>2. Len(Cut(k, chunk)[pieces].recs) = W
          BY <1>10, <5>1
        <5> QED
          BY <1>8, <4>1, <5>2
      <4>3. (pieces - 1) * W + W = c
        BY <1>5, <1>6, <4>1
      <4> HIDE DEF c
      <4> QED
        BY <1>4, <1>5, <1>6, <2>1, <4>2, <4>3 DEF c
    <3> QED
      BY <3>1, <3>2
  <2> HIDE DEF a, c
  <2>3. ASSUME NEW i \in 1..Len(rest) PROVE Place(k, rest[i]) = (a + c) + i - 1
    <3>1. n + i \in 1..Len(s) /\ rest[i] = s[n + i]
      BY <1>4
    <3>2. Place(k, s[n + i]) = a + (n + i) - 1
      BY <1>3, <3>1 DEF InPlaces, a
    <3> QED
      BY <1>4, <2>1, <2>2, <3>1, <3>2
  <2>4. Place(k, Reached(q) + 1) = (a + c) + Len(rest)
    <3>1. Place(k, Reached(q) + 1) = a + Len(s)
      BY <1>3 DEF a
    <3> QED
      BY <1>4, <2>1, <2>2, <3>1
  <2>5. m + pieces \in Nat /\ InPlaces(k, rest, (m + pieces) * W)
        /\ Place(k, Reached(q) + 1) = (m + pieces) * W + Len(rest)
    BY <1>6, <2>1, <2>3, <2>4 DEF InPlaces
  <2>6. /\ \A o : Place(k, o)' = Place(k, o)
        /\ Reached(q)' = Reached(q)
    BY <1>1, <1>2 DEF Place, OfKey, Reached
  <2> QED
    BY <1>2, <2>5, <2>6 DEF NextOnGrid, InPlaces
<1> QED
  BY <1>9, <1>10

(* Every process cuts on the same grid, as a replay starts at offset 1 and *)
(* as each full cut leaves the buffer at the next multiple of W.           *)
LEMMA GridInvariant == Spec => []GridInv
<1> USE DEF buffers, emission, history
<1>1. ToSet(<<>>) = {} /\ Len(<<>>) = 0
  BY EmptySeq DEF ToSet
<1>2. ASSUME NEW k \in Keys, pending[k] = <<>>, Reached(PartitionOf[k]) = 0 PROVE NextOnGrid(k)
  <2>1. OfKey(PartitionOf[k], k, 1, 0 + 1 - 1) = {}
    BY DEF OfKey
  <2>2. Place(k, 0 + 1) = 0 /\ 0 * W = 0
    BY <2>1, FS_EmptySet, WorkerAssumption DEF Place
  <2> QED
    BY <1>1, <1>2, <2>2 DEF NextOnGrid, InPlaces
<1>3. Init => GridInv
  <2> SUFFICES ASSUME Init PROVE GridInv
    OBVIOUS
  <2>1. \A k \in Keys : pending[k] = <<>> /\ Reached(PartitionOf[k]) = 0
    BY WorkerAssumption DEF Init, Reached
  <2>2. scored = {} /\ ToSet(windows) = {}
    BY <1>1 DEF Init
  <2> QED
    BY <1>2, <2>1, <2>2 DEF GridInv
<1>4. /\ TypeOK /\ TypeOK' /\ ProgressInv /\ RealInv /\ BelowInv /\ SequenceInv /\ GridInv /\ [Next]_vars
      => GridInv'
  <2> SUFFICES ASSUME TypeOK, TypeOK', ProgressInv, RealInv, BelowInv, SequenceInv, GridInv, [Next]_vars
               PROVE  GridInv'
    OBVIOUS
  <2> DEFINE Full == \A w \in scored : Len(w.recs) = W
             AllOn == \A w \in scored \cup ToSet(windows) : OnGrid(w)
             AllFull == \A w \in ToSet(windows) : Len(w.recs) = W
             Buffers == \A k \in Keys : NextOnGrid(k)
  <2>1. GridInv <=> (raises = 0 /\ Full => AllOn /\ (AllFull => Buffers))
    BY DEF GridInv
  <2>2. GridInv' <=> (raises' = 0 /\ Full' => AllOn' /\ (AllFull' => Buffers'))
    BY DEF GridInv
  <2>3. ASSUME log' = log
        PROVE  /\ \A k, o : Place(k, o)' = Place(k, o)
               /\ \A w : OnGrid(w)' <=> OnGrid(w)
    BY <2>3 DEF Place, OfKey, OnGrid, InPlaces
  <2>4. ASSUME log' = log, NEW k \in Keys, pending'[k] = pending[k],
               Reached(PartitionOf[k])' = Reached(PartitionOf[k])
        PROVE  NextOnGrid(k) => NextOnGrid(k)'
    BY <2>3, <2>4 DEF NextOnGrid, InPlaces
  <2>5. \A k \in Keys : PartitionOf[k] \in Partitions
    BY WorkerAssumption
  <2>6. raises \in Nat
    BY WorkerAssumption DEF TypeOK
  <2>7. ASSUME UNCHANGED <<log, pending, windows, scored, raises>>,
               \A q \in Partitions : Reached(q)' = Reached(q)
        PROVE  GridInv'
    <3>1. AllOn => AllOn'
      BY <2>3, <2>7
    <3>2. Buffers => Buffers'
      BY <2>4, <2>5, <2>7
    <3> QED
      BY <2>1, <2>2, <2>7, <3>1, <3>2
  <2>8. ASSUME NEW k \in Keys, NEW t \in Timestamps, Produce(k, t) PROVE GridInv'
    <3>1. UNCHANGED <<committed, pending, windows, scored, raises, mode, turn, upto>>
      BY <2>8 DEF Produce
    <3>2. \A q \in Partitions : Reached(q)' = Reached(q)
      BY <3>1 DEF Reached
    <3>3. ASSUME NEW j \in Keys, NEW o \in Nat, o <= Len(log[PartitionOf[j]]) + 1
          PROVE  Place(j, o)' = Place(j, o)
      <4> DEFINE q == PartitionOf[j]
      <4>1. q \in Partitions /\ Len(log[q]) \in Nat
        BY <2>5, ReachedType
      <4>2. \A x \in 1..(o - 1) : log'[q][x] = log[q][x]
        <5>1. \A x \in 1..(o - 1) : x \in 1..Len(log[q])
          BY <3>3, <4>1
        <5> QED
          BY <2>8, <4>1, <5>1, LogGrows
      <4>3. OfKey(q, j, 1, o - 1)' = OfKey(q, j, 1, o - 1)
        BY <4>2 DEF OfKey
      <4> QED
        BY <4>3 DEF Place
    <3>4. ASSUME NEW f \in RealFlows
          PROVE  Place(f[1], f[2])' = Place(f[1], f[2])
      <4>1. f[1] \in Keys /\ f[2] \in Nat /\ f[2] <= Len(log[PartitionOf[f[1]]])
        BY DEF RealFlows
      <4>2. Len(log[PartitionOf[f[1]]]) \in Nat
        BY <2>5, <4>1, ReachedType
      <4>3. f[2] <= Len(log[PartitionOf[f[1]]]) + 1
        BY <4>1, <4>2
      <4> QED
        BY <3>3, <4>1, <4>3
    <3>5. ASSUME NEW w \in scored \cup ToSet(windows), OnGrid(w) PROVE OnGrid(w)'
      <4>1. FlowsOf(w) \subseteq RealFlows
        <5>1. w \in scored => FlowsOf(w) \subseteq Counted
          BY DEF Counted
        <5>2. w \in ToSet(windows) => FlowsOf(w) \subseteq Unscored
          <6>1. DOMAIN windows = 1..Len(windows)
            BY LenProperties DEF TypeOK
          <6> QED
            BY <6>1 DEF Unscored, ToSet
        <5> QED
          BY <5>1, <5>2 DEF RealInv
      <4>2. \A i \in 1..Len(w.recs) : <<w.key, w.recs[i]>> \in FlowsOf(w)
        <5>1. w \in Window
          BY ElemsType DEF TypeOK
        <5>2. DOMAIN w.recs = 1..Len(w.recs)
          BY <5>1, LenProperties DEF Window
        <5> QED
          BY <5>2 DEF FlowsOf, ToSet
      <4>3. \A i \in 1..Len(w.recs) : Place(w.key, w.recs[i])' = Place(w.key, w.recs[i])
        <5> TAKE i \in 1..Len(w.recs)
        <5>1. <<w.key, w.recs[i]>> \in RealFlows
          BY <4>1, <4>2
        <5> QED
          BY <3>4, <5>1
      <4> QED
        BY <3>5, <4>3 DEF OnGrid, InPlaces
    <3>6. ASSUME NEW j \in Keys, NextOnGrid(j) PROVE NextOnGrid(j)'
      <4>1. \A i \in 1..Len(pending[j]) : Place(j, pending[j][i])' = Place(j, pending[j][i])
        <5>1. \A i \in 1..Len(pending[j]) : pending[j][i] \in ToSet(pending[j])
          BY LenProperties DEF TypeOK, ToSet
        <5>2. ASSUME NEW o \in ToSet(pending[j]) PROVE Place(j, o)' = Place(j, o)
          <6>1. <<j, o>> \in RealFlows
            BY DEF Buffered, RealInv
          <6> QED
            BY <3>4, <6>1
        <5> QED
          BY <3>1, <5>1, <5>2 DEF Place
      <4>2. Place(j, Reached(PartitionOf[j]) + 1)' = Place(j, Reached(PartitionOf[j]) + 1)
        <5>1. Reached(PartitionOf[j]) \in Nat /\ Reached(PartitionOf[j]) <= Len(log[PartitionOf[j]])
              /\ Len(log[PartitionOf[j]]) \in Nat
          BY <2>5, ReachedType DEF ProgressInv
        <5> DEFINE o == Reached(PartitionOf[j]) + 1
        <5>2. o \in Nat /\ o <= Len(log[PartitionOf[j]]) + 1 /\ o' = o
          BY <2>5, <3>2, <5>1
        <5> HIDE DEF o
        <5>3. Place(j, o)' = Place(j, o)
          BY <3>3, <5>2 DEF Place
        <5> QED
          BY <5>2, <5>3 DEF o, Place
      <4> QED
        BY <3>1, <3>6, <4>1, <4>2 DEF NextOnGrid, InPlaces
    <3> QED
      BY <2>1, <2>2, <3>1, <3>5, <3>6
  <2>9. ASSUME NEW p \in Partitions, NEW n \in 1..BatchSize, Read(p, n) PROVE GridInv'
    <3>1. UNCHANGED <<log, windows, scored, raises>>
      BY <2>9 DEF Read
    <3>2. AllOn => AllOn'
      BY <2>3, <3>1
    <3>3. Buffers => Buffers'
      BY <2>9, ReadOnGrid
    <3> QED
      BY <2>1, <2>2, <3>1, <3>2, <3>3
  <2>10. ASSUME NEW k \in Keys, TakeChunk(k) PROVE GridInv'
    <3>1. UNCHANGED <<log, scored, committed>> /\ windows = <<>>
      BY <2>10 DEF TakeChunk
    <3>2. CASE raises' # raises
      BY <2>2, <2>6, <2>10, <3>2 DEF TakeChunk, Abort
    <3>3. CASE raises' = raises
      <4>1. AllFull /\ (raises = 0 /\ Full => Buffers) /\ ToSet(windows) = {}
        BY <1>1, <2>1, <3>1
      <4>2. Buffers => (\A w \in ToSet(windows') : OnGrid(w)) /\ (AllFull' => NextOnGrid(k)')
        BY <2>10, <3>3, CutOnGrid
      <4>3. UNCHANGED <<mode, turn, upto>> /\ \A j \in Keys : j # k => pending'[j] = pending[j]
        <5>1. UNCHANGED <<mode, turn, upto>>
          BY <2>6, <2>10, <3>3, ChunkFlows
        <5> QED
          BY <2>10, <5>1 DEF TakeChunk, TypeOK
      <4>4. \A q : Reached(q)' = Reached(q)
        BY <3>1, <4>3 DEF Reached
      <4>5. Buffers => \A j \in Keys : j # k => NextOnGrid(j)'
        BY <2>4, <3>1, <4>3, <4>4
      <4>6. AllOn /\ (\A w \in ToSet(windows') : OnGrid(w)) => AllOn'
        BY <2>3, <3>1
      <4> QED
        BY <2>1, <2>2, <3>1, <3>3, <4>1, <4>2, <4>5, <4>6
    <3> QED
      BY <3>2, <3>3
  <2>11. CASE Score
    <3> DEFINE w == Head(windows)
    <3>1. /\ windows # <<>> /\ windows' = Tail(windows) /\ Put(w)
          /\ UNCHANGED <<log, pending, committed, mode, turn, upto, raises>>
      BY <2>11 DEF Score
    <3>2. ToSet(windows) = {w} \cup ToSet(windows')
      BY <3>1, HeadElems DEF TypeOK
    <3> HIDE DEF w
    <3>3. SUFFICES ASSUME raises = 0, Full' PROVE AllOn' /\ (AllFull' => Buffers')
      BY <2>2, <3>1
    <3>4. Identity(w) \notin seen
      BY <3>1, <3>3, HeadFirst DEF SequenceInv, w
    <3>5. scored' = scored \cup {w}
      BY <3>1, <3>4 DEF Put
    <3>6. Full /\ (AllFull' => AllFull) /\ (AllOn => AllOn')
      BY <2>3, <3>1, <3>2, <3>3, <3>5
    <3>7. \A q : Reached(q)' = Reached(q)
      BY <3>1 DEF Reached
    <3>8. Buffers => Buffers'
      BY <2>4, <3>1, <3>7
    <3> QED
      BY <2>1, <3>3, <3>6, <3>8
  <2>12. CASE ScoreFails \/ SaveFails
    <3>1. raises' = raises + 1
      BY <2>12 DEF ScoreFails, SaveFails, Abort
    <3> QED
      BY <2>2, <2>6, <3>1
  <2>13. CASE Restart
    <3>1. /\ UNCHANGED <<log, scored, raises>> /\ windows' = <<>> /\ ToSet(windows') = {}
          /\ \A k \in Keys : pending'[k] = <<>> /\ Reached(PartitionOf[k])' = 0
      BY <1>1, <2>5, <2>13 DEF Restart, Reached
    <3>2. ASSUME NEW k \in Keys PROVE NextOnGrid(k)'
      <4>1. OfKey(PartitionOf[k], k, 1, 0 + 1 - 1)' = {}
        BY DEF OfKey
      <4>2. Place(k, 0 + 1)' = 0 /\ 0 * W = 0
        BY <4>1, FS_EmptySet, WorkerAssumption DEF Place
      <4> QED
        BY <1>1, <3>1, <4>2 DEF NextOnGrid, InPlaces
    <3>3. AllOn => AllOn'
      BY <2>3, <3>1
    <3> QED
      BY <2>1, <2>2, <3>1, <3>2, <3>3
  <2>14. CASE Commit
    <3>1. \A q \in Partitions : Reached(q)' = Reached(q)
      BY <2>14, CommitReaches
    <3> QED
      BY <2>7, <2>14, <3>1 DEF Commit
  <2>15. ASSUME UNCHANGED <<log, pending, windows, scored, raises, committed>>,
                (mode # "batch" /\ mode' # "batch") \/ UNCHANGED <<mode, turn, upto>>
         PROVE  GridInv'
    <3>1. \A q \in Partitions : Reached(q)' = Reached(q)
      BY <2>15 DEF Reached
    <3> QED
      BY <2>7, <2>15, <3>1
  <2>16. ASSUME NEW k \in Keys, Skip(k) PROVE GridInv'
    BY <2>15, <2>16 DEF Skip
  <2>17. ASSUME NEW p \in Partitions, Drained(p) PROVE GridInv'
    BY <2>15, <2>17 DEF Drained
  <2>18. ASSUME NEW ks \in SUBSET Keys, FlushStale(ks) PROVE GridInv'
    BY <2>15, <2>18 DEF FlushStale
  <2>19. CASE NothingStale \/ Stop \/ FlushDone \/ UNCHANGED vars
    BY <2>15, <2>19 DEF NothingStale, Stop, FlushDone, vars
  <2> QED
    BY <2>8, <2>9, <2>10, <2>11, <2>12, <2>13, <2>14, <2>16, <2>17, <2>18, <2>19 DEF Next, Loop
<1> QED
  BY <1>3, <1>4, TypeCorrect, ProgressInvariant, RealInvariant, BelowInvariant, SequenceInvariant, PTL
     DEF Spec

(* Two places on the grid agree only in the same row and column.           *)
LEMMA GridCells ==
    ASSUME NEW m \in Nat, NEW l \in Nat, NEW i \in 1..W, NEW j \in 1..W,
           m * W + i - 1 = l * W + j - 1
    PROVE  m * W = l * W
<1>1. W \in Nat \ {0} /\ m * W \in Nat /\ l * W \in Nat
  BY WorkerAssumption, Distributes
<1>2. /\ m < l => m * W + W <= l * W
      /\ l < m => l * W + W <= m * W
  BY TimesMonotonic
<1> DEFINE a == m * W
           b == l * W
<1>3. a \in Nat /\ b \in Nat /\ a + i - 1 = b + j - 1
      /\ (m < l => a + W <= b) /\ (l < m => b + W <= a)
  BY <1>1, <1>2
<1> HIDE DEF a, b
<1>4. ~(m < l) /\ ~(l < m)
  BY <1>1, <1>3
<1> QED
  BY <1>4

(* While every emission succeeded, a replay after any number of restarts   *)
(* cuts the windows it cut before, unless a stale buffer was released:     *)
(* windows of full size that share a flow are the same window.             *)
THEOREM ReplaysAgree == Spec => []ReplayCutsSameWindows
<1>1. TypeOK /\ RealInv /\ GridInv => ReplayCutsSameWindows
  <2> SUFFICES ASSUME TypeOK, RealInv, GridInv, raises = 0, \A w \in scored : Len(w.recs) = W,
                      NEW v \in scored, NEW w \in scored, FlowsOf(v) \cap FlowsOf(w) # {}
               PROVE  v = w
    BY DEF ReplayCutsSameWindows
  <2>1. ASSUME NEW u \in scored
        PROVE  /\ u = [key |-> u.key, recs |-> u.recs] /\ u.key \in Keys
               /\ u.recs \in Seq(1..MaxRecords) /\ Len(u.recs) = W /\ DOMAIN u.recs = 1..W
               /\ OnGrid(u) /\ FlowsOf(u) \subseteq RealFlows
    <3>1. u \in Window /\ Len(u.recs) = W
      BY DEF TypeOK
    <3>2. u.recs \in Seq(1..MaxRecords) /\ u.key \in Keys /\ u = [key |-> u.key, recs |-> u.recs]
      BY <3>1 DEF Window
    <3>3. DOMAIN u.recs = 1..W
      BY <3>1, <3>2, LenProperties
    <3>4. OnGrid(u)
      BY DEF GridInv
    <3>5. FlowsOf(u) \subseteq RealFlows
      BY DEF RealInv, Counted
    <3> QED
      BY <3>1, <3>2, <3>3, <3>4, <3>5
  <2>2. PICK f : f \in FlowsOf(v) /\ f \in FlowsOf(w)
    OBVIOUS
  <2>3. PICK i \in 1..W : f = <<v.key, v.recs[i]>>
    BY <2>1, <2>2 DEF FlowsOf, ToSet
  <2>4. PICK j \in 1..W : f = <<w.key, w.recs[j]>>
    BY <2>1, <2>2 DEF FlowsOf, ToSet
  <2>5. v.key = w.key /\ v.recs[i] = w.recs[j]
    BY <2>3, <2>4
  <2>6. PICK m \in Nat : InPlaces(v.key, v.recs, m * W)
    BY <2>1 DEF OnGrid
  <2>7. PICK l \in Nat : InPlaces(w.key, w.recs, l * W)
    BY <2>1 DEF OnGrid
  <2>8. \A x \in 1..W : Place(v.key, v.recs[x]) = m * W + x - 1 /\ Place(v.key, w.recs[x]) = l * W + x - 1
    BY <2>1, <2>5, <2>6, <2>7 DEF InPlaces
  <2>9. m * W = l * W
    <3>1. m * W + i - 1 = l * W + j - 1
      BY <2>5, <2>8
    <3> QED
      BY <3>1, GridCells
  <2>10. ASSUME NEW x \in 1..W PROVE v.recs[x] = w.recs[x]
    <3> DEFINE a == v.recs[x]
               b == w.recs[x]
    <3>1. Place(v.key, a) = Place(v.key, b)
      BY <2>8, <2>9
    <3>2. /\ <<v.key, a>> \in RealFlows /\ <<v.key, b>> \in RealFlows /\ v.key \in Keys
          /\ a \in Nat \ {0} /\ b \in Nat \ {0}
      <4>1. <<v.key, a>> \in FlowsOf(v) /\ <<w.key, b>> \in FlowsOf(w)
        BY <2>1 DEF FlowsOf, ToSet
      <4>2. <<v.key, a>> \in RealFlows /\ <<v.key, b>> \in RealFlows
        BY <2>1, <2>5, <4>1
      <4> QED
        BY <2>1, <4>2 DEF RealFlows
    <3> HIDE DEF a, b
    <3>3. Place(v.key, a) \in Nat /\ Place(v.key, b) \in Nat
      <4>1. a <= a /\ b <= b
        BY <3>2
      <4> QED
        BY <3>2, <4>1, PlaceSteps
    <3>4. ~(a < b) /\ ~(b < a)
      BY <3>1, <3>2, <3>3, PlaceDiffers
    <3>5. a = b
      BY <3>2, <3>4
    <3> QED
      BY <3>5 DEF a, b
  <2>11. v.recs = w.recs
    BY <2>1, <2>10
  <2> QED
    BY <2>1, <2>5, <2>11
<1> QED
  BY <1>1, TypeCorrect, RealInvariant, GridInvariant, PTL

-----------------------------------------------------------------------------
(* An increasing sequence is the one listing of its elements.              *)
LEMMA OnlyListing ==
    ASSUME NEW s \in Seq(Nat), Increasing(s)
    PROVE  InOrder(ToSet(s)) = s
<1> DEFINE S == ToSet(s)
           n == Len(s)
           l == InOrder(S)
<1>1. n \in Nat /\ DOMAIN s = 1..n /\ \A i \in 1..n : s[i] \in S /\ s[i] \in Nat
  BY LenProperties, ElementOfSeq DEF ToSet
<1>2. \A i, j \in 1..n : i < j => s[i] < s[j]
  BY DEF Increasing
<1>3. \A e \in S : \E i \in 1..n : e = s[i]
  BY <1>1 DEF ToSet
<1> HIDE DEF S, n
<1>4. S \in SUBSET Nat
  BY <1>1, <1>3
<1>5. IsFiniteSet(S) /\ Cardinality(S) = n
  <2> DEFINE f == [i \in 1..n |-> s[i]]
  <2>1. f \in Bijection(1..n, S)
    <3>1. f \in [1..n -> S]
      BY <1>1
    <3>2. \A i, j \in 1..n : f[i] = f[j] => i = j
      BY <1>1, <1>2
    <3>3. \A e \in S : \E i \in 1..n : f[i] = e
      BY <1>3
    <3> QED
      BY <3>1, <3>2, <3>3 DEF Bijection, Injection, Surjection, IsInjective
  <2>2. ExistsBijection(1..n, S)
    BY <2>1 DEF ExistsBijection
  <2> QED
    BY <1>1, <2>2, FS_CountingElements, FS_NatBijection
<1>6. ASSUME NEW i \in 1..n PROVE Cardinality(Under(S, s[i])) = i - 1
  <2> DEFINE U == Under(S, s[i])
             f == [j \in 1..(i - 1) |-> s[j]]
  <2>1. f \in Bijection(1..(i - 1), U)
    <3>1. \A j \in 1..(i - 1) : j \in 1..n /\ s[j] \in S /\ s[j] < s[i]
      BY <1>1, <1>2
    <3>2. f \in [1..(i - 1) -> U]
      BY <3>1 DEF Under
    <3>3. \A a, b \in 1..(i - 1) : f[a] = f[b] => a = b
      BY <1>1, <1>2, <3>1
    <3>4. ASSUME NEW e \in U PROVE \E j \in 1..(i - 1) : f[j] = e
      <4>1. PICK j \in 1..n : e = s[j]
        BY <1>3 DEF Under
      <4>2. s[j] < s[i]
        BY <4>1 DEF Under
      <4>3. j < i
        BY <1>1, <1>2, <4>2
      <4>4. j \in 1..(i - 1)
        BY <1>1, <4>3
      <4> QED
        BY <4>1, <4>4
    <3> HIDE DEF f, U
    <3> QED
      BY <3>2, <3>3, <3>4 DEF Bijection, Injection, Surjection, IsInjective
  <2>2. ExistsBijection(1..(i - 1), U) /\ i - 1 \in Nat
    BY <1>1, <2>1 DEF ExistsBijection
  <2> QED
    BY <2>2, FS_CountingElements
<1>7. /\ Len(l) = n /\ DOMAIN l = 1..n
      /\ \A i \in 1..n : l[i] \in S /\ Cardinality(Under(S, l[i])) = i - 1
  <2>1. /\ l \in Seq(S) /\ Len(l) = Cardinality(S)
        /\ \A i \in 1..Cardinality(S) : Cardinality({x \in S : x < l[i]}) = i - 1
    BY <1>4, <1>5, InOrderLists
  <2> HIDE DEF l
  <2>2. Len(l) = n /\ DOMAIN l = 1..n /\ \A i \in 1..n : l[i] \in S
    BY <1>5, <2>1, LenProperties, ElementOfSeq
  <2> QED
    BY <1>5, <2>1, <2>2 DEF Under
<1>8. ASSUME NEW i \in 1..n PROVE l[i] = s[i]
  <2> HIDE DEF l
  <2>1. PICK j \in 1..n : l[i] = s[j]
    BY <1>3, <1>7
  <2>2. j - 1 = i - 1
    BY <1>6, <1>7, <2>1
  <2>3. j = i
    BY <1>1, <2>2
  <2> QED
    BY <2>1, <2>3
<1>9. l \in Seq(Nat)
  <2>1. l = InOrder(S) /\ InOrder(S) \in Seq(S)
    BY <1>4, <1>5, InOrderLists
  <2> QED
    BY <1>4, <2>1, SeqMonotonic
<1> HIDE DEF l
<1>10. l = s
  <2>1. Len(l) = Len(s) /\ \A i \in 1..Len(s) : l[i] = s[i]
    BY <1>7, <1>8 DEF n
  <2> QED
    BY <1>9, <2>1, SeqEqual
<1> QED
  BY <1>10 DEF l, S

(* The flows of k that wait: produced and not counted.                     *)
Uncounted(k) == {o \in 1..Len(log[PartitionOf[k]]) :
                    log[PartitionOf[k]][o].key = k /\ <<k, o>> \notin Counted}

(* The waiting flows of a key, each once, in order.                        *)
LEMMA WaitingLists ==
    ASSUME NEW k \in Keys
    PROVE  /\ Waiting(k) = InOrder(Uncounted(k))
           /\ TypeOK => /\ Uncounted(k) \in SUBSET Nat /\ IsFiniteSet(Uncounted(k))
                        /\ Waiting(k) \in Seq(Nat) /\ Increasing(Waiting(k))
                        /\ ToSet(Waiting(k)) = Uncounted(k)
<1>1. Waiting(k) = InOrder(Uncounted(k))
  BY DEF Waiting, Uncounted
<1>2. ASSUME TypeOK
      PROVE  Uncounted(k) \in SUBSET Nat /\ IsFiniteSet(Uncounted(k))
  <2>1. Len(log[PartitionOf[k]]) \in Nat
    BY ReachedType, WorkerAssumption
  <2>2. IsFiniteSet(1..Len(log[PartitionOf[k]])) /\ Uncounted(k) \in SUBSET (1..Len(log[PartitionOf[k]]))
    BY <2>1, FS_Interval, SMTT(30) DEF Uncounted
  <2> QED
    BY <2>1, <2>2, FS_Subset
<1>3. ASSUME TypeOK
      PROVE  /\ Waiting(k) \in Seq(Nat) /\ Increasing(Waiting(k))
             /\ ToSet(Waiting(k)) = Uncounted(k)
  <2> DEFINE S == Uncounted(k)
  <2>1. S \in SUBSET Nat /\ IsFiniteSet(S)
    BY <1>2, <1>3
  <2> HIDE DEF S
  <2>2. /\ InOrder(S) \in Seq(S) /\ Len(InOrder(S)) = Cardinality(S) /\ ToSet(InOrder(S)) = S
        /\ \A i, j \in 1..Cardinality(S) : i < j => InOrder(S)[i] < InOrder(S)[j]
    BY <2>1, InOrderLists
  <2>3. InOrder(S) \in Seq(Nat)
    BY <2>1, <2>2, SeqMonotonic
  <2> QED
    BY <1>1, <2>2, <2>3 DEF S, Increasing
<1> QED
  BY <1>1, <1>2, <1>3

(* A list of waiting flows, followed by one whose elements are greater.    *)
LEMMA ListingsJoin ==
    ASSUME NEW s \in Seq(Nat), NEW t \in Seq(Nat), Increasing(s), Increasing(t),
           \A x \in ToSet(s), y \in ToSet(t) : x < y
    PROVE  InOrder(ToSet(s) \cup ToSet(t)) = s \o t
<1>1. s \o t \in Seq(Nat) /\ ToSet(s \o t) = ToSet(s) \cup ToSet(t)
  BY ConcatElems, ConcatProperties
<1>2. Increasing(s \o t)
  BY ConcatIncreasing
<1> QED
  BY <1>1, <1>2, OnlyListing

(* No window is larger than W.                                             *)
SizeInv == \A w \in ToSet(windows) : Len(w.recs) \in 1..W

(* Every cut makes windows of one to W flows.                              *)
LEMMA SizeInvariant == Spec => []SizeInv
<1> USE DEF buffers, emission, history
<1>1. ToSet(<<>>) = {}
  BY EmptySeq DEF ToSet
<1>2. Init => SizeInv
  BY <1>1 DEF Init, SizeInv
<1>3. TypeOK /\ SizeInv /\ [Next]_vars => SizeInv'
  <2> SUFFICES ASSUME TypeOK, SizeInv, [Next]_vars PROVE SizeInv'
    OBVIOUS
  <2>1. ASSUME NEW k \in Keys, TakeChunk(k) PROVE SizeInv'
    <3> DEFINE chunk == SubSeq(pending[k], 1, CutCount(k))
    <3>1. chunk \in Seq(1..MaxRecords)
      BY ChunkTaken
    <3>2. windows' = Cut(k, chunk) \/ windows' = <<>>
      BY <2>1, ChunkFlows
    <3> HIDE DEF chunk
    <3>3. Cut(k, chunk) \in Seq(Window) /\ Len(Cut(k, chunk)) = Pieces(chunk)
      BY <3>1, CutLists
    <3>4. ASSUME NEW i \in 1..Pieces(chunk) PROVE Len(Cut(k, chunk)[i].recs) \in 1..W
      BY <3>1, CutAt
    <3>5. \A w \in ToSet(Cut(k, chunk)) : Len(w.recs) \in 1..W
      BY <3>3, <3>4, LenProperties DEF ToSet
    <3> QED
      BY <1>1, <3>2, <3>5 DEF SizeInv
  <2>2. CASE Score
    <3>1. ToSet(windows') \subseteq ToSet(windows)
      BY <2>2, HeadElems DEF Score, TypeOK
    <3> QED
      BY <3>1 DEF SizeInv
  <2>3. CASE ScoreFails \/ SaveFails \/ Restart
    BY <1>1, <2>3 DEF ScoreFails, SaveFails, Abort, Restart, SizeInv
  <2>4. ASSUME NEW k \in Keys, Skip(k) \/ \E t \in Timestamps : Produce(k, t) PROVE SizeInv'
    BY <2>4 DEF Skip, Produce, SizeInv
  <2>5. ASSUME NEW p \in Partitions, Drained(p) \/ \E n \in 1..BatchSize : Read(p, n) PROVE SizeInv'
    BY <2>5 DEF Drained, Read, SizeInv
  <2>6. ASSUME NEW ks \in SUBSET Keys, FlushStale(ks) PROVE SizeInv'
    BY <2>6 DEF FlushStale, SizeInv
  <2>7. CASE NothingStale \/ Stop \/ FlushDone \/ Commit \/ UNCHANGED vars
    BY <2>7 DEF NothingStale, Stop, FlushDone, Commit, vars, SizeInv
  <2> QED
    BY <2>1, <2>2, <2>3, <2>4, <2>5, <2>6, <2>7 DEF Next, Loop
<1> QED
  BY <1>2, <1>3, TypeCorrect, PTL DEF Spec

(* A produced record is an arrival of the abstract stream.                 *)
LEMMA ProduceArrives ==
    ASSUME TypeOK, TypeOK', RealInv, NEW k \in Keys, NEW t \in Timestamps, Produce(k, t)
    PROVE  Stream!Arrive(k)
<1> DEFINE p == PartitionOf[k]
           L == Len(log[p])
<1>1. scored' = scored /\ Counted' = Counted
  BY DEF Produce, history, Counted
<1>2. /\ p \in Partitions
      /\ \A q \in Partitions : Len(log'[q]) = IF q = p THEN Len(log[q]) + 1 ELSE Len(log[q])
      /\ \A q \in Partitions : \A o \in 1..Len(log[q]) : log'[q][o] = log[q][o]
      /\ log'[p][L + 1].key = k
  BY LogGrows
<1>3. \A j \in Keys : PartitionOf[j] \in Partitions /\ Len(log[PartitionOf[j]]) \in Nat
  BY ReachedType, WorkerAssumption
<1>4. L < MaxRecords /\ L + 1 \in 1..MaxRecords
  BY <1>3, WorkerAssumption DEF Produce
<1>5. <<k, L + 1>> \notin Counted
  <2> SUFFICES ASSUME <<k, L + 1>> \in RealFlows PROVE FALSE
    BY DEF RealInv
  <2>1. L + 1 <= L
    BY DEF RealFlows
  <2> QED
    BY <1>3, <2>1
<1> HIDE DEF L
<1>6. Uncounted(k)' = Uncounted(k) \cup {L + 1}
  <2>1. Uncounted(k)' = {o \in 1..(L + 1) : log'[p][o].key = k /\ <<k, o>> \notin Counted}
    BY <1>1, <1>2 DEF Uncounted, L
  <2>2. L \in Nat /\ 1..(L + 1) = (1..L) \cup {L + 1}
    BY <1>3 DEF L
  <2>3. Uncounted(k) = {o \in 1..L : log'[p][o].key = k /\ <<k, o>> \notin Counted}
    BY <1>2 DEF Uncounted, L
  <2> QED
    BY <1>2, <1>5, <2>1, <2>2, <2>3
<1>7. ASSUME NEW j \in Keys, j # k PROVE Uncounted(j)' = Uncounted(j)
  <2> DEFINE q == PartitionOf[j]
  <2>1. Uncounted(j)' = {o \in 1..Len(log'[q]) : log'[q][o].key = j /\ <<j, o>> \notin Counted}
    BY <1>1 DEF Uncounted
  <2>2. Uncounted(j) = {o \in 1..Len(log[q]) : log'[q][o].key = j /\ <<j, o>> \notin Counted}
    BY <1>2, <1>3 DEF Uncounted
  <2>3. \A o \in 1..Len(log'[q]) : o \in 1..Len(log[q]) \/ log'[q][o].key = k
    BY <1>2, <1>3 DEF L
  <2>4. \A o \in 1..Len(log[q]) : o \in 1..Len(log'[q])
    BY <1>2, <1>3
  <2> QED
    BY <1>7, <2>1, <2>2, <2>3, <2>4
<1>8. Waiting(k)' = Append(Waiting(k), L + 1)
  <2> DEFINE s == Waiting(k)
             u == <<L + 1>>
  <2>1. /\ s \in Seq(Nat) /\ Increasing(s) /\ ToSet(s) = Uncounted(k)
        /\ Waiting(k)' = InOrder(Uncounted(k)')
    <3>1. Waiting(k)' = InOrder(Uncounted(k)')
      BY DEF InOrder, Waiting, Uncounted
    <3> QED
      BY <3>1, WaitingLists
  <2>2. u \in Seq(Nat) /\ Increasing(u) /\ ToSet(u) = {L + 1} /\ L \in Nat
    BY <1>3 DEF Increasing, ToSet, L
  <2>3. \A x \in ToSet(s), y \in ToSet(u) : x < y
    BY <2>1, <2>2 DEF Uncounted, L
  <2> HIDE DEF s, u
  <2>4. InOrder(ToSet(s) \cup ToSet(u)) = s \o u
    BY <2>1, <2>2, <2>3, ListingsJoin
  <2>5. s \o u = Append(s, L + 1)
    BY <2>1, <2>2, AppendIsConcat DEF u
  <2> QED
    BY <1>6, <2>1, <2>2, <2>4, <2>5 DEF s
<1>9. \A j \in Keys : j # k => Waiting(j)' = Waiting(j)
  <2> TAKE j \in Keys
  <2> HAVE j # k
  <2>1. Waiting(j)' = InOrder(Uncounted(j)') /\ Waiting(j) = InOrder(Uncounted(j))
    BY WaitingLists DEF InOrder, Waiting, Uncounted
  <2> QED
    BY <1>7, <2>1
<1>10. [j \in Keys |-> Waiting(j)]' =
          [[j \in Keys |-> Waiting(j)] EXCEPT ![k] = Append(Waiting(k), L + 1)]
  BY <1>8, <1>9
<1> QED
  BY <1>1, <1>4, <1>10 DEF Stream!Arrive

(* Cutting a concatenation at the length of its first part gives back both *)
(* parts.                                                                  *)
LEMMA JoinSplits ==
    ASSUME NEW r \in Seq(Nat), NEW rest \in Seq(Nat)
    PROVE  /\ Len(r) \in Nat /\ Len(r) <= Len(r \o rest)
           /\ SubSeq(r \o rest, 1, Len(r)) = r
           /\ SubSeq(r \o rest, Len(r) + 1, Len(r \o rest)) = rest
<1> DEFINE s == r \o rest
           n == Len(r)
           m == Len(rest)
<1>1. /\ n \in Nat /\ m \in Nat /\ Len(s) = n + m /\ s \in Seq(Nat)
      /\ \A i \in 1..(n + m) : s[i] = IF i <= n THEN r[i] ELSE rest[i - n]
  BY ConcatProperties, LenProperties
<1> HIDE DEF s
<1>2. n \in 0..Len(s) /\ n <= Len(s) /\ Len(s) - n = m
  BY <1>1
<1>3. n = Len(r) /\ m = Len(rest)
  OBVIOUS
<1> HIDE DEF n, m
<1>4. /\ SubSeq(s, 1, n) \in Seq(Nat) /\ Len(SubSeq(s, 1, n)) = n
      /\ \A i \in 1..n : SubSeq(s, 1, n)[i] = s[i]
      /\ SubSeq(s, n + 1, Len(s)) \in Seq(Nat) /\ Len(SubSeq(s, n + 1, Len(s))) = Len(s) - n
      /\ \A i \in 1..(Len(s) - n) : SubSeq(s, n + 1, Len(s))[i] = s[n + i]
  BY <1>1, <1>2, Split, ZenonT(60)
<1> DEFINE front == SubSeq(s, 1, n)
           back == SubSeq(s, n + 1, Len(s))
<1> HIDE DEF front, back
<1>5. front \in Seq(Nat) /\ Len(front) = n /\ \A i \in 1..n : front[i] = s[i]
  BY <1>4 DEF front
<1>6. back \in Seq(Nat) /\ Len(back) = m /\ \A i \in 1..m : back[i] = s[n + i]
  BY <1>2, <1>4 DEF back
<1>7. \A i \in 1..n : front[i] = r[i]
  BY <1>1, <1>5
<1>8. \A i \in 1..m : back[i] = rest[i]
  <2> TAKE i \in 1..m
  <2>1. n + i \in 1..(n + m) /\ ~(n + i <= n) /\ (n + i) - n = i
    BY <1>1
  <2>2. s[n + i] = rest[(n + i) - n]
    BY <1>1, <2>1
  <2> QED
    BY <1>6, <2>1, <2>2
<1>9. front = r /\ back = rest
  BY <1>3, <1>5, <1>6, <1>7, <1>8, SeqEqual
<1> QED
  BY <1>1, <1>2, <1>3, <1>9 DEF front, back, s

(* Scoring a window, while nothing has raised and the process lives,       *)
(* reports the oldest waiting flows of its source.                         *)
LEMMA ScoreReports ==
    ASSUME TypeOK, ProgressInv, AccountedInv, RealInv, SequenceInv, OnceInv, SizeInv,
           raises = 0, restarts = 0, Score
    PROVE  \E k \in Keys : \E n \in 1..W : Stream!Report(k, n)
<1> DEFINE w == Head(windows)
<1>1. /\ windows # <<>> /\ Put(w) /\ log' = log
  BY DEF Score
<1>2. /\ Unscored = FlowsOf(w) \cup WindowFlows(Tail(windows)) /\ w \in Window
      /\ Before(FlowsOf(w), WindowFlows(Tail(windows)) \cup Buffered)
      /\ Identity(w) \notin seen
  BY <1>1, HeadFirst DEF SequenceInv
<1>3. PICK k \in Keys, r \in Seq(1..MaxRecords) : w = [key |-> k, recs |-> r]
  BY <1>2 DEF Window
<1> DEFINE R == ToSet(r)
           rest == InOrder(Uncounted(k) \ R)
<1>3a. r \in Seq(Nat)
  BY OffsetsAreNat
<1>4. Increasing(r) /\ Len(r) \in 1..W
  <2>1. w = windows[1] /\ 1 \in 1..Len(windows)
    BY <1>1, HeadFlows
  <2>2. w \in ToSet(windows)
    BY <1>1, HeadElems DEF TypeOK
  <2>3. w.recs = r
    BY <1>3
  <2> QED
    BY <2>1, <2>2, <2>3 DEF SequenceInv, InSequence, SizeInv
<1>5. scored' = scored \cup {w} /\ Counted' = Counted \cup FlowsOf(w)
  BY <1>1, <1>2, PutCounts DEF Put
<1>6. FlowsOf(w) = {<<k, o>> : o \in R}
  BY <1>3 DEF FlowsOf
<1> HIDE DEF w, R
<1>7. R \subseteq Uncounted(k)
  <2> SUFFICES ASSUME NEW o \in R PROVE o \in Uncounted(k)
    OBVIOUS
  <2>1. <<k, o>> \in Unscored
    BY <1>2, <1>6
  <2>2. <<k, o>> \in RealFlows /\ <<k, o>> \notin Counted
    BY <2>1 DEF RealInv, OnceInv, CountedOnce
  <2>3. Len(log[PartitionOf[k]]) \in Nat
    BY <1>3, ReachedType, WorkerAssumption
  <2> QED
    BY <2>2, <2>3 DEF Uncounted, RealFlows
<1>8. ASSUME NEW x \in R, NEW o \in Uncounted(k), o \notin R PROVE x < o
  <2> DEFINE p == PartitionOf[k]
  <2>1. p \in Partitions /\ o \in 1..Len(log[p]) /\ FlowAt(p, o) = <<k, o>> /\ <<k, o>> \notin Counted
    BY <1>3, WorkerAssumption DEF Uncounted, FlowAt
  <2>2. <<k, x>> \in FlowsOf(w)
    BY <1>6
  <2>3. x \in Nat /\ x <= Reached(p) /\ Reached(p) \in Nat /\ Len(log[p]) \in Nat
    <3>1. <<k, x>> \in ReachedFlows
      BY <1>2, <2>2 DEF SequenceInv, InSequence
    <3> QED
      BY <2>1, <3>1, ReachedType DEF ReachedFlows
  <2>4. CASE o <= Reached(p)
    <3>1. o \in 1..Reached(p)
      BY <2>1, <2>3, <2>4
    <3>2. <<k, o>> \in Accounted
      BY <2>1, <3>1 DEF AccountedInv
    <3>3. dropped = {}
      BY DEF OnceInv, CountedOnce
    <3>4. <<k, o>> \in WindowFlows(Tail(windows)) \cup Buffered
      BY <1>2, <1>6, <1>8, <2>1, <3>2, <3>3 DEF Accounted
    <3> QED
      BY <1>2, <2>2, <3>4 DEF Before
  <2>5. CASE ~(o <= Reached(p))
    BY <2>1, <2>3, <2>5
  <2> QED
    BY <2>4, <2>5
<1>9. /\ rest \in Seq(Nat) /\ Increasing(rest) /\ ToSet(rest) = Uncounted(k) \ R
  <2> DEFINE S == Uncounted(k) \ R
  <2>1. S \in SUBSET Nat /\ IsFiniteSet(S)
    BY WaitingLists, FS_Subset
  <2> HIDE DEF S
  <2>2. /\ InOrder(S) \in Seq(S) /\ Len(InOrder(S)) = Cardinality(S) /\ ToSet(InOrder(S)) = S
        /\ \A i, j \in 1..Cardinality(S) : i < j => InOrder(S)[i] < InOrder(S)[j]
    BY <2>1, InOrderLists
  <2>3. InOrder(S) \in Seq(Nat) /\ Increasing(InOrder(S))
    BY <2>1, <2>2, SeqMonotonic DEF Increasing
  <2> QED
    BY <2>2, <2>3 DEF S
<1> HIDE DEF rest
<1>10. Waiting(k) = r \o rest
  <2>1. InOrder(ToSet(r) \cup ToSet(rest)) = r \o rest
    <3>1. \A x \in ToSet(r), y \in ToSet(rest) : x < y
      BY <1>8, <1>9 DEF R
    <3> QED
      BY <1>3a, <1>4, <1>9, <3>1, ListingsJoin
  <2>2. ToSet(r) \cup ToSet(rest) = Uncounted(k)
    BY <1>7, <1>9 DEF R
  <2> QED
    BY <1>3, <2>1, <2>2, WaitingLists
<1>11. Uncounted(k)' = Uncounted(k) \ R
  BY <1>1, <1>5, <1>6 DEF Uncounted
<1>12. ASSUME NEW j \in Keys PROVE Waiting(j)' = InOrder(Uncounted(j)') /\ Waiting(j) = InOrder(Uncounted(j))
  BY DEF InOrder, Waiting, Uncounted
<1>13. Waiting(k)' = rest
  BY <1>3, <1>11, <1>12 DEF rest
<1>14. ASSUME NEW j \in Keys, j # k PROVE Waiting(j)' = Waiting(j)
  <2>1. Uncounted(j)' = Uncounted(j)
    BY <1>1, <1>5, <1>6, <1>14 DEF Uncounted
  <2> QED
    BY <1>12, <2>1
<1> DEFINE n == Len(r)
           s == Waiting(k)
<1>15. /\ n \in Nat /\ n <= Len(s) /\ SubSeq(s, 1, n) = r /\ SubSeq(s, n + 1, Len(s)) = rest
  BY <1>3a, <1>9, <1>10, JoinSplits
<1> HIDE DEF s
<1>16. [j \in Keys |-> Waiting(j)]' = [[j \in Keys |-> Waiting(j)] EXCEPT ![k] = rest]
  BY <1>13, <1>14
<1>17. Stream!Report(k, n)
  <2>1. scored' = scored \cup {[key |-> k, recs |-> SubSeq(s, 1, n)]}
    BY <1>3, <1>5, <1>15
  <2>2. [j \in Keys |-> Waiting(j)][k] = s
    BY <1>3 DEF s
  <2> HIDE DEF n
  <2> QED
    BY <1>15, <1>16, <2>1, <2>2 DEF Stream!Report
<1> QED
  BY <1>3, <1>4, <1>17

(* As long as no emission raises and the process lives, the scoring path   *)
(* is a WindowStream: each window reported for a source takes the oldest   *)
(* of its waiting flows, one to W of them, whatever the batches, the order *)
(* of the partitions and the stale flushes.                                *)
THEOREM ImplementsWindowStream ==
    Spec /\ [](raises = 0 /\ restarts = 0) => RefinesWindowStream
<1> USE DEF buffers, emission, history
<1>1. Init => Stream!Init
  <2> SUFFICES ASSUME Init PROVE \A k \in Keys : Waiting(k) = <<>>
    BY DEF Init, Stream!Init
  <2> TAKE k \in Keys
  <2>1. log[PartitionOf[k]] = <<>> /\ Len(<<>>) = 0
    BY EmptySeq, WorkerAssumption DEF Init
  <2>2. Uncounted(k) = {}
    BY <2>1 DEF Uncounted
  <2>3. Waiting(k) = InOrder({})
    BY <2>2, WaitingLists
  <2>4. InOrder({}) = <<>>
    BY FS_EmptySet DEF InOrder
  <2> QED
    BY <2>3, <2>4
<1>2. /\ TypeOK /\ TypeOK' /\ ProgressInv /\ AccountedInv /\ RealInv /\ SequenceInv /\ OnceInv /\ SizeInv
      /\ (raises = 0 /\ restarts = 0) /\ (raises = 0 /\ restarts = 0)' /\ [Next]_vars
      => [Stream!Next]_Stream!vars
  <2> SUFFICES ASSUME TypeOK, TypeOK', ProgressInv, AccountedInv, RealInv, SequenceInv, OnceInv, SizeInv,
                      raises = 0, restarts = 0, raises' = 0, [Next]_vars
               PROVE  [Stream!Next]_Stream!vars
    OBVIOUS
  <2>1. ASSUME NEW k \in Keys, NEW t \in Timestamps, Produce(k, t) PROVE Stream!Next
    BY <2>1, ProduceArrives DEF Stream!Next
  <2>2. ASSUME Score PROVE Stream!Next
    BY <2>2, ScoreReports DEF Stream!Next
  <2>3. ASSUME UNCHANGED <<log, scored>> PROVE UNCHANGED Stream!vars
    <3>1. \A k \in Keys : Waiting(k)' = Waiting(k)
      BY <2>3 DEF Waiting, Counted, InOrder
    <3> QED
      BY <2>3, <3>1 DEF Stream!vars
  <2>4. ASSUME SaveFails PROVE FALSE
    BY <2>4 DEF SaveFails, Abort
  <2>5. ASSUME NEW k \in Keys, Skip(k) \/ TakeChunk(k) PROVE UNCHANGED Stream!vars
    BY <2>3, <2>5 DEF Skip, TakeChunk
  <2>6. ASSUME NEW p \in Partitions, Drained(p) \/ \E n \in 1..BatchSize : Read(p, n)
        PROVE  UNCHANGED Stream!vars
    BY <2>3, <2>6 DEF Drained, Read
  <2>7. ASSUME NEW ks \in SUBSET Keys, FlushStale(ks) PROVE UNCHANGED Stream!vars
    BY <2>3, <2>7 DEF FlushStale
  <2>8. CASE NothingStale \/ Stop \/ FlushDone \/ Commit \/ Restart \/ ScoreFails \/ UNCHANGED vars
    BY <2>3, <2>8 DEF NothingStale, Stop, FlushDone, Commit, Restart, ScoreFails, vars
  <2> QED
    BY <2>1, <2>2, <2>4, <2>5, <2>6, <2>7, <2>8 DEF Next, Loop
<1> QED
  BY <1>1, <1>2, TypeCorrect, ProgressInvariant, AccountedInvariant, RealInvariant, SequenceInvariant,
     OnceInvariant, SizeInvariant, PTL DEF Spec, Stream!Spec, RefinesWindowStream
=============================================================================
