--------------------------------- MODULE LogReads ---------------------------------
(***************************************************************************)
(* The log read model behind GET /logs and /logs/lines: the in-process     *)
(* tail (services/log_tail.py), bounded in age and in lines, and the       *)
(* log_events table (services/log_store.py, db/log_statements.py).  The    *)
(* routes run on the event loop and the tail holds its lock throughout, so *)
(* a tail operation is one step.  Both are fed alike here, so that their   *)
(* answers can be compared.  Host and service filter as the level does.    *)
(***************************************************************************)
EXTENDS Integers, Sequences, SequencesExt, FiniteSetsExt

CONSTANTS
    LogLines,      \* the lines that may arrive: [at, key, level]
    LogWindows,    \* what may be read: [start, end, key, level]
    MaxLines, MaxAge, LogLimit,
    MaxBatches, MaxNow   \* bounds: batches accepted, clock

(* No line has the key that asks for all of them.                          *)
EveryKey == 0
ASSUME LogReadsAssumption ==
    /\ {MaxLines, MaxAge, LogLimit} \subseteq Nat \ {0} /\ MaxNow \in Nat /\ MaxBatches \in Nat
    /\ \A l \in LogLines : l.at \in Int /\ l.key # EveryKey
    /\ \A w \in LogWindows : {"start", "end", "key", "level"} \subseteq DOMAIN w

VARIABLES
    logNow,        \* the tail's clock
    tail,          \* LogTail._lines: positions in `stored`
    droppedLines,  \* LogTail._dropped
    stored,        \* the lines accepted, in order: the log_events table
    batches

logVars == <<logNow, tail, droppedLines, stored, batches>>

NoFilter == "any"

LogsTypeOK ==
    /\ logNow \in 0..MaxNow /\ stored \in Seq(LogLines) /\ batches \in 0..MaxBatches
    /\ Len(tail) <= MaxLines /\ ToSet(tail) \subseteq DOMAIN stored
    /\ droppedLines = Len(stored) - Len(tail)

LogsInit == logNow = 0 /\ tail = <<>> /\ droppedLines = 0 /\ stored = <<>> /\ batches = 0
-----------------------------------------------------------------------------
(* _evict: the aged-out lines at the head, then the ones over the count.   *)
Floor == logNow - MaxAge
Aged(lines, i) == stored'[lines[i]].at < Floor

(* Variant: only the aged-out lines go.                                    *)
EvictedByAge(lines) ==
    SubSeq(lines, Min({i \in DOMAIN lines : ~Aged(lines, i)} \cup {Len(lines) + 1}), Len(lines))

Evicted(lines) ==
    LET young == {i \in DOMAIN lines : ~Aged(lines, i)}
        first == Min(young \cup {Len(lines) + 1})
        start == Max({first, Len(lines) - MaxLines + 1}) IN
    SubSeq(lines, start, Len(lines))

EvictTo(lines) ==
    tail' = Evicted(lines) /\ droppedLines' = droppedLines + Len(lines) - Len(tail')

(* append, of either source: a batch of accepted lines.                    *)
AppendLines(batch) ==
    /\ batches < MaxBatches /\ batches' = batches + 1
    /\ stored' = stored \o batch
    /\ EvictTo(tail \o [i \in DOMAIN batch |-> Len(stored) + i])
    /\ UNCHANGED logNow

LogClock ==
    /\ logNow < MaxNow /\ logNow' = logNow + 1
    /\ UNCHANGED <<tail, droppedLines, stored, batches>>

(* A read of the tail evicts first.                                        *)
ReadTail == UNCHANGED <<logNow, stored, batches>> /\ EvictTo(tail)

LogsNext ==
    \/ \E batch \in BoundedSeq(LogLines, 2) \ {<<>>} : AppendLines(batch)
    \/ LogClock \/ ReadTail

LogsSpec == LogsInit /\ [][LogsNext]_logVars
-----------------------------------------------------------------------------
(* LogWindow.contains, and _bounded of the statements.                     *)
Inside(w, i) == w.start <= stored[i].at /\ stored[i].at < w.end
AtLevel(w, i) == w.level \in {NoFilter, stored[i].level}
WithKey(w, i) == w.key \in {EveryKey, stored[i].key}

TailMatches(w) == {i \in ToSet(tail) : Inside(w, i) /\ AtLevel(w, i) /\ WithKey(w, i)}

(* Severity order of log@1.                                                *)
LevelRank == [info |-> 1, error |-> 2]
WorstLevel(lines) ==
    CHOOSE l \in {stored[i].level : i \in lines} :
        \A i \in lines : LevelRank[stored[i].level] <= LevelRank[l]

(* The sample is the newest line's, the later arrival's between two.       *)
Sample(lines) ==
    CHOOSE i \in lines : \A j \in lines : \/ stored[j].at < stored[i].at
                                          \/ stored[j].at = stored[i].at /\ j <= i

(* _fold, and the statements that group: one cluster of each key.          *)
Cluster(lines) ==
    [count |-> Cardinality(lines), worst |-> WorstLevel(lines), sample |-> Sample(lines),
     first |-> Min({stored[i].at : i \in lines}), last |-> Max({stored[i].at : i \in lines})]
Fold(lines) ==
    [k \in {stored[i].key : i \in lines} |-> Cluster({i \in lines : stored[i].key = k})]

(* The busiest clusters first, keys in order between equals.               *)
Ahead(fold, k, l) == fold[k].count > fold[l].count \/ (fold[k].count = fold[l].count /\ k < l)
Top(fold) == {k \in DOMAIN fold : Cardinality({l \in DOMAIN fold : Ahead(fold, l, k)}) < LogLimit}

ClusterRead(fold, seen) ==
    [clusters |-> [k \in Top(fold) |-> fold[k]], linesSeen |-> seen,
     clustersSeen |-> Cardinality(DOMAIN fold), truncated |-> Cardinality(DOMAIN fold) > LogLimit]

(* LogTail.clusters.                                                       *)
TailClusters(w) == ClusterRead(Fold(TailMatches(w)), Cardinality(TailMatches(w)))

(* PostgresLogStore.clusters: the fold and the distinct count are given    *)
(* the level and not the key, the number of lines is given both.           *)
Grouped(w) == {i \in DOMAIN stored : Inside(w, i) /\ AtLevel(w, i)}
StoreMatches(w) == {i \in Grouped(w) : WithKey(w, i)}
StoreClusters(w) == ClusterRead(Fold(Grouped(w)), Cardinality(StoreMatches(w)))

(* Variant: the oldest lines are kept.                                     *)
NewestFirstReversed(i, j) ==
    stored[i].at < stored[j].at \/ (stored[i].at = stored[j].at /\ i < j)

(* The positions of a set in an order: the n-th has n - 1 before it.       *)
InOrder(lines, Before(_, _)) ==
    [n \in 1..Cardinality(lines) |->
        CHOOSE i \in lines : Cardinality({j \in lines : Before(j, i)}) = n - 1]

(* The newest lines are kept, ties by arrival, and read oldest first.      *)
NewestFirst(i, j) == stored[i].at > stored[j].at \/ (stored[i].at = stored[j].at /\ i > j)
NewestLines(lines) ==
    {i \in lines : Cardinality({j \in lines : NewestFirst(j, i)}) < LogLimit}

(* LogTail.lines sorts by instant, stably, and takes the last.             *)
StableByInstant(lines) ==
    InOrder(lines, LAMBDA i, j : stored[i].at < stored[j].at
                                 \/ (stored[i].at = stored[j].at /\ i < j))
LastOf(seq) == SubSeq(seq, Max({1, Len(seq) - LogLimit + 1}), Len(seq))
TailLinesOf(w) == LastOf(StableByInstant(TailMatches(w)))

(* PostgresLogStore.lines: newest first out of SQL, reversed.              *)
StoreLinesOf(w) == Reverse(InOrder(NewestLines(StoreMatches(w)), NewestFirst))

(* _caveats: why a read of the tail shows nothing.                         *)
WhyEmpty(w) ==
    LET held == ToSet(tail)
        present == {i \in held : Inside(w, i)}
        ats == {stored[i].at : i \in held} IN
    CASE held = {} /\ droppedLines = 0 -> "never"
      [] held = {} /\ droppedLines # 0 -> "aged out"
      [] held # {} /\ present = {} -> IF w.end <= Min(ats) THEN "before"
                                      ELSE IF w.start >= Max(ats) THEN "after" ELSE "between"
      [] held # {} /\ present # {} -> IF TailMatches(w) = {} THEN "filtered" ELSE "not empty"
-----------------------------------------------------------------------------
Whole(w) == \A i \in DOMAIN stored : Inside(w, i) => i \in ToSet(tail)

(* One screen, whichever source answers: over a window whose lines are all *)
(* still held, the tail folds and lists what the table does, in whatever   *)
(* order the lines arrived, and opening a cluster shows the lines its row  *)
(* counted (log_store.py, clusters and lines; endpoints/logs.py).          *)
TailAnswersAsStore ==
    \A w \in LogWindows : Whole(w) =>
        /\ w.key = EveryKey => TailClusters(w) = StoreClusters(w)
        /\ TailLinesOf(w) = StoreLinesOf(w)
        /\ \A k \in DOMAIN TailClusters(w).clusters :
               TailClusters(w).clusters[k].count = Cardinality(TailMatches([w EXCEPT !.key = k]))

(* An empty screen says why, and truly: "No log line has been accepted" or *)
(* "have aged out" or "the filter is what removed them" (log_tail.py).     *)
EmptyScreenSaysWhy ==
    \A w \in LogWindows :
        /\ WhyEmpty(w) = "never" <=> stored = <<>>
        /\ WhyEmpty(w) = "aged out" => stored # <<>> /\ tail = <<>>
        /\ (TailMatches(w) = {} /\ Whole(w) /\ tail # <<>> /\ \E i \in DOMAIN stored : Inside(w, i))
               => WhyEmpty(w) = "filtered"
=============================================================================
