-------------------------------- MODULE FlowReads --------------------------------
(***************************************************************************)
(* The traffic read model behind GET /flows: the in-process rollup         *)
(* (services/flow_read_model.py) of a deployment without a database, and   *)
(* the flow_events table (services/flow_store.py, db/flow_statements.py)   *)
(* of one with it.  Every route runs on the event loop: the rollup's work  *)
(* is one step, the store's a step per statement.  Time is counted in half *)
(* minutes; a flow is counted, its bytes and packets are left out.         *)
(***************************************************************************)
EXTENDS Integers, Sequences, SequencesExt, FiniteSetsExt, Bags

CONSTANTS
    StoredFlows,         \* the records that may arrive: [at, protocol, src, dst]
    ReadWindows,       \* the windows that may be read: [start, end]
    ReadSources,       \* which read models a deployment may have
    Readers,       \* concurrent reads of the store
    RetentionMinutes, MaxNodes, MaxEdges, MaxEntries, EntityLimit,
    MaxAppends     \* bound: batches

ASSUME FlowReadsAssumption ==
    /\ ReadSources \subseteq {"rollup", "store"}
    /\ {RetentionMinutes, MaxNodes, MaxEdges, MaxEntries, EntityLimit} \subseteq Nat \ {0}
    /\ MaxAppends \in Nat
    /\ \A f \in StoredFlows : f.at \in Int
    /\ \A w \in ReadWindows : w.start \in Int /\ w.end \in Int

VARIABLES
    flowSource,    \* app.state.flow_source
    accepted,      \* the records appended: the table, or a history of the rollup
    appends,       \* batches appended
    rollup,        \* InProcessFlowRollup
    coverage,      \* the store's memo of whether its table holds anything, or "none"
    appending,     \* appends that have committed and have yet to drop the memo
    reading,       \* each read of the store
    misread        \* history: the memo in force was read before an append was done
                   \* and kept after it

flowVars == <<flowSource, accepted, appends, rollup, coverage, appending, reading, misread>>

MinuteOf(at) == at \div 2
NotReading == [pc |-> "idle"]

FlowsTypeOK ==
    /\ flowSource \in ReadSources /\ accepted \in Seq(StoredFlows) /\ appends \in 0..MaxAppends
    /\ rollup.entries \in 0..MaxEntries /\ rollup.addresses \in Nat /\ rollup.pairs \in Nat
    /\ coverage \in {"none", "empty", "held"} /\ appending \in 0..appends /\ misread \in BOOLEAN

(* InProcessFlowRollup.__init__: a bag per tally, keyed by the minute and  *)
(* the protocol, plus the address or the pair.                             *)
FlowsInit ==
    /\ flowSource \in ReadSources /\ accepted = <<>> /\ appends = 0
    /\ rollup = [buckets |-> EmptyBag, nodes |-> EmptyBag, edges |-> EmptyBag,
                 entries |-> 0, addresses |-> 0, pairs |-> 0]
    /\ coverage = "none" /\ appending = 0 /\ misread = FALSE
    /\ reading = [r \in Readers |-> NotReading]
-----------------------------------------------------------------------------
(* _room, and _node_for and _edge_for over it.                             *)
RoomFor(r, part) ==
    /\ r.entries < MaxEntries
    /\ Cardinality(DOMAIN r[part]) < IF part = "nodes" THEN MaxNodes ELSE MaxEdges
Tracks(r, part, key) == key \in DOMAIN r[part] \/ RoomFor(r, part)

CountedIn(r, part, key) ==
    IF ~Tracks(r, part, key) THEN r
    ELSE [r EXCEPT ![part] = @ (+) SetToBag({key}),
                   !.entries = IF key \in DOMAIN r[part] THEN @ ELSE @ + 1]

(* _add: the bucket always counts; a record whose ends or pair found no    *)
(* room is counted as untracked, once.                                     *)
AddFlow(r, f) ==
    LET dim == <<MinuteOf(f.at), f.protocol>>
        one == CountedIn(r, "nodes", <<dim, f.src>>)
        both == CountedIn(one, "nodes", <<dim, f.dst>>)
        all == CountedIn(both, "edges", <<dim, f.src, f.dst>>)
        tracked == Tracks(r, "nodes", <<dim, f.src>>) /\ Tracks(one, "nodes", <<dim, f.dst>>) IN
    [all EXCEPT !.buckets = @ (+) SetToBag({dim}),
                !.addresses = IF tracked THEN @ ELSE @ + 1,
                !.pairs = IF Tracks(both, "edges", <<dim, f.src, f.dst>>) THEN @ ELSE @ + 1]

(* Variant: the minute at the cutoff goes too.                             *)
CutoffLate(newest) == newest - RetentionMinutes + 2

Cutoff(newest) == newest - RetentionMinutes + 1

(* _prune, from the newest record of the batch.                            *)
PruneBefore(r, newest) ==
    LET old(minute) == minute < Cutoff(newest)
        kept(bag, minute(_)) == [k \in {j \in DOMAIN bag : ~old(minute(j))} |-> bag[k]]
        gone(bag) == Cardinality({k \in DOMAIN bag : old(k[1][1])}) IN
    [r EXCEPT !.buckets = kept(@, LAMBDA k : k[1]),
              !.nodes = kept(@, LAMBDA k : k[1][1]),
              !.edges = kept(@, LAMBDA k : k[1][1]),
              !.entries = @ - gone(r.nodes) - gone(r.edges)]

(* append of RollupFlowSource.                                             *)
RollupAppend(batch) ==
    /\ flowSource = "rollup" /\ appends < MaxAppends
    /\ rollup' = PruneBefore(FoldLeft(AddFlow, rollup, batch),
                             Max({MinuteOf(batch[i].at) : i \in DOMAIN batch}))
    /\ accepted' = accepted \o batch /\ appends' = appends + 1
    /\ UNCHANGED <<flowSource, coverage, appending, reading, misread>>
-----------------------------------------------------------------------------
(* The summary of a window, of either source: `flows` over the buckets of  *)
(* the series, every node and edge with its count, and the entity list.    *)
Heavier(weight, a, b) == weight[a] > weight[b] \/ (weight[a] = weight[b] /\ a < b)
Busiest(weight) ==
    {a \in DOMAIN weight : Cardinality({b \in DOMAIN weight : Heavier(weight, b, a)}) < EntityLimit}

(* bucket_starts and bucket_index, at one minute a bucket.                 *)
BucketCount(w) == (w.end - w.start + 1) \div 2
BucketIndexOf(at, w) == Min({Max({(at - w.start) \div 2, 0}), BucketCount(w) - 1})

Aggregate(series, nodes, edges) ==
    [series |-> series, entities |-> [a \in Busiest(nodes) |-> nodes[a]], edges |-> edges,
     capped |-> Cardinality(DOMAIN nodes) > EntityLimit]

(* InProcessFlowRollup.summary: a minute that overlaps the window counts.  *)
RollupSummary(w, protocols) ==
    LET dims == {d \in DOMAIN rollup.buckets :
                     2 * d[1] < w.end /\ 2 * d[1] + 2 > w.start /\ d[2] \in protocols}
        sum(bag, keys) == MapThenSumSet(LAMBDA k : bag[k], keys)
        nodes == {k \in DOMAIN rollup.nodes : k[1] \in dims}
        edges == {k \in DOMAIN rollup.edges : k[1] \in dims} IN
    Aggregate([b \in 0..(BucketCount(w) - 1) |->
                   sum(rollup.buckets, {d \in dims : BucketIndexOf(2 * d[1], w) = b})],
              [a \in {k[2] : k \in nodes} |-> sum(rollup.nodes, {k \in nodes : k[2] = a})],
              [p \in {<<k[2], k[3]>> : k \in edges} |->
                   sum(rollup.edges, {k \in edges : <<k[2], k[3]>> = p})])

(* FlowFilters: one protocol, or all of them.                              *)
ReadProtocols ==
    LET all == {f.protocol : f \in StoredFlows} IN {all} \cup {{p} : p \in all}

(* The statements of flow_statements.py over the rows of the window.       *)
RowsIn(w, protocols) ==
    {i \in DOMAIN accepted : /\ w.start <= accepted[i].at /\ accepted[i].at < w.end
                             /\ accepted[i].protocol \in protocols}
StoreSeries(w, rows) ==
    [b \in 0..(BucketCount(w) - 1) |->
        Cardinality({i \in rows : (accepted[i].at - w.start) \div 2 = b})]
NodeRows(rows) ==
    [a \in {accepted[i].src : i \in rows} \cup {accepted[i].dst : i \in rows} |->
        Cardinality({i \in rows : accepted[i].src = a}) + Cardinality({i \in rows : accepted[i].dst = a})]
EdgeRows(rows) ==
    [p \in {<<accepted[i].src, accepted[i].dst>> : i \in rows} |->
        Cardinality({i \in rows : <<accepted[i].src, accepted[i].dst>> = p})]
StoreSummary(w, protocols) ==
    LET rows == RowsIn(w, protocols) IN
    Aggregate(StoreSeries(w, rows), NodeRows(rows), EdgeRows(rows))
-----------------------------------------------------------------------------
(* PostgresFlowStore.append: one transaction, then the memo is dropped.    *)
StoreCommit(batch) ==
    /\ flowSource = "store" /\ appends < MaxAppends
    /\ accepted' = accepted \o batch /\ appends' = appends + 1 /\ appending' = appending + 1
    /\ UNCHANGED <<flowSource, rollup, coverage, reading, misread>>

StoreAppended ==
    /\ appending > 0 /\ appending' = appending - 1
    /\ coverage' = "none" /\ misread' = FALSE
    /\ UNCHANGED <<flowSource, accepted, appends, rollup, reading>>

(* The appends that have returned.                                         *)
Done == appends - appending

(* read_flows over the store: the series of the window is read, then the   *)
(* lists and the counts, then whether anything was ever stored; each is a  *)
(* statement.  `before` is a history: an append was done when it began.    *)
ReadSeries(r, w, protocols) ==
    /\ flowSource = "store" /\ reading[r] = NotReading
    /\ reading' = [reading EXCEPT ![r] =
           [pc |-> "lists", before |-> Done > 0, quiet |-> RowsIn(w, protocols) = {}]]
    /\ UNCHANGED <<flowSource, accepted, appends, rollup, coverage, appending, misread>>

ReadLists(r) ==
    /\ reading[r].pc = "lists"
    /\ reading' = [reading EXCEPT ![r].pc = "coverage"]
    /\ UNCHANGED <<flowSource, accepted, appends, rollup, coverage, appending, misread>>

Answer(r, held) ==
    reading' = [reading EXCEPT ![r] = [pc |-> "answered", before |-> @.before, misled |-> misread',
                                       emptyEver |-> @.quiet /\ held = "empty"]]

(* coverage: the memo if it is fresh; else the table is asked ...          *)
ReadCoverage(r) ==
    /\ reading[r].pc = "coverage"
    /\ UNCHANGED <<flowSource, accepted, appends, rollup, coverage, appending, misread>>
    /\ IF coverage # "none" THEN Answer(r, coverage)
       ELSE reading' = [reading EXCEPT ![r] =
                [pc |-> "remember", before |-> @.before, quiet |-> @.quiet, seen |-> appends,
                 held |-> IF accepted = <<>> THEN "empty" ELSE "held"]]

(* ... and what it said is kept when the answer arrives.                   *)
Remember(r) ==
    /\ reading[r].pc = "remember"
    /\ coverage' = reading[r].held
    /\ misread' = (Done > reading[r].seen)
    /\ Answer(r, reading[r].held)
    /\ UNCHANGED <<flowSource, accepted, appends, rollup, appending>>

CoverageExpires ==
    /\ coverage # "none" /\ coverage' = "none" /\ misread' = FALSE
    /\ UNCHANGED <<flowSource, accepted, appends, rollup, appending, reading>>

ReadAnswered(r) ==
    /\ reading[r].pc = "answered" /\ reading' = [reading EXCEPT ![r] = NotReading]
    /\ UNCHANGED <<flowSource, accepted, appends, rollup, coverage, appending, misread>>

FlowsNext ==
    \/ \E batch \in BoundedSeq(StoredFlows, 2) \ {<<>>} : RollupAppend(batch) \/ StoreCommit(batch)
    \/ StoreAppended \/ CoverageExpires
    \/ \E r \in Readers, w \in ReadWindows, protocols \in ReadProtocols : ReadSeries(r, w, protocols)
    \/ \E r \in Readers : ReadLists(r) \/ ReadCoverage(r) \/ Remember(r) \/ ReadAnswered(r)

FlowsSpec == FlowsInit /\ [][FlowsNext]_flowVars
-----------------------------------------------------------------------------
NewestMinute == Max({MinuteOf(accepted[i].at) : i \in DOMAIN accepted})

(* "Two sources, one shape": over whole minutes of the hour it keeps, the  *)
(* rollup answers as the store would, whatever order the records came in   *)
(* and whatever was pruned; a full rollup still counts every flow in the   *)
(* series and says that its breakdown is partial (flow_read_model.py).     *)
RollupAnswersAsStore ==
    (flowSource = "rollup" /\ accepted # <<>>) =>
        \A w \in ReadWindows, protocols \in ReadProtocols :
            (w.start % 2 = 0 /\ w.end % 2 = 0 /\ w.start >= 2 * (NewestMinute - RetentionMinutes + 1)) =>
                LET mine == RollupSummary(w, protocols)  exact == StoreSummary(w, protocols) IN
                /\ mine.series = exact.series
                /\ rollup.addresses = 0 => mine.entities = exact.entities /\ mine.capped = exact.capped
                /\ rollup.pairs = 0 => mine.edges = exact.edges

(* A read of a quiet window says that nothing was ever counted only if no  *)
(* append was done when it began, unless the memo that answered it was     *)
(* read before an append and kept after it, and none since has dropped it  *)
(* (flow_store.py, coverage and append; flow_source.py, flow_caveats).     *)
EmptyMeansEmpty ==
    \A r \in Readers :
        reading[r].pc = "answered" /\ reading[r].emptyEver /\ ~reading[r].misled => ~reading[r].before
=============================================================================
