------------------------------- MODULE AlertDesk -------------------------------
(***************************************************************************)
(* The alert rows (services/alert_store.py) between the pipeline's writer, *)
(* which adds and refreshes them on the scoring thread, and the readers:   *)
(* the paged queue (services/query_service.py) and the overview            *)
(* (services/overview.py).  A row's id is its position in the store.  The  *)
(* overview's verdict counts read a column of the row that nothing writes: *)
(* they are left out.                                                      *)
(***************************************************************************)
EXTENDS Integers, Sequences, FiniteSetsExt

CONSTANTS
    Cases, EntityOf,             \* the correlator's cases
    CaseBands,                   \* severities, as ranks
    KnownBands,                  \* those the severity column defines
    Queries,                     \* the queries a client walks
    PageLimit, BucketWidth, ListLimit,
    MaxTime                      \* bound: instants

ASSUME AlertDeskAssumption ==
    /\ EntityOf \in [Cases -> Nat]
    /\ CaseBands \subseteq Nat /\ KnownBands \subseteq CaseBands
    /\ {PageLimit, BucketWidth, ListLimit} \subseteq Nat \ {0} /\ MaxTime \in Nat
    /\ \A q \in Queries : q.start < q.end /\ q.bands \subseteq CaseBands

VARIABLES
    rows,     \* _rows
    instant,  \* the row clock
    walk,     \* the client's walk through the pages of one query
    fetched,  \* the row objects of a page fetched and not yet serialised
    steady    \* history: rows there, and matching, since the walk began

alertDeskVars == <<rows, instant, walk, fetched, steady>>

Row == [case : Cases, at : 0..MaxTime, severity : CaseBands]
NoWalk == [query |-> "none"]
Ids == DOMAIN rows

AlertDeskTypeOK ==
    /\ rows \in Seq(Row) /\ \A i, j \in Ids : rows[i].case = rows[j].case => i = j
    /\ instant \in 0..MaxTime
    /\ walk # NoWalk => walk.query \in Queries /\ walk.seen \in Seq(Ids)
    /\ fetched \in Seq(Ids) /\ steady \subseteq Ids

AlertDeskInit ==
    /\ rows = <<>> /\ instant = 0
    /\ walk = NoWalk /\ fetched = <<>> /\ steady = {}
-----------------------------------------------------------------------------
RowOf(c) == {i \in Ids : rows[i].case = c}
Key(i) == <<rows[i].at, i>>
Before(k, l) == k[1] < l[1] \/ (k[1] = l[1] /\ k[2] < l[2])

(* _matches, with the window's bounds.                                     *)
Matches(i, q) == rows[i].at >= q.start /\ rows[i].at < q.end /\ rows[i].severity \in q.bands

(* InMemoryAlertStore.save: a case's second row refreshes its first, which *)
(* keeps its id and its creation time.                                     *)
SaveRow(c, band) ==
    rows' = IF RowOf(c) = {}
            THEN Append(rows, [case |-> c, at |-> instant, severity |-> band])
            ELSE [i \in Ids |-> IF i \in RowOf(c)
                                THEN [rows[i] EXCEPT !.severity = band] ELSE rows[i]]

(* AlertWriter: every outcome that is not a duplicate saves its case.      *)
WriteCase(c, band) ==
    /\ SaveRow(c, band)
    /\ steady' = {i \in steady : i \in RowOf(c) => band \in walk.query.bands}
    /\ UNCHANGED <<instant, walk, fetched>>

Tick ==
    /\ instant < MaxTime /\ instant' = instant + 1
    /\ UNCHANGED <<rows, walk, fetched, steady>>

StartWalk(q) ==
    /\ walk = NoWalk
    /\ walk' = [query |-> q, cursor |-> <<>>, seen |-> <<>>, over |-> FALSE]
    /\ steady' = {i \in Ids : Matches(i, q)}
    /\ UNCHANGED <<rows, instant, fetched>>

(* Variant: the row the cursor names is on the next page again.            *)
AfterCursorAgain(i, q, cursor) ==
    \/ cursor = <<>>
    \/ IF q.desc THEN ~Before(cursor, Key(i)) ELSE ~Before(Key(i), cursor)

(* _after_cursor: strictly after it, on both key columns.                  *)
AfterCursor(i, q, cursor) ==
    \/ cursor = <<>>
    \/ IF q.desc THEN Before(Key(i), cursor) ELSE Before(cursor, Key(i))

(* InMemoryAlertStore.fetch: in the query's order, one row over the limit. *)
Fetch(q, cursor) ==
    LET found == {i \in Ids : Matches(i, q) /\ AfterCursor(i, q, cursor)}
        First(n) == {i \in found : Cardinality({j \in found :
                         IF q.desc THEN Before(Key(i), Key(j)) ELSE Before(Key(j), Key(i))}) = n - 1}
        many == IF Cardinality(found) > PageLimit THEN PageLimit + 1 ELSE Cardinality(found)
    IN  [n \in 1..many |-> CHOOSE i \in First(n) : TRUE]

(* list_alerts: the rows are fetched under the store's lock ...            *)
FetchPage ==
    /\ walk # NoWalk /\ ~walk.over /\ fetched = <<>>
    /\ fetched' = Fetch(walk.query, walk.cursor)
    /\ walk' = [walk EXCEPT !.over = fetched' = <<>>]
    /\ UNCHANGED <<rows, instant, steady>>

(* ... and paginate reads them without it: a page of the limit, with a     *)
(* cursor at its last row only if there was one more.                      *)
Paginate ==
    /\ fetched # <<>>
    /\ LET more == Len(fetched) > PageLimit
           page == SubSeq(fetched, 1, IF more THEN PageLimit ELSE Len(fetched)) IN
       walk' = [walk EXCEPT !.seen = @ \o page, !.over = ~more,
                            !.cursor = IF more THEN Key(page[Len(page)]) ELSE <<>>]
    /\ fetched' = <<>>
    /\ UNCHANGED <<rows, instant, steady>>

AlertDeskNext ==
    \/ \E c \in Cases, b \in CaseBands : WriteCase(c, b)
    \/ Tick
    \/ \E q \in Queries : StartWalk(q)
    \/ FetchPage \/ Paginate
-----------------------------------------------------------------------------
(* The overview of a window [start, end).                                  *)
InWindow(start, end) == {i \in Ids : rows[i].at >= start /\ rows[i].at < end}

(* bucket_starts: the last bucket may reach past the end.                  *)
BucketCount(start, end) == Max({1, (end - start + BucketWidth - 1) \div BucketWidth})

(* Variant: rounded up to the next bucket.                                 *)
BucketIndexRoundedUp(at, start, end) == (at - start + BucketWidth - 1) \div BucketWidth

(* _bucket_index, clamped into the series.                                 *)
BucketIndex(at, start, end) ==
    Min({Max({(at - start) \div BucketWidth, 0}), BucketCount(start, end) - 1})

(* aggregate: the totals, the series and the capped entity list.           *)
Aggregate(start, end) ==
    LET all == InWindow(start, end)
        Tally(e) == Cardinality({i \in all : EntityOf[rows[i].case] = e})
        entities == {EntityOf[rows[i].case] : i \in all}
        Ahead(e) == {f \in entities : Tally(f) > Tally(e) \/ (Tally(f) = Tally(e) /\ f < e)}
    IN  [total |-> Cardinality(all),
         known |-> [b \in KnownBands |-> Cardinality({i \in all : rows[i].severity = b})],
         unrecognised |-> Cardinality({i \in all : rows[i].severity \notin KnownBands}),
         series |-> [n \in 0..(BucketCount(start, end) - 1) |->
                        Cardinality({i \in all : BucketIndex(rows[i].at, start, end) = n})],
         entities |-> [e \in {e \in entities : Cardinality(Ahead(e)) < ListLimit} |-> Tally(e)],
         capped |-> Cardinality(entities) > ListLimit]

(* A sum of counts, as the size of a disjoint union of sets of those sizes. *)
SumOver(f) == Cardinality(UNION {{x} \X (1..f[x]) : x \in DOMAIN f})

(* Keyset paging over a store that grows and changes: a walk that ended    *)
(* has shown every row that was there and matched from its start, in the   *)
(* query's order and none twice, whatever was written between two pages.   *)
WalkIsComplete ==
    walk # NoWalk =>
        /\ \A m, n \in DOMAIN walk.seen : m < n =>
               IF walk.query.desc THEN Before(Key(walk.seen[n]), Key(walk.seen[m]))
               ELSE Before(Key(walk.seen[m]), Key(walk.seen[n]))
        /\ walk.over => \A i \in steady : \E n \in DOMAIN walk.seen : walk.seen[n] = i

(* The overview's panels describe the same alerts: the bands and the       *)
(* series each add up to the total, every bucket counts exactly the rows   *)
(* of its span, and the entity list does too unless it says it is capped.  *)
OverviewAddsUp ==
    \A q \in {w \in (0..MaxTime) \X (0..(MaxTime + 1)) : w[1] < w[2]} :
        LET a == Aggregate(q[1], q[2]) IN
        /\ SumOver(a.known) + a.unrecognised = a.total
        /\ \A n \in DOMAIN a.series :
               a.series[n] = Cardinality({i \in InWindow(q[1], q[2]) :
                   /\ rows[i].at >= q[1] + n * BucketWidth
                   /\ rows[i].at < q[1] + (n + 1) * BucketWidth})
        /\ SumOver(a.entities) <= a.total
        /\ a.capped \/ SumOver(a.entities) = a.total
=============================================================================
