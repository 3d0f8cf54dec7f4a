------------------------------- MODULE Retention -------------------------------
(***************************************************************************)
(* Retention: the plan over monthly partitions (services/retention.py), a  *)
(* run of it (retention_run.py) through the catalog and the row sweeps     *)
(* (retention_catalog.py), started by the scheduler's thread               *)
(* (retention_scheduler.py) and by the operator's route                    *)
(* (endpoints/privacy.py), which may overlap, while rows keep arriving.    *)
(* Days are numbers and months half-open ranges of them.                   *)
(***************************************************************************)
EXTENDS Integers, Sequences, FiniteSetsExt

CONSTANTS
    MonthStarts,            \* the first day of each month the schema has, and of the next
    RawDays, AlertsDays, StatsDays,   \* RetentionPolicy
    PartitionedTables, RawTables, Entities,
    Runners,                \* "scheduler", and operators' requests
    BatchRows, MaxBatches,  \* SWEEP_BATCH_ROWS, SWEEP_MAX_BATCHES
    MaxRows, MaxRuns        \* bounds: rows written, runs started

ASSUME RetentionAssumption ==
    /\ MonthStarts \in Seq(Nat) /\ Len(MonthStarts) > 1
    /\ \A k, l \in DOMAIN MonthStarts : k < l => MonthStarts[k] < MonthStarts[l]
    /\ PartitionedTables \subseteq {"alerts", "ingest_stats"}
    /\ RawTables \subseteq {"flow_events", "log_events"}
    /\ {RawDays, AlertsDays, StatsDays, BatchRows, MaxBatches} \subseteq Nat \ {0}
    /\ AlertsDays >= RawDays            \* RetentionPolicy refuses the inverse
    /\ {MaxRows, MaxRuns} \subseteq Nat

VARIABLES
    today,
    catalog,    \* the partitions that exist
    tableRows,       \* the rows of every table, each with its day
    entities,   \* the entities, with the day each was last seen
    run,        \* what each runner's run is doing
    trail,      \* the partitions the audit trail says were dropped
    written, runs   \* counters for the bounds

retentionVars == <<today, catalog, tableRows, entities, run, trail, written, runs>>

Months == 1..(Len(MonthStarts) - 1)
LastDay == MonthStarts[Len(MonthStarts)] - 1
Partitions == PartitionedTables \X Months
Promotions == "model_versions_history"      \* its rows carry the day they were reversed
SweptTables == RawTables \cup {"entities", Promotions}
NoRun == [at |-> "idle"]
TableRow == [table : PartitionedTables \cup RawTables \cup {Promotions}, day : 0..LastDay,
        entity : Entities, live : BOOLEAN]
Run == [at : {"drop", "existed"}, day : 0..LastDay, todo : SUBSET Partitions,
        dropped : SUBSET Partitions, sweeps : SUBSET SweptTables, batches : 0..MaxBatches]

RetentionTypeOK ==
    /\ today \in 0..LastDay /\ catalog \subseteq Partitions
    /\ tableRows \subseteq TableRow /\ trail \subseteq Partitions
    /\ entities \in [Entities -> 0..LastDay \cup {-1}]
    /\ \A r \in Runners : run[r] = NoRun \/ run[r] \in Run

RetentionInit ==
    /\ today = 0 /\ catalog = Partitions /\ tableRows = {} /\ trail = {}
    /\ entities = [e \in Entities |-> -1]
    /\ run = [r \in Runners |-> NoRun]
    /\ written = 0 /\ runs = 0
-----------------------------------------------------------------------------
(* month_bounds.                                                           *)
Covers(m, d) == MonthStarts[m] <= d /\ d < MonthStarts[m + 1]

(* days_for, days_for_window.                                              *)
DaysFor(table) ==
    CASE table = "ingest_stats" -> StatsDays
      [] table \in RawTables -> RawDays
      [] table \in {"alerts", "entities", Promotions} -> AlertsDays

Cutoff(table, day) == day - DaysFor(table)

(* Variant: a month that has begun before the cutoff goes.                 *)
DroppableFromStart(present, day) ==
    {p \in present : MonthStarts[p[2]] <= Cutoff(p[1], day)}

(* plan_retention: a month goes when all of it is at or before the cutoff. *)
Droppable(present, day) ==
    {p \in present : MonthStarts[p[2] + 1] <= Cutoff(p[1], day)}

NextDrop(todo) ==
    CHOOSE p \in todo : \A q \in todo :
        p = q \/ (p[1] = "alerts" /\ q[1] # "alerts") \/ (p[1] = q[1] /\ p[2] < q[2])

(* sweep_retained goes through its tables by name.                         *)
SweepOrder == <<"entities", "flow_events", "log_events", Promotions>>
NextSweep(todo) == SweepOrder[Min({k \in DOMAIN SweepOrder : SweepOrder[k] \in todo})]

(* execute_retention: the plan is made from the catalog, once.             *)
StartRun(r) ==
    /\ run[r] = NoRun /\ runs < MaxRuns
    /\ runs' = runs + 1
    /\ run' = [run EXCEPT ![r] =
          [at |-> "drop", day |-> today, todo |-> Droppable(catalog, today),
           dropped |-> {}, sweeps |-> SweptTables, batches |-> 0]]
    /\ UNCHANGED <<today, catalog, tableRows, entities, trail, written>>

(* CatalogRunner looks whether the partition exists ...                    *)
LookUp(r) ==
    /\ run[r].at = "drop" /\ run[r].todo # {}
    /\ LET p == NextDrop(run[r].todo) IN
       run' = [run EXCEPT ![r].at = "existed",
                          ![r].dropped = IF p \in catalog THEN @ \cup {p} ELSE @]
    /\ UNCHANGED <<today, catalog, tableRows, entities, trail, written, runs>>

(* ... and drops it, IF EXISTS.                                            *)
Drop(r) ==
    /\ run[r].at = "existed"
    /\ LET p == NextDrop(run[r].todo) IN
       /\ catalog' = catalog \ {p}
       /\ tableRows' = {x \in tableRows : ~(x.table = p[1] /\ Covers(p[2], x.day))}
       /\ run' = [run EXCEPT ![r].at = "drop", ![r].todo = @ \ {p}]
    /\ UNCHANGED <<today, entities, trail, written, runs>>

Referenced(e) == \E x \in tableRows : x.table = "alerts" /\ x.entity = e

Sweeping(r) == run[r].at = "drop" /\ run[r].todo = {}

(* Variant: the sweep does not ask whether an alert names the entity.      *)
ExpiredEntitiesUnasked(cutoff) ==
    {e \in Entities : entities[e] # -1 /\ entities[e] < cutoff}

(* _ENTITY_SWEEP.                                                          *)
ExpiredEntities(cutoff) ==
    {e \in Entities : entities[e] # -1 /\ entities[e] < cutoff /\ ~Referenced(e)}

(* _SWEEP_STATEMENTS, _PROMOTION_SWEEP: a promotion not reversed stays.    *)
ExpiredRows(table, cutoff) ==
    {x \in tableRows : x.table = table /\ x.day < cutoff /\ ~(table = Promotions /\ x.live)}

(* What a LIMIT takes of S: a batch at most, no older one left behind.     *)
IsBatch(B, S, age(_)) ==
    /\ Cardinality(B) = Min({Cardinality(S), BatchRows})
    /\ \A x \in B, y \in S \ B : age(x) <= age(y)

(* A short batch, or the last one allowed, ends the table.                 *)
SweepEnds(r, gone) ==
    LET over == Cardinality(gone) < BatchRows \/ run[r].batches + 1 = MaxBatches IN
    run' = [run EXCEPT ![r].sweeps = IF over THEN @ \ {NextSweep(@)} ELSE @,
                       ![r].batches = IF over THEN 0 ELSE @ + 1]

SweepEntities(r) ==
    LET old == ExpiredEntities(Cutoff("entities", run[r].day)) IN
    \E gone \in SUBSET old :
        /\ IsBatch(gone, old, LAMBDA e : entities[e])
        /\ entities' = [e \in Entities |-> IF e \in gone THEN -1 ELSE entities[e]]
        /\ SweepEnds(r, gone) /\ UNCHANGED tableRows

SweepRows(r, table) ==
    LET old == ExpiredRows(table, Cutoff(table, run[r].day)) IN
    \E gone \in SUBSET old :
        /\ IsBatch(gone, old, LAMBDA x : x.day)
        /\ tableRows' = tableRows \ gone
        /\ SweepEnds(r, gone) /\ UNCHANGED entities

(* One transaction of one table's sweep.                                   *)
SweepBatch(r) ==
    /\ Sweeping(r) /\ run[r].sweeps # {}
    /\ LET table == NextSweep(run[r].sweeps) IN
       IF table = "entities" THEN SweepEntities(r) ELSE SweepRows(r, table)
    /\ UNCHANGED <<today, catalog, trail, written, runs>>

(* A finished run is recorded: always by the route, by the scheduler when  *)
(* it changed anything (is_noop).                                          *)
FinishRun(r) ==
    /\ Sweeping(r) /\ run[r].sweeps = {}
    /\ trail' = trail \cup run[r].dropped
    /\ run' = [run EXCEPT ![r] = NoRun]
    /\ UNCHANGED <<today, catalog, tableRows, entities, written, runs>>

(* A statement fails: the exception ends the run, and nothing is recorded. *)
FailRun(r) ==
    /\ run[r].at = "existed" \/ (Sweeping(r) /\ run[r].sweeps # {})
    /\ run' = [run EXCEPT ![r] = NoRun]
    /\ UNCHANGED <<today, catalog, tableRows, entities, trail, written, runs>>
-----------------------------------------------------------------------------
(* What is written meanwhile: an alert names its entity, which it has just *)
(* seen; a partitioned table has a partition or refuses the row.           *)
WriteRow(table, e) ==
    /\ written < MaxRows /\ written' = written + 1
    /\ table \in PartitionedTables =>
          \E m \in Months : Covers(m, today) /\ <<table, m>> \in catalog
    /\ tableRows' = tableRows \cup {[table |-> table, day |-> today, entity |-> e, live |-> TRUE]}
    /\ entities' = IF table = "alerts" THEN [entities EXCEPT ![e] = today] ELSE entities
    /\ UNCHANGED <<today, catalog, run, trail, runs>>

(* A promotion is rolled back; the row then carries the day.               *)
ReverseMove(x) ==
    /\ x.table = Promotions /\ x.live
    /\ tableRows' = (tableRows \ {x}) \cup {[x EXCEPT !.live = FALSE, !.day = today]}
    /\ UNCHANGED <<today, catalog, entities, run, trail, written, runs>>

NewDay ==
    /\ today < LastDay /\ today' = today + 1
    /\ UNCHANGED <<catalog, tableRows, entities, run, trail, written, runs>>

RetentionNext ==
    \/ \E r \in Runners : \/ StartRun(r) \/ LookUp(r) \/ Drop(r)
                          \/ SweepBatch(r) \/ FinishRun(r) \/ FailRun(r)
    \/ \E table \in PartitionedTables \cup RawTables \cup {Promotions}, e \in Entities :
          WriteRow(table, e)
    \/ \E x \in tableRows : ReverseMove(x)
    \/ NewDay

RetentionSpec == RetentionInit /\ [][RetentionNext]_retentionVars
-----------------------------------------------------------------------------
(* Retention never takes what the policy still promises to keep, whatever  *)
(* the day a run was planned on, whoever runs beside it and wherever a     *)
(* month begins, and never an entity an alert still names                  *)
(* (retention.py, plan_retention; retention_catalog.py, _ENTITY_SWEEP).    *)
KeepsItsPromise ==
    [][(\E x \in tableRows : ReverseMove(x)) \/
       /\ \A x \in tableRows \ tableRows' : x.day < Cutoff(x.table, today) /\ ~(x.table = Promotions /\ x.live)
       /\ \A e \in Entities : entities'[e] = -1 => entities[e] = -1 \/ ~Referenced(e)
      ]_retentionVars
=============================================================================
