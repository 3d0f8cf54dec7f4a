--------------------------------- MODULE Drift ---------------------------------
(***************************************************************************)
(* Traffic drift: the backend's monitor thread publishes what recent flows *)
(* look like (backend/app/services/drift_monitor.py; the model service's   *)
(* /drift, ml-service/aegis_ml/serving/drift.py, counts the same way).     *)
(* The index published is a function of the counts, and those are kept.    *)
(***************************************************************************)
EXTENDS Integers, Sequences, SequencesExt, FiniteSetsExt

CONSTANTS
    DriftFlows,         \* flows that may be fed: [port, proto], bucketed
    BufferedFlows,      \* flows the monitor keeps (5000)
    RecentFlows,        \* flows a cycle looks at (2000)
    MaxFedFlows, MaxStarts  \* bounds

ASSUME DriftAssumption ==
    /\ {RecentFlows, BufferedFlows} \subseteq Nat /\ 2 <= RecentFlows /\ RecentFlows <= BufferedFlows
    /\ MaxFedFlows \in Nat /\ MaxStarts \in Nat

VARIABLES
    fedFlows,       \* every flow fed, in order
    flowBuffer,     \* _flow_buffer
    monitorOn,      \* _running
    monitorWake,    \* _wake, which nothing clears
    monitor,        \* the thread: [at, window, upTo, left]
    gauges,         \* feature -> the counts last published and the flows fed when they were read
    starts          \* times the monitor was started

driftVars == <<fedFlows, flowBuffer, monitorOn, monitorWake, monitor, gauges, starts>>

Features == {"port", "proto"}
NoThread == [at |-> "none"]
NoGauge == [upTo |-> 0]

DriftTypeOK ==
    /\ fedFlows \in Seq(DriftFlows) /\ flowBuffer \in Seq(DriftFlows) /\ Len(flowBuffer) <= BufferedFlows
    /\ monitorOn \in BOOLEAN /\ monitorWake \in BOOLEAN
    /\ monitor.at \in {"none", "waiting", "publishing", "ended"}

DriftInit ==
    /\ fedFlows = <<>> /\ flowBuffer = <<>> /\ monitorOn = FALSE /\ monitorWake = FALSE
    /\ monitor = NoThread /\ gauges = [f \in Features |-> NoGauge] /\ starts = 0
-----------------------------------------------------------------------------
Newest(n, flows) == SubSeq(flows, Max({1, Len(flows) - n + 1}), Len(flows))

(* Variant: the buffer stops at its size.                                  *)
FirstKept(flows) == SubSeq(flows, 1, Min({BufferedFlows, Len(flows)}))

Kept(flows) == Newest(BufferedFlows, flows)

AddFlows(f) ==
    /\ Len(fedFlows) < MaxFedFlows
    /\ fedFlows' = Append(fedFlows, f) /\ flowBuffer' = Kept(Append(flowBuffer, f))
    /\ UNCHANGED <<monitorOn, monitorWake, monitor, gauges, starts>>

(* start, once stop has waited for the thread.                             *)
StartMonitor ==
    /\ ~monitorOn /\ monitor.at \in {"none", "ended"} /\ starts < MaxStarts
    /\ monitorOn' = TRUE /\ starts' = starts + 1 /\ monitor' = [at |-> "waiting"]
    /\ UNCHANGED <<fedFlows, flowBuffer, monitorWake, gauges>>

(* stop: the thread leaves its loop once it looks.                         *)
StopMonitor ==
    /\ monitorOn /\ monitorOn' = FALSE /\ monitorWake' = TRUE
    /\ UNCHANGED <<fedFlows, flowBuffer, monitor, gauges, starts>>
MonitorEnds ==
    /\ monitor.at = "waiting" /\ monitorWake /\ monitor' = [at |-> "ended"]
    /\ UNCHANGED <<fedFlows, flowBuffer, monitorOn, monitorWake, gauges, starts>>

(* _compute_distribution (compute_feature_distribution in the service).    *)
Distribution(flows, feature) ==
    [b \in {flows[i][feature] : i \in DOMAIN flows} |->
        Cardinality({i \in DOMAIN flows : flows[i][feature] = b})]

(* _compute_and_publish: the window is copied under the lock, the features *)
(* are published one after the other; two flows at least.                  *)
MonitorCycle ==
    /\ monitor.at = "waiting" /\ ~monitorWake
    /\ LET window == Newest(RecentFlows, flowBuffer) IN
       /\ Len(window) >= 2
       /\ monitor' = [at |-> "publishing", window |-> window, upTo |-> Len(fedFlows), left |-> Features]
    /\ UNCHANGED <<fedFlows, flowBuffer, monitorOn, monitorWake, gauges, starts>>
PublishGauge(feature) ==
    /\ monitor.at = "publishing" /\ feature \in monitor.left
    /\ gauges' = [gauges EXCEPT ![feature] =
                     [upTo |-> monitor.upTo, counts |-> Distribution(monitor.window, feature)]]
    /\ monitor' = IF monitor.left # {feature} THEN [monitor EXCEPT !.left = @ \ {feature}]
                  ELSE [at |-> IF monitorOn THEN "waiting" ELSE "ended"]
    /\ UNCHANGED <<fedFlows, flowBuffer, monitorOn, monitorWake, starts>>

DriftNext ==
    \/ \E f \in DriftFlows : AddFlows(f)
    \/ StartMonitor \/ StopMonitor \/ MonitorEnds \/ MonitorCycle
    \/ \E f \in Features : PublishGauge(f)

DriftSpec == DriftInit /\ [][DriftNext]_driftVars
-----------------------------------------------------------------------------
(* What a gauge shows is the newest traffic there was when its cycle read  *)
(* it - no older flow, no flow left out, the window the other feature is   *)
(* judged on - though flows keep being fed and the monitor is stopped and  *)
(* started meanwhile.                                                      *)
GaugesShowTheNewest ==
    \A f \in Features :
        gauges[f] # NoGauge =>
            LET n == gauges[f].upTo
                window == [i \in 1..Min({n, RecentFlows}) |-> fedFlows[n + 1 - i][f]] IN
            gauges[f].counts =
                [b \in ToSet(window) |-> Cardinality({i \in DOMAIN window : window[i] = b})]
-----------------------------------------------------------------------------
(***************************************************************************)
(* The numeric comparison of a window with a reference (ml-                *)
(* service/aegis_ml/scoring/drift.py): the reference's quantiles are the   *)
(* edges of the bins both are counted in. The stability index is a         *)
(* function of the two tables of counts, and those are what is kept.       *)
(***************************************************************************)
CONSTANTS
    Bins,       \* bins of a numeric feature, at most
    Samples     \* values of a numeric feature: sequences of integers

ASSUME DriftBinsAssumption == Bins \in Nat \ {0, 1} /\ Samples \subseteq Seq(Int) \ {<<>>}

VARIABLE measured   \* a numeric comparison, or NotMeasured

NotMeasured == [edges |-> <<>>]

DriftBinsTypeOK == measured.edges \in Seq(Int)

DriftBinsInit == measured = NotMeasured
-----------------------------------------------------------------------------
(* bin_edges: the reference's quantiles, between two of its values where   *)
(* they fall between; an edge equal to the last one is dropped.  An edge   *)
(* is kept times Bins, to stay a whole number.                             *)
Sorted(values) ==
    [k \in DOMAIN values |-> CHOOSE v \in {values[i] : i \in DOMAIN values} :
        /\ Cardinality({i \in DOMAIN values : values[i] < v}) < k
        /\ k <= Cardinality({i \in DOMAIN values : values[i] <= v})]
QuantileTimesBins(values, index) ==
    LET position == index * (Len(values) - 1)
        low == position \div Bins
        weight == position % Bins
        high == IF weight = 0 THEN low ELSE low + 1 IN
    values[low + 1] * (Bins - weight) + values[high + 1] * weight
BinEdges(reference) ==
    LET values == Sorted(reference)
        AddEdge(edges, index) ==
            LET edge == QuantileTimesBins(values, index) IN
            IF edges = <<>> \/ edge > Last(edges) THEN Append(edges, edge) ELSE edges IN
    FoldLeft(AddEdge, <<>>, [i \in 1..(Bins - 1) |-> i])

(* Variant: a value on an edge goes past it.                               *)
BinOpenAbove(v, edges) ==
    LET fits == {b \in DOMAIN edges : v * Bins < edges[b]} IN
    IF fits = {} THEN Len(edges) + 1 ELSE Min(fits)

(* _histogram: a value goes in the first bin whose edge it does not pass.  *)
BinOfValue(v, edges) ==
    LET fits == {b \in DOMAIN edges : v * Bins <= edges[b]} IN
    IF fits = {} THEN Len(edges) + 1 ELSE Min(fits)
Histogram(values, edges) ==
    [b \in 1..(Len(edges) + 1) |-> Cardinality({i \in DOMAIN values : BinOfValue(values[i], edges) = b})]

(* numeric_psi, as measure_drift calls it.                                 *)
Measure(reference, actual) ==
    /\ measured = NotMeasured
    /\ LET edges == BinEdges(reference) IN
       measured' = [edges |-> edges, reference |-> reference, actual |-> actual,
                    expected |-> Histogram(reference, edges), observed |-> Histogram(actual, edges)]

DriftBinsNext == \E r, a \in Samples : Measure(r, a)

DriftBinsSpec == DriftBinsInit /\ [][DriftBinsNext]_measured
-----------------------------------------------------------------------------
(* Every value of both samples is counted once, in the bin whose edges are *)
(* around it, the lowest and the highest bin being open; and of a          *)
(* reference, the lowest bin is never empty.                               *)
BinsHoldTheirValues ==
    measured # NotMeasured =>
        LET In(b, v) == /\ b = 1 \/ measured.edges[b - 1] < v * Bins
                        /\ b > Len(measured.edges) \/ v * Bins <= measured.edges[b] IN
        /\ \A i, j \in DOMAIN measured.edges : i < j => measured.edges[i] < measured.edges[j]
        /\ \A b \in DOMAIN measured.expected :
              /\ measured.expected[b] = Cardinality({i \in DOMAIN measured.reference : In(b, measured.reference[i])})
              /\ measured.observed[b] = Cardinality({i \in DOMAIN measured.actual : In(b, measured.actual[i])})
        /\ measured.expected[1] > 0
=============================================================================
