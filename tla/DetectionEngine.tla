---------------------------- MODULE DetectionEngine ----------------------------
(***************************************************************************)
(* The in-process detection engine (services/detection_engine.py): ingest, *)
(* on the event loop, feeds a bounded buffer under a lock; a daemon thread *)
(* drains it every interval and runs the rules, and the flow model if one  *)
(* is configured, on what it drained.  The lifespan starts and stops it.   *)
(***************************************************************************)
EXTENDS Integers, SequencesExt

CONSTANTS
    Flows,       \* the flows ingest may feed
    MaxBuffer,
    ModelOn, MlMaxWindows,
    MaxFed       \* bound: flows fed

CONSTANTS        \* the thresholds of the rules, and what they take a flow for
    PortScanThreshold, BeaconMinFlows, BeaconMinInterval, BeaconTolerance,
    ExfilBytes, BruteForceThreshold, DnsTunnelSize, DnsTunnelFlows, LateralThreshold,
    AuthPorts, LateralPorts, DnsPort, Internal

(* The fields of FlowRecord a rule reads; `failed` is conn_state, or the   *)
(* short empty answer, that counts as a failure.                           *)
FlowFields == {"src", "dst", "port", "service", "at", "bytes", "failed"}

ASSUME DetectionEngineAssumption ==
    /\ \A f \in Flows : DOMAIN f = FlowFields
    /\ MaxBuffer \in Nat \ {0} /\ ModelOn \in BOOLEAN /\ {MlMaxWindows, MaxFed} \subseteq Nat

ASSUME RulesAssumption ==
    {PortScanThreshold, BeaconMinFlows, BeaconMinInterval, BeaconTolerance, ExfilBytes,
     BruteForceThreshold, DnsTunnelSize, DnsTunnelFlows, LateralThreshold} \subseteq Nat \ {0}
-----------------------------------------------------------------------------
(***************************************************************************)
(* The heuristic rules over one source's window of flows                   *)
(* (services/rule_detector.py).  Every rule reads the whole window and     *)
(* compares a count, a sum or a spread with its threshold; the scores and  *)
(* the reasons given with a hit are left out.  A window is a sequence of   *)
(* flows, as flows may repeat.                                             *)
(***************************************************************************)
Where(window, Test(_)) == SelectSeq(window, Test)
Total(numbers) == FoldSeq(LAMBDA a, b : a + b, 0, numbers)
Distance(a, b) == IF a < b THEN b - a ELSE a - b

PortScan(window) ==
    Cardinality({window[k].port : k \in DOMAIN window}) >= PortScanThreshold

(* The sorted times of one destination's flows, and the gaps in between.   *)
Times(window, dst, port) ==
    LET mine == Where(window, LAMBDA f : f.dst = dst /\ f.port = port) IN
    SortSeq([k \in DOMAIN mine |-> mine[k].at], LAMBDA a, b : a < b)
Gaps(times) == [k \in 1..(Len(times) - 1) |-> times[k + 1] - times[k]]

(* The mean gap is at least the minimum and the mean distance from it is   *)
(* under the tolerance, in percent: both means are kept as sums.           *)
Regular(times) ==
    LET gaps == Gaps(times)
        n == Len(gaps)
        sum == Total(gaps)
        spread == Total([k \in DOMAIN gaps |-> Distance(n * gaps[k], sum)]) IN
    /\ sum >= BeaconMinInterval * n
    /\ 100 * spread < BeaconTolerance * n * sum

Beacon(window) ==
    \E k \in DOMAIN window :
        LET times == Times(window, window[k].dst, window[k].port) IN
        Len(times) >= BeaconMinFlows /\ Regular(times)

Exfiltration(window) == Total([k \in DOMAIN window |-> window[k].bytes]) >= ExfilBytes

BruteForce(window) ==
    Len(Where(window, LAMBDA f : f.port \in AuthPorts /\ f.failed)) >= BruteForceThreshold

DnsTunnel(window) ==
    Len(Where(window, LAMBDA f : /\ f.port = DnsPort \/ f.service = "dns"
                                 /\ f.bytes > DnsTunnelSize)) >= DnsTunnelFlows

LateralMovement(window) ==
    Len(Where(window, LAMBDA f : /\ f.port \in LateralPorts
                                 /\ f.src \in Internal /\ f.dst \in Internal)) >= LateralThreshold

(* The families in the order the detectors are built.                      *)
Families == <<"port_scan", "beacon", "exfiltration", "brute_force", "dns_tunnel", "lateral_movement">>

Hit(family, window) ==
    CASE family = "port_scan" -> PortScan(window)
      [] family = "beacon" -> Beacon(window)
      [] family = "exfiltration" -> Exfiltration(window)
      [] family = "brute_force" -> BruteForce(window)
      [] family = "dns_tunnel" -> DnsTunnel(window)
      [] family = "lateral_movement" -> LateralMovement(window)

Sources(flows) == {flows[k].src : k \in DOMAIN flows}
WindowOf(flows, src) == Where(flows, LAMBDA f : f.src = src)

(* process_flows: every source's window through every rule.                *)
Hits(flows) ==
    {hit \in Sources(flows) \X ToSet(Families) : Hit(hit[2], WindowOf(flows, hit[1]))}

(* _score_with_model leaves out a window of one flow.                      *)
ScoredWindows(flows) == {src \in Sources(flows) : Len(WindowOf(flows, src)) >= 2}
-----------------------------------------------------------------------------
VARIABLES
    buffer,     \* _buffer, each flow with the number it was fed under
    thread,     \* the loop's thread: where it is and what it drained
    running, wake,
    saved,      \* the (source, family) pairs an alert was saved for
    fed,        \* flows fed
    scanned,    \* history: the numbers scanned, in order
    lost        \* history: numbers pushed out of a full buffer, or drained by a cycle that raised

engineVars == <<buffer, thread, running, wake, saved, fed, scanned, lost>>

Stopped == [at |-> "none"]
Waiting == [at |-> "waiting"]
Fed == [n : 1..MaxFed, flow : Flows]

EngineTypeOK ==
    /\ buffer \in Seq(Fed) /\ Len(buffer) <= MaxBuffer
    /\ thread.at \in {"none", "waiting", "cycle"} /\ {running, wake} \subseteq BOOLEAN
    /\ saved \subseteq {f.src : f \in Flows} \X (ToSet(Families) \cup {"flow_anomaly"})
    /\ fed \in 0..MaxFed /\ scanned \in Seq(1..MaxFed) /\ lost \subseteq 1..MaxFed

EngineInit ==
    /\ buffer = <<>> /\ thread = Stopped /\ running = FALSE /\ wake = FALSE
    /\ saved = {} /\ fed = 0 /\ scanned = <<>> /\ lost = {}
-----------------------------------------------------------------------------
Numbers(entries) == {entries[k].n : k \in DOMAIN entries}
FlowsOf(entries) == [k \in DOMAIN entries |-> entries[k].flow]

(* feed: a deque past its length drops its oldest, and says nothing.       *)
Feed(f) ==
    /\ fed < MaxFed /\ fed' = fed + 1
    /\ LET longer == Append(buffer, [n |-> fed + 1, flow |-> f]) IN
       IF Len(longer) > MaxBuffer
       THEN buffer' = Tail(longer) /\ lost' = lost \cup {Head(longer).n}
       ELSE buffer' = longer /\ UNCHANGED lost
    /\ UNCHANGED <<thread, running, wake, saved, scanned>>

(* start: a thread started while an old one finishes its cycle after a stop *)
(* finds the event set and ends at once.                                   *)
Start ==
    /\ ~running /\ running' = TRUE
    /\ thread' = IF thread.at = "none" THEN Waiting ELSE thread
    /\ UNCHANGED <<buffer, wake, saved, fed, scanned, lost>>

(* stop: the event is set and nothing clears it.  A cycle may outlast the  *)
(* join's five seconds.                                                    *)
Stop ==
    /\ running /\ running' = FALSE /\ wake' = TRUE
    /\ UNCHANGED <<buffer, thread, saved, fed, scanned, lost>>

(* _loop ends when it is told to, or finds the event set.                  *)
LoopEnds ==
    /\ thread.at = "waiting" /\ (wake \/ ~running)
    /\ thread' = Stopped
    /\ UNCHANGED <<buffer, running, wake, saved, fed, scanned, lost>>

(* Variant: the flows are copied and left where they are.                  *)
DrainKept ==
    /\ thread.at = "waiting" /\ running /\ ~wake /\ buffer # <<>>
    /\ thread' = [at |-> "cycle", flows |-> buffer]
    /\ UNCHANGED <<buffer, running, wake, saved, fed, scanned, lost>>

(* The interval has passed: _run_cycle takes all there is.                 *)
Drain ==
    /\ thread.at = "waiting" /\ running /\ ~wake /\ buffer # <<>>
    /\ thread' = [at |-> "cycle", flows |-> buffer]
    /\ buffer' = <<>>
    /\ UNCHANGED <<running, wake, saved, fed, scanned, lost>>

(* What the model makes of the windows it gets to see: a call may fail, a  *)
(* score may stay under the threshold.                                     *)
Anomalies(flows) ==
    {anomalous \X {"flow_anomaly"} : anomalous \in
        {S \in SUBSET ScoredWindows(flows) : ModelOn /\ Cardinality(S) <= MlMaxWindows}}

(* process_flows, then _correlate_and_store for every hit: the correlator  *)
(* may fold it into a case, and a store that raises only loses that alert. *)
Scan ==
    /\ thread.at = "cycle"
    /\ \E anomalies \in Anomalies(FlowsOf(thread.flows)) \cup {{}} :
          \E kept \in SUBSET (Hits(FlowsOf(thread.flows)) \cup anomalies) :
             saved' = saved \cup kept
    /\ scanned' = scanned \o [k \in DOMAIN thread.flows |-> thread.flows[k].n]
    /\ thread' = Waiting
    /\ UNCHANGED <<buffer, running, wake, fed, lost>>

(* Variant: the exception ends the loop.                                   *)
CycleEndsLoop ==
    /\ thread.at = "cycle"
    /\ lost' = lost \cup Numbers(thread.flows)
    /\ thread' = Stopped
    /\ UNCHANGED <<buffer, running, wake, saved, fed, scanned>>

(* The cycle raises: the loop lives on, its flows are gone.                *)
CycleFails ==
    /\ thread.at = "cycle"
    /\ lost' = lost \cup Numbers(thread.flows)
    /\ thread' = Waiting
    /\ UNCHANGED <<buffer, running, wake, saved, fed, scanned>>

EngineNext == (\E f \in Flows : Feed(f)) \/ Start \/ Stop \/ LoopEnds \/ Drain \/ Scan \/ CycleFails

EngineFair == WF_engineVars(Drain) /\ WF_engineVars(Scan \/ CycleFails) /\ WF_engineVars(LoopEnds)

EngineSpec == EngineInit /\ [][EngineNext]_engineVars
EngineFairSpec == EngineSpec /\ EngineFair
-----------------------------------------------------------------------------
(* Feeding on the event loop and draining on the thread lose and repeat    *)
(* nothing between them: every flow fed is waiting, being scanned, scanned *)
(* exactly once and in order, or lost where the code loses it.             *)
ScannedOnceInOrder ==
    /\ \A j, k \in DOMAIN scanned : j < k => scanned[j] < scanned[k]
    /\ 1..fed = Numbers(buffer) \cup ToSet(scanned) \cup lost
                \cup (IF thread.at = "cycle" THEN Numbers(thread.flows) ELSE {})

(* While the engine has been started and not stopped, what is fed leaves   *)
(* the buffer for a scan.                                                  *)
EngineDrains == (running /\ ~wake /\ buffer # <<>>) ~> (buffer = <<>> \/ ~running)
=============================================================================
