--------------------------------- MODULE MCEdge ---------------------------------
(***************************************************************************)
(* What stands around the backend's core, in one instance: the capture     *)
(* bridges and their shipper, the packet capture, the heartbeats, the rate *)
(* limits, the middlewares, the in-process engine, the producer of the     *)
(* broker and its topic, the flow and log reads, the lifespan of the       *)
(* process, and the model service with its data splits, its evaluation,    *)
(* its registry, its scoring and its drift monitor.  They share no state,  *)
(* so in any one behaviour one of them is busy and the others rest:        *)
(* `focus` says which.                                                     *)
(***************************************************************************)
EXTENDS DetectionEngine, Shipper, Bridges, CaptureHealth, FlowReads, LogReads,
        DataSplits, PacketCapture, Evaluation, Drift, ModelServing,
        FlowBus, RequestChain, Lifespan

VARIABLE focus

edgeVars == <<focus, engineVars, shipperVars, bridgesVars, captureVars, limitVars, flowVars,
              logVars, leakVars, packetVars, evaluationVars, driftVars, measured, registryVars,
              scoringVars, busVars, exchange, lifeVars>>
-----------------------------------------------------------------------------
(* The constants that a cfg cannot spell.                                  *)
MCEngineFlows ==
    {[src |-> "in", dst |-> "out", port |-> 22, at |-> 0, bytes |-> 1, failed |-> TRUE, service |-> "ssh"],
     [src |-> "in", dst |-> "in2", port |-> 53, at |-> 6, bytes |-> 9, failed |-> FALSE, service |-> "none"],
     [src |-> "in", dst |-> "in2", port |-> 22, at |-> 12, bytes |-> 6, failed |-> FALSE, service |-> "dns"]}

MCWirings == {[broker |-> TRUE, modality |-> "flow"], [broker |-> FALSE, modality |-> "flow"],
              [broker |-> TRUE, modality |-> "log"]}

MCLines ==
    {[kind |-> "suricata_flow", proto |-> "tcp", src |-> "inside", dst |-> "outside"],
     [kind |-> "suricata_flow", proto |-> "gre", src |-> "outside", dst |-> "inside"],
     [kind |-> "tcpdump", proto |-> "icmp", src |-> "outside", dst |-> "inside"],
     [kind |-> "suricata_dns", proto |-> "udp", src |-> "inside", dst |-> "inside"]}

MCStoredFlows ==
    {[at |-> 0, protocol |-> "tcp", src |-> 1, dst |-> 2],
     [at |-> 1, protocol |-> "udp", src |-> 2, dst |-> 1],
     [at |-> 3, protocol |-> "tcp", src |-> 1, dst |-> 2],
     [at |-> 5, protocol |-> "tcp", src |-> 3, dst |-> 1]}
MCReadWindows == {w \in [start : 0..5, end : 2..6] : w.start < w.end}

MCLogLines == {[at |-> 0, key |-> 1, level |-> "info"], [at |-> 2, key |-> 1, level |-> "error"],
               [at |-> 1, key |-> 2, level |-> "info"]}
MCLogWindows == [start : {0, 1}, end : {2, 3}, key : {1, EveryKey}, level : {"info", NoFilter}]

MCSplitWindows == [key : 1..3, start : 0..2, families : {{}, {"dos"}}]
MCBucketOf == <<0, 1, 2>>
MCValueOf == [w \in SplitWindows |-> IF w.families = {} THEN w.start ELSE 1]

MCTuples == {[name |-> 1, proto |-> "tcp", ipv4 |-> TRUE], [name |-> 2, proto |-> "udp", ipv4 |-> TRUE],
             [name |-> 3, proto |-> "other", ipv4 |-> TRUE]}

MCDriftFlows == {[port |-> "443", proto |-> "tcp"], [port |-> "other", proto |-> "tcp"],
                 [port |-> "other", proto |-> "udp"]}
MCSamples == UNION {[1..n -> 0..2] : n \in 1..3}

MCDeployments == [kafka : BOOLEAN, database : BOOLEAN, stores : BOOLEAN]

MCRegistryKindOf == [id \in Ids |-> "flow"]

Quiet == [port |-> 443, service |-> "ssl", bytes |-> 500, small |-> FALSE, state |-> "ok", lasted |-> "long"]
Lookup == [port |-> 5353, service |-> "dns", bytes |-> 0, small |-> TRUE, state |-> Unknown, lasted |-> "short"]
Probe(i) == [port |-> i, service |-> Unknown, bytes |-> IF i = 1 THEN 150000 ELSE 0, small |-> i # 1,
             state |-> "failed", lasted |-> IF i = 1 THEN Unknown ELSE "short"]
MCWindowFlows == [empty |-> <<>>, one |-> <<Quiet>>, dns |-> [i \in 1..12 |-> Lookup],
                  scan |-> [i \in 1..120 |-> Probe(i)]]
-----------------------------------------------------------------------------
Services == {"engine", "shipper", "bridge", "heartbeat", "limits", "flows", "logs", "splits",
             "packets", "evaluation", "drift", "bins", "registry", "scoring", "bus", "topic",
             "chain", "life"}

EdgeInit ==
    /\ focus \in Services
    /\ EngineInit /\ ShipperInit /\ (focus # "shipper" => wiring = [broker |-> TRUE, modality |-> "flow"])
    /\ BridgesInit /\ CaptureInit /\ LimitInit
    /\ FlowsInit /\ (focus # "flows" => flowSource = "store")
    /\ LogsInit /\ LeakInit /\ PacketCaptureInit /\ EvaluationInit /\ DriftInit /\ DriftBinsInit
    /\ RegistryInit
    /\ ScoringInit /\ (focus # "scoring" => checkpoint = [flownet |-> "good", lognet |-> "good"])
    /\ FlowBusInit /\ (focus # "topic" => ownsRetention /\ flowTopic = "missing")
    /\ RequestChainInit
    /\ LifespanInit
    /\ focus # "life" => deployment = [kafka |-> TRUE, database |-> TRUE, stores |-> TRUE]

Rests(service, v) == IF focus = service THEN TRUE ELSE UNCHANGED v

EdgeNext ==
    /\ \/ focus = "engine" /\ EngineNext
       \/ focus = "shipper" /\ ShipperNext
       \/ focus = "bridge" /\ BridgesNext
       \/ focus = "heartbeat" /\ CaptureNext
       \/ focus = "limits" /\ LimitNext
       \/ focus = "flows" /\ FlowsNext
       \/ focus = "logs" /\ LogsNext
       \/ focus = "splits" /\ LeakNext
       \/ focus = "packets" /\ PacketCaptureNext
       \/ focus = "evaluation" /\ EvaluationNext
       \/ focus = "drift" /\ DriftNext
       \/ focus = "bins" /\ DriftBinsNext
       \/ focus = "registry" /\ RegistryNext
       \/ focus = "scoring" /\ ScoringNext
       \/ focus = "bus" /\ PublishNext
       \/ focus = "topic" /\ TopicNext
       \/ focus = "chain" /\ RequestChainNext
       \/ focus = "life" /\ LifespanNext
    /\ UNCHANGED focus
    /\ Rests("engine", engineVars) /\ Rests("shipper", shipperVars) /\ Rests("bridge", bridgesVars)
    /\ Rests("heartbeat", captureVars) /\ Rests("limits", limitVars) /\ Rests("flows", flowVars)
    /\ Rests("logs", logVars) /\ Rests("splits", leakVars) /\ Rests("packets", packetVars)
    /\ Rests("evaluation", evaluationVars) /\ Rests("drift", driftVars) /\ Rests("bins", measured)
    /\ Rests("registry", registryVars) /\ Rests("scoring", scoringVars)
    /\ IF focus \in {"bus", "topic"} THEN TRUE ELSE UNCHANGED busVars
    /\ Rests("chain", exchange) /\ Rests("life", lifeVars)

(* The fairness of the engine's thread, of a bridge's clock and of the end *)
(* of the lifespan, of the one that is busy.                               *)
EdgeFair ==
    /\ WF_engineVars(focus = "engine" /\ Drain)
    /\ WF_engineVars(focus = "engine" /\ (Scan \/ CycleFails))
    /\ WF_engineVars(focus = "engine" /\ LoopEnds)
    /\ WF_bridgesVars(focus = "bridge" /\ IntervalPasses)
    /\ WF_bridgesVars(focus = "bridge" /\ Silence)
    /\ WF_bridgesVars(focus = "bridge" /\ TakesQueued)
    /\ WF_lifeVars(focus = "life" /\ StopNext)

EdgeSpec == EdgeInit /\ [][EdgeNext]_edgeVars /\ EdgeFair
-----------------------------------------------------------------------------
EdgeTypeOK ==
    /\ focus \in Services
    /\ focus = "engine" => EngineTypeOK
    /\ focus = "shipper" => ShipperTypeOK
    /\ focus = "bridge" => BridgesTypeOK
    /\ focus = "heartbeat" => CaptureTypeOK
    /\ focus = "limits" => LimitTypeOK
    /\ focus = "flows" => FlowsTypeOK
    /\ focus = "logs" => LogsTypeOK
    /\ focus = "splits" => LeakTypeOK
    /\ focus = "packets" => PacketCaptureTypeOK
    /\ focus = "evaluation" => EvaluationTypeOK
    /\ focus = "drift" => DriftTypeOK
    /\ focus = "bins" => DriftBinsTypeOK
    /\ focus = "registry" => RegistryTypeOK
    /\ focus = "scoring" => ScoringTypeOK
    /\ focus \in {"bus", "topic"} => FlowBusTypeOK
    /\ focus = "chain" => RequestChainTypeOK
    /\ focus = "life" => LifespanTypeOK

(* Each of the following is the conjunction of what the modules state, of  *)
(* the service that is busy: the others have done nothing.                 *)

(* What is taken in is worked on: flows fed to a running engine leave its  *)
(* buffer for a scan, what a bridge holds is sent, and a shutdown ends.    *)
WorkIsFinished == EngineDrains /\ HeldIsSent /\ ShutdownEnds

(* A refusal is true: the budget is what is being taken in, who comes back *)
(* when told to is let through, and a body over the cap gets no further.   *)
AdmissionIsHonest ==
    /\ focus = "shipper" => BudgetIsInFlight
    /\ focus = "limits" => RetryAfterIsKept
    /\ focus = "chain" => AnsweredOnceWithinTheCap

(* Nothing captured vanishes unaccounted or arrives twice, between the     *)
(* bridge, its spool and the route, between two threads of the packet      *)
(* capture, or on the way to the broker.                                   *)
NothingLostOnTheWay ==
    /\ focus = "shipper" => NothingLostUncounted
    /\ focus = "packets" => PacketsGoOnce
    /\ focus = "bus" => FailuresAreReported
    /\ focus = "topic" => ReadyTopicIsConfigured

(* What a bridge hands over is what the route takes, all of it at the end; *)
(* and at the end of the process nothing is left running or open.          *)
NothingLeftBehind ==
    /\ focus = "bridge" => FlowsKeepTheContract /\ NothingHeldAtTheEnd
    /\ focus = "life" => ShutdownIsOrderly

(* A read answers as the stored records do, and an empty answer is true.   *)
ReadsAnswerAsTheStore ==
    /\ focus = "flows" => RollupAnswersAsStore /\ EmptyMeansEmpty
    /\ focus = "logs" => TailAnswersAsStore /\ EmptyScreenSaysWhy

(* The folds keep what their policy promises, and the audit lets a release *)
(* through exactly when they do.                                           *)
SplitsAreAudited == focus = "splits" => FoldsDoNotLeak /\ AuditIsExact

(* A metric, a drift gauge and a bin count mean what they are called.      *)
MeasuresMeanWhatTheySay ==
    /\ focus = "evaluation" => MetricsMeanWhatTheySay
    /\ focus = "drift" => GaugesShowTheNewest
    /\ focus = "bins" => BinsHoldTheirValues

(* The model service knows which model answers and which has ever served.  *)
ServiceKnowsItsModels ==
    /\ focus = "registry" => RegistryIsAHistory
    /\ focus = "scoring" => AnswersByTheLoadedModel
=============================================================================
