------------------------------- MODULE FlowBus -------------------------------
(***************************************************************************)
(* The producer's side of the broker (messaging/kafka_bus.py) under        *)
(* FlowPublisher.publish (services/kafka_pipeline.py), which the ingest    *)
(* routes run in pool threads: a request queues its records one by one and *)
(* then waits in flush() for what it finds in `_pending`, which all        *)
(* requests share.  And the thread that creates the flow topic at start.   *)
(* A record is its position in the order of sending.                       *)
(***************************************************************************)
EXTENDS Naturals, Sequences, FiniteSets

CONSTANTS
    Publishers,      \* threads in publish()
    BatchSizes,      \* records of a request
    MaxSent,         \* bound: records sent
    TopicAttempts    \* ensure_topic(attempts=...)

ASSUME FlowBusAssumption ==
    BatchSizes \subseteq Nat \ {0} /\ MaxSent \in Nat /\ TopicAttempts \in Nat \ {0}

VARIABLES
    future,          \* the future of each record sent
    pendingFutures,  \* _pending
    publishing,      \* what each thread is publishing
    reports,         \* history: how each publish ended
    ownsRetention,   \* retention_ms is set
    flowTopic,       \* the broker's topic: missing, or whose retention.ms it has
    setup            \* the topic-setup thread

busVars == <<future, pendingFutures, publishing, reports, ownsRetention, flowTopic, setup>>

NotPublishing == [pc |-> "none"]
Produced == DOMAIN future

FlowBusTypeOK ==
    /\ future \in Seq({"queued", "acked", "failed"})
    /\ pendingFutures \subseteq Produced
    /\ publishing \in [Publishers -> {NotPublishing} \cup
           [pc : {"send", "wait"}, left : Nat, batch : SUBSET Produced, taken : SUBSET Produced, alone : BOOLEAN]]
    /\ reports \subseteq [batch : SUBSET Produced, taken : SUBSET Produced, alone : BOOLEAN, accepted : BOOLEAN]
    /\ ownsRetention \in BOOLEAN
    /\ flowTopic \in {"missing", "own", "other"}
    /\ setup \in [pc : {"trying", "ready", "gave_up"}, attempt : 1..TopicAttempts]

FlowBusInit ==
    /\ future = <<>> /\ pendingFutures = {}
    /\ publishing = [t \in Publishers |-> NotPublishing]
    /\ reports = {}
    /\ ownsRetention \in BOOLEAN
    /\ flowTopic \in {"missing", "other"}
    /\ setup = [pc |-> "trying", attempt |-> 1]
-----------------------------------------------------------------------------
Overlapped(t) == {u \in Publishers \ {t} : publishing[u] # NotPublishing}

StartPublish(t, n) ==
    /\ publishing[t] = NotPublishing
    /\ Len(future) + n <= MaxSent
    /\ publishing' = [u \in Publishers |->
           IF u = t THEN [pc |-> "send", left |-> n, batch |-> {}, taken |-> {},
                          alone |-> Overlapped(t) = {} /\ pendingFutures = {}]
           ELSE IF publishing[u] = NotPublishing THEN NotPublishing
           ELSE [publishing[u] EXCEPT !.alone = FALSE]]
    /\ UNCHANGED <<future, pendingFutures, reports>>

Send(t) ==
    /\ publishing[t].pc = "send" /\ publishing[t].left > 0
    /\ Len(future) < MaxSent
    /\ LET r == Len(future) + 1 IN
       /\ future' = Append(future, "queued")
       /\ pendingFutures' = pendingFutures \cup {r}
       /\ publishing' = [publishing EXCEPT ![t].left = @ - 1, ![t].batch = @ \cup {r}]
    /\ UNCHANGED reports

Report(t, accepted) ==
    /\ reports' = reports \cup {[batch |-> publishing[t].batch, taken |-> publishing[t].taken,
                                 alone |-> publishing[t].alone, accepted |-> accepted]}
    /\ publishing' = [publishing EXCEPT ![t] = NotPublishing]

(* The client refuses a record: the request fails, and the futures of the  *)
(* records before it stay in `_pending`.                                   *)
SendRaises(t) ==
    /\ publishing[t].pc = "send" /\ publishing[t].left > 0
    /\ Report(t, FALSE)
    /\ UNCHANGED <<future, pendingFutures>>

(* flush(): whoever comes first takes everybody's futures.                 *)
TakePending(t) ==
    /\ publishing[t].pc = "send" /\ publishing[t].left = 0
    /\ IF pendingFutures = {}
       THEN Report(t, TRUE)
       ELSE /\ publishing' = [publishing EXCEPT ![t].pc = "wait", ![t].taken = pendingFutures]
            /\ UNCHANGED reports
    /\ pendingFutures' = {}
    /\ UNCHANGED future

(* Variant: the last future alone is asked for.                            *)
FlushReturnsLastOnly(t) ==
    /\ publishing[t].pc = "wait"
    /\ LET last == CHOOSE r \in publishing[t].taken : \A q \in publishing[t].taken : q <= r IN
       /\ future[last] # "queued"
       /\ Report(t, future[last] = "acked")
    /\ UNCHANGED <<future, pendingFutures>>

(* Variant: the list is emptied after the wait as well.                    *)
FlushReturnsEmptying(t) ==
    /\ publishing[t].pc = "wait"
    /\ \A r \in publishing[t].taken : future[r] # "queued"
    /\ Report(t, \A r \in publishing[t].taken : future[r] = "acked")
    /\ pendingFutures' = {}
    /\ UNCHANGED future

FlushReturns(t) ==
    /\ publishing[t].pc = "wait"
    /\ \A r \in publishing[t].taken : future[r] # "queued"
    /\ Report(t, \A r \in publishing[t].taken : future[r] = "acked")
    /\ UNCHANGED <<future, pendingFutures>>

(* The client's own flush waits for every record of the process.           *)
FlushTimesOut(t) ==
    /\ publishing[t].pc = "wait"
    /\ \E r \in Produced : future[r] = "queued"
    /\ Report(t, FALSE)
    /\ UNCHANGED <<future, pendingFutures>>

Resolve(r) ==
    /\ future[r] = "queued"
    /\ \E outcome \in {"acked", "failed"} : future' = [future EXCEPT ![r] = outcome]
    /\ UNCHANGED <<pendingFutures, publishing, reports>>
-----------------------------------------------------------------------------
NextAttempt ==
    setup' = IF setup.attempt < TopicAttempts THEN [setup EXCEPT !.attempt = @ + 1]
                                              ELSE [setup EXCEPT !.pc = "gave_up"]

Created == IF flowTopic # "missing" THEN flowTopic ELSE IF ownsRetention THEN "own" ELSE "other"

(* Variant: the retention given to create_topics is all that is asked.     *)
EnsureTopicCreateOnly ==
    /\ setup.pc = "trying"
    /\ flowTopic' = Created
    /\ setup' = [setup EXCEPT !.pc = "ready"]

(* One attempt that succeeds: create_topics leaves an existing topic alone,*)
(* and its retention is asserted afterwards.                               *)
EnsureTopic ==
    /\ setup.pc = "trying"
    /\ flowTopic' = IF ownsRetention THEN "own" ELSE Created
    /\ setup' = [setup EXCEPT !.pc = "ready"]

(* The broker is away, refuses the topic, or, the topic created, refuses   *)
(* its configuration.                                                      *)
EnsureTopicFails ==
    /\ setup.pc = "trying"
    /\ flowTopic' \in {flowTopic, Created}
    /\ NextAttempt

PublishNext ==
    /\ \/ \E t \in Publishers :
              \/ \E n \in BatchSizes : StartPublish(t, n)
              \/ Send(t) \/ SendRaises(t) \/ TakePending(t) \/ FlushReturns(t) \/ FlushTimesOut(t)
       \/ \E r \in Produced : Resolve(r)
    /\ UNCHANGED <<ownsRetention, flowTopic, setup>>

TopicNext ==
    /\ EnsureTopic \/ EnsureTopicFails
    /\ UNCHANGED <<future, pendingFutures, publishing, reports, ownsRetention>>

FlowBusNext == PublishNext \/ TopicNext

FlowBusSpec == FlowBusInit /\ [][FlowBusNext]_busVars
-----------------------------------------------------------------------------
(* "A record is only counted as taken in once the broker has it"           *)
(* (kafka_bus.py:15-16; "raise unless the broker acknowledged every one",  *)
(* kafka_pipeline.py:68).                                                  *)
AcceptedIsAcknowledged ==
    \A p \in reports : p.accepted => \A r \in p.batch : future[r] = "acked"

(* What holds of it: a publish that overlapped no other and found nothing  *)
(* pending is accepted with every record acknowledged, and no failure goes *)
(* unheard - it is still pending, or waited for, or some request was       *)
(* refused over it, though perhaps not the one that sent the record        *)
(* (kafka_bus.py, flush).                                                  *)
FailuresAreReported ==
    /\ \A p \in reports : p.accepted /\ p.alone => \A r \in p.batch : future[r] = "acked"
    /\ \A r \in Produced : future[r] = "failed" =>
           \/ r \in pendingFutures
           \/ \E t \in Publishers : publishing[t] # NotPublishing /\ r \in publishing[t].batch \cup publishing[t].taken
           \/ \E p \in reports : ~p.accepted /\ r \in p.batch \cup p.taken

(* A topic reported ready has the retention this deployment asks for, also *)
(* when it was created before under another (kafka_bus.py, ensure_topic).  *)
ReadyTopicIsConfigured == setup.pc = "ready" /\ ownsRetention => flowTopic = "own"
=============================================================================
