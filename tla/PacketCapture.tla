------------------------------ MODULE PacketCapture ------------------------------
(***************************************************************************)
(* The host capture (backend/app/services/capture/capture_service.py): the *)
(* main thread sniffs packets into a bounded table of flows, a daemon      *)
(* thread flushes the table at every interval and posts it, and the main   *)
(* thread posts what is left once the sniffing ends.  Packets are numbered *)
(* so that one can be followed; a flow is the packets of one 5-tuple.      *)
(***************************************************************************)
EXTENDS Naturals, FiniteSetsExt

CONSTANTS
    Tuples,         \* the 5-tuples of packets on the wire: [proto, ipv4, name]
    MaxFlows,       \* the table's size
    MaxPackets,     \* bound: packets captured
    MaxRefusals     \* bound: posts and logins that fail

ASSUME PacketCaptureAssumption == {MaxFlows, MaxPackets} \subseteq Nat \ {0} /\ MaxRefusals \in Nat

VARIABLES
    captured,   \* packets captured so far: the last one's number
    flowTable,  \* 5-tuple -> the numbers of its packets
    capturing,  \* _running
    poster,     \* thread -> [at, batch]: what it has flushed and not yet posted
    token,      \* the access token is held
    received,   \* 5-tuple and packets of every flow the ingest endpoint took
    givenUp,    \* numbers of packets evicted, refused or lost with the process
    refusals    \* posts and logins that failed

packetVars == <<captured, flowTable, capturing, poster, token, received, givenUp, refusals>>

Posters == {"sender", "main"}
NoBatch == [t \in Tuples |-> {}]
PacketsIn(flows) == UNION {flows[t] : t \in Tuples}
HeldFlows(flows) == {t \in Tuples : flows[t] # {}}

PacketCaptureTypeOK ==
    /\ captured \in 0..MaxPackets /\ flowTable \in [Tuples -> SUBSET (1..MaxPackets)]
    /\ Cardinality(HeldFlows(flowTable)) <= MaxFlows
    /\ \A p \in Posters : poster[p].at \in {"waiting", "ending", "flushed", "authorised", "over"}
    /\ capturing \in BOOLEAN /\ token \in BOOLEAN /\ givenUp \subseteq 1..MaxPackets

(* run, once the first login has succeeded.                                *)
PacketCaptureInit ==
    /\ captured = 0 /\ flowTable = NoBatch /\ capturing = TRUE /\ token = TRUE
    /\ poster = [p \in Posters |-> [at |-> "waiting", batch |-> NoBatch]]
    /\ received = {} /\ givenUp = {} /\ refusals = 0
-----------------------------------------------------------------------------
(* The flow that was seen the longest time ago makes room for a new one.   *)
OldestFlows == {t \in HeldFlows(flowTable) :
                   \A u \in HeldFlows(flowTable) : Max(flowTable[t]) <= Max(flowTable[u])}

(* _process_packet and add_packet; sniff looks at _running after it.       *)
ProcessPacket(t) ==
    /\ poster["main"].at = "waiting" /\ captured < MaxPackets
    /\ captured' = captured + 1
    /\ LET full == flowTable[t] = {} /\ Cardinality(HeldFlows(flowTable)) >= MaxFlows IN
       \E evicted \in IF full THEN {{old} : old \in OldestFlows} ELSE {{}} :
          /\ flowTable' = [u \in Tuples |-> (IF u \in evicted THEN {} ELSE flowTable[u])
                                          \cup (IF u = t THEN {captured + 1} ELSE {})]
          /\ givenUp' = givenUp \cup UNION {flowTable[old] : old \in evicted}
    /\ poster' = [poster EXCEPT !["main"].at = IF capturing THEN "waiting" ELSE "ending"]
    /\ UNCHANGED <<capturing, token, received, refusals>>

(* Variant: the flows stay in the table.                                   *)
FlushCopies == flowTable' = flowTable

Flush == flowTable' = NoBatch

(* _send_loop after its sleep: an empty table posts nothing; the thread    *)
(* looks at _running only here.                                            *)
SenderFlushes ==
    /\ poster["sender"].at = "waiting" /\ poster["main"].at # "over"
    /\ poster' = [poster EXCEPT !["sender"] =
           IF HeldFlows(flowTable) # {} THEN [at |-> "flushed", batch |-> flowTable]
           ELSE [@ EXCEPT !.at = IF capturing THEN "waiting" ELSE "over"]]
    /\ Flush
    /\ UNCHANGED <<captured, capturing, token, received, givenUp, refusals>>

(* _shutdown, on SIGINT and SIGTERM.                                       *)
Shutdown ==
    /\ capturing /\ capturing' = FALSE
    /\ UNCHANGED <<captured, flowTable, poster, token, received, givenUp, refusals>>

(* The thread is done with its batch; the process ends with the main one   *)
(* and takes the daemon sender and its batch with it.                      *)
PostFinished(p, lost) ==
    LET sender == [at |-> IF capturing THEN "waiting" ELSE "over", batch |-> NoBatch] IN
    IF p = "sender"
    THEN poster' = [poster EXCEPT !["sender"] = sender] /\ givenUp' = givenUp \cup lost
    ELSE /\ poster' = [q \in Posters |-> [at |-> "over", batch |-> NoBatch]]
         /\ givenUp' = givenUp \cup lost \cup PacketsIn(poster["sender"].batch)

(* run, when sniff has returned.                                           *)
FinalFlush ==
    /\ poster["main"].at = "ending"
    /\ IF HeldFlows(flowTable) # {}
       THEN poster' = [poster EXCEPT !["main"] = [at |-> "flushed", batch |-> flowTable]]
            /\ UNCHANGED givenUp
       ELSE PostFinished("main", {})
    /\ Flush
    /\ UNCHANGED <<captured, capturing, token, received, refusals>>

(* _auth: a held token is used as it is, whether or not it is still good.  *)
Authenticate(p) ==
    /\ poster[p].at = "flushed"
    /\ \/ /\ token' = TRUE
          /\ poster' = [poster EXCEPT ![p].at = "authorised"]
          /\ UNCHANGED <<givenUp, refusals>>
       \/ /\ ~token /\ refusals < MaxRefusals /\ refusals' = refusals + 1
          /\ PostFinished(p, PacketsIn(poster[p].batch)) /\ UNCHANGED token
    /\ UNCHANGED <<captured, flowTable, capturing, received>>

(* to_flow_v1: flow@1 has no protocol but these and no IPv6.               *)
HasContract(t) == t.proto \in {"tcp", "udp"} /\ t.ipv4

(* _send_flows: flows without a contract are left out; whatever goes wrong *)
(* the batch is not kept; a 401 drops the token; an answer may be lost     *)
(* after the endpoint took the batch.                                      *)
PostFlows(p) ==
    LET batch == poster[p].batch
        sent == {t \in HeldFlows(batch) : HasContract(t)}
        flows == {[tuple |-> t, packets |-> batch[t]] : t \in sent}
        left == PacketsIn(batch) \ PacketsIn([t \in Tuples |-> IF t \in sent THEN batch[t] ELSE {}]) IN
    /\ poster[p].at = "authorised"
    /\ \/ received' = received \cup flows /\ PostFinished(p, left) /\ UNCHANGED <<token, refusals>>
       \/ /\ sent # {} /\ refusals < MaxRefusals /\ refusals' = refusals + 1
          /\ \/ received' = received \cup flows /\ PostFinished(p, left) /\ UNCHANGED token
             \/ received' = received /\ PostFinished(p, PacketsIn(batch)) /\ token' \in {token, FALSE}
    /\ UNCHANGED <<captured, flowTable, capturing>>

PacketCaptureNext ==
    \/ \E t \in Tuples : ProcessPacket(t)
    \/ SenderFlushes \/ Shutdown \/ FinalFlush
    \/ \E p \in Posters : Authenticate(p) \/ PostFlows(p)

PacketCaptureSpec == PacketCaptureInit /\ [][PacketCaptureNext]_packetVars
-----------------------------------------------------------------------------
(* Two threads flush one table while the third adds to it: every captured  *)
(* packet is in the table, in one thread's batch, in a flow the endpoint   *)
(* took, or given up - by eviction, a protocol flow@1 has no name for, a   *)
(* failed post, the end of the process - and in one of them only.          *)
PacketsGoOnce ==
    LET taken == UNION {f.packets : f \in received}
        Places == <<PacketsIn(flowTable), PacketsIn(poster["sender"].batch),
                    PacketsIn(poster["main"].batch), givenUp, taken>> IN
    /\ UNION {Places[i] : i \in 1..5} = 1..captured
    /\ \A i, j \in 1..5 : i # j => Places[i] \cap Places[j] = {}
    /\ \A f, g \in received : f # g => f.packets \cap g.packets = {}
=============================================================================
