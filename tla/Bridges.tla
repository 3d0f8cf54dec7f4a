-------------------------------- MODULE Bridges --------------------------------
(***************************************************************************)
(* The capture bridges (services/capture/bridges): what each parser makes  *)
(* of a sensor's line, the mapping of a flow to flow@1, the contracts the  *)
(* ingest routes validate against (schemas/ingest.py), the thread that     *)
(* reads the sensor's output into an unbounded queue, and the loop that    *)
(* gathers records and hands them to the shipper.  A record is the set of  *)
(* its fields with the few values the mapping looks at; the order of lines *)
(* is left out.                                                            *)
(***************************************************************************)
EXTENDS Naturals, FiniteSets

CONSTANTS
    Lines,       \* the lines the sensor writes
    Bridge,      \* "zeek", "suricata" or "tcpdump": which loop
    MaxQuiet     \* bound: flush intervals the clock counts

ASSUME BridgesAssumption == Bridge \in {"zeek", "suricata", "tcpdump"} /\ MaxQuiet \in Nat \ {0}

VARIABLES
    unread,      \* lines nobody has read from the sensor's output
    queued,      \* `lines`: what the reader thread has read (zeek, suricata)
    held,        \* flow_batch and log_batch
    given,       \* lines whose records went to send_batch
    quiet,       \* flush intervals since the last flush
    ended        \* the process is gone, with what it held

bridgesVars == <<unread, queued, held, given, quiet, ended>>
-----------------------------------------------------------------------------
(* The contracts; a field outside them is refused (extra="forbid").        *)
FlowRequired == {"timestamp", "src_ip", "dst_ip", "src_port", "dst_port", "protocol", "direction",
                 "packets", "src_packets", "dst_packets", "src_bytes", "dst_bytes", "duration"}
FlowV1Fields == FlowRequired \cup
    {"schema_version", "service", "state", "syn", "ack", "rst", "fin", "psh", "urg", "label"}
LogRequired == {"timestamp", "host", "service", "level", "message"}
LogFields == LogRequired \cup {"schema_version", "template_id", "parameters", "label"}

IsFlowV1(flow) == FlowRequired \subseteq flow.fields /\ flow.fields \subseteq FlowV1Fields
-----------------------------------------------------------------------------
(* The fields each parser fills.  `label` is None wherever it is set.      *)
Endpoints == {"src_ip", "dst_ip", "src_port", "dst_port", "protocol", "timestamp"}
Sizes == {"src_bytes", "dst_bytes", "packets", "duration"}

ZeekConn == Endpoints \cup Sizes \cup
    {"src_packets", "dst_packets", "syn", "ack", "rst", "fin", "service", "state"}
SuricataFlow == Endpoints \cup Sizes \cup {"src_packets", "dst_packets", "state"}
TcpdumpLine == Endpoints \cup Sizes
TcpdumpDns == TcpdumpLine
TsharkLine == Endpoints \cup Sizes \cup {"syn", "ack", "rst", "fin", "psh"}

(* The log parsers, each with the levels it gives.  Only TsharkDetail has  *)
(* the shape of log@1: the others name no service and have fields that the *)
(* contract does not, and the route refuses them.                          *)
Event(levels) == [fields |-> {"source", "level", "message", "host", "timestamp", "structured"},
                  levels |-> levels]
BySeverity == {"critical", "warning", "info"}
ZeekHttp == Event({"info"})
ZeekDns == Event({"info"})
ZeekSsl == Event({"info"})
ZeekNotice == Event(BySeverity)
SuricataAlert == Event(BySeverity)
SuricataDns == Event({"info"})
SuricataHttp == Event({"info"})
SuricataTls == Event({"info"})
TsharkDns == Event({"info"})
TsharkDetail == [fields |-> LogFields \ {"label"}, levels |-> {"info"}]

FlowParsers == [zeek_conn |-> ZeekConn, suricata_flow |-> SuricataFlow,
                tcpdump |-> TcpdumpLine, tcpdump_dns |-> TcpdumpDns, tshark |-> TsharkLine]
LogParsers == [zeek_http |-> ZeekHttp, zeek_dns |-> ZeekDns, zeek_ssl |-> ZeekSsl,
               zeek_notice |-> ZeekNotice, suricata_alert |-> SuricataAlert,
               suricata_dns |-> SuricataDns, suricata_http |-> SuricataHttp,
               suricata_tls |-> SuricataTls, tshark_dns |-> TsharkDns,
               tshark_detail |-> TsharkDetail]

ModalityOf(kind) == IF kind \in DOMAIN FlowParsers THEN "flows" ELSE "logs"
-----------------------------------------------------------------------------
(* The protocol a parser gives the record.  tcpdump's format has none that *)
(* the parser looks at: a query to port 53 is udp and all else is tcp.     *)
ParsedProtocol(line) ==
    CASE line.kind = "tcpdump" -> "tcp"
      [] line.kind = "tcpdump_dns" -> "udp"
      [] OTHER -> line.proto

(* to_flow_v1.  Protocols by name or by number, and only those of flow@1.  *)
ByNumber == {<<"6", "tcp">>, <<"17", "udp">>, <<"1", "icmp">>}

(* Variant: a protocol that is none of them is sent as tcp.                *)
ProtocolRewritten(proto) ==
    IF proto \in {"tcp", "udp", "icmp"} THEN {proto} ELSE {"tcp"}

ProtocolOf(proto) ==
    {p \in {"tcp", "udp", "icmp"} : proto = p \/ <<proto, p>> \in ByNumber}

Counts == {"src_port", "dst_port", "packets", "src_packets", "dst_packets",
           "src_bytes", "dst_bytes", "syn", "ack", "rst", "fin", "psh", "urg"}

(* An address is "inside", "outside" or "other" (not IPv4).                *)
Direction(src, dst) ==
    IF src = "inside" THEN IF dst = "inside" THEN "internal" ELSE "outbound" ELSE "inbound"

IsFlow(line) ==
    ProtocolOf(ParsedProtocol(line)) # {} /\ line.src # "other" /\ line.dst # "other"

ToFlow(line) ==
    [fields |-> (FlowParsers[line.kind] \cap FlowV1Fields) \cup Counts
                    \cup {"schema_version", "protocol", "direction", "duration"},
     protocol |-> CHOOSE p \in ProtocolOf(ParsedProtocol(line)) : TRUE,
     direction |-> Direction(line.src, line.dst)]

(* send_batch: what the shipper is given for a line, if anything is.       *)
Sent(line) ==
    IF ModalityOf(line.kind) = "logs" THEN {LogParsers[line.kind]}
    ELSE IF IsFlow(line) THEN {ToFlow(line)} ELSE {}
-----------------------------------------------------------------------------
BridgesTypeOK ==
    /\ unread \subseteq Lines /\ queued \subseteq Lines
    /\ held \subseteq Lines /\ given \subseteq Lines
    /\ quiet \in 0..MaxQuiet /\ ended \in BOOLEAN

BridgesInit ==
    /\ unread = Lines /\ queued = {} /\ held = {} /\ given = {}
    /\ quiet = 0 /\ ended = FALSE

(* iter_lines' pump; tcpdump_bridge reads its input itself.                *)
HasReader == Bridge # "tcpdump"

Pump(line) ==
    /\ ~ended /\ HasReader /\ line \in unread
    /\ unread' = unread \ {line} /\ queued' = queued \cup {line}
    /\ UNCHANGED <<held, given, quiet, ended>>

(* The clock since the last flush.                                         *)
IntervalPasses ==
    /\ ~ended /\ quiet < MaxQuiet /\ quiet' = quiet + 1
    /\ UNCHANGED <<unread, queued, held, given, ended>>

DueNow == quiet >= 1

(* One line: zeek_bridge and suricata_bridge send what is held, if the     *)
(* interval is over, before they parse the line; tcpdump_bridge after.     *)
ReadLine(line) ==
    /\ ~ended
    /\ IF HasReader THEN line \in queued /\ queued' = queued \ {line} /\ UNCHANGED unread
                    ELSE line \in unread /\ unread' = unread \ {line} /\ UNCHANGED queued
    /\ LET first == IF Bridge = "tcpdump" THEN held \cup {line} ELSE held IN
       IF DueNow THEN given' = given \cup first /\ held' = (held \cup {line}) \ first /\ quiet' = 0
              ELSE held' = held \cup {line} /\ UNCHANGED <<given, quiet>>
    /\ UNCHANGED ended

(* Variant: an interval of silence only starts the next one.               *)
SilenceUnsent ==
    /\ ~ended /\ HasReader /\ queued = {} /\ DueNow
    /\ quiet' = 0
    /\ UNCHANGED <<unread, queued, held, given, ended>>

(* iter_lines yields None after an interval in which the queue stayed      *)
(* empty; tcpdump_bridge waits for its next line.                          *)
Silence ==
    /\ ~ended /\ HasReader /\ queued = {} /\ DueNow
    /\ given' = given \cup held /\ held' = {} /\ quiet' = 0
    /\ UNCHANGED <<unread, queued, ended>>

(* Variant: the signal is not trapped.                                     *)
UnwindsNowhere == FALSE

(* SIGTERM raises SystemExit where the bridge installed a handler for it,  *)
(* and the finally clause sends what is held.  A line that the signal      *)
(* interrupts the parsing of counts as still queued.                       *)
Unwinds == Bridge # "tcpdump"

(* The reader is a daemon thread: what it has queued dies with it.         *)
Terminate ==
    /\ ~ended /\ ended' = TRUE
    /\ IF Unwinds THEN given' = given \cup held /\ held' = {} ELSE UNCHANGED <<given, held>>
    /\ UNCHANGED <<unread, queued, quiet>>

(* The sensor is gone: the loop comes to the end marker behind the last    *)
(* queued line, and every bridge sends what it has.                        *)
EndOfInput ==
    /\ ~ended /\ queued = {} /\ ended' = TRUE
    /\ given' = given \cup held /\ held' = {}
    /\ UNCHANGED <<unread, queued, quiet>>

BridgesNext ==
    \/ IntervalPasses \/ Silence \/ Terminate \/ EndOfInput
    \/ \E line \in Lines : Pump(line) \/ ReadLine(line)

(* The clock runs, and the loop takes what the reader has queued.          *)
TakesQueued == \E line \in queued : ReadLine(line)

BridgesFair ==
    /\ WF_bridgesVars(IntervalPasses) /\ WF_bridgesVars(Silence)
    /\ WF_bridgesVars(TakesQueued)

BridgesSpec == BridgesInit /\ [][BridgesNext]_bridgesVars /\ BridgesFair
-----------------------------------------------------------------------------
(* A flow reaches the route as flow@1 whatever parser it came from, with   *)
(* the direction its addresses say and the protocol the sensor observed;   *)
(* one that cannot be is not sent (to_flow_v1: "dropped, not rewritten: a  *)
(* rewritten value would be a claim the sensor did not observe").  It does *)
(* not hold of the protocol of tcpdump's lines, which the parser makes up  *)
(* before to_flow_v1 sees the record: an ICMP packet is sent as tcp.       *)
FlowsKeepTheContract ==
    \A line \in {l \in held \cup given : ModalityOf(l.kind) = "flows"} : \A flow \in Sent(line) :
        /\ IsFlowV1(flow)
        /\ \/ line.kind \in {"tcpdump", "tcpdump_dns"}
           \/ line.proto = flow.protocol
           \/ <<line.proto, flow.protocol>> \in ByNumber
        /\ (flow.direction = "internal") = (line.src = "inside" /\ line.dst = "inside")
        /\ flow.direction = "inbound" => line.src # "inside"

(* Of a bridge that traps the signal every line is accounted for at its    *)
(* end: nobody read it, it was still in the reader's queue (and is lost),  *)
(* or it was handed over ("Let the entrypoint's SIGTERM unwind through     *)
(* finally so batches flush").                                             *)
NothingHeldAtTheEnd == ended => Lines \ (unread \cup queued) \subseteq given

(* FLUSH_INTERVAL: "the longest a captured record waits before it is       *)
(* sent": what was read is handed over in the end, whether or not another  *)
(* line follows it.                                                        *)
HeldIsSent == (queued \cup held # {}) ~> (queued \cup held = {} \/ ended)
=============================================================================
