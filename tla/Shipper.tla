------------------------------- MODULE Shipper -------------------------------
(***************************************************************************)
(* The capture bridges' delivery (bridges/shipper.py) into the ingest      *)
(* route: batches sent with retries, kept in a spool file while the        *)
(* backend is away, drained before what is new.  Each bridge is a process  *)
(* with a shipper of its own; all of them are given one spool directory    *)
(* (docker-compose.yml), so the bridges that send one modality use one     *)
(* file.  A send is sequential; the steps below are its file operations    *)
(* and its requests.                                                       *)
(***************************************************************************)
EXTENDS Ingest, SequencesExt

CONSTANTS
    Bridges,    \* the processes that send this modality
    Foreign,    \* the records of another client of the route
    Attempts,   \* Shipper._attempts
    SpoolMax,   \* Spool._max_bytes, in records
    MaxKills    \* bound: ends of the capture container

ASSUME ShipperAssumption ==
    /\ Bridges # {} /\ Foreign \subseteq Records /\ Attempts \in Nat \ {0} /\ SpoolMax \in Nat /\ MaxKills \in Nat

VARIABLES
    bridge,   \* where each bridge is in its send
    spool,    \* the modality's file, oldest first
    handed,   \* records given to a shipper
    counted,  \* records a shipper counted as dropped or rejected
    killed,   \* records a bridge held when it ended
    kills

shipVars == <<bridge, spool, handed, counted, killed, kills>>
shipperVars == <<ingestVars, shipVars>>

Tokens == {"none", "good", "stale"}
Modes == {"drain", "send"}
Idle == [pc |-> "idle", pending |-> <<>>, batch |-> <<>>, mode |-> "send",
         left |-> 0, refreshed |-> FALSE, read |-> <<>>, slot |-> "none", token |-> "good"]

ShipperTypeOK ==
    /\ IngestTypeOK
    /\ bridge \in [Bridges -> [
           pc : {"idle", "take", "replace", "post", "wait", "return", "rewrite", "stat", "append"},
           pending : Seq(Records), batch : Seq(Records), mode : Modes, left : 0..Attempts,
           refreshed : BOOLEAN, read : Seq(Records), slot : Slots \cup {"none"}, token : Tokens]]
    /\ spool \in Seq(Records)
    /\ handed \subseteq Records /\ counted \subseteq Records /\ killed \subseteq Records
    /\ kills \in 0..MaxKills

ShipperInit ==
    /\ IngestInit
    /\ bridge = [b \in Bridges |-> Idle]
    /\ spool = <<>>
    /\ handed = {} /\ counted = {} /\ killed = {} /\ kills = 0
-----------------------------------------------------------------------------
InHand(b) == ToSet(bridge[b].pending) \cup ToSet(bridge[b].batch)

Goes(b, pc) == bridge' = [bridge EXCEPT ![b].pc = pc]

(* _send_once begins on a batch. *)
Sending(now, mode, batch) ==
    [now EXCEPT !.pc = "post", !.mode = mode, !.batch = batch, !.left = Attempts,
                !.refreshed = FALSE, !.read = <<>>]

(* send() is over; the bridge keeps its token. *)
RunFinished(now) == [Idle EXCEPT !.token = now.token]

(* The batch needs nothing more: the drain goes on, or the send returns.   *)
Settled(now) == IF now.mode = "drain" THEN [now EXCEPT !.pc = "take", !.batch = <<>>]
                                      ELSE RunFinished(now)

(* _send_once raised: back to the front of the spool, or to its end.       *)
GivenUp(now) == [now EXCEPT !.pc = IF now.mode = "drain" THEN "return" ELSE "stat"]

(* A failure worth retrying: the last attempt raises it. *)
Retried(now) == IF now.left = 1 THEN GivenUp(now)
                ELSE [now EXCEPT !.pc = "post", !.left = @ - 1, !.slot = "none"]

Becomes(b, now) == bridge' = [bridge EXCEPT ![b] = now]
-----------------------------------------------------------------------------
Submit(b) ==
    /\ bridge[b].pc = "idle"
    /\ \E record \in Records \ (handed \cup Foreign) :
          /\ handed' = handed \cup {record}
          /\ Becomes(b, [bridge[b] EXCEPT !.pc = "take", !.pending = <<record>>])
    /\ UNCHANGED <<ingestVars, spool, counted, killed, kills>>

(* Spool.pending and the read of Spool.take. *)
TakeRead(b) ==
    /\ bridge[b].pc = "take"
    /\ Becomes(b, IF spool = <<>> THEN Sending(bridge[b], "send", bridge[b].pending)
                  ELSE [bridge[b] EXCEPT !.pc = "replace", !.read = spool])
    /\ UNCHANGED <<ingestVars, spool, handed, counted, killed, kills>>

TakeReplace(b) ==
    /\ bridge[b].pc = "replace"
    /\ spool' = Tail(bridge[b].read)
    /\ Becomes(b, Sending(bridge[b], "drain", <<Head(bridge[b].read)>>))
    /\ UNCHANGED <<ingestVars, handed, counted, killed, kills>>

(* No usable token: sign in again.  Each sign-in uses up an attempt.       *)
Reauthenticate(b) ==
    /\ bridge[b].pc = "post" /\ bridge[b].token # "good"
    /\ LET now == bridge[b] IN
       \/ Becomes(b, GivenUp([now EXCEPT !.token = "none"]))
       \/ /\ ~(now.token = "stale" /\ now.refreshed)
          /\ Becomes(b, Retried([now EXCEPT !.token = "good",
                                            !.refreshed = now.refreshed \/ now.token = "stale"]))
    /\ UNCHANGED <<ingestVars, spool, handed, counted, killed, kills>>

Post(b, s) ==
    /\ bridge[b].pc = "post" /\ bridge[b].token = "good"
    /\ Receive(s, ToSet(bridge[b].batch))
    /\ bridge' = [bridge EXCEPT ![b].pc = "wait", ![b].slot = s]
    /\ UNCHANGED <<spool, handed, counted, killed, kills>>

(* The backend cannot be reached, or limits the rate (429). *)
Unreachable(b) ==
    /\ bridge[b].pc = "post" /\ bridge[b].token = "good"
    /\ Becomes(b, Retried(bridge[b]))
    /\ UNCHANGED <<ingestVars, spool, handed, counted, killed, kills>>

AnswerBatch(b) ==
    /\ bridge[b].pc = "wait"
    /\ LET now == [bridge[b] EXCEPT !.slot = "none"]
           served == request[bridge[b].slot] IN
       /\ served.pc = "answered"
       /\ request' = [request EXCEPT ![bridge[b].slot] = Free]
       /\ \/ /\ served.status = 200
             /\ Becomes(b, Settled(now))
             /\ UNCHANGED counted
          \/ /\ served.status = 413
             /\ counted' = counted \cup ToSet(now.batch)
             /\ Becomes(b, Settled(now))
          \/ /\ served.status \in {0, 500, 503}
             /\ Becomes(b, Retried(now))
             /\ UNCHANGED counted
    /\ UNCHANGED <<wiring, inFlight, shown, outages, spool, handed, killed, kills>>

(* The ten seconds of the request pass; the backend goes on serving it.    *)
Timeout(b) ==
    /\ bridge[b].pc = "wait"
    /\ Becomes(b, Retried([bridge[b] EXCEPT !.slot = "none"]))
    /\ UNCHANGED <<ingestVars, spool, handed, counted, killed, kills>>

(* Another client posts what it likes, and may leave before the answer.    *)
OtherPosts(s, batch) == Receive(s, batch) /\ UNCHANGED shipVars

Unread(s) ==
    /\ request[s].pc = "answered" /\ \A b \in Bridges : bridge[b].slot # s
    /\ request' = [request EXCEPT ![s] = Free]
    /\ UNCHANGED <<wiring, inFlight, shown, outages, shipVars>>

(* Spool.prepend: the drain ends and what is new is sent all the same.     *)
ReturnRead(b) ==
    /\ bridge[b].pc = "return"
    /\ Becomes(b, [bridge[b] EXCEPT !.pc = "rewrite", !.read = spool, !.slot = "none"])
    /\ UNCHANGED <<ingestVars, spool, handed, counted, killed, kills>>

(* Variant: the batch is not put back.                                     *)
RewrittenWithout(now) == now.read

Rewritten(now) == now.batch \o now.read

ReturnReplace(b) ==
    /\ bridge[b].pc = "rewrite"
    /\ spool' = Rewritten(bridge[b])
    /\ Becomes(b, Sending(bridge[b], "send", bridge[b].pending))
    /\ UNCHANGED <<ingestVars, handed, counted, killed, kills>>

(* Spool.append: the size is read first, the lines are written after. *)
AppendStat(b) ==
    /\ bridge[b].pc = "stat"
    /\ Becomes(b, [bridge[b] EXCEPT !.pc = "append", !.read = spool, !.slot = "none"])
    /\ UNCHANGED <<ingestVars, spool, handed, counted, killed, kills>>

AppendWrite(b) ==
    /\ bridge[b].pc = "append"
    /\ LET now == bridge[b]
           room == IF Len(now.read) >= SpoolMax THEN 0 ELSE SpoolMax - Len(now.read)
           stored == SubSeq(now.batch, 1, Min({room, Len(now.batch)})) IN
       /\ spool' = spool \o stored
       /\ counted' = counted \cup (ToSet(now.batch) \ ToSet(stored))
       /\ Becomes(b, RunFinished(now))
    /\ UNCHANGED <<ingestVars, handed, killed, kills>>

Expire(b) ==
    /\ bridge[b].token = "good" /\ bridge[b].pc = "post"
    /\ bridge' = [bridge EXCEPT ![b].token = "stale"]
    /\ UNCHANGED <<ingestVars, spool, handed, counted, killed, kills>>

(* The container ends: every bridge with it, whatever each one holds.      *)
Kill ==
    /\ kills < MaxKills
    /\ kills' = kills + 1
    /\ killed' = killed \cup UNION {InHand(b) : b \in Bridges}
    /\ bridge' = [b \in Bridges |-> Idle]
    /\ UNCHANGED <<ingestVars, spool, handed, counted>>

ShipperNext ==
    \/ \E b \in Bridges :
          \/ Submit(b) \/ TakeRead(b) \/ TakeReplace(b) \/ Reauthenticate(b) \/ Unreachable(b)
          \/ AnswerBatch(b) \/ Timeout(b) \/ ReturnRead(b) \/ ReturnReplace(b)
          \/ AppendStat(b) \/ AppendWrite(b) \/ Expire(b)
          \/ \E s \in Slots : Post(b, s)
    \/ \E s \in Slots : Unread(s) \/ \E batch \in (SUBSET Foreign) \ {{}} : OtherPosts(s, batch)
    \/ Kill
    \/ Serve /\ UNCHANGED shipVars

ShipperSpec == ShipperInit /\ [][ShipperNext]_shipperVars
-----------------------------------------------------------------------------
(* A record handed to a shipper is where a reader finds it, on the spool,  *)
(* in the hands of a running bridge, or counted; or the route's answer     *)
(* named it as malformed, or its bridge was killed holding it.  Timeouts,  *)
(* lost answers, expired tokens, restarts of the backend and a full spool  *)
(* lose nothing else.                                                      *)
NothingLostUncounted ==
    handed \subseteq shown \cup ToSet(spool) \cup (UNION {InHand(b) : b \in Bridges})
                     \cup counted \cup killed \cup (Records \ WellFormed)
=============================================================================
