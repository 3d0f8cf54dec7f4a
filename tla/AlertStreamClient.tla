-------------------------- MODULE AlertStreamClient --------------------------
(***************************************************************************)
(* The dashboard's end of the alert stream: AlertStreamClient              *)
(* (dashboard/src/api/realtime.ts), with useAlertSync, which re-reads the  *)
(* alerts API whenever the stream gives it a reason, against a server that *)
(* is the AlertHub of one process lifetime at a time.                      *)
(*                                                                         *)
(* The hub appears through the alerts it has published in this epoch: with *)
(* one publishing thread its buffer and its catch-up are functions of that *)
(* number.  Between server and browser each socket is a FIFO of frames     *)
(* that may break off, be closed, or go silent.                            *)
(***************************************************************************)
EXTENDS Naturals, Sequences, FiniteSets, SequencesExt, FiniteSetsExt

CONSTANTS
    Sockets,         \* WebSocket objects, reused once closed
    BufferSize,      \* the hub's catch-up window
    NoCursor,        \* cursor === null
    Reachable,       \* can a WebSocket be opened at all?
    SilentHandshake, \* may a peer vanish between the upgrade and "ready"?
    MaxAlerts,       \* bound: alerts published, over all epochs
    MaxFaults,       \* bound: breaks, drops, refusals, failed polls, restarts
    MaxUserActs      \* bound: token changes, hidings of the tab, departures

NoSocket == 0

ASSUME ClientAssumption ==
    /\ Sockets # {} /\ NoSocket \notin Sockets
    /\ BufferSize \in Nat \ {0} /\ NoCursor \notin Nat
    /\ Reachable \in BOOLEAN /\ SilentHandshake \in BOOLEAN
    /\ MaxAlerts \in Nat \ {0} /\ MaxFaults \in Nat /\ MaxUserActs \in Nat

VARIABLES
    published,  \* alerts published in the server's current epoch
    total,      \* alerts ever published
    socks,      \* every WebSocket: browser state, subscription and wire
    running,    \* this.running
    state,      \* this.state
    cursor,     \* this.cursor
    socket,     \* this.socket, NoSocket for null
    silence,    \* is the silence watchdog armed?
    reconnect,  \* is the reconnect timer armed?
    polling,    \* this.polling
    paused,     \* this.paused: the tab is hidden
    pollTimers, \* poll timeouts that will fire
    pollHandle, \* does this.pollTimer still name one of them?
    polls,      \* cursors of the polls in flight
    dirty,      \* useAlertSync owes a re-read
    shown,      \* alerts that existed at the last re-read
    faults, acts

server == <<published, total>>
timers == <<silence, reconnect>>
fallback == <<polling, pollTimers, pollHandle, polls>>
bounds == <<faults, acts>>
vars == <<published, total, socks, running, state, cursor, socket, silence, reconnect,
          polling, paused, pollTimers, pollHandle, polls, dirty, shown, faults, acts>>

Cursor == 0..MaxAlerts \cup {NoCursor}
Frame == [kind : {"open", "ready", "alert", "dropped", "close"}, n : 0..MaxAlerts]
Free == [st |-> "free", subscribed |-> FALSE, after |-> NoCursor, live |-> 0, wire |-> <<>>]

(* The server end: AlertHub with everything delivered.                     *)
Buffer == [i \in 1..Min({published, BufferSize}) |->
              published - Min({published, BufferSize}) + i]
Hub == INSTANCE AlertHub WITH
    Subs <- {}, Publishers <- {}, QueueSize <- 1, MaxSeq <- MaxAlerts,
    next <- published + 1, buffer <- Buffer, attached <- {}, closing <- {},
    inflight <- <<>>, phase <- <<>>, reason <- <<>>, alive <- <<>>, loop <- <<>>,
    queue <- <<>>, waiting <- <<>>, after <- <<>>, caught <- <<>>, backlog <- <<>>,
    sent <- <<>>, start <- <<>>, told <- <<>>

(* ready.resync_required; a transient or a terminal close code.            *)
Resync == 1
Complete == 0
Terminal == 1
Transient == 0

(* A catch-up is the end of the buffer; its frames go in that order.       *)
AlertFrames(items) ==
    LET skipped == Len(Buffer) - Cardinality(items)
    IN  [i \in 1..Cardinality(items) |-> [kind |-> "alert", n |-> Buffer[skipped + i]]]

Fault == faults < MaxFaults /\ faults' = faults + 1
UserAct == acts < MaxUserActs /\ acts' = acts + 1

LaterOf(c, n) == IF c = NoCursor THEN n ELSE Max({c, n})

(* open(): a socket that asks for everything after the cursor.             *)
Opened(ss) ==
    LET i == CHOOSE j \in Sockets : ss[j] = Free
    IN  [ss EXCEPT ![i] = [Free EXCEPT !.st = "connecting", !.after = cursor]]
Open ==
    /\ \E j \in Sockets : socks[j] = Free
    /\ socks' = Opened(socks)
    /\ socket' = CHOOSE j \in Sockets : socks[j] = Free

Init ==
    LET first == CHOOSE j \in Sockets : TRUE IN
    /\ published = 0 /\ total = 0
    /\ socks = [j \in Sockets |->
                   IF j = first THEN [Free EXCEPT !.st = "connecting"] ELSE Free]
    /\ running = TRUE
    /\ state = "connecting"
    /\ cursor = NoCursor
    /\ socket = first
    /\ silence = FALSE /\ reconnect = FALSE
    /\ polling = FALSE /\ paused = FALSE
    /\ pollTimers = 0 /\ pollHandle = FALSE /\ polls = <<>>
    /\ dirty = FALSE /\ shown = 0
    /\ faults = 0 /\ acts = 0
-----------------------------------------------------------------------------
(* The server.  A publish reaches every subscribed socket, except that a   *)
(* slow one is dropped instead, with its last live sequence.               *)
Publish(slow) ==
    LET n == published + 1
        dropFrames(i) == <<[kind |-> "dropped", n |-> socks[i].live],
                           [kind |-> "close", n |-> Transient]>>
    IN
    /\ total < MaxAlerts
    /\ slow \subseteq {i \in Sockets : socks[i].subscribed}
    /\ IF slow = {} THEN UNCHANGED faults ELSE Fault
    /\ published' = n
    /\ total' = total + 1
    /\ socks' = [i \in Sockets |->
          IF i \in slow
          THEN [socks[i] EXCEPT !.subscribed = FALSE, !.wire = @ \o dropFrames(i)]
          ELSE IF socks[i].subscribed
          THEN [socks[i] EXCEPT !.live = n, !.wire = Append(@, [kind |-> "alert", n |-> n])]
          ELSE socks[i]]
    /\ UNCHANGED <<running, state, cursor, socket, timers, fallback, paused, dirty, shown, acts>>

Unanswered(i) == socks[i].st = "connecting" /\ socks[i].wire = <<>>

(* alert_socket: the upgrade, the subscription, "ready" and the catch-up.  *)
Accept(i) ==
    LET caught == Hub!CatchUp(socks[i].after) IN
    /\ Reachable
    /\ Unanswered(i)
    /\ socks' = [socks EXCEPT ![i] =
          [@ EXCEPT !.subscribed = TRUE,
                    !.live = IF socks[i].after = NoCursor THEN 0 ELSE socks[i].after,
                    !.wire = <<[kind |-> "open", n |-> 0],
                               [kind |-> "ready",
                                n |-> IF caught.resync THEN Resync ELSE Complete]>>
                             \o AlertFrames(caught.items)]]
    /\ UNCHANGED <<server, running, state, cursor, socket, timers, fallback, paused, dirty,
                   shown, bounds>>

(* Refused with 4401 or 4403 after the upgrade, or not reachable.          *)
Refuse(i) ==
    /\ Unanswered(i)
    /\ \/ /\ Fault
          /\ socks' = [socks EXCEPT ![i].wire = <<[kind |-> "open", n |-> 0],
                                                  [kind |-> "close", n |-> Terminal]>>]
       \/ /\ IF Reachable THEN Fault ELSE UNCHANGED faults
          /\ socks' = [socks EXCEPT ![i].wire = <<[kind |-> "close", n |-> Transient]>>]
    /\ UNCHANGED <<server, running, state, cursor, socket, timers, fallback, paused, dirty,
                   shown, acts>>

(* The connection breaks: frames in flight are lost from some point on,    *)
(* with a close event or, when the peer just vanishes, without one.  A     *)
(* peer that vanishes before its upgrade arrived never answered.           *)
Break(i, kept) ==
    /\ Fault
    /\ socks[i].subscribed
    /\ kept \in 0..Len(socks[i].wire)
    /\ \/ socks' = [socks EXCEPT ![i].subscribed = FALSE,
                                 ![i].wire = Append(SubSeq(@, 1, kept),
                                                    [kind |-> "close", n |-> Transient])]
       \/ /\ \A j \in (kept + 1)..Len(socks[i].wire) :
                /\ socks[i].wire[j].kind # "open"
                /\ SilentHandshake \/ socks[i].wire[j].kind # "ready"
          /\ socks' = [socks EXCEPT ![i].subscribed = FALSE,
                                    ![i].wire = SubSeq(@, 1, kept)]
    /\ UNCHANGED <<server, running, state, cursor, socket, timers, fallback, paused, dirty,
                   shown, acts>>

(* A new server process: another epoch, numbered from 1 again.             *)
ServerRestarts ==
    /\ Fault
    /\ published' = 0
    /\ socks' = [i \in Sockets |->
          IF socks[i].subscribed
          THEN [socks[i] EXCEPT !.subscribed = FALSE,
                                !.wire = Append(@, [kind |-> "close", n |-> Transient])]
          ELSE socks[i]]
    /\ UNCHANGED <<total, running, state, cursor, socket, timers, fallback, paused, dirty,
                   shown, acts>>
-----------------------------------------------------------------------------
(* startPolling: one immediate poll, unless one chain is already running.  *)
StartPolling ==
    IF polling \/ paused
    THEN UNCHANGED <<polling, polls>>
    ELSE polling' = TRUE /\ polls' = Append(polls, cursor)

(* Variant: a timer counted off that was never set.                        *)
ClearUnset ==
    /\ pollTimers' = pollTimers - 1
    /\ pollHandle' = FALSE

ClearPollTimer ==
    /\ pollTimers' = IF pollHandle THEN pollTimers - 1 ELSE pollTimers
    /\ pollHandle' = FALSE

(* Variant: a chain that ends whenever a socket is being opened.           *)
ChainUnlessConnecting ==
    IF running /\ state = "polling"
    THEN pollTimers' = pollTimers + 1 /\ pollHandle' = TRUE
    ELSE UNCHANGED <<pollTimers, pollHandle>>

(* A poll chain goes on while the socket is not live.                      *)
SchedulePoll ==
    IF running /\ state # "live"
    THEN pollTimers' = pollTimers + 1 /\ pollHandle' = TRUE
    ELSE UNCHANGED <<pollTimers, pollHandle>>

(* Variant: "already falling back" taken for "already scheduled".          *)
ReconnectUnlessPolling ==
    /\ state' = "polling"
    /\ StartPolling
    /\ reconnect' = (reconnect \/ ~polling)

ScheduleReconnect ==
    /\ state' = "polling"
    /\ StartPolling
    /\ reconnect' = TRUE

(* onmessage for one frame, onopen and onclose.                            *)
NextFrame(i, kind) ==
    /\ running
    /\ socks[i].st # "free" /\ socks[i].wire # <<>>
    /\ Head(socks[i].wire).kind = kind

OnOpen(i) ==
    /\ NextFrame(i, "open")
    /\ socks' = [socks EXCEPT ![i].st = "open", ![i].wire = Tail(@)]
    /\ state' = "connecting"
    /\ UNCHANGED <<server, running, cursor, socket, timers, fallback, paused, dirty, shown, bounds>>

(* Variant: only an incomplete catch-up is a reason to re-read.            *)
ResyncOnly(frame) == frame.n = Resync

(* useAlertSync: a connection that came back, or an incomplete catch-up.   *)
ReasonToReread(frame) == state # "live" \/ frame.n = Resync

OnReady(i) ==
    /\ NextFrame(i, "ready")
    /\ socks' = [socks EXCEPT ![i].wire = Tail(@)]
    /\ silence' = TRUE
    /\ polling' = FALSE /\ ClearPollTimer
    /\ state' = "live"
    /\ dirty' = (dirty \/ ReasonToReread(Head(socks[i].wire)))
    /\ UNCHANGED <<server, running, cursor, socket, reconnect, polls, paused, shown, bounds>>

OnAlert(i) ==
    /\ NextFrame(i, "alert")
    /\ socks' = [socks EXCEPT ![i].wire = Tail(@)]
    /\ cursor' = LaterOf(cursor, Head(socks[i].wire).n)
    /\ silence' = TRUE
    /\ dirty' = TRUE
    /\ UNCHANGED <<server, running, state, socket, reconnect, fallback, paused, shown, bounds>>

OnDropped(i) ==
    /\ NextFrame(i, "dropped")
    /\ socks' = [socks EXCEPT ![i].wire = Tail(@)]
    /\ cursor' = LaterOf(cursor, Head(socks[i].wire).n)
    /\ silence' = TRUE
    /\ UNCHANGED <<server, running, state, socket, reconnect, fallback, paused, dirty, shown, bounds>>

OnClose(i) ==
    /\ NextFrame(i, "close")
    /\ socks' = [socks EXCEPT ![i] = Free]
    /\ socket' = NoSocket
    /\ silence' = FALSE
    /\ \/ /\ Head(socks[i].wire).n = Terminal
          /\ state' = "refused"
          /\ StartPolling
          /\ UNCHANGED reconnect
       \/ /\ Head(socks[i].wire).n = Transient
          /\ ScheduleReconnect
    /\ UNCHANGED <<server, running, cursor, pollTimers, pollHandle, paused, dirty, shown, bounds>>
-----------------------------------------------------------------------------
(* abandon: the watched socket is detached and closed.                     *)
Abandon ==
    /\ socks' = [socks EXCEPT ![socket] = Free]
    /\ socket' = NoSocket
    /\ silence' = FALSE
    /\ ScheduleReconnect
    /\ UNCHANGED <<server, running, cursor, pollTimers, pollHandle, paused, dirty, shown, bounds>>

(* A server that answers does so in less than the connect timeout.         *)
ConnectTimeout ==
    /\ running /\ socket # NoSocket
    /\ Unanswered(socket)
    /\ Abandon

(* Heartbeats keep re-arming the watchdog while any socket is subscribed   *)
(* or has frames to deliver.                                               *)
SilenceTimeout ==
    /\ running /\ silence /\ socket # NoSocket
    /\ \A i \in Sockets : ~socks[i].subscribed /\ socks[i].wire = <<>>
    /\ Abandon

ReconnectFires ==
    /\ running /\ reconnect
    /\ reconnect' = FALSE
    /\ state' = "connecting"
    /\ Open
    /\ UNCHANGED <<server, running, cursor, silence, fallback, paused, dirty, shown, bounds>>

PollFires ==
    /\ pollTimers > 0 /\ running
    /\ IF polling /\ ~paused
       THEN /\ polls' = Append(polls, cursor)
            /\ pollTimers' = pollTimers - 1
            /\ pollHandle' = FALSE
       ELSE /\ pollTimers' = IF state # "live" THEN pollTimers ELSE pollTimers - 1
            /\ pollHandle' = (state # "live")
            /\ UNCHANGED polls
    /\ UNCHANGED <<server, socks, running, state, cursor, socket, timers, polling, paused,
                   dirty, shown, bounds>>

(* An answer is ignored once polling stopped; otherwise its frames count   *)
(* like the socket's.                                                      *)
PollAnswered(j) ==
    LET caught == Hub!CatchUp(polls[j])
        newest == Max(caught.items)
    IN
    /\ polls' = RemoveAt(polls, j)
    /\ IF polling /\ running
       THEN /\ cursor' = IF caught.items = {} THEN cursor ELSE LaterOf(cursor, newest)
            /\ dirty' = (dirty \/ caught.items # {} \/ caught.resync)
       ELSE UNCHANGED <<cursor, dirty>>
    /\ SchedulePoll
    /\ UNCHANGED <<server, socks, running, state, socket, timers, polling, paused, shown, bounds>>

PollFails(j) ==
    /\ Fault
    /\ polls' = RemoveAt(polls, j)
    /\ SchedulePoll
    /\ UNCHANGED <<server, socks, running, state, cursor, socket, timers, polling, paused,
                   dirty, shown, acts>>

(* useAlertSync: invalidating the queries re-reads everything there is.    *)
Reread ==
    /\ dirty /\ ~paused
    /\ dirty' = FALSE
    /\ shown' = total
    /\ UNCHANGED <<server, socks, running, state, cursor, socket, timers, fallback, paused, bounds>>
-----------------------------------------------------------------------------
(* Variant: every change of the credential reopens the channel.            *)
ReopenAlways ==
    /\ UserAct
    /\ running
    /\ state' = "connecting"
    /\ Open
    /\ UNCHANGED <<server, running, cursor, timers, fallback, paused, dirty, shown, faults>>

TokenChanged ==
    /\ UserAct
    /\ running /\ state = "refused"
    /\ state' = "connecting"
    /\ Open
    /\ UNCHANGED <<server, running, cursor, timers, fallback, paused, dirty, shown, faults>>

Hide ==
    /\ UserAct
    /\ ~paused
    /\ paused' = TRUE
    /\ polling' = FALSE /\ ClearPollTimer
    /\ UNCHANGED <<server, socks, running, state, cursor, socket, timers, polls, dirty, shown, faults>>

Show ==
    /\ paused
    /\ paused' = FALSE
    /\ IF running /\ state # "live" /\ ~polling
       THEN polling' = TRUE /\ polls' = Append(polls, cursor)
       ELSE UNCHANGED <<polling, polls>>
    /\ UNCHANGED <<server, socks, running, state, cursor, socket, timers, pollTimers, pollHandle,
                   dirty, shown, bounds>>

Stop ==
    /\ UserAct
    /\ running
    /\ running' = FALSE
    /\ silence' = FALSE /\ reconnect' = FALSE /\ ClearPollTimer
    /\ socket' = NoSocket
    /\ socks' = IF socket = NoSocket THEN socks ELSE [socks EXCEPT ![socket] = Free]
    /\ UNCHANGED <<server, state, cursor, polling, polls, paused, dirty, shown, faults>>
-----------------------------------------------------------------------------
OnFrame(i) == OnOpen(i) \/ OnReady(i) \/ OnAlert(i) \/ OnDropped(i) \/ OnClose(i)
Timer == ConnectTimeout \/ SilenceTimeout

Next ==
    \/ \E slow \in SUBSET Sockets : Publish(slow)
    \/ \E i \in Sockets : \/ Accept(i) \/ Refuse(i) \/ OnFrame(i)
                          \/ \E kept \in 0..(MaxAlerts + 4) : Break(i, kept)
    \/ ServerRestarts
    \/ Timer \/ ReconnectFires \/ PollFires
    \/ \E j \in 1..Len(polls) : PollAnswered(j) \/ PollFails(j)
    \/ Reread
    \/ TokenChanged \/ Hide \/ Show \/ Stop

Spec == Init /\ [][Next]_vars

(* The browser delivers events and fires timers; a reachable server        *)
(* eventually accepts one of the connections it is offered, and the API    *)
(* answers one of the polls.  Users need do nothing.                       *)
FairSpec ==
    /\ Spec
    /\ \A i \in Sockets : WF_vars(OnFrame(i)) /\ SF_vars(Accept(i))
    /\ WF_vars(SilenceTimeout) /\ WF_vars(ConnectTimeout)
    /\ WF_vars(ReconnectFires) /\ WF_vars(PollFires)
    /\ SF_vars(\E j \in 1..Len(polls) : PollAnswered(j))
    /\ WF_vars(Reread)
-----------------------------------------------------------------------------
TypeOK ==
    /\ published \in 0..MaxAlerts /\ total \in 0..MaxAlerts
    /\ socks \in [Sockets -> [st : {"free", "connecting", "open"}, subscribed : BOOLEAN,
                              after : Cursor, live : 0..MaxAlerts, wire : Seq(Frame)]]
    /\ running \in BOOLEAN
    /\ state \in {"connecting", "live", "polling", "refused"}
    /\ cursor \in Cursor
    /\ socket \in Sockets \cup {NoSocket}
    /\ silence \in BOOLEAN /\ reconnect \in BOOLEAN
    /\ polling \in BOOLEAN /\ paused \in BOOLEAN
    /\ pollTimers \in Nat /\ pollHandle \in BOOLEAN
    /\ polls \in Seq(Cursor)
    /\ dirty \in BOOLEAN /\ shown \in 0..MaxAlerts
    /\ faults \in 0..MaxFaults /\ acts \in 0..MaxUserActs

(* The fallback flag never outlives its chain: while the client polls and  *)
(* is not live, a poll is in flight or scheduled.                          *)
PollingHasChain ==
    running /\ polling /\ state # "live" => pollTimers > 0 \/ polls # <<>>

(* The client is never stranded: whatever it shows, what would move it on  *)
(* is in place.  Live, the socket is watched; polling, a reconnect is      *)
(* scheduled; connecting, there is a socket to wait for; refused, the      *)
(* fallback goes on unless the tab is hidden.                              *)
NeverStranded ==
    running =>
        \/ state = "live" /\ silence /\ socket # NoSocket
        \/ state = "polling" /\ reconnect /\ (polling \/ paused)
        \/ state = "connecting" /\ socket # NoSocket
        \/ state = "refused" /\ (polling \/ paused)

(* realtime.ts:2, "one connection": no second socket is held open behind   *)
(* this.socket.                                                            *)
OneSocket == Cardinality({i \in Sockets : socks[i].st # "free"}) <= 1

(* Every alert published is eventually re-read because the stream said so, *)
(* on whichever transport, by a screen that is looking, unless the session *)
(* was refused or ended.  The screens' own refetch intervals are left out: *)
(* this is what the stream and its fallback promise without them.          *)
EventuallyShown ==
    \A n \in 1..MaxAlerts :
        total >= n ~> (shown >= n \/ paused \/ state = "refused" \/ ~running)

(* Whatever breaks, one socket at most is open and some timer or an answer *)
(* that is awaited will move the client on; a polling client keeps polling.*)
ClientNeverStranded == PollingHasChain /\ NeverStranded /\ OneSocket
=============================================================================
