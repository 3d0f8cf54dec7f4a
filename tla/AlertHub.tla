------------------------------ MODULE AlertHub ------------------------------
(***************************************************************************)
(* The alert stream (services/alert_stream.py) with the transport loop     *)
(* that drains it (api/v1/endpoints/stream.py): a hub that numbers alerts, *)
(* keeps the last BufferSize of them for catch-up, and hands each one to   *)
(* every subscription's own event loop, from any publishing thread.        *)
(*                                                                         *)
(* An alert is its sequence number.  Each subscriber here makes one        *)
(* connection; one process lifetime (epoch) is modelled.                   *)
(***************************************************************************)
EXTENDS Naturals, Sequences, FiniteSets, SequencesExt

CONSTANTS
    Subs,           \* connections, one AlertSubscription each
    Publishers,     \* threads that call publish
    BufferSize,     \* notifications retained for catch-up
    QueueSize,      \* notifications outstanding before a drop
    NoCursor,       \* "after" absent
    MaxSeq          \* bound: alerts published

ASSUME HubAssumption ==
    /\ BufferSize \in Nat /\ QueueSize \in Nat
    /\ QueueSize >= 1 /\ BufferSize >= QueueSize
    /\ NoCursor \notin Nat
    /\ MaxSeq \in Nat

VARIABLES
    next,       \* hub._next, the sequence the next alert takes
    buffer,     \* hub._buffer, a deque of BufferSize
    attached,   \* hub._subs
    closing,    \* subscriptions hub.close has detached and not yet marked
    inflight,   \* inflight[t]: the alert t is delivering, to whom it still has to
    phase,      \* "new", "open" or "closed"
    reason,     \* drop reason, "none" while live
    alive,      \* is the subscription's event loop still running?
    loop,       \* callbacks scheduled on that loop, in order
    queue,      \* the subscription's bounded queue
    waiting,    \* is the consumer inside queue.get, its drop check behind it?
    after,      \* subscription.after
    caught,     \* the CatchUp computed at registration
    backlog,    \* catch-up items the transport has still to send
    sent,       \* history: alerts sent to the client, in order
    start,      \* history: hub._next at registration
    told        \* cursor of the "dropped" frame, NoCursor before one is sent

hub == <<next, buffer, attached, closing, inflight>>
delivery == <<reason, loop, queue>>
transport == <<waiting, after, backlog, sent, told>>
registration == <<caught, start>>
vars == <<next, buffer, attached, closing, inflight, phase, reason, alive, loop,
          queue, waiting, after, caught, backlog, sent, start, told>>

Sentinel == 0       \* _DROPPED in a queue, _enqueue_sentinel on a loop
Cursor == Nat \cup {NoCursor}
Reason == {"none", "slow_consumer", "shutdown", "loop_closed"}
Idle == [seq |-> 0, to |-> {}]

Init ==
    /\ next = 1
    /\ buffer = <<>>
    /\ attached = {}
    /\ closing = {}
    /\ inflight = [t \in Publishers |-> Idle]
    /\ phase = [s \in Subs |-> "new"]
    /\ reason = [s \in Subs |-> "none"]
    /\ alive = [s \in Subs |-> TRUE]
    /\ loop = [s \in Subs |-> <<>>]
    /\ queue = [s \in Subs |-> <<>>]
    /\ waiting = [s \in Subs |-> FALSE]
    /\ after = [s \in Subs |-> 0]
    /\ caught = [s \in Subs |-> [cursor |-> NoCursor, items |-> {}, resync |-> FALSE]]
    /\ backlog = [s \in Subs |-> {}]
    /\ sent = [s \in Subs |-> <<>>]
    /\ start = [s \in Subs |-> 0]
    /\ told = [s \in Subs |-> NoCursor]
-----------------------------------------------------------------------------
(* Variant: a deque without its maxlen.                                    *)
RetainAll(n) == Append(buffer, n)

(* buffer.append: the oldest notification makes room for the new one.      *)
Retain(n) ==
    IF Len(buffer) < BufferSize THEN Append(buffer, n) ELSE Append(Tail(buffer), n)

(* Publishing: number, retain and snapshot under the lock; deliver outside *)
(* it, one subscriber at a time.                                           *)
Publish(t) ==
    /\ inflight[t].to = {}
    /\ next <= MaxSeq
    /\ next' = next + 1
    /\ buffer' = Retain(next)
    /\ inflight' = [inflight EXCEPT ![t] = [seq |-> next, to |-> attached]]
    /\ UNCHANGED <<attached, closing, phase, alive, delivery, transport, registration>>

(* Variant: a subscriber handed the alert is not struck off.               *)
KeepTarget(t, s) == inflight[t].to

StrikeTarget(t, s) == inflight[t].to \ {s}

(* _deliver: schedule _enqueue on the subscription's loop, unless it is    *)
(* closed or dropped; a loop that is gone drops it.                        *)
Deliver(t, s) ==
    /\ s \in inflight[t].to
    /\ inflight' = [inflight EXCEPT ![t].to = StrikeTarget(t, s)]
    /\ \/ /\ phase[s] = "closed" \/ reason[s] # "none"
          /\ UNCHANGED <<loop, reason>>
       \/ /\ phase[s] # "closed" /\ reason[s] = "none" /\ alive[s]
          /\ loop' = [loop EXCEPT ![s] = Append(@, inflight[t].seq)]
          /\ UNCHANGED reason
       \/ /\ phase[s] # "closed" /\ reason[s] = "none" /\ ~alive[s]
          /\ reason' = [reason EXCEPT ![s] = "loop_closed"]
          /\ UNCHANGED loop
    /\ UNCHANGED <<next, buffer, attached, closing, phase, alive, queue, transport, registration>>

(* hub.close detaches everyone at once and marks them one after the other. *)
CloseHub ==
    /\ attached # {}
    /\ closing' = closing \cup attached
    /\ attached' = {}
    /\ UNCHANGED <<next, buffer, inflight, phase, alive, delivery, transport, registration>>

(* Variant: the flag alone, without waking the waiter.                     *)
NotWoken(s) == loop[s]

(* _wake: the sentinel is scheduled, unless the loop is gone.              *)
Woken(s) == IF alive[s] THEN Append(loop[s], Sentinel) ELSE loop[s]

(* _mark_dropped(shutdown): the first reason stays, the wake-up is sent in *)
(* any case.                                                               *)
MarkShutdown(s) ==
    /\ s \in closing
    /\ closing' = closing \ {s}
    /\ reason' = [reason EXCEPT ![s] = IF @ = "none" THEN "shutdown" ELSE @]
    /\ loop' = [loop EXCEPT ![s] = Woken(s)]
    /\ UNCHANGED <<next, buffer, attached, inflight, phase, alive, queue, transport, registration>>
-----------------------------------------------------------------------------
(* _catch_up_locked.  The buffer is ascending, so a set says which items,  *)
(* and sending the least first says their order.                           *)
Oldest == IF buffer = <<>> THEN 0 ELSE buffer[1]
Latest == IF buffer = <<>> THEN 0 ELSE buffer[Len(buffer)]

(* Variant: a cursor one alert behind the retained window passes.          *)
BehindByTwo(c) == c # NoCursor /\ Oldest # 0 /\ 0 < c /\ c + 2 < Oldest

Behind(c) == c # NoCursor /\ Oldest # 0 /\ 0 < c /\ c + 1 < Oldest
Ahead(c) == c # NoCursor /\ c > 0 /\ (Latest = 0 \/ c > Latest)

(* Variant: the cursor itself is handed over again.                        *)
FromCursor(c) == {n \in ToSet(buffer) : n >= c}

AfterCursor(c) == {n \in ToSet(buffer) : n > c}

CatchUp(c) ==
    [cursor |-> c,
     items  |-> IF Behind(c) \/ Ahead(c) THEN ToSet(buffer)
                ELSE IF c = NoCursor THEN {}
                ELSE AfterCursor(c),
     resync |-> Behind(c) \/ Ahead(c)]

(* subscribe: the catch-up and the registration under one lock.            *)
Subscribe(s, c) ==
    /\ phase[s] = "new" /\ alive[s]
    /\ phase' = [phase EXCEPT ![s] = "open"]
    /\ caught' = [caught EXCEPT ![s] = CatchUp(c)]
    /\ backlog' = [backlog EXCEPT ![s] = CatchUp(c).items]
    /\ after' = [after EXCEPT ![s] = IF c = NoCursor THEN 0 ELSE c]
    /\ start' = [start EXCEPT ![s] = next]
    /\ attached' = attached \cup {s}
    /\ UNCHANGED <<next, buffer, closing, inflight, alive, delivery, waiting, sent, told>>

(* subscription.close: the client left, or the drop frame was sent.        *)
Close(s) ==
    /\ phase[s] = "open"
    /\ phase' = [phase EXCEPT ![s] = "closed"]
    /\ attached' = attached \ {s}
    /\ waiting' = [waiting EXCEPT ![s] = FALSE]
    /\ UNCHANGED <<next, buffer, closing, inflight, alive, delivery, after, backlog, sent,
                   told, registration>>

LoopCloses(s) ==
    /\ alive[s]
    /\ alive' = [alive EXCEPT ![s] = FALSE]
    /\ UNCHANGED <<hub, phase, delivery, transport, registration>>
-----------------------------------------------------------------------------
(* Variant: a notification that does not fit is thrown away.               *)
Discard(s) ==
    /\ loop' = [loop EXCEPT ![s] = Tail(@)]
    /\ UNCHANGED reason

(* _enqueue on a full queue: the subscriber is dropped.                    *)
DropSlow(s) ==
    /\ loop' = [loop EXCEPT ![s] = Append(Tail(@), Sentinel)]
    /\ reason' = [reason EXCEPT ![s] = "slow_consumer"]

(* The next callback of the subscription's loop: _enqueue or               *)
(* _enqueue_sentinel.  A full queue drops the subscriber; a sentinel that  *)
(* does not fit is not needed.                                             *)
RunCallback(s) ==
    LET n == Head(loop[s])
        rest == Tail(loop[s])
        room == Len(queue[s]) < QueueSize
        live == phase[s] # "closed" /\ reason[s] = "none"
    IN
    /\ alive[s] /\ loop[s] # <<>>
    /\ \/ /\ room /\ (n = Sentinel \/ live)
          /\ queue' = [queue EXCEPT ![s] = Append(@, n)]
          /\ loop' = [loop EXCEPT ![s] = rest]
          /\ UNCHANGED reason
       \/ /\ ~room /\ n # Sentinel /\ live
          /\ DropSlow(s)
          /\ UNCHANGED queue
       \/ /\ IF n = Sentinel THEN ~room ELSE ~live
          /\ loop' = [loop EXCEPT ![s] = rest]
          /\ UNCHANGED <<queue, reason>>
    /\ UNCHANGED <<hub, phase, alive, transport, registration>>

(* The transport is _frames: first the catch-up items, then next() in a    *)
(* loop until it raises.                                                   *)
Serving(s) == phase[s] = "open" /\ alive[s] /\ told[s] = NoCursor

SendBacklog(s) ==
    \E n \in backlog[s] :
        /\ Serving(s)
        /\ \A m \in backlog[s] : n <= m
        /\ backlog' = [backlog EXCEPT ![s] = @ \ {n}]
        /\ sent' = [sent EXCEPT ![s] = Append(@, n)]
        /\ UNCHANGED <<hub, phase, alive, delivery, waiting, after, told, registration>>

(* Variant: the drop frame carries the newest sequence published.          *)
ResumeAtLatest(s) == Latest

(* SubscriberDropped.after.                                                *)
ResumeCursor(s) == after[s]

(* next() looks at the drop flag first, and only then at the queue.        *)
CheckDropped(s) ==
    /\ Serving(s) /\ backlog[s] = {} /\ ~waiting[s]
    /\ IF reason[s] = "none"
       THEN waiting' = [waiting EXCEPT ![s] = TRUE] /\ UNCHANGED told
       ELSE told' = [told EXCEPT ![s] = ResumeCursor(s)] /\ UNCHANGED waiting
    /\ UNCHANGED <<hub, phase, alive, delivery, after, backlog, sent, registration>>

Receive(s) ==
    LET n == Head(queue[s]) IN
    /\ Serving(s) /\ waiting[s] /\ queue[s] # <<>>
    /\ queue' = [queue EXCEPT ![s] = Tail(@)]
    /\ waiting' = [waiting EXCEPT ![s] = FALSE]
    /\ \/ /\ n = Sentinel
          /\ told' = [told EXCEPT ![s] = ResumeCursor(s)]
          /\ UNCHANGED <<after, sent>>
       \/ /\ n # Sentinel
          /\ after' = [after EXCEPT ![s] = n]
          /\ sent' = [sent EXCEPT ![s] = Append(@, n)]
          /\ UNCHANGED told
    /\ UNCHANGED <<hub, phase, reason, alive, loop, backlog, registration>>

(* wait_for timed out: a heartbeat frame, and next() is called afresh.     *)
Heartbeat(s) ==
    /\ Serving(s) /\ waiting[s] /\ queue[s] = <<>>
    /\ waiting' = [waiting EXCEPT ![s] = FALSE]
    /\ UNCHANGED <<hub, phase, alive, delivery, after, backlog, sent, told, registration>>
-----------------------------------------------------------------------------
Serve(s) == SendBacklog(s) \/ CheckDropped(s) \/ Receive(s)

Next ==
    \/ \E t \in Publishers : Publish(t) \/ \E s \in Subs : Deliver(t, s)
    \/ CloseHub
    \/ \E s \in Subs :
          \/ \E c \in 0..(MaxSeq + 1) \cup {NoCursor} : Subscribe(s, c)
          \/ MarkShutdown(s) \/ Close(s) \/ LoopCloses(s)
          \/ RunCallback(s) \/ Serve(s) \/ Heartbeat(s)

Spec == Init /\ [][Next]_vars

(* The event loop runs its callbacks and the transport's task; no fairness *)
(* on heartbeats, publishers or clients is needed.                         *)
FairSpec ==
    /\ Spec
    /\ \A s \in Subs : WF_vars(RunCallback(s)) /\ WF_vars(Serve(s))
-----------------------------------------------------------------------------
TypeOK ==
    /\ next \in Nat \ {0}
    /\ buffer \in Seq(Nat \ {0}) /\ Len(buffer) <= BufferSize
    /\ attached \subseteq Subs /\ closing \subseteq Subs
    /\ inflight \in [Publishers -> [seq : Nat, to : SUBSET Subs]]
    /\ phase \in [Subs -> {"new", "open", "closed"}]
    /\ reason \in [Subs -> Reason]
    /\ alive \in [Subs -> BOOLEAN]
    /\ loop \in [Subs -> Seq(Nat)]
    /\ queue \in [Subs -> Seq(Nat)]
    /\ \A s \in Subs : Len(queue[s]) <= QueueSize
    /\ waiting \in [Subs -> BOOLEAN]
    /\ after \in [Subs -> Nat]
    /\ caught \in [Subs -> [cursor : Cursor, items : SUBSET Nat, resync : BOOLEAN]]
    /\ backlog \in [Subs -> SUBSET Nat]
    /\ sent \in [Subs -> Seq(Nat)]
    /\ start \in [Subs -> Nat]
    /\ told \in [Subs -> Cursor]

(* Alerts some publisher has numbered and not yet handed to s.             *)
Outstanding(s) == {inflight[t].seq : t \in {u \in Publishers : s \in inflight[u].to}}

(* Where an alert published since s registered can be.                     *)
InDelivery(s) == ToSet(queue[s]) \cup ToSet(loop[s]) \cup Outstanding(s)

Live(s) == phase[s] = "open" /\ reason[s] = "none" /\ s \notin closing

(* alert_stream.py:26-33: "no third outcome".  Until a subscription is     *)
(* closed or dropped, each alert published since it registered has been    *)
(* sent or is on its way, whatever the publishing threads, the event loop  *)
(* and the transport interleave to.                                        *)
NoLoss ==
    \A s \in Subs : Live(s) =>
        start[s]..(next - 1) \subseteq ToSet(sent[s]) \cup InDelivery(s)

(* subscribe's "never both": catch-up and live delivery do not overlap,    *)
(* and nothing is sent or queued twice.                                    *)
NoDuplicate ==
    \A s \in Subs :
        /\ IsInjective(sent[s])
        /\ ToSet(sent[s]) \cap (backlog[s] \cup (InDelivery(s) \ {Sentinel})) = {}
        /\ \A n \in ToSet(queue[s]) \cup ToSet(loop[s]) :
              n # Sentinel =>
                Cardinality({i \in DOMAIN queue[s] : queue[s][i] = n}) +
                Cardinality({i \in DOMAIN loop[s] : loop[s][i] = n}) +
                Cardinality({n} \cap Outstanding(s)) = 1

(* A cursor is either honoured exactly or refused aloud: without           *)
(* resync_required, the catch-up of cursor c >= 1 is what was published    *)
(* after c, up to the registration.                                        *)
CatchUpHonest ==
    \A s \in Subs :
        LET c == caught[s].cursor IN
        (phase[s] # "new" /\ c \in Nat /\ c > 0 /\ ~caught[s].resync) =>
            caught[s].items = (c + 1)..(start[s] - 1)

(* With one publishing thread the client's view has no hole: the frames    *)
(* after an honoured cursor c are c + 1, c + 2, ... in order.              *)
ContiguousFrames ==
    \A s \in Subs :
        LET c == caught[s].cursor IN
        (phase[s] # "new" /\ c \in Nat /\ c > 0 /\ ~caught[s].resync) =>
            \A i \in 1..Len(sent[s]) : sent[s][i] = c + i

(* With one publishing thread the cursor of a "dropped" frame skips        *)
(* nothing: an alert published since the registration and not after the    *)
(* cursor was sent before the frame.  (A refused cursor is echoed back     *)
(* when nothing came after it, so a resync is excepted.)                   *)
ResumePointTrue ==
    \A s \in Subs :
        told[s] # NoCursor /\ ~caught[s].resync =>
            \A n \in start[s]..told[s] : n \in ToSet(sent[s])

(* A dropped subscriber is told, even when its queue was empty or full     *)
(* when the sentinel arrived, without waiting for a heartbeat.             *)
DroppedIsTold ==
    \A s \in Subs :
        (phase[s] = "open" /\ reason[s] # "none") ~>
            (told[s] # NoCursor \/ phase[s] = "closed" \/ ~alive[s])

(* AlertSubscription.next: "The notification, in publish order."           *)
InPublishOrder ==
    \A s \in Subs : \A i, j \in 1..Len(sent[s]) : i < j => sent[s][i] < sent[s][j]

(* What a client is sent is sent once; and while one thread alone has      *)
(* published, its frames have no hole and the cursor it is dropped with    *)
(* skips nothing, however the loop, the queue and the transport interleave.*)
SerialPublishing ==
    \A t, u \in Publishers : inflight[t].seq # 0 /\ inflight[u].seq # 0 => t = u

DeliveredOnceInOrder ==
    NoDuplicate /\ (SerialPublishing => ContiguousFrames /\ ResumePointTrue)
=============================================================================
