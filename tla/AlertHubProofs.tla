--------------------------- MODULE AlertHubProofs ---------------------------
(***************************************************************************)
(* What AlertHub guarantees for every number of subscribers, publishing    *)
(* threads, buffer and queue size.                                         *)
(***************************************************************************)
EXTENDS AlertHub, FiniteSetTheorems, TLAPS

(* Appending adds one element to those of a sequence.                      *)
LEMMA ElemsAppend ==
    ASSUME NEW S, NEW s \in Seq(S), NEW x \in S
    PROVE  ToSet(Append(s, x)) = ToSet(s) \cup {x}
<1> DEFINE t == Append(s, x)
<1>1. /\ Len(s) \in Nat /\ DOMAIN s = 1..Len(s) /\ DOMAIN t = 1..(Len(s) + 1)
      /\ t[Len(s) + 1] = x
      /\ \A i \in 1..Len(s) : t[i] = s[i]
  OBVIOUS
<1>2. ToSet(t) \subseteq ToSet(s) \cup {x}
  BY <1>1 DEF ToSet
<1>3. ToSet(s) \subseteq ToSet(t)
  <2>1. 1..Len(s) \subseteq 1..(Len(s) + 1)
    BY <1>1
  <2> QED
    BY <1>1, <2>1 DEF ToSet
<1>4. x \in ToSet(t)
  <2>1. Len(s) + 1 \in 1..(Len(s) + 1)
    BY <1>1
  <2> QED
    BY <1>1, <2>1 DEF ToSet
<1> QED
  BY <1>2, <1>3, <1>4

(* The elements of a non-empty sequence are its head and its tail's.       *)
LEMMA ElemsSplit ==
    ASSUME NEW S, NEW s \in Seq(S), s # <<>>
    PROVE  ToSet(s) = {Head(s)} \cup ToSet(Tail(s))
<1>1. Len(s) \in Nat \ {0} /\ DOMAIN s = 1..Len(s) /\ Head(s) = s[1]
  OBVIOUS
<1>2. Tail(s) \in Seq(S) /\ Len(Tail(s)) = Len(s) - 1
      /\ \A i \in 1..(Len(s) - 1) : Tail(s)[i] = s[i + 1]
  OBVIOUS
<1>3. ASSUME NEW i \in 1..Len(s) PROVE s[i] \in {Head(s)} \cup ToSet(Tail(s))
  <2>1. CASE i = 1
    BY <1>1, <2>1
  <2>2. CASE i # 1
    <3>1. i - 1 \in 1..(Len(s) - 1) /\ Tail(s)[i - 1] = s[i]
      BY <1>1, <1>2, <2>2
    <3>2. DOMAIN Tail(s) = 1..(Len(s) - 1)
      BY <1>2
    <3> QED
      BY <3>1, <3>2 DEF ToSet
  <2> QED
    BY <2>1, <2>2
<1>4. ASSUME NEW i \in 1..(Len(s) - 1) PROVE Tail(s)[i] \in ToSet(s)
  BY <1>1, <1>2 DEF ToSet
<1> QED
  BY <1>1, <1>2, <1>3, <1>4 DEF ToSet

(* The deque stays within its bound and gains the new notification.        *)
LEMMA RetainType ==
    ASSUME TypeOK, NEW n \in Nat \ {0}
    PROVE  Retain(n) \in Seq(Nat \ {0}) /\ Len(Retain(n)) <= BufferSize
<1>1. buffer \in Seq(Nat \ {0}) /\ Len(buffer) <= BufferSize /\ Len(buffer) \in Nat
  BY DEF TypeOK
<1>2. CASE Len(buffer) < BufferSize
  BY <1>1, <1>2, HubAssumption DEF Retain
<1>3. CASE ~(Len(buffer) < BufferSize)
  <2>1. buffer # <<>> /\ Len(buffer) >= 1
    BY <1>1, <1>3, HubAssumption
  <2>2. Tail(buffer) \in Seq(Nat \ {0}) /\ Len(Tail(buffer)) = Len(buffer) - 1
    BY <1>1, <2>1
  <2> QED
    BY <1>1, <1>3, <2>2, HubAssumption DEF Retain
<1> QED
  BY <1>2, <1>3

(* A catch-up has the shape of the record _catch_up_locked returns.        *)
LEMMA CatchUpType ==
    ASSUME TypeOK, NEW c \in Cursor
    PROVE  CatchUp(c) \in [cursor : Cursor, items : SUBSET Nat, resync : BOOLEAN]
<1>1. ToSet(buffer) \subseteq Nat
  BY DEF TypeOK, ToSet
<1> QED
  BY <1>1 DEF CatchUp, AfterCursor, Behind, Ahead

(* Type correctness, with the bounds of the buffer and of every queue: the *)
(* hub's memory is bounded whatever its publishers and clients do.         *)
THEOREM TypeCorrect == Spec => []TypeOK
<1>1. Init => TypeOK
  BY HubAssumption DEF Init, TypeOK, Idle, Cursor, Reason
<1>2. TypeOK /\ [Next]_vars => TypeOK'
  <2> SUFFICES ASSUME TypeOK, [Next]_vars PROVE TypeOK'
    OBVIOUS
  <2> USE DEF hub, delivery, transport, registration
  <2>1. ASSUME NEW t \in Publishers, Publish(t) PROVE TypeOK'
    <3>1. next \in Nat \ {0}
      BY DEF TypeOK
    <3>2. buffer' \in Seq(Nat \ {0}) /\ Len(buffer') <= BufferSize
      BY <2>1, <3>1, RetainType DEF Publish
    <3> QED
      BY <2>1, <3>1, <3>2 DEF Publish, TypeOK
  <2>2. ASSUME NEW t \in Publishers, NEW s \in Subs, Deliver(t, s) PROVE TypeOK'
    <3>1. inflight[t].seq \in Nat
      BY DEF TypeOK
    <3>2. loop' \in [Subs -> Seq(Nat)] /\ reason' \in [Subs -> Reason]
      <4>1. CASE UNCHANGED <<loop, reason>>
        BY <4>1 DEF TypeOK
      <4>2. CASE loop' = [loop EXCEPT ![s] = Append(@, inflight[t].seq)] /\ UNCHANGED reason
        BY <4>2, <3>1 DEF TypeOK
      <4>3. CASE reason' = [reason EXCEPT ![s] = "loop_closed"] /\ UNCHANGED loop
        <5>1. "loop_closed" \in Reason
          BY DEF Reason
        <5> QED
          BY <4>3, <5>1 DEF TypeOK
      <4> QED
        BY <2>2, <4>1, <4>2, <4>3 DEF Deliver
    <3>3. inflight' \in [Publishers -> [seq : Nat, to : SUBSET Subs]]
      <4>1. inflight \in [Publishers -> [seq : Nat, to : SUBSET Subs]]
        BY DEF TypeOK
      <4>2. StrikeTarget(t, s) \in SUBSET Subs
        BY <4>1 DEF StrikeTarget
      <4>3. inflight' = [inflight EXCEPT ![t].to = StrikeTarget(t, s)]
        BY <2>2 DEF Deliver
      <4> QED
        BY <4>1, <4>2, <4>3
    <3> QED
      BY <2>2, <3>2, <3>3 DEF Deliver, TypeOK
  <2>3. ASSUME CloseHub PROVE TypeOK'
    BY <2>3 DEF CloseHub, TypeOK
  <2>4. ASSUME NEW s \in Subs, NEW c \in Cursor, Subscribe(s, c) PROVE TypeOK'
    <3>1. CatchUp(c) \in [cursor : Cursor, items : SUBSET Nat, resync : BOOLEAN]
      BY CatchUpType
    <3>2. CatchUp(c).items \in SUBSET Nat
      BY <3>1
    <3>3. caught' \in [Subs -> [cursor : Cursor, items : SUBSET Nat, resync : BOOLEAN]]
      BY <2>4, <3>1 DEF Subscribe, TypeOK
    <3>4. backlog' \in [Subs -> SUBSET Nat]
      BY <2>4, <3>2 DEF Subscribe, TypeOK
    <3> QED
      BY <2>4, <3>3, <3>4 DEF Subscribe, TypeOK, Cursor
  <2>5. ASSUME NEW s \in Subs, MarkShutdown(s) PROVE TypeOK'
    <3>1. Woken(s) \in Seq(Nat)
      BY DEF Woken, TypeOK, Sentinel
    <3> QED
      BY <2>5, <3>1 DEF MarkShutdown, TypeOK, Reason
  <2>6. ASSUME NEW s \in Subs, Close(s) PROVE TypeOK'
    BY <2>6 DEF Close, TypeOK
  <2>7. ASSUME NEW s \in Subs, LoopCloses(s) PROVE TypeOK'
    BY <2>7 DEF LoopCloses, TypeOK
  <2>8. ASSUME NEW s \in Subs, RunCallback(s) PROVE TypeOK'
    <3>1. /\ loop[s] \in Seq(Nat) /\ loop[s] # <<>>
          /\ Head(loop[s]) \in Nat /\ Tail(loop[s]) \in Seq(Nat)
          /\ Append(Tail(loop[s]), Sentinel) \in Seq(Nat)
      BY <2>8 DEF RunCallback, TypeOK, Sentinel
    <3>2. queue[s] \in Seq(Nat) /\ Len(queue[s]) \in Nat
      BY DEF TypeOK
    <3>3. loop' \in [Subs -> Seq(Nat)]
      BY <2>8, <3>1, ZenonT(40) DEF RunCallback, DropSlow, TypeOK
    <3>4. reason' \in [Subs -> Reason]
      <4>1. CASE UNCHANGED reason
        BY <4>1 DEF TypeOK
      <4>2. CASE DropSlow(s)
        <5>1. "slow_consumer" \in Reason
          BY DEF Reason
        <5> QED
          BY <4>2, <5>1 DEF DropSlow, TypeOK
      <4> QED
        BY <2>8, <4>1, <4>2 DEF RunCallback
    <3>5. /\ queue' \in [Subs -> Seq(Nat)]
          /\ \A u \in Subs : Len(queue'[u]) <= QueueSize
      <4>1. CASE UNCHANGED queue
        BY <4>1 DEF TypeOK
      <4>2. CASE Len(queue[s]) < QueueSize /\ queue' = [queue EXCEPT ![s] = Append(@, Head(loop[s]))]
        BY <4>2, <3>1, <3>2, HubAssumption, SMTT(30) DEF TypeOK
      <4> QED
        BY <2>8, <4>1, <4>2 DEF RunCallback, DropSlow
    <3> QED
      BY <2>8, <3>3, <3>4, <3>5 DEF RunCallback, TypeOK
  <2>9. ASSUME NEW s \in Subs, SendBacklog(s) PROVE TypeOK'
    <3>1. PICK n \in backlog[s] : /\ backlog' = [backlog EXCEPT ![s] = @ \ {n}]
                                  /\ sent' = [sent EXCEPT ![s] = Append(@, n)]
      BY <2>9 DEF SendBacklog
    <3>2. n \in Nat
      BY DEF TypeOK
    <3> QED
      BY <2>9, <3>1, <3>2, SMTT(30) DEF SendBacklog, TypeOK
  <2>10. ASSUME NEW s \in Subs, CheckDropped(s) PROVE TypeOK'
    <3>1. waiting' \in [Subs -> BOOLEAN] /\ told' \in [Subs -> Cursor]
      <4>1. CASE waiting' = [waiting EXCEPT ![s] = TRUE] /\ UNCHANGED told
        BY <4>1 DEF TypeOK
      <4>2. CASE told' = [told EXCEPT ![s] = ResumeCursor(s)] /\ UNCHANGED waiting
        BY <4>2 DEF TypeOK, ResumeCursor, Cursor
      <4> QED
        BY <2>10, <4>1, <4>2 DEF CheckDropped
    <3> QED
      BY <2>10, <3>1 DEF CheckDropped, TypeOK
  <2>11. ASSUME NEW s \in Subs, Receive(s) PROVE TypeOK'
    <3>1. /\ queue[s] \in Seq(Nat) /\ queue[s] # <<>> /\ Head(queue[s]) \in Nat
          /\ Tail(queue[s]) \in Seq(Nat) /\ Len(Tail(queue[s])) <= QueueSize
      BY <2>11, HubAssumption DEF Receive, TypeOK
    <3>2. queue' \in [Subs -> Seq(Nat)] /\ \A u \in Subs : Len(queue'[u]) <= QueueSize
      BY <2>11, <3>1 DEF Receive, TypeOK
    <3>3. sent' \in [Subs -> Seq(Nat)] /\ after' \in [Subs -> Nat] /\ told' \in [Subs -> Cursor]
      <4>1. CASE told' = [told EXCEPT ![s] = ResumeCursor(s)] /\ UNCHANGED <<after, sent>>
        BY <4>1 DEF TypeOK, ResumeCursor, Cursor
      <4>2. CASE /\ after' = [after EXCEPT ![s] = Head(queue[s])]
                 /\ sent' = [sent EXCEPT ![s] = Append(@, Head(queue[s]))]
                 /\ UNCHANGED told
        BY <4>2, <3>1 DEF TypeOK
      <4> QED
        BY <2>11, <4>1, <4>2 DEF Receive
    <3> QED
      BY <2>11, <3>2, <3>3 DEF Receive, TypeOK
  <2>12. ASSUME NEW s \in Subs, Heartbeat(s) PROVE TypeOK'
    BY <2>12 DEF Heartbeat, TypeOK
  <2>13. CASE UNCHANGED vars
    BY <2>13 DEF vars, TypeOK
  <2> QED
    <3>1. 0..(MaxSeq + 1) \cup {NoCursor} \subseteq Cursor
      BY HubAssumption DEF Cursor
    <3> QED
      BY <2>1, <2>2, <2>3, <2>4, <2>5, <2>6, <2>7, <2>8, <2>9, <2>10, <2>11, <2>12, <2>13,
         <3>1 DEF Next, Serve
<1> QED
  BY <1>1, <1>2, PTL DEF Spec
-----------------------------------------------------------------------------
(* NoLoss is inductive once it also says that a live subscription is still *)
(* attached, so that the next publish will not pass it by, and that it     *)
(* registered at a real sequence number, which no sentinel can be.         *)
Where(s) == ToSet(sent[s]) \cup InDelivery(s)

NoLossAt(s) ==
    Live(s) => /\ s \in attached
               /\ start[s] >= 1
               /\ start[s]..(next - 1) \subseteq Where(s)

NoLossInv == \A s \in Subs : NoLossAt(s)

(* A step that neither publishes, nor takes s out of delivery, nor moves   *)
(* any of its alerts out of sight keeps the invariant at s.                *)
LEMMA StillNoLoss ==
    ASSUME NEW s \in Subs, NoLossAt(s),
           Live(s)' => Live(s),
           s \in attached => s \in attached',
           UNCHANGED <<next, start>>,
           Where(s) \ {Sentinel} \subseteq Where(s)',
           TypeOK
    PROVE  NoLossAt(s)'
<1> SUFFICES ASSUME Live(s)'
             PROVE  /\ s \in attached'
                    /\ start'[s] >= 1
                    /\ start'[s]..(next' - 1) \subseteq Where(s)'
  BY DEF NoLossAt
<1>1. s \in attached' /\ start'[s] >= 1
  BY DEF NoLossAt
<1>2. ASSUME NEW n \in start'[s]..(next' - 1) PROVE n \in Where(s)'
  <2>1. n \in start[s]..(next - 1) /\ n # Sentinel
    BY <1>1 DEF Sentinel, TypeOK
  <2> QED
    BY <2>1 DEF NoLossAt
<1> QED
  BY <1>1, <1>2

(* The same step by step: what s has in delivery depends on its queue, its *)
(* loop and the publishers' targets alone.                                 *)
LEMMA SameDelivery ==
    ASSUME NEW s \in Subs, UNCHANGED inflight,
           queue'[s] = queue[s], loop'[s] = loop[s], sent'[s] = sent[s]
    PROVE  Where(s)' = Where(s)
BY DEF Where, InDelivery, Outstanding

LEMMA PublishNoLoss ==
    ASSUME TypeOK, NoLossInv, NEW t \in Publishers, Publish(t), NEW s \in Subs
    PROVE  NoLossAt(s)'
<1> USE DEF hub, delivery, transport, registration
<1>1. /\ inflight[t].to = {}
      /\ inflight' = [inflight EXCEPT ![t] = [seq |-> next, to |-> attached]]
      /\ inflight \in [Publishers -> [seq : Nat, to : SUBSET Subs]]
      /\ next' = next + 1 /\ next \in Nat \ {0} /\ start[s] \in Nat
      /\ UNCHANGED <<attached, closing, phase, reason, loop, queue, sent, start>>
  BY DEF Publish, TypeOK
<1> SUFFICES ASSUME Live(s)
             PROVE  /\ s \in attached
                    /\ start[s] >= 1
                    /\ start[s]..next \subseteq Where(s)'
  BY <1>1 DEF NoLossAt, Live
<1>2. s \in attached /\ start[s] >= 1 /\ start[s]..(next - 1) \subseteq Where(s)
  BY DEF NoLossInv, NoLossAt
<1>3. Outstanding(s) \subseteq Outstanding(s)'
  <2> SUFFICES ASSUME NEW u \in Publishers, s \in inflight[u].to
               PROVE  inflight[u].seq \in Outstanding(s)'
    BY DEF Outstanding
  <2>1. inflight'[u] = inflight[u]
    BY <1>1
  <2> QED
    BY <2>1 DEF Outstanding
<1>4. next \in Outstanding(s)'
  <2>1. inflight'[t].seq = next /\ s \in inflight'[t].to
    BY <1>1, <1>2
  <2> QED
    BY <2>1 DEF Outstanding
<1>5. Where(s) \cup {next} \subseteq Where(s)'
  BY <1>1, <1>3, <1>4 DEF Where, InDelivery
<1>6. start[s]..next \subseteq (start[s]..(next - 1)) \cup {next}
  BY <1>1
<1> QED
  BY <1>2, <1>5, <1>6

LEMMA DeliverNoLoss ==
    ASSUME TypeOK, NoLossInv, NEW t \in Publishers, NEW d \in Subs, Deliver(t, d),
           NEW s \in Subs
    PROVE  NoLossAt(s)'
<1> USE DEF hub, delivery, transport, registration
<1>1. /\ d \in inflight[t].to
      /\ inflight' = [inflight EXCEPT ![t].to = inflight[t].to \ {d}]
      /\ inflight \in [Publishers -> [seq : Nat, to : SUBSET Subs]]
      /\ loop \in [Subs -> Seq(Nat)] /\ reason \in [Subs -> Reason]
      /\ UNCHANGED <<next, attached, closing, phase, queue, sent, start>>
  BY DEF Deliver, StrikeTarget, TypeOK
<1>2. NoLossAt(s)
  BY DEF NoLossInv
<1>3. \A u \in Publishers : inflight'[u].seq = inflight[u].seq
  BY <1>1
<1>4. CASE s # d
  <2>1. \A u \in Publishers : s \in inflight'[u].to <=> s \in inflight[u].to
    BY <1>1, <1>4
  <2>2. Outstanding(s)' = Outstanding(s)
    BY <2>1, <1>3 DEF Outstanding
  <2>3. loop'[s] = loop[s] /\ reason'[s] = reason[s]
    BY <1>1, <1>4 DEF Deliver
  <2>4. Where(s)' = Where(s) /\ (Live(s)' => Live(s))
    BY <1>1, <2>2, <2>3 DEF Where, InDelivery, Live
  <2> QED
    BY <1>1, <1>2, <2>4, StillNoLoss
<1>5. CASE s = d
  <2>1. CASE phase[s] = "closed" \/ reason[s] # "none"
    <3>1. ~Live(s)'
      BY <1>1, <1>5, <2>1 DEF Deliver, Live
    <3> QED
      BY <3>1 DEF NoLossAt
  <2>2. CASE loop' = [loop EXCEPT ![s] = Append(@, inflight[t].seq)] /\ UNCHANGED reason
    <3>1. ToSet(loop'[s]) = ToSet(loop[s]) \cup {inflight[t].seq}
      <4>1. loop'[s] = Append(loop[s], inflight[t].seq)
        BY <1>1, <2>2
      <4>2. loop[s] \in Seq(Nat) /\ inflight[t].seq \in Nat
        BY <1>1
      <4> QED
        BY <4>1, <4>2, ElemsAppend
    <3>2. Outstanding(s) \subseteq Outstanding(s)' \cup {inflight[t].seq}
      <4> SUFFICES ASSUME NEW u \in Publishers, s \in inflight[u].to, u # t
                   PROVE  inflight[u].seq \in Outstanding(s)'
        BY DEF Outstanding
      <4>1. inflight'[u] = inflight[u]
        BY <1>1
      <4> QED
        BY <4>1 DEF Outstanding
    <3>3. Where(s) \subseteq Where(s)'
      BY <1>1, <3>1, <3>2 DEF Where, InDelivery
    <3>4. Live(s)' => Live(s)
      BY <1>1, <2>2 DEF Live
    <3> QED
      BY <1>1, <1>2, <3>3, <3>4, StillNoLoss
  <2>3. CASE reason' = [reason EXCEPT ![s] = "loop_closed"]
    <3>1. ~Live(s)'
      BY <1>1, <2>3 DEF Live
    <3> QED
      BY <3>1 DEF NoLossAt
  <2> QED
    BY <1>5, <2>1, <2>2, <2>3 DEF Deliver
<1> QED
  BY <1>4, <1>5

LEMMA CallbackNoLoss ==
    ASSUME TypeOK, NoLossInv, NEW d \in Subs, RunCallback(d), NEW s \in Subs
    PROVE  NoLossAt(s)'
<1> USE DEF hub, delivery, transport, registration
<1>1. /\ loop[d] # <<>>
      /\ loop \in [Subs -> Seq(Nat)] /\ queue \in [Subs -> Seq(Nat)]
      /\ reason \in [Subs -> Reason]
      /\ UNCHANGED <<next, attached, closing, inflight, phase, sent, start>>
  BY DEF RunCallback, TypeOK
<1>2. NoLossAt(s)
  BY DEF NoLossInv
<1>3. CASE s # d
  <2>1. loop'[s] = loop[s] /\ queue'[s] = queue[s] /\ reason'[s] = reason[s]
    BY <1>1, <1>3 DEF RunCallback, DropSlow
  <2>2. Where(s)' = Where(s) /\ (Live(s)' => Live(s))
    BY <1>1, <2>1 DEF Where, InDelivery, Outstanding, Live
  <2> QED
    BY <1>1, <1>2, <2>2, StillNoLoss
<1>4. CASE s = d
  <2> DEFINE n == Head(loop[s])
  <2>1. ToSet(loop[s]) = {n} \cup ToSet(Tail(loop[s])) /\ n \in Nat
    BY <1>1, <1>4, ElemsSplit
  <2>2. CASE /\ queue' = [queue EXCEPT ![s] = Append(@, n)]
             /\ loop' = [loop EXCEPT ![s] = Tail(loop[s])]
             /\ UNCHANGED reason
    <3>1. ToSet(queue'[s]) = ToSet(queue[s]) \cup {n}
      <4>1. queue'[s] = Append(queue[s], n) /\ queue[s] \in Seq(Nat)
        BY <1>1, <2>2
      <4> QED
        BY <2>1, <4>1, ElemsAppend
    <3>2. loop'[s] = Tail(loop[s])
      BY <1>1, <2>2
    <3>3. Where(s) \subseteq Where(s)' /\ (Live(s)' => Live(s))
      BY <1>1, <2>1, <2>2, <3>1, <3>2 DEF Where, InDelivery, Outstanding, Live
    <3> QED
      BY <1>1, <1>2, <3>3, StillNoLoss
  <2>3. CASE DropSlow(s)
    <3>1. ~Live(s)'
      BY <1>1, <2>3 DEF DropSlow, Live
    <3> QED
      BY <3>1 DEF NoLossAt
  <2>4. CASE /\ IF n = Sentinel THEN TRUE ELSE phase[s] = "closed" \/ reason[s] # "none"
             /\ loop' = [loop EXCEPT ![s] = Tail(loop[s])]
             /\ UNCHANGED <<queue, reason>>
    <3>1. CASE n = Sentinel
      <4>1. loop'[s] = Tail(loop[s])
        BY <1>1, <2>4
      <4>2. Where(s) \ {Sentinel} \subseteq Where(s)' /\ (Live(s)' => Live(s))
        BY <1>1, <2>1, <2>4, <3>1, <4>1 DEF Where, InDelivery, Outstanding, Live
      <4> QED
        BY <1>1, <1>2, <4>2, StillNoLoss
    <3>2. CASE n # Sentinel
      <4>1. ~Live(s)'
        BY <1>1, <2>4, <3>2 DEF Live
      <4> QED
        BY <4>1 DEF NoLossAt
    <3> QED
      BY <3>1, <3>2
  <2> QED
    BY <1>4, <2>2, <2>3, <2>4 DEF RunCallback
<1> QED
  BY <1>3, <1>4

LEMMA ReceiveNoLoss ==
    ASSUME TypeOK, NoLossInv, NEW d \in Subs, Receive(d), NEW s \in Subs
    PROVE  NoLossAt(s)'
<1> USE DEF hub, delivery, transport, registration
<1>1. /\ queue[d] # <<>> /\ queue' = [queue EXCEPT ![d] = Tail(@)]
      /\ queue \in [Subs -> Seq(Nat)] /\ sent \in [Subs -> Seq(Nat)]
      /\ UNCHANGED <<next, attached, closing, inflight, phase, reason, loop, start>>
  BY DEF Receive, TypeOK
<1>2. NoLossAt(s) /\ (Live(s)' => Live(s))
  BY <1>1 DEF NoLossInv, Live
<1>3. CASE s # d
  <2>1. queue'[s] = queue[s] /\ sent'[s] = sent[s]
    BY <1>1, <1>3 DEF Receive
  <2>2. Where(s)' = Where(s)
    BY <1>1, <2>1 DEF Where, InDelivery, Outstanding
  <2> QED
    BY <1>1, <1>2, <2>2, StillNoLoss
<1>4. CASE s = d
  <2> DEFINE n == Head(queue[s])
  <2>1. ToSet(queue[s]) = {n} \cup ToSet(queue'[s]) /\ n \in Nat
    BY <1>1, <1>4, ElemsSplit
  <2>2. Where(s) \ {Sentinel} \subseteq Where(s)'
    <3>1. CASE n = Sentinel /\ UNCHANGED sent
      BY <1>1, <2>1, <3>1 DEF Where, InDelivery, Outstanding
    <3>2. CASE sent' = [sent EXCEPT ![s] = Append(@, n)]
      <4>1. ToSet(sent'[s]) = ToSet(sent[s]) \cup {n}
        BY <1>1, <2>1, <3>2, ElemsAppend, SMTT(30)
      <4> QED
        BY <1>1, <2>1, <4>1 DEF Where, InDelivery, Outstanding
    <3> QED
      BY <1>4, <3>1, <3>2 DEF Receive
  <2> QED
    BY <1>1, <1>2, <2>2, StillNoLoss
<1> QED
  BY <1>3, <1>4

(* alert_stream.py:26-33, "no third outcome": whatever the publishers, the *)
(* event loops and the transports interleave to, an alert published after  *)
(* a subscription registered is sent to it, on its way to it, or the       *)
(* subscription is closed or being dropped.                                *)
THEOREM NothingLost == Spec => []NoLoss
<1>1. Init => NoLossInv
  BY DEF Init, NoLossInv, NoLossAt, Live
<1>2. TypeOK /\ NoLossInv /\ [Next]_vars => NoLossInv'
  <2> SUFFICES ASSUME TypeOK, NoLossInv, [Next]_vars, NEW s \in Subs PROVE NoLossAt(s)'
    BY DEF NoLossInv
  <2> USE DEF hub, delivery, transport, registration
  <2>0. NoLossAt(s)
    BY DEF NoLossInv
  <2>1. ASSUME NEW t \in Publishers, Publish(t) PROVE NoLossAt(s)'
    BY <2>1, PublishNoLoss
  <2>2. ASSUME NEW t \in Publishers, NEW d \in Subs, Deliver(t, d) PROVE NoLossAt(s)'
    BY <2>2, DeliverNoLoss
  <2>3. ASSUME CloseHub PROVE NoLossAt(s)'
    <3>1. ~(s \in attached /\ Live(s)') /\ (Live(s)' => Live(s))
      BY <2>3 DEF CloseHub, Live
    <3> QED
      BY <2>0, <3>1 DEF NoLossAt
  <2>4. ASSUME NEW d \in Subs, NEW c \in Cursor, Subscribe(d, c) PROVE NoLossAt(s)'
    <3>1. CASE s = d
      <4>1. start'[s] = next /\ next' = next /\ next \in Nat \ {0} /\ s \in attached'
        BY <2>4, <3>1 DEF Subscribe, TypeOK
      <4>2. start'[s]..(next' - 1) = {}
        BY <4>1
      <4> QED
        BY <4>1, <4>2 DEF NoLossAt
    <3>2. CASE s # d
      <4>1. /\ phase'[s] = phase[s] /\ start'[s] = start[s]
            /\ (s \in attached => s \in attached')
            /\ UNCHANGED <<next, closing, reason, inflight, queue, loop, sent>>
        BY <2>4, <3>2 DEF Subscribe, TypeOK
      <4>2. Where(s)' = Where(s) /\ (Live(s)' => Live(s))
        BY <4>1 DEF Where, InDelivery, Outstanding, Live
      <4> QED
        BY <2>0, <4>1, <4>2 DEF NoLossAt
    <3> QED
      BY <3>1, <3>2
  <2>5. ASSUME NEW d \in Subs, MarkShutdown(d) PROVE NoLossAt(s)'
    <3>1. CASE s = d
      <4>1. reason'[s] # "none"
        BY <2>5, <3>1 DEF MarkShutdown, TypeOK
      <4> QED
        BY <4>1 DEF NoLossAt, Live
    <3>2. CASE s # d
      <4>1. loop'[s] = loop[s] /\ reason'[s] = reason[s] /\ (s \in closing <=> s \in closing')
        BY <2>5, <3>2 DEF MarkShutdown, TypeOK
      <4>2. UNCHANGED <<next, attached, inflight, phase, queue, sent, start>>
        BY <2>5 DEF MarkShutdown
      <4>3. Where(s)' = Where(s) /\ (Live(s)' => Live(s))
        BY <4>1, <4>2 DEF Where, InDelivery, Outstanding, Live
      <4> QED
        BY <2>0, <4>2, <4>3, StillNoLoss
    <3> QED
      BY <3>1, <3>2
  <2>6. ASSUME NEW d \in Subs, Close(d) PROVE NoLossAt(s)'
    <3>1. CASE s = d
      <4>1. phase'[s] = "closed"
        BY <2>6, <3>1 DEF Close, TypeOK
      <4> QED
        BY <4>1 DEF NoLossAt, Live
    <3>2. CASE s # d
      <4>1. phase'[s] = phase[s] /\ (s \in attached => s \in attached')
        BY <2>6, <3>2 DEF Close, TypeOK
      <4>2. UNCHANGED <<next, closing, inflight, reason, loop, queue, sent, start>>
        BY <2>6 DEF Close
      <4>3. Where(s)' = Where(s) /\ (Live(s)' => Live(s))
        BY <4>1, <4>2 DEF Where, InDelivery, Outstanding, Live
      <4> QED
        BY <2>0, <4>1, <4>2, <4>3, StillNoLoss
    <3> QED
      BY <3>1, <3>2
  <2>7. ASSUME NEW d \in Subs, RunCallback(d) PROVE NoLossAt(s)'
    BY <2>7, CallbackNoLoss
  <2>8. ASSUME NEW d \in Subs, SendBacklog(d) PROVE NoLossAt(s)'
    <3>1. PICK n \in backlog[d] : sent' = [sent EXCEPT ![d] = Append(@, n)]
      BY <2>8 DEF SendBacklog
    <3>2. n \in Nat /\ sent[d] \in Seq(Nat) /\ sent \in [Subs -> Seq(Nat)]
      BY DEF TypeOK
    <3>3. ToSet(sent[s]) \subseteq ToSet(sent'[s])
      <4>1. CASE s = d
        <5>1. sent'[s] = Append(sent[s], n)
          BY <3>1, <3>2, <4>1
        <5>2. ToSet(sent'[s]) = ToSet(sent[s]) \cup {n}
          BY <3>2, <4>1, <5>1, ElemsAppend
        <5> QED
          BY <5>2
      <4>2. CASE s # d
        BY <3>1, <3>2, <4>2
      <4> QED
        BY <4>1, <4>2
    <3>4. UNCHANGED <<next, attached, closing, inflight, phase, reason, loop, queue, start>>
      BY <2>8 DEF SendBacklog
    <3>5. Where(s) \subseteq Where(s)' /\ (Live(s)' => Live(s))
      BY <3>3, <3>4 DEF Where, InDelivery, Outstanding, Live
    <3> QED
      BY <2>0, <3>4, <3>5, StillNoLoss
  <2>9. ASSUME NEW d \in Subs, Receive(d) PROVE NoLossAt(s)'
    BY <2>9, ReceiveNoLoss
  <2>10. CASE UNCHANGED <<hub, phase, delivery, sent, start>>
    <3>1. Where(s)' = Where(s) /\ (Live(s)' => Live(s))
      BY <2>10 DEF Where, InDelivery, Outstanding, Live
    <3> QED
      BY <2>0, <2>10, <3>1, StillNoLoss
  <2>11. ASSUME NEW d \in Subs, CheckDropped(d) \/ Heartbeat(d) \/ LoopCloses(d)
         PROVE  NoLossAt(s)'
    BY <2>10, <2>11 DEF CheckDropped, Heartbeat, LoopCloses
  <2>12. CASE UNCHANGED vars
    BY <2>10, <2>12 DEF vars
  <2> QED
    <3>1. 0..(MaxSeq + 1) \cup {NoCursor} \subseteq Cursor
      BY HubAssumption DEF Cursor
    <3> QED
      BY <2>1, <2>2, <2>3, <2>4, <2>5, <2>6, <2>7, <2>8, <2>9, <2>11, <2>12, <3>1
         DEF Next, Serve
<1>3. NoLossInv => NoLoss
  BY DEF NoLossInv, NoLossAt, NoLoss, Where
<1> QED
  BY <1>1, <1>2, <1>3, TypeCorrect, PTL DEF Spec
-----------------------------------------------------------------------------
(* The buffer holds the newest notifications without a hole, so its oldest *)
(* and its newest element say everything about it.                         *)
BufferInv ==
    /\ Len(buffer) < next
    /\ \A i \in 1..Len(buffer) : buffer[i] = next - Len(buffer) + i - 1

LEMMA BufferElems ==
    ASSUME TypeOK, BufferInv
    PROVE  ToSet(buffer) = (next - Len(buffer))..(next - 1)
<1>1. Len(buffer) \in Nat /\ DOMAIN buffer = 1..Len(buffer) /\ next \in Nat \ {0}
  BY DEF TypeOK
<1>2. ASSUME NEW n \in (next - Len(buffer))..(next - 1) PROVE n \in ToSet(buffer)
  <2>1. n - next + Len(buffer) + 1 \in 1..Len(buffer)
    BY <1>1
  <2>2. buffer[n - next + Len(buffer) + 1] = n
    BY <1>1, <2>1 DEF BufferInv
  <2> QED
    BY <1>1, <2>1, <2>2 DEF ToSet
<1>3. ASSUME NEW i \in 1..Len(buffer) PROVE buffer[i] \in (next - Len(buffer))..(next - 1)
  BY <1>1 DEF BufferInv
<1> QED
  BY <1>1, <1>2, <1>3 DEF ToSet

LEMMA RetainContiguous ==
    ASSUME TypeOK, BufferInv, buffer' = Retain(next), next' = next + 1
    PROVE  BufferInv'
<1>1. buffer \in Seq(Nat \ {0}) /\ Len(buffer) \in Nat /\ next \in Nat \ {0}
      /\ Len(buffer) < next
  BY DEF TypeOK, BufferInv
<1>2. CASE Len(buffer) < BufferSize
  <2>1. buffer' = Append(buffer, next)
    BY <1>2 DEF Retain
  <2>2. Len(buffer') = Len(buffer) + 1 /\ buffer'[Len(buffer) + 1] = next
        /\ \A i \in 1..Len(buffer) : buffer'[i] = buffer[i]
    BY <1>1, <2>1
  <2> QED
    BY <1>1, <2>2, SMTT(30) DEF BufferInv
<1>3. CASE ~(Len(buffer) < BufferSize)
  <2>1. buffer' = Append(Tail(buffer), next)
    BY <1>3 DEF Retain
  <2>2. Len(buffer) >= 1 /\ buffer # <<>>
    BY <1>1, <1>3, HubAssumption
  <2>3. /\ Tail(buffer) \in Seq(Nat \ {0}) /\ Len(Tail(buffer)) = Len(buffer) - 1
        /\ \A i \in 1..(Len(buffer) - 1) : Tail(buffer)[i] = buffer[i + 1]
    BY <1>1, <2>2
  <2>4. Len(buffer') = Len(buffer) /\ buffer'[Len(buffer)] = next
        /\ \A i \in 1..(Len(buffer) - 1) : buffer'[i] = buffer[i + 1]
    BY <1>1, <2>1, <2>2, <2>3
  <2>5. ASSUME NEW i \in 1..Len(buffer) PROVE buffer'[i] = next' - Len(buffer') + i - 1
    <3>1. CASE i = Len(buffer)
      BY <1>1, <2>4, <3>1
    <3>2. CASE i # Len(buffer)
      <4>1. i \in 1..(Len(buffer) - 1) /\ i + 1 \in 1..Len(buffer)
        BY <1>1, <3>2
      <4>2. buffer'[i] = next - Len(buffer) + (i + 1) - 1
        BY <2>4, <4>1 DEF BufferInv
      <4> QED
        BY <1>1, <2>4, <4>2
    <3> QED
      BY <3>1, <3>2
  <2> QED
    BY <1>1, <2>4, <2>5 DEF BufferInv
<1> QED
  BY <1>2, <1>3

(* What _catch_up_locked answers for a cursor it does not refuse.          *)
LEMMA CatchUpExact ==
    ASSUME TypeOK, BufferInv, NEW c \in Nat, c > 0, ~CatchUp(c).resync
    PROVE  CatchUp(c).items = (c + 1)..(next - 1)
<1>1. ~Behind(c) /\ ~Ahead(c) /\ c # NoCursor
  BY HubAssumption DEF CatchUp
<1>2. Len(buffer) \in Nat /\ next \in Nat \ {0} /\ buffer \in Seq(Nat \ {0})
  BY DEF TypeOK
<1>3. buffer # <<>> /\ Len(buffer) >= 1
  BY <1>1, <1>2 DEF Ahead, Latest
<1>4. Oldest = next - Len(buffer) /\ Latest = next - 1 /\ Oldest # 0
  BY <1>2, <1>3 DEF BufferInv, Oldest, Latest
<1>5. c + 1 >= next - Len(buffer) /\ c <= next - 1
  BY <1>1, <1>2, <1>4 DEF Behind, Ahead
<1>6. CatchUp(c).items = {n \in (next - Len(buffer))..(next - 1) : n > c}
  BY <1>1, BufferElems DEF CatchUp, AfterCursor
<1> QED
  BY <1>2, <1>5, <1>6

(* A contiguous buffer is what makes a catch-up exact, and every step       *)
(* keeps both.                                                             *)
LEMMA CatchUpKept == Spec => [](BufferInv /\ CatchUpHonest)
<1>1. Init => BufferInv /\ CatchUpHonest
  BY DEF Init, BufferInv, CatchUpHonest
<1>2. TypeOK /\ BufferInv /\ CatchUpHonest /\ [Next]_vars => (BufferInv /\ CatchUpHonest)'
  <2> SUFFICES ASSUME TypeOK, BufferInv, CatchUpHonest, [Next]_vars
               PROVE  (BufferInv /\ CatchUpHonest)'
    OBVIOUS
  <2> USE DEF hub, delivery, transport, registration
  <2>1. ASSUME NEW t \in Publishers, Publish(t) PROVE (BufferInv /\ CatchUpHonest)'
    <3>1. BufferInv'
      BY <2>1, RetainContiguous DEF Publish
    <3> QED
      BY <2>1, <3>1 DEF Publish, CatchUpHonest
  <2>2. ASSUME NEW d \in Subs, NEW c \in Cursor, Subscribe(d, c)
        PROVE  (BufferInv /\ CatchUpHonest)'
    <3>1. BufferInv'
      BY <2>2 DEF Subscribe, BufferInv
    <3>2. CatchUp(c).cursor = c
      BY DEF CatchUp
    <3>3. c \in Nat /\ c > 0 /\ ~CatchUp(c).resync => CatchUp(c).items = (c + 1)..(next - 1)
      BY CatchUpExact
    <3>4. ASSUME NEW s \in Subs, phase'[s] # "new", caught'[s].cursor \in Nat,
                 caught'[s].cursor > 0, ~caught'[s].resync
          PROVE  caught'[s].items = (caught'[s].cursor + 1)..(start'[s] - 1)
      <4>1. CASE s = d
        <5>1. caught'[s] = CatchUp(c) /\ start'[s] = next
          BY <2>2, <4>1 DEF Subscribe, TypeOK
        <5> QED
          BY <3>2, <3>3, <3>4, <5>1
      <4>2. CASE s # d
        <5>1. phase'[s] = phase[s] /\ caught'[s] = caught[s] /\ start'[s] = start[s]
          BY <2>2, <4>2 DEF Subscribe, TypeOK
        <5> QED
          BY <3>4, <5>1 DEF CatchUpHonest
      <4> QED
        BY <4>1, <4>2
    <3> QED
      BY <3>1, <3>4 DEF CatchUpHonest
  <2>3. ASSUME NEW d \in Subs, Close(d) PROVE (BufferInv /\ CatchUpHonest)'
    <3>1. \A s \in Subs : phase'[s] # "new" => phase[s] # "new"
      BY <2>3 DEF Close, TypeOK
    <3> QED
      BY <2>3, <3>1 DEF Close, BufferInv, CatchUpHonest
  <2>4. CASE UNCHANGED <<next, buffer, phase, caught, start>>
    BY <2>4 DEF BufferInv, CatchUpHonest
  <2>5. ASSUME NEW t \in Publishers, NEW d \in Subs, Deliver(t, d)
        PROVE  (BufferInv /\ CatchUpHonest)'
    BY <2>4, <2>5 DEF Deliver
  <2>6. ASSUME NEW d \in Subs, MarkShutdown(d) \/ LoopCloses(d) \/ RunCallback(d) \/ Heartbeat(d)
        PROVE  (BufferInv /\ CatchUpHonest)'
    BY <2>4, <2>6 DEF MarkShutdown, LoopCloses, RunCallback, Heartbeat
  <2>7. ASSUME NEW d \in Subs, Serve(d) PROVE (BufferInv /\ CatchUpHonest)'
    BY <2>4, <2>7 DEF Serve, SendBacklog, CheckDropped, Receive
  <2>8. ASSUME CloseHub PROVE (BufferInv /\ CatchUpHonest)'
    BY <2>4, <2>8 DEF CloseHub
  <2>9. CASE UNCHANGED vars
    BY <2>4, <2>9 DEF vars
  <2> QED
    <3>1. 0..(MaxSeq + 1) \cup {NoCursor} \subseteq Cursor
      BY HubAssumption DEF Cursor
    <3> QED
      BY <2>1, <2>2, <2>3, <2>5, <2>6, <2>7, <2>8, <2>9, <3>1 DEF Next
<1> QED
  BY <1>1, <1>2, TypeCorrect, PTL DEF Spec

(* A reconnecting client with cursor c >= 1 is either told to resync or    *)
(* given exactly the alerts published after c.                             *)
THEOREM CatchUpIsHonest == Spec => []CatchUpHonest
<1>1. BufferInv /\ CatchUpHonest => CatchUpHonest
  OBVIOUS
<1> QED
  BY <1>1, CatchUpKept, PTL
-----------------------------------------------------------------------------
(* No alert is in f twice; a sentinel may be.                              *)
Distinct(f) == \A i, j \in DOMAIN f : i # j /\ f[i] = f[j] => f[i] = Sentinel
(* The alerts in f, its sentinels left out.                                *)
Alerts(f) == ToSet(f) \ {Sentinel}

(* Queueing an alert that is not queued yet.                               *)
LEMMA DistinctAppend ==
    ASSUME NEW f \in Seq(Nat), NEW x \in Nat, Distinct(f), x = Sentinel \/ x \notin ToSet(f)
    PROVE  Distinct(Append(f, x))
<1> DEFINE g == Append(f, x)
<1>1. /\ Len(f) \in Nat /\ DOMAIN f = 1..Len(f) /\ DOMAIN g = 1..(Len(f) + 1)
      /\ g[Len(f) + 1] = x /\ \A i \in 1..Len(f) : g[i] = f[i]
  OBVIOUS
<1>2. \A i \in 1..Len(f) : f[i] \in ToSet(f)
  BY <1>1 DEF ToSet
<1> SUFFICES ASSUME NEW i \in DOMAIN g, NEW j \in DOMAIN g, i # j, g[i] = g[j]
             PROVE  g[i] = Sentinel
  BY DEF Distinct
<1>3. CASE i \in 1..Len(f) /\ j \in 1..Len(f)
  BY <1>1, <1>3 DEF Distinct
<1>4. CASE i = Len(f) + 1 \/ j = Len(f) + 1
  BY <1>1, <1>2, <1>4
<1> QED
  BY <1>1, <1>3, <1>4

(* Taking the head of a queue without duplicates: what is left has none,   *)
(* and the head is not in it.                                              *)
LEMMA DistinctTail ==
    ASSUME NEW f \in Seq(Nat), f # <<>>, Distinct(f)
    PROVE  /\ Distinct(Tail(f))
           /\ Alerts(f) = Alerts(Tail(f)) \cup ({Head(f)} \ {Sentinel})
           /\ Head(f) = Sentinel \/ Head(f) \notin ToSet(Tail(f))
<1> DEFINE g == Tail(f)
<1>1. /\ Len(f) \in Nat \ {0} /\ DOMAIN f = 1..Len(f) /\ DOMAIN g = 1..(Len(f) - 1)
      /\ Head(f) = f[1] /\ \A i \in 1..(Len(f) - 1) : g[i] = f[i + 1]
  OBVIOUS
<1>2. Distinct(g)
  <2> SUFFICES ASSUME NEW i \in DOMAIN g, NEW j \in DOMAIN g, i # j, g[i] = g[j]
               PROVE  g[i] = Sentinel
    BY DEF Distinct
  <2>1. i + 1 \in DOMAIN f /\ j + 1 \in DOMAIN f /\ i + 1 # j + 1
    BY <1>1, SMTT(30)
  <2> QED
    BY <1>1, <2>1 DEF Distinct
<1>3. Head(f) = Sentinel \/ Head(f) \notin ToSet(g)
  <2> SUFFICES ASSUME NEW i \in DOMAIN g, g[i] = Head(f)
               PROVE  Head(f) = Sentinel
    BY DEF ToSet
  <2>1. i + 1 \in DOMAIN f /\ 1 \in DOMAIN f /\ i + 1 # 1
    BY <1>1
  <2> QED
    BY <1>1, <2>1 DEF Distinct
<1>4. ToSet(f) = {Head(f)} \cup ToSet(g)
  BY ElemsSplit
<1> QED
  BY <1>2, <1>3, <1>4 DEF Alerts

(* Sending an alert that was not sent yet.                                 *)
LEMMA InjectiveAppend ==
    ASSUME NEW f \in Seq(Nat), NEW x \in Nat, IsInjective(f), x \notin ToSet(f)
    PROVE  IsInjective(Append(f, x))
<1> DEFINE g == Append(f, x)
<1>1. /\ Len(f) \in Nat /\ DOMAIN f = 1..Len(f) /\ DOMAIN g = 1..(Len(f) + 1)
      /\ g[Len(f) + 1] = x /\ \A i \in 1..Len(f) : g[i] = f[i]
  OBVIOUS
<1>2. \A i \in 1..Len(f) : f[i] \in ToSet(f)
  BY <1>1 DEF ToSet
<1> SUFFICES ASSUME NEW i \in DOMAIN g, NEW j \in DOMAIN g, g[i] = g[j]
             PROVE  i = j
  BY DEF IsInjective
<1>3. CASE i \in 1..Len(f) /\ j \in 1..Len(f)
  BY <1>1, <1>3 DEF IsInjective
<1>4. CASE i = Len(f) + 1 \/ j = Len(f) + 1
  BY <1>1, <1>2, <1>4
<1> QED
  BY <1>1, <1>3, <1>4

(* What a queue holds after one more callback or notification.             *)
LEMMA AlertsAppend ==
    ASSUME NEW f \in Seq(Nat), NEW x \in Nat
    PROVE  Alerts(Append(f, x)) = Alerts(f) \cup ({x} \ {Sentinel})
BY ElemsAppend DEF Alerts

(* A sentinel is not an alert.                                             *)
LEMMA SentinelAppend ==
    ASSUME NEW f \in Seq(Nat), Distinct(f)
    PROVE  Distinct(Append(f, Sentinel)) /\ Alerts(Append(f, Sentinel)) = Alerts(f)
<1>1. Sentinel \in Nat
  BY DEF Sentinel
<1>2. Alerts(Append(f, Sentinel)) = Alerts(f) \cup ({Sentinel} \ {Sentinel})
  BY <1>1, AlertsAppend
<1> QED
  BY <1>1, <1>2, DistinctAppend

(* Each alert is in the hands of one publishing thread, which numbered it  *)
(* before now; and a thread, the hub or its close knows only subscriptions *)
(* that were made.                                                         *)
HandsInv ==
    /\ \A t \in Publishers : inflight[t].seq < next /\ (inflight[t].to # {} => inflight[t].seq >= 1)
    /\ \A t, u \in Publishers : inflight[t].seq = inflight[u].seq /\ inflight[t].seq # 0 => t = u
    /\ \A s \in attached \cup closing : phase[s] # "new"
    /\ \A t \in Publishers : \A s \in inflight[t].to : phase[s] # "new"

(* Before it subscribes a connection holds nothing.                        *)
NewAt(s) ==
    /\ phase[s] = "new" =>
          queue[s] = <<>> /\ loop[s] = <<>> /\ sent[s] = <<>> /\ backlog[s] = {} /\ start[s] = 0
    /\ start[s] <= next

(* The strengthening of NoDuplicate: the catch-up is below the number the  *)
(* subscription registered at and live delivery is not, and what was sent, *)
(* is queued, is scheduled and is still in a publisher's hands are four    *)
(* disjoint sets of numbers the hub gave out.                              *)
OnceAt(s) ==
    /\ NewAt(s)
    /\ IsInjective(sent[s]) /\ Distinct(queue[s]) /\ Distinct(loop[s])
    /\ backlog[s] \subseteq 1..(start[s] - 1)
    /\ ToSet(sent[s]) \subseteq 1..(next - 1)
    /\ Alerts(queue[s]) \cup Alerts(loop[s]) \cup Outstanding(s) \subseteq start[s]..(next - 1)
    /\ ToSet(sent[s]) \cap (backlog[s] \cup Alerts(queue[s]) \cup Alerts(loop[s]) \cup Outstanding(s)) = {}
    /\ Alerts(queue[s]) \cap (Alerts(loop[s]) \cup Outstanding(s)) = {}
    /\ Alerts(loop[s]) \cap Outstanding(s) = {}

OnceInv == HandsInv /\ \A s \in Subs : OnceAt(s)

(* The new number is in no queue, and goes to attached subscriptions       *)
(* alone.                                                                  *)
LEMMA PublishOnce ==
    ASSUME TypeOK, OnceInv, NEW t \in Publishers, Publish(t)
    PROVE  OnceInv'
<1> USE DEF hub, delivery, transport, registration
<1>1. /\ inflight[t].to = {}
      /\ inflight' = [inflight EXCEPT ![t] = [seq |-> next, to |-> attached]]
      /\ inflight \in [Publishers -> [seq : Nat, to : SUBSET Subs]]
      /\ next' = next + 1 /\ next \in Nat \ {0}
      /\ UNCHANGED <<attached, closing, phase, loop, queue, backlog, sent, start>>
  BY DEF Publish, TypeOK
<1>2. HandsInv'
  <2>1. inflight'[t] = [seq |-> next, to |-> attached] /\ \A u \in Publishers : u # t => inflight'[u] = inflight[u]
    BY <1>1
  <2> QED
    BY <1>1, <2>1 DEF OnceInv, HandsInv
<1>3. ASSUME NEW s \in Subs PROVE OnceAt(s)'
  <2>1. OnceAt(s) /\ start[s] \in Nat
    BY DEF OnceInv, TypeOK
  <2>2. Outstanding(s)' \subseteq Outstanding(s) \cup {next}
    BY <1>1 DEF Outstanding
  <2>3. phase[s] = "new" => Outstanding(s)' \subseteq Outstanding(s)
    BY <1>1 DEF Outstanding, OnceInv, HandsInv
  <2> QED
    BY <1>1, <2>1, <2>2, <2>3 DEF OnceAt, NewAt
<1> QED
  BY <1>2, <1>3 DEF OnceInv

(* The alert moves from its publisher's hands to the loop: it is struck    *)
(* off the one as it is added to the other.                                *)
LEMMA DeliverOnce ==
    ASSUME TypeOK, OnceInv, NEW t \in Publishers, NEW d \in Subs, Deliver(t, d)
    PROVE  OnceInv'
<1> USE DEF hub, delivery, transport, registration
<1> DEFINE n == inflight[t].seq
<1>1. /\ d \in inflight[t].to
      /\ inflight' = [inflight EXCEPT ![t].to = inflight[t].to \ {d}]
      /\ inflight \in [Publishers -> [seq : Nat, to : SUBSET Subs]]
      /\ loop \in [Subs -> Seq(Nat)] /\ n \in Nat /\ next \in Nat
      /\ UNCHANGED <<next, attached, closing, phase, queue, backlog, sent, start>>
  BY DEF Deliver, StrikeTarget, TypeOK
<1>2. /\ \A u \in Publishers : inflight'[u].seq = inflight[u].seq
      /\ \A u \in Publishers : inflight'[u].to \subseteq inflight[u].to
      /\ \A u \in Publishers : \A s \in Subs \ {d} : s \in inflight[u].to <=> s \in inflight'[u].to
      /\ d \notin inflight'[t].to
  BY <1>1
<1>3. HandsInv'
  BY <1>1, <1>2 DEF OnceInv, HandsInv
<1>4. ASSUME NEW s \in Subs PROVE OnceAt(s)'
  <2>1. OnceAt(s)
    BY DEF OnceInv
  <2>2. CASE s # d
    <3>1. loop'[s] = loop[s]
      BY <1>1, <2>2 DEF Deliver
    <3>2. Outstanding(s)' = Outstanding(s)
      BY <1>2, <2>2 DEF Outstanding
    <3> QED
      BY <1>1, <2>1, <3>1, <3>2 DEF OnceAt, NewAt
  <2>3. CASE s = d
    <3>1. n >= 1 /\ n \in Outstanding(s) /\ phase[s] # "new"
      BY <1>1, <2>3 DEF Outstanding, OnceInv, HandsInv
    <3>2. Outstanding(s)' \subseteq Outstanding(s) \ {n}
      <4> SUFFICES ASSUME NEW u \in Publishers, s \in inflight'[u].to
                   PROVE  inflight'[u].seq \in Outstanding(s) \ {n}
        BY DEF Outstanding
      <4>1. u # t /\ s \in inflight[u].to
        BY <1>2, <2>3
      <4>2. inflight[u].seq # n
        BY <4>1, <3>1 DEF OnceInv, HandsInv
      <4> QED
        BY <1>2, <4>1, <4>2 DEF Outstanding
    <3>3. CASE loop'[s] = loop[s]
      BY <1>1, <2>1, <3>1, <3>2, <3>3 DEF OnceAt, NewAt
    <3>4. CASE loop'[s] = Append(loop[s], n)
      <4>1. n \notin ToSet(loop[s])
        BY <2>1, <3>1 DEF OnceAt, Alerts, Sentinel
      <4>2. Distinct(loop'[s])
        BY <1>1, <2>1, <3>4, <4>1, DistinctAppend DEF OnceAt
      <4>3. Alerts(loop'[s]) = Alerts(loop[s]) \cup {n}
        <5>1. loop[s] \in Seq(Nat) /\ {n} \ {Sentinel} = {n}
          BY <1>1, <3>1 DEF Sentinel
        <5> QED
          BY <1>1, <3>4, <5>1, AlertsAppend
      <4> QED
        BY <1>1, <2>1, <3>1, <3>2, <4>2, <4>3 DEF OnceAt, NewAt
    <3> QED
      BY <1>1, <2>3, <3>3, <3>4 DEF Deliver
  <2> QED
    BY <2>2, <2>3
<1> QED
  BY <1>3, <1>4 DEF OnceInv

(* A step that leaves alone what s holds.                                  *)
LEMMA SameOnce ==
    ASSUME NEW s \in Subs, OnceAt(s), UNCHANGED <<next, inflight>>,
           phase'[s] = "new" => phase[s] = "new",
           start'[s] = start[s], queue'[s] = queue[s], loop'[s] = loop[s],
           sent'[s] = sent[s], backlog'[s] = backlog[s]
    PROVE  OnceAt(s)'
BY DEF OnceAt, NewAt, Outstanding, Alerts, Distinct, IsInjective

(* The catch-up comes from the buffer, so below the next number; nothing   *)
(* is in delivery to a connection that is new.                             *)
LEMMA SubscribeOnce ==
    ASSUME TypeOK, BufferInv, OnceInv, NEW d \in Subs, NEW c \in Cursor, Subscribe(d, c)
    PROVE  OnceInv'
<1> USE DEF hub, delivery, transport, registration
<1>1. /\ phase[d] = "new" /\ phase' = [phase EXCEPT ![d] = "open"]
      /\ backlog' = [backlog EXCEPT ![d] = CatchUp(c).items]
      /\ start' = [start EXCEPT ![d] = next]
      /\ attached' = attached \cup {d} /\ attached \subseteq Subs
      /\ next \in Nat \ {0} /\ phase \in [Subs -> {"new", "open", "closed"}]
      /\ start \in [Subs -> Nat] /\ backlog \in [Subs -> SUBSET Nat]
      /\ UNCHANGED <<next, closing, inflight, loop, queue, sent>>
  BY DEF Subscribe, TypeOK
<1>2. HandsInv'
  BY <1>1 DEF OnceInv, HandsInv
<1>3. CatchUp(c).items \subseteq 1..(next - 1)
  <2>1. ToSet(buffer) \subseteq 1..(next - 1)
    <3>1. Len(buffer) \in Nat /\ Len(buffer) < next
      BY DEF TypeOK, BufferInv
    <3> QED
      BY <1>1, <3>1, BufferElems
  <2> QED
    BY <2>1 DEF CatchUp, AfterCursor
<1>4. ASSUME NEW s \in Subs PROVE OnceAt(s)'
  <2>1. OnceAt(s)
    BY DEF OnceInv
  <2>2. CASE s # d
    BY <1>1, <2>1, <2>2, SameOnce
  <2>3. CASE s = d
    <3>1. queue[s] = <<>> /\ loop[s] = <<>> /\ sent[s] = <<>> /\ Outstanding(s) = {}
      BY <1>1, <2>1, <2>3 DEF OnceAt, NewAt, OnceInv, HandsInv, Outstanding
    <3>2. Outstanding(s)' = {}
      BY <1>1, <3>1 DEF Outstanding
    <3>3. ToSet(sent[s]) = {} /\ Alerts(queue[s]) = {} /\ Alerts(loop[s]) = {}
      BY <3>1 DEF Alerts, ToSet
    <3>4. start'[s] = next /\ backlog'[s] = CatchUp(c).items /\ phase'[s] = "open"
      BY <1>1, <2>3
    <3> QED
      BY <1>1, <1>3, <2>1, <3>2, <3>3, <3>4 DEF OnceAt, NewAt
  <2> QED
    BY <2>2, <2>3
<1> QED
  BY <1>2, <1>4 DEF OnceInv

(* The alert moves from the loop to the queue, or is let go.               *)
LEMMA CallbackOnce ==
    ASSUME TypeOK, OnceInv, NEW d \in Subs, RunCallback(d)
    PROVE  OnceInv'
<1> USE DEF hub, delivery, transport, registration
<1> DEFINE n == Head(loop[d])
<1>1. /\ loop[d] # <<>> /\ loop[d] \in Seq(Nat) /\ queue[d] \in Seq(Nat)
      /\ n \in Nat /\ Tail(loop[d]) \in Seq(Nat)
      /\ loop \in [Subs -> Seq(Nat)] /\ queue \in [Subs -> Seq(Nat)]
      /\ UNCHANGED <<next, attached, closing, inflight, phase, backlog, sent, start>>
  BY DEF RunCallback, TypeOK
<1>2. HandsInv'
  BY <1>1 DEF OnceInv, HandsInv
<1>3. ASSUME NEW s \in Subs PROVE OnceAt(s)'
  <2>1. OnceAt(s)
    BY DEF OnceInv
  <2>2. CASE s # d
    <3>1. loop'[s] = loop[s] /\ queue'[s] = queue[s]
      BY <1>1, <2>2 DEF RunCallback, DropSlow
    <3> QED
      BY <1>1, <2>1, <3>1, SameOnce
  <2>3. CASE s = d
    <3> DEFINE rest == Tail(loop[d])
    <3>1. /\ Distinct(rest)
          /\ Alerts(loop[d]) = Alerts(rest) \cup ({n} \ {Sentinel})
          /\ n = Sentinel \/ n \notin ToSet(rest)
      BY <1>1, <2>1, <2>3, DistinctTail DEF OnceAt
    <3>2. Outstanding(s)' = Outstanding(s)
      BY <1>1 DEF Outstanding
    <3>3. phase[s] # "new"
      BY <1>1, <2>1, <2>3 DEF OnceAt, NewAt
    <3>4. CASE queue'[s] = Append(queue[s], n) /\ loop'[s] = rest
      <4>1. n = Sentinel \/ n \notin ToSet(queue[s])
        BY <2>1, <2>3, <3>1 DEF OnceAt, Alerts
      <4>2. Distinct(queue'[s])
        BY <1>1, <2>1, <2>3, <3>4, <4>1, DistinctAppend DEF OnceAt
      <4>3. Alerts(queue'[s]) = Alerts(queue[s]) \cup ({n} \ {Sentinel})
        BY <1>1, <2>3, <3>4, AlertsAppend
      <4>4. ({n} \ {Sentinel}) \cap Alerts(rest) = {}
        BY <3>1 DEF Alerts
      <4> QED
        BY <1>1, <2>1, <2>3, <3>1, <3>2, <3>3, <3>4, <4>2, <4>3, <4>4 DEF OnceAt, NewAt
    <3>5. CASE queue'[s] = queue[s] /\ loop'[s] = rest
      BY <1>1, <2>1, <2>3, <3>1, <3>2, <3>3, <3>5 DEF OnceAt, NewAt
    <3>6. CASE queue'[s] = queue[s] /\ loop'[s] = Append(rest, Sentinel)
      <4>1. Distinct(loop'[s]) /\ Alerts(loop'[s]) = Alerts(rest)
        BY <1>1, <3>1, <3>6, SentinelAppend
      <4> QED
        BY <1>1, <2>1, <2>3, <3>1, <3>2, <3>3, <3>6, <4>1 DEF OnceAt, NewAt
    <3> QED
      BY <1>1, <2>3, <3>4, <3>5, <3>6 DEF RunCallback, DropSlow
  <2> QED
    BY <2>2, <2>3
<1> QED
  BY <1>2, <1>3 DEF OnceInv

(* The least catch-up item becomes the last sent.                          *)
LEMMA SendBacklogOnce ==
    ASSUME TypeOK, OnceInv, NEW d \in Subs, SendBacklog(d)
    PROVE  OnceInv'
<1> USE DEF hub, delivery, transport, registration
<1>1. PICK n \in backlog[d] : /\ backlog' = [backlog EXCEPT ![d] = @ \ {n}]
                              /\ sent' = [sent EXCEPT ![d] = Append(@, n)]
  BY DEF SendBacklog
<1>2. /\ n \in Nat /\ sent \in [Subs -> Seq(Nat)] /\ backlog \in [Subs -> SUBSET Nat]
      /\ next \in Nat /\ start[d] \in Nat
      /\ UNCHANGED <<next, attached, closing, inflight, phase, loop, queue, start>>
      /\ Serving(d)
  BY DEF SendBacklog, TypeOK
<1>3. HandsInv'
  BY <1>2 DEF OnceInv, HandsInv
<1>4. ASSUME NEW s \in Subs PROVE OnceAt(s)'
  <2>1. OnceAt(s)
    BY DEF OnceInv
  <2>2. CASE s # d
    BY <1>1, <1>2, <2>1, <2>2, SameOnce
  <2>3. CASE s = d
    <3>1. sent'[s] = Append(sent[s], n) /\ backlog'[s] = backlog[s] \ {n}
      BY <1>1, <1>2, <2>3
    <3>2. n \notin ToSet(sent[s]) /\ n \in 1..(start[s] - 1)
      BY <2>1, <2>3 DEF OnceAt
    <3>3. IsInjective(sent'[s]) /\ ToSet(sent'[s]) = ToSet(sent[s]) \cup {n}
      BY <1>2, <2>1, <3>1, <3>2, ElemsAppend, InjectiveAppend DEF OnceAt
    <3>4. Outstanding(s)' = Outstanding(s)
      BY <1>2 DEF Outstanding
    <3>5. start[s] <= next /\ start[s] \in Nat
      BY <1>2, <2>1, <2>3 DEF OnceAt, NewAt
    <3>6. phase[s] = "open"
      BY <1>2, <2>3 DEF Serving
    <3> QED
      BY <1>2, <2>1, <3>1, <3>2, <3>3, <3>4, <3>5, <3>6 DEF OnceAt, NewAt
  <2> QED
    BY <2>2, <2>3
<1> QED
  BY <1>3, <1>4 DEF OnceInv

(* The head of the queue becomes the last sent; a sentinel does not.       *)
LEMMA ReceiveOnce ==
    ASSUME TypeOK, OnceInv, NEW d \in Subs, Receive(d)
    PROVE  OnceInv'
<1> USE DEF hub, delivery, transport, registration
<1> DEFINE n == Head(queue[d])
<1>1. /\ queue[d] # <<>> /\ queue' = [queue EXCEPT ![d] = Tail(@)]
      /\ queue \in [Subs -> Seq(Nat)] /\ sent \in [Subs -> Seq(Nat)] /\ n \in Nat
      /\ next \in Nat \ {0} /\ start[d] \in Nat /\ phase[d] = "open"
      /\ UNCHANGED <<next, attached, closing, inflight, phase, loop, backlog, start>>
  BY DEF Receive, TypeOK, Serving
<1>2. HandsInv'
  BY <1>1 DEF OnceInv, HandsInv
<1>3. ASSUME NEW s \in Subs PROVE OnceAt(s)'
  <2>1. OnceAt(s)
    BY DEF OnceInv
  <2>2. CASE s # d
    <3>1. queue'[s] = queue[s] /\ sent'[s] = sent[s]
      BY <1>1, <2>2 DEF Receive
    <3> QED
      BY <1>1, <2>1, <3>1, SameOnce
  <2>3. CASE s = d
    <3>1. queue'[s] = Tail(queue[s]) /\ Outstanding(s)' = Outstanding(s)
      BY <1>1, <2>3 DEF Outstanding
    <3>2. /\ Distinct(queue'[s])
          /\ Alerts(queue[s]) = Alerts(queue'[s]) \cup ({n} \ {Sentinel})
          /\ n = Sentinel \/ n \notin ToSet(queue'[s])
      BY <1>1, <2>1, <2>3, <3>1, DistinctTail DEF OnceAt
    <3>3. CASE n = Sentinel /\ UNCHANGED sent
      BY <1>1, <2>1, <2>3, <3>1, <3>2, <3>3 DEF OnceAt, NewAt
    <3>4. CASE n # Sentinel /\ sent' = [sent EXCEPT ![d] = Append(@, n)]
      <4>1. n \in Alerts(queue[s]) /\ n \notin Alerts(queue'[s]) /\ n >= 1
        BY <1>1, <3>2, <3>4 DEF Alerts, Sentinel
      <4>2. n \notin ToSet(sent[s]) /\ n \in start[s]..(next - 1) /\ n \notin backlog[s]
        BY <1>1, <2>1, <2>3, <4>1 DEF OnceAt
      <4>3. IsInjective(sent'[s]) /\ ToSet(sent'[s]) = ToSet(sent[s]) \cup {n}
        BY <1>1, <2>1, <2>3, <3>4, <4>2, ElemsAppend, InjectiveAppend DEF OnceAt
      <4> QED
        BY <1>1, <2>1, <2>3, <3>1, <3>2, <4>1, <4>2, <4>3 DEF OnceAt, NewAt
    <3> QED
      BY <2>3, <3>3, <3>4 DEF Receive
  <2> QED
    BY <2>2, <2>3
<1> QED
  BY <1>2, <1>3 DEF OnceInv

(* The wake-up call is a sentinel.                                         *)
LEMMA ShutdownOnce ==
    ASSUME TypeOK, OnceInv, NEW d \in Subs, MarkShutdown(d)
    PROVE  OnceInv'
<1> USE DEF hub, delivery, transport, registration
<1>1. /\ d \in closing /\ loop \in [Subs -> Seq(Nat)] /\ Sentinel \in Nat
      /\ closing' \subseteq closing /\ loop' = [loop EXCEPT ![d] = Woken(d)]
      /\ UNCHANGED <<next, attached, inflight, phase, queue, backlog, sent, start>>
  BY DEF MarkShutdown, TypeOK, Sentinel
<1>2. HandsInv'
  BY <1>1 DEF OnceInv, HandsInv
<1>3. ASSUME NEW s \in Subs PROVE OnceAt(s)'
  <2>1. OnceAt(s)
    BY DEF OnceInv
  <2>2. CASE loop'[s] = loop[s]
    BY <1>1, <2>1, <2>2, SameOnce
  <2>3. CASE loop'[s] # loop[s]
    <3>1. s = d /\ loop'[s] = Append(loop[s], Sentinel)
      BY <1>1, <2>3 DEF Woken
    <3>2. Distinct(loop'[s]) /\ Alerts(loop'[s]) = Alerts(loop[s])
      BY <1>1, <2>1, <3>1, SentinelAppend, ZenonT(40) DEF OnceAt
    <3>3. Outstanding(s)' = Outstanding(s)
      BY <1>1 DEF Outstanding
    <3>4. phase[s] # "new"
      BY <1>1, <3>1 DEF OnceInv, HandsInv
    <3> QED
      BY <1>1, <2>1, <3>2, <3>3, <3>4 DEF OnceAt, NewAt
  <2> QED
    BY <2>2, <2>3
<1> QED
  BY <1>2, <1>3 DEF OnceInv

(* A number in no or one place of a sequence is counted there so often.    *)
LEMMA CountDistinct ==
    ASSUME NEW f \in Seq(Nat), Distinct(f), NEW n \in Nat \ {Sentinel}
    PROVE  Cardinality({i \in DOMAIN f : f[i] = n}) = IF n \in ToSet(f) THEN 1 ELSE 0
<1> DEFINE P == {i \in DOMAIN f : f[i] = n}
<1>1. CASE n \in ToSet(f)
  <2>1. PICK i \in DOMAIN f : f[i] = n
    BY <1>1 DEF ToSet
  <2>2. P = {i}
    BY <2>1 DEF Distinct
  <2> QED
    BY <1>1, <2>2, FS_Singleton
<1>2. CASE n \notin ToSet(f)
  <2>1. P = {}
    BY <1>2 DEF ToSet
  <2> QED
    BY <1>2, <2>1, FS_EmptySet
<1> QED
  BY <1>1, <1>2

(* The inductive invariant gives the property the runs check.              *)
LEMMA OnceImplies ==
    ASSUME TypeOK, OnceInv
    PROVE  NoDuplicate
<1> SUFFICES ASSUME NEW s \in Subs
             PROVE  /\ IsInjective(sent[s])
                    /\ ToSet(sent[s]) \cap (backlog[s] \cup (InDelivery(s) \ {Sentinel})) = {}
                    /\ \A n \in ToSet(queue[s]) \cup ToSet(loop[s]) :
                          n # Sentinel =>
                            Cardinality({i \in DOMAIN queue[s] : queue[s][i] = n}) +
                            Cardinality({i \in DOMAIN loop[s] : loop[s][i] = n}) +
                            Cardinality({n} \cap Outstanding(s)) = 1
  BY DEF NoDuplicate
<1>1. OnceAt(s) /\ queue[s] \in Seq(Nat) /\ loop[s] \in Seq(Nat)
  BY DEF OnceInv, TypeOK
<1>2. ToSet(sent[s]) \cap (backlog[s] \cup (InDelivery(s) \ {Sentinel})) = {}
  BY <1>1 DEF OnceAt, InDelivery, Alerts
<1>3. ASSUME NEW n \in ToSet(queue[s]) \cup ToSet(loop[s]), n # Sentinel
      PROVE  Cardinality({i \in DOMAIN queue[s] : queue[s][i] = n}) +
             Cardinality({i \in DOMAIN loop[s] : loop[s][i] = n}) +
             Cardinality({n} \cap Outstanding(s)) = 1
  <2>1. n \in Nat \ {Sentinel}
    BY <1>1, <1>3 DEF ToSet
  <2>2. {n} \cap Outstanding(s) = {}
    BY <1>1, <1>3 DEF OnceAt, Alerts
  <2>3. Cardinality({n} \cap Outstanding(s)) = 0
    BY <2>2, FS_EmptySet
  <2>4. ~(n \in ToSet(queue[s]) /\ n \in ToSet(loop[s]))
    BY <1>1, <1>3 DEF OnceAt, Alerts
  <2>5. Distinct(queue[s]) /\ Distinct(loop[s])
    BY <1>1 DEF OnceAt
  <2>6. Cardinality({i \in DOMAIN queue[s] : queue[s][i] = n})
            = IF n \in ToSet(queue[s]) THEN 1 ELSE 0
    BY <1>1, <2>1, <2>5, CountDistinct
  <2>7. Cardinality({i \in DOMAIN loop[s] : loop[s][i] = n})
            = IF n \in ToSet(loop[s]) THEN 1 ELSE 0
    BY <1>1, <2>1, <2>5, CountDistinct
  <2> QED
    BY <1>3, <2>3, <2>4, <2>6, <2>7
<1> QED
  BY <1>1, <1>2, <1>3 DEF OnceAt

(* The hub starts with nothing anywhere.                                   *)
LEMMA InitOnce == Init => OnceInv
<1> SUFFICES ASSUME Init PROVE OnceInv
  OBVIOUS
<1>1. HandsInv
  BY DEF Init, HandsInv, Idle
<1>2. ASSUME NEW s \in Subs PROVE OnceAt(s)
  <2>1. /\ queue[s] = <<>> /\ loop[s] = <<>> /\ sent[s] = <<>> /\ backlog[s] = {}
        /\ start[s] = 0 /\ next = 1 /\ Outstanding(s) = {}
    BY DEF Init, Outstanding, Idle
  <2>2. ToSet(<<>>) = {}
    BY DEF ToSet
  <2> QED
    BY <2>1, <2>2 DEF OnceAt, NewAt, Distinct, Alerts, IsInjective
<1> QED
  BY <1>1, <1>2 DEF OnceInv

(* Every step keeps the invariant.                                         *)
LEMMA NextOnce == TypeOK /\ BufferInv /\ OnceInv /\ [Next]_vars => OnceInv'
<1> SUFFICES ASSUME TypeOK, BufferInv, OnceInv, [Next]_vars PROVE OnceInv'
  OBVIOUS
<1> USE DEF hub, delivery, transport, registration
<1>1. ASSUME NEW t \in Publishers, Publish(t) PROVE OnceInv'
  BY <1>1, PublishOnce
<1>2. ASSUME NEW t \in Publishers, NEW d \in Subs, Deliver(t, d) PROVE OnceInv'
  BY <1>2, DeliverOnce
<1>3. ASSUME NEW d \in Subs, NEW c \in Cursor, Subscribe(d, c) PROVE OnceInv'
  BY <1>3, SubscribeOnce
<1>4. ASSUME NEW d \in Subs, MarkShutdown(d) PROVE OnceInv'
  BY <1>4, ShutdownOnce
<1>5. ASSUME NEW d \in Subs, RunCallback(d) PROVE OnceInv'
  BY <1>5, CallbackOnce
<1>6. ASSUME NEW d \in Subs, SendBacklog(d) PROVE OnceInv'
  BY <1>6, SendBacklogOnce
<1>7. ASSUME NEW d \in Subs, Receive(d) PROVE OnceInv'
  BY <1>7, ReceiveOnce
<1>8. CASE /\ UNCHANGED <<next, inflight, loop, queue, backlog, sent, start>>
           /\ \A s \in Subs : phase'[s] = "new" <=> phase[s] = "new"
           /\ attached' \cup closing' \subseteq attached \cup closing
           /\ attached \cup closing \subseteq Subs
  <2>1. HandsInv'
    BY <1>8 DEF OnceInv, HandsInv, TypeOK
  <2>2. ASSUME NEW s \in Subs PROVE OnceAt(s)'
    <3>1. OnceAt(s)
      BY DEF OnceInv
    <3> QED
      BY <1>8, <3>1, SameOnce
  <2> QED
    BY <2>1, <2>2 DEF OnceInv
<1>9. attached \cup closing \subseteq Subs
  BY DEF TypeOK
<1>10. ASSUME NEW d \in Subs, Close(d) PROVE OnceInv'
  <2>1. \A s \in Subs : phase'[s] = "new" <=> phase[s] = "new"
    BY <1>10 DEF Close, TypeOK
  <2> QED
    BY <1>8, <1>9, <1>10, <2>1 DEF Close
<1>11. ASSUME NEW d \in Subs, LoopCloses(d) \/ CheckDropped(d) \/ Heartbeat(d) PROVE OnceInv'
  BY <1>8, <1>9, <1>11 DEF LoopCloses, CheckDropped, Heartbeat
<1>12. CASE CloseHub
  BY <1>8, <1>9, <1>12 DEF CloseHub
<1>13. CASE UNCHANGED vars
  BY <1>8, <1>9, <1>13 DEF vars
<1>14. 0..(MaxSeq + 1) \cup {NoCursor} \subseteq Cursor
  BY HubAssumption DEF Cursor
<1> QED
  BY <1>1, <1>2, <1>3, <1>4, <1>5, <1>6, <1>7, <1>10, <1>11, <1>12, <1>13, <1>14
     DEF Next, Serve
-----------------------------------------------------------------------------
(* The subscription is still being delivered to.                           *)
Flows(s) == phase[s] = "open" /\ reason[s] = "none"
(* Its client came back with a cursor the catch-up could honour.           *)
Honoured(s) == caught[s].cursor \in Nat /\ caught[s].cursor > 0 /\ ~caught[s].resync
(* The alert after the last one sent, when every frame since the cursor    *)
(* was.                                                                    *)
Expected(s) == caught[s].cursor + Len(sent[s]) + 1

(* With one thread publishing, one number e says where the subscription    *)
(* stands: e is the live alert its client is due next.  Every live alert   *)
(* before e was sent...                                                    *)
Received(s, e) == e >= start[s] /\ e >= 1 /\ \A n \in start[s]..(e - 1) : n \in ToSet(sent[s])

(* ...the queue holds e, e + 1, ..., with sentinels in place of what was   *)
(* not let in...                                                           *)
Queued(s, e) == told[s] = NoCursor => \A i \in 1..Len(queue[s]) : queue[s][i] \in {Sentinel, e + i - 1}

(* ...while alerts flow, queue, loop, the publisher's hands and the next   *)
(* number to be given follow on one another...                             *)
Consecutive(s, e) ==
    Flows(s) =>
        /\ \A i \in 1..Len(queue[s]) : queue[s][i] # Sentinel
        /\ \A i \in 1..Len(loop[s]) : loop[s][i] = e + Len(queue[s]) + i - 1
        /\ \A t \in Publishers : s \in inflight[t].to =>
              /\ inflight[t].seq = e + Len(queue[s]) + Len(loop[s])
              /\ s \in attached => next = inflight[t].seq + 1
        /\ s \in attached /\ (\A t \in Publishers : s \notin inflight[t].to) =>
              next = e + Len(queue[s]) + Len(loop[s])

(* ...the cursor that a drop frame would carry is before e...              *)
Resumes(s, e) == ~caught[s].resync => after[s] < e /\ (told[s] # NoCursor => told[s] < e)

(* ...and the catch-up comes first: the consumer does not wait on its      *)
(* queue before it is sent, and after an honoured cursor sent and backlog  *)
(* run from the cursor to the registration, and from there on to e.        *)
CaughtUp(s, e) ==
    /\ waiting[s] => backlog[s] = {}
    /\ Honoured(s) =>
         /\ \A i \in 1..Len(sent[s]) : sent[s][i] = caught[s].cursor + i
         /\ backlog[s] = Expected(s)..(start[s] - 1)
         /\ IF Expected(s) >= start[s] THEN e = Expected(s) ELSE e = start[s]

(* Where the subscription stands.                                          *)
LineAt(s, e) == Received(s, e) /\ Queued(s, e) /\ Consecutive(s, e) /\ Resumes(s, e) /\ CaughtUp(s, e)

(* The inductive invariant: while one thread alone has published, each     *)
(* subscription stands somewhere.                                          *)
LineInv ==
    SerialPublishing =>
        \A s \in Subs :
            /\ phase[s] = "new" => told[s] = NoCursor /\ ~waiting[s]
            /\ phase[s] # "new" => \E e \in Nat : LineAt(s, e)

(* Sums of lengths.                                                        *)
LEMMA OneMore ==
    ASSUME NEW e \in Nat, NEW a \in Nat, NEW b \in Nat
    PROVE  e + a + b + 1 = e + a + (b + 1)
OBVIOUS

(* An element that moves from one queue to the next.                       *)
LEMMA OneAcross ==
    ASSUME NEW a \in Nat, NEW b \in Nat
    PROVE  (a + 1) + (b - 1) = a + b
OBVIOUS

(* The new alert follows on what is in delivery.                           *)
LEMMA PublishLine ==
    ASSUME TypeOK, OnceInv, SerialPublishing', NEW t \in Publishers, Publish(t),
           NEW s \in Subs, NEW e \in Nat, LineAt(s, e)
    PROVE  LineAt(s, e)'
<1> USE DEF hub, delivery, transport, registration
<1>1. /\ inflight[t].to = {}
      /\ inflight' = [inflight EXCEPT ![t] = [seq |-> next, to |-> attached]]
      /\ inflight \in [Publishers -> [seq : Nat, to : SUBSET Subs]]
      /\ next' = next + 1 /\ next \in Nat \ {0}
      /\ UNCHANGED <<attached, phase, reason, loop, queue, waiting, after, caught, backlog, sent, start, told>>
  BY DEF Publish, TypeOK
<1>2. /\ inflight'[t] = [seq |-> next, to |-> attached]
      /\ \A u \in Publishers : u # t => inflight'[u] = inflight[u]
  BY <1>1
<1>3. \A u \in Publishers : u # t => s \notin inflight[u].to
  <2> SUFFICES ASSUME NEW u \in Publishers, u # t, s \in inflight[u].to PROVE FALSE
    OBVIOUS
  <2>1. inflight[u].seq >= 1 /\ inflight[u].seq \in Nat
    BY <1>1 DEF OnceInv, HandsInv
  <2>2. inflight'[u].seq # 0 /\ inflight'[t].seq # 0
    BY <1>1, <1>2, <2>1
  <2> QED
    BY <2>2 DEF SerialPublishing
<1>4. \A u \in Publishers : s \notin inflight[u].to
  BY <1>1, <1>3
<1>5. Consecutive(s, e)'
  <2>1. Flows(s)' => Flows(s)
    BY <1>1 DEF Flows
  <2>2. Flows(s) /\ s \in attached => next = e + Len(queue[s]) + Len(loop[s])
    BY <1>4 DEF LineAt, Consecutive
  <2>3. \A u \in Publishers : s \in inflight'[u].to => u = t /\ s \in attached /\ inflight'[u].seq = next
    BY <1>2, <1>4
  <2>4. s \in attached => s \in inflight'[t].to
    BY <1>2
  <2> QED
    BY <1>1, <2>1, <2>2, <2>3, <2>4 DEF LineAt, Consecutive
<1>6. Received(s, e)' /\ Queued(s, e)' /\ Resumes(s, e)' /\ CaughtUp(s, e)'
  BY <1>1 DEF LineAt, Received, Queued, Resumes, CaughtUp, Honoured, Expected
<1> QED
  BY <1>5, <1>6 DEF LineAt

(* A step that leaves alone what s holds.                                  *)
LEMMA SameLine ==
    ASSUME TypeOK, NEW s \in Subs, NEW e \in Nat, LineAt(s, e),
           Flows(s)' => Flows(s), UNCHANGED <<next, inflight>>, caught'[s] = caught[s],
           s \in attached' => s \in attached,
           queue'[s] = queue[s], loop'[s] = loop[s] \/ ~Flows(s)',
           waiting'[s] => waiting[s] \/ backlog[s] = {},
           after'[s] = after[s], backlog'[s] = backlog[s], sent'[s] = sent[s],
           start'[s] = start[s], told'[s] = told[s] \/ told'[s] = after[s]
    PROVE  LineAt(s, e)'
<1>1. Received(s, e)'
  BY DEF LineAt, Received
<1>2. Queued(s, e)'
  <2>1. told'[s] = NoCursor => told[s] = NoCursor
    BY HubAssumption DEF TypeOK
  <2> QED
    BY <2>1 DEF LineAt, Queued
<1>3. Consecutive(s, e)'
  BY DEF LineAt, Consecutive
<1>4. Resumes(s, e)'
  BY DEF LineAt, Resumes
<1>5. CaughtUp(s, e)'
  BY DEF LineAt, CaughtUp, Honoured, Expected
<1> QED
  BY <1>1, <1>2, <1>3, <1>4, <1>5 DEF LineAt

(* What the publisher holds for s follows on what is on its loop; a loop   *)
(* that is gone ends the flow.                                             *)
LEMMA DeliverLine ==
    ASSUME TypeOK, OnceInv, SerialPublishing, NEW t \in Publishers, NEW d \in Subs, Deliver(t, d),
           NEW s \in Subs, NEW e \in Nat, LineAt(s, e)
    PROVE  LineAt(s, e)'
<1> USE DEF hub, delivery, transport, registration
<1> DEFINE n == inflight[t].seq
<1>1. /\ d \in inflight[t].to
      /\ inflight' = [inflight EXCEPT ![t].to = inflight[t].to \ {d}]
      /\ inflight \in [Publishers -> [seq : Nat, to : SUBSET Subs]]
      /\ loop \in [Subs -> Seq(Nat)] /\ reason \in [Subs -> Reason] /\ queue[s] \in Seq(Nat)
      /\ n \in Nat /\ next \in Nat
      /\ UNCHANGED <<next, attached, phase, queue, waiting, after, caught, backlog, sent, start, told>>
  BY DEF Deliver, StrikeTarget, TypeOK
<1>2. /\ \A u \in Publishers : inflight'[u].seq = inflight[u].seq
      /\ \A u \in Publishers : u # t => inflight'[u].to = inflight[u].to
      /\ inflight'[t].to = inflight[t].to \ {d}
  BY <1>1
<1>3. Received(s, e)' /\ Queued(s, e)' /\ Resumes(s, e)' /\ CaughtUp(s, e)'
  BY <1>1 DEF LineAt, Received, Queued, Resumes, CaughtUp, Honoured, Expected
<1>4. Consecutive(s, e)'
  <2>1. CASE s # d
    <3>1. loop'[s] = loop[s] /\ reason'[s] = reason[s]
      BY <1>1, <2>1 DEF Deliver
    <3>2. \A u \in Publishers : s \in inflight'[u].to <=> s \in inflight[u].to
      BY <1>2, <2>1
    <3> QED
      BY <1>1, <1>2, <3>1, <3>2 DEF LineAt, Consecutive, Flows
  <2>2. CASE s = d
    <3>1. CASE ~Flows(s)'
      BY <3>1 DEF Consecutive
    <3>2. CASE Flows(s)'
      <4>1. loop'[s] = Append(loop[s], n) /\ Flows(s)
        BY <1>1, <2>2, <3>2 DEF Deliver, Flows
      <4>2. \A u \in Publishers : u # t => s \notin inflight[u].to
        <5> SUFFICES ASSUME NEW u \in Publishers, u # t, s \in inflight[u].to PROVE FALSE
          OBVIOUS
        <5>1. inflight[u].seq >= 1 /\ n >= 1
          BY <1>1, <2>2 DEF OnceInv, HandsInv
        <5>2. inflight[u].seq # 0 /\ n # 0
          BY <1>1, <5>1
        <5> QED
          BY <5>2 DEF SerialPublishing
      <4>3. \A u \in Publishers : s \notin inflight'[u].to
        BY <1>2, <2>2, <4>2
      <4>4. n = e + Len(queue[s]) + Len(loop[s])
        BY <1>1, <2>2, <4>1 DEF LineAt, Consecutive
      <4>5. s \in attached => next = n + 1
        BY <1>1, <2>2, <4>1 DEF LineAt, Consecutive
      <4>6. loop[s] \in Seq(Nat) /\ Len(loop[s]) \in Nat /\ Len(queue[s]) \in Nat
        BY <1>1
      <4>7. Len(loop'[s]) = Len(loop[s]) + 1 /\ loop'[s][Len(loop[s]) + 1] = n
            /\ \A i \in 1..Len(loop[s]) : loop'[s][i] = loop[s][i]
        BY <1>1, <4>1, <4>6
      <4>8. \A i \in 1..Len(loop[s]) : loop[s][i] = e + Len(queue[s]) + i - 1
        BY <4>1 DEF LineAt, Consecutive
      <4>9. \A i \in 1..Len(queue[s]) : queue[s][i] # Sentinel
        BY <4>1 DEF LineAt, Consecutive
      <4>10. \A i \in 1..Len(loop'[s]) : loop'[s][i] = e + Len(queue[s]) + i - 1
        BY <4>4, <4>6, <4>7, <4>8, SMTT(30)
      <4>11. s \in attached => next = e + Len(queue[s]) + Len(loop'[s])
        <5>1. Len(loop'[s]) = Len(loop[s]) + 1
          BY <4>7
        <5>2. e + Len(queue[s]) + Len(loop[s]) + 1 = e + Len(queue[s]) + (Len(loop[s]) + 1)
          BY <4>6, OneMore
        <5> QED
          BY <4>4, <4>5, <5>1, <5>2
      <4> QED
        BY <1>1, <4>3, <4>9, <4>10, <4>11 DEF Consecutive
    <3> QED
      BY <3>1, <3>2
  <2> QED
    BY <2>1, <2>2
<1> QED
  BY <1>3, <1>4 DEF LineAt

(* The head of the loop follows on the queue; a full queue ends the flow.  *)
LEMMA CallbackLine ==
    ASSUME TypeOK, OnceInv, NEW d \in Subs, RunCallback(d),
           NEW s \in Subs, NEW e \in Nat, LineAt(s, e)
    PROVE  LineAt(s, e)'
<1> USE DEF hub, delivery, transport, registration
<1> DEFINE n == Head(loop[d])
<1>1. /\ loop[d] # <<>> /\ loop \in [Subs -> Seq(Nat)] /\ queue \in [Subs -> Seq(Nat)]
      /\ reason \in [Subs -> Reason]
      /\ UNCHANGED <<next, attached, inflight, phase, waiting, after, caught, backlog, sent, start, told>>
  BY DEF RunCallback, TypeOK
<1>2. CASE s # d
  <2>1. loop'[s] = loop[s] /\ queue'[s] = queue[s] /\ reason'[s] = reason[s]
    BY <1>1, <1>2 DEF RunCallback, DropSlow
  <2>2. Flows(s)' => Flows(s)
    BY <1>1, <2>1 DEF Flows
  <2> QED
    BY <1>1, <2>1, <2>2, SameLine
<1>3. CASE s = d
  <2> DEFINE q == queue[s]
             l == loop[s]
  <2>1. /\ q \in Seq(Nat) /\ l \in Seq(Nat) /\ Len(q) \in Nat /\ Len(l) \in Nat \ {0}
        /\ n = l[1] /\ n \in Nat
        /\ Len(Tail(l)) = Len(l) - 1 /\ \A i \in 1..(Len(l) - 1) : Tail(l)[i] = l[i + 1]
    BY <1>1, <1>3
  <2>2. CASE queue'[s] = q /\ ~Flows(s)'
    BY <1>1, <2>2, SameLine
  <2>3. CASE queue'[s] = Append(q, n) /\ loop'[s] = Tail(l) /\ UNCHANGED reason
             /\ (n = Sentinel \/ Flows(s))
    <3>1. Len(queue'[s]) = Len(q) + 1 /\ queue'[s][Len(q) + 1] = n
          /\ \A i \in 1..Len(q) : queue'[s][i] = q[i]
      BY <2>1, <2>3
    <3>2. Flows(s) => n = e + Len(q) /\ n # Sentinel
      BY <2>1 DEF LineAt, Consecutive, Received, Sentinel
    <3>3. Flows(s)' <=> Flows(s)
      BY <1>1, <2>3 DEF Flows
    <3>4. Queued(s, e)'
      <4>1. n \in {Sentinel, e + (Len(q) + 1) - 1}
        BY <2>1, <2>3, <3>2
      <4>2. told[s] = NoCursor => \A i \in 1..Len(q) : q[i] \in {Sentinel, e + i - 1}
        BY DEF LineAt, Queued
      <4>3. told[s] = NoCursor =>
               \A i \in 1..(Len(q) + 1) : queue'[s][i] \in {Sentinel, e + i - 1}
        <5> SUFFICES ASSUME told[s] = NoCursor, NEW i \in 1..(Len(q) + 1)
                     PROVE  queue'[s][i] \in {Sentinel, e + i - 1}
          OBVIOUS
        <5>1. i \in 1..Len(q) \/ i = Len(q) + 1
          BY <2>1
        <5>2. CASE i \in 1..Len(q)
          BY <3>1, <4>2, <5>2
        <5>3. CASE i = Len(q) + 1
          BY <3>1, <4>1, <5>3
        <5> QED
          BY <5>1, <5>2, <5>3
      <4> QED
        BY <1>1, <3>1, <4>3 DEF Queued
    <3>5. Consecutive(s, e)'
      <4> SUFFICES ASSUME Flows(s)
                   PROVE  /\ \A i \in 1..Len(queue'[s]) : queue'[s][i] # Sentinel
                          /\ \A i \in 1..Len(loop'[s]) : loop'[s][i] = e + Len(queue'[s]) + i - 1
                          /\ Len(queue'[s]) + Len(loop'[s]) = Len(q) + Len(l)
        BY <1>1, <2>1, <3>1, <3>3, <2>3, SMTT(30) DEF LineAt, Consecutive
      <4>1. /\ \A i \in 1..Len(q) : q[i] # Sentinel
            /\ \A i \in 1..Len(l) : l[i] = e + Len(q) + i - 1
        BY DEF LineAt, Consecutive
      <4>2. ASSUME NEW i \in 1..(Len(q) + 1) PROVE queue'[s][i] # Sentinel
        <5>1. i \in 1..Len(q) \/ i = Len(q) + 1
          BY <2>1
        <5> QED
          BY <3>1, <3>2, <4>1, <5>1
      <4>3. ASSUME NEW i \in 1..(Len(l) - 1) PROVE Tail(l)[i] = e + (Len(q) + 1) + i - 1
        <5>1. i + 1 \in 1..Len(l) /\ Tail(l)[i] = l[i + 1]
          BY <2>1
        <5>2. l[i + 1] = e + Len(q) + (i + 1) - 1
          BY <4>1, <5>1
        <5> QED
          BY <2>1, <5>1, <5>2
      <4>4. Len(queue'[s]) = Len(q) + 1 /\ loop'[s] = Tail(l) /\ Len(loop'[s]) = Len(l) - 1
        BY <1>1, <1>3, <2>1, <2>3, <3>1
      <4>5. Len(queue'[s]) + Len(loop'[s]) = Len(q) + Len(l)
        <5>1. (Len(q) + 1) + (Len(l) - 1) = Len(q) + Len(l)
          BY <2>1, OneAcross
        <5> QED
          BY <4>4, <5>1
      <4> QED
        BY <4>2, <4>3, <4>4, <4>5
    <3>6. Received(s, e)' /\ Resumes(s, e)' /\ CaughtUp(s, e)'
      BY <1>1 DEF LineAt, Received, Resumes, CaughtUp, Honoured, Expected
    <3> QED
      BY <3>4, <3>5, <3>6 DEF LineAt
  <2>4. CASE Flows(s) /\ n = Sentinel
    BY <2>1, <2>4 DEF LineAt, Consecutive, Received, Sentinel
  <2>5. CASE DropSlow(d) /\ UNCHANGED queue
    <3>1. reason'[s] = "slow_consumer"
      BY <1>1, <1>3, <2>5 DEF DropSlow
    <3> QED
      BY <1>3, <2>2, <2>5, <3>1 DEF Flows
  <2>6. CASE UNCHANGED <<queue, reason>> /\ ~Flows(s)
    BY <1>1, <2>2, <2>6 DEF Flows
  <2> QED
    <3>1. phase[s] \in {"new", "open", "closed"}
      BY DEF TypeOK
    <3>2. CASE ~Flows(s) /\ (phase[d] = "closed" \/ reason[d] # "none")
      BY <1>1, <1>3, <2>3, <2>6, <3>2 DEF RunCallback
    <3>3. CASE phase[d] # "closed" /\ reason[d] = "none"
      <4>1. Flows(s)
        <5>1. phase[s] # "new"
          BY <1>1, <1>3 DEF OnceInv, OnceAt, NewAt
        <5> QED
          BY <1>3, <3>1, <3>3, <5>1 DEF Flows
      <4> QED
        BY <1>1, <1>3, <2>3, <2>4, <2>5, <3>3, <4>1 DEF RunCallback
    <3> QED
      BY <1>3, <3>1, <3>2, <3>3 DEF Flows
<1> QED
  BY <1>2, <1>3

(* A cursor the hub does not refuse is of an alert it published.           *)
LEMMA CursorPublished ==
    ASSUME TypeOK, BufferInv, NEW c \in Nat, ~CatchUp(c).resync
    PROVE  c < next
<1>1. ~Ahead(c) /\ next \in Nat \ {0} /\ Len(buffer) \in Nat /\ buffer \in Seq(Nat \ {0})
  <2>1. ~Ahead(c)
    BY DEF CatchUp
  <2>2. next \in Nat \ {0} /\ buffer \in Seq(Nat \ {0})
    BY DEF TypeOK
  <2> QED
    BY <2>1, <2>2
<1>2. CASE c = 0
  BY <1>1, <1>2
<1>3. CASE c > 0
  <2>1. buffer # <<>> /\ c <= Latest
    <3>1. c # NoCursor /\ Latest # 0 /\ ~(c > Latest)
      BY <1>1, <1>3, HubAssumption DEF Ahead
    <3>2. buffer # <<>>
      BY <3>1 DEF Latest
    <3>3. Latest \in Nat
      BY <1>1, <3>2 DEF Latest
    <3> QED
      BY <3>1, <3>2, <3>3
  <2>2. Latest = next - 1
    BY <1>1, <2>1 DEF BufferInv, Latest
  <2> QED
    BY <1>1, <2>1, <2>2
<1> QED
  BY <1>2, <1>3

(* A new subscription is due the next alert published.                     *)
LEMMA SubscribeLine ==
    ASSUME TypeOK, BufferInv, OnceInv, NEW s \in Subs, NEW c \in Cursor, Subscribe(s, c),
           told[s] = NoCursor, ~waiting[s]
    PROVE  LineAt(s, next)'
<1> USE DEF hub, delivery, transport, registration
<1>1. /\ phase[s] = "new" /\ next \in Nat \ {0}
      /\ caught'[s] = CatchUp(c) /\ backlog'[s] = CatchUp(c).items
      /\ after'[s] = (IF c = NoCursor THEN 0 ELSE c) /\ start'[s] = next
      /\ UNCHANGED <<next, inflight, loop, queue, waiting, sent, told>>
  BY DEF Subscribe, TypeOK
<1>2. queue[s] = <<>> /\ loop[s] = <<>> /\ sent[s] = <<>> /\ \A t \in Publishers : s \notin inflight[t].to
  BY <1>1 DEF OnceInv, OnceAt, NewAt, HandsInv
<1>3. Len(queue'[s]) = 0 /\ Len(loop'[s]) = 0 /\ Len(sent'[s]) = 0
  BY <1>1, <1>2
<1>4. CatchUp(c).cursor = c
  BY DEF CatchUp
<1>5. Received(s, next)'
  BY <1>1 DEF Received
<1>6. Queued(s, next)' /\ Consecutive(s, next)'
  BY <1>1, <1>2, <1>3 DEF Queued, Consecutive
<1>7. Resumes(s, next)'
  <2> SUFFICES ASSUME ~CatchUp(c).resync PROVE after'[s] < next
    BY <1>1 DEF Resumes
  <2>1. CASE c = NoCursor
    BY <1>1, <2>1
  <2>2. CASE c # NoCursor
    BY <1>1, <2>2, CursorPublished DEF Cursor
  <2> QED
    BY <2>1, <2>2
<1>8. CaughtUp(s, next)'
  <2> SUFFICES ASSUME c \in Nat, c > 0, ~CatchUp(c).resync
               PROVE  CatchUp(c).items = (c + 1)..(next - 1) /\ c + 1 <= next
    BY <1>1, <1>3, <1>4 DEF CaughtUp, Honoured, Expected
  <2>1. c < next
    BY CursorPublished
  <2> QED
    BY <1>1, <2>1, CatchUpExact
<1> QED
  BY <1>5, <1>6, <1>7, <1>8 DEF LineAt

(* Sending the least of the catch-up leaves the live alerts alone.         *)
LEMMA SendBacklogLine ==
    ASSUME TypeOK, OnceInv, NEW d \in Subs, SendBacklog(d), NEW s \in Subs, NEW e \in Nat, LineAt(s, e)
    PROVE  LineAt(s, e)'
<1> USE DEF hub, delivery, transport, registration
<1>1. PICK n \in backlog[d] : /\ \A m \in backlog[d] : n <= m
                              /\ backlog' = [backlog EXCEPT ![d] = @ \ {n}]
                              /\ sent' = [sent EXCEPT ![d] = Append(@, n)]
  BY DEF SendBacklog
<1>2. /\ n \in Nat /\ sent \in [Subs -> Seq(Nat)] /\ backlog \in [Subs -> SUBSET Nat]
      /\ start[s] \in Nat
      /\ UNCHANGED <<next, attached, inflight, phase, reason, loop, queue, waiting, after, caught, start, told>>
  BY DEF SendBacklog, TypeOK
<1>3. CASE s # d
  <2>1. sent'[s] = sent[s] /\ backlog'[s] = backlog[s]
    BY <1>1, <1>2, <1>3
  <2>2. Flows(s)' => Flows(s)
    BY <1>2 DEF Flows
  <2> QED
    BY <1>2, <2>1, <2>2, SameLine
<1>4. CASE s = d
  <2>1. /\ sent'[s] = Append(sent[s], n) /\ backlog'[s] = backlog[s] \ {n}
        /\ sent[s] \in Seq(Nat) /\ Len(sent[s]) \in Nat
    BY <1>1, <1>2, <1>4
  <2>2. /\ Len(sent'[s]) = Len(sent[s]) + 1 /\ sent'[s][Len(sent[s]) + 1] = n
        /\ \A i \in 1..Len(sent[s]) : sent'[s][i] = sent[s][i]
    BY <1>2, <2>1
  <2>3. Received(s, e)'
    <3>1. ToSet(sent'[s]) = ToSet(sent[s]) \cup {n}
      <4>1. n \in Nat /\ sent[s] \in Seq(Nat)
        BY <1>2, <2>1
      <4>2. ToSet(Append(sent[s], n)) = ToSet(sent[s]) \cup {n}
        BY <4>1, ElemsAppend
      <4> QED
        BY <2>1, <4>2
    <3>2. Received(s, e) /\ start'[s] = start[s]
      BY <1>2 DEF LineAt
    <3> QED
      BY <3>1, <3>2 DEF Received
  <2>4. Queued(s, e)' /\ Consecutive(s, e)' /\ Resumes(s, e)'
    BY <1>2 DEF LineAt, Queued, Consecutive, Resumes, Flows
  <2>5. CaughtUp(s, e)'
    <3>1. waiting'[s] => backlog'[s] = {}
      BY <1>2, <2>1 DEF LineAt, CaughtUp
    <3>2. ASSUME Honoured(s)
          PROVE  /\ \A i \in 1..Len(sent'[s]) : sent'[s][i] = caught[s].cursor + i
                 /\ backlog'[s] = (Expected(s) + 1)..(start[s] - 1)
                 /\ Expected(s) + 1 <= start[s] /\ e = start[s]
                 /\ Expected(s)' = Expected(s) + 1
      <4> DEFINE c == caught[s].cursor
                 k == Len(sent[s])
      <4>1. c \in Nat /\ k \in Nat /\ Expected(s) = c + k + 1
        BY <2>1, <3>2 DEF Honoured, Expected
      <4>2. /\ \A i \in 1..k : sent[s][i] = c + i
            /\ backlog[s] = (c + k + 1)..(start[s] - 1)
            /\ IF c + k + 1 >= start[s] THEN e = c + k + 1 ELSE e = start[s]
        BY <3>2, <4>1 DEF LineAt, CaughtUp
      <4> HIDE DEF c, k
      <4>3. n = c + k + 1 /\ n <= start[s] - 1
        BY <1>1, <1>2, <1>4, <4>1, <4>2
      <4>4. e = start[s]
        BY <1>2, <4>1, <4>2, <4>3
      <4>5. backlog'[s] = (c + k + 1 + 1)..(start[s] - 1)
        BY <1>2, <2>1, <4>1, <4>2, <4>3
      <4>6. Len(sent'[s]) = k + 1 /\ sent'[s][k + 1] = n
            /\ \A i \in 1..k : sent'[s][i] = sent[s][i]
        BY <2>2 DEF k
      <4>7. Expected(s)' = c + (k + 1) + 1
        BY <1>2, <4>6 DEF Expected, c
      <4>8. ASSUME NEW i \in 1..(k + 1) PROVE sent'[s][i] = c + i
        <5>1. i \in 1..k \/ i = k + 1
          BY <4>1
        <5>2. CASE i = k + 1
          BY <4>1, <4>3, <4>6, <5>2
        <5>3. CASE i \in 1..k
          BY <4>2, <4>6, <5>3
        <5> QED
          BY <5>1, <5>2, <5>3
      <4>9. c + (k + 1) + 1 = c + k + 1 + 1 /\ c + k + 1 + 1 <= start[s]
        BY <1>2, <4>1, <4>3
      <4> QED
        BY <4>1, <4>4, <4>5, <4>6, <4>7, <4>8, <4>9 DEF c
    <3>3. Honoured(s)' => Honoured(s)
      BY <1>2 DEF Honoured
    <3>4. Honoured(s) => Expected(s) \in Nat
      BY <2>1 DEF Honoured, Expected
    <3> QED
      BY <1>2, <3>1, <3>2, <3>3, <3>4 DEF CaughtUp
  <2> QED
    BY <2>3, <2>4, <2>5 DEF LineAt
<1> QED
  BY <1>3, <1>4

(* The head of the queue is the alert that is due, and the one after it is *)
(* due next; a sentinel leaves the cursor where it was.                    *)
LEMMA ReceiveLine ==
    ASSUME TypeOK, OnceInv, NEW d \in Subs, Receive(d), NEW s \in Subs, NEW e \in Nat, LineAt(s, e)
    PROVE  \E f \in Nat : LineAt(s, f)'
<1> USE DEF hub, delivery, transport, registration
<1> DEFINE n == Head(queue[d])
<1>1. /\ queue[d] # <<>> /\ queue' = [queue EXCEPT ![d] = Tail(@)] /\ waiting[d] /\ told[d] = NoCursor
      /\ waiting' = [waiting EXCEPT ![d] = FALSE]
      /\ queue \in [Subs -> Seq(Nat)] /\ sent \in [Subs -> Seq(Nat)] /\ n \in Nat
      /\ waiting \in [Subs -> BOOLEAN] /\ after \in [Subs -> Nat] /\ told \in [Subs -> Cursor]
      /\ loop[s] \in Seq(Nat) /\ start[s] \in Nat /\ next \in Nat
      /\ UNCHANGED <<next, attached, inflight, phase, reason, loop, caught, backlog, start>>
  <2>1. /\ queue \in [Subs -> Seq(Nat)] /\ sent \in [Subs -> Seq(Nat)]
        /\ waiting \in [Subs -> BOOLEAN] /\ after \in [Subs -> Nat] /\ told \in [Subs -> Cursor]
        /\ loop[s] \in Seq(Nat) /\ start[s] \in Nat /\ next \in Nat
    BY DEF TypeOK
  <2>2. queue[d] # <<>> /\ queue[d] \in Seq(Nat)
    BY <2>1 DEF Receive
  <2>3. n \in Nat
    BY <2>2
  <2> QED
    BY <2>1, <2>2, <2>3 DEF Receive, Serving
<1>2. CASE s # d
  <2>1. /\ queue'[s] = queue[s] /\ sent'[s] = sent[s] /\ after'[s] = after[s]
        /\ told'[s] = told[s] /\ waiting'[s] = waiting[s]
    BY <1>1, <1>2 DEF Receive
  <2>2. Flows(s)' => Flows(s)
    BY <1>1 DEF Flows
  <2> QED
    BY <1>1, <2>1, <2>2, SameLine
<1>3. CASE s = d /\ n = Sentinel /\ told' = [told EXCEPT ![d] = after[d]] /\ UNCHANGED <<after, sent>>
  <2>1. ~Flows(s)
    <3>1. Len(queue[s]) \in Nat \ {0} /\ queue[s][1] = Sentinel
      BY <1>1, <1>3
    <3>2. 1 \in 1..Len(queue[s])
      BY <3>1
    <3> QED
      BY <3>1, <3>2 DEF LineAt, Consecutive
  <2>2. told'[s] = after[s] /\ told'[s] # NoCursor /\ ~waiting'[s]
    BY <1>1, <1>3, HubAssumption
  <2>3. Received(s, e)' /\ Queued(s, e)' /\ Consecutive(s, e)' /\ Resumes(s, e)' /\ CaughtUp(s, e)'
    <3>1. Received(s, e)' /\ Queued(s, e)' /\ Resumes(s, e)'
      BY <1>1, <1>3, <2>2 DEF LineAt, Received, Queued, Resumes
    <3>2. Consecutive(s, e)'
      BY <1>1, <2>1 DEF Consecutive, Flows
    <3>3. CaughtUp(s, e)'
      BY <1>1, <1>3, <2>2 DEF LineAt, CaughtUp, Honoured, Expected
    <3> QED
      BY <3>1, <3>2, <3>3
  <2> QED
    BY <2>3 DEF LineAt
<1>4. CASE s = d /\ n # Sentinel /\ after' = [after EXCEPT ![d] = n]
           /\ sent' = [sent EXCEPT ![d] = Append(@, n)] /\ UNCHANGED told
  <2> DEFINE q == queue[s]
             k == Len(sent[s])
             c == caught[s].cursor
  <2>1. /\ q \in Seq(Nat) /\ Len(q) \in Nat \ {0} /\ n = q[1] /\ queue'[s] = Tail(q)
        /\ Len(queue'[s]) = Len(q) - 1 /\ \A i \in 1..(Len(q) - 1) : queue'[s][i] = q[i + 1]
    BY <1>1, <1>4
  <2>2. /\ sent'[s] = Append(sent[s], n) /\ k \in Nat /\ Len(sent'[s]) = k + 1
        /\ sent'[s][k + 1] = n /\ \A i \in 1..k : sent'[s][i] = sent[s][i]
        /\ after'[s] = n /\ ~waiting'[s]
    BY <1>1, <1>4
  <2>3. n = e
    BY <1>1, <1>4, <2>1 DEF LineAt, Queued
  <2>11. start[s] \in Nat
    BY <1>1
  <2>4. e >= start[s] /\ e >= 1 /\ backlog[s] = {}
    BY <1>1, <1>4 DEF LineAt, Received, CaughtUp
  <2>5. Received(s, e + 1)'
    <3>1. ToSet(sent'[s]) = ToSet(sent[s]) \cup {e}
      BY <1>1, <1>4, <2>2, <2>3, ElemsAppend
    <3>2. \A m \in start[s]..(e - 1) : m \in ToSet(sent[s])
      BY DEF LineAt, Received
    <3>3. \A m \in start[s]..e : m \in ToSet(sent'[s])
      BY <1>1, <2>4, <3>1, <3>2
    <3>4. e + 1 >= start[s] /\ e + 1 >= 1 /\ (e + 1) - 1 = e
      BY <1>1, <2>4, SMTT(40)
    <3> QED
      BY <1>1, <3>3, <3>4 DEF Received
  <2>6. Queued(s, e + 1)'
    <3>1. \A i \in 1..Len(q) : q[i] \in {Sentinel, e + i - 1}
      BY <1>1, <1>4 DEF LineAt, Queued
    <3>2. ASSUME NEW i \in 1..(Len(q) - 1) PROVE queue'[s][i] \in {Sentinel, (e + 1) + i - 1}
      <4>1. i + 1 \in 1..Len(q) /\ queue'[s][i] = q[i + 1]
        BY <2>1
      <4>2. q[i + 1] \in {Sentinel, e + (i + 1) - 1}
        BY <3>1, <4>1
      <4>3. e + (i + 1) - 1 = (e + 1) + i - 1
        OBVIOUS
      <4> QED
        BY <4>1, <4>2, <4>3
    <3> QED
      BY <1>1, <1>4, <2>1, <3>2 DEF Queued
  <2>7. Consecutive(s, e + 1)'
    <3> SUFFICES ASSUME Flows(s) PROVE Consecutive(s, e + 1)'
      BY <1>1 DEF Consecutive, Flows
    <3>1. Consecutive(s, e)
      BY DEF LineAt
    <3>2. (e + 1) + Len(queue'[s]) = e + Len(q)
      BY <2>1, OneAcross
    <3>3. ASSUME NEW i \in 1..Len(queue'[s]) PROVE queue'[s][i] # Sentinel
      <4>1. i + 1 \in 1..Len(q) /\ queue'[s][i] = q[i + 1]
        BY <2>1
      <4> QED
        BY <3>1, <4>1 DEF Consecutive
    <3>4. \A i \in 1..Len(loop[s]) : loop[s][i] = e + Len(q) + i - 1
      BY <3>1 DEF Consecutive
    <3>5. \A i \in 1..Len(loop[s]) : loop[s][i] = (e + 1) + Len(queue'[s]) + i - 1
      BY <3>2, <3>4
    <3>6. \A t \in Publishers : s \in inflight[t].to =>
              /\ inflight[t].seq = (e + 1) + Len(queue'[s]) + Len(loop[s])
              /\ s \in attached => next = inflight[t].seq + 1
      BY <3>1, <3>2 DEF Consecutive
    <3>7. s \in attached /\ (\A t \in Publishers : s \notin inflight[t].to) =>
              next = (e + 1) + Len(queue'[s]) + Len(loop[s])
      BY <3>1, <3>2 DEF Consecutive
    <3> QED
      BY <1>1, <3>3, <3>5, <3>6, <3>7 DEF Consecutive
  <2>8. Resumes(s, e + 1)'
    BY <1>1, <1>4, <2>2, <2>3 DEF LineAt, Resumes
  <2>9. CaughtUp(s, e + 1)'
    <3>1. waiting'[s] => backlog'[s] = {}
      BY <2>2
    <3>2. ASSUME Honoured(s)'
          PROVE  /\ \A i \in 1..Len(sent'[s]) : sent'[s][i] = c + i
                 /\ backlog'[s] = Expected(s)'..(start[s] - 1)
                 /\ Expected(s)' >= start[s] /\ e + 1 = Expected(s)'
      <4>1. Honoured(s) /\ c \in Nat /\ k \in Nat /\ Expected(s) = c + k + 1 /\ Expected(s)' = c + (k + 1) + 1
        BY <1>1, <2>2, <3>2 DEF Honoured, Expected
      <4>2. /\ \A i \in 1..k : sent[s][i] = c + i
            /\ backlog[s] = (c + k + 1)..(start[s] - 1)
            /\ IF c + k + 1 >= start[s] THEN e = c + k + 1 ELSE e = start[s]
        BY <4>1 DEF LineAt, CaughtUp
      <4> HIDE DEF c, k
      <4>3. c + k + 1 >= start[s]
        <5> SUFFICES ASSUME ~(c + k + 1 >= start[s]) PROVE FALSE
          OBVIOUS
        <5>1. c + k + 1 \in (c + k + 1)..(start[s] - 1)
          BY <2>11, <4>1
        <5> QED
          BY <2>4, <4>2, <5>1
      <4>4. e = c + k + 1
        BY <4>2, <4>3
      <4>5. ASSUME NEW i \in 1..(k + 1) PROVE sent'[s][i] = c + i
        <5>1. i \in 1..k \/ i = k + 1
          BY <2>2
        <5>2. CASE i = k + 1
          BY <2>2, <2>3, <4>1, <4>4, <5>2
        <5>3. CASE i \in 1..k
          BY <2>2, <4>2, <5>3
        <5> QED
          BY <5>1, <5>2, <5>3
      <4>6. e + 1 = c + (k + 1) + 1 /\ c + (k + 1) + 1 >= start[s]
        BY <2>11, <4>1, <4>3, <4>4
      <4>7. (c + (k + 1) + 1)..(start[s] - 1) = {}
        BY <2>11, <4>1, <4>3
      <4>8. \A i \in 1..Len(sent'[s]) : sent'[s][i] = c + i
        BY <2>2, <4>5
      <4>9. backlog'[s] = {} /\ Expected(s)' = c + (k + 1) + 1
        BY <1>1, <2>4, <4>1
      <4> QED
        BY <4>6, <4>7, <4>8, <4>9
    <3>3. Honoured(s)' => caught'[s].cursor = c
      BY <1>1
    <3> QED
      BY <1>1, <3>1, <3>2, <3>3 DEF CaughtUp
  <2>10. e + 1 \in Nat
    OBVIOUS
  <2> QED
    BY <2>5, <2>6, <2>7, <2>8, <2>9, <2>10 DEF LineAt
<1> QED
  <2>1. s = d \/ s # d
    OBVIOUS
  <2>2. CASE s = d /\ n = Sentinel /\ told' = [told EXCEPT ![d] = ResumeCursor(d)] /\ UNCHANGED <<after, sent>>
    BY <1>3, <2>2 DEF ResumeCursor
  <2> QED
    BY <1>2, <1>4, <2>1, <2>2 DEF Receive

(* A thread that has published once stays one that has.                    *)
LEMMA SerialEarlier ==
    ASSUME TypeOK, [Next]_vars, SerialPublishing'
    PROVE  SerialPublishing
<1> USE DEF hub, delivery, transport, registration
<1> SUFFICES \A t \in Publishers : inflight[t].seq # 0 => inflight'[t].seq # 0
  BY DEF SerialPublishing
<1>1. CASE UNCHANGED inflight
  BY <1>1
<1>2. ASSUME NEW u \in Publishers, Publish(u) \/ \E d \in Subs : Deliver(u, d)
      PROVE  \A t \in Publishers : inflight[t].seq # 0 => inflight'[t].seq # 0
  <2>1. inflight \in [Publishers -> [seq : Nat, to : SUBSET Subs]] /\ next # 0
    BY DEF TypeOK
  <2>2. CASE Publish(u)
    BY <2>1, <2>2 DEF Publish
  <2>3. ASSUME NEW d \in Subs, Deliver(u, d)
        PROVE  \A t \in Publishers : inflight'[t].seq = inflight[t].seq
    <3>1. inflight' = [inflight EXCEPT ![u].to = StrikeTarget(u, d)]
      BY <2>3 DEF Deliver
    <3> QED
      BY <2>1, <3>1
  <2> QED
    BY <1>2, <2>2, <2>3
<1> QED
  BY <1>1, <1>2 DEF Next, vars, CloseHub, Subscribe, MarkShutdown, Close, LoopCloses,
     RunCallback, Serve, SendBacklog, CheckDropped, Receive, Heartbeat

(* Until it subscribes, no step concerns a connection.                     *)
LEMMA NewUntouched ==
    ASSUME TypeOK, [Next]_vars, NEW s \in Subs, phase[s] = "new"
    PROVE  \/ \E c \in Cursor : Subscribe(s, c)
           \/ phase'[s] = "new" /\ told'[s] = told[s] /\ (waiting'[s] => waiting[s])
<1> USE DEF hub, delivery, transport, registration
<1> DEFINE Kept == phase'[s] = "new" /\ told'[s] = told[s] /\ (waiting'[s] => waiting[s])
<1>1. CASE UNCHANGED <<phase, told, waiting>>
  BY <1>1
<1>2. ASSUME NEW d \in Subs, NEW c \in Cursor, Subscribe(d, c), d # s PROVE Kept
  BY <1>2 DEF Subscribe, TypeOK
<1>3. ASSUME NEW d \in Subs, Close(d) \/ CheckDropped(d) \/ Receive(d) \/ Heartbeat(d) PROVE Kept
  <2>1. d # s
    BY <1>3 DEF Close, CheckDropped, Receive, Heartbeat, Serving
  <2>2. phase \in [Subs -> {"new", "open", "closed"}] /\ told \in [Subs -> Cursor] /\ waiting \in [Subs -> BOOLEAN]
    BY DEF TypeOK
  <2> QED
    BY <1>3, <2>1, <2>2 DEF Close, CheckDropped, Receive, Heartbeat
<1>4. 0..(MaxSeq + 1) \cup {NoCursor} \subseteq Cursor
  BY HubAssumption DEF Cursor
<1>5. ASSUME NEW t \in Publishers, Publish(t) PROVE Kept
  BY <1>1, <1>5 DEF Publish
<1>8. ASSUME NEW t \in Publishers, NEW d \in Subs, Deliver(t, d) PROVE Kept
  BY <1>1, <1>8 DEF Deliver
<1>6. ASSUME NEW d \in Subs, MarkShutdown(d) \/ LoopCloses(d) \/ RunCallback(d) \/ SendBacklog(d) PROVE Kept
  BY <1>1, <1>6 DEF MarkShutdown, LoopCloses, RunCallback, SendBacklog
<1>7. ASSUME CloseHub \/ UNCHANGED vars PROVE Kept
  BY <1>1, <1>7 DEF CloseHub, vars
<1> HIDE DEF Kept
<1> SUFFICES ASSUME ~Kept PROVE \E c \in Cursor : Subscribe(s, c)
  BY DEF Kept
<1> QED
  BY <1>2, <1>3, <1>4, <1>5, <1>6, <1>7, <1>8 DEF Next, Serve

(* Every step keeps the invariant.                                         *)
LEMMA NextLine == TypeOK /\ BufferInv /\ OnceInv /\ LineInv /\ [Next]_vars => LineInv'
<1> SUFFICES ASSUME TypeOK, BufferInv, OnceInv, LineInv, [Next]_vars, SerialPublishing', NEW s \in Subs
             PROVE  /\ phase'[s] = "new" => told'[s] = NoCursor /\ ~waiting'[s]
                    /\ phase'[s] # "new" => \E e \in Nat : LineAt(s, e)'
  BY DEF LineInv
<1> USE DEF hub, delivery, transport, registration
<1>1. SerialPublishing
  BY SerialEarlier
<1>2. CASE phase[s] = "new"
  <2>1. told[s] = NoCursor /\ ~waiting[s]
    BY <1>1, <1>2 DEF LineInv
  <2>2. ASSUME NEW c \in Cursor, Subscribe(s, c)
        PROVE  phase'[s] # "new" /\ \E e \in Nat : LineAt(s, e)'
    <3>1. phase'[s] = "open" /\ next \in Nat
      BY <2>2 DEF Subscribe, TypeOK
    <3>2. LineAt(s, next)'
      BY <2>1, <2>2, SubscribeLine
    <3>3. next' = next
      BY <2>2 DEF Subscribe
    <3> QED
      BY <3>1, <3>2, <3>3
  <2> QED
    BY <1>2, <2>1, <2>2, NewUntouched
<1>3. CASE phase[s] # "new"
  <2>1. PICK e \in Nat : LineAt(s, e)
    BY <1>1, <1>3 DEF LineInv
  <2> DEFINE Goal == \E f \in Nat : LineAt(s, f)'
  <2>2. LineAt(s, e)' => Goal
    OBVIOUS
  <2> HIDE DEF Goal
  <2>3. /\ reason \in [Subs -> Reason] /\ phase \in [Subs -> {"new", "open", "closed"}]
        /\ waiting \in [Subs -> BOOLEAN] /\ told \in [Subs -> Cursor] /\ attached \subseteq Subs
        /\ loop \in [Subs -> Seq(Nat)]
    BY DEF TypeOK
  <2>4. ASSUME NEW t \in Publishers, Publish(t) PROVE Goal
    BY <2>1, <2>2, <2>4, PublishLine
  <2>5. ASSUME NEW t \in Publishers, NEW d \in Subs, Deliver(t, d) PROVE Goal
    BY <1>1, <2>1, <2>2, <2>5, DeliverLine
  <2>6. ASSUME NEW d \in Subs, NEW c \in Cursor, Subscribe(d, c) PROVE Goal
    <3>1. s # d
      BY <1>3, <2>6 DEF Subscribe
    <3>2. /\ phase'[s] = phase[s] /\ caught'[s] = caught[s] /\ backlog'[s] = backlog[s]
          /\ after'[s] = after[s] /\ start'[s] = start[s] /\ (s \in attached' => s \in attached)
          /\ UNCHANGED <<next, inflight, reason, loop, queue, waiting, sent, told>>
      BY <2>3, <2>6, <3>1 DEF Subscribe
    <3>3. Flows(s)' => Flows(s)
      BY <3>2 DEF Flows
    <3> QED
      BY <2>1, <2>2, <3>2, <3>3, SameLine
  <2>7. ASSUME NEW d \in Subs, MarkShutdown(d) PROVE Goal
    <3>1. UNCHANGED <<next, attached, inflight, phase, queue, transport, registration>>
      BY <2>7 DEF MarkShutdown
    <3>2. Flows(s)' => Flows(s) /\ s # d
      BY <2>3, <2>7, <3>1 DEF MarkShutdown, Flows
    <3>3. s # d => loop'[s] = loop[s]
      BY <2>3, <2>7 DEF MarkShutdown
    <3> QED
      BY <2>1, <2>2, <3>1, <3>2, <3>3, SameLine
  <2>8. ASSUME NEW d \in Subs, Close(d) PROVE Goal
    <3>1. UNCHANGED <<next, inflight, delivery, after, backlog, sent, told, registration>>
      BY <2>8 DEF Close
    <3>2. /\ Flows(s)' => Flows(s)
          /\ waiting'[s] => waiting[s]
          /\ s \in attached' => s \in attached
      BY <2>3, <2>8, <3>1 DEF Close, Flows
    <3> QED
      BY <2>1, <2>2, <3>1, <3>2, SameLine
  <2>9. ASSUME NEW d \in Subs, RunCallback(d) PROVE Goal
    BY <2>1, <2>2, <2>9, CallbackLine
  <2>10. ASSUME NEW d \in Subs, SendBacklog(d) PROVE Goal
    BY <2>1, <2>2, <2>10, SendBacklogLine
  <2>11. ASSUME NEW d \in Subs, Receive(d) PROVE Goal
    BY <2>1, <2>11, ReceiveLine DEF Goal
  <2>12. ASSUME NEW d \in Subs, CheckDropped(d) PROVE Goal
    <3>1. UNCHANGED <<hub, phase, delivery, after, backlog, sent, registration>>
      BY <2>12 DEF CheckDropped
    <3>2. Flows(s)' => Flows(s)
      BY <3>1 DEF Flows
    <3>3. /\ waiting'[s] => waiting[s] \/ backlog[s] = {}
          /\ told'[s] = told[s] \/ told'[s] = after[s]
      BY <2>3, <2>12 DEF CheckDropped, ResumeCursor
    <3> QED
      BY <2>1, <2>2, <3>1, <3>2, <3>3, SameLine
  <2>13. ASSUME NEW d \in Subs, Heartbeat(d) PROVE Goal
    <3>1. /\ UNCHANGED <<hub, phase, delivery, after, backlog, sent, told, registration>>
          /\ waiting'[s] => waiting[s]
      BY <2>3, <2>13 DEF Heartbeat
    <3>2. Flows(s)' => Flows(s)
      BY <3>1 DEF Flows
    <3> QED
      BY <2>1, <2>2, <3>1, <3>2, SameLine
  <2>14. ASSUME CloseHub \/ (\E d \in Subs : LoopCloses(d)) \/ UNCHANGED vars PROVE Goal
    <3>1. /\ UNCHANGED <<next, inflight, phase, delivery, transport, registration>>
          /\ s \in attached' => s \in attached
      BY <2>14 DEF CloseHub, LoopCloses, vars
    <3>2. Flows(s)' => Flows(s)
      BY <3>1 DEF Flows
    <3> QED
      BY <2>1, <2>2, <3>1, <3>2, SameLine
  <2>15. 0..(MaxSeq + 1) \cup {NoCursor} \subseteq Cursor
    BY HubAssumption DEF Cursor
  <2>16. Goal
    BY <2>4, <2>5, <2>6, <2>7, <2>8, <2>9, <2>10, <2>11, <2>12, <2>13, <2>14, <2>15 DEF Next, Serve
  <2>17. phase'[s] # "new"
    <3>1. CASE UNCHANGED phase
      BY <1>3, <3>1
    <3>2. ASSUME NEW d \in Subs, Close(d) \/ \E c \in Cursor : Subscribe(d, c) PROVE phase'[s] # "new"
      BY <1>3, <2>3, <3>2 DEF Close, Subscribe
    <3> QED
      BY <2>15, <3>1, <3>2 DEF Next, vars, Publish, Deliver, CloseHub, MarkShutdown, LoopCloses,
         RunCallback, Serve, SendBacklog, CheckDropped, Receive, Heartbeat
  <2> QED
    BY <2>16, <2>17 DEF Goal
<1> QED
  BY <1>2, <1>3

(* It holds of a hub without subscriptions.                                *)
LEMMA InitLine == Init => LineInv
BY DEF Init, LineInv

(* It gives the frames without a hole and the true resume cursor.          *)
LEMMA LineImplies ==
    ASSUME TypeOK, OnceInv, LineInv
    PROVE  SerialPublishing => ContiguousFrames /\ ResumePointTrue
<1> SUFFICES ASSUME SerialPublishing PROVE ContiguousFrames /\ ResumePointTrue
  OBVIOUS
<1>1. ContiguousFrames
  <2> SUFFICES ASSUME NEW s \in Subs, phase[s] # "new", Honoured(s), NEW i \in 1..Len(sent[s])
               PROVE  sent[s][i] = caught[s].cursor + i
    BY DEF ContiguousFrames, Honoured
  <2> QED
    BY DEF LineInv, LineAt, CaughtUp
<1>2. ResumePointTrue
  <2> SUFFICES ASSUME NEW s \in Subs, told[s] # NoCursor, ~caught[s].resync,
                      NEW n \in start[s]..told[s]
               PROVE  n \in ToSet(sent[s])
    BY DEF ResumePointTrue
  <2>1. PICK e \in Nat : LineAt(s, e)
    BY DEF LineInv
  <2>2. told[s] < e /\ told[s] \in Nat /\ start[s] \in Nat
    BY <2>1 DEF LineAt, Resumes, TypeOK, Cursor
  <2>3. n \in start[s]..(e - 1)
    BY <2>2
  <2> QED
    BY <2>1, <2>3 DEF LineAt, Received
<1> QED
  BY <1>1, <1>2

(* What a client is sent it is sent once, in whatever order threads, loops *)
(* and transports take their steps.  The rest is said only while one       *)
(* thread alone has ever published, and of cursors that were not refused:  *)
(* the frames after a cursor above 0 are the next numbers without a hole,  *)
(* and the cursor of a drop frame skips nothing sent for since the         *)
(* registration.                                                           *)
THEOREM FramesOnceInOrder == Spec => []DeliveredOnceInOrder
<1>1. Init => OnceInv /\ LineInv
  BY InitOnce, InitLine
<1>2. TypeOK /\ BufferInv /\ (OnceInv /\ LineInv) /\ [Next]_vars => (OnceInv /\ LineInv)'
  BY NextOnce, NextLine
<1>3. TypeOK /\ OnceInv /\ LineInv => DeliveredOnceInOrder
  BY OnceImplies, LineImplies DEF DeliveredOnceInOrder
<1>4. Spec => []BufferInv
  <2>1. BufferInv /\ CatchUpHonest => BufferInv
    OBVIOUS
  <2> QED
    BY <2>1, CatchUpKept, PTL
<1> QED
  BY <1>1, <1>2, <1>3, <1>4, TypeCorrect, PTL DEF Spec
=============================================================================
