------------------------ MODULE AlertStreamClientProofs ------------------------
(***************************************************************************)
(* Proofs about the dashboard's client: whatever breaks, in any order, it  *)
(* holds one socket at most and something will move it on.                 *)
(***************************************************************************)
EXTENDS AlertStreamClient, SequenceTheorems, FiniteSetTheorems, TLAPS

SocketState == [st : {"free", "connecting", "open"}, subscribed : BOOLEAN, after : Cursor,
                live : 0..MaxAlerts, wire : Seq(Frame)]

(* Every other socket was given back; a handle names a timer.              *)
HoldsOne ==
    /\ \A i \in Sockets : i # socket => socks[i] = Free
    /\ pollHandle => pollTimers > 0

(* What each state of a running client owes.  Polling is the fallback's:   *)
(* it ends when the stream is live or the tab is hidden, and begins again  *)
(* in every other case.                                                    *)
Awake ==
    running =>
        /\ state = "live" => silence /\ ~polling
        /\ paused => ~polling
        /\ socket # NoSocket <=> state \in {"connecting", "live"}
        /\ reconnect <=> state = "polling"
        /\ state \in {"polling", "refused"} => polling \/ paused
        /\ polling => pollTimers > 0 \/ polls # <<>>

ClientInv == TypeOK /\ published <= total /\ HoldsOne /\ Awake

LEMMA TwoOf ==
    ASSUME NEW a \in Int, NEW b \in Int
    PROVE  /\ Min({a, b}) = IF a <= b THEN a ELSE b
           /\ Max({a, b}) = IF a <= b THEN b ELSE a
<1>1. CASE a <= b
  BY <1>1 DEF Min, Max
<1>2. CASE ~(a <= b)
  BY <1>2 DEF Min, Max
<1> QED
  BY <1>1, <1>2

LEMMA ClientFacts ==
    /\ MaxAlerts \in Nat \ {0} /\ MaxFaults \in Nat /\ MaxUserActs \in Nat /\ BufferSize \in Nat \ {0}
    /\ Sockets # {} /\ NoSocket \notin Sockets /\ NoCursor \notin Nat /\ NoCursor \in Cursor
    /\ Free \in SocketState /\ Free.st = "free" /\ ~Free.subscribed /\ Free.wire = <<>>
    /\ \A c \in Cursor : c = NoCursor \/ c \in 0..MaxAlerts
BY ClientAssumption DEF Cursor, Free, SocketState

LEMMA LaterIs ==
    ASSUME NEW c \in Cursor, NEW n \in 0..MaxAlerts
    PROVE  LaterOf(c, n) \in Cursor
<1>1. CASE c = NoCursor
  BY <1>1 DEF LaterOf, Cursor
<1>2. CASE c # NoCursor
  <2>1. c \in 0..MaxAlerts /\ c \in Int /\ n \in Int
    BY <1>2, ClientFacts
  <2>2. Max({c, n}) \in {c, n}
    BY <2>1, TwoOf
  <2> QED
    BY <1>2, <2>1, <2>2 DEF LaterOf, Cursor
<1> QED
  BY <1>1, <1>2

(* A poll more in flight; one that was answered.                           *)
LEMMA PollJoins ==
    ASSUME NEW s \in Seq(Cursor), NEW c \in Cursor
    PROVE  Append(s, c) \in Seq(Cursor) /\ Append(s, c) # <<>>
BY AppendProperties, EmptySeq

LEMMA PollLeaves ==
    ASSUME NEW s \in Seq(Cursor), NEW j \in 1..Len(s)
    PROVE  RemoveAt(s, j) \in Seq(Cursor) /\ s[j] \in Cursor
<1>1. Len(s) \in Nat /\ j \in Nat \ {0} /\ j <= Len(s) /\ s[j] \in Cursor
  BY LenProperties, ElementOfSeq
<1>2. SubSeq(s, 1, j - 1) \in Seq(Cursor) /\ SubSeq(s, j + 1, Len(s)) \in Seq(Cursor)
  BY <1>1, SubSeqProperties
<1> QED
  BY <1>1, <1>2, ConcatProperties DEF RemoveAt

(* What the hub hands over is in its buffer, and the newest is in it if    *)
(* anything is.                                                            *)
LEMMA CaughtUp ==
    ASSUME published \in 0..MaxAlerts, NEW c \in Cursor
    PROVE  LET items == Hub!CatchUp(c).items IN
           /\ items \subseteq 1..published
           /\ items # {} => Max(items) \in 0..MaxAlerts
           /\ AlertFrames(items) \in Seq(Frame)
<1> DEFINE k == Min({published, BufferSize})
           items == Hub!CatchUp(c).items
<1>1. k \in Nat /\ k <= published /\ MaxAlerts \in Nat /\ published \in Nat /\ published <= MaxAlerts
      /\ (k = 0 => published = 0)
  BY TwoOf, ClientFacts
<1> HIDE DEF k
<1>2. Buffer = [i \in 1..k |-> published - k + i]
  BY DEF Buffer, k
<1>3. Buffer \in Seq(Nat) /\ Len(Buffer) = k /\ DOMAIN Buffer = 1..k
      /\ \A i \in 1..k : Buffer[i] = published - k + i
  BY <1>1, <1>2
<1>4. ToSet(Buffer) = (published - k + 1)..published
  <2>1. ToSet(Buffer) = {Buffer[i] : i \in 1..k}
    BY <1>3 DEF ToSet
  <2>2. ASSUME NEW n \in (published - k + 1)..published
        PROVE  n \in {Buffer[i] : i \in 1..k}
    <3>1. n - (published - k) \in 1..k /\ published - k + (n - (published - k)) = n
      BY <1>1
    <3> QED
      BY <1>3, <3>1
  <2>3. ASSUME NEW i \in 1..k
        PROVE  Buffer[i] \in (published - k + 1)..published
    BY <1>1, <1>3
  <2> QED
    BY <2>1, <2>2, <2>3
<1>5. items \subseteq ToSet(Buffer) /\ (items # {} => published \in items)
  <2>1. CASE Hub!Behind(c) \/ Hub!Ahead(c)
    <3>1. items = ToSet(Buffer)
      BY <2>1 DEF Hub!CatchUp, Hub!ToSet, ToSet
    <3> QED
      BY <1>1, <1>4, <3>1
  <2>2. CASE ~(Hub!Behind(c) \/ Hub!Ahead(c)) /\ c = NoCursor
    <3>1. items = {}
      BY <2>2 DEF Hub!CatchUp
    <3> QED
      BY <3>1
  <2>3. CASE ~(Hub!Behind(c) \/ Hub!Ahead(c)) /\ c # NoCursor
    <3>1. items = {n \in ToSet(Buffer) : n > c} /\ c \in Nat
      BY <2>3, ClientFacts DEF Hub!CatchUp, Hub!AfterCursor, Hub!ToSet, ToSet
    <3> QED
      BY <1>1, <1>4, <3>1
  <2> QED
    BY <2>1, <2>2, <2>3
<1> HIDE DEF items
<1>6. items \subseteq 1..published
  BY <1>1, <1>4, <1>5
<1>7. ASSUME items # {}
      PROVE  Max(items) \in 0..MaxAlerts
  <2>1. published \in items /\ \A n \in items : published >= n
    BY <1>1, <1>5, <1>6, <1>7
  <2>2. Max(items) \in items
    BY <2>1 DEF Max
  <2>3. Max(items) \in 1..published
    BY <1>6, <2>2
  <2> QED
    BY <1>1, <2>3
<1>8. AlertFrames(items) \in Seq(Frame)
  <2>1. IsFiniteSet((published - k + 1)..published)
        /\ Cardinality((published - k + 1)..published) = k
    <3>1. published - k + 1 \in Int /\ published \in Int
      BY <1>1
    <3>2. published - (published - k + 1) + 1 = k /\ (published - k + 1 > published => k = 0)
      BY <1>1
    <3> QED
      BY <3>1, <3>2, FS_Interval
  <2>2. Cardinality(items) \in Nat /\ Cardinality(items) <= k
    BY <1>4, <1>5, <2>1, FS_Subset, FS_CardinalityType
  <2> DEFINE n == Cardinality(items)
             skipped == Len(Buffer) - n
  <2>3. AlertFrames(items) = [i \in 1..n |-> [kind |-> "alert", n |-> Buffer[skipped + i]]]
    BY DEF AlertFrames
  <2> HIDE DEF n
  <2>4. \A i \in 1..n : Buffer[skipped + i] \in 0..MaxAlerts
    <3> SUFFICES ASSUME NEW i \in 1..n PROVE Buffer[skipped + i] \in 0..MaxAlerts
      OBVIOUS
    <3>1. skipped + i \in 1..k
      BY <1>1, <1>3, <2>2 DEF n
    <3> QED
      BY <1>1, <1>3, <3>1
  <2> HIDE DEF skipped
  <2>5. \A i \in 1..n : [kind |-> "alert", n |-> Buffer[skipped + i]] \in Frame
    BY <2>4 DEF Frame
  <2> QED
    BY <2>2, <2>3, <2>5 DEF n
<1> QED
  BY <1>6, <1>7, <1>8 DEF items
-----------------------------------------------------------------------------
(* Frames that join a wire, leave it, or are lost with its end.            *)
LEMMA WireGrows ==
    ASSUME NEW w \in Seq(Frame), NEW f \in Frame
    PROVE  Append(w, f) \in Seq(Frame)
BY AppendProperties

LEMMA WireShrinks ==
    ASSUME NEW w \in Seq(Frame), w # <<>>
    PROVE  Head(w) \in Frame /\ Tail(w) \in Seq(Frame)
BY HeadTailProperties

LEMMA WireCut ==
    ASSUME NEW w \in Seq(Frame), NEW kept \in 0..Len(w)
    PROVE  SubSeq(w, 1, kept) \in Seq(Frame)
BY SubSeqProperties, LenProperties

LEMMA FrameOf ==
    ASSUME NEW kind \in {"open", "ready", "alert", "dropped", "close"}, NEW n \in 0..MaxAlerts
    PROVE  [kind |-> kind, n |-> n] \in Frame
BY DEF Frame

(* Only the client's own socket has anything to say, and only while the    *)
(* client is connecting or live.                                           *)
LEMMA OnlyTheSocketSpeaks ==
    ASSUME ClientInv, NEW i \in Sockets
    PROVE  /\ socks[i].st # "free" \/ socks[i].subscribed \/ socks[i].wire # <<>> => i = socket
           /\ running /\ i = socket => state \in {"connecting", "live"} /\ ~reconnect
BY ClientFacts DEF ClientInv, HoldsOne, Awake

(* Steps of the server and of the network: nothing but wires and numbers.  *)
LEMMA NetworkSteps ==
    ASSUME ClientInv,
           published' \in 0..MaxAlerts, total' \in 0..MaxAlerts, published' <= total',
           faults' \in 0..MaxFaults, acts' = acts,
           socks' \in [Sockets -> SocketState],
           \A i \in Sockets : i # socket => socks'[i] = socks[i],
           UNCHANGED <<running, state, cursor, socket, timers, fallback, paused, dirty, shown>>
    PROVE  ClientInv'
<1> USE DEF ClientInv, timers, fallback
<1>1. TypeOK'
  BY DEF TypeOK, SocketState
<1>2. HoldsOne'
  BY DEF HoldsOne
<1>3. Awake'
  BY DEF Awake
<1> QED
  BY <1>1, <1>2, <1>3

LEMMA Typed ==
    ASSUME ClientInv
    PROVE  /\ published \in Nat /\ total \in Nat /\ published <= total /\ total <= MaxAlerts
           /\ published \in 0..MaxAlerts /\ faults \in 0..MaxFaults /\ acts \in 0..MaxUserActs
           /\ socks \in [Sockets -> SocketState] /\ cursor \in Cursor
           /\ (Fault => faults' \in 0..MaxFaults)
           /\ (UserAct => acts' \in 0..MaxUserActs)
BY ClientFacts DEF ClientInv, TypeOK, SocketState, Fault, UserAct

LEMMA PublishKeeps ==
    ASSUME ClientInv, NEW slow \in SUBSET Sockets, Publish(slow)
    PROVE  ClientInv'
<1>1. published' \in 0..MaxAlerts /\ total' \in 0..MaxAlerts /\ published' <= total'
      /\ faults' \in 0..MaxFaults
  <2>1. faults' = faults \/ Fault
    BY DEF Publish
  <2>2. published' = published + 1 /\ total' = total + 1 /\ total < MaxAlerts
    BY DEF Publish
  <2> QED
    BY <2>1, <2>2, Typed, ClientFacts
<1>2. ASSUME NEW i \in Sockets
      PROVE  socks'[i] \in SocketState /\ (i # socket => socks'[i] = socks[i])
  <2> DEFINE s == socks[i]
             w == s.wire
             dropped == [kind |-> "dropped", n |-> s.live]
             close == [kind |-> "close", n |-> Transient]
             m == published + 1
             alert == [kind |-> "alert", n |-> m]
  <2>1. /\ s \in SocketState /\ w \in Seq(Frame) /\ s.live \in 0..MaxAlerts
        /\ m \in 0..MaxAlerts
    BY <1>1, Typed DEF SocketState, Publish
  <2>2. dropped \in Frame /\ close \in Frame /\ alert \in Frame
    BY <2>1, ClientFacts, FrameOf DEF Transient
  <2>3. w \o <<dropped, close>> \in Seq(Frame) /\ Append(w, alert) \in Seq(Frame)
    <3>1. <<dropped, close>> \in Seq(Frame)
      BY <2>2
    <3> QED
      BY <2>1, <2>2, <3>1, ConcatProperties, WireGrows
  <2>4. socks'[i] = IF i \in slow
                    THEN [s EXCEPT !.subscribed = FALSE, !.wire = w \o <<dropped, close>>]
                    ELSE IF s.subscribed
                    THEN [s EXCEPT !.live = m, !.wire = Append(w, alert)]
                    ELSE s
    BY DEF Publish
  <2>5. s.subscribed => i = socket
    BY OnlyTheSocketSpeaks
  <2>6. i \in slow => s.subscribed
    BY DEF Publish
  <2>10. s = socks[i]
    OBVIOUS
  <2> HIDE DEF dropped, close, alert, w, m, s
  <2>7. CASE i \in slow
    <3>1. [s EXCEPT !.subscribed = FALSE, !.wire = w \o <<dropped, close>>] \in SocketState
      BY <2>1, <2>3 DEF SocketState
    <3> QED
      BY <2>4, <2>5, <2>6, <2>7, <3>1
  <2>8. CASE i \notin slow /\ s.subscribed
    <3>1. [s EXCEPT !.live = m, !.wire = Append(w, alert)] \in SocketState
      BY <2>1, <2>3 DEF SocketState
    <3> QED
      BY <2>4, <2>5, <2>8, <3>1
  <2>9. CASE i \notin slow /\ ~s.subscribed
    BY <2>1, <2>4, <2>9, <2>10
  <2> QED
    BY <2>7, <2>8, <2>9
<1>3. socks' \in [Sockets -> SocketState]
  <2>1. socks' = [i \in Sockets |-> socks'[i]]
    BY DEF Publish
  <2> QED
    BY <1>2, <2>1
<1> QED
  BY <1>1, <1>2, <1>3, NetworkSteps DEF Publish

(* One socket changes, and it is the client's.                             *)
LEMMA OneSocketChanges ==
    ASSUME ClientInv, NEW i \in Sockets, i = socket, NEW s \in SocketState,
           socks' = [socks EXCEPT ![i] = s]
    PROVE  /\ socks' \in [Sockets -> SocketState]
           /\ \A j \in Sockets : j # socket => socks'[j] = socks[j]
BY Typed

LEMMA AcceptKeeps ==
    ASSUME ClientInv, NEW i \in Sockets, Accept(i)
    PROVE  ClientInv'
<1> DEFINE old == socks[i]
           caught == Hub!CatchUp(old.after)
           open == [kind |-> "open", n |-> 0]
           ready == [kind |-> "ready", n |-> IF caught.resync THEN Resync ELSE Complete]
           alerts == AlertFrames(caught.items)
           live == IF old.after = NoCursor THEN 0 ELSE old.after
           new == [old EXCEPT !.subscribed = TRUE, !.live = live,
                              !.wire = <<open, ready>> \o alerts]
<1>1. old \in SocketState /\ old.after \in Cursor /\ i = socket
  BY Typed, OnlyTheSocketSpeaks DEF Accept, Unanswered, SocketState
<1>2. alerts \in Seq(Frame)
  BY <1>1, Typed, CaughtUp
<1>3. socks' = [socks EXCEPT ![i] = new]
  BY DEF Accept
<1>4. live \in 0..MaxAlerts
  BY <1>1, ClientFacts
<1>5. <<open, ready>> \in Seq(Frame)
  <2>1. open \in Frame
    BY ClientFacts, FrameOf
  <2>2. ready \in Frame
    <3>1. (IF caught.resync THEN Resync ELSE Complete) \in 0..MaxAlerts
      BY ClientFacts DEF Resync, Complete
    <3> QED
      BY <3>1, FrameOf
  <2> QED
    BY <2>1, <2>2
<1>6. new \in SocketState
  <2>1. <<open, ready>> \o alerts \in Seq(Frame)
    BY <1>2, <1>5, ConcatProperties
  <2> HIDE DEF open, ready, alerts, live, old
  <2> QED
    BY <1>1, <1>4, <2>1 DEF SocketState
<1> HIDE DEF new
<1>7. UNCHANGED <<server, running, state, cursor, socket, timers, fallback, paused, dirty,
                  shown, bounds>>
  BY DEF Accept
<1> QED
  BY <1>1, <1>3, <1>6, <1>7, OneSocketChanges, NetworkSteps, Typed DEF server, bounds

(* The same, for a step that changes its wire and perhaps its subscription.*)
LEMMA WireStep ==
    ASSUME ClientInv, NEW i \in Sockets, i = socket, NEW b \in BOOLEAN, NEW w \in Seq(Frame),
           \/ socks' = [socks EXCEPT ![i].wire = w]
           \/ socks' = [socks EXCEPT ![i].subscribed = b, ![i].wire = w],
           faults' \in 0..MaxFaults, server' = server, acts' = acts,
           UNCHANGED <<running, state, cursor, socket, timers, fallback, paused, dirty, shown>>
    PROVE  ClientInv'
<1> DEFINE old == socks[i]
<1>1. old \in SocketState
  BY Typed
<1>2. [old EXCEPT !.wire = w] \in SocketState
      /\ [old EXCEPT !.subscribed = b, !.wire = w] \in SocketState
  BY <1>1 DEF SocketState
<1>3. \/ socks' = [socks EXCEPT ![i] = [old EXCEPT !.wire = w]]
      \/ socks' = [socks EXCEPT ![i] = [old EXCEPT !.subscribed = b, !.wire = w]]
  OBVIOUS
<1> HIDE DEF old
<1>4. socks' \in [Sockets -> SocketState] /\ \A j \in Sockets : j # socket => socks'[j] = socks[j]
  BY <1>2, <1>3, Typed
<1> QED
  BY <1>4, NetworkSteps, Typed DEF server

LEMMA CloseFrames ==
    [kind |-> "open", n |-> 0] \in Frame /\ \A n \in {Terminal, Transient} :
        [kind |-> "close", n |-> n] \in Frame
BY ClientFacts DEF Frame, Terminal, Transient

LEMMA RefuseKeeps ==
    ASSUME ClientInv, NEW i \in Sockets, Refuse(i)
    PROVE  ClientInv'
<1> DEFINE two == <<[kind |-> "open", n |-> 0], [kind |-> "close", n |-> Terminal]>>
           one == <<[kind |-> "close", n |-> Transient]>>
<1>1. two \in Seq(Frame) /\ one \in Seq(Frame)
  BY CloseFrames
<1>2. i = socket
  <2>1. socks[i].st = "connecting"
    BY DEF Refuse, Unanswered
  <2> QED
    BY <2>1, OnlyTheSocketSpeaks
<1>3. socks' = [socks EXCEPT ![i].wire = two] \/ socks' = [socks EXCEPT ![i].wire = one]
  BY DEF Refuse
<1>4. faults' \in 0..MaxFaults
  <2>1. faults' = faults \/ Fault
    BY DEF Refuse
  <2> QED
    BY <2>1, Typed
<1>5. UNCHANGED <<server, running, state, cursor, socket, timers, fallback, paused, dirty,
                  shown, acts>>
  BY DEF Refuse
<1> HIDE DEF two, one
<1>6. CASE socks' = [socks EXCEPT ![i].wire = two]
  BY <1>1, <1>2, <1>4, <1>5, <1>6, WireStep
<1>7. CASE socks' = [socks EXCEPT ![i].wire = one]
  BY <1>1, <1>2, <1>4, <1>5, <1>7, WireStep
<1> QED
  BY <1>3, <1>6, <1>7

LEMMA BreakKeeps ==
    ASSUME ClientInv, NEW i \in Sockets, NEW kept \in 0..(MaxAlerts + 4), Break(i, kept)
    PROVE  ClientInv'
<1> DEFINE old == socks[i].wire
           cut == SubSeq(old, 1, kept)
           closed == Append(cut, [kind |-> "close", n |-> Transient])
<1>1. old \in Seq(Frame) /\ kept \in 0..Len(old)
  BY Typed DEF Break, SocketState
<1>2. cut \in Seq(Frame)
  BY <1>1, WireCut
<1>3. closed \in Seq(Frame)
  BY <1>2, CloseFrames, WireGrows
<1>4. i = socket
  BY OnlyTheSocketSpeaks DEF Break
<1>5. \/ socks' = [socks EXCEPT ![i].subscribed = FALSE, ![i].wire = closed]
      \/ socks' = [socks EXCEPT ![i].subscribed = FALSE, ![i].wire = cut]
  BY Typed DEF Break
<1>6. UNCHANGED <<server, running, state, cursor, socket, timers, fallback, paused, dirty,
                  shown, acts>> /\ faults' \in 0..MaxFaults
  BY Typed DEF Break
<1> HIDE DEF cut, closed, old
<1> QED
  BY <1>2, <1>3, <1>4, <1>5, <1>6, WireStep

LEMMA ServerRestartsKeeps ==
    ASSUME ClientInv, ServerRestarts
    PROVE  ClientInv'
<1>1. ASSUME NEW i \in Sockets
      PROVE  socks'[i] \in SocketState /\ (i # socket => socks'[i] = socks[i])
  <2> DEFINE s == socks[i]
             w == Append(s.wire, [kind |-> "close", n |-> Transient])
  <2>1. s \in SocketState /\ s.wire \in Seq(Frame)
    BY Typed DEF SocketState
  <2>2. w \in Seq(Frame)
    BY <2>1, CloseFrames, WireGrows
  <2>3. socks'[i] = IF s.subscribed THEN [s EXCEPT !.subscribed = FALSE, !.wire = w] ELSE s
    BY DEF ServerRestarts
  <2>4. s.subscribed => i = socket
    BY OnlyTheSocketSpeaks
  <2>5. s = socks[i]
    OBVIOUS
  <2> HIDE DEF s, w
  <2>6. [s EXCEPT !.subscribed = FALSE, !.wire = w] \in SocketState
    BY <2>1, <2>2 DEF SocketState
  <2> QED
    BY <2>1, <2>3, <2>4, <2>5, <2>6
<1>2. socks' \in [Sockets -> SocketState]
  <2>1. socks' = [i \in Sockets |-> socks'[i]]
    BY DEF ServerRestarts
  <2> QED
    BY <1>1, <2>1
<1>3. published' \in 0..MaxAlerts /\ total' \in 0..MaxAlerts /\ published' <= total'
      /\ faults' \in 0..MaxFaults
  <2>1. published' = 0 /\ total' = total /\ Fault
    BY DEF ServerRestarts
  <2> QED
    BY <2>1, Typed, ClientFacts
<1> QED
  BY <1>1, <1>2, <1>3, NetworkSteps DEF ServerRestarts
-----------------------------------------------------------------------------
(* A frame the client takes is its own socket's.                           *)
LEMMA FrameTaken ==
    ASSUME ClientInv, NEW i \in Sockets, NEW kind, NextFrame(i, kind)
    PROVE  /\ i = socket /\ running /\ socket # NoSocket
           /\ state \in {"connecting", "live"} /\ ~reconnect
           /\ Head(socks[i].wire) \in Frame /\ Tail(socks[i].wire) \in Seq(Frame)
<1>1. socks[i].wire \in Seq(Frame) /\ socks[i].wire # <<>> /\ running /\ socks[i].st # "free"
  BY Typed DEF NextFrame, SocketState
<1>2. Head(socks[i].wire) \in Frame /\ Tail(socks[i].wire) \in Seq(Frame)
  BY <1>1, WireShrinks
<1> QED
  BY <1>1, <1>2, OnlyTheSocketSpeaks, ClientFacts

(* The wire is one frame shorter, and every other socket is as it was.     *)
LEMMA WireAfter ==
    ASSUME ClientInv, NEW i \in Sockets, NEW kind, NextFrame(i, kind),
           \/ socks' = [socks EXCEPT ![i].wire = Tail(@)]
           \/ socks' = [socks EXCEPT ![i].st = "open", ![i].wire = Tail(@)]
           \/ socks' = [socks EXCEPT ![i] = Free]
    PROVE  /\ socks' \in [Sockets -> SocketState]
           /\ \A j \in Sockets : j # socket => socks'[j] = Free
           /\ socks' = [socks EXCEPT ![i] = Free] => \A j \in Sockets : socks'[j] = Free
<1> DEFINE old == socks[i]
           w == Tail(old.wire)
<1>1. old \in SocketState /\ w \in Seq(Frame) /\ i = socket
  BY Typed, FrameTaken
<1>2. [old EXCEPT !.wire = w] \in SocketState
      /\ [old EXCEPT !.st = "open", !.wire = w] \in SocketState /\ Free \in SocketState
  BY <1>1, ClientFacts DEF SocketState
<1>3. \/ socks' = [socks EXCEPT ![i] = [old EXCEPT !.wire = w]]
      \/ socks' = [socks EXCEPT ![i] = [old EXCEPT !.st = "open", !.wire = w]]
      \/ socks' = [socks EXCEPT ![i] = Free]
  OBVIOUS
<1>4. \A j \in Sockets : j # socket => socks[j] = Free
  BY DEF ClientInv, HoldsOne
<1> HIDE DEF old, w
<1> QED
  BY <1>1, <1>2, <1>3, <1>4, Typed

LEMMA OnOpenKeeps ==
    ASSUME ClientInv, NEW i \in Sockets, OnOpen(i)
    PROVE  ClientInv'
<1>1. NextFrame(i, "open") /\ socks' = [socks EXCEPT ![i].st = "open", ![i].wire = Tail(@)]
  BY DEF OnOpen
<1>2. /\ socks' \in [Sockets -> SocketState]
      /\ \A j \in Sockets : j # socket => socks'[j] = Free
  BY <1>1, WireAfter
<1>3. running /\ socket # NoSocket /\ ~reconnect
  BY <1>1, FrameTaken
<1>4. TypeOK'
  BY <1>2 DEF ClientInv, TypeOK, SocketState, OnOpen, server, timers, fallback, bounds
<1>5. HoldsOne'
  BY <1>2 DEF ClientInv, HoldsOne, OnOpen, fallback
<1>6. Awake'
  BY <1>3 DEF ClientInv, Awake, OnOpen, timers, fallback
<1> QED
  BY <1>4, <1>5, <1>6 DEF ClientInv, OnOpen, server

LEMMA TimerCleared ==
    ASSUME ClientInv, ClearPollTimer
    PROVE  pollTimers' \in Nat /\ pollHandle' = FALSE
BY DEF ClientInv, TypeOK, HoldsOne, ClearPollTimer

LEMMA OnReadyKeeps ==
    ASSUME ClientInv, NEW i \in Sockets, OnReady(i)
    PROVE  ClientInv'
<1>1. NextFrame(i, "ready") /\ socks' = [socks EXCEPT ![i].wire = Tail(@)]
  BY DEF OnReady
<1>2. /\ socks' \in [Sockets -> SocketState]
      /\ \A j \in Sockets : j # socket => socks'[j] = Free
  BY <1>1, WireAfter
<1>3. running /\ socket # NoSocket /\ ~reconnect
  BY <1>1, FrameTaken
<1>4. pollTimers' \in Nat /\ pollHandle' = FALSE
  BY TimerCleared DEF OnReady
<1>5. TypeOK'
  <2>1. dirty' \in BOOLEAN
    BY DEF ClientInv, TypeOK, OnReady, ReasonToReread
  <2> QED
    BY <1>2, <1>4, <2>1 DEF ClientInv, TypeOK, SocketState, OnReady, server, bounds
<1>6. HoldsOne'
  BY <1>2, <1>4 DEF ClientInv, HoldsOne, OnReady
<1>7. Awake'
  BY <1>3 DEF ClientInv, Awake, OnReady
<1> QED
  BY <1>5, <1>6, <1>7 DEF ClientInv, OnReady, server

(* A frame that carries a sequence moves the cursor and nothing else that  *)
(* the client's next step depends on.                                      *)
LEMMA OnNumberedKeeps ==
    ASSUME ClientInv, NEW i \in Sockets, OnAlert(i) \/ OnDropped(i)
    PROVE  ClientInv'
<1>1. PICK kind : NextFrame(i, kind)
  BY DEF OnAlert, OnDropped
<1>2. socks' = [socks EXCEPT ![i].wire = Tail(@)]
  BY DEF OnAlert, OnDropped
<1>3. /\ socks' \in [Sockets -> SocketState]
      /\ \A j \in Sockets : j # socket => socks'[j] = Free
  BY <1>1, <1>2, WireAfter
<1>4. cursor' \in Cursor
  <2>1. Head(socks[i].wire).n \in 0..MaxAlerts
    BY <1>1, FrameTaken DEF Frame
  <2> QED
    BY <2>1, LaterIs, Typed DEF OnAlert, OnDropped
<1>5. /\ UNCHANGED <<server, running, state, socket, reconnect, fallback, paused, shown, bounds>>
      /\ silence' = TRUE /\ dirty' \in BOOLEAN
  BY DEF OnAlert, OnDropped, ClientInv, TypeOK
<1>6. TypeOK'
  BY <1>3, <1>4, <1>5 DEF ClientInv, TypeOK, SocketState, server, fallback, bounds
<1>7. HoldsOne'
  BY <1>3, <1>5 DEF ClientInv, HoldsOne, fallback
<1>8. Awake'
  BY <1>5 DEF ClientInv, Awake, fallback
<1> QED
  BY <1>5, <1>6, <1>7, <1>8 DEF ClientInv, server

(* Falling back: the client polls, unless the tab is hidden.               *)
LEMMA FallsBack ==
    ASSUME ClientInv, StartPolling
    PROVE  /\ polling' \in BOOLEAN /\ polls' \in Seq(Cursor)
           /\ polling' \/ paused
           /\ polling' => ~paused \/ polling
           /\ polling' => polling \/ polls' # <<>>
           /\ polling => polls' = polls
<1>1. Append(polls, cursor) \in Seq(Cursor) /\ Append(polls, cursor) # <<>>
  BY PollJoins, Typed DEF ClientInv, TypeOK
<1> QED
  BY <1>1 DEF ClientInv, TypeOK, StartPolling

LEMMA OnCloseKeeps ==
    ASSUME ClientInv, NEW i \in Sockets, OnClose(i)
    PROVE  ClientInv'
<1>1. NextFrame(i, "close") /\ socks' = [socks EXCEPT ![i] = Free]
  BY DEF OnClose
<1>2. socks' \in [Sockets -> SocketState] /\ \A j \in Sockets : socks'[j] = Free
  BY <1>1, WireAfter
<1>3. running /\ ~reconnect
  BY <1>1, FrameTaken
<1>4. /\ socket' = NoSocket /\ silence' = FALSE /\ StartPolling
      /\ \/ state' = "refused" /\ reconnect' = FALSE
         \/ state' = "polling" /\ reconnect' = TRUE
  <2>1. reconnect = FALSE
    BY <1>3 DEF ClientInv, TypeOK
  <2> QED
    BY <2>1 DEF OnClose, ScheduleReconnect
<1>5. UNCHANGED <<server, running, cursor, pollTimers, pollHandle, paused, dirty, shown, bounds>>
  BY DEF OnClose
<1>6. TypeOK'
  BY <1>2, <1>4, <1>5, FallsBack DEF ClientInv, TypeOK, SocketState, server, bounds
<1>7. HoldsOne'
  BY <1>2, <1>5 DEF ClientInv, HoldsOne
<1>8. Awake'
  BY <1>3, <1>4, <1>5, FallsBack DEF ClientInv, Awake
<1> QED
  BY <1>5, <1>6, <1>7, <1>8 DEF ClientInv, server
-----------------------------------------------------------------------------
(* The timers of the client.                                               *)
LEMMA AbandonKeeps ==
    ASSUME ClientInv, ConnectTimeout \/ SilenceTimeout
    PROVE  ClientInv'
<1>1. running /\ socket # NoSocket /\ Abandon
  BY DEF ConnectTimeout, SilenceTimeout
<1>2. socket \in Sockets
  BY <1>1 DEF ClientInv, TypeOK
<1>3. socks' \in [Sockets -> SocketState] /\ \A j \in Sockets : socks'[j] = Free
  BY <1>1, <1>2, Typed, ClientFacts DEF Abandon, ClientInv, HoldsOne
<1>4. /\ socket' = NoSocket /\ silence' = FALSE /\ StartPolling
      /\ state' = "polling" /\ reconnect' = TRUE
  BY <1>1 DEF Abandon, ScheduleReconnect
<1>5. UNCHANGED <<server, running, cursor, pollTimers, pollHandle, paused, dirty, shown, bounds>>
  BY <1>1 DEF Abandon
<1>6. TypeOK'
  BY <1>3, <1>4, <1>5, FallsBack DEF ClientInv, TypeOK, SocketState, server, bounds
<1>7. HoldsOne'
  BY <1>3, <1>5 DEF ClientInv, HoldsOne
<1>8. Awake'
  BY <1>1, <1>4, <1>5, FallsBack DEF ClientInv, Awake
<1> QED
  BY <1>5, <1>6, <1>7, <1>8 DEF ClientInv, server

(* A socket opened by a client that had none is the only one.              *)
LEMMA Opens ==
    ASSUME ClientInv, socket = NoSocket, Open
    PROVE  /\ socket' \in Sockets /\ socket' # NoSocket
           /\ socks' \in [Sockets -> SocketState]
           /\ \A j \in Sockets : j # socket' => socks'[j] = Free
<1>1. \A j \in Sockets : socks[j] = Free
  BY ClientFacts DEF ClientInv, HoldsOne
<1>2. socket' \in Sockets
  BY DEF Open
<1> DEFINE new == [Free EXCEPT !.st = "connecting", !.after = cursor]
<1>3. new \in SocketState
  BY Typed, ClientFacts DEF SocketState
<1>4. socks' = [socks EXCEPT ![socket'] = new]
  BY DEF Open, Opened
<1> HIDE DEF new
<1> QED
  BY <1>1, <1>2, <1>3, <1>4, Typed, ClientFacts

LEMMA ReopensKeeps ==
    ASSUME ClientInv, ReconnectFires \/ TokenChanged
    PROVE  ClientInv'
<1>1. /\ running /\ running' = running /\ state' = "connecting" /\ Open
      /\ state \in {"polling", "refused"} /\ reconnect' = FALSE
  BY DEF ReconnectFires, TokenChanged, ClientInv, TypeOK, Awake, timers
<1>2. socket = NoSocket
  BY <1>1 DEF ClientInv, Awake
<1>3. acts' \in 0..MaxUserActs
  BY Typed DEF ReconnectFires, TokenChanged, bounds
<1>4. UNCHANGED <<server, cursor, silence, fallback, paused, dirty, shown, faults>>
  BY DEF ReconnectFires, TokenChanged, timers, bounds
<1>5. TypeOK'
  BY <1>1, <1>2, <1>3, <1>4, Opens DEF ClientInv, TypeOK, SocketState, server, fallback
<1>6. HoldsOne'
  BY <1>1, <1>2, <1>4, Opens DEF ClientInv, HoldsOne, fallback
<1>7. Awake'
  BY <1>1, <1>2, <1>4, Opens DEF ClientInv, Awake, fallback
<1> QED
  BY <1>4, <1>5, <1>6, <1>7 DEF ClientInv, server

(* A step that leaves the sockets and the state of the connection alone.   *)
LEMMA FallbackSteps ==
    ASSUME ClientInv,
           UNCHANGED <<server, socks, running, state, socket, timers, polling, paused, shown, acts>>,
           cursor' \in Cursor, dirty' \in BOOLEAN, faults' \in 0..MaxFaults,
           polls' \in Seq(Cursor), pollTimers' \in Nat, pollHandle' \in BOOLEAN,
           pollHandle' => pollTimers' > 0,
           running /\ polling => pollTimers' > 0 \/ polls' # <<>>
    PROVE  ClientInv'
<1>1. TypeOK'
  BY DEF ClientInv, TypeOK, server, timers
<1>2. HoldsOne'
  BY DEF ClientInv, HoldsOne
<1>3. Awake'
  BY DEF ClientInv, Awake, timers
<1> QED
  BY <1>1, <1>2, <1>3 DEF ClientInv, server

LEMMA PollFiresKeeps ==
    ASSUME ClientInv, PollFires
    PROVE  ClientInv'
<1>1. UNCHANGED <<server, socks, running, state, cursor, socket, timers, polling, paused,
                  dirty, shown, bounds>> /\ pollTimers > 0 /\ running
  BY DEF PollFires
<1>2. polls \in Seq(Cursor) /\ pollTimers \in Nat /\ pollHandle \in BOOLEAN /\ paused \in BOOLEAN
      /\ polling \in BOOLEAN /\ dirty \in BOOLEAN
  BY DEF ClientInv, TypeOK
<1>3. pollTimers > 0 /\ pollTimers \in Nat
  BY DEF PollFires, ClientInv, TypeOK
<1>4. pollTimers - 1 \in Nat
  BY <1>3
<1>5. CASE polling /\ ~paused
  <2>1. polls' = Append(polls, cursor) /\ pollTimers' = pollTimers - 1 /\ pollHandle' = FALSE
    BY <1>5 DEF PollFires
  <2>2. polls' \in Seq(Cursor) /\ polls' # <<>>
    BY <1>2, <2>1, PollJoins, Typed
  <2>3. pollTimers' \in Nat /\ pollHandle' \in BOOLEAN /\ ~pollHandle'
    BY <1>4, <2>1
  <2> QED
    BY <1>1, <1>2, <2>2, <2>3, FallbackSteps, Typed DEF bounds
<1>6. CASE ~(polling /\ ~paused)
  <2>1. /\ pollTimers' = IF state # "live" THEN pollTimers ELSE pollTimers - 1
        /\ pollHandle' = (state # "live")
        /\ polls' = polls
    BY <1>6 DEF PollFires
  <2>2. ~polling
    BY <1>1, <1>6 DEF ClientInv, Awake
  <2>3. pollTimers' \in Nat /\ pollHandle' \in BOOLEAN /\ (pollHandle' => pollTimers' > 0)
    <3>1. CASE state = "live"
      BY <1>4, <2>1, <3>1
    <3>2. CASE state # "live"
      BY <1>3, <2>1, <3>2
    <3> QED
      BY <3>1, <3>2
  <2> QED
    BY <1>1, <1>2, <2>1, <2>2, <2>3, FallbackSteps, Typed DEF bounds
<1> QED
  BY <1>5, <1>6

(* Whatever became of a poll, a client that still polls schedules another. *)
LEMMA Rescheduled ==
    ASSUME ClientInv, SchedulePoll
    PROVE  /\ pollTimers' \in Nat /\ pollHandle' \in BOOLEAN /\ (pollHandle' => pollTimers' > 0)
           /\ running /\ polling => pollTimers' > 0
<1>1. pollTimers \in Nat /\ pollHandle \in BOOLEAN /\ (pollHandle => pollTimers > 0)
  BY DEF ClientInv, TypeOK, HoldsOne
<1>2. running /\ polling => state # "live"
  BY DEF ClientInv, Awake
<1>3. CASE running /\ state # "live"
  <2>1. pollTimers' = pollTimers + 1 /\ pollHandle' = TRUE
    BY <1>3 DEF SchedulePoll
  <2> QED
    BY <1>1, <2>1
<1>4. CASE ~(running /\ state # "live")
  <2>1. pollTimers' = pollTimers /\ pollHandle' = pollHandle
    BY <1>4 DEF SchedulePoll
  <2> QED
    BY <1>1, <1>2, <1>4, <2>1
<1> QED
  BY <1>3, <1>4

LEMMA PollEndsKeeps ==
    ASSUME ClientInv, NEW j \in 1..Len(polls), PollAnswered(j) \/ PollFails(j)
    PROVE  ClientInv'
<1>1. /\ UNCHANGED <<server, socks, running, state, socket, timers, polling, paused, shown, acts>>
      /\ SchedulePoll /\ polls' = RemoveAt(polls, j)
  BY DEF PollAnswered, PollFails, bounds
<1>2. polls' \in Seq(Cursor) /\ polls[j] \in Cursor
  BY <1>1, PollLeaves DEF ClientInv, TypeOK
<1>3. cursor' \in Cursor /\ dirty' \in BOOLEAN /\ faults' \in 0..MaxFaults
  <2>1. CASE PollFails(j)
    BY <2>1, Typed DEF PollFails, ClientInv, TypeOK
  <2>2. CASE PollAnswered(j)
    <3> DEFINE caught == Hub!CatchUp(polls[j])
    <3>1. caught.items # {} => LaterOf(cursor, Max(caught.items)) \in Cursor
      BY <1>2, CaughtUp, LaterIs, Typed
    <3>2. /\ cursor' \in {cursor, LaterOf(cursor, Max(caught.items))}
          /\ caught.items = {} => cursor' = cursor
      BY <2>2 DEF PollAnswered
    <3>3. dirty' \in BOOLEAN
      BY <2>2 DEF PollAnswered, ClientInv, TypeOK
    <3>4. faults' = faults
      BY <2>2 DEF PollAnswered, bounds
    <3> HIDE DEF caught
    <3> QED
      BY <3>1, <3>2, <3>3, <3>4, Typed
  <2> QED
    BY <2>1, <2>2
<1> QED
  BY <1>1, <1>2, <1>3, Rescheduled, FallbackSteps

LEMMA RereadKeeps ==
    ASSUME ClientInv, Reread
    PROVE  ClientInv'
<1>1. TypeOK'
  BY DEF ClientInv, TypeOK, Reread, server, timers, fallback, bounds
<1>2. HoldsOne'
  BY DEF ClientInv, HoldsOne, Reread, fallback
<1>3. Awake'
  BY DEF ClientInv, Awake, Reread, timers, fallback
<1> QED
  BY <1>1, <1>2, <1>3 DEF ClientInv, Reread, server
-----------------------------------------------------------------------------
(* The user hides the tab, looks again, or leaves.                         *)
LEMMA HideKeeps ==
    ASSUME ClientInv, Hide
    PROVE  ClientInv'
<1>1. /\ polling' = FALSE /\ paused' = TRUE /\ ClearPollTimer /\ UserAct
      /\ UNCHANGED <<server, socks, running, state, cursor, socket, timers, polls, dirty, shown,
                     faults>>
  BY DEF Hide
<1>2. pollTimers' \in Nat /\ pollHandle' = FALSE /\ acts' \in 0..MaxUserActs
  BY <1>1, TimerCleared, Typed
<1>3. TypeOK'
  BY <1>1, <1>2 DEF ClientInv, TypeOK, server, timers
<1>4. HoldsOne'
  BY <1>1, <1>2 DEF ClientInv, HoldsOne
<1>5. Awake'
  BY <1>1 DEF ClientInv, Awake, timers
<1> QED
  BY <1>1, <1>3, <1>4, <1>5 DEF ClientInv, server

LEMMA ShowKeeps ==
    ASSUME ClientInv, Show
    PROVE  ClientInv'
<1>1. /\ paused' = FALSE
      /\ UNCHANGED <<server, socks, running, state, cursor, socket, timers, pollTimers, pollHandle,
                     dirty, shown, bounds>>
  BY DEF Show
<1>2. \/ /\ running /\ state # "live" /\ ~polling
         /\ polling' = TRUE /\ polls' = Append(polls, cursor)
      \/ /\ ~(running /\ state # "live" /\ ~polling)
         /\ UNCHANGED <<polling, polls>>
  BY DEF Show
<1>3. Append(polls, cursor) \in Seq(Cursor) /\ Append(polls, cursor) # <<>>
  BY PollJoins, Typed DEF ClientInv, TypeOK
<1>4. TypeOK'
  BY <1>1, <1>2, <1>3 DEF ClientInv, TypeOK, server, timers, bounds
<1>5. HoldsOne'
  BY <1>1 DEF ClientInv, HoldsOne
<1>6. Awake'
  BY <1>1, <1>2, <1>3 DEF ClientInv, Awake, timers
<1> QED
  BY <1>1, <1>4, <1>5, <1>6 DEF ClientInv, server

LEMMA StopKeeps ==
    ASSUME ClientInv, Stop
    PROVE  ClientInv'
<1>1. /\ running' = FALSE /\ silence' = FALSE /\ reconnect' = FALSE /\ ClearPollTimer
      /\ socket' = NoSocket /\ UserAct
      /\ UNCHANGED <<server, state, cursor, polling, polls, paused, dirty, shown, faults>>
  BY DEF Stop
<1>2. pollTimers' \in Nat /\ pollHandle' = FALSE /\ acts' \in 0..MaxUserActs
  BY <1>1, TimerCleared, Typed
<1>3. socks' \in [Sockets -> SocketState] /\ \A j \in Sockets : socks'[j] = Free
  <2>1. CASE socket = NoSocket
    BY <2>1, Typed, ClientFacts DEF Stop, ClientInv, HoldsOne
  <2>2. CASE socket # NoSocket
    <3>1. socks' = [socks EXCEPT ![socket] = Free] /\ socket \in Sockets
      BY <2>2 DEF Stop, ClientInv, TypeOK
    <3> QED
      BY <3>1, Typed, ClientFacts DEF ClientInv, HoldsOne
  <2> QED
    BY <2>1, <2>2
<1>4. TypeOK'
  BY <1>1, <1>2, <1>3 DEF ClientInv, TypeOK, SocketState, server
<1>5. HoldsOne'
  BY <1>2, <1>3 DEF ClientInv, HoldsOne
<1>6. Awake'
  BY <1>1 DEF Awake
<1> QED
  BY <1>1, <1>4, <1>5, <1>6 DEF ClientInv, server
-----------------------------------------------------------------------------
LEMMA StartsAwake ==
    ASSUME Init
    PROVE  ClientInv
<1> DEFINE first == CHOOSE j \in Sockets : TRUE
           new == [Free EXCEPT !.st = "connecting"]
<1>1. first \in Sockets /\ first # NoSocket
  BY ClientFacts
<1>2. socket = first /\ socks = [j \in Sockets |-> IF j = first THEN new ELSE Free]
  BY DEF Init
<1>3. new \in SocketState
  BY ClientFacts DEF SocketState
<1> HIDE DEF first, new
<1>4. /\ socks \in [Sockets -> SocketState] /\ \A i \in Sockets : i # socket => socks[i] = Free
      /\ socket \in Sockets /\ socket # NoSocket
  BY <1>1, <1>2, <1>3, ClientFacts
<1>5. /\ published = 0 /\ total = 0 /\ running = TRUE /\ state = "connecting"
      /\ cursor = NoCursor /\ silence = FALSE /\ reconnect = FALSE
      /\ polling = FALSE /\ paused = FALSE
      /\ pollTimers = 0 /\ pollHandle = FALSE /\ polls = <<>>
      /\ dirty = FALSE /\ shown = 0 /\ faults = 0 /\ acts = 0
  BY DEF Init
<1>6. TypeOK
  <2>1. 0 \in 0..MaxAlerts /\ 0 \in 0..MaxFaults /\ 0 \in 0..MaxUserActs /\ NoCursor \in Cursor
    BY ClientFacts
  <2>2. polls \in Seq(Cursor)
    BY <1>5
  <2> QED
    BY <1>4, <1>5, <2>1, <2>2 DEF TypeOK, SocketState
<1>7. HoldsOne
  BY <1>4, <1>5 DEF HoldsOne
<1>8. Awake
  BY <1>4, <1>5 DEF Awake
<1> QED
  BY <1>5, <1>6, <1>7, <1>8 DEF ClientInv

LEMMA StaysAwake ==
    ASSUME ClientInv, [Next]_vars
    PROVE  ClientInv'
<1>1. ASSUME NEW slow \in SUBSET Sockets, Publish(slow) PROVE ClientInv'
  BY <1>1, PublishKeeps
<1>2. ASSUME NEW i \in Sockets, Accept(i) PROVE ClientInv'
  BY <1>2, AcceptKeeps
<1>3. ASSUME NEW i \in Sockets, Refuse(i) PROVE ClientInv'
  BY <1>3, RefuseKeeps
<1>4. ASSUME NEW i \in Sockets, OnFrame(i) PROVE ClientInv'
  BY <1>4, OnOpenKeeps, OnReadyKeeps, OnNumberedKeeps, OnCloseKeeps DEF OnFrame
<1>5. ASSUME NEW i \in Sockets, NEW kept \in 0..(MaxAlerts + 4), Break(i, kept) PROVE ClientInv'
  BY <1>5, BreakKeeps
<1>6. CASE ServerRestarts
  BY <1>6, ServerRestartsKeeps
<1>7. CASE Timer
  BY <1>7, AbandonKeeps DEF Timer
<1>8. CASE ReconnectFires \/ TokenChanged
  BY <1>8, ReopensKeeps
<1>9. CASE PollFires
  BY <1>9, PollFiresKeeps
<1>10. ASSUME NEW j \in 1..Len(polls), PollAnswered(j) \/ PollFails(j) PROVE ClientInv'
  BY <1>10, PollEndsKeeps
<1>11. CASE Reread
  BY <1>11, RereadKeeps
<1>12. CASE Hide \/ Show \/ Stop
  BY <1>12, HideKeeps, ShowKeeps, StopKeeps
<1>13. CASE UNCHANGED vars
  <2>1. TypeOK'
    BY <1>13 DEF ClientInv, TypeOK, vars
  <2>2. HoldsOne'
    BY <1>13 DEF ClientInv, HoldsOne, vars
  <2>3. Awake'
    BY <1>13 DEF ClientInv, Awake, vars
  <2> QED
    BY <1>13, <2>1, <2>2, <2>3 DEF ClientInv, vars
<1> QED
  BY <1>1, <1>2, <1>3, <1>4, <1>5, <1>6, <1>7, <1>8, <1>9, <1>10, <1>11, <1>12, <1>13 DEF Next

(* The invariant holds of every state of every behaviour.                  *)
LEMMA ClientInvariant == Spec => []ClientInv
<1>1. Init => ClientInv
  BY StartsAwake
<1>2. ClientInv /\ [Next]_vars => ClientInv'
  BY StaysAwake
<1> QED
  BY <1>1, <1>2, PTL DEF Spec

(* Every field of the client, every socket and everything on a wire keeps  *)
(* its type: a frame a browser takes is one the server sent, a cursor is a *)
(* number the hub handed out (AlertStreamClient, realtime.ts:185).         *)
THEOREM ClientTypes == Spec => []TypeOK
<1>1. ClientInv => TypeOK
  BY DEF ClientInv
<1> QED
  BY <1>1, ClientInvariant, PTL

(* Whatever breaks, in whatever order, a running client has what moves it  *)
(* on: a watched socket, a scheduled reconnect, a connection to wait for,  *)
(* or the fallback; a client that polls has a poll scheduled or in flight; *)
(* and no second socket stays open behind this.socket (realtime.ts:2).     *)
THEOREM ClientIsNeverStranded == Spec => []ClientNeverStranded
<1>1. ASSUME ClientInv PROVE PollingHasChain
  BY <1>1 DEF ClientInv, Awake, PollingHasChain
<1>2. ASSUME ClientInv PROVE NeverStranded
  BY <1>2 DEF ClientInv, TypeOK, Awake, NeverStranded
<1>3. ASSUME ClientInv PROVE OneSocket
  <2> DEFINE open == {i \in Sockets : socks[i].st # "free"}
  <2>1. open \subseteq {socket}
    BY <1>3, ClientFacts DEF ClientInv, HoldsOne
  <2>2. IsFiniteSet({socket}) /\ Cardinality({socket}) = 1
    BY FS_Singleton
  <2>3. Cardinality(open) <= 1
    BY <2>1, <2>2, FS_Subset
  <2> QED
    BY <2>3 DEF OneSocket
<1>4. ClientInv => ClientNeverStranded
  BY <1>1, <1>2, <1>3 DEF ClientNeverStranded
<1> QED
  BY <1>4, ClientInvariant, PTL
=============================================================================
