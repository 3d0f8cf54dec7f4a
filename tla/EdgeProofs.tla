------------------------------- MODULE EdgeProofs -------------------------------
(***************************************************************************)
(* Proofs about what stands around the backend's core.  The sensors'       *)
(* heartbeats and the in-process detection engine have their theorems      *)
(* under their own specifications; the other theorems are of EdgeSpec,     *)
(* which sets the parts beside each other: a step of it is a step of each  *)
(* part or leaves it alone (EdgeStep), so the invariant of a part is kept. *)
(***************************************************************************)
EXTENDS MCEdge, MeasureProofs
-----------------------------------------------------------------------------
(* A reporter waits an interval at most.                                   *)
WaitInv ==
    /\ CaptureTypeOK
    /\ \A s \in Sensors : reporter[s].wait <= Interval /\ reporter[s].retry <= Interval

(* How far a running sensor is since it could be recorded: it has not sent *)
(* since, or its expired token has cost it one more wait, or it is in the  *)
(* registry and will send again an interval after it last did.             *)
IsComing(s) ==
    \/ fair[s] + reporter[s].wait <= Interval
    \/ reporter[s].token # "expired" /\ fair[s] + reporter[s].wait <= 2 * Interval
    \/ reporter[s].token # "expired" /\ Known(s) /\ age[s] + reporter[s].wait <= Interval

(* While the backend answers and has room for it, a running sensor is on   *)
(* its way.  A timeout under an interval leaves `fair` no room to count    *)
(* that far.                                                               *)
ComingInv ==
    Interval <= StaleAfter =>
        /\ RunningSensorsRecover
        /\ \A s \in Sensors : reporter[s].running /\ up /\ Room(s) => IsComing(s)

(* Ticks are counted up to the timeout, and one more.                      *)
LEMMA LaterIs ==
    ASSUME NEW n \in Nat
    PROVE  /\ Later(n) \in 0..(StaleAfter + 1) /\ Later(n) <= n + 1
           /\ Later(n) # NoReport /\ StaleAfter \in Nat \ {0} /\ Interval \in Nat \ {0}
<1>1. StaleAfter \in Nat \ {0} /\ Interval \in Nat \ {0}
  BY CaptureHealthAssumption
<1>2. Later(n) = IF n + 1 <= StaleAfter + 1 THEN n + 1 ELSE StaleAfter + 1
  BY <1>1, MinOfTwo DEF Later
<1> QED
  BY <1>1, <1>2 DEF NoReport

(* The types of the constants, and of the one wait that doubles.           *)
LEMMA CaptureConstants ==
    /\ Interval \in Nat \ {0} /\ FirstRetry \in Nat \ {0} /\ StaleAfter \in Nat \ {0}
    /\ FirstRetry <= Interval /\ MaxEvents \in Nat /\ NoReport \in Nat
    /\ NoReport = StaleAfter + 2
    /\ \A n \in Nat \ {0} : NextRetry(n) \in Nat \ {0} /\ NextRetry(n) <= Interval
<1>1. /\ Interval \in Nat \ {0} /\ FirstRetry \in Nat \ {0} /\ StaleAfter \in Nat \ {0}
      /\ FirstRetry <= Interval /\ MaxEvents \in Nat
  BY CaptureHealthAssumption
<1>2. ASSUME NEW n \in Nat \ {0}
      PROVE  NextRetry(n) \in Nat \ {0} /\ NextRetry(n) <= Interval
  <2>1. NextRetry(n) = IF 2 * n <= Interval THEN 2 * n ELSE Interval
    BY <1>1, MinOfTwo DEF NextRetry
  <2> QED
    BY <1>1, <2>1
<1> QED
  BY <1>1, <1>2 DEF NoReport

(* One sensor's heartbeat takes it to zero, and costs at most one stale    *)
(* sensor its place, when the sensor was not known.                        *)
LEMMA RecordedOne ==
    ASSUME CaptureTypeOK, NEW s \in Sensors, Room(s)
    PROVE  /\ Recorded(s) \in [Sensors -> 0..NoReport] /\ Recorded(s)[s] = 0
           /\ \A u \in Sensors \ {s} :
                 \/ Recorded(s)[u] = age[u]
                 \/ Recorded(s)[u] = NoReport /\ Known(u) /\ ~Live(u) /\ ~Known(s)
<1>1. age \in [Sensors -> 0..NoReport] /\ NoReport \in Nat /\ StaleAfter \in Nat
  BY CaptureConstants DEF CaptureTypeOK
<1>2. CASE Known(s) \/ Cardinality(Held) < MaxSensors
  <2>1. Recorded(s) = [age EXCEPT ![s] = 0]
    BY <1>2 DEF Recorded
  <2> QED
    BY <1>1, <2>1
<1>3. CASE ~(Known(s) \/ Cardinality(Held) < MaxSensors)
  <2> DEFINE IsOldest(p) == p \in Held /\ \A q \in Held : age[p] >= age[q]
             old == CHOOSE p \in Held : \A q \in Held : age[p] >= age[q]
  <2>1. PICK o \in Held : ~Live(o)
    BY <1>3 DEF Room
  <2>2. \A q \in Held : q \in Sensors /\ age[q] \in 0..(StaleAfter + 1)
    BY <1>1, CaptureConstants DEF Held, Known
  <2>3. age[o] = StaleAfter + 1
    BY <1>1, <2>1, <2>2 DEF Live, Status, Held
  <2>4. IsOldest(o)
    BY <1>1, <2>1, <2>2, <2>3
  <2>5. IsOldest(old)
    BY <2>1, <2>4
  <2>6. old \in Sensors /\ Known(old) /\ ~Live(old) /\ old # s
    BY <1>1, <1>3, <2>1, <2>2, <2>3, <2>5 DEF Held, Live, Status
  <2>7. Recorded(s) = [age EXCEPT ![s] = 0, ![old] = NoReport]
    BY <1>3 DEF Recorded
  <2> HIDE DEF old
  <2> QED
    BY <1>1, <1>3, <2>6, <2>7
<1> QED
  BY <1>2, <1>3

LEMMA CaptureInitInv == CaptureInit => WaitInv /\ ComingInv
<1> SUFFICES ASSUME CaptureInit PROVE WaitInv /\ ComingInv
  OBVIOUS
<1>1. WaitInv
  BY CaptureConstants DEF CaptureInit, WaitInv, CaptureTypeOK
<1>2. ComingInv
  BY CaptureConstants DEF CaptureInit, ComingInv, RunningSensorsRecover, IsComing
<1> QED
  BY <1>1, <1>2

(* What a reporter is, and what a success and a failure make of it.         *)
Reporter == [wait : Nat, retry : Nat \ {0}, running : BOOLEAN, token : {"none", "good", "expired"}]

LEMMA FailedIs ==
    ASSUME reporter \in [Sensors -> Reporter], NEW s \in Sensors,
           NEW tok \in {"none", "good", "expired"}, Failed(s, tok)
    PROVE  /\ reporter' \in [Sensors -> Reporter]
           /\ reporter'[s].wait = reporter[s].retry
           /\ reporter'[s].retry = NextRetry(reporter[s].retry)
           /\ reporter'[s].token = tok /\ reporter'[s].running = reporter[s].running
           /\ \A u \in Sensors \ {s} : reporter'[u] = reporter[u]
<1>1. NextRetry(reporter[s].retry) \in Nat \ {0}
  BY CaptureConstants DEF Reporter
<1>2. reporter' \in [Sensors -> Reporter]
  BY <1>1, ZenonT(40) DEF Failed, Reporter
<1>3. /\ reporter'[s].wait = reporter[s].retry
      /\ reporter'[s].retry = NextRetry(reporter[s].retry)
      /\ reporter'[s].token = tok /\ reporter'[s].running = reporter[s].running
  BY DEF Failed, Reporter
<1> QED
  BY <1>2, <1>3 DEF Failed

LEMMA DeliveredIs ==
    ASSUME reporter \in [Sensors -> Reporter], NEW s \in Sensors, Delivered(s)
    PROVE  /\ reporter' \in [Sensors -> Reporter]
           /\ reporter'[s].wait = Interval /\ reporter'[s].retry = FirstRetry
           /\ reporter'[s].token = "good" /\ reporter'[s].running = reporter[s].running
           /\ \A u \in Sensors \ {s} : reporter'[u] = reporter[u]
<1>1. reporter' \in [Sensors -> Reporter]
  BY CaptureConstants, ZenonT(40) DEF Delivered, Reporter
<1>2. /\ reporter'[s].wait = Interval /\ reporter'[s].retry = FirstRetry
      /\ reporter'[s].token = "good" /\ reporter'[s].running = reporter[s].running
  BY DEF Delivered, Reporter
<1> QED
  BY <1>1, <1>2 DEF Delivered

(* A heartbeat, delivered or not.                                          *)
LEMMA SendOnceKeeps ==
    ASSUME WaitInv, ComingInv, NEW s \in Sensors, SendOnce(s)
    PROVE  WaitInv' /\ ComingInv'
<1>1. /\ age \in [Sensors -> 0..NoReport] /\ fair \in [Sensors -> 0..(StaleAfter + 1)]
      /\ reporter \in [Sensors -> Reporter]
      /\ reporter[s].running /\ reporter[s].wait = 0 /\ UNCHANGED <<up, fair, events>>
  BY DEF WaitInv, CaptureTypeOK, SendOnce, Due, Reporter
<1>2. /\ reporter[s].retry \in 1..Interval /\ NextRetry(reporter[s].retry) \in 1..Interval
      /\ Interval \in Nat \ {0} /\ StaleAfter \in Nat /\ NoReport = StaleAfter + 2
  BY <1>1, CaptureConstants DEF WaitInv, Reporter
<1>3. CASE UNCHANGED age /\ \E tok \in {"none", "good", "expired"} :
              /\ Failed(s, tok)
              /\ up /\ Room(s) => tok = "none" /\ reporter[s].token = "expired"
  <2>1. PICK tok \in {"none", "good", "expired"} :
            /\ Failed(s, tok)
            /\ up /\ Room(s) => tok = "none" /\ reporter[s].token = "expired"
    BY <1>3
  <2>2. /\ reporter' \in [Sensors -> Reporter]
        /\ reporter'[s].wait = reporter[s].retry
        /\ reporter'[s].retry = NextRetry(reporter[s].retry)
        /\ reporter'[s].token = tok /\ reporter'[s].running = reporter[s].running
        /\ \A u \in Sensors \ {s} : reporter'[u] = reporter[u]
    BY <1>1, <2>1, FailedIs
  <2>3. WaitInv'
    <3>1. CaptureTypeOK'
      BY <1>1, <1>3, <2>2 DEF WaitInv, CaptureTypeOK, Reporter
    <3>2. \A u \in Sensors : reporter'[u].wait <= Interval /\ reporter'[u].retry <= Interval
      BY <1>2, <2>2, CaptureConstants DEF WaitInv
    <3> QED
      BY <3>1, <3>2 DEF WaitInv
  <2>4. \A u \in Sensors : (Live(u)' <=> Live(u)) /\ (Room(u)' <=> Room(u)) /\ (Known(u)' <=> Known(u))
    BY <1>3 DEF Live, Known, Room, Status, Held
  <2>5. ASSUME Interval <= StaleAfter
        PROVE  RunningSensorsRecover'
    BY <1>1, <2>2, <2>4, <2>5 DEF ComingInv, RunningSensorsRecover
  <2>6. ASSUME Interval <= StaleAfter, NEW u \in Sensors, (reporter[u].running /\ up /\ Room(u))'
        PROVE  IsComing(u)'
    <3>1. IsComing(u)
      BY <1>1, <2>2, <2>4, <2>6 DEF ComingInv
    <3>2. CASE u = s
      BY <1>1, <1>2, <2>1, <2>2, <2>4, <2>6, <3>1, <3>2 DEF IsComing
    <3>3. CASE u # s
      BY <1>1, <1>3, <2>2, <2>4, <3>1, <3>3 DEF IsComing
    <3> QED
      BY <3>2, <3>3
  <2> QED
    BY <2>3, <2>5, <2>6 DEF ComingInv
<1>4. CASE Room(s) /\ Delivered(s) /\ age' = Recorded(s)
  <2>1. /\ reporter' \in [Sensors -> Reporter]
        /\ reporter'[s].wait = Interval /\ reporter'[s].retry = FirstRetry
        /\ reporter'[s].token = "good" /\ reporter'[s].running = reporter[s].running
        /\ \A u \in Sensors \ {s} : reporter'[u] = reporter[u]
    BY <1>1, <1>4, DeliveredIs
  <2>2. /\ age' \in [Sensors -> 0..NoReport] /\ age'[s] = 0
        /\ \A u \in Sensors \ {s} :
              \/ age'[u] = age[u]
              \/ age'[u] = NoReport /\ Known(u) /\ ~Live(u) /\ ~Known(s)
    BY <1>4, RecordedOne DEF WaitInv
  <2>3. WaitInv'
    <3>1. CaptureTypeOK'
      BY <1>1, <2>1, <2>2 DEF WaitInv, CaptureTypeOK, Reporter
    <3>2. \A u \in Sensors : reporter'[u].wait <= Interval /\ reporter'[u].retry <= Interval
      BY <1>2, <2>1, CaptureConstants DEF WaitInv
    <3> QED
      BY <3>1, <3>2 DEF WaitInv
  <2>4. Known(s)' /\ Live(s)'
    BY <1>2, <2>2 DEF Known, Live, Status
  <2>5. ASSUME NEW u \in Sensors \ {s}, Live(u)
        PROVE  age'[u] = age[u] /\ Live(u)'
    BY <2>2, <2>5 DEF Live, Known, Status
  <2>6. ASSUME NEW u \in Sensors \ {s}, Room(u)'
        PROVE  Room(u)
    <3>1. CASE Known(s)
      <4>1. \A v \in Sensors : (Known(v)' <=> Known(v)) /\ (Live(v)' => v = s \/ Live(v))
        BY <1>1, <1>2, <2>2, <3>1 DEF Known, Live, Status
      <4>2. Held' = Held
        BY <4>1 DEF Held
      <4>3. (\E o \in Held : ~Live(o))' => \E o \in Held : ~Live(o)
        BY <2>4, <2>5, <4>2 DEF Held
      <4> QED
        BY <2>6, <4>1, <4>2, <4>3 DEF Room
    <3>2. CASE ~Known(s)
      BY <1>4, <3>2 DEF Room
    <3> QED
      BY <3>1, <3>2
  <2>7. ASSUME Interval <= StaleAfter
        PROVE  RunningSensorsRecover'
    BY <1>1, <2>1, <2>4, <2>5, <2>7 DEF ComingInv, RunningSensorsRecover
  <2>8. ASSUME Interval <= StaleAfter, NEW u \in Sensors, (reporter[u].running /\ up /\ Room(u))'
        PROVE  IsComing(u)'
    <3>1. CASE u = s
      BY <1>2, <2>1, <2>2, <2>4, <3>1 DEF IsComing
    <3>2. CASE u # s
      <4>1. IsComing(u)
        BY <1>1, <2>1, <2>6, <2>8, <3>2 DEF ComingInv
      <4>2. Known(u) /\ age[u] + reporter[u].wait <= Interval => Live(u)
        BY <1>1, <1>2, <2>8 DEF Live, Status, Reporter
      <4>3. Live(u) => age'[u] = age[u] /\ Known(u)'
        BY <2>5, <3>2 DEF Live
      <4> QED
        BY <1>1, <2>1, <3>2, <4>1, <4>2, <4>3 DEF IsComing
    <3> QED
      BY <3>1, <3>2
  <2> QED
    BY <2>3, <2>7, <2>8 DEF ComingInv
<1>5. reporter[s].token \in {"none", "good", "expired"}
  BY <1>1 DEF Reporter
<1>6. CASE ~up
  BY <1>3, <1>5, <1>6 DEF SendOnce
<1>7. CASE up /\ reporter[s].token = "expired"
  BY <1>3, <1>7 DEF SendOnce
<1>8. CASE up /\ reporter[s].token # "expired" /\ Room(s)
  BY <1>4, <1>8 DEF SendOnce
<1>9. CASE up /\ reporter[s].token # "expired" /\ ~Room(s)
  BY <1>3, <1>9 DEF SendOnce
<1> QED
  BY <1>6, <1>7, <1>8, <1>9

(* A tick: who is due has sent, and what is counted is counted on.         *)
LEMMA TickKeeps ==
    ASSUME WaitInv, ComingInv, TickOver
    PROVE  WaitInv' /\ ComingInv'
<1>1. /\ age \in [Sensors -> 0..NoReport] /\ fair \in [Sensors -> 0..(StaleAfter + 1)]
      /\ reporter \in [Sensors -> Reporter] /\ UNCHANGED <<up, events>>
      /\ Interval \in Nat \ {0} /\ StaleAfter \in Nat /\ NoReport = StaleAfter + 2
  BY CaptureConstants DEF WaitInv, CaptureTypeOK, TickOver, Reporter
<1>2. /\ age' \in [Sensors -> 0..NoReport] /\ fair' \in [Sensors -> 0..(StaleAfter + 1)]
      /\ \A s \in Sensors : /\ Known(s)' <=> Known(s)
                            /\ Known(s) => age'[s] <= age[s] + 1
                            /\ fair'[s] <= fair[s] + 1 /\ (~(up /\ Room(s)) => fair'[s] = 0)
  <2>1. ASSUME NEW s \in Sensors
        PROVE  /\ age'[s] = IF Known(s) THEN Later(age[s]) ELSE age[s]
               /\ fair'[s] = IF up /\ Room(s) THEN Later(fair[s]) ELSE 0
               /\ age[s] \in Nat /\ fair[s] \in Nat
    BY <1>1 DEF TickOver
  <2>2. ASSUME NEW s \in Sensors
        PROVE  /\ age'[s] \in 0..NoReport /\ fair'[s] \in 0..(StaleAfter + 1)
               /\ Known(s)' <=> Known(s)
               /\ Known(s) => age'[s] <= age[s] + 1
               /\ fair'[s] <= fair[s] + 1 /\ (~(up /\ Room(s)) => fair'[s] = 0)
    BY <1>1, <2>1, LaterIs DEF Known
  <2>3. /\ age' = [s \in Sensors |-> age'[s]] /\ fair' = [s \in Sensors |-> fair'[s]]
    BY DEF TickOver
  <2> QED
    BY <2>2, <2>3
<1>3. /\ reporter' \in [Sensors -> Reporter]
      /\ \A s \in Sensors :
            /\ reporter'[s].retry = reporter[s].retry /\ reporter'[s].token = reporter[s].token
            /\ reporter'[s].running = reporter[s].running
            /\ reporter'[s].wait <= reporter[s].wait
            /\ reporter[s].running => reporter'[s].wait = reporter[s].wait - 1
  <2>1. ASSUME NEW s \in Sensors
        PROVE  /\ reporter'[s] \in Reporter
               /\ reporter'[s].retry = reporter[s].retry /\ reporter'[s].token = reporter[s].token
               /\ reporter'[s].running = reporter[s].running
               /\ reporter'[s].wait <= reporter[s].wait
               /\ reporter[s].running => reporter'[s].wait = reporter[s].wait - 1
    <3>1. CASE reporter[s].running
      <4>1. reporter'[s] = [reporter[s] EXCEPT !.wait = @ - 1] /\ reporter[s].wait # 0
        BY <3>1 DEF TickOver, Due
      <4>2. reporter[s] \in Reporter
        BY <1>1
      <4>3. /\ reporter'[s].wait = reporter[s].wait - 1
            /\ reporter'[s].retry = reporter[s].retry /\ reporter'[s].token = reporter[s].token
            /\ reporter'[s].running = reporter[s].running
        BY <4>1, <4>2 DEF Reporter
      <4>4. reporter'[s] \in Reporter
        BY <4>1, <4>2 DEF Reporter
      <4> QED
        BY <3>1, <4>2, <4>3, <4>4 DEF Reporter
    <3>2. CASE ~reporter[s].running
      BY <1>1, <3>2 DEF TickOver, Reporter
    <3> QED
      BY <3>1, <3>2
  <2>2. reporter' = [s \in Sensors |-> reporter'[s]]
    BY DEF TickOver
  <2> QED
    BY <2>1, <2>2
<1>4. WaitInv'
  <2>1. CaptureTypeOK'
    BY <1>1, <1>2, <1>3 DEF WaitInv, CaptureTypeOK, Reporter
  <2>2. \A s \in Sensors : reporter'[s].wait <= Interval /\ reporter'[s].retry <= Interval
    BY <1>1, <1>3 DEF WaitInv, Reporter
  <2> QED
    BY <2>1, <2>2 DEF WaitInv
<1>5. ASSUME Interval <= StaleAfter, NEW s \in Sensors, reporter[s].running
      PROVE  /\ IsComing(s)' /\ (fair'[s] > 2 * Interval => Live(s)')
  <2>1. /\ reporter[s].wait \in Nat \ {0} /\ reporter'[s].wait = reporter[s].wait - 1
        /\ reporter[s].wait <= Interval /\ reporter'[s].token = reporter[s].token
    BY <1>1, <1>3, <1>5 DEF TickOver, Due, Reporter, WaitInv
  <2>2. /\ age[s] \in Nat /\ age'[s] \in Nat /\ fair[s] \in Nat /\ fair'[s] \in Nat
        /\ (Known(s)' <=> Known(s)) /\ (Known(s) => age'[s] <= age[s] + 1)
        /\ fair'[s] <= fair[s] + 1 /\ (~(up /\ Room(s)) => fair'[s] = 0)
    BY <1>1, <1>2
  <2>3. CASE ~(up /\ Room(s))
    BY <1>1, <2>1, <2>2, <2>3 DEF IsComing
  <2>4. CASE up /\ Room(s)
    <3>1. IsComing(s)
      BY <1>5, <2>4 DEF ComingInv
    <3>2. IsComing(s)'
      BY <1>1, <2>1, <2>2, <3>1 DEF IsComing
    <3>3. ASSUME Known(s), age[s] + reporter[s].wait <= Interval
          PROVE  Live(s)'
      BY <1>1, <1>5, <2>1, <2>2, <3>3 DEF Live, Status
    <3>4. fair'[s] > 2 * Interval => Live(s)'
      BY <1>1, <2>1, <2>2, <3>1, <3>3 DEF IsComing
    <3> QED
      BY <3>2, <3>4
  <2> QED
    BY <2>3, <2>4
<1>6. ComingInv'
  BY <1>3, <1>5 DEF ComingInv, RunningSensorsRecover
<1> QED
  BY <1>4, <1>6

(* An outage, the end of it, an expired token and a stopped sensor.        *)
LEMMA EventKeeps ==
    ASSUME WaitInv, ComingInv,
           \/ BackendDown \/ \E forgot \in BOOLEAN : BackendUp(forgot)
           \/ \E s \in Sensors : TokenExpires(s) \/ SensorStops(s)
    PROVE  WaitInv' /\ ComingInv'
<1>1. /\ age \in [Sensors -> 0..NoReport] /\ fair \in [Sensors -> 0..(StaleAfter + 1)]
      /\ reporter \in [Sensors -> Reporter] /\ events \in 0..MaxEvents /\ up \in BOOLEAN
      /\ Interval \in Nat \ {0} /\ StaleAfter \in Nat /\ NoReport = StaleAfter + 2
      /\ MaxEvents \in Nat
  BY CaptureConstants DEF WaitInv, CaptureTypeOK, Reporter
<1>2. CASE BackendDown
  <2>1. UNCHANGED <<age, reporter, fair>> /\ up' = FALSE /\ events' \in 0..MaxEvents
    BY <1>1, <1>2 DEF BackendDown, Happens
  <2>2. WaitInv'
    BY <2>1 DEF WaitInv, CaptureTypeOK
  <2>3. RunningSensorsRecover => RunningSensorsRecover'
    BY <2>1 DEF RunningSensorsRecover, Live, Known, Status
  <2> QED
    BY <2>1, <2>2, <2>3 DEF ComingInv
<1>3. ASSUME NEW forgot \in BOOLEAN, BackendUp(forgot)
      PROVE  WaitInv' /\ ComingInv'
  <2>1. WaitInv'
    BY <1>1, <1>3 DEF BackendUp, WaitInv, CaptureTypeOK
  <2>2. \A s \in Sensors : fair'[s] = 0 /\ reporter'[s].wait \in Nat /\ reporter'[s].wait <= Interval
    BY <1>1, <1>3, <2>1 DEF BackendUp, WaitInv, Reporter
  <2> QED
    BY <1>1, <2>1, <2>2 DEF ComingInv, RunningSensorsRecover, IsComing
<1>4. ASSUME NEW s \in Sensors, TokenExpires(s)
      PROVE  WaitInv' /\ ComingInv'
  <2>1. /\ reporter' \in [Sensors -> Reporter] /\ fair' \in [Sensors -> 0..(StaleAfter + 1)]
        /\ fair'[s] = 0 /\ events' \in 0..MaxEvents /\ UNCHANGED <<age, up>>
        /\ \A u \in Sensors : /\ reporter'[u].wait = reporter[u].wait
                              /\ reporter'[u].retry = reporter[u].retry
                              /\ reporter'[u].running = reporter[u].running
        /\ \A u \in Sensors \ {s} : reporter'[u] = reporter[u] /\ fair'[u] = fair[u]
    BY <1>1, <1>4 DEF TokenExpires, Happens, Reporter
  <2>2. WaitInv'
    BY <1>1, <2>1 DEF WaitInv, CaptureTypeOK, Reporter
  <2>3. \A u \in Sensors : (Live(u)' <=> Live(u)) /\ (Room(u)' <=> Room(u)) /\ (Known(u)' <=> Known(u))
    BY <2>1 DEF Live, Known, Room, Status, Held
  <2>4. ASSUME Interval <= StaleAfter
        PROVE  RunningSensorsRecover'
    BY <1>1, <2>1, <2>3, <2>4 DEF ComingInv, RunningSensorsRecover
  <2>5. ASSUME Interval <= StaleAfter, NEW u \in Sensors, (reporter[u].running /\ up /\ Room(u))'
        PROVE  IsComing(u)'
    BY <1>1, <2>1, <2>2, <2>3, <2>5 DEF ComingInv, IsComing, WaitInv, Reporter
  <2> QED
    BY <2>2, <2>4, <2>5 DEF ComingInv
<1>5. ASSUME NEW s \in Sensors, SensorStops(s)
      PROVE  WaitInv' /\ ComingInv'
  <2>1. /\ reporter' \in [Sensors -> Reporter] /\ events' \in 0..MaxEvents
        /\ UNCHANGED <<age, up, fair>> /\ ~reporter'[s].running
        /\ reporter'[s].wait = reporter[s].wait /\ reporter'[s].retry = reporter[s].retry
        /\ \A u \in Sensors \ {s} : reporter'[u] = reporter[u]
    <3>1. reporter' = [reporter EXCEPT ![s].running = FALSE]
      BY <1>5 DEF SensorStops
    <3>2. reporter' \in [Sensors -> Reporter]
      BY <1>1, <3>1, ZenonT(40) DEF Reporter
    <3>3. events' \in 0..MaxEvents /\ UNCHANGED <<age, up, fair>>
      BY <1>1, <1>5 DEF SensorStops, Happens
    <3>4. /\ ~reporter'[s].running /\ reporter'[s].wait = reporter[s].wait
          /\ reporter'[s].retry = reporter[s].retry
      BY <1>1, <3>1 DEF Reporter
    <3> QED
      BY <1>1, <3>1, <3>2, <3>3, <3>4
  <2>2. WaitInv'
    BY <1>1, <2>1 DEF WaitInv, CaptureTypeOK, Reporter
  <2>3. \A u \in Sensors : (Live(u)' <=> Live(u)) /\ (Room(u)' <=> Room(u)) /\ (Known(u)' <=> Known(u))
    BY <2>1 DEF Live, Known, Room, Status, Held
  <2>4. \A u \in Sensors : reporter'[u].running => u # s
    BY <2>1
  <2> QED
    BY <2>1, <2>2, <2>3, <2>4 DEF ComingInv, RunningSensorsRecover, IsComing
<1> QED
  BY <1>2, <1>3, <1>4, <1>5

LEMMA CaptureStep == WaitInv /\ ComingInv /\ [CaptureNext]_captureVars => (WaitInv /\ ComingInv)'
<1> SUFFICES ASSUME WaitInv, ComingInv, [CaptureNext]_captureVars
             PROVE  WaitInv' /\ ComingInv'
  OBVIOUS
<1>1. CASE UNCHANGED captureVars
  BY <1>1 DEF captureVars, WaitInv, CaptureTypeOK, ComingInv, RunningSensorsRecover, IsComing,
              Live, Known, Room, Status, Held
<1>2. CASE CaptureNext
  BY <1>2, SendOnceKeeps, TickKeeps, EventKeeps DEF CaptureNext
<1> QED
  BY <1>1, <1>2

LEMMA CaptureInvariant == CaptureSpec => [](WaitInv /\ ComingInv)
BY CaptureStep, CaptureInitInv, PTL DEF CaptureSpec

(* A sensor that runs is reported healthy again within two intervals of    *)
(* the moment the backend answers and has room for it.                     *)
THEOREM SensorsRecover == CaptureSpec => []RunningSensorsRecover
<1>1. WaitInv /\ ComingInv => RunningSensorsRecover
  <2>1. WaitInv /\ ~(Interval <= StaleAfter) => RunningSensorsRecover
    BY CaptureConstants DEF WaitInv, CaptureTypeOK, RunningSensorsRecover
  <2> QED
    BY <2>1 DEF ComingInv
<1> QED
  BY <1>1, CaptureInvariant, PTL
-----------------------------------------------------------------------------
(* The flows drained and not yet scanned.                                  *)
Cycled == IF thread.at = "cycle" THEN thread.flows ELSE <<>>

Numbered(bound) == [n : 1..bound, flow : Flows]
Entries == Seq(Numbered(fed))
Rising(entries) == \A j, k \in DOMAIN entries : j < k => entries[j].n < entries[k].n

(* What was fed goes through the scan, the thread's hand and the buffer in *)
(* the order it was fed; what is behind is newer than all that is ahead.   *)
EngineInv ==
    /\ fed \in 0..MaxFed /\ scanned \in Seq(1..fed) /\ lost \subseteq 1..fed
    /\ thread \in {Stopped, Waiting} \cup [at : {"cycle"}, flows : Entries]
    /\ buffer \in Entries
    /\ Rising(Cycled) /\ Rising(buffer)
    /\ \A j \in DOMAIN Cycled, k \in DOMAIN buffer : Cycled[j].n < buffer[k].n
    /\ \A j \in DOMAIN scanned :
          /\ \A k \in DOMAIN scanned : j < k => scanned[j] < scanned[k]
          /\ \A k \in DOMAIN Cycled : scanned[j] < Cycled[k].n
          /\ \A k \in DOMAIN buffer : scanned[j] < buffer[k].n
    /\ 1..fed = Numbers(buffer) \cup ToSet(scanned) \cup lost \cup Numbers(Cycled)

LEMMA EngineConstants == MaxFed \in Nat /\ MaxBuffer \in Nat \ {0}
BY DetectionEngineAssumption

(* Entries carry numbers up to the bound, and may carry more under a       *)
(* larger one.                                                             *)
LEMMA EntriesAre ==
    ASSUME NEW bound \in Nat, NEW entries \in Seq(Numbered(bound))
    PROVE  /\ Len(entries) \in Nat /\ DOMAIN entries = 1..Len(entries)
           /\ \A k \in DOMAIN entries :
                 entries[k] \in Numbered(bound) /\ entries[k].n \in 1..bound
           /\ entries \in Seq(Numbered(bound + 1))
<1>1. Len(entries) \in Nat /\ DOMAIN entries = 1..Len(entries)
  BY LenProperties
<1>2. \A k \in DOMAIN entries : entries[k] \in Numbered(bound)
  BY <1>1, ElementOfSeq
<1>3. Numbered(bound) \subseteq Numbered(bound + 1)
  BY DEF Numbered
<1> QED
  BY <1>1, <1>2, <1>3, SeqMonotonic DEF Numbered

(* A sequence of numbers, likewise.                                        *)
LEMMA NumbersAre ==
    ASSUME NEW bound \in Nat, NEW s \in Seq(1..bound)
    PROVE  /\ Len(s) \in Nat /\ DOMAIN s = 1..Len(s)
           /\ \A k \in DOMAIN s : s[k] \in 1..bound
           /\ s \in Seq(1..(bound + 1))
<1>1. Len(s) \in Nat /\ DOMAIN s = 1..Len(s)
  BY LenProperties
<1>2. 1..bound \subseteq 1..(bound + 1)
  OBVIOUS
<1> QED
  BY <1>1, <1>2, ElementOfSeq, SeqMonotonic

LEMMA EngineInitInv == EngineInit => EngineInv
<1> SUFFICES ASSUME EngineInit PROVE EngineInv
  OBVIOUS
<1>1. /\ Cycled = <<>> /\ buffer = <<>> /\ scanned = <<>> /\ fed = 0 /\ lost = {}
      /\ thread = Stopped
  BY DEF EngineInit, Cycled, Stopped
<1>2. Numbers(<<>>) = {} /\ ToSet(<<>>) = {}
  BY DEF Numbers, ToSet
<1> QED
  BY <1>1, <1>2, EngineConstants DEF EngineInv, Entries, Rising

(* A flow fed goes behind all the others, and may push out the oldest of   *)
(* them that waits.                                                        *)
LEMMA FeedKeeps ==
    ASSUME EngineInv, NEW f \in Flows, Feed(f)
    PROVE  EngineInv'
<1> DEFINE entry == [n |-> fed + 1, flow |-> f]
           longer == Append(buffer, entry)
<1>1. /\ fed \in Nat /\ fed' = fed + 1 /\ fed' \in 0..MaxFed /\ UNCHANGED <<thread, scanned>>
      /\ 1..fed' = (1..fed) \cup {fed + 1}
  BY EngineConstants DEF EngineInv, Feed
<1>2. /\ Cycled' = Cycled /\ Cycled \in Entries /\ Cycled \in Entries'
      /\ buffer \in Entries /\ buffer \in Entries' /\ scanned' \in Seq(1..fed')
  <2>1. Cycled \in Entries /\ buffer \in Entries /\ scanned \in Seq(1..fed)
    BY EmptySeq DEF EngineInv, Cycled, Stopped, Waiting, Entries
  <2> QED
    BY <1>1, <2>1, EntriesAre, NumbersAre DEF Cycled, Entries, Numbered
<1>3. /\ longer \in Entries' /\ Len(longer) = Len(buffer) + 1
      /\ DOMAIN longer = 1..(Len(buffer) + 1) /\ DOMAIN buffer = 1..Len(buffer)
      /\ Len(buffer) \in Nat /\ longer[Len(buffer) + 1] = entry
      /\ \A k \in DOMAIN buffer : longer[k] = buffer[k] /\ buffer[k].n \in 1..fed
  <2>1. /\ \A k \in DOMAIN buffer : buffer[k].n \in 1..fed
        /\ DOMAIN buffer = 1..Len(buffer) /\ Len(buffer) \in Nat
    BY <1>1, <1>2, EntriesAre DEF Entries
  <2>2. entry \in Numbered(fed')
    BY <1>1 DEF Numbered
  <2>3. /\ longer \in Seq(Numbered(fed')) /\ Len(longer) = Len(buffer) + 1
        /\ longer[Len(buffer) + 1] = entry /\ \A k \in 1..Len(buffer) : longer[k] = buffer[k]
    BY <1>2, <2>2, AppendProperties DEF Entries
  <2> QED
    BY <2>1, <2>3, LenProperties DEF Entries
<1>4. /\ \A j \in DOMAIN Cycled : Cycled[j].n \in 1..fed
      /\ \A j \in DOMAIN scanned : scanned[j] \in 1..fed
  BY <1>1, <1>2, EntriesAre, NumbersAre DEF EngineInv, Entries
<1>5. thread' \in {Stopped, Waiting} \cup [at : {"cycle"}, flows : Entries']
  <2>1. CASE thread.at = "cycle"
    BY <1>1, <1>2, <2>1 DEF EngineInv, Cycled, Stopped, Waiting
  <2>2. CASE thread.at # "cycle"
    BY <1>1, <2>2 DEF EngineInv
  <2> QED
    BY <2>1, <2>2
<1>6. /\ \A j, k \in DOMAIN longer : j < k => longer[j].n < longer[k].n
      /\ \A j \in DOMAIN Cycled, k \in DOMAIN longer : Cycled[j].n < longer[k].n
      /\ \A j \in DOMAIN scanned, k \in DOMAIN longer : scanned[j] < longer[k].n
  <2>1. /\ \A j, k \in DOMAIN buffer : j < k => buffer[j].n < buffer[k].n
        /\ \A j \in DOMAIN Cycled, k \in DOMAIN buffer : Cycled[j].n < buffer[k].n
        /\ \A j \in DOMAIN scanned, k \in DOMAIN buffer : scanned[j] < buffer[k].n
    BY DEF EngineInv, Rising
  <2>2. entry.n = fed + 1
    OBVIOUS
  <2> HIDE DEF longer, entry
  <2>3. \A k \in DOMAIN longer : \/ k \in DOMAIN buffer /\ longer[k] = buffer[k] /\ buffer[k].n \in 1..fed
                                 \/ k = Len(buffer) + 1 /\ longer[k].n = fed + 1
    BY <1>3, <2>2
  <2>4. \A j, k \in DOMAIN longer : j < k => j \in DOMAIN buffer
    BY <1>3
  <2>5. \A j, k \in DOMAIN longer : j < k => longer[j].n < longer[k].n
    BY <1>1, <2>1, <2>3, <2>4, SMTT(40)
  <2>6. \A j \in DOMAIN Cycled, k \in DOMAIN longer : Cycled[j].n < longer[k].n
    BY <1>1, <1>4, <2>1, <2>3
  <2>7. \A j \in DOMAIN scanned, k \in DOMAIN longer : scanned[j] < longer[k].n
    BY <1>1, <1>4, <2>1, <2>3
  <2> QED
    BY <2>5, <2>6, <2>7
<1>7. Numbers(longer) = Numbers(buffer) \cup {fed + 1}
  BY <1>3 DEF Numbers
<1> HIDE DEF longer
<1>8. CASE Len(longer) > MaxBuffer
  <2>1. buffer' = Tail(longer) /\ lost' = lost \cup {Head(longer).n}
    BY <1>8 DEF Feed, longer
  <2>2. /\ buffer' \in Entries'
        /\ DOMAIN buffer' = 1..Len(buffer) /\ \A k \in DOMAIN buffer' : buffer'[k] = longer[k + 1]
        /\ Head(longer) = longer[1] /\ longer[1].n \in 1..fed'
    <3>1. longer # <<>> /\ Head(longer) = longer[1] /\ 1 \in DOMAIN longer
      BY <1>3
    <3>2. longer[1].n \in 1..fed'
      BY <1>1, <1>3, <3>1, EntriesAre DEF Entries
    <3>3. /\ buffer' \in Entries' /\ Len(buffer') = Len(buffer)
          /\ \A k \in 1..Len(buffer') : buffer'[k] = longer[k + 1]
      BY <1>3, <2>1, <3>1, HeadTailProperties DEF Entries
    <3> QED
      BY <1>3, <3>1, <3>2, <3>3, LenProperties DEF Entries
  <2>3. Numbers(longer) = Numbers(buffer') \cup {longer[1].n}
    <3>1. \A k \in DOMAIN longer : k = 1 \/ (k - 1 \in DOMAIN buffer' /\ buffer'[k - 1] = longer[k])
      BY <1>3, <2>2
    <3>2. \A k \in DOMAIN buffer' : k + 1 \in DOMAIN longer /\ buffer'[k] = longer[k + 1]
      BY <1>3, <2>2
    <3>3. 1 \in DOMAIN longer
      BY <1>3
    <3> QED
      BY <3>1, <3>2, <3>3 DEF Numbers
  <2>4. /\ Rising(buffer')
        /\ \A j \in DOMAIN Cycled, k \in DOMAIN buffer' : Cycled[j].n < buffer'[k].n
        /\ \A j \in DOMAIN scanned, k \in DOMAIN buffer' : scanned[j] < buffer'[k].n
    <3>1. \A k \in DOMAIN buffer' : k \in Nat /\ k + 1 \in DOMAIN longer /\ buffer'[k] = longer[k + 1]
      BY <1>3, <2>2
    <3>2. Rising(buffer')
      <4> SUFFICES ASSUME NEW j \in DOMAIN buffer', NEW k \in DOMAIN buffer', j < k
                   PROVE  buffer'[j].n < buffer'[k].n
        BY DEF Rising
      <4>1. j + 1 < k + 1
        BY <3>1
      <4> QED
        BY <1>6, <3>1, <4>1
    <3> QED
      BY <1>6, <3>1, <3>2
  <2>5. 1..fed' = Numbers(buffer') \cup ToSet(scanned) \cup lost' \cup Numbers(Cycled)
    BY <1>1, <1>7, <2>1, <2>2, <2>3 DEF EngineInv
  <2>6. lost' \subseteq 1..fed'
    BY <1>1, <2>1, <2>2 DEF EngineInv
  <2> QED
    BY <1>5, <1>1, <1>2, <2>2, <2>4, <2>5, <2>6 DEF EngineInv
<1>9. CASE ~(Len(longer) > MaxBuffer)
  <2>1. buffer' = longer /\ lost' = lost
    BY <1>9 DEF Feed, longer
  <2>2. 1..fed' = Numbers(buffer') \cup ToSet(scanned) \cup lost' \cup Numbers(Cycled)
    BY <1>1, <1>7, <2>1 DEF EngineInv
  <2> QED
    BY <1>5, <1>1, <1>2, <1>3, <1>6, <2>1, <2>2 DEF EngineInv, Rising
<1> QED
  BY <1>8, <1>9

(* The thread takes the buffer into its empty hand.                        *)
LEMMA DrainKeeps ==
    ASSUME EngineInv, Drain
    PROVE  EngineInv'
<1>1. /\ Cycled = <<>> /\ Cycled' = buffer /\ buffer' = <<>> /\ UNCHANGED <<fed, scanned, lost>>
      /\ thread' = [at |-> "cycle", flows |-> buffer]
  BY DEF Drain, Cycled
<1>2. Numbers(<<>>) = {}
  BY DEF Numbers
<1>3. buffer' \in Entries /\ Entries' = Entries
  BY <1>1 DEF Entries
<1> QED
  BY <1>1, <1>2, <1>3 DEF EngineInv, Rising

(* What is in hand goes behind all that was scanned.                       *)
LEMMA ScanKeeps ==
    ASSUME EngineInv, Scan
    PROVE  EngineInv'
<1> DEFINE line == [k \in DOMAIN thread.flows |-> thread.flows[k].n]
<1>1. /\ Cycled = thread.flows /\ Cycled' = <<>> /\ UNCHANGED <<buffer, fed, lost>>
      /\ thread' = Waiting /\ scanned' = scanned \o line /\ Entries' = Entries
  BY DEF Scan, Cycled, Waiting, Entries
<1>2. /\ Cycled \in Entries /\ fed \in Nat /\ scanned \in Seq(1..fed)
  BY <1>1, EngineConstants DEF EngineInv, Scan, Stopped, Waiting
<1>3. /\ line \in Seq(1..fed)
      /\ DOMAIN line = DOMAIN Cycled /\ \A k \in DOMAIN line : line[k] = Cycled[k].n
  <2>1. /\ Len(Cycled) \in Nat /\ DOMAIN Cycled = 1..Len(Cycled)
        /\ \A k \in DOMAIN Cycled : Cycled[k].n \in 1..fed
    BY <1>2, EntriesAre DEF Entries
  <2>2. line = [k \in 1..Len(Cycled) |-> Cycled[k].n]
    BY <1>1, <2>1
  <2>3. line \in [1..Len(Cycled) -> 1..fed]
    BY <2>1, <2>2
  <2> HIDE DEF line
  <2>4. line \in Seq(1..fed)
    BY <2>1, <2>3, SeqDef
  <2> QED
    BY <2>1, <2>2, <2>4
<1> HIDE DEF line
<1>4. /\ scanned' \in Seq(1..fed) /\ DOMAIN scanned' = 1..(Len(scanned) + Len(line))
      /\ DOMAIN scanned = 1..Len(scanned) /\ DOMAIN line = 1..Len(line)
      /\ Len(scanned) \in Nat /\ Len(line) \in Nat
      /\ \A k \in DOMAIN scanned' :
            scanned'[k] = IF k <= Len(scanned) THEN scanned[k] ELSE line[k - Len(scanned)]
  BY <1>1, <1>2, <1>3, ConcatProperties, LenProperties
<1>5. /\ \A j, k \in DOMAIN line : j < k => line[j] < line[k]
      /\ \A j \in DOMAIN line, k \in DOMAIN buffer : line[j] < buffer[k].n
      /\ \A j \in DOMAIN scanned, k \in DOMAIN line : scanned[j] < line[k]
      /\ \A j, k \in DOMAIN scanned : j < k => scanned[j] < scanned[k]
      /\ \A j \in DOMAIN scanned, k \in DOMAIN buffer : scanned[j] < buffer[k].n
  BY <1>3, ZenonT(40) DEF EngineInv, Rising
<1>6. \A k \in DOMAIN scanned' : \/ k \in DOMAIN scanned /\ scanned'[k] = scanned[k]
                                \/ /\ k - Len(scanned) \in DOMAIN line /\ k > Len(scanned)
                                   /\ scanned'[k] = line[k - Len(scanned)]
  BY <1>4
<1>7. \A j, k \in DOMAIN scanned' : j < k => scanned'[j] < scanned'[k]
  <2> SUFFICES ASSUME NEW j \in DOMAIN scanned', NEW k \in DOMAIN scanned', j < k
               PROVE  scanned'[j] < scanned'[k]
    OBVIOUS
  <2> QED
    BY <1>4, <1>5, <1>6
<1>8. \A j \in DOMAIN scanned', k \in DOMAIN buffer : scanned'[j] < buffer[k].n
  BY <1>5, <1>6
<1>9. ToSet(scanned') = ToSet(scanned) \cup Numbers(Cycled)
  <2>1. \A k \in DOMAIN scanned : k \in DOMAIN scanned' /\ scanned'[k] = scanned[k]
    BY <1>4
  <2>2. \A k \in DOMAIN line : k + Len(scanned) \in DOMAIN scanned' /\ scanned'[k + Len(scanned)] = line[k]
    BY <1>4
  <2> QED
    BY <1>3, <1>6, <2>1, <2>2 DEF ToSet, Numbers
<1>10. Numbers(<<>>) = {}
  BY DEF Numbers
<1>11. 1..fed = Numbers(buffer) \cup ToSet(scanned') \cup lost \cup Numbers(<<>>)
  BY <1>9, <1>10 DEF EngineInv
<1> QED
  BY <1>1, <1>4, <1>7, <1>8, <1>11, SMTT(40) DEF EngineInv, Rising

(* A cycle that raises loses what is in hand.                              *)
LEMMA CycleFailsKeeps ==
    ASSUME EngineInv, CycleFails
    PROVE  EngineInv'
<1>1. /\ Cycled = thread.flows /\ Cycled' = <<>> /\ UNCHANGED <<buffer, scanned, fed>>
      /\ thread' = Waiting /\ lost' = lost \cup Numbers(Cycled) /\ Entries' = Entries
  BY DEF CycleFails, Cycled, Waiting, Entries
<1>2. Numbers(<<>>) = {}
  BY DEF Numbers
<1>3. Numbers(Cycled) \subseteq 1..fed
  BY DEF EngineInv
<1> QED
  BY <1>1, <1>2, <1>3 DEF EngineInv, Rising

LEMMA EngineStep == EngineInv /\ [EngineNext]_engineVars => EngineInv'
<1> SUFFICES ASSUME EngineInv, [EngineNext]_engineVars
             PROVE  EngineInv'
  OBVIOUS
<1>1. CASE /\ UNCHANGED <<buffer, fed, scanned, lost>>
           /\ UNCHANGED thread \/ (thread.at # "cycle" /\ thread' \in {Stopped, Waiting})
  <2>1. Cycled' = Cycled
    BY <1>1 DEF Cycled, Stopped, Waiting
  <2>2. thread' \in {Stopped, Waiting} \cup [at : {"cycle"}, flows : Entries]
    BY <1>1 DEF EngineInv
  <2> QED
    BY <1>1, <2>1, <2>2 DEF EngineInv, Entries
<1>2. CASE Start \/ Stop \/ LoopEnds \/ UNCHANGED engineVars
  BY <1>1, <1>2 DEF Start, Stop, LoopEnds, engineVars
<1>3. CASE EngineNext
  BY <1>2, <1>3, FeedKeeps, DrainKeeps, ScanKeeps, CycleFailsKeeps DEF EngineNext
<1> QED
  BY <1>2, <1>3

LEMMA EngineInvariant == EngineSpec => []EngineInv
BY EngineStep, EngineInitInv, PTL DEF EngineSpec

(* Every flow fed to the engine is waiting, being scanned, scanned exactly *)
(* once and in the order it was fed, or lost where the code loses it.      *)
THEOREM EngineScansInOrder == EngineSpec => []ScannedOnceInOrder
<1>1. EngineInv => ScannedOnceInOrder
  <2>1. Numbers(<<>>) = {}
    BY DEF Numbers
  <2> QED
    BY <2>1 DEF EngineInv, ScannedOnceInOrder, Cycled
<1> QED
  BY <1>1, EngineInvariant, PTL
-----------------------------------------------------------------------------
(* One step of the parts set beside each other is a step of each of them,  *)
(* or leaves it alone; and each begins as it does by itself.               *)
LEMMA EdgeStart ==
    EdgeInit => /\ EngineInit /\ ShipperInit /\ BridgesInit /\ CaptureInit /\ LimitInit /\ FlowsInit
                /\ LogsInit /\ LeakInit /\ PacketCaptureInit /\ EvaluationInit /\ DriftInit
                /\ DriftBinsInit /\ RegistryInit /\ ScoringInit /\ FlowBusInit /\ RequestChainInit
                /\ LifespanInit
BY DEF EdgeInit

LEMMA EdgeStep ==
    [EdgeNext]_edgeVars =>
        /\ [EngineNext]_engineVars /\ [ShipperNext]_shipperVars /\ [BridgesNext]_bridgesVars
        /\ [CaptureNext]_captureVars /\ [LimitNext]_limitVars /\ [FlowsNext]_flowVars
        /\ [LogsNext]_logVars /\ [LeakNext]_leakVars /\ [PacketCaptureNext]_packetVars
        /\ [EvaluationNext]_evaluationVars /\ [DriftNext]_driftVars /\ [DriftBinsNext]_measured
        /\ [RegistryNext]_registryVars /\ [ScoringNext]_scoringVars
        /\ [PublishNext \/ TopicNext]_busVars /\ [RequestChainNext]_exchange
        /\ [LifespanNext]_lifeVars
        /\ UNCHANGED focus
<1>1. CASE UNCHANGED edgeVars
  BY <1>1 DEF edgeVars
<1>2. CASE EdgeNext
  BY <1>2 DEF EdgeNext, Rests
<1> QED
  BY <1>1, <1>2
-----------------------------------------------------------------------------
(* What a thread may be doing: it rests, it has a window and is at one of  *)
(* the steps up to the score, or it has FlowNet's score of it.             *)
Steps == {"flownet", "lognet", "mark", "score"}
ScoringStates ==
    {Resting}
    \cup [at : Steps, window : DOMAIN WindowFlows \cup {LogWindow}]
    \cup [at : {"combine"}, window : DOMAIN WindowFlows \cup {LogWindow}, net : 0..1000]

(* A readable FlowNet is loaded before the flag is set, and before any     *)
(* thread is past the reading of it.                                       *)
Past(t) == scoring[t].at \in {"lognet", "mark", "score", "combine"}
ScoringInv ==
    /\ checkpoint \in [{"flownet", "lognet"} -> {"absent", "good", "bad"}]
    /\ loadedNets \subseteq {"flownet", "lognet"} /\ triedLoading \in BOOLEAN
    /\ scoring \in [Scorers -> ScoringStates]
    /\ "flownet" \in loadedNets => checkpoint["flownet"] = "good"
    /\ checkpoint["flownet"] = "good" /\ triedLoading => "flownet" \in loadedNets
    /\ \A t \in Scorers : checkpoint["flownet"] = "good" /\ Past(t) => "flownet" \in loadedNets
    /\ AnswersByTheLoadedModel

LEMMA ScoringStart == ScoringInit => ScoringInv
<1> SUFFICES ASSUME ScoringInit
             PROVE  ScoringInv
  OBVIOUS
<1>1. scoring \in [Scorers -> ScoringStates]
  BY DEF ScoringInit, ScoringStates
<1>2. \A t \in Scorers : ~Past(t)
  BY DEF ScoringInit, Past, Resting
<1> QED
  BY <1>1, <1>2, ZenonT(40) DEF ScoringInit, ScoringInv, AnswersByTheLoadedModel

(* What the indicators add up to is a score, and the weights add up to    *)
(* one, so what they make of two scores is one.                            *)
ScoreRange == 0..1000
LEMMA StatisticalIsAScore == \A f : StatisticalScore(f) \in ScoreRange
<1>1. \A x : Clamp(x) \in ScoreRange
  BY DEF Clamp, ScoreRange
<1> QED
  BY <1>1 DEF StatisticalScore

LEMMA CombinedIsAScore ==
    ASSUME NEW net \in ScoreRange, NEW s \in ScoreRange
    PROVE  Combined(net, s) \in ScoreRange
<1>1. net \in 0..1000 /\ s \in 0..1000
  BY DEF ScoreRange
<1>2. (7 * net + 3 * s) \div 10 \in 0..1000
  BY <1>1
<1> QED
  BY <1>2 DEF Combined, ScoreRange

(* A thread's next state leaves the others' alone.                         *)
LEMMA ScoringGo ==
    ASSUME ScoringInv, NEW t \in Scorers, NEW state \in ScoringStates, Go(t, state),
           checkpoint' = checkpoint, loadedNets' = loadedNets, triedLoading' \in BOOLEAN,
           scored' = scored,
           triedLoading' => triedLoading \/ Past(t),
           state.at \in {"lognet", "mark", "score", "combine"} => triedLoading \/ Past(t)
    PROVE  ScoringInv'
<1>1. scoring' \in [Scorers -> ScoringStates]
  BY DEF ScoringInv, Go
<1>2. checkpoint["flownet"] = "good" /\ triedLoading' => "flownet" \in loadedNets
  BY DEF ScoringInv
<1>3. \A u \in Scorers : checkpoint["flownet"] = "good" /\ Past(u)' => "flownet" \in loadedNets
  BY DEF ScoringInv, Go, Past
<1> QED
  BY <1>1, <1>2, <1>3 DEF ScoringInv, AnswersByTheLoadedModel

(* The first checkpoint read: a good FlowNet is loaded whoever reads it.   *)
LEMMA ScoringLoads ==
    ASSUME ScoringInv, NEW t \in Scorers, LoadFlowNet(t) \/ LoadLogNet(t)
    PROVE  ScoringInv'
<1>1. PICK net \in {"flownet", "lognet"}, next \in {"lognet", "mark"} :
          LoadNet(t, net, next)
  BY DEF LoadFlowNet, LoadLogNet
<1>2. PICK at \in {"lognet", "mark"} : scoring' = [scoring EXCEPT ![t] = [scoring[t] EXCEPT !.at = at]]
  BY <1>1 DEF LoadNet, Go
<1>3. scoring[t] \in [at : Steps, window : DOMAIN WindowFlows \cup {LogWindow}]
  BY <1>1 DEF LoadNet, ScoringInv, ScoringStates, Resting
<1>4. [scoring[t] EXCEPT !.at = at] \in [at : Steps, window : DOMAIN WindowFlows \cup {LogWindow}]
  BY <1>3 DEF Steps
<1>5. scoring' \in [Scorers -> ScoringStates]
  BY <1>2, <1>4 DEF ScoringInv, ScoringStates
<1>6. /\ checkpoint' = checkpoint /\ triedLoading' = triedLoading /\ scored' = scored
      /\ scoring[t].at = net
      /\ loadedNets' = IF checkpoint[net] = "good" THEN loadedNets \cup {net} ELSE loadedNets
  BY <1>1 DEF LoadNet
<1>7. \A u \in Scorers \ {t} : Past(u)' = Past(u)
  BY <1>2 DEF ScoringInv, Past
<1>8. checkpoint["flownet"] = "good" => "flownet" \in loadedNets'
  BY <1>1, <1>6 DEF ScoringInv, Past, LoadFlowNet, LoadLogNet, LoadNet
<1>9. loadedNets' \subseteq {"flownet", "lognet"} /\ ("flownet" \in loadedNets' => checkpoint["flownet"] = "good")
  BY <1>6 DEF ScoringInv
<1> QED
  BY <1>5, <1>6, <1>8, <1>9 DEF ScoringInv, AnswersByTheLoadedModel, Past

LEMMA ScoringAnswers ==
    ASSUME ScoringInv, NEW t \in Scorers, NEW answer, Respond(t, answer),
           answer.kind = "flows" =>
               ((answer.method = "transformer") <=> checkpoint["flownet"] = "good"),
           answer.score \in 0..1000
    PROVE  ScoringInv'
<1>1. /\ checkpoint' = checkpoint /\ loadedNets' = loadedNets /\ triedLoading' = triedLoading
      /\ scoring' = [scoring EXCEPT ![t] = Resting] /\ scored' = scored \cup {answer}
  BY DEF Respond, Go
<1>2. scoring' \in [Scorers -> ScoringStates]
  BY <1>1 DEF ScoringInv, ScoringStates
<1>3. \A u \in Scorers : Past(u)' => Past(u)
  BY <1>1 DEF Past, Resting, ScoringInv
<1>4. AnswersByTheLoadedModel'
  BY <1>1 DEF AnswersByTheLoadedModel, ScoringInv
<1> QED
  BY <1>1, <1>2, <1>3, <1>4 DEF ScoringInv

LEMMA ScoringStep == ScoringInv /\ [ScoringNext]_scoringVars => ScoringInv'
<1> SUFFICES ASSUME ScoringInv, [ScoringNext]_scoringVars
             PROVE  ScoringInv'
  OBVIOUS
<1>1. CASE UNCHANGED scoringVars
  BY <1>1 DEF scoringVars, ScoringInv, Past, AnswersByTheLoadedModel
<1>2. ASSUME NEW t \in Scorers, NEW w \in DOMAIN WindowFlows \cup {LogWindow}, Ask(t, w)
      PROVE  ScoringInv'
  <2>1. [at |-> IF triedLoading THEN "score" ELSE "flownet", window |-> w] \in ScoringStates
    BY DEF ScoringStates, Steps
  <2>2. triedLoading' = triedLoading /\ triedLoading \in BOOLEAN
    BY <1>2 DEF Ask, ScoringInv
  <2> QED
    BY <1>2, <2>1, <2>2, ScoringGo DEF Ask
<1>3. ASSUME NEW t \in Scorers, LoadFlowNet(t) \/ LoadLogNet(t)
      PROVE  ScoringInv'
  BY <1>3, ScoringLoads
<1>4. ASSUME NEW t \in Scorers, MarkTried(t)
      PROVE  ScoringInv'
  <2>1. scoring[t] \in [at : Steps, window : DOMAIN WindowFlows \cup {LogWindow}]
    BY <1>4 DEF MarkTried, ScoringInv, ScoringStates, Resting
  <2>2. [scoring[t] EXCEPT !.at = "score"] \in ScoringStates
    BY <2>1 DEF Steps, ScoringStates
  <2>3. Past(t)
    BY <1>4 DEF MarkTried, Past
  <2> QED
    BY <1>4, <2>2, <2>3, ScoringGo DEF MarkTried
<1>5. ASSUME NEW t \in Scorers, ScoreByNet(t)
      PROVE  ScoringInv'
  <2>1. scoring[t] \in [at : Steps, window : DOMAIN WindowFlows \cup {LogWindow}]
    BY <1>5, SMTT(40) DEF ScoreByNet, ScoringInv, ScoringStates, Resting
  <2>2. PICK s \in 0..1000 : Go(t, [at |-> "combine", window |-> scoring[t].window, net |-> s])
    <3>1. PICK s \in NetScores \cup {0} :
              Go(t, [at |-> "combine", window |-> scoring[t].window, net |-> s])
      BY <1>5 DEF ScoreByNet
    <3>2. s \in 0..1000
      BY WindowScoringAssumption
    <3> QED
      BY <3>1, <3>2, ZenonT(40)
  <2>3. [at |-> "combine", window |-> scoring[t].window, net |-> s] \in ScoringStates
    BY <2>1 DEF ScoringStates
  <2>4. Past(t) /\ triedLoading' \in BOOLEAN
    BY <1>5 DEF ScoreByNet, Past, ScoringInv
  <2> QED
    BY <1>5, <2>2, <2>3, <2>4, ScoringGo DEF ScoreByNet
<1>6. ASSUME NEW t \in Scorers, Combine(t)
      PROVE  ScoringInv'
  <2>1. scoring[t].net \in 0..1000
    <3>1. scoring[t] \in ScoringStates /\ scoring[t].at = "combine"
      BY <1>6 DEF Combine, ScoringInv
    <3>2. scoring[t] \in [at : {"combine"}, window : DOMAIN WindowFlows \cup {LogWindow}, net : 0..1000]
      BY <3>1 DEF ScoringStates, Steps, Resting
    <3> QED
      BY <3>2
  <2>2. "flownet" \in loadedNets <=> checkpoint["flownet"] = "good"
    BY <1>6 DEF Combine, ScoringInv, Past
  <2>3. PICK answer : Respond(t, answer) /\ answer =
            [kind |-> "flows", flows |-> Len(WindowFlows[scoring[t].window]),
             method |-> IF "flownet" \in loadedNets THEN "transformer" ELSE "statistical",
             score |-> Combined(scoring[t].net, StatisticalScore(WindowFeatures(WindowFlows[scoring[t].window])))]
    BY <1>6 DEF Combine
  <2>4. answer.score \in 0..1000
    <3> DEFINE s == StatisticalScore(WindowFeatures(WindowFlows[scoring[t].window]))
    <3>1. answer.score = Combined(scoring[t].net, s)
      BY <2>3
    <3>2. scoring[t].net \in ScoreRange /\ s \in ScoreRange
      BY <2>1, StatisticalIsAScore, ZenonT(40) DEF ScoreRange
    <3>3. Combined(scoring[t].net, s) \in ScoreRange
      BY <3>2, CombinedIsAScore
    <3> QED
      BY <3>1, <3>3, ZenonT(40) DEF ScoreRange
  <2>5. (answer.method = "transformer") <=> checkpoint["flownet"] = "good"
    BY <2>2, <2>3
  <2> QED
    BY <2>3, <2>4, <2>5, ScoringAnswers, ZenonT(40)
<1>7. ASSUME NEW t \in Scorers, ScoreLogs(t)
      PROVE  ScoringInv'
  <2>1. PICK answer : Respond(t, answer) /\ answer.kind = "logs" /\ answer.score \in {0, 700}
    BY <1>7 DEF ScoreLogs
  <2> QED
    BY <2>1, ScoringAnswers
<1> QED
  BY <1>1, <1>2, <1>3, <1>4, <1>5, <1>6, <1>7 DEF ScoringNext
-----------------------------------------------------------------------------
(* What a registry r and its history p have to do with each other: who is  *)
(* entered is registered, who was retired stays it, who was active is it   *)
(* or was retired later, one version of a kind is active at a time, and    *)
(* each has the status last entered for it.                                *)
EnteredStatuses == {"staging", "active", "retired"}
Follows(r, p) ==
    \A i \in DOMAIN p :
        /\ r[p[i][1]] # "none"
        /\ p[i][2] = "retired" => r[p[i][1]] = "retired"
        /\ p[i][2] = "active" =>
              r[p[i][1]] = "active" \/ \E k \in (i + 1)..Len(p) : p[k] = <<p[i][1], "retired">>
AppendOnly(p) ==
    \A i, j \in DOMAIN p :
        i < j =>
            /\ p[i][1] = p[j][1] => p[i][2] # "retired" /\ p[j][2] # "staging"
            /\ (p[i][2] = "active" /\ p[j][2] = "active"
                /\ RegistryKindOf[p[i][1]] = RegistryKindOf[p[j][1]]) =>
                   \E k \in (i + 1)..(j - 1) : p[k] = <<p[i][1], "retired">>
Hist(r, p) ==
    /\ r \in [Ids -> EnteredStatuses \cup {"none"}] /\ p \in Seq(Ids \X EnteredStatuses)
    /\ OneActive(r) /\ Follows(r, p) /\ AppendOnly(p) /\ LastEntered(r, p)

ShadowEntries ==
    [id : Ids, active : Ids \cup {NoActive}, score : ScoreValues, activeScore : ScoreValues]
RegistryInv ==
    /\ Hist(registryOf, past)
    /\ shadowed \in Seq(ShadowEntries)
    /\ DisagreementBoundsCounts

LEMMA RegistryStart == RegistryInit => RegistryInv
BY DEF RegistryInit, RegistryInv, Hist, OneActive, Follows, AppendOnly, LastEntered, Unregistered,
       DisagreementBoundsCounts, NotCompared, EnteredStatuses

(* One status entered: a version new to the registry, or one that moves on *)
(* from a status that is not the end of it, and to active only when no     *)
(* other of its kind is.                                                   *)
LEMMA OneMove ==
    ASSUME NEW r, NEW p, Hist(r, p), NEW id \in Ids, NEW status \in EnteredStatuses,
           r[id] # "retired", status = "staging" => r[id] = "none",
           status = "active" => r[id] # "active"
               /\ \A x \in Ids : r[x] = "active" => RegistryKindOf[x] # RegistryKindOf[id]
    PROVE  Hist([r EXCEPT ![id] = status], p \o <<<<id, status>>>>)
<1> DEFINE r2 == [r EXCEPT ![id] = status]
<1> DEFINE q == p \o <<<<id, status>>>>
<1> DEFINE n == Len(p)
<1>1. /\ r \in [Ids -> EnteredStatuses \cup {"none"}] /\ p \in Seq(Ids \X EnteredStatuses)
      /\ OneActive(r) /\ Follows(r, p) /\ AppendOnly(p) /\ LastEntered(r, p)
  BY DEF Hist
<1>2. /\ n \in Nat /\ DOMAIN p = 1..n /\ \A i \in 1..n : p[i] \in Ids \X EnteredStatuses
  BY <1>1
<1>3. /\ q \in Seq(Ids \X EnteredStatuses) /\ Len(q) = n + 1 /\ DOMAIN q = 1..(n + 1)
      /\ \A i \in 1..n : q[i] = p[i]
      /\ q[n + 1] = <<id, status>>
  BY <1>1
<1>4. /\ r2 \in [Ids -> EnteredStatuses \cup {"none"}]
      /\ \A x \in Ids : r2[x] = IF x = id THEN status ELSE r[x]
  BY <1>1
<1>5. \A i \in 1..n : p[i][1] \in Ids /\ p[i][2] \in EnteredStatuses
  BY <1>2
<1>6. status # "none"
  BY DEF EnteredStatuses
<1> HIDE DEF r2, q, n
<1>7. OneActive(r2)
  BY <1>1, <1>4 DEF OneActive
<1>8. Follows(r2, q)
  <2> SUFFICES ASSUME NEW i \in 1..(n + 1)
               PROVE  /\ r2[q[i][1]] # "none"
                      /\ q[i][2] = "retired" => r2[q[i][1]] = "retired"
                      /\ q[i][2] = "active" =>
                            r2[q[i][1]] = "active"
                            \/ \E k \in (i + 1)..Len(q) : q[k] = <<q[i][1], "retired">>
    BY <1>3 DEF Follows
  <2>1. CASE i = n + 1
    BY <2>1, <1>3, <1>4, <1>6
  <2>2. CASE i \in 1..n
    <3>1. q[i] = p[i] /\ p[i][1] \in Ids
      BY <2>2, <1>3, <1>5
    <3>2. /\ r[p[i][1]] # "none"
          /\ p[i][2] = "retired" => r[p[i][1]] = "retired"
          /\ p[i][2] = "active" =>
                r[p[i][1]] = "active" \/ \E k \in (i + 1)..Len(p) : p[k] = <<p[i][1], "retired">>
      BY <2>2, <1>1, <1>2 DEF Follows
    <3>3. /\ r2[q[i][1]] # "none"
          /\ q[i][2] = "retired" => r2[q[i][1]] = "retired"
      BY <3>1, <3>2, <1>4, <1>6
    <3>4. ASSUME q[i][2] = "active", r2[q[i][1]] # "active"
          PROVE  \E k \in (i + 1)..Len(q) : q[k] = <<q[i][1], "retired">>
      <4>1. CASE r[p[i][1]] = "active"
        <5>1. p[i][1] = id /\ status = "retired"
          BY <4>1, <3>1, <3>2, <3>4, <1>4 DEF EnteredStatuses
        <5>2. q[n + 1] = <<q[i][1], "retired">>
          BY <5>1, <3>1, <1>3
        <5>3. n + 1 \in (i + 1)..Len(q)
          BY <2>2, <1>2, <1>3
        <5> QED
          BY <5>2, <5>3
      <4>2. CASE \E k \in (i + 1)..n : p[k] = <<p[i][1], "retired">>
        <5>1. PICK k \in (i + 1)..n : p[k] = <<p[i][1], "retired">>
          BY <4>2
        <5>2. k \in 1..n /\ k \in (i + 1)..Len(q)
          BY <1>2, <1>3, <2>2
        <5>3. q[k] = <<q[i][1], "retired">>
          BY <5>1, <5>2, <3>1, <1>3
        <5> QED
          BY <5>2, <5>3
      <4> QED
        BY <4>1, <4>2, <3>1, <3>2, <3>4 DEF n
    <3> QED
      BY <3>3, <3>4
  <2>3. i = n + 1 \/ i \in 1..n
    BY <1>2
  <2> QED
    BY <2>1, <2>2, <2>3
<1>9. AppendOnly(q)
  <2> SUFFICES ASSUME NEW i \in 1..(n + 1), NEW j \in 1..(n + 1), i < j
               PROVE  /\ q[i][1] = q[j][1] => q[i][2] # "retired" /\ q[j][2] # "staging"
                      /\ (q[i][2] = "active" /\ q[j][2] = "active"
                          /\ RegistryKindOf[q[i][1]] = RegistryKindOf[q[j][1]]) =>
                             \E k \in (i + 1)..(j - 1) : q[k] = <<q[i][1], "retired">>
    BY <1>3 DEF AppendOnly
  <2>1. i \in 1..n /\ (j \in 1..n \/ j = n + 1) /\ q[i] = p[i] /\ p[i][1] \in Ids
    <3>1. i \in 1..n /\ (j \in 1..n \/ j = n + 1)
      BY <1>2
    <3> QED
      BY <3>1, <1>3, <1>5
  <2>2. CASE j \in 1..n
    <3>1. q[j] = p[j]
      BY <2>2, <1>3
    <3>2. /\ p[i][1] = p[j][1] => p[i][2] # "retired" /\ p[j][2] # "staging"
          /\ (p[i][2] = "active" /\ p[j][2] = "active"
              /\ RegistryKindOf[p[i][1]] = RegistryKindOf[p[j][1]]) =>
                 \E k \in (i + 1)..(j - 1) : p[k] = <<p[i][1], "retired">>
      BY <1>1, <1>2, <2>1, <2>2 DEF AppendOnly
    <3>3. \A k \in (i + 1)..(j - 1) : k \in 1..n
      BY <1>2, <2>1, <2>2
    <3> QED
      BY <3>1, <3>2, <3>3, <2>1, <1>3
  <2>3. CASE j = n + 1
    <3>1. q[j] = <<id, status>>
      BY <2>3, <1>3
    <3>2. /\ r[p[i][1]] # "none"
          /\ p[i][2] = "retired" => r[p[i][1]] = "retired"
          /\ p[i][2] = "active" =>
                r[p[i][1]] = "active" \/ \E k \in (i + 1)..n : p[k] = <<p[i][1], "retired">>
      BY <2>1, <1>1, <1>2 DEF Follows, n
    <3>3. q[i][1] = q[j][1] => q[i][2] # "retired" /\ q[j][2] # "staging"
      BY <3>1, <3>2, <2>1
    <3>4. ASSUME q[i][2] = "active", q[j][2] = "active",
                 RegistryKindOf[q[i][1]] = RegistryKindOf[q[j][1]]
          PROVE  \E k \in (i + 1)..(j - 1) : q[k] = <<q[i][1], "retired">>
      <4>1. r[p[i][1]] # "active"
        BY <3>1, <3>4, <2>1
      <4>2. PICK k \in (i + 1)..n : p[k] = <<p[i][1], "retired">>
        BY <4>1, <3>2, <3>4, <2>1
      <4>3. k \in 1..n /\ k \in (i + 1)..(j - 1)
        BY <2>1, <2>3, <1>2
      <4> QED
        BY <4>2, <4>3, <2>1, <1>3
    <3> QED
      BY <3>3, <3>4
  <2> QED
    BY <2>1, <2>2, <2>3
<1>10. LastEntered(r2, q)
  <2> SUFFICES ASSUME NEW x \in Ids
               PROVE  \/ r2[x] = "none" /\ \A i \in 1..(n + 1) : q[i][1] # x
                      \/ \E i \in 1..(n + 1) :
                             q[i] = <<x, r2[x]>> /\ \A j \in (i + 1)..(n + 1) : q[j][1] # x
    BY <1>3 DEF LastEntered, Unregistered
  <2>1. CASE x = id
    <3>1. n + 1 \in 1..(n + 1) /\ q[n + 1] = <<x, r2[x]>>
      BY <2>1, <1>2, <1>3, <1>4
    <3>2. \A j \in (n + 1 + 1)..(n + 1) : q[j][1] # x
      BY <1>2
    <3> QED
      BY <3>1, <3>2
  <2>2. CASE x # id
    <3>1. r2[x] = r[x] /\ q[n + 1][1] # x
      BY <2>2, <1>3, <1>4
    <3>2. CASE r[x] = "none" /\ \A i \in 1..n : p[i][1] # x
      <4>1. ASSUME NEW i \in 1..(n + 1)
            PROVE  q[i][1] # x
        <5>1. i \in 1..n \/ i = n + 1
          BY <1>2
        <5> QED
          BY <5>1, <3>1, <3>2, <1>3
      <4> QED
        BY <4>1, <3>1, <3>2
    <3>3. CASE \E i \in 1..n : p[i] = <<x, r[x]>> /\ \A j \in (i + 1)..n : p[j][1] # x
      <4>1. PICK i \in 1..n : p[i] = <<x, r[x]>> /\ \A j \in (i + 1)..n : p[j][1] # x
        BY <3>3
      <4>2. i \in 1..(n + 1) /\ q[i] = <<x, r2[x]>>
        BY <4>1, <3>1, <1>2, <1>3
      <4>3. ASSUME NEW j \in (i + 1)..(n + 1)
            PROVE  q[j][1] # x
        <5>1. (j \in (i + 1)..n /\ j \in 1..n) \/ j = n + 1
          BY <1>2
        <5> QED
          BY <5>1, <4>1, <3>1, <1>3
      <4> QED
        BY <4>2, <4>3
    <3> QED
      BY <3>2, <3>3, <1>1, <1>2 DEF LastEntered, Unregistered, n
  <2> QED
    BY <2>1, <2>2
<1> QED
  BY <1>3, <1>4, <1>7, <1>8, <1>9, <1>10 DEF Hist, r2, q

(* compare: what the two models make of the same windows differs in as     *)
(* many windows as they disagree on.                                       *)
LEMMA DisagreementBounds ==
    ASSUME NEW P, IsFiniteSet(P), NEW A, NEW B, A \subseteq P, B \subseteq P
    PROVE  LET D == {i \in P : ~((i \in A) <=> (i \in B))} IN
           /\ Cardinality(A) <= Cardinality(B) + Cardinality(D)
           /\ Cardinality(B) <= Cardinality(A) + Cardinality(D)
           /\ Cardinality(D) <= Cardinality(P)
           /\ {Cardinality(A), Cardinality(B), Cardinality(D), Cardinality(P)} \subseteq Nat
<1> DEFINE D == {i \in P : ~((i \in A) <=> (i \in B))}
<1>1. /\ IsFiniteSet(A) /\ IsFiniteSet(B) /\ IsFiniteSet(D)
      /\ Cardinality(D) <= Cardinality(P)
  BY FS_Subset, D \subseteq P
<1>2. {Cardinality(A), Cardinality(B), Cardinality(D), Cardinality(P)} \subseteq Nat
  BY <1>1, FS_CardinalityType
<1>3. A \subseteq B \cup D /\ B \subseteq A \cup D
  OBVIOUS
<1>4. ASSUME NEW X, NEW Y, IsFiniteSet(X), IsFiniteSet(Y), NEW Z \in SUBSET (X \cup Y)
      PROVE  Cardinality(Z) <= Cardinality(X) + Cardinality(Y)
  <2>1. IsFiniteSet(X \cup Y) /\ IsFiniteSet(X \cap Y)
    BY <1>4, FS_Union, FS_Subset, X \cap Y \subseteq X
  <2>2. Cardinality(X \cup Y) = Cardinality(X) + Cardinality(Y) - Cardinality(X \cap Y)
    BY <1>4, FS_Union
  <2>3. Cardinality(Z) <= Cardinality(X \cup Y)
    BY <2>1, FS_Subset
  <2>4. IsFiniteSet(Z)
    BY <2>1, FS_Subset
  <2>5. /\ Cardinality(X) \in Nat /\ Cardinality(Y) \in Nat /\ Cardinality(Z) \in Nat
        /\ Cardinality(X \cap Y) \in Nat /\ Cardinality(X \cup Y) \in Nat
    BY <2>1, <2>4, <1>4, FS_CardinalityType
  <2> QED
    BY <2>2, <2>3, <2>5
<1>5. Cardinality(A) <= Cardinality(B) + Cardinality(D) /\ Cardinality(B) <= Cardinality(A) + Cardinality(D)
  BY <1>1, <1>3, <1>4
<1> QED
  BY <1>1, <1>2, <1>5

LEMMA RegistryStep == RegistryInv /\ [RegistryNext]_registryVars => RegistryInv'
<1> SUFFICES ASSUME RegistryInv, [RegistryNext]_registryVars
             PROVE  RegistryInv'
  OBVIOUS
<1>1. CASE UNCHANGED registryVars
  BY <1>1 DEF registryVars, RegistryInv, DisagreementBoundsCounts
<1>2. ASSUME Hist(registryOf, past)', UNCHANGED <<shadowed, compared>>
      PROVE  RegistryInv'
  BY <1>2 DEF RegistryInv, DisagreementBoundsCounts
<1>r. /\ registryOf \in [Ids -> EnteredStatuses \cup {"none"}] /\ past \in Seq(Ids \X EnteredStatuses)
      /\ OneActive(registryOf)
  BY DEF RegistryInv, Hist
<1>3. ASSUME NEW id \in Ids, NEW s \in {"staging", "active"}, Register(id, s)
      PROVE  RegistryInv'
  <2>1. registryOf[id] = "none"
    BY <1>3 DEF Register, Registered, Unregistered
  <2>2. s = "active" => \A x \in Ids : registryOf[x] = "active" => RegistryKindOf[x] # RegistryKindOf[id]
    BY <1>3 DEF Register, ActiveOf, Registered, Unregistered
  <2>3. Hist([registryOf EXCEPT ![id] = s], past \o <<<<id, s>>>>)
    BY <2>1, <2>2, OneMove DEF RegistryInv, EnteredStatuses
  <2> QED
    BY <2>3, <1>2, <1>3 DEF Register, Enter
<1>4. ASSUME NEW id \in Ids, Retire(id)
      PROVE  RegistryInv'
  <2>1. registryOf[id] # "retired"
    BY <1>4 DEF Retire, AllowedFrom
  <2>2. Hist([registryOf EXCEPT ![id] = "retired"], past \o <<<<id, "retired">>>>)
    BY <2>1, OneMove DEF RegistryInv, EnteredStatuses
  <2> QED
    BY <2>2, <1>2, <1>4 DEF Retire, Enter
<1>5. ASSUME NEW id \in Ids, Promote(id)
      PROVE  RegistryInv'
  <2> DEFINE down == ActiveOf(RegistryKindOf[id])
  <2>1. /\ registryOf[id] = "staging"
        /\ registryOf' = [other \in Ids |->
              IF other = id THEN "active"
              ELSE IF other \in down THEN "retired"
              ELSE registryOf[other]]
        /\ past' = past \o ((IF down = {} THEN <<>> ELSE <<<<CHOOSE d \in down : TRUE, "retired">>>>)
                            \o <<<<id, "active">>>>)
        /\ UNCHANGED <<shadowed, compared>>
    BY <1>5 DEF Promote, SteppingDown, Enter
  <2>2. \A x \in Ids : x \in down <=> registryOf[x] = "active" /\ RegistryKindOf[x] = RegistryKindOf[id]
    BY DEF ActiveOf, Registered, Unregistered
  <2>3. CASE down = {}
    <3>1. Hist([registryOf EXCEPT ![id] = "active"], past \o <<<<id, "active">>>>)
      BY <2>1, <2>2, <2>3, OneMove DEF RegistryInv, EnteredStatuses
    <3>2. registryOf' = [registryOf EXCEPT ![id] = "active"]
      BY <2>1, <2>3, <1>r
    <3>3. past' = past \o <<<<id, "active">>>>
      BY <2>1, <2>3
    <3> QED
      BY <3>1, <3>2, <3>3, <2>1, <1>2
  <2>4. CASE down # {}
    <3>1. PICK d \in Ids : d = (CHOOSE x \in down : TRUE) /\ d \in down
      BY <2>4 DEF ActiveOf, Registered
    <3>2. /\ registryOf[d] = "active" /\ RegistryKindOf[d] = RegistryKindOf[id] /\ d # id
          /\ \A x \in Ids : x \in down => x = d
      BY <3>1, <2>1, <2>2, <1>r DEF OneActive
    <3>3. Hist([registryOf EXCEPT ![d] = "retired"], past \o <<<<d, "retired">>>>)
      BY <3>2, OneMove DEF RegistryInv, EnteredStatuses
    <3> DEFINE r == [registryOf EXCEPT ![d] = "retired"]
    <3> DEFINE p == past \o <<<<d, "retired">>>>
    <3>4. r[id] = "staging" /\ \A x \in Ids : r[x] = "active" => RegistryKindOf[x] # RegistryKindOf[id]
      BY <3>1, <3>2, <2>1, <2>2, <1>r
    <3>5. registryOf' = [r EXCEPT ![id] = "active"]
      BY <3>1, <3>2, <2>1, <1>r
    <3>6. past' = p \o <<<<id, "active">>>>
      <4>1. past' = past \o (<<<<d, "retired">>>> \o <<<<id, "active">>>>)
        BY <2>1, <2>4, <3>1
      <4> QED
        BY <4>1, <1>r, ConcatAssociative
    <3>7. Hist(r, p)
      BY <3>3
    <3> HIDE DEF r, p
    <3>8. Hist([r EXCEPT ![id] = "active"], p \o <<<<id, "active">>>>)
      BY <3>4, <3>7, OneMove DEF EnteredStatuses
    <3> QED
      BY <3>5, <3>6, <3>8, <2>1, <1>2
  <2> QED
    BY <2>3, <2>4
<1>6. ASSUME NEW id \in Ids, NEW x \in ScoreValues, NEW y \in ScoreValues, ShadowScore(id, x, y)
      PROVE  RegistryInv'
  <2>1. ActiveId(RegistryKindOf[id]) \in Ids \cup {NoActive}
    BY DEF ActiveId, ActiveOf, Registered
  <2>2. shadowed' \in Seq(ShadowEntries)
    BY <2>1, <1>6 DEF ShadowScore, RegistryInv, ShadowEntries
  <2> QED
    BY <2>2, <1>6 DEF ShadowScore, RegistryInv, DisagreementBoundsCounts
<1>7. ASSUME CompareShadow
      PROVE  RegistryInv'
  <2> DEFINE paired == {i \in DOMAIN shadowed : shadowed[i].active # NoActive}
             shadow == {i \in paired : Alerts(shadowed[i].score)}
             active == {i \in paired : Alerts(shadowed[i].activeScore)}
             apart == {i \in paired : Alerts(shadowed[i].score) # Alerts(shadowed[i].activeScore)}
  <2>1. IsFiniteSet(paired)
    <3>1. Len(shadowed) \in Nat /\ DOMAIN shadowed = 1..Len(shadowed)
      BY DEF RegistryInv
    <3>2. IsFiniteSet(DOMAIN shadowed)
      BY <3>1, FS_Interval
    <3> QED
      BY <3>2, FS_Subset, paired \subseteq DOMAIN shadowed
  <2>2. apart = {i \in paired : ~((i \in shadow) <=> (i \in active))}
    BY DEF Alerts
  <2>3. compared' = [pairs |-> Cardinality(paired), shadowAlerts |-> Cardinality(shadow),
                     activeAlerts |-> Cardinality(active), disagreements |-> Cardinality(apart)]
    BY <1>7 DEF CompareShadow
  <2>4. /\ Cardinality(shadow) <= Cardinality(active) + Cardinality(apart)
        /\ Cardinality(active) <= Cardinality(shadow) + Cardinality(apart)
        /\ Cardinality(apart) <= Cardinality(paired)
    <3>1. shadow \subseteq paired /\ active \subseteq paired
      OBVIOUS
    <3> HIDE DEF paired, shadow, active, apart
    <3> QED
      BY <2>1, <2>2, <3>1, DisagreementBounds
  <2>5. DisagreementBoundsCounts'
    <3> HIDE DEF paired, shadow, active, apart
    <3> QED
      BY <2>3, <2>4 DEF DisagreementBoundsCounts
  <2> QED
    BY <2>5, <1>7 DEF CompareShadow, RegistryInv
<1> QED
  BY <1>1, <1>3, <1>4, <1>5, <1>6, <1>7 DEF RegistryNext

LEMMA RegistryGood == RegistryInv => RegistryIsAHistory
BY DEF RegistryInv, Hist, AppendOnly, RegistryIsAHistory, ServingHistoryIsAppendOnly

(* The model service's two parts beside the others: one version of a kind  *)
(* is active at most, every version has the status entered last for it, a  *)
(* version serves once and the next of its kind only after it was retired; *)
(* two models' alert counts differ by no more than the windows they        *)
(* disagree on; and every window is answered by the model that could be    *)
(* loaded, with a score the response can carry.                            *)
THEOREM EdgeServesItsModels == EdgeSpec => []ServiceKnowsItsModels
<1> DEFINE Inv == RegistryInv /\ ScoringInv
<1>1. EdgeInit => Inv
  BY EdgeStart, RegistryStart, ScoringStart
<1>2. Inv /\ [EdgeNext]_edgeVars => Inv'
  BY EdgeStep, RegistryStep, ScoringStep
<1>3. Inv => ServiceKnowsItsModels
  BY RegistryGood DEF ScoringInv, ServiceKnowsItsModels
<1> QED
  BY <1>1, <1>2, <1>3, PTL DEF EdgeSpec
-----------------------------------------------------------------------------
(* What the end of the process has behind it, step by step of StopOrder,   *)
(* and that the bus is closed only once the live loop is out of the way.   *)
Closable == {"bus", "hub", "pool"}
Dealt(part) ==
    /\ part \in LoopIds => loops[part] # "running"
    /\ part \in Closable /\ Built(part) => part \in closed
LiveIsOut == "live" \in gaveUp \/ loops["live"] \in {"off", "ended"}
Winding == phase \in {"stopping", "over"}
LifeInv ==
    /\ LifespanTypeOK
    /\ \A l \in LoopIds : ~Built(l) => loops[l] = "off"
    /\ phase \in {"starting", "serving"} => closed = {} /\ usedClosed = {}
    /\ phase = "serving" => position = 1
    /\ Winding => /\ \A i \in DOMAIN StopOrder :
                         /\ StopOrder[i] \in closed => i < position
                         /\ i < position => Dealt(StopOrder[i])
                  /\ position > 3 => LiveIsOut
                  /\ closed # {} => position > 3
    /\ phase = "over" /\ ~closeFailed => position > Len(StopOrder)
    /\ usedClosed # {} => "live" \in gaveUp

LEMMA LifeOrder ==
    /\ LoopIds = {"engine", "retention", "topic", "live", "drift", "registrar"}
    /\ Len(StartOrder) = 6 /\ Len(StopOrder) = 9
    /\ DOMAIN StartOrder = 1..6 /\ DOMAIN StopOrder = 1..9
    /\ StopOrder[1] = "engine" /\ StopOrder[2] = "retention" /\ StopOrder[3] = "live"
    /\ StopOrder[4] = "flush" /\ StopOrder[5] = "bus" /\ StopOrder[6] = "drift"
    /\ StopOrder[7] = "registrar" /\ StopOrder[8] = "hub" /\ StopOrder[9] = "pool"
<1>1. /\ Len(StartOrder) = 6 /\ Len(StopOrder) = 9
      /\ DOMAIN StartOrder = 1..6 /\ DOMAIN StopOrder = 1..9
  BY DEF StartOrder, StopOrder
<1>2. LoopIds = {StartOrder[1], StartOrder[2], StartOrder[3], StartOrder[4], StartOrder[5],
                 StartOrder[6]}
  BY <1>1 DEF LoopIds
<1> QED
  BY <1>1, <1>2 DEF StartOrder, StopOrder

LEMMA LifeStart == LifespanInit => LifeInv
<1> SUFFICES ASSUME LifespanInit
             PROVE  LifeInv
  OBVIOUS
<1>1. LifespanTypeOK
  <2>1. 1 \in 1..Len(StopOrder) + 1
    BY LifeOrder
  <2> QED
    BY <2>1 DEF LifespanInit, LifespanTypeOK
<1> QED
  BY <1>1 DEF LifespanInit, LifeInv, Winding

(* A step of the end is behind, nothing before it undone: it was a loop    *)
(* that no longer runs, a part that is closed now, or one never built.     *)
LEMMA LifeMoves ==
    ASSUME LifeInv, NEW part, At(part), NextStep,
           loops' = loops, deployment' = deployment, closeFailed' = closeFailed,
           closed' = closed \/ (part \in Closable /\ closed' = closed \cup {part}),
           gaveUp \subseteq gaveUp', gaveUp' \subseteq LoopIds,
           usedClosed' = usedClosed
               \/ (part = "flush" /\ usedClosed' = usedClosed \cup (closed \cap {"hub"})),
           Dealt(part)', part = "live" => LiveIsOut'
    PROVE  LifeInv'
<1>1. /\ position \in 1..9 /\ StopOrder[position] = part /\ position' = position + 1 /\ phase' = phase
      /\ phase = "stopping"
  BY LifeOrder DEF At, NextStep, LifeInv, LifespanTypeOK
<1>2. usedClosed' = usedClosed
  <2>1. part = "flush" => "hub" \notin closed
    BY <1>1, LifeOrder DEF LifeInv, Winding
  <2> QED
    BY <2>1 DEF LifeInv
<1>3. \A x : Built(x)' <=> Built(x)
  BY DEF Built
<1>4. \A i \in 1..9 : i < position => Dealt(StopOrder[i])'
  BY <1>1, <1>3, LifeOrder DEF LifeInv, Winding, Dealt
<1>5. \A i \in 1..9 : StopOrder[i] \in closed' => i < position'
  <2>1. \A i \in 1..9 : StopOrder[i] \in closed => i < position
    BY <1>1, LifeOrder DEF LifeInv, Winding
  <2>2. \A i \in 1..9 : StopOrder[i] = part => i = position
    BY <1>1, LifeOrder
  <2> QED
    BY <2>1, <2>2, <1>1
<1>6. position' > 3 => LiveIsOut'
  BY <1>1, LifeOrder DEF LifeInv, Winding, LiveIsOut
<1>7. closed' # {} => position' > 3
  BY <1>1, LifeOrder DEF LifeInv, Winding, Closable
<1>8. LifespanTypeOK'
  <2>1. closed' \subseteq {"bus", "hub", "pool"}
    BY DEF LifeInv, LifespanTypeOK, Closable
  <2>2. position' \in 1..Len(StopOrder) + 1
    BY <1>1, LifeOrder
  <2> QED
    BY <2>1, <2>2, <1>1, <1>2 DEF LifeInv, LifespanTypeOK
<1>9. \A i \in 1..9 : i < position' => Dealt(StopOrder[i])'
  BY <1>1, <1>4
<1> QED
  BY <1>1, <1>2, <1>3, <1>5, <1>6, <1>7, <1>8, <1>9, LifeOrder DEF LifeInv, Winding

(* A loop that was told to end, or has, changes nothing that was dealt     *)
(* with.                                                                   *)
LEMMA LifeLoops ==
    ASSUME LifeInv, NEW l \in LoopIds, NEW state \in {"told", "ended"}, Built(l),
           state = "told" => At(l), loops' = [loops EXCEPT ![l] = state],
           UNCHANGED <<deployment, phase, position, closed, gaveUp, closeFailed, usedClosed>>
    PROVE  LifeInv'
<1>1. \A x : Built(x)' <=> Built(x)
  BY DEF Built
<1>2. \A i \in DOMAIN StopOrder : Winding /\ i < position => Dealt(StopOrder[i])'
  BY <1>1 DEF LifeInv, LifespanTypeOK, Dealt
<1>3. Winding /\ position > 3 => LiveIsOut'
  <2>1. state = "told" /\ position > 3 => l # "live"
    BY LifeOrder DEF At, LifeInv, LifespanTypeOK
  <2> QED
    BY <2>1 DEF LifeInv, LifespanTypeOK, LiveIsOut
<1>4. LifespanTypeOK'
  BY DEF LifeInv, LifespanTypeOK
<1>5. \A m \in LoopIds : ~Built(m) => loops'[m] = "off"
  BY DEF LifeInv, LifespanTypeOK
<1> QED
  BY <1>1, <1>2, <1>3, <1>4, <1>5 DEF LifeInv, Winding

LEMMA LifeStep == LifeInv /\ [LifespanNext]_lifeVars => LifeInv'
<1> SUFFICES ASSUME LifeInv, [LifespanNext]_lifeVars
             PROVE  LifeInv'
  OBVIOUS
<1>1. CASE UNCHANGED lifeVars
  BY <1>1 DEF lifeVars, LifeInv, LifespanTypeOK, Built, Winding, Dealt, LiveIsOut
<1>2. CASE StartNext
  <2>1. Len(StopOrder) = 9 /\ Len(StartOrder) = 6 /\ phase = "starting" /\ position \in 1..10
    BY <1>2, LifeOrder DEF StartNext, LifeInv, LifespanTypeOK
  <2>2. \A x : Built(x)' <=> Built(x)
    BY <1>2 DEF StartNext, Built
  <2>3. /\ phase' \in {"starting", "serving"} /\ position' \in 1..10 /\ (phase' = "serving" => position' = 1)
    BY <1>2, <2>1 DEF StartNext
  <2>4. /\ loops' \in [LoopIds -> {"off", "running", "told", "ended"}]
        /\ \A l \in LoopIds : ~Built(l) => loops'[l] = "off"
    BY <1>2, <2>1 DEF StartNext, LifeInv, LifespanTypeOK
  <2> QED
    BY <1>2, <2>1, <2>2, <2>3, <2>4 DEF StartNext, LifeInv, LifespanTypeOK, Winding
<1>3. CASE ShutdownBegins
  <2>1. position' = 1 /\ closed' = {} /\ usedClosed' = {}
    BY <1>3 DEF ShutdownBegins, LifeInv
  <2>2. LifespanTypeOK'
    BY <1>3 DEF ShutdownBegins, LifeInv, LifespanTypeOK
  <2>3. \A l \in LoopIds : ~Built(l)' => loops'[l] = "off"
    BY <1>3 DEF ShutdownBegins, LifeInv, Built
  <2>4. \A i \in DOMAIN StopOrder : ~(i < position') /\ StopOrder[i] \notin closed'
    BY <2>1, LifeOrder
  <2>5. ~(position' > 3)
    BY <2>1
  <2> QED
    BY <2>2, <2>3, <2>4, <2>5, <1>3 DEF ShutdownBegins, LifeInv
<1>4. CASE LiveWorks
  <2>1. closed \cap {"bus", "hub"} # {} => "live" \in gaveUp
    BY <1>4, LifeOrder DEF LiveWorks, LifeInv, LifespanTypeOK, Winding, LiveIsOut
  <2> QED
    BY <1>4, <2>1 DEF LiveWorks, LifeInv, LifespanTypeOK, Built, Winding, Dealt, LiveIsOut
<1>5. ASSUME NEW l \in LoopIds, LoopReturns(l) \/ Tell(l)
      PROVE  LifeInv'
  <2>1. Built(l)
    BY <1>5 DEF LoopReturns, Tell, LifeInv
  <2> QED
    BY <1>5, <2>1, LifeLoops DEF LoopReturns, Tell
<1>6. ASSUME NEW l \in LoopIds, Join(l) \/ JoinTimesOut(l)
      PROVE  LifeInv'
  <2>1. l \notin Closable /\ l # "flush"
    BY LifeOrder DEF Closable
  <2>2. Dealt(l)' /\ (l = "live" => LiveIsOut')
    BY <1>6, <2>1 DEF Join, JoinTimesOut, Dealt, LiveIsOut
  <2>3. gaveUp \subseteq gaveUp' /\ gaveUp' \subseteq LoopIds
    BY <1>6 DEF Join, JoinTimesOut, LifeInv, LifespanTypeOK
  <2> QED
    BY <1>6, <2>2, <2>3, LifeMoves DEF Join, JoinTimesOut
<1>7. ASSUME NEW part, Skip(part)
      PROVE  LifeInv'
  <2>1. part \in LoopIds => loops[part] = "off"
    BY <1>7 DEF Skip, LifeInv
  <2>2. Dealt(part)' /\ (part = "live" => LiveIsOut')
    BY <1>7, <2>1, LifeOrder DEF Skip, Dealt, LiveIsOut, Built
  <2>3. gaveUp \subseteq LoopIds
    BY DEF LifeInv, LifespanTypeOK
  <2> QED
    BY <1>7, <2>2, <2>3, LifeMoves DEF Skip
<1>8. CASE FlushLeft
  <2>1. Dealt("flush")' /\ gaveUp \subseteq LoopIds
    BY LifeOrder DEF Dealt, Closable, LifeInv, LifespanTypeOK
  <2> QED
    BY <1>8, <2>1, LifeMoves DEF FlushLeft
<1>9. ASSUME NEW part \in {"bus", "hub", "pool"}, Close(part)
      PROVE  LifeInv'
  <2>1. part \in Closable /\ part \notin LoopIds /\ part # "live" /\ gaveUp \subseteq LoopIds
    BY LifeOrder DEF Closable, LifeInv, LifespanTypeOK
  <2>2. Dealt(part)'
    BY <1>9, <2>1 DEF Close, Dealt
  <2> QED
    BY <1>9, <2>1, <2>2, LifeMoves DEF Close
<1>10. CASE CloseBusFails \/ Over
  <2>1. \A x : Built(x)' <=> Built(x)
    BY <1>10 DEF CloseBusFails, Over, Built
  <2>2. \A i \in DOMAIN StopOrder : i < position => Dealt(StopOrder[i])'
    BY <1>10, <2>1 DEF CloseBusFails, Over, At, Dealt, LifeInv, Winding
  <2>4. LifespanTypeOK'
    BY <1>10 DEF CloseBusFails, Over, LifeInv, LifespanTypeOK
  <2>5. phase' = "over" /\ (~closeFailed' => position' > Len(StopOrder)) /\ UNCHANGED <<closed, position, usedClosed, gaveUp, loops>>
    BY <1>10 DEF CloseBusFails, Over
  <2>3. position > 3 => LiveIsOut'
    BY <1>10 DEF CloseBusFails, Over, At, LifeInv, Winding, LiveIsOut
  <2> QED
    BY <1>10, <2>1, <2>2, <2>3, <2>4, <2>5 DEF CloseBusFails, Over, At, LifeInv, Winding
<1> QED
  BY <1>1, <1>2, <1>3, <1>4, <1>5, <1>6, <1>7, <1>8, <1>9, <1>10 DEF LifespanNext, StopNext

LEMMA LifeGood == LifeInv => ShutdownIsOrderly
<1> SUFFICES ASSUME LifeInv, phase = "over", ~closeFailed
             PROVE  /\ \A l \in LoopIds \ {"topic"} : loops[l] # "running"
                    /\ \A part \in {"bus", "hub", "pool"} : Built(part) => part \in closed
  BY DEF LifeInv, ShutdownIsOrderly
<1>1. \A i \in 1..9 : Dealt(StopOrder[i])
  BY LifeOrder DEF LifeInv, LifespanTypeOK, Winding
<1>2. \A part \in (LoopIds \ {"topic"}) \cup Closable : Dealt(part)
  BY <1>1, LifeOrder DEF Closable
<1> QED
  BY <1>2 DEF Dealt, Closable
-----------------------------------------------------------------------------
(* Every line is somewhere, and a bridge that has ended holds none.        *)
BridgesKeep == Lines \subseteq unread \cup queued \cup held \cup given /\ (ended => held = {})

LEMMA BridgesStart == BridgesInit => BridgesKeep
BY DEF BridgesInit, BridgesKeep

LEMMA BridgesStep ==
    Bridge # "tcpdump" /\ BridgesKeep /\ [BridgesNext]_bridgesVars => BridgesKeep'
<1> SUFFICES ASSUME Bridge # "tcpdump", BridgesKeep, [BridgesNext]_bridgesVars
             PROVE  BridgesKeep'
  OBVIOUS
<1>1. CASE UNCHANGED bridgesVars \/ IntervalPasses
  BY <1>1 DEF BridgesKeep, bridgesVars, IntervalPasses
<1>2. CASE Silence \/ Terminate \/ EndOfInput
  BY <1>2 DEF BridgesKeep, Silence, Terminate, Unwinds, EndOfInput
<1>3. ASSUME NEW line \in Lines, Pump(line)
      PROVE  BridgesKeep'
  BY <1>3 DEF BridgesKeep, Pump
<1>4. ASSUME NEW line \in Lines, ReadLine(line)
      PROVE  BridgesKeep'
  BY <1>4 DEF BridgesKeep, ReadLine, HasReader
<1> QED
  BY <1>1, <1>2, <1>3, <1>4 DEF BridgesNext

LEMMA BridgesGood == BridgesKeep => NothingHeldAtTheEnd
BY DEF BridgesKeep, NothingHeldAtTheEnd

(* Whatever a line says and whichever parser read it, what is sent of it   *)
(* as a flow is within the contract.                                       *)
LEMMA ContractIsKept == FlowsKeepTheContract
<1> SUFFICES ASSUME NEW line, ModalityOf(line.kind) = "flows", NEW flow \in Sent(line)
             PROVE  /\ IsFlowV1(flow)
                    /\ \/ line.kind \in {"tcpdump", "tcpdump_dns"}
                       \/ line.proto = flow.protocol
                       \/ <<line.proto, flow.protocol>> \in ByNumber
                    /\ (flow.direction = "internal") = (line.src = "inside" /\ line.dst = "inside")
                    /\ flow.direction = "inbound" => line.src # "inside"
  BY Zenon DEF FlowsKeepTheContract
<1>1. flow = ToFlow(line) /\ IsFlow(line)
  BY DEF Sent
<1>2. /\ flow.fields = (FlowParsers[line.kind] \cap FlowV1Fields) \cup Counts
                           \cup {"schema_version", "protocol", "direction", "duration"}
      /\ flow.protocol = (CHOOSE p \in ProtocolOf(ParsedProtocol(line)) : TRUE)
      /\ flow.direction = Direction(line.src, line.dst)
  BY <1>1 DEF ToFlow
<1>3. FlowParsers[line.kind] \in {ZeekConn, SuricataFlow, TcpdumpLine, TsharkLine}
  <2>1. line.kind \in DOMAIN FlowParsers
    BY DEF ModalityOf
  <2>2. line.kind \in {"zeek_conn", "suricata_flow", "tcpdump", "tcpdump_dns", "tshark"}
    BY <2>1 DEF FlowParsers
  <2> QED
    BY <2>2 DEF FlowParsers, TcpdumpDns
<1>4. Endpoints \cup Sizes \subseteq FlowParsers[line.kind]
  BY <1>3 DEF ZeekConn, SuricataFlow, TcpdumpLine, TsharkLine
<1>5. IsFlowV1(flow)
  <2>1. FlowRequired \subseteq Endpoints \cup Sizes \cup Counts
                           \cup {"schema_version", "protocol", "direction", "duration"}
    BY DEF FlowRequired, Endpoints, Sizes, Counts
  <2>2. FlowRequired \subseteq FlowV1Fields
    BY DEF FlowV1Fields
  <2>3. Counts \cup {"schema_version", "protocol", "direction", "duration"} \subseteq FlowV1Fields
    BY DEF Counts, FlowV1Fields, FlowRequired
  <2> QED
    BY <1>2, <1>4, <2>1, <2>2, <2>3 DEF IsFlowV1
<1>6. flow.protocol \in ProtocolOf(ParsedProtocol(line))
  BY <1>1, <1>2 DEF IsFlow
<1>7. line.kind \notin {"tcpdump", "tcpdump_dns"} => ParsedProtocol(line) = line.proto
  BY DEF ParsedProtocol
<1> QED
  BY <1>2, <1>5, <1>6, <1>7 DEF ProtocolOf, Direction
-----------------------------------------------------------------------------
(* A record sent is still in the list, in the hands of a thread that waits *)
(* for it, acknowledged, or in a batch some request was refused over; and  *)
(* a thread that is alone has in the list what it sent, or waits for it.   *)
IsCarried(r) ==
    \/ r \in pendingFutures \/ future[r] = "acked"
    \/ \E t \in Publishers : publishing[t].pc = "wait" /\ r \in publishing[t].taken
    \/ \E p \in reports : ~p.accepted /\ r \in p.batch \cup p.taken

Publishing == [pc : {"send", "wait"}, left : Nat, batch : SUBSET Produced,
               taken : SUBSET Produced, alone : BOOLEAN]
PublishReports ==
    [batch : SUBSET Produced, taken : SUBSET Produced, alone : BOOLEAN, accepted : BOOLEAN]
PublishInv ==
    /\ future \in Seq({"queued", "acked", "failed"}) /\ pendingFutures \subseteq Produced
    /\ publishing \in [Publishers -> {NotPublishing} \cup Publishing]
    /\ reports \subseteq PublishReports
    /\ \A r \in Produced : IsCarried(r)
    /\ \A t \in Publishers : publishing[t] # NotPublishing /\ publishing[t].alone =>
           /\ \A u \in Publishers : publishing[u] # NotPublishing => u = t
           /\ publishing[t].pc = "send" => publishing[t].batch \subseteq pendingFutures
           /\ publishing[t].pc = "wait" => publishing[t].batch \subseteq publishing[t].taken
    /\ \A p \in reports : p.accepted /\ p.alone => \A r \in p.batch : future[r] = "acked"

LEMMA PublishStart == FlowBusInit => PublishInv
BY DEF FlowBusInit, PublishInv, Produced, NotPublishing

(* A thread at work has the fields of one.                                 *)
LEMMA PublisherAt ==
    ASSUME PublishInv, NEW t \in Publishers, publishing[t] # NotPublishing
    PROVE  publishing[t] \in Publishing
BY DEF PublishInv

LEMMA NotAt ==
    ASSUME PublishInv, NEW t \in Publishers
    PROVE  publishing[t].pc \in {"send", "wait"} <=> publishing[t] # NotPublishing
BY DEF PublishInv, NotPublishing, Publishing

(* A publish ends, with the records in hand acknowledged or its report a   *)
(* refusal; what it waited for is accounted for.                           *)
LEMMA ReportKeeps ==
    ASSUME PublishInv, NEW t \in Publishers, NEW clean \in BOOLEAN, Report(t, clean),
           publishing[t] # NotPublishing, future' = future, pendingFutures' = pendingFutures,
           clean => \A r \in publishing[t].taken : publishing[t].pc = "wait" => future[r] = "acked",
           clean /\ publishing[t].alone => \A r \in publishing[t].batch : future[r] = "acked"
    PROVE  PublishInv'
<1> DEFINE report == [batch |-> publishing[t].batch, taken |-> publishing[t].taken,
                      alone |-> publishing[t].alone, accepted |-> clean]
<1>1. publishing[t] \in Publishing
  BY PublisherAt
<1>2. reports' = reports \cup {report} /\ publishing' = [publishing EXCEPT ![t] = NotPublishing]
  BY DEF Report
<1>3. report \in PublishReports /\ Produced' = Produced /\ PublishReports' = PublishReports
      /\ Publishing' = Publishing
  BY <1>1 DEF Publishing, PublishReports, Produced
<1>4. publishing' \in [Publishers -> {NotPublishing} \cup Publishing]
  BY <1>2 DEF PublishInv
<1>5. \A r \in Produced : IsCarried(r)'
  <2> SUFFICES ASSUME NEW r \in Produced
               PROVE  IsCarried(r)'
    OBVIOUS
  <2>1. CASE \E u \in Publishers : publishing[u].pc = "wait" /\ r \in publishing[u].taken
    <3>1. PICK u \in Publishers : publishing[u].pc = "wait" /\ r \in publishing[u].taken
      BY <2>1
    <3>2. CASE u # t
      <4>1. publishing'[u] = publishing[u]
        BY <1>2, <3>2
      <4> QED
        BY <3>1, <4>1 DEF IsCarried
    <3>3. CASE u = t /\ clean
      BY <3>1, <3>3 DEF IsCarried
    <3>4. CASE u = t /\ ~clean
      <4>1. report \in reports' /\ ~report.accepted /\ r \in report.taken
        BY <1>2, <3>1, <3>4
      <4> HIDE DEF report
      <4> QED
        BY <4>1 DEF IsCarried
    <3> QED
      BY <3>2, <3>3, <3>4
  <2>2. CASE r \in pendingFutures \/ future[r] = "acked"
             \/ \E p \in reports : ~p.accepted /\ r \in p.batch \cup p.taken
    BY <2>2, <1>2 DEF IsCarried
  <2> QED
    BY <2>1, <2>2 DEF PublishInv, IsCarried
<1>6. \A u \in Publishers : publishing'[u] # NotPublishing => u # t /\ publishing'[u] = publishing[u]
  BY <1>2, <1>4
<1>7. \A p \in reports' : p.accepted /\ p.alone => \A r \in p.batch : future[r] = "acked"
  <2>1. report.accepted = clean /\ report.alone = publishing[t].alone /\ report.batch = publishing[t].batch
    OBVIOUS
  <2> HIDE DEF report
  <2> QED
    BY <1>2, <2>1 DEF PublishInv
<1>8. \A u \in Publishers : publishing'[u] # NotPublishing /\ publishing'[u].alone =>
           /\ \A v \in Publishers : publishing'[v] # NotPublishing => v = u
           /\ publishing'[u].pc = "send" => publishing'[u].batch \subseteq pendingFutures
           /\ publishing'[u].pc = "wait" => publishing'[u].batch \subseteq publishing'[u].taken
  BY <1>6 DEF PublishInv
<1>9. reports' \subseteq PublishReports
  BY <1>2, <1>3 DEF PublishInv
<1> QED
  BY <1>3, <1>4, <1>5, <1>7, <1>8, <1>9 DEF PublishInv

LEMMA StartPublishKeeps ==
    ASSUME PublishInv, NEW t \in Publishers, NEW n \in BatchSizes, StartPublish(t, n)
    PROVE  PublishInv'
<1> DEFINE mine == [pc |-> "send", left |-> n, batch |-> {}, taken |-> {},
                    alone |-> Overlapped(t) = {} /\ pendingFutures = {}]
<1>1. /\ publishing[t] = NotPublishing /\ UNCHANGED <<future, pendingFutures, reports>>
      /\ publishing' = [u \in Publishers |->
              IF u = t THEN mine
              ELSE IF publishing[u] = NotPublishing THEN NotPublishing
              ELSE [publishing[u] EXCEPT !.alone = FALSE]]
  BY DEF StartPublish
<1>2. Produced' = Produced /\ Publishing' = Publishing /\ PublishReports' = PublishReports
  BY <1>1 DEF Produced, Publishing, PublishReports
<1>3. mine \in Publishing
  BY FlowBusAssumption DEF Publishing
<1>4. \A u \in Publishers : u # t /\ publishing[u] # NotPublishing =>
          /\ publishing'[u] \in Publishing /\ ~publishing'[u].alone
          /\ publishing'[u].pc = publishing[u].pc /\ publishing'[u].taken = publishing[u].taken
  <2> SUFFICES ASSUME NEW u \in Publishers, u # t, publishing[u] # NotPublishing
               PROVE  /\ publishing'[u] \in Publishing /\ ~publishing'[u].alone
                      /\ publishing'[u].pc = publishing[u].pc /\ publishing'[u].taken = publishing[u].taken
    OBVIOUS
  <2>1. publishing[u] \in Publishing
    BY PublisherAt
  <2>2. publishing'[u] = [publishing[u] EXCEPT !.alone = FALSE]
    BY <1>1
  <2> QED
    BY <2>1, <2>2 DEF Publishing
<1>5. \A u \in Publishers : u # t /\ publishing[u] = NotPublishing => publishing'[u] = NotPublishing
  BY <1>1
<1>6. publishing'[t] = mine
  BY <1>1
<1>7. publishing' \in [Publishers -> {NotPublishing} \cup Publishing]
  <2>1. \A u \in Publishers : publishing'[u] \in {NotPublishing} \cup Publishing
    BY <1>3, <1>4, <1>5, <1>6
  <2>2. DOMAIN publishing' = Publishers /\ publishing' = [u \in Publishers |-> publishing'[u]]
    BY <1>1
  <2> HIDE DEF mine
  <2> QED
    BY <2>1, <2>2
<1>8. \A r \in Produced : IsCarried(r)'
  <2>1. \A u \in Publishers : publishing[u].pc = "wait" => u # t /\ publishing[u] # NotPublishing
    BY <1>1 DEF NotPublishing
  <2> QED
    BY <1>1, <1>4, <2>1 DEF PublishInv, IsCarried
<1>9. \A u \in Publishers : publishing'[u] # NotPublishing /\ publishing'[u].alone =>
           /\ u = t /\ Overlapped(t) = {} /\ publishing'[u].batch = {}
  <2>1. mine.alone = (Overlapped(t) = {} /\ pendingFutures = {}) /\ mine.batch = {}
    OBVIOUS
  <2> HIDE DEF mine
  <2> QED
    BY <1>4, <1>5, <1>6, <2>1
<1>10. Overlapped(t) = {} => \A v \in Publishers : publishing'[v] # NotPublishing => v = t
  BY <1>5 DEF Overlapped
<1>11. \A u \in Publishers : publishing'[u] # NotPublishing /\ publishing'[u].alone =>
           /\ \A v \in Publishers : publishing'[v] # NotPublishing => v = u
           /\ publishing'[u].pc = "send" => publishing'[u].batch \subseteq pendingFutures
           /\ publishing'[u].pc = "wait" => publishing'[u].batch \subseteq publishing'[u].taken
  BY <1>9, <1>10
<1> QED
  BY <1>1, <1>2, <1>7, <1>8, <1>11 DEF PublishInv

LEMMA SendKeeps ==
    ASSUME PublishInv, NEW t \in Publishers, Send(t)
    PROVE  PublishInv'
<1> DEFINE r == Len(future) + 1
<1>1. /\ publishing[t].pc = "send" /\ publishing[t].left > 0 /\ reports' = reports
      /\ future' = Append(future, "queued") /\ pendingFutures' = pendingFutures \cup {r}
      /\ publishing' = [publishing EXCEPT ![t].left = @ - 1, ![t].batch = @ \cup {r}]
  BY DEF Send
<1>2. publishing[t] \in Publishing
  BY <1>1, NotAt, PublisherAt
<1>3. /\ future' \in Seq({"queued", "acked", "failed"}) /\ Produced' = Produced \cup {r}
      /\ \A q \in Produced : future'[q] = future[q]
  <2>1. Len(future) \in Nat /\ DOMAIN future = 1..Len(future)
    BY DEF PublishInv
  <2> QED
    BY <1>1, <2>1 DEF PublishInv, Produced
<1>4. /\ publishing'[t] \in Publishing' /\ publishing'[t].pc = "send" /\ publishing'[t].alone = publishing[t].alone
      /\ publishing'[t].batch = publishing[t].batch \cup {r} /\ publishing'[t] # NotPublishing
  <2>1. publishing'[t] = [publishing[t] EXCEPT !.left = @ - 1, !.batch = @ \cup {r}]
    BY <1>1 DEF PublishInv
  <2>2. publishing[t].left - 1 \in Nat
    BY <1>1, <1>2 DEF Publishing
  <2>3. publishing'[t] \in Publishing'
    BY <1>2, <1>3, <2>1, <2>2, ZenonT(40) DEF Publishing
  <2> QED
    BY <1>1, <1>2, <2>1, <2>3, ZenonT(40) DEF Publishing, NotPublishing
<1>5. \A u \in Publishers : u # t => publishing'[u] = publishing[u]
  BY <1>1 DEF PublishInv
<1>6. publishing' \in [Publishers -> {NotPublishing} \cup Publishing']
  <2>1. \A x : x \in Publishing => x \in Publishing'
    BY <1>3 DEF Publishing
  <2>2. \A u \in Publishers : publishing'[u] \in {NotPublishing} \cup Publishing'
    BY <1>4, <1>5, <2>1 DEF PublishInv
  <2>3. publishing' = [u \in Publishers |-> publishing'[u]]
    BY <1>1 DEF PublishInv
  <2> QED
    BY <2>2, <2>3
<1>7. reports' \subseteq PublishReports'
  BY <1>1, <1>3 DEF PublishInv, PublishReports
<1>8. \A q \in Produced' : IsCarried(q)'
  <2>1. r \in pendingFutures'
    BY <1>1
  <2>2. ASSUME NEW q \in Produced
        PROVE  IsCarried(q)'
    <3>1. IsCarried(q)
      BY DEF PublishInv
    <3>2. \A u \in Publishers : publishing[u].pc = "wait" => publishing'[u] = publishing[u]
      BY <1>1, <1>5
    <3> HIDE DEF r
    <3> QED
      BY <1>1, <1>3, <3>1, <3>2 DEF IsCarried
  <2> HIDE DEF r
  <2> QED
    BY <1>3, <2>1, <2>2 DEF IsCarried
<1>9. \A p \in reports' : p.accepted /\ p.alone => \A q \in p.batch : future'[q] = "acked"
  BY <1>1, <1>3 DEF PublishInv, PublishReports
<1>10. publishing[t] # NotPublishing
  BY <1>1, NotAt
<1>11. \A u \in Publishers : publishing'[u] # NotPublishing /\ publishing'[u].alone =>
           /\ \A v \in Publishers : publishing'[v] # NotPublishing => v = u
           /\ publishing'[u].pc = "send" => publishing'[u].batch \subseteq pendingFutures'
           /\ publishing'[u].pc = "wait" => publishing'[u].batch \subseteq publishing'[u].taken
  <2> HIDE DEF r
  <2>1. \A u \in Publishers : publishing'[u] # NotPublishing <=> publishing[u] # NotPublishing
    BY <1>4, <1>5, <1>10
  <2>2. \A u \in Publishers : u # t => ~(publishing[u] # NotPublishing /\ publishing[u].alone)
    BY <1>10 DEF PublishInv
  <2>3. publishing[t].alone =>
            /\ publishing[t].batch \subseteq pendingFutures
            /\ \A v \in Publishers : publishing[v] # NotPublishing => v = t
    BY <1>1, <1>10 DEF PublishInv
  <2> QED
    BY <1>1, <1>4, <1>5, <2>1, <2>2, <2>3
<1>12. pendingFutures' \subseteq Produced'
  BY <1>1, <1>3 DEF PublishInv
<1> QED
  BY <1>3, <1>6, <1>7, <1>8, <1>9, <1>11, <1>12 DEF PublishInv

LEMMA TakePendingKeeps ==
    ASSUME PublishInv, NEW t \in Publishers, TakePending(t)
    PROVE  PublishInv'
<1>1. publishing[t].pc = "send" /\ publishing[t] # NotPublishing
  BY NotAt DEF TakePending
<1>2. CASE pendingFutures = {}
  <2>1. publishing[t].alone => \A r \in publishing[t].batch : future[r] = "acked"
    BY <1>1, <1>2 DEF PublishInv
  <2>2. Report(t, TRUE) /\ future' = future /\ pendingFutures' = pendingFutures
    BY <1>2 DEF TakePending
  <2> QED
    BY <1>1, <2>1, <2>2, ReportKeeps
<1>3. CASE pendingFutures # {}
  <2>1. /\ publishing' = [publishing EXCEPT ![t].pc = "wait", ![t].taken = pendingFutures]
        /\ UNCHANGED <<reports, future>> /\ pendingFutures' = {}
    BY <1>3 DEF TakePending
  <2>2. publishing[t] \in Publishing
    BY <1>1, PublisherAt
  <2>3. Produced' = Produced /\ Publishing' = Publishing /\ PublishReports' = PublishReports
    BY <2>1 DEF Produced, Publishing, PublishReports
  <2>4. /\ publishing'[t] \in Publishing /\ publishing'[t].pc = "wait" /\ publishing'[t].taken = pendingFutures
        /\ publishing'[t].alone = publishing[t].alone /\ publishing'[t].batch = publishing[t].batch
        /\ publishing'[t] # NotPublishing
    <3>1. publishing'[t] = [publishing[t] EXCEPT !.pc = "wait", !.taken = pendingFutures]
      BY <2>1 DEF PublishInv
    <3>2. publishing'[t] \in Publishing /\ publishing'[t].pc = "wait"
      BY <2>2, <3>1 DEF Publishing, PublishInv
    <3> QED
      BY <2>2, <3>1, <3>2 DEF Publishing, NotPublishing
  <2>5. \A u \in Publishers : u # t => publishing'[u] = publishing[u]
    BY <2>1 DEF PublishInv
  <2>6. publishing' \in [Publishers -> {NotPublishing} \cup Publishing]
    <3>1. \A u \in Publishers : publishing'[u] \in {NotPublishing} \cup Publishing
      BY <2>4, <2>5 DEF PublishInv
    <3>2. publishing' = [u \in Publishers |-> publishing'[u]]
      BY <2>1 DEF PublishInv
    <3> QED
      BY <3>1, <3>2
  <2>7. \A r \in Produced : IsCarried(r)'
    <3>1. \A u \in Publishers : publishing[u].pc = "wait" => u # t
      BY <1>1
    <3> QED
      BY <2>1, <2>4, <2>5, <3>1 DEF PublishInv, IsCarried
  <2>8. \A u \in Publishers : publishing'[u] # NotPublishing /\ publishing'[u].alone =>
           /\ \A v \in Publishers : publishing'[v] # NotPublishing => v = u
           /\ publishing'[u].pc = "send" => publishing'[u].batch \subseteq pendingFutures'
           /\ publishing'[u].pc = "wait" => publishing'[u].batch \subseteq publishing'[u].taken
    <3>1. \A u \in Publishers : publishing'[u] # NotPublishing <=> publishing[u] # NotPublishing
      BY <1>1, <2>4, <2>5
    <3>2. \A u \in Publishers : u # t => ~(publishing[u] # NotPublishing /\ publishing[u].alone)
      BY <1>1 DEF PublishInv
    <3>3. publishing[t].alone =>
            /\ publishing[t].batch \subseteq pendingFutures
            /\ \A v \in Publishers : publishing[v] # NotPublishing => v = t
      BY <1>1 DEF PublishInv
    <3> QED
      BY <2>4, <2>5, <3>1, <3>2, <3>3
  <2> QED
    BY <2>1, <2>3, <2>6, <2>7, <2>8 DEF PublishInv
<1> QED
  BY <1>2, <1>3

LEMMA ResolveKeeps ==
    ASSUME PublishInv, NEW r \in Produced, Resolve(r)
    PROVE  PublishInv'
<1>1. PICK outcome \in {"acked", "failed"} : future' = [future EXCEPT ![r] = outcome]
  BY DEF Resolve
<1>2. future[r] = "queued" /\ UNCHANGED <<pendingFutures, publishing, reports>>
  BY DEF Resolve
<1>3. future' \in Seq({"queued", "acked", "failed"}) /\ DOMAIN future' = DOMAIN future
  BY <1>1 DEF PublishInv, Produced
<1>4. Produced' = Produced /\ Publishing' = Publishing /\ PublishReports' = PublishReports
  BY <1>3 DEF Produced, Publishing, PublishReports
<1>5. \A q \in Produced : future[q] = "acked" => future'[q] = "acked"
  BY <1>1, <1>2 DEF PublishInv, Produced
<1>6. \A q \in Produced : IsCarried(q)'
  BY <1>2, <1>5 DEF PublishInv, IsCarried
<1>7. \A p \in reports' : p.accepted /\ p.alone => \A q \in p.batch : future'[q] = "acked"
  BY <1>2, <1>5 DEF PublishInv, PublishReports
<1> QED
  BY <1>2, <1>3, <1>4, <1>6, <1>7 DEF PublishInv

(* The topic that is reported ready has the retention asked for.           *)
TopicInv ==
    /\ setup \in [pc : {"trying", "ready", "gave_up"}, attempt : 1..TopicAttempts]
    /\ ownsRetention \in BOOLEAN /\ flowTopic \in {"missing", "own", "other"}
    /\ ReadyTopicIsConfigured
LEMMA TopicStart == FlowBusInit => TopicInv
BY FlowBusAssumption DEF FlowBusInit, TopicInv, ReadyTopicIsConfigured

LEMMA TopicKeeps ==
    ASSUME TopicInv, TopicNext
    PROVE  TopicInv'
<1>1. CASE EnsureTopic
  BY <1>1 DEF TopicNext, EnsureTopic, TopicInv, ReadyTopicIsConfigured, Created
<1>2. CASE EnsureTopicFails
  <2>1. setup.pc = "trying" /\ setup.attempt \in 1..TopicAttempts
    BY <1>2 DEF EnsureTopicFails, TopicInv
  <2>2. setup.attempt < TopicAttempts => setup.attempt + 1 \in 1..TopicAttempts
    BY <2>1, FlowBusAssumption
  <2>3. setup' \in [pc : {"trying", "gave_up"}, attempt : 1..TopicAttempts]
    BY <1>2, <2>1, <2>2 DEF EnsureTopicFails, NextAttempt, TopicInv
  <2>4. flowTopic' \in {"missing", "own", "other"} /\ ownsRetention' = ownsRetention
    BY <1>2 DEF TopicNext, EnsureTopicFails, Created, TopicInv
  <2> QED
    BY <2>3, <2>4 DEF TopicInv, ReadyTopicIsConfigured
<1> QED
  BY <1>1, <1>2 DEF TopicNext

BusInv == PublishInv /\ TopicInv
LEMMA BusStart == FlowBusInit => BusInv
BY PublishStart, TopicStart DEF BusInv

LEMMA BusStep == BusInv /\ [PublishNext \/ TopicNext]_busVars => BusInv'
<1> SUFFICES ASSUME BusInv, [PublishNext \/ TopicNext]_busVars
             PROVE  BusInv'
  OBVIOUS
<1>1. ASSUME UNCHANGED <<future, pendingFutures, publishing, reports>>
      PROVE  PublishInv'
  BY <1>1 DEF BusInv, PublishInv, Produced, Publishing, PublishReports, IsCarried
<1>2. ASSUME UNCHANGED <<ownsRetention, flowTopic, setup>>
      PROVE  TopicInv'
  BY <1>2 DEF BusInv, TopicInv, ReadyTopicIsConfigured
<1>3. CASE UNCHANGED busVars
  BY <1>1, <1>2, <1>3 DEF busVars, BusInv
<1>4. CASE TopicNext
  BY <1>1, <1>4, TopicKeeps DEF TopicNext, BusInv
<1>5. CASE PublishNext
  <2>1. ASSUME NEW t \in Publishers, SendRaises(t) \/ FlushReturns(t) \/ FlushTimesOut(t)
        PROVE  PublishInv'
    <3>1. publishing[t] # NotPublishing
      BY <2>1, NotAt DEF SendRaises, FlushReturns, FlushTimesOut, BusInv
    <3>2. CASE FlushReturns(t)
      <4>1. publishing[t].alone => publishing[t].batch \subseteq publishing[t].taken
        BY <3>1, <3>2 DEF FlushReturns, BusInv, PublishInv
      <4>2. PICK clean \in BOOLEAN :
                Report(t, clean) /\ clean = (\A r \in publishing[t].taken : future[r] = "acked")
        BY <3>2 DEF FlushReturns
      <4> QED
        BY <3>1, <3>2, <4>1, <4>2, ReportKeeps DEF FlushReturns, BusInv
    <3>3. CASE SendRaises(t) \/ FlushTimesOut(t)
      BY <3>1, <3>3, ReportKeeps DEF SendRaises, FlushTimesOut, BusInv
    <3> QED
      BY <2>1, <3>2, <3>3
  <2>2. PublishInv'
    BY <1>5, <2>1, StartPublishKeeps, SendKeeps, TakePendingKeeps, ResolveKeeps DEF PublishNext, BusInv
  <2> QED
    BY <1>2, <1>5, <2>2 DEF PublishNext, BusInv
<1> QED
  BY <1>3, <1>4, <1>5

LEMMA BusGood == BusInv => FailuresAreReported /\ ReadyTopicIsConfigured
<1> SUFFICES ASSUME BusInv
             PROVE  FailuresAreReported /\ ReadyTopicIsConfigured
  OBVIOUS
<1>1. \A t \in Publishers : publishing[t].pc = "wait" => publishing[t] # NotPublishing
  BY DEF NotPublishing
<1> QED
  BY <1>1 DEF BusInv, PublishInv, TopicInv, IsCarried, FailuresAreReported
-----------------------------------------------------------------------------
(* Five places, none of a packet in two of them: the table, the batch of   *)
(* each thread, what was given up and what was taken.                      *)
Apart(flows) == \A t, u \in Tuples : t # u => flows[t] \cap flows[u] = {}
PostedPackets == UNION {f.packets : f \in received}
AreApart(T, S, M, G, R) ==
    /\ T \cap S = {} /\ T \cap M = {} /\ T \cap G = {} /\ T \cap R = {} /\ S \cap M = {}
    /\ S \cap G = {} /\ S \cap R = {} /\ M \cap G = {} /\ M \cap R = {} /\ G \cap R = {}
Partition(C, T, S, M, G, R) == T \cup S \cup M \cup G \cup R = C /\ AreApart(T, S, M, G, R)

PosterStates == [at : {"waiting", "ending", "flushed", "authorised", "over"},
                 batch : [Tuples -> SUBSET Nat]]
PacketInv ==
    /\ captured \in Nat /\ flowTable \in [Tuples -> SUBSET Nat]
    /\ poster \in [Posters -> PosterStates]
    /\ \A p \in Posters : poster[p].at \notin {"flushed", "authorised"} => poster[p].batch = NoBatch
    /\ Apart(flowTable) /\ \A p \in Posters : Apart(poster[p].batch)
    /\ \A f, g \in received : f # g => f.packets \cap g.packets = {}
    /\ Partition(1..captured, PacketsIn(flowTable), PacketsIn(poster["sender"].batch),
                 PacketsIn(poster["main"].batch), givenUp, PostedPackets)

LEMMA NoBatchIsEmpty ==
    /\ NoBatch \in [Tuples -> SUBSET Nat] /\ PacketsIn(NoBatch) = {} /\ Apart(NoBatch)
    /\ \A flows \in [Tuples -> SUBSET Nat] : HeldFlows(flows) = {} => flows = NoBatch
BY DEF NoBatch, PacketsIn, Apart, HeldFlows

LEMMA PacketStart == PacketCaptureInit => PacketInv
<1> SUFFICES ASSUME PacketCaptureInit
             PROVE  PacketInv
  OBVIOUS
<1>1. poster \in [Posters -> PosterStates] /\ \A p \in Posters : poster[p].batch = NoBatch
  BY NoBatchIsEmpty DEF PacketCaptureInit, PosterStates
<1>2. poster["sender"].batch = NoBatch /\ poster["main"].batch = NoBatch
  BY <1>1 DEF Posters
<1>3. PostedPackets = {} /\ 1..captured = {} /\ givenUp = {} /\ flowTable = NoBatch
  BY DEF PacketCaptureInit, PostedPackets
<1>4. Partition(1..captured, PacketsIn(flowTable), PacketsIn(poster["sender"].batch),
                PacketsIn(poster["main"].batch), givenUp, PostedPackets)
  BY <1>2, <1>3, NoBatchIsEmpty DEF Partition, AreApart
<1> QED
  BY <1>1, <1>3, <1>4, NoBatchIsEmpty DEF PacketCaptureInit, PacketInv

LEMMA ProcessPacketKeeps ==
    ASSUME PacketInv, NEW t \in Tuples, ProcessPacket(t)
    PROVE  PacketInv'
<1> DEFINE n == captured + 1
<1>1. PICK evicted \in SUBSET Tuples :
          /\ flowTable' = [u \in Tuples |-> (IF u \in evicted THEN {} ELSE flowTable[u])
                                         \cup (IF u = t THEN {n} ELSE {})]
          /\ givenUp' = givenUp \cup UNION {flowTable[old] : old \in evicted}
  BY DEF ProcessPacket, OldestFlows, HeldFlows
<1>2. /\ captured' = n /\ received' = received
      /\ poster' = [poster EXCEPT !["main"].at = IF capturing THEN "waiting" ELSE "ending"]
      /\ poster["main"].at = "waiting" /\ captured \in Nat
  BY DEF ProcessPacket, PacketInv
<1>3. n \in Nat /\ n \notin 1..captured /\ 1..n = 1..captured \cup {n}
  BY <1>2
<1> HIDE DEF n
<1>4. /\ poster' \in [Posters -> PosterStates]
      /\ \A p \in Posters : poster'[p].batch = poster[p].batch
      /\ \A p \in Posters : poster'[p].at \notin {"flushed", "authorised"} => poster'[p].batch = NoBatch
  <2>1. poster'["main"] = [poster["main"] EXCEPT !.at = IF capturing THEN "waiting" ELSE "ending"]
    BY <1>2 DEF PacketInv, Posters
  <2>2. poster'["sender"] = poster["sender"]
    BY <1>2 DEF PacketInv, Posters
  <2>3. poster["main"] \in PosterStates /\ poster["sender"] \in PosterStates
    BY DEF PacketInv, Posters
  <2>4. poster'["main"] \in PosterStates /\ poster'["main"].batch = poster["main"].batch
    BY <2>1, <2>3 DEF PosterStates
  <2>5. poster' = [p \in Posters |-> poster'[p]]
    BY <1>2 DEF PacketInv
  <2>6. \A p \in Posters : poster'[p] \in PosterStates /\ poster'[p].batch = poster[p].batch
    BY <2>2, <2>3, <2>4 DEF Posters
  <2>7. poster["main"].batch = NoBatch
    BY <1>2 DEF PacketInv, Posters
  <2>8. \A p \in Posters : poster'[p].at \notin {"flushed", "authorised"} => poster'[p].batch = NoBatch
    BY <2>2, <2>4, <2>7 DEF PacketInv, Posters
  <2> QED
    BY <2>5, <2>6, <2>8
<1>5. /\ flowTable' \in [Tuples -> SUBSET Nat]
      /\ \A u \in Tuples : flowTable[u] \subseteq 1..captured
  <2>1. \A u \in Tuples : flowTable[u] \subseteq PacketsIn(flowTable)
    BY DEF PacketsIn
  <2>2. \A u \in Tuples : flowTable[u] \subseteq 1..captured
    BY <2>1 DEF PacketInv, Partition
  <2>3. \A u \in Tuples : (IF u \in evicted THEN {} ELSE flowTable[u]) \cup (IF u = t THEN {n} ELSE {}) \in SUBSET Nat
    BY <1>3 DEF PacketInv
  <2> QED
    BY <1>1, <2>2, <2>3
<1>6. Apart(flowTable)'
  <2>1. \A u \in Tuples : flowTable'[u] = (IF u \in evicted THEN {} ELSE flowTable[u])
                                         \cup (IF u = t THEN {n} ELSE {})
    BY <1>1
  <2>2. \A u \in Tuples : n \notin flowTable[u]
    BY <1>3, <1>5
  <2> QED
    BY <2>1, <2>2 DEF PacketInv, Apart
<1> DEFINE E == UNION {flowTable[old] : old \in evicted}
<1>7. /\ E \subseteq PacketsIn(flowTable)
      /\ PacketsIn(flowTable)' = (PacketsIn(flowTable) \ E) \cup {n}
  <2>1. \A u \in Tuples : flowTable'[u] = (IF u \in evicted THEN {} ELSE flowTable[u])
                                         \cup (IF u = t THEN {n} ELSE {})
    BY <1>1
  <2>2. \A x : x \in E <=> \E u \in evicted : x \in flowTable[u]
    OBVIOUS
  <2>3. \A x : x \in PacketsIn(flowTable) <=> \E u \in Tuples : x \in flowTable[u]
    BY DEF PacketsIn
  <2>4. \A x : x \in PacketsIn(flowTable)' <=> \E u \in Tuples : x \in flowTable'[u]
    BY DEF PacketsIn
  <2>5. \A u, v \in Tuples : \A x : x \in flowTable[u] /\ x \in flowTable[v] => u = v
    BY DEF PacketInv, Apart
  <2> HIDE DEF E
  <2>6. \A x : x \in PacketsIn(flowTable)' <=> (x \in PacketsIn(flowTable) /\ x \notin E) \/ x = n
    BY <2>1, <2>2, <2>3, <2>4, <2>5
  <2> QED
    BY <2>2, <2>3, <2>6
<1>8. givenUp' = givenUp \cup E
  BY <1>1
<1>9. PostedPackets' = PostedPackets
  BY <1>2 DEF PostedPackets
<1> HIDE DEF E
<1>10. poster'["sender"].batch = poster["sender"].batch /\ poster'["main"].batch = poster["main"].batch
  BY <1>4 DEF Posters
<1>11. Partition(1..captured, PacketsIn(flowTable), PacketsIn(poster["sender"].batch),
                 PacketsIn(poster["main"].batch), givenUp, PostedPackets)'
  <2>1. PacketsIn(poster["sender"].batch)' = PacketsIn(poster["sender"].batch)
        /\ PacketsIn(poster["main"].batch)' = PacketsIn(poster["main"].batch)
    BY <1>10 DEF PacketsIn
  <2>2. (1..captured)' = 1..captured \cup {n}
    BY <1>2, <1>3
  <2>3. ASSUME NEW C, NEW T, NEW S, NEW M, NEW G, NEW R, Partition(C, T, S, M, G, R),
               NEW X \in SUBSET T, NEW y, y \notin C
        PROVE  Partition(C \cup {y}, (T \ X) \cup {y}, S, M, G \cup X, R)
    BY <2>3 DEF Partition, AreApart
  <2>4. Partition(1..captured \cup {n}, (PacketsIn(flowTable) \ E) \cup {n}, PacketsIn(poster["sender"].batch),
                 PacketsIn(poster["main"].batch), givenUp \cup E, PostedPackets)
    BY <2>3, <1>3, <1>7 DEF PacketInv
  <2> QED
    BY <2>1, <2>2, <2>4, <1>7, <1>8, <1>9
<1>12. \A p \in Posters : Apart(poster'[p].batch)
  BY <1>4 DEF PacketInv
<1> QED
  BY <1>2, <1>3, <1>4, <1>5, <1>6, <1>11, <1>12 DEF PacketInv

(* A thread is done with a batch, its flows F posted and the rest given up.*)
LEMMA PostFinishedKeeps ==
    ASSUME PacketInv, NEW p \in Posters, NEW unsent, NEW F, PostFinished(p, unsent),
           unsent \subseteq PacketsIn(poster[p].batch),
           PacketsIn(poster[p].batch) = unsent \cup UNION {f.packets : f \in F},
           unsent \cap UNION {f.packets : f \in F} = {},
           \A f, g \in F : f # g => f.packets \cap g.packets = {},
           received' = received \cup F, captured' = captured, flowTable' = flowTable
    PROVE  PacketInv'
<1> DEFINE U == UNION {f.packets : f \in F}
<1> DEFINE S == PacketsIn(poster["sender"].batch)
<1> DEFINE M == PacketsIn(poster["main"].batch)
<1>1. PostedPackets' = PostedPackets \cup U
  BY DEF PostedPackets
<1>2. U \cap PostedPackets = {} /\ (p = "sender" => S = unsent \cup U) /\ (p = "main" => M = unsent \cup U)
  BY DEF PacketInv, Partition, AreApart, Posters
<1>3. \A f, g \in received' : f # g => f.packets \cap g.packets = {}
  <2>1. ASSUME NEW f \in received, NEW g \in F
        PROVE  f.packets \cap g.packets = {}
    <3>1. f.packets \subseteq PostedPackets /\ g.packets \subseteq U
      BY DEF PostedPackets
    <3> QED
      BY <3>1, <1>2
  <2> QED
    BY <2>1 DEF PacketInv
<1> HIDE DEF U, S, M
<1>4. Partition(1..captured, PacketsIn(flowTable), S, M, givenUp, PostedPackets)
  BY DEF PacketInv, S, M
<1>5. /\ poster' \in [Posters -> PosterStates]
      /\ \A q \in Posters : poster'[q].at \notin {"flushed", "authorised"} => poster'[q].batch = NoBatch
      /\ \A q \in Posters : Apart(poster'[q].batch)
      /\ poster'["main"].batch = IF p = "sender" THEN poster["main"].batch ELSE NoBatch
      /\ poster'["sender"].batch = NoBatch
      /\ givenUp' = IF p = "sender" THEN givenUp \cup unsent ELSE givenUp \cup unsent \cup S
  <2>1. CASE p = "sender"
    <3>1. PICK at \in {"waiting", "over"} :
              poster' = [poster EXCEPT !["sender"] = [at |-> at, batch |-> NoBatch]]
      BY <2>1 DEF PostFinished
    <3>2. [at |-> at, batch |-> NoBatch] \in PosterStates
      BY NoBatchIsEmpty DEF PosterStates
    <3>3. givenUp' = givenUp \cup unsent
      BY <2>1 DEF PostFinished
    <3> QED
      BY <2>1, <3>1, <3>2, <3>3, NoBatchIsEmpty DEF PacketInv, Posters
  <2>2. CASE p = "main"
    <3>1. poster' = [q \in Posters |-> [at |-> "over", batch |-> NoBatch]] /\ givenUp' = givenUp \cup unsent \cup S
      BY <2>2 DEF PostFinished, S
    <3>2. [at |-> "over", batch |-> NoBatch] \in PosterStates
      BY NoBatchIsEmpty DEF PosterStates
    <3> QED
      BY <2>2, <3>1, <3>2, NoBatchIsEmpty DEF Posters
  <2> QED
    BY <2>1, <2>2 DEF Posters
<1>6. PacketsIn(NoBatch) = {} /\ PacketsIn(flowTable)' = PacketsIn(flowTable)
  BY NoBatchIsEmpty DEF PacketsIn
<1>7. Partition(1..captured, PacketsIn(flowTable), PacketsIn(poster["sender"].batch),
                 PacketsIn(poster["main"].batch), givenUp, PostedPackets)'
  <2>1. PacketsIn(poster["sender"].batch)' = {}
    BY <1>5, <1>6 DEF PacketsIn
  <2>4. ASSUME NEW C, NEW A, NEW B, NEW D, NEW G, NEW Q, Partition(C, A, B, D, G, Q),
               NEW X, NEW Y, X \cap Q = {}, X \cap Y = {}
        PROVE  /\ B = Y \cup X => Partition(C, A, {}, D, G \cup Y, Q \cup X)
               /\ D = Y \cup X => Partition(C, A, {}, {}, G \cup Y \cup B, Q \cup X)
    BY <2>4 DEF Partition, AreApart
  <2>5. unsent \cap U = {}
    BY DEF U
  <2>2. CASE p = "sender"
    <3>1. PacketsIn(poster["main"].batch)' = M
      BY <1>5, <2>2 DEF PacketsIn, M
    <3>2. Partition(1..captured, PacketsIn(flowTable), {}, M, givenUp \cup unsent, PostedPackets \cup U)
      <4>1. U \cap PostedPackets = {} /\ S = unsent \cup U /\ U \cap unsent = {}
        BY <1>2, <2>2, <2>5
      <4> QED
        BY <1>4, <2>4, <4>1
    <3> QED
      BY <1>1, <1>5, <1>6, <2>1, <2>2, <3>1, <3>2
  <2>3. CASE p = "main"
    <3>1. PacketsIn(poster["main"].batch)' = {}
      BY <1>5, <1>6, <2>3 DEF PacketsIn
    <3>2. Partition(1..captured, PacketsIn(flowTable), {}, {}, givenUp \cup unsent \cup S, PostedPackets \cup U)
      <4>1. U \cap PostedPackets = {} /\ M = unsent \cup U /\ U \cap unsent = {}
        BY <1>2, <2>3, <2>5
      <4> QED
        BY <1>4, <2>4, <4>1
    <3> QED
      BY <1>1, <1>5, <1>6, <2>1, <2>3, <3>1, <3>2
  <2> QED
    BY <2>2, <2>3 DEF Posters
<1> QED
  BY <1>3, <1>5, <1>7 DEF PacketInv, Apart

(* A thread takes the whole table.                                         *)
LEMMA FlushKeeps ==
    ASSUME PacketInv, NEW p \in Posters, poster[p].batch = NoBatch, Flush,
           poster' = [poster EXCEPT ![p] = [at |-> "flushed", batch |-> flowTable]],
           UNCHANGED <<captured, givenUp, received>>
    PROVE  PacketInv'
<1>1. [at |-> "flushed", batch |-> flowTable] \in PosterStates
  BY DEF PosterStates, PacketInv
<1>2. /\ poster' \in [Posters -> PosterStates]
      /\ \A q \in Posters : poster'[q].at \notin {"flushed", "authorised"} => poster'[q].batch = NoBatch
      /\ \A q \in Posters : Apart(poster'[q].batch)
      /\ \A q \in Posters : poster'[q].batch = IF q = p THEN flowTable ELSE poster[q].batch
  BY <1>1 DEF PacketInv
<1>3. flowTable' = NoBatch /\ PacketsIn(flowTable)' = {} /\ Apart(flowTable)'
  BY NoBatchIsEmpty DEF Flush, PacketsIn, Apart
<1>4. PostedPackets' = PostedPackets
  BY DEF PostedPackets
<1>5. PacketsIn(poster[p].batch) = {}
  BY NoBatchIsEmpty
<1> DEFINE T == PacketsIn(flowTable)
<1> DEFINE S == PacketsIn(poster["sender"].batch)
<1> DEFINE M == PacketsIn(poster["main"].batch)
<1>6. Partition(1..captured, T, S, M, givenUp, PostedPackets)
  BY DEF PacketInv
<1>7. PacketsIn(poster["sender"].batch)' = (IF p = "sender" THEN T ELSE S)
      /\ PacketsIn(poster["main"].batch)' = (IF p = "main" THEN T ELSE M)
  BY <1>2 DEF Posters, PacketsIn
<1>8. (p = "sender" => S = {}) /\ (p = "main" => M = {})
  BY <1>5
<1> HIDE DEF T, S, M
<1>9. Partition(1..captured, {}, IF p = "sender" THEN T ELSE S, IF p = "main" THEN T ELSE M,
                givenUp, PostedPackets)
  BY <1>6, <1>8 DEF Partition, AreApart, Posters
<1>10. Partition(1..captured, PacketsIn(flowTable), PacketsIn(poster["sender"].batch),
                 PacketsIn(poster["main"].batch), givenUp, PostedPackets)'
  BY <1>3, <1>4, <1>7, <1>9
<1> QED
  BY <1>2, <1>3, <1>10, NoBatchIsEmpty DEF PacketInv

(* Nothing moves but where a thread is.                                    *)
LEMMA PacketsRest ==
    ASSUME PacketInv, UNCHANGED <<captured, flowTable, received, givenUp>>,
           poster' \in [Posters -> PosterStates],
           \A q \in Posters : /\ poster'[q].batch = poster[q].batch
                              /\ poster'[q].at \notin {"flushed", "authorised"} => poster'[q].batch = NoBatch
    PROVE  PacketInv'
<1>1. poster'["sender"].batch = poster["sender"].batch /\ poster'["main"].batch = poster["main"].batch
  BY DEF Posters
<1> QED
  BY <1>1 DEF PacketInv, Apart, PacketsIn, PostedPackets

(* What a batch has no contract for is given up, the rest is taken.        *)
LEMMA PostFlowsKeeps ==
    ASSUME PacketInv, NEW p \in Posters, PostFlows(p)
    PROVE  PacketInv'
<1> DEFINE batch == poster[p].batch
<1> DEFINE sent == {t \in HeldFlows(batch) : HasContract(t)}
<1> DEFINE flows == {[tuple |-> t, packets |-> batch[t]] : t \in sent}
<1> DEFINE kept == [t \in Tuples |-> IF t \in sent THEN batch[t] ELSE {}]
<1> DEFINE left == PacketsIn(batch) \ PacketsIn(kept)
<1>1. /\ UNCHANGED <<captured, flowTable>>
      /\ \/ received' = received \cup flows /\ PostFinished(p, left)
         \/ received' = received /\ PostFinished(p, PacketsIn(batch))
  BY DEF PostFlows
<1>2. UNION {f.packets : f \in flows} = PacketsIn(kept)
  <2>1. \A x : x \in PacketsIn(kept) <=> \E t \in sent : x \in batch[t]
    BY DEF PacketsIn, HeldFlows
  <2>2. \A x : x \in UNION {f.packets : f \in flows} <=> \E t \in sent : x \in batch[t]
    <3>1. \A f \in flows : \E t \in sent : f.packets = batch[t]
      OBVIOUS
    <3>2. \A t \in sent : \E f \in flows : f.packets = batch[t]
      <4> TAKE t \in sent
      <4>1. [tuple |-> t, packets |-> batch[t]] \in flows
        OBVIOUS
      <4>2. [tuple |-> t, packets |-> batch[t]].packets = batch[t]
        OBVIOUS
      <4> QED
        BY <4>1, <4>2
    <3> HIDE DEF sent, batch, flows
    <3> QED
      BY <3>1, <3>2
  <2> QED
    BY <2>1, <2>2
<1>3. PacketsIn(kept) \subseteq PacketsIn(batch)
  BY DEF PacketsIn
<1>4. \A f, g \in flows : f # g => f.packets \cap g.packets = {}
  <2>1. sent \subseteq Tuples /\ Apart(batch)
    BY DEF HeldFlows, PacketInv
  <2>2. \A t, u \in sent : t # u => batch[t] \cap batch[u] = {}
    BY <2>1 DEF Apart
  <2> HIDE DEF sent, batch
  <2> TAKE f, g \in flows
  <2> HAVE f # g
  <2>3. PICK t \in sent : f = [tuple |-> t, packets |-> batch[t]]
    OBVIOUS
  <2>4. PICK u \in sent : g = [tuple |-> u, packets |-> batch[u]]
    OBVIOUS
  <2> QED
    BY <2>2, <2>3, <2>4
<1> HIDE DEF flows, kept
<1>5. CASE received' = received \cup flows /\ PostFinished(p, left)
  <2>1. left \subseteq PacketsIn(batch) /\ PacketsIn(batch) = left \cup PacketsIn(kept)
        /\ left \cap PacketsIn(kept) = {}
    BY <1>3
  <2> HIDE DEF left
  <2> QED
    BY <1>1, <1>2, <1>4, <1>5, <2>1, PostFinishedKeeps
<1>6. CASE received' = received /\ PostFinished(p, PacketsIn(batch))
  <2>1. UNION {f.packets : f \in {}} = {} /\ received' = received \cup {}
    BY <1>6
  <2> QED
    BY <1>1, <1>6, <2>1, PostFinishedKeeps
<1> QED
  BY <1>1, <1>5, <1>6

LEMMA PacketStep == PacketInv /\ [PacketCaptureNext]_packetVars => PacketInv'
<1> SUFFICES ASSUME PacketInv, [PacketCaptureNext]_packetVars
             PROVE  PacketInv'
  OBVIOUS
<1>0. UNION {f.packets : f \in {}} = {} /\ received \cup {} = received
  OBVIOUS
<1>1. CASE UNCHANGED <<captured, flowTable, received, givenUp, poster>>
  BY <1>1, PacketsRest DEF PacketInv
<1>2. CASE SenderFlushes
  <2>1. poster["sender"].batch = NoBatch /\ "sender" \in Posters /\ UNCHANGED <<captured, givenUp, received>>
        /\ Flush
    BY <1>2 DEF SenderFlushes, PacketInv, Posters
  <2>2. CASE HeldFlows(flowTable) # {}
    BY <1>2, <2>1, <2>2, FlushKeeps DEF SenderFlushes
  <2>3. CASE HeldFlows(flowTable) = {}
    <3>1. flowTable' = flowTable
      BY <2>1, <2>3, NoBatchIsEmpty DEF PacketInv, Flush
    <3>2. PICK at \in {"waiting", "over"} : poster' = [poster EXCEPT !["sender"] = [@ EXCEPT !.at = at]]
      BY <1>2, <2>3 DEF SenderFlushes
    <3>3. [poster["sender"] EXCEPT !.at = at] \in PosterStates
          /\ [poster["sender"] EXCEPT !.at = at].batch = poster["sender"].batch
      BY <2>1 DEF PacketInv, PosterStates
    <3> QED
      BY <2>1, <3>1, <3>2, <3>3, PacketsRest DEF PacketInv
  <2> QED
    BY <2>2, <2>3
<1>3. CASE FinalFlush
  <2>1. poster["main"].batch = NoBatch /\ "main" \in Posters /\ UNCHANGED <<captured, received>> /\ Flush
    BY <1>3 DEF FinalFlush, PacketInv, Posters
  <2>2. CASE HeldFlows(flowTable) # {}
    BY <1>3, <2>1, <2>2, FlushKeeps DEF FinalFlush
  <2>3. CASE HeldFlows(flowTable) = {}
    <3>1. flowTable' = flowTable
      BY <2>1, <2>3, NoBatchIsEmpty DEF PacketInv, Flush
    <3>2. PostFinished("main", {}) /\ PacketsIn(poster["main"].batch) = {}
      BY <1>3, <2>1, <2>3, NoBatchIsEmpty DEF FinalFlush
    <3> QED
      BY <1>0, <2>1, <3>1, <3>2, PostFinishedKeeps
  <2> QED
    BY <2>2, <2>3
<1>4. ASSUME NEW p \in Posters, Authenticate(p)
      PROVE  PacketInv'
  <2>1. CASE poster' = [poster EXCEPT ![p].at = "authorised"] /\ UNCHANGED givenUp
    <3>1. [poster[p] EXCEPT !.at = "authorised"] \in PosterStates
          /\ [poster[p] EXCEPT !.at = "authorised"].batch = poster[p].batch
          /\ [poster[p] EXCEPT !.at = "authorised"].at = "authorised"
      BY DEF PacketInv, PosterStates
    <3>2. poster' = [poster EXCEPT ![p] = [poster[p] EXCEPT !.at = "authorised"]]
      BY <2>1
    <3>3. UNCHANGED <<captured, flowTable, received, givenUp>>
      BY <1>4, <2>1 DEF Authenticate
    <3> QED
      BY <3>1, <3>2, <3>3, PacketsRest DEF PacketInv
  <2>2. CASE PostFinished(p, PacketsIn(poster[p].batch))
    BY <1>0, <1>4, <2>2, PostFinishedKeeps DEF Authenticate
  <2> QED
    BY <1>4, <2>1, <2>2 DEF Authenticate
<1> QED
  BY <1>1, <1>2, <1>3, <1>4, ProcessPacketKeeps, PostFlowsKeeps
     DEF PacketCaptureNext, Shutdown, packetVars

LEMMA PacketGood == PacketInv => PacketsGoOnce
<1> SUFFICES ASSUME PacketInv
             PROVE  PacketsGoOnce
  OBVIOUS
<1> DEFINE T == PacketsIn(flowTable)
<1> DEFINE S == PacketsIn(poster["sender"].batch)
<1> DEFINE M == PacketsIn(poster["main"].batch)
<1> DEFINE R == UNION {f.packets : f \in received}
<1> DEFINE P == <<T, S, M, givenUp, R>>
<1>1. Partition(1..captured, T, S, M, givenUp, R)
  BY DEF PacketInv, PostedPackets
<1>2. P[1] = T /\ P[2] = S /\ P[3] = M /\ P[4] = givenUp /\ P[5] = R
  OBVIOUS
<1>3. \A i \in 1..5 : i \in {1, 2, 3, 4, 5}
  OBVIOUS
<1>4. \A f, g \in received : f # g => f.packets \cap g.packets = {}
  BY DEF PacketInv
<1> HIDE DEF T, S, M, R, P
<1>5. UNION {P[i] : i \in 1..5} = T \cup S \cup M \cup givenUp \cup R
  BY <1>2, <1>3
<1>6. \A i, j \in {1, 2, 3, 4, 5} : i # j => P[i] \cap P[j] = {}
  BY <1>1, <1>2 DEF Partition, AreApart
<1>7. UNION {P[i] : i \in 1..5} = 1..captured
  BY <1>1, <1>5 DEF Partition
<1> QED
  BY <1>3, <1>4, <1>6, <1>7 DEF PacketsGoOnce, P, T, S, M, R
-----------------------------------------------------------------------------
(* What one request takes of the budget, and the records it stands for.    *)
RequestStates ==
    {Free} \cup [pc : Taking, batch : SUBSET Records]
           \cup [pc : {"answered"}, batch : SUBSET Records, status : Answers]
Share(serving) == IF serving.pc \in Taking THEN Cardinality(Accepted(serving.batch)) ELSE 0
SharePairs(s, serving) ==
    {s} \X (IF serving.pc \in Taking THEN Accepted(serving.batch) ELSE {})

IngestInv ==
    /\ IngestTypeOK
    /\ IsFiniteSet(BeingTakenIn) /\ BudgetIsInFlight
    /\ \A s \in Slots : request[s].pc = "answered" /\ request[s].status = 200 =>
           Accepted(request[s].batch) \subseteq shown

LEMMA IngestStart == IngestInit => IngestInv
<1> SUFFICES ASSUME IngestInit
             PROVE  IngestInv
  OBVIOUS
<1>1. BeingTakenIn = {}
  BY DEF IngestInit, BeingTakenIn, Free, Taking
<1>2. IngestTypeOK
  BY IngestAssumption DEF IngestInit, IngestTypeOK
<1>3. \A s \in Slots : request[s].pc # "answered"
  BY DEF IngestInit, Free
<1> QED
  BY <1>1, <1>2, <1>3, FS_EmptySet DEF IngestInit, IngestInv, BudgetIsInFlight

LEMMA ShareIs ==
    ASSUME NEW s, NEW serving \in RequestStates
    PROVE  /\ IsFiniteSet(SharePairs(s, serving)) /\ Cardinality(SharePairs(s, serving)) = Share(serving)
           /\ Share(serving) \in Nat
<1> DEFINE A == IF serving.pc \in Taking THEN Accepted(serving.batch) ELSE {}
<1>1. IsFiniteSet(A)
  <2>1. A \subseteq Records
    BY IngestAssumption DEF Accepted
  <2> QED
    BY <2>1, IngestAssumption, FS_Subset
<1>2. Cardinality(A) = Share(serving)
  BY FS_EmptySet DEF Share
<1> HIDE DEF A
<1>3. IsFiniteSet({s}) /\ Cardinality({s}) = 1 /\ Cardinality(A) \in Nat
  BY <1>1, FS_Singleton, FS_CardinalityType
<1>4. IsFiniteSet({s} \X A) /\ Cardinality({s} \X A) = 1 * Cardinality(A)
  BY <1>1, <1>3, FS_Product
<1> QED
  BY <1>2, <1>3, <1>4 DEF SharePairs, A

(* One request changes, and with it the records being taken in.            *)
LEMMA TakenInChanges ==
    ASSUME IngestInv, NEW s \in Slots, NEW new \in RequestStates,
           request' = [request EXCEPT ![s] = new]
    PROVE  /\ request' \in [Slots -> RequestStates]
           /\ IsFiniteSet(BeingTakenIn')
           /\ Share(request[s]) \in Nat /\ Share(new) \in Nat /\ Share(request[s]) <= inFlight
           /\ Cardinality(BeingTakenIn') = (inFlight - Share(request[s])) + Share(new)
<1>1. request \in [Slots -> RequestStates]
  BY DEF IngestInv, IngestTypeOK, RequestStates
<1>2. request' \in [Slots -> RequestStates] /\ request'[s] = new /\ \A u \in Slots : u # s => request'[u] = request[u]
  BY <1>1
<1> DEFINE T == BeingTakenIn
<1> DEFINE Old == SharePairs(s, request[s])
<1> DEFINE New == SharePairs(s, new)
<1> DEFINE Rest == T \ Old
<1>3. \A u \in Slots : \A r : <<u, r>> \in T <=> r \in WellFormed /\ request[u].pc \in Taking /\ r \in request[u].batch
  BY DEF BeingTakenIn
<1>4. \A u \in Slots : \A r : <<u, r>> \in T' <=> r \in WellFormed /\ request'[u].pc \in Taking /\ r \in request'[u].batch
  BY DEF BeingTakenIn
<1>5. \A x \in T \cup T' : \E u \in Slots, r \in WellFormed : x = <<u, r>>
  BY DEF BeingTakenIn
<1>6. \A u, r : <<u, r>> \in Old <=> u = s /\ r \in WellFormed /\ request[s].pc \in Taking /\ r \in request[s].batch
  BY DEF SharePairs, Accepted
<1>7. \A u, r : <<u, r>> \in New <=> u = s /\ r \in WellFormed /\ new.pc \in Taking /\ r \in new.batch
  BY DEF SharePairs, Accepted
<1>8. \A x \in Old \cup New : \E u \in Slots, r \in WellFormed : x = <<u, r>>
  BY DEF SharePairs, Accepted
<1> HIDE DEF T, Old, New
<1>9. Old \subseteq T
  BY <1>3, <1>6, <1>8
<1>10. T' = Rest \cup New /\ Rest \cap New = {}
  <2>1. \A u \in Slots : \A r : <<u, r>> \in T' <=> <<u, r>> \in Rest \cup New
    BY <1>2, <1>3, <1>4, <1>6, <1>7, ZenonT(40)
  <2>2. \A x \in Rest \cup New : \E u \in Slots, r \in WellFormed : x = <<u, r>>
    BY <1>5, <1>8
  <2>3. T' = Rest \cup New
    BY <1>5, <2>1, <2>2
  <2>4. \A u \in Slots : \A r : <<u, r>> \in New => <<u, r>> \notin Rest
    BY <1>3, <1>6, <1>7
  <2> QED
    BY <2>2, <2>3, <2>4
<1>11. /\ IsFiniteSet(T) /\ Cardinality(T) = inFlight /\ inFlight \in Nat
       /\ IsFiniteSet(Old) /\ Cardinality(Old) = Share(request[s]) /\ Share(request[s]) \in Nat
       /\ IsFiniteSet(New) /\ Cardinality(New) = Share(new) /\ Share(new) \in Nat
  BY <1>1, ShareIs DEF IngestInv, BudgetIsInFlight, IngestTypeOK, T, Old, New
<1>12. IsFiniteSet(Rest) /\ Cardinality(Rest) = Cardinality(T) - Cardinality(Old)
       /\ Cardinality(Old) <= Cardinality(T)
  <2>1. T \cap Old = Old
    BY <1>9
  <2>2. IsFiniteSet(Rest) /\ Cardinality(Rest) = Cardinality(T) - Cardinality(T \cap Old)
    BY <1>11, FS_Difference
  <2> QED
    BY <1>9, <1>11, <2>1, <2>2, FS_Subset
<1>13. IsFiniteSet(T') /\ Cardinality(T') = Cardinality(Rest) + Cardinality(New)
  <2>1. IsFiniteSet(Rest \cup New)
        /\ Cardinality(Rest \cup New) = Cardinality(Rest) + Cardinality(New) - Cardinality(Rest \cap New)
    BY <1>11, <1>12, FS_Union
  <2>2. Cardinality(Rest \cap New) = 0 /\ Cardinality(Rest) \in Nat
    BY <1>10, <1>12, FS_EmptySet, FS_CardinalityType
  <2> QED
    BY <1>10, <1>11, <2>1, <2>2
<1> QED
  BY <1>2, <1>11, <1>12, <1>13 DEF T

(* What a step of the route leaves to whoever waits for its answer.        *)
StillServes == \A s \in Slots : request[s] # Free =>
                   request'[s] # Free /\ request'[s].batch = request[s].batch

(* A request goes from one state to another, and the budget with it.       *)
LEMMA RequestMoves ==
    ASSUME IngestInv, NEW s \in Slots, NEW new \in RequestStates,
           request' = [request EXCEPT ![s] = new],
           inFlight' = (inFlight - Share(request[s])) + Share(new), inFlight' <= Capacity,
           wiring' = wiring, outages' \in 0..MaxOutages,
           shown \subseteq shown' /\ shown' \subseteq Records,
           new.pc = "answered" /\ new.status = 200 => Accepted(new.batch) \subseteq shown'
    PROVE  IngestInv'
<1>1. /\ request' \in [Slots -> RequestStates] /\ IsFiniteSet(BeingTakenIn') /\ BudgetIsInFlight'
      /\ inFlight' \in Nat
  <2>1. /\ request' \in [Slots -> RequestStates] /\ IsFiniteSet(BeingTakenIn')
        /\ Share(request[s]) \in Nat /\ Share(new) \in Nat /\ Share(request[s]) <= inFlight
        /\ Cardinality(BeingTakenIn') = (inFlight - Share(request[s])) + Share(new)
    BY TakenInChanges
  <2>2. inFlight \in Nat
    BY DEF IngestInv, IngestTypeOK
  <2> QED
    BY <2>1, <2>2 DEF BudgetIsInFlight
<1>2. inFlight' \in 0..Capacity
  BY <1>1, IngestAssumption
<1>3. IngestTypeOK'
  BY <1>1, <1>2 DEF IngestInv, IngestTypeOK, RequestStates
<1>4. \A u \in Slots : request'[u].pc = "answered" /\ request'[u].status = 200 =>
          Accepted(request'[u].batch) \subseteq shown'
  BY DEF IngestInv, IngestTypeOK, Accepted
<1> QED
  BY <1>1, <1>3, <1>4 DEF IngestInv

LEMMA ReceiveKeeps ==
    ASSUME IngestInv, NEW s \in Slots, NEW batch \in SUBSET Records, Receive(s, batch)
    PROVE  /\ IngestInv' /\ request[s] = Free
           /\ \E new : new # Free /\ new.batch = batch /\ request' = [request EXCEPT ![s] = new]
<1> DEFINE size == Cardinality(Accepted(batch))
<1>1. request[s] = Free /\ Share(request[s]) = 0 /\ inFlight \in 0..Capacity /\ Capacity \in Nat
  BY IngestAssumption DEF Receive, Share, Free, Taking, IngestInv, IngestTypeOK
<1>2. wiring' = wiring /\ outages' = outages /\ shown' = shown /\ outages \in 0..MaxOutages /\ shown \subseteq Records
  BY DEF Receive, IngestInv, IngestTypeOK
<1>3. size \in Nat
  <2>1. Accepted(batch) \subseteq Records
    BY DEF Accepted
  <2> QED
    BY <2>1, IngestAssumption, FS_Subset, FS_CardinalityType
<1>4. size = 0 => Accepted(batch) = {}
  <2>1. IsFiniteSet(Accepted(batch))
    BY IngestAssumption, FS_Subset, Accepted(batch) \subseteq Records DEF Accepted
  <2> QED
    BY <2>1, FS_EmptySet
<1>5. ASSUME NEW status \in Answers, Answered(s, batch, status), inFlight' = inFlight,
             status = 200 => Accepted(batch) = {}
      PROVE  IngestInv' /\ \E new : new # Free /\ new.batch = batch /\ request' = [request EXCEPT ![s] = new]
  <2> DEFINE new == [pc |-> "answered", batch |-> batch, status |-> status]
  <2>1. new \in RequestStates /\ Share(new) = 0 /\ new # Free /\ new.batch = batch /\ new.status = status
    BY DEF RequestStates, Share, Taking, Free
  <2>2. request' = [request EXCEPT ![s] = new]
    BY <1>5 DEF Answered
  <2> HIDE DEF new
  <2>4. inFlight' = (inFlight - Share(request[s])) + Share(new) /\ inFlight' <= Capacity
    BY <1>1, <1>5, <2>1
  <2>3. IngestInv'
    BY <1>2, <1>5, <2>1, <2>2, <2>4, RequestMoves
  <2> QED
    BY <2>1, <2>2, <2>3
<1>6. ASSUME NEW pc \in Taking, request' = [request EXCEPT ![s] = [pc |-> pc, batch |-> batch]],
             inFlight' = inFlight + size, inFlight + size <= Capacity
      PROVE  IngestInv' /\ \E new : new # Free /\ new.batch = batch /\ request' = [request EXCEPT ![s] = new]
  <2> DEFINE new == [pc |-> pc, batch |-> batch]
  <2>1. new \in RequestStates /\ Share(new) = size /\ new # Free /\ new.batch = batch /\ new.pc # "answered"
    BY DEF RequestStates, Share, Taking, Free
  <2>2. request' = [request EXCEPT ![s] = new]
    BY <1>6
  <2> HIDE DEF new, size
  <2>4. inFlight' = (inFlight - Share(request[s])) + Share(new) /\ inFlight' <= Capacity
    BY <1>1, <1>3, <1>6, <2>1
  <2>3. IngestInv'
    BY <1>2, <2>1, <2>2, <2>4, RequestMoves
  <2> QED
    BY <2>1, <2>2, <2>3
<1>7. 413 \in Answers /\ 503 \in Answers /\ 200 \in Answers
  BY DEF Answers
<1> HIDE DEF size
<1>8. CASE inFlight' = inFlight /\ (Answered(s, batch, 413) \/ Answered(s, batch, 503))
  <2>1. PICK status \in Answers : Answered(s, batch, status) /\ status # 200
    BY <1>7, <1>8
  <2> QED
    BY <1>1, <1>5, <1>8, <2>1
<1>9. CASE Answered(s, batch, 200) /\ size = 0 /\ inFlight' = inFlight
  <2>1. PICK status \in Answers : Answered(s, batch, status) /\ status = 200
    BY <1>7, <1>9
  <2> QED
    BY <1>1, <1>4, <1>5, <1>9, <2>1
<1>10. ASSUME NEW pc \in Taking, request' = [request EXCEPT ![s] = [pc |-> pc, batch |-> batch]],
              inFlight' = inFlight + size, inFlight + size <= Capacity
       PROVE  IngestInv' /\ \E new : new # Free /\ new.batch = batch /\ request' = [request EXCEPT ![s] = new]
  BY <1>6, <1>10
<1>11. PICK pc \in Taking : pc = IF wiring.broker THEN "publish" ELSE "keep"
  BY DEF Taking
<1>12. \/ inFlight' = inFlight /\ (Answered(s, batch, 413) \/ Answered(s, batch, 503))
       \/ Answered(s, batch, 200) /\ size = 0 /\ inFlight' = inFlight
       \/ request' = [request EXCEPT ![s] = [pc |-> pc, batch |-> batch]]
          /\ inFlight' = inFlight + size /\ inFlight + size <= Capacity
  BY <1>11 DEF Receive, size
<1> QED
  BY <1>1, <1>8, <1>9, <1>10, <1>12

LEMMA ReleaseIs ==
    ASSUME IngestInv, NEW s \in Slots, request[s].pc \in Taking, Release(request[s].batch)
    PROVE  inFlight' = inFlight - Share(request[s])
<1>1. request[s] \in RequestStates /\ inFlight \in Nat
  BY DEF IngestInv, IngestTypeOK, RequestStates
<1>2. Share(request[s]) \in Nat
  BY <1>1, ShareIs
<1>3. SharePairs(s, request[s]) \subseteq BeingTakenIn
  BY <1>1 DEF SharePairs, BeingTakenIn, Accepted
<1>4. Share(request[s]) <= inFlight
  <2>1. Cardinality(SharePairs(s, request[s])) <= Cardinality(BeingTakenIn)
    BY <1>3, FS_Subset DEF IngestInv
  <2> QED
    BY <1>1, <2>1, ShareIs DEF IngestInv, BudgetIsInFlight
<1>5. Cardinality(Accepted(request[s].batch)) = Share(request[s])
  BY DEF Share
<1> QED
  BY <1>1, <1>2, <1>4, <1>5, MinOfTwo DEF Release

LEMMA ServeKeeps ==
    ASSUME IngestInv, Serve
    PROVE  IngestInv' /\ StillServes /\ shown \subseteq shown'
<1>1. /\ wiring' = wiring /\ outages' \in 0..MaxOutages /\ shown \subseteq shown' /\ shown' \subseteq Records
  <2>1. outages \in 0..MaxOutages /\ (Fails => outages' \in 0..MaxOutages)
    BY IngestAssumption DEF IngestInv, IngestTypeOK, Fails
  <2> QED
    BY <2>1, IngestAssumption, ZenonT(40) DEF Serve, Publish, PublishFails, Keep, KeepFails, Restart, IngestInv, IngestTypeOK, Accepted, Answered, Release
<1>2. inFlight \in 0..Capacity /\ Capacity \in Nat /\ request \in [Slots -> RequestStates]
  BY IngestAssumption DEF IngestInv, IngestTypeOK, RequestStates
<1>3. ASSUME NEW s \in Slots, NEW status \in Answers, request[s].pc \in Taking,
             Answered(s, request[s].batch, status), Release(request[s].batch),
             status = 200 => Accepted(request[s].batch) \subseteq shown'
      PROVE  IngestInv' /\ StillServes
  <2> DEFINE new == [pc |-> "answered", batch |-> request[s].batch, status |-> status]
  <2>1. new \in RequestStates /\ Share(new) = 0 /\ new # Free /\ new.batch = request[s].batch /\ new.status = status
    BY <1>2, <1>3 DEF RequestStates, Share, Taking, Free
  <2>2. request' = [request EXCEPT ![s] = new]
    BY <1>3 DEF Answered
  <2>3. inFlight' = inFlight - Share(request[s]) /\ Share(request[s]) \in Nat
    BY <1>2, <1>3, ReleaseIs, ShareIs
  <2> HIDE DEF new
  <2>5. inFlight' = (inFlight - Share(request[s])) + Share(new) /\ inFlight' <= Capacity
    BY <1>2, <2>1, <2>3
  <2>4. IngestInv'
    BY <1>1, <1>3, <2>1, <2>2, <2>5, RequestMoves
  <2> QED
    BY <1>2, <2>1, <2>2, <2>4 DEF StillServes
<1>4. ASSUME NEW s \in Slots, Publish(s)
      PROVE  IngestInv' /\ StillServes
  <2>1. CASE wiring.modality = "flow"
    <3> DEFINE new == [request[s] EXCEPT !.pc = "keep"]
    <3>1. request[s] \in [pc : Taking, batch : SUBSET Records] /\ request[s].pc = "publish"
      BY <1>2, <1>4 DEF Publish, RequestStates, Free
    <3>2. new \in RequestStates /\ Share(new) = Share(request[s]) /\ new # Free /\ new.batch = request[s].batch /\ new.pc = "keep"
      BY <3>1 DEF RequestStates, Share, Taking, Free
    <3>3. request' = [request EXCEPT ![s] = new] /\ inFlight' = inFlight
      BY <1>4, <2>1 DEF Publish
    <3>4. Share(request[s]) \in Nat
      BY <1>2, ShareIs
    <3> HIDE DEF new
    <3>6. inFlight' = (inFlight - Share(request[s])) + Share(new) /\ inFlight' <= Capacity
      BY <1>2, <3>2, <3>3, <3>4
    <3>5. IngestInv'
      BY <1>1, <3>2, <3>3, <3>6, RequestMoves
    <3> QED
      BY <1>2, <3>2, <3>3, <3>5 DEF StillServes
  <2>2. CASE wiring.modality # "flow"
    BY <1>3, <1>4, <2>2 DEF Publish, Taking, Answers
  <2> QED
    BY <2>1, <2>2
<1>5. ASSUME NEW s \in Slots, PublishFails(s) \/ Keep(s) \/ KeepFails(s)
      PROVE  IngestInv' /\ StillServes
  BY <1>3, <1>5 DEF PublishFails, Keep, KeepFails, Taking, Answers
<1>6. CASE Restart
  <2>1. \A s \in Slots : request'[s] = IF request[s].pc \in Taking
                                      THEN [pc |-> "answered", batch |-> request[s].batch, status |-> 0]
                                      ELSE request[s]
    BY <1>6 DEF Restart
  <2>2. \A s \in Slots : /\ request'[s] \in RequestStates /\ request'[s].pc \notin Taking
                         /\ request'[s].pc = "answered" /\ request'[s].status = 200 => request'[s] = request[s]
                         /\ request[s] # Free => request'[s] # Free /\ request'[s].batch = request[s].batch
    <3> TAKE s \in Slots
    <3>1. request[s] \in RequestStates
      BY <1>2
    <3>2. CASE request[s].pc \in Taking
      <4>1. request'[s] = [pc |-> "answered", batch |-> request[s].batch, status |-> 0]
        BY <2>1, <3>2
      <4>2. request[s].batch \in SUBSET Records
        BY <3>1, <3>2 DEF RequestStates, Taking, Free
      <4> QED
        BY <4>1, <4>2 DEF RequestStates, Taking, Free, Answers
    <3>3. CASE request[s].pc \notin Taking
      BY <2>1, <3>1, <3>3
    <3> QED
      BY <3>2, <3>3
  <2>3. request' \in [Slots -> RequestStates]
    <3>1. request' = [s \in Slots |-> request'[s]]
      BY <1>6 DEF Restart
    <3> QED
      BY <2>2, <3>1
  <2>4. BeingTakenIn' = {}
    BY <2>2 DEF BeingTakenIn
  <2>5. IsFiniteSet(BeingTakenIn') /\ BudgetIsInFlight' /\ inFlight' = 0
    BY <1>6, <2>4, FS_EmptySet DEF BudgetIsInFlight, Restart
  <2>6. IngestTypeOK'
    BY <1>1, <1>2, <2>3, <2>5 DEF IngestTypeOK, RequestStates, IngestInv
  <2>7. \A s \in Slots : request'[s].pc = "answered" /\ request'[s].status = 200 =>
            Accepted(request'[s].batch) \subseteq shown'
    BY <1>1, <2>2 DEF IngestInv
  <2>8. IngestInv'
    BY <2>5, <2>6, <2>7 DEF IngestInv, Accepted
  <2> QED
    BY <1>1, <2>2, <2>8 DEF StillServes
<1> QED
  BY <1>1, <1>4, <1>5, <1>6 DEF Serve
(* An answer that is read leaves its slot free and the budget as it was.   *)
LEMMA AnswerRead ==
    ASSUME IngestInv, NEW s \in Slots, request[s].pc = "answered",
           request' = [request EXCEPT ![s] = Free], UNCHANGED <<wiring, inFlight, shown, outages>>
    PROVE  IngestInv'
<1>1. Free \in RequestStates /\ Share(Free) = 0 /\ Share(request[s]) = 0 /\ Free.pc # "answered"
  BY DEF RequestStates, Share, Free, Taking
<1>2. inFlight \in Nat /\ inFlight <= Capacity /\ outages \in 0..MaxOutages /\ shown \subseteq Records
  BY IngestAssumption DEF IngestInv, IngestTypeOK
<1>3. inFlight' = (inFlight - Share(request[s])) + Share(Free) /\ inFlight' <= Capacity
  BY <1>1, <1>2
<1> QED
  BY <1>1, <1>2, <1>3, RequestMoves

(* Where a bridge may be in its send.                                      *)
BridgeStates == [
    pc : {"idle", "take", "replace", "post", "wait", "return", "rewrite", "stat", "append"},
    pending : Seq(Records), batch : Seq(Records), mode : Modes, left : 0..Attempts,
    refreshed : BOOLEAN, read : Seq(Records), slot : Slots \cup {"none"}, token : Tokens]
IsConsistent(now) ==
    /\ now.pc = "idle" => now.pending = <<>> /\ now.batch = <<>>
    /\ now.pc \in {"take", "replace"} => now.batch = <<>>
    /\ now.pc \in {"replace", "rewrite"} => now.read = spool
    /\ now.pc = "replace" => spool # <<>>
    /\ now.pc \in {"post", "wait"} => now.left # 0
    /\ now.pc \in {"post", "wait", "stat", "append"} /\ now.mode = "send" => now.batch = now.pending
    /\ now.pc \in {"stat", "append"} => now.mode = "send"
    /\ now.pc = "wait" => now.slot \in Slots /\ request[now.slot] # Free
                          /\ request[now.slot].batch = ToSet(now.batch)
Accounted == shown \cup ToSet(spool) \cup counted \cup killed \cup (Records \ WellFormed)
Carries(now) == ToSet(now.pending) \cup ToSet(now.batch)
ShipperInv ==
    /\ IngestInv
    /\ bridge \in [Bridges -> BridgeStates] /\ spool \in Seq(Records)
    /\ handed \subseteq Records /\ counted \subseteq Records /\ killed \subseteq Records
    /\ kills \in 0..MaxKills
    /\ \A b \in Bridges : IsConsistent(bridge[b]) /\ handed \subseteq Accounted \cup Carries(bridge[b])

LEMMA ToSetIs ==
    /\ ToSet(<<>>) = {}
    /\ \A x : ToSet(<<x>>) = {x}
    /\ \A s \in Seq(Records) : ToSet(s) \in SUBSET Records
    /\ \A s, t \in Seq(Records) : ToSet(s \o t) = ToSet(s) \cup ToSet(t)
    /\ \A s \in Seq(Records) : s # <<>> =>
           ToSet(s) = {Head(s)} \cup ToSet(Tail(s)) /\ Head(s) \in Records /\ Tail(s) \in Seq(Records)
<1>1. ToSet(<<>>) = {} /\ \A x : ToSet(<<x>>) = {x}
  BY DEF ToSet
<1>2. \A s \in Seq(Records) : ToSet(s) \in SUBSET Records
  BY DEF ToSet
<1>3. ASSUME NEW s \in Seq(Records), NEW t \in Seq(Records)
      PROVE  ToSet(s \o t) = ToSet(s) \cup ToSet(t)
  <2>1. /\ Len(s) \in Nat /\ Len(t) \in Nat /\ DOMAIN s = 1..Len(s) /\ DOMAIN t = 1..Len(t)
        /\ DOMAIN (s \o t) = 1..(Len(s) + Len(t))
        /\ \A i \in 1..(Len(s) + Len(t)) : (s \o t)[i] = IF i <= Len(s) THEN s[i] ELSE t[i - Len(s)]
    OBVIOUS
  <2> DEFINE m == Len(s)
  <2> DEFINE n == Len(t)
  <2> DEFINE c == s \o t
  <2>2. m \in Nat /\ n \in Nat /\ DOMAIN s = 1..m /\ DOMAIN t = 1..n /\ DOMAIN c = 1..(m + n)
        /\ \A i \in 1..(m + n) : c[i] = IF i <= m THEN s[i] ELSE t[i - m]
    BY <2>1
  <2> HIDE DEF m, n, c
  <2>3. \A i \in DOMAIN c : c[i] \in ToSet(s) \cup ToSet(t)
    <3> TAKE i \in DOMAIN c
    <3>1. CASE i <= m
      BY <2>2, <3>1 DEF ToSet
    <3>2. CASE ~(i <= m)
      <4>1. i - m \in 1..n /\ c[i] = t[i - m]
        BY <2>2, <3>2
      <4> QED
        BY <4>1, <2>2 DEF ToSet
    <3> QED
      BY <3>1, <3>2
  <2>4. \A i \in 1..m : s[i] \in ToSet(c)
    <3> TAKE i \in 1..m
    <3>1. i \in 1..(m + n) /\ c[i] = s[i]
      BY <2>2
    <3> QED
      BY <2>2, <3>1 DEF ToSet
  <2>5. \A i \in 1..n : t[i] \in ToSet(c)
    <3> TAKE i \in 1..n
    <3>1. i + m \in 1..(m + n) /\ c[i + m] = t[i]
      BY <2>2
    <3> QED
      BY <2>2, <3>1 DEF ToSet
  <2> QED
    BY <2>2, <2>3, <2>4, <2>5 DEF ToSet, c
<1>4. ASSUME NEW s \in Seq(Records), s # <<>>
      PROVE  ToSet(s) = {Head(s)} \cup ToSet(Tail(s)) /\ Head(s) \in Records /\ Tail(s) \in Seq(Records)
  <2>1. Head(s) \in Records /\ Tail(s) \in Seq(Records) /\ s = <<Head(s)>> \o Tail(s)
    BY <1>4
  <2>2. <<Head(s)>> \in Seq(Records)
    BY <2>1
  <2> QED
    BY <1>1, <1>3, <2>1, <2>2
<1> QED
  BY <1>1, <1>2, <1>3, <1>4

LEMMA ShipperStart == ShipperInit => ShipperInv
<1> SUFFICES ASSUME ShipperInit
             PROVE  ShipperInv
  OBVIOUS
<1>1. Idle \in BridgeStates /\ Idle.pc = "idle" /\ Idle.pending = <<>> /\ Idle.batch = <<>>
  BY ShipperAssumption DEF Idle, BridgeStates, Modes, Tokens
<1>2. IngestInv
  BY IngestStart DEF ShipperInit
<1> HIDE DEF Idle
<1>3. \A b \in Bridges : IsConsistent(bridge[b])
  BY <1>1 DEF ShipperInit, IsConsistent
<1>4. bridge \in [Bridges -> BridgeStates] /\ handed = {} /\ spool \in Seq(Records) /\ kills \in 0..MaxKills
  BY <1>1, ShipperAssumption DEF ShipperInit
<1> QED
  BY <1>2, <1>3, <1>4 DEF ShipperInit, ShipperInv

(* A send goes from one state to another: nothing it carried or found on   *)
(* the spool is neither carried on nor found where a reader finds it.      *)
LEMMA BridgeMoves ==
    ASSUME ShipperInv, NEW b, Bridges = {b}, NEW new \in BridgeStates,
           bridge' = [bridge EXCEPT ![b] = new],
           IngestInv', shown \subseteq shown', IsConsistent(new)',
           spool' \in Seq(Records), counted \subseteq counted' /\ counted' \subseteq Records,
           handed' \subseteq Records /\ handed' \subseteq handed \cup Carries(new),
           UNCHANGED <<killed, kills>>,
           ToSet(spool) \cup Carries(bridge[b]) \subseteq Accounted' \cup Carries(new)
    PROVE  ShipperInv'
<1>1. bridge' \in [Bridges -> BridgeStates] /\ bridge'[b] = new
  BY DEF ShipperInv
<1>2. Accounted \cup Carries(bridge[b]) \subseteq Accounted' \cup Carries(new)
  BY DEF Accounted
<1>3. handed' \subseteq Accounted' \cup Carries(new)
  BY <1>2 DEF ShipperInv
<1> QED
  BY <1>1, <1>3 DEF ShipperInv, Carries, IsConsistent

(* The same, when the spool, the route and the counts stay as they are.    *)
LEMMA BridgeGoesOn ==
    ASSUME ShipperInv, NEW b, Bridges = {b}, NEW new \in BridgeStates,
           bridge' = [bridge EXCEPT ![b] = new], IsConsistent(new), Carries(bridge[b]) \subseteq Carries(new),
           UNCHANGED <<ingestVars, spool, handed, counted, killed, kills>>
    PROVE  ShipperInv'
<1>1. IngestInv' /\ shown' = shown
  BY DEF ShipperInv, ingestVars, IngestInv, IngestTypeOK, BeingTakenIn, BudgetIsInFlight, Accepted
<1>2. IsConsistent(new)' /\ Accounted' = Accounted
  BY DEF IsConsistent, Accounted, ingestVars, ToSet
<1>3. ToSet(spool) \subseteq Accounted
  BY DEF Accounted
<1> QED
  BY <1>1, <1>2, <1>3, BridgeMoves DEF ShipperInv

LEMMA BridgeAt ==
    ASSUME ShipperInv, NEW b \in Bridges
    PROVE  /\ bridge[b] \in BridgeStates /\ IsConsistent(bridge[b])
           /\ bridge[b].pending \in Seq(Records) /\ bridge[b].batch \in Seq(Records)
           /\ bridge[b].read \in Seq(Records)
           /\ ToSet(bridge[b].batch) \in SUBSET Records
<1>1. bridge[b] \in BridgeStates /\ IsConsistent(bridge[b])
  BY DEF ShipperInv
<1>2. bridge[b].pending \in Seq(Records) /\ bridge[b].batch \in Seq(Records) /\ bridge[b].read \in Seq(Records)
  BY <1>1 DEF BridgeStates
<1> QED
  BY <1>1, <1>2, ToSetIs

LEMMA SendingIs ==
    ASSUME NEW now \in BridgeStates, NEW mode \in Modes, NEW batch \in Seq(Records)
    PROVE  LET new == Sending(now, mode, batch) IN
           /\ new \in BridgeStates /\ new.pc = "post" /\ new.left # 0 /\ new.mode = mode
           /\ new.batch = batch /\ new.pending = now.pending
<1>1. Attempts \in 0..Attempts /\ Attempts # 0 /\ <<>> \in Seq(Records)
  BY ShipperAssumption
<1> QED
  BY <1>1 DEF Sending, BridgeStates

(* A failed attempt keeps the batch, for the next one or for the spool.    *)
KeepsBatch(now, new) ==
    /\ new \in BridgeStates /\ new.pc \in {"post", "return", "stat"} /\ (new.pc = "post" => new.left # 0)
    /\ new.mode = now.mode /\ (new.pc = "stat" => now.mode = "send")
    /\ new.batch = now.batch /\ new.pending = now.pending

LEMMA GivenUpIs ==
    ASSUME NEW now \in BridgeStates
    PROVE  KeepsBatch(now, GivenUp(now))
BY DEF KeepsBatch, GivenUp, BridgeStates, Modes

LEMMA RetriedIs ==
    ASSUME NEW now \in BridgeStates, now.left # 0
    PROVE  KeepsBatch(now, Retried(now))
<1>1. CASE now.left = 1
  BY <1>1, GivenUpIs DEF Retried
<1>2. CASE now.left # 1
  <2>1. now.left - 1 \in 0..Attempts /\ now.left - 1 # 0
    BY <1>2, ShipperAssumption DEF BridgeStates
  <2>2. Retried(now) = [now EXCEPT !.pc = "post", !.left = now.left - 1, !.slot = "none"]
    BY <1>2 DEF Retried
  <2> DEFINE k == now.left - 1
  <2> HIDE DEF k
  <2>3. Retried(now) = [now EXCEPT !.pc = "post", !.left = k, !.slot = "none"] /\ k \in 0..Attempts /\ k # 0
    BY <2>1, <2>2 DEF k
  <2> QED
    BY <2>3 DEF KeepsBatch, BridgeStates
<1> QED
  BY <1>1, <1>2

LEMMA KeptIsConsistent ==
    ASSUME NEW now, NEW new, KeepsBatch(now, new), IsConsistent(now), now.pc \in {"post", "wait"}
    PROVE  IsConsistent(new) /\ IsConsistent(new)' /\ Carries(new) = Carries(now)
BY DEF KeepsBatch, IsConsistent, Carries

(* Another field of a state changes nothing a batch is kept by.            *)
SameSend(now, other) ==
    /\ other \in BridgeStates /\ other.left = now.left /\ other.mode = now.mode
    /\ other.batch = now.batch /\ other.pending = now.pending /\ other.pc = now.pc

LEMMA OtherFields ==
    ASSUME NEW now, NEW other, SameSend(now, other), NEW new, KeepsBatch(other, new)
    PROVE  KeepsBatch(now, new)
BY DEF SameSend, KeepsBatch

LEMMA RunFinishedIs ==
    ASSUME NEW now \in BridgeStates
    PROVE  /\ RunFinished(now) \in BridgeStates /\ RunFinished(now).pc = "idle"
           /\ RunFinished(now).pending = <<>> /\ RunFinished(now).batch = <<>>
<1>1. Idle \in BridgeStates /\ Idle.pc = "idle" /\ Idle.pending = <<>> /\ Idle.batch = <<>>
  BY ShipperAssumption DEF Idle, BridgeStates, Modes, Tokens
<1> HIDE DEF Idle
<1> QED
  BY <1>1 DEF RunFinished, BridgeStates

LEMMA SettledStates ==
    ASSUME NEW now \in BridgeStates
    PROVE  Settled(now) \in BridgeStates /\ Settled(now).pc \in {"take", "idle"}
<1>1. CASE now.mode = "drain"
  <2>3. <<>> \in Seq(Records)
    OBVIOUS
  <2>1. PICK none \in Seq(Records) : none = <<>>
    BY <2>3
  <2>2. Settled(now) = [now EXCEPT !.pc = "take", !.batch = none]
    BY <1>1, <2>1 DEF Settled
  <2> QED
    BY <2>1, <2>2 DEF BridgeStates
<1>2. CASE now.mode # "drain"
  BY <1>2, RunFinishedIs DEF Settled
<1> QED
  BY <1>1, <1>2

(* The batch was taken, or counted: the rest is carried on.                *)
LEMMA SettledIs ==
    ASSUME NEW now \in BridgeStates, now.mode = "send" => now.batch = now.pending
    PROVE  /\ Settled(now) \in BridgeStates /\ IsConsistent(Settled(now))'
           /\ Carries(now) \subseteq ToSet(now.batch) \cup Carries(Settled(now))
<1>1. CASE now.mode = "drain"
  <2>1. Settled(now) = [now EXCEPT !.pc = "take", !.batch = <<>>]
    BY <1>1 DEF Settled
  <2> DEFINE none == <<>>
  <2>3. none \in Seq(Records) /\ none = <<>>
    OBVIOUS
  <2> HIDE DEF none
  <2>2. /\ Settled(now) \in BridgeStates /\ Settled(now).pc = "take" /\ Settled(now).batch = <<>>
        /\ Settled(now).pending = now.pending
    <3>1. Settled(now) = [now EXCEPT !.pc = "take", !.batch = none]
      BY <2>1, <2>3
    <3> QED
      BY <2>3, <3>1 DEF BridgeStates
  <2> QED
    BY <2>2 DEF IsConsistent, Carries
<1>2. CASE now.mode # "drain"
  <2>1. now.mode = "send" /\ now.batch = now.pending
    BY <1>2 DEF BridgeStates, Modes
  <2>2. /\ Settled(now) \in BridgeStates /\ Settled(now).pc = "idle" /\ Settled(now).batch = <<>>
        /\ Settled(now).pending = <<>>
    BY <1>2, RunFinishedIs DEF Settled
  <2> QED
    BY <2>1, <2>2 DEF IsConsistent, Carries
<1> QED
  BY <1>1, <1>2

(* The route goes on while the bridge waits: its request is still served.  *)
LEMMA BridgeWaits ==
    ASSUME ShipperInv, NEW b, Bridges = {b}, IngestInv', shown \subseteq shown',
           bridge[b].pc = "wait" => LET s == bridge[b].slot IN
               request[s] # Free => request'[s] # Free /\ request'[s].batch = request[s].batch,
           UNCHANGED shipVars
    PROVE  ShipperInv'
<1>1. bridge[b] \in BridgeStates /\ IsConsistent(bridge[b]) /\ bridge' = bridge /\ handed' = handed
  BY DEF ShipperInv, shipVars
<1>2. IsConsistent(bridge[b])'
  BY <1>1 DEF IsConsistent, shipVars
<1>3. Accounted \subseteq Accounted' /\ Carries(bridge[b])' = Carries(bridge[b])
  BY <1>1 DEF Accounted, Carries, shipVars, ToSet
<1> QED
  BY <1>1, <1>2, <1>3 DEF ShipperInv, shipVars

LEMMA SameRoute ==
    ASSUME ShipperInv, UNCHANGED ingestVars
    PROVE  IngestInv' /\ shown \subseteq shown'
BY DEF ShipperInv, ingestVars, IngestInv, IngestTypeOK, BeingTakenIn, BudgetIsInFlight, Accepted

LEMMA SubmitKeeps ==
    ASSUME ShipperInv, NEW b, Bridges = {b}, Submit(b)
    PROVE  ShipperInv'
<1>1. bridge[b] \in BridgeStates /\ IsConsistent(bridge[b]) /\ bridge[b].pc = "idle"
  BY BridgeAt DEF Submit
<1>2. PICK record \in Records : /\ handed' = handed \cup {record}
          /\ bridge' = [bridge EXCEPT ![b] = [bridge[b] EXCEPT !.pc = "take", !.pending = <<record>>]]
  BY DEF Submit, Becomes
<1> DEFINE one == <<record>>
<1>3. one \in Seq(Records) /\ ToSet(one) = {record}
  BY ToSetIs
<1> HIDE DEF one
<1>10. PICK new : new = [bridge[b] EXCEPT !.pc = "take", !.pending = one]
  OBVIOUS
<1>4. new \in BridgeStates /\ new.pc = "take" /\ new.pending = one /\ new.batch = bridge[b].batch
  BY <1>1, <1>3, <1>10 DEF BridgeStates
<1>5. bridge' = [bridge EXCEPT ![b] = new]
  BY <1>2, <1>10 DEF one
<1>6. bridge[b].batch = <<>> /\ bridge[b].pending = <<>>
  BY <1>1 DEF IsConsistent
<1>7. IsConsistent(new)' /\ Carries(bridge[b]) \subseteq Carries(new) /\ record \in Carries(new)
  BY <1>3, <1>4, <1>6, ToSetIs DEF IsConsistent, Carries
<1>8. handed' \subseteq Records /\ handed' \subseteq handed \cup Carries(new)
  BY <1>2, <1>7 DEF ShipperInv
<1>9. ToSet(spool) \subseteq Accounted' /\ UNCHANGED <<ingestVars, spool, counted, killed, kills>>
  BY DEF Submit, Accounted, ToSet
<1> QED
  BY <1>4, <1>5, <1>7, <1>8, <1>9, SameRoute, BridgeMoves DEF ShipperInv

LEMMA TakeKeeps ==
    ASSUME ShipperInv, NEW b, Bridges = {b}, TakeRead(b) \/ TakeReplace(b)
    PROVE  ShipperInv'
<1> DEFINE now == bridge[b]
<1>1. /\ now \in BridgeStates /\ IsConsistent(now) /\ now.pending \in Seq(Records)
      /\ now.read \in Seq(Records) /\ spool \in Seq(Records)
  BY BridgeAt DEF ShipperInv
<1> HIDE DEF now
<1>2. CASE TakeRead(b) /\ spool = <<>>
  <2>4. PICK new : new = Sending(now, "send", now.pending)
    OBVIOUS
  <2>5. PICK mode \in Modes : mode = "send"
    BY DEF Modes
  <2>1. new \in BridgeStates /\ new.pc = "post" /\ new.left # 0 /\ new.mode = "send"
        /\ new.batch = now.pending /\ new.pending = now.pending
    BY <1>1, <2>4, <2>5, SendingIs
  <2>2. bridge' = [bridge EXCEPT ![b] = new] /\ now.pc = "take"
    BY <1>2, <2>4 DEF TakeRead, Becomes, now
  <2>3. IsConsistent(new) /\ Carries(now) \subseteq Carries(new)
    BY <1>1, <2>1, <2>2, ToSetIs DEF IsConsistent, Carries
  <2> QED
    BY <1>2, <2>1, <2>2, <2>3, BridgeGoesOn DEF TakeRead, now
<1>3. CASE TakeRead(b) /\ spool # <<>>
  <2>4. PICK new : new = [now EXCEPT !.pc = "replace", !.read = spool]
    OBVIOUS
  <2>1. new \in BridgeStates /\ new.pc = "replace" /\ new.read = spool
        /\ new.batch = now.batch /\ new.pending = now.pending
    BY <1>1, <2>4 DEF BridgeStates
  <2>2. bridge' = [bridge EXCEPT ![b] = new] /\ now.pc = "take"
    BY <1>3, <2>4 DEF TakeRead, Becomes, now
  <2>3. IsConsistent(new) /\ Carries(now) \subseteq Carries(new)
    BY <1>1, <1>3, <2>1, <2>2 DEF IsConsistent, Carries
  <2> QED
    BY <1>3, <2>1, <2>2, <2>3, BridgeGoesOn DEF TakeRead, now
<1>4. CASE TakeReplace(b)
  <2>1. now.pc = "replace" /\ now.read = spool /\ spool # <<>> /\ now.batch = <<>>
    BY <1>1, <1>4 DEF TakeReplace, IsConsistent, now
  <2>2. ToSet(spool) = {Head(spool)} \cup ToSet(Tail(spool)) /\ Head(spool) \in Records /\ Tail(spool) \in Seq(Records)
    BY <1>1, <2>1, ToSetIs
  <2> DEFINE first == <<Head(spool)>>
  <2>3. first \in Seq(Records) /\ ToSet(first) = {Head(spool)}
    BY <2>2, ToSetIs
  <2>9. PICK new : new = Sending(now, "drain", first)
    OBVIOUS
  <2>10. PICK mode \in Modes : mode = "drain"
    BY DEF Modes
  <2>5. bridge' = [bridge EXCEPT ![b] = new] /\ spool' = Tail(spool)
    BY <1>4, <2>1, <2>9 DEF TakeReplace, Becomes, now
  <2> HIDE DEF first
  <2>4. new \in BridgeStates /\ new.pc = "post" /\ new.left # 0 /\ new.mode = "drain"
        /\ new.batch = first /\ new.pending = now.pending
    BY <1>1, <2>3, <2>9, <2>10, SendingIs
  <2>6. IsConsistent(new)'
    BY <2>4 DEF IsConsistent
  <2>7. ToSet(spool) \cup Carries(now) \subseteq Accounted' \cup Carries(new)
    <3>1. ToSet(spool') \subseteq Accounted'
      BY DEF Accounted, ToSet
    <3> QED
      BY <2>1, <2>2, <2>3, <2>4, <2>5, <3>1, ToSetIs DEF Carries
  <2>8. UNCHANGED <<ingestVars, handed, counted, killed, kills>>
    BY <1>4 DEF TakeReplace
  <2> QED
    BY <2>2, <2>4, <2>5, <2>6, <2>7, <2>8, SameRoute, BridgeMoves DEF ShipperInv, now
<1> QED
  BY <1>2, <1>3, <1>4 DEF TakeRead

(* A failed attempt, whatever the route was doing with it.                 *)
LEMMA AttemptFails ==
    ASSUME ShipperInv, NEW b, Bridges = {b}, bridge[b].pc \in {"post", "wait"},
           NEW new, KeepsBatch(bridge[b], new), bridge' = [bridge EXCEPT ![b] = new],
           IngestInv', shown \subseteq shown', UNCHANGED <<spool, handed, counted, killed, kills>>
    PROVE  ShipperInv'
<1>1. PICK now : now = bridge[b]
  OBVIOUS
<1>2. now \in BridgeStates /\ IsConsistent(now)
  BY <1>1, BridgeAt
<1>3. new \in BridgeStates /\ IsConsistent(new)' /\ Carries(new) = Carries(now)
  BY <1>1, <1>2, KeptIsConsistent DEF KeepsBatch
<1>4. ToSet(spool) \subseteq Accounted'
  BY DEF Accounted, ToSet
<1> QED
  BY <1>1, <1>3, <1>4, BridgeMoves DEF ShipperInv

(* How an attempt that fails leaves its bridge.                            *)
LEMMA AttemptBecomes ==
    ASSUME NEW b, NEW now \in BridgeStates, now = bridge[b],
           now.pc \in {"post", "wait"} => now.left # 0,
           Reauthenticate(b) \/ Unreachable(b) \/ Timeout(b)
    PROVE  \E new : KeepsBatch(now, new) /\ bridge' = [bridge EXCEPT ![b] = new]
<1>1. now = bridge[b]
  OBVIOUS
<1>2. now \in BridgeStates /\ now.left # 0
  BY DEF Reauthenticate, Unreachable, Timeout
<1>3. PICK none \in Tokens, good \in Tokens, slot \in Slots \cup {"none"} :
          none = "none" /\ good = "good" /\ slot = "none"
  BY DEF Tokens
<1>4. PICK again \in BOOLEAN : again = (now.refreshed \/ now.token = "stale")
  OBVIOUS
<1>5. CASE Reauthenticate(b) /\ bridge' = [bridge EXCEPT ![b] = GivenUp([now EXCEPT !.token = "none"])]
  <2>1. PICK other : other = [now EXCEPT !.token = none]
    OBVIOUS
  <2>2. SameSend(now, other)
    BY <1>2, <2>1 DEF SameSend, BridgeStates
  <2>3. KeepsBatch(now, GivenUp(other))
    BY <2>2, GivenUpIs, OtherFields DEF SameSend
  <2> QED
    BY <1>3, <1>5, <2>1, <2>3
<1>6. CASE bridge' = [bridge EXCEPT ![b] = Retried([now EXCEPT !.token = good, !.refreshed = again])]
  <2>1. PICK other : other = [now EXCEPT !.token = good, !.refreshed = again]
    OBVIOUS
  <2>2. SameSend(now, other)
    BY <1>2, <2>1 DEF SameSend, BridgeStates
  <2>3. KeepsBatch(now, Retried(other))
    BY <1>2, <2>2, RetriedIs, OtherFields DEF SameSend
  <2> QED
    BY <1>6, <2>1, <2>3
<1>7. CASE Unreachable(b)
  BY <1>1, <1>2, <1>7, RetriedIs DEF Unreachable, Becomes
<1>8. CASE Timeout(b)
  <2>1. PICK other : other = [now EXCEPT !.slot = slot]
    OBVIOUS
  <2>2. SameSend(now, other)
    BY <1>2, <2>1 DEF SameSend, BridgeStates
  <2>3. KeepsBatch(now, Retried(other))
    BY <1>2, <2>2, RetriedIs, OtherFields DEF SameSend
  <2> QED
    BY <1>1, <1>3, <1>8, <2>1, <2>3 DEF Timeout, Becomes
<1>9. Reauthenticate(b) =>
         \/ bridge' = [bridge EXCEPT ![b] = GivenUp([now EXCEPT !.token = "none"])]
         \/ bridge' = [bridge EXCEPT ![b] = Retried([now EXCEPT !.token = good, !.refreshed = again])]
  BY <1>1, <1>3, <1>4 DEF Reauthenticate, Becomes
<1> QED
  BY <1>5, <1>6, <1>7, <1>8, <1>9

LEMMA AttemptKeeps ==
    ASSUME ShipperInv, NEW b, Bridges = {b}, Reauthenticate(b) \/ Unreachable(b) \/ Timeout(b)
    PROVE  ShipperInv'
<1>1. PICK now : now = bridge[b]
  OBVIOUS
<1>2. now \in BridgeStates /\ IsConsistent(now) /\ now.pc \in {"post", "wait"} /\ now.left # 0
  BY <1>1, BridgeAt DEF Reauthenticate, Unreachable, Timeout, IsConsistent
<1>3. \E new : KeepsBatch(now, new) /\ bridge' = [bridge EXCEPT ![b] = new]
  BY <1>1, <1>2, AttemptBecomes
<1>4. UNCHANGED <<ingestVars, spool, handed, counted, killed, kills>>
  BY DEF Reauthenticate, Unreachable, Timeout
<1> QED
  BY <1>1, <1>2, <1>3, <1>4, SameRoute, AttemptFails

LEMMA PostKeeps ==
    ASSUME ShipperInv, NEW b, Bridges = {b}, NEW s \in Slots, Post(b, s)
    PROVE  ShipperInv'
<1>1. PICK now : now = bridge[b]
  OBVIOUS
<1>2. now \in BridgeStates /\ IsConsistent(now) /\ now.pc = "post" /\ ToSet(now.batch) \in SUBSET Records
  BY <1>1, BridgeAt DEF Post
<1>3. PICK batch \in SUBSET Records : batch = ToSet(now.batch)
  BY <1>2
<1>4. Receive(s, batch) /\ shown' = shown
  BY <1>1, <1>3 DEF Post, Receive
<1>5. IngestInv' /\ \E served : served # Free /\ served.batch = batch /\ request' = [request EXCEPT ![s] = served]
  BY <1>4, ReceiveKeeps DEF ShipperInv
<1>6. request'[s] # Free /\ request'[s].batch = batch
  BY <1>5 DEF ShipperInv, IngestInv, IngestTypeOK
<1>7. PICK new : new = [now EXCEPT !.pc = "wait", !.slot = s]
  OBVIOUS
<1>8. /\ new \in BridgeStates /\ new.pc = "wait" /\ new.slot = s /\ new.left = now.left /\ new.mode = now.mode
      /\ new.batch = now.batch /\ new.pending = now.pending
  BY <1>2, <1>7 DEF BridgeStates
<1>9. bridge' = [bridge EXCEPT ![b] = new]
  BY <1>1, <1>7 DEF Post
<1>10. IsConsistent(new)' /\ Carries(new) = Carries(now)
  BY <1>2, <1>3, <1>6, <1>8 DEF IsConsistent, Carries
<1>11. ToSet(spool) \subseteq Accounted' /\ UNCHANGED <<spool, handed, counted, killed, kills>>
  BY DEF Post, Accounted, ToSet
<1> QED
  BY <1>1, <1>4, <1>5, <1>8, <1>9, <1>10, <1>11, BridgeMoves DEF ShipperInv

(* An answer settles the batch only when a reader finds its records, or    *)
(* when they are counted.                                                  *)
LEMMA AnswerKeeps ==
    ASSUME ShipperInv, NEW b, Bridges = {b}, AnswerBatch(b)
    PROVE  ShipperInv'
<1>1. PICK at : at = bridge[b]
  OBVIOUS
<1>2. /\ at \in BridgeStates /\ IsConsistent(at) /\ at.pc = "wait" /\ at.left # 0 /\ at.slot \in Slots
      /\ request[at.slot].batch = ToSet(at.batch) /\ ToSet(at.batch) \in SUBSET Records
  BY <1>1, BridgeAt DEF AnswerBatch, IsConsistent
<1>3. PICK s \in Slots : s = at.slot
  BY <1>2
<1>4. IngestInv' /\ shown' = shown /\ UNCHANGED <<spool, handed, killed, kills>>
  <2>1. request[s].pc = "answered" /\ request' = [request EXCEPT ![s] = Free]
        /\ UNCHANGED <<wiring, inFlight, shown, outages, spool, handed, killed, kills>>
    BY <1>1, <1>3 DEF AnswerBatch
  <2> QED
    BY <2>1, AnswerRead DEF ShipperInv
<1>5. PICK none \in Slots \cup {"none"} : none = "none"
  OBVIOUS
<1>6. PICK now : now = [at EXCEPT !.slot = none]
  OBVIOUS
<1>7. SameSend(at, now)
  BY <1>2, <1>6 DEF SameSend, BridgeStates
<1>8. CASE Becomes(b, Retried(now)) /\ UNCHANGED counted
  <2>1. KeepsBatch(at, Retried(now))
    BY <1>2, <1>7, RetriedIs, OtherFields DEF SameSend
  <2> QED
    BY <1>1, <1>2, <1>4, <1>8, <2>1, AttemptFails DEF Becomes
<1>9. ASSUME Becomes(b, Settled(now)), ToSet(at.batch) \subseteq Accounted',
             counted \subseteq counted' /\ counted' \subseteq Records
      PROVE  ShipperInv'
  <2>1. PICK new : new = Settled(now)
    OBVIOUS
  <2>2. /\ new \in BridgeStates /\ IsConsistent(new)'
        /\ Carries(at) \subseteq ToSet(at.batch) \cup Carries(new)
    <3>1. now.mode = "send" => now.batch = now.pending
      BY <1>2, <1>7 DEF IsConsistent, SameSend
    <3> QED
      BY <1>7, <2>1, <3>1, SettledIs DEF Carries, SameSend
  <2>3. bridge' = [bridge EXCEPT ![b] = new] /\ ToSet(spool) \subseteq Accounted'
    BY <1>4, <1>9, <2>1 DEF Becomes, Accounted, ToSet
  <2> QED
    BY <1>1, <1>4, <1>9, <2>2, <2>3, BridgeMoves DEF ShipperInv
<1>10. CASE request[s].status = 200 /\ Becomes(b, Settled(now)) /\ UNCHANGED counted
  <2>1. Accepted(ToSet(at.batch)) \subseteq shown
    BY <1>1, <1>2, <1>3, <1>10 DEF ShipperInv, IngestInv, AnswerBatch
  <2>2. ToSet(at.batch) \subseteq Accounted'
    BY <1>2, <1>4, <2>1 DEF Accepted, Accounted
  <2> QED
    BY <1>9, <1>10, <2>2 DEF ShipperInv
<1>11. CASE Becomes(b, Settled(now)) /\ counted' = counted \cup ToSet(at.batch)
  <2>1. ToSet(at.batch) \subseteq Accounted' /\ counted \subseteq counted' /\ counted' \subseteq Records
    BY <1>2, <1>11 DEF Accounted, ShipperInv
  <2> QED
    BY <1>9, <1>11, <2>1
<1>12. \/ request[s].status = 200 /\ Becomes(b, Settled(now)) /\ UNCHANGED counted
       \/ Becomes(b, Settled(now)) /\ counted' = counted \cup ToSet(at.batch)
       \/ Becomes(b, Retried(now)) /\ UNCHANGED counted
  <2>1. now = [bridge[b] EXCEPT !.slot = "none"] /\ s = bridge[b].slot /\ now.batch = at.batch
    BY <1>1, <1>3, <1>5, <1>6, <1>7 DEF SameSend
  <2> QED
    BY <2>1 DEF AnswerBatch
<1> QED
  BY <1>8, <1>10, <1>11, <1>12

(* A batch that could not be drained goes back to the front of the spool.  *)
LEMMA ReturnKeeps ==
    ASSUME ShipperInv, NEW b, Bridges = {b}, ReturnRead(b) \/ ReturnReplace(b)
    PROVE  ShipperInv'
<1>1. PICK now : now = bridge[b]
  OBVIOUS
<1>2. /\ now \in BridgeStates /\ IsConsistent(now) /\ now.pending \in Seq(Records) /\ now.batch \in Seq(Records)
      /\ spool \in Seq(Records)
  BY <1>1, BridgeAt DEF ShipperInv
<1>3. CASE ReturnRead(b)
  <2>1. PICK none \in Slots \cup {"none"} : none = "none"
    OBVIOUS
  <2>2. PICK new : new = [now EXCEPT !.pc = "rewrite", !.read = spool, !.slot = none]
    OBVIOUS
  <2>3. new \in BridgeStates /\ new.pc = "rewrite" /\ new.read = spool
        /\ new.batch = now.batch /\ new.pending = now.pending
    BY <1>2, <2>2 DEF BridgeStates
  <2>4. bridge' = [bridge EXCEPT ![b] = new]
    BY <1>1, <1>3, <2>1, <2>2 DEF ReturnRead, Becomes
  <2>5. IsConsistent(new) /\ Carries(now) \subseteq Carries(new)
    BY <2>3 DEF IsConsistent, Carries
  <2> QED
    BY <1>1, <1>3, <2>3, <2>4, <2>5, BridgeGoesOn DEF ReturnRead
<1>4. CASE ReturnReplace(b)
  <2>1. now.pc = "rewrite" /\ now.read = spool
    BY <1>1, <1>2, <1>4 DEF ReturnReplace, IsConsistent
  <2>2. PICK mode \in Modes : mode = "send"
    BY DEF Modes
  <2>3. PICK new : new = Sending(now, mode, now.pending)
    OBVIOUS
  <2>4. new \in BridgeStates /\ new.pc = "post" /\ new.left # 0 /\ new.mode = mode
        /\ new.batch = now.pending /\ new.pending = now.pending
    BY <1>2, <2>3, SendingIs
  <2>5. bridge' = [bridge EXCEPT ![b] = new] /\ spool' = now.batch \o spool
    BY <1>1, <1>4, <2>1, <2>2, <2>3 DEF ReturnReplace, Becomes, Rewritten
  <2>6. spool' \in Seq(Records) /\ ToSet(spool') = ToSet(now.batch) \cup ToSet(spool)
    BY <1>2, <2>5, ToSetIs
  <2>7. ToSet(spool) \cup Carries(now) \subseteq Accounted' \cup Carries(new)
    <3>1. ToSet(spool') \subseteq Accounted'
      BY DEF Accounted, ToSet
    <3> QED
      BY <2>4, <2>6, <3>1 DEF Carries
  <2>8. IsConsistent(new)'
    BY <2>2, <2>4 DEF IsConsistent
  <2>9. UNCHANGED <<ingestVars, handed, counted, killed, kills>>
    BY <1>4 DEF ReturnReplace
  <2> QED
    BY <1>1, <2>4, <2>5, <2>6, <2>7, <2>8, <2>9, SameRoute, BridgeMoves DEF ShipperInv
<1> QED
  BY <1>3, <1>4

(* What does not fit the spool is counted.                                 *)
LEMMA StoredIs ==
    ASSUME NEW batch \in Seq(Records), NEW read \in Seq(Records)
    PROVE  LET room == IF Len(read) >= SpoolMax THEN 0 ELSE SpoolMax - Len(read) IN
           SubSeq(batch, 1, Min({room, Len(batch)})) \in Seq(Records)
<1> DEFINE room == IF Len(read) >= SpoolMax THEN 0 ELSE SpoolMax - Len(read)
<1> DEFINE kept == Min({room, Len(batch)})
<1>1. kept \in 0..Len(batch)
  <2>1. room \in Nat /\ Len(batch) \in Nat
    BY ShipperAssumption
  <2> HIDE DEF room
  <2> QED
    BY <2>1, MinOfTwo
<1> HIDE DEF kept
<1>2. SubSeq(batch, 1, kept) \in Seq(Records)
  BY <1>1
<1> QED
  BY <1>2 DEF kept

LEMMA AppendKeeps ==
    ASSUME ShipperInv, NEW b, Bridges = {b}, AppendStat(b) \/ AppendWrite(b)
    PROVE  ShipperInv'
<1>1. PICK now : now = bridge[b]
  OBVIOUS
<1>2. /\ now \in BridgeStates /\ IsConsistent(now) /\ now.pending \in Seq(Records) /\ now.batch \in Seq(Records)
      /\ now.read \in Seq(Records) /\ spool \in Seq(Records)
  BY <1>1, BridgeAt DEF ShipperInv
<1>3. CASE AppendStat(b)
  <2>1. PICK none \in Slots \cup {"none"} : none = "none"
    OBVIOUS
  <2>2. PICK new : new = [now EXCEPT !.pc = "append", !.read = spool, !.slot = none]
    OBVIOUS
  <2>3. new \in BridgeStates /\ new.pc = "append" /\ new.mode = now.mode
        /\ new.batch = now.batch /\ new.pending = now.pending
    BY <1>2, <2>2 DEF BridgeStates
  <2>4. bridge' = [bridge EXCEPT ![b] = new] /\ now.pc = "stat"
    BY <1>1, <1>3, <2>1, <2>2 DEF AppendStat, Becomes
  <2>5. IsConsistent(new) /\ Carries(now) \subseteq Carries(new)
    BY <1>2, <2>3, <2>4 DEF IsConsistent, Carries
  <2> QED
    BY <1>1, <1>3, <2>3, <2>4, <2>5, BridgeGoesOn DEF AppendStat
<1>4. CASE AppendWrite(b)
  <2> DEFINE room == IF Len(now.read) >= SpoolMax THEN 0 ELSE SpoolMax - Len(now.read)
  <2> DEFINE kept == Min({room, Len(now.batch)})
  <2>1. PICK written : written = SubSeq(now.batch, 1, kept)
    OBVIOUS
  <2>3. written \in Seq(Records)
    BY <1>2, <2>1, StoredIs
  <2> HIDE DEF kept
  <2>4. PICK new : new = RunFinished(now)
    OBVIOUS
  <2>5. new \in BridgeStates /\ new.pc = "idle" /\ new.pending = <<>> /\ new.batch = <<>>
    BY <1>2, <2>4, RunFinishedIs
  <2>6. /\ spool' = spool \o written /\ counted' = counted \cup (ToSet(now.batch) \ ToSet(written))
        /\ bridge' = [bridge EXCEPT ![b] = new]
    BY <1>1, <1>4, <2>1, <2>4 DEF AppendWrite, Becomes, kept
  <2>7. spool' \in Seq(Records) /\ ToSet(spool') = ToSet(spool) \cup ToSet(written)
    BY <1>2, <2>3, <2>6, ToSetIs
  <2>8. now.batch = now.pending
    BY <1>1, <1>2, <1>4 DEF AppendWrite, IsConsistent
  <2>9. ToSet(spool) \cup Carries(now) \subseteq Accounted' \cup Carries(new)
    <3>1. ToSet(spool') \cup counted' \subseteq Accounted'
      BY DEF Accounted, ToSet
    <3> QED
      BY <2>6, <2>7, <2>8, <3>1 DEF Carries
  <2>10. counted \subseteq counted' /\ counted' \subseteq Records
    BY <1>2, <2>6, ToSetIs DEF ShipperInv
  <2>11. IsConsistent(new)' /\ UNCHANGED <<ingestVars, handed, killed, kills>>
    BY <1>4, <2>5 DEF IsConsistent, AppendWrite
  <2> QED
    BY <1>1, <2>5, <2>6, <2>7, <2>9, <2>10, <2>11, SameRoute, BridgeMoves DEF ShipperInv
<1> QED
  BY <1>3, <1>4

LEMMA ExpireKeeps ==
    ASSUME ShipperInv, NEW b, Bridges = {b}, Expire(b)
    PROVE  ShipperInv'
<1>1. PICK now : now = bridge[b]
  OBVIOUS
<1>2. now \in BridgeStates /\ IsConsistent(now) /\ now.pc = "post"
  BY <1>1, BridgeAt DEF Expire
<1>3. PICK stale \in Tokens : stale = "stale"
  BY DEF Tokens
<1>4. PICK new : new = [now EXCEPT !.token = stale]
  OBVIOUS
<1>5. SameSend(now, new)
  BY <1>2, <1>4 DEF SameSend, BridgeStates
<1>6. bridge' = [bridge EXCEPT ![b] = new]
  BY <1>1, <1>3, <1>4 DEF Expire
<1>7. IsConsistent(new) /\ Carries(now) \subseteq Carries(new)
  BY <1>2, <1>5 DEF IsConsistent, Carries, SameSend
<1> QED
  BY <1>1, <1>5, <1>6, <1>7, BridgeGoesOn DEF Expire, SameSend

LEMMA KillKeeps ==
    ASSUME ShipperInv, NEW b, Bridges = {b}, Kill
    PROVE  ShipperInv'
<1>1. UNION {InHand(u) : u \in Bridges} = Carries(bridge[b]) /\ Carries(bridge[b]) \in SUBSET Records
  BY BridgeAt, ToSetIs DEF InHand, Carries
<1>2. Idle \in BridgeStates /\ Idle.pc = "idle" /\ Idle.pending = <<>> /\ Idle.batch = <<>>
  BY ShipperAssumption DEF Idle, BridgeStates, Modes, Tokens
<1> HIDE DEF Idle
<1>3. bridge' \in [Bridges -> BridgeStates] /\ bridge'[b] = Idle
  BY <1>2 DEF Kill
<1>4. IsConsistent(Idle)'
  BY <1>2 DEF IsConsistent
<1>5. killed' = killed \cup Carries(bridge[b]) /\ UNCHANGED <<spool, handed, counted, shown>> /\ kills' \in 0..MaxKills
  BY <1>1, ShipperAssumption DEF Kill, ShipperInv, ingestVars
<1>6. handed' \subseteq Accounted'
  BY <1>5 DEF ShipperInv, Accounted, ToSet
<1>7. IngestInv'
  BY SameRoute DEF Kill
<1> QED
  BY <1>1, <1>3, <1>4, <1>5, <1>6, <1>7 DEF ShipperInv, IsConsistent

(* The route's own steps, and those of another client.                     *)
LEMMA RouteKeeps ==
    ASSUME ShipperInv, NEW b, Bridges = {b},
           \/ Serve /\ UNCHANGED shipVars
           \/ \E s \in Slots : Unread(s) \/ \E batch \in (SUBSET Foreign) \ {{}} : OtherPosts(s, batch)
    PROVE  ShipperInv'
<1>1. bridge[b].pc = "wait" => bridge[b].slot \in Slots
  BY BridgeAt DEF IsConsistent
<1>2. CASE Serve /\ UNCHANGED shipVars
  BY <1>1, <1>2, ServeKeeps, BridgeWaits DEF ShipperInv, StillServes
<1>3. ASSUME NEW s \in Slots, Unread(s)
      PROVE  ShipperInv'
  <2>1. bridge[b].slot # s /\ IngestInv' /\ shown' = shown /\ UNCHANGED shipVars
    BY <1>3, AnswerRead DEF Unread, ShipperInv
  <2>2. \A u \in Slots : u # s => request'[u] = request[u]
    BY <1>3 DEF Unread, ShipperInv, IngestInv, IngestTypeOK
  <2> QED
    BY <1>1, <2>1, <2>2, BridgeWaits
<1>4. ASSUME NEW s \in Slots, NEW batch \in SUBSET Foreign, OtherPosts(s, batch)
      PROVE  ShipperInv'
  <2>1. Receive(s, batch) /\ shown' = shown /\ UNCHANGED shipVars /\ batch \in SUBSET Records
    BY <1>4, ShipperAssumption DEF OtherPosts, Receive
  <2>2. IngestInv' /\ request[s] = Free /\ \E new : request' = [request EXCEPT ![s] = new]
    BY <2>1, ReceiveKeeps DEF ShipperInv
  <2>3. \A u \in Slots : u # s => request'[u] = request[u]
    BY <2>2 DEF ShipperInv, IngestInv, IngestTypeOK
  <2> QED
    BY <1>1, <2>1, <2>2, <2>3, BridgeWaits
<1> QED
  BY <1>2, <1>3, <1>4

LEMMA ShipperStep ==
    ASSUME ShipperInv, NEW b, Bridges = {b}, [ShipperNext]_shipperVars
    PROVE  ShipperInv'
<1>1. CASE UNCHANGED shipperVars
  <2>1. UNCHANGED ingestVars /\ UNCHANGED shipVars /\ request' = request
    BY <1>1 DEF shipperVars, ingestVars
  <2> QED
    BY <2>1, SameRoute, BridgeWaits
<1>2. CASE ShipperNext
  BY <1>2, SubmitKeeps, TakeKeeps, AttemptKeeps, PostKeeps, AnswerKeeps, ReturnKeeps, AppendKeeps,
     ExpireKeeps, KillKeeps, RouteKeeps DEF ShipperNext
<1> QED
  BY <1>1, <1>2

LEMMA ShipperGood ==
    ASSUME ShipperInv, NEW one, Bridges = {one}
    PROVE  NothingLostUncounted
<1>1. handed \subseteq Accounted \cup InHand(one)
  BY DEF ShipperInv, InHand, Carries
<1>2. one \in Bridges
  OBVIOUS
<1> QED
  BY <1>1, <1>2 DEF NothingLostUncounted, Accounted
-----------------------------------------------------------------------------
(* However many bridges share the spool: each keeps its batch, and the     *)
(* budget of the route is what it is taking in.                            *)
BridgeIsReady(now) ==
    /\ now.pc = "replace" => now.read # <<>>
    /\ now.pc \in {"post", "wait"} => now.left # 0
SharedInv ==
    /\ IngestInv
    /\ bridge \in [Bridges -> BridgeStates] /\ spool \in Seq(Records)
    /\ handed \subseteq Records /\ counted \subseteq Records /\ killed \subseteq Records
    /\ kills \in 0..MaxKills
    /\ \A b \in Bridges : BridgeIsReady(bridge[b])

LEMMA SharedStart == ShipperInit => SharedInv
<1> SUFFICES ASSUME ShipperInit
             PROVE  SharedInv
  OBVIOUS
<1>1. Idle \in BridgeStates /\ Idle.pc = "idle"
  BY ShipperAssumption DEF Idle, BridgeStates, Modes, Tokens
<1>2. IngestInv
  BY IngestStart DEF ShipperInit
<1> HIDE DEF Idle
<1>3. \A b \in Bridges : BridgeIsReady(bridge[b])
  BY <1>1 DEF ShipperInit, BridgeIsReady
<1>4. bridge \in [Bridges -> BridgeStates] /\ handed = {} /\ spool \in Seq(Records) /\ kills \in 0..MaxKills
  BY <1>1, ShipperAssumption DEF ShipperInit
<1> QED
  BY <1>2, <1>3, <1>4 DEF ShipperInit, SharedInv

LEMMA OneBridgeMoves ==
    ASSUME SharedInv, NEW b \in Bridges, NEW new \in BridgeStates, BridgeIsReady(new),
           bridge' = [bridge EXCEPT ![b] = new], IngestInv', spool' \in Seq(Records),
           handed' \subseteq Records /\ counted' \subseteq Records, UNCHANGED <<killed, kills>>
    PROVE  SharedInv'
BY DEF SharedInv, BridgeIsReady

LEMMA RouteStays ==
    ASSUME SharedInv, UNCHANGED ingestVars
    PROVE  IngestInv'
BY DEF SharedInv, ingestVars, IngestInv, IngestTypeOK, BeingTakenIn, BudgetIsInFlight, Accepted

LEMMA SharedAt ==
    ASSUME SharedInv, NEW b \in Bridges
    PROVE  /\ bridge[b] \in BridgeStates /\ BridgeIsReady(bridge[b])
           /\ bridge[b].pending \in Seq(Records) /\ bridge[b].batch \in Seq(Records)
           /\ bridge[b].read \in Seq(Records)
           /\ ToSet(bridge[b].batch) \in SUBSET Records
           /\ spool \in Seq(Records) /\ handed \subseteq Records /\ counted \subseteq Records
<1>1. bridge[b] \in BridgeStates /\ BridgeIsReady(bridge[b])
  BY DEF SharedInv
<1>2. bridge[b].pending \in Seq(Records) /\ bridge[b].batch \in Seq(Records) /\ bridge[b].read \in Seq(Records)
  BY <1>1 DEF BridgeStates
<1> QED
  BY <1>1, <1>2, ToSetIs DEF SharedInv

LEMMA OneBridgeKeeps ==
    ASSUME SharedInv, NEW b \in Bridges,
           \/ Submit(b) \/ TakeRead(b) \/ TakeReplace(b) \/ Reauthenticate(b) \/ Unreachable(b)
           \/ AnswerBatch(b) \/ Timeout(b) \/ ReturnRead(b) \/ ReturnReplace(b)
           \/ AppendStat(b) \/ AppendWrite(b) \/ Expire(b)
           \/ \E s \in Slots : Post(b, s)
    PROVE  SharedInv'
<1>1. PICK now : now = bridge[b]
  OBVIOUS
<1>2. /\ now \in BridgeStates /\ now.pending \in Seq(Records) /\ now.batch \in Seq(Records) /\ now.read \in Seq(Records)
      /\ ToSet(now.batch) \in SUBSET Records /\ spool \in Seq(Records)
      /\ handed \subseteq Records /\ counted \subseteq Records
      /\ now.pc = "replace" => now.read # <<>>
      /\ now.pc \in {"post", "wait"} => now.left # 0
  BY <1>1, SharedAt DEF BridgeIsReady
<1>3. PICK send \in Modes, drain \in Modes, none \in Slots \cup {"none"},
           noToken \in Tokens, good \in Tokens, stale \in Tokens, again \in BOOLEAN :
          /\ send = "send" /\ drain = "drain" /\ none = "none" /\ noToken = "none" /\ good = "good" /\ stale = "stale"
          /\ again = (now.refreshed \/ now.token = "stale")
  BY DEF Modes, Tokens
<1>4. ASSUME NEW new \in BridgeStates, BridgeIsReady(new), bridge' = [bridge EXCEPT ![b] = new],
             UNCHANGED <<ingestVars, killed, kills>>, spool' \in Seq(Records),
             handed' \subseteq Records /\ counted' \subseteq Records
      PROVE  SharedInv'
  BY <1>4, RouteStays, OneBridgeMoves
<1>5. ASSUME NEW new, KeepsBatch(now, new) PROVE new \in BridgeStates /\ BridgeIsReady(new)
  BY <1>5 DEF KeepsBatch, BridgeIsReady
<1>6. \A mode \in Modes : \A batch \in Seq(Records) :
          Sending(now, mode, batch) \in BridgeStates /\ BridgeIsReady(Sending(now, mode, batch))
  <2> TAKE mode \in Modes
  <2> TAKE batch \in Seq(Records)
  <2>1. PICK new : new = Sending(now, mode, batch)
    OBVIOUS
  <2>3. now \in BridgeStates
    BY <1>2
  <2>2. new \in BridgeStates /\ new.pc = "post" /\ new.left # 0
    BY <2>1, <2>3, SendingIs
  <2> QED
    BY <2>1, <2>2 DEF BridgeIsReady
<1>7. CASE Submit(b)
  <2>1. PICK record \in Records : /\ handed' = handed \cup {record}
            /\ bridge' = [bridge EXCEPT ![b] = [now EXCEPT !.pc = "take", !.pending = <<record>>]]
    BY <1>1, <1>7 DEF Submit, Becomes
  <2>5. <<record>> \in Seq(Records)
    OBVIOUS
  <2>2. PICK first \in Seq(Records) : first = <<record>>
    BY <2>5
  <2>3. PICK new : new = [now EXCEPT !.pc = "take", !.pending = first]
    OBVIOUS
  <2>4. new \in BridgeStates /\ BridgeIsReady(new)
    BY <1>2, <2>3 DEF BridgeStates, BridgeIsReady
  <2> QED
    BY <1>2, <1>4, <1>7, <2>1, <2>2, <2>3, <2>4, ZenonT(40) DEF Submit
<1>8. CASE TakeRead(b) \/ TakeReplace(b)
  <2>1. CASE TakeRead(b) /\ spool = <<>>
    BY <1>1, <1>2, <1>3, <1>4, <1>6, <2>1 DEF TakeRead, Becomes
  <2>2. CASE TakeRead(b) /\ spool # <<>>
    <3>1. PICK new : new = [now EXCEPT !.pc = "replace", !.read = spool]
      OBVIOUS
    <3>2. new \in BridgeStates /\ BridgeIsReady(new)
      BY <1>2, <2>2, <3>1 DEF BridgeStates, BridgeIsReady
    <3> QED
      BY <1>1, <1>2, <1>4, <2>2, <3>1, <3>2 DEF TakeRead, Becomes
  <2>3. CASE TakeReplace(b)
    <3>1. now.read # <<>>
      BY <1>1, <1>2, <2>3 DEF TakeReplace
    <3>2. Head(now.read) \in Records /\ Tail(now.read) \in Seq(Records)
      BY <1>2, <3>1, ToSetIs
    <3>5. <<Head(now.read)>> \in Seq(Records)
      BY <3>2
    <3>3. PICK first \in Seq(Records) : first = <<Head(now.read)>>
      BY <3>5
    <3>4. Sending(now, drain, first) \in BridgeStates /\ BridgeIsReady(Sending(now, drain, first))
      BY <1>3, <1>6
    <3> QED
      BY <1>1, <1>2, <1>3, <1>4, <2>3, <3>2, <3>3, <3>4 DEF TakeReplace, Becomes
  <2> QED
    BY <1>8, <2>1, <2>2, <2>3
<1>9. CASE Reauthenticate(b) \/ Unreachable(b) \/ Timeout(b)
  <2>1. \E new : KeepsBatch(now, new) /\ bridge' = [bridge EXCEPT ![b] = new]
    BY <1>9, AttemptBecomes, <1>1, <1>2
  <2> QED
    BY <1>2, <1>4, <1>5, <1>9, <2>1 DEF Reauthenticate, Unreachable, Timeout
<1>10. CASE AnswerBatch(b)
  <2>1. IngestInv' /\ UNCHANGED <<spool, handed, killed, kills>>
    <3>1. PICK s : s = bridge[b].slot
      OBVIOUS
    <3>2. request[s].pc = "answered" /\ request' = [request EXCEPT ![s] = Free]
          /\ UNCHANGED <<wiring, inFlight, shown, outages, spool, handed, killed, kills>>
      BY <1>10, <3>1 DEF AnswerBatch
    <3>3. CASE s \in Slots
      BY <3>2, <3>3, AnswerRead DEF SharedInv
    <3>4. CASE s \notin Slots
      <4>1. request' = request
        BY <3>2, <3>4 DEF SharedInv, IngestInv, IngestTypeOK
      <4> QED
        BY <3>2, <4>1, RouteStays DEF ingestVars
    <3> QED
      BY <3>3, <3>4
  <2>2. PICK lone : lone = [now EXCEPT !.slot = none]
    OBVIOUS
  <2>7. SameSend(now, lone)
    BY <1>2, <2>2 DEF SameSend, BridgeStates
  <2>3. SameSend(now, lone) /\ now.left # 0
    BY <1>1, <1>2, <1>10, <2>7 DEF AnswerBatch
  <2>4. CASE Becomes(b, Settled(lone)) /\ counted' \subseteq Records
    <3>1. Settled(lone) \in BridgeStates /\ BridgeIsReady(Settled(lone))
      BY <2>3, SettledStates DEF SameSend, BridgeIsReady
    <3> QED
      BY <1>2, <2>1, <2>4, <3>1, OneBridgeMoves DEF Becomes
  <2>5. CASE Becomes(b, Retried(lone)) /\ UNCHANGED counted
    <3>1. KeepsBatch(now, Retried(lone))
      BY <2>3, RetriedIs, OtherFields DEF SameSend
    <3> QED
      BY <1>2, <1>5, <2>1, <2>5, <3>1, OneBridgeMoves DEF Becomes
  <2>6. \/ Becomes(b, Settled(lone)) /\ counted' \subseteq Records
        \/ Becomes(b, Retried(lone)) /\ UNCHANGED counted
    <3>1. lone = [bridge[b] EXCEPT !.slot = "none"] /\ lone.batch = now.batch
      BY <1>1, <1>3, <2>2, <2>3 DEF SameSend
    <3> QED
      BY <1>2, <1>10, <3>1 DEF AnswerBatch
  <2> QED
    BY <2>4, <2>5, <2>6
<1>11. CASE ReturnRead(b) \/ AppendStat(b)
  <2>1. PICK pc \in {"rewrite", "append"} : bridge' = [bridge EXCEPT ![b] = [now EXCEPT !.pc = pc, !.read = spool, !.slot = none]]
    BY <1>1, <1>3, <1>11 DEF ReturnRead, AppendStat, Becomes
  <2>2. PICK new : new = [now EXCEPT !.pc = pc, !.read = spool, !.slot = none]
    OBVIOUS
  <2>3. new \in BridgeStates /\ BridgeIsReady(new)
    BY <1>2, <2>2 DEF BridgeStates, BridgeIsReady
  <2> QED
    BY <1>2, <1>4, <1>11, <2>1, <2>2, <2>3 DEF ReturnRead, AppendStat
<1>12. CASE ReturnReplace(b)
  <2>1. spool' = now.batch \o now.read /\ bridge' = [bridge EXCEPT ![b] = Sending(now, send, now.pending)]
    BY <1>1, <1>3, <1>12 DEF ReturnReplace, Rewritten, Becomes
  <2>2. spool' \in Seq(Records)
    BY <1>2, <2>1
  <2> QED
    BY <1>2, <1>4, <1>6, <1>12, <2>1, <2>2 DEF ReturnReplace
<1>13. CASE AppendWrite(b)
  <2>1. PICK written \in Seq(Records) : spool' = spool \o written
    BY <1>1, <1>2, <1>13, StoredIs DEF AppendWrite
  <2>2. bridge' = [bridge EXCEPT ![b] = RunFinished(now)] /\ counted' \subseteq counted \cup ToSet(now.batch)
    BY <1>1, <1>13 DEF AppendWrite, Becomes
  <2>3. RunFinished(now) \in BridgeStates /\ BridgeIsReady(RunFinished(now))
    BY <1>2, RunFinishedIs DEF BridgeIsReady
  <2>4. spool' \in Seq(Records)
    BY <1>2, <2>1
  <2> QED
    BY <1>2, <1>4, <1>13, <2>2, <2>3, <2>4 DEF AppendWrite
<1>14. CASE Expire(b)
  <2>1. PICK new : new = [now EXCEPT !.token = stale]
    OBVIOUS
  <2>2. new \in BridgeStates /\ BridgeIsReady(new)
    BY <1>2, <2>1 DEF BridgeStates, BridgeIsReady
  <2>3. bridge' = [bridge EXCEPT ![b] = new]
    BY <1>1, <1>3, <1>14, <2>1 DEF Expire
  <2> QED
    BY <1>2, <1>4, <1>14, <2>2, <2>3 DEF Expire
<1>15. ASSUME NEW s \in Slots, Post(b, s)
       PROVE  SharedInv'
  <2>1. PICK batch \in SUBSET Records : batch = ToSet(now.batch)
    BY <1>2
  <2>2. IngestInv'
    BY <1>1, <1>15, <2>1, ReceiveKeeps DEF Post, SharedInv
  <2>3. PICK new : new = [now EXCEPT !.pc = "wait", !.slot = s]
    OBVIOUS
  <2>4. new \in BridgeStates /\ BridgeIsReady(new)
    BY <1>1, <1>2, <1>15, <2>3 DEF BridgeStates, BridgeIsReady, Post
  <2>5. bridge' = [bridge EXCEPT ![b] = new]
    BY <1>1, <1>15, <2>3 DEF Post
  <2> QED
    BY <1>2, <1>15, <2>2, <2>4, <2>5, OneBridgeMoves DEF Post
<1> QED
  BY <1>7, <1>8, <1>9, <1>10, <1>11, <1>12, <1>13, <1>14, <1>15

LEMMA SharedStep == SharedInv /\ [ShipperNext]_shipperVars => SharedInv'
<1> SUFFICES ASSUME SharedInv, [ShipperNext]_shipperVars
             PROVE  SharedInv'
  OBVIOUS
<1>1. ASSUME IngestInv', UNCHANGED shipVars PROVE SharedInv'
  BY <1>1 DEF SharedInv, shipVars, BridgeIsReady
<1>2. CASE UNCHANGED shipperVars
  <2>1. UNCHANGED ingestVars /\ UNCHANGED shipVars
    BY <1>2 DEF shipperVars
  <2> QED
    BY <1>1, <2>1, RouteStays
<1>3. CASE Kill
  <2>1. Idle \in BridgeStates /\ Idle.pc = "idle"
    BY ShipperAssumption DEF Idle, BridgeStates, Modes, Tokens
  <2> HIDE DEF Idle
  <2>2. bridge' = [b \in Bridges |-> Idle]
    BY <1>3 DEF Kill
  <2>3. bridge' \in [Bridges -> BridgeStates] /\ \A b \in Bridges : BridgeIsReady(bridge'[b])
    BY <2>1, <2>2 DEF BridgeIsReady
  <2>4. UNION {InHand(b) : b \in Bridges} \subseteq Records
    <3>1. \A b \in Bridges : InHand(b) \subseteq Records
      BY SharedAt, ToSetIs DEF InHand
    <3> QED
      BY <3>1
  <2>5. killed' \subseteq Records /\ kills' \in 0..MaxKills /\ UNCHANGED <<spool, handed, counted>>
    BY <1>3, <2>4, ShipperAssumption DEF Kill, SharedInv
  <2>6. IngestInv'
    BY <1>3, RouteStays DEF Kill
  <2> QED
    BY <2>3, <2>5, <2>6 DEF SharedInv, BridgeIsReady
<1>4. CASE Serve /\ UNCHANGED shipVars
  BY <1>1, <1>4, ServeKeeps DEF SharedInv
<1>5. ASSUME NEW s \in Slots, Unread(s) \/ \E batch \in (SUBSET Foreign) \ {{}} : OtherPosts(s, batch)
      PROVE  SharedInv'
  <2>1. CASE Unread(s)
    BY <1>1, <2>1, AnswerRead DEF Unread, SharedInv
  <2>2. ASSUME NEW batch \in SUBSET Foreign, OtherPosts(s, batch)
        PROVE  SharedInv'
    <3>1. batch \in SUBSET Records
      BY ShipperAssumption
    <3> QED
      BY <1>1, <2>2, <3>1, ReceiveKeeps DEF OtherPosts, SharedInv
  <2> QED
    BY <1>5, <2>1, <2>2
<1>6. ASSUME NEW b \in Bridges,
             \/ Submit(b) \/ TakeRead(b) \/ TakeReplace(b) \/ Reauthenticate(b) \/ Unreachable(b)
             \/ AnswerBatch(b) \/ Timeout(b) \/ ReturnRead(b) \/ ReturnReplace(b)
             \/ AppendStat(b) \/ AppendWrite(b) \/ Expire(b)
             \/ \E s \in Slots : Post(b, s)
      PROVE  SharedInv'
  BY <1>6, OneBridgeKeeps
<1> QED
  BY <1>2, <1>3, <1>4, <1>5, <1>6 DEF ShipperNext

LEMMA SharedGood == SharedInv => BudgetIsInFlight /\ ShipperTypeOK
BY DEF SharedInv, IngestInv, ShipperTypeOK, BridgeStates
-----------------------------------------------------------------------------
(* One request on its way: no more of a capped body was counted than the   *)
(* cap while the application reads, and the metrics know what was sent.    *)
ExchangeStates ==
    [pc : {"app", "raised", "over"}, method : {"GET", "POST"},
     left : Seq(ChunkSizes), received : Nat, seen : Nat,
     sent : Seq(Statuses), status : Statuses]
ChainOK(e) ==
    /\ e \in ExchangeStates
    /\ e.sent # <<e.status>> => e.sent = <<>> /\ e.status = 500 /\ e.pc # "over"
    /\ e.method \in BODY_METHODS => e.seen <= MaxBytes
    /\ e.method \in BODY_METHODS /\ e.pc = "app" => e.received <= MaxBytes /\ e.seen = e.received
ChainInv == exchange = NoExchange \/ ChainOK(exchange)

LEMMA ChainStep == ChainInv /\ [RequestChainNext]_exchange => ChainInv'
<1> SUFFICES ASSUME ChainInv, RequestChainNext, exchange' # exchange
             PROVE  ChainOK(exchange')
  BY DEF ChainInv
<1>1. MaxBytes \in Nat /\ ChunkSizes \subseteq Nat
  BY RequestChainAssumption
<1>2. PICK e : e = exchange
  OBVIOUS
<1>3. ASSUME exchange.pc \in {"app", "raised"} PROVE ChainOK(e) /\ e # NoExchange
  BY <1>2, <1>3 DEF ChainInv, NoExchange
<1>4. ASSUME NEW method \in {"GET", "POST"}, NEW declared, NEW body \in BoundedSeq(ChunkSizes, MaxChunks),
             Arrive(method, declared, body)
      PROVE  ChainOK(exchange')
  <2>1. body \in Seq(ChunkSizes)
    <3>1. MaxChunks \in Nat
      BY RequestChainAssumption
    <3> QED
      BY <3>1 DEF BoundedSeq, SeqOf
  <2>2. PICK fresh : fresh = [pc |-> "app", method |-> method, left |-> body, received |-> 0, seen |-> 0,
                              sent |-> <<>>, status |-> 500]
    OBVIOUS
  <2>5. <<>> \in Seq(Statuses)
    OBVIOUS
  <2>9. PICK none \in Seq(Statuses) : none = <<>>
    BY <2>5
  <2>10. PICK error \in Statuses : error = 500
    BY DEF Statuses
  <2>6. none = <<>> /\ error = 500
    BY <2>9, <2>10
  <2>7. fresh = [pc |-> "app", method |-> method, left |-> body, received |-> 0, seen |-> 0,
                 sent |-> none, status |-> error]
    BY <2>2, <2>6
  <2>8. /\ fresh \in ExchangeStates /\ fresh.sent = none /\ fresh.status = error /\ fresh.pc = "app"
        /\ fresh.received = 0 /\ fresh.seen = 0
    BY <2>1, <2>7 DEF ExchangeStates
  <2>3. ChainOK(fresh)
    BY <1>1, <2>6, <2>8 DEF ChainOK
  <2>4. ASSUME NEW code \in {413, 429}
        PROVE  ChainOK([fresh EXCEPT !.pc = "over", !.sent = <<code>>, !.status = code])
    <3>1. PICK c \in Statuses : c = code
      BY DEF Statuses
    <3>4. <<c>> \in Seq(Statuses)
      OBVIOUS
    <3>5. PICK sent \in Seq(Statuses) : sent = <<c>>
      BY <3>4
    <3>2. PICK over : over = [fresh EXCEPT !.pc = "over", !.sent = sent, !.status = c]
      OBVIOUS
    <3>3. over \in ExchangeStates /\ over.sent = sent /\ over.status = c /\ over.seen = 0 /\ over.pc = "over"
      BY <2>8, <3>2 DEF ExchangeStates
    <3>6. ChainOK(over)
      BY <1>1, <3>3, <3>5 DEF ChainOK
    <3> QED
      BY <3>1, <3>2, <3>5, <3>6
  <2> QED
    BY <1>4, <2>2, <2>3, <2>4 DEF Arrive
<1>5. CASE CountedReceive
  <2>1. ChainOK(e) /\ e.pc = "app" /\ e.left # <<>>
    BY <1>2, <1>3, <1>5 DEF CountedReceive
  <2>2. Head(e.left) \in Nat /\ Tail(e.left) \in Seq(ChunkSizes) /\ e.received \in Nat /\ e.seen \in Nat
    <3>1. e.left \in Seq(ChunkSizes) /\ e.received \in Nat /\ e.seen \in Nat
      BY <2>1 DEF ChainOK, ExchangeStates
    <3>2. Head(e.left) \in ChunkSizes /\ Tail(e.left) \in Seq(ChunkSizes)
      BY <2>1, <3>1
    <3> QED
      BY <1>1, <3>1, <3>2
  <2>3. PICK h \in Nat, t \in Seq(ChunkSizes) : h = Head(e.left) /\ t = Tail(e.left)
    BY <2>2
  <2>4. PICK n \in Nat, m \in Nat : n = e.received + h /\ m = e.seen + h
    BY <2>2
  <2>5. PICK rest : rest = [e EXCEPT !.left = t, !.received = n]
    OBVIOUS
  <2>6. /\ rest \in ExchangeStates /\ rest.method = e.method /\ rest.received = n /\ rest.seen = e.seen
        /\ rest.sent = e.sent /\ rest.status = e.status /\ rest.pc = "app"
    BY <2>1, <2>5 DEF ChainOK, ExchangeStates
  <2>7. exchange' = IF e.method \in BODY_METHODS /\ n > MaxBytes
                    THEN [rest EXCEPT !.pc = "raised"] ELSE [rest EXCEPT !.seen = m]
    BY <1>2, <1>5, <2>3, <2>4, <2>5, <2>6 DEF CountedReceive, Capped
  <2>8. CASE e.method \in BODY_METHODS /\ n > MaxBytes
    <3>1. PICK new : new = [rest EXCEPT !.pc = "raised"]
      OBVIOUS
    <3>2. /\ new \in ExchangeStates /\ new.method = e.method /\ new.seen = e.seen
          /\ new.sent = e.sent /\ new.status = e.status /\ new.pc = "raised"
      BY <2>6, <3>1 DEF ExchangeStates
    <3> QED
      BY <2>1, <2>7, <2>8, <3>1, <3>2 DEF ChainOK
  <2>9. CASE ~(e.method \in BODY_METHODS /\ n > MaxBytes)
    <3>1. PICK new : new = [rest EXCEPT !.seen = m]
      OBVIOUS
    <3>2. /\ new \in ExchangeStates /\ new.method = e.method /\ new.seen = m /\ new.received = n
          /\ new.sent = e.sent /\ new.status = e.status /\ new.pc = "app"
      BY <2>6, <3>1 DEF ExchangeStates
    <3>3. e.method \in BODY_METHODS => n <= MaxBytes /\ m = n
      BY <1>1, <2>1, <2>4, <2>9 DEF ChainOK
    <3> QED
      BY <2>1, <2>7, <2>9, <3>1, <3>2, <3>3 DEF ChainOK
  <2> QED
    BY <2>8, <2>9
<1>6. ASSUME NEW code \in Statuses, NEW pc \in {"app", "over"}, ChainOK(e), e.sent = <<>>,
             pc = "app" => e.pc = "app", ResponseStarts(code, pc)
      PROVE  ChainOK(exchange')
  <2>1. <<code>> = Append(e.sent, code) /\ <<code>> \in Seq(Statuses)
    BY <1>6
  <2>5. PICK sent \in Seq(Statuses) : sent = <<code>>
    BY <2>1
  <2>2. PICK new : new = [e EXCEPT !.sent = sent, !.status = code, !.pc = pc]
    OBVIOUS
  <2>3. exchange' = new
    BY <1>2, <1>6, <2>1, <2>2, <2>5 DEF ResponseStarts
  <2>4. /\ new \in ExchangeStates /\ new.method = e.method /\ new.seen = e.seen /\ new.received = e.received
        /\ new.sent = sent /\ new.status = code /\ new.pc = pc
    BY <1>6, <2>2 DEF ChainOK, ExchangeStates
  <2> QED
    BY <1>6, <2>3, <2>4, <2>5 DEF ChainOK
<1>7. ASSUME NEW new, new = [e EXCEPT !.pc = "over"], ChainOK(e), e.sent # <<>>
      PROVE  ChainOK(new)
  <2>1. /\ new \in ExchangeStates /\ new.method = e.method /\ new.seen = e.seen
        /\ new.sent = e.sent /\ new.status = e.status /\ new.pc = "over"
    BY <1>7 DEF ChainOK, ExchangeStates
  <2> QED
    BY <1>7, <2>1 DEF ChainOK
<1>8. PICK ok \in Statuses, bad \in Statuses, large \in Statuses, error \in Statuses :
          ok = 200 /\ bad = 400 /\ large = 413 /\ error = 500
  BY DEF Statuses
<1>9. CASE BodyTooLarge
  <2>1. ChainOK(e) /\ e.pc = "raised"
    BY <1>2, <1>3, <1>9 DEF BodyTooLarge
  <2>2. e.sent = <<>> => ResponseStarts(large, "over")
    BY <1>2, <1>8, <1>9 DEF BodyTooLarge
  <2>3. e.sent # <<>> => exchange' = [e EXCEPT !.pc = "over"]
    BY <1>2, <1>9 DEF BodyTooLarge
  <2> QED
    BY <1>6, <1>7, <2>1, <2>2, <2>3
<1>10. CASE ParserAnswers
  BY <1>2, <1>3, <1>6, <1>8, <1>10 DEF ParserAnswers
<1>11. CASE AppAnswers
  BY <1>2, <1>3, <1>6, <1>8, <1>11 DEF AppAnswers
<1>12. CASE AppEnds
  BY <1>2, <1>3, <1>7, <1>12 DEF AppEnds
<1>13. CASE AppFails
  <2>1. ChainOK(e) /\ e.pc = "app"
    BY <1>2, <1>3, <1>13 DEF AppFails
  <2>2. PICK sent : sent = IF e.sent = <<>> THEN <<error>> ELSE e.sent
    OBVIOUS
  <2>3. PICK new : new = [e EXCEPT !.pc = "over", !.sent = sent]
    OBVIOUS
  <2>4. exchange' = new
    BY <1>2, <1>8, <1>13, <2>2, <2>3 DEF AppFails
  <2>5. sent = <<e.status>> /\ sent \in Seq(Statuses)
    <3>1. <<error>> \in Seq(Statuses) /\ e.sent \in Seq(Statuses)
      BY <2>1 DEF ChainOK, ExchangeStates
    <3> QED
      BY <1>8, <2>1, <2>2, <3>1 DEF ChainOK
  <2>6. /\ new \in ExchangeStates /\ new.method = e.method /\ new.seen = e.seen
        /\ new.sent = sent /\ new.status = e.status /\ new.pc = "over"
    BY <2>1, <2>3, <2>5 DEF ChainOK, ExchangeStates
  <2> QED
    BY <2>1, <2>4, <2>5, <2>6 DEF ChainOK
<1> QED
  BY <1>4, <1>5, <1>9, <1>10, <1>11, <1>12, <1>13 DEF RequestChainNext

LEMMA ChainGood == ChainInv => AnsweredOnceWithinTheCap /\ RequestChainTypeOK
<1> SUFFICES ASSUME ChainOK(exchange), exchange # NoExchange
             PROVE  AnsweredOnceWithinTheCap /\ RequestChainTypeOK
  BY DEF ChainInv, AnsweredOnceWithinTheCap, RequestChainTypeOK
<1>3. exchange.sent \in Seq(Statuses) /\ Len(exchange.sent) <= 1
  <2>1. exchange.sent \in Seq(Statuses) /\ (exchange.sent = <<exchange.status>> \/ exchange.sent = <<>>)
    BY DEF ChainOK, ExchangeStates
  <2>2. CASE exchange.sent = <<exchange.status>>
    BY <2>1, <2>2
  <2>3. CASE exchange.sent = <<>>
    BY <2>1, <2>3
  <2> QED
    BY <2>1, <2>2, <2>3
<1>4. AnsweredOnceWithinTheCap
  BY <1>3 DEF ChainOK, AnsweredOnceWithinTheCap, Capped
<1>5. RequestChainTypeOK
  BY <1>3 DEF ChainOK, ExchangeStates, RequestChainTypeOK
<1> QED
  BY <1>4, <1>5
-----------------------------------------------------------------------------
(* What a tick earns, and what an identity that was told to wait will have *)
(* earned when it may come back.                                           *)
LEMMA EarnsItsWait ==
    ASSUME NEW x \in Nat, NEW p \in Nat \ {0}
    PROVE  x * p \in Nat /\ x * p >= x
<1>1. PICK k \in Nat : p = k + 1
  <2>1. p - 1 \in Nat /\ p = (p - 1) + 1
    OBVIOUS
  <2> QED
    BY <2>1
<1>2. x * k \in Nat
  OBVIOUS
<1>3. x * p = x * k + x
  BY <1>1
<1> QED
  BY <1>2, <1>3

LEMMA RoundsUp ==
    ASSUME NEW missing \in Nat \ {0}, NEW p \in Nat \ {0}
    PROVE  LET w == (missing + p - 1) \div p IN w \in Nat \ {0} /\ w * p >= missing /\ w <= missing
<1>1. PICK w \in Int, r \in 0..(p - 1) : missing + p - 1 = p * w + r /\ (missing + p - 1) \div p = w
  <2>1. missing + p - 1 \in Int
    OBVIOUS
  <2>2. PICK a \in Int : a = missing + p - 1
    BY <2>1
  <2>3. a \div p \in Int /\ a - p * (a \div p) \in 0..(p - 1)
    OBVIOUS
  <2> QED
    BY <2>2, <2>3
<1>2. p * w >= missing
  BY <1>1
<1>3. w >= 1
  <2>1. CASE w <= 0
    <3>1. PICK n \in Nat : w = 0 - n
      <4>1. 0 - w \in Nat /\ w = 0 - (0 - w)
        BY <2>1
      <4> QED
        BY <4>1
    <3>2. p * n \in Nat /\ p * w = 0 - p * n
      BY <3>1
    <3> QED
      BY <1>2, <3>2
  <2> QED
    BY <2>1
<1>4. w <= missing
  <2>1. CASE w >= missing + 1
    <3>1. PICK n \in Nat : w = missing + 1 + n
      <4>1. w - missing - 1 \in Nat /\ w = missing + 1 + (w - missing - 1)
        BY <2>1
      <4> QED
        BY <4>1
    <3>2. p * w = p * missing + p + p * n /\ p * n \in Nat /\ p * missing >= missing
      BY <3>1, EarnsItsWait
    <3> QED
      BY <1>1, <3>2
  <2> QED
    BY <2>1
<1> QED
  BY <1>1, <1>2, <1>3, <1>4

Buckets == [tokens : Nat, age : Nat]
BucketOK(b, i) == b # NoBucket => b.tokens <= PerMinute(i) * Minute /\ b.age <= Ttl + 1
WaitHolds(b, i, wait) ==
    wait # NotTold /\ b # NoBucket => b.tokens + (b.age + wait) * PerMinute(i) >= Minute
LimitInv ==
    /\ buckets \in [Identities -> Buckets] /\ told \in [Identities -> 0..NotTold]
    /\ \A i \in Identities : BucketOK(buckets[i], i) /\ WaitHolds(buckets[i], i, told[i])

LEMMA LimitConstants ==
    /\ Minute \in Nat \ {0} /\ Ttl \in Nat /\ Ttl >= Minute /\ NotTold = Minute + 1
    /\ NoBucket \in Buckets /\ NoBucket.tokens = 0 /\ NoBucket.age = Ttl + 2
    /\ \A i : PerMinute(i) \in Nat \ {0}
    /\ \A i : PerMinute(i) * Minute \in Nat /\ PerMinute(i) * Minute >= Minute
<1>1. /\ Minute \in Nat \ {0} /\ Ttl \in Nat /\ Ttl >= Minute
      /\ PerCredential \in Nat \ {0} /\ PerAddress \in Nat \ {0}
  BY RequestLimitsAssumption
<1>2. NoBucket \in Buckets /\ NoBucket.tokens = 0 /\ NoBucket.age = Ttl + 2 /\ NotTold = Minute + 1
  BY <1>1 DEF NoBucket, Buckets, NotTold
<1>3. \A i : PerMinute(i) \in Nat \ {0}
  BY <1>1 DEF PerMinute
<1>4. ASSUME NEW i PROVE PerMinute(i) * Minute \in Nat /\ PerMinute(i) * Minute >= Minute
  <2>1. PICK p \in Nat \ {0} : p = PerMinute(i)
    BY <1>3
  <2>2. Minute * p \in Nat /\ Minute * p >= Minute /\ p * Minute = Minute * p
    BY <1>1, EarnsItsWait
  <2> QED
    BY <2>1, <2>2
<1> QED
  BY <1>1, <1>2, <1>3, <1>4

LEMMA LimitStart == LimitInit => LimitInv
<1> SUFFICES ASSUME LimitInit
             PROVE  LimitInv
  OBVIOUS
<1>1. NotTold \in 0..NotTold
  BY LimitConstants
<1> QED
  BY <1>1, LimitConstants DEF LimitInit, LimitInv, BucketOK, WaitHolds

(* A bucket brought up to date: full, or with what every tick earned.      *)
LEMMA RefilledIs ==
    ASSUME NEW i, NEW b \in Buckets, BucketOK(b, i), b # NoBucket
    PROVE  /\ Refilled(b, i) \in Buckets /\ Refilled(b, i).age = 0 /\ Refilled(b, i) # NoBucket
           /\ Refilled(b, i).tokens <= PerMinute(i) * Minute
           /\ Refilled(b, i).tokens < Minute => Refilled(b, i).tokens = b.tokens + b.age * PerMinute(i)
           /\ b.tokens + b.age * PerMinute(i) >= Minute => Refilled(b, i).tokens >= Minute
<1>1. PICK p \in Nat \ {0}, full \in Nat : p = PerMinute(i) /\ full = PerMinute(i) * Minute
  BY LimitConstants
<1>2. PICK x \in Nat, y \in Nat : x = b.tokens /\ y = b.age
  BY DEF Buckets
<1>3. PICK earned \in Nat : earned = x + y * p
  <2>1. x + y * p \in Nat
    OBVIOUS
  <2> QED
    BY <2>1
<1>4. PICK n \in Nat : n = Min({earned, full})
  BY MinOfTwo
<1>5. n = IF earned <= full THEN earned ELSE full
  BY <1>4, MinOfTwo
<1>6. Refilled(b, i) = [tokens |-> n, age |-> 0]
  BY <1>1, <1>2, <1>3, <1>4 DEF Refilled
<1>7. Refilled(b, i) \in Buckets /\ Refilled(b, i).age = 0 /\ Refilled(b, i).tokens = n
  BY <1>6 DEF Buckets
<1>8. full >= Minute /\ Minute \in Nat /\ Ttl + 2 # 0
  BY <1>1, LimitConstants
<1>9. Refilled(b, i) # NoBucket
  BY <1>7, <1>8, LimitConstants
<1> QED
  BY <1>1, <1>2, <1>3, <1>5, <1>7, <1>8, <1>9

(* The bucket a request is judged by holds what was earned.                *)
LEMMA BucketAtIs ==
    ASSUME LimitInv, NEW i \in Identities
    PROVE  /\ BucketAt(i) \in Buckets /\ BucketAt(i).age = 0 /\ BucketAt(i) # NoBucket
           /\ BucketAt(i).tokens <= PerMinute(i) * Minute
           /\ told[i] # NotTold => BucketAt(i).tokens + told[i] * PerMinute(i) >= Minute
<1>1. buckets[i] \in Buckets /\ BucketOK(buckets[i], i) /\ WaitHolds(buckets[i], i, told[i])
      /\ told[i] \in 0..NotTold
  BY DEF LimitInv
<1>2. PICK p \in Nat \ {0}, full \in Nat : p = PerMinute(i) /\ full = PerMinute(i) * Minute /\ full >= Minute
  BY LimitConstants
<1>3. Minute \in Nat /\ Ttl \in Nat
  BY LimitConstants
<1>4. PICK t \in Nat : t = told[i]
  BY <1>1, <1>3 DEF NotTold
<1>5. t * p \in Nat
  OBVIOUS
<1>6. CASE i \in Tracked
  <2>1. buckets[i] # NoBucket /\ BucketAt(i) = Refilled(buckets[i], i)
    BY <1>6 DEF Tracked, BucketAt
  <2>2. PICK x \in Nat, y \in Nat : x = buckets[i].tokens /\ y = buckets[i].age
    BY <1>1 DEF Buckets
  <2>3. PICK n \in Nat : n = BucketAt(i).tokens
    BY <1>1, <2>1, RefilledIs DEF Buckets
  <2>4. n < Minute => n = x + y * p
    BY <1>1, <1>2, <2>1, <2>2, <2>3, RefilledIs
  <2>5. t # NotTold => x + (y + t) * p >= Minute
    BY <1>1, <1>2, <1>4, <2>1, <2>2 DEF WaitHolds
  <2>6. (y + t) * p = y * p + t * p
    OBVIOUS
  <2>7. t # NotTold => n + t * p >= Minute
    <3>1. y * p \in Nat
      OBVIOUS
    <3> QED
      BY <1>3, <1>5, <2>4, <2>5, <2>6, <3>1
  <2> QED
    BY <1>1, <1>2, <1>4, <2>1, <2>3, <2>7, RefilledIs
<1>7. CASE i \notin Tracked
  <2>1. BucketAt(i) = [tokens |-> full, age |-> 0]
    BY <1>2, <1>7 DEF BucketAt
  <2>2. BucketAt(i) \in Buckets /\ BucketAt(i).age = 0 /\ BucketAt(i).tokens = full
    BY <2>1 DEF Buckets
  <2>3. Ttl + 2 # 0 /\ full + t * p >= Minute /\ full <= full
    BY <1>2, <1>3, <1>5
  <2> QED
    BY <1>2, <1>4, <2>2, <2>3, LimitConstants
<1> QED
  BY <1>6, <1>7

LEMMA WaitForIs ==
    ASSUME NEW i, NEW tokens \in Nat, tokens < Minute
    PROVE  /\ WaitFor(tokens, i) \in 1..Minute
           /\ tokens + WaitFor(tokens, i) * PerMinute(i) >= Minute
<1>1. PICK p \in Nat \ {0} : p = PerMinute(i)
  BY LimitConstants
<1>2. PICK missing \in Nat \ {0} : missing = Minute - tokens
  <2>1. Minute - tokens \in Nat \ {0}
    BY LimitConstants
  <2> QED
    BY <2>1
<1>3. PICK w : w = (missing + p - 1) \div p
  OBVIOUS
<1>4. w \in Nat \ {0} /\ w * p >= missing /\ w <= missing
  BY <1>3, RoundsUp
<1>5. Max({1, w}) = w
  BY <1>4, MaxOfTwo
<1>6. WaitFor(tokens, i) = w
  BY <1>1, <1>2, <1>3, <1>5 DEF WaitFor
<1>7. w \in 1..Minute /\ tokens + w * p >= Minute
  <2>1. Minute \in Nat /\ missing + tokens = Minute /\ w * p \in Nat
    BY <1>2, <1>4, LimitConstants
  <2> QED
    BY <1>4, <2>1
<1> QED
  BY <1>1, <1>6, <1>7

(* A request is judged: a refusal takes nothing, and tells how long to wait.*)
LEMMA CheckKeeps ==
    ASSUME LimitInv, NEW c, NEW a, NEW method, NEW open, IdentityOf(c, a) \in Identities,
           CheckRequest(c, a, method, open)
    PROVE  LimitInv'
<1>1. PICK i \in Identities : i = IdentityOf(c, a)
  OBVIOUS
<1>2. PICK bucket \in Buckets : bucket = BucketAt(i)
  BY BucketAtIs
<1>8. /\ bucket.age = 0 /\ bucket.tokens \in Nat /\ bucket.tokens <= PerMinute(i) * Minute /\ bucket # NoBucket
      /\ told[i] # NotTold => bucket.tokens + told[i] * PerMinute(i) >= Minute
      /\ told[i] \in 0..NotTold
  BY <1>2, BucketAtIs DEF Buckets, LimitInv
<1>9. PICK p \in Nat \ {0}, full \in Nat, n \in Nat, t \in 0..NotTold :
          p = PerMinute(i) /\ full = PerMinute(i) * Minute /\ n = bucket.tokens /\ t = told[i]
  BY <1>8, LimitConstants
<1>3. PICK gone : gone = IF i \in Tracked THEN {} ELSE Pruned
  OBVIOUS
<1>4. PICK spent : spent = [bucket EXCEPT !.tokens = n - Minute]
  OBVIOUS
<1>6. PICK wait : wait = IF n >= Minute THEN NotTold ELSE IF t = NotTold THEN WaitFor(n, i) ELSE t
  OBVIOUS
<1>7. /\ buckets' = [j \in Identities |->
             IF j = i THEN IF n >= Minute THEN spent ELSE bucket ELSE IF j \in gone THEN NoBucket ELSE buckets[j]]
      /\ told' = [told EXCEPT ![i] = wait]
  BY <1>1, <1>2, <1>3, <1>4, <1>6, <1>9 DEF CheckRequest
<1>10. Minute \in Nat \ {0} /\ Ttl \in Nat /\ NotTold = Minute + 1
  BY LimitConstants
<1>11. ASSUME NEW new, new = IF n >= Minute THEN spent ELSE bucket
       PROVE  new \in Buckets /\ BucketOK(new, i) /\ WaitHolds(new, i, wait) /\ wait \in 0..NotTold
  <2>1. CASE n >= Minute
    <3>1. PICK m \in Nat : m = n - Minute
      <4>1. n - Minute \in Nat
        BY <1>10, <2>1
      <4> QED
        BY <4>1
    <3>2. spent = [bucket EXCEPT !.tokens = m]
      BY <1>4, <3>1
    <3>3. new \in Buckets /\ new.tokens = m /\ new.age = 0
      BY <1>8, <1>11, <2>1, <3>2 DEF Buckets
    <3>4. m <= full /\ 0 <= Ttl + 1 /\ NotTold \in 0..NotTold
      BY <1>8, <1>9, <1>10, <3>1
    <3> QED
      BY <1>6, <1>9, <2>1, <3>3, <3>4 DEF BucketOK, WaitHolds
  <2>2. CASE ~(n >= Minute)
    <3>1. n < Minute /\ 0 <= Ttl + 1 /\ n <= full
      BY <1>8, <1>9, <1>10, <2>2
    <3>2. PICK w \in 0..NotTold : w = wait /\ n + w * p >= Minute
      <4>1. CASE t = NotTold
        <5>1. WaitFor(n, i) \in 1..Minute /\ n + WaitFor(n, i) * p >= Minute
          BY <1>9, <3>1, WaitForIs
        <5>2. WaitFor(n, i) \in 0..NotTold
          BY <1>10, <5>1
        <5> QED
          BY <1>6, <1>9, <2>2, <4>1, <5>1, <5>2
      <4>2. CASE t # NotTold
        BY <1>6, <1>8, <1>9, <2>2, <4>2
      <4> QED
        BY <4>1, <4>2
    <3>3. new = bucket /\ new.tokens = n /\ new.age = 0
      BY <1>8, <1>9, <1>11, <2>2
    <3>4. (0 + w) * p = w * p
      BY <1>10
    <3>5. WaitHolds(new, i, wait)
      BY <1>9, <3>2, <3>3, <3>4 DEF WaitHolds
    <3> QED
      BY <1>9, <3>1, <3>2, <3>3, <3>5 DEF BucketOK
  <2> QED
    BY <2>1, <2>2
<1>12. ASSUME NEW j \in Identities
       PROVE  /\ buckets'[j] \in Buckets /\ BucketOK(buckets'[j], j) /\ WaitHolds(buckets'[j], j, told'[j])
              /\ told'[j] \in 0..NotTold
  <2>1. CASE j = i
    <3>1. buckets'[j] = (IF n >= Minute THEN spent ELSE bucket) /\ told'[j] = wait
      BY <1>7, <2>1 DEF LimitInv
    <3> QED
      BY <1>11, <2>1, <3>1
  <2>2. CASE j # i
    <3>1. buckets'[j] \in {NoBucket, buckets[j]} /\ told'[j] = told[j]
      BY <1>7, <2>2 DEF LimitInv
    <3> QED
      BY <3>1, LimitConstants DEF LimitInv, BucketOK, WaitHolds
  <2> QED
    BY <2>1, <2>2
<1>13. buckets' \in [Identities -> Buckets]
  <2>1. buckets' = [j \in Identities |-> buckets'[j]]
    BY <1>7
  <2> QED
    BY <1>12, <2>1
<1>14. told' \in [Identities -> 0..NotTold]
  <2>1. told' = [j \in Identities |-> told'[j]]
    BY <1>7 DEF LimitInv
  <2> QED
    BY <1>12, <2>1
<1> QED
  BY <1>12, <1>13, <1>14 DEF LimitInv

(* A tick earns what the wait is shorter by.                               *)
LEMMA LimitTickKeeps == LimitInv /\ LimitTick => LimitInv'
<1> SUFFICES ASSUME LimitInv, LimitTick
             PROVE  LimitInv'
  OBVIOUS
<1>1. ASSUME NEW i \in Identities
      PROVE  /\ buckets'[i] \in Buckets /\ BucketOK(buckets'[i], i) /\ WaitHolds(buckets'[i], i, told'[i])
             /\ told'[i] \in 0..NotTold
  <2>1. buckets[i] \in Buckets /\ told[i] \in 0..NotTold /\ BucketOK(buckets[i], i) /\ WaitHolds(buckets[i], i, told[i])
    BY DEF LimitInv
  <2>2. Minute \in Nat \ {0} /\ Ttl \in Nat /\ Ttl >= Minute /\ NotTold = Minute + 1
    BY LimitConstants
  <2>3. PICK p \in Nat \ {0}, full \in Nat, t \in 0..NotTold : p = PerMinute(i) /\ full = PerMinute(i) * Minute /\ t = told[i]
    BY <2>1, LimitConstants
  <2>4. PICK u : u = IF t \in 1..Minute THEN t - 1 ELSE t
    OBVIOUS
  <2>5. u \in 0..NotTold /\ u \in Nat /\ (u # NotTold => t # NotTold /\ (u + 1 = t \/ (u = 0 /\ t = 0)))
    <3>1. CASE t \in 1..Minute
      <4>1. t - 1 \in 0..NotTold /\ t - 1 \in Nat /\ (t - 1) + 1 = t /\ t # NotTold
        BY <2>2, <3>1
      <4>2. u = t - 1
        BY <2>4, <3>1
      <4> QED
        BY <4>1, <4>2
    <3>2. CASE t \notin 1..Minute
      <4>1. t = 0 \/ t = NotTold
        BY <2>2, <3>2
      <4> QED
        BY <2>2, <2>4, <3>2, <4>1
    <3> QED
      BY <3>1, <3>2
  <2>6. told'[i] = u
    BY <2>3, <2>4 DEF LimitTick
  <2>7. CASE i \notin Tracked
    BY <2>1, <2>5, <2>6, <2>7, LimitConstants DEF LimitTick, BucketOK, WaitHolds
  <2>8. CASE i \in Tracked
    <3>1. buckets[i] # NoBucket
      BY <2>8 DEF Tracked
    <3>2. PICK x \in Nat, y \in Nat : x = buckets[i].tokens /\ y = buckets[i].age
      BY <2>1 DEF Buckets
    <3>3. x <= full /\ y <= Ttl + 1 /\ (t # NotTold => x + (y + t) * p >= Minute)
      BY <2>1, <2>3, <3>1, <3>2 DEF BucketOK, WaitHolds
    <3>4. PICK z \in Nat : z = (IF y + 1 <= Ttl + 1 THEN y + 1 ELSE Ttl + 1) /\ z = Min({y + 1, Ttl + 1})
      <4>1. y + 1 \in Int /\ Ttl + 1 \in Int
        BY <2>2
      <4>2. Min({y + 1, Ttl + 1}) = IF y + 1 <= Ttl + 1 THEN y + 1 ELSE Ttl + 1
        BY <4>1, MinOfTwo
      <4> QED
        BY <2>2, <4>2
    <3>5. PICK new : new = [buckets[i] EXCEPT !.age = z]
      OBVIOUS
    <3>6. buckets'[i] = new
      BY <2>8, <3>2, <3>4, <3>5 DEF LimitTick
    <3>7. new \in Buckets /\ new.tokens = x /\ new.age = z
      BY <2>1, <3>2, <3>5 DEF Buckets
    <3>8. z <= Ttl + 1
      BY <2>2, <3>4
    <3>9. u # NotTold => x + (z + u) * p >= Minute
      <4>1. CASE z = Ttl + 1
        <5>1. z + u \in Nat /\ z + u >= Minute
          BY <2>2, <2>5, <4>1
        <5>2. (z + u) * p \in Nat /\ (z + u) * p >= z + u
          BY <5>1, EarnsItsWait
        <5> QED
          BY <2>2, <5>1, <5>2
      <4>2. CASE z = y + 1 /\ u + 1 = t
        <5>1. z + u = y + t
          BY <2>5, <4>2
        <5> QED
          BY <2>5, <3>3, <5>1
      <4>3. CASE z = y + 1 /\ u = 0 /\ t = 0
        <5>1. (z + u) * p = (y + t) * p + p
          BY <4>3
        <5>2. (y + t) * p \in Nat
          BY <4>3
        <5> QED
          BY <2>2, <2>5, <3>3, <5>1, <5>2
      <4> QED
        BY <2>5, <3>4, <4>1, <4>2, <4>3
    <3> QED
      BY <2>3, <2>5, <2>6, <3>3, <3>6, <3>7, <3>8, <3>9 DEF BucketOK, WaitHolds
  <2> QED
    BY <2>7, <2>8
<1>2. buckets' \in [Identities -> Buckets] /\ told' \in [Identities -> 0..NotTold]
  <2>1. buckets' = [i \in Identities |-> buckets'[i]] /\ told' = [i \in Identities |-> told'[i]]
    BY DEF LimitTick
  <2> QED
    BY <1>1, <2>1
<1> QED
  BY <1>1, <1>2 DEF LimitInv

LEMMA LimitStep == LimitInv /\ [LimitNext]_limitVars => LimitInv'
<1> SUFFICES ASSUME LimitInv, [LimitNext]_limitVars
             PROVE  LimitInv'
  OBVIOUS
<1>1. CASE UNCHANGED limitVars
  BY <1>1 DEF limitVars, LimitInv
<1>2. ASSUME NEW c \in Credentials \cup {"none"}, NEW a \in Addresses, NEW method \in {"read", "write"},
             CheckRequest(c, a, method, c = "none")
      PROVE  LimitInv'
  <2>1. IdentityOf(c, a) \in Identities
    BY DEF IdentityOf, Identities
  <2> QED
    BY <1>2, <2>1, CheckKeeps
<1> QED
  BY <1>1, <1>2, LimitTickKeeps DEF LimitNext

LEMMA LimitGood == LimitInv => RetryAfterIsKept
<1> SUFFICES ASSUME LimitInv, NEW i \in Identities, told[i] = 0
             PROVE  BucketAt(i).tokens >= Minute
  BY DEF RetryAfterIsKept
<1>1. told[i] # NotTold /\ Minute \in Nat
  BY LimitConstants
<1>2. BucketAt(i).tokens \in Nat /\ BucketAt(i).tokens + told[i] * PerMinute(i) >= Minute
  BY <1>1, BucketAtIs DEF Buckets
<1>3. PICK p \in Nat, n \in Nat : p = PerMinute(i) /\ n = BucketAt(i).tokens
  BY <1>2, LimitConstants
<1>4. 0 * p = 0
  OBVIOUS
<1> QED
  BY <1>1, <1>2, <1>3, <1>4
-----------------------------------------------------------------------------
(* A split as it was made or edited.                                       *)
SplitFields == {"is", "policy", "inTime", "disjoint", "train", "valid", "test", "dropped"}
IsMade(s) ==
    /\ SplitFields \subseteq DOMAIN s
    /\ s.is = "split" /\ s.inTime \in BOOLEAN /\ s.disjoint \in BOOLEAN
    /\ s.train \subseteq CorpusWindows /\ s.valid \subseteq CorpusWindows /\ s.test \subseteq CorpusWindows

(* What a policy's own split keeps: the folds are apart, none is empty and *)
(* what is in none is counted; and what the policy claims.                 *)
KeepsItsPolicy(s) ==
    /\ s.train # {} /\ s.valid # {} /\ s.test # {}
    /\ s.train \cap s.valid = {} /\ s.train \cap s.test = {} /\ s.valid \cap s.test = {}
    /\ Cardinality(s.train) + Cardinality(s.valid) + Cardinality(s.test) + s.dropped = Len(corpus)
    /\ s.inTime <=> s.policy = "time"
    /\ s.inTime => StartsBefore(s.train \cup s.valid, s.test) /\ StartsBefore(s.train, s.valid)
    /\ s.disjoint => ~ShareKeys(s.train, s.valid) /\ ~ShareKeys(s.train, s.test) /\ ~ShareKeys(s.valid, s.test)
    /\ s.policy = "entity" => KeysOf(s.test) \cap AttackKeys = s.holdout
    /\ s.policy = "family" =>
           /\ \A i \in s.train \cup s.valid : corpus[i].families \cap s.holdout = {}
           /\ ~ShareKeys(s.train, {i \in s.test : corpus[i].families = {}})

(* Every window is collected with a start and an entity, a split made by a *)
(* policy keeps it, and what blocks is what an audit of it finds.          *)
SplitInv ==
    /\ corpus \in Seq(SplitWindows)
    /\ split.is \in {"unsplit", "refused", "split"} /\ (split.is = "unsplit" => split = Unsplit)
    /\ split.is = "split" => IsMade(split) /\ (split.policy # "hand" => KeepsItsPolicy(split))
    /\ fitted \subseteq CorpusWindows
    /\ caller \in [fitOn : SUBSET SUBSET CorpusWindows, rows : BOOLEAN]
    /\ blocking # NotAudited =>
           split.is = "split" /\ blocking = {kind \in Found : ~Declared(kind)}

LEMMA CorpusIs ==
    ASSUME corpus \in Seq(SplitWindows)
    PROVE  /\ IsFiniteSet(CorpusWindows) /\ Cardinality(CorpusWindows) = Len(corpus) /\ Len(corpus) \in Nat
           /\ CorpusWindows = 1..Len(corpus)
           /\ \A i \in CorpusWindows : corpus[i] \in SplitWindows /\ corpus[i].start \in Int
<1>1. Len(corpus) \in Nat /\ CorpusWindows = 1..Len(corpus)
  BY DEF CorpusWindows
<1>2. \A i \in CorpusWindows : corpus[i] \in SplitWindows
  BY <1>1
<1>3. IsFiniteSet(1..Len(corpus)) /\ Cardinality(1..Len(corpus)) = Len(corpus)
  BY <1>1, FS_Interval, SMTT(40)
<1> QED
  BY <1>1, <1>2, <1>3, DataSplitsAssumption

LEMMA StartsAre ==
    ASSUME corpus \in Seq(SplitWindows), NEW ws, ws \subseteq CorpusWindows
    PROVE  /\ IsFiniteSet(Starts(ws)) /\ Starts(ws) \subseteq Int
           /\ ws # {} => /\ Starts(ws) # {}
                         /\ \A i \in ws : Min(Starts(ws)) <= corpus[i].start /\ corpus[i].start <= Max(Starts(ws))
                         /\ \E i \in ws : corpus[i].start = Min(Starts(ws))
                         /\ \E i \in ws : corpus[i].start = Max(Starts(ws))
<1>1. IsFiniteSet(ws)
  BY CorpusIs, FS_Subset
<1>2. IsFiniteSet(Starts(ws))
  <2> DEFINE f == [i \in ws |-> corpus[i].start]
  <2>1. f \in Surjection(ws, Starts(ws))
    BY DEF Starts, Surjection
  <2> QED
    BY <1>1, <2>1, FS_Surjection
<1>3. Starts(ws) \subseteq Int
  BY CorpusIs DEF Starts
<1>4. ASSUME ws # {} PROVE Starts(ws) # {}
  BY <1>4 DEF Starts
<1>5. ASSUME ws # {}
      PROVE  /\ \A i \in ws : Min(Starts(ws)) <= corpus[i].start /\ corpus[i].start <= Max(Starts(ws))
             /\ \E i \in ws : corpus[i].start = Min(Starts(ws))
             /\ \E i \in ws : corpus[i].start = Max(Starts(ws))
  <2>1. /\ Min(Starts(ws)) \in Starts(ws) /\ \A x \in Starts(ws) : Min(Starts(ws)) <= x
        /\ Max(Starts(ws)) \in Starts(ws) /\ \A x \in Starts(ws) : x <= Max(Starts(ws))
    BY <1>2, <1>3, <1>4, <1>5, FiniteBounds
  <2> QED
    BY <2>1, Zenon DEF Starts
<1> QED
  BY <1>2, <1>3, <1>4, <1>5

(* The cutoff of a fraction is one of the starts there are.                *)
LEMMA CutoffIsAStart ==
    ASSUME corpus \in Seq(SplitWindows), NEW ws, ws \subseteq CorpusWindows, ws # {}, NEW tenths \in 1..9
    PROVE  FoldCutoff(ws, tenths) \in Int
<1> DEFINE n == Cardinality(ws)
           k == CutIndex(n, tenths)
           Upto(s) == {i \in ws : corpus[i].start <= s}
           Below(s) == {i \in ws : corpus[i].start < s}
           T == {s \in Starts(ws) : Cardinality(Upto(s)) > k}
<1>1. IsFiniteSet(ws) /\ n \in Nat \ {0}
  BY CorpusIs, FS_Subset, FS_CardinalityType, FS_EmptySet
<1>2. k \in Int /\ 0 <= k /\ k < n
  <2> DEFINE d == (n * (10 - tenths)) \div 10
             m == Max({d, 1})
  <2>1. d \in Int
    BY <1>1
  <2>2. k = Min({m, n - 1})
    BY DEF CutIndex
  <2> HIDE DEF d, n, k
  <2>3. m \in Int /\ m >= 1
    BY <2>1, MaxOfTwo
  <2> HIDE DEF m
  <2> QED
    BY <1>1, <2>2, <2>3, MinOfTwo
<1>3. \A s : /\ Upto(s) \subseteq ws /\ IsFiniteSet(Upto(s)) /\ Cardinality(Upto(s)) \in Nat
             /\ Below(s) \subseteq ws /\ IsFiniteSet(Below(s)) /\ Cardinality(Below(s)) \in Nat
  <2> SUFFICES ASSUME NEW s PROVE /\ IsFiniteSet(Upto(s)) /\ IsFiniteSet(Below(s))
                                  /\ Cardinality(Upto(s)) \in Nat /\ Cardinality(Below(s)) \in Nat
    OBVIOUS
  <2>1. Upto(s) \subseteq ws /\ Below(s) \subseteq ws
    OBVIOUS
  <2> HIDE DEF Upto, Below
  <2> QED
    BY <1>1, <2>1, FS_Subset, FS_CardinalityType
<1>4. T \subseteq Int /\ IsFiniteSet(T)
  BY StartsAre, FS_Subset
<1>5. T # {}
  <2>1. PICK i \in ws : corpus[i].start = Max(Starts(ws))
    BY StartsAre
  <2>2. Upto(corpus[i].start) = ws
    BY <2>1, StartsAre
  <2>3. corpus[i].start \in Starts(ws)
    BY DEF Starts
  <2> HIDE DEF Upto
  <2> QED
    BY <1>1, <1>2, <2>2, <2>3
<1> DEFINE s == Min(T)
<1>6. s \in T /\ \A x \in T : s <= x
  <2> HIDE DEF T
  <2> QED
    BY <1>4, <1>5, FiniteBounds
<1>7. Cardinality(Below(s)) <= k
  <2>1. CASE Below(s) = {}
    <3> HIDE DEF Below
    <3>3. Cardinality(Below(s)) = 0
      BY <2>1, FS_EmptySet
    <3> HIDE DEF k, n
    <3> QED
      BY <1>2, <3>3
  <2>2. CASE Below(s) # {}
    <3> DEFINE x == Max(Starts(Below(s)))
    <3>0. Below(s) \subseteq CorpusWindows
      OBVIOUS
    <3>1. PICK i \in Below(s) : corpus[i].start = x
      <4> HIDE DEF Below, s
      <4> QED
        BY <2>2, <3>0, StartsAre
    <3>2. \A j \in Below(s) : corpus[j].start <= x
      <4> HIDE DEF Below, s
      <4> QED
        BY <2>2, <3>0, StartsAre
    <3>3. x \in Int /\ x < s /\ x \in Starts(ws) /\ s \in Int
      <4> HIDE DEF x
      <4>1. i \in ws /\ corpus[i].start < s
        BY <3>1
      <4> HIDE DEF Below, s, T
      <4>2. corpus[i].start \in Int
        BY <4>1, CorpusIs
      <4> QED
        BY <1>4, <1>6, <3>1, <4>1, <4>2 DEF Starts
    <3>4. Upto(x) = Below(s)
      <4> HIDE DEF x, s
      <4>1. ASSUME NEW j \in ws PROVE corpus[j].start <= x <=> corpus[j].start < s
        <5>1. corpus[j].start \in Int
          BY CorpusIs
        <5> QED
          BY <3>2, <3>3, <5>1
      <4> QED
        BY <4>1
    <3>5. ~(Cardinality(Upto(x)) > k)
      <4>1. x \notin T
        <5> HIDE DEF x, T, s
        <5> QED
          BY <1>4, <1>6, <3>3
      <4> HIDE DEF x, s, k, Upto
      <4> QED
        BY <3>3, <4>1
    <3> HIDE DEF Upto, Below, k, x, s
    <3> QED
      BY <1>2, <1>3, <3>4, <3>5
  <2> QED
    BY <2>1, <2>2
<1>8. s \in {corpus[i].start : i \in ws} /\ Cardinality(Upto(s)) > k
  <2> HIDE DEF s
  <2> QED
    BY <1>6 DEF Starts
<1>9. \E x \in {corpus[i].start : i \in ws} :
          /\ Cardinality({i \in ws : corpus[i].start < x}) <= CutIndex(Cardinality(ws), tenths)
          /\ Cardinality({i \in ws : corpus[i].start <= x}) > CutIndex(Cardinality(ws), tenths)
  <2> HIDE DEF s, T
  <2>1. s \in {corpus[i].start : i \in ws}
    BY <1>8
  <2>2. /\ Cardinality({i \in ws : corpus[i].start < s}) <= CutIndex(Cardinality(ws), tenths)
        /\ Cardinality({i \in ws : corpus[i].start <= s}) > CutIndex(Cardinality(ws), tenths)
    BY <1>7, <1>8
  <2> QED
    BY <2>1, <2>2
<1>10. FoldCutoff(ws, tenths) \in {corpus[i].start : i \in ws}
  BY <1>9, Zenon DEF FoldCutoff
<1> QED
  BY <1>10, CorpusIs

(* A timeline is cut in two: what is early starts before what is not.      *)
LEMMA EarlyIs ==
    ASSUME corpus \in Seq(SplitWindows), NEW ws, ws \subseteq CorpusWindows, NEW tenths \in 1..9, NEW d \in BOOLEAN
    PROVE  /\ Early(ws, tenths) \subseteq ws /\ Late(ws, tenths, d) \subseteq ws \ Early(ws, tenths)
           /\ StartsBefore(Early(ws, tenths), ws \ Early(ws, tenths))
           /\ d => ~ShareKeys(Early(ws, tenths), Late(ws, tenths, d))
<1>1. Early(ws, tenths) \subseteq ws /\ Late(ws, tenths, d) \subseteq ws \ Early(ws, tenths)
  BY DEF Early, Late
<1>2. ASSUME NEW i \in Early(ws, tenths), NEW j \in ws \ Early(ws, tenths)
      PROVE  corpus[i].start < corpus[j].start
  <2>1. FoldCutoff(ws, tenths) \in Int
    BY <1>1, <1>2, CutoffIsAStart
  <2>2. corpus[i].start \in Int /\ corpus[j].start \in Int
    BY <1>1, <1>2, CorpusIs
  <2>3. corpus[i].start < FoldCutoff(ws, tenths) /\ ~(corpus[j].start < FoldCutoff(ws, tenths))
    BY <1>2 DEF Early
  <2> HIDE DEF FoldCutoff
  <2> QED
    BY <2>1, <2>2, <2>3
<1>3. ASSUME d PROVE ~ShareKeys(Early(ws, tenths), Late(ws, tenths, d))
  <2>1. \A i \in Late(ws, tenths, d) : corpus[i].key \notin KeysOf(Early(ws, tenths))
    BY <1>3 DEF Late
  <2> QED
    BY <2>1 DEF ShareKeys, KeysOf
<1> QED
  BY <1>1, <1>2, <1>3 DEF StartsBefore

(* A split that its policy does not refuse has its folds, and none empty.  *)
IsOf(s, p, t, d, h, train, valid, test, dropped) ==
    /\ IsMade(s) /\ train # {} /\ valid # {} /\ test # {}
    /\ s.policy = p /\ s.inTime = t /\ s.disjoint = d /\ s.holdout = h
    /\ s.train = train /\ s.valid = valid /\ s.test = test /\ s.dropped = dropped

LEMMA ClaimIs ==
    ASSUME NEW p, NEW t, t \in BOOLEAN, NEW d, d \in BOOLEAN, NEW h, NEW dropped, NEW train, NEW valid, NEW test,
           train \subseteq CorpusWindows, valid \subseteq CorpusWindows, test \subseteq CorpusWindows
    PROVE  \/ Claiming(p, t, d, h, Folds(train, valid, test, dropped)) = RefusedSplit
           \/ IsOf(Claiming(p, t, d, h, Folds(train, valid, test, dropped)), p, t, d, h, train, valid, test, dropped)
<1> DEFINE s == Claiming(p, t, d, h, Folds(train, valid, test, dropped))
           f == Folds(train, valid, test, dropped)
<1>1. CASE {} \in {train, valid, test}
  <2>1. f.is = "refused"
    BY <1>1 DEF Folds, RefusedSplit
  <2> QED
    BY <2>1 DEF Claiming
<1>2. CASE {} \notin {train, valid, test}
  <2>1. f = [is |-> "split", train |-> train, valid |-> valid, test |-> test, dropped |-> dropped]
    BY <1>2 DEF Folds
  <2>2. f.is # "refused" /\ f.train = train /\ f.valid = valid /\ f.test = test /\ f.dropped = dropped
    BY <2>1
  <2> HIDE DEF f
  <2>3. s = [is |-> "split", policy |-> p, inTime |-> t, disjoint |-> d, holdout |-> h,
             train |-> train, valid |-> valid, test |-> test, dropped |-> dropped]
    BY <2>2 DEF Claiming, f
  <2> QED
    BY <1>2, <2>3 DEF IsOf, IsMade, SplitFields
<1> QED
  BY <1>1, <1>2

LEMMA RefusedIs == RefusedSplit.is = "refused" /\ \A p, t, d, h : Claiming(p, t, d, h, RefusedSplit) = RefusedSplit
BY DEF RefusedSplit, Claiming

LEMMA TimeKeeps ==
    ASSUME corpus \in Seq(SplitWindows), corpus # <<>>, NEW d \in BOOLEAN,
           NEW s, s = Claiming("time", TRUE, d, {}, TemporalSplit(d))
    PROVE  s = RefusedSplit \/ (IsMade(s) /\ KeepsItsPolicy(s))
<1> DEFINE all == CorpusWindows
           before == Early(all, TestTenths)
           test == Late(all, TestTenths, d)
           train == Early(before, ValidTenths)
           valid == Late(before, ValidTenths, d)
           dropped == Dropped(all, TestTenths, d) + Dropped(before, ValidTenths, d)
<1>1. CASE {} \in {before, test}
  <2>1. TemporalSplit(d) = RefusedSplit
    BY <1>1 DEF TemporalSplit
  <2> QED
    BY <2>1, RefusedIs
<1>2. CASE {} \notin {before, test}
  <2>1. TemporalSplit(d) = Folds(train, valid, test, dropped)
    BY <1>2 DEF TemporalSplit
  <2>0. TestTenths \in 1..9 /\ ValidTenths \in 1..9
    BY DataSplitsAssumption
  <2>2. /\ before \subseteq all /\ test \subseteq all \ before
        /\ StartsBefore(before, all \ before) /\ (d => ~ShareKeys(before, test))
    <3> HIDE DEF before, test, all
    <3> QED
      BY <2>0, EarlyIs DEF before, test, all
  <2>3. /\ train \subseteq before /\ valid \subseteq before \ train
        /\ StartsBefore(train, before \ train) /\ (d => ~ShareKeys(train, valid))
    <3>1. before \subseteq CorpusWindows
      BY <2>2
    <3> HIDE DEF before, train, valid
    <3> QED
      BY <2>0, <3>1, EarlyIs DEF train, valid
  <2>4. dropped = (Cardinality(all) - Cardinality(before) - Cardinality(test))
                   + (Cardinality(before) - Cardinality(train) - Cardinality(valid))
    BY DEF Dropped
  <2> HIDE DEF before, test, train, valid, dropped
  <2>5. /\ train \cap valid = {} /\ train \cap test = {} /\ valid \cap test = {}
        /\ train \subseteq all /\ valid \subseteq all /\ test \subseteq all
    BY <2>2, <2>3
  <2>6. Cardinality(train) + Cardinality(valid) + Cardinality(test) + dropped = Len(corpus)
    <3>1. /\ Cardinality(train) \in Nat /\ Cardinality(valid) \in Nat /\ Cardinality(test) \in Nat
      BY <2>5, CorpusIs, ApartAddUp, ZenonT(40)
    <3>2. Cardinality(before) \in Nat
      BY <2>2, CorpusIs, FS_Subset, FS_CardinalityType
    <3>3. Cardinality(all) = Len(corpus) /\ Len(corpus) \in Nat
      BY CorpusIs
    <3> QED
      BY <2>4, <3>1, <3>2, <3>3, SMTT(40)
  <2>7. StartsBefore(train \cup valid, test) /\ StartsBefore(train, valid)
    BY <2>2, <2>3 DEF StartsBefore
  <2>8. d => ~ShareKeys(train, valid) /\ ~ShareKeys(train, test) /\ ~ShareKeys(valid, test)
    BY <2>2, <2>3 DEF ShareKeys, KeysOf
  <2>9. \/ s = RefusedSplit
        \/ /\ IsMade(s) /\ train # {} /\ valid # {} /\ test # {}
           /\ s.policy = "time" /\ s.inTime = TRUE /\ s.disjoint = d
           /\ s.train = train /\ s.valid = valid /\ s.test = test /\ s.dropped = dropped
    <3>1. s = Claiming("time", TRUE, d, {}, Folds(train, valid, test, dropped))
      BY <2>1
    <3>2. TRUE \in BOOLEAN
      OBVIOUS
    <3>4. s = RefusedSplit \/ IsOf(s, "time", TRUE, d, {}, train, valid, test, dropped)
      BY <2>5, <3>1, <3>2, ClaimIs
    <3> QED
      BY <3>4 DEF IsOf
  <2>10. "time" # "entity" /\ "time" # "family"
    OBVIOUS
  <2> QED
    BY <2>5, <2>6, <2>7, <2>8, <2>9, <2>10 DEF KeepsItsPolicy
<1> QED
  BY <1>1, <1>2

(* Windows that go by their entity's bucket: an entity's go to one fold.   *)
LEMMA BucketsApart ==
    ASSUME NEW ws, NEW vs
    PROVE  /\ \A f, g \in {"train", "valid", "test"} :
                  f # g => InFold(f, ws) \cap InFold(g, vs) = {} /\ ~ShareKeys(InFold(f, ws), InFold(g, vs))
           /\ ws = InFold("train", ws) \cup InFold("valid", ws) \cup InFold("test", ws)
           /\ \A f : InFold(f, ws) \subseteq ws
<1>1. ASSUME NEW f, NEW g, f # g
      PROVE  InFold(f, ws) \cap InFold(g, vs) = {} /\ ~ShareKeys(InFold(f, ws), InFold(g, vs))
  <2>1. \A i, j : corpus[i].key = corpus[j].key => FoldOf(i) = FoldOf(j)
    BY DEF FoldOf
  <2>2. /\ \A i \in InFold(f, ws) : FoldOf(i) = f
        /\ \A i \in InFold(g, vs) : FoldOf(i) = g
    BY DEF InFold
  <2> QED
    BY <1>1, <2>1, <2>2 DEF ShareKeys, KeysOf
<1>2. \A i : FoldOf(i) \in {"train", "valid", "test"}
  BY DEF FoldOf
<1>3. ws = InFold("train", ws) \cup InFold("valid", ws) \cup InFold("test", ws)
  BY <1>2 DEF InFold
<1>4. \A f : InFold(f, ws) \subseteq ws
  BY DEF InFold
<1> QED
  BY <1>1, <1>3, <1>4, Zenon

LEMMA GroupKeeps ==
    ASSUME corpus \in Seq(SplitWindows),
           NEW s, s = Claiming("group", FALSE, TRUE, {}, GroupSplit)
    PROVE  s = RefusedSplit \/ (IsMade(s) /\ KeepsItsPolicy(s))
<1> DEFINE all == CorpusWindows
           train == InFold("train", all)
           valid == InFold("valid", all)
           test == InFold("test", all)
<1>0. "train" # "valid" /\ "train" # "test" /\ "valid" # "test"
  OBVIOUS
<1>1. /\ train \cap valid = {} /\ train \cap test = {} /\ valid \cap test = {}
      /\ ~ShareKeys(train, valid) /\ ~ShareKeys(train, test) /\ ~ShareKeys(valid, test)
      /\ all = train \cup valid \cup test
  <2> HIDE DEF all
  <2> QED
    BY <1>0, BucketsApart
<1>2. Cardinality(train) + Cardinality(valid) + Cardinality(test) + 0 = Len(corpus)
  <2> HIDE DEF train, valid, test
  <2> QED
    BY <1>1, CorpusIs, ApartAddUp
<1>3. GroupSplit = Folds(train, valid, test, 0)
  BY DEF GroupSplit
<1>4. \/ s = RefusedSplit
      \/ /\ IsMade(s) /\ train # {} /\ valid # {} /\ test # {}
         /\ s.policy = "group" /\ s.inTime = FALSE /\ s.disjoint = TRUE
         /\ s.train = train /\ s.valid = valid /\ s.test = test /\ s.dropped = 0
  <2> HIDE DEF train, valid, test
  <2> QED
    <3>1. s = Claiming("group", FALSE, TRUE, {}, Folds(train, valid, test, 0))
      BY <1>3
    <3>2. TRUE \in BOOLEAN /\ FALSE \in BOOLEAN
      OBVIOUS
    <3>3. train \subseteq CorpusWindows /\ valid \subseteq CorpusWindows /\ test \subseteq CorpusWindows
      BY <1>1
    <3>4. s = RefusedSplit \/ IsOf(s, "group", FALSE, TRUE, {}, train, valid, test, 0)
      BY <3>1, <3>2, <3>3, ClaimIs
    <3> QED
      BY <3>4 DEF IsOf
<1>5. "group" # "entity" /\ "group" # "family" /\ "group" # "time"
  OBVIOUS
<1> HIDE DEF train, valid, test
<1> QED
  BY <1>1, <1>2, <1>4, <1>5 DEF KeepsItsPolicy

LEMMA EntityKeeps ==
    ASSUME corpus \in Seq(SplitWindows), NEW key \in AttackKeys,
           NEW s, s = Claiming("entity", FALSE, TRUE, {key}, LeaveOneOut(key))
    PROVE  s = RefusedSplit \/ (IsMade(s) /\ KeepsItsPolicy(s))
<1> DEFINE benign == {i \in CorpusWindows : corpus[i].key \notin AttackKeys}
           others == {i \in CorpusWindows : corpus[i].key \in AttackKeys \ {key}}
           heldOut == {i \in CorpusWindows : corpus[i].key = key}
           train == others \cup InFold("train", benign)
           valid == InFold("valid", benign)
           test == heldOut \cup InFold("test", benign)
<1>0. "train" # "valid" /\ "train" # "test" /\ "valid" # "test"
  OBVIOUS
<1>1. /\ InFold("train", benign) \cap valid = {} /\ InFold("train", benign) \cap InFold("test", benign) = {}
      /\ valid \cap InFold("test", benign) = {}
      /\ ~ShareKeys(InFold("train", benign), valid) /\ ~ShareKeys(InFold("train", benign), InFold("test", benign))
      /\ ~ShareKeys(valid, InFold("test", benign))
      /\ benign = InFold("train", benign) \cup valid \cup InFold("test", benign)
  <2> HIDE DEF benign
  <2> QED
    BY <1>0, BucketsApart
<1>2. /\ \A i \in benign : corpus[i].key \notin AttackKeys
      /\ \A i \in others : corpus[i].key \in AttackKeys \ {key}
      /\ \A i \in heldOut : corpus[i].key = key
      /\ CorpusWindows = benign \cup others \cup heldOut
  OBVIOUS
<1>3. CASE /\ LeaveOneOut(key) = Folds(train, valid, test, 0)
  <2>1. \/ s = RefusedSplit
        \/ /\ IsMade(s) /\ train # {} /\ valid # {} /\ test # {}
           /\ s.policy = "entity" /\ s.inTime = FALSE /\ s.disjoint = TRUE /\ s.holdout = {key}
           /\ s.train = train /\ s.valid = valid /\ s.test = test /\ s.dropped = 0
    <3>1. train \subseteq CorpusWindows /\ valid \subseteq CorpusWindows /\ test \subseteq CorpusWindows
      BY <1>1
    <3>2. s = Claiming("entity", FALSE, TRUE, {key}, Folds(train, valid, test, 0))
      BY <1>3
    <3>3. TRUE \in BOOLEAN /\ FALSE \in BOOLEAN
      OBVIOUS
    <3> HIDE DEF train, valid, test
    <3>4. s = RefusedSplit \/ IsOf(s, "entity", FALSE, TRUE, {key}, train, valid, test, 0)
      BY <3>1, <3>2, <3>3, ClaimIs
    <3> QED
      BY <3>4 DEF IsOf
  <2> HIDE DEF benign, others, heldOut
  <2>2. train \cap valid = {} /\ train \cap test = {} /\ valid \cap test = {}
    BY <1>1, <1>2
  <2>3. CorpusWindows = train \cup valid \cup test
    BY <1>1, <1>2
  <2>4. ~ShareKeys(train, valid) /\ ~ShareKeys(train, test) /\ ~ShareKeys(valid, test)
    <3>1. ~ShareKeys(others, benign) /\ ~ShareKeys(heldOut, benign) /\ ~ShareKeys(others, heldOut)
      BY <1>2 DEF ShareKeys, KeysOf
    <3>2. InFold("train", benign) \subseteq benign /\ valid \subseteq benign /\ InFold("test", benign) \subseteq benign
      BY <1>1
    <3>3. /\ ~ShareKeys(others, valid) /\ ~ShareKeys(others, InFold("test", benign))
          /\ ~ShareKeys(heldOut, valid) /\ ~ShareKeys(heldOut, InFold("train", benign))
      BY <3>1, <3>2 DEF ShareKeys, KeysOf
    <3>4. \A A, B, C : ~ShareKeys(A, C) /\ ~ShareKeys(B, C) => ~ShareKeys(A \cup B, C)
      BY DEF ShareKeys, KeysOf
    <3>5. \A A, B : ~ShareKeys(A, B) => ~ShareKeys(B, A)
      BY DEF ShareKeys, KeysOf
    <3>6. ~ShareKeys(train, valid)
      BY <1>1, <3>3, <3>4
    <3>7. ~ShareKeys(heldOut, train) /\ ~ShareKeys(InFold("test", benign), train)
      BY <1>1, <3>1, <3>3, <3>4, <3>5
    <3>8. ~ShareKeys(test, train) /\ ~ShareKeys(test, valid)
      BY <1>1, <3>3, <3>4, <3>5, <3>7
    <3> HIDE DEF train, valid, test
    <3> QED
      BY <3>5, <3>6, <3>8
  <2>5. KeysOf(test) \cap AttackKeys = {key}
    <3>1. PICK i \in CorpusWindows : corpus[i].key = key
      BY DEF AttackKeys, KeysOf
    <3>2. i \in heldOut
      BY <3>1 DEF heldOut
    <3> QED
      BY <1>1, <1>2, <3>1, <3>2 DEF KeysOf
  <2> HIDE DEF train, valid, test
  <2>6. Cardinality(train) + Cardinality(valid) + Cardinality(test) + 0 = Len(corpus)
    BY <2>2, <2>3, CorpusIs, ApartAddUp
  <2>7. "entity" # "family" /\ "entity" # "time"
    OBVIOUS
  <2> QED
    BY <2>1, <2>2, <2>4, <2>5, <2>6, <2>7 DEF KeepsItsPolicy
<1>4. CASE LeaveOneOut(key) = RefusedSplit
  BY <1>4, RefusedIs
<1>5. LeaveOneOut(key) = RefusedSplit \/ LeaveOneOut(key) = Folds(train, valid, test, 0)
  BY DEF LeaveOneOut
<1> QED
  BY <1>3, <1>4, <1>5

LEMMA FamilyKeeps ==
    ASSUME corpus \in Seq(SplitWindows), NEW families,
           NEW s, s = Claiming("family", FALSE, FALSE, families, FamilySplit(families))
    PROVE  s = RefusedSplit \/ (IsMade(s) /\ KeepsItsPolicy(s))
<1> DEFINE heldOut == {i \in CorpusWindows : corpus[i].families \cap families # {}}
           rest == CorpusWindows \ heldOut
           train == InFold("train", rest)
           valid == InFold("valid", rest)
           test == heldOut \cup InFold("test", rest)
<1>0. "train" # "valid" /\ "train" # "test" /\ "valid" # "test"
  OBVIOUS
<1>1. /\ train \cap valid = {} /\ train \cap InFold("test", rest) = {}
      /\ valid \cap InFold("test", rest) = {}
      /\ ~ShareKeys(train, InFold("test", rest))
      /\ rest = train \cup valid \cup InFold("test", rest)
  <2> HIDE DEF rest
  <2> QED
    BY <1>0, BucketsApart
<1>2. /\ \A i \in rest : corpus[i].families \cap families = {}
      /\ \A i \in heldOut : corpus[i].families # {}
      /\ rest \cap heldOut = {} /\ rest \cup heldOut = CorpusWindows
  OBVIOUS
<1>3. CASE FamilySplit(families) = Folds(train, valid, test, 0)
  <2>1. \/ s = RefusedSplit
        \/ /\ IsMade(s) /\ train # {} /\ valid # {} /\ test # {}
           /\ s.policy = "family" /\ s.inTime = FALSE /\ s.disjoint = FALSE /\ s.holdout = families
           /\ s.train = train /\ s.valid = valid /\ s.test = test /\ s.dropped = 0
    <3>1. train \subseteq CorpusWindows /\ valid \subseteq CorpusWindows /\ test \subseteq CorpusWindows
      BY <1>1
    <3>2. s = Claiming("family", FALSE, FALSE, families, Folds(train, valid, test, 0))
      BY <1>3
    <3>3. TRUE \in BOOLEAN /\ FALSE \in BOOLEAN
      OBVIOUS
    <3> HIDE DEF train, valid, test
    <3>4. s = RefusedSplit \/ IsOf(s, "family", FALSE, FALSE, families, train, valid, test, 0)
      BY <3>1, <3>2, <3>3, ClaimIs
    <3> QED
      BY <3>4 DEF IsOf
  <2> HIDE DEF heldOut, rest
  <2>2. train \cap valid = {} /\ train \cap test = {} /\ valid \cap test = {}
    BY <1>1, <1>2
  <2>3. CorpusWindows = train \cup valid \cup test
    BY <1>1, <1>2
  <2>4. \A i \in train \cup valid : corpus[i].families \cap families = {}
    BY <1>1, <1>2
  <2>5. ~ShareKeys(train, {i \in test : corpus[i].families = {}})
    <3>1. {i \in test : corpus[i].families = {}} \subseteq InFold("test", rest)
      BY <1>2
    <3> QED
      BY <1>1, <3>1 DEF ShareKeys, KeysOf
  <2> HIDE DEF train, valid, test
  <2>6. Cardinality(train) + Cardinality(valid) + Cardinality(test) + 0 = Len(corpus)
    BY <2>2, <2>3, CorpusIs, ApartAddUp
  <2>7. "entity" # "family" /\ "family" # "time"
    OBVIOUS
  <2> QED
    BY <2>1, <2>2, <2>4, <2>5, <2>6, <2>7 DEF KeepsItsPolicy
<1>4. CASE FamilySplit(families) = RefusedSplit
  BY <1>4, RefusedIs
<1>5. FamilySplit(families) = RefusedSplit \/ FamilySplit(families) = Folds(train, valid, test, 0)
  BY DEF FamilySplit
<1> QED
  BY <1>3, <1>4, <1>5

(* What a policy made does not leak.                                       *)
LEMMA PolicyDoesNotLeak ==
    ASSUME corpus \in Seq(SplitWindows), split.is = "split", split.policy # "hand" => KeepsItsPolicy(split), IsMade(split)
    PROVE  FoldsDoNotLeak
<1> SUFFICES ASSUME split.policy # "hand" PROVE FoldsDoNotLeak
  BY DEF FoldsDoNotLeak
<1>1. KeepsItsPolicy(split)
  OBVIOUS
<1>2. split.train \subseteq CorpusWindows /\ split.valid \subseteq CorpusWindows /\ split.test \subseteq CorpusWindows
  BY DEF IsMade
<1>3. split.train \cap split.valid = {} /\ split.train \cap split.test = {} /\ split.valid \cap split.test = {}
  BY <1>1 DEF KeepsItsPolicy
<1>4. Cardinality(split.train \cup split.valid \cup split.test)
          = Cardinality(split.train) + Cardinality(split.valid) + Cardinality(split.test)
  BY <1>2, <1>3, CorpusIs, ApartAddUp
<1> QED
  BY <1>1, <1>4 DEF KeepsItsPolicy, FoldsDoNotLeak

(* The audit finds a leak of time exactly where a window does not start    *)
(* after every one of the folds before.                                    *)
LEMMA TimeLeaksIff ==
    ASSUME corpus \in Seq(SplitWindows), IsMade(split), split.train # {}, split.test # {}
    PROVE  ~TimeLeaks <=> /\ StartsBefore(split.train, split.valid)
                          /\ StartsBefore(split.train \cup split.valid, split.test)
<1> DEFINE train == split.train
           valid == split.valid
           test == split.test
<1>1. /\ train \subseteq CorpusWindows /\ valid \subseteq CorpusWindows /\ test \subseteq CorpusWindows
      /\ train \cup valid \subseteq CorpusWindows /\ train \cup valid # {}
  BY DEF IsMade
<1>2. ASSUME NEW ws, NEW vs, ws \subseteq CorpusWindows, vs \subseteq CorpusWindows, ws # {}, vs # {}
      PROVE  ~(Min(Starts(vs)) <= Max(Starts(ws))) <=> StartsBefore(ws, vs)
  <2>1. PICK i \in ws : corpus[i].start = Max(Starts(ws))
    BY <1>2, StartsAre
  <2>2. PICK j \in vs : corpus[j].start = Min(Starts(vs))
    BY <1>2, StartsAre
  <2>3. \A k \in ws : corpus[k].start <= Max(Starts(ws)) /\ corpus[k].start \in Int
    BY <1>2, StartsAre, CorpusIs
  <2>4. \A k \in vs : Min(Starts(vs)) <= corpus[k].start /\ corpus[k].start \in Int
    BY <1>2, StartsAre, CorpusIs
  <2>5. Min(Starts(vs)) \in Int /\ Max(Starts(ws)) \in Int
    BY <2>1, <2>2, <2>3, <2>4
  <2> DEFINE lo == Min(Starts(vs))
             hi == Max(Starts(ws))
  <2> HIDE DEF lo, hi
  <2>6. ASSUME ~(lo <= hi), NEW k \in ws, NEW l \in vs PROVE corpus[k].start < corpus[l].start
    BY <2>3, <2>4, <2>5, <2>6 DEF lo, hi
  <2>7. ASSUME StartsBefore(ws, vs) PROVE ~(lo <= hi)
    BY <2>1, <2>2, <2>5, <2>7 DEF StartsBefore, lo, hi
  <2> QED
    BY <2>6, <2>7 DEF StartsBefore, lo, hi
<1>3. ~(Min(Starts(test)) <= Max(Starts(train \cup valid))) <=> StartsBefore(train \cup valid, test)
  <2> HIDE DEF train, valid, test
  <2> QED
    BY <1>1, <1>2 DEF train, test
<1>4. CASE valid = {}
  <2>1. StartsBefore(train, valid)
    BY <1>4 DEF StartsBefore
  <2> QED
    BY <1>3, <1>4, <2>1 DEF TimeLeaks
<1>5. CASE valid # {}
  <2>1. ~(Min(Starts(valid)) <= Max(Starts(train))) <=> StartsBefore(train, valid)
    <3> HIDE DEF train, valid, test
    <3> QED
      BY <1>1, <1>2, <1>5 DEF train, test
  <2> QED
    BY <1>3, <1>5, <2>1 DEF TimeLeaks
<1> QED
  BY <1>4, <1>5

LEMMA EntityLeaksIff ==
    ~EntityLeaks <=> /\ ~ShareKeys(split.train, split.valid) /\ ~ShareKeys(split.train, split.test)
                     /\ ~ShareKeys(split.valid, split.test)
BY DEF EntityLeaks, ShareKeys

LEMMA RecordLeaksIff ==
    ASSUME Told, IsMade(split)
    PROVE  /\ ~RecordLeaks <=> /\ split.train \cap split.valid = {} /\ split.train \cap split.test = {}
                               /\ split.valid \cap split.test = {}
           /\ caller.fitOn \in SUBSET SUBSET CorpusWindows =>
                  (~DeclaredBeyond <=> UNION caller.fitOn \subseteq split.train)
<1>1. ASSUME NEW ws, NEW vs, ws \subseteq CorpusWindows, vs \subseteq CorpusWindows
      PROVE  WindowIds(ws) \cap WindowIds(vs) = {} <=> ws \cap vs = {}
  <2>1. \A i \in ws, j \in vs : WindowId(i) = WindowId(j) => i = j
    BY <1>1 DEF Told
  <2> QED
    BY <2>1 DEF WindowIds
<1>2. ASSUME NEW ws, NEW vs, ws \subseteq CorpusWindows, vs \subseteq CorpusWindows
      PROVE  WindowIds(ws) \subseteq WindowIds(vs) <=> ws \subseteq vs
  <2>1. \A i \in ws, j \in vs : WindowId(i) = WindowId(j) => i = j
    BY <1>2 DEF Told
  <2> QED
    BY <2>1 DEF WindowIds
<1>3. split.train \subseteq CorpusWindows /\ split.valid \subseteq CorpusWindows /\ split.test \subseteq CorpusWindows
  BY DEF IsMade
<1>4. ~RecordLeaks <=> /\ WindowIds(split.train) \cap WindowIds(split.valid) = {}
                       /\ WindowIds(split.train) \cap WindowIds(split.test) = {}
                       /\ WindowIds(split.valid) \cap WindowIds(split.test) = {}
  BY DEF RecordLeaks
<1>5. /\ WindowIds(split.train) \cap WindowIds(split.valid) = {} <=> split.train \cap split.valid = {}
      /\ WindowIds(split.train) \cap WindowIds(split.test) = {} <=> split.train \cap split.test = {}
      /\ WindowIds(split.valid) \cap WindowIds(split.test) = {} <=> split.valid \cap split.test = {}
  BY <1>1, <1>3
<1>6. ASSUME caller.fitOn \in SUBSET SUBSET CorpusWindows
      PROVE  ~DeclaredBeyond <=> UNION caller.fitOn \subseteq split.train
  <2>1. \A ws \in caller.fitOn : ws \subseteq CorpusWindows
    BY <1>6
  <2>2. \A ws \in caller.fitOn : WindowIds(ws) \subseteq WindowIds(split.train) <=> ws \subseteq split.train
    BY <1>2, <1>3, <2>1
  <2> QED
    BY <2>2 DEF DeclaredBeyond
<1> QED
  BY <1>4, <1>5, <1>6

LEMMA SplitsGood == SplitInv => FoldsDoNotLeak /\ AuditIsExact
<1> SUFFICES ASSUME SplitInv PROVE FoldsDoNotLeak /\ AuditIsExact
  OBVIOUS
<1>1. FoldsDoNotLeak
  <2>1. CASE split.is = "split"
    BY <2>1, PolicyDoesNotLeak DEF SplitInv
  <2> QED
    BY <2>1 DEF FoldsDoNotLeak
<1>2. ASSUME split.is = "split", blocking # NotAudited, Told
      PROVE  LET train == split.train  valid == split.valid  test == split.test IN
             /\ blocking = {} =>
                    /\ train \cap valid = {} /\ train \cap test = {} /\ valid \cap test = {}
                    /\ split.inTime => StartsBefore(train \cup valid, test) /\ StartsBefore(train, valid)
                    /\ split.disjoint => ~ShareKeys(train, valid \cup test) /\ ~ShareKeys(valid, test)
                    /\ SameStatistics(corpus, fitted, train) /\ UNION caller.fitOn \subseteq train
             /\ split.policy # "hand" /\ fitted = train /\ UNION caller.fitOn \subseteq train =>
                    blocking = IF caller.rows /\ Separates(corpus, train \cup valid \cup test)
                               THEN {"label"} ELSE {}
  <2>1. /\ corpus \in Seq(SplitWindows) /\ IsMade(split)
        /\ caller.fitOn \in SUBSET SUBSET CorpusWindows
        /\ split.policy # "hand" => KeepsItsPolicy(split)
        /\ blocking = {kind \in Found : ~Declared(kind)}
    BY <1>2 DEF SplitInv
  <2>2. /\ "time" \in blocking <=> TimeLeaks /\ split.inTime
        /\ "entity" \in blocking <=> EntityLeaks /\ split.disjoint
        /\ "record" \in blocking <=> RecordLeaks
        /\ "scaler" \in blocking <=> ScalerLeaks
        /\ "label" \in blocking <=> LabelLeaks
        /\ blocking \subseteq {"time", "entity", "record", "scaler", "label"}
    BY <2>1 DEF Found, Declared, LeakKinds
  <2>3. /\ ~RecordLeaks <=> /\ split.train \cap split.valid = {} /\ split.train \cap split.test = {}
                            /\ split.valid \cap split.test = {}
        /\ ~DeclaredBeyond <=> UNION caller.fitOn \subseteq split.train
    BY <1>2, <2>1, RecordLeaksIff
  <2>4. ASSUME blocking = {}
        PROVE  /\ split.train \cap split.valid = {} /\ split.train \cap split.test = {}
               /\ split.valid \cap split.test = {}
               /\ split.inTime => StartsBefore(split.train \cup split.valid, split.test)
                                  /\ StartsBefore(split.train, split.valid)
               /\ split.disjoint => ~ShareKeys(split.train, split.valid \cup split.test)
                                    /\ ~ShareKeys(split.valid, split.test)
               /\ SameStatistics(corpus, fitted, split.train) /\ UNION caller.fitOn \subseteq split.train
    <3>1. ~RecordLeaks /\ ~ScalerLeaks
      BY <2>2, <2>4
    <3>4. ~DeclaredBeyond /\ SameStatistics(corpus, fitted, split.train)
      BY <3>1 DEF ScalerLeaks
    <3>2. ASSUME split.inTime
          PROVE  StartsBefore(split.train \cup split.valid, split.test) /\ StartsBefore(split.train, split.valid)
      <4>1. ~TimeLeaks
        BY <2>2, <2>4, <3>2
      <4>2. split.train # {} /\ split.test # {}
        BY <4>1 DEF TimeLeaks
      <4> QED
        BY <2>1, <4>1, <4>2, TimeLeaksIff
    <3>3. ASSUME split.disjoint
          PROVE  ~ShareKeys(split.train, split.valid \cup split.test) /\ ~ShareKeys(split.valid, split.test)
      <4>1. ~EntityLeaks
        BY <2>2, <2>4, <3>3
      <4> QED
        BY <4>1, EntityLeaksIff DEF ShareKeys, KeysOf
    <3> QED
      BY <2>3, <3>1, <3>2, <3>3, <3>4
  <2>5. ASSUME split.policy # "hand", fitted = split.train, UNION caller.fitOn \subseteq split.train
        PROVE  blocking = IF LabelLeaks THEN {"label"} ELSE {}
    <3>1. KeepsItsPolicy(split)
      BY <2>1, <2>5
    <3>5. SameStatistics(corpus, fitted, split.train)
      BY <2>5 DEF SameStatistics
    <3>2. ~RecordLeaks /\ ~ScalerLeaks
      BY <2>3, <2>5, <3>1, <3>5 DEF KeepsItsPolicy, ScalerLeaks
    <3>3. split.inTime => ~TimeLeaks
      BY <2>1, <3>1, TimeLeaksIff DEF KeepsItsPolicy
    <3>4. split.disjoint => ~EntityLeaks
      BY <3>1, EntityLeaksIff DEF KeepsItsPolicy
    <3> QED
      BY <2>2, <3>2, <3>3, <3>4
  <2> QED
    BY <2>4, <2>5 DEF LabelLeaks
<1> QED
  BY <1>1, <1>2 DEF AuditIsExact

LEMMA SplitStart == LeakInit => SplitInv
<1> SUFFICES ASSUME LeakInit PROVE SplitInv
  OBVIOUS
<1>2. corpus = <<>> /\ split = Unsplit /\ fitted = {} /\ caller = NoCaller /\ blocking = NotAudited
  BY DEF LeakInit, SplitsInit
<1>3. split.is = "unsplit"
  BY <1>2 DEF Unsplit
<1> QED
  BY <1>2, <1>3 DEF SplitInv, NoCaller

(* What is said of a split holds of the variable that becomes it.          *)
LEMMA SplitBecomes ==
    ASSUME NEW s, split' = s, UNCHANGED corpus
    PROVE  (s.is = "split" => IsMade(s) /\ (s.policy # "hand" => KeepsItsPolicy(s)))
           <=> (split.is = "split" => IsMade(split) /\ (split.policy # "hand" => KeepsItsPolicy(split)))'
BY DEF IsMade, SplitFields, KeepsItsPolicy, CorpusWindows, StartsBefore, ShareKeys, KeysOf, AttackKeys

LEMMA MadeFrom ==
    ASSUME SplitInv, UNCHANGED <<corpus, fitted, caller, blocking>>, blocking = NotAudited,
           split'.is \in {"unsplit", "refused", "split"}, split'.is = "unsplit" => split' = Unsplit,
           NEW s, split' = s, s.is = "split" => IsMade(s) /\ (s.policy # "hand" => KeepsItsPolicy(s))
    PROVE  SplitInv'
<1>1. (s.is = "split" => IsMade(s) /\ (s.policy # "hand" => KeepsItsPolicy(s)))
      <=> (split.is = "split" => IsMade(split) /\ (split.policy # "hand" => KeepsItsPolicy(split)))'
  BY SplitBecomes
<1>2. (/\ corpus \in Seq(SplitWindows) /\ fitted \subseteq CorpusWindows
       /\ caller \in [fitOn : SUBSET SUBSET CorpusWindows, rows : BOOLEAN])'
  BY DEF SplitInv, CorpusWindows
<1> QED
  BY <1>1, <1>2 DEF SplitInv

LEMMA DivideKeeps ==
    ASSUME SplitInv, split = Unsplit, UNCHANGED <<corpus, auditVars>>,
           NEW s, split' = s, s = RefusedSplit \/ (IsMade(s) /\ KeepsItsPolicy(s))
    PROVE  SplitInv'
<1>1. split.is = "unsplit" /\ RefusedSplit.is = "refused"
  BY DEF Unsplit, RefusedSplit
<1>2. blocking = NotAudited
  BY <1>1 DEF SplitInv
<1>3. s.is \in {"refused", "split"}
  BY <1>1 DEF IsMade
<1>4. s.is = "split" => IsMade(s) /\ (s.policy # "hand" => KeepsItsPolicy(s))
  BY <1>1
<1> QED
  BY <1>2, <1>3, <1>4, MadeFrom DEF auditVars

LEMMA EditKeeps ==
    ASSUME SplitInv, NEW i \in CorpusWindows, NEW fold \in {"train", "valid", "test"}, NEW m \in BOOLEAN,
           EditByHand(i, fold, m)
    PROVE  SplitInv'
<1> DEFINE Without(ws) == IF m THEN ws \ {i} ELSE ws
           cut == [split EXCEPT !.train = Without(@), !.valid = Without(@), !.test = Without(@)]
           s == [cut EXCEPT ![fold] = @ \cup {i}, !.policy = "hand"]
<1>1. IsMade(split) /\ split.is = "split" /\ blocking = NotAudited /\ UNCHANGED <<corpus, fitted, caller, blocking>> /\ split' = s
  BY DEF EditByHand, SplitInv, auditVars
<1>2. /\ SplitFields \subseteq DOMAIN cut /\ cut.is = "split" /\ cut.inTime = split.inTime /\ cut.disjoint = split.disjoint
      /\ cut.train \subseteq CorpusWindows /\ cut.valid \subseteq CorpusWindows /\ cut.test \subseteq CorpusWindows
  BY <1>1 DEF IsMade, SplitFields
<1> HIDE DEF cut
<1>3. SplitFields \subseteq DOMAIN s /\ s.policy = "hand"
  BY <1>2 DEF SplitFields
<1>4. s.is = "split" /\ s.inTime = split.inTime /\ s.disjoint = split.disjoint
  BY <1>2 DEF SplitFields
<1>5. s.train \subseteq CorpusWindows /\ s.valid \subseteq CorpusWindows /\ s.test \subseteq CorpusWindows
  BY <1>2 DEF SplitFields
<1> HIDE DEF s
<1>6. IsMade(s)
  BY <1>1, <1>3, <1>4, <1>5 DEF IsMade
<1> QED
  BY <1>1, <1>3, <1>4, <1>6, MadeFrom

LEMMA SplitStep == SplitInv /\ [LeakNext]_leakVars => SplitInv'
<1> SUFFICES ASSUME SplitInv, [LeakNext]_leakVars PROVE SplitInv'
  OBVIOUS
<1>1. ASSUME NEW w \in SplitWindows, Collect(w), UNCHANGED auditVars PROVE SplitInv'
  <2>1. split = Unsplit /\ split' = Unsplit /\ corpus' = Append(corpus, w) /\ UNCHANGED <<fitted, caller, blocking>>
    BY <1>1 DEF Collect, auditVars
  <2>2. split.is = "unsplit"
    BY <2>1 DEF Unsplit
  <2>3. blocking = NotAudited
    BY <2>2 DEF SplitInv
  <2>4. corpus' \in Seq(SplitWindows) /\ Len(corpus') = Len(corpus) + 1
    BY <2>1 DEF SplitInv
  <2>5. /\ fitted' \subseteq CorpusWindows'
        /\ (caller \in [fitOn : SUBSET SUBSET CorpusWindows, rows : BOOLEAN])'
    <3>1. CorpusWindows \subseteq CorpusWindows'
      BY <2>1, <2>4 DEF SplitInv, CorpusWindows
    <3> QED
      BY <2>1, <3>1 DEF SplitInv
  <2> QED
    BY <2>1, <2>2, <2>3, <2>4, <2>5 DEF SplitInv
<1>2. ASSUME NEW d \in BOOLEAN, DivideInTime(d), UNCHANGED auditVars PROVE SplitInv'
  <2>1. split'= Claiming("time", TRUE, d, {}, TemporalSplit(d)) /\ split = Unsplit /\ UNCHANGED corpus /\ corpus # <<>>
    BY <1>2 DEF DivideInTime
  <2>2. PICK s : s = Claiming("time", TRUE, d, {}, TemporalSplit(d))
    OBVIOUS
  <2>3. s = RefusedSplit \/ (IsMade(s) /\ KeepsItsPolicy(s))
    BY <2>1, <2>2, TimeKeeps DEF SplitInv
  <2> QED
    BY <1>2, <2>1, <2>2, <2>3, DivideKeeps
<1>3. ASSUME DivideByGroup, UNCHANGED auditVars PROVE SplitInv'
  <2>1. split'= Claiming("group", FALSE, TRUE, {}, GroupSplit) /\ split = Unsplit /\ UNCHANGED corpus
    BY <1>3 DEF DivideByGroup
  <2>2. PICK s : s = Claiming("group", FALSE, TRUE, {}, GroupSplit)
    OBVIOUS
  <2>3. s = RefusedSplit \/ (IsMade(s) /\ KeepsItsPolicy(s))
    BY <2>2, GroupKeeps DEF SplitInv
  <2> QED
    BY <1>3, <2>1, <2>2, <2>3, DivideKeeps
<1>4. ASSUME NEW k, HoldEntityOut(k), UNCHANGED auditVars PROVE SplitInv'
  <2>1. split'= Claiming("entity", FALSE, TRUE, {k}, LeaveOneOut(k)) /\ split = Unsplit /\ UNCHANGED corpus /\ k \in AttackKeys
    BY <1>4 DEF HoldEntityOut
  <2>2. PICK s : s = Claiming("entity", FALSE, TRUE, {k}, LeaveOneOut(k))
    OBVIOUS
  <2>3. s = RefusedSplit \/ (IsMade(s) /\ KeepsItsPolicy(s))
    BY <2>1, <2>2, EntityKeeps DEF SplitInv
  <2> QED
    BY <1>4, <2>1, <2>2, <2>3, DivideKeeps
<1>5. ASSUME NEW f, HoldFamilyOut({f}), UNCHANGED auditVars PROVE SplitInv'
  <2>1. split'= Claiming("family", FALSE, FALSE, {f}, FamilySplit({f})) /\ split = Unsplit /\ UNCHANGED corpus
    BY <1>5 DEF HoldFamilyOut
  <2>2. PICK s : s = Claiming("family", FALSE, FALSE, {f}, FamilySplit({f}))
    OBVIOUS
  <2>3. s = RefusedSplit \/ (IsMade(s) /\ KeepsItsPolicy(s))
    BY <2>2, FamilyKeeps DEF SplitInv
  <2> QED
    BY <1>5, <2>1, <2>2, <2>3, DivideKeeps
<1>6. ASSUME NEW fit \in FitChoices, NEW call \in Calls(fit), Audit(fit, call), split.is = "split"
      PROVE  SplitInv'
  <2>1. /\ UNCHANGED <<corpus, split>> /\ fitted' = fit /\ caller' = call
        /\ blocking' = {kind \in Found' : ~Declared(kind)}
    BY <1>6 DEF Audit, splitVars
  <2>2. fit \subseteq CorpusWindows /\ call \in [fitOn : SUBSET SUBSET CorpusWindows, rows : BOOLEAN]
    <3>1. split.train \subseteq CorpusWindows /\ split.valid \subseteq CorpusWindows
      BY <1>6 DEF SplitInv, IsMade
    <3>2. fit \subseteq CorpusWindows
      BY <1>6, <3>1 DEF FitChoices
    <3> QED
      BY <1>6, <3>1, <3>2 DEF Calls
  <2>3. \A kind : Declared(kind)' <=> Declared(kind)
    BY <2>1 DEF Declared
  <2>4. (split.is = "split" => IsMade(split) /\ (split.policy # "hand" => KeepsItsPolicy(split)))'
    <3>1. PICK s : s = split
      OBVIOUS
    <3>2. s.is = "split" => IsMade(s) /\ (s.policy # "hand" => KeepsItsPolicy(s))
      BY <3>1 DEF SplitInv
    <3>3. split' = s
      BY <2>1, <3>1
    <3> QED
      BY <2>1, <3>2, <3>3, SplitBecomes
  <2>5. (blocking = {kind \in Found : ~Declared(kind)})'
    BY <2>1, <2>3
  <2>6. (/\ corpus \in Seq(SplitWindows) /\ fitted \subseteq CorpusWindows
         /\ caller \in [fitOn : SUBSET SUBSET CorpusWindows, rows : BOOLEAN])'
    BY <2>1, <2>2 DEF SplitInv, CorpusWindows
  <2> QED
    BY <1>6, <2>1, <2>4, <2>5, <2>6 DEF SplitInv
<1>7. CASE UNCHANGED leakVars
  <2>1. UNCHANGED <<corpus, split, fitted, caller, blocking>>
    BY <1>7 DEF leakVars, splitVars, auditVars
  <2>2. (split.is = "split" => IsMade(split) /\ (split.policy # "hand" => KeepsItsPolicy(split)))'
    <3>1. PICK s : s = split
      OBVIOUS
    <3>2. s.is = "split" => IsMade(s) /\ (s.policy # "hand" => KeepsItsPolicy(s))
      BY <3>1 DEF SplitInv
    <3>3. split' = s
      BY <2>1, <3>1
    <3> QED
      BY <2>1, <3>2, <3>3, SplitBecomes
  <2>3. Found' = Found /\ \A kind : Declared(kind)' <=> Declared(kind)
    BY <2>1 DEF Found, Declared, TimeLeaks, EntityLeaks, RecordLeaks, ScalerLeaks, DeclaredBeyond,
                LabelLeaks, Starts, KeysOf, WindowIds, WindowId
  <2> QED
    BY <2>1, <2>2, <2>3 DEF SplitInv, CorpusWindows
<1>8. CASE LeakNext
  BY <1>1, <1>2, <1>3, <1>4, <1>5, <1>6, <1>8, EditKeeps DEF LeakNext, SplitsNext
<1> QED
  BY <1>7, <1>8
-----------------------------------------------------------------------------
(* One that comes to a finite set within its bound, in the place of one    *)
(* where there is no room, leaves it within its bound.                     *)
LEMMA StaysWithin ==
    ASSUME NEW S, IsFiniteSet(S), NEW N \in Nat \ {0}, Cardinality(S) <= N,
           NEW gone, NEW new, NEW T, T \subseteq (S \ gone) \cup {new},
           Cardinality(S) < N \/ new \in S \/ gone \cap S # {}
    PROVE  IsFiniteSet(T) /\ Cardinality(T) <= N
<1>1. Cardinality(S) \in Nat
  BY FS_CardinalityType
<1>2. ASSUME NEW U, IsFiniteSet(U), Cardinality(U) < N, T \subseteq U \cup {new}
      PROVE  IsFiniteSet(T) /\ Cardinality(T) <= N
  <2>1. /\ IsFiniteSet(U \cup {new}) /\ Cardinality(U \cup {new}) \in {Cardinality(U), Cardinality(U) + 1}
        /\ Cardinality(U) \in Nat
    BY <1>2, FS_AddElement, FS_CardinalityType
  <2>2. IsFiniteSet(T) /\ Cardinality(T) <= Cardinality(U \cup {new}) /\ Cardinality(T) \in Nat
    BY <1>2, <2>1, FS_Subset, FS_CardinalityType
  <2> QED
    BY <1>2, <2>1, <2>2
<1>3. CASE Cardinality(S) < N
  BY <1>2, <1>3
<1>4. CASE new \in S /\ ~(Cardinality(S) < N)
  <2>1. T \subseteq S
    BY <1>4
  <2>2. IsFiniteSet(T) /\ Cardinality(T) <= Cardinality(S) /\ Cardinality(T) \in Nat
    BY <2>1, FS_Subset, FS_CardinalityType
  <2> QED
    BY <1>1, <2>2
<1>5. CASE gone \cap S # {} /\ ~(Cardinality(S) < N)
  <2>1. PICK x \in S : x \in gone
    BY <1>5
  <2>2. IsFiniteSet(S \ {x}) /\ Cardinality(S \ {x}) = Cardinality(S) - 1
    BY <2>1, FS_RemoveElement
  <2>3. T \subseteq (S \ {x}) \cup {new} /\ Cardinality(S \ {x}) < N
    BY <1>1, <2>1, <2>2
  <2> QED
    BY <1>2, <2>2, <2>3
<1> QED
  BY <1>3, <1>4, <1>5

(* The engine's flags and alerts, and the room in its buffer.              *)
EngineRest ==
    /\ Len(buffer) <= MaxBuffer /\ running \in BOOLEAN /\ wake \in BOOLEAN
    /\ saved \subseteq {f.src : f \in Flows} \X (ToSet(Families) \cup {"flow_anomaly"})

LEMMA EngineRestStart == EngineInit => EngineRest
<1>1. Len(<<>>) <= MaxBuffer
  BY EngineConstants
<1>2. EngineInit => buffer = <<>> /\ running \in BOOLEAN /\ wake \in BOOLEAN /\ saved = {}
  BY DEF EngineInit
<1> QED
  BY <1>1, <1>2 DEF EngineRest

(* What a scan saves is of a source some flow has and of a family.         *)
LEMMA AlertsAreNamed ==
    ASSUME NEW bound \in Nat, NEW entries \in Seq(Numbered(bound)),
           NEW anomalies \in Anomalies(FlowsOf(entries)) \cup {{}}
    PROVE  Hits(FlowsOf(entries)) \cup anomalies
               \subseteq {f.src : f \in Flows} \X (ToSet(Families) \cup {"flow_anomaly"})
<1>1. DOMAIN FlowsOf(entries) = DOMAIN entries /\ \A k \in DOMAIN entries : FlowsOf(entries)[k] \in Flows
  BY EntriesAre DEF FlowsOf, Numbered
<1>2. Sources(FlowsOf(entries)) \subseteq {f.src : f \in Flows}
  BY <1>1 DEF Sources
<1>3. Hits(FlowsOf(entries)) \subseteq Sources(FlowsOf(entries)) \X ToSet(Families)
  BY DEF Hits
<1>4. anomalies \subseteq Sources(FlowsOf(entries)) \X {"flow_anomaly"}
  BY DEF Anomalies, ScoredWindows
<1> QED
  BY <1>2, <1>3, <1>4

LEMMA EngineRestStep == EngineInv /\ EngineRest /\ [EngineNext]_engineVars => EngineRest'
<1> SUFFICES ASSUME EngineInv, EngineRest, [EngineNext]_engineVars PROVE EngineRest'
  OBVIOUS
<1>0. MaxBuffer \in Nat \ {0} /\ MaxFed \in Nat /\ fed \in Nat
  BY EngineConstants DEF EngineInv
<1>1. ASSUME NEW f \in Flows, Feed(f) PROVE EngineRest'
  <2> DEFINE entry == [n |-> fed + 1, flow |-> f]
             longer == Append(buffer, entry)
  <2>1. /\ buffer \in Seq(Numbered(fed + 1)) /\ entry \in Numbered(fed + 1)
        /\ Len(buffer) \in Nat
    <3>1. buffer \in Seq(Numbered(fed))
      BY DEF EngineInv, Entries
    <3>2. entry \in Numbered(fed + 1)
      BY <1>0 DEF Numbered
    <3> QED
      BY <1>0, <3>1, <3>2, EntriesAre
  <2>2. longer \in Seq(Numbered(fed + 1)) /\ Len(longer) = Len(buffer) + 1 /\ longer # <<>>
    BY <2>1, AppendProperties
  <2>3. UNCHANGED <<running, wake, saved>> /\ (IF Len(longer) > MaxBuffer THEN buffer' = Tail(longer) ELSE buffer' = longer)
    BY <1>1 DEF Feed
  <2>4. Len(Tail(longer)) = Len(longer) - 1
    <3> HIDE DEF longer
    <3> QED
      BY <2>2, HeadTailProperties
  <2> HIDE DEF longer
  <2>5. Len(buffer') <= MaxBuffer
    BY <1>0, <2>1, <2>2, <2>3, <2>4 DEF EngineRest
  <2> QED
    BY <2>3, <2>5 DEF EngineRest
<1>2. CASE Scan
  <2>1. thread.at = "cycle" /\ thread.flows \in Seq(Numbered(fed))
    BY <1>2 DEF Scan, EngineInv, Stopped, Waiting, Entries
  <2>2. PICK anomalies \in Anomalies(FlowsOf(thread.flows)) \cup {{}} :
            \E kept \in SUBSET (Hits(FlowsOf(thread.flows)) \cup anomalies) : saved' = saved \cup kept
    BY <1>2 DEF Scan
  <2>3. saved' \subseteq saved \cup ({f.src : f \in Flows} \X (ToSet(Families) \cup {"flow_anomaly"}))
    <3>1. Hits(FlowsOf(thread.flows)) \cup anomalies
              \subseteq {f.src : f \in Flows} \X (ToSet(Families) \cup {"flow_anomaly"})
      BY <1>0, <2>1, <2>2, AlertsAreNamed
    <3> QED
      BY <2>2, <3>1
  <2>4. UNCHANGED <<buffer, running, wake>>
    BY <1>2 DEF Scan
  <2> QED
    BY <2>3, <2>4 DEF EngineRest
<1>3. CASE Start \/ Stop \/ LoopEnds \/ Drain \/ CycleFails \/ UNCHANGED engineVars
  <2>1. UNCHANGED saved /\ buffer' \in {buffer, <<>>}
    BY <1>3 DEF Start, Stop, LoopEnds, Drain, CycleFails, engineVars
  <2>2. running' \in {running, TRUE, FALSE} /\ wake' \in {wake, TRUE}
    BY <1>3, Zenon DEF Start, Stop, LoopEnds, Drain, CycleFails, engineVars
  <2>3. running' \in BOOLEAN /\ wake' \in BOOLEAN
    BY <2>2, Zenon DEF EngineRest
  <2>4. Len(<<>>) <= MaxBuffer
    BY <1>0
  <2> QED
    BY <2>1, <2>3, <2>4 DEF EngineRest
<1> QED
  BY <1>1, <1>2, <1>3 DEF EngineNext

LEMMA EngineIsTyped == EngineInv /\ EngineRest => EngineTypeOK
<1> SUFFICES ASSUME EngineInv, EngineRest PROVE EngineTypeOK
  OBVIOUS
<1>1. fed \in Nat /\ MaxFed \in Nat /\ fed <= MaxFed /\ 1..fed \subseteq 1..MaxFed
  BY EngineConstants DEF EngineInv
<1>2. Numbered(fed) \subseteq Fed
  BY <1>1 DEF Numbered, Fed
<1>3. buffer \in Seq(Fed) /\ scanned \in Seq(1..MaxFed)
  BY <1>1, <1>2, SeqMonotonic DEF EngineInv, Entries
<1>4. thread.at \in {"none", "waiting", "cycle"}
  BY DEF EngineInv, Stopped, Waiting
<1> QED
  BY <1>1, <1>3, <1>4 DEF EngineInv, EngineRest, EngineTypeOK

(* Neither the lines a bridge holds nor the clock go beyond what there is. *)
LEMMA BridgesTypedStart == BridgesInit => BridgesTypeOK
<1>1. 0 \in 0..MaxQuiet
  BY BridgesAssumption
<1> QED
  BY <1>1, Zenon DEF BridgesInit, BridgesTypeOK

LEMMA BridgesTypedStep == BridgesTypeOK /\ [BridgesNext]_bridgesVars => BridgesTypeOK'
<1> SUFFICES ASSUME BridgesTypeOK, [BridgesNext]_bridgesVars PROVE BridgesTypeOK'
  OBVIOUS
<1>1. quiet' \in 0..MaxQuiet
  BY BridgesAssumption DEF BridgesTypeOK, BridgesNext, bridgesVars, IntervalPasses, Silence, Terminate,
       EndOfInput, ReadLine, Pump
<1>2. /\ unread' \subseteq Lines /\ queued' \subseteq Lines
      /\ held' \subseteq Lines /\ given' \subseteq Lines
  BY DEF BridgesTypeOK, BridgesNext, bridgesVars, IntervalPasses, Silence, Terminate, EndOfInput, ReadLine,
         Pump
<1>3. ended' \in {ended, TRUE}
  BY Zenon DEF BridgesNext, bridgesVars, IntervalPasses, Silence, Terminate, EndOfInput, ReadLine, Pump
<1>4. ended' \in BOOLEAN
  BY <1>3, Zenon DEF BridgesTypeOK
<1> QED
  BY <1>1, <1>2, <1>4 DEF BridgesTypeOK

(* A table of buckets is never larger than its cap: one that comes to a    *)
(* full table takes the place of the idle ones, or of the oldest.          *)
TrackedFit == IsFiniteSet(Tracked) /\ Cardinality(Tracked) <= MaxTracked

LEMMA TrackedStart == LimitInit => TrackedFit
<1> SUFFICES ASSUME LimitInit PROVE TrackedFit
  OBVIOUS
<1>1. Tracked = {}
  BY DEF LimitInit, Tracked
<1> QED
  BY <1>1, FS_EmptySet, RequestLimitsAssumption DEF TrackedFit

LEMMA OldestIsOne ==
    ASSUME LimitInv, NEW S, S \subseteq Identities, IsFiniteSet(S), S # {}
    PROVE  Oldest(S) \in S
<1> DEFINE R == {p \in S \X S : buckets[p[1]].age < buckets[p[2]].age}
<1>0. \A i \in S : buckets[i].age \in Nat
  BY DEF LimitInv, Buckets
<1>1. /\ \A x, y, z \in S : <<x, y>> \in R /\ <<y, z>> \in R => <<x, z>> \in R
      /\ \A x \in S : <<x, x>> \notin R
  BY <1>0
<1>2. \E x \in S : \A y \in S : <<x, y>> \notin R
  <2> HIDE DEF R
  <2> QED
    BY <1>1, FiniteHasMaximal
<1>3. ASSUME NEW x \in S, NEW y \in S, <<x, y>> \notin R PROVE buckets[x].age >= buckets[y].age
  <2>1. <<x, y>> \in S \X S /\ <<x, y>>[1] = x /\ <<x, y>>[2] = y
    OBVIOUS
  <2>2. ~(buckets[x].age < buckets[y].age)
    BY <1>3, <2>1
  <2> QED
    BY <1>0, <2>2
<1> HIDE DEF R
<1>4. \E x \in S : \A y \in S : buckets[x].age >= buckets[y].age
  BY <1>2, <1>3
<1> QED
  BY <1>4 DEF Oldest

LEMMA TrackedStep == LimitInv /\ TrackedFit /\ [LimitNext]_limitVars => TrackedFit'
<1> SUFFICES ASSUME LimitInv, TrackedFit, [LimitNext]_limitVars PROVE TrackedFit'
  OBVIOUS
<1>0. MaxTracked \in Nat \ {0} /\ IsFiniteSet(Tracked) /\ Cardinality(Tracked) <= MaxTracked
      /\ Cardinality(Tracked) \in Nat
  BY RequestLimitsAssumption, FS_CardinalityType DEF TrackedFit
<1>1. ASSUME Tracked' \subseteq Tracked PROVE TrackedFit'
  <2>1. IsFiniteSet(Tracked') /\ Cardinality(Tracked') <= Cardinality(Tracked) /\ Cardinality(Tracked') \in Nat
    BY <1>0, <1>1, FS_Subset, FS_CardinalityType
  <2> QED
    BY <1>0, <2>1 DEF TrackedFit
<1>2. CASE UNCHANGED limitVars
  BY <1>1, <1>2 DEF limitVars, Tracked
<1>3. CASE LimitTick
  BY <1>1, <1>3 DEF LimitTick, Tracked
<1>4. ASSUME NEW c \in Credentials \cup {"none"}, NEW a \in Addresses, NEW method \in {"read", "write"},
             CheckRequest(c, a, method, c = "none")
      PROVE  TrackedFit'
  <2>1. PICK i : i = IdentityOf(c, a)
    OBVIOUS
  <2>2. PICK gone : gone = IF i \in Tracked THEN {} ELSE Pruned
    OBVIOUS
  <2>3. Tracked' \subseteq (Tracked \ gone) \cup {i}
    <3>1. \A j \in Identities : j # i => buckets'[j] = IF j \in gone THEN NoBucket ELSE buckets[j]
      BY <1>4, <2>1, <2>2 DEF CheckRequest
    <3> QED
      BY <3>1 DEF Tracked
  <2>4. CASE i \in Tracked
    BY <1>1, <2>2, <2>3, <2>4
  <2>5. CASE i \notin Tracked
    <3>1. PICK kept : kept = Tracked \ IdleBuckets
      OBVIOUS
    <3>2. gone = IdleBuckets \cup IF Cardinality(kept) >= MaxTracked THEN {Oldest(kept)} ELSE {}
      BY <2>2, <2>5, <3>1 DEF Pruned
    <3>3. /\ kept \subseteq Identities /\ IsFiniteSet(kept) /\ Cardinality(kept) <= MaxTracked
          /\ Cardinality(kept) \in Nat
      <4>1. kept \subseteq Tracked /\ Tracked \subseteq Identities
        BY <3>1 DEF Tracked
      <4>2. IsFiniteSet(kept) /\ Cardinality(kept) <= Cardinality(Tracked) /\ Cardinality(kept) \in Nat
        BY <1>0, <4>1, FS_Subset, FS_CardinalityType
      <4> QED
        BY <1>0, <4>1, <4>2
    <3>4. Tracked' \subseteq (kept \ gone) \cup {i}
      BY <2>3, <3>1, <3>2
    <3>5. Cardinality(kept) < MaxTracked \/ gone \cap kept # {}
      <4>1. CASE Cardinality(kept) >= MaxTracked
        <5>1. kept # {}
          BY <1>0, <4>1, FS_EmptySet
        <5>2. Oldest(kept) \in kept
          BY <3>3, <5>1, OldestIsOne
        <5> QED
          BY <3>2, <4>1, <5>2
      <4> QED
        BY <1>0, <3>3, <4>1
    <3>6. IsFiniteSet(Tracked') /\ Cardinality(Tracked') <= MaxTracked
      BY <1>0, <3>3, <3>4, <3>5, StaysWithin
    <3> QED
      BY <3>6 DEF TrackedFit
  <2> QED
    BY <2>4, <2>5
<1> QED
  BY <1>2, <1>3, <1>4 DEF LimitNext

LEMMA LimitIsTyped == LimitInv /\ TrackedFit => LimitTypeOK
<1> SUFFICES ASSUME LimitInv, TrackedFit PROVE LimitTypeOK
  OBVIOUS
<1>1. ASSUME NEW i \in Tracked
      PROVE  buckets[i].tokens \in 0..(PerMinute(i) * Minute) /\ buckets[i].age \in 0..(Ttl + 1)
  <2>1. i \in Identities /\ buckets[i] # NoBucket /\ buckets[i] \in Buckets /\ BucketOK(buckets[i], i)
    BY DEF Tracked, LimitInv
  <2>2. PICK full \in Nat : full = PerMinute(i) * Minute
    BY LimitConstants
  <2> QED
    BY <2>1, <2>2, LimitConstants DEF BucketOK, Buckets
<1> QED
  BY <1>1 DEF LimitInv, TrackedFit, LimitTypeOK

(* The packets are within their bound, and the table within its size: the  *)
(* flow that was seen the longest time ago makes room.                     *)
PacketsFit ==
    /\ captured <= MaxPackets /\ capturing \in BOOLEAN /\ token \in BOOLEAN
    /\ IsFiniteSet(HeldFlows(flowTable)) /\ Cardinality(HeldFlows(flowTable)) <= MaxFlows

LEMMA NothingHeldFits == IsFiniteSet(HeldFlows(NoBatch)) /\ Cardinality(HeldFlows(NoBatch)) <= MaxFlows
<1>1. HeldFlows(NoBatch) = {}
  BY DEF HeldFlows, NoBatch
<1> QED
  BY <1>1, FS_EmptySet, PacketCaptureAssumption

LEMMA PacketsFitStart == PacketCaptureInit => PacketsFit
BY NothingHeldFits, PacketCaptureAssumption DEF PacketCaptureInit, PacketsFit

LEMMA PacketsFitStep == PacketInv /\ PacketsFit /\ [PacketCaptureNext]_packetVars => PacketsFit'
<1> SUFFICES ASSUME PacketInv, PacketsFit, [PacketCaptureNext]_packetVars PROVE PacketsFit'
  OBVIOUS
<1>0. MaxFlows \in Nat \ {0} /\ MaxPackets \in Nat /\ captured \in Nat
  BY PacketCaptureAssumption DEF PacketInv
<1>1. ASSUME NEW t \in Tuples, ProcessPacket(t) PROVE PacketsFit'
  <2>1. PICK full \in BOOLEAN : full <=> flowTable[t] = {} /\ Cardinality(HeldFlows(flowTable)) >= MaxFlows
    OBVIOUS
  <2>2. PICK evicted \in IF full THEN {{old} : old \in OldestFlows} ELSE {{}} :
            flowTable' = [u \in Tuples |-> (IF u \in evicted THEN {} ELSE flowTable[u])
                                         \cup (IF u = t THEN {captured + 1} ELSE {})]
    BY <1>1, <2>1 DEF ProcessPacket
  <2>3. HeldFlows(flowTable') \subseteq (HeldFlows(flowTable) \ evicted) \cup {t}
    BY <2>2 DEF HeldFlows
  <2>4. full => evicted \cap HeldFlows(flowTable) # {}
    BY <2>2 DEF OldestFlows
  <2>5. Cardinality(HeldFlows(flowTable)) \in Nat
    BY FS_CardinalityType DEF PacketsFit
  <2>6. \/ Cardinality(HeldFlows(flowTable)) < MaxFlows \/ t \in HeldFlows(flowTable)
        \/ evicted \cap HeldFlows(flowTable) # {}
    BY <1>0, <2>1, <2>4, <2>5 DEF HeldFlows
  <2>7. IsFiniteSet(HeldFlows(flowTable')) /\ Cardinality(HeldFlows(flowTable')) <= MaxFlows
    BY <1>0, <2>3, <2>6, StaysWithin DEF PacketsFit
  <2>8. captured' <= MaxPackets /\ UNCHANGED <<capturing, token>>
    BY <1>0, <1>1 DEF ProcessPacket
  <2> QED
    BY <2>7, <2>8 DEF PacketsFit, HeldFlows
<1>2. CASE SenderFlushes \/ FinalFlush
  <2>1. flowTable' = NoBatch /\ UNCHANGED <<captured, capturing, token>>
    BY <1>2 DEF SenderFlushes, FinalFlush, Flush
  <2>2. HeldFlows(flowTable)' = HeldFlows(NoBatch)
    BY <2>1 DEF HeldFlows
  <2> QED
    BY <2>1, <2>2, NothingHeldFits DEF PacketsFit
<1>3. ASSUME UNCHANGED <<captured, flowTable>>, capturing' \in BOOLEAN, token' \in BOOLEAN PROVE PacketsFit'
  BY <1>3 DEF PacketsFit, HeldFlows
<1>4. CASE Shutdown \/ UNCHANGED packetVars
  BY <1>3, <1>4 DEF Shutdown, packetVars, PacketsFit
<1>5. ASSUME NEW p \in Posters, Authenticate(p) \/ PostFlows(p) PROVE PacketsFit'
  <2>1. UNCHANGED <<captured, flowTable, capturing>> /\ token' \in BOOLEAN
    BY <1>5 DEF Authenticate, PostFlows, PacketsFit
  <2> QED
    BY <1>3, <2>1 DEF PacketsFit
<1> QED
  BY <1>1, <1>2, <1>4, <1>5 DEF PacketCaptureNext

LEMMA PacketsAreTyped == PacketInv /\ PacketsFit => PacketCaptureTypeOK
<1> SUFFICES ASSUME PacketInv, PacketsFit PROVE PacketCaptureTypeOK
  OBVIOUS
<1>1. captured \in 0..MaxPackets /\ 1..captured \subseteq 1..MaxPackets
  BY PacketCaptureAssumption DEF PacketInv, PacketsFit
<1>2. givenUp \subseteq 1..captured /\ PacketsIn(flowTable) \subseteq 1..captured
  BY DEF PacketInv, Partition
<1>3. flowTable \in [Tuples -> SUBSET (1..MaxPackets)]
  BY <1>1, <1>2 DEF PacketInv, PacketsIn
<1>4. \A p \in Posters : poster[p].at \in {"waiting", "ending", "flushed", "authorised", "over"}
  BY DEF PacketInv, PosterStates
<1> QED
  BY <1>1, <1>2, <1>3, <1>4 DEF PacketsFit, PacketCaptureTypeOK

(* The answers of the model service have a kind, and a comparison counts.  *)
AnswersHaveKinds == \A a \in scored : a.kind \in {"flows", "logs"}

LEMMA KindsStart == ScoringInit => AnswersHaveKinds
BY DEF ScoringInit, AnswersHaveKinds

LEMMA KindsStep == AnswersHaveKinds /\ [ScoringNext]_scoringVars => AnswersHaveKinds'
<1> SUFFICES ASSUME AnswersHaveKinds, [ScoringNext]_scoringVars PROVE AnswersHaveKinds'
  OBVIOUS
<1>1. ASSUME NEW t, NEW a, Respond(t, a), a.kind \in {"flows", "logs"} PROVE AnswersHaveKinds'
  BY <1>1 DEF Respond, AnswersHaveKinds
<1>2. ASSUME NEW t \in Scorers, Combine(t) \/ ScoreLogs(t) PROVE AnswersHaveKinds'
  BY <1>1, <1>2 DEF Combine, ScoreLogs
<1>3. ASSUME UNCHANGED scored PROVE AnswersHaveKinds'
  BY <1>3 DEF AnswersHaveKinds
<1>4. ASSUME NEW t \in Scorers, \/ \E w \in DOMAIN WindowFlows \cup {LogWindow} : Ask(t, w)
                                \/ LoadFlowNet(t) \/ LoadLogNet(t) \/ MarkTried(t) \/ ScoreByNet(t)
      PROVE  UNCHANGED scored
  BY <1>4 DEF Ask, LoadFlowNet, LoadLogNet, LoadNet, MarkTried, ScoreByNet
<1> QED
  BY <1>2, <1>3, <1>4 DEF ScoringNext, scoringVars

ComparisonCounts == compared.pairs \in Nat

LEMMA ComparisonStart == RegistryInit => ComparisonCounts
BY DEF RegistryInit, ComparisonCounts, NotCompared

LEMMA ComparisonStep == RegistryInv /\ ComparisonCounts /\ [RegistryNext]_registryVars => ComparisonCounts'
<1> SUFFICES ASSUME RegistryInv, ComparisonCounts, [RegistryNext]_registryVars PROVE ComparisonCounts'
  OBVIOUS
<1>1. CASE CompareShadow
  <2> DEFINE paired == {i \in DOMAIN shadowed : shadowed[i].active # NoActive}
  <2>1. Len(shadowed) \in Nat /\ DOMAIN shadowed = 1..Len(shadowed)
    BY LenProperties DEF RegistryInv
  <2>2. IsFiniteSet(1..Len(shadowed))
    BY <2>1, FS_Interval
  <2>3. IsFiniteSet(paired)
    BY <2>1, <2>2, FS_Subset
  <2>4. Cardinality(paired) \in Nat /\ compared'.pairs = Cardinality(paired)
    BY <1>1, <2>3, FS_CardinalityType DEF CompareShadow
  <2> QED
    BY <2>4 DEF ComparisonCounts
<1>2. ASSUME UNCHANGED compared PROVE ComparisonCounts'
  BY <1>2 DEF ComparisonCounts
<1> QED
  BY <1>1, <1>2 DEF RegistryNext, registryVars, Register, Promote, Retire, ShadowScore

(* The monitor's flags.                                                    *)
MonitorFlags == monitorOn \in BOOLEAN /\ monitorWake \in BOOLEAN

LEMMA FlagsStart == DriftInit => MonitorFlags
BY DEF DriftInit, MonitorFlags

LEMMA FlagsStep == MonitorFlags /\ [DriftNext]_driftVars => MonitorFlags'
BY DEF MonitorFlags, DriftNext, driftVars, AddFlows, StartMonitor, StopMonitor, MonitorEnds,
       MonitorCycle, PublishGauge

(* The parts' invariants contain their types, with these beside them.      *)
LEMMA OthersAreTyped ==
    /\ RegistryInv /\ ComparisonCounts => RegistryTypeOK
    /\ ScoringInv /\ AnswersHaveKinds => ScoringTypeOK
    /\ MonitorInv /\ MonitorFlags => DriftTypeOK
    /\ SplitInv => LeakTypeOK
    /\ BusInv => FlowBusTypeOK
    /\ TallyInv /\ ReadInv => FlowsTypeOK
    /\ WaitInv => CaptureTypeOK
    /\ LogInv => LogsTypeOK
    /\ LifeInv => LifespanTypeOK
<1>1. ASSUME RegistryInv, ComparisonCounts PROVE RegistryTypeOK
  BY <1>1 DEF RegistryInv, Hist, EnteredStatuses, ComparisonCounts, RegistryTypeOK
<1>2. ASSUME ScoringInv, AnswersHaveKinds PROVE ScoringTypeOK
  <2>1. \A t \in Scorers : scoring[t].at \in {"rest", "flownet", "lognet", "mark", "score", "combine"}
    BY <1>2 DEF ScoringInv, ScoringStates, Resting, Steps
  <2>2. triedLoading \in BOOLEAN
    BY <1>2, Zenon DEF ScoringInv
  <2>3. /\ checkpoint \in [{"flownet", "lognet"} -> {"absent", "good", "bad"}]
        /\ loadedNets \subseteq {"flownet", "lognet"}
        /\ \A a \in scored : a.kind \in {"flows", "logs"}
    BY <1>2, Zenon DEF ScoringInv, AnswersHaveKinds
  <2> QED
    BY <2>1, <2>2, <2>3 DEF ScoringTypeOK
<1>3. ASSUME MonitorInv, MonitorFlags PROVE DriftTypeOK
  <2>1. fedFlows \in Seq(DriftFlows) /\ flowBuffer \in Seq(DriftFlows)
    BY <1>3 DEF MonitorInv, NewestOf
  <2>2. Len(flowBuffer) <= BufferedFlows
    <3>1. Len(fedFlows) \in Nat /\ BufferedFlows \in Nat
      BY <2>1, DriftAssumption, LenProperties
    <3>2. Len(flowBuffer) = IF Len(fedFlows) <= BufferedFlows THEN Len(fedFlows) ELSE BufferedFlows
      BY <1>3 DEF MonitorInv, NewestOf
    <3> QED
      BY <3>1, <3>2
  <2>3. monitor.at \in {"none", "waiting", "publishing", "ended"}
    BY <1>3 DEF MonitorInv, MonitorIs
  <2> QED
    BY <1>3, <2>1, <2>2, <2>3 DEF MonitorFlags, DriftTypeOK
<1>4. ASSUME SplitInv PROVE LeakTypeOK
  <2>1. blocking \subseteq {"not audited"} \cup LeakKinds
    <3>1. Found \subseteq LeakKinds
      BY DEF Found
    <3>2. CASE blocking = NotAudited
      BY <3>2, Zenon DEF NotAudited
    <3>3. CASE blocking # NotAudited
      <4>1. blocking \subseteq Found
        BY <1>4, <3>3 DEF SplitInv
      <4> QED
        BY <3>1, <4>1, Zenon
    <3> QED
      BY <3>2, <3>3, Zenon
  <2>2. SplitsTypeOK /\ fitted \subseteq CorpusWindows
        /\ caller \in [fitOn : SUBSET SUBSET CorpusWindows, rows : BOOLEAN]
    BY <1>4 DEF SplitInv, SplitsTypeOK
  <2> QED
    BY <2>1, <2>2, Zenon DEF LeakTypeOK
<1>5. ASSUME BusInv PROVE FlowBusTypeOK
  <2>1. ownsRetention \in BOOLEAN
    BY <1>5, Zenon DEF BusInv, TopicInv
  <2> QED
    BY <1>5, <2>1, Zenon DEF BusInv, PublishInv, TopicInv, Publishing, PublishReports, FlowBusTypeOK
<1>6. ASSUME TallyInv, ReadInv PROVE FlowsTypeOK
  <2>1. coverage \in {"none", "empty", "held"} /\ appending \in 0..appends /\ misread \in BOOLEAN
    BY <1>6, Zenon DEF ReadInv, TableIs, MemoIs
  <2> QED
    BY <1>6, <2>1, FlowsAreTyped
<1> QED
  BY <1>1, <1>2, <1>3, <1>4, <1>5, <1>6 DEF WaitInv, LogInv, LifeInv
-----------------------------------------------------------------------------
(* Around the core nothing is left behind: what is sent of a line as a     *)
(* flow is within the contract the route validates; a bridge that ends, at *)
(* its input's end or when it is told to, hands over every line that its   *)
(* loop took from the reader's queue, and what a signal finds in the queue *)
(* is lost; and at the end of a shutdown every loop was told to stop (the  *)
(* topic set-up is nobody's to stop) and what was opened is closed, unless *)
(* closing the bus raised.  tcpdump's bridge installs no handler for the   *)
(* signal and does lose what it holds.                                     *)
THEOREM EdgeLeavesNothingBehind ==
    ASSUME Bridge # "tcpdump"
    PROVE  EdgeSpec => []NothingLeftBehind
<1> DEFINE Inv == LifeInv /\ BridgesKeep
<1>1. EdgeInit => Inv
  BY EdgeStart, LifeStart, BridgesStart
<1>2. Inv /\ [EdgeNext]_edgeVars => Inv'
  BY EdgeStep, LifeStep, BridgesStep
<1>3. Inv => NothingLeftBehind
  BY LifeGood, BridgesGood, ContractIsKept DEF NothingLeftBehind
<1> QED
  BY <1>1, <1>2, <1>3, PTL DEF EdgeSpec

(* Where one bridge has a spool to itself nothing captured is lost without *)
(* being accounted for, or arrives twice, on any way from a sensor to the  *)
(* broker: whatever the backend answers or fails to answer, however often  *)
(* the container is killed, and however the two threads of the packet      *)
(* capture and the requests that share the producer interleave.            *)
THEOREM EdgeLosesNothing ==
    ASSUME NEW b, Bridges = {b}
    PROVE  EdgeSpec => []NothingLostOnTheWay
<1> DEFINE Inv == ShipperInv /\ PacketInv /\ BusInv
<1>1. EdgeInit => Inv
  BY EdgeStart, ShipperStart, PacketStart, BusStart
<1>2. Inv /\ [EdgeNext]_edgeVars => Inv'
  BY EdgeStep, ShipperStep, PacketStep, BusStep
<1>3. Inv => NothingLostOnTheWay
  BY ShipperGood, PacketGood, BusGood DEF NothingLostOnTheWay
<1> QED
  BY <1>1, <1>2, <1>3, PTL DEF EdgeSpec

(* A refusal is true, for any number of bridges, clients and requests: the *)
(* budget is what the route is taking in, who comes back when told to is   *)
(* let through, and a body over the cap gets no further than the cap.      *)
THEOREM EdgeRefusesHonestly == EdgeSpec => []AdmissionIsHonest
<1> DEFINE Inv == SharedInv /\ LimitInv /\ ChainInv
<1>1. EdgeInit => Inv
  BY EdgeStart, SharedStart, LimitStart DEF RequestChainInit, ChainInv
<1>2. Inv /\ [EdgeNext]_edgeVars => Inv'
  BY EdgeStep, SharedStep, LimitStep, ChainStep
<1>3. Inv => AdmissionIsHonest
  BY SharedGood, LimitGood, ChainGood DEF AdmissionIsHonest
<1> QED
  BY <1>1, <1>2, <1>3, PTL DEF EdgeSpec

(* Whatever windows there are and however they were divided, by a policy   *)
(* or by hand: the folds of a policy keep what it promises, what the audit *)
(* lets pass does too, its scaler with the statistics of the training fold *)
(* whatever was declared, and a split that a policy made, its scaler       *)
(* fitted and declared on the training windows, is blocked by nothing but  *)
(* a feature that gives the label away.                                    *)
THEOREM EdgeSplitsAreAudited == EdgeSpec => []SplitsAreAudited
<1>1. EdgeInit => SplitInv
  BY EdgeStart, SplitStart
<1>2. SplitInv /\ [EdgeNext]_edgeVars => SplitInv'
  BY EdgeStep, SplitStep
<1>3. SplitInv => SplitsAreAudited
  BY SplitsGood DEF SplitsAreAudited
<1> QED
  BY <1>1, <1>2, <1>3, PTL DEF EdgeSpec

(* While the tail holds what the store does of a window it answers as the  *)
(* store, and an empty screen gives the reason that is true; the rollup    *)
(* answers for a window of whole buckets what the stored flows add up to;  *)
(* and a read that says nothing was ever counted is right, or was misled   *)
(* by a memo that an append overtook: for any number of lines, flows,      *)
(* appends and readers.                                                    *)
THEOREM EdgeReadsAreHonest == EdgeSpec => []ReadsAnswerAsTheStore
<1> DEFINE Inv == LogInv /\ ReadInv /\ TallyInv
<1>1. EdgeInit => Inv
  BY EdgeStart, LogStart, ReadStart, TallyStart
<1>2. Inv /\ [EdgeNext]_edgeVars => Inv'
  BY EdgeStep, LogStep, ReadStep, TallyStep
<1>3. Inv => ReadsAnswerAsTheStore
  BY LogGood, ReadGood, TallyGood DEF ReadsAnswerAsTheStore
<1> QED
  BY <1>1, <1>2, <1>3, PTL DEF EdgeSpec

(* A measure means what it is called: the areas of a report are those of   *)
(* the ranking and its bins add up to the counts of its sweep, the drift   *)
(* gauges show the newest traffic there was when their cycle read it, and  *)
(* every value is in the bin whose edges hold it; whatever the scores, the *)
(* samples and the sizes are, and however the monitor is fed and stopped.  *)
THEOREM EdgeMeasuresAreTrue == EdgeSpec => []MeasuresMeanWhatTheySay
<1> DEFINE Inv == EvalInv /\ MonitorInv /\ BinsInv
<1>1. EdgeInit => Inv
  BY EdgeStart, EvalStart, MonitorStart, BinsStart
<1>2. Inv /\ [EdgeNext]_edgeVars => Inv'
  BY EdgeStep, EvalStep, MonitorStep, BinsStep
<1>3. Inv => MeasuresMeanWhatTheySay
  BY EvalGood, MonitorGood, BinsGood DEF MeasuresMeanWhatTheySay
<1> QED
  BY <1>1, <1>2, <1>3, PTL DEF EdgeSpec

(* Every part holds what its type invariant says it holds, within the      *)
(* bounds it was built with.                                               *)
EdgeTyped ==
    /\ focus \in Services
    /\ EngineInv /\ EngineRest /\ SharedInv /\ BridgesTypeOK /\ WaitInv /\ ComingInv
    /\ LimitInv /\ TrackedFit /\ TallyInv /\ ReadInv /\ LogInv /\ SplitInv
    /\ PacketInv /\ PacketsFit /\ EvalInv /\ MonitorInv /\ MonitorFlags /\ BinsInv
    /\ RegistryInv /\ ComparisonCounts /\ ScoringInv /\ AnswersHaveKinds
    /\ BusInv /\ ChainInv /\ LifeInv

THEOREM EdgeTypes == EdgeSpec => []EdgeTypeOK
<1>1. EdgeInit => EdgeTyped
  <2>1. EdgeInit => focus \in Services
    BY DEF EdgeInit
  <2> QED
    BY <2>1, EdgeStart, EngineInitInv, EngineRestStart, SharedStart, BridgesTypedStart, CaptureInitInv,
       LimitStart, TrackedStart, TallyStart, ReadStart, LogStart, SplitStart, PacketStart,
       PacketsFitStart, EvalStart, MonitorStart, FlagsStart, BinsStart, RegistryStart,
       ComparisonStart, ScoringStart, KindsStart, BusStart, LifeStart
       DEF EdgeTyped, RequestChainInit, ChainInv
<1>2. EdgeTyped /\ [EdgeNext]_edgeVars => EdgeTyped'
  BY EdgeStep, EngineStep, EngineRestStep, SharedStep, BridgesTypedStep, CaptureStep,
     LimitStep, TrackedStep, TallyStep, ReadStep, LogStep, SplitStep, PacketStep,
     PacketsFitStep, EvalStep, MonitorStep, FlagsStep, BinsStep, RegistryStep,
     ComparisonStep, ScoringStep, KindsStep, BusStep, ChainStep, LifeStep DEF EdgeTyped
<1>3. EdgeTyped => EdgeTypeOK
  BY EngineIsTyped, SharedGood, LimitIsTyped, PacketsAreTyped, EvaluationIsTyped, BinsAreTyped,
     ChainGood, OthersAreTyped DEF EdgeTyped, EdgeTypeOK
<1> QED
  BY <1>1, <1>2, <1>3, PTL DEF EdgeSpec
=============================================================================
