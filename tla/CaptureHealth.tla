------------------------------ MODULE CaptureHealth ------------------------------
(***************************************************************************)
(* The health of the capture sensors: each sensor's reporter               *)
(* (capture/capture_heartbeat.py) posts a heartbeat every interval, and    *)
(* sooner after a failure; the registry (services/capture_health.py) keeps *)
(* the latest of each sensor up to a cap and calls one stale when it is    *)
(* older than the timeout.  Time is counted in ticks; a due reporter acts  *)
(* before the next one.                                                    *)
(***************************************************************************)
EXTENDS Naturals, FiniteSetsExt

CONSTANTS
    Sensors,
    Interval, FirstRetry,    \* the reporter's --interval and first retry
    StaleAfter, MaxSensors,  \* DEFAULT_HEARTBEAT_TIMEOUT_SECONDS, MAX_CAPTURE_SENSORS
    MaxEvents                \* bound: outages, expired tokens and stopped sensors

ASSUME CaptureHealthAssumption ==
    /\ {Interval, FirstRetry, StaleAfter, MaxSensors} \subseteq Nat \ {0}
    /\ FirstRetry <= Interval /\ MaxEvents \in Nat

VARIABLES
    age,        \* _sensors: ticks since the sensor's heartbeat; NoReport without one
    reporter,   \* each reporter's wait, its retry delay and its token
    up,         \* the backend answers
    fair,       \* history: for how long a sensor could have been recorded
    events

captureVars == <<age, reporter, up, fair, events>>

NoReport == StaleAfter + 2
Later(n) == Min({n + 1, StaleAfter + 1})

CaptureTypeOK ==
    /\ age \in [Sensors -> 0..NoReport]
    /\ reporter \in [Sensors -> [wait : Nat, retry : Nat \ {0}, running : BOOLEAN,
                               token : {"none", "good", "expired"}]]
    /\ up \in BOOLEAN /\ fair \in [Sensors -> 0..(StaleAfter + 1)] /\ events \in 0..MaxEvents

CaptureInit ==
    /\ age = [s \in Sensors |-> NoReport]
    /\ reporter = [s \in Sensors |-> [wait |-> 0, retry |-> FirstRetry, token |-> "none",
                                      running |-> TRUE]]
    /\ up = TRUE /\ fair = [s \in Sensors |-> 0] /\ events = 0
-----------------------------------------------------------------------------
Known(s) == age[s] # NoReport
Status(s) == IF age[s] <= StaleAfter THEN "healthy" ELSE "stale"
Live(s) == Known(s) /\ Status(s) = "healthy"
Held == {s \in Sensors : Known(s)}

(* snapshot: the fleet as a whole.                                         *)
Fleet == CASE Held = {} -> "unknown"
           [] Held # {} -> IF \E s \in Held : Status(s) = "stale" THEN "stale" ELSE "healthy"

(* record: a new sensor past the cap takes the place of the oldest stale   *)
(* one, or is refused.                                                     *)
Room(s) == Known(s) \/ Cardinality(Held) < MaxSensors \/ \E o \in Held : ~Live(o)

Recorded(s) ==
    IF Known(s) \/ Cardinality(Held) < MaxSensors
    THEN [age EXCEPT ![s] = 0]
    ELSE LET oldest == CHOOSE o \in Held : \A p \in Held : age[o] >= age[p] IN
         [age EXCEPT ![s] = 0, ![oldest] = NoReport]

(* Variant: a failed heartbeat is retried when the timeout is over.        *)
RetryAtTimeout(retry) == StaleAfter

NextRetry(retry) == Min({2 * retry, Interval})

Due(s) == reporter[s].running /\ reporter[s].wait = 0

Delivered(s) ==
    reporter' = [reporter EXCEPT ![s].wait = Interval, ![s].retry = FirstRetry, ![s].token = "good"]

Failed(s, token) ==
    reporter' = [reporter EXCEPT ![s].wait = reporter[s].retry,
                                 ![s].retry = NextRetry(@), ![s].token = token]

(* send_once, and the wait main gives it: no login, or a 401 that clears   *)
(* the token, or a registry full of live sensors, is a failure.            *)
SendOnce(s) ==
    /\ Due(s)
    /\ IF ~up THEN Failed(s, reporter[s].token) /\ UNCHANGED age
       ELSE IF reporter[s].token = "expired" THEN Failed(s, "none") /\ UNCHANGED age
       ELSE IF Room(s) THEN Delivered(s) /\ age' = Recorded(s)
       ELSE Failed(s, "good") /\ UNCHANGED age
    /\ UNCHANGED <<up, fair, events>>

TickOver ==
    /\ \A s \in Sensors : ~Due(s)
    /\ age' = [s \in Sensors |-> IF Known(s) THEN Later(age[s]) ELSE age[s]]
    /\ fair' = [s \in Sensors |-> IF up /\ Room(s) THEN Later(fair[s]) ELSE 0]
    /\ reporter' = [s \in Sensors |-> IF reporter[s].running
                                      THEN [reporter[s] EXCEPT !.wait = @ - 1] ELSE reporter[s]]
    /\ UNCHANGED <<up, events>>

(* What may happen to a sensor or to the backend; a new backend process    *)
(* has an empty registry.                                                  *)
Happens == events < MaxEvents /\ events' = events + 1

BackendDown == up /\ Happens /\ up' = FALSE /\ UNCHANGED <<age, reporter, fair>>

BackendUp(lost) ==
    /\ ~up /\ up' = TRUE
    /\ age' = IF lost THEN [s \in Sensors |-> NoReport] ELSE age
    /\ fair' = [s \in Sensors |-> 0]
    /\ UNCHANGED <<reporter, events>>

TokenExpires(s) ==
    /\ reporter[s].token = "good" /\ Happens
    /\ reporter' = [reporter EXCEPT ![s].token = "expired"]
    /\ fair' = [fair EXCEPT ![s] = 0]
    /\ UNCHANGED <<age, up>>

SensorStops(s) ==
    /\ reporter[s].running /\ Happens
    /\ reporter' = [reporter EXCEPT ![s].running = FALSE]
    /\ UNCHANGED <<age, up, fair>>

CaptureNext ==
    \/ TickOver \/ BackendDown \/ \E lost \in BOOLEAN : BackendUp(lost)
    \/ \E s \in Sensors : SendOnce(s) \/ TokenExpires(s) \/ SensorStops(s)

CaptureSpec == CaptureInit /\ [][CaptureNext]_captureVars
-----------------------------------------------------------------------------
(* A sensor that runs is reported healthy again within two intervals of    *)
(* the moment the backend answers and has room for it, whatever delay its  *)
(* failures had built up and though its token may have expired meanwhile;  *)
(* a full registry lets a new sensor in once one it holds is gone.         *)
RunningSensorsRecover ==
    \A s \in Sensors : reporter[s].running /\ fair[s] > 2 * Interval => Live(s)
=============================================================================
