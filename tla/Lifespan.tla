-------------------------------- MODULE Lifespan --------------------------------
(***************************************************************************)
(* The process from start to end (main.py, lifespan): the threads it       *)
(* starts and stops, in what order, and what it closes behind them.  A     *)
(* loop that is told to stop ends between two pieces of work; whoever told *)
(* it waits no longer than a timeout.  What the loops do is in their own   *)
(* modules; here the live scoring loop reads the bus and publishes to the  *)
(* hub, and the others keep to themselves.  The thread that sets the flow  *)
(* topic up is a daemon with clients of its own: it ends when it is done,  *)
(* and nobody stops it or waits for it.                                    *)
(***************************************************************************)
EXTENDS Naturals, Sequences, FiniteSets

CONSTANT Deployments   \* [kafka, database, stores]: what create_app was configured with

ASSUME LifespanAssumption ==
    Deployments \subseteq [kafka : BOOLEAN, database : BOOLEAN, stores : BOOLEAN]

VARIABLES
    deployment,
    phase,       \* starting, serving, stopping or over
    position,    \* the step of StartOrder or of StopOrder that is next
    loops,       \* of each thread: off, running, told to stop or ended
    closed,      \* what is closed: bus, hub, pool
    gaveUp,      \* history: the loops whose join timed out
    closeFailed, \* history: KafkaBus.close raised
    usedClosed   \* history: what was used after it was closed

lifeVars == <<deployment, phase, position, loops, closed, gaveUp, closeFailed, usedClosed>>

StartOrder == <<"engine", "retention", "topic", "live", "drift", "registrar">>
StopOrder == <<"engine", "retention", "live", "flush", "bus", "drift", "registrar", "hub", "pool">>
LoopIds == {StartOrder[i] : i \in DOMAIN StartOrder}

(* What create_app built for this deployment.                              *)
Built(part) ==
    CASE part \in {"topic", "live", "flush", "bus"} -> deployment.kafka
      [] part = "retention" -> deployment.database
      [] part = "pool" -> deployment.stores
      [] OTHER -> TRUE

LifespanTypeOK ==
    /\ deployment \in Deployments
    /\ phase \in {"starting", "serving", "stopping", "over"}
    /\ position \in 1..Len(StopOrder) + 1
    /\ loops \in [LoopIds -> {"off", "running", "told", "ended"}]
    /\ closed \subseteq {"bus", "hub", "pool"} /\ usedClosed \subseteq {"bus", "hub"}
    /\ gaveUp \subseteq LoopIds /\ closeFailed \in BOOLEAN

LifespanInit ==
    /\ deployment \in Deployments
    /\ phase = "starting" /\ position = 1
    /\ loops = [l \in LoopIds |-> "off"]
    /\ closed = {} /\ gaveUp = {} /\ closeFailed = FALSE /\ usedClosed = {}
-----------------------------------------------------------------------------
StartNext ==
    /\ phase = "starting"
    /\ IF position > Len(StartOrder)
       THEN phase' = "serving" /\ position' = 1 /\ UNCHANGED loops
       ELSE /\ loops' = IF Built(StartOrder[position])
                        THEN [loops EXCEPT ![StartOrder[position]] = "running"] ELSE loops
            /\ position' = position + 1
            /\ UNCHANGED phase
    /\ UNCHANGED <<deployment, closed, gaveUp, closeFailed, usedClosed>>

(* External: the server has finished its requests.                         *)
ShutdownBegins ==
    /\ phase = "serving"
    /\ phase' = "stopping"
    /\ UNCHANGED <<deployment, position, loops, closed, gaveUp, closeFailed, usedClosed>>

(* A thread at work: the live loop uses the bus and the hub.               *)
LiveWorks ==
    /\ loops["live"] \in {"running", "told"}
    /\ usedClosed' = usedClosed \cup (closed \cap {"bus", "hub"})
    /\ UNCHANGED <<deployment, phase, position, loops, closed, gaveUp, closeFailed>>

(* A loop returns when it was told to, the topic set-up when it is done.   *)
LoopReturns(l) ==
    /\ loops[l] = IF l = "topic" THEN "running" ELSE "told"
    /\ loops' = [loops EXCEPT ![l] = "ended"]
    /\ UNCHANGED <<deployment, phase, position, closed, gaveUp, closeFailed, usedClosed>>

At(part) == phase = "stopping" /\ position <= Len(StopOrder) /\ StopOrder[position] = part
NextStep == position' = position + 1 /\ UNCHANGED phase

Skip(part) ==
    /\ At(part) /\ ~Built(part)
    /\ NextStep
    /\ UNCHANGED <<deployment, loops, closed, gaveUp, closeFailed, usedClosed>>

(* Variant: nobody waits for the loop to end.                              *)
TellOnly(l) ==
    /\ At(l) /\ Built(l) /\ loops[l] = "running"
    /\ loops' = [loops EXCEPT ![l] = "told"]
    /\ NextStep
    /\ UNCHANGED <<deployment, closed, gaveUp, closeFailed, usedClosed>>

Tell(l) ==
    /\ At(l) /\ Built(l) /\ loops[l] = "running"
    /\ loops' = [loops EXCEPT ![l] = "told"]
    /\ UNCHANGED <<deployment, phase, position, closed, gaveUp, closeFailed, usedClosed>>

Join(l) ==
    /\ At(l) /\ loops[l] = "ended"
    /\ NextStep
    /\ UNCHANGED <<deployment, loops, closed, gaveUp, closeFailed, usedClosed>>

JoinTimesOut(l) ==
    /\ At(l) /\ loops[l] = "told"
    /\ gaveUp' = gaveUp \cup {l}
    /\ NextStep
    /\ UNCHANGED <<deployment, loops, closed, closeFailed, usedClosed>>

(* LiveScoringLoop.stop scores what is left, and its alerts are published. *)
FlushLeft ==
    /\ At("flush") /\ Built("flush")
    /\ usedClosed' = usedClosed \cup (closed \cap {"hub"})
    /\ NextStep
    /\ UNCHANGED <<deployment, loops, closed, gaveUp, closeFailed>>

Close(part) ==
    /\ At(part) /\ Built(part)
    /\ closed' = closed \cup {part}
    /\ NextStep
    /\ UNCHANGED <<deployment, loops, gaveUp, closeFailed, usedClosed>>

(* The last flush of the producer times out: nothing after it is stopped.  *)
CloseBusFails ==
    /\ At("bus") /\ Built("bus")
    /\ closeFailed' = TRUE
    /\ phase' = "over"
    /\ UNCHANGED <<deployment, position, loops, closed, gaveUp, usedClosed>>

Over ==
    /\ phase = "stopping" /\ position > Len(StopOrder)
    /\ phase' = "over"
    /\ UNCHANGED <<deployment, position, loops, closed, gaveUp, closeFailed, usedClosed>>

(* Variant: a loop that does not end is waited for.                        *)
StopNextPatient ==
    \/ \E l \in LoopIds : Tell(l) \/ Join(l)
    \/ \E part \in {StopOrder[i] : i \in DOMAIN StopOrder} : Skip(part)
    \/ FlushLeft \/ (\E part \in {"bus", "hub", "pool"} : Close(part)) \/ CloseBusFails \/ Over

StopNext ==
    \/ \E l \in LoopIds : Tell(l) \/ Join(l) \/ JoinTimesOut(l)
    \/ \E part \in {StopOrder[i] : i \in DOMAIN StopOrder} : Skip(part)
    \/ FlushLeft \/ (\E part \in {"bus", "hub", "pool"} : Close(part)) \/ CloseBusFails \/ Over

LifespanNext ==
    \/ StartNext \/ ShutdownBegins \/ StopNext
    \/ LiveWorks \/ \E l \in LoopIds : LoopReturns(l)

LifespanSpec == LifespanInit /\ [][LifespanNext]_lifeVars /\ WF_lifeVars(StopNext)
-----------------------------------------------------------------------------
(* A process that has ended its lifespan has told every loop it started,   *)
(* the topic set-up apart, and closed what it opened, unless closing the   *)
(* bus raised; and nothing was used after it was closed, unless the live   *)
(* loop outlasted its join (main.py, lifespan: "stop the live consumer     *)
(* first, so it scores what it has read and stops reading, then close the  *)
(* broker clients").                                                       *)
ShutdownIsOrderly ==
    /\ phase = "over" /\ ~closeFailed =>
           /\ \A l \in LoopIds \ {"topic"} : loops[l] # "running"
           /\ \A part \in {"bus", "hub", "pool"} : Built(part) => part \in closed
    /\ usedClosed # {} => "live" \in gaveUp

(* A shutdown comes to its end, whatever a thread is busy with.            *)
ShutdownEnds == phase = "stopping" ~> phase = "over"
=============================================================================
