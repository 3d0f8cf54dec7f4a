-------------------------------- MODULE Ingest --------------------------------
(***************************************************************************)
(* The ingest routes (endpoints/ingest.py) with the admission budget       *)
(* (limits.AdmissionController): a batch is validated and admitted whole,  *)
(* handed to the broker when one is wired, kept in the read model, fed to  *)
(* the in-process engine when no broker is wired, and answered.  The route *)
(* is a coroutine: it is interrupted only where it awaits, at the publish  *)
(* and at the store write.  Batches are sets; the shapes of records are in *)
(* Bridges.                                                                *)
(***************************************************************************)
EXTENDS Naturals, FiniteSets, FiniteSetsExt

CONSTANTS
    Records,     \* the records senders hold
    WellFormed,  \* those the route's schema accepts
    Limit,       \* MAX_FLOW_RECORDS or MAX_LOG_LINES
    Capacity,    \* AdmissionController._capacity
    Slots,       \* requests the process is serving at once
    Wirings,     \* how a deployment wires the routes
    MaxOutages   \* bound: failures of the broker or the store, and restarts

ASSUME IngestAssumption ==
    /\ WellFormed \subseteq Records /\ IsFiniteSet(Records)
    /\ Limit \in Nat \ {0} /\ Capacity \in Nat \ {0} /\ Slots # {}
    /\ Wirings \subseteq [broker : BOOLEAN, modality : {"flow", "log"}] /\ MaxOutages \in Nat

VARIABLES
    wiring,     \* app.state.flow_publisher is set or not, and which route it is
    request,    \* what each slot is serving, and its answer until it is read
    inFlight,   \* AdmissionController._in_flight
    shown,      \* records in the read model's store
    outages

ingestVars == <<wiring, request, inFlight, shown, outages>>

Free == [pc |-> "free"]
Taking == {"publish", "keep"}
Answers == {200, 413, 500, 503, 0}   \* 0: the connection closed without one

IngestTypeOK ==
    /\ wiring \in Wirings
    /\ request \in [Slots -> {Free}
            \cup [pc : Taking, batch : SUBSET Records]
            \cup [pc : {"answered"}, batch : SUBSET Records, status : Answers]]
    /\ inFlight \in 0..Capacity
    /\ shown \subseteq Records
    /\ outages \in 0..MaxOutages

IngestInit ==
    /\ wiring \in Wirings
    /\ request = [s \in Slots |-> Free]
    /\ inFlight = 0
    /\ shown = {}
    /\ outages = 0
-----------------------------------------------------------------------------
Accepted(batch) == batch \cap WellFormed

Answered(s, batch, status) ==
    request' = [request EXCEPT ![s] = [pc |-> "answered", batch |-> batch, status |-> status]]

Release(batch) == inFlight' = inFlight - Min({inFlight, Cardinality(Accepted(batch))})

Fails == outages < MaxOutages /\ outages' = outages + 1

(* Up to the first await: validation, then all-or-nothing admission.       *)
Receive(s, batch) ==
    /\ request[s] = Free
    /\ LET size == Cardinality(Accepted(batch)) IN
       \/ /\ Cardinality(batch) > Limit
          /\ Answered(s, batch, 413)
          /\ UNCHANGED inFlight
       \/ /\ Cardinality(batch) <= Limit /\ inFlight + size > Capacity
          /\ Answered(s, batch, 503)
          /\ UNCHANGED inFlight
       \/ /\ Cardinality(batch) <= Limit /\ inFlight + size <= Capacity
          /\ IF size = 0
             THEN Answered(s, batch, 200) /\ UNCHANGED inFlight
             ELSE /\ request' = [request EXCEPT ![s] =
                        [pc |-> IF wiring.broker THEN "publish" ELSE "keep", batch |-> batch]]
                  /\ inFlight' = inFlight + size
    /\ UNCHANGED <<wiring, shown, outages>>

(* Pipeline.publish keys every record by its src_ip, which only a flow has *)
(* (schemas/ingest.py): a log batch raises before anything is sent.        *)
Publish(s) ==
    /\ request[s].pc = "publish"
    /\ LET batch == request[s].batch IN
       IF wiring.modality = "flow"
       THEN request' = [request EXCEPT ![s].pc = "keep"] /\ UNCHANGED inFlight
       ELSE Answered(s, batch, 500) /\ Release(batch)
    /\ UNCHANGED <<wiring, shown, outages>>

(* flush() raised: over a record of this batch, or over one of another     *)
(* request's (FlowBus).                                                    *)
PublishFails(s) ==
    /\ request[s].pc = "publish" /\ wiring.modality = "flow"
    /\ Fails
    /\ Answered(s, request[s].batch, 500)
    /\ Release(request[s].batch)
    /\ UNCHANGED <<wiring, shown>>

Keep(s) ==
    /\ request[s].pc = "keep"
    /\ shown' = shown \cup Accepted(request[s].batch)
    /\ Answered(s, request[s].batch, 200)
    /\ Release(request[s].batch)
    /\ UNCHANGED <<wiring, outages>>

(* Variant: the budget is given back on success only.                      *)
KeepFailsHolding(s) ==
    /\ request[s].pc = "keep"
    /\ Fails
    /\ Answered(s, request[s].batch, 503)
    /\ UNCHANGED <<wiring, inFlight, shown>>

KeepFails(s) ==
    /\ request[s].pc = "keep"
    /\ Fails
    /\ Answered(s, request[s].batch, 503)
    /\ Release(request[s].batch)
    /\ UNCHANGED <<wiring, shown>>

(* A new process: a new budget, and no request of the old one is answered. *)
Restart ==
    /\ Fails
    /\ request' = [s \in Slots |->
           IF request[s].pc \in Taking
           THEN [pc |-> "answered", batch |-> request[s].batch, status |-> 0]
           ELSE request[s]]
    /\ inFlight' = 0
    /\ UNCHANGED <<wiring, shown>>

Serve ==
    \/ \E s \in Slots : Publish(s) \/ PublishFails(s) \/ Keep(s) \/ KeepFails(s)
    \/ Restart
-----------------------------------------------------------------------------
(* The budget holds exactly the records of the batches being taken in:     *)
(* every way out of the route gives back what it took, once.  A leak would *)
(* end in a process that refuses everything.                               *)
BeingTakenIn ==
    {sr \in Slots \X WellFormed : request[sr[1]].pc \in Taking /\ sr[2] \in request[sr[1]].batch}
BudgetIsInFlight == inFlight = Cardinality(BeingTakenIn)
=============================================================================
