------------------------------- MODULE Webhooks -------------------------------
(***************************************************************************)
(* Outbound webhooks: the configured targets (services/webhook_targets.py, *)
(* endpoints/webhooks.py), the sender with its bounded retries             *)
(* (services/webhook_delivery.py) and the log of what was attempted        *)
(* (services/webhook_deliveries.py).  Routes run in a thread pool.  No     *)
(* part of src/ sets app.state.webhook_sender: HasSender is the deployment *)
(* that supplies a transport, as the tests do.                             *)
(***************************************************************************)
EXTENDS Integers, SequencesExt, Threadpool

CONSTANTS
    Urls,                   \* URLs an operator may register
    WellFormed, Allowlist,  \* those https and bare; those whose host is listed
    Floors,                 \* severities, as ranks
    HasSender,              \* a transport is wired
    MaxAttempts, BaseSeconds, Factor, MaxSeconds, Timeout, ReplayWindow,
    MaxRecords,             \* deliveries the log holds
    MaxDeliveries           \* bound: deliveries made

ASSUME WebhooksAssumption ==
    /\ WellFormed \subseteq Urls /\ Allowlist \subseteq Urls /\ Floors \subseteq Nat
    /\ HasSender \in BOOLEAN
    /\ {MaxAttempts, BaseSeconds, Factor, MaxRecords} \subseteq Nat \ {0}
    /\ MaxSeconds \in Nat /\ MaxSeconds >= BaseSeconds
    /\ {Timeout, ReplayWindow, MaxDeliveries} \subseteq Nat

VARIABLES
    targets,     \* _by_id and _order: the targets, oldest first
    making,      \* the registration each thread is in the middle of
    sending,     \* the delivery each thread is in the middle of
    log,         \* _records, newest first
    seen,        \* _seen
    recorded,    \* _recorded
    deliveries   \* deliveries begun

webhooksVars == <<targets, making, sending, log, seen, recorded, deliveries>>

Answers == {"public", "forbidden", "none"}        \* what a name resolves to
Replies == {"2xx", "4xx", "retryable", "timeout"} \* what the transport reports
Outcomes == {"delivered", "retry", "rejected", "blocked", "transport_error"}
None == [at |-> "none"]

Target == [id : Nat \ {0}, url : Urls, floor : Floors]
DeliveryRecord == [delivery : 1..MaxDeliveries, target : Nat, outcome : Outcomes,
                   attempts : 1..MaxAttempts]
Sending == [at : {"attempt", "report", "route"}, probe : BOOLEAN, url : Urls, waited : Nat,
            report : [delivery : 1..MaxDeliveries, target : Nat, attempts : 0..MaxAttempts,
                      outcome : Outcomes \cup {"none"}]]

WebhooksTypeOK ==
    /\ targets \in Seq(Target)
    /\ \A t \in Threads : making[t] # None => making[t].url \in Urls /\ making[t].floor \in Floors
    /\ \A t \in Threads : sending[t] # None => sending[t] \in Sending
    /\ log \in Seq(DeliveryRecord) /\ Len(log) <= MaxRecords
    /\ seen \subseteq 1..deliveries /\ recorded \in Nat /\ deliveries \in 0..MaxDeliveries

WebhooksInit ==
    /\ targets = <<>> /\ log = <<>> /\ seen = {} /\ recorded = 0 /\ deliveries = 0
    /\ making = [t \in Threads |-> None]
    /\ sending = [t \in Threads |-> None]
-----------------------------------------------------------------------------
(* validate_webhook_url: the URL's own form, then the allowlist, then every *)
(* address the host resolves to.                                           *)
Refusal(u, answer) ==
    CASE u \notin WellFormed -> "malformed"
      [] u \in WellFormed \ Allowlist -> "host_not_allowlisted"
      [] u \in WellFormed \cap Allowlist -> CASE answer = "none" -> "unresolvable_host"
                                              [] answer = "forbidden" -> "forbidden_address"
                                              [] answer = "public" -> "ok"

IdsIn(ts) == {ts[k].id : k \in DOMAIN ts}

(* _new_id: the lowest id no target has.                                   *)
NewId == CHOOSE i \in 1..(Len(targets) + 1) :
            i \notin IdsIn(targets) /\ \A j \in 1..(i - 1) : j \in IdsIn(targets)

(* create_webhook: the URL is accepted and no target has it ...            *)
CreateCheck(t, u, f) ==
    /\ making[t] = None /\ sending[t] = None
    /\ \E answer \in Answers : Refusal(u, answer) = "ok"
    /\ \A k \in DOMAIN targets : targets[k].url # u
    /\ making' = [making EXCEPT ![t] = [at |-> "id", url |-> u, floor |-> f]]
    /\ UNCHANGED <<targets, sending, log, seen, recorded, deliveries>>

(* ... an id is taken from the list as it now stands ...                   *)
TakeId(t) ==
    /\ making[t].at = "id"
    /\ making' = [making EXCEPT ![t] = [at |-> "add", id |-> NewId,
                                        url |-> @.url, floor |-> @.floor]]
    /\ UNCHANGED <<targets, sending, log, seen, recorded, deliveries>>

(* ... and the store takes the target, over one that has its id.           *)
AddTarget(t) ==
    /\ making[t].at = "add"
    /\ LET new == [id |-> making[t].id, url |-> making[t].url, floor |-> making[t].floor] IN
       targets' = IF new.id \in IdsIn(targets)
                  THEN [k \in DOMAIN targets |-> IF targets[k].id = new.id THEN new ELSE targets[k]]
                  ELSE Append(targets, new)
    /\ making' = [making EXCEPT ![t] = None]
    /\ UNCHANGED <<sending, log, seen, recorded, deliveries>>

DeleteWebhook(i) ==
    /\ \E k \in DOMAIN targets : targets[k].id = i /\ targets' = RemoveAt(targets, k)
    /\ UNCHANGED <<making, sending, log, seen, recorded, deliveries>>
-----------------------------------------------------------------------------
(* RetryPolicy.bounds: the longest wait before an attempt after the first. *)
AttemptBound(attempt) ==
    IF attempt = 1 THEN 0
    ELSE LET wait == BaseSeconds * Factor ^ (attempt - 2) IN
         IF wait \in 0..MaxSeconds THEN wait ELSE MaxSeconds

(* deliver (probe: one attempt, whatever the floor): the envelope is signed *)
(* once, before the first attempt.                                         *)
Start(t, target, probe) ==
    /\ making[t] = None /\ sending[t] = None /\ deliveries < MaxDeliveries
    /\ deliveries' = deliveries + 1
    /\ sending' = [sending EXCEPT ![t] =
          [at |-> "attempt", probe |-> probe, url |-> target.url, waited |-> 0,
           report |-> [delivery |-> deliveries + 1, target |-> target.id,
                       attempts |-> 0, outcome |-> "none"]]]
    /\ UNCHANGED <<targets, making, log, seen, recorded>>

(* _skip_reason: a target hears of its floor and above (receives).         *)
DeliverCase(t, k, severity) ==
    /\ HasSender /\ severity >= targets[k].floor
    /\ Start(t, targets[k], FALSE)

TestWebhook(t, k) == HasSender /\ Start(t, targets[k], TRUE)

(* _attempt: the destination is checked again at every attempt.            *)
Outcome(u, answer, reply) ==
    CASE Refusal(u, answer) = "unresolvable_host" -> "retry"
      [] Refusal(u, answer) \notin {"ok", "unresolvable_host"} -> "blocked"
      [] Refusal(u, answer) = "ok" -> CASE reply = "2xx" -> "delivered"
                                        [] reply = "4xx" -> "rejected"
                                        [] reply = "retryable" -> "retry"
                                        [] reply = "timeout" -> "transport_error"

(* Variant: the number of attempts is not bounded.                         *)
FinalForever(outcome, attempts, probe) == probe \/ outcome \in {"delivered", "rejected", "blocked"}

Final(outcome, attempts, probe) ==
    probe \/ outcome \in {"delivered", "rejected", "blocked"} \/ attempts = MaxAttempts

Attempt(t, answer, reply) ==
    /\ sending[t].at = "attempt"
    /\ LET s == sending[t]
           n == s.report.attempts + 1
           outcome == Outcome(s.url, answer, reply) IN
       sending' = [sending EXCEPT ![t] =
          [s EXCEPT !.at = IF Final(outcome, n, s.probe) THEN "report" ELSE "attempt",
                    !.waited = @ + AttemptBound(n) + Timeout,
                    !.report.attempts = n, !.report.outcome = outcome]]
    /\ UNCHANGED <<targets, making, log, seen, recorded, deliveries>>

(* Variant: a delivery is known by the records still held.                 *)
RecordOfHeld(report) ==
    /\ LET new == \A k \in DOMAIN log : log[k].delivery # report.delivery IN
       /\ log' = IF new THEN SubSeq(<<report>> \o log, 1, IF Len(log) < MaxRecords
                                                         THEN Len(log) + 1 ELSE MaxRecords)
                        ELSE log
       /\ recorded' = IF new THEN recorded + 1 ELSE recorded
    /\ seen' = seen \cup {report.delivery}

(* InMemoryDeliveryLog.record: idempotent on the delivery id; the oldest   *)
(* record is dropped past the cap and its id is remembered.                *)
RecordOf(report) ==
    /\ LET new == report.delivery \notin seen IN
       /\ log' = IF new THEN SubSeq(<<report>> \o log, 1, IF Len(log) < MaxRecords
                                                         THEN Len(log) + 1 ELSE MaxRecords)
                        ELSE log
       /\ recorded' = IF new THEN recorded + 1 ELSE recorded
    /\ seen' = seen \cup {report.delivery}

(* _report: the sender hands every attempted delivery to its sink.         *)
Report(t) ==
    /\ sending[t].at = "report"
    /\ RecordOf(sending[t].report)
    /\ sending' = [sending EXCEPT ![t] = IF sending[t].probe THEN [@ EXCEPT !.at = "route"]
                                                              ELSE None]
    /\ UNCHANGED <<targets, making, deliveries>>

(* test_webhook records the report it got back once more.                  *)
RouteRecords(t) ==
    /\ sending[t].at = "route"
    /\ RecordOf(sending[t].report)
    /\ sending' = [sending EXCEPT ![t] = None]
    /\ UNCHANGED <<targets, making, deliveries>>

WebhooksNext ==
    \/ \E t \in Threads, u \in Urls, f \in Floors : CreateCheck(t, u, f)
    \/ \E t \in Threads : TakeId(t) \/ AddTarget(t) \/ Report(t) \/ RouteRecords(t)
    \/ \E i \in IdsIn(targets) : DeleteWebhook(i)
    \/ \E t \in Threads, k \in DOMAIN targets :
          TestWebhook(t, k) \/ \E severity \in Floors : DeliverCase(t, k, severity)
    \/ \E t \in Threads, answer \in Answers, reply \in Replies : Attempt(t, answer, reply)

WebhooksSpec == WebhooksInit /\ [][WebhooksNext]_webhooksVars
-----------------------------------------------------------------------------
(* Every delivery attempted is counted once although the sink and the test *)
(* route both record it and the log drops old records: `recorded` is the   *)
(* number reported so far, and the records held are the newest of them     *)
(* (webhook_deliveries.py, InMemoryDeliveryLog).                           *)
EachDeliveryCountedOnce ==
    /\ recorded = Cardinality(seen)
    /\ Len(log) = IF recorded < MaxRecords THEN recorded ELSE MaxRecords
    /\ \A j, k \in DOMAIN log : log[j].delivery = log[k].delivery => j = k

(* A retry goes out under the signature of the first attempt, and still    *)
(* inside the window the receiver is told to accept one in, at the longest *)
(* waits and timeouts there are (webhook_delivery.py, REPLAY_WINDOW_SECONDS). *)
RetriesStillVerify ==
    \A t \in Threads : sending[t] # None /\ sending[t].at = "attempt" =>
        sending[t].waited + AttemptBound(sending[t].report.attempts + 1) <= ReplayWindow
=============================================================================
