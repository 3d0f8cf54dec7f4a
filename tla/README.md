# A TLA+ project for Aegis

Aegis takes network flows and log lines from sensors, scores windows of them
with neural models or rules, correlates the scores into alerts, and streams the
alerts to analysts' dashboards. This directory models the path a flow takes to
a screen and the services around it, checks them with TLC on small instances
and proves parts of them with TLAPS for every instance. It is written from the
source; where a comment or a docstring of the source promises something else
than the code does, a run shows the difference, or a note below says so.

## The system

    sensor -> shipper -> ingest API -> flow topic -> scoring worker -> correlator -> alert writer -> alert hub -> dashboard client
                              \-> detection engine (without Kafka) -> rule detector -> correlator

The backend is one FastAPI process. Its `def` endpoints run in a thread pool,
its WebSocket and SSE endpoints on the event loop, the scoring loop, the
detection engine, the model registrar and the retention scheduler on a thread
each. Almost every store is an in-memory object shared by these threads. The
model service is a separate process asked over HTTP; the dashboard is a React
application.

| Component | State | Operations | Talks to | Hard because |
|---|---|---|---|---|
| Scoring worker (`workers/scoring_worker.py`, `services/kafka_pipeline.py`, `messaging/producer.py`, `pipeline.py`) | per-source buffers and timers, committed offsets | read a batch, cut windows, score, commit, flush stale buffers, stop | broker, model service, correlator | offsets are committed while flows are still buffered; an exception leaves an emission half done; restart replays the topic |
| Correlator (`services/correlator.py`, `scoring/fusion.py`) | cases, evidence index | ingest: duplicate, group, absorb, create | worker or rule detector, alert writer | replays, two modalities in either order, late windows, bounded evidence |
| Alert hub (`services/alert_stream.py`, `endpoints/stream.py`) | sequence, retained window, subscriptions with queues | publish, subscribe, catch up, deliver, drop, close | publishing threads, each transport's event loop | delivery happens outside the lock, on another thread's loop, into a bounded queue |
| Stream client (`dashboard/src/api/realtime.ts`, `useAlertSync.ts`) | state, cursor, five timers, socket, poll chain | open, frames, close, reconnect, poll, pause, stop | hub over WebSocket or polling | late answers, timers and closes of transports already given up |
| Alert writer and store (`pipeline.py`, `alert_store.py`, `query_service.py`, `overview.py`) | rows by case | save, page, sum up | correlator, hub, request threads | rows refreshed while a client walks the pages |
| Flow bus (`messaging/`) | partitions, futures | create the topic, send, flush, read | ingest, worker | requests on several threads share one list of delivery futures |
| Detection engine and rule detector | bounded buffer, flow window, thread | feed, cycle, start, stop | ingest, correlator | drained flows and exceptions; restart |
| Middlewares (`api/middleware.py`) | bytes received, status | count, refuse, observe | every request | a body in pieces, an answer already begun |
| Process lifespan (`main.py`) | threads, clients, pool | start, tell, join, close | everything above | joins with timeouts; one step that raises |
| Ingest and limits | record budget, token buckets | admit, publish, keep, release | event loop, broker, request threads | interrupted at each await; eviction of buckets |
| Bridges and shipper (`capture/bridges/`) | batches, spool files | parse, map, flush, send, keep, drain | sensors, ingest route | crash between take and send; lost answers; a sensor that falls silent |
| Packet capture and capture health | flow table, heartbeats | capture, flush, post; report, list | ingest route | two threads over one table; retries against a staleness timeout |
| Sessions, sign-in throttle, accounts | spent tokens, revoked families, failure counters, roles | sign in, rotate, revoke, change role | request threads, Redis | check, then mark; restart forgets; Redis goes and comes |
| OIDC keys, API keys, route matrix | key cache, key records | fetch, verify, revoke, erase | provider, request threads | lock released during a fetch; whole-record writes |
| Model lifecycle | versions, transitions | register, evaluate, promote, roll back | request threads, registrar | two writes per transition |
| Verdicts and thresholds | append-only ledger, band bounds | judge, edit, recalibrate | request threads | check, then append; bounds that must stay ordered |
| Erasure and retention | ledger, targets, partitions | erase, drop, sweep | request threads, scheduler | a cascade that fails half-way; two runners at once |
| Webhooks | targets, delivery log | register, deliver, retry | request threads | retries; a target that changes meanwhile |
| Audit trail | entries, next sequence | append, page | request threads | four steps without a lock |
| Flow and log reads | rollup, tail, tables, coverage memo | append, read, evict | ingest, request tasks | statements interleaved with writes; a cap reached |
| Model service (`ml-service/aegis_ml`) | folds, report, registry, loaded nets | split, audit, evaluate, load, score | registrar, backend | leaks between folds; metrics without a value; two threads loading |
| Drift monitor | flow buffer, gauges | feed, cycle, start, stop | ingest, its thread | a window replaced while it is counted |
| Configuration, persistence schema, networks, exports, screens | | | | mostly numbers, text and reads |

What makes each of them correct: the worker accounts for every flow whose
offset it committed and puts each in one window; the correlator counts every
window once, in one case, and a case never shows less than it did; the hub
loses, repeats and reorders nothing without saying so; the client is never left
without something that will move it on, and what was published is re-read; the
writer has one current row per case; a session has one live refresh token; a
model kind has at most one active version; verdicts of an alert form one chain;
an erasure either is complete or can be asked for again; the shipper delivers
each captured batch at least once.

`PROJECT.json` lists every component with its status, every hazard with its
line, and for each definition the lines it stands for.

## Modules

| Module | What it models |
|---|---|
| `WindowStream` | Abstract: windows leave a source's waiting flows from the front, nothing skipped or shared. |
| `ScoringWorker` | `LiveScoringLoop` driving `ScoringWorker` over the partitions of a topic. |
| `AlertHub` | `AlertHub`, `AlertSubscription` and `_frames`. |
| `AlertStreamClient` | `AlertStreamClient` and `useAlertSync`, the sockets between and the hub's catch-up (an `INSTANCE` of `AlertHub`). |
| `IncidentLedger` | Abstract: each window is counted in one case, once, and stays there. |
| `Correlator` | `Correlator` over `InMemoryCaseStore` with the fusion rule. |
| `Threadpool` | The threads a route that is not a coroutine runs in. |
| `Sessions` | The user directory with role changes; sign-in, rotation, revocation, restart over it. |
| `LoginThrottle` | The failed sign-in limit, in Redis or in the local fallback. |
| `OidcSignIn` | The provider's key cache as the callbacks of two threads use it. |
| `ApiKeys`, `Rbac` | Machine credentials and their races; the route matrix with both kinds of credential. |
| `ModelOps` | Registration, evaluation, promotion and rollback, a write at a time. |
| `Thresholds` | The verdict ledger; band bounds set by hand or recalibrated from it. |
| `AlertDesk` | The alert rows, the pages over them and the overview. |
| `Webhooks` | Targets, delivery with retries, the delivery log. |
| `Retention`, `Erasure`, `AuditTrail` | Partition drops and sweeps by two runners; the erasure cascade; the audit trail. |
| `DetectionEngine` | Six rules over a source's window; the engine thread that runs them. |
| `Ingest`, `Shipper` | The ingest route with its record budget; the bridges' delivery into it. |
| `FlowBus` | The broker's producer under concurrent publishes, and the creation of the topic. |
| `RequestChain` | One request through metrics, rate limit and size cap; the token buckets per credential and per address. |
| `Lifespan` | The threads of the process, from start to shutdown. |
| `Bridges` | Parsers, the mapping to the wire contract, the batching loop. |
| `PacketCapture`, `CaptureHealth` | The host capture's two threads; heartbeats and their registry. |
| `FlowReads`, `LogReads` | What GET /flows and GET /logs answer, from memory and from the tables. |
| `DataSplits`, `Evaluation` | The folds, the audit of them, the metrics a model is promoted on. |
| `ModelServing` | Loaded versions and the shadow comparison; the scoring endpoints' lazy load. |
| `Drift` | The drift monitor; quantile bins. |
| `AlertHubProofs`, `ScoringWorkerProofs`, `AlertStreamClientProofs`, `CorrelatorProofs` | Theorems about the module of that name. |
| `BackendProofs` | Theorems about the services of `MCBackend`. |
| `EdgeProofs` | Theorems about `DetectionEngine`, `CaptureHealth` and the services of `MCEdge`. |
| `MeasureProofs` | What they rest on for reads and measures: sums and ranks, and the invariants of `FlowReads`, `LogReads`, `Drift` and `Evaluation`. |
| `IdentityProofs` | Theorems about the services of `MCIdentity`. |
| `MCIdentity`, `MCBackend`, `MCEdge` | Compositions of the modules above, see "One instance, one busy service". |

Definitions marked "Variant" are wrong versions of the definition that follows
them. The runs use them to show that each property can fail.

### ScoringWorker

`pending`, `order` and `since` are the worker's `_pending` (a dictionary, whose
insertion order decides which source is cut first) and `_since`. `committed` is
the `OffsetTracker`. `_emit` is not atomic: `Read` (or `FlushStale`, or `Stop`'s
flush) starts an emission, `Skip`, `TakeChunk` and `Score` advance it source by
source and window by window, `Commit` or `FlushDone` end it, and `ScoreFails`,
`SaveFails` and a chunk out of time order leave it from wherever it stands,
with the loop starting over at the first partition. `seen` is the correlator's
evidence index, by which a window with a known identity is ignored. `scored`
and `dropped` are history: the windows counted, and the flows that left the
buffer without being counted. `Restart` may strike at any step; the topic
survives, everything in memory does not.

Offsets count from 1, so 0 is "nothing committed". Clock ages are abstracted:
any buffered source may be found stale. Batches are read in order from the
committed offset, as the tracker does it; consumer-group rebalancing does not
exist in this program, which assigns itself every partition.

### AlertHub

An alert is its sequence number. `Publish` is the part of `publish` under the
lock; `Deliver(t, s)` is one turn of its loop outside the lock. `loop[s]` holds
callbacks scheduled with `call_soon_threadsafe`, run in order by `RunCallback`.
`next()` is `CheckDropped` (look at the drop reason), then `Receive`: between
the two the consumer waits in the queue, and `Heartbeat` is the transport's
timeout there. `CloseHub` detaches all subscriptions at once and `MarkShutdown`
reaches them one by one. `LoopCloses` is a transport's loop closing underneath
its subscription. `sent`, `start` and `told` record what the client was sent,
the next sequence when it registered and the cursor in its drop frame.

### AlertStreamClient

A socket is a browser state and a wire of frames still to be delivered. The
server's side of it is the hub with delivery already done: a publish puts a
frame on the wire of every subscribed socket or, if the socket is slow, drops
it with the last live sequence. `pollTimers` counts poll timeouts that will
fire and `pollHandle` says whether `this.pollTimer` still names one, because a
chain that is shown again while a poll is in flight leaves a second one running.
`shown` is how many alerts existed when the stream last caused a re-read; the
overview, triage and traffic screens also refetch at intervals of their own,
which the model leaves out, so `EventuallyShown` is about what the stream and
its fallback promise without them.

Left out: `retryNow`, which no component calls; a start after a stop; ping and
pong; the epoch, which the client receives and never compares. A poll's answer
is computed when it arrives, which gives it the newest content it can have; an
older answer would be like a slower poll.

### Correlator

One entity, since the store never looks across entities. A window is a record
of family, modality, score and close time, known by its place in the delivery
order; times and scores are drawn from small sets in any order. A score is a
tenth and a composite a two-hundredth, so that the fusion weights (0.6 and 0.4,
or 0.75 alone) and the bands (0.90, 0.75, 0.55, 0.35) are whole numbers.
`_correlate` is `Duplicate \/ Group \/ Absorb \/ Create` in the code's order of
tests. Case status is left out: no part of the program writes `closed` into the
case store. Only flow windows reach the correlator in today's composition; the
log modality is modelled because the class accepts and tests it.

### Who may do what: Sessions, LoginThrottle, OidcSignIn, ApiKeys, Rbac

A route that is not a coroutine runs in the thread pool, so an operation is cut
wherever it reads shared state and writes it later without a lock: `req[t]` (or
its like in the other modules) holds what thread t has read. A refresh token is
its position in the order of issue and a family is the first of its tokens.
`Restart` forgets spent and revoked tokens, as the in-memory store does, and
keeps the signing key. Histories name the overlaps under which a promise is not
kept by the code as it is: `raced` in `ApiKeys` says that a thread has written
back a copy of a record that changed after it was read, and `LiveKeysVerify`
promises nothing from there on. `LimitHolds` counts the attempts that may
already have passed the check when the limit is reached, one per thread, and
is about a Redis that is up or down: while one answers reads and refuses writes
(`"readonly"`), failures are counted in the fallback and checks read Redis, so
nothing holds there.
Passwords, signatures and digests are what they decide.

In `Rbac` a request has three places for a credential: `Authorization`, `X-API-Key` and
the subprotocol of a WebSocket. Every HTTP route asks `AuthenticateRequest`, which refuses two
credentials; the socket `alerts/ws` asks `authenticate` itself (`Answer`), goes by the
bearer token or the subprotocol's, and does not look at `X-API-Key`. `GoesBy` names the
token a route goes by, and `MatrixIsEnforced` is stated over it.

### Alerts and models at rest: ModelOps, Thresholds, AlertDesk, Webhooks, Retention, Erasure, AuditTrail

A promotion is its guard, the retirement of the previous version, the activation
of the next and the transition's record; every write replaces the record that
was read. `ServingFollowsHistory` compares the active versions with the recorded
transitions, for a kind on which no two operations overlapped and none is under
way. `Thresholds` has the verdict
ledger and, on the feedback it gives, the band bounds. `EditsKeepBandOrder` is about
a bound set by hand: `set_manual` checks the value against the other three, and after an
edit that no other write overlapped the bands are in order whatever stood before. A
recalibration looks at one bound alone (`recalibration.py`), so one that overlaps nothing
can cross its neighbour, and nothing is claimed after it until the next edit. `AlertDesk`, `Erasure` and `AuditTrail` keep a
client's walk over pages as state, because rows are written between its
requests. `Webhooks` has the sender a deployment supplies, since no part of the
program calls `deliver`; a retry resolves the address again and carries the
signature of the first attempt. That a deleted target's id may be given to another has no
property of its own. `Retention` has the scheduler's run and an operator's, each partition,
sweep batch and table a step; `KeepsItsPromise` says that no step of either
removes a row whose days are not over, or an entity an alert still names.

`Erasure` has three stores, since `PostgresUserStore.erase_owner` deletes the row in a
transaction and then, in the process, the keys of its owner: either step may raise,
and the keys are reached only if there was a row. `found` is what the deletion
counted; `trailed` says of each store and subject which registrations an erasure that the
trail names was to clear (`Owed`), and `RecordedMeansErased` is about those stores. That the
keys go with every erased user, as the docstrings have it, is not so (see "Other
disagreements").

### What surrounds the core: DetectionEngine, Ingest, Shipper, Bridges, PacketCapture, CaptureHealth, FlowBus, RequestChain, Lifespan

The ingest route is a coroutine: it is cut at its awaits, the publish and the
store write. `Shipper` extends it and drives it from bridges with one spool
directory; an answer may be lost after the work is done, so a record can arrive
twice, and `NothingLostUncounted` says where every record handed to a shipper is:
where a reader finds it, in the spool, in the hands of a running bridge, counted
as dropped, refused as malformed, or lost with a killed bridge that held it. A
`tcpdump` bridge and a second bridge on one spool lose records in ways listed
under "Other disagreements"; the `edge` run has one Suricata bridge and
one bridge per spool. `DetectionEngine` has the event loop that feeds, the
thread that drains and scans, and the lifespan that starts and stops it; the
rules see whole windows and are the operators that come first in the module.

`Bridges` has the reader thread of the Zeek and the Suricata bridge (`Pump`), whose queue has no
bound: `queued` is what it has read and the loop has not. SIGTERM sends what is held and
loses what is queued, for these bridges too; so `NothingHeldAtTheEnd` says that each line
was handed over, was still in the queue, or was never read. tcpdump's bridge reads its input
itself, and its parser gives the protocol (`ParsedProtocol`).

`FlowBus` is what `Ingest`'s publish step stands for: requests on several threads,
a record's future, and `_pending`, which they share. `taken` is what a request
waits for, `batch` what it sent; `alone` records that no other overlapped it, and
only then are the two the same. `RequestChain` follows one request: `received` is
what the size cap has counted, `seen` what the application was given, `status`
what the metrics will report. `Lifespan` walks the two orders of `lifespan`; a
thread that is told to stop ends in its own time, a join that times out leaves it
running (`gaveUp`), and `usedClosed` records what it touches afterwards. The topic set-up
is a thread too (`main.py:187-191`); nobody tells it to stop or waits for it, so it may
run on after the shutdown.

### Reads, data and models: FlowReads, LogReads, DataSplits, Evaluation, ModelServing, Drift

`FlowReads` and `LogReads` keep the records that were written beside the read
model, and state that what is answered is what those records give, up to the
caps and the evictions the code announces. A store's read is a step per
statement. `DataSplits` computes the four policies' folds over every small
corpus; its audit may be shown a fold edited by hand, and a scaler fitted on
more than the training fold, whatever is declared (`caller`). All five checks are there: time, entity,
record, the scaler as declared and by its mean and deviation, and a feature that separates the
labels, which is asked for only when rows are given. A window has one feature (`ValueOf`); the
scaler's statistics are compared exactly, without the code's tolerance. So `AuditIsExact` says
both what an unblocked release has and that a policy's own split, its scaler fitted and
declared on the training windows, is blocked by a separating feature alone: `test_audit.py:240-246` and
`382-398` have the audit block such a corpus and such a scaler. It is
about corpora in which no two windows share entity and start, the audit's name of a window.
`Evaluation` computes in fractions, in parts of `Parts`, a number that every size of the
sample divides; a metric without a value is `Undefined`. `ModelServing` has two scorers that may load one
checkpoint at once; the statistical score is a sum of indicators, of which the model keeps the
shares over flows with a known state or duration, the sizes in bytes and the DNS service.
`RegistryIsAHistory` ties the registry's statuses to the transitions: one active version per kind, each
version where its last transition put it. A model of this registry is promoted and retired; rolling back is
`ModelOps`'s.

### One instance, one busy service

`MCIdentity`, `MCBackend` and `MCEdge` each put a group of services in one
instance. The services of a group share no state beyond what one module extends,
so interleaving them would multiply states and show nothing: `focus`, chosen at
the start, says which of them is busy, and the others stay in their initial
states. Every property of these runs is a conjunction whose parts are guarded by
`focus`, each part a named property of its module. Every part has a variant
(see above) that breaks it; `PROJECT.json` lists one for each property. TLC
counts the composed next-state relation as one action; its counts per line show
that each action and each disjunct of the modules fires.

| Run's property | Made of |
|---|---|
| `SignInHolds` | `LateRefreshRefused`, `GrantsCurrentRole`, `AdminFloor`, `LimitHolds`, `RotationIsSeen` |
| `CredentialsOpenWhatTheyGrant` | `LiveKeysVerify`, `MatrixIsEnforced` |
| `ReadsAreExact` | `WalkIsComplete`, `OverviewAddsUp`, `LedgerWalkIsComplete`, `PagesCanBeCited` |
| `DeliveriesAreHonest` | `EachDeliveryCountedOnce`, `RetriesStillVerify` |
| `CasesAreTrue` | `SpansItsEvidence`, `OneCasePerCoolDown`, `PairIsOneIncident` |
| `AdmissionIsHonest` | `BudgetIsInFlight`, `RetryAfterIsKept`, `AnsweredOnceWithinTheCap` |
| `NothingLostOnTheWay` | `NothingLostUncounted`, `PacketsGoOnce`, `FailuresAreReported`, `ReadyTopicIsConfigured` |
| `NothingLeftBehind` | `FlowsKeepTheContract`, `NothingHeldAtTheEnd`, `ShutdownIsOrderly` |
| `ReadsAnswerAsTheStore` | `RollupAnswersAsStore`, `EmptyMeansEmpty`, `TailAnswersAsStore`, `EmptyScreenSaysWhy` |
| `SplitsAreAudited` | `FoldsDoNotLeak`, `AuditIsExact` |
| `MeasuresMeanWhatTheySay` | `MetricsMeanWhatTheySay`, `GaugesShowTheNewest`, `BinsHoldTheirValues` |
| `ServiceKnowsItsModels` | `RegistryIsAHistory`, `AnswersByTheLoadedModel` |
| `WorkIsFinished` | `EngineDrains`, `HeldIsSent`, `ShutdownEnds` |

## Runs

| Run | Question | Bounds |
|---|---|---|
| `worker_faults` | Where is each committed flow, under failed scores and saves, out-of-order flows, stale flushes, a stop, a restart? | Two interchangeable sources on one partition, windows of 2, batches of up to 3, three flows, two exceptions, one restart. Three flows are a full window and a remainder, and a batch of three holds both; two exceptions let a replay fail again. |
| `worker_stream` | Without exceptions, is each flow held or scored once (`HeldOrScoredOnce`), is no full window held back, is the worker a `WindowStream`, and is every flow scored? | Two partitions with a source each, windows of 2, batches of up to 3, four flows per partition: a carried flow and a full batch make two windows in one emission. |
| `worker_retry` | *(violated)* Is a committed flow never lost? | The same with one exception. |
| `hub_threads` | Loss, duplication, honest catch-up and wake-ups under two publishing threads; gapless frames and exact resume while one of them publishes (`DeliveredOnceInOrder`). | Four alerts, two retained, queue of one: the buffer evicts, the queue fills on its second alert, every cursor from none to beyond the newest is tried. |
| `hub_order` | *(violated)* Publish order with two publishers. | Two alerts. |
| `client_recovers` | Is the client ever stranded, and is every alert re-read? | Two alerts, one retained, two faults of any kind, one act of the user, two sockets (an abandoned one and its successor). |
| `client_polling_only` | *(violated)* The same when no WebSocket ever opens. | One alert, no faults. |
| `client_handshake` | *(violated)* The same when the peer may vanish between `onopen` and `ready`. | One alert, one fault. |
| `flow_bus` | *(violated)* Is a publish accepted only when the broker has its records? | Two requests of one or two records, two records. |
| `identity` | Refreshes that are late or spent, the last administrator, the sign-in limit, the provider's key rotation, API keys in use while they end, the route matrix. | Two threads, two users, two refresh tokens and one restart; two e-mails and one address with limits of 2 and 3, one switch of Redis; two keys of two owners; two provider keys over three ticks with a lifetime of 2 and a floor of 1. Two tokens are a token and its successor; two threads are the check and the write that overtakes it. |
| `backend` | Serving against history, verdict chains, exact pages and overview, ordered bands, deliveries, retention, erasures that clear what they were to clear, and the correlator: counting, spans, grouping, cool-down, severity. | Two threads; three versions of a kind and two transitions; three verdicts on one alert; three cases with pages of one; two deliveries, five attempts each; months starting on days 0, 1, 3 and 4, two rows, two runs; subjects of both kinds with a store that fails; three audit entries; the correlator with four windows, two families, both modalities, two scores, three times around a group window of 1 and a cool-down of 2, two windows retained: eviction, late arrival and every boundary occur. |
| `edge` | Engine, admission, delivery, bridges, heartbeats, publishing, middlewares, shutdown, reads, folds, metrics, loaded models. | Two records of a bridge and two of another client, budget and spool of one, one outage and one kill, two attempts, both wirings and both modalities; engine buffer of three and four flows fed; two sensors of which the registry holds one, a staleness of 6 for an interval of 2; two addresses and a credential over buckets that expire; two appends to the read models with reads between; corpora of up to three windows; three examples in every order; four flows fed to a drift monitor started twice; two threads scoring; two publishing requests and two attempts at the topic; bodies of up to three pieces of 0 to 2 bytes against a cap of 2; every deployment with or without broker, database and stores. |

The hub runs have one subscriber: subscribers share the buffer and the sequence
only, and the proofs cover any number. Deadlock is not checked in any run: each
model stops at its bounds, and the worker after `Stop`. Symmetry is used for
interchangeable sources in `worker_faults`, for threads in `identity`, and for
threads and attack families in `backend`; these runs have no liveness property.

### What the violated runs show

* `worker_retry`: a chunk leaves the buffer before it is scored. If the score
  fails, the batch that failed is read again, but flows that were buffered in
  an *earlier*, committed batch, or released by a stale flush, are not. The
  comment promises a retry.
* `hub_order`: two publishing threads may deliver in the opposite order of
  their numbers; `next()` is documented to return notifications in publish
  order. In today's composition alerts are published by the scoring thread, and
  by the main thread only while it shuts the loop down.
* `client_polling_only`: `GET .../notifications` without a cursor returns
  nothing, while its description says that it returns the retained window. A
  client whose socket never opened has no cursor and never gets one by polling.
* `client_handshake`: no timer watches a socket from `onopen` to its first
  frame.
* `flow_bus`: "a record is only counted as taken in once the broker has it", but
  `_pending` belongs to the bus and the ingest route publishes in the thread
  pool. The request that flushes first waits for everybody's records; the second
  finds nothing to wait for and is accepted while its record is still queued. A
  failure is then reported to the wrong sender, who sends again what arrived.

### Other disagreements

Met while modelling, and too small or too plain for a run of their own. Where a
property would fail because of one, its statement excludes the case by name.

* A grouped case is said to score higher than either penalised single-modality
  score (`correlator.py:33-36`): 0.4 from the flow model and then 1.0 from the log
  model fuse to 0.64, and the log window alone would have had 0.75. In the other
  order the case keeps 0.75.
* The last flush in `KafkaBus.close` may time out; `lifespan` then leaves the
  drift monitor, the registrar, the hub and the pool as they were (`closeFailed`).
* The size cap answers 413 when the body crosses it, except on routes whose JSON
  body the framework reads: its parser turns the signal into a 400.
* Audit entries appended at once can take the same sequence (`audit_log.py`), and
  a page that ends between the two skips one.
* Overlapping promotions of a kind can leave two active versions; overlapping
  demotions can leave no administrator; overlapping edits of two neighbouring
  bounds can cross them, and so can a recalibration on its own. `opsOverlapped`,
  `overlapped` and `unchecked` mark the case.
* A use of an API key writes back the record it read, so a key revoked or erased
  in between is live again.
* The log records of the Suricata and Zeek bridges lack fields of the log
  contract and are refused by the route.
* Two bridges given one spool directory (`docker-compose.yml`) share a file that
  each reads, sends and replaces on its own: what one appends meanwhile is lost.
* "The cache is dropped by `append`, so a read after a write never describes the state
  before it" (`flow_store.py:96-97`): a coverage query that was sent before an append
  and answered after it puts the old memo back for its time to live. `misread` marks the
  memo, and `EmptyMeansEmpty` says that no other read is misled.
* The tcpdump bridge sends nothing on silence and loses its last batch when it is
  told to stop. The other two lose what their reader thread has queued.
* "Records with a protocol outside tcp/udp/icmp ... are dropped, not
  rewritten" is the contract of `to_flow_v1`; tcpdump's parser calls every packet that is
  no DNS query `tcp` (`tcpdump_bridge.py:297`), so an ICMP packet is sent as TCP.
  `FlowsKeepTheContract` excludes the protocol of tcpdump's lines.
* An engine started again after a stop has no thread, since `stop` sets an event
  that `start` never clears; the drift monitor's wake event is not cleared either.
* The overview counts verdicts from a column nothing writes; stored thresholds are
  never read by the correlator; the verdict route does not ask whether the alert
  exists; the webhook sender has no caller.
* "A user's data lives in ``users`` (and cascades to their API keys)" (`erasure.py:90-91`):
  the cascade follows a deleted row. Accounts are in memory and the table "holds only the
  rows written to it directly" (`main.py:533-534`), so as wired there is seldom a row, the erasure
  is recorded and the keys stay; and a failure between row and keys leaves a repeat
  without a row to find, which is recorded all the same. `found` marks the case.
* A retention run that fails records none of the drops it made.
* `family_split` says that held-out windows are counted as dropped, and counts
  none; its training windows may end after the test's cutoff.
* `bin_edges` drops equal edges so that no bin is empty by construction; an edge
  at the smallest or largest value still leaves one empty. `score_log_window` is
  documented to use LogNet and never asks it.
* The log store's clusters ignore the key filter.
* An evicted rate-limit bucket comes back full.

### Fairness

* Worker: weak fairness of the loop's thread, which never blocks for ever; strong
  fairness of `Read`, since a poll may time out with records waiting but not
  every time; strong fairness of releasing a given source, because its timer
  stands still while the clock moves, so it is found stale at some pass. None
  for producers, failures, stop or restart.
* Hub: weak fairness of each subscription's event loop and of the transport's
  task on it. None for heartbeats, publishers or clients.
* Client: weak fairness of browser events and timers. Strong fairness of
  `Accept` and of an answered poll, in the runs with `Reachable`: of infinitely
  many attempts some succeed. Where the server cannot be reached by WebSocket
  (`client_polling_only`), `Accept` is never enabled and only polling remains.
  None for users and faults, and faults are bounded: a network that breaks for
  ever promises nothing.
* Edge: weak fairness of the engine thread's three steps (`Drain`, `Scan` or
  `CycleFails`, `LoopEnds`), because it is a daemon thread whose wait has a
  timeout; of a bridge's clock (`IntervalPasses`) and of `Silence`, because the
  follower of the sensor's file yields nothing once per interval; and of
  `StopNext`, because every join of the shutdown has a timeout, and so has the
  producer's last flush. None for feeds, lines, starts and stops, and none for a
  loop's return.

## Proofs

Forty theorems, in seven modules of the eight that hold proofs, each for every value of the constants that
the assumptions allow; each rests on an inductive invariant, which is named below
with what it adds to the property. The bounds that a guard reads (`MaxSeq`,
`MaxRecords`, `MaxWindows`, `MaxHistory`, ...) cut off what TLC explores and are
arbitrary natural numbers in the theorems.

### AlertHubProofs

`HubAssumption` is what `AlertHub.__init__` requires: a queue of at least one, a
buffer no smaller than the queue. Subscribers and threads are any sets.

* `TypeCorrect`: `TypeOK` is inductive as it stands. One step per action;
  `RetainType` and `CatchUpType` carry the two that compute something.
* `NothingLost`: `NoLoss` is inductive given `TypeOK`, because it already names
  every place an alert can be: a publisher's hands, the loop, the queue, what
  was sent. Each of `Publish`, `Deliver`, `RunCallback` and `Receive` moves one
  alert from one place to the next; all others leave the places alone or end
  the subscription's being live.
* `CatchUpIsHonest`: `CatchUpHonest` says nothing of what the buffer holds.
  `BufferInv` adds that it is the last alerts published, without a hole.
* `FramesOnceInOrder`: nothing is sent twice, whatever the threads do; while only one
  thread has ever published and the cursor, above 0, was not answered by a resync, the
  frames have no hole either, and the cursor in a drop frame skips nothing.
  `DeliveredOnceInOrder` looks at what was sent only.
  `HandsInv` says who holds an alert between numbering and delivery, `OnceInv`
  that it is in one of a subscription's places at most, and `LineInv` that while
  one thread alone has published, backlog, queue, loop and hands are one rising
  line without a hole from the cursor on.

### ScoringWorkerProofs

Any partitions, keys, window and batch sizes, exceptions and restarts.

* `TypeCorrect`, `TimersMatchBuffers`: by `ProgressInv`, which bounds every
  offset by what was produced.
* `CommittedIsAccounted`: a commit happens long after the poll, so the invariant
  (`AccountedInv`) is about every offset the process has reached, in the middle of
  a batch and of an emission.
* `EachFlowOnce`: `BelowInv` (a full buffer is one the emission still has to visit),
  `SequenceInv` (each source's flows are in one sequence from what was scored
  to what is polled) and `OnceInv`.
* `ReplaysAgree`: `GridInv`: every process, this one and its predecessors, cuts a
  source at multiples of the window size until a stale flush cuts elsewhere.
* `ImplementsWindowStream`: each step maps to a step of `WindowStream` or to a
  stutter; `SizeInv` and the order of `SequenceInv` show that a reported window is
  the front of what waits.

### AlertStreamClientProofs

Any sockets, buffer and alerts, and any number of faults and acts of the user. There is at
least one socket object, and at least one alert to number.

* `ClientTypes`: by `ClientInv`. `CaughtUp` says what the hub hands over: alerts it
  has published, and the newest of them if any.
* `ClientIsNeverStranded`: `ClientNeverStranded` says that something will move the
  client on, not that the timers and the sockets agree with its state. `Awake` does: a
  socket is held exactly while connecting or live, a reconnect is armed exactly
  while polling, the fallback ends when the stream is live or the tab hidden, and
  a chain of polls is behind it otherwise. `HoldsOne` says that every socket but
  `this.socket` was given back, so no frame reaches a client that has given up on its
  socket, and that the handle names a timer, so clearing it ends one chain and
  not more. Each client action has a lemma; the server's and the network's
  share `NetworkSteps`, because they change wires only.

### CorrelatorProofs

Any families, scores, close times, cool-down, grouping window and bands.

* `TypeCorrect`, and `IdsInv`: the index holds exactly the windows delivered, and what
  a case retains is indexed under that case. All else needs this, because a case
  forgets evidence and the index does not.
* `Ratchets`: the action property `NeverDeescalates`: the composite is recomputed from
  what is retained and may fall, the severity may not.
* `CasesSpanTheirEvidence` (`SpanInv`), `CasesApart` (`LabelInv`: who opened a case was
  active then, and its label is among its families) and `PairsMeet` (`FirstInv`)
  are the three parts of `CasesAreTrue`.
* `ImplementsLedger`: the refinement of `IncidentLedger`, with the redelivered
  window as the stutter.

`PairsMeet` assumes `Retention > 1`. `correlator.py:303` accepts an evidence
retention of one, and a case that retains one occurrence has forgotten the
first of the pair when it groups the second; TLC checks two.

### BackendProofs

`ServicesStep`: a step of `MCBackend` is a step of each service or leaves it alone.
So the invariant of a service on its own is one beside the others.

* `BackendCasesAreTrue`: from the three theorems of the correlator.
* `BackendHistoryIsAChain`: `ChainInv` adds to the chain that one thread at most is
  about to judge an alert nobody has judged twice at once, and that the record it
  has prepared continues the history as it stands.
* `BackendEditsKeepBandOrder`: `EditInv`: while no other write overlaps an edit (`alone`), the
  value its thread has checked is still one the store accepts. Of the bands after a recalibration
  the theorem says nothing.
* `BackendRecordedMeansErased`: `DatedInv` orders the numbers of registrations, of an
  erasure's beginning and of the trail; `CascadedInv` says that of the stores a
  request has passed nothing older than its beginning is left: of the keys, if there was
  a row.
* `BackendServingFollowsHistory`: `OpsInv` types what an operation has read. `ServingInv`
  says, of a kind without overlaps, that one operation at most is under way
  and that the versions are where this operation says (`StandsBy`: an incumbent
  retired and none active, the successor active and not yet recorded, and so on).
  `Displaces` makes a rollback right: each promotion not reversed displaced
  what the one before it activated, so reversing the newest uncovers it.
  `UndoInv` keeps what a rollback is going to mark inside the history.

* `BackendDeliveriesAreHonest`: `LogInv` says of a hand on a delivery which record it
  may write and of every record that it is counted; `AttemptsFit` bounds what one
  round of attempts can take by waits and timeouts at their longest, so the
  theorem assumes that this fits the receiver's replay window, as the default
  policy's does (4 times 60 + 10 seconds, of 300).
* `BackendReadsAreExact`: pages are cut by ranks, and the lemma `Ranks` makes them a
  sequence without a hole or a repeat. `WalkInv` and `LedgerInv` say that what a walk
  was shown is what stands before its place, whatever is written between two
  pages; `AuditInv` that the trail's numbers follow its order. The panels of
  an overview add up because the counts of values are sizes of disjoint sets
  (`CountsAddUp`).

* `BackendKeepsItsPromise`, an action property: `RetentionInv` says that a run plans on a
  day that is past and holds only months which were over at that day's cutoff.
  A cutoff does not move back, so what was over then is over when the month
  is dropped. A batch is any of those a LIMIT may take, oldest first.
* `BackendTypes`: from the invariants above, with the bounds of the counters
  (`AddsInv`, `OpsCounts`) and of what a recalibration may propose (`RowsInv`).

The last of the lifecycle needed an assumption the module had not stated: no version is called
like the placeholder for none (`NoVersion`, Python's `None`). It is in
`ModelOpsAssumption` now.

### EdgeProofs

The first two under the parts' own specifications, the others under `EdgeSpec`:
`EdgeStep` says that one of its steps is a step of each part or leaves it alone, so a
part's invariant is kept by all.

* `SensorsRecover`: the property speaks of sensors late by two intervals and says
  nothing of those on their way. `ComingInv` does, in three stages (`IsComing`):
  not sent yet; delayed once by the refused token; recorded, and about to send
  again. A sensor in the third is live, so nobody's heartbeat pushes it out
  (`RecordedOne`). With a timeout under an interval the count never gets there.
* `EngineScansInOrder`: `EngineInv` adds that what was scanned, what the thread has
  in hand and what is buffered are one rising line, so a scan appends numbers larger
  than any before.
* `EdgeServesItsModels`: `RegistryInv` says that each version's status is the last one
  entered for it and that a kind has one active version at most, which is what the
  next activation needs to find the earlier one retired (`OneActive`, `LastEntered`). `ScoringInv` says that a
  readable FlowNet is loaded before the flag is set, and before any thread is past the
  reading of it, so no interleaving of two loads leaves statistics in its place.
* `EdgeLeavesNothingBehind`, with `Bridge # "tcpdump"` (see "Other disagreements"), and with the
  reader's queue lost on SIGTERM, as the property says:
  `LifeInv` says of each position of the shutdown what has been dealt with
  before it (`Dealt`), and that nothing is closed while the live loop may run and has not been
  given up. `NothingHeldAtTheEnd` is inductive, and the contract is a lemma
  about the parsers (`ContractIsKept`).
* `EdgeLosesNothing`, with one bridge per spool (see there too). `ShipperInv`: what a
  bridge is about to replace on the spool is what it has read of it (`IsConsistent`),
  and what was handed over is accounted for or carried by the bridge (`Carries`).
  `PacketInv`: a packet is in one of five places that have nothing in common: the
  table, either thread's batch, given up, posted. `PublishInv` says of a request that
  no other overlapped that its records are in the shared list, or among those it waits for.
* `EdgeRefusesHonestly`: `IngestInv` makes the budget the number of records being
  taken in (`BeingTakenIn`), so taking and returning a share is a
  cardinality of disjoint sets. `LimitInv` says that a bucket's tokens, plus
  what it earns in the time its caller was told to wait, make a request
  (`WaitHolds`). `ChainInv` says how much of a body can have come in and how much of it
  can have reached the application at each step.
* `EdgeSplitsAreAudited`: `SplitInv` says that a split that a policy made keeps it
  (`KeepsItsPolicy`), that its folds are sets of windows of the corpus, and that `blocking` is
  what the audit finds in them, in the scaler and in the features. One lemma per policy (`TimeKeeps`, `EntityKeeps`,
  `FamilyKeeps`, ...) shows what it makes; a comparison of extremes is
  one of all pairs by `FiniteBounds`.
* `EdgeReadsAreHonest`: the tail and the store
  order lines by opposite keys and cut at opposite ends: `NewestReadBothWays` shows
  that they list the same lines in the same order, by the ranks of each order
  (`Ranks`). `ReadInv` says that a memo that is empty was read before any append was
  done, or is known to be overtaken, and carries through a read's four statements
  that an append done at its beginning is still done at its end. `TallyInv` says of
  the rollup that, from any minute on that no batch has pruned, each key holds how often
  it came, and where no breakdown was full so do the addresses and the pairs (`Mirrors`).
  Folding a batch keeps this (`FoldMirrors`), and so does pruning, because a cutoff
  is set by the newest minute and never goes back.
* `EdgeMeasuresAreTrue`, for samples of any size, with `Parts` a common multiple of the sizes so that
  the fractions are whole numbers: the buffer is the newest of what was fed (`NewestOf`), so what
  the thread copies is the newest of that, and what a gauge keeps stays the newest of its
  moment while more is fed. `BinsInv` says that a measurement is made of its two samples,
  and the edges rise because `Sorted` does. `EvalInv` says that a report is one of all
  the examples that came (`IsReport`): twice the ranks, taken over the threats, count the pairs in
  order once and the ties half, apart from the pairs of threats, which are as many
  whatever the ranking (`RankSum`, `PairSumIs`); precision, summed by groups of equal scores
  from the highest down, is its sum over the threats (`GroupsAreFolded`); a
  threshold's counts are sizes of sets that shrink as it rises (`SweepIs`); and
  there is a best one (`BestIs`).
* `EdgeTypes`: `EdgeTyped` is all of the parts' invariants, with the bounds none of them needs:
  the buckets tracked (`TrackedFit`) and the flows of a capture's table
  (`PacketsFit`) are no more than their cap, because who comes to a full table evicts one.

These needed what the modules had left unsaid: `FlowReadsAssumption` says that times are
integers, and the sorts of `bin_edges` and `average_precision` are stated by
rank (`Sorted`, `Descending`) instead of by the library's recursive function.

The invariants of `EdgeReadsAreHonest` and `EdgeMeasuresAreTrue` are in `MeasureProofs`,
which stands on the modules of those parts alone.

Sums and folds. The library sums a set by choosing a recursive function, and induction
on finite sets is not available, so no lemma unfolds the recursion. Instead
a function is written down and shown to satisfy the recursion's equation; a function that
does is unique, by a smallest set on which two of them differ (`TotalIs`), so it is the one chosen. For a
sum the function is the size of a set of marks (`TimesIn`), for
the fold over groups it comes from the least number that has none (`FoldExists`).

### IdentityProofs

`IdentityInv`: the service in focus keeps its own invariant, and the others are where
they began.

* `IdentityTypes`: from the types among the invariants below.
* `SignInIsSafe` has four parts that share nothing. Roles and sessions:
  `FloorInv` adds to the administrator's floor that a role change which was decided
  can still be written while none has overlapped another. `SessionInv` says that a
  token which bought a pair is marked as spent or has expired since, that no token is
  of a process to come (so a restart, which forgets the marks, forgets no pair
  of its own), and that a late refresh stays late. Keys of the provider: a
  callback that has decided keeps nothing but its answer, so `OidcInv` says of every document,
  fetched or cached, that it differs from what the provider publishes only by
  keys that changed since it was requested (`ShownBy`); a fetch that lands late
  is at most `FetchTime` old. It needs a refetch floor above zero, which
  `OidcAssumption` says now (`auth/oidc.py:69` sets 30 seconds). The sign-in
  limit: a counter looked at when it is not in use may be anything, so
  `ThrottleInv` says of the one in use (`InUse`) that it has room for the attempts
  it let through (`Trying`); when Redis comes or goes each thread may carry one
  over. It also says that the fallback has one entry per key: counting moves
  the key's entry to the end, and the oldest makes room (`CountedIs`, `LocalAddIs`).
* `CredentialsAreHonest`: `KeysInv` adds that secrets are numbers of their own
  and that the copy of a record a thread is about to write back is that of a
  key which was handed out. So a write nobody raced changes the standing of its key
  only, and of that as `revoke_key` means it. The route matrix is a finite table:
  `DemandMatchesMatrix` says that the capability a route demands is one that
  exactly the roles of its matrix entry have, `KeyRoutes` the same for keys; the socket is
  the one route that goes by another function of the headers. `RbacAssumption`
  says what a request's headers can carry.

### What is model-checked only

* Liveness (`EventuallyScored`, `DroppedIsTold`, `EventuallyShown`,
  `WorkIsFinished`): the prover handles neither `ENABLED` nor fairness.
* What a violated run refutes has no theorem.

No module declares a RECURSIVE operator.

## Not modelled

* Networks, training, feature vectors and score calibration: floating point.
* The SQL schema and its migrations; the program composes stores in memory, and
  the statements of the flow and log stores are modelled with their reads.
* Exports, alert detail and the screens, which format rows.
* The text of a sensor's line, of a log template and of a webhook's signature.
* Configuration, metrics, tracing and health probes: no decision depends on them.
* The entity registry: one id per name under one lock.
* The worker's flush beside a thread that outlasted its join. `Lifespan` shows what
  such a thread uses after it was closed; that the two share the worker's
  dictionaries has no property: the worker's model has one thread inside `_emit`.
* Request and trace ids, which label a request and decide nothing.
* The log store's coverage memo, which is the flow store's again.
* The code exchange with the identity provider.

What a model that is there leaves out or a bound hides:

* A line of the spool torn by a kill in the middle of a write; `FlowStoreUnavailable` and
  what a read answers then; a batch of which some records are malformed and some not.
* With `LogLimit = 1` a listing shows one line, so the order of a longer one is TLC's
  to check only in the rank of that line; the theorem `EdgeReadsAreHonest` has any limit.
* `Capacity = 1`: a bucket holds one request. That an evicted bucket comes back full, and
  lets a caller through early, breaks no property: none promises a limit on the rate.
* `CatchUpHonest` asks that a resync is not left out, not that it is never needless.
* With `MaxOidcTime = 3` the withdrawal of a provider's key is hardly ever late; the theorem
  `SignInIsSafe` has any time.

## Plan

Modelled: every component that holds state of its own. Proved: every safety property
of a run that passes. What could follow is what this project leaves out, above all the
schema's constraints, which the stores' statements rely on.

## Running

    tlc -config AlertHubThreads.cfg AlertHub.tla
    tlc -config Edge.cfg MCEdge.tla
    tlapm AlertStreamClientProofs.tla
    tlapm BackendProofs.tla
    tlapm EdgeProofs.tla
    tlapm IdentityProofs.tla
    tlapm MeasureProofs.tla

`PROJECT.json` pairs each configuration with its module.
