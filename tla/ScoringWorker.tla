---------------------------- MODULE ScoringWorker ----------------------------
(***************************************************************************)
(* The Kafka scoring path: LiveScoringLoop (services/kafka_pipeline.py)    *)
(* drives ScoringWorker (workers/scoring_worker.py) over the partitions of *)
(* one flow topic.  The worker buffers each source's flows across batches, *)
(* cuts them into windows of W, scores every window and hands it to the    *)
(* correlator's sink, then commits the batch's last offset.                *)
(*                                                                         *)
(* A flow is known by its source (a key, which fixes its partition) and    *)
(* its offset.  Offsets count from 1 here and from 0 in the code, so that  *)
(* committed[p] = 0 says that nothing of p is committed.  Wall-clock ages  *)
(* are abstracted: any buffered source may turn out to be stale.           *)
(***************************************************************************)
EXTENDS Naturals, Sequences, FiniteSets, SequencesExt, FiniteSetsExt

CONSTANTS
    Keys,           \* source addresses
    N,              \* partitions are 1..N, visited in this order
    PartitionOf,    \* the partition each key is published to
    W,              \* window_size
    BatchSize,      \* records one read returns at most
    Timestamps,     \* event times a flow may carry
    MaxRecords,     \* bound: records produced per partition
    MaxRaises,      \* bound: emissions that end in an exception
    MaxRestarts     \* bound: process restarts

Partitions == 1..N

ASSUME WorkerAssumption ==
    /\ N \in Nat /\ W \in Nat \ {0} /\ BatchSize \in Nat \ {0}
    /\ PartitionOf \in [Keys -> Partitions]
    /\ Timestamps \subseteq Nat
    /\ MaxRecords \in Nat /\ MaxRaises \in Nat /\ MaxRestarts \in Nat

(* What the runs give PartitionOf, and their symmetry.                     *)
MCOnePartition == [k \in Keys |-> 1]
MCOwnPartition == [k \in Keys |-> k]
MCSymmetry == Permutations(Keys)

VARIABLES
    log,        \* log[p]: the broker's records of partition p
    committed,  \* committed[p]: last committed offset, 0 before any
    pending,    \* pending[k]: offsets buffered for k (worker._pending)
    order,      \* insertion order of the dict worker._pending
    since,      \* since[k]: the flow whose arrival set k's timer, 0 if unset
    turn,       \* partition being drained; N + 1 is the pass's flush_stale
    mode,       \* "idle", or which call of _emit is running, or "stopped"
    upto,       \* last offset of the batch being emitted
    release,    \* keys whose whole buffer this _emit scores
    visit,      \* keys this _emit has still to look at, in dict order
    windows,    \* windows cut from the current key and not yet scored
    seen,       \* identities in the correlator's evidence index
    scored,     \* history: every window the correlator ever counted
    dropped,    \* history: flows that left the buffer without being counted
    raises,     \* emissions that raised so far
    restarts    \* restarts so far

buffers == <<pending, order, since>>
emission == <<upto, release, visit, windows>>
history == <<scored, dropped>>
vars == <<log, committed, pending, order, since, turn, mode, upto, release,
          visit, windows, seen, scored, dropped, raises, restarts>>

Record == [key : Keys, ts : Timestamps]
Window == [key : Keys, recs : Seq(1..MaxRecords) \ {<<>>}]
Emitting == {"batch", "stale", "final"}

(* Variant: number the windows of each batch from the start again.         *)
IdentityPerBatch(w) == <<w.key, 1>>

(* WindowIdentity: the key and the offset of the window's first record.    *)
Identity(w) == <<w.key, w.recs[1]>>
FlowsOf(w) == {<<w.key, o>> : o \in ToSet(w.recs)}

Init == /\ log = [p \in Partitions |-> <<>>]
        /\ committed = [p \in Partitions |-> 0]
        /\ pending = [k \in Keys |-> <<>>]
        /\ order = <<>>
        /\ since = [k \in Keys |-> 0]
        /\ turn = 1
        /\ mode = "idle"
        /\ upto = 0
        /\ release = {}
        /\ visit = <<>>
        /\ windows = <<>>
        /\ seen = {}
        /\ scored = {}
        /\ dropped = {}
        /\ raises = 0
        /\ restarts = 0
-----------------------------------------------------------------------------
(* External: the ingest route publishes a flow and the broker appends it.  *)
Produce(k, t) ==
    LET p == PartitionOf[k] IN
    /\ Len(log[p]) < MaxRecords
    /\ log' = [log EXCEPT ![p] = Append(@, [key |-> k, ts |-> t])]
    /\ UNCHANGED <<committed, buffers, turn, mode, emission, seen, history, raises, restarts>>

-----------------------------------------------------------------------------
(* Variant: resume at the committed offset, which reads its record again.  *)
ResumeAtCommitted(p) == Max({committed[p], 1})

(* OffsetTracker.resume_from.                                              *)
ResumeFrom(p) == committed[p] + 1

(* Variant: a batch replaces what was buffered.                            *)
BufferReplaced(k, fresh) == IF fresh = <<>> THEN pending[k] ELSE fresh

(* A batch joins what was buffered.                                        *)
BufferExtended(k, fresh) == pending[k] \o fresh

(* worker.run: one non-empty read.  Every record of the batch joins its    *)
(* key's buffer before any window is cut; a key without a timer gets one.  *)
InOrder(offsets) ==
    [i \in 1..Cardinality(offsets) |->
        CHOOSE o \in offsets : Cardinality({x \in offsets : x < o}) = i - 1]

OffsetsIn(p, k, from, to) == InOrder({o \in from..to : log[p][o].key = k})

(* The dict's new keys, each at the place of its first record.             *)
NewKeys(p, from, to) ==
    LET key(o) == log[p][o].key
        firsts == {o \in from..to : /\ key(o) \notin ToSet(order)
                                    /\ \A e \in from..(o - 1) : key(e) # key(o)}
    IN  [i \in 1..Cardinality(firsts) |-> key(InOrder(firsts)[i])]

Read(p, n) ==
    LET from == ResumeFrom(p)
        to   == from + n - 1
        fresh(k) == IF PartitionOf[k] = p THEN OffsetsIn(p, k, from, to) ELSE <<>>
    IN
    /\ mode = "idle" /\ turn = p
    /\ n \in 1..BatchSize /\ to <= Len(log[p])
    /\ pending' = [k \in Keys |-> BufferExtended(k, fresh(k))]
    /\ since' = [k \in Keys |->
                    IF since[k] = 0 /\ fresh(k) # <<>> THEN fresh(k)[1] ELSE since[k]]
    /\ order' = order \o NewKeys(p, from, to)
    /\ visit' = order'
    /\ release' = {}
    /\ upto' = to
    /\ mode' = "batch"
    /\ UNCHANGED <<log, committed, turn, windows, seen, history, raises, restarts>>

(* A read that comes back empty ends this partition's run.  A broker poll  *)
(* may time out with records waiting, so nothing guards this.              *)
Drained(p) ==
    /\ mode = "idle" /\ turn = p
    /\ turn' = p + 1
    /\ UNCHANGED <<log, committed, buffers, mode, emission, seen, history, raises, restarts>>

(* flush_stale, at the end of a pass: the keys found older than max_age.   *)
FlushStale(ks) ==
    /\ mode = "idle" /\ turn = N + 1
    /\ ks # {} /\ \A k \in ks : since[k] # 0 /\ pending[k] # <<>>
    /\ release' = ks
    /\ visit' = order
    /\ mode' = "stale"
    /\ UNCHANGED <<log, committed, buffers, turn, upto, windows, seen, history, raises, restarts>>

NothingStale ==
    /\ mode = "idle" /\ turn = N + 1
    /\ turn' = 1
    /\ UNCHANGED <<log, committed, buffers, mode, emission, seen, history, raises, restarts>>

(* LiveScoringLoop.stop, once the thread has seen the flag between passes: *)
(* worker.flush scores every buffer.                                       *)
Stop ==
    /\ mode = "idle" /\ turn = 1
    /\ release' = Keys
    /\ visit' = order
    /\ mode' = "final"
    /\ UNCHANGED <<log, committed, buffers, turn, upto, windows, seen, history, raises, restarts>>
-----------------------------------------------------------------------------
(* An exception leaves _emit wherever it stands.  The loop catches it and  *)
(* starts its next pass at the first partition; stop() swallows it.        *)
Abort(lost) ==
    /\ raises < MaxRaises
    /\ raises' = raises + 1
    /\ dropped' = dropped \cup lost
    /\ mode' = IF mode = "final" THEN "stopped" ELSE "idle"
    /\ turn' = 1
    /\ windows' = <<>>
    /\ visit' = <<>>
    /\ release' = {}
    /\ upto' = 0

(* Variant: cut at most one window per key and emission.                   *)
CutOneWindow(k) ==
    IF k \in release THEN Len(pending[k]) ELSE IF Len(pending[k]) >= W THEN W ELSE 0

(* How many of the buffered flows this emission scores: all of a released  *)
(* buffer, otherwise as many as fill windows.                              *)
CutCount(k) == IF k \in release THEN Len(pending[k]) ELSE (Len(pending[k]) \div W) * W

(* Variant: windows that overlap by one record.                            *)
CutOverlapping(k, chunk) ==
    [i \in 1..((Len(chunk) + W - 1) \div W) |->
        [key  |-> k,
         recs |-> SubSeq(chunk, Max({(i - 1) * W, 1}), Min({i * W, Len(chunk)}))]]

(* window_flows: consecutive pieces of at most W records.                  *)
Cut(k, chunk) ==
    [i \in 1..((Len(chunk) + W - 1) \div W) |->
        [key  |-> k,
         recs |-> SubSeq(chunk, (i - 1) * W + 1, Min({i * W, Len(chunk)}))]]

(* window_flows refuses a chunk whose event times run backwards.           *)
InArrivalOrder(k, chunk) ==
    LET ts(i) == log[PartitionOf[k]][chunk[i]].ts
    IN  \A i \in 1..(Len(chunk) - 1) : ts(i) <= ts(i + 1)

Skip(k) ==
    /\ mode \in Emitting /\ windows = <<>>
    /\ visit # <<>> /\ k = Head(visit)
    /\ CutCount(k) = 0
    /\ visit' = Tail(visit)
    /\ UNCHANGED <<log, committed, buffers, turn, mode, upto, release, windows, seen,
                   history, raises, restarts>>

(* Variant: every cut stops the timer, also when flows stay behind.        *)
TimerStopped(k, rest) == 0

(* Only an emptied buffer stops the key's timer.                           *)
TimerAfterCut(k, rest) == IF rest = <<>> THEN 0 ELSE since[k]

(* The chunk leaves the buffer before anything of it is scored.            *)
TakeChunk(k) ==
    LET n == CutCount(k)
        chunk == SubSeq(pending[k], 1, n)
        rest == SubSeq(pending[k], n + 1, Len(pending[k]))
    IN
    /\ mode \in Emitting /\ windows = <<>>
    /\ visit # <<>> /\ k = Head(visit)
    /\ n > 0
    /\ pending' = [pending EXCEPT ![k] = rest]
    /\ since' = [since EXCEPT ![k] = TimerAfterCut(k, rest)]
    /\ UNCHANGED <<log, committed, order, seen, scored, restarts>>
    /\ \/ /\ InArrivalOrder(k, chunk)
          /\ windows' = Cut(k, chunk)
          /\ visit' = Tail(visit)
          /\ UNCHANGED <<turn, mode, upto, release, dropped, raises>>
       \/ /\ ~InArrivalOrder(k, chunk)
          /\ Abort({<<k, o>> : o \in ToSet(chunk)})

(* The model scored the window and DetectionSink.put handed it to the      *)
(* correlator, which counts an identity once and ignores it as a duplicate *)
(* from then on.                                                           *)
Put(w) ==
    /\ seen' = seen \cup {Identity(w)}
    /\ scored' = IF Identity(w) \in seen THEN scored ELSE scored \cup {w}

Score ==
    /\ windows # <<>>
    /\ Put(Head(windows))
    /\ windows' = Tail(windows)
    /\ dropped' = IF Identity(Head(windows)) \in seen
                  THEN dropped \cup FlowsOf(Head(windows)) ELSE dropped
    /\ UNCHANGED <<log, committed, buffers, turn, mode, upto, release, visit, raises, restarts>>

Buffered == UNION {{<<k, o>> : o \in ToSet(pending[k])} : k \in Keys}
Unscored == UNION {FlowsOf(windows[i]) : i \in 1..Len(windows)}

(* No score for the window (ScoringUnavailable): the rest of the chunk,    *)
(* already out of the buffer, goes with the exception.                     *)
ScoreFails ==
    /\ windows # <<>>
    /\ Abort(Unscored)
    /\ UNCHANGED <<log, committed, buffers, seen, scored, restarts>>

(* The correlator took the window, then the alert row could not be saved.  *)
SaveFails ==
    /\ windows # <<>>
    /\ Identity(Head(windows)) \notin seen
    /\ Put(Head(windows))
    /\ Abort(Unscored \ FlowsOf(Head(windows)))
    /\ UNCHANGED <<log, committed, buffers, restarts>>

EmitDone == mode \in Emitting /\ windows = <<>> /\ visit = <<>>

(* Variant: commit the next offset to read instead of the last one done.   *)
CommitNext ==
    /\ EmitDone /\ mode = "batch"
    /\ committed' = [committed EXCEPT ![turn] = Max({@, upto + 1})]
    /\ mode' = "idle"
    /\ upto' = 0
    /\ UNCHANGED <<log, buffers, turn, release, visit, windows, seen, history, raises, restarts>>

(* OffsetTracker.commit, after the whole batch was emitted.                *)
Commit ==
    /\ EmitDone /\ mode = "batch"
    /\ committed' = [committed EXCEPT ![turn] = Max({@, upto})]
    /\ mode' = "idle"
    /\ upto' = 0
    /\ UNCHANGED <<log, buffers, turn, release, visit, windows, seen, history, raises, restarts>>

FlushDone ==
    /\ EmitDone /\ mode \in {"stale", "final"}
    /\ mode' = IF mode = "final" THEN "stopped" ELSE "idle"
    /\ turn' = 1
    /\ release' = {}
    /\ UNCHANGED <<log, committed, buffers, upto, visit, windows, seen, history, raises, restarts>>

(* A new process, after a stop or a crash at any point.  The topic stays;  *)
(* buffers, the correlator's index and the OffsetTracker are in memory.    *)
Restart ==
    /\ restarts < MaxRestarts
    /\ restarts' = restarts + 1
    /\ committed' = [p \in Partitions |-> 0]
    /\ dropped' = dropped \cup Buffered \cup Unscored
    /\ pending' = [k \in Keys |-> <<>>]
    /\ since' = [k \in Keys |-> 0]
    /\ order' = <<>>
    /\ turn' = 1
    /\ mode' = "idle"
    /\ upto' = 0
    /\ release' = {}
    /\ visit' = <<>>
    /\ windows' = <<>>
    /\ seen' = {}
    /\ UNCHANGED <<log, scored, raises>>
-----------------------------------------------------------------------------
(* The steps of the loop's thread that need nothing from outside.          *)
Loop ==
    \/ \E p \in Partitions : Drained(p)
    \/ \E p \in Partitions, n \in 1..BatchSize : Read(p, n)
    \/ \E ks \in SUBSET Keys : FlushStale(ks)
    \/ NothingStale
    \/ \E k \in Keys : Skip(k) \/ TakeChunk(k)
    \/ Score \/ Commit \/ FlushDone

Next ==
    \/ \E k \in Keys, t \in Timestamps : Produce(k, t)
    \/ Loop
    \/ ScoreFails \/ SaveFails
    \/ Stop \/ Restart

Spec == Init /\ [][Next]_vars

(* The thread keeps looping; a broker that has records eventually returns  *)
(* some; a source that keeps a buffer is eventually found stale, because   *)
(* its timer stands still while the clock moves.                           *)
FairSpec ==
    /\ Spec
    /\ WF_vars(Loop)
    /\ \A p \in Partitions : SF_vars(\E n \in 1..BatchSize : Read(p, n))
    /\ \A k \in Keys : SF_vars(\E ks \in SUBSET Keys : k \in ks /\ FlushStale(ks))
-----------------------------------------------------------------------------
TypeOK ==
    /\ log \in [Partitions -> Seq(Record)]
    /\ \A p \in Partitions : Len(log[p]) <= MaxRecords
    /\ committed \in [Partitions -> 0..MaxRecords]
    /\ pending \in [Keys -> Seq(1..MaxRecords)]
    /\ order \in Seq(Keys) /\ visit \in Seq(Keys)
    /\ since \in [Keys -> 0..MaxRecords]
    /\ turn \in 1..(N + 1)
    /\ mode \in Emitting \cup {"idle", "stopped"}
    /\ upto \in 0..MaxRecords
    /\ release \subseteq Keys
    /\ windows \in Seq(Window)
    /\ seen \subseteq Keys \X (1..MaxRecords)
    /\ scored \subseteq Window
    /\ dropped \subseteq Keys \X (1..MaxRecords)
    /\ raises \in 0..MaxRaises
    /\ restarts \in 0..MaxRestarts

FlowAt(p, o) == <<log[p][o].key, o>>
Counted == UNION {FlowsOf(w) : w \in scored}
CommittedFlows == UNION {{FlowAt(p, o) : o \in 1..committed[p]} : p \in Partitions}

(* A committed offset is a promise that its flow will not be read again:   *)
(* the flow is then buffered, about to be scored or counted.  The only     *)
(* other ways out of the worker are the ones `dropped` records: an         *)
(* exception inside _emit, an identity the correlator has already seen, or *)
(* the end of the process.                                                 *)
CommittedAccounted ==
    CommittedFlows \subseteq Buffered \cup Unscored \cup Counted \cup dropped

(* While every emission succeeds and the process lives, each flow is in at *)
(* most one window and no flow is lost, whatever the order in which the    *)
(* partitions are drained, the stale buffers released and the loop stopped.*)
OncePerFlow ==
    raises = 0 /\ restarts = 0 =>
        /\ dropped = {}
        /\ \A v, w \in scored : v # w => FlowsOf(v) \cap FlowsOf(w) = {}
        /\ Counted \cap (Buffered \cup Unscored) = {}

(* A replay from offset 0 (the in-memory OffsetTracker) cuts the same      *)
(* windows again as long as only full windows were cut, which is what      *)
(* makes the identity (key, first offset) safe to overwrite.               *)
ReplayCutsSameWindows ==
    (raises = 0 /\ \A w \in scored : Len(w.recs) = W) =>
        \A v, w \in scored : FlowsOf(v) \cap FlowsOf(w) # {} => v = w

(* Between emissions no source holds a full window back, so a buffer is    *)
(* bounded by W - 1 flows unless an exception cut a pass short.            *)
BufferedBelowWindow ==
    mode \in {"idle", "stopped"} /\ raises = 0 => \A k \in Keys : Len(pending[k]) < W

(* While nothing raises each flow is in one window at most, and a full     *)
(* window is not held back.                                                *)
HeldOrScoredOnce == OncePerFlow /\ BufferedBelowWindow

(* flush_stale finds a buffer only through its timer: at every step, also  *)
(* after an exception or in the middle of an emission, a source has a      *)
(* timer exactly when it has something buffered.                           *)
BufferedHasTimer ==
    \A k \in Keys : since[k] # 0 <=> pending[k] # <<>>

(* The promise of the scoring path: what the worker counts is a            *)
(* WindowStream, in which the waiting flows are those produced and not yet *)
(* counted.                                                                *)
Waiting(k) ==
    LET p == PartitionOf[k] IN
    InOrder({o \in 1..Len(log[p]) : log[p][o].key = k /\ <<k, o>> \notin Counted})

Stream == INSTANCE WindowStream
            WITH Flows <- 1..MaxRecords, waiting <- [k \in Keys |-> Waiting(k)],
                 reported <- scored

RefinesWindowStream == Stream!Spec

(* Every produced flow is eventually counted, in a full or in a stale      *)
(* window, unless the loop is stopped first.                               *)
EventuallyScored ==
    \A p \in Partitions : \A o \in 1..MaxRecords :
        o <= Len(log[p]) ~>
            (mode = "stopped" \/ (o <= Len(log[p]) /\ FlowAt(p, o) \in Counted))

(* kafka_pipeline.py:13-14 and scoring_worker.py:3-4 promise more than     *)
(* CommittedAccounted: no committed flow is ever lost.                     *)
NoCommittedLoss ==
    mode # "stopped" =>
        CommittedFlows \subseteq Buffered \cup Unscored \cup Counted
=============================================================================
