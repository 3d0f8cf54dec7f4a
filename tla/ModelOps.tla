------------------------------- MODULE ModelOps -------------------------------
(***************************************************************************)
(* Which model version serves (services/model_ops.py), changed by admins   *)
(* through endpoints/models.py and by the registrar's polling thread       *)
(* (services/model_registrar.py).  A promotion and a rollback write one    *)
(* version at a time, and every write replaces the record that was read.   *)
(***************************************************************************)
EXTENDS Integers, Sequences, FiniteSets, Threadpool

CONSTANTS
    Versions,      \* the model ids the model service lists, all reported active
    Kinds,
    KindOf,        \* the lineage of a version
    Addressed,     \* the versions listed with a sha256
    Manifested,    \* the versions with a complete training manifest
    Reports,       \* the eval reports on disk
    Registrar,     \* the registrar's thread
    MaxHistory     \* bound: promotions

NoVersion == "none"

ASSUME ModelOpsAssumption ==
    /\ KindOf \in [Versions -> Kinds] /\ MaxHistory \in Nat /\ NoVersion \notin Versions
    /\ Addressed \subseteq Versions /\ Manifested \subseteq Versions
    /\ \A r \in Reports : r.model \in Versions
    /\ Registrar \notin Threads

VARIABLES
    versions,      \* _versions: the status of each, and whether it has metrics
    history,       \* _history
    registered,    \* ModelRegistrar._registered
    evaluated,     \* ModelRegistrar._evaluated
    moving,        \* what each thread is in the middle of
    seeded,        \* history: the version registered as active, per kind
    opsOverlapped     \* history: the kinds with operations that overlapped

modelOpsVars == <<versions, history, registered, evaluated, moving, seeded, opsOverlapped>>

Status == {"absent", "staging", "active", "retired"}
VersionRecord == [status : Status, metrics : BOOLEAN]
Transition == [kind : Kinds, activated : Versions, retired : Versions \cup {NoVersion},
               undone : BOOLEAN]
Admins == Threads \cup {Registrar}
Still == [op |-> "none"]

ModelOpsTypeOK ==
    /\ versions \in [Versions -> VersionRecord]
    /\ history \in Seq(Transition) /\ Len(history) <= MaxHistory
    /\ registered \subseteq Addressed /\ evaluated \subseteq registered
    /\ seeded \in [Kinds -> Versions \cup {NoVersion}]
    /\ opsOverlapped \subseteq Kinds
    /\ DOMAIN moving = Admins

ModelOpsInit ==
    /\ versions = [v \in Versions |-> [status |-> "absent", metrics |-> FALSE]]
    /\ history = <<>> /\ registered = {} /\ evaluated = {}
    /\ moving = [t \in Admins |-> Still]
    /\ seeded = [k \in Kinds |-> NoVersion]
    /\ opsOverlapped = {}
-----------------------------------------------------------------------------
ActiveOf(k) == {v \in Versions : KindOf[v] = k /\ versions[v].status = "active"}

(* active: the first active version found, or none.                        *)
Active(k) == IF ActiveOf(k) = {} THEN NoVersion ELSE CHOOSE v \in ActiveOf(k) : TRUE

Unreversed(k) == {i \in 1..Len(history) : history[i].kind = k /\ ~history[i].undone}

(* _last_unreversed: the position of the newest, or 0.                     *)
LastUnreversed(k) ==
    IF Unreversed(k) = {} THEN 0
    ELSE CHOOSE i \in Unreversed(k) : \A j \in Unreversed(k) : j <= i

(* _with_status: a copy of what was read, under another status.            *)
WithStatus(status, metrics) == [status |-> status, metrics |-> metrics]

Begin(t, k, m) ==
    /\ moving' = [moving EXCEPT ![t] = m]
    /\ opsOverlapped' = opsOverlapped \cup {l \in {k} :
                         \E u \in Admins \ {t} : moving[u] # Still /\ moving[u].kind = l}

(* ModelRegistrar._register_one: the first active entry of a kind becomes  *)
(* the incumbent, any other is staged.  The promotion that follows finds   *)
(* its version active and changes nothing.                                 *)
RegisterOne(v) ==
    /\ moving[Registrar] = Still
    /\ v \in Addressed \ registered
    /\ LET k == KindOf[v]  first == Active(k) = NoVersion IN
       /\ versions' = [versions EXCEPT ![v].status = IF first THEN "active" ELSE "staging"]
       /\ seeded' = [seeded EXCEPT ![k] = IF first THEN v ELSE @]
       /\ opsOverlapped' = opsOverlapped \cup {l \in {k} :
                            \E u \in Threads : moving[u] # Still /\ moving[u].kind = l}
    /\ registered' = registered \cup {v}
    /\ UNCHANGED <<history, evaluated, moving>>

(* from_eval_report: an eval@2 report is adapted if its counts agree: the  *)
(* confusion matrix and the histogram cover the examples it claims, and    *)
(* the scalars are the matrix's.                                           *)
Adapts(r) ==
    /\ r.schema = "eval@2" /\ r.scalarsMatch
    /\ r.tp + r.fn = r.positives /\ r.tn + r.fp = r.negatives
    /\ r.threat = r.positives /\ r.benign = r.negatives
    /\ r.positives + r.negatives > 0

(* _attach_evaluation: a report of this version whose run names its split. *)
Attachable(r, v) == r.model = v /\ r.split /\ Adapts(r)

(* record_evaluation: the record is read ...                               *)
EvaluationRead(v) ==
    /\ moving[Registrar] = Still
    /\ v \in registered \ evaluated
    /\ \E r \in Reports : Attachable(r, v)
    /\ Begin(Registrar, KindOf[v],
             [op |-> "evaluate", kind |-> KindOf[v], of |-> v, read |-> versions[v]])
    /\ UNCHANGED <<versions, history, registered, evaluated, seeded>>

(* ... and a copy with its metrics written.                                *)
EvaluationWrite ==
    /\ moving[Registrar].op = "evaluate"
    /\ LET v == moving[Registrar].of IN
       /\ versions' = [versions EXCEPT ![v] = [moving[Registrar].read EXCEPT !.metrics = TRUE]]
       /\ evaluated' = evaluated \cup {v}
    /\ moving' = [moving EXCEPT ![Registrar] = Still]
    /\ UNCHANGED <<history, registered, seeded, opsOverlapped>>

(* promote's checks; promoting the active version changes nothing.         *)
Promotable(v) == versions[v].status = "staging" /\ v \in Manifested

PromoteRead(t, v) ==
    /\ moving[t] = Still /\ Len(history) < MaxHistory
    /\ Promotable(v)
    /\ LET old == Active(KindOf[v]) IN
       Begin(t, KindOf[v], [op |-> "retire", kind |-> KindOf[v], of |-> v, metrics |-> versions[v].metrics,
                            old |-> old,
                            oldMetrics |-> old # NoVersion /\ versions[old].metrics])
    /\ UNCHANGED <<versions, history, registered, evaluated, seeded>>

(* The incumbent, if there is one, steps down first ...                    *)
RetireIncumbent(t) ==
    /\ moving[t].op = "retire"
    /\ versions' = IF moving[t].old = NoVersion THEN versions
                   ELSE [versions EXCEPT ![moving[t].old] =
                             WithStatus("retired", moving[t].oldMetrics)]
    /\ moving' = [moving EXCEPT ![t].op = "activate"]
    /\ UNCHANGED <<history, registered, evaluated, seeded, opsOverlapped>>

Activate(t) ==
    /\ moving[t].op = "activate"
    /\ versions' = [versions EXCEPT ![moving[t].of] = WithStatus("active", moving[t].metrics)]
    /\ moving' = [moving EXCEPT ![t].op = "record"]
    /\ UNCHANGED <<history, registered, evaluated, seeded, opsOverlapped>>

(* ... and the transition is recorded last.                                *)
RecordTransition(t) ==
    /\ moving[t].op = "record" /\ Len(history) < MaxHistory
    /\ history' = Append(history, [kind |-> moving[t].kind, activated |-> moving[t].of,
                                   retired |-> moving[t].old, undone |-> FALSE])
    /\ moving' = [moving EXCEPT ![t] = Still]
    /\ UNCHANGED <<versions, registered, evaluated, seeded, opsOverlapped>>

(* rollback: the newest promotion that displaced a version.                *)
RollbackRead(t, k) ==
    /\ moving[t] = Still
    /\ Active(k) # NoVersion
    /\ LastUnreversed(k) # 0 /\ history[LastUnreversed(k)].retired # NoVersion
    /\ LET i == LastUnreversed(k)  old == Active(k)  v == history[i].retired IN
       Begin(t, k, [op |-> "stepdown", kind |-> k, of |-> v, metrics |-> versions[v].metrics,
                    old |-> old, oldMetrics |-> versions[old].metrics, undo |-> i])
    /\ UNCHANGED <<versions, history, registered, evaluated, seeded>>

StepDown(t) ==
    /\ moving[t].op = "stepdown"
    /\ versions' = [versions EXCEPT ![moving[t].old] = WithStatus("retired", moving[t].oldMetrics)]
    /\ moving' = [moving EXCEPT ![t].op = "reactivate"]
    /\ UNCHANGED <<history, registered, evaluated, seeded, opsOverlapped>>

Reactivate(t) ==
    /\ moving[t].op = "reactivate"
    /\ versions' = [versions EXCEPT ![moving[t].of] = WithStatus("active", moving[t].metrics)]
    /\ moving' = [moving EXCEPT ![t].op = "mark"]
    /\ UNCHANGED <<history, registered, evaluated, seeded, opsOverlapped>>

(* Variant: the promotion is not marked as reversed.                       *)
MarkReversedNot(t) ==
    /\ moving[t].op = "mark" /\ ~history[moving[t].undo].undone
    /\ moving' = [moving EXCEPT ![t] = Still]
    /\ UNCHANGED <<versions, history, registered, evaluated, seeded, opsOverlapped>>

(* The promotion is looked up and marked; one that another rollback has    *)
(* marked meanwhile is not found, and the request fails with its writes    *)
(* to the versions done.                                                   *)
MarkReversed(t) ==
    /\ moving[t].op = "mark" /\ ~history[moving[t].undo].undone
    /\ history' = [history EXCEPT ![moving[t].undo].undone = TRUE]
    /\ moving' = [moving EXCEPT ![t] = Still]
    /\ UNCHANGED <<versions, registered, evaluated, seeded, opsOverlapped>>

MarkMissing(t) ==
    /\ moving[t].op = "mark" /\ history[moving[t].undo].undone
    /\ moving' = [moving EXCEPT ![t] = Still]
    /\ UNCHANGED <<versions, history, registered, evaluated, seeded, opsOverlapped>>

ModelOpsNext ==
    \/ \E v \in Versions : RegisterOne(v) \/ EvaluationRead(v)
    \/ EvaluationWrite
    \/ \E t \in Threads, v \in Versions : PromoteRead(t, v)
    \/ \E t \in Threads, k \in Kinds : RollbackRead(t, k)
    \/ \E t \in Threads : \/ RetireIncumbent(t) \/ Activate(t) \/ RecordTransition(t)
                          \/ StepDown(t) \/ Reactivate(t) \/ MarkReversed(t) \/ MarkMissing(t)

ModelOpsSpec == ModelOpsInit /\ [][ModelOpsNext]_modelOpsVars
-----------------------------------------------------------------------------
ExpectedActive(k) == IF LastUnreversed(k) = 0 THEN seeded[k]
                     ELSE history[LastUnreversed(k)].activated
Quiet(k) == k \notin opsOverlapped
            /\ \A t \in Admins : moving[t] = Still \/ moving[t].kind # k

(* As long as no two operations on a kind overlapped, the version that     *)
(* serves between them is the one of the newest promotion not reversed, or *)
(* the one the kind started with; it alone is active, and what it, or a    *)
(* reversed promotion, displaced is retired.                               *)
ServingFollowsHistory ==
    \A k \in Kinds : Quiet(k) =>
        /\ ActiveOf(k) = {ExpectedActive(k)} \ {NoVersion}
        /\ \A i \in 1..Len(history) : history[i].kind = k =>
               \A v \in {history[i].activated, history[i].retired} \ {NoVersion, ExpectedActive(k)} :
                   versions[v].status = "retired"
=============================================================================
