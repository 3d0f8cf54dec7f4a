-------------------------------- MODULE AuditTrail --------------------------------
(***************************************************************************)
(* The audit trail (services/audit_log.py), written by every mutating      *)
(* route after its work succeeded and paged by GET /audit.  The routes are *)
(* not coroutines and the trail takes no lock, so an append is four steps: *)
(* the entry is given the next sequence, it is stored, and the sequence is *)
(* read and written back one higher.                                       *)
(***************************************************************************)
EXTENDS Integers, Sequences, SequencesExt, FiniteSetsExt, Threadpool

CONSTANTS
    Actors,          \* who acts
    AuditQueries,    \* the pages an auditor walks: [start, end, actor]
    AuditLimit,
    MaxEntries, MaxInstant   \* bounds: entries stored, clock

ASSUME AuditTrailAssumption ==
    /\ AuditLimit \in Nat \ {0} /\ MaxInstant \in Nat
    /\ \A q \in AuditQueries : q.start < q.end

VARIABLES
    entries,         \* _entries
    nextSequence,    \* _next_sequence
    writing,         \* per thread, its append
    audited,         \* the clock records are stamped from
    auditWalk,       \* the auditor's walk: its query, cursor and rows shown
    owed,            \* history: positions stored and matching when the walk began
    auditOverlapped       \* history: two appends have overlapped

auditVars == <<entries, nextSequence, writing, audited, auditWalk, owed, auditOverlapped>>

AnyActor == "any"
NotWriting == [pc |-> "idle"]
NoAuditWalk == [query |-> "none"]

AuditEntry == [sequence : Nat \ {0}, actor : Actors, at : 0..MaxInstant]
Appends == {NotWriting} \cup [pc : {"entry"}, actor : Actors, at : 0..MaxInstant]
           \cup [pc : {"store"}, entry : AuditEntry] \cup [pc : {"load"}]
           \cup [pc : {"bump"}, loaded : Nat \ {0}]

AuditTypeOK ==
    /\ entries \in Seq(AuditEntry) /\ nextSequence \in Nat \ {0}
    /\ writing \in [Threads -> Appends]
    /\ audited \in 0..MaxInstant /\ owed \subseteq DOMAIN entries /\ auditOverlapped \in BOOLEAN

AuditInit ==
    /\ entries = <<>> /\ nextSequence = 1 /\ audited = 0
    /\ writing = [t \in Threads |-> NotWriting]
    /\ auditWalk = NoAuditWalk /\ owed = {} /\ auditOverlapped = FALSE
-----------------------------------------------------------------------------
Writing == {t \in Threads : writing[t] # NotWriting}

(* record_action: the record is stamped when the route calls it ...        *)
RecordAction(t, actor) ==
    /\ writing[t] = NotWriting /\ Len(entries) + Cardinality(Writing) < MaxEntries
    /\ writing' = [writing EXCEPT ![t] = [pc |-> "entry", actor |-> actor, at |-> audited]]
    /\ UNCHANGED <<entries, nextSequence, audited, auditWalk, owed, auditOverlapped>>

(* ... append: an entry with the next sequence ...                         *)
BuildEntry(t) ==
    /\ writing[t].pc = "entry"
    /\ writing' = [writing EXCEPT ![t] =
           [pc |-> "store", entry |-> [sequence |-> nextSequence, actor |-> @.actor, at |-> @.at]]]
    /\ auditOverlapped' = (auditOverlapped \/ \E u \in Writing : u # t /\ writing[u].pc # "entry")
    /\ UNCHANGED <<entries, nextSequence, audited, auditWalk, owed>>

StoreEntry(t) ==
    /\ writing[t].pc = "store" /\ entries' = Append(entries, writing[t].entry)
    /\ writing' = [writing EXCEPT ![t] = [pc |-> "load"]]
    /\ UNCHANGED <<nextSequence, audited, auditWalk, owed, auditOverlapped>>

(* ... and `_next_sequence += 1`, a load and a store.                      *)
LoadNext(t) ==
    /\ writing[t].pc = "load"
    /\ writing' = [writing EXCEPT ![t] = [pc |-> "bump", loaded |-> nextSequence]]
    /\ UNCHANGED <<entries, nextSequence, audited, auditWalk, owed, auditOverlapped>>

BumpNext(t) ==
    /\ writing[t].pc = "bump" /\ nextSequence' = writing[t].loaded + 1
    /\ writing' = [writing EXCEPT ![t] = NotWriting]
    /\ UNCHANGED <<entries, audited, auditWalk, owed, auditOverlapped>>

AuditClock ==
    /\ audited < MaxInstant /\ audited' = audited + 1
    /\ UNCHANGED <<entries, nextSequence, writing, auditWalk, owed, auditOverlapped>>
-----------------------------------------------------------------------------
(* entries: the matches of a filter, newest first, up to the limit.        *)
Matching(q) == {i \in DOMAIN entries : /\ q.start <= entries[i].at /\ entries[i].at < q.end
                                       /\ q.actor \in {AnyActor, entries[i].actor}}

(* Variant: the cursor is inclusive.                                       *)
BeforeCursorInclusive(i, before) == before = 0 \/ entries[i].sequence <= before

BeforeCursor(i, before) == before = 0 \/ entries[i].sequence < before

Page(q, before) ==
    LET selected == {i \in Matching(q) : BeforeCursor(i, before)}
        Nth(n) == {i \in selected : Cardinality({j \in selected : j > i}) = n - 1}
        many == IF Cardinality(selected) > AuditLimit THEN AuditLimit ELSE Cardinality(selected)
    IN  [n \in 1..many |-> CHOOSE i \in Nth(n) : TRUE]

(* An auditor walks the pages by next_before until one comes back empty.   *)
StartAuditWalk(q) ==
    /\ auditWalk = NoAuditWalk
    /\ auditWalk' = [query |-> q, before |-> 0, shown |-> <<>>, ended |-> FALSE]
    /\ owed' = Matching(q)
    /\ UNCHANGED <<entries, nextSequence, writing, audited, auditOverlapped>>

NextPage ==
    /\ auditWalk # NoAuditWalk /\ ~auditWalk.ended
    /\ LET page == Page(auditWalk.query, auditWalk.before) IN
       auditWalk' = IF page = <<>> THEN [auditWalk EXCEPT !.ended = TRUE]
                    ELSE [auditWalk EXCEPT !.shown = @ \o page, !.before = entries[Last(page)].sequence]
    /\ UNCHANGED <<entries, nextSequence, writing, audited, owed, auditOverlapped>>

AuditNext ==
    \/ \E t \in Threads : \/ \E a \in Actors : RecordAction(t, a)
                          \/ BuildEntry(t) \/ StoreEntry(t) \/ LoadNext(t) \/ BumpNext(t)
    \/ \E q \in AuditQueries : StartAuditWalk(q)
    \/ AuditClock \/ NextPage

AuditSpec == AuditInit /\ [][AuditNext]_auditVars
-----------------------------------------------------------------------------
(* An auditor's pages neither repeat a row nor skip one that was there when*)
(* the walk began, however much is appended between two pages, unless two  *)
(* appends overlapped ("a page that repeats or skips a row is a page an    *)
(* auditor cannot cite", audit_log.py, entries).                           *)
PagesCanBeCited ==
    (auditWalk # NoAuditWalk /\ ~auditOverlapped) =>
        /\ IsInjective(auditWalk.shown)
        /\ auditWalk.ended => owed \subseteq ToSet(auditWalk.shown)
=============================================================================
