-------------------------------- MODULE Erasure --------------------------------
(***************************************************************************)
(* Erasure of a data subject (services/erasure.py, endpoints/privacy.py,   *)
(* services/user_erasure_store.py): the cascade over the entity and the    *)
(* user store, the ledger that makes a repeat touch nothing, and the pages *)
(* of that ledger.  Routes run in a thread pool.  A tombstone is the       *)
(* subject it was derived from; nothing else can be told from it.          *)
(***************************************************************************)
EXTENDS Integers, SequencesExt, Threadpool

CONSTANTS
    Subjects,        \* users and entities, each a kind and an identifier
    MaxLedgerLimit,  \* MAX_LEDGER_LIMIT
    MaxAdds          \* bound: registrations

ASSUME ErasureAssumption ==
    /\ \A s \in Subjects : s.kind \in {"user", "entity"}
    /\ MaxLedgerLimit \in Nat \ {0} /\ MaxAdds \in Nat

VARIABLES
    stored,     \* what each store names: the number of its registration, or 0
    erasures,     \* _entries
    erasing,    \* the erasure each thread is in the middle of
    trailed,    \* by store and subject, the registrations made before the last erasure
                \* the audit trail names that was to clear the store; -1 if none was
    listing,    \* a client's walk through the ledger's pages
    adds        \* registrations made

erasureVars == <<stored, erasures, erasing, trailed, listing, adds>>

Stores == {"entities", "users", "keys"}
NotErasing == [at |-> "none"]
NotListing == [at |-> "none"]
LedgerEntry == [sequence : Nat \ {0}, tombstone : Subjects]

ErasureTypeOK ==
    /\ stored \in [Stores -> [Subjects -> 0..MaxAdds]] /\ erasures \in Seq(LedgerEntry)
    /\ \A t \in Threads : erasing[t] # NotErasing => erasing[t].subject \in Subjects
    /\ trailed \in [Stores -> [Subjects -> -1..MaxAdds]] /\ adds \in 0..MaxAdds
    /\ listing # NotListing => /\ listing.shown \subseteq LedgerEntry
                               /\ listing.began \subseteq LedgerEntry

ErasureInit ==
    /\ stored = [store \in Stores |-> [s \in Subjects |-> 0]] /\ erasures = <<>>
    /\ trailed = [store \in Stores |-> [s \in Subjects |-> -1]] /\ adds = 0
    /\ erasing = [t \in Threads |-> NotErasing] /\ listing = NotListing
-----------------------------------------------------------------------------
HoldsKind(kind) == IF kind = "user" THEN {"users", "keys"} ELSE {"entities"}
MainStore(s) == IF s.kind = "user" THEN "users" ELSE "entities"
Has(s) == \E k \in DOMAIN erasures : erasures[k].tombstone = s

(* Ingest registers an entity, a user a key; the users table holds only    *)
(* the rows written to it directly: an account need not have one.          *)
Names(store, s) == stored[store][s] # 0

Register(store, s) ==
    /\ adds < MaxAdds /\ store \in HoldsKind(s.kind) /\ ~Names(store, s)
    /\ stored' = [stored EXCEPT ![store][s] = adds + 1]
    /\ adds' = adds + 1
    /\ UNCHANGED <<erasures, erasing, trailed, listing>>

(* erase: a subject the ledger has is answered without touching a store.   *)
BeginErasure(t, s) ==
    /\ erasing[t] = NotErasing /\ ~Has(s)
    /\ erasing' = [erasing EXCEPT ![t] = [at |-> "cascade", subject |-> s, since |-> adds, found |-> FALSE]]
    /\ UNCHANGED <<stored, erasures, trailed, listing, adds>>

(* The targets in order; one that holds the other kind is passed over.     *)
(* redact_value renames the entity; erase_owner deletes the user's row ... *)
CascadeStore(t) ==
    /\ erasing[t].at = "cascade"
    /\ LET s == erasing[t].subject  found == Names(MainStore(s), s) IN
       /\ stored' = [stored EXCEPT ![MainStore(s)][s] = 0]
       /\ erasing' = [erasing EXCEPT ![t].found = found,
                                     ![t].at = IF s.kind = "user" /\ found THEN "keys" ELSE "number"]
    /\ UNCHANGED <<erasures, trailed, listing, adds>>

(* Variant: a key store that raises is passed over.                        *)
KeysPassedOver(t) ==
    /\ erasing[t].at = "keys"
    /\ erasing' = [erasing EXCEPT ![t].at = "number"]
    /\ UNCHANGED <<stored, erasures, trailed, listing, adds>>

(* ... and, if there was one, the keys of its owner: a step of its own, in *)
(* the process and not in the transaction that deleted the row.            *)
CascadeKeys(t) ==
    /\ erasing[t].at = "keys"
    /\ stored' = [stored EXCEPT !["keys"][erasing[t].subject] = 0]
    /\ erasing' = [erasing EXCEPT ![t].at = "number"]
    /\ UNCHANGED <<erasures, trailed, listing, adds>>

(* A store raises, before the row is gone or after: the request fails and  *)
(* nothing is recorded.                                                    *)
CascadeFails(t) ==
    /\ erasing[t].at \in {"cascade", "keys"}
    /\ erasing' = [erasing EXCEPT ![t] = NotErasing]
    /\ UNCHANGED <<stored, erasures, trailed, listing, adds>>

(* _next_sequence, then append: two steps.                                 *)
TakeSequence(t) ==
    /\ erasing[t].at = "number"
    /\ erasing' = [erasing EXCEPT ![t] = [at |-> "append", subject |-> @.subject,
                                          since |-> @.since, found |-> @.found,
                                          sequence |-> Len(erasures) + 1]]
    /\ UNCHANGED <<stored, erasures, trailed, listing, adds>>

(* The stores an erasure was to clear: the keys only if there was a row.   *)
Owed(e) == IF e.found THEN HoldsKind(e.subject.kind) ELSE {MainStore(e.subject)}

AppendEntry(t) ==
    /\ erasing[t].at = "append"
    /\ erasures' = Append(erasures, [sequence |-> erasing[t].sequence, tombstone |-> erasing[t].subject])
    /\ erasing' = [erasing EXCEPT ![t] = NotErasing]
    /\ trailed' = [store \in Stores |->
           IF store \in Owed(erasing[t])
           THEN [trailed[store] EXCEPT ![erasing[t].subject] = Max({@, erasing[t].since})]
           ELSE trailed[store]]
    /\ UNCHANGED <<stored, listing, adds>>
-----------------------------------------------------------------------------
Accepted(limit) == limit \in 1..MaxLedgerLimit

(* The order of sorted(..., reverse=True), which is stable.                *)
Newer(j, k) == \/ erasures[j].sequence > erasures[k].sequence
               \/ erasures[j].sequence = erasures[k].sequence /\ j < k

(* entries: newest first, below `before` (0 is none), `limit` at most.     *)
Entries(limit, before) ==
    LET kept == {k \in DOMAIN erasures : before = 0 \/ erasures[k].sequence < before}
        Nth(n) == {k \in kept : Cardinality({j \in kept : Newer(j, k)}) = n - 1}
        many == IF limit < Cardinality(kept) THEN limit ELSE Cardinality(kept)
    IN  [n \in 1..many |-> erasures[CHOOSE k \in Nth(n) : TRUE]]

StartListing(limit) ==
    /\ Accepted(limit)
    /\ listing' = [at |-> "page", limit |-> limit, before |-> 0, shown |-> {}, began |-> ToSet(erasures)]
    /\ UNCHANGED <<stored, erasures, erasing, trailed, adds>>

(* Variant: the cursor is the first entry left out.                        *)
CursorFirstLeftOut(found, limit) == IF Len(found) > limit THEN found[limit + 1].sequence ELSE 0

(* The cursor is the last entry handed out: `before` is exclusive.         *)
NextBefore(found, limit) == IF Len(found) > limit THEN found[limit].sequence ELSE 0

(* list_erasures: one entry over the limit tells whether there is more.    *)
FetchLedgerPage(limit) ==
    /\ listing.at = "page" /\ listing.limit = limit
    /\ IF ~Accepted(limit + 1)                     \* histogram raises: 500
       THEN listing' = [listing EXCEPT !.at = "error"]
       ELSE LET found == Entries(limit + 1, listing.before)
                page == SubSeq(found, 1, IF limit < Len(found) THEN limit ELSE Len(found))
                next == NextBefore(found, limit) IN
            listing' = [listing EXCEPT !.at = IF next = 0 THEN "end" ELSE "page",
                                       !.before = next, !.shown = @ \cup ToSet(page)]
    /\ UNCHANGED <<stored, erasures, erasing, trailed, adds>>

ErasureNext ==
    \/ \E store \in Stores, s \in Subjects : Register(store, s)
    \/ \E t \in Threads, s \in Subjects : BeginErasure(t, s)
    \/ \E t \in Threads : \/ CascadeStore(t) \/ CascadeKeys(t) \/ CascadeFails(t)
                          \/ TakeSequence(t) \/ AppendEntry(t)
    \/ \E limit \in 1..MaxLedgerLimit : StartListing(limit) \/ FetchLedgerPage(limit)

ErasureSpec == ErasureInit /\ [][ErasureNext]_erasureVars
-----------------------------------------------------------------------------
(* What the ledger and the trail say was erased is in no store the erasure *)
(* was to clear - the entity's, or the user's row and, where there was one *)
(* to delete, the keys of its owner - unless it was registered again since *)
(* it began, although any target may fail half way, the keys after the     *)
(* row, and two requests may overlap (erasure.py, ErasureService.erase).   *)
(* Where the row was not there, or went in an erasure that then failed,    *)
(* the keys stay, and nothing is said of them.                             *)
Outlives(store, s, since) == 0 < stored[store][s] /\ stored[store][s] <= since

RecordedMeansErased ==
    \A s \in Subjects, store \in Stores :
        /\ trailed[store][s] >= 0 => Has(s)
        /\ ~Outlives(store, s, trailed[store][s])

(* A walk that is not answered by an error shows every entry there was     *)
(* when it began, unless two entries took one number.                      *)
LedgerWalkIsComplete ==
    listing.at = "end" =>
        \/ listing.began \subseteq listing.shown
        \/ \E j, k \in DOMAIN erasures : j # k /\ erasures[j].sequence = erasures[k].sequence
=============================================================================
