-------------------------------- MODULE ApiKeys --------------------------------
(***************************************************************************)
(* Machine credentials: issuing, verifying and revoking API keys           *)
(* (auth/api_keys.py, endpoints/api_keys.py) over InMemoryApiKeyStore, and *)
(* the erasure of an owner's keys.  Every operation reads a record and     *)
(* writes a changed copy of it back, with nothing held in between.  A      *)
(* secret is the number of its issue; a digest matches only its own key.   *)
(***************************************************************************)
EXTENDS Integers, FiniteSets, Threadpool

CONSTANTS
    Owners,
    MaxKeys   \* bound: keys issued

ASSUME ApiKeysAssumption == Owners # {} /\ MaxKeys \in Nat \ {0}

VARIABLES
    keys,     \* _by_id
    nextId,   \* _next_id
    issued,   \* history: the keys handed out, each its id and its secret
    ended,    \* history: those revoked or erased since
    raced,    \* history: a write undid another or took its place
    op        \* the store operation each thread is in the middle of

apiKeysVars == <<keys, nextId, issued, ended, raced, op>>

KeyIds == 1..MaxKeys
NoKey == [secret |-> 0]
KeyRecord == [secret : 1..MaxKeys, owner : Owners, revoked : BOOLEAN, used : BOOLEAN]
PlainKey == [id : KeyIds, secret : 1..MaxKeys]
NoOp == [op |-> "none"]

ApiKeysTypeOK ==
    /\ keys \in [KeyIds -> KeyRecord \cup {NoKey}]
    /\ nextId \in 1..(MaxKeys + 1)
    /\ ended \subseteq issued /\ issued \subseteq PlainKey
    /\ raced \in BOOLEAN
    /\ op \in [Threads -> {NoOp} \cup [op : {"create"}, id : 1..(MaxKeys + 1), owner : Owners]
                          \cup [op : {"verified"}, id : KeyIds]
                          \cup [op : {"touch", "revoke"}, id : KeyIds, read : KeyRecord]]

ApiKeysInit ==
    /\ keys = [i \in KeyIds |-> NoKey]
    /\ nextId = 1 /\ issued = {} /\ ended = {} /\ raced = FALSE
    /\ op = [t \in Threads |-> NoOp]
-----------------------------------------------------------------------------
Exists(i) == keys[i] # NoKey
Holders(i) == {k \in issued : k.id = i /\ k.secret = keys[i].secret}

(* Variant: a digest that matches is enough.                               *)
VerifiesAnyway(k) == Exists(k.id) /\ keys[k.id].secret = k.secret

(* verify_key: the digest matches and the record is live.                  *)
Verifies(k) == Exists(k.id) /\ keys[k.id].secret = k.secret /\ ~keys[k.id].revoked

(* create: the record is built for the next id ...                         *)
CreateBuild(t, o) ==
    /\ op[t] = NoOp /\ nextId <= MaxKeys
    /\ op' = [op EXCEPT ![t] = [op |-> "create", id |-> nextId, owner |-> o]]
    /\ UNCHANGED <<keys, nextId, issued, ended, raced>>

(* ... and stored, and the counter moves on.                               *)
CreateStore(t) ==
    /\ op[t].op = "create" /\ nextId <= MaxKeys
    /\ LET i == op[t].id  secret == Cardinality(issued) + 1 IN
       /\ keys' = [keys EXCEPT ![i] = [secret |-> secret, owner |-> op[t].owner,
                                       revoked |-> FALSE, used |-> FALSE]]
       /\ issued' = issued \cup {[id |-> i, secret |-> secret]}
       /\ raced' = (raced \/ Exists(i))
    /\ nextId' = nextId + 1
    /\ op' = [op EXCEPT ![t] = NoOp]
    /\ UNCHANGED ended

(* verify_key up to touch: a key that does not verify is refused.          *)
VerifyKey(t, k) ==
    /\ op[t] = NoOp /\ Verifies(k)
    /\ op' = [op EXCEPT ![t] = [op |-> "verified", id |-> k.id]]
    /\ UNCHANGED <<keys, nextId, issued, ended, raced>>

(* touch: at most one use is written per interval.                         *)
TouchRead(t) ==
    /\ op[t].op = "verified"
    /\ LET i == op[t].id IN
       op' = [op EXCEPT ![t] = IF Exists(i) /\ ~keys[i].used
                               THEN [op |-> "touch", id |-> i, read |-> keys[i]] ELSE NoOp]
    /\ UNCHANGED <<keys, nextId, issued, ended, raced>>

(* The write lands on a record whose standing changed since it was read.   *)
Stale(t) == LET i == op[t].id IN
    \/ ~Exists(i) \/ keys[i].secret # op[t].read.secret \/ keys[i].revoked # op[t].read.revoked

(* _write copies every other field from what was read.                     *)
TouchWrite(t) ==
    /\ op[t].op = "touch"
    /\ keys' = [keys EXCEPT ![op[t].id] = [op[t].read EXCEPT !.used = TRUE]]
    /\ raced' = (raced \/ Stale(t))
    /\ op' = [op EXCEPT ![t] = NoOp]
    /\ UNCHANGED <<nextId, issued, ended>>

RevokeRead(t, i) ==
    /\ op[t] = NoOp /\ Exists(i)
    /\ op' = [op EXCEPT ![t] = [op |-> "revoke", id |-> i, read |-> keys[i]]]
    /\ UNCHANGED <<keys, nextId, issued, ended, raced>>

(* Variant: the copy carries the revocation only if there was one.         *)
RevokeWriteLost(t) ==
    /\ op[t].op = "revoke"
    /\ keys' = [keys EXCEPT ![op[t].id] = op[t].read]
    /\ ended' = ended \cup Holders(op[t].id)
    /\ raced' = (raced \/ Stale(t))
    /\ op' = [op EXCEPT ![t] = NoOp]
    /\ UNCHANGED <<nextId, issued>>

RevokeWrite(t) ==
    /\ op[t].op = "revoke"
    /\ keys' = [keys EXCEPT ![op[t].id] = [op[t].read EXCEPT !.revoked = TRUE]]
    /\ ended' = ended \cup Holders(op[t].id)
    /\ raced' = (raced \/ Stale(t))
    /\ op' = [op EXCEPT ![t] = NoOp]
    /\ UNCHANGED <<nextId, issued>>

(* erase_owner with an empty replacement, as erasure calls it.             *)
EraseOwner(o) ==
    /\ \E i \in KeyIds : Exists(i) /\ keys[i].owner = o
    /\ LET mine == {i \in KeyIds : Exists(i) /\ keys[i].owner = o} IN
       /\ keys' = [i \in KeyIds |-> IF i \in mine THEN NoKey ELSE keys[i]]
       /\ ended' = ended \cup UNION {Holders(i) : i \in mine}
    /\ UNCHANGED <<nextId, issued, raced, op>>

TouchIntervalOver(i) ==
    /\ Exists(i) /\ keys[i].used
    /\ keys' = [keys EXCEPT ![i].used = FALSE]
    /\ UNCHANGED <<nextId, issued, ended, raced, op>>

ApiKeysNext ==
    \/ \E t \in Threads, o \in Owners : CreateBuild(t, o)
    \/ \E t \in Threads : CreateStore(t) \/ TouchRead(t) \/ TouchWrite(t) \/ RevokeWrite(t)
    \/ \E t \in Threads, k \in issued : VerifyKey(t, k)
    \/ \E t \in Threads, i \in KeyIds : RevokeRead(t, i)
    \/ \E o \in Owners : EraseOwner(o)
    \/ \E i \in KeyIds : TouchIntervalOver(i)

ApiKeysSpec == ApiKeysInit /\ [][ApiKeysNext]_apiKeysVars
-----------------------------------------------------------------------------
(* What the store keeps of it: as long as no write landed on a record that *)
(* changed after it was read, the keys that verify are exactly those       *)
(* issued and neither revoked nor erased (auth/api_keys.py).               *)
LiveKeysVerify == raced \/ \A k \in issued : Verifies(k) <=> k \notin ended
=============================================================================
