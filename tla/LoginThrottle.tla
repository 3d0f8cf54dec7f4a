----------------------------- MODULE LoginThrottle -----------------------------
(***************************************************************************)
(* The failed sign-in limit (services/login_throttle.py) as the login      *)
(* route uses it: check, verify the password, record the outcome, with     *)
(* other threads in between.  Counts live in the shared counter (Redis)    *)
(* and, when a call to it fails, in the local fallback; each call chooses  *)
(* for itself.  A key's window starts at its first failure and ends at any *)
(* later moment.                                                           *)
(***************************************************************************)
EXTENDS Integers, Sequences, FiniteSets, SequencesExt, Threadpool

CONSTANTS
    Emails, Addresses,
    AccountMax,     \* settings.account_max_failures
    AddressMax,     \* settings.address_max_failures
    LocalMaxKeys,   \* LocalWindowCounter._max_keys
    RedisModes,     \* "up"; "down": no call works; "readonly": reads work, writes fail
    MaxSwitches     \* bound: changes of the backend's mode

ASSUME ThrottleAssumption ==
    /\ Emails \cap Addresses = {} /\ IsFiniteSet(Threads)
    /\ AccountMax \in Nat \ {0} /\ AddressMax \in Nat \ {0} /\ LocalMaxKeys \in Nat \ {0}
    /\ RedisModes \subseteq {"up", "down", "readonly"} /\ "up" \in RedisModes
    /\ MaxSwitches \in Nat

VARIABLES
    primary,    \* RedisWindowCounter: failures of each key in its window
    fallback,   \* LocalWindowCounter._entries, oldest first
    mode,       \* what the shared counter answers
    switches,   \* changes of mode so far
    attempt     \* the sign-in each thread is serving

throttleVars == <<primary, fallback, mode, switches, attempt>>

ThrottleKeys == Emails \cup Addresses
Entry == [key : ThrottleKeys, count : Nat]
NoAttempt == [pc |-> "none"]
MaxFailures(k) == IF k \in Emails THEN AccountMax ELSE AddressMax

ThrottleTypeOK ==
    /\ primary \in [ThrottleKeys -> Nat]
    /\ fallback \in Seq(Entry) /\ Len(fallback) <= LocalMaxKeys
    /\ mode \in RedisModes /\ switches \in 0..MaxSwitches
    /\ attempt \in [Threads -> {NoAttempt} \cup
                     [pc : {"verify"}, email : Emails, address : Addresses]]

ThrottleInit ==
    /\ primary = [k \in ThrottleKeys |-> 0]
    /\ fallback = <<>>
    /\ mode = "up" /\ switches = 0
    /\ attempt = [t \in Threads |-> NoAttempt]
-----------------------------------------------------------------------------
Held(entries, k) == {i \in DOMAIN entries : entries[i].key = k}
TheOne(held) == CHOOSE i \in held : TRUE

CountIn(entries, k) ==
    IF Held(entries, k) = {} THEN 0 ELSE entries[TheOne(Held(entries, k))].count
LocalCount(k) == CountIn(fallback, k)

Without(entries, k) ==
    IF Held(entries, k) = {} THEN entries ELSE RemoveAt(entries, TheOne(Held(entries, k)))

(* The key becomes the newest.                                             *)
Counted(entries, k) ==
    Append(Without(entries, k), [key |-> k, count |-> CountIn(entries, k) + 1])

(* Variant: nothing makes room.                                            *)
LocalAddUncapped(entries, k) == Counted(entries, k)

(* LocalWindowCounter.add: the oldest makes room when there are too many.  *)
LocalAdd(entries, k) ==
    LET added == Counted(entries, k) IN
    IF Len(added) > LocalMaxKeys THEN Tail(added) ELSE added

(* _call("count"): the shared counter, or the fallback when it fails.      *)
Count(k) == IF mode = "down" THEN LocalCount(k) ELSE primary[k]

(* Variant: only the account's limit is looked at.                         *)
CheckAccountOnly(t, e, a) ==
    /\ attempt[t] = NoAttempt /\ Count(e) < MaxFailures(e)
    /\ attempt' = [attempt EXCEPT ![t] = [pc |-> "verify", email |-> e, address |-> a]]
    /\ UNCHANGED <<primary, fallback, mode, switches>>

(* check allows an attempt that neither limit refuses.                     *)
Check(t, e, a) ==
    /\ attempt[t] = NoAttempt
    /\ \A k \in {e, a} : Count(k) < MaxFailures(k)
    /\ attempt' = [attempt EXCEPT ![t] = [pc |-> "verify", email |-> e, address |-> a]]
    /\ UNCHANGED <<primary, fallback, mode, switches>>

(* A wrong password: record_failure adds to both keys.                     *)
RecordFailure(t) ==
    /\ attempt[t].pc = "verify"
    /\ LET e == attempt[t].email  a == attempt[t].address IN
       IF mode = "up"
       THEN /\ primary' = [primary EXCEPT ![e] = @ + 1, ![a] = @ + 1]
            /\ UNCHANGED fallback
       ELSE /\ fallback' = LocalAdd(LocalAdd(fallback, e), a)
            /\ UNCHANGED primary
    /\ attempt' = [attempt EXCEPT ![t] = NoAttempt]
    /\ UNCHANGED <<mode, switches>>

(* The right password: record_success clears the account, the shared       *)
(* counter if it takes the call and the fallback in any case.              *)
RecordSuccess(t) ==
    /\ attempt[t].pc = "verify"
    /\ primary' = IF mode = "up" THEN [primary EXCEPT ![attempt[t].email] = 0] ELSE primary
    /\ fallback' = Without(fallback, attempt[t].email)
    /\ attempt' = [attempt EXCEPT ![t] = NoAttempt]
    /\ UNCHANGED <<mode, switches>>

SharedWindowEnds(k) ==
    /\ primary[k] > 0
    /\ primary' = [primary EXCEPT ![k] = 0]
    /\ UNCHANGED <<fallback, mode, switches, attempt>>

LocalWindowEnds(k) ==
    /\ LocalCount(k) > 0
    /\ fallback' = Without(fallback, k)
    /\ UNCHANGED <<primary, mode, switches, attempt>>

RedisChanges(m) ==
    /\ m # mode /\ switches < MaxSwitches
    /\ mode' = m /\ switches' = switches + 1
    /\ UNCHANGED <<primary, fallback, attempt>>

ThrottleNext ==
    \/ \E t \in Threads, e \in Emails, a \in Addresses : Check(t, e, a)
    \/ \E t \in Threads : RecordFailure(t) \/ RecordSuccess(t)
    \/ \E k \in ThrottleKeys : SharedWindowEnds(k) \/ LocalWindowEnds(k)
    \/ \E m \in RedisModes : RedisChanges(m)

ThrottleSpec == ThrottleInit /\ [][ThrottleNext]_throttleVars
-----------------------------------------------------------------------------
(* The limit exists when Redis does not answer: within a window each       *)
(* counter passes a key's limit by no more than the attempts that were     *)
(* checked before it got there, one per other thread, and those that were  *)
(* checked against the other counter before the backend changed            *)
(* (login_throttle.py, LoginThrottle and its _call).  Nothing is said of a *)
(* Redis that answers reads and refuses writes: what it does not count the *)
(* fallback does, and nobody reads it.                                     *)
LimitHolds ==
    "readonly" \notin RedisModes =>
        \A k \in ThrottleKeys : \A n \in {primary[k], LocalCount(k)} :
            n <= MaxFailures(k) + (Cardinality(Threads) - 1) + Cardinality(Threads) * switches
=============================================================================
