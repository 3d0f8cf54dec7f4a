-------------------------------- MODULE OidcSignIn --------------------------------
(***************************************************************************)
(* The provider's signing keys as a callback sees them (auth/oidc.py): a   *)
(* cache shared by the worker threads, refetched when it is old and once   *)
(* more, no sooner than a floor, for a token whose key it does not hold.   *)
(* The lock is released while a document is fetched.  The rest of the      *)
(* sign-in (state, account) is in Sessions; a token here is the key id its *)
(* header names.                                                           *)
(***************************************************************************)
EXTENDS Integers, FiniteSets, Threadpool

CONSTANTS
    Keys,            \* key ids of the provider
    JwksTtl, RefreshFloor,
    FetchTime,       \* what the HTTP timeout leaves a fetch, in ticks
    MaxOidcTime, MaxCallbacks   \* bounds: clock, callbacks

NoKid == "no kid"
ASSUME OidcAssumption ==
    /\ NoKid \notin Keys
    /\ {JwksTtl, FetchTime} \subseteq Nat /\ RefreshFloor \in Nat \ {0} /\ RefreshFloor < JwksTtl
    /\ {MaxOidcTime, MaxCallbacks} \subseteq Nat

VARIABLES
    oidcTime,        \* the monotonic clock
    published,       \* the provider's keys
    since,           \* history: when each key was last published, or withdrawn
    jwks,            \* _jwks and _jwks_at
    callbacks,       \* per thread, verify_id_token
    answeredCallbacks

oidcVars == <<oidcTime, published, since, jwks, callbacks, answeredCallbacks>>

NoJwks == [keys |-> {}, at |-> -JwksTtl]
NoCallback == [pc |-> "idle"]

OidcTypeOK ==
    /\ oidcTime \in 0..MaxOidcTime /\ published \subseteq Keys /\ jwks.keys \subseteq Keys
    /\ since \in [Keys -> 0..MaxOidcTime] /\ answeredCallbacks \in 0..MaxCallbacks

OidcInit ==
    /\ oidcTime = 0 /\ published \in (SUBSET Keys) \ {{}}
    /\ since = [k \in Keys |-> 0]
    /\ jwks = NoJwks /\ answeredCallbacks = 0
    /\ callbacks = [t \in Threads |-> NoCallback]
-----------------------------------------------------------------------------
(* verify_id_token of a token whose header names `kid` and an algorithm    *)
(* that is allowed; its claims are checked once its key is found.          *)
Callback(t, kid) ==
    /\ callbacks[t] = NoCallback /\ answeredCallbacks < MaxCallbacks
    /\ answeredCallbacks' = answeredCallbacks + 1
    /\ callbacks' = [callbacks EXCEPT ![t] =
           [pc |-> "look", kid |-> kid, force |-> FALSE, began |-> oidcTime]]
    /\ UNCHANGED <<oidcTime, published, since, jwks>>

(* Variant: a fresh cache is never fetched again.                          *)
UsesCacheUnforced(force) == jwks.keys # {} /\ oidcTime - jwks.at < JwksTtl

(* _signing_keys: the cache while it is fresh, and when forced only if it  *)
(* is too young to be fetched again.                                       *)
UsesCache(force) ==
    LET age == oidcTime - jwks.at IN
    jwks.keys # {} /\ age < JwksTtl /\ (force => age < RefreshFloor)

(* _key_for: the one key the token names, or the only key if it names none.*)
Finds(kid, keys) == IF kid = NoKid THEN Cardinality(keys) = 1 ELSE kid \in keys

(* A key that is not found is looked for again, forced, and then refused.  *)
Decided(c, keys) ==
    IF Finds(c.kid, keys) THEN [pc |-> "verified", kid |-> c.kid, began |-> c.began]
    ELSE IF c.force THEN [pc |-> "rejected", kid |-> c.kid, began |-> c.began]
    ELSE [c EXCEPT !.pc = "look", !.force = TRUE]

LookInCache(t) ==
    /\ callbacks[t].pc = "look" /\ UsesCache(callbacks[t].force)
    /\ callbacks' = [callbacks EXCEPT ![t] = Decided(@, jwks.keys)]
    /\ UNCHANGED <<oidcTime, published, since, jwks, answeredCallbacks>>

StartFetch(t) ==
    /\ callbacks[t].pc = "look" /\ ~UsesCache(callbacks[t].force)
    /\ callbacks' = [callbacks EXCEPT ![t] =
           [pc |-> "fetch", kid |-> @.kid, force |-> @.force, began |-> @.began,
            doc |-> published, at |-> oidcTime]]
    /\ UNCHANGED <<oidcTime, published, since, jwks, answeredCallbacks>>

(* The document is cached as of the time it arrived.                       *)
KeepKeys(t) ==
    /\ callbacks[t].pc = "fetch"
    /\ jwks' = [keys |-> callbacks[t].doc, at |-> oidcTime]
    /\ callbacks' = [callbacks EXCEPT ![t] =
           Decided([pc |-> "look", kid |-> @.kid, force |-> @.force, began |-> @.began], @.doc)]
    /\ UNCHANGED <<oidcTime, published, since, answeredCallbacks>>

(* _get_json: OidcUnavailable, and nothing is cached.                      *)
FetchFails(t) ==
    /\ callbacks[t].pc = "fetch"
    /\ callbacks' = [callbacks EXCEPT ![t] = [pc |-> "unavailable"]]
    /\ UNCHANGED <<oidcTime, published, since, jwks, answeredCallbacks>>

(* The route answers.                                                      *)
CallbackAnswered(t) ==
    /\ callbacks[t].pc \in {"verified", "rejected", "unavailable"}
    /\ callbacks' = [callbacks EXCEPT ![t] = NoCallback]
    /\ UNCHANGED <<oidcTime, published, since, jwks, answeredCallbacks>>

(* The provider rotates: a key is added or withdrawn, once a tick at most. *)
Rotate(k) ==
    /\ since[k] < oidcTime
    /\ published' = (published \ {k}) \cup ({k} \ published) /\ published' # {}
    /\ since' = [since EXCEPT ![k] = oidcTime]
    /\ UNCHANGED <<oidcTime, jwks, callbacks, answeredCallbacks>>

OidcClock ==
    /\ oidcTime < MaxOidcTime /\ oidcTime' = oidcTime + 1
    /\ \A t \in Threads : callbacks[t].pc = "fetch" => oidcTime < callbacks[t].at + FetchTime
    /\ UNCHANGED <<published, since, jwks, callbacks, answeredCallbacks>>

OidcNext ==
    \/ \E t \in Threads : \/ \E kid \in Keys \cup {NoKid} : Callback(t, kid)
                          \/ LookInCache(t) \/ StartFetch(t) \/ KeepKeys(t) \/ FetchFails(t)
                          \/ CallbackAnswered(t)
    \/ \E k \in Keys : Rotate(k)
    \/ OidcClock

OidcSpec == OidcInit /\ [][OidcNext]_oidcVars
-----------------------------------------------------------------------------
(* A rotation is seen: a token signed with a key the provider had been     *)
(* publishing for longer than the floor (and a fetch) is not refused for   *)
(* want of its key, and one signed with a key withdrawn for longer than    *)
(* the cache lives (and a fetch) is not verified, whatever documents were  *)
(* in flight together (oidc.py, _signing_keys and _key_for).               *)
RotationIsSeen ==
    \A t \in Threads :
        LET c == callbacks[t] IN
        /\ (c.pc = "rejected" /\ c.kid # NoKid /\ c.kid \in published) =>
               since[c.kid] + RefreshFloor + FetchTime > c.began
        /\ (c.pc = "verified" /\ c.kid # NoKid /\ c.kid \notin published) =>
               since[c.kid] + JwksTtl + FetchTime > c.began
=============================================================================
