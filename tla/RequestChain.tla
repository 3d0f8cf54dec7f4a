------------------------------ MODULE RequestChain ------------------------------
(***************************************************************************)
(* One request through the middlewares (api/middleware.py): the metrics    *)
(* observe from outside, the rate limit decides before anything is read,   *)
(* and the size cap counts the body while the application reads it.  The   *)
(* application, the framework's body parser and its outermost error        *)
(* handler are external: the application reads, answers and fails as it    *)
(* likes.  Which requests the rate limit refuses is decided below.         *)
(***************************************************************************)
EXTENDS Integers, Sequences, SequencesExt, FiniteSetsExt

CONSTANTS
    MaxBytes,     \* max_request_bytes
    ChunkSizes,   \* bytes a body message may hold
    MaxChunks,    \* bound: body messages
    MaxDeclared   \* bound: what Content-Length may say

ASSUME RequestChainAssumption ==
    MaxBytes \in Nat \ {0} /\ ChunkSizes \subseteq Nat /\ {MaxChunks, MaxDeclared} \subseteq Nat

VARIABLE exchange   \* the request and what became of it

BODY_METHODS == {"POST", "PUT", "PATCH"}
NoLength == -1
NoExchange == [pc |-> "none"]
Statuses == {200, 400, 413, 429, 500}

RequestChainTypeOK ==
    exchange = NoExchange \/
    exchange \in [pc : {"app", "raised", "over"}, method : {"GET", "POST"},
                  left : Seq(ChunkSizes), received : Nat, seen : Nat,
                  sent : Seq(Statuses), status : Statuses]

RequestChainInit == exchange = NoExchange

Capped == exchange.method \in BODY_METHODS
Oversized(declared) == declared > MaxBytes

(* tracked_send of the size cap and of the metrics, as it passes both.     *)
ResponseStarts(code, pc) ==
    exchange' = [exchange EXCEPT !.sent = Append(@, code), !.status = code, !.pc = pc]

(* Until the application is called: the metrics assume 500, a request over *)
(* its limit gets 429, and a declared length over the cap 413.             *)
Arrive(method, declared, body) ==
    /\ exchange = NoExchange
    /\ LET fresh == [pc |-> "app", method |-> method, left |-> body, received |-> 0, seen |-> 0,
                     sent |-> <<>>, status |-> 500]
           refused(code) == [fresh EXCEPT !.pc = "over", !.sent = <<code>>, !.status = code] IN
       \/ exchange' = refused(429)
       \/ /\ method \in BODY_METHODS /\ Oversized(declared)
          /\ exchange' = refused(413)
       \/ /\ ~(method \in BODY_METHODS /\ Oversized(declared))
          /\ exchange' = fresh

(* Variant: what was counted before decides.                               *)
CountedReceiveLate ==
    /\ exchange.pc = "app" /\ exchange.left # <<>>
    /\ LET rest == [exchange EXCEPT !.left = Tail(@), !.received = @ + Head(exchange.left)] IN
       exchange' = IF Capped /\ exchange.received > MaxBytes
                   THEN [rest EXCEPT !.pc = "raised"]
                   ELSE [rest EXCEPT !.seen = @ + Head(exchange.left)]

(* counted_receive: a message that crosses the cap is not handed over.     *)
CountedReceive ==
    /\ exchange.pc = "app" /\ exchange.left # <<>>
    /\ LET rest == [exchange EXCEPT !.left = Tail(@), !.received = @ + Head(exchange.left)] IN
       exchange' = IF Capped /\ rest.received > MaxBytes
                   THEN [rest EXCEPT !.pc = "raised"]
                   ELSE [rest EXCEPT !.seen = @ + Head(exchange.left)]

(* Variant: the answer does not ask whether one has begun.                 *)
BodyTooLargeAlways ==
    /\ exchange.pc = "raised"
    /\ ResponseStarts(413, "over")

(* BodyTooLarge reaches the middleware: 413, unless a response has begun,  *)
(* which then breaks off.                                                  *)
BodyTooLarge ==
    /\ exchange.pc = "raised"
    /\ IF exchange.sent = <<>>
       THEN ResponseStarts(413, "over")
       ELSE exchange' = [exchange EXCEPT !.pc = "over"]

(* External: the framework's parser of a declared body turns whatever its  *)
(* read raises into a 400.                                                 *)
ParserAnswers ==
    /\ exchange.pc = "raised" /\ exchange.sent = <<>>
    /\ ResponseStarts(400, "over")

(* External: the application begins to answer, and may read on.            *)
AppAnswers ==
    /\ exchange.pc = "app" /\ exchange.sent = <<>>
    /\ ResponseStarts(200, "app")

AppEnds ==
    /\ exchange.pc = "app" /\ exchange.sent # <<>>
    /\ exchange' = [exchange EXCEPT !.pc = "over"]

(* External: the application fails; before it answered, the framework's    *)
(* outermost handler sends a 500, which passes no middleware.              *)
AppFails ==
    /\ exchange.pc = "app"
    /\ exchange' = [exchange EXCEPT !.pc = "over",
                                    !.sent = IF @ = <<>> THEN <<500>> ELSE @]

RequestChainNext ==
    \/ \E method \in {"GET", "POST"}, declared \in NoLength..MaxDeclared :
           \E body \in BoundedSeq(ChunkSizes, MaxChunks) : Arrive(method, declared, body)
    \/ CountedReceive \/ BodyTooLarge \/ ParserAnswers \/ AppAnswers \/ AppEnds \/ AppFails

RequestChainSpec == RequestChainInit /\ [][RequestChainNext]_exchange
-----------------------------------------------------------------------------
(* However a body is cut into messages and whatever its header says, no    *)
(* more of it than the cap reaches the application; the client is answered *)
(* once; and the status on the metrics is the one the client saw, also     *)
(* when the request failed or was refused on the way in                    *)
(* (middleware.py, BodySizeLimitMiddleware and MetricsMiddleware).         *)
AnsweredOnceWithinTheCap ==
    exchange # NoExchange =>
        /\ Capped => exchange.seen <= MaxBytes
        /\ Len(exchange.sent) <= 1
        /\ exchange.pc = "over" => exchange.sent = <<exchange.status>>
-----------------------------------------------------------------------------
(***************************************************************************)
(* The rate limit a request passes before it reaches a route               *)
(* (RateLimitMiddleware of api/middleware.py over services/limits.py). The *)
(* middleware runs on the event loop: a check is one step. Tokens are kept *)
(* times Minute, so that a tick earns a whole number of them.              *)
(***************************************************************************)
CONSTANTS
    Credentials, Addresses,          \* what requests present and come from
    PerCredential, PerAddress,       \* requests allowed in a minute
    Minute, Ttl, MaxTracked          \* ticks in a minute, BUCKET_TTL_SECONDS, the cap

ASSUME RequestLimitsAssumption ==
    /\ {PerCredential, PerAddress, Minute, MaxTracked} \subseteq Nat \ {0}
    /\ Ttl \in Nat /\ Ttl >= Minute

VARIABLES
    buckets,     \* _buckets: tokens, and ticks since they were brought up to date
    told         \* history: ticks left of the wait each identity was told of

limitVars == <<buckets, told>>

Identities == Credentials \cup Addresses
NoBucket == [tokens |-> 0, age |-> Ttl + 2]
NotTold == Minute + 1
PerMinute(i) == IF i \in Credentials THEN PerCredential ELSE PerAddress

Tracked == {i \in Identities : buckets[i] # NoBucket}

LimitTypeOK ==
    /\ \A i \in Tracked : /\ buckets[i].tokens \in 0..(PerMinute(i) * Minute)
                          /\ buckets[i].age \in 0..(Ttl + 1)
    /\ Cardinality(Tracked) <= MaxTracked
    /\ told \in [Identities -> 0..NotTold]

LimitInit ==
    buckets = [i \in Identities |-> NoBucket] /\ told = [i \in Identities |-> NotTold]
-----------------------------------------------------------------------------
(* is_limited: every write, and the routes that need no credential.        *)
IsLimited(method, open) == method = "write" \/ open

(* identity: the credential if one is presented, else the address.         *)
IdentityOf(credential, address) == IF credential # "none" THEN credential ELSE address

(* _refill.                                                                *)
Refilled(b, i) ==
    [tokens |-> Min({b.tokens + b.age * PerMinute(i), PerMinute(i) * Minute}), age |-> 0]

(* _prune: the idle ones, then the oldest while the table is at its cap.   *)
IdleBuckets == {i \in Tracked : buckets[i].age > Ttl}
Oldest(S) == CHOOSE i \in S : \A j \in S : buckets[i].age >= buckets[j].age
Pruned ==
    LET kept == Tracked \ IdleBuckets IN
    IdleBuckets \cup IF Cardinality(kept) >= MaxTracked THEN {Oldest(kept)} ELSE {}

(* The bucket a request is judged by: its own, or a new and full one.      *)
BucketAt(i) ==
    IF i \in Tracked THEN Refilled(buckets[i], i)
    ELSE [tokens |-> PerMinute(i) * Minute, age |-> 0]

(* Variant: rounded down.                                                  *)
WaitTruncated(tokens, i) == Max({1, (Minute - tokens) \div PerMinute(i)})

(* take: the whole ticks until a token is there, rounded up.               *)
WaitFor(tokens, i) == Max({1, (Minute - tokens + PerMinute(i) - 1) \div PerMinute(i)})

(* check, for a request that is in scope; a refusal takes nothing.         *)
CheckRequest(credential, address, method, open) ==
    /\ IsLimited(method, open)
    /\ LET i == IdentityOf(credential, address)
           gone == IF i \in Tracked THEN {} ELSE Pruned
           bucket == BucketAt(i)
           allowed == bucket.tokens >= Minute IN
       /\ buckets' = [j \in Identities |->
              IF j = i THEN IF allowed THEN [bucket EXCEPT !.tokens = @ - Minute] ELSE bucket
              ELSE IF j \in gone THEN NoBucket ELSE buckets[j]]
       /\ told' = [told EXCEPT ![i] =
              IF allowed THEN NotTold ELSE IF @ = NotTold THEN WaitFor(bucket.tokens, i) ELSE @]

LimitTick ==
    /\ buckets' = [i \in Identities |->
           IF i \in Tracked THEN [buckets[i] EXCEPT !.age = Min({@ + 1, Ttl + 1})] ELSE NoBucket]
    /\ told' = [i \in Identities |-> IF told[i] \in 1..Minute THEN told[i] - 1 ELSE told[i]]

LimitNext ==
    \/ LimitTick
    \/ \E c \in Credentials \cup {"none"}, a \in Addresses, method \in {"read", "write"} :
          CheckRequest(c, a, method, c = "none")

LimitSpec == LimitInit /\ [][LimitNext]_limitVars
-----------------------------------------------------------------------------
(* A refusal is a promise: the identity that comes back no sooner than it  *)
(* was told is let through, however often it asked meanwhile and whatever  *)
(* the table dropped ("every refusal a promise the client can disprove").  *)
RetryAfterIsKept ==
    \A i \in Identities : told[i] = 0 => BucketAt(i).tokens >= Minute
=============================================================================
