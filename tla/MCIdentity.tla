------------------------------- MODULE MCIdentity -------------------------------
(***************************************************************************)
(* Who may do what, in one instance: accounts, sessions, sign-in throttle, *)
(* API keys, the OIDC provider, the role matrix.  They share the thread    *)
(* pool and no state beyond a module's (accounts and sessions are one),    *)
(* so in any one behaviour one of them is busy and the others rest:        *)
(* `focus` says which.                                                     *)
(***************************************************************************)
EXTENDS Sessions, LoginThrottle, ApiKeys, OidcSignIn, Rbac, TLC

VARIABLE focus

identityVars == <<focus, sessionsVars, throttleVars, apiKeysVars, oidcVars, rbacVars>>
-----------------------------------------------------------------------------
(* The constants that a cfg cannot spell.                                  *)
Perms == Permutations(Threads)

BothAdmins == [u \in Users |-> "admin"]

MCKeys == {[verifies |-> v, scopes |-> s] :
              v \in BOOLEAN, s \in (SUBSET {"ingest_write", "alerts_read"}) \ {{}}}
MCHeaders ==
    {[authorization |-> a, key |-> k, offered |-> o] :
        a \in {AccessToken(r) : r \in Role \cup {"superuser"}}
              \cup {OtherToken, NoAuthorization} \cup {KeyBearer(k) : k \in MCKeys},
        k \in MCKeys \cup {NoHeaderKey},
        o \in {NoAuthorization, AccessToken("viewer"), AccessToken("superuser")}
              \cup {KeyBearer(k) : k \in {key \in MCKeys : key.verifies}}}
-----------------------------------------------------------------------------
Services == {"accounts", "sessions", "throttle", "keys", "oidc", "rbac"}

IdentityInit ==
    /\ focus \in Services
    /\ SessionsInit /\ (focus # "accounts" => directory = Bootstrap)
    /\ ThrottleInit /\ ApiKeysInit
    /\ OidcInit /\ (focus # "oidc" => published = Keys)
    /\ RbacInit

Rests(service, v) == IF focus = service THEN TRUE ELSE UNCHANGED v

IdentityNext ==
    /\ \/ focus = "accounts" /\ AccountsNext
          /\ UNCHANGED <<tokens, spent, revoked, expired, pending, restarts, req>>
       \/ focus = "sessions" /\ SessionsNext
       \/ focus = "throttle" /\ ThrottleNext
       \/ focus = "keys" /\ ApiKeysNext
       \/ focus = "oidc" /\ OidcNext
       \/ focus = "rbac" /\ Require
    /\ UNCHANGED focus
    /\ IF focus \in {"accounts", "sessions"} THEN TRUE ELSE UNCHANGED sessionsVars
    /\ Rests("throttle", throttleVars) /\ Rests("keys", apiKeysVars)
    /\ Rests("oidc", oidcVars) /\ Rests("rbac", rbacVars)

IdentitySpec == IdentityInit /\ [][IdentityNext]_identityVars
-----------------------------------------------------------------------------
IdentityTypeOK ==
    /\ focus \in Services
    /\ focus \in {"accounts", "sessions"} => SessionsTypeOK
    /\ focus = "throttle" => ThrottleTypeOK
    /\ focus = "keys" => ApiKeysTypeOK
    /\ focus = "oidc" => OidcTypeOK
    /\ focus = "rbac" => RbacTypeOK

(* Each of the following is the conjunction of what the modules state, of  *)
(* the service that is busy: the others have done nothing.                 *)

(* Signing in and staying in: a spent or late refresh buys nothing, a pair *)
(* grants a role its account held, a deployment keeps an administrator, a  *)
(* throttled name or address is not tried beyond its limit, and a provider *)
(* that rotates its keys is followed.                                      *)
SignInHolds ==
    /\ focus = "sessions" => LateRefreshRefused /\ GrantsCurrentRole
    /\ focus \in {"accounts", "sessions"} => AdminFloor
    /\ focus = "throttle" => LimitHolds
    /\ focus = "oidc" => RotationIsSeen

(* A credential opens what it was granted: a live key verifies however its *)
(* uses, its end and its erasure interleave, and every route lets in the   *)
(* roles the matrix names.                                                 *)
CredentialsOpenWhatTheyGrant ==
    /\ focus = "keys" => LiveKeysVerify
    /\ focus = "rbac" => MatrixIsEnforced
=============================================================================
