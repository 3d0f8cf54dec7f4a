---------------------------------- MODULE Rbac ----------------------------------
(***************************************************************************)
(* Authentication and roles of a request (auth/rbac.py): the capability    *)
(* tables of roles and scopes, the route matrix, what each endpoint        *)
(* demands with require(...), how authenticate_request decides between a   *)
(* bearer token and an API key, and how the alert socket, which has no     *)
(* request, authenticates (endpoints/stream.py).  A path is its route.     *)
(***************************************************************************)
EXTENDS FiniteSets

CONSTANTS
    Headers      \* the credentials requests present

VARIABLES
    asked,       \* the request: its route and headers
    answer       \* what authenticate_request makes of it

rbacVars == <<asked, answer>>

Role == {"viewer", "analyst", "responder", "admin"}
Capability == {"read", "verdict", "export", "webhook_config", "users", "models", "retention",
               "ingest", "api_keys"}
-----------------------------------------------------------------------------
RoleCapabilities ==
    [viewer    |-> {"read"},
     analyst   |-> {"read", "verdict", "ingest"},
     responder |-> {"read", "verdict", "export", "webhook_config", "ingest"},
     admin     |-> Capability]

ScopeCapabilities == [ingest_write |-> {"ingest"}, alerts_read |-> {"read"}]

(* ROUTE_MATRIX, by the roles its paths allow.                             *)
EveryRolePaths ==
    {"capture/status", "alerts", "overview", "detection/status", "alerts/{}", "alerts/{}/verdicts",
     "logs", "logs/lines", "flows", "models", "models/{}/metrics", "audit", "thresholds",
     "thresholds/preview", "alerts/notifications", "alerts/stream", "alerts/ws"}
AnalystPaths == {"ingest/flows", "ingest/logs", "capture/heartbeat", "alerts/{}/verdict"}
ResponderPaths ==
    {"webhooks", "webhooks/{}", "webhooks/deliveries", "webhooks/{}/test", "hunt/export",
     "alerts/export"}
AdminPaths ==
    {"keys", "keys/{}", "keys/scopes", "retention", "retention/run", "privacy/erasure",
     "privacy/erasures", "models/{}/promote", "models/{}/rollback", "users", "users/roles",
     "users/{}/role", "thresholds/recalibrate", "thresholds/{}/{}"}
Classified == EveryRolePaths \cup AnalystPaths \cup ResponderPaths \cup AdminPaths

RouteMatrix(path) ==
    CASE path \in EveryRolePaths -> Role
      [] path \in AnalystPaths   -> Role \ {"viewer"}
      [] path \in ResponderPaths -> {"responder", "admin"}
      [] path \in AdminPaths     -> {"admin"}

(* The routes registered, with the capability each one's require demands.  *)
Demand ==
    {<<"POST", "ingest/flows", "ingest">>, <<"POST", "ingest/logs", "ingest">>,
     <<"POST", "capture/heartbeat", "ingest">>, <<"POST", "alerts/{}/verdict", "verdict">>,
     <<"POST", "hunt/export", "export">>, <<"POST", "alerts/export", "export">>,
     <<"GET", "retention", "retention">>, <<"POST", "retention/run", "retention">>,
     <<"POST", "privacy/erasure", "retention">>, <<"GET", "privacy/erasures", "retention">>,
     <<"POST", "models/{}/promote", "models">>, <<"POST", "models/{}/rollback", "models">>,
     <<"POST", "thresholds/recalibrate", "models">>, <<"PUT", "thresholds/{}/{}", "models">>,
     <<"POST", "users/{}/role", "users">>}
    \cup {<<"GET", path, "read">> : path \in EveryRolePaths}
    \cup {<<"GET", path, "users">> : path \in {"users", "users/roles"}}
    \cup {<<m, path, "webhook_config">> : m \in {"GET", "POST"}, path \in {"webhooks"}}
    \cup {<<"GET", "webhooks/deliveries", "webhook_config">>,
          <<"POST", "webhooks/{}/test", "webhook_config">>,
          <<"DELETE", "webhooks/{}", "webhook_config">>}
    \cup {<<"GET", "keys", "api_keys">>, <<"POST", "keys", "api_keys">>,
          <<"GET", "keys/scopes", "api_keys">>, <<"DELETE", "keys/{}", "api_keys">>}

(* API_KEY_ROUTES.                                                         *)
KeyRouteScope ==
    [route \in {<<"POST", "ingest/flows">>, <<"POST", "ingest/logs">>, <<"GET", "alerts">>} |->
        IF route[1] = "POST" THEN "ingest_write" ELSE "alerts_read"]

(* classify: what every role a path allows can do.                         *)
Classify(path) ==
    {c \in Capability : \A role \in RouteMatrix(path) : c \in RoleCapabilities[role]}

(* capabilities_of_principal.                                              *)
CapabilitiesOf(caller) ==
    IF caller.kind = "user" THEN RoleCapabilities[caller.role]
    ELSE UNION {ScopeCapabilities[s] : s \in caller.scopes}
-----------------------------------------------------------------------------
(* What the headers carry: `authorization` is an access token's role,      *)
(* another token, a key or nothing, `key` (X-API-Key) a key or nothing,    *)
(* `offered` the token of a browser's aegis.bearer subprotocol.  A key is  *)
(* its scopes and whether it verifies.                                     *)
NoHeaderKey == [verifies |-> FALSE, scopes |-> {"none"}]
AccessToken(role) == [is |-> "access", role |-> role, key |-> NoHeaderKey]
OtherToken == [is |-> "refresh", role |-> "admin", key |-> NoHeaderKey]
NoAuthorization == [is |-> "absent", role |-> "none", key |-> NoHeaderKey]
KeyBearer(key) == [is |-> "key", role |-> "none", key |-> key]

(* _api_key_headers.                                                       *)
Ambiguous(h) == h.key # NoHeaderKey /\ h.authorization # NoAuthorization
Presented(h) == IF h.key # NoHeaderKey THEN h.key ELSE h.authorization.key

Refused(code) == [is |-> code]
Granted(caller) == [is |-> "granted", caller |-> caller]

(* authenticate: a bearer access token of a known role that can do what    *)
(* the route demands.                                                      *)
AuthenticateBearer(token, capability) ==
    IF token.is # "access" THEN Refused("unauthenticated")
    ELSE IF token.role \notin Role THEN Refused("forbidden")
    ELSE LET caller == [kind |-> "user", role |-> token.role] IN
         IF capability \in CapabilitiesOf(caller) THEN Granted(caller) ELSE Refused("forbidden")

(* Variant: a key answers to its scopes wherever it is presented.          *)
KeyAnswerAnywhere(method, path, capability, key) ==
    IF ~key.verifies THEN Refused("unauthenticated")
    ELSE LET caller == [kind |-> "api_key", scopes |-> key.scopes] IN
         IF capability \in CapabilitiesOf(caller) THEN Granted(caller) ELSE Refused("scope_refused")

(* The API-key path of authenticate_request.                               *)
KeyAnswer(method, path, capability, key) ==
    IF <<method, path>> \notin DOMAIN KeyRouteScope THEN Refused("keys_not_accepted")
    ELSE IF ~key.verifies THEN Refused("unauthenticated")
    ELSE LET caller == [kind |-> "api_key", scopes |-> key.scopes] IN
         IF capability \in CapabilitiesOf(caller) THEN Granted(caller) ELSE Refused("scope_refused")

AuthenticateRequest(method, path, capability, h) ==
    IF Ambiguous(h) THEN Refused("unauthenticated")
    ELSE IF Presented(h) = NoHeaderKey THEN AuthenticateBearer(h.authorization, capability)
    ELSE KeyAnswer(method, path, capability, Presented(h))

(* The one route without the dependency.                                   *)
SocketPaths == {"alerts/ws"}

(* _socket_headers: the subprotocol's token, if there is no Authorization. *)
SocketToken(h) == IF h.authorization # NoAuthorization THEN h.authorization ELSE h.offered

(* alert_socket calls authenticate itself: X-API-Key is not looked at.     *)
Answer(method, path, capability, h) ==
    IF path \in SocketPaths THEN AuthenticateBearer(SocketToken(h), capability)
    ELSE AuthenticateRequest(method, path, capability, h)

(* The headers a request can carry: a token or a key in any place.         *)
KeyPresented == [verifies : BOOLEAN, scopes : SUBSET DOMAIN ScopeCapabilities]

ASSUME RbacAssumption ==
    \A h \in Headers :
        /\ h.key \in KeyPresented \cup {NoHeaderKey}
        /\ \A token \in {h.authorization, h.offered} :
              \/ token \in {OtherToken, NoAuthorization}
              \/ token.is = "access" /\ token.key = NoHeaderKey
              \/ token \in {KeyBearer(k) : k \in KeyPresented}

RbacInit == asked = <<>> /\ answer = Refused("nothing")

(* One request: the dependency require, or the socket's handshake.         *)
Require ==
    asked = <<>> /\ \E d \in Demand, h \in Headers :
        /\ asked' = <<d[1], d[2], h>>
        /\ answer' = Answer(d[1], d[2], d[3], h)

RbacSpec == RbacInit /\ [][Require]_rbacVars
-----------------------------------------------------------------------------
RbacTypeOK == asked # <<>> => asked[2] \in Classified

(* The matrix is what the routes enforce, though no route reads it: the    *)
(* access token a route goes by gets in exactly where the matrix lists its *)
(* role, and as that role; a key only on the three routes that take keys,  *)
(* with a capability that every role of the route has ("a key can never    *)
(* hold more than the least-privileged role allowed on that route").  Two  *)
(* credentials are none on an HTTP route; the alert socket goes by the     *)
(* token alone, whatever stands in X-API-Key (rbac.py and alert_socket).   *)
GoesBy(path, h) == IF path \in SocketPaths THEN SocketToken(h) ELSE h.authorization

MatrixIsEnforced ==
    asked # <<>> =>
        LET path == asked[2]  h == asked[3]  token == GoesBy(path, h)
            granted == answer.is = "granted"
            refused == Ambiguous(h) /\ path \notin SocketPaths IN
        /\ refused => ~granted
        /\ (~refused /\ token.is = "access") => (granted <=> token.role \in RouteMatrix(path))
        /\ (granted /\ answer.caller.kind = "user") =>
               token.is = "access" /\ answer.caller.role = token.role
        /\ (granted /\ answer.caller.kind = "api_key") =>
               /\ path \notin SocketPaths
               /\ <<asked[1], path>> \in DOMAIN KeyRouteScope
               /\ ScopeCapabilities[KeyRouteScope[<<asked[1], path>>]] \subseteq Classify(path)
               /\ KeyRouteScope[<<asked[1], path>>] \in answer.caller.scopes
=============================================================================
