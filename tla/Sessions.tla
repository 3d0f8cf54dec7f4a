------------------------------- MODULE Sessions -------------------------------
(***************************************************************************)
(* The accounts, and signing in to them.                                   *)
(*                                                                         *)
(* The user directory with its rules for a role change                     *)
(* (services/user_directory.py, endpoints/users.py) and the account store  *)
(* over it (services/auth_accounts.py).  A row is known by its user and    *)
(* holds a role; no operation removes or disables one.  A role change      *)
(* reads and decides, then writes, with nothing held in between; the first *)
(* administrator is created under the account store's lock.                *)
(*                                                                         *)
(* Sign-in, refresh and sign-out (endpoints/auth.py) over TokenService and *)
(* its InMemoryRefreshStore (auth/tokens.py), the pending sign-ins of      *)
(* OidcSignIn (auth/oidc.py), and the accounts.  The routes are not        *)
(* coroutines, so they interleave where they read and write shared state.  *)
(* A refresh token is its position in the order of issue, which is its     *)
(* jti; a session's family is the jti of the token its login was given.    *)
(* A restart forgets what was spent and revoked, but not the signing key:  *)
(* tokens outlive it.                                                      *)
(***************************************************************************)
EXTENDS Integers, Sequences, FiniteSets, Threadpool

CONSTANTS
    Users,
    Bootstrap,    \* the directory a start provisions: a role, or NoRow, per user
    Callers,      \* the users who sign in
    MaxPending,   \* OidcConfig.max_pending_logins
    MaxTokens,    \* bound: refresh tokens issued
    MaxRestarts   \* bound: restarts of the process

Roles == {"analyst", "admin"}
NoRow == "none"
NoChange == [user |-> NoRow]

ASSUME AccountsAssumption ==
    /\ IsFiniteSet(Users) /\ NoRow \notin Users
    /\ Bootstrap \in [Users -> Roles \cup {NoRow}]
    /\ \E u \in Users : Bootstrap[u] = "admin"

VARIABLES
    directory,   \* UserDirectory._rows: the role of each row
    change,      \* the decided role change each thread is about to write
    overlapped   \* history: a role change was written while another was pending

accountsVars == <<directory, change, overlapped>>

ActiveAdmins == {u \in Users : directory[u] = "admin"}

AccountsTypeOK ==
    /\ directory \in [Users -> Roles \cup {NoRow}]
    /\ change \in [Threads -> [user : Users, role : Roles] \cup {NoChange}]
    /\ overlapped \in BOOLEAN

AccountsInit == /\ directory \in {Bootstrap, [u \in Users |-> NoRow]}
                /\ change = [t \in Threads |-> NoChange]
                /\ overlapped = FALSE
-----------------------------------------------------------------------------
(* create_initial_admin, of the setup route or of the bootstrap settings.  *)
CreateInitialAdmin(u) ==
    /\ \A v \in Users : directory[v] = NoRow
    /\ directory' = [directory EXCEPT ![u] = "admin"]
    /\ UNCHANGED <<change, overlapped>>

(* Variant: the floor counts the account that is being demoted.            *)
LeavesNoAdminLoose(u, role) == role # "admin" /\ ActiveAdmins = {}

(* change_role refuses to demote the only administrator in force.          *)
LeavesNoAdmin(u, role) == role # "admin" /\ ActiveAdmins = {u}

(* change_role up to its write.  An unknown user, a role already held and  *)
(* the last administrator change nothing.                                  *)
ChangeRoleDecide(t, u, role) ==
    /\ change[t] = NoChange
    /\ directory[u] \notin {NoRow, role}
    /\ ~LeavesNoAdmin(u, role)
    /\ change' = [change EXCEPT ![t] = [user |-> u, role |-> role]]
    /\ UNCHANGED <<directory, overlapped>>

ChangeRolePut(t) ==
    /\ change[t] # NoChange
    /\ directory' = [directory EXCEPT ![change[t].user] = change[t].role]
    /\ change' = [change EXCEPT ![t] = NoChange]
    /\ overlapped' = (overlapped \/ \E o \in Threads \ {t} : change[o] # NoChange)

AccountsNext ==
    \/ \E u \in Users : CreateInitialAdmin(u)
    \/ \E t \in Threads, u \in Users, r \in Roles : ChangeRoleDecide(t, u, r)
    \/ \E t \in Threads : ChangeRolePut(t)
-----------------------------------------------------------------------------
ASSUME SessionsAssumption ==
    Callers \subseteq Users /\ MaxPending \in Nat \ {0} /\ MaxTokens \in Nat /\ MaxRestarts \in Nat

VARIABLES
    tokens,    \* every refresh token issued, its claims and where it came from
    spent,     \* InMemoryRefreshStore._spent
    revoked,   \* InMemoryRefreshStore._revoked
    expired,   \* tokens past their exp claim
    pending,   \* how many entries PendingLoginStore holds
    restarts,  \* restarts so far
    req        \* the sign-in or refresh each thread is serving

sessionsVars == <<accountsVars, tokens, spent, revoked, expired, pending, restarts, req>>

Idle == [pc |-> "idle"]
Jti == 1..MaxTokens
Token == [family : Jti, user : Users, role : Roles, parent : 0..MaxTokens, epoch : 0..MaxRestarts]
Request ==
    {Idle} \cup [pc : {"issue"}, user : Users, role : Roles]
    \cup [pc : {"family", "spent", "mark"}, jti : Jti, role : Roles, held : SUBSET Roles,
          late : BOOLEAN]

SessionsTypeOK ==
    /\ AccountsTypeOK
    /\ tokens \in Seq(Token) /\ Len(tokens) <= MaxTokens
    /\ spent \subseteq DOMAIN tokens /\ revoked \subseteq DOMAIN tokens
    /\ expired \subseteq DOMAIN tokens
    /\ pending \in 0..MaxPending /\ restarts \in 0..MaxRestarts
    /\ req \in [Threads -> Request]

SessionsInit ==
    /\ AccountsInit
    /\ tokens = <<>> /\ spent = {} /\ revoked = {} /\ expired = {}
    /\ pending = 0 /\ restarts = 0
    /\ req = [t \in Threads |-> Idle]
-----------------------------------------------------------------------------
(* Bound: a sign-in that could not be given its pair is not begun.         *)
RoomForPair ==
    Len(tokens) + Cardinality({t \in Threads : req[t].pc \in {"issue", "mark"}}) < MaxTokens

(* login, past the throttle: authenticate found the row and the password   *)
(* matched.  A wrong password issues nothing.                              *)
Authenticate(t, u) ==
    /\ req[t] = Idle /\ directory[u] # NoRow /\ RoomForPair
    /\ req' = [req EXCEPT ![t] = [pc |-> "issue", user |-> u, role |-> directory[u]]]
    /\ UNCHANGED <<accountsVars, tokens, spent, revoked, expired, pending, restarts>>

(* PendingLoginStore.create: at the limit the oldest entry makes room.     *)
OidcStart ==
    /\ Len(tokens) < MaxTokens
    /\ pending' = IF pending = MaxPending THEN pending ELSE pending + 1
    /\ UNCHANGED <<accountsVars, tokens, spent, revoked, expired, restarts, req>>

(* oidc_callback: the entry is taken, then the provider's claims name an   *)
(* account, or the sign-in is refused: no account, no proof of the email,  *)
(* no answer, or an entry older than its time to live.                     *)
OidcCallback(t) ==
    /\ req[t] = Idle /\ pending > 0 /\ RoomForPair
    /\ pending' = pending - 1
    /\ \/ UNCHANGED req
       \/ \E u \in Callers :
            /\ directory[u] # NoRow
            /\ req' = [req EXCEPT ![t] = [pc |-> "issue", user |-> u, role |-> directory[u]]]
    /\ UNCHANGED <<accountsVars, tokens, spent, revoked, expired, restarts>>

(* TokenService.issue: a family of its own.                                *)
Issue(t) ==
    /\ req[t].pc = "issue" /\ Len(tokens) < MaxTokens
    /\ tokens' = Append(tokens, [family |-> Len(tokens) + 1, user |-> req[t].user,
                                 role |-> req[t].role, parent |-> 0, epoch |-> restarts])
    /\ req' = [req EXCEPT ![t] = Idle]
    /\ UNCHANGED <<accountsVars, spent, revoked, expired, pending, restarts>>

(* History: this token already bought a pair from this process.            *)
Rotated(j) == \E k \in DOMAIN tokens : tokens[k].parent = j /\ tokens[k].epoch = restarts

(* Variant: the role the token was issued with.                            *)
RefreshRoleClaimed(j) == tokens[j].role

(* refresh passes the account's role of now to rotate.                     *)
RefreshRole(j) == directory[tokens[j].user]

(* refresh: the token verifies and the account is looked up; the session   *)
(* of an account that is gone ends here.                                   *)
RefreshStart(t, j) ==
    /\ req[t] = Idle /\ j \in DOMAIN tokens \ expired
    /\ IF directory[tokens[j].user] = NoRow
       THEN /\ revoked' = revoked \cup {tokens[j].family}
            /\ UNCHANGED req
       ELSE /\ req' = [req EXCEPT ![t] =
                 [pc |-> "family", jti |-> j, role |-> RefreshRole(j),
                  held |-> {directory[tokens[j].user]}, late |-> Rotated(j)]]
            /\ UNCHANGED revoked
    /\ UNCHANGED <<accountsVars, tokens, spent, expired, pending, restarts>>

(* rotate: the token verifies once more and its family is not revoked.     *)
RefreshFamily(t) ==
    /\ req[t].pc = "family"
    /\ req' = [req EXCEPT ![t] =
         IF req[t].jti \in expired \/ tokens[req[t].jti].family \in revoked
         THEN Idle ELSE [req[t] EXCEPT !.pc = "spent"]]
    /\ UNCHANGED <<accountsVars, tokens, spent, revoked, expired, pending, restarts>>

(* Variant: a token used again is refused and the session goes on.         *)
RefreshSpentLenient(t) ==
    /\ req[t].pc = "spent"
    /\ req' = [req EXCEPT ![t] = [req[t] EXCEPT !.pc = "mark"]]
    /\ UNCHANGED <<accountsVars, tokens, spent, revoked, expired, pending, restarts>>

(* rotate: is_spent forgets a token past its expiry; a token used again    *)
(* revokes its family.                                                     *)
RefreshSpent(t) ==
    /\ req[t].pc = "spent"
    /\ LET j == req[t].jti IN
       IF j \in spent \ expired
       THEN /\ revoked' = revoked \cup {tokens[j].family}
            /\ req' = [req EXCEPT ![t] = Idle]
            /\ UNCHANGED spent
       ELSE /\ spent' = spent \ {j}
            /\ req' = [req EXCEPT ![t] = [req[t] EXCEPT !.pc = "mark"]]
            /\ UNCHANGED revoked
    /\ UNCHANGED <<accountsVars, tokens, expired, pending, restarts>>

(* rotate: mark the token and issue the pair that replaces it.             *)
RefreshMark(t) ==
    /\ req[t].pc = "mark" /\ Len(tokens) < MaxTokens
    /\ LET j == req[t].jti IN
       /\ spent' = spent \cup {j}
       /\ tokens' = Append(tokens, [family |-> tokens[j].family, user |-> tokens[j].user,
                                    role |-> req[t].role, parent |-> j, epoch |-> restarts])
    /\ req' = [req EXCEPT ![t] = Idle]
    /\ UNCHANGED <<accountsVars, revoked, expired, pending, restarts>>

(* logout: a token that verifies revokes its family.                       *)
Logout(j) ==
    /\ j \in DOMAIN tokens \ expired
    /\ revoked' = revoked \cup {tokens[j].family}
    /\ UNCHANGED <<accountsVars, tokens, spent, expired, pending, restarts, req>>

(* Tokens have one lifetime, so they expire in the order of issue.         *)
Expire(j) ==
    /\ j \in DOMAIN tokens \ expired /\ 1..(j - 1) \subseteq expired
    /\ expired' = expired \cup {j}
    /\ UNCHANGED <<accountsVars, tokens, spent, revoked, pending, restarts, req>>

(* A role change, whole; AccountsNext interleaves its steps.  A refresh    *)
(* that is under way has now seen the account hold both roles.             *)
ChangeRole(u, role) ==
    /\ directory[u] \notin {NoRow, role} /\ ~LeavesNoAdmin(u, role)
    /\ directory' = [directory EXCEPT ![u] = role]
    /\ req' = [t \in Threads |->
                 IF "held" \in DOMAIN req[t] /\ tokens[req[t].jti].user = u
                 THEN [req[t] EXCEPT !.held = @ \cup {role}]
                 ELSE req[t]]
    /\ UNCHANGED <<change, overlapped, tokens, spent, revoked, expired, pending, restarts>>

(* The setup route, after a start that provisioned nobody.                 *)
Setup == /\ \E u \in Users : CreateInitialAdmin(u)
         /\ UNCHANGED <<tokens, spent, revoked, expired, pending, restarts, req>>

(* The process restarts, with the bootstrap settings or without them.      *)
Restart ==
    /\ restarts < MaxRestarts
    /\ restarts' = restarts + 1
    /\ directory' \in {Bootstrap, [u \in Users |-> NoRow]}
    /\ req' = [t \in Threads |-> Idle]
    /\ spent' = {} /\ revoked' = {} /\ pending' = 0
    /\ UNCHANGED <<change, overlapped, tokens, expired>>

SessionsNext ==
    \/ \E t \in Threads, u \in Callers : Authenticate(t, u)
    \/ OidcStart
    \/ \E t \in Threads : OidcCallback(t) \/ Issue(t)
    \/ \E t \in Threads, j \in Jti : RefreshStart(t, j)
    \/ \E t \in Threads : RefreshFamily(t) \/ RefreshSpent(t) \/ RefreshMark(t)
    \/ \E j \in Jti : Logout(j) \/ Expire(j)
    \/ \E u \in Users, r \in Roles : ChangeRole(u, r)
    \/ Setup
    \/ Restart

SessionsSpec == SessionsInit /\ [][SessionsNext]_sessionsVars
-----------------------------------------------------------------------------
(* A refresh token is good for one pair, as far as the code enforces it: a *)
(* refresh that begins after its token bought a pair from this process is  *)
(* refused, except when the token expires while the refresh is under way   *)
(* (tokens.py, rotate and is_spent).                                       *)
LateRefreshRefused ==
    \A t \in Threads : req[t].pc = "mark" /\ req[t].late => req[t].jti \in expired

(* The pair a refresh is about to grant names a role its account held at   *)
(* some moment of that refresh, not only when the session began.           *)
GrantsCurrentRole ==
    \A t \in Threads : req[t].pc \in {"family", "spent", "mark"} => req[t].role \in req[t].held

(* R-53's floor, as far as the code keeps it: a deployment that has users  *)
(* has an administrator in force, unless two role changes overlapped -     *)
(* each then counts the administrator the other is about to demote         *)
(* (user_directory.py, change_role).                                       *)
AdminFloor == overlapped \/ ActiveAdmins # {} \/ \A u \in Users : directory[u] = NoRow
=============================================================================
