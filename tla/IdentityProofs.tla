----------------------------- MODULE IdentityProofs -----------------------------
(***************************************************************************)
(* Proofs about who may do what, as MCIdentity composes it: accounts,      *)
(* sessions, the sign-in throttle, API keys, the provider's keys and the   *)
(* role matrix, for any users, threads and keys.                           *)
(***************************************************************************)
EXTENDS MCIdentity, FiniteSetTheorems, SequenceTheorems, TLAPS

(* A role change that was decided can still be written, as long as none    *)
(* has overlapped another.                                                 *)
Standing(c) == directory[c.user] \notin {NoRow, c.role} /\ ~LeavesNoAdmin(c.user, c.role)

FloorInv ==
    /\ AccountsTypeOK /\ AdminFloor
    /\ \A t \in Threads : change[t] # NoChange /\ ~overlapped => Standing(change[t])

LEMMA ChangeIs ==
    ASSUME AccountsTypeOK, NEW t \in Threads, change[t] # NoChange
    PROVE  /\ change[t].user \in Users /\ change[t].role \in Roles
           /\ change[t] \in [user : Users, role : Roles]
BY DEF AccountsTypeOK

LEMMA FloorInit == AccountsInit => FloorInv
<1> SUFFICES ASSUME AccountsInit PROVE FloorInv
  OBVIOUS
<1>1. AccountsTypeOK
  BY AccountsAssumption DEF AccountsInit, AccountsTypeOK
<1>2. AdminFloor
  BY AccountsAssumption DEF AccountsInit, AdminFloor, ActiveAdmins
<1> QED
  BY <1>1, <1>2 DEF FloorInv, AccountsInit

(* A role written when the floor allowed it leaves an administrator.       *)
LEMMA RoleKeepsFloor ==
    ASSUME FloorInv, NEW u \in Users, NEW role \in Roles,
           directory[u] \notin {NoRow, role}, ~LeavesNoAdmin(u, role), ~overlapped,
           directory' = [directory EXCEPT ![u] = role]
    PROVE  AdminFloor'
<1>1. directory \in [Users -> Roles \cup {NoRow}]
  BY DEF FloorInv, AccountsTypeOK
<1>2. CASE role = "admin"
  BY <1>1, <1>2 DEF AdminFloor, ActiveAdmins
<1>3. CASE role # "admin"
  <2>1. ActiveAdmins # {} /\ ActiveAdmins # {u}
    BY <1>3 DEF FloorInv, AdminFloor, LeavesNoAdmin
  <2>2. PICK v \in ActiveAdmins : v # u
    BY <2>1
  <2>3. v \in Users /\ directory'[v] = "admin"
    BY <1>1, <2>2 DEF ActiveAdmins
  <2> QED
    BY <2>3 DEF AdminFloor, ActiveAdmins
<1> QED
  BY <1>2, <1>3

LEMMA InitialAdminKeepsFloor ==
    ASSUME FloorInv, NEW u \in Users, CreateInitialAdmin(u)
    PROVE  FloorInv'
<1>1. /\ directory \in [Users -> Roles \cup {NoRow}] /\ UNCHANGED <<change, overlapped>>
      /\ directory' = [directory EXCEPT ![u] = "admin"]
      /\ \A v \in Users : directory[v] = NoRow
  BY DEF FloorInv, AccountsTypeOK, CreateInitialAdmin
<1>2. directory' \in [Users -> Roles \cup {NoRow}] /\ directory'[u] = "admin"
  BY <1>1 DEF Roles
<1>3. AdminFloor'
  BY <1>2 DEF AdminFloor, ActiveAdmins
<1>4. \A t \in Threads : change[t] # NoChange => overlapped
  BY <1>1, ChangeIs DEF FloorInv, Standing
<1> QED
  BY <1>1, <1>2, <1>3, <1>4 DEF FloorInv, AccountsTypeOK

LEMMA AccountsStep ==
    ASSUME FloorInv, AccountsNext
    PROVE  FloorInv'
<1>1. directory \in [Users -> Roles \cup {NoRow}]
  BY DEF FloorInv, AccountsTypeOK
<1>2. ASSUME NEW t \in Threads, NEW u \in Users, NEW role \in Roles, ChangeRoleDecide(t, u, role)
      PROVE  FloorInv'
  <2>1. /\ change' = [change EXCEPT ![t] = [user |-> u, role |-> role]]
        /\ UNCHANGED <<directory, overlapped>>
        /\ directory[u] \notin {NoRow, role} /\ ~LeavesNoAdmin(u, role)
    BY <1>2 DEF ChangeRoleDecide
  <2>2. AccountsTypeOK'
    BY <2>1 DEF FloorInv, AccountsTypeOK
  <2>3. AdminFloor'
    BY <2>1 DEF FloorInv, AdminFloor, ActiveAdmins
  <2>4. ASSUME NEW o \in Threads, change'[o] # NoChange, ~overlapped
        PROVE  Standing(change[o])'
    <3>1. CASE o = t
      <4>1. change'[o] = [user |-> u, role |-> role]
        BY <2>1, <3>1 DEF FloorInv, AccountsTypeOK
      <4> QED
        BY <2>1, <4>1 DEF Standing, LeavesNoAdmin, ActiveAdmins
    <3>2. CASE o # t
      <4>1. change'[o] = change[o]
        BY <2>1, <3>2 DEF FloorInv, AccountsTypeOK
      <4> QED
        BY <2>1, <2>4, <4>1 DEF FloorInv, Standing, LeavesNoAdmin, ActiveAdmins
    <3> QED
      BY <3>1, <3>2
  <2> QED
    BY <2>1, <2>2, <2>3, <2>4 DEF FloorInv
<1>3. ASSUME NEW t \in Threads, ChangeRolePut(t)
      PROVE  FloorInv'
  <2> DEFINE u == change[t].user
             role == change[t].role
  <2>1. /\ u \in Users /\ role \in Roles /\ change[t] # NoChange
        /\ directory' = [directory EXCEPT ![u] = role]
        /\ change' = [change EXCEPT ![t] = NoChange]
        /\ overlapped' = (overlapped \/ \E o \in Threads \ {t} : change[o] # NoChange)
    BY <1>3, ChangeIs DEF FloorInv, ChangeRolePut
  <2>2. AccountsTypeOK'
    BY <2>1 DEF FloorInv, AccountsTypeOK
  <2>3. ASSUME ~overlapped'
        PROVE  AdminFloor'
    <3>1. ~overlapped
      BY <2>1, <2>3 DEF FloorInv, AccountsTypeOK
    <3>2. Standing(change[t])
      BY <2>1, <3>1 DEF FloorInv
    <3> QED
      BY <2>1, <3>1, <3>2, RoleKeepsFloor DEF Standing
  <2>4. ASSUME NEW o \in Threads, change'[o] # NoChange
        PROVE  overlapped'
    <3>1. o # t /\ change[o] # NoChange
      BY <2>1, <2>4 DEF FloorInv, AccountsTypeOK
    <3> QED
      BY <2>1, <3>1
  <2> QED
    BY <2>2, <2>3, <2>4 DEF FloorInv, AdminFloor
<1> QED
  BY <1>2, <1>3, InitialAdminKeepsFloor DEF AccountsNext
-----------------------------------------------------------------------------
Login == [pc : {"issue"}, user : Users, role : Roles]
Refresh == [pc : {"family", "spent", "mark"}, jti : Jti, role : Roles, held : SUBSET Roles,
            late : BOOLEAN]
Refreshing(r) == r.pc \in {"family", "spent", "mark"}

(* A token that bought a pair from this process is marked as spent, or has *)
(* expired since; a refresh that came late stays one, and names a token    *)
(* that was issued; a family is named after a token, and no token is from  *)
(* a process to come.                                                      *)
SessionInv ==
    /\ SessionsTypeOK /\ LateRefreshRefused /\ GrantsCurrentRole
    /\ \A j \in DOMAIN tokens : tokens[j].family \in DOMAIN tokens /\ tokens[j].epoch <= restarts
    /\ \A j \in Jti : Rotated(j) => j \in spent \cup expired
    /\ \A t \in Threads : Refreshing(req[t]) =>
          req[t].jti \in DOMAIN tokens /\ (req[t].late => Rotated(req[t].jti))

LEMMA RequestIs ==
    ASSUME NEW r \in Request
    PROVE  /\ r = Idle \/ r \in Login \/ r \in Refresh
           /\ Idle.pc = "idle" /\ ~Refreshing(Idle)
           /\ r.pc = "issue" => r \in Login
           /\ Refreshing(r) <=> r \in Refresh
           /\ "held" \in DOMAIN r <=> r \in Refresh
<1>1. r = Idle \/ r \in Login \/ r \in Refresh
  BY DEF Request, Login, Refresh
<1>2. Idle.pc = "idle" /\ ~Refreshing(Idle) /\ "held" \notin DOMAIN Idle
  BY DEF Idle, Refreshing
<1>3. CASE r \in Login
  BY <1>2, <1>3 DEF Login, Refresh, Refreshing
<1>4. CASE r \in Refresh
  BY <1>2, <1>4 DEF Login, Refresh, Refreshing
<1>5. CASE r = Idle
  BY <1>2, <1>5 DEF Idle, Login, Refresh, Refreshing
<1> QED
  BY <1>1, <1>2, <1>3, <1>4, <1>5

(* What every step may assume.                                             *)
LEMMA SessionFacts ==
    ASSUME SessionInv
    PROVE  /\ tokens \in Seq(Token) /\ Len(tokens) \in Nat /\ DOMAIN tokens = 1..Len(tokens)
           /\ Len(tokens) <= MaxTokens /\ MaxTokens \in Nat /\ MaxRestarts \in Nat
           /\ MaxPending \in Nat \ {0} /\ DOMAIN tokens \subseteq Jti
           /\ \A j \in DOMAIN tokens : /\ tokens[j] \in Token /\ tokens[j].user \in Users
                                       /\ tokens[j].family \in DOMAIN tokens
           /\ directory \in [Users -> Roles \cup {NoRow}]
           /\ req \in [Threads -> Request]
           /\ \A t \in Threads : req[t] \in Request
<1>1. /\ tokens \in Seq(Token) /\ Len(tokens) \in Nat /\ DOMAIN tokens = 1..Len(tokens)
      /\ Len(tokens) <= MaxTokens /\ MaxTokens \in Nat /\ MaxRestarts \in Nat
      /\ MaxPending \in Nat \ {0}
  BY LenProperties, SessionsAssumption DEF SessionInv, SessionsTypeOK
<1>2. \A j \in DOMAIN tokens : tokens[j] \in Token
  BY <1>1, ElementOfSeq
<1> QED
  BY <1>1, <1>2 DEF SessionInv, SessionsTypeOK, AccountsTypeOK, Jti, Token

LEMMA SessionInit == SessionsInit => SessionInv
<1> SUFFICES ASSUME SessionsInit PROVE SessionInv
  OBVIOUS
<1>1. AccountsTypeOK
  BY FloorInit DEF SessionsInit, FloorInv
<1>2. SessionsTypeOK
  BY <1>1, SessionsAssumption, EmptySeq DEF SessionsInit, SessionsTypeOK, Request
<1>3. \A t \in Threads : ~Refreshing(req[t])
  BY DEF SessionsInit, Refreshing, Idle
<1>4. DOMAIN tokens = {}
  BY DEF SessionsInit
<1> QED
  BY <1>2, <1>3, <1>4 DEF SessionInv, Refreshing, LateRefreshRefused, GrantsCurrentRole, Rotated

(* A token joins the others: nothing but its own parent changes standing.  *)
LEMMA TokenJoins ==
    ASSUME SessionInv, NEW token \in Token, Len(tokens) < MaxTokens,
           tokens' = Append(tokens, token), UNCHANGED restarts
    PROVE  /\ tokens' \in Seq(Token) /\ Len(tokens') <= MaxTokens
           /\ DOMAIN tokens' = DOMAIN tokens \cup {Len(tokens) + 1}
           /\ \A j \in DOMAIN tokens : tokens'[j] = tokens[j]
           /\ \A j : Rotated(j)' <=> Rotated(j) \/ (token.parent = j /\ token.epoch = restarts)
<1>1. /\ tokens' \in Seq(Token) /\ Len(tokens') = Len(tokens) + 1
      /\ \A j \in 1..Len(tokens) : tokens'[j] = tokens[j]
      /\ tokens'[Len(tokens) + 1] = token
  BY SessionFacts, AppendProperties
<1>2. DOMAIN tokens' = DOMAIN tokens \cup {Len(tokens) + 1}
  BY <1>1, SessionFacts, LenProperties
<1>3. \A j : Rotated(j)' <=> Rotated(j) \/ (token.parent = j /\ token.epoch = restarts)
  BY <1>1, <1>2, SessionFacts DEF Rotated
<1> QED
  BY <1>1, <1>2, <1>3, SessionFacts

(* A step that leaves tokens and their standing alone, and puts one thread *)
(* at a request that is right.                                             *)
LEMMA RequestKeeps ==
    ASSUME SessionInv, NEW t \in Threads, NEW r \in Request,
           req' = [req EXCEPT ![t] = r], UNCHANGED <<accountsVars, tokens, expired, restarts>>,
           pending' \in 0..MaxPending, spent' \subseteq DOMAIN tokens, revoked' \subseteq DOMAIN tokens,
           spent \subseteq spent' \cup expired,
           Refreshing(r) => /\ r.jti \in DOMAIN tokens /\ r.role \in r.held
                            /\ (r.late => Rotated(r.jti))
                            /\ (r.pc = "mark" /\ r.late => r.jti \in expired)
    PROVE  SessionInv'
<1>1. /\ req' \in [Threads -> Request] /\ req'[t] = r
      /\ \A o \in Threads \ {t} : req'[o] = req[o]
  BY SessionFacts
<1>2. SessionsTypeOK'
  BY <1>1 DEF SessionInv, SessionsTypeOK, AccountsTypeOK, accountsVars
<1>3. \A j : Rotated(j)' <=> Rotated(j)
  BY DEF Rotated
<1>4. \A o \in Threads : Refreshing(req'[o]) =>
          /\ req'[o].jti \in DOMAIN tokens /\ req'[o].role \in req'[o].held
          /\ (req'[o].late => Rotated(req'[o].jti))
          /\ (req'[o].pc = "mark" /\ req'[o].late => req'[o].jti \in expired)
  BY <1>1 DEF SessionInv, LateRefreshRefused, GrantsCurrentRole, Refreshing
<1>5. LateRefreshRefused' /\ GrantsCurrentRole'
  BY <1>4 DEF LateRefreshRefused, GrantsCurrentRole, Refreshing
<1> QED
  BY <1>2, <1>3, <1>4, <1>5 DEF SessionInv

LEMMA QuietKeeps ==
    ASSUME SessionInv, UNCHANGED <<accountsVars, tokens, expired, restarts, spent, req>>,
           pending' \in 0..MaxPending, revoked' \subseteq DOMAIN tokens
    PROVE  SessionInv'
<1>1. PICK t \in Threads : TRUE
  BY ThreadpoolAssumption
<1>2. req' = [req EXCEPT ![t] = req[t]] /\ req[t] \in Request
  BY SessionFacts
<1>3. Refreshing(req[t]) => /\ req[t].jti \in DOMAIN tokens /\ req[t].role \in req[t].held
                            /\ (req[t].late => Rotated(req[t].jti))
                            /\ (req[t].pc = "mark" /\ req[t].late => req[t].jti \in expired)
  BY DEF SessionInv, LateRefreshRefused, GrantsCurrentRole, Refreshing
<1>4. spent' \subseteq DOMAIN tokens /\ spent \subseteq spent' \cup expired
  BY DEF SessionInv, SessionsTypeOK
<1> QED
  BY <1>2, <1>3, <1>4, RequestKeeps

LEMMA IdleKeeps ==
    ASSUME SessionInv, NEW t \in Threads, req' = [req EXCEPT ![t] = Idle],
           UNCHANGED <<accountsVars, tokens, expired, restarts, spent, pending>>,
           revoked' \subseteq DOMAIN tokens
    PROVE  SessionInv'
<1>1. Idle \in Request /\ ~Refreshing(Idle)
  BY RequestIs DEF Request
<1>2. pending' \in 0..MaxPending /\ spent' \subseteq DOMAIN tokens /\ spent \subseteq spent' \cup expired
  BY DEF SessionInv, SessionsTypeOK
<1> QED
  BY <1>1, <1>2, RequestKeeps

(* The sign-ins up to the pair they are given.                             *)
LEMMA SignInKeeps ==
    ASSUME SessionInv,
           \/ \E t \in Threads, u \in Callers : Authenticate(t, u)
           \/ OidcStart \/ \E t \in Threads : OidcCallback(t)
    PROVE  SessionInv'
<1>1. pending \in 0..MaxPending /\ revoked \subseteq DOMAIN tokens /\ spent \subseteq DOMAIN tokens
      /\ MaxPending \in Nat \ {0}
  BY SessionFacts DEF SessionInv, SessionsTypeOK
<1>2. ASSUME NEW t \in Threads, NEW u \in Callers, directory[u] # NoRow,
             req' = [req EXCEPT ![t] = [pc |-> "issue", user |-> u, role |-> directory[u]]],
             UNCHANGED <<accountsVars, tokens, spent, revoked, expired, restarts>>,
             pending' \in 0..MaxPending
      PROVE  SessionInv'
  <2> DEFINE r == [pc |-> "issue", user |-> u, role |-> directory[u]]
  <2>1. u \in Users /\ directory[u] \in Roles
    BY <1>2, SessionFacts, SessionsAssumption
  <2>2. r \in Request /\ ~Refreshing(r)
    BY <2>1 DEF Request, Refreshing
  <2> HIDE DEF r
  <2>3. req' = [req EXCEPT ![t] = r]
    BY <1>2 DEF r
  <2> QED
    BY <1>1, <1>2, <2>2, <2>3, RequestKeeps
<1>3. ASSUME NEW t \in Threads, NEW u \in Callers, Authenticate(t, u)
      PROVE  SessionInv'
  BY <1>1, <1>2, <1>3 DEF Authenticate
<1>4. CASE OidcStart
  BY <1>1, <1>4, QuietKeeps DEF OidcStart
<1>5. ASSUME NEW t \in Threads, OidcCallback(t)
      PROVE  SessionInv'
  <2>1. pending' \in 0..MaxPending /\ UNCHANGED <<accountsVars, tokens, spent, revoked, expired, restarts>>
    BY <1>1, <1>5 DEF OidcCallback
  <2>2. CASE UNCHANGED req
    BY <1>1, <2>1, <2>2, QuietKeeps
  <2>3. CASE ~UNCHANGED req
    BY <1>2, <1>5, <2>1, <2>3 DEF OidcCallback
  <2> QED
    BY <2>2, <2>3
<1> QED
  BY <1>3, <1>4, <1>5

(* A login is given its pair: a token nobody has used.                     *)
LEMMA IssueKeeps ==
    ASSUME SessionInv, NEW t \in Threads, Issue(t)
    PROVE  SessionInv'
<1> DEFINE token == [family |-> Len(tokens) + 1, user |-> req[t].user,
                     role |-> req[t].role, parent |-> 0, epoch |-> restarts]
<1>1. req[t] \in Login /\ restarts \in 0..MaxRestarts /\ Len(tokens) < MaxTokens
  BY SessionFacts, RequestIs DEF Issue, SessionInv, SessionsTypeOK
<1>2. token \in Token
  BY <1>1, SessionFacts DEF Token, Jti, Login
<1>3. /\ tokens' = Append(tokens, token) /\ req' = [req EXCEPT ![t] = Idle]
      /\ UNCHANGED <<accountsVars, spent, revoked, expired, pending, restarts>>
  BY DEF Issue
<1>4. token.parent = 0
  OBVIOUS
<1> HIDE DEF token
<1>5. /\ tokens' \in Seq(Token) /\ Len(tokens') <= MaxTokens
      /\ DOMAIN tokens' = DOMAIN tokens \cup {Len(tokens) + 1}
      /\ \A j \in DOMAIN tokens : tokens'[j] = tokens[j]
      /\ \A j \in Jti : Rotated(j)' <=> Rotated(j)
  BY <1>1, <1>2, <1>3, <1>4, TokenJoins DEF Jti
<1>6. /\ req' \in [Threads -> Request] /\ ~Refreshing(req'[t])
      /\ \A o \in Threads \ {t} : req'[o] = req[o]
  BY <1>3, SessionFacts, RequestIs DEF Request
<1>7. SessionsTypeOK'
  BY <1>3, <1>5, <1>6 DEF SessionInv, SessionsTypeOK, AccountsTypeOK, accountsVars
<1>8. LateRefreshRefused' /\ GrantsCurrentRole'
  BY <1>3, <1>6 DEF SessionInv, LateRefreshRefused, GrantsCurrentRole, Refreshing
<1>9. \A j \in Jti : Rotated(j)' => j \in (spent \cup expired)'
  BY <1>3, <1>5 DEF SessionInv
<1>10. (\A o \in Threads : Refreshing(req[o]) =>
          req[o].jti \in DOMAIN tokens /\ (req[o].late => Rotated(req[o].jti)))'
  <2> SUFFICES ASSUME NEW o \in Threads, Refreshing(req[o])'
               PROVE  (req[o].jti \in DOMAIN tokens /\ (req[o].late => Rotated(req[o].jti)))'
    OBVIOUS
  <2>1. req'[o] = req[o] /\ Refreshing(req[o])
    BY <1>6 DEF Refreshing
  <2>2. req[o].jti \in DOMAIN tokens /\ (req[o].late => Rotated(req[o].jti)) /\ req[o].jti \in Jti
    BY <2>1, SessionFacts DEF SessionInv
  <2>3. PICK j \in Jti : j = req[o].jti /\ j \in DOMAIN tokens /\ (req[o].late => Rotated(j)')
    BY <1>5, <2>2
  <2> QED
    BY <1>5, <2>1, <2>3 DEF Rotated
<1>11. Jti' = Jti
  BY DEF Jti
<1>12. (\A j \in DOMAIN tokens : tokens[j].family \in DOMAIN tokens /\ tokens[j].epoch <= restarts)'
  <2>1. /\ tokens'[Len(tokens) + 1].family = Len(tokens) + 1
        /\ tokens'[Len(tokens) + 1].epoch = restarts
    BY <1>1, <1>2, <1>3, AppendProperties, SessionFacts DEF token
  <2>2. \A j \in DOMAIN tokens : tokens[j].family \in DOMAIN tokens /\ tokens[j].epoch <= restarts
    BY DEF SessionInv
  <2>3. restarts \in Nat /\ restarts' = restarts
    BY <1>1, <1>3
  <2> QED
    BY <1>5, <2>1, <2>2, <2>3
<1> QED
  BY <1>7, <1>8, <1>9, <1>10, <1>11, <1>12 DEF SessionInv

(* A refresh up to the pair it is given.  Rotate looks the spent token up  *)
(* under the lock, so a token that bought a pair is refused there unless   *)
(* it has expired and was forgotten.                                       *)
LEMMA RefreshKeeps ==
    ASSUME SessionInv, NEW t \in Threads,
           \/ \E j \in Jti : RefreshStart(t, j)
           \/ RefreshFamily(t) \/ RefreshSpent(t)
    PROVE  SessionInv'
<1>1. /\ pending \in 0..MaxPending /\ revoked \subseteq DOMAIN tokens
      /\ spent \subseteq DOMAIN tokens /\ expired \subseteq DOMAIN tokens
  BY DEF SessionInv, SessionsTypeOK
<1>2. ASSUME NEW j \in Jti, RefreshStart(t, j)
      PROVE  SessionInv'
  <2>1. /\ j \in DOMAIN tokens /\ tokens[j].user \in Users /\ tokens[j].family \in DOMAIN tokens
        /\ UNCHANGED <<accountsVars, tokens, spent, expired, pending, restarts>>
    BY <1>2, SessionFacts DEF RefreshStart
  <2>2. CASE directory[tokens[j].user] = NoRow
    BY <1>1, <1>2, <2>1, <2>2, QuietKeeps DEF RefreshStart
  <2>3. CASE directory[tokens[j].user] # NoRow
    <3> DEFINE role == directory[tokens[j].user]
               r == [pc |-> "family", jti |-> j, role |-> role, held |-> {role}, late |-> Rotated(j)]
    <3>1. req' = [req EXCEPT ![t] = r] /\ UNCHANGED revoked
      BY <1>2, <2>3 DEF RefreshStart, RefreshRole
    <3>2. role \in Roles /\ Rotated(j) \in BOOLEAN
      BY <2>1, <2>3, SessionFacts DEF Rotated
    <3>3. r \in Request
      BY <3>2 DEF Request
    <3>4. r.jti = j /\ r.role \in r.held /\ (r.late => Rotated(j)) /\ r.pc # "mark"
      OBVIOUS
    <3> HIDE DEF r
    <3> QED
      BY <1>1, <2>1, <3>1, <3>3, <3>4, RequestKeeps
  <2> QED
    BY <2>2, <2>3
<1>3. ASSUME NEW pc \in {"spent", "mark"}, Refreshing(req[t]),
             req' = [req EXCEPT ![t] = [req[t] EXCEPT !.pc = pc]],
             UNCHANGED <<accountsVars, tokens, revoked, expired, pending, restarts>>,
             spent' \subseteq spent, spent \subseteq spent' \cup expired,
             pc = "mark" /\ req[t].late => req[t].jti \in expired
      PROVE  SessionInv'
  <2> DEFINE r == [req[t] EXCEPT !.pc = pc]
  <2>1. /\ req[t] \in Refresh /\ req[t].jti \in DOMAIN tokens /\ req[t].role \in req[t].held
        /\ (req[t].late => Rotated(req[t].jti))
    BY <1>3, SessionFacts, RequestIs DEF SessionInv, GrantsCurrentRole, Refreshing
  <2>2. r \in Refresh
    BY <2>1 DEF Refresh
  <2>3. /\ r.pc = pc /\ r.jti = req[t].jti /\ r.role = req[t].role /\ r.held = req[t].held
        /\ r.late = req[t].late
    BY <2>1 DEF Refresh
  <2>4. r \in Request
    BY <2>2 DEF Request, Refresh
  <2>5. req' = [req EXCEPT ![t] = r]
    BY <1>3
  <2> HIDE DEF r
  <2> QED
    BY <1>1, <1>3, <2>1, <2>3, <2>4, <2>5, RequestKeeps
<1>4. CASE RefreshFamily(t)
  <2>1. /\ Refreshing(req[t]) /\ req[t].pc # "mark"
        /\ UNCHANGED <<accountsVars, tokens, spent, revoked, expired, pending, restarts>>
    BY <1>4 DEF RefreshFamily, Refreshing
  <2>2. CASE req' = [req EXCEPT ![t] = Idle]
    BY <1>1, <2>1, <2>2, IdleKeeps
  <2>3. CASE req' = [req EXCEPT ![t] = [req[t] EXCEPT !.pc = "spent"]]
    BY <1>3, <2>1, <2>3
  <2> QED
    BY <1>4, <2>2, <2>3 DEF RefreshFamily
<1>5. CASE RefreshSpent(t)
  <2> DEFINE j == req[t].jti
  <2>1. /\ Refreshing(req[t]) /\ j \in DOMAIN tokens /\ j \in Jti /\ (req[t].late => Rotated(j))
        /\ tokens[j].family \in DOMAIN tokens
        /\ UNCHANGED <<accountsVars, tokens, expired, pending, restarts>>
    BY <1>5, SessionFacts DEF RefreshSpent, Refreshing, SessionInv
  <2>2. CASE j \in spent \ expired
    <3>1. /\ revoked' = revoked \cup {tokens[j].family} /\ req' = [req EXCEPT ![t] = Idle]
          /\ UNCHANGED spent
      BY <1>5, <2>2 DEF RefreshSpent
    <3> QED
      BY <1>1, <2>1, <3>1, IdleKeeps
  <2>3. CASE j \notin spent \ expired
    <3>1. /\ spent' = spent \ {j} /\ req' = [req EXCEPT ![t] = [req[t] EXCEPT !.pc = "mark"]]
          /\ UNCHANGED revoked
      BY <1>5, <2>3 DEF RefreshSpent
    <3>2. req[t].late => j \in expired
      BY <2>1, <2>3 DEF SessionInv
    <3> QED
      BY <1>3, <2>1, <2>3, <3>1, <3>2
  <2> QED
    BY <2>2, <2>3
<1> QED
  BY <1>2, <1>4, <1>5

(* The token is marked in the step that issues what it buys.               *)
LEMMA MarkKeeps ==
    ASSUME SessionInv, NEW t \in Threads, RefreshMark(t)
    PROVE  SessionInv'
<1> DEFINE j == req[t].jti
           token == [family |-> tokens[j].family, user |-> tokens[j].user,
                     role |-> req[t].role, parent |-> j, epoch |-> restarts]
<1>1. /\ req[t] \in Refresh /\ restarts \in 0..MaxRestarts /\ Len(tokens) < MaxTokens
      /\ Refreshing(req[t])
  BY SessionFacts, RequestIs DEF RefreshMark, SessionInv, SessionsTypeOK, Refreshing
<1>2. j \in DOMAIN tokens /\ j \in Jti /\ tokens[j] \in Token /\ tokens[j].family \in DOMAIN tokens
  BY <1>1, SessionFacts DEF SessionInv
<1>3. token \in Token /\ token.parent = j /\ token.family = tokens[j].family /\ token.epoch = restarts
  BY <1>1, <1>2, SessionFacts DEF Token, Jti, Refresh
<1>4. /\ tokens' = Append(tokens, token) /\ req' = [req EXCEPT ![t] = Idle] /\ spent' = spent \cup {j}
      /\ UNCHANGED <<accountsVars, revoked, expired, pending, restarts>>
  BY DEF RefreshMark
<1> HIDE DEF token, j
<1>5. /\ tokens' \in Seq(Token) /\ Len(tokens') <= MaxTokens
      /\ DOMAIN tokens' = DOMAIN tokens \cup {Len(tokens) + 1}
      /\ tokens'[Len(tokens) + 1] = token
      /\ \A i \in DOMAIN tokens : tokens'[i] = tokens[i]
      /\ \A i \in Jti : Rotated(i)' => Rotated(i) \/ i = j
      /\ \A i \in Jti : Rotated(i) => Rotated(i)'
  BY <1>1, <1>3, <1>4, TokenJoins, AppendProperties, SessionFacts
<1>6. /\ req' \in [Threads -> Request] /\ ~Refreshing(req'[t])
      /\ \A o \in Threads \ {t} : req'[o] = req[o]
  BY <1>4, SessionFacts, RequestIs DEF Request
<1>7. SessionsTypeOK'
  BY <1>2, <1>4, <1>5, <1>6 DEF SessionInv, SessionsTypeOK, AccountsTypeOK, accountsVars
<1>8. LateRefreshRefused' /\ GrantsCurrentRole'
  BY <1>4, <1>6 DEF SessionInv, LateRefreshRefused, GrantsCurrentRole, Refreshing
<1>9. \A i \in Jti : Rotated(i)' => i \in (spent \cup expired)'
  BY <1>4, <1>5 DEF SessionInv
<1>10. (\A o \in Threads : Refreshing(req[o]) =>
          req[o].jti \in DOMAIN tokens /\ (req[o].late => Rotated(req[o].jti)))'
  <2> SUFFICES ASSUME NEW o \in Threads, Refreshing(req[o])'
               PROVE  (req[o].jti \in DOMAIN tokens /\ (req[o].late => Rotated(req[o].jti)))'
    OBVIOUS
  <2>1. req'[o] = req[o] /\ Refreshing(req[o])
    BY <1>6 DEF Refreshing
  <2>2. req[o].jti \in DOMAIN tokens /\ (req[o].late => Rotated(req[o].jti)) /\ req[o].jti \in Jti
    BY <2>1, SessionFacts DEF SessionInv
  <2>3. PICK i \in Jti : i = req[o].jti /\ i \in DOMAIN tokens /\ (req[o].late => Rotated(i)')
    BY <1>5, <2>2
  <2> QED
    BY <1>5, <2>1, <2>3 DEF Rotated
<1>11. Jti' = Jti
  BY DEF Jti
<1>12. (\A i \in DOMAIN tokens : tokens[i].family \in DOMAIN tokens /\ tokens[i].epoch <= restarts)'
  <2>1. \A i \in DOMAIN tokens : tokens[i].family \in DOMAIN tokens /\ tokens[i].epoch <= restarts
    BY DEF SessionInv
  <2>2. restarts \in Nat /\ restarts' = restarts
    BY <1>1, <1>4
  <2> QED
    BY <1>2, <1>3, <1>5, <2>1, <2>2
<1> QED
  BY <1>7, <1>8, <1>9, <1>10, <1>11, <1>12 DEF SessionInv

(* The directory changes under the refreshes that are under way; each has  *)
(* then seen the account hold one role more.                               *)
LEMMA DirectoryKeeps ==
    ASSUME SessionInv, AccountsTypeOK',
           UNCHANGED <<tokens, spent, revoked, expired, pending, restarts>>,
           req' \in [Threads -> Request],
           \A t \in Threads : \/ req'[t] = req[t]
                              \/ /\ Refreshing(req[t]) /\ req'[t] \in Refresh
                                 /\ req'[t].pc = req[t].pc /\ req'[t].jti = req[t].jti
                                 /\ req'[t].role = req[t].role /\ req'[t].late = req[t].late
                                 /\ req[t].held \subseteq req'[t].held
    PROVE  SessionInv'
<1>1. SessionsTypeOK'
  BY DEF SessionInv, SessionsTypeOK
<1>2. \A j : Rotated(j)' <=> Rotated(j)
  BY DEF Rotated
<1>3. \A t \in Threads : Refreshing(req'[t]) =>
          /\ Refreshing(req[t]) /\ req'[t].jti = req[t].jti /\ req'[t].role \in req'[t].held
          /\ (req'[t].late <=> req[t].late) /\ req'[t].pc = req[t].pc
  BY DEF SessionInv, GrantsCurrentRole, Refreshing
<1>4. LateRefreshRefused' /\ GrantsCurrentRole'
  BY <1>3 DEF SessionInv, LateRefreshRefused, GrantsCurrentRole, Refreshing
<1>5. Jti' = Jti
  BY DEF Jti
<1>6. (\A t \in Threads : Refreshing(req[t]) =>
          req[t].jti \in DOMAIN tokens /\ (req[t].late => Rotated(req[t].jti)))'
  <2> SUFFICES ASSUME NEW t \in Threads, Refreshing(req[t])'
               PROVE  (req[t].jti \in DOMAIN tokens /\ (req[t].late => Rotated(req[t].jti)))'
    OBVIOUS
  <2>1. /\ Refreshing(req[t]) /\ req'[t].jti = req[t].jti /\ (req'[t].late <=> req[t].late)
    BY <1>3 DEF Refreshing
  <2>2. req[t].jti \in DOMAIN tokens /\ (req[t].late => Rotated(req[t].jti))
    BY <2>1 DEF SessionInv
  <2> QED
    BY <2>1, <2>2 DEF Rotated
<1> QED
  BY <1>1, <1>2, <1>4, <1>5, <1>6 DEF SessionInv

LEMMA ChangeRoleKeeps ==
    ASSUME SessionInv, NEW u \in Users, NEW role \in Roles, ChangeRole(u, role)
    PROVE  SessionInv'
<1>1. /\ directory' = [directory EXCEPT ![u] = role] /\ UNCHANGED <<change, overlapped>>
      /\ UNCHANGED <<tokens, spent, revoked, expired, pending, restarts>>
  BY DEF ChangeRole
<1>2. AccountsTypeOK'
  BY <1>1, SessionFacts DEF SessionInv, SessionsTypeOK, AccountsTypeOK
<1>3. ASSUME NEW t \in Threads
      PROVE  /\ req'[t] \in Request
             /\ \/ req'[t] = req[t]
                \/ /\ Refreshing(req[t]) /\ req'[t] \in Refresh
                   /\ req'[t].pc = req[t].pc /\ req'[t].jti = req[t].jti
                   /\ req'[t].role = req[t].role /\ req'[t].late = req[t].late
                   /\ req[t].held \subseteq req'[t].held
  <2>1. req[t] \in Request
    BY SessionFacts
  <2>2. CASE "held" \in DOMAIN req[t] /\ tokens[req[t].jti].user = u
    <3>1. req'[t] = [req[t] EXCEPT !.held = @ \cup {role}]
      BY <2>2 DEF ChangeRole
    <3>2. req[t] \in Refresh /\ Refreshing(req[t])
      BY <2>1, <2>2, RequestIs
    <3>3. req'[t] \in Refresh
      BY <3>1, <3>2 DEF Refresh
    <3>4. req'[t] \in Request
      BY <3>3 DEF Refresh, Request
    <3>5. /\ req'[t].pc = req[t].pc /\ req'[t].jti = req[t].jti
          /\ req'[t].role = req[t].role /\ req'[t].late = req[t].late
          /\ req[t].held \subseteq req'[t].held
      BY <3>1, <3>2 DEF Refresh
    <3> QED
      BY <3>2, <3>3, <3>4, <3>5
  <2>3. CASE ~("held" \in DOMAIN req[t] /\ tokens[req[t].jti].user = u)
    BY <2>1, <2>3 DEF ChangeRole
  <2> QED
    BY <2>2, <2>3
<1>4. req' = [t \in Threads |-> req'[t]]
  BY DEF ChangeRole
<1>5. req' \in [Threads -> Request]
  BY <1>3, <1>4
<1> QED
  BY <1>1, <1>2, <1>3, <1>5, DirectoryKeeps

(* Expiry only ever adds to what may be forgotten; a restart forgets all,  *)
(* and the epoch of the tokens says so.                                    *)
LEMMA EpochKeeps ==
    ASSUME SessionInv, Restart \/ \E j \in Jti : Expire(j) \/ Logout(j)
    PROVE  SessionInv'
<1>1. /\ pending \in 0..MaxPending /\ revoked \subseteq DOMAIN tokens
      /\ spent \subseteq DOMAIN tokens /\ expired \subseteq DOMAIN tokens
      /\ restarts \in 0..MaxRestarts /\ tokens \in Seq(Token)
  BY DEF SessionInv, SessionsTypeOK
<1>2. ASSUME NEW j \in Jti, Logout(j)
      PROVE  SessionInv'
  <2>1. revoked' \subseteq DOMAIN tokens
    BY <1>1, <1>2, SessionFacts DEF Logout
  <2> QED
    BY <1>1, <1>2, <2>1, QuietKeeps DEF Logout
<1>3. ASSUME NEW j \in Jti, Expire(j)
      PROVE  SessionInv'
  <2>1. /\ expired' = expired \cup {j} /\ j \in DOMAIN tokens
        /\ UNCHANGED <<accountsVars, tokens, spent, revoked, pending, restarts, req>>
    BY <1>3 DEF Expire
  <2>2. SessionsTypeOK'
    BY <2>1 DEF SessionInv, SessionsTypeOK, AccountsTypeOK, accountsVars
  <2>3. \A i : Rotated(i)' <=> Rotated(i)
    BY <2>1 DEF Rotated
  <2>4. LateRefreshRefused' /\ GrantsCurrentRole'
    BY <2>1 DEF SessionInv, LateRefreshRefused, GrantsCurrentRole
  <2>5. Jti' = Jti
    BY DEF Jti
  <2>6. (\A t \in Threads : Refreshing(req[t]) =>
          req[t].jti \in DOMAIN tokens /\ (req[t].late => Rotated(req[t].jti)))'
    BY <2>1 DEF SessionInv, Refreshing, Rotated
  <2> QED
    BY <2>1, <2>2, <2>3, <2>4, <2>5, <2>6 DEF SessionInv
<1>4. CASE Restart
  <2>1. /\ restarts' = restarts + 1 /\ restarts' \in 0..MaxRestarts
        /\ directory' \in [Users -> Roles \cup {NoRow}] /\ req' = [t \in Threads |-> Idle]
        /\ spent' = {} /\ revoked' = {} /\ pending' = 0
        /\ UNCHANGED <<change, overlapped, tokens, expired>>
    BY <1>1, <1>4, SessionFacts, AccountsAssumption DEF Restart
  <2>2. \A t \in Threads : req'[t] \in Request /\ ~Refreshing(req'[t])
    BY <2>1, RequestIs DEF Request
  <2>3. SessionsTypeOK'
    BY <1>1, <2>1, <2>2, SessionFacts DEF SessionInv, SessionsTypeOK, AccountsTypeOK
  <2>4. \A i \in Jti : ~Rotated(i)'
    <3>1. \A k \in DOMAIN tokens : tokens[k].epoch \in Nat /\ tokens[k].epoch <= restarts
      BY SessionFacts DEF SessionInv, Token
    <3> QED
      BY <1>1, <2>1, <3>1 DEF Rotated
  <2>5. LateRefreshRefused' /\ GrantsCurrentRole'
    BY <2>2 DEF LateRefreshRefused, GrantsCurrentRole, Refreshing
  <2>6. (\A t \in Threads : Refreshing(req[t]) =>
          req[t].jti \in DOMAIN tokens /\ (req[t].late => Rotated(req[t].jti)))'
    BY <2>2 DEF Refreshing
  <2>7. Jti' = Jti
    BY DEF Jti
  <2>8. \A j \in DOMAIN tokens : tokens[j].epoch <= restarts'
    BY <1>1, <2>1, SessionFacts DEF SessionInv, Token
  <2> QED
    BY <2>1, <2>3, <2>4, <2>5, <2>6, <2>7, <2>8 DEF SessionInv
<1> QED
  BY <1>2, <1>3, <1>4

(* While sessions are busy nobody is in the middle of a role change.       *)
Settled == \A t \in Threads : change[t] = NoChange

LEMMA SessionsStep ==
    ASSUME SessionInv, FloorInv, Settled, SessionsNext
    PROVE  SessionInv' /\ FloorInv' /\ Settled'
<1>1. ASSUME NEW u \in Users, CreateInitialAdmin(u),
             UNCHANGED <<tokens, spent, revoked, expired, pending, restarts, req>>
      PROVE  SessionInv' /\ FloorInv' /\ Settled'
  <2>1. FloorInv'
    BY <1>1, InitialAdminKeepsFloor
  <2>2. AccountsTypeOK' /\ Settled'
    BY <1>1, <2>1 DEF FloorInv, Settled, CreateInitialAdmin
  <2>3. SessionInv'
    BY <1>1, <2>2, DirectoryKeeps, SessionFacts
  <2> QED
    BY <2>1, <2>2, <2>3
<1>2. ASSUME NEW u \in Users, NEW role \in Roles, ChangeRole(u, role)
      PROVE  SessionInv' /\ FloorInv' /\ Settled'
  <2>1. /\ directory[u] \notin {NoRow, role} /\ ~LeavesNoAdmin(u, role)
        /\ directory' = [directory EXCEPT ![u] = role] /\ UNCHANGED <<change, overlapped>>
    BY <1>2 DEF ChangeRole
  <2>2. SessionInv' /\ Settled'
    BY <1>2, <2>1, ChangeRoleKeeps DEF Settled
  <2>3. AdminFloor'
    <3>1. CASE overlapped
      BY <2>1, <3>1 DEF AdminFloor
    <3>2. CASE ~overlapped
      BY <2>1, <3>2, RoleKeepsFloor
    <3> QED
      BY <3>1, <3>2
  <2> QED
    BY <2>1, <2>2, <2>3 DEF SessionInv, SessionsTypeOK, FloorInv, Settled
<1>3. CASE Restart
  <2>1. SessionInv' /\ Settled'
    BY <1>3, EpochKeeps DEF Restart, Settled
  <2>2. AdminFloor'
    BY <1>3, AccountsAssumption DEF Restart, AdminFloor, ActiveAdmins
  <2> QED
    BY <1>3, <2>1, <2>2 DEF SessionInv, SessionsTypeOK, FloorInv, Settled
<1>4. ASSUME UNCHANGED accountsVars, SessionInv'
      PROVE  SessionInv' /\ FloorInv' /\ Settled'
  BY <1>4 DEF FloorInv, Settled, accountsVars, AccountsTypeOK, AdminFloor, ActiveAdmins, Standing, LeavesNoAdmin
<1>5. CASE \/ \E t \in Threads, u \in Callers : Authenticate(t, u)
           \/ OidcStart \/ \E t \in Threads : OidcCallback(t)
  BY <1>4, <1>5, SignInKeeps DEF Authenticate, OidcStart, OidcCallback
<1>6. CASE \/ \E t \in Threads : Issue(t) \/ RefreshFamily(t) \/ RefreshSpent(t) \/ RefreshMark(t)
           \/ \E t \in Threads, j \in Jti : RefreshStart(t, j)
  BY <1>4, <1>6, IssueKeeps, RefreshKeeps, MarkKeeps
     DEF Issue, RefreshFamily, RefreshSpent, RefreshMark, RefreshStart
<1>7. CASE \E j \in Jti : Logout(j) \/ Expire(j)
  BY <1>4, <1>7, EpochKeeps DEF Logout, Expire
<1> QED
  BY <1>1, <1>2, <1>3, <1>5, <1>6, <1>7 DEF SessionsNext, Setup
-----------------------------------------------------------------------------
(* Who is in the middle of what.                                           *)
Writing(o) == o.op \in {"touch", "revoke"}
Creating(o) == o.op = "create"
PlainOf(i, record) == [id |-> i, secret |-> record.secret]

(* A secret is a number of its own; a record, and the copy of it a thread  *)
(* is about to write back, are those of a key that was handed out.         *)
KeysInv ==
    /\ ApiKeysTypeOK /\ LiveKeysVerify
    /\ IsFiniteSet(issued) /\ Cardinality(issued) = nextId - 1
    /\ \A k \in issued : k.secret <= Cardinality(issued)
    /\ \A i \in KeyIds : Exists(i) => PlainOf(i, keys[i]) \in issued
    /\ \A t \in Threads : Creating(op[t]) => op[t].id \in KeyIds
    /\ \A t \in Threads : Writing(op[t]) => PlainOf(op[t].id, op[t].read) \in issued

Creation == [op : {"create"}, id : 1..(MaxKeys + 1), owner : Owners]
Writer == [op : {"touch", "revoke"}, id : KeyIds, read : KeyRecord]

LEMMA KeysFacts ==
    ASSUME KeysInv
    PROVE  /\ keys \in [KeyIds -> KeyRecord \cup {NoKey}] /\ MaxKeys \in Nat \ {0}
           /\ \A i \in KeyIds : Exists(i) <=> keys[i] \in KeyRecord
           /\ \A t \in Threads : /\ Creating(op[t]) => op[t] \in Creation
                                 /\ Writing(op[t]) => op[t] \in Writer
                                 /\ op[t].op = "verified" => op[t] \in [op : {"verified"}, id : KeyIds]
<1>1. keys \in [KeyIds -> KeyRecord \cup {NoKey}] /\ MaxKeys \in Nat \ {0}
  BY ApiKeysAssumption DEF KeysInv, ApiKeysTypeOK
<1>2. NoKey \notin KeyRecord
  BY DEF NoKey, KeyRecord
<1>3. \A t \in Threads : op[t] \in {NoOp} \cup Creation \cup [op : {"verified"}, id : KeyIds] \cup Writer
  BY DEF KeysInv, ApiKeysTypeOK, Creation, Writer
<1>4. NoOp.op = "none"
  BY DEF NoOp
<1> QED
  BY <1>1, <1>2, <1>3, <1>4 DEF Exists, Creating, Writing, Creation, Writer

LEMMA KeysInit == ApiKeysInit => KeysInv
<1> SUFFICES ASSUME ApiKeysInit PROVE KeysInv
  OBVIOUS
<1>1. IsFiniteSet(issued) /\ Cardinality(issued) = 0
  BY FS_EmptySet DEF ApiKeysInit
<1>2. ApiKeysTypeOK
  <2>1. /\ keys \in [KeyIds -> KeyRecord \cup {NoKey}] /\ nextId \in 1..(MaxKeys + 1)
        /\ issued = {} /\ ended = {} /\ raced = FALSE /\ op = [t \in Threads |-> NoOp]
    BY ApiKeysAssumption DEF ApiKeysInit
  <2> QED
    BY <2>1 DEF ApiKeysTypeOK
<1> QED
  BY <1>1, <1>2 DEF ApiKeysInit, KeysInv, LiveKeysVerify, Exists, Creating, Writing, NoOp

(* A key handed out under the next number is nobody else's.                *)
LEMMA CreateStoreKeeps ==
    ASSUME KeysInv, NEW t \in Threads, CreateStore(t)
    PROVE  KeysInv'
<1> DEFINE i == op[t].id
           secret == Cardinality(issued) + 1
           record == [secret |-> secret, owner |-> op[t].owner, revoked |-> FALSE, used |-> FALSE]
           new == [id |-> i, secret |-> secret]
<1>1. /\ i \in KeyIds /\ op[t].owner \in Owners /\ nextId \in 1..MaxKeys /\ MaxKeys \in Nat
      /\ secret = nextId /\ IsFiniteSet(issued) /\ keys \in [KeyIds -> KeyRecord \cup {NoKey}]
      /\ \A k \in issued : k.secret < secret /\ k \in PlainKey
      /\ issued \subseteq PlainKey /\ ended \subseteq issued /\ raced \in BOOLEAN
  BY KeysFacts DEF KeysInv, ApiKeysTypeOK, CreateStore, Creating, Creation, PlainKey
<1>2. /\ keys' = [keys EXCEPT ![i] = record] /\ issued' = issued \cup {new}
      /\ raced' = (raced \/ Exists(i)) /\ nextId' = nextId + 1
      /\ op' = [op EXCEPT ![t] = NoOp] /\ UNCHANGED ended
  BY DEF CreateStore
<1>3. /\ record \in KeyRecord /\ record.secret = secret /\ ~record.revoked
      /\ new \in PlainKey /\ new.id = i /\ new.secret = secret /\ PlainOf(i, record) = new
  BY <1>1 DEF KeyRecord, PlainKey, PlainOf
<1>4. new \notin issued
  BY <1>1, <1>3
<1> HIDE DEF i, secret, record, new
<1>5. /\ IsFiniteSet(issued') /\ Cardinality(issued') = Cardinality(issued) + 1
  BY <1>1, <1>2, <1>4, FS_AddElement
<1>6. /\ keys' \in [KeyIds -> KeyRecord \cup {NoKey}] /\ keys'[i] = record
      /\ \A j \in KeyIds \ {i} : keys'[j] = keys[j]
  BY <1>1, <1>2, <1>3
<1>7. /\ op'[t] = NoOp /\ \A o \in Threads \ {t} : op'[o] = op[o]
  BY <1>2 DEF KeysInv, ApiKeysTypeOK
<1>8. ApiKeysTypeOK'
  BY <1>1, <1>2, <1>3, <1>6, <1>7 DEF KeysInv, ApiKeysTypeOK
<1>9. /\ Cardinality(issued') = nextId' - 1
      /\ \A k \in issued' : k.secret <= Cardinality(issued')
  <2>1. Cardinality(issued) = nextId - 1 /\ \A k \in issued : k.secret <= Cardinality(issued)
    BY DEF KeysInv
  <2>2. secret = Cardinality(issued) + 1
    BY DEF secret
  <2> QED
    BY <1>1, <1>2, <1>3, <1>5, <2>1, <2>2 DEF PlainKey
<1>10. \A j \in KeyIds : Exists(j)' => PlainOf(j, keys'[j]) \in issued'
  BY <1>2, <1>3, <1>6 DEF KeysInv, Exists
<1>11. /\ \A o \in Threads : Creating(op'[o]) => op'[o].id \in KeyIds
       /\ \A o \in Threads : Writing(op'[o]) => PlainOf(op'[o].id, op'[o].read) \in issued'
  BY <1>2, <1>7 DEF KeysInv, Creating, Writing, NoOp
<1>12. LiveKeysVerify'
  <2> SUFFICES ASSUME ~raced', NEW k \in issued'
               PROVE  Verifies(k)' <=> k \notin ended
    BY <1>2 DEF LiveKeysVerify
  <2>1. ~raced /\ ~Exists(i)
    BY <1>1, <1>2
  <2>2. CASE k = new
    BY <1>1, <1>3, <1>4, <1>6, <2>2 DEF Verifies, Exists, KeyRecord, NoKey
  <2>3. CASE k \in issued /\ k.id = i
    <3>1. ~Verifies(k) /\ k \in ended
      BY <2>1, <2>3 DEF KeysInv, LiveKeysVerify, Verifies
    <3>2. ~Verifies(k)'
      BY <1>1, <1>3, <1>6, <2>3 DEF Verifies, PlainKey
    <3> QED
      BY <3>1, <3>2
  <2>4. CASE k \in issued /\ k.id # i
    <3>1. k.id \in KeyIds /\ keys'[k.id] = keys[k.id]
      BY <1>1, <1>6, <2>4 DEF PlainKey
    <3> QED
      BY <2>1, <2>4, <3>1 DEF KeysInv, LiveKeysVerify, Verifies, Exists
  <2> QED
    BY <1>2, <2>2, <2>3, <2>4
<1> QED
  BY <1>5, <1>8, <1>9, <1>10, <1>11, <1>12 DEF KeysInv

(* A copy is written back, revoked or only used: if nothing happened to    *)
(* the record meanwhile, the key it is of and no other changes standing.   *)
LEMMA WriteKeeps ==
    ASSUME KeysInv, NEW t \in Threads, Writing(op[t]), NEW record \in KeyRecord,
           record.secret = op[t].read.secret,
           keys' = [keys EXCEPT ![op[t].id] = record],
           raced' = (raced \/ Stale(t)), op' = [op EXCEPT ![t] = NoOp],
           UNCHANGED <<nextId, issued>>,
           \/ UNCHANGED ended /\ record.revoked = op[t].read.revoked
           \/ ended' = ended \cup Holders(op[t].id) /\ record.revoked
    PROVE  KeysInv'
<1> DEFINE i == op[t].id
<1>1. /\ op[t] \in Writer /\ i \in KeyIds /\ keys \in [KeyIds -> KeyRecord \cup {NoKey}]
      /\ PlainOf(i, record) \in issued
  BY KeysFacts DEF KeysInv, Writer, PlainOf
<1>2. /\ keys' \in [KeyIds -> KeyRecord \cup {NoKey}] /\ keys'[i] = record
      /\ \A j \in KeyIds \ {i} : keys'[j] = keys[j]
  BY <1>1
<1>3. op'[t] = NoOp /\ \A o \in Threads \ {t} : op'[o] = op[o]
  BY DEF KeysInv, ApiKeysTypeOK
<1>4. Holders(i) \subseteq issued /\ ended' \subseteq issued'
  BY DEF Holders, KeysInv, ApiKeysTypeOK
<1>5. ApiKeysTypeOK'
  BY <1>2, <1>3, <1>4 DEF KeysInv, ApiKeysTypeOK
<1>6. \A j \in KeyIds : Exists(j)' => PlainOf(j, keys'[j]) \in issued'
  BY <1>1, <1>2 DEF KeysInv, Exists
<1>7. /\ \A o \in Threads : Creating(op'[o]) => op'[o].id \in KeyIds
      /\ \A o \in Threads : Writing(op'[o]) => PlainOf(op'[o].id, op'[o].read) \in issued'
  BY <1>3 DEF KeysInv, Creating, Writing, NoOp
<1>8. LiveKeysVerify'
  <2> SUFFICES ASSUME ~raced', NEW k \in issued
               PROVE  Verifies(k)' <=> k \notin ended'
    BY DEF LiveKeysVerify
  <2>1. /\ ~raced /\ Exists(i) /\ keys[i].secret = op[t].read.secret
        /\ keys[i].revoked = op[t].read.revoked
    BY DEF Stale, KeysInv, ApiKeysTypeOK
  <2>2. Verifies(k) <=> k \notin ended
    BY <2>1 DEF KeysInv, LiveKeysVerify
  <2>3. k.id \in KeyIds
    BY DEF KeysInv, ApiKeysTypeOK, PlainKey
  <2>4. record # NoKey
    BY DEF NoKey, KeyRecord
  <2>5. CASE k.id # i
    <3>1. keys'[k.id] = keys[k.id] /\ k \notin Holders(i)
      BY <1>2, <2>3, <2>5 DEF Holders
    <3> QED
      BY <2>2, <3>1 DEF Verifies, Exists
  <2>6. CASE k.id = i
    BY <1>2, <2>1, <2>2, <2>4, <2>6 DEF Verifies, Exists, Holders
  <2> QED
    BY <2>5, <2>6
<1> QED
  BY <1>5, <1>6, <1>7, <1>8 DEF KeysInv

(* A thread takes up an operation, or drops it: the store is untouched.    *)
LEMMA OperationKeeps ==
    ASSUME KeysInv, NEW t \in Threads, NEW o,
           op' = [op EXCEPT ![t] = o], UNCHANGED <<keys, nextId, issued, ended, raced>>,
           \/ o = NoOp
           \/ o \in Creation /\ o.id \in KeyIds
           \/ o \in [op : {"verified"}, id : KeyIds]
           \/ o \in Writer /\ PlainOf(o.id, o.read) \in issued
    PROVE  KeysInv'
<1>1. op'[t] = o /\ \A p \in Threads \ {t} : op'[p] = op[p]
  BY DEF KeysInv, ApiKeysTypeOK
<1>2. ApiKeysTypeOK'
  <2>1. o \in {NoOp} \cup Creation \cup [op : {"verified"}, id : KeyIds] \cup Writer
    OBVIOUS
  <2>2. op \in [Threads -> {NoOp} \cup Creation \cup [op : {"verified"}, id : KeyIds] \cup Writer]
    BY DEF KeysInv, ApiKeysTypeOK, Creation, Writer
  <2>3. op' \in [Threads -> {NoOp} \cup Creation \cup [op : {"verified"}, id : KeyIds] \cup Writer]
    BY <2>1, <2>2
  <2> QED
    BY <2>3 DEF KeysInv, ApiKeysTypeOK, Creation, Writer
<1>3. /\ Creating(o) => o.id \in KeyIds
      /\ Writing(o) => PlainOf(o.id, o.read) \in issued
  BY DEF Creating, Writing, NoOp, Creation, Writer
<1>4. /\ \A p \in Threads : Creating(op'[p]) => op'[p].id \in KeyIds
      /\ \A p \in Threads : Writing(op'[p]) => PlainOf(op'[p].id, op'[p].read) \in issued'
  BY <1>1, <1>3 DEF KeysInv
<1>5. LiveKeysVerify'
  BY DEF KeysInv, LiveKeysVerify, Verifies, Exists
<1> QED
  BY <1>2, <1>4, <1>5 DEF KeysInv, Exists

LEMMA OperationStep ==
    ASSUME KeysInv, NEW t \in Threads,
           \/ \E o \in Owners : CreateBuild(t, o)
           \/ \E k \in issued : VerifyKey(t, k)
           \/ TouchRead(t)
           \/ \E i \in KeyIds : RevokeRead(t, i)
    PROVE  KeysInv'
<1>1. ASSUME NEW o \in Owners, CreateBuild(t, o)
      PROVE  KeysInv'
  <2> DEFINE build == [op |-> "create", id |-> nextId, owner |-> o]
  <2>1. nextId \in KeyIds /\ nextId \in 1..(MaxKeys + 1)
    BY <1>1, KeysFacts DEF KeysInv, ApiKeysTypeOK, CreateBuild, KeyIds
  <2>2. build \in Creation /\ build.id \in KeyIds
    BY <2>1 DEF Creation
  <2> QED
    BY <1>1, <2>2, OperationKeeps DEF CreateBuild
<1>2. ASSUME NEW k \in issued, VerifyKey(t, k)
      PROVE  KeysInv'
  <2>1. [op |-> "verified", id |-> k.id] \in [op : {"verified"}, id : KeyIds]
    BY DEF KeysInv, ApiKeysTypeOK, PlainKey
  <2> QED
    BY <1>2, <2>1, OperationKeeps DEF VerifyKey
<1>3. ASSUME NEW i \in KeyIds, Exists(i), NEW step \in {"touch", "revoke"},
             op' = [op EXCEPT ![t] = [op |-> step, id |-> i, read |-> keys[i]]],
             UNCHANGED <<keys, nextId, issued, ended, raced>>
      PROVE  KeysInv'
  <2> DEFINE o == [op |-> step, id |-> i, read |-> keys[i]]
  <2>1. keys[i] \in KeyRecord /\ PlainOf(i, keys[i]) \in issued
    BY <1>3, KeysFacts DEF KeysInv
  <2>2. o \in Writer /\ PlainOf(o.id, o.read) \in issued
    BY <2>1 DEF Writer
  <2> HIDE DEF o
  <2>3. op' = [op EXCEPT ![t] = o]
    BY <1>3 DEF o
  <2> QED
    BY <1>3, <2>2, <2>3, OperationKeeps
<1>4. CASE TouchRead(t)
  <2>1. op[t].id \in KeyIds
    BY <1>4, KeysFacts DEF TouchRead
  <2>2. CASE Exists(op[t].id) /\ ~keys[op[t].id].used
    BY <1>3, <1>4, <2>1, <2>2 DEF TouchRead
  <2>3. CASE ~(Exists(op[t].id) /\ ~keys[op[t].id].used)
    BY <1>4, <2>3, OperationKeeps DEF TouchRead
  <2> QED
    BY <2>2, <2>3
<1>5. ASSUME NEW i \in KeyIds, RevokeRead(t, i)
      PROVE  KeysInv'
  BY <1>3, <1>5 DEF RevokeRead
<1> QED
  BY <1>1, <1>2, <1>4, <1>5

LEMMA WriteStep ==
    ASSUME KeysInv, NEW t \in Threads, TouchWrite(t) \/ RevokeWrite(t)
    PROVE  KeysInv'
<1>1. Writing(op[t])
  BY DEF TouchWrite, RevokeWrite, Writing
<1>2. op[t].read \in KeyRecord
  BY <1>1, KeysFacts DEF Writer
<1>3. CASE TouchWrite(t)
  <2> DEFINE record == [op[t].read EXCEPT !.used = TRUE]
  <2>1. record \in KeyRecord /\ record.secret = op[t].read.secret /\ record.revoked = op[t].read.revoked
    BY <1>2 DEF KeyRecord
  <2>2. keys' = [keys EXCEPT ![op[t].id] = record]
    BY <1>3 DEF TouchWrite
  <2> HIDE DEF record
  <2> QED
    BY <1>1, <1>3, <2>1, <2>2, WriteKeeps DEF TouchWrite
<1>4. CASE RevokeWrite(t)
  <2> DEFINE record == [op[t].read EXCEPT !.revoked = TRUE]
  <2>1. record \in KeyRecord /\ record.secret = op[t].read.secret /\ record.revoked
    BY <1>2 DEF KeyRecord
  <2>2. keys' = [keys EXCEPT ![op[t].id] = record]
    BY <1>4 DEF RevokeWrite
  <2> HIDE DEF record
  <2> QED
    BY <1>1, <1>4, <2>1, <2>2, WriteKeeps DEF RevokeWrite
<1> QED
  BY <1>3, <1>4

(* The keys of an owner who is erased have ended; the others are as they   *)
(* were.                                                                   *)
LEMMA EraseOwnerKeeps ==
    ASSUME KeysInv, NEW o \in Owners, EraseOwner(o)
    PROVE  KeysInv'
<1> DEFINE mine == {i \in KeyIds : Exists(i) /\ keys[i].owner = o}
<1>1. /\ keys' = [i \in KeyIds |-> IF i \in mine THEN NoKey ELSE keys[i]]
      /\ ended' = ended \cup UNION {Holders(i) : i \in mine}
      /\ UNCHANGED <<nextId, issued, raced, op>>
  BY DEF EraseOwner
<1>2. keys \in [KeyIds -> KeyRecord \cup {NoKey}]
  BY KeysFacts
<1>3. /\ keys' \in [KeyIds -> KeyRecord \cup {NoKey}]
      /\ \A i \in KeyIds : keys'[i] = IF i \in mine THEN NoKey ELSE keys[i]
  BY <1>1, <1>2
<1> HIDE DEF mine
<1>4. ended' \subseteq issued'
  BY <1>1 DEF Holders, KeysInv, ApiKeysTypeOK
<1>5. ApiKeysTypeOK'
  BY <1>1, <1>3, <1>4 DEF KeysInv, ApiKeysTypeOK
<1>6. \A i \in KeyIds : Exists(i)' => i \notin mine /\ keys'[i] = keys[i] /\ Exists(i)
  BY <1>3 DEF Exists
<1>7. LiveKeysVerify'
  <2> SUFFICES ASSUME ~raced, NEW k \in issued
               PROVE  Verifies(k)' <=> k \notin ended'
    BY <1>1 DEF LiveKeysVerify
  <2>1. Verifies(k) <=> k \notin ended
    BY DEF KeysInv, LiveKeysVerify
  <2>2. k.id \in KeyIds
    BY DEF KeysInv, ApiKeysTypeOK, PlainKey
  <2>3. CASE k.id \in mine
    <3>1. ~Verifies(k)'
      BY <1>3, <2>2, <2>3 DEF Verifies, Exists
    <3>2. CASE k \in Holders(k.id)
      BY <1>1, <2>3, <3>2, <3>1
    <3>3. CASE k \notin Holders(k.id)
      BY <1>1, <2>1, <3>1, <3>3 DEF Holders, Verifies
    <3> QED
      BY <3>2, <3>3
  <2>4. CASE k.id \notin mine
    <3>1. k \notin UNION {Holders(i) : i \in mine}
      BY <2>4 DEF Holders
    <3>2. keys'[k.id] = keys[k.id]
      BY <1>3, <2>2, <2>4
    <3> QED
      BY <1>1, <2>1, <3>1, <3>2 DEF Verifies, Exists
  <2> QED
    BY <2>3, <2>4
<1>8. \A i \in KeyIds : Exists(i)' => PlainOf(i, keys'[i]) \in issued'
  BY <1>1, <1>6 DEF KeysInv
<1> QED
  BY <1>1, <1>5, <1>7, <1>8 DEF KeysInv

LEMMA IntervalKeeps ==
    ASSUME KeysInv, NEW i \in KeyIds, TouchIntervalOver(i)
    PROVE  KeysInv'
<1> DEFINE record == [keys[i] EXCEPT !.used = FALSE]
<1>1. /\ Exists(i) /\ keys' = [keys EXCEPT ![i] = record]
      /\ UNCHANGED <<nextId, issued, ended, raced, op>>
  BY DEF TouchIntervalOver
<1>2. /\ keys[i] \in KeyRecord /\ keys[i] # NoKey /\ keys \in [KeyIds -> KeyRecord \cup {NoKey}]
  BY <1>1, KeysFacts DEF Exists
<1>3. /\ record \in KeyRecord /\ record.secret = keys[i].secret /\ record.revoked = keys[i].revoked
      /\ record # NoKey
  BY <1>2 DEF KeyRecord, NoKey
<1> HIDE DEF record
<1>4. /\ keys' \in [KeyIds -> KeyRecord \cup {NoKey}] /\ keys'[i] = record
      /\ \A j \in KeyIds \ {i} : keys'[j] = keys[j]
  BY <1>1, <1>2, <1>3
<1>5. ApiKeysTypeOK'
  BY <1>1, <1>4 DEF KeysInv, ApiKeysTypeOK
<1>6. \A j \in KeyIds : /\ Exists(j)' <=> Exists(j)
                        /\ Exists(j) => keys'[j].secret = keys[j].secret
                        /\ Exists(j) => keys'[j].revoked = keys[j].revoked
  BY <1>1, <1>3, <1>4 DEF Exists
<1>7. \A k \in issued : Verifies(k)' <=> Verifies(k)
  BY <1>6 DEF Verifies, KeysInv, ApiKeysTypeOK, PlainKey
<1>8. LiveKeysVerify'
  BY <1>1, <1>7 DEF KeysInv, LiveKeysVerify
<1>9. \A j \in KeyIds : Exists(j)' => PlainOf(j, keys'[j]) \in issued'
  BY <1>1, <1>6 DEF KeysInv, PlainOf
<1> QED
  BY <1>1, <1>5, <1>8, <1>9 DEF KeysInv

LEMMA KeysStep ==
    ASSUME KeysInv, ApiKeysNext
    PROVE  KeysInv'
<1>1. CASE \E t \in Threads : \/ \E o \in Owners : CreateBuild(t, o)
                              \/ \E k \in issued : VerifyKey(t, k)
                              \/ TouchRead(t) \/ \E i \in KeyIds : RevokeRead(t, i)
  BY <1>1, OperationStep
<1>2. CASE \E t \in Threads : CreateStore(t) \/ TouchWrite(t) \/ RevokeWrite(t)
  BY <1>2, CreateStoreKeeps, WriteStep
<1> QED
  BY <1>1, <1>2, EraseOwnerKeeps, IntervalKeeps DEF ApiKeysNext
-----------------------------------------------------------------------------
Kid == Keys \cup {NoKid}
Looking == [pc : {"look"}, kid : Kid, force : BOOLEAN, began : Nat]
Fetching == [pc : {"fetch"}, kid : Kid, force : BOOLEAN, began : Nat, doc : SUBSET Keys, at : Nat]
Decision == [pc : {"verified", "rejected"}, kid : Kid, began : Nat]
Unavailable == [pc |-> "unavailable"]
CallbackState == {NoCallback, Unavailable} \cup Looking \cup Fetching \cup Decision

(* A document that was the provider's at `at` differs from what it         *)
(* publishes now only by what has changed since.                           *)
ShownBy(doc, at) ==
    \A k \in Keys : (k \in doc /\ k \notin published) \/ (k \notin doc /\ k \in published)
                        => since[k] >= at

InFlight(c) ==
    c.pc = "fetch" => /\ c.began <= c.at /\ c.at <= oidcTime /\ oidcTime <= c.at + FetchTime
                      /\ ShownBy(c.doc, c.at)

Seen(c) ==
    /\ (c.pc = "rejected" /\ c.kid # NoKid /\ c.kid \in published) =>
           since[c.kid] + RefreshFloor + FetchTime > c.began
    /\ (c.pc = "verified" /\ c.kid # NoKid /\ c.kid \notin published) =>
           since[c.kid] + JwksTtl + FetchTime > c.began

CallbackRight(c) ==
    /\ c.pc \notin {"idle", "unavailable"} => c.began <= oidcTime
    /\ InFlight(c) /\ Seen(c)

(* The cache is a document as old as its fetch may have taken.             *)
OidcInv ==
    /\ oidcTime \in Nat /\ published \subseteq Keys
    /\ since \in [Keys -> Nat] /\ \A k \in Keys : since[k] <= oidcTime
    /\ jwks \in [keys : SUBSET Keys, at : Int] /\ jwks.at <= oidcTime
    /\ ShownBy(jwks.keys, jwks.at - FetchTime)
    /\ callbacks \in [Threads -> CallbackState]
    /\ \A t \in Threads : CallbackRight(callbacks[t])

LEMMA OidcFacts ==
    /\ JwksTtl \in Nat /\ RefreshFloor \in Nat \ {0} /\ FetchTime \in Nat /\ RefreshFloor < JwksTtl
    /\ NoKid \notin Keys
BY OidcAssumption

LEMMA CallbackIs ==
    ASSUME NEW c \in CallbackState
    PROVE  /\ c.pc = "look" => c \in Looking
           /\ c.pc = "fetch" => c \in Fetching
           /\ c.pc \in {"verified", "rejected"} => c \in Decision
           /\ c.pc \notin {"idle", "unavailable"} => c.began \in Nat /\ c.kid \in Kid
BY DEF CallbackState, NoCallback, Unavailable, Looking, Fetching, Decision

LEMMA OidcInitial == OidcInit => OidcInv
<1> SUFFICES ASSUME OidcInit PROVE OidcInv
  OBVIOUS
<1>1. /\ jwks = [keys |-> {}, at |-> -JwksTtl] /\ jwks.keys = {} /\ jwks.at = -JwksTtl
      /\ since \in [Keys -> Nat] /\ \A k \in Keys : since[k] = 0
  BY DEF OidcInit, NoJwks
<1>2. jwks.at \in Int /\ jwks.at <= 0 /\ jwks.at - FetchTime <= 0
  BY <1>1, OidcFacts
<1>3. jwks \in [keys : SUBSET Keys, at : Int]
  BY <1>1, <1>2
<1>4. ShownBy(jwks.keys, jwks.at - FetchTime)
  BY <1>1, <1>2, OidcFacts DEF ShownBy
<1>5. callbacks \in [Threads -> CallbackState] /\ \A t \in Threads : CallbackRight(callbacks[t])
  BY DEF OidcInit, CallbackState, NoCallback, CallbackRight, InFlight, Seen
<1> QED
  BY <1>1, <1>2, <1>3, <1>4, <1>5 DEF OidcInv, OidcInit

(* One callback moves; time and the provider stand still.                  *)
LEMMA CallbackKeeps ==
    ASSUME OidcInv, NEW t \in Threads, NEW c \in CallbackState, CallbackRight(c),
           callbacks' = [callbacks EXCEPT ![t] = c], UNCHANGED <<oidcTime, published, since>>,
           jwks' \in [keys : SUBSET Keys, at : Int], jwks'.at <= oidcTime,
           ShownBy(jwks'.keys, jwks'.at - FetchTime)
    PROVE  OidcInv'
<1>1. /\ callbacks' \in [Threads -> CallbackState] /\ callbacks'[t] = c
      /\ \A o \in Threads \ {t} : callbacks'[o] = callbacks[o]
  BY DEF OidcInv
<1>2. \A o \in Threads : CallbackRight(callbacks'[o])
  BY <1>1 DEF OidcInv
<1>3. (\A o \in Threads : CallbackRight(callbacks[o]))'
  BY <1>2 DEF CallbackRight, InFlight, Seen, ShownBy
<1>4. ShownBy(jwks.keys, jwks.at - FetchTime)'
  BY DEF ShownBy
<1> QED
  BY <1>1, <1>3, <1>4 DEF OidcInv

(* What _key_for decides from a document that is fresh enough.             *)
LEMMA DecidedRight ==
    ASSUME OidcInv, NEW c \in Looking, c.began <= oidcTime, NEW doc \in SUBSET Keys, NEW at \in Int,
           ShownBy(doc, at), at + JwksTtl + FetchTime > c.began,
           c.force => at + RefreshFloor + FetchTime > c.began
    PROVE  Decided(c, doc) \in CallbackState /\ CallbackRight(Decided(c, doc))
<1> DEFINE d == Decided(c, doc)
<1>1. c.kid \in Kid /\ c.began \in Nat /\ c.force \in BOOLEAN
  BY DEF Looking
<1>2. \A k \in Keys : since[k] \in Nat
  BY DEF OidcInv
<1>3. CASE Finds(c.kid, doc)
  <2>1. d = [pc |-> "verified", kid |-> c.kid, began |-> c.began]
    BY <1>3 DEF Decided
  <2>2. d \in Decision /\ d.pc = "verified" /\ d.kid = c.kid /\ d.began = c.began
    BY <1>1, <2>1 DEF Decision
  <2> HIDE DEF d
  <2>3. c.kid # NoKid /\ c.kid \notin published => since[c.kid] + JwksTtl + FetchTime > c.began
    <3> SUFFICES ASSUME c.kid # NoKid, c.kid \notin published
                 PROVE  since[c.kid] + JwksTtl + FetchTime > c.began
      OBVIOUS
    <3>1. c.kid \in Keys /\ c.kid \in doc
      BY <1>1, <1>3 DEF Finds, Kid
    <3>2. since[c.kid] >= at
      BY <3>1 DEF ShownBy
    <3> QED
      BY <1>1, <1>2, <3>1, <3>2, OidcFacts
  <2>4. CallbackRight(d)
    BY <2>2, <2>3 DEF CallbackRight, InFlight, Seen
  <2>5. d \in CallbackState
    BY <2>2 DEF CallbackState
  <2> QED
    BY <2>4, <2>5 DEF d
<1>4. CASE ~Finds(c.kid, doc) /\ c.force
  <2>1. d = [pc |-> "rejected", kid |-> c.kid, began |-> c.began]
    BY <1>4 DEF Decided
  <2>2. d \in Decision /\ d.pc = "rejected" /\ d.kid = c.kid /\ d.began = c.began
    BY <1>1, <2>1 DEF Decision
  <2> HIDE DEF d
  <2>3. c.kid # NoKid /\ c.kid \in published => since[c.kid] + RefreshFloor + FetchTime > c.began
    <3> SUFFICES ASSUME c.kid # NoKid, c.kid \in published
                 PROVE  since[c.kid] + RefreshFloor + FetchTime > c.began
      OBVIOUS
    <3>1. c.kid \in Keys /\ c.kid \notin doc
      BY <1>1, <1>4 DEF Finds, Kid
    <3>2. since[c.kid] >= at
      BY <3>1 DEF ShownBy
    <3> QED
      BY <1>1, <1>2, <1>4, <3>1, <3>2, OidcFacts
  <2>4. CallbackRight(d)
    BY <2>2, <2>3 DEF CallbackRight, InFlight, Seen
  <2>5. d \in CallbackState
    BY <2>2 DEF CallbackState
  <2> QED
    BY <2>4, <2>5 DEF d
<1>5. CASE ~Finds(c.kid, doc) /\ ~c.force
  <2>1. d = [c EXCEPT !.pc = "look", !.force = TRUE]
    BY <1>5 DEF Decided
  <2>2. d \in Looking /\ d.pc = "look" /\ d.began = c.began
    BY <1>1, <2>1 DEF Looking
  <2> HIDE DEF d
  <2>3. CallbackRight(d)
    BY <2>2 DEF CallbackRight, InFlight, Seen
  <2>4. d \in CallbackState
    BY <2>2 DEF CallbackState
  <2> QED
    BY <2>3, <2>4 DEF d
<1> QED
  BY <1>3, <1>4, <1>5

LEMMA LookInCacheKeeps ==
    ASSUME OidcInv, NEW t \in Threads, LookInCache(t)
    PROVE  OidcInv'
<1> DEFINE c == callbacks[t]
           at == jwks.at - FetchTime
<1>1. c \in Looking /\ CallbackRight(c) /\ c.pc = "look"
  BY CallbackIs DEF OidcInv, LookInCache
<1>2. c.began \in Nat /\ c.began <= oidcTime
  BY <1>1 DEF Looking, CallbackRight
<1>3. /\ jwks.at \in Int /\ jwks.keys \in SUBSET Keys /\ ShownBy(jwks.keys, at) /\ oidcTime \in Nat
      /\ jwks \in [keys : SUBSET Keys, at : Int] /\ jwks.at <= oidcTime
  BY DEF OidcInv
<1>4. /\ oidcTime - jwks.at < JwksTtl /\ (c.force => oidcTime - jwks.at < RefreshFloor)
      /\ callbacks' = [callbacks EXCEPT ![t] = Decided(c, jwks.keys)]
      /\ UNCHANGED <<oidcTime, published, since, jwks>>
  BY DEF LookInCache, UsesCache, OidcInv
<1>5. /\ at \in Int /\ at + JwksTtl + FetchTime > c.began
      /\ c.force => at + RefreshFloor + FetchTime > c.began
  BY <1>2, <1>3, <1>4, OidcFacts
<1> HIDE DEF c, at
<1>6. Decided(c, jwks.keys) \in CallbackState /\ CallbackRight(Decided(c, jwks.keys))
  BY <1>1, <1>2, <1>3, <1>5, DecidedRight
<1> QED
  BY <1>3, <1>4, <1>6, CallbackKeeps DEF at

LEMMA KeepKeysKeeps ==
    ASSUME OidcInv, NEW t \in Threads, KeepKeys(t)
    PROVE  OidcInv'
<1> DEFINE f == callbacks[t]
           c == [pc |-> "look", kid |-> f.kid, force |-> f.force, began |-> f.began]
           kept == [keys |-> f.doc, at |-> oidcTime]
<1>1. f \in Fetching /\ CallbackRight(f) /\ f.pc = "fetch"
  BY CallbackIs DEF OidcInv, KeepKeys
<1>2. /\ f.began \in Nat /\ f.at \in Nat /\ f.doc \in SUBSET Keys /\ f.kid \in Kid
      /\ f.force \in BOOLEAN /\ oidcTime \in Nat
  BY <1>1 DEF Fetching, OidcInv
<1>3. /\ f.began <= f.at /\ f.at <= oidcTime /\ oidcTime <= f.at + FetchTime /\ ShownBy(f.doc, f.at)
  BY <1>1 DEF CallbackRight, InFlight
<1>4. /\ callbacks' = [callbacks EXCEPT ![t] = Decided(c, f.doc)] /\ jwks' = kept
      /\ UNCHANGED <<oidcTime, published, since>>
  BY DEF KeepKeys, OidcInv
<1>5. c \in Looking /\ c.began = f.began
  BY <1>2 DEF Looking
<1>6. kept \in [keys : SUBSET Keys, at : Int] /\ kept.keys = f.doc /\ kept.at = oidcTime
  BY <1>2
<1> HIDE DEF c, kept, f
<1>7. Decided(c, f.doc) \in CallbackState /\ CallbackRight(Decided(c, f.doc))
  <2>1. /\ f.at + JwksTtl + FetchTime > c.began /\ f.at + RefreshFloor + FetchTime > c.began
        /\ c.began <= oidcTime /\ f.at \in Int
    BY <1>2, <1>3, <1>5, OidcFacts
  <2> QED
    BY <1>2, <1>3, <1>5, <2>1, DecidedRight
<1>8. ShownBy(kept.keys, kept.at - FetchTime)
  <2>1. \A k \in Keys : since[k] \in Nat
    BY DEF OidcInv
  <2>2. \A k \in Keys : since[k] >= f.at => since[k] >= oidcTime - FetchTime
    BY <1>2, <1>3, <2>1, OidcFacts
  <2> QED
    BY <1>3, <1>6, <2>2 DEF ShownBy
<1>9. kept.at <= oidcTime
  BY <1>2, <1>6
<1> QED
  BY <1>4, <1>6, <1>7, <1>8, <1>9, CallbackKeeps

(* A callback that starts, fetches, fails or is answered.                  *)
LEMMA OtherCallbackKeeps ==
    ASSUME OidcInv, NEW t \in Threads,
           \/ \E kid \in Keys \cup {NoKid} : Callback(t, kid)
           \/ StartFetch(t) \/ FetchFails(t) \/ CallbackAnswered(t)
    PROVE  OidcInv'
<1>1. /\ jwks \in [keys : SUBSET Keys, at : Int] /\ jwks.at <= oidcTime /\ oidcTime \in Nat
      /\ ShownBy(jwks.keys, jwks.at - FetchTime) /\ published \in SUBSET Keys
  BY DEF OidcInv
<1>2. ASSUME NEW c \in CallbackState, CallbackRight(c), callbacks' = [callbacks EXCEPT ![t] = c],
             UNCHANGED <<oidcTime, published, since, jwks>>
      PROVE  OidcInv'
  BY <1>1, <1>2, CallbackKeeps
<1>3. ASSUME NEW kid \in Keys \cup {NoKid}, Callback(t, kid)
      PROVE  OidcInv'
  <2> DEFINE c == [pc |-> "look", kid |-> kid, force |-> FALSE, began |-> oidcTime]
  <2>1. c \in Looking /\ c.pc = "look" /\ c.began = oidcTime
    BY <1>1 DEF Looking, Kid
  <2>2. callbacks' = [callbacks EXCEPT ![t] = c] /\ UNCHANGED <<oidcTime, published, since, jwks>>
    BY <1>3 DEF Callback
  <2> HIDE DEF c
  <2>3. c \in CallbackState /\ CallbackRight(c)
    BY <1>1, <2>1 DEF CallbackState, CallbackRight, InFlight, Seen
  <2> QED
    BY <1>2, <2>2, <2>3
<1>4. CASE StartFetch(t)
  <2> DEFINE l == callbacks[t]
             c == [pc |-> "fetch", kid |-> l.kid, force |-> l.force, began |-> l.began,
                   doc |-> published, at |-> oidcTime]
  <2>1. l \in Looking /\ CallbackRight(l) /\ l.pc = "look"
    BY <1>4, CallbackIs DEF OidcInv, StartFetch
  <2>2. l.began <= oidcTime
    BY <2>1 DEF CallbackRight
  <2>3. /\ c \in Fetching /\ c.pc = "fetch" /\ c.began <= oidcTime /\ c.at = oidcTime
        /\ c.doc = published
    BY <1>1, <2>1, <2>2 DEF Looking, Fetching
  <2>4. callbacks' = [callbacks EXCEPT ![t] = c] /\ UNCHANGED <<oidcTime, published, since, jwks>>
    BY <1>4 DEF StartFetch, OidcInv
  <2> HIDE DEF c
  <2>5. ShownBy(published, oidcTime)
    BY DEF ShownBy
  <2>6. c \in CallbackState /\ CallbackRight(c)
    BY <1>1, <2>3, <2>5, OidcFacts DEF CallbackState, CallbackRight, InFlight, Seen
  <2> QED
    BY <1>2, <2>4, <2>6
<1>5. CASE FetchFails(t) \/ CallbackAnswered(t)
  <2>1. /\ Unavailable \in CallbackState /\ CallbackRight(Unavailable)
        /\ NoCallback \in CallbackState /\ CallbackRight(NoCallback)
    BY DEF CallbackState, CallbackRight, InFlight, Seen, Unavailable, NoCallback
  <2> QED
    BY <1>2, <1>5, <2>1 DEF FetchFails, CallbackAnswered, Unavailable
<1> QED
  BY <1>3, <1>4, <1>5

LEMMA RotateKeeps ==
    ASSUME OidcInv, NEW k \in Keys, Rotate(k)
    PROVE  OidcInv'
<1>1. /\ published' = (published \ {k}) \cup ({k} \ published)
      /\ since' = [since EXCEPT ![k] = oidcTime] /\ UNCHANGED <<oidcTime, jwks, callbacks>>
      /\ since \in [Keys -> Nat] /\ oidcTime \in Nat /\ published \subseteq Keys
  BY DEF Rotate, OidcInv
<1>2. /\ since' \in [Keys -> Nat] /\ since'[k] = oidcTime /\ published' \subseteq Keys
      /\ \A j \in Keys \ {k} : since'[j] = since[j] /\ (j \in published' <=> j \in published)
  BY <1>1
<1>3. ASSUME NEW doc, NEW at \in Int, at <= oidcTime, ShownBy(doc, at)
      PROVE  \A j \in Keys : (j \in doc /\ j \notin published') \/ (j \notin doc /\ j \in published')
                                 => since'[j] >= at
  BY <1>1, <1>2, <1>3 DEF ShownBy
<1>4. ShownBy(jwks.keys, jwks.at - FetchTime)'
  <2>1. jwks.at \in Int /\ jwks.at - FetchTime \in Int /\ jwks.at - FetchTime <= oidcTime
    BY <1>1, OidcFacts DEF OidcInv
  <2> QED
    BY <1>1, <1>3, <2>1 DEF ShownBy, OidcInv
<1>5. ASSUME NEW t \in Threads
      PROVE  CallbackRight(callbacks[t])'
  <2> DEFINE c == callbacks[t]
  <2>1. c \in CallbackState /\ CallbackRight(c)
    BY DEF OidcInv
  <2>2. c' = c
    BY <1>1
  <2> HIDE DEF c
  <2>3. InFlight(c)'
    <3> SUFFICES ASSUME c.pc = "fetch"
                 PROVE  /\ c.began <= c.at /\ c.at <= oidcTime /\ oidcTime <= c.at + FetchTime
                        /\ ShownBy(c.doc, c.at)'
      BY <1>1, <2>2 DEF InFlight
    <3>1. c.at \in Nat
      BY <2>1, CallbackIs DEF Fetching
    <3> QED
      BY <1>3, <2>1, <2>2, <3>1 DEF CallbackRight, InFlight, ShownBy
  <2>4. Seen(c)'
    <3> SUFFICES ASSUME c.pc \in {"rejected", "verified"}, c.kid # NoKid
                 PROVE  Seen(c)'
      BY <2>2 DEF Seen
    <3>1. c.kid \in Keys /\ c.began \in Nat /\ c.began <= oidcTime
      BY <2>1, CallbackIs DEF CallbackRight, Kid
    <3>2. CASE c.kid = k
      <4>1. since'[c.kid] + RefreshFloor + FetchTime > c.began /\ since'[c.kid] + JwksTtl + FetchTime > c.began
        BY <1>1, <1>2, <3>1, <3>2, OidcFacts
      <4> QED
        BY <2>2, <4>1 DEF Seen
    <3>3. CASE c.kid # k
      BY <1>2, <2>1, <2>2, <3>1, <3>3 DEF CallbackRight, Seen
    <3> QED
      BY <3>2, <3>3
  <2> QED
    BY <1>1, <2>1, <2>2, <2>3, <2>4 DEF CallbackRight, c
<1>6. \A j \in Keys : since'[j] <= oidcTime'
  BY <1>1, <1>2 DEF OidcInv
<1> QED
  BY <1>1, <1>2, <1>4, <1>5, <1>6 DEF OidcInv

LEMMA OidcClockKeeps ==
    ASSUME OidcInv, OidcClock
    PROVE  OidcInv'
<1>1. /\ oidcTime' = oidcTime + 1 /\ UNCHANGED <<published, since, jwks, callbacks>>
      /\ oidcTime \in Nat /\ jwks.at \in Int /\ since \in [Keys -> Nat]
      /\ \A t \in Threads : callbacks[t].pc = "fetch" => oidcTime < callbacks[t].at + FetchTime
  BY DEF OidcClock, OidcInv
<1>2. ShownBy(jwks.keys, jwks.at - FetchTime)'
  BY <1>1 DEF ShownBy, OidcInv
<1>3. ASSUME NEW t \in Threads
      PROVE  CallbackRight(callbacks[t])'
  <2> DEFINE c == callbacks[t]
  <2>1. c \in CallbackState /\ CallbackRight(c)
    BY DEF OidcInv
  <2>2. c' = c
    BY <1>1
  <2>3. c.pc = "fetch" => oidcTime < c.at + FetchTime
    BY <1>1
  <2> HIDE DEF c
  <2>4. InFlight(c)'
    <3> SUFFICES ASSUME c.pc = "fetch"
                 PROVE  /\ c.began <= c.at /\ c.at <= oidcTime' /\ oidcTime' <= c.at + FetchTime
                        /\ ShownBy(c.doc, c.at)'
      BY <2>2 DEF InFlight
    <3>1. c.at \in Nat
      BY <2>1, CallbackIs DEF Fetching
    <3>2. ShownBy(c.doc, c.at)'
      BY <1>1, <2>1, <2>2 DEF CallbackRight, InFlight, ShownBy
    <3> QED
      BY <1>1, <2>1, <2>3, <3>1, <3>2, OidcFacts DEF CallbackRight, InFlight
  <2>5. Seen(c)'
    BY <1>1, <2>1, <2>2 DEF CallbackRight, Seen
  <2>6. c.pc \notin {"idle", "unavailable"} => c.began <= oidcTime'
    BY <1>1, <2>1, CallbackIs DEF CallbackRight
  <2> QED
    BY <2>2, <2>4, <2>5, <2>6 DEF CallbackRight, c
<1>4. /\ jwks.at <= oidcTime' /\ oidcTime' \in Nat /\ \A k \in Keys : since[k] <= oidcTime'
  BY <1>1 DEF OidcInv
<1> QED
  BY <1>1, <1>2, <1>3, <1>4 DEF OidcInv

LEMMA OidcStep ==
    ASSUME OidcInv, OidcNext
    PROVE  OidcInv'
BY LookInCacheKeeps, KeepKeysKeeps, OtherCallbackKeeps, RotateKeeps, OidcClockKeeps DEF OidcNext
-----------------------------------------------------------------------------
(* What a demand is: the path is classified, and the capability is one     *)
(* that exactly the roles of its path have.                                *)
LEMMA RouteRoles ==
    ASSUME NEW path
    PROVE  /\ path \in EveryRolePaths => RouteMatrix(path) = Role
           /\ path \in AnalystPaths => RouteMatrix(path) = Role \ {"viewer"}
           /\ path \in ResponderPaths => RouteMatrix(path) = {"responder", "admin"}
           /\ path \in AdminPaths => RouteMatrix(path) = {"admin"}
<1>1. path \in AnalystPaths => path \notin EveryRolePaths
  BY DEF EveryRolePaths, AnalystPaths
<1>2. path \in ResponderPaths => path \notin EveryRolePaths \cup AnalystPaths
  BY DEF EveryRolePaths, AnalystPaths, ResponderPaths
<1>3. path \in AdminPaths => path \notin EveryRolePaths \cup AnalystPaths \cup ResponderPaths
  BY DEF EveryRolePaths, AnalystPaths, ResponderPaths, AdminPaths
<1> QED
  BY <1>1, <1>2, <1>3 DEF RouteMatrix

Fits(d) ==
    \/ d[2] \in EveryRolePaths /\ d[3] = "read"
    \/ d[2] \in AnalystPaths /\ d[3] \in {"ingest", "verdict"}
    \/ d[2] \in ResponderPaths /\ d[3] \in {"export", "webhook_config"}
    \/ d[2] \in AdminPaths /\ d[3] \in {"retention", "models", "users", "api_keys"}

LEMMA DemandFits == \A d \in Demand : Fits(d)
<1>1. \A path \in EveryRolePaths : Fits(<<"GET", path, "read">>)
  BY DEF Fits
<1>2. \A path \in {"users", "users/roles"} : Fits(<<"GET", path, "users">>)
  BY DEF Fits, AdminPaths
<1>3. \A m \in {"GET", "POST"}, path \in {"webhooks"} : Fits(<<m, path, "webhook_config">>)
  BY DEF Fits, ResponderPaths
<1>4. /\ Fits(<<"POST", "ingest/flows", "ingest">>) /\ Fits(<<"POST", "ingest/logs", "ingest">>)
      /\ Fits(<<"POST", "capture/heartbeat", "ingest">>)
      /\ Fits(<<"POST", "alerts/{}/verdict", "verdict">>)
  BY DEF Fits, AnalystPaths
<1>5. /\ Fits(<<"POST", "hunt/export", "export">>) /\ Fits(<<"POST", "alerts/export", "export">>)
      /\ Fits(<<"GET", "webhooks/deliveries", "webhook_config">>)
      /\ Fits(<<"POST", "webhooks/{}/test", "webhook_config">>)
      /\ Fits(<<"DELETE", "webhooks/{}", "webhook_config">>)
  BY DEF Fits, ResponderPaths
<1>6. /\ Fits(<<"GET", "retention", "retention">>) /\ Fits(<<"POST", "retention/run", "retention">>)
      /\ Fits(<<"POST", "privacy/erasure", "retention">>)
      /\ Fits(<<"GET", "privacy/erasures", "retention">>)
      /\ Fits(<<"POST", "models/{}/promote", "models">>)
      /\ Fits(<<"POST", "models/{}/rollback", "models">>)
      /\ Fits(<<"POST", "thresholds/recalibrate", "models">>)
      /\ Fits(<<"PUT", "thresholds/{}/{}", "models">>)
  BY DEF Fits, AdminPaths
<1>7. /\ Fits(<<"POST", "users/{}/role", "users">>) /\ Fits(<<"GET", "keys", "api_keys">>)
      /\ Fits(<<"POST", "keys", "api_keys">>) /\ Fits(<<"GET", "keys/scopes", "api_keys">>)
      /\ Fits(<<"DELETE", "keys/{}", "api_keys">>)
  BY DEF Fits, AdminPaths
<1> DEFINE Posted ==
              {<<"POST", "ingest/flows", "ingest">>, <<"POST", "ingest/logs", "ingest">>,
               <<"POST", "capture/heartbeat", "ingest">>, <<"POST", "alerts/{}/verdict", "verdict">>,
               <<"POST", "hunt/export", "export">>, <<"POST", "alerts/export", "export">>,
               <<"GET", "retention", "retention">>, <<"POST", "retention/run", "retention">>,
               <<"POST", "privacy/erasure", "retention">>, <<"GET", "privacy/erasures", "retention">>,
               <<"POST", "models/{}/promote", "models">>, <<"POST", "models/{}/rollback", "models">>,
               <<"POST", "thresholds/recalibrate", "models">>, <<"PUT", "thresholds/{}/{}", "models">>,
               <<"POST", "users/{}/role", "users">>}
           Read == {<<"GET", path, "read">> : path \in EveryRolePaths}
           UserReads == {<<"GET", path, "users">> : path \in {"users", "users/roles"}}
           Hooks == {<<m, path, "webhook_config">> : m \in {"GET", "POST"}, path \in {"webhooks"}}
           Hook == {<<"GET", "webhooks/deliveries", "webhook_config">>,
                    <<"POST", "webhooks/{}/test", "webhook_config">>,
                    <<"DELETE", "webhooks/{}", "webhook_config">>}
           KeyDemand == {<<"GET", "keys", "api_keys">>, <<"POST", "keys", "api_keys">>,
                         <<"GET", "keys/scopes", "api_keys">>, <<"DELETE", "keys/{}", "api_keys">>}
<1>8. \A d \in Posted : Fits(d)
  BY <1>4, <1>5, <1>6, <1>7
<1>9. \A d \in Hook \cup KeyDemand : Fits(d)
  BY <1>5, <1>7
<1>10. \A d \in Read : Fits(d)
  BY <1>1
<1>11. \A d \in UserReads : Fits(d)
  BY <1>2
<1>12. \A d \in Hooks : Fits(d)
  BY <1>3
<1>13. Demand = Posted \cup Read \cup UserReads \cup Hooks \cup Hook \cup KeyDemand
  BY DEF Demand
<1> HIDE DEF Posted, Read, UserReads, Hooks, Hook, KeyDemand
<1> QED
  BY <1>8, <1>9, <1>10, <1>11, <1>12, <1>13

LEMMA WhoCan ==
    /\ \A role \in Role : "read" \in RoleCapabilities[role]
    /\ \A c \in {"ingest", "verdict"}, role \in Role : c \in RoleCapabilities[role] <=> role # "viewer"
    /\ \A c \in {"export", "webhook_config"}, role \in Role :
           c \in RoleCapabilities[role] <=> role \in {"responder", "admin"}
    /\ \A c \in {"retention", "models", "users", "api_keys"}, role \in Role :
           c \in RoleCapabilities[role] <=> role = "admin"
BY DEF Role, RoleCapabilities, Capability

LEMMA DemandMatchesMatrix ==
    ASSUME NEW d \in Demand, NEW role
    PROVE  role \in Role /\ d[3] \in RoleCapabilities[role] <=> role \in RouteMatrix(d[2])
<1>1. CASE d[2] \in EveryRolePaths /\ d[3] = "read"
  BY <1>1, RouteRoles, WhoCan
<1>2. CASE d[2] \in AnalystPaths /\ d[3] \in {"ingest", "verdict"}
  BY <1>2, RouteRoles, WhoCan
<1>3. CASE d[2] \in ResponderPaths /\ d[3] \in {"export", "webhook_config"}
  BY <1>3, RouteRoles, WhoCan DEF Role
<1>4. CASE d[2] \in AdminPaths /\ d[3] \in {"retention", "models", "users", "api_keys"}
  BY <1>4, RouteRoles, WhoCan DEF Role
<1> QED
  BY <1>1, <1>2, <1>3, <1>4, DemandFits DEF Fits

(* A key route demands what its scope grants and no other scope does, and  *)
(* every role of the route has it.                                         *)
LEMMA KeyRoutes ==
    ASSUME NEW d \in Demand, <<d[1], d[2]>> \in DOMAIN KeyRouteScope,
           NEW scopes \in SUBSET DOMAIN ScopeCapabilities,
           d[3] \in UNION {ScopeCapabilities[s] : s \in scopes}
    PROVE  /\ ScopeCapabilities[KeyRouteScope[<<d[1], d[2]>>]] \subseteq Classify(d[2])
           /\ KeyRouteScope[<<d[1], d[2]>>] \in scopes
<1>1. /\ DOMAIN ScopeCapabilities = {"ingest_write", "alerts_read"}
      /\ ScopeCapabilities["ingest_write"] = {"ingest"} /\ ScopeCapabilities["alerts_read"] = {"read"}
  BY DEF ScopeCapabilities
<1>2. <<d[1], d[2]>> \in {<<"POST", "ingest/flows">>, <<"POST", "ingest/logs">>, <<"GET", "alerts">>}
  BY DEF KeyRouteScope
<1>3. CASE d[2] \in {"ingest/flows", "ingest/logs"}
  <2>1. d[1] = "POST" /\ KeyRouteScope[<<d[1], d[2]>>] = "ingest_write"
    BY <1>2, <1>3 DEF KeyRouteScope
  <2>2. d[2] \in AnalystPaths /\ RouteMatrix(d[2]) = Role \ {"viewer"}
    BY <1>3, RouteRoles DEF AnalystPaths
  <2>3. d[3] \in {"ingest", "verdict"}
    BY <2>2, DemandFits DEF Fits, AnalystPaths, EveryRolePaths, ResponderPaths, AdminPaths
  <2>4. "ingest_write" \in scopes
    BY <1>1, <2>3
  <2>5. "ingest" \in Classify(d[2])
    BY <2>2, WhoCan DEF Classify, Capability
  <2> QED
    BY <1>1, <2>1, <2>4, <2>5
<1>4. CASE d[2] = "alerts"
  <2>1. d[1] = "GET" /\ KeyRouteScope[<<d[1], d[2]>>] = "alerts_read"
    BY <1>2, <1>4 DEF KeyRouteScope
  <2>2. d[2] \in EveryRolePaths /\ RouteMatrix(d[2]) = Role
    BY <1>4, RouteRoles DEF EveryRolePaths
  <2>3. d[3] = "read"
    BY <2>2, DemandFits DEF Fits, AnalystPaths, EveryRolePaths, ResponderPaths, AdminPaths
  <2>4. "alerts_read" \in scopes
    BY <1>1, <2>3
  <2>5. "read" \in Classify(d[2])
    BY <2>2, WhoCan DEF Classify, Capability
  <2> QED
    BY <1>1, <2>1, <2>4, <2>5
<1> QED
  BY <1>2, <1>3, <1>4

(* The answer is the one the route gives to what was asked.                *)
RbacInv ==
    asked # <<>> => \E d \in Demand, h \in Headers :
        asked = <<d[1], d[2], h>> /\ answer = Answer(d[1], d[2], d[3], h)

LEMMA RbacStep == RbacInv /\ Require => RbacInv'
BY DEF RbacInv, Require

LEMMA BearerAnswer ==
    ASSUME NEW d \in Demand, NEW token, token.is = "access"
    PROVE  LET a == AuthenticateBearer(token, d[3]) IN
           /\ a.is = "granted" <=> token.role \in RouteMatrix(d[2])
           /\ a.is = "granted" => a.caller.kind = "user" /\ a.caller.role = token.role
<1> DEFINE caller == [kind |-> "user", role |-> token.role]
<1>1. CapabilitiesOf(caller) = RoleCapabilities[token.role]
  BY DEF CapabilitiesOf
<1>2. token.role \in Role /\ d[3] \in RoleCapabilities[token.role] <=> token.role \in RouteMatrix(d[2])
  BY DemandMatchesMatrix
<1> QED
  BY <1>1, <1>2 DEF AuthenticateBearer, Refused, Granted

LEMMA MatrixHolds ==
    ASSUME RbacInv
    PROVE  MatrixIsEnforced
<1> SUFFICES ASSUME NEW d \in Demand, NEW h \in Headers,
                    asked = <<d[1], d[2], h>>, answer = Answer(d[1], d[2], d[3], h)
             PROVE  MatrixIsEnforced
  BY DEF RbacInv, MatrixIsEnforced
<1> DEFINE granted == answer.is = "granted"
<1>0. asked[1] = d[1] /\ asked[2] = d[2] /\ asked[3] = h
  OBVIOUS
<1>4. CASE d[2] \in SocketPaths
  <2> DEFINE token == SocketToken(h)
  <2>1. GoesBy(asked[2], asked[3]) = token /\ answer = AuthenticateBearer(token, d[3])
    BY <1>0, <1>4 DEF Answer, GoesBy
  <2>2. CASE token.is = "access"
    BY <1>0, <1>4, <2>1, <2>2, BearerAnswer DEF MatrixIsEnforced
  <2>3. CASE token.is # "access"
    BY <1>0, <1>4, <2>1, <2>3 DEF AuthenticateBearer, Refused, MatrixIsEnforced
  <2> QED
    BY <2>2, <2>3
<1>5. ASSUME d[2] \notin SocketPaths
      PROVE  /\ GoesBy(asked[2], asked[3]) = h.authorization
             /\ answer = AuthenticateRequest(d[1], d[2], d[3], h)
  BY <1>0, <1>5 DEF Answer, GoesBy
<1>1. CASE d[2] \notin SocketPaths /\ Ambiguous(h)
  BY <1>0, <1>1, <1>5 DEF AuthenticateRequest, Refused, MatrixIsEnforced
<1>2. CASE d[2] \notin SocketPaths /\ ~Ambiguous(h) /\ Presented(h) = NoHeaderKey
  <2>1. answer = AuthenticateBearer(h.authorization, d[3])
    BY <1>2, <1>5 DEF AuthenticateRequest
  <2>2. CASE h.authorization.is = "access"
    BY <1>0, <1>2, <1>5, <2>1, <2>2, BearerAnswer DEF MatrixIsEnforced
  <2>3. CASE h.authorization.is # "access"
    BY <1>0, <1>2, <1>5, <2>1, <2>3 DEF AuthenticateBearer, Refused, MatrixIsEnforced
  <2> QED
    BY <2>2, <2>3
<1>3. CASE d[2] \notin SocketPaths /\ ~Ambiguous(h) /\ Presented(h) # NoHeaderKey
  <2> DEFINE key == Presented(h)
             caller == [kind |-> "api_key", scopes |-> key.scopes]
  <2>1. answer = KeyAnswer(d[1], d[2], d[3], key)
    BY <1>3, <1>5 DEF AuthenticateRequest
  <2>2. key \in KeyPresented /\ h.authorization.is # "access"
    BY <1>3, RbacAssumption
       DEF Presented, Ambiguous, NoAuthorization, OtherToken, KeyBearer
  <2>3. CASE ~granted
    BY <1>0, <1>3, <1>5, <2>2, <2>3 DEF MatrixIsEnforced
  <2>4. CASE granted
    <3>1. /\ <<d[1], d[2]>> \in DOMAIN KeyRouteScope
          /\ answer = Granted(caller) /\ d[3] \in CapabilitiesOf(caller)
      BY <2>1, <2>4 DEF KeyAnswer, Refused, Granted
    <3>2. answer.caller = caller /\ key.scopes \in SUBSET DOMAIN ScopeCapabilities
      BY <2>2, <3>1 DEF Granted, KeyPresented
    <3>3. d[3] \in UNION {ScopeCapabilities[s] : s \in key.scopes}
      BY <3>1 DEF CapabilitiesOf
    <3>4. /\ ScopeCapabilities[KeyRouteScope[<<d[1], d[2]>>]] \subseteq Classify(d[2])
          /\ KeyRouteScope[<<d[1], d[2]>>] \in key.scopes
      BY <3>1, <3>2, <3>3, KeyRoutes
    <3> QED
      BY <1>0, <1>3, <1>5, <2>2, <3>1, <3>2, <3>4 DEF MatrixIsEnforced
  <2> QED
    BY <2>3, <2>4
<1> QED
  BY <1>1, <1>2, <1>3, <1>4
-----------------------------------------------------------------------------
OnePerKey(s) == \A i, j \in DOMAIN s : s[i].key = s[j].key => i = j

LEMMA CountIs ==
    ASSUME NEW s \in Seq(Entry), OnePerKey(s), NEW k
    PROVE  /\ CountIn(s, k) \in Nat
           /\ \A i \in DOMAIN s : s[i].key = k => CountIn(s, k) = s[i].count
           /\ (\A i \in DOMAIN s : s[i].key # k) => CountIn(s, k) = 0
<1>1. \A i \in DOMAIN s : s[i] \in Entry
  BY LenProperties, ElementOfSeq
<1>2. CASE Held(s, k) = {}
  BY <1>2 DEF CountIn, Held
<1>3. CASE Held(s, k) # {}
  <2>1. TheOne(Held(s, k)) \in Held(s, k)
    BY <1>3 DEF TheOne
  <2>2. PICK i \in DOMAIN s : i = TheOne(Held(s, k)) /\ s[i].key = k
    BY <2>1 DEF Held
  <2>3. CountIn(s, k) = s[i].count
    BY <1>3, <2>2 DEF CountIn
  <2> QED
    BY <1>1, <2>2, <2>3 DEF OnePerKey, Entry
<1> QED
  BY <1>2, <1>3

(* A list whose entries are among another's counts no more than it.        *)
LEMMA CountsNoMore ==
    ASSUME NEW s \in Seq(Entry), NEW t \in Seq(Entry), OnePerKey(s), OnePerKey(t), NEW k,
           \A i \in DOMAIN t : t[i].key = k => \E j \in DOMAIN s : s[j] = t[i]
    PROVE  CountIn(t, k) <= CountIn(s, k)
<1>1. CASE \E i \in DOMAIN t : t[i].key = k
  <2>1. PICK i \in DOMAIN t : t[i].key = k
    BY <1>1
  <2>2. PICK j \in DOMAIN s : s[j] = t[i]
    BY <2>1
  <2>3. CountIn(t, k) = t[i].count /\ CountIn(s, k) = s[j].count
    BY <2>1, <2>2, CountIs
  <2> QED
    BY <2>2, <2>3, CountIs
<1>2. CASE \A i \in DOMAIN t : t[i].key # k
  <2>1. CountIn(t, k) = 0 /\ CountIn(s, k) \in Nat
    BY <1>2, CountIs
  <2> QED
    BY <2>1
<1> QED
  BY <1>1, <1>2

LEMMA RemoveAtIs ==
    ASSUME NEW S, NEW s \in Seq(S), NEW i \in 1..Len(s)
    PROVE  /\ RemoveAt(s, i) \in Seq(S) /\ Len(RemoveAt(s, i)) = Len(s) - 1
           /\ \A j \in 1..(Len(s) - 1) : RemoveAt(s, i)[j] = IF j < i THEN s[j] ELSE s[j + 1]
<1> DEFINE front == SubSeq(s, 1, i - 1)
           back == SubSeq(s, i + 1, Len(s))
<1>1. Len(s) \in Nat /\ i \in Nat \ {0} /\ i <= Len(s) /\ \A j \in 1..Len(s) : s[j] \in S
  BY LenProperties, ElementOfSeq
<1>2. front \in Seq(S) /\ Len(front) = i - 1 /\ \A j \in 1..(i - 1) : front[j] = s[j]
  BY <1>1, SubSeqProperties
<1>3. /\ back \in Seq(S) /\ Len(back) = Len(s) - i
      /\ \A j \in 1..(Len(s) - i) : back[j] = s[i + j]
  BY <1>1, SubSeqProperties
<1> HIDE DEF front, back
<1>4. /\ front \o back \in Seq(S) /\ Len(front \o back) = Len(s) - 1
      /\ \A j \in 1..(Len(s) - 1) : (front \o back)[j] = IF j < i THEN s[j] ELSE s[j + 1]
  <2>1. /\ front \o back \in Seq(S) /\ Len(front \o back) = Len(front) + Len(back)
        /\ \A j \in 1..(Len(front) + Len(back)) :
              (front \o back)[j] = IF j <= Len(front) THEN front[j] ELSE back[j - Len(front)]
    BY <1>2, <1>3, ConcatProperties
  <2>2. Len(front) + Len(back) = Len(s) - 1
    BY <1>1, <1>2, <1>3
  <2>3. ASSUME NEW j \in 1..(Len(s) - 1)
        PROVE  (front \o back)[j] = IF j < i THEN s[j] ELSE s[j + 1]
    <3>1. (front \o back)[j] = IF j <= i - 1 THEN front[j] ELSE back[j - (i - 1)]
      BY <1>2, <2>1, <2>2
    <3>2. CASE j < i
      BY <1>1, <1>2, <3>1, <3>2
    <3>3. CASE ~(j < i)
      <4>1. j - (i - 1) \in 1..(Len(s) - i) /\ i + (j - (i - 1)) = j + 1
        BY <1>1, <3>3
      <4>2. (front \o back)[j] = back[j - (i - 1)]
        BY <1>1, <3>1, <3>3
      <4> QED
        BY <1>3, <3>3, <4>1, <4>2
    <3> QED
      BY <3>2, <3>3
  <2> QED
    BY <2>1, <2>2, <2>3
<1> QED
  BY <1>4 DEF RemoveAt, front, back

LEMMA WithoutIs ==
    ASSUME NEW s \in Seq(Entry), OnePerKey(s), NEW k
    PROVE  /\ Without(s, k) \in Seq(Entry) /\ OnePerKey(Without(s, k))
           /\ Len(Without(s, k)) <= Len(s)
           /\ \A i \in DOMAIN Without(s, k) : Without(s, k)[i].key # k
           /\ \A j : CountIn(Without(s, k), j) <= CountIn(s, j)
<1> DEFINE w == Without(s, k)
<1>1. Len(s) \in Nat /\ DOMAIN s = 1..Len(s)
  BY LenProperties
<1>2. CASE Held(s, k) = {}
  <2>1. w = s /\ \A i \in DOMAIN s : s[i].key # k
    BY <1>2 DEF Without, Held
  <2>2. \A j : CountIn(s, j) <= CountIn(s, j)
    <3> SUFFICES ASSUME NEW j PROVE CountIn(s, j) <= CountIn(s, j)
      OBVIOUS
    <3>1. CountIn(s, j) \in Nat
      BY CountIs
    <3> QED
      BY <3>1
  <2> HIDE DEF w
  <2>3. /\ w \in Seq(Entry) /\ OnePerKey(w) /\ Len(w) <= Len(s) /\ \A i \in DOMAIN w : w[i].key # k
    BY <1>1, <2>1
  <2>4. \A j : CountIn(w, j) <= CountIn(s, j)
    BY <2>1, <2>2
  <2> QED
    BY <2>3, <2>4 DEF w
<1>3. CASE Held(s, k) # {}
  <2>1. TheOne(Held(s, k)) \in Held(s, k)
    BY <1>3 DEF TheOne
  <2>2. PICK i \in 1..Len(s) : i = TheOne(Held(s, k)) /\ s[i].key = k
    BY <1>1, <2>1 DEF Held
  <2>3. w = RemoveAt(s, i)
    BY <1>3, <2>2 DEF Without
  <2> HIDE DEF w
  <2>4. /\ w \in Seq(Entry) /\ Len(w) = Len(s) - 1 /\ DOMAIN w = 1..(Len(s) - 1)
        /\ \A j \in 1..(Len(s) - 1) : w[j] = IF j < i THEN s[j] ELSE s[j + 1]
    BY <2>3, RemoveAtIs, LenProperties
  <2> DEFINE was(j) == IF j < i THEN j ELSE j + 1
  <2>5a. \A j \in DOMAIN w : was(j) \in DOMAIN s /\ was(j) # i /\ w[j] = s[was(j)]
    BY <1>1, <2>4
  <2>5b. \A j, m \in DOMAIN w : was(j) = was(m) => j = m
    BY <1>1, <2>4
  <2> HIDE DEF was
  <2>5. OnePerKey(w) /\ \A j \in DOMAIN w : w[j].key # k
    BY <1>1, <2>2, <2>5a, <2>5b DEF OnePerKey
  <2>6. \A j \in DOMAIN w : \E m \in DOMAIN s : s[m] = w[j]
    BY <1>1, <2>4
  <2>7. \A j : CountIn(w, j) <= CountIn(s, j)
    BY <2>4, <2>5, <2>6, CountsNoMore
  <2> QED
    BY <1>1, <2>4, <2>5, <2>7 DEF w
<1> QED
  BY <1>2, <1>3

(* One failure more for the key, no more for any other.                    *)
LEMMA CountedIs ==
    ASSUME NEW s \in Seq(Entry), OnePerKey(s), NEW k \in ThrottleKeys
    PROVE  /\ Counted(s, k) \in Seq(Entry) /\ OnePerKey(Counted(s, k))
           /\ Len(Counted(s, k)) <= Len(s) + 1 /\ Counted(s, k) # <<>>
           /\ CountIn(Counted(s, k), k) = CountIn(s, k) + 1
           /\ \A j : j # k => CountIn(Counted(s, k), j) <= CountIn(s, j)
<1> DEFINE w == Without(s, k)
           e == [key |-> k, count |-> CountIn(s, k) + 1]
           c == Append(w, e)
<1>1. /\ w \in Seq(Entry) /\ OnePerKey(w) /\ Len(w) <= Len(s) /\ Len(s) \in Nat
      /\ \A i \in DOMAIN w : w[i].key # k
      /\ \A j : CountIn(w, j) <= CountIn(s, j)
  BY WithoutIs, LenProperties
<1>2. CountIn(s, k) \in Nat
  BY CountIs
<1>3. e \in Entry /\ e.key = k /\ e.count = CountIn(s, k) + 1
  BY <1>2 DEF Entry
<1> HIDE DEF w, e
<1>4. /\ c \in Seq(Entry) /\ Len(c) = Len(w) + 1 /\ Len(w) \in Nat
      /\ DOMAIN c = 1..(Len(w) + 1) /\ DOMAIN w = 1..Len(w) /\ c[Len(w) + 1] = e
      /\ \A i \in 1..Len(w) : c[i] = w[i]
  BY <1>1, <1>3, AppendProperties, LenProperties
<1> HIDE DEF c
<1>5. OnePerKey(c)
  BY <1>1, <1>3, <1>4 DEF OnePerKey
<1>6. CountIn(c, k) = CountIn(s, k) + 1
  BY <1>3, <1>4, <1>5, CountIs
<1>7. ASSUME NEW j, j # k
      PROVE  CountIn(c, j) <= CountIn(s, j)
  <2>1. \A i \in DOMAIN c : c[i].key = j => \E m \in DOMAIN w : w[m] = c[i]
    BY <1>3, <1>4, <1>7
  <2>2. CountIn(c, j) <= CountIn(w, j)
    BY <1>1, <1>4, <1>5, <2>1, CountsNoMore
  <2>3. CountIn(c, j) \in Nat /\ CountIn(w, j) \in Nat /\ CountIn(s, j) \in Nat
    BY <1>1, <1>4, <1>5, CountIs
  <2> QED
    BY <1>1, <2>2, <2>3
<1>8. Counted(s, k) = c
  BY DEF Counted, c, e, w
<1>9. Len(c) <= Len(s) + 1 /\ c # <<>>
  BY <1>1, <1>4, EmptySeq
<1> QED
  BY <1>4, <1>5, <1>6, <1>7, <1>8, <1>9

LEMMA LocalAddIs ==
    ASSUME NEW s \in Seq(Entry), OnePerKey(s), Len(s) <= LocalMaxKeys, NEW k \in ThrottleKeys
    PROVE  /\ LocalAdd(s, k) \in Seq(Entry) /\ OnePerKey(LocalAdd(s, k))
           /\ Len(LocalAdd(s, k)) <= LocalMaxKeys
           /\ CountIn(LocalAdd(s, k), k) <= CountIn(s, k) + 1
           /\ \A j : j # k => CountIn(LocalAdd(s, k), j) <= CountIn(s, j)
<1> DEFINE c == Counted(s, k)
           r == LocalAdd(s, k)
<1>1. /\ c \in Seq(Entry) /\ OnePerKey(c) /\ Len(c) <= Len(s) + 1 /\ c # <<>>
      /\ CountIn(c, k) = CountIn(s, k) + 1
      /\ \A j : j # k => CountIn(c, j) <= CountIn(s, j)
      /\ Len(c) \in Nat /\ Len(s) \in Nat /\ LocalMaxKeys \in Nat /\ DOMAIN c = 1..Len(c)
  BY CountedIs, LenProperties, ThrottleAssumption
<1>2. r = IF Len(c) > LocalMaxKeys THEN Tail(c) ELSE c
  BY DEF LocalAdd
<1> HIDE DEF c, r
<1>3. CASE Len(c) > LocalMaxKeys
  <2>1. /\ r \in Seq(Entry) /\ Len(r) = Len(c) - 1 /\ DOMAIN r = 1..(Len(c) - 1)
        /\ \A i \in 1..(Len(c) - 1) : r[i] = c[i + 1]
    BY <1>1, <1>2, <1>3, HeadTailProperties, LenProperties
  <2>2. OnePerKey(r)
    <3>1. \A i \in DOMAIN r : i + 1 \in DOMAIN c /\ r[i] = c[i + 1]
      BY <1>1, <2>1
    <3>2. \A i, j \in DOMAIN r : r[i].key = r[j].key => i + 1 = j + 1
      BY <1>1, <3>1 DEF OnePerKey
    <3> QED
      BY <1>1, <2>1, <3>2 DEF OnePerKey
  <2>3. \A i \in DOMAIN r : \E j \in DOMAIN c : c[j] = r[i]
    BY <1>1, <2>1
  <2>4. \A j : CountIn(r, j) <= CountIn(c, j)
    BY <1>1, <2>1, <2>2, <2>3, CountsNoMore
  <2>5. \A j : CountIn(r, j) \in Nat /\ CountIn(c, j) \in Nat /\ CountIn(s, j) \in Nat
    BY <1>1, <2>1, <2>2, CountIs
  <2> QED
    BY <1>1, <2>1, <2>2, <2>4, <2>5 DEF r
<1>4. CASE ~(Len(c) > LocalMaxKeys)
  <2>1. r = c /\ CountIn(s, k) \in Nat
    BY <1>2, <1>4, CountIs
  <2> QED
    BY <1>1, <1>4, <2>1 DEF r
<1> QED
  BY <1>3, <1>4

(* The attempts under way that will count against a key if they fail.      *)
Trying(k) == {t \in Threads : attempt[t] # NoAttempt /\ k \in {attempt[t].email, attempt[t].address}}
InUse(k) == IF mode = "up" THEN primary[k] ELSE LocalCount(k)
Bound(k) == MaxFailures(k) + (Cardinality(Threads) - 1) + Cardinality(Threads) * switches

(* The counter in use has room for the attempts that it let through.       *)
Bounded ==
    \A k \in ThrottleKeys : /\ primary[k] <= Bound(k) /\ LocalCount(k) <= Bound(k)
                            /\ InUse(k) + Cardinality(Trying(k)) <= Bound(k)

ThrottleInv ==
    /\ ThrottleTypeOK /\ OnePerKey(fallback)
    /\ "readonly" \notin RedisModes => Bounded

LEMMA ThrottleFacts ==
    ASSUME ThrottleInv
    PROVE  /\ Cardinality(Threads) \in Nat \ {0} /\ switches \in Nat
           /\ Cardinality(Threads) * switches \in Nat
           /\ \A k : MaxFailures(k) \in Nat \ {0}
           /\ \A k \in ThrottleKeys : primary[k] \in Nat
           /\ \A k : LocalCount(k) \in Nat
           /\ \A k : Cardinality(Trying(k)) \in Nat /\ Cardinality(Trying(k)) <= Cardinality(Threads)
           /\ \A k : IsFiniteSet(Trying(k))
           /\ fallback \in Seq(Entry) /\ OnePerKey(fallback)
<1>1. Cardinality(Threads) \in Nat \ {0}
  BY FS_CardinalityType, FS_EmptySet, ThreadpoolAssumption, ThrottleAssumption
<1>2. switches \in Nat /\ \A k \in ThrottleKeys : primary[k] \in Nat
  BY ThrottleAssumption DEF ThrottleInv, ThrottleTypeOK
<1>3. Cardinality(Threads) * switches \in Nat
  BY <1>1, <1>2
<1>4. \A k : Trying(k) \subseteq Threads
  BY DEF Trying
<1>5. \A k : /\ IsFiniteSet(Trying(k)) /\ Cardinality(Trying(k)) \in Nat
             /\ Cardinality(Trying(k)) <= Cardinality(Threads)
  BY <1>4, FS_Subset, FS_CardinalityType, ThrottleAssumption
<1>6. fallback \in Seq(Entry) /\ OnePerKey(fallback) /\ \A k : LocalCount(k) \in Nat
  BY CountIs DEF ThrottleInv, ThrottleTypeOK, LocalCount
<1>7. \A k : MaxFailures(k) \in Nat \ {0}
  BY ThrottleAssumption DEF MaxFailures
<1> QED
  BY <1>1, <1>2, <1>3, <1>5, <1>6, <1>7

LEMMA ThrottleInitial == ThrottleInit => ThrottleInv
<1> SUFFICES ASSUME ThrottleInit PROVE ThrottleInv
  OBVIOUS
<1>1. fallback \in Seq(Entry) /\ OnePerKey(fallback) /\ Len(fallback) = 0
  BY EmptySeq DEF ThrottleInit, OnePerKey
<1>2. ThrottleTypeOK
  BY <1>1, ThrottleAssumption DEF ThrottleInit, ThrottleTypeOK
<1>3. ASSUME NEW k \in ThrottleKeys
      PROVE  primary[k] = 0 /\ LocalCount(k) = 0 /\ Trying(k) = {}
  <2>1. fallback = <<>> /\ DOMAIN fallback = {}
    BY DEF ThrottleInit
  <2>2. LocalCount(k) = 0
    BY <2>1 DEF LocalCount, CountIn, Held
  <2>3. Trying(k) = {}
    BY DEF ThrottleInit, Trying
  <2> QED
    BY <2>2, <2>3 DEF ThrottleInit
<1>4. Cardinality(Threads) \in Nat \ {0} /\ Cardinality(Threads) * switches = 0 /\ Cardinality({}) = 0
  BY FS_CardinalityType, FS_EmptySet, ThreadpoolAssumption, ThrottleAssumption DEF ThrottleInit
<1>5. Bounded
  <2> SUFFICES ASSUME NEW k \in ThrottleKeys
               PROVE  /\ primary[k] <= Bound(k) /\ LocalCount(k) <= Bound(k)
                      /\ InUse(k) + Cardinality(Trying(k)) <= Bound(k)
    BY DEF Bounded
  <2>1. MaxFailures(k) \in Nat
    BY ThrottleAssumption DEF MaxFailures
  <2>2. Bound(k) = MaxFailures(k) + (Cardinality(Threads) - 1) + 0
    BY <1>4 DEF Bound
  <2>3. InUse(k) = 0 /\ Cardinality(Trying(k)) = 0
    BY <1>3, <1>4 DEF InUse
  <2> QED
    BY <1>3, <1>4, <2>1, <2>2, <2>3
<1> QED
  BY <1>1, <1>2, <1>5 DEF ThrottleInv

LEMMA CheckKeeps ==
    ASSUME ThrottleInv, NEW t \in Threads, NEW e \in Emails, NEW a \in Addresses, Check(t, e, a)
    PROVE  ThrottleInv'
<1> DEFINE try == [pc |-> "verify", email |-> e, address |-> a]
<1>1. /\ attempt[t] = NoAttempt /\ attempt' = [attempt EXCEPT ![t] = try]
      /\ UNCHANGED <<primary, fallback, mode, switches>>
      /\ \A k \in {e, a} : Count(k) < MaxFailures(k)
  BY DEF Check
<1>2. try \in [pc : {"verify"}, email : Emails, address : Addresses]
  OBVIOUS
<1>3. ThrottleTypeOK'
  BY <1>1, <1>2 DEF ThrottleInv, ThrottleTypeOK
<1>4. /\ attempt'[t] = try /\ try.email = e /\ try.address = a
      /\ \A o \in Threads \ {t} : attempt'[o] = attempt[o]
  BY <1>1 DEF ThrottleInv, ThrottleTypeOK
<1>5. ASSUME "readonly" \notin RedisModes, NEW k \in ThrottleKeys
      PROVE  /\ primary[k] <= Bound(k)' /\ LocalCount(k)' <= Bound(k)'
             /\ InUse(k)' + Cardinality(Trying(k))' <= Bound(k)'
  <2>1. Bound(k)' = Bound(k) /\ LocalCount(k)' = LocalCount(k) /\ InUse(k)' = InUse(k)
    BY <1>1 DEF Bound, LocalCount, InUse
  <2>2. /\ primary[k] <= Bound(k) /\ LocalCount(k) <= Bound(k)
        /\ InUse(k) + Cardinality(Trying(k)) <= Bound(k)
    BY <1>5 DEF ThrottleInv, Bounded
  <2>3. CASE k \in {e, a}
    <3>1. InUse(k) < MaxFailures(k)
      BY <1>1, <1>5, <2>3, ThrottleAssumption DEF Count, InUse, ThrottleInv, ThrottleTypeOK
    <3>2. Trying(k)' \subseteq Threads
      BY DEF Trying
    <3>3. Cardinality(Trying(k)') \in Nat /\ Cardinality(Trying(k)') <= Cardinality(Threads)
      BY <3>2, FS_Subset, FS_CardinalityType, ThrottleAssumption
    <3>4. InUse(k) \in Nat
      BY ThrottleFacts DEF InUse
    <3>5. Bound(k) = MaxFailures(k) + (Cardinality(Threads) - 1) + Cardinality(Threads) * switches
      BY DEF Bound
    <3> QED
      BY <2>1, <2>2, <3>1, <3>3, <3>4, <3>5, ThrottleFacts
  <2>4. CASE k \notin {e, a}
    <3>1. Trying(k)' = Trying(k)
      BY <1>1, <1>4, <2>4 DEF Trying
    <3> QED
      BY <2>1, <2>2, <3>1
  <2> QED
    BY <2>3, <2>4
<1> QED
  BY <1>1, <1>3, <1>5 DEF ThrottleInv, Bounded

(* A step after which no counter stands higher and nobody new is trying.   *)
LEMMA LesserKeeps ==
    ASSUME ThrottleInv, ThrottleTypeOK', OnePerKey(fallback'), UNCHANGED <<mode, switches>>,
           \A k \in ThrottleKeys : /\ primary'[k] <= primary[k] /\ LocalCount(k)' <= LocalCount(k)
                                   /\ Trying(k)' \subseteq Trying(k)
    PROVE  ThrottleInv'
<1>1. ASSUME "readonly" \notin RedisModes, NEW k \in ThrottleKeys
      PROVE  /\ primary'[k] <= Bound(k)' /\ LocalCount(k)' <= Bound(k)'
             /\ InUse(k)' + Cardinality(Trying(k))' <= Bound(k)'
  <2>1. Bound(k)' = Bound(k) /\ Bound(k) \in Int
    BY ThrottleFacts DEF Bound
  <2>2. /\ primary[k] <= Bound(k) /\ LocalCount(k) <= Bound(k)
        /\ InUse(k) + Cardinality(Trying(k)) <= Bound(k)
    BY <1>1 DEF ThrottleInv, Bounded
  <2>3. Cardinality(Trying(k)') \in Nat /\ Cardinality(Trying(k)') <= Cardinality(Trying(k))
    BY ThrottleFacts, FS_Subset, FS_CardinalityType
  <2>4. primary'[k] \in Nat /\ LocalCount(k)' \in Nat
    BY CountIs DEF ThrottleTypeOK, LocalCount
  <2>5. InUse(k)' \in Nat /\ InUse(k) \in Nat /\ InUse(k)' <= InUse(k)
    BY <2>4, ThrottleFacts DEF InUse
  <2> QED
    BY <2>1, <2>2, <2>3, <2>4, <2>5, ThrottleFacts
<1> QED
  BY <1>1 DEF ThrottleInv, Bounded

LEMMA SuccessKeeps ==
    ASSUME ThrottleInv, NEW t \in Threads, RecordSuccess(t)
    PROVE  ThrottleInv'
<1> DEFINE e == attempt[t].email
<1>1. /\ attempt[t].pc = "verify" /\ attempt' = [attempt EXCEPT ![t] = NoAttempt]
      /\ fallback' = Without(fallback, e) /\ UNCHANGED <<mode, switches>>
      /\ primary' = IF mode = "up" THEN [primary EXCEPT ![e] = 0] ELSE primary
  BY DEF RecordSuccess
<1>2. /\ fallback' \in Seq(Entry) /\ OnePerKey(fallback') /\ Len(fallback') <= Len(fallback)
      /\ \A k : LocalCount(k)' <= LocalCount(k)
  BY <1>1, ThrottleFacts, WithoutIs DEF LocalCount
<1>3. /\ primary \in [ThrottleKeys -> Nat] /\ primary' \in [ThrottleKeys -> Nat]
      /\ \A k \in ThrottleKeys : primary'[k] <= primary[k]
  <2>1. primary \in [ThrottleKeys -> Nat]
    BY DEF ThrottleInv, ThrottleTypeOK
  <2>2. CASE mode = "up"
    <3>1. primary' = [primary EXCEPT ![e] = 0]
      BY <1>1, <2>2
    <3> HIDE DEF e
    <3>2. \A k \in ThrottleKeys : primary'[k] \in {0, primary[k]} /\ primary[k] \in Nat
      BY <2>1, <3>1
    <3>3. primary' \in [ThrottleKeys -> Nat]
      BY <2>1, <3>1
    <3> QED
      BY <2>1, <3>2, <3>3
  <2>3. CASE mode # "up"
    <3>1. primary' = primary /\ \A k \in ThrottleKeys : primary[k] \in Nat
      BY <1>1, <2>1, <2>3
    <3> QED
      BY <2>1, <3>1
  <2> QED
    BY <2>2, <2>3
<1>4. attempt'[t] = NoAttempt /\ \A o \in Threads \ {t} : attempt'[o] = attempt[o]
  BY <1>1 DEF ThrottleInv, ThrottleTypeOK
<1>5. ThrottleTypeOK'
  <2>1. Len(fallback') <= LocalMaxKeys
    BY <1>2, ThrottleFacts, LenProperties, ThrottleAssumption DEF ThrottleInv, ThrottleTypeOK
  <2> QED
    BY <1>1, <1>2, <1>3, <2>1 DEF ThrottleInv, ThrottleTypeOK
<1>6. \A k : Trying(k)' \subseteq Trying(k)
  BY <1>4 DEF Trying
<1> QED
  BY <1>1, <1>2, <1>3, <1>5, <1>6, LesserKeeps

LEMMA WindowEndKeeps ==
    ASSUME ThrottleInv, NEW k \in ThrottleKeys, SharedWindowEnds(k) \/ LocalWindowEnds(k)
    PROVE  ThrottleInv'
<1>1. UNCHANGED <<mode, switches, attempt>> /\ \A j : Trying(j)' = Trying(j)
  BY DEF SharedWindowEnds, LocalWindowEnds, Trying
<1>2. /\ fallback \in Seq(Entry) /\ OnePerKey(fallback) /\ primary \in [ThrottleKeys -> Nat]
      /\ Len(fallback) \in Nat /\ LocalMaxKeys \in Nat /\ Len(fallback) <= LocalMaxKeys
  BY ThrottleFacts, LenProperties, ThrottleAssumption DEF ThrottleInv, ThrottleTypeOK
<1>3. CASE SharedWindowEnds(k)
  <2>1. /\ primary' \in [ThrottleKeys -> Nat] /\ \A j \in ThrottleKeys : primary'[j] <= primary[j]
        /\ UNCHANGED fallback
    BY <1>2, <1>3 DEF SharedWindowEnds
  <2>2. ThrottleTypeOK'
    BY <1>1, <2>1 DEF ThrottleInv, ThrottleTypeOK
  <2>3. \A j : LocalCount(j)' = LocalCount(j) /\ LocalCount(j) \in Nat
    BY <2>1, ThrottleFacts DEF LocalCount
  <2>4. \A j : LocalCount(j)' <= LocalCount(j)
    BY <2>3
  <2> QED
    BY <1>1, <1>2, <2>1, <2>2, <2>4, LesserKeeps
<1>4. CASE LocalWindowEnds(k)
  <2>1. /\ fallback' = Without(fallback, k) /\ UNCHANGED primary
        /\ \A j \in ThrottleKeys : primary'[j] <= primary[j]
    BY <1>2, <1>4 DEF LocalWindowEnds
  <2>2. /\ fallback' \in Seq(Entry) /\ OnePerKey(fallback') /\ Len(fallback') <= Len(fallback)
        /\ Len(fallback') \in Nat /\ \A j : LocalCount(j)' <= LocalCount(j)
    BY <1>2, <2>1, WithoutIs, LenProperties DEF LocalCount
  <2>3. Len(fallback') <= LocalMaxKeys
    BY <1>2, <2>2
  <2>4. ThrottleTypeOK'
    BY <1>1, <2>1, <2>2, <2>3 DEF ThrottleInv, ThrottleTypeOK
  <2> QED
    BY <1>1, <2>1, <2>2, <2>4, LesserKeeps
<1> QED
  BY <1>3, <1>4

(* A failure is counted in the counter in use, by an attempt that stops.   *)
LEMMA FailureKeeps ==
    ASSUME ThrottleInv, NEW t \in Threads, RecordFailure(t)
    PROVE  ThrottleInv'
<1> DEFINE e == attempt[t].email
           a == attempt[t].address
<1>1. /\ attempt[t].pc = "verify" /\ attempt' = [attempt EXCEPT ![t] = NoAttempt]
      /\ UNCHANGED <<mode, switches>>
  BY DEF RecordFailure
<1>2. /\ attempt[t] # NoAttempt /\ e \in Emails /\ a \in Addresses /\ e # a
      /\ e \in ThrottleKeys /\ a \in ThrottleKeys
  BY <1>1, ThrottleAssumption DEF ThrottleInv, ThrottleTypeOK, NoAttempt, ThrottleKeys
<1>3. attempt'[t] = NoAttempt /\ \A o \in Threads \ {t} : attempt'[o] = attempt[o]
  BY <1>1 DEF ThrottleInv, ThrottleTypeOK
<1>4. IF mode = "up"
      THEN primary' = [primary EXCEPT ![e] = @ + 1, ![a] = @ + 1] /\ UNCHANGED fallback
      ELSE fallback' = LocalAdd(LocalAdd(fallback, e), a) /\ UNCHANGED primary
  BY DEF RecordFailure
<1> HIDE DEF e, a
<1>5. /\ primary \in [ThrottleKeys -> Nat] /\ fallback \in Seq(Entry) /\ OnePerKey(fallback)
      /\ Len(fallback) <= LocalMaxKeys /\ \A k : LocalCount(k) \in Nat
  BY ThrottleFacts DEF ThrottleInv, ThrottleTypeOK
<1>6. \A k : Trying(k)' = Trying(k) \ {t} /\ (k \in {e, a} => t \in Trying(k))
  BY <1>2, <1>3 DEF Trying, e, a
<1>7. ASSUME NEW k
      PROVE  /\ Cardinality(Trying(k)') \in Nat
             /\ Cardinality(Trying(k)') <= Cardinality(Trying(k))
             /\ k \in {e, a} => Cardinality(Trying(k)') = Cardinality(Trying(k)) - 1
  <2>1. IsFiniteSet(Trying(k)) /\ Trying(k)' \subseteq Trying(k)
    BY <1>6, ThrottleFacts
  <2>2. k \in {e, a} => Cardinality(Trying(k)') = Cardinality(Trying(k)) - 1
    BY <1>6, <2>1, FS_RemoveElement
  <2> QED
    BY <2>1, <2>2, FS_Subset, FS_CardinalityType
<1>8. /\ primary' \in [ThrottleKeys -> Nat] /\ fallback' \in Seq(Entry) /\ OnePerKey(fallback')
      /\ Len(fallback') <= LocalMaxKeys
      /\ \A k \in ThrottleKeys :
            /\ mode # "up" => primary'[k] = primary[k]
            /\ primary'[k] <= primary[k] + 1
            /\ k \notin {e, a} => primary'[k] <= primary[k]
      /\ \A k :
            /\ mode = "up" => LocalCount(k)' = LocalCount(k)
            /\ LocalCount(k)' <= LocalCount(k) + 1
            /\ k \notin {e, a} => LocalCount(k)' <= LocalCount(k)
  <2>1. CASE mode = "up"
    <3>1. /\ primary' = [primary EXCEPT ![e] = @ + 1, ![a] = @ + 1] /\ fallback' = fallback
          /\ \A k : LocalCount(k)' = LocalCount(k)
      BY <1>4, <2>1 DEF LocalCount
    <3>2. primary' \in [ThrottleKeys -> Nat]
      <4> DEFINE once == [primary EXCEPT ![e] = @ + 1]
      <4>1. once \in [ThrottleKeys -> Nat]
        BY <1>2, <1>5
      <4>2. primary' = [once EXCEPT ![a] = @ + 1]
        BY <1>2, <1>5, <3>1
      <4> HIDE DEF once
      <4> QED
        BY <1>2, <4>1, <4>2
    <3>3. \A k \in ThrottleKeys : /\ primary'[k] <= primary[k] + 1
                                  /\ k \notin {e, a} => primary'[k] <= primary[k]
      BY <1>2, <1>5, <3>1
    <3> QED
      BY <1>5, <2>1, <3>1, <3>2, <3>3
  <2>2. CASE mode # "up"
    <3> DEFINE f == LocalAdd(fallback, e)
    <3>1. fallback' = LocalAdd(f, a) /\ primary' = primary
      BY <1>4, <2>2
    <3>2. /\ f \in Seq(Entry) /\ OnePerKey(f) /\ Len(f) <= LocalMaxKeys
          /\ CountIn(f, e) <= CountIn(fallback, e) + 1
          /\ \A k : k # e => CountIn(f, k) <= CountIn(fallback, k)
      BY <1>2, <1>5, LocalAddIs
    <3> HIDE DEF f
    <3>3. /\ fallback' \in Seq(Entry) /\ OnePerKey(fallback') /\ Len(fallback') <= LocalMaxKeys
          /\ CountIn(fallback', a) <= CountIn(f, a) + 1
          /\ \A k : k # a => CountIn(fallback', k) <= CountIn(f, k)
      BY <1>2, <3>1, <3>2, LocalAddIs
    <3>4. \A k : CountIn(f, k) \in Nat /\ CountIn(fallback, k) \in Nat /\ CountIn(fallback', k) \in Nat
      BY <1>5, <3>2, <3>3, CountIs
    <3>5. \A k :
            /\ CountIn(fallback', k) <= CountIn(fallback, k) + 1
            /\ k \notin {e, a} => CountIn(fallback', k) <= CountIn(fallback, k)
      BY <1>2, <3>2, <3>3, <3>4
    <3> QED
      BY <1>5, <2>2, <3>1, <3>3, <3>5 DEF LocalCount
  <2> QED
    BY <2>1, <2>2
<1>9. ThrottleTypeOK'
  BY <1>1, <1>8 DEF ThrottleInv, ThrottleTypeOK
<1>10. ASSUME "readonly" \notin RedisModes, NEW k \in ThrottleKeys
       PROVE  /\ primary'[k] <= Bound(k)' /\ LocalCount(k)' <= Bound(k)'
              /\ InUse(k)' + Cardinality(Trying(k))' <= Bound(k)'
  <2>1. Bound(k)' = Bound(k) /\ Bound(k) \in Int
    BY <1>1, ThrottleFacts DEF Bound
  <2>2. /\ primary[k] <= Bound(k) /\ LocalCount(k) <= Bound(k)
        /\ InUse(k) + Cardinality(Trying(k)) <= Bound(k)
    BY <1>10 DEF ThrottleInv, Bounded
  <2>3. /\ primary[k] \in Nat /\ primary'[k] \in Nat /\ LocalCount(k) \in Nat /\ LocalCount(k)' \in Nat
        /\ Cardinality(Trying(k)) \in Nat
    BY <1>5, <1>8, CountIs, ThrottleFacts DEF LocalCount
  <2>4. /\ Cardinality(Trying(k))' \in Nat /\ Cardinality(Trying(k))' <= Cardinality(Trying(k))
        /\ k \in {e, a} => Cardinality(Trying(k))' = Cardinality(Trying(k)) - 1
    BY <1>7
  <2>5. /\ primary'[k] <= primary[k] + 1 /\ LocalCount(k)' <= LocalCount(k) + 1
        /\ k \notin {e, a} => primary'[k] <= primary[k] /\ LocalCount(k)' <= LocalCount(k)
        /\ mode # "up" => primary'[k] = primary[k]
        /\ mode = "up" => LocalCount(k)' = LocalCount(k)
    BY <1>8
  <2>6. mode = "up" => InUse(k) = primary[k] /\ InUse(k)' = primary'[k]
    BY <1>1 DEF InUse
  <2>7. mode # "up" => InUse(k) = LocalCount(k) /\ InUse(k)' = LocalCount(k)'
    BY <1>1 DEF InUse
  <2> DEFINE n == Cardinality(Trying(k))
             m == Cardinality(Trying(k))'
             l == LocalCount(k)
             q == LocalCount(k)'
             b == Bound(k)
  <2>8. CASE mode = "up"
    <3>1. InUse(k)' + m <= b /\ primary'[k] <= b /\ q <= b
      <4> HIDE DEF n, m, l, q, b
      <4>1. CASE k \in {e, a}
        BY <2>1, <2>2, <2>3, <2>4, <2>5, <2>6, <2>8, <4>1 DEF n, m, l, q, b
      <4>2. CASE k \notin {e, a}
        BY <2>1, <2>2, <2>3, <2>4, <2>5, <2>6, <2>8, <4>2 DEF n, m, l, q, b
      <4> QED
        BY <4>1, <4>2
    <3> QED
      BY <2>1, <3>1
  <2>9. CASE mode # "up"
    <3>1. InUse(k)' + m <= b /\ primary'[k] <= b /\ q <= b
      <4>1. CASE k \in {e, a}
        BY <2>1, <2>2, <2>3, <2>4, <2>5, <2>7, <2>9, <4>1 DEF n, m, l, q, b
      <4>2. CASE k \notin {e, a}
        BY <2>1, <2>2, <2>3, <2>4, <2>5, <2>7, <2>9, <4>2 DEF n, m, l, q, b
      <4> QED
        BY <4>1, <4>2
    <3> QED
      BY <2>1, <3>1
  <2> QED
    BY <2>8, <2>9
<1> QED
  BY <1>8, <1>9, <1>10 DEF ThrottleInv, Bounded

(* The other counter comes into use, and the attempts let through by the   *)
(* first are counted there.                                                *)
LEMMA RedisChangesKeeps ==
    ASSUME ThrottleInv, NEW m \in RedisModes, RedisChanges(m)
    PROVE  ThrottleInv'
<1> DEFINE all == Cardinality(Threads)
<1>1. /\ mode' = m /\ switches' = switches + 1 /\ switches < MaxSwitches
      /\ UNCHANGED <<primary, fallback, attempt>>
  BY DEF RedisChanges
<1>2. ThrottleTypeOK'
  BY <1>1, ThrottleAssumption DEF ThrottleInv, ThrottleTypeOK
<1>3. all \in Nat \ {0} /\ switches \in Nat /\ all * switches \in Nat
  BY ThrottleFacts
<1>4. all * switches' = all * switches + all
  BY <1>1, <1>3
<1>5. ASSUME "readonly" \notin RedisModes, NEW k \in ThrottleKeys
      PROVE  /\ primary'[k] <= Bound(k)' /\ LocalCount(k)' <= Bound(k)'
             /\ InUse(k)' + Cardinality(Trying(k))' <= Bound(k)'
  <2>1. Bound(k)' = Bound(k) + all /\ Bound(k) \in Int
    <3>1. Bound(k) = MaxFailures(k) + (all - 1) + all * switches
      BY DEF Bound
    <3>2. Bound(k)' = MaxFailures(k) + (all - 1) + all * switches'
      BY DEF Bound, MaxFailures
    <3>3. MaxFailures(k) \in Nat
      BY ThrottleFacts
    <3> HIDE DEF all
    <3> QED
      BY <1>3, <1>4, <3>1, <3>2, <3>3
  <2>2. /\ primary[k] <= Bound(k) /\ LocalCount(k) <= Bound(k)
    BY <1>5 DEF ThrottleInv, Bounded
  <2>3. LocalCount(k)' = LocalCount(k) /\ Trying(k)' = Trying(k) /\ primary'[k] = primary[k]
    BY <1>1 DEF LocalCount, Trying
  <2>4. InUse(k)' \in {primary[k], LocalCount(k)}
    BY <1>1, <2>3 DEF InUse
  <2>5. /\ Cardinality(Trying(k)) \in Nat /\ Cardinality(Trying(k)) <= all
        /\ primary[k] \in Nat /\ LocalCount(k) \in Nat
    BY ThrottleFacts
  <2> HIDE DEF all
  <2> QED
    BY <1>3, <2>1, <2>2, <2>3, <2>4, <2>5
<1>6. OnePerKey(fallback)'
  BY <1>1 DEF ThrottleInv
<1> QED
  BY <1>1, <1>2, <1>5, <1>6 DEF ThrottleInv, Bounded

LEMMA ThrottleStep ==
    ASSUME ThrottleInv, ThrottleNext
    PROVE  ThrottleInv'
BY CheckKeeps, FailureKeeps, SuccessKeeps, WindowEndKeeps, RedisChangesKeeps DEF ThrottleNext
-----------------------------------------------------------------------------
(* The clock and the callbacks stay within their bounds.                   *)
OidcBounded == oidcTime <= MaxOidcTime /\ answeredCallbacks \in 0..MaxCallbacks

LEMMA OidcBoundedStep ==
    ASSUME OidcInv, OidcBounded, OidcNext
    PROVE  OidcBounded'
<1>1. oidcTime \in Nat /\ MaxOidcTime \in Nat /\ MaxCallbacks \in Nat
  BY OidcAssumption DEF OidcInv
<1>2. \/ UNCHANGED <<oidcTime, answeredCallbacks>>
      \/ oidcTime' = oidcTime /\ answeredCallbacks' = answeredCallbacks + 1
         /\ answeredCallbacks < MaxCallbacks
      \/ answeredCallbacks' = answeredCallbacks /\ oidcTime' = oidcTime + 1
         /\ oidcTime < MaxOidcTime
  BY DEF OidcNext, Callback, LookInCache, StartFetch, KeepKeys, FetchFails, CallbackAnswered,
         Rotate, OidcClock
<1> QED
  BY <1>1, <1>2 DEF OidcBounded

(* The service in focus keeps its invariant.                               *)
IdentityInv ==
    /\ focus \in Services
    /\ focus \in {"accounts", "sessions"} => FloorInv /\ SessionsTypeOK
    /\ focus = "sessions" => SessionInv /\ Settled
    /\ focus = "throttle" => ThrottleInv
    /\ focus = "keys" => KeysInv
    /\ focus = "oidc" => OidcInv /\ OidcBounded
    /\ focus = "rbac" => RbacInv

LEMMA IdentityInitial == IdentityInit => IdentityInv
<1> SUFFICES ASSUME IdentityInit PROVE IdentityInv
  OBVIOUS
<1>1. FloorInv /\ SessionInv /\ Settled
  BY FloorInit, SessionInit DEF IdentityInit, SessionsInit, AccountsInit, Settled
<1>2. ThrottleInv /\ KeysInv /\ OidcInv
  BY ThrottleInitial, KeysInit, OidcInitial DEF IdentityInit
<1>4. SessionsTypeOK /\ OidcBounded
  BY <1>1, OidcAssumption DEF IdentityInit, SessionInv, OidcInit, OidcBounded
<1>3. RbacInv
  BY DEF IdentityInit, RbacInit, RbacInv
<1> QED
  BY <1>1, <1>2, <1>3, <1>4 DEF IdentityInv, IdentityInit

(* Nothing happens to a service that rests.                                *)
LEMMA SessionsRest ==
    ASSUME UNCHANGED sessionsVars
    PROVE  /\ FloorInv => FloorInv'
           /\ SessionInv /\ Settled => SessionInv' /\ Settled'
           /\ SessionsTypeOK => SessionsTypeOK'
<1>1. UNCHANGED <<directory, change, overlapped, tokens, spent, revoked, expired, pending, restarts, req>>
  BY DEF sessionsVars, accountsVars
<1>2. FloorInv => FloorInv'
  BY <1>1 DEF FloorInv, AccountsTypeOK, AdminFloor, ActiveAdmins, Standing, LeavesNoAdmin
<1>3. Settled => Settled'
  BY <1>1 DEF Settled
<1>4. ASSUME SessionInv
      PROVE  SessionInv'
  <2>1. pending' \in 0..MaxPending /\ revoked' \subseteq DOMAIN tokens
    BY <1>1, <1>4 DEF SessionInv, SessionsTypeOK
  <2> QED
    BY <1>1, <1>4, <2>1, QuietKeeps DEF accountsVars
<1>5. SessionsTypeOK => SessionsTypeOK'
  BY <1>1 DEF SessionsTypeOK, AccountsTypeOK
<1> QED
  BY <1>2, <1>3, <1>4, <1>5

LEMMA OthersRest ==
    /\ UNCHANGED throttleVars /\ ThrottleInv => ThrottleInv'
    /\ UNCHANGED apiKeysVars /\ KeysInv => KeysInv'
    /\ UNCHANGED oidcVars /\ OidcInv /\ OidcBounded => OidcInv' /\ OidcBounded'
    /\ UNCHANGED rbacVars /\ RbacInv => RbacInv'
<1>1. ASSUME UNCHANGED apiKeysVars, KeysInv
      PROVE  KeysInv'
  BY <1>1 DEF apiKeysVars, KeysInv, ApiKeysTypeOK, LiveKeysVerify, Verifies, Exists
<1>2. ASSUME UNCHANGED oidcVars, OidcInv, OidcBounded
      PROVE  OidcInv' /\ OidcBounded'
  BY <1>2 DEF oidcVars, OidcInv, OidcBounded, CallbackRight, InFlight, Seen, ShownBy
<1>3. ASSUME UNCHANGED rbacVars, RbacInv
      PROVE  RbacInv'
  BY <1>3 DEF rbacVars, RbacInv
<1>4. ASSUME UNCHANGED throttleVars, ThrottleInv
      PROVE  ThrottleInv'
  <2>1. ThrottleTypeOK' /\ OnePerKey(fallback') /\ UNCHANGED <<mode, switches>>
    BY <1>4 DEF throttleVars, ThrottleInv, ThrottleTypeOK
  <2>2. \A k : /\ LocalCount(k)' = LocalCount(k) /\ Trying(k)' = Trying(k)
               /\ LocalCount(k) \in Nat
    BY <1>4, ThrottleFacts DEF throttleVars, LocalCount, Trying
  <2>3. \A k \in ThrottleKeys : primary'[k] = primary[k] /\ primary[k] \in Nat
    BY <1>4, ThrottleFacts DEF throttleVars
  <2> QED
    BY <1>4, <2>1, <2>2, <2>3, LesserKeeps
<1> QED
  BY <1>1, <1>2, <1>3, <1>4

LEMMA IdentityStep ==
    ASSUME IdentityInv, [IdentityNext]_identityVars
    PROVE  IdentityInv'
<1>1. CASE UNCHANGED identityVars
  BY <1>1, SessionsRest, OthersRest DEF identityVars, IdentityInv
<1>2. CASE IdentityNext
  <2>1. /\ focus' = focus
        /\ focus \notin {"accounts", "sessions"} => UNCHANGED sessionsVars
    BY <1>2 DEF IdentityNext
  <2>2. CASE focus = "accounts"
    <3>1. AccountsNext /\ UNCHANGED <<tokens, spent, revoked, expired, pending, restarts, req>>
      BY <1>2, <2>2 DEF IdentityNext
    <3>2. FloorInv' /\ SessionsTypeOK
      BY <2>2, <3>1, AccountsStep DEF IdentityInv
    <3>3. SessionsTypeOK'
      BY <3>1, <3>2 DEF SessionsTypeOK, FloorInv
    <3> QED
      BY <2>1, <2>2, <3>2, <3>3 DEF IdentityInv
  <2>3. CASE focus = "sessions"
    BY <1>2, <2>1, <2>3, SessionsStep DEF IdentityNext, IdentityInv, SessionInv
  <2>4. CASE focus = "keys"
    BY <1>2, <2>1, <2>4, KeysStep DEF IdentityNext, IdentityInv
  <2>5. CASE focus = "oidc"
    BY <1>2, <2>1, <2>5, OidcStep, OidcBoundedStep DEF IdentityNext, IdentityInv
  <2>6. CASE focus = "rbac"
    BY <1>2, <2>1, <2>6, RbacStep DEF IdentityNext, IdentityInv
  <2>7. CASE focus = "throttle"
    BY <1>2, <2>1, <2>7, ThrottleStep DEF IdentityNext, IdentityInv
  <2> QED
    BY <2>2, <2>3, <2>4, <2>5, <2>6, <2>7 DEF IdentityInv, Services
<1> QED
  BY <1>1, <1>2

LEMMA IdentityInvariant == IdentitySpec => []IdentityInv
BY IdentityInitial, IdentityStep, PTL DEF IdentitySpec

(* Every variable of the service that is busy has its type, whatever is    *)
(* interleaved: records, counters and clocks stay within their bounds.     *)
THEOREM IdentityTypes == IdentitySpec => []IdentityTypeOK
<1>1. ASSUME OidcInv, OidcBounded
      PROVE  OidcTypeOK
  <2>1. oidcTime \in 0..MaxOidcTime /\ \A k \in Keys : since[k] \in 0..MaxOidcTime
    BY <1>1, OidcAssumption DEF OidcInv, OidcBounded
  <2> QED
    BY <1>1, <2>1 DEF OidcInv, OidcBounded, OidcTypeOK
<1>2. ASSUME RbacInv
      PROVE  RbacTypeOK
  BY <1>2, DemandFits DEF RbacInv, RbacTypeOK, Fits, Classified
<1>3. IdentityInv => IdentityTypeOK
  BY <1>1, <1>2 DEF IdentityInv, ThrottleInv, KeysInv, IdentityTypeOK
<1> QED
  BY <1>3, IdentityInvariant, PTL

(* Signing in and staying in, for any users, threads, tokens and keys: a   *)
(* refresh that came after its token had bought a pair buys none, a pair   *)
(* grants a role its account held, a deployment keeps an administrator     *)
(* while no two role changes overlap, no name or address is tried beyond   *)
(* its limit, Redis up or down, and a callback follows the keys of its     *)
(* provider, whatever fetches are in flight (auth/tokens.py,               *)
(* services/user_directory.py, services/login_throttle.py, auth/oidc.py).  *)
THEOREM SignInIsSafe == IdentitySpec => []SignInHolds
<1>1. IdentityInv => SignInHolds
  <2>1. OidcInv => RotationIsSeen
    BY DEF OidcInv, CallbackRight, Seen, RotationIsSeen
  <2>2. ASSUME ThrottleInv
        PROVE  LimitHolds
    BY <2>2 DEF ThrottleInv, Bounded, Bound, LimitHolds
  <2> QED
    BY <2>1, <2>2 DEF IdentityInv, SessionInv, FloorInv, SignInHolds
<1> QED
  BY <1>1, IdentityInvariant, PTL

(* A credential opens what it was granted, for any owners, threads, keys   *)
(* and headers: as long as no write landed on a record that had changed,   *)
(* the keys that verify are those issued and not ended, and every route    *)
(* lets in exactly the roles the matrix names (auth/api_keys.py,           *)
(* auth/rbac.py).                                                          *)
THEOREM CredentialsAreHonest == IdentitySpec => []CredentialsOpenWhatTheyGrant
<1>1. IdentityInv => CredentialsOpenWhatTheyGrant
  BY MatrixHolds DEF IdentityInv, KeysInv, CredentialsOpenWhatTheyGrant
<1> QED
  BY <1>1, IdentityInvariant, PTL
=============================================================================
