------------------------------- MODULE Accounts -------------------------------
(***************************************************************************)
(* Accounts and the tokens issued for them: login and logout (api/auth.go), *)
(* the administration of users (api/users.go) and its rows                 *)
(* (database/user_store.go).  A request reads the row, checks, writes and  *)
(* revokes in separate steps, and requests overlap.  Tokens live in memory *)
(* and carry the role the account had when they were issued.               *)
(***************************************************************************)
EXTENDS Integers, FiniteSets

CONSTANTS
  Users,
  Root,        \* the account ensureSeedAdmin creates
  Requests,    \* concurrent requests
  MaxChanges   \* bound: accounts created, updated or deleted, in all

ASSUME AccountsAssumption == Root \in Users /\ MaxChanges \in Nat

Admin  == "admin"
Viewer == "viewer"
Roles  == {Admin, "operator", Viewer}
NoUser == [role |-> "none", pw |-> 0]

VARIABLES
  users,    \* the rows: [role, pw], pw counts the changes of the password
  tokens,   \* valid tokens: [user, role, pw]
  request,  \* what a request is at: [at, user, role, pw, old]
  changes,  \* how many of MaxChanges
  met,      \* history: accounts that two requests changed, or one changed and
            \* one logged in to, at the same time; Root if two changed admins
  unlisted  \* history: a request on the last admin went on, for the accounts could not be listed

accountVars == <<users, tokens, request, changes, met, unlisted>>

NoRequest == [at |-> "idle", user |-> Root, role |-> Viewer, pw |-> 0, old |-> NoUser]

(* ensureSeedAdmin has run.                                                 *)
AccountsInit ==
  /\ users = [u \in Users |-> IF u = Root THEN [role |-> Admin, pw |-> 1] ELSE NoUser]
  /\ tokens = {}
  /\ request = [r \in Requests |-> NoRequest]
  /\ changes = 0 /\ met = {} /\ unlisted = FALSE

Has(u)      == users[u] # NoUser
Authorized  == \E t \in tokens : t.role = Admin
Done(r)     == request' = [request EXCEPT ![r] = NoRequest]
Others(r)   == {request[q] : q \in Requests \ {r}}

(* A request on u begins: it meets those under way on the same account, and *)
(* one on an admin meets those on any admin.                                *)
Begins(r, rec) ==
  /\ request[r].at = "idle"
  /\ request' = [request EXCEPT ![r] = rec]
  /\ met' = met \cup {u \in Users : \E q \in Others(r) : q.at # "idle" /\ q.user = rec.user /\ u = rec.user}
                \cup {u \in Users : u = Root /\ \E q \in Others(r) :
                        {q.at, rec.at} \subseteq {"check", "write", "delete"} /\ q.old.role = Admin /\ rec.old.role = Admin}

-----------------------------------------------------------------------------
(* handleLogin: read the row and check the password, then issue a token.    *)
Login(r, u) ==
  /\ Has(u)
  /\ Begins(r, [NoRequest EXCEPT !.at = "issue", !.user = u, !.old = users[u]])
  /\ UNCHANGED <<users, tokens, changes, unlisted>>

Issue(r) ==
  /\ request[r].at = "issue"
  /\ tokens' = tokens \cup {[user |-> request[r].user, role |-> request[r].old.role, pw |-> request[r].old.pw]}
  /\ Done(r)
  /\ UNCHANGED <<users, changes, met, unlisted>>

(* Logout, or the token's time is over.                                     *)
Revoke(t) == tokens' = tokens \ {t} /\ UNCHANGED <<users, request, changes, met, unlisted>>

(* A new account has a new id: one that nothing names.                      *)
Fresh(u) ==
  /\ ~Has(u)
  /\ \A t \in tokens : t.user # u
  /\ \A r \in Requests : request[r].at = "idle" \/ request[r].user # u

handleCreateUser(u, role) ==
  /\ Authorized /\ Fresh(u) /\ changes < MaxChanges
  /\ changes' = changes + 1
  /\ users' = [users EXCEPT ![u] = [role |-> role, pw |-> 1]]
  /\ UNCHANGED <<tokens, request, met, unlisted>>

(* handleUpdateUser: read the row; a demoted admin must not be the last.    *)
handleUpdateUser(r, u, role, newPw) ==
  /\ Authorized /\ Has(u) /\ changes < MaxChanges
  /\ changes' = changes + 1
  /\ Begins(r, [at |-> IF users[u].role = Admin /\ role # Admin THEN "check" ELSE "write",
                user |-> u, role |-> role, pw |-> IF newPw THEN 1 ELSE 0, old |-> users[u]])
  /\ UNCHANGED <<users, tokens, unlisted>>

handleDeleteUser(r, u) ==
  /\ Authorized /\ Has(u) /\ changes < MaxChanges
  /\ changes' = changes + 1
  /\ Begins(r, [NoRequest EXCEPT !.at = IF users[u].role = Admin THEN "check" ELSE "delete",
                                 !.user = u, !.role = "none", !.old = users[u]])
  /\ UNCHANGED <<users, tokens, unlisted>>

isLastAdmin(u) == \A v \in Users \ {u} : users[v].role # Admin

GoesOn(r) == request' = [request EXCEPT ![r].at = IF request[r].role = "none" THEN "delete" ELSE "write"]

(* isLastAdmin's error is discarded: a request that could not list the      *)
(* accounts goes on like one that saw another admin.                        *)
Check(r) ==
  /\ request[r].at = "check"
  /\ \/ isLastAdmin(request[r].user) /\ Done(r) /\ UNCHANGED unlisted
     \/ GoesOn(r) /\ unlisted' = (unlisted \/ isLastAdmin(request[r].user))
  /\ UNCHANGED <<users, tokens, changes, met>>

WriteRevokingRole(r) == \* mutant: a new password revokes nothing
  LET q == request[r]
  IN /\ q.at = "write"
     /\ IF Has(q.user)
        THEN /\ users' = [users EXCEPT ![q.user] = [role |-> q.role, pw |-> @.pw + q.pw]]
             /\ IF q.role # q.old.role THEN request' = [request EXCEPT ![r].at = "revoke"] ELSE Done(r)
        ELSE Done(r) /\ UNCHANGED users
     /\ UNCHANGED <<tokens, changes, met, unlisted>>

(* Sessions are revoked after the write, and only if this request saw the   *)
(* role or the password change.                                             *)
Write(r) ==
  LET q == request[r]
  IN /\ q.at = "write"
     /\ IF Has(q.user)
        THEN /\ users' = [users EXCEPT ![q.user] = [role |-> q.role, pw |-> @.pw + q.pw]]
             /\ IF q.role # q.old.role \/ q.pw = 1 THEN request' = [request EXCEPT ![r].at = "revoke"] ELSE Done(r)
        ELSE Done(r) /\ UNCHANGED users
     /\ UNCHANGED <<tokens, changes, met, unlisted>>

Delete(r) ==
  LET q == request[r]
  IN /\ q.at = "delete"
     /\ users' = [users EXCEPT ![q.user] = NoUser]
     /\ IF Has(q.user) THEN request' = [request EXCEPT ![r].at = "revoke"] ELSE Done(r)
     /\ UNCHANGED <<tokens, changes, met, unlisted>>

(* Update and Delete may fail: the request ends, and nothing is revoked.    *)
StatementFails(r) ==
  /\ request[r].at \in {"write", "delete"}
  /\ Done(r)
  /\ UNCHANGED <<users, tokens, changes, met, unlisted>>

revokeUser(r) ==
  /\ request[r].at = "revoke"
  /\ tokens' = {t \in tokens : t.user # request[r].user}
  /\ Done(r)
  /\ UNCHANGED <<users, changes, met, unlisted>>

(* Tokens are not persisted; ensureSeedAdmin acts if no account is left.    *)
ensureSeedAdmin(us) == IF \A u \in Users : us[u] = NoUser THEN [us EXCEPT ![Root] = [role |-> Admin, pw |-> 1]] ELSE us

RestartServer ==
  /\ tokens' = {}
  /\ request' = [r \in Requests |-> NoRequest]
  /\ users' = ensureSeedAdmin(users)
  /\ UNCHANGED <<changes, met, unlisted>>

AccountsNext ==
  \/ \E u \in Users : \E role \in Roles : handleCreateUser(u, role)
  \/ \E r \in Requests :
       \/ \E u \in Users : Login(r, u) \/ handleDeleteUser(r, u)
       \/ \E u \in Users : \E role \in Roles : \E newPw \in BOOLEAN : handleUpdateUser(r, u, role, newPw)
       \/ Issue(r) \/ Check(r) \/ Write(r) \/ Delete(r) \/ StatementFails(r) \/ revokeUser(r)
  \/ \E t \in tokens : Revoke(t)
  \/ RestartServer

AccountsSpec == AccountsInit /\ [][AccountsNext]_accountVars

-----------------------------------------------------------------------------
AccountsTypeOK ==
  /\ \A u \in Users : users[u].role \in Roles \cup {"none"}
  /\ \A t \in tokens : t.user \in Users /\ t.role \in Roles

(* "Guard against demoting/locking out the last admin" (api/users.go 92):   *)
(* an admin is left, unless requests met on their way, or one on the last   *)
(* admin could not list the accounts, which the guard takes for leave to go *)
(* on (users.go 94, 134).  And a                                            *)
(* token tells its account's role and was issued for its password, once the *)
(* request that changed them has revoked the older ones, unless another one *)
(* changed the account, or a login read it, meanwhile (users.go 119-122).   *)
AccountsSound ==
  /\ met = {} /\ ~unlisted => \E u \in Users : users[u].role = Admin
  /\ \A t \in tokens : t.user \notin met =>
       \/ users[t.user] = [role |-> t.role, pw |-> t.pw]
       \/ \E r \in Requests : request[r].at = "revoke" /\ request[r].user = t.user
=============================================================================
