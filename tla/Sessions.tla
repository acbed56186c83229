------------------------------ MODULE Sessions ------------------------------
(***************************************************************************)
(* The session life cycle of the backend: the users and refresh_tokens     *)
(* tables, and the HTTP requests that work on them concurrently            *)
(*                                                                         *)
(*   refresh   POST /auth/refresh     AuthService.RefreshTokens            *)
(*   logout    POST /auth/logout      AuthService.Logout                   *)
(*   login     the part of the OAuth callback that follows the GitHub      *)
(*             exchange: UpsertUser, then IssueTokenPair                   *)
(*                                                                         *)
(* One action is one SQL statement, because that is what PostgreSQL        *)
(* executes atomically; every other request may run between two of them.   *)
(* Statements run under READ COMMITTED, the default the pool never         *)
(* changes: a statement sees the rows committed when it starts, an UPDATE  *)
(* waits for a row another transaction has changed and then evaluates its  *)
(* WHERE clause again on the committed version.                            *)
(*                                                                         *)
(* The refresh token a request mints is random and so never minted twice:  *)
(* it is named by the request.  A user's id is named by the GitHub id      *)
(* UpsertUser keys the row on.                                             *)
(***************************************************************************)
EXTENDS Integers, FiniteSets

CONSTANTS Requests,   \* the requests served, numbered as they come
          GitHubIds,  \* the GitHub accounts that may log in
          Managed,    \* the accounts whose rows an operator changes
          MaxWrites,  \* how often an operator writes to users at most
          NoUser,     \* no row for this account in users
          NoRow,      \* no row for this token in refresh_tokens
          NoRole      \* the role of a request that has not determined one

Roles == {"admin", "analyst"}

User == [role : Roles, is_active : BOOLEAN]

RefreshToken == [user_id : GitHubIds, used : BOOLEAN]

ASSUME RequestsAssumption == Requests \subseteq Nat /\ MaxWrites \in Nat

ASSUME SentinelAssumption == /\ NoUser \notin User
                             /\ NoRow \notin RefreshToken
                             /\ NoRole \notin Roles
                             /\ NoUser \notin GitHubIds

VARIABLES users,           \* table users, by GitHub id
          writes,          \* how often an operator has written to it
          refresh_tokens,  \* table refresh_tokens, committed rows, by token
          expired,         \* the tokens whose expires_at has passed
          pc,              \* where each request stands
          op,              \* what each request does
          tok,             \* the refresh token a request presents
          uid,             \* the user a request works for
          role,            \* the role it puts in the access token's claims
          snap,            \* the rows its UPDATE has found and is yet to lock
          held,            \* the rows its open transaction has updated
          prior,           \* (history) requests answered 200 before it began
          seen             \* (history) roles its user's row had while it ran

vars == <<users, writes, refresh_tokens, expired, pc, op, tok, uid, role, snap, held,
          prior, seen>>

Working == {"lookup", "invalidate", "user", "count", "upsert", "snapshot",
            "lock", "commit"}
Answered == {"ok", "denied", "failed"}   \* 200, 401, 500

-----------------------------------------------------------------------------

\* Mutant of Valid: a used token passes.
ValidIgnoringUsed(t) == /\ refresh_tokens[t] # NoRow
                        /\ t \notin expired

\* rt == nil || rt.Used || time.Now().After(rt.ExpiresAt), negated.
Valid(t) == /\ refresh_tokens[t] # NoRow
            /\ ~refresh_tokens[t].used
            /\ t \notin expired

\* WHERE user_id = $1 AND used = FALSE
UnusedTokens(g) == {t \in Requests : /\ refresh_tokens[t] # NoRow
                                     /\ refresh_tokens[t].user_id = g
                                     /\ ~refresh_tokens[t].used}

MarkUsed(row) == [user_id |-> row.user_id, used |-> TRUE]

\* Rows another request's open transaction has locked.
LockedAgainst(r) == UNION {held[q] : q \in Requests \ {r}}

\* Mutants of ProposedRole: the first user is counted already; the second
\* user is still taken for the first.
ProposedRoleAfterInsert ==
  IF Cardinality({g \in GitHubIds : users[g] # NoUser}) = 1
    THEN "admin" ELSE "analyst"

ProposedRoleUpToOne ==
  IF Cardinality({g \in GitHubIds : users[g] # NoUser}) <= 1
    THEN "admin" ELSE "analyst"

\* SELECT COUNT(*) FROM users, and the role UpsertUser derives from it.
ProposedRole ==
  IF \A g \in GitHubIds : users[g] = NoUser THEN "admin" ELSE "analyst"

\* A client presents a token a request has handed out, or a string that is
\* no token: the request's own name, whose row cannot exist when it looks.
Presentable(r) ==
  {q \in Requests : pc[q] = "ok" /\ op[q] \in {"refresh", "login"}} \cup {r}

-----------------------------------------------------------------------------

Init == /\ users = [g \in GitHubIds |-> NoUser]
        /\ writes = 0
        /\ refresh_tokens = [t \in Requests |-> NoRow]
        /\ expired = {}
        /\ pc = [r \in Requests |-> "idle"]
        /\ op = [r \in Requests |-> "none"]
        /\ tok = [r \in Requests |-> r]
        /\ uid = [r \in Requests |-> NoUser]
        /\ role = [r \in Requests |-> NoRole]
        /\ snap = [r \in Requests |-> {}]
        /\ held = [r \in Requests |-> {}]
        /\ prior = [r \in Requests |-> {}]
        /\ seen = [r \in Requests |-> {}]

Goto(r, p) == pc' = [pc EXCEPT ![r] = p]

\* The answer of a statement can be lost: the request ends in 500 although
\* the statement took effect.  (When the backend commits after the handler
\* has given up, the request counts as working until then.)
GotoOrLost(r, p) == \E q \in {p, "failed"} : Goto(r, q)

\* (history) The role a user's row has, if there is one; and what those who
\* work for the user see when it is written.
RoleOf(g) == {ro \in Roles : users[g] # NoUser /\ users[g].role = ro}

Show(g, ro) == seen' = [r \in Requests |->
                          IF pc[r] \in Working /\ op[r] # "logout" /\ uid[r] = g
                            THEN seen[r] \cup {ro} ELSE seen[r]]

Start(r, o, first) == /\ pc[r] = "idle"
                      /\ \A q \in Requests : q < r => pc[q] # "idle"
                      /\ Goto(r, first)
                      /\ op' = [op EXCEPT ![r] = o]
                      /\ prior' = [prior EXCEPT ![r] = {q \in Requests : pc[q] = "ok"}]
                      /\ UNCHANGED <<writes, users, refresh_tokens, expired, role, snap, held>>

StartRefresh(r, t) == /\ t \in Presentable(r)
                      /\ Start(r, "refresh", "lookup")
                      /\ tok' = [tok EXCEPT ![r] = t]
                      /\ UNCHANGED <<uid, seen>>

StartLogout(r, t) == /\ t \in Presentable(r)
                     /\ Start(r, "logout", "lookup")
                     /\ tok' = [tok EXCEPT ![r] = t]
                     /\ UNCHANGED <<uid, seen>>

StartLogin(r, g) == /\ Start(r, "login", "count")
                    /\ uid' = [uid EXCEPT ![r] = g]
                    /\ seen' = [seen EXCEPT ![r] = RoleOf(g)]
                    /\ UNCHANGED tok

-----------------------------------------------------------------------------
(* RefreshTokens and Logout.                                               *)

\* GetRefreshTokenByHash and the check of the row it returns.
Lookup(r) ==
  /\ pc[r] = "lookup"
  /\ IF Valid(tok[r])
       THEN /\ Goto(r, "invalidate")
            /\ uid' = [uid EXCEPT ![r] = refresh_tokens[tok[r]].user_id]
            /\ seen' = [seen EXCEPT ![r] = RoleOf(refresh_tokens[tok[r]].user_id)]
       ELSE /\ Goto(r, "denied")
            /\ UNCHANGED <<uid, seen>>
  /\ UNCHANGED <<writes, users, refresh_tokens, expired, op, tok, role, snap, held, prior>>

\* Mutant of Invalidate: a logout forgets to mark the token.
InvalidateForRefresh(r) ==
  /\ pc[r] = "invalidate"
  /\ tok[r] \notin LockedAgainst(r)
  /\ refresh_tokens' = IF op[r] = "logout" THEN refresh_tokens
                       ELSE [refresh_tokens EXCEPT ![tok[r]] = MarkUsed(@)]
  /\ GotoOrLost(r, IF op[r] = "logout" THEN "ok" ELSE "user")
  /\ UNCHANGED <<writes, users, expired, op, tok, uid, role, snap, held, prior, seen>>

\* InvalidateRefreshToken: UPDATE ... SET used = TRUE WHERE token_hash = $1.
\* The WHERE clause does not look at used.
Invalidate(r) ==
  /\ pc[r] = "invalidate"
  /\ tok[r] \notin LockedAgainst(r)
  /\ refresh_tokens' = [refresh_tokens EXCEPT ![tok[r]] = MarkUsed(@)]
  /\ GotoOrLost(r, IF op[r] = "logout" THEN "ok" ELSE "user")
  /\ UNCHANGED <<writes, users, expired, op, tok, uid, role, snap, held, prior, seen>>

\* GetUserByID: a user that is gone is an error, a disabled one is refused;
\* otherwise the claims take the role the row has now.
LoadUser(r) ==
  LET u == users[uid[r]] IN
  /\ pc[r] = "user"
  /\ IF u = NoUser
       THEN Goto(r, "failed") /\ UNCHANGED role
       ELSE /\ Goto(r, IF u.is_active THEN "snapshot" ELSE "denied")
            /\ role' = [role EXCEPT ![r] = u.role]
  /\ UNCHANGED <<writes, users, refresh_tokens, expired, op, tok, uid, snap, held, prior, seen>>

-----------------------------------------------------------------------------
(* Login: UpsertUser.                                                      *)

\* Mutant of Count: u.Role is left unset.
CountOnly(r) ==
  /\ pc[r] = "count"
  /\ Goto(r, "upsert")
  /\ UNCHANGED <<writes, users, refresh_tokens, expired, op, tok, uid, role, snap, held, prior, seen>>

\* SELECT COUNT(*) FROM users decides the role to insert with.
Count(r) ==
  /\ pc[r] = "count"
  /\ Goto(r, "upsert")
  /\ role' = [role EXCEPT ![r] = ProposedRole]
  /\ UNCHANGED <<writes, users, refresh_tokens, expired, op, tok, uid, snap, held, prior, seen>>

\* Mutant of Upsert: RETURNING leaves the role out.
UpsertKeepingProposal(r) ==
  LET g == uid[r] IN
  /\ pc[r] = "upsert"
  /\ IF users[g] = NoUser
       THEN /\ users' = [users EXCEPT ![g] = [role |-> role[r], is_active |-> TRUE]]
            /\ Show(g, role[r])
       ELSE UNCHANGED <<users, seen>>
  /\ GotoOrLost(r, "snapshot")
  /\ UNCHANGED <<writes, refresh_tokens, expired, op, tok, uid, role, snap, held, prior>>

\* INSERT ... ON CONFLICT (github_id) DO UPDATE ... RETURNING role: a row that
\* exists keeps its role and is_active, and the request takes the row's role.
Upsert(r) ==
  LET g == uid[r] IN
  /\ pc[r] = "upsert"
  /\ IF users[g] = NoUser
       THEN /\ users' = [users EXCEPT ![g] = [role |-> role[r], is_active |-> TRUE]]
            /\ Show(g, role[r])
            /\ UNCHANGED role
       ELSE /\ role' = [role EXCEPT ![r] = users[g].role]
            /\ UNCHANGED <<users, seen>>
  /\ GotoOrLost(r, "snapshot")
  /\ UNCHANGED <<writes, refresh_tokens, expired, op, tok, uid, snap, held, prior>>

-----------------------------------------------------------------------------
(* IssueTokenPair: SaveRefreshToken, one transaction.                      *)

\* UPDATE refresh_tokens SET used = TRUE WHERE user_id = $1 AND used = FALSE
\* finds its rows among those committed when the statement starts.
Snapshot(r) ==
  /\ pc[r] = "snapshot"
  /\ Goto(r, "lock")
  /\ snap' = [snap EXCEPT ![r] = UnusedTokens(uid[r])]
  /\ UNCHANGED <<writes, users, refresh_tokens, expired, op, tok, uid, role, held, prior, seen>>

\* It waits until no other transaction has them locked, and updates those
\* whose committed version still satisfies the WHERE clause.
LockRows(r) ==
  /\ pc[r] = "lock"
  /\ snap[r] \cap LockedAgainst(r) = {}
  /\ Goto(r, "commit")
  /\ held' = [held EXCEPT ![r] = snap[r] \cap UnusedTokens(uid[r])]
  /\ snap' = [snap EXCEPT ![r] = {}]
  /\ UNCHANGED <<writes, users, refresh_tokens, expired, op, tok, uid, role, prior, seen>>

\* Mutant of Commit: the UPDATE runs outside the transaction and fails unseen.
CommitInsertOnly(r) ==
  /\ pc[r] = "commit"
  /\ refresh_tokens' = [refresh_tokens EXCEPT ![r] = [user_id |-> uid[r], used |-> FALSE]]
  /\ held' = [held EXCEPT ![r] = {}]
  /\ GotoOrLost(r, "ok")
  /\ seen' = [seen EXCEPT ![r] = {}]
  /\ UNCHANGED <<writes, users, expired, op, tok, uid, role, snap, prior>>

\* INSERT of the new row and COMMIT: the updated rows and the new one become
\* visible together and the locks are released.
Commit(r) ==
  /\ pc[r] = "commit"
  /\ refresh_tokens' =
       [t \in Requests |->
          IF t = r THEN [user_id |-> uid[r], used |-> FALSE]
          ELSE IF t \in held[r] THEN MarkUsed(refresh_tokens[t])
          ELSE refresh_tokens[t]]
  /\ held' = [held EXCEPT ![r] = {}]
  /\ GotoOrLost(r, "ok")
  /\ seen' = [seen EXCEPT ![r] = {}]
  /\ UNCHANGED <<writes, users, expired, op, tok, uid, role, snap, prior>>

\* Mutant of Fail: no deferred Rollback, the transaction stays open.
FailWithoutRollback(r) ==
  /\ pc[r] \in Working
  /\ Goto(r, "failed")
  /\ snap' = [snap EXCEPT ![r] = {}]
  /\ seen' = [seen EXCEPT ![r] = {}]
  /\ UNCHANGED <<writes, users, refresh_tokens, expired, op, tok, uid, role, held, prior>>

\* A statement fails, the client's context is cancelled or the process dies:
\* the open transaction is rolled back and nothing done since is kept.
Fail(r) ==
  /\ pc[r] \in Working
  /\ Goto(r, "failed")
  /\ snap' = [snap EXCEPT ![r] = {}]
  /\ held' = [held EXCEPT ![r] = {}]
  /\ seen' = [seen EXCEPT ![r] = {}]
  /\ UNCHANGED <<writes, users, refresh_tokens, expired, op, tok, uid, role, prior>>

-----------------------------------------------------------------------------
(* The environment.                                                        *)

\* Five minutes pass.
Expire(t) == /\ refresh_tokens[t] # NoRow
             /\ t \notin expired
             /\ expired' = expired \cup {t}
             /\ UNCHANGED <<writes, users, refresh_tokens, pc, op, tok, uid, role, snap,
                            held, prior, seen>>

\* An operator writes to the row of an account: disables or enables it ...
WriteRow(g, u) == /\ g \in Managed /\ users[g] # NoUser
                  /\ writes < MaxWrites /\ writes' = writes + 1
                  /\ users' = [users EXCEPT ![g] = u]
                  /\ UNCHANGED <<refresh_tokens, expired, pc, op, tok, uid, role, snap,
                                 held, prior>>

SetActive(g) == /\ WriteRow(g, [users[g] EXCEPT !.is_active = ~ @])
                /\ UNCHANGED seen

\* ... or changes its role.
SetRole(g, ro) == /\ WriteRow(g, [users[g] EXCEPT !.role = ro])
                  /\ users[g].role # ro
                  /\ Show(g, ro)

Step(r) == \/ Lookup(r) \/ Invalidate(r) \/ LoadUser(r)
           \/ Count(r) \/ Upsert(r)
           \/ Snapshot(r) \/ LockRows(r) \/ Commit(r)

Next == \/ \E r \in Requests : \/ \E t \in Requests : \/ StartRefresh(r, t)
                                                     \/ StartLogout(r, t)
                               \/ \E g \in GitHubIds : StartLogin(r, g)
                               \/ Step(r)
                               \/ Fail(r)
        \/ \E t \in Requests : Expire(t)
        \/ \E g \in GitHubIds : \/ SetActive(g)
                               \/ \E ro \in Roles : SetRole(g, ro)

Spec == Init /\ [][Next]_vars

\* net/http runs every handler to its end and PostgreSQL serves every
\* connection: a request that can take its next step eventually does.
FairSpec == Spec /\ \A r \in Requests : WF_vars(Step(r))

-----------------------------------------------------------------------------
(* Properties.                                                             *)

\* Every variable has its type.
TypeOK == /\ users \in [GitHubIds -> User \cup {NoUser}]
          /\ writes \in Nat
          /\ refresh_tokens \in [Requests -> RefreshToken \cup {NoRow}]
          /\ expired \subseteq Requests
          /\ pc \in [Requests -> {"idle"} \cup Working \cup Answered]
          /\ op \in [Requests -> {"none", "refresh", "logout", "login"}]
          /\ tok \in [Requests -> Requests]
          /\ uid \in [Requests -> GitHubIds \cup {NoUser}]
          /\ role \in [Requests -> Roles \cup {NoRole}]
          /\ snap \in [Requests -> SUBSET Requests]
          /\ held \in [Requests -> SUBSET Requests]
          /\ prior \in [Requests -> SUBSET Requests]
          /\ seen \in [Requests -> SUBSET Roles]

\* Saving a token ends every session whose token was handed out before the
\* saving request began, even one that is being refreshed at the same time:
\* two tokens of a user are unused together only if the requests that minted
\* them overlapped.
Superseded ==
  \A r \in Requests : \A q \in prior[r] :
    (/\ refresh_tokens[r] # NoRow
     /\ refresh_tokens[q] # NoRow
     /\ refresh_tokens[r].user_id = refresh_tokens[q].user_id)
      => refresh_tokens[q].used

\* The request has got past the check of the token it presented.
Accepted(r) == /\ op[r] \in {"refresh", "logout"}
               /\ pc[r] \in {"invalidate", "user", "snapshot", "lock", "commit", "ok"}

\* A token stays dead: a refresh or a logout is never let past the check when,
\* before it began, another request had been answered that consumed the same
\* token (replay), or that had minted a newer one for the same user.
DeadTokenRefused ==
  \A r \in Requests : Accepted(r) =>
    \A q \in prior[r] :
      /\ ~ (op[q] \in {"refresh", "logout"} /\ tok[q] = tok[r])
      /\ ~ (/\ tok[r] \in prior[q]
            /\ refresh_tokens[q] # NoRow
            /\ refresh_tokens[q].user_id = refresh_tokens[tok[r]].user_id)

\* Somebody has an account, and an admin has one.
IsAdmin(g) == users[g] # NoUser /\ users[g].role = "admin"

AdminIfAnyone == (\E g \in GitHubIds : users[g] # NoUser)
                   => \E g \in GitHubIds : IsAdmin(g)

ByOperator == \E g \in GitHubIds, ro \in Roles : SetRole(g, ro)

\* The system is never without an administrator unless an operator takes the
\* last one away: as soon as anybody has an account an admin has one, however
\* the first logins interleave or fail, and no request changes that.
SomeAdmin == [][AdminIfAnyone /\ ~ ByOperator => AdminIfAnyone']_vars

\* A row is an admin's that was not: an operator's doing, or it is inserted by
\* a login that began before any login had been answered.
AdminMadeEarly ==
  \A g \in GitHubIds :
    (~ IsAdmin(g) /\ IsAdmin(g)')
      => \/ ByOperator
         \/ /\ users[g] = NoUser
            /\ \E r \in Requests : /\ pc[r] = "upsert"
                                   /\ uid[r] = g
                                   /\ \A q \in prior[r] : op[q] # "login"

\* Only logins that were under way together with the very first one can make
\* an admin: the window of UpsertUser's count before insert never reaches a
\* login that began after somebody was told of an account, and no login
\* promotes an account that exists.
NoLateAdmin == [][AdminMadeEarly]_vars

\* A refresh or login that is answered carries a role its history has.
RoleOfRow ==
  \A r \in Requests :
    (pc[r] # "ok" /\ pc'[r] = "ok" /\ op[r] \in {"refresh", "login"})
      => refresh_tokens'[r].user_id = uid[r] /\ role[r] \in seen[r]

\* The access token a request answers with is for the user its refresh token
\* is for, and its role is one the user's row had while the request ran, also
\* when two first logins of one account proposed different roles, and when an
\* operator changes the row meanwhile.
ClaimsMatchRow == [][RoleOfRow]_vars

\* Every request that was started is answered: row locks are always given
\* back, so no refresh, logout or login waits for another one forever.
EveryRequestAnswered ==
  \A r \in Requests : (pc[r] \in Working) ~> (pc[r] \in Answered)

\* What README.md:36 and the comment of SaveRefreshToken (user.go:81) say:
\* one valid refresh token per user at a time.
OneValidTokenPerUser ==
  \A g \in GitHubIds : Cardinality({t \in UnusedTokens(g) : Valid(t)}) <= 1

-----------------------------------------------------------------------------
(* What the tables and requests amount to for the users of the API.        *)

\* The user a saved token belongs to.
Owner == [t \in Requests |-> IF refresh_tokens[t] = NoRow THEN NoUser
                             ELSE refresh_tokens[t].user_id]

\* The saved tokens that Valid refuses.
Dead == {t \in Requests : refresh_tokens[t] # NoRow /\ ~Valid(t)}

\* The answers before a request began that carried a token.
Known == [r \in Requests |-> {q \in prior[r] : op[q] # "logout"}]

\* The token Lookup has let a refresh or logout in with.
LetIn == [r \in Requests |-> IF op[r] # "login" /\ uid[r] # NoUser
                               THEN {tok[r]} ELSE {}]

AnsweredOk == {r \in Requests : pc[r] = "ok"}

Store == INSTANCE TokenStore WITH
  Users <- GitHubIds, NoOwner <- NoUser, owner <- Owner, dead <- Dead,
  known <- Known, accepted <- LetIn, answered <- AnsweredOk

\* The statements, transactions and failures of refresh, logout and login come
\* to no more than the token store promises: whatever interleaves, every step
\* is one of TokenStore's or changes nothing its users can see.
ImplementsTokenStore == Store!Spec
=============================================================================
