--------------------------- MODULE SessionsProofs ---------------------------
(***************************************************************************)
(* Proofs about Sessions, for any set of requests and of accounts.         *)
(*                                                                         *)
(* The inductive invariant IInv has three parts, each inductive given the  *)
(* ones before it: Control (types, and what the place a request has        *)
(* reached says about its other variables), Tokens (what an open           *)
(* SaveRefreshToken still owes, so that its commit leaves no older token   *)
(* unused) and Accounts (where roles come from).                           *)
(***************************************************************************)
EXTENDS Sessions, TLAPS

Grants == {"refresh", "login"}

\* The requests that have determined the user they work for.
HasUser == {"invalidate", "user", "count", "upsert", "snapshot", "lock", "commit"}

OpFitsPc ==
  \A r \in Requests :
    /\ pc[r] = "lookup" => op[r] \in {"refresh", "logout"}
    /\ pc[r] = "invalidate" => op[r] \in {"refresh", "logout"}
    /\ pc[r] = "user" => op[r] = "refresh"
    /\ pc[r] \in {"count", "upsert"} => op[r] = "login"
    /\ pc[r] \in {"snapshot", "lock", "commit"} => op[r] \in Grants

UserFitsPc ==
  \A r \in Requests : /\ pc[r] \in HasUser => uid[r] \in GitHubIds
                      /\ pc[r] = "upsert" => role[r] \in Roles

\* The history variable only names requests that have been answered 200.
PriorAnswered == \A r \in Requests : \A q \in prior[r] : pc[q] = "ok"

\* A row appears with the commit that ends its request and not otherwise; the
\* token a request was accepted with has one, and so have the locked ones.
RowsFitPc ==
  \A t \in Requests :
    /\ refresh_tokens[t] # NoRow => /\ pc[t] \in {"ok", "failed"}
                                    /\ op[t] \in Grants
                                    /\ refresh_tokens[t].user_id = uid[t]
    /\ (pc[t] = "ok" /\ op[t] \in Grants) => refresh_tokens[t] # NoRow
    /\ Accepted(t) => refresh_tokens[tok[t]] # NoRow
    /\ \A q \in held[t] : refresh_tokens[q] # NoRow

Control == TypeOK /\ OpFitsPc /\ UserFitsPc /\ PriorAnswered /\ RowsFitPc

\* The older tokens the open transaction of r has to mark.
Owed(r) == prior[r] \cap UnusedTokens(uid[r])

SnapCovers == \A r \in Requests : pc[r] = "lock" => Owed(r) \subseteq snap[r]

HeldCovers == \A r \in Requests : pc[r] = "commit" => Owed(r) \subseteq held[r]

\* Past InvalidateRefreshToken the presented token is a used one.
Consumed ==
  \A r \in Requests :
    (Accepted(r) /\ pc[r] # "invalidate") => refresh_tokens[tok[r]].used

Tokens == SnapCovers /\ HeldCovers /\ Superseded /\ Consumed /\ DeadTokenRefused

\* An analyst is proposed only when somebody has an account, an admin only
\* when no login had been answered before.
Proposals ==
  \A r \in Requests :
    pc[r] = "upsert" =>
      \/ role[r] = "analyst" /\ \E g \in GitHubIds : users[g] # NoUser
      \/ role[r] = "admin" /\ \A q \in prior[r] : op[q] # "login"

\* A request that issues tokens, or has, is for a user with an account.
HasAccount ==
  \A r \in Requests :
    (pc[r] \in {"snapshot", "lock", "commit", "ok"} /\ op[r] \in Grants)
      => uid[r] \in GitHubIds /\ users[uid[r]] # NoUser

\* The history of a request under way includes the role its user has now ...
Watching ==
  \A r \in Requests : (pc[r] \in HasUser /\ op[r] \in Grants) => RoleOf(uid[r]) \subseteq seen[r]

\* ... and the one it will put in the claims.
Claims ==
  \A r \in Requests :
    (pc[r] \in {"snapshot", "lock", "commit"} /\ op[r] \in Grants) => role[r] \in seen[r]

Accounts == Proposals /\ HasAccount /\ Watching /\ Claims

IInv == Control /\ Tokens /\ Accounts

-----------------------------------------------------------------------------

\* The initial states satisfy the inductive invariant.
LEMMA InitIInv == Init => IInv
<1> SUFFICES ASSUME Init PROVE IInv
  OBVIOUS
<1> USE SentinelAssumption DEF Init
<1>1. Control
  BY DEF Control, TypeOK, Accepted, OpFitsPc, UserFitsPc, PriorAnswered, RowsFitPc, Working, Answered, HasUser
<1>2. Tokens
  BY DEF Tokens, SnapCovers, HeldCovers, Superseded, Consumed, DeadTokenRefused, Accepted
<1>3. Accounts
  BY DEF Accounts, Proposals, HasAccount, Watching, Claims, HasUser
<1> QED
  BY <1>1, <1>2, <1>3 DEF IInv

\* What marking a row used does to it.
LEMMA MarkUsedRow ==
  ASSUME NEW row \in RefreshToken
  PROVE  /\ MarkUsed(row) \in RefreshToken
         /\ MarkUsed(row) # NoRow
         /\ MarkUsed(row).user_id = row.user_id
         /\ MarkUsed(row).used
<1>1. MarkUsed(row) \in RefreshToken
  BY DEF RefreshToken, MarkUsed
<1>2. MarkUsed(row) # NoRow
  BY <1>1, SentinelAssumption
<1>3. MarkUsed(row).user_id = row.user_id
  BY DEF MarkUsed
<1>4. MarkUsed(row).used
  BY DEF MarkUsed
<1> QED
  BY <1>1, <1>2, <1>3, <1>4

\* Where a request stands after a statement whose answer may be lost.
MovedTo(r, p) == /\ pc' \in [Requests -> {"idle"} \cup Working \cup Answered]
                 /\ pc'[r] \in {p, "failed"}
                 /\ \A q \in Requests : q # r => pc'[q] = pc[q]

\* What Goto, or a commit whose answer is lost, does to the place of a request:
\* it moves that request and no other.
LEMMA GotoOrLostEffect ==
  ASSUME Control, NEW r \in Requests, NEW p \in Working \cup Answered, GotoOrLost(r, p)
  PROVE  MovedTo(r, p)
BY DEF Control, TypeOK, GotoOrLost, Goto, MovedTo, Answered

\* What InvalidateRefreshToken does to the table: no row appears, disappears or
\* changes hands, none becomes unused, and the presented token's is used.
TokenConsumed(r) ==
  /\ refresh_tokens' \in [Requests -> RefreshToken \cup {NoRow}]
  /\ \A t \in Requests :
       /\ refresh_tokens'[t] = NoRow <=> refresh_tokens[t] = NoRow
       /\ refresh_tokens[t] # NoRow =>
            /\ refresh_tokens'[t].user_id = refresh_tokens[t].user_id
            /\ refresh_tokens[t].used => refresh_tokens'[t].used
  /\ refresh_tokens'[tok[r]].used

\* InvalidateRefreshToken has that effect.
LEMMA InvalidateEffect ==
  ASSUME Control, NEW r \in Requests, Invalidate(r)
  PROVE  TokenConsumed(r)
<1>1. /\ tok[r] \in Requests
      /\ refresh_tokens[tok[r]] \in RefreshToken
  BY DEF Control, TypeOK, RowsFitPc, OpFitsPc, Accepted, Invalidate
<1>2. /\ refresh_tokens' = [refresh_tokens EXCEPT ![tok[r]] = MarkUsed(refresh_tokens[tok[r]])]
      /\ refresh_tokens \in [Requests -> RefreshToken \cup {NoRow}]
  BY DEF Control, TypeOK, Invalidate
<1>3. refresh_tokens[tok[r]] # NoRow
  BY <1>1, SentinelAssumption
<1> QED
  BY <1>1, <1>2, <1>3, MarkUsedRow DEF TokenConsumed

\* What the commit of SaveRefreshToken does to it: the row of the new token
\* appears, and the rows the transaction holds become used.
TokenSaved(r) ==
  /\ refresh_tokens' \in [Requests -> RefreshToken \cup {NoRow}]
  /\ refresh_tokens[r] = NoRow
  /\ refresh_tokens'[r] # NoRow
  /\ refresh_tokens'[r].user_id = uid[r]
  /\ \A t \in Requests \ {r} :
       /\ refresh_tokens'[t] = NoRow <=> refresh_tokens[t] = NoRow
       /\ refresh_tokens[t] # NoRow =>
            /\ refresh_tokens'[t].user_id = refresh_tokens[t].user_id
            /\ refresh_tokens[t].used => refresh_tokens'[t].used
            /\ t \in held[r] => refresh_tokens'[t].used

\* The commit has that effect.
LEMMA CommitEffect ==
  ASSUME Control, NEW r \in Requests, Commit(r)
  PROVE  TokenSaved(r)
<1> DEFINE row == [user_id |-> uid[r], used |-> FALSE]
<1>1. /\ refresh_tokens' = [t \in Requests |->
            IF t = r THEN row
            ELSE IF t \in held[r] THEN MarkUsed(refresh_tokens[t])
            ELSE refresh_tokens[t]]
      /\ refresh_tokens \in [Requests -> RefreshToken \cup {NoRow}]
  BY DEF Control, TypeOK, Commit
<1>2. uid[r] \in GitHubIds
  BY DEF Control, UserFitsPc, HasUser, Commit
<1>3. row \in RefreshToken
  BY <1>2 DEF RefreshToken
<1>4. row.user_id = uid[r]
  OBVIOUS
<1> HIDE DEF row
<1>5. row # NoRow
  BY <1>3, SentinelAssumption
<1>6. \A t \in held[r] : t \in Requests /\ refresh_tokens[t] \in RefreshToken
  BY DEF Control, TypeOK, RowsFitPc
<1>7. refresh_tokens[r] = NoRow
  BY DEF Control, RowsFitPc, Commit
<1>8. \A t \in held[r] : refresh_tokens[t] # NoRow
  BY <1>6, SentinelAssumption
<1> QED
  BY <1>1, <1>3, <1>4, <1>5, <1>6, <1>7, <1>8, MarkUsedRow DEF TokenSaved

\* InvalidateRefreshToken preserves Control.
LEMMA InvalidateControl ==
  ASSUME Control, NEW r \in Requests, Invalidate(r)
  PROVE  Control'
<1>1. /\ pc[r] = "invalidate"
      /\ UNCHANGED <<users, writes, expired, op, tok, uid, role, snap, held, prior, seen>>
  BY DEF Invalidate
<1>2. op[r] \in {"refresh", "logout"}
  BY <1>1 DEF Control, OpFitsPc
<1>3. MovedTo(r, IF op[r] = "logout" THEN "ok" ELSE "user")
  <2>1. (IF op[r] = "logout" THEN "ok" ELSE "user") \in Working \cup Answered
    BY DEF Working, Answered
  <2> QED
    BY <2>1, GotoOrLostEffect DEF Invalidate
<1>4. /\ pc' \in [Requests -> {"idle"} \cup Working \cup Answered]
      /\ \A q \in Requests : q # r => pc'[q] = pc[q]
      /\ \/ pc'[r] = "user" /\ op[r] = "refresh"
         \/ pc'[r] = "ok" /\ op[r] = "logout"
         \/ pc'[r] = "failed"
  BY <1>2, <1>3 DEF MovedTo
<1>5. TokenConsumed(r)
  BY InvalidateEffect
<1>6. TypeOK'
  BY <1>1, <1>4, <1>5 DEF Control, TypeOK, TokenConsumed
<1>7. OpFitsPc'
  BY <1>1, <1>4 DEF Control, OpFitsPc, Grants
<1>8. UserFitsPc'
  BY <1>1, <1>4 DEF Control, UserFitsPc, HasUser
<1>9. PriorAnswered'
  BY <1>1, <1>4 DEF Control, TypeOK, PriorAnswered
<1>10. RowsFitPc'
  <2> SUFFICES ASSUME NEW t \in Requests PROVE
        /\ refresh_tokens'[t] # NoRow => /\ pc'[t] \in {"ok", "failed"}
                                         /\ op'[t] \in Grants
                                         /\ refresh_tokens'[t].user_id = uid'[t]
        /\ (pc'[t] = "ok" /\ op'[t] \in Grants) => refresh_tokens'[t] # NoRow
        /\ Accepted(t)' => refresh_tokens'[tok'[t]] # NoRow
        /\ \A q \in held'[t] : refresh_tokens'[q] # NoRow
    BY DEF RowsFitPc
  <2>1. /\ refresh_tokens[t] # NoRow => /\ pc[t] \in {"ok", "failed"}
                                        /\ op[t] \in Grants
                                        /\ refresh_tokens[t].user_id = uid[t]
        /\ (pc[t] = "ok" /\ op[t] \in Grants) => refresh_tokens[t] # NoRow
        /\ Accepted(t) => refresh_tokens[tok[t]] # NoRow
        /\ \A q \in held[t] : refresh_tokens[q] # NoRow
        /\ tok[t] \in Requests /\ held[t] \subseteq Requests
    BY DEF Control, RowsFitPc, TypeOK
  <2>2. \A q \in Requests : refresh_tokens'[q] = NoRow <=> refresh_tokens[q] = NoRow
    BY <1>5 DEF TokenConsumed
  <2>3. Accepted(r) /\ (Accepted(t)' => Accepted(t))
    BY <1>1, <1>2, <1>4 DEF Accepted
  <2>4. refresh_tokens[t] # NoRow
          => t # r /\ refresh_tokens'[t].user_id = refresh_tokens[t].user_id
    BY <1>1, <1>5, <2>1 DEF TokenConsumed
  <2>5. (pc'[t] = "ok" /\ op'[t] \in Grants) => t # r
    BY <1>1, <1>4 DEF Grants
  <2> QED
    BY <1>1, <1>4, <2>1, <2>2, <2>3, <2>4, <2>5
<1> QED
  BY <1>6, <1>7, <1>8, <1>9, <1>10 DEF Control

\* The commit of SaveRefreshToken preserves Control.
LEMMA CommitControl ==
  ASSUME Control, NEW r \in Requests, Commit(r)
  PROVE  Control'
<1>1. /\ pc[r] = "commit"
      /\ held' = [held EXCEPT ![r] = {}]
      /\ seen' = [seen EXCEPT ![r] = {}]
      /\ UNCHANGED <<users, writes, expired, op, tok, uid, role, snap, prior>>
  BY DEF Commit
<1>2. op[r] \in Grants
  BY <1>1 DEF Control, OpFitsPc
<1>3. MovedTo(r, "ok")
  <2>1. "ok" \in Working \cup Answered
    BY DEF Working, Answered
  <2> QED
    BY <2>1, GotoOrLostEffect DEF Commit
<1>4. /\ pc' \in [Requests -> {"idle"} \cup Working \cup Answered]
      /\ \A q \in Requests : q # r => pc'[q] = pc[q]
      /\ pc'[r] \in {"ok", "failed"}
  BY <1>3 DEF MovedTo
<1>5. TokenSaved(r)
  BY CommitEffect
<1>6. TypeOK'
  BY <1>1, <1>4, <1>5 DEF Control, TypeOK, TokenSaved
<1>7. OpFitsPc'
  BY <1>1, <1>4 DEF Control, OpFitsPc
<1>8. UserFitsPc'
  BY <1>1, <1>4 DEF Control, UserFitsPc, HasUser
<1>9. PriorAnswered'
  BY <1>1, <1>4 DEF Control, TypeOK, PriorAnswered
<1>10. RowsFitPc'
  <2> SUFFICES ASSUME NEW t \in Requests PROVE
        /\ refresh_tokens'[t] # NoRow => /\ pc'[t] \in {"ok", "failed"}
                                         /\ op'[t] \in Grants
                                         /\ refresh_tokens'[t].user_id = uid'[t]
        /\ (pc'[t] = "ok" /\ op'[t] \in Grants) => refresh_tokens'[t] # NoRow
        /\ Accepted(t)' => refresh_tokens'[tok'[t]] # NoRow
        /\ \A q \in held'[t] : refresh_tokens'[q] # NoRow
    BY DEF RowsFitPc
  <2>1. /\ refresh_tokens[t] # NoRow => /\ pc[t] \in {"ok", "failed"}
                                        /\ op[t] \in Grants
                                        /\ refresh_tokens[t].user_id = uid[t]
        /\ (pc[t] = "ok" /\ op[t] \in Grants) => refresh_tokens[t] # NoRow
        /\ Accepted(t) => refresh_tokens[tok[t]] # NoRow
        /\ \A q \in held[t] : refresh_tokens[q] # NoRow
        /\ tok[t] \in Requests /\ held[t] \subseteq Requests
    BY DEF Control, RowsFitPc, TypeOK
  <2>2. \A q \in Requests : refresh_tokens[q] # NoRow => refresh_tokens'[q] # NoRow
    BY <1>5 DEF TokenSaved
  <2>3. Accepted(t)' => Accepted(t)
    BY <1>1, <1>4 DEF Accepted
  <2>4. \A q \in held'[t] : refresh_tokens'[q] # NoRow
    <3>1. held'[t] \subseteq held[t]
      BY <1>1 DEF Control, TypeOK
    <3> QED
      BY <3>1, <2>1, <2>2
  <2>5. CASE t = r
    BY <1>1, <1>2, <1>4, <1>5, <2>1, <2>2, <2>3, <2>4, <2>5 DEF TokenSaved
  <2>6. CASE t # r
    BY <1>1, <1>4, <1>5, <2>1, <2>2, <2>3, <2>4, <2>6 DEF TokenSaved
  <2> QED
    BY <2>5, <2>6
<1> QED
  BY <1>6, <1>7, <1>8, <1>9, <1>10 DEF Control

\* Control is inductive by itself.
LEMMA ControlStep == Control /\ [Next]_vars => Control'
<1> SUFFICES ASSUME Control, [Next]_vars PROVE Control'
  OBVIOUS
<1>a. ASSUME NEW r \in Requests, Invalidate(r) PROVE Control'
  BY <1>a, InvalidateControl
<1>b. ASSUME NEW r \in Requests, Commit(r) PROVE Control'
  BY <1>b, CommitControl
<1>c. ASSUME NEW r \in Requests, Upsert(r) PROVE MovedTo(r, "snapshot")
  <2>1. "snapshot" \in Working \cup Answered
    BY DEF Working, Answered
  <2> QED
    BY <1>c, <2>1, GotoOrLostEffect DEF Upsert
<1>d. ASSUME NEW r \in Requests, Upsert(r) PROVE users' \in [GitHubIds -> User \cup {NoUser}]
  <2> DEFINE row == [role |-> role[r], is_active |-> TRUE]
  <2>1. users \in [GitHubIds -> User \cup {NoUser}] /\ uid[r] \in GitHubIds /\ role[r] \in Roles
    BY <1>d DEF Upsert, Control, TypeOK, UserFitsPc, HasUser
  <2>2. row \in User
    BY <2>1 DEF User
  <2>3. users' = [users EXCEPT ![uid[r]] = row] \/ users' = users
    BY <1>d DEF Upsert
  <2> HIDE DEF row
  <2> QED
    BY <2>1, <2>2, <2>3
<1>e. ASSUME NEW g \in GitHubIds, NEW u \in User, WriteRow(g, u),
             seen' \in [Requests -> SUBSET Roles]
      PROVE  Control'
  <2>1. TypeOK'
    BY <1>e DEF WriteRow, Control, TypeOK
  <2>2. OpFitsPc' /\ UserFitsPc' /\ PriorAnswered' /\ RowsFitPc'
    BY <1>e DEF WriteRow, Control, OpFitsPc, UserFitsPc, PriorAnswered, RowsFitPc, Accepted
  <2> QED
    BY <2>1, <2>2 DEF Control
<1>f. ASSUME NEW g \in GitHubIds, NEW ro \in Roles, Show(g, ro)
      PROVE  seen' \in [Requests -> SUBSET Roles]
  BY <1>f DEF Show, Control, TypeOK
<1>g. \A g \in GitHubIds : RoleOf(g) \subseteq Roles
  BY DEF RoleOf
<1> USE SentinelAssumption DEF Control, TypeOK, OpFitsPc, UserFitsPc, PriorAnswered,
        RowsFitPc, Accepted, Working, Answered, HasUser, Grants
<1>1. ASSUME NEW r \in Requests, NEW t \in Requests, StartRefresh(r, t) PROVE Control'
  BY <1>1 DEF StartRefresh, Start, Goto, Presentable
<1>2. ASSUME NEW r \in Requests, NEW t \in Requests, StartLogout(r, t) PROVE Control'
  BY <1>2 DEF StartLogout, Start, Goto, Presentable
<1>3. ASSUME NEW r \in Requests, NEW g \in GitHubIds, StartLogin(r, g) PROVE Control'
  BY <1>3, <1>g DEF StartLogin, Start, Goto
<1>4. ASSUME NEW r \in Requests, Lookup(r) PROVE Control'
  <2>1. Valid(tok[r]) => /\ refresh_tokens[tok[r]] # NoRow
                         /\ refresh_tokens[tok[r]].user_id \in GitHubIds
    BY DEF Valid, RefreshToken
  <2>5. seen' \in [Requests -> SUBSET Roles]
    <3>1. CASE Valid(tok[r])
      <4>1. RoleOf(refresh_tokens[tok[r]].user_id) \subseteq Roles
        BY <1>g, <2>1, <3>1
      <4>2. seen' = [seen EXCEPT ![r] = RoleOf(refresh_tokens[tok[r]].user_id)]
        BY <1>4, <3>1 DEF Lookup
      <4> QED
        BY <4>1, <4>2
    <3>2. CASE ~ Valid(tok[r])
      BY <1>4, <3>2 DEF Lookup
    <3> QED
      BY <3>1, <3>2
  <2>2. TypeOK'
    BY <1>4, <2>1, <2>5 DEF Lookup, Goto
  <2>3. OpFitsPc' /\ UserFitsPc' /\ PriorAnswered'
    BY <1>4, <2>1 DEF Lookup, Goto
  <2>4. RowsFitPc'
    BY <1>4, <2>1 DEF Lookup, Goto
  <2> QED
    BY <2>2, <2>3, <2>4
<1>5. ASSUME NEW r \in Requests, Invalidate(r) PROVE Control'
  BY <1>5, <1>a
<1>6. ASSUME NEW r \in Requests, LoadUser(r) PROVE Control'
  <2>1. CASE users[uid[r]] = NoUser
    BY <1>6, <2>1 DEF LoadUser, Goto
  <2>2. CASE users[uid[r]] # NoUser
    <3>1. users[uid[r]].role \in Roles
      BY <1>6, <2>2 DEF LoadUser, User
    <3>2. /\ pc' \in [Requests -> {"idle"} \cup Working \cup Answered]
          /\ pc'[r] \in {"snapshot", "denied"}
          /\ \A q \in Requests : q # r => pc'[q] = pc[q]
      <4> DEFINE p == IF users[uid[r]].is_active THEN "snapshot" ELSE "denied"
      <4>1. pc' = [pc EXCEPT ![r] = p]
        BY <1>6, <2>2 DEF LoadUser, Goto
      <4>2. p \in {"snapshot", "denied"}
        OBVIOUS
      <4> HIDE DEF p
      <4> QED
        BY <4>1, <4>2
    <3>3. TypeOK'
      BY <1>6, <2>2, <3>1, <3>2 DEF LoadUser
    <3>4. OpFitsPc' /\ UserFitsPc' /\ PriorAnswered'
      BY <1>6, <2>2, <3>2 DEF LoadUser
    <3>5. RowsFitPc'
      BY <1>6, <2>2, <3>2 DEF LoadUser
    <3> QED
      BY <3>3, <3>4, <3>5
  <2> QED
    BY <2>1, <2>2
<1>7. ASSUME NEW r \in Requests, Count(r) PROVE Control'
  BY <1>7 DEF Count, Goto, ProposedRole, Roles
<1>8. ASSUME NEW r \in Requests, Upsert(r) PROVE Control'
  <2>1. users' \in [GitHubIds -> User \cup {NoUser}]
    BY <1>8, <1>d
  <2>2. role' \in [Requests -> Roles \cup {NoRole}]
    <3>1. users[uid[r]] # NoUser => users[uid[r]].role \in Roles
      BY <1>8 DEF Upsert, User
    <3> QED
      BY <1>8, <3>1 DEF Upsert
  <2>3. seen' \in [Requests -> SUBSET Roles]
    <3>1. uid[r] \in GitHubIds /\ role[r] \in Roles
      BY <1>8 DEF Upsert
    <3> QED
      BY <1>8, <1>f, <3>1 DEF Upsert
  <2>6. TypeOK'
    BY <1>8, <1>c, <2>1, <2>2, <2>3 DEF MovedTo, Upsert
  <2>7. /\ pc[r] = "upsert" /\ UNCHANGED <<op, uid, prior>>
        /\ \A q \in Requests : q # r => role'[q] = role[q]
    BY <1>8 DEF Upsert
  <2>8. OpFitsPc'
    BY <1>c, <1>8, <2>7 DEF MovedTo
  <2>9. UserFitsPc'
    BY <1>c, <1>8, <2>7 DEF MovedTo
  <2>4. PriorAnswered'
    BY <1>c, <1>8, <2>7 DEF MovedTo
  <2>5. RowsFitPc'
    BY <1>8, <1>c DEF MovedTo, Upsert
  <2> QED
    BY <2>4, <2>5, <2>6, <2>8, <2>9
<1>9. ASSUME NEW r \in Requests, Snapshot(r) PROVE Control'
  BY <1>9 DEF Snapshot, Goto, UnusedTokens
<1>10. ASSUME NEW r \in Requests, LockRows(r) PROVE Control'
  BY <1>10 DEF LockRows, Goto, UnusedTokens
<1>11. ASSUME NEW r \in Requests, Commit(r) PROVE Control'
  BY <1>11, <1>b
<1>12. ASSUME NEW r \in Requests, Fail(r) PROVE Control'
  BY <1>12 DEF Fail, Goto
<1>13. ASSUME NEW t \in Requests, Expire(t) PROVE Control'
  BY <1>13 DEF Expire
<1>14. ASSUME NEW g \in GitHubIds, SetActive(g) PROVE Control'
  <2>1. [users[g] EXCEPT !.is_active = ~ @] \in User
    <3>1. users[g] \in User
      BY <1>14 DEF SetActive, WriteRow
    <3> QED
      BY <3>1 DEF User
  <2> QED
    BY <1>14, <1>e, <2>1 DEF SetActive
<1>16. ASSUME NEW g \in GitHubIds, NEW ro \in Roles, SetRole(g, ro) PROVE Control'
  <2>1. [users[g] EXCEPT !.role = ro] \in User
    <3>1. users[g] \in User
      BY <1>16 DEF SetRole, WriteRow
    <3> QED
      BY <3>1 DEF User
  <2> QED
    BY <1>16, <1>e, <1>f, <2>1 DEF SetRole
<1>15. CASE UNCHANGED vars
  BY <1>15 DEF vars
<1> QED
  BY <1>1, <1>2, <1>3, <1>4, <1>5, <1>6, <1>7, <1>8, <1>9, <1>10, <1>11,
     <1>12, <1>13, <1>14, <1>15, <1>16 DEF Next, Step

-----------------------------------------------------------------------------
(* What one step can do to one request and to the table.                   *)

Untouched(r) == /\ pc'[r] = pc[r] /\ op'[r] = op[r] /\ tok'[r] = tok[r]
                /\ uid'[r] = uid[r] /\ role'[r] = role[r] /\ snap'[r] = snap[r]
                /\ held'[r] = held[r] /\ prior'[r] = prior[r]

Starts(r) == pc[r] = "idle" /\ pc'[r] \in {"lookup", "count"}

\* A step starts the request, is one of its own statements, or leaves all its
\* variables alone.
LEMMA RequestMoves ==
  ASSUME Control, [Next]_vars, NEW r \in Requests
  PROVE  Untouched(r) \/ Starts(r) \/ Step(r) \/ Fail(r)
<1> USE DEF Control, TypeOK, Untouched
<1>1. ASSUME NEW q \in Requests, NEW t \in Requests, StartRefresh(q, t)
      PROVE  Untouched(r) \/ Starts(r)
  BY <1>1 DEF StartRefresh, Start, Starts, Goto
<1>2. ASSUME NEW q \in Requests, NEW t \in Requests, StartLogout(q, t)
      PROVE  Untouched(r) \/ Starts(r)
  BY <1>2 DEF StartLogout, Start, Starts, Goto
<1>3. ASSUME NEW q \in Requests, NEW g \in GitHubIds, StartLogin(q, g)
      PROVE  Untouched(r) \/ Starts(r)
  BY <1>3 DEF StartLogin, Start, Starts, Goto
<1>4. ASSUME NEW q \in Requests, Step(q), q # r PROVE Untouched(r)
  <2>1. CASE Lookup(q)
    BY <1>4, <2>1 DEF Lookup, Goto
  <2>2. CASE Invalidate(q)
    BY <1>4, <2>2 DEF Invalidate, Goto, GotoOrLost
  <2>3. CASE LoadUser(q)
    BY <1>4, <2>3 DEF LoadUser, Goto
  <2>4. CASE Count(q)
    BY <1>4, <2>4 DEF Count, Goto
  <2>5. CASE Upsert(q)
    BY <1>4, <2>5 DEF Upsert, Goto, GotoOrLost
  <2>6. CASE Snapshot(q)
    BY <1>4, <2>6 DEF Snapshot, Goto
  <2>7. CASE LockRows(q)
    BY <1>4, <2>7 DEF LockRows, Goto
  <2>8. CASE Commit(q)
    BY <1>4, <2>8 DEF Commit, Goto, GotoOrLost
  <2> QED
    BY <1>4, <2>1, <2>2, <2>3, <2>4, <2>5, <2>6, <2>7, <2>8 DEF Step
<1>5. ASSUME NEW q \in Requests, Fail(q), q # r PROVE Untouched(r)
  BY <1>5 DEF Fail, Goto
<1>6. ASSUME NEW t \in Requests, Expire(t) PROVE Untouched(r)
  BY <1>6 DEF Expire
<1>7. ASSUME NEW g \in GitHubIds, SetActive(g) \/ \E ro \in Roles : SetRole(g, ro)
      PROVE  Untouched(r)
  BY <1>7 DEF SetActive, SetRole, WriteRow
<1>8. ASSUME UNCHANGED vars PROVE Untouched(r)
  BY <1>8 DEF vars
<1> QED
  BY <1>1, <1>2, <1>3, <1>4, <1>5, <1>6, <1>7, <1>8 DEF Next

\* Only InvalidateRefreshToken and the commit of SaveRefreshToken write to
\* refresh_tokens.
LEMMA TableMoves ==
  ASSUME [Next]_vars
  PROVE  \/ UNCHANGED refresh_tokens
         \/ \E r \in Requests : Invalidate(r) \/ Commit(r)
BY DEF Next, vars, StartRefresh, StartLogout, StartLogin, Start, Step, Lookup, LoadUser,
       Count, Upsert, Snapshot, LockRows, Fail, Expire, SetActive, SetRole, WriteRow

\* Rows are for ever: none disappears or changes hands or becomes unused, and
\* one appears only in the commit of the request that minted it.
LEMMA RowsGrow ==
  ASSUME Control, [Next]_vars, NEW t \in Requests
  PROVE  /\ refresh_tokens[t] # NoRow =>
              /\ refresh_tokens'[t] # NoRow
              /\ refresh_tokens'[t].user_id = refresh_tokens[t].user_id
              /\ refresh_tokens[t].used => refresh_tokens'[t].used
         /\ (refresh_tokens[t] = NoRow /\ refresh_tokens'[t] # NoRow) => Commit(t)
<1>1. CASE UNCHANGED refresh_tokens
  BY <1>1
<1>2. ASSUME NEW r \in Requests, Invalidate(r)
      PROVE  /\ refresh_tokens'[t] = NoRow <=> refresh_tokens[t] = NoRow
             /\ refresh_tokens[t] # NoRow =>
                  /\ refresh_tokens'[t].user_id = refresh_tokens[t].user_id
                  /\ refresh_tokens[t].used => refresh_tokens'[t].used
  BY <1>2, InvalidateEffect DEF TokenConsumed
<1>3. ASSUME NEW r \in Requests, Commit(r), t # r
      PROVE  /\ refresh_tokens'[t] = NoRow <=> refresh_tokens[t] = NoRow
             /\ refresh_tokens[t] # NoRow =>
                  /\ refresh_tokens'[t].user_id = refresh_tokens[t].user_id
                  /\ refresh_tokens[t].used => refresh_tokens'[t].used
  BY <1>3, CommitEffect DEF TokenSaved
<1>4. ASSUME Commit(t) PROVE refresh_tokens[t] = NoRow
  BY <1>4, CommitEffect DEF TokenSaved
<1> QED
  BY <1>1, <1>2, <1>3, <1>4, TableMoves

-----------------------------------------------------------------------------
(* The tokens.                                                             *)

\* An answered request does nothing more.
LEMMA AnsweredStays ==
  ASSUME Control, [Next]_vars, NEW q \in Requests, pc[q] \in {"ok", "failed"}
  PROVE  Untouched(q)
<1>1. ~ Step(q)
  BY DEF Step, Lookup, Invalidate, LoadUser, Count, Upsert, Snapshot, LockRows, Commit
<1>2. ~ Fail(q) /\ ~ Starts(q)
  BY DEF Fail, Working, Starts
<1> QED
  BY <1>1, <1>2, RequestMoves

\* A request that has begun keeps its operation, token and history; it moves
\* forward as its handler does.
LEMMA BegunMoves ==
  ASSUME Control, [Next]_vars, NEW r \in Requests, pc'[r] \notin {"idle", "lookup", "count"}
  PROVE  /\ op'[r] = op[r] /\ tok'[r] = tok[r] /\ prior'[r] = prior[r]
         /\ pc[r] # "idle"
         /\ \/ Untouched(r)
            \/ pc[r] \in Working /\ pc'[r] \in {"denied", "failed"}
            \/ Lookup(r) /\ Valid(tok[r]) /\ pc'[r] = "invalidate"
            \/ Invalidate(r)
            \/ LoadUser(r) /\ pc'[r] = "snapshot"
            \/ Count(r) \/ Upsert(r) \/ Snapshot(r) \/ LockRows(r) \/ Commit(r)
<1> USE DEF Control, TypeOK, Untouched
<1>0. ~ Starts(r)
  BY DEF Starts
<1>1. CASE Untouched(r)
  BY <1>1
<1>2. CASE Fail(r)
  BY <1>2 DEF Fail, Goto, Working
<1>3. CASE Lookup(r)
  BY <1>3 DEF Lookup, Goto, Working
<1>4. CASE Invalidate(r)
  BY <1>4 DEF Invalidate
<1>5. CASE LoadUser(r)
  BY <1>5 DEF LoadUser, Goto, Working
<1>6. CASE Count(r) \/ Upsert(r) \/ Snapshot(r) \/ LockRows(r) \/ Commit(r)
  BY <1>6 DEF Count, Upsert, Snapshot, LockRows, Commit
<1> QED
  BY <1>0, <1>1, <1>2, <1>3, <1>4, <1>5, <1>6, RequestMoves DEF Step

\* A row of a request answered before r began was there before this step too.
LEMMA PriorRowStays ==
  ASSUME Control, [Next]_vars, NEW q \in Requests, pc[q] = "ok"
  PROVE  /\ refresh_tokens'[q] # NoRow <=> refresh_tokens[q] # NoRow
         /\ refresh_tokens[q] # NoRow =>
              refresh_tokens'[q].user_id = refresh_tokens[q].user_id
BY RowsGrow DEF Commit

\* Superseded is preserved: a commit marks every older row it can see used,
\* and rows of requests answered before it began are among those.
LEMMA SupersededStep ==
  ASSUME Control, Tokens, [Next]_vars
  PROVE  Superseded'
<1> SUFFICES ASSUME NEW r \in Requests, NEW q \in prior'[r],
                    refresh_tokens'[r] # NoRow, refresh_tokens'[q] # NoRow,
                    refresh_tokens'[r].user_id = refresh_tokens'[q].user_id
             PROVE  refresh_tokens'[q].used
  BY DEF Superseded
<1>1. CASE refresh_tokens[r] # NoRow
  <2>1. Untouched(r)
    BY <1>1, AnsweredStays DEF Control, RowsFitPc
  <2>2. q \in prior[r] /\ q \in Requests /\ pc[q] = "ok"
    BY <2>1 DEF Untouched, Control, TypeOK, PriorAnswered
  <2>3. refresh_tokens[q] # NoRow /\ refresh_tokens[r].user_id = refresh_tokens[q].user_id
    BY <1>1, <2>2, PriorRowStays, RowsGrow
  <2>4. refresh_tokens[q].used
    BY <1>1, <2>2, <2>3 DEF Tokens, Superseded
  <2> QED
    BY <2>2, <2>3, <2>4, RowsGrow
<1>2. CASE refresh_tokens[r] = NoRow
  <2>1. Commit(r)
    BY <1>2, RowsGrow
  <2>2. TokenSaved(r)
    BY <2>1, CommitEffect
  <2>3. q \in prior[r] /\ q \in Requests /\ pc[q] = "ok" /\ pc[r] = "commit"
    BY <2>1 DEF Commit, Control, TypeOK, PriorAnswered
  <2>4. q # r
    BY <2>3
  <2>5. refresh_tokens[q] # NoRow /\ refresh_tokens[q].user_id = uid[r]
    BY <2>2, <2>3, <2>4 DEF TokenSaved
  <2>6. refresh_tokens[q].used \/ q \in held[r]
    BY <2>3, <2>5 DEF Tokens, HeldCovers, Owed, UnusedTokens
  <2> QED
    BY <2>2, <2>3, <2>4, <2>5, <2>6 DEF TokenSaved
<1> QED
  BY <1>1, <1>2

\* The snapshots of requests under way go on covering the rows of requests
\* answered before they began.
LEMMA CoversStep ==
  ASSUME Control, Tokens, [Next]_vars
  PROVE  SnapCovers' /\ HeldCovers'
<1> SUFFICES ASSUME NEW r \in Requests, pc'[r] \in {"lock", "commit"},
                    NEW q \in prior'[r], q \in UnusedTokens(uid[r])'
             PROVE  /\ pc'[r] = "lock" => q \in snap'[r]
                    /\ pc'[r] = "commit" => q \in held'[r]
  BY DEF SnapCovers, HeldCovers, Owed
<1>1. q \in prior[r] /\ q \in Requests /\ pc[q] = "ok"
  BY BegunMoves DEF Control, TypeOK, PriorAnswered
<1>2. \/ Untouched(r) \/ Snapshot(r) \/ LockRows(r)
  BY BegunMoves DEF Control, TypeOK, Invalidate, LoadUser, Count, Upsert, Commit, Goto, GotoOrLost
<1>3. uid'[r] = uid[r]
  BY <1>2 DEF Untouched, Snapshot, LockRows
<1>4. q \in UnusedTokens(uid[r])
  <2>1. /\ refresh_tokens'[q] # NoRow
        /\ refresh_tokens'[q].user_id = uid[r]
        /\ ~ refresh_tokens'[q].used
    BY <1>3 DEF UnusedTokens
  <2> QED
    BY <1>1, <2>1, RowsGrow, PriorRowStays DEF UnusedTokens
<1>5. CASE Untouched(r)
  BY <1>1, <1>4, <1>5 DEF Untouched, Tokens, SnapCovers, HeldCovers, Owed
<1>6. CASE Snapshot(r)
  BY <1>4, <1>6 DEF Snapshot, Goto, Control, TypeOK
<1>7. CASE LockRows(r)
  <2>1. pc[r] = "lock" /\ q \in snap[r]
    BY <1>1, <1>4, <1>7 DEF LockRows, Tokens, SnapCovers, Owed
  <2> QED
    BY <1>4, <1>7, <2>1 DEF LockRows, Goto, Control, TypeOK
<1> QED
  BY <1>2, <1>5, <1>6, <1>7

\* A token that an answered refresh or logout consumed stays used.
LEMMA ConsumedStep ==
  ASSUME Control, Tokens, [Next]_vars
  PROVE  Consumed'
<1> SUFFICES ASSUME NEW r \in Requests, Accepted(r)', pc'[r] # "invalidate"
             PROVE  refresh_tokens'[tok'[r]].used
  BY DEF Consumed
<1>1. /\ tok'[r] = tok[r] /\ op'[r] = op[r] /\ tok[r] \in Requests
      /\ \/ Untouched(r)
         \/ Invalidate(r)
         \/ pc[r] = "user" /\ pc'[r] = "snapshot"
         \/ Count(r) \/ Upsert(r) \/ Snapshot(r) \/ LockRows(r) \/ Commit(r)
  BY BegunMoves DEF Accepted, Control, TypeOK, LoadUser
<1>2. CASE Invalidate(r)
  BY <1>1, <1>2, InvalidateEffect DEF TokenConsumed
<1>3. CASE ~ Invalidate(r)
  <2>1. op[r] \in {"refresh", "logout"}
    BY <1>1 DEF Accepted
  <2>2. ~ Count(r) /\ ~ Upsert(r)
    BY <2>1 DEF Count, Upsert, Control, OpFitsPc
  <2>3. Accepted(r) /\ pc[r] # "invalidate"
    BY <1>1, <1>3, <2>1, <2>2 DEF Accepted, Untouched, Snapshot, LockRows, Commit
  <2> QED
    BY <1>1, <2>3, RowsGrow DEF Tokens, Consumed, Control, RowsFitPc
<1> QED
  BY <1>2, <1>3

\* DeadTokenRefused is preserved: a request is accepted only where its lookup
\* finds the row unused.
LEMMA DeadTokenStep ==
  ASSUME Control, Tokens, [Next]_vars
  PROVE  DeadTokenRefused'
<1> SUFFICES ASSUME NEW r \in Requests, Accepted(r)', NEW q \in prior'[r]
             PROVE  /\ ~ (op'[q] \in {"refresh", "logout"} /\ tok'[q] = tok'[r])
                    /\ ~ (/\ tok'[r] \in prior'[q]
                          /\ refresh_tokens'[q] # NoRow
                          /\ refresh_tokens'[q].user_id = refresh_tokens'[tok'[r]].user_id)
  BY DEF DeadTokenRefused
<1>1. /\ op'[r] = op[r] /\ tok'[r] = tok[r] /\ prior'[r] = prior[r]
      /\ tok[r] \in Requests /\ q \in prior[r] /\ q \in Requests /\ pc[q] = "ok"
  BY BegunMoves DEF Accepted, Control, TypeOK, PriorAnswered
<1>2. op'[q] = op[q] /\ tok'[q] = tok[q] /\ prior'[q] = prior[q]
  BY <1>1, AnsweredStays DEF Untouched
<1>3. \/ Accepted(r)
      \/ Lookup(r) /\ Valid(tok[r])
  <2>1. op[r] \in {"refresh", "logout"}
    BY <1>1 DEF Accepted
  <2>2. ~ Count(r) /\ ~ Upsert(r)
    BY <2>1 DEF Count, Upsert, Control, OpFitsPc
  <2> QED
    BY <2>1, <2>2, BegunMoves DEF Accepted, Untouched, Invalidate, LoadUser, Snapshot, LockRows, Commit
<1>4. CASE Accepted(r)
  <2>1. refresh_tokens[tok[r]] # NoRow
    BY <1>1, <1>4 DEF Control, RowsFitPc
  <2>2. /\ ~ (op[q] \in {"refresh", "logout"} /\ tok[q] = tok[r])
        /\ ~ (/\ tok[r] \in prior[q]
              /\ refresh_tokens[q] # NoRow
              /\ refresh_tokens[q].user_id = refresh_tokens[tok[r]].user_id)
    BY <1>1, <1>4 DEF Tokens, DeadTokenRefused
  <2>3. refresh_tokens'[tok[r]].user_id = refresh_tokens[tok[r]].user_id
    BY <1>1, <2>1, RowsGrow
  <2> QED
    BY <1>1, <1>2, <2>2, <2>3, PriorRowStays
<1>5. CASE Lookup(r) /\ Valid(tok[r])
  <2>1. refresh_tokens' = refresh_tokens
    BY <1>5 DEF Lookup
  <2>2. refresh_tokens[tok[r]] # NoRow /\ ~ refresh_tokens[tok[r]].used
    BY <1>5 DEF Valid
  <2>3. ~ (op[q] \in {"refresh", "logout"} /\ tok[q] = tok[r])
    BY <1>1, <2>2 DEF Tokens, Consumed, Accepted
  <2>4. ~ (/\ tok[r] \in prior[q]
           /\ refresh_tokens[q] # NoRow
           /\ refresh_tokens[q].user_id = refresh_tokens[tok[r]].user_id)
    BY <1>1, <2>2 DEF Tokens, Superseded
  <2> QED
    BY <1>1, <1>2, <2>1, <2>3, <2>4
<1> QED
  BY <1>3, <1>4, <1>5

\* Tokens is inductive given Control.
LEMMA TokensStep == Control /\ Tokens /\ [Next]_vars => Tokens'
BY SupersededStep, CoversStep, ConsumedStep, DeadTokenStep DEF Tokens

-----------------------------------------------------------------------------
(* The accounts.                                                           *)

\* What an operator's write does to one row.
LEMMA OperatorWrites ==
  ASSUME Control, NEW g \in GitHubIds, NEW h \in GitHubIds,
         SetActive(h) \/ \E ro \in Roles : SetRole(h, ro)
  PROVE  /\ users'[g] = NoUser <=> users[g] = NoUser
         /\ (g # h \/ SetActive(h)) /\ users[g] # NoUser => users'[g].role = users[g].role
<1>1. users[h] # NoUser /\ users[h] \in User
  BY DEF SetActive, SetRole, WriteRow, Control, TypeOK
<1>2. PICK u \in User : /\ users' = [users EXCEPT ![h] = u]
                        /\ SetActive(h) => u.role = users[h].role
  <2>1. [users[h] EXCEPT !.is_active = ~ @] \in User
    BY <1>1 DEF User
  <2>2. [users[h] EXCEPT !.is_active = ~ @].role = users[h].role
    BY <1>1 DEF User
  <2>3. \A ro \in Roles : [users[h] EXCEPT !.role = ro] \in User
    BY <1>1 DEF User
  <2>4. CASE SetActive(h)
    BY <2>1, <2>2, <2>4 DEF SetActive, WriteRow
  <2>5. CASE ~ SetActive(h)
    BY <2>3, <2>5 DEF SetRole, WriteRow
  <2> QED
    BY <2>4, <2>5
<1> QED
  BY <1>1, <1>2, SentinelAssumption DEF Control, TypeOK

\* Accounts are for ever, and only an operator changes the role of one; a new
\* one is inserted by an Upsert with the role its request proposed.
LEMMA UsersMove ==
  ASSUME Control, [Next]_vars, NEW g \in GitHubIds
  PROVE  /\ users[g] # NoUser => users'[g] # NoUser
         /\ (users[g] # NoUser /\ ~ ByOperator) => users'[g].role = users[g].role
         /\ (users[g] = NoUser /\ users'[g] # NoUser) =>
              \E r \in Requests : /\ Upsert(r)
                                  /\ uid[r] = g
                                  /\ users'[g].role = role[r]
<1>1. ASSUME NEW r \in Requests, Upsert(r), uid[r] = g, users[g] = NoUser
      PROVE  users'[g].role = role[r]
  <2> DEFINE row == [role |-> role[r], is_active |-> TRUE]
  <2>1. users' = [users EXCEPT ![g] = row]
    BY <1>1 DEF Upsert
  <2> QED
    BY <2>1 DEF Control, TypeOK
<1>2. ASSUME NEW r \in Requests, Upsert(r), uid[r] # g \/ users[g] # NoUser
      PROVE  users'[g] = users[g]
  BY <1>2 DEF Upsert, Control, TypeOK
<1>3. \/ UNCHANGED users
      \/ \E r \in Requests : Upsert(r)
      \/ \E h \in GitHubIds : SetActive(h)
      \/ \E h \in GitHubIds, ro \in Roles : SetRole(h, ro)
  BY DEF Next, vars, StartRefresh, StartLogout, StartLogin, Start, Step, Lookup, Invalidate,
         LoadUser, Count, Snapshot, LockRows, Commit, Fail, Expire
<1> QED
  BY <1>1, <1>2, <1>3, OperatorWrites DEF ByOperator

\* A request never loses sight of its user's row while it works.
LEMMA SeenMoves ==
  ASSUME Control, [Next]_vars, NEW r \in Requests, op[r] \in Grants,
         pc[r] \in HasUser, pc'[r] \in HasUser
  PROVE  /\ uid'[r] = uid[r] /\ op'[r] = op[r]
         /\ seen[r] \subseteq seen'[r]
         /\ RoleOf(uid[r])' \subseteq RoleOf(uid[r]) \cup seen'[r]
<1>1. pc[r] \in Working /\ op[r] # "logout" /\ uid[r] \in GitHubIds
  BY DEF HasUser, Working, Grants, Control, UserFitsPc
<1>2. uid'[r] = uid[r] /\ op'[r] = op[r]
  <2>1. ~ Starts(r) /\ ~ Lookup(r)
    BY DEF Starts, Lookup, HasUser
  <2> QED
    BY <2>1, RequestMoves DEF Untouched, Step, Invalidate, LoadUser, Count, Upsert, Snapshot,
                              LockRows, Commit, Fail
<1>3. ASSUME NEW g \in GitHubIds, NEW ro, Show(g, ro)
      PROVE  seen[r] \subseteq seen'[r] /\ (uid[r] = g => ro \in seen'[r])
  BY <1>1, <1>3 DEF Show
<1>4. CASE UNCHANGED <<users, seen>>
  BY <1>2, <1>4 DEF RoleOf
<1>5. ASSUME NEW q \in Requests, Upsert(q)
      PROVE  seen[r] \subseteq seen'[r] /\ RoleOf(uid[r])' \subseteq RoleOf(uid[r]) \cup seen'[r]
  <2>1. uid[q] \in GitHubIds
    BY <1>5 DEF Upsert, Control, UserFitsPc, HasUser
  <2>2. CASE UNCHANGED <<users, seen>>
    BY <1>2, <2>2 DEF RoleOf
  <2>3. CASE users[uid[q]] = NoUser
    <3>1. Show(uid[q], role[q])
      BY <1>5, <2>3 DEF Upsert
    <3>2. uid[r] # uid[q] => users'[uid[r]] = users[uid[r]]
      BY <1>1, <1>5, <2>3 DEF Upsert, Control, TypeOK
    <3>3. uid[r] = uid[q] => users'[uid[r]].role = role[q]
      <4> DEFINE row == [role |-> role[q], is_active |-> TRUE]
      <4>1. users' = [users EXCEPT ![uid[q]] = row]
        BY <1>5, <2>3 DEF Upsert
      <4> QED
        BY <2>1, <4>1 DEF Control, TypeOK
    <3> QED
      BY <1>2, <1>3, <2>1, <3>1, <3>2, <3>3 DEF RoleOf
  <2> QED
    BY <1>5, <2>2, <2>3 DEF Upsert
<1>6. ASSUME NEW g \in GitHubIds, SetActive(g)
      PROVE  seen[r] \subseteq seen'[r] /\ RoleOf(uid[r])' \subseteq RoleOf(uid[r]) \cup seen'[r]
  <2>1. /\ users'[uid[r]] = NoUser <=> users[uid[r]] = NoUser
        /\ users[uid[r]] # NoUser => users'[uid[r]].role = users[uid[r]].role
    BY <1>1, <1>6, OperatorWrites
  <2> QED
    BY <1>2, <1>6, <2>1 DEF RoleOf, SetActive
<1>7. ASSUME NEW g \in GitHubIds, NEW ro \in Roles, SetRole(g, ro)
      PROVE  seen[r] \subseteq seen'[r] /\ RoleOf(uid[r])' \subseteq RoleOf(uid[r]) \cup seen'[r]
  <2>1. Show(g, ro)
    BY <1>7 DEF SetRole
  <2>2. g # uid[r] => users'[uid[r]] = users[uid[r]]
    BY <1>1, <1>7 DEF SetRole, WriteRow, Control, TypeOK
  <2>3. g = uid[r] => users'[uid[r]].role = ro
    <3>1. users[g] \in User
      BY <1>7 DEF SetRole, WriteRow, Control, TypeOK
    <3>2. users'[g] = [users[g] EXCEPT !.role = ro]
      BY <1>7 DEF SetRole, WriteRow, Control, TypeOK
    <3> QED
      BY <3>1, <3>2 DEF User
  <2> QED
    BY <1>2, <1>3, <2>1, <2>2, <2>3 DEF RoleOf
<1>8. ASSUME NEW q \in Requests, Commit(q) \/ Fail(q) \/ Lookup(q) \/ (\E g \in GitHubIds : StartLogin(q, g))
      PROVE  seen[r] \subseteq seen'[r] /\ RoleOf(uid[r])' \subseteq RoleOf(uid[r]) \cup seen'[r]
  <2>1. q # r
    BY <1>8 DEF Commit, Fail, Lookup, StartLogin, Start, Goto, GotoOrLost, HasUser, Control, TypeOK
  <2>2. seen'[r] = seen[r] /\ users' = users
    BY <1>8, <2>1 DEF Commit, Fail, Lookup, StartLogin, Start, Control, TypeOK
  <2> QED
    BY <1>2, <2>2 DEF RoleOf
<1>9. \/ UNCHANGED <<users, seen>>
      \/ \E q \in Requests : Upsert(q)
      \/ \E g \in GitHubIds : SetActive(g)
      \/ \E g \in GitHubIds, ro \in Roles : SetRole(g, ro)
      \/ \E q \in Requests : Commit(q) \/ Fail(q) \/ Lookup(q) \/ (\E g \in GitHubIds : StartLogin(q, g))
  BY DEF Next, vars, StartRefresh, StartLogout, Start, Step, Invalidate, LoadUser, Count,
         Snapshot, LockRows, Expire
<1> QED
  BY <1>2, <1>4, <1>5, <1>6, <1>7, <1>8, <1>9

\* A login that proposes admin began before any login was answered.
LEMMA ProposalsStep ==
  ASSUME Control, Accounts, [Next]_vars
  PROVE  Proposals'
<1> SUFFICES ASSUME NEW r \in Requests, pc'[r] = "upsert"
             PROVE  \/ role'[r] = "analyst" /\ \E g \in GitHubIds : users'[g] # NoUser
                    \/ role'[r] = "admin" /\ \A q \in prior'[r] : op'[q] # "login"
  BY DEF Proposals
<1>1. prior'[r] = prior[r] /\ \A q \in prior[r] : q \in Requests /\ pc[q] = "ok" /\ op'[q] = op[q]
  BY BegunMoves, AnsweredStays DEF Untouched, Control, TypeOK, PriorAnswered
<1>2. Untouched(r) \/ Count(r)
  BY BegunMoves DEF Invalidate, Upsert, Snapshot, LockRows, Commit, Goto, GotoOrLost,
                    Control, TypeOK
<1>3. CASE Untouched(r)
  BY <1>1, <1>3, UsersMove DEF Untouched, Accounts, Proposals
<1>4. CASE Count(r)
  <2>1. role'[r] = ProposedRole /\ users' = users
    BY <1>4 DEF Count, Control, TypeOK
  <2>2. CASE \A g \in GitHubIds : users[g] = NoUser
    <3>1. \A q \in prior[r] : op[q] # "login"
      BY <1>1, <2>2 DEF Accounts, HasAccount, Grants
    <3> QED
      BY <1>1, <2>1, <2>2, <3>1 DEF ProposedRole
  <2>3. CASE \E g \in GitHubIds : users[g] # NoUser
    BY <2>1, <2>3 DEF ProposedRole
  <2> QED
    BY <2>2, <2>3
<1> QED
  BY <1>2, <1>3, <1>4

\* Tokens are issued only to users with an account.
LEMMA HasAccountStep ==
  ASSUME Control, Accounts, [Next]_vars
  PROVE  HasAccount'
<1> SUFFICES ASSUME NEW r \in Requests, pc'[r] \in {"snapshot", "lock", "commit", "ok"},
                    op'[r] \in Grants
             PROVE  uid'[r] \in GitHubIds /\ users'[uid'[r]] # NoUser
  BY DEF HasAccount
<1>1. op[r] \in Grants
  BY BegunMoves
<1>2. ~ Invalidate(r) /\ ~ Count(r)
  BY <1>1, InvalidateControl DEF Invalidate, Count, Goto, GotoOrLost, Control, TypeOK,
                                OpFitsPc, Grants
<1>3. \/ Untouched(r)
      \/ Snapshot(r) \/ LockRows(r) \/ Commit(r)
      \/ Upsert(r)
      \/ LoadUser(r) /\ pc'[r] = "snapshot"
  BY <1>2, BegunMoves
<1>4. CASE Untouched(r) \/ Snapshot(r) \/ LockRows(r) \/ Commit(r)
  <2>1. pc[r] \in {"snapshot", "lock", "commit", "ok"} /\ uid'[r] = uid[r]
    BY <1>4 DEF Untouched, Snapshot, LockRows, Commit
  <2> QED
    BY <1>1, <2>1, UsersMove DEF Accounts, HasAccount
<1>5. CASE Upsert(r)
  <2>1. uid[r] \in GitHubIds /\ uid' = uid
    BY <1>5 DEF Upsert, Control, UserFitsPc, HasUser
  <2>2. CASE users[uid[r]] = NoUser
    <3> DEFINE row == [role |-> role[r], is_active |-> TRUE]
    <3>1. users' = [users EXCEPT ![uid[r]] = row]
      BY <1>5, <2>2 DEF Upsert
    <3>2. row \in User
      BY <1>5 DEF Upsert, Control, UserFitsPc, User
    <3>3. row # NoUser
      BY <3>2, SentinelAssumption
    <3> HIDE DEF row
    <3> QED
      BY <2>1, <3>1, <3>3 DEF Control, TypeOK
  <2>3. CASE users[uid[r]] # NoUser
    BY <1>5, <2>1, <2>3 DEF Upsert, Control, TypeOK
  <2> QED
    BY <2>2, <2>3
<1>6. CASE LoadUser(r) /\ pc'[r] = "snapshot"
  <2>1. uid[r] \in GitHubIds /\ uid' = uid /\ users' = users
    BY <1>6 DEF LoadUser, Control, UserFitsPc, HasUser
  <2>2. users[uid[r]] # NoUser
    BY <1>6 DEF LoadUser, Goto, Control, TypeOK
  <2> QED
    BY <2>1, <2>2
<1> QED
  BY <1>3, <1>4, <1>5, <1>6

\* The history of a request starts with the role its user has, and whoever
\* writes the row adds to it.
LEMMA WatchingStep ==
  ASSUME Control, Accounts, [Next]_vars
  PROVE  Watching'
<1> SUFFICES ASSUME NEW r \in Requests, pc'[r] \in HasUser, op'[r] \in Grants
             PROVE  RoleOf(uid[r])' \subseteq seen'[r]
  BY DEF Watching
<1>1. CASE pc[r] \in HasUser
  <2>1. op[r] \in Grants
    <3>1. ~ Starts(r)
      BY <1>1 DEF Starts, HasUser
    <3> QED
      BY <3>1, RequestMoves DEF Untouched, Step, Lookup, Invalidate, LoadUser, Count, Upsert,
                                Snapshot, LockRows, Commit, Fail
  <2> QED
    BY <1>1, <2>1, SeenMoves DEF Accounts, Watching
<1>2. CASE pc[r] = "lookup"
  <2>1. Lookup(r)
    BY <1>2, RequestMoves DEF Untouched, Starts, Step, Invalidate, LoadUser, Count, Upsert,
                              Snapshot, LockRows, Commit, Fail, Goto, HasUser, Control, TypeOK
  <2>2. Valid(tok[r])
    BY <2>1 DEF Lookup, Goto, HasUser, Control, TypeOK
  <2>3. /\ uid'[r] = refresh_tokens[tok[r]].user_id
        /\ seen'[r] = RoleOf(refresh_tokens[tok[r]].user_id)
        /\ users' = users
    BY <2>1, <2>2 DEF Lookup, Control, TypeOK
  <2> QED
    BY <2>3 DEF RoleOf
<1>3. CASE pc[r] = "idle"
  <2>1. PICK g \in GitHubIds : StartLogin(r, g)
    <3>1. Starts(r) /\ pc'[r] = "count"
      BY <1>3, RequestMoves DEF Untouched, Starts, Step, Lookup, Invalidate, LoadUser, Count,
             Upsert, Snapshot, LockRows, Commit, Fail, Working, HasUser
    <3>2. ASSUME NEW q \in Requests, Step(q) \/ Fail(q) PROVE pc'[r] = "idle"
      <4>1. pc[q] # "idle" /\ \E p : Goto(q, p)
        BY <3>2 DEF Step, Lookup, Invalidate, LoadUser, Count, Upsert, Snapshot, LockRows, Commit,
                    Fail, GotoOrLost, Goto, Working
      <4> QED
        BY <1>3, <4>1 DEF Goto, Control, TypeOK
    <3>3. \/ \E q \in Requests, t \in Requests : StartRefresh(q, t) \/ StartLogout(q, t)
          \/ \E q \in Requests, g \in GitHubIds : StartLogin(q, g)
      BY <1>3, <3>1, <3>2 DEF Next, Expire, SetActive, SetRole, WriteRow, vars
    <3> QED
      BY <1>3, <3>1, <3>3 DEF StartRefresh, StartLogout, StartLogin, Start, Goto, Control, TypeOK
  <2>2. uid'[r] = g /\ seen'[r] = RoleOf(g) /\ users' = users
    BY <2>1 DEF StartLogin, Start, Control, TypeOK
  <2> QED
    BY <2>2 DEF RoleOf
<1>4. pc[r] \in HasUser \cup {"lookup", "idle"}
  <2>1. pc'[r] \notin {"ok", "denied", "failed", "idle", "lookup"}
    BY DEF HasUser
  <2>2. pc[r] \in {"idle"} \cup Working \cup Answered
    BY DEF Control, TypeOK
  <2>3. pc[r] \notin Answered
    BY <2>1, RequestMoves DEF Untouched, Starts, Step, Lookup, Invalidate, LoadUser, Count, Upsert,
                              Snapshot, LockRows, Commit, Fail, Working, Answered
  <2> QED
    BY <2>2, <2>3 DEF Working, HasUser
<1> QED
  BY <1>1, <1>2, <1>3, <1>4

\* The role for the claims is read from the row, and stays in the history.
LEMMA ClaimsStep ==
  ASSUME Control, Accounts, [Next]_vars
  PROVE  Claims'
<1> SUFFICES ASSUME NEW r \in Requests, pc'[r] \in {"snapshot", "lock", "commit"},
                    op'[r] \in Grants
             PROVE  role'[r] \in seen'[r]
  BY DEF Claims
<1>1. op[r] \in Grants
  BY BegunMoves
<1>2. ~ Invalidate(r) /\ ~ Count(r) /\ ~ Commit(r)
  BY <1>1, InvalidateControl DEF Invalidate, Count, Commit, Goto, GotoOrLost, Control, TypeOK,
                                OpFitsPc, Grants
<1>3. \/ Untouched(r) \/ Snapshot(r) \/ LockRows(r)
      \/ Upsert(r)
      \/ LoadUser(r) /\ pc'[r] = "snapshot"
  BY <1>2, BegunMoves
<1>4. pc[r] \in HasUser /\ pc'[r] \in HasUser
  BY <1>3 DEF Untouched, Snapshot, LockRows, Upsert, LoadUser, HasUser
<1>5. /\ uid'[r] = uid[r] /\ uid[r] \in GitHubIds
      /\ seen[r] \subseteq seen'[r] /\ RoleOf(uid[r]) \subseteq seen[r]
  BY <1>1, <1>4, SeenMoves DEF Accounts, Watching, Control, UserFitsPc
<1>6. CASE Untouched(r) \/ Snapshot(r) \/ LockRows(r)
  <2>1. pc[r] \in {"snapshot", "lock", "commit"} /\ role'[r] = role[r]
    BY <1>6 DEF Untouched, Snapshot, LockRows
  <2> QED
    BY <1>1, <1>5, <2>1 DEF Accounts, Claims
<1>7. \A g \in GitHubIds : users[g] # NoUser => users[g].role \in RoleOf(g)
  BY DEF Control, TypeOK, User, RoleOf
<1>8. CASE Upsert(r)
  <2>1. CASE users[uid[r]] = NoUser
    <3>1. Show(uid[r], role[r]) /\ role' = role
      BY <1>8, <2>1 DEF Upsert
    <3>2. pc[r] \in Working /\ op[r] # "logout"
      BY <1>1, <1>8 DEF Upsert, Working, Grants
    <3> QED
      BY <3>1, <3>2 DEF Show
  <2>2. CASE users[uid[r]] # NoUser
    <3>1. role'[r] = users[uid[r]].role
      BY <1>8, <2>2 DEF Upsert, Control, TypeOK
    <3> QED
      BY <1>5, <1>7, <2>2, <3>1
  <2> QED
    BY <2>1, <2>2
<1>9. CASE LoadUser(r) /\ pc'[r] = "snapshot"
  <2>1. users[uid[r]] # NoUser /\ role'[r] = users[uid[r]].role
    BY <1>9 DEF LoadUser, Goto, Control, TypeOK
  <2> QED
    BY <1>5, <1>7, <2>1
<1> QED
  BY <1>3, <1>6, <1>8, <1>9

\* Accounts is inductive given Control.
LEMMA AccountsStep == Control /\ Accounts /\ [Next]_vars => Accounts'
BY ProposalsStep, HasAccountStep, WatchingStep, ClaimsStep DEF Accounts

-----------------------------------------------------------------------------
(* The theorems.                                                           *)

\* IInv holds in every reachable state.
THEOREM Inductive == Spec => []IInv
<1>1. Init => IInv
  BY InitIInv
<1>2. IInv /\ [Next]_vars => IInv'
  BY ControlStep, TokensStep, AccountsStep DEF IInv
<1> QED
  BY <1>1, <1>2, PTL DEF Spec

\* Every variable keeps its type.
THEOREM TypeCorrect == Spec => []TypeOK
<1>1. IInv => TypeOK
  BY DEF IInv, Control
<1> QED
  BY <1>1, Inductive, PTL

\* A saved token ends the sessions handed out before its request began, for
\* any number of requests and however their transactions interleave.
THEOREM SessionsSuperseded == Spec => []Superseded
<1>1. IInv => Superseded
  BY DEF IInv, Tokens
<1> QED
  BY <1>1, Inductive, PTL

\* No refresh or logout is accepted with a token that an earlier answered
\* request consumed or superseded.
THEOREM DeadTokensRefused == Spec => []DeadTokenRefused
<1>1. IInv => DeadTokenRefused
  BY DEF IInv, Tokens
<1> QED
  BY <1>1, Inductive, PTL

\* Once there is an account there is an admin, unless an operator demotes the
\* last one: the first row to be inserted is an admin's, because its request
\* counted no rows, and no request changes a role.
THEOREM AdminExists == Spec => SomeAdmin
<1>1. ASSUME IInv, [Next]_vars, AdminIfAnyone, ~ ByOperator, NEW g \in GitHubIds,
             users'[g] # NoUser
      PROVE  \E h \in GitHubIds : IsAdmin(h)'
  <2>1. CASE \E h \in GitHubIds : users[h] # NoUser
    <3>1. PICK h \in GitHubIds : IsAdmin(h)
      BY <1>1, <2>1 DEF AdminIfAnyone
    <3>2. users'[h] # NoUser /\ users'[h].role = users[h].role
      BY <1>1, <3>1, UsersMove DEF IInv, IsAdmin
    <3> QED
      BY <3>1, <3>2 DEF IsAdmin
  <2>2. CASE \A h \in GitHubIds : users[h] = NoUser
    <3>1. PICK r \in Requests : Upsert(r) /\ uid[r] = g /\ users'[g].role = role[r]
      BY <1>1, <2>2, UsersMove DEF IInv
    <3>2. role[r] = "admin"
      BY <1>1, <2>2, <3>1 DEF Upsert, IInv, Accounts, Proposals
    <3> QED
      BY <1>1, <3>1, <3>2 DEF IsAdmin
  <2> QED
    BY <2>1, <2>2
<1>2. IInv /\ [Next]_vars => (AdminIfAnyone /\ ~ ByOperator => AdminIfAnyone')
  BY <1>1 DEF AdminIfAnyone
<1> QED
  BY <1>2, Inductive, PTL DEF Spec, SomeAdmin

\* Whatever an operator does to the accounts meanwhile, a request answers with
\* a role its user's row had while it ran.
THEOREM ClaimsAgree == Spec => ClaimsMatchRow
<1>1. ASSUME IInv, [Next]_vars, NEW r \in Requests,
             pc[r] # "ok", pc'[r] = "ok", op[r] \in {"refresh", "login"}
      PROVE  refresh_tokens'[r].user_id = uid[r] /\ role[r] \in seen[r]
  <2> USE <1>1
  <2>1. Commit(r)
    <3>1. ~ Untouched(r) /\ ~ Invalidate(r)
      BY InvalidateControl DEF Untouched, IInv, Control, TypeOK, OpFitsPc, Invalidate, Goto,
                               GotoOrLost
    <3> QED
      BY <3>1, BegunMoves DEF IInv, Control, TypeOK, Count, Upsert, Snapshot, LockRows, Goto,
                              GotoOrLost
  <2>2. refresh_tokens'[r].user_id = uid[r]
    BY <2>1, CommitEffect DEF TokenSaved, IInv
  <2>3. pc[r] = "commit"
    BY <2>1 DEF Commit
  <2> QED
    BY <2>2, <2>3 DEF IInv, Accounts, Claims, Grants
<1>2. IInv /\ [Next]_vars => RoleOfRow
  BY <1>1 DEF RoleOfRow
<1> QED
  BY <1>2, Inductive, PTL DEF Spec, ClaimsMatchRow

\* A row is made an admin's only by an operator, or inserted as one by a login
\* that began before any login had been answered.
THEOREM AdminsAreEarly == Spec => NoLateAdmin
<1>1. IInv /\ [Next]_vars => AdminMadeEarly
  <2> SUFFICES ASSUME IInv, [Next]_vars, NEW g \in GitHubIds, ~ IsAdmin(g), IsAdmin(g)',
                      ~ ByOperator
               PROVE  /\ users[g] = NoUser
                      /\ \E r \in Requests : /\ pc[r] = "upsert"
                                             /\ uid[r] = g
                                             /\ \A q \in prior[r] : op[q] # "login"
    BY DEF AdminMadeEarly
  <2>1. users[g] = NoUser /\ users'[g] # NoUser /\ users'[g].role = "admin"
    BY UsersMove DEF IInv, IsAdmin
  <2>2. PICK r \in Requests : Upsert(r) /\ uid[r] = g /\ users'[g].role = role[r]
    BY <2>1, UsersMove DEF IInv
  <2>3. pc[r] = "upsert" /\ \A q \in prior[r] : op[q] # "login"
    BY <2>1, <2>2 DEF Upsert, IInv, Accounts, Proposals
  <2> QED
    BY <2>1, <2>2, <2>3
<1> QED
  BY <1>1, Inductive, PTL DEF Spec, NoLateAdmin
=============================================================================
