------------------------- MODULE SessionsRefinement -------------------------
(***************************************************************************)
(* Sessions implements TokenStore, for any set of requests and accounts:   *)
(* under the mapping Store every step is a step of TokenStore or leaves    *)
(* all it speaks of alone.  What a statement does to the tokens is known   *)
(* from SessionsProofs; the mapping needs in addition what a request that  *)
(* is yet to be let in looks like, and that only saved tokens expire.      *)
(***************************************************************************)
EXTENDS SessionsProofs

\* A request works for nobody until it is let in, and does something once begun.
NotLetIn == \A r \in Requests : /\ pc[r] = "idle" => op[r] = "none"
                                /\ pc[r] # "idle" => op[r] # "none"
                                /\ pc[r] \in {"idle", "lookup"} => uid[r] = NoUser

ExpiredSaved == \A t \in expired : refresh_tokens[t] # NoRow

\* Only an open transaction holds rows, and they are its own user's.
HeldOwn == \A r \in Requests :
             held[r] # {} => /\ pc[r] = "commit"
                             /\ \A t \in held[r] : /\ refresh_tokens[t] # NoRow
                                                   /\ refresh_tokens[t].user_id = uid[r]

RInv == IInv /\ NotLetIn /\ ExpiredSaved /\ HeldOwn

\* A request gets its user from Lookup at the earliest.
LEMMA NotLetInStep == Control /\ NotLetIn /\ [Next]_vars => NotLetIn'
<1> SUFFICES ASSUME Control, NotLetIn, [Next]_vars, NEW r \in Requests
             PROVE  /\ pc'[r] = "idle" => op'[r] = "none"
                    /\ pc'[r] # "idle" => op'[r] # "none"
                    /\ pc'[r] \in {"idle", "lookup"} => uid'[r] = NoUser
  BY DEF NotLetIn
<1>1. CASE Untouched(r)
  BY <1>1 DEF Untouched, NotLetIn
<1>2. CASE Starts(r)
  <2>1. \A q \in Requests : Step(q) \/ Fail(q) => pc[q] # "idle" /\ \E p : Goto(q, p)
    BY DEF Step, Lookup, Invalidate, LoadUser, Count, Upsert, Snapshot, LockRows, Commit, Fail,
           GotoOrLost, Goto, Working
  <2>2. \A q \in Requests : ~ Step(q) /\ ~ Fail(q)
    BY <1>2, <2>1 DEF Starts, Goto, Control, TypeOK
  <2>3. pc' # pc
    BY <1>2 DEF Starts
  <2>4. PICK q \in Requests : \/ \E t \in Requests : StartRefresh(q, t) \/ StartLogout(q, t)
                              \/ \E g \in GitHubIds : StartLogin(q, g)
    BY <2>2, <2>3 DEF Next, Expire, SetActive, SetRole, WriteRow, vars
  <2>5. q = r /\ pc[r] = "idle"
    BY <1>2, <2>4 DEF Starts, StartRefresh, StartLogout, StartLogin, Start, Goto, Control, TypeOK
  <2> QED
    BY <1>2, <2>4, <2>5 DEF StartRefresh, StartLogout, StartLogin, Start, Goto, Starts,
                            NotLetIn, Control, TypeOK
<1>3. CASE Step(r) \/ Fail(r)
  BY <1>3 DEF Step, Lookup, Invalidate, LoadUser, Count, Upsert, Snapshot, LockRows, Commit,
              Fail, Goto, GotoOrLost, NotLetIn, Control, TypeOK, Working
<1> QED
  BY <1>1, <1>2, <1>3, RequestMoves

\* Only saved tokens expire, and rows stay.
LEMMA ExpiredSavedStep == Control /\ ExpiredSaved /\ [Next]_vars => ExpiredSaved'
<1> SUFFICES ASSUME Control, ExpiredSaved, [Next]_vars, NEW t \in expired'
             PROVE  refresh_tokens'[t] # NoRow
  BY DEF ExpiredSaved
<1>1. t \in Requests /\ refresh_tokens[t] # NoRow
  BY DEF Control, TypeOK, ExpiredSaved, Next, vars, StartRefresh, StartLogout, StartLogin, Start,
         Step, Lookup, Invalidate, LoadUser, Count, Upsert, Snapshot, LockRows, Commit, Fail,
         Expire, SetActive, SetRole, WriteRow
<1> QED
  BY <1>1, RowsGrow

\* LockRows takes rows of the request's own user, and only its transaction keeps them.
LEMMA HeldOwnStep == Control /\ HeldOwn /\ [Next]_vars => HeldOwn'
<1> SUFFICES ASSUME Control, HeldOwn, [Next]_vars, NEW r \in Requests, held'[r] # {}
             PROVE  /\ pc'[r] = "commit"
                    /\ \A t \in held'[r] : /\ refresh_tokens'[t] # NoRow
                                           /\ refresh_tokens'[t].user_id = uid'[r]
  BY DEF HeldOwn
<1>1. /\ pc'[r] = "commit" /\ held'[r] \subseteq Requests
      /\ \A t \in held'[r] : refresh_tokens[t] # NoRow /\ refresh_tokens[t].user_id = uid'[r]
  <2>1. CASE Untouched(r)
    BY <2>1 DEF Untouched, HeldOwn, Control, TypeOK
  <2>2. CASE LockRows(r)
    BY <2>2 DEF LockRows, Goto, UnusedTokens, Control, TypeOK
  <2>3. CASE Commit(r) \/ Fail(r)
    BY <2>3 DEF Commit, Fail, Control, TypeOK
  <2>4. CASE (Step(r) /\ ~ LockRows(r) /\ ~ Commit(r)) \/ Starts(r)
    <3>1. held[r] = {}
      BY <2>4 DEF HeldOwn, Step, Lookup, Invalidate, LoadUser, Count, Upsert, Snapshot, Starts
    <3>2. CASE Step(r) /\ ~ LockRows(r) /\ ~ Commit(r)
      BY <3>1, <3>2 DEF Step, Lookup, Invalidate, LoadUser, Count, Upsert, Snapshot
    <3>3. CASE Starts(r)
      <4>1. \/ UNCHANGED held
            \/ \E q \in Requests : LockRows(q) \/ Commit(q) \/ Fail(q)
        BY DEF Next, vars, StartRefresh, StartLogout, StartLogin, Start, Step, Lookup, Invalidate,
               LoadUser, Count, Upsert, Snapshot, Expire, SetActive, SetRole, WriteRow
      <4>2. ASSUME NEW q \in Requests, LockRows(q) \/ Commit(q) \/ Fail(q) PROVE held'[r] = {}
        <5>1. q # r
          BY <3>3, <4>2 DEF Starts, LockRows, Commit, Fail, Working
        <5>2. held'[r] = held[r]
          BY <4>2, <5>1 DEF LockRows, Commit, Fail, Control, TypeOK
        <5> QED
          BY <3>1, <5>2
      <4> QED
        BY <3>1, <4>1, <4>2
    <3> QED
      BY <2>4, <3>2, <3>3
  <2> QED
    BY <2>1, <2>2, <2>3, <2>4, RequestMoves
<1> QED
  BY <1>1, RowsGrow

-----------------------------------------------------------------------------
(* The mapping.                                                            *)

\* A token exists for the store when its row does, with the row's user.
LEMMA OwnerOfRow ==
  ASSUME Control
  PROVE  /\ Store!Issued = {t \in Requests : refresh_tokens[t] # NoRow}
         /\ \A t \in Requests : refresh_tokens[t] # NoRow => Owner[t] = refresh_tokens[t].user_id
<1>1. \A t \in Requests : refresh_tokens[t] # NoRow => refresh_tokens[t].user_id \in GitHubIds
  BY DEF Control, TypeOK, RefreshToken
<1> QED
  BY <1>1, SentinelAssumption DEF Store!Issued, Owner

\* Tokens die and stay dead.
LEMMA DeadGrows ==
  ASSUME Control, [Next]_vars
  PROVE  Dead \subseteq Dead'
<1>1. expired \subseteq expired'
  BY DEF Next, vars, StartRefresh, StartLogout, StartLogin, Start, Step, Lookup, Invalidate,
         LoadUser, Count, Upsert, Snapshot, LockRows, Commit, Fail, Expire, SetActive, SetRole, WriteRow
<1> QED
  BY <1>1, RowsGrow DEF Dead, Valid

\* A step that leaves rows and expiry alone leaves owners and deaths alone.
LEMMA SameRows ==
  ASSUME UNCHANGED <<refresh_tokens, expired>>
  PROVE  Owner' = Owner /\ Dead' = Dead
BY DEF Owner, Dead, Valid

\* A request that begins knows the tokens that were answered.
LEMMA BeginMaps ==
  ASSUME RInv, [Next]_vars, NEW r \in Requests, NEW o \in {"refresh", "logout", "login"},
         NEW p \in Working, Start(r, o, p),
         UNCHANGED uid \/ o = "login",
         \A q \in Requests : q # r => tok'[q] = tok[q] /\ uid'[q] = uid[q]
  PROVE  Store!Begin(r)
<1>1. /\ pc[r] = "idle" /\ uid[r] = NoUser
      /\ pc' = [pc EXCEPT ![r] = p]
      /\ op' = [op EXCEPT ![r] = o]
      /\ prior' = [prior EXCEPT ![r] = {q \in Requests : pc[q] = "ok"}]
      /\ UNCHANGED <<refresh_tokens, expired>>
      /\ Control /\ NotLetIn
  BY DEF Start, Goto, RInv, IInv, NotLetIn
<1>2. LetIn[r] = {} /\ LetIn' = LetIn
  BY <1>1 DEF LetIn, Control, TypeOK
<1>3. r \notin AnsweredOk /\ AnsweredOk' = AnsweredOk
  BY <1>1 DEF AnsweredOk, Control, TypeOK, Working
<1>4. \A q \in Requests : pc[q] = "ok" => (op'[q] # "logout" <=> refresh_tokens[q] # NoRow)
  BY <1>1 DEF Control, TypeOK, RowsFitPc, Grants, NotLetIn
<1>5. AnsweredOk \cap Store!Issued = {q \in Requests : pc[q] = "ok" /\ op'[q] # "logout"}
  BY <1>1, <1>4, OwnerOfRow DEF AnsweredOk
<1>6. \A s \in Requests : s # r => Known'[s] = Known[s]
  BY <1>1 DEF Known, Control, TypeOK, PriorAnswered
<1>7. Known'[r] = {q \in Requests : pc[q] = "ok" /\ op'[q] # "logout"}
  BY <1>1 DEF Known, Control, TypeOK
<1>8. Known' = [Known EXCEPT ![r] = AnsweredOk \cap Store!Issued]
  BY <1>5, <1>6, <1>7 DEF Known
<1> QED
  BY <1>1, <1>2, <1>3, <1>8, SameRows DEF Store!Begin

\* What no request beginning means for the history that is mapped.
LEMMA SameKnown ==
  ASSUME UNCHANGED <<op, prior>>
  PROVE  Known' = Known
BY DEF Known

\* A successful Lookup lets the request in; any other changes nothing.
LEMMA LookupMaps ==
  ASSUME RInv, NEW r \in Requests, Lookup(r)
  PROVE  Store!Accept(r, tok[r]) \/ UNCHANGED Store!vars
<1>1. /\ pc[r] = "lookup" /\ uid[r] = NoUser /\ op[r] # "login"
      /\ tok[r] \in Requests
      /\ UNCHANGED <<refresh_tokens, expired, op, tok, prior>>
      /\ Control
  BY DEF Lookup, RInv, IInv, NotLetIn, Control, TypeOK, OpFitsPc
<1>2. AnsweredOk' = AnsweredOk
  BY <1>1 DEF Lookup, Goto, AnsweredOk, Control, TypeOK
<1>3. CASE Valid(tok[r])
  <2>1. /\ refresh_tokens[tok[r]] # NoRow
        /\ refresh_tokens[tok[r]].user_id \in GitHubIds
        /\ uid' = [uid EXCEPT ![r] = refresh_tokens[tok[r]].user_id]
    BY <1>1, <1>3 DEF Valid, Lookup, Control, TypeOK, RefreshToken
  <2>2. LetIn[r] = {} /\ LetIn' = [LetIn EXCEPT ![r] = {tok[r]}]
    BY <1>1, <2>1, SentinelAssumption DEF LetIn, Control, TypeOK
  <2>3. tok[r] \in Store!Issued \ Dead
    BY <1>1, <1>3, <2>1, OwnerOfRow DEF Dead
  <2> QED
    BY <1>1, <1>2, <2>2, <2>3, SameRows, SameKnown DEF Store!Accept
<1>4. CASE ~ Valid(tok[r])
  BY <1>1, <1>2, <1>4, SameRows, SameKnown DEF Lookup, LetIn, Store!vars
<1> QED
  BY <1>3, <1>4

\* InvalidateRefreshToken ends the presented token; for a logout, it answers.
LEMMA InvalidateMaps ==
  ASSUME RInv, [Next]_vars, NEW r \in Requests, Invalidate(r)
  PROVE  Store!End \/ Store!Answer(r)
<1>1. /\ pc[r] = "invalidate" /\ op[r] \in {"refresh", "logout"}
      /\ UNCHANGED <<expired, op, tok, uid, prior>>
      /\ Control
  BY DEF Invalidate, RInv, IInv, Control, OpFitsPc
<1>2. TokenConsumed(r)
  BY <1>1, InvalidateEffect
<1>3. Control'
  BY <1>1, InvalidateControl
<1>4. Owner' = Owner
  BY <1>2, SentinelAssumption DEF Owner, TokenConsumed
<1>5. Dead \subseteq Dead' /\ Dead' \subseteq Store!Issued
  BY <1>1, <1>2, DeadGrows, OwnerOfRow DEF Dead, TokenConsumed
<1>6. LetIn' = LetIn /\ Known' = Known
  BY <1>1 DEF LetIn, Known
<1>7. LetIn[r] \subseteq Dead'
  BY <1>1, <1>2 DEF LetIn, Dead, Valid, Control, TypeOK, RowsFitPc, Accepted, TokenConsumed
<1>8. MovedTo(r, IF op[r] = "logout" THEN "ok" ELSE "user")
  BY <1>1, GotoOrLostEffect DEF Invalidate, Working, Answered
<1>9. CASE pc'[r] = "ok"
  <2>1. r \notin AnsweredOk /\ AnsweredOk' = AnsweredOk \cup {r}
    BY <1>1, <1>8, <1>9 DEF AnsweredOk, MovedTo
  <2> QED
    BY <2>1, <1>4, <1>5, <1>6, <1>7 DEF Store!Answer
<1>10. CASE pc'[r] # "ok"
  <2>1. AnsweredOk' = AnsweredOk
    BY <1>1, <1>8, <1>10 DEF AnsweredOk, MovedTo
  <2> QED
    BY <2>1, <1>4, <1>5, <1>6 DEF Store!End
<1> QED
  BY <1>9, <1>10

\* The commit of SaveRefreshToken issues the token, answered or not: what the
\* transaction holds covers what the store has to end.
LEMMA CommitMaps ==
  ASSUME RInv, [Next]_vars, NEW r \in Requests, Commit(r)
  PROVE  Store!Issue(r, uid[r]) /\ uid[r] \in GitHubIds
<1>1. /\ pc[r] = "commit" /\ op[r] \in Grants /\ uid[r] \in GitHubIds
      /\ UNCHANGED <<expired, op, tok, uid, prior>>
      /\ Control /\ HeldCovers /\ Consumed
  BY DEF Commit, RInv, IInv, Control, OpFitsPc, UserFitsPc, HasUser, Tokens
<1>2. TokenSaved(r)
  BY <1>1, CommitEffect
<1>3. Control'
  BY <1>1, CommitControl
<1>4. /\ refresh_tokens' = [t \in Requests |->
             IF t = r THEN [user_id |-> uid[r], used |-> FALSE]
             ELSE IF t \in held[r] THEN MarkUsed(refresh_tokens[t])
             ELSE refresh_tokens[t]]
      /\ held[r] \subseteq Requests
  BY <1>1 DEF Commit, Control, TypeOK
<1>5. Owner' = [Owner EXCEPT ![r] = uid[r]]
  BY <1>1, <1>2, SentinelAssumption DEF Owner, TokenSaved
<1>6. r \notin Store!Issued
  BY <1>1, <1>2, OwnerOfRow DEF TokenSaved
<1>7. r \notin Dead'
  <2>1. ~ refresh_tokens'[r].used
    BY <1>4
  <2>2. r \notin expired'
    BY <1>1, <1>2 DEF RInv, ExpiredSaved, TokenSaved
  <2> QED
    BY <2>1, <2>2 DEF Dead, Valid
<1>8. LetIn[r] \subseteq Dead'
  <2> SUFFICES ASSUME op[r] = "refresh" PROVE tok[r] \in Dead'
    BY <1>1 DEF LetIn, Grants
  <2>1. /\ tok[r] \in Requests /\ Accepted(r)
        /\ refresh_tokens[tok[r]] # NoRow /\ refresh_tokens[tok[r]].used
    BY <1>1 DEF Accepted, Consumed, Control, TypeOK, RowsFitPc
  <2> QED
    BY <1>2, <2>1 DEF Dead, Valid, TokenSaved
<1>9. ASSUME NEW t \in Known[r], Owner[t] = uid[r] PROVE t \in Dead'
  <2>1. t \in Requests /\ t \in prior[r] /\ op[t] # "logout" /\ pc[t] = "ok"
    BY <1>1, <1>9 DEF Known, Control, TypeOK, PriorAnswered
  <2>2. refresh_tokens[t] # NoRow /\ refresh_tokens[t].user_id = uid[r] /\ t # r
    BY <1>1, <1>9, <2>1, SentinelAssumption DEF Owner
  <2>3. refresh_tokens[t].used \/ t \in held[r]
    BY <1>1, <2>1, <2>2 DEF HeldCovers, Owed, UnusedTokens
  <2> QED
    BY <1>2, <2>1, <2>2, <2>3 DEF Dead, Valid, TokenSaved
<1>10. ASSUME NEW t \in Dead', t \notin Dead PROVE Owner[t] = uid[r]
  <2>1. t \in Requests /\ t # r /\ refresh_tokens'[t] # NoRow
    BY <1>7, <1>10 DEF Dead
  <2>2. t \in held[r] /\ refresh_tokens[t] # NoRow
    BY <1>1, <1>2, <1>4, <1>10, <2>1 DEF Dead, Valid, TokenSaved
  <2>3. refresh_tokens[t].user_id = uid[r]
    BY <2>2 DEF RInv, HeldOwn
  <2> QED
    BY <2>1, <2>2, <2>3 DEF Owner
<1>11. AnsweredOk' \in {AnsweredOk, AnsweredOk \cup {r}}
  <2>1. MovedTo(r, "ok")
    BY <1>1, GotoOrLostEffect DEF Commit, Working, Answered
  <2> QED
    BY <1>1, <2>1 DEF AnsweredOk, MovedTo
<1>12. LetIn' = LetIn /\ Known' = Known
  BY <1>1 DEF LetIn, Known
<1> QED
  BY <1>1, <1>5, <1>6, <1>7, <1>8, <1>9, <1>10, <1>11, <1>12, DeadGrows DEF Store!Issue

\* The rest only moves requests between places the store does not tell apart.
LEMMA QuietMaps ==
  ASSUME RInv, NEW r \in Requests,
         LoadUser(r) \/ Count(r) \/ Upsert(r) \/ Snapshot(r) \/ LockRows(r) \/ Fail(r)
  PROVE  UNCHANGED Store!vars
<1>1. UNCHANGED <<refresh_tokens, expired, op, tok, uid, prior>>
  BY DEF LoadUser, Count, Upsert, Snapshot, LockRows, Fail
<1>2. AnsweredOk' = AnsweredOk
  BY DEF LoadUser, Count, Upsert, Snapshot, LockRows, Fail, Goto, GotoOrLost, Working,
         AnsweredOk, RInv, IInv, Control, TypeOK
<1>3. LetIn' = LetIn /\ Known' = Known
  BY <1>1 DEF LetIn, Known
<1> QED
  BY <1>1, <1>2, <1>3, SameRows DEF Store!vars

\* The invariant the mapping needs holds at first ...
LEMMA RInvInit == Init => RInv
BY InitIInv DEF Init, RInv, NotLetIn, ExpiredSaved, HeldOwn

\* ... and in every step.
LEMMA RInvStep == RInv /\ [Next]_vars => RInv'
BY ControlStep, TokensStep, AccountsStep, NotLetInStep, ExpiredSavedStep, HeldOwnStep
   DEF RInv, IInv

\* Every step of Sessions is one of the store's or leaves it alone.
LEMMA StepMaps == RInv /\ [Next]_vars => [Store!Next]_(Store!vars)
<1> SUFFICES ASSUME RInv, [Next]_vars PROVE Store!Next \/ UNCHANGED Store!vars
  OBVIOUS
<1>0. Control
  BY DEF RInv, IInv
<1>1. ASSUME NEW r \in Requests, NEW t \in Requests, StartRefresh(r, t) \/ StartLogout(r, t)
      PROVE  Store!Next
  <2>1. \A q \in Requests : q # r => tok'[q] = tok[q] /\ uid'[q] = uid[q]
    BY <1>0, <1>1 DEF StartRefresh, StartLogout, Control, TypeOK
  <2>2. Start(r, "refresh", "lookup") \/ Start(r, "logout", "lookup")
    BY <1>1 DEF StartRefresh, StartLogout
  <2>3. UNCHANGED uid
    BY <1>1 DEF StartRefresh, StartLogout
  <2>4. Store!Begin(r)
    BY <2>1, <2>2, <2>3, BeginMaps DEF Working
  <2> QED
    BY <2>4 DEF Store!Next
<1>2. ASSUME NEW r \in Requests, NEW g \in GitHubIds, StartLogin(r, g) PROVE Store!Next
  <2>1. \A q \in Requests : q # r => tok'[q] = tok[q] /\ uid'[q] = uid[q]
    BY <1>0, <1>2 DEF StartLogin, Control, TypeOK
  <2>2. Store!Begin(r)
    BY <1>2, <2>1, BeginMaps DEF StartLogin, Working
  <2> QED
    BY <2>2 DEF Store!Next
<1>3. ASSUME NEW r \in Requests, Lookup(r) PROVE Store!Next \/ UNCHANGED Store!vars
  <2>1. tok[r] \in Requests
    BY <1>0 DEF Control, TypeOK
  <2> QED
    BY <1>3, <2>1, LookupMaps DEF Store!Next
<1>4. ASSUME NEW r \in Requests, Invalidate(r) PROVE Store!Next
  BY <1>4, InvalidateMaps DEF Store!Next
<1>5. ASSUME NEW r \in Requests, Commit(r) PROVE Store!Next
  BY <1>5, CommitMaps DEF Store!Next
<1>6. ASSUME NEW r \in Requests,
             LoadUser(r) \/ Count(r) \/ Upsert(r) \/ Snapshot(r) \/ LockRows(r) \/ Fail(r)
      PROVE  UNCHANGED Store!vars
  BY <1>6, QuietMaps
<1>7. ASSUME NEW t \in Requests, Expire(t) PROVE Store!Next \/ UNCHANGED Store!vars
  <2>1. UNCHANGED <<refresh_tokens, pc, op, tok, uid, prior>>
    BY <1>7 DEF Expire
  <2>2. Owner' = Owner /\ LetIn' = LetIn /\ Known' = Known /\ AnsweredOk' = AnsweredOk
    BY <2>1 DEF Owner, LetIn, Known, AnsweredOk
  <2> QED
    BY <1>0, <2>1, <2>2, OwnerOfRow, DeadGrows DEF Dead, Store!End, Store!Next
<1>8. ASSUME NEW g \in GitHubIds, SetActive(g) \/ \E ro \in Roles : SetRole(g, ro)
      PROVE  UNCHANGED Store!vars
  BY <1>8, SameRows DEF SetActive, SetRole, WriteRow, LetIn, Known, AnsweredOk, Store!vars
<1>9. CASE UNCHANGED vars
  BY <1>9, SameRows DEF vars, LetIn, Known, AnsweredOk, Store!vars
<1> QED
  BY <1>1, <1>2, <1>3, <1>4, <1>5, <1>6, <1>7, <1>8, <1>9 DEF Next, Step

-----------------------------------------------------------------------------

\* Whatever requests interleave, fail or lose their answer, sessions come to
\* what the abstract token store promises.
THEOREM Implements == Spec => ImplementsTokenStore
<1>1. Init => Store!Init
  BY SentinelAssumption DEF Init, Store!Init, Owner, Dead, Known, LetIn, AnsweredOk
<1>2. Spec => [][Store!Next]_(Store!vars)
  BY RInvInit, RInvStep, StepMaps, PTL DEF Spec
<1> QED
  BY <1>1, <1>2, PTL DEF Spec, ImplementsTokenStore, Store!Spec
=============================================================================
