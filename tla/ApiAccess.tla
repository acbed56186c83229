----------------------------- MODULE ApiAccess -----------------------------
(***************************************************************************)
(* A request to /api/* on its way through the middleware, in the order of  *)
(* bootstrap.go: JWTAuth, APIVersion, APIRateLimit and, for POST and       *)
(* DELETE, RequireRole("admin").  The rate limit is module RateLimit, its  *)
(* keys the ids of the users.                                              *)
(*                                                                         *)
(* An access token is trusted for what it says until it expires; of the    *)
(* users table the chain only looks at is_active.  Meanwhile an operator   *)
(* may change a user's role or disable the account.                        *)
(***************************************************************************)
EXTENDS RateLimit

CONSTANTS AccessTokens,  \* the access tokens issued
          Holder,        \* Holder[t]: the user that t is issued to, as it is named
          Managed,       \* the users whose rows an operator changes
          TokenLife      \* ticks until one expires, 180 in the code

ASSUME AccessAssumption == /\ TokenLife \in Nat \ {0} /\ Managed \subseteq Keys
                           /\ None \notin AccessTokens /\ Holder \in [AccessTokens -> Keys]

Roles == {"admin", "analyst"}

VARIABLES role,       \* column role of users
          is_active,  \* column is_active
          issue,      \* what the request that issues a token has read of its user
          claims,     \* what a signed access token says
          apc,        \* where a request stands
          token,      \* the token it carries, None if none that verifies
          wasAdmin,   \* (history) its user had been admin lately when it came
          sawActive,  \* (history) the account was active at some time since
          lastAdmin   \* (history) last tick a demoted user was admin in

userVars == <<role, is_active, lastAdmin>>
requestVars == <<apc, token, wasAdmin, sawActive>>
tokenVars == <<issue, claims>>
accessVars == <<userVars, tokenVars, requestVars>>
vars == <<limiterVars, accessVars>>

\* read is the tick the row was read in.
Issues == [user : Keys, role : Roles, read : 0..MaxTime]

Claims == [user : Keys, role : Roles, iat : 0..MaxTime]

Init == /\ LimiterInit
        /\ role = [u \in Keys |-> "analyst"]
        /\ is_active = [u \in Keys |-> TRUE]
        /\ lastAdmin = [u \in Keys |-> -1]
        /\ issue = [t \in AccessTokens |-> None]
        /\ claims = [t \in AccessTokens |-> None]
        /\ apc = [r \in Calls |-> "idle"]
        /\ token = [r \in Calls |-> None]
        /\ wasAdmin = [r \in Calls |-> FALSE]
        /\ sawActive = [r \in Calls |-> FALSE]

LastAdmin(u) == IF role[u] = "admin" THEN now ELSE lastAdmin[u]

Goto(r, p) == apc' = [apc EXCEPT ![r] = p]

\* What is over leaves no history.
Forget(r, p) == /\ Goto(r, p)
                /\ token' = [token EXCEPT ![r] = None]
                /\ wasAdmin' = [wasAdmin EXCEPT ![r] = FALSE]
                /\ sawActive' = [sawActive EXCEPT ![r] = FALSE]

-----------------------------------------------------------------------------
(* Tokens and accounts.                                                    *)

\* A login or a refresh reads the user's row: the RETURNING of UpsertUser, or
\* GetUserByID.  A refresh refuses a disabled account, a login through GitHub
\* does not.
ReadUser(t) ==
  LET u == Holder[t] IN
  /\ issue[t] = None
  /\ issue' = [issue EXCEPT ![t] = [user |-> u, role |-> role[u], read |-> now]]
  /\ UNCHANGED <<limiterVars, userVars, claims, requestVars>>

\* IssueTokenPair takes the time later, and signs what was read of the row.
Sign(t) ==
  /\ issue[t] # None /\ claims[t] = None
  /\ claims' = [claims EXCEPT ![t] =
                 [user |-> issue[t].user, role |-> issue[t].role, iat |-> now]]
  /\ UNCHANGED <<limiterVars, userVars, issue, requestVars>>

\* An operator changes a role in the database ...
SetRole(u, rl) ==
  /\ role[u] # rl
  /\ role' = [role EXCEPT ![u] = rl]
  /\ lastAdmin' = [lastAdmin EXCEPT ![u] = IF role[u] = "admin" THEN now ELSE @]
  /\ UNCHANGED <<limiterVars, is_active, tokenVars, requestVars>>

\* ... or disables and enables an account.
SetActive(u, b) ==
  /\ is_active[u] # b
  /\ is_active' = [is_active EXCEPT ![u] = b]
  /\ sawActive' = [r \in Calls |->
       sawActive[r] \/ (b /\ apc[r] = "lookup" /\ claims[token[r]].user = u)]
  /\ UNCHANGED <<limiterVars, role, lastAdmin, tokenVars, apc, token, wasAdmin>>

-----------------------------------------------------------------------------
(* The chain.                                                              *)

\* Mutant of Verifies: exp is not looked at.
VerifiesEver(t) == TRUE

\* ParseAndValidateJWT: signed by this backend, and now is before exp.
Verifies(t) == now < claims[t].iat + TokenLife

\* How long the issuing took from the row to the signature.
Issuing(t) == claims[t].iat - issue[t].read

\* JWTAuth up to the verdict on the token.  Without one that verifies the
\* answer is a 401, which leaves no trace.
Arrive(r, t) ==
  /\ apc[r] = "idle"
  /\ claims[t] # None /\ Verifies(t)
  /\ token' = [token EXCEPT ![r] = t]
  /\ wasAdmin' = [wasAdmin EXCEPT ![r] =
                   LastAdmin(claims[t].user) > now - (TokenLife + Issuing(t))]
  /\ sawActive' = [sawActive EXCEPT ![r] = is_active[claims[t].user]]
  /\ Goto(r, "lookup")
  /\ UNCHANGED <<limiterVars, userVars, tokenVars>>

\* Mutant of Authenticated: the row is read, is_active is not looked at.
AuthenticatedAnyway(r) == TRUE

\* u.IsActive
Authenticated(r) == is_active[claims[token[r]].user]

\* GetUserByID: a failed query is a 401, a disabled account a 403.  Then
\* APIVersion: no header X-API-Version: 1 is a 400.
LookUpUser(r) ==
  /\ apc[r] = "lookup"
  /\ \/ Authenticated(r) /\ Goto(r, "limit") /\ UNCHANGED <<token, wasAdmin, sawActive>>
     \/ Forget(r, "idle")
  /\ UNCHANGED <<limiterVars, userVars, tokenVars>>

\* Mutant of LimiterKey: one key for all, the address of a proxy.
LimiterKeyOfProxy(r) == CHOOSE u \in Keys : TRUE

\* UserIDFromContext: the user the token was issued to.
LimiterKey(r) == claims[token[r]].user

\* APIRateLimit
RateLimit(r) ==
  /\ apc[r] = "limit"
  /\ Load(r, LimiterKey(r)) \/ Limit(r)
  /\ UNCHANGED accessVars

\* Mutant of MayWrite: RequireRole is missing on the route.
MayWriteAnyway(r) == TRUE

\* RequireRole("admin"), which POST and DELETE go through, asks the role in the
\* context, the token's.  It and the route's method are the request's own:
\* what an admitted request may do needs no step.
MayWrite(r) == claims[token[r]].role = "admin"

Next == \/ \E t \in AccessTokens : ReadUser(t) \/ Sign(t)
        \/ \E u \in Managed : \/ \E rl \in Roles : SetRole(u, rl)
                              \/ \E b \in BOOLEAN : SetActive(u, b)
        \/ \E r \in Calls : \/ \E t \in AccessTokens : Arrive(r, t)
                            \/ LookUpUser(r) \/ RateLimit(r)
        \/ (Evictor \/ Tick) /\ UNCHANGED accessVars

Spec == Init /\ [][Next]_vars

-----------------------------------------------------------------------------
(* Properties.                                                             *)

\* Every variable has its type.
TypeOK == /\ LimiterTypeOK
          /\ role \in [Keys -> Roles]
          /\ is_active \in [Keys -> BOOLEAN]
          /\ lastAdmin \in [Keys -> Int]
          /\ issue \in [AccessTokens -> Issues \cup {None}]
          /\ claims \in [AccessTokens -> Claims \cup {None}]
          /\ apc \in [Calls -> {"idle", "lookup", "limit"}]
          /\ token \in [Calls -> AccessTokens \cup {None}]
          /\ wasAdmin \in [Calls -> BOOLEAN]
          /\ sawActive \in [Calls -> BOOLEAN]

User(r) == claims[token[r]].user

\* How stale a role may be when it is used: whoever gets to a handler that
\* changes profiles was an admin less than a token's life, and the time the
\* issuing of its token took, before the request came, however the operator
\* changed the roles meanwhile.
WritersWereAdmins == \A r \in Calls : lpc[r] = "admitted" /\ MayWrite(r) => wasAdmin[r]

\* Disabling an account takes effect at once: a request that comes when the
\* account is disabled and stays so gets no further than JWTAuth, although its
\* token, which a login may even have issued meanwhile, is valid.
DisabledShutOut ==
  \A r \in Calls : apc[r] = "limit" => sawActive[r]

\* A user's requests are refused only for the user's own: no request of
\* another user, and none without a token that verifies, uses up the budget.
ThrottledByOwnRequests ==
  \A r \in Calls : lpc[r] = "refused" =>
    Cardinality({q \in Calls : /\ lpc[q] = "admitted"
                               /\ User(q) = User(r)
                               /\ at[q] > at[r] - Burst}) >= Burst
=============================================================================
