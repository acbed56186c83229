----------------------------- MODULE OAuthFlow -----------------------------
(***************************************************************************)
(* The OAuth login flow as the backend sees it: GET /auth/github stores a  *)
(* state entry in the memory of the instance that serves it and sends the  *)
(* browser to GitHub; GET /auth/github/callback pops the entry, checks the *)
(* PKCE verifier, exchanges the code and answers with tokens.  Beside the  *)
(* handlers runs a goroutine that purges expired entries.                  *)
(*                                                                         *)
(* A flow stands for one GET /auth/github and for the entry it stores.  A  *)
(* code challenge is named by the one verifier whose SHA-256 it is.  A     *)
(* state string the backend generates is random, so it is named by its     *)
(* flow; a state the client supplies may be supplied again.  What is left  *)
(* of the callback after the check of the state, the calls to GitHub and   *)
(* then UpsertUser and IssueTokenPair, which are module Sessions, is one   *)
(* step here that succeeds or fails.                                       *)
(***************************************************************************)
EXTENDS FiniteSets

CONSTANTS Flows,        \* GET /auth/github requests
          Callbacks,    \* GET /auth/github/callback requests
          Instances,    \* processes, each with a state store of its own
          ClientStates, \* state strings clients supply
          Verifiers,    \* PKCE code verifiers
          None          \* no entry, flow, instance, state or verifier

ASSUME NoneAssumption ==
  None \notin Flows \cup Instances \cup ClientStates \cup Verifiers

States == Flows \cup ClientStates

VARIABLES states,       \* sync.Map of each instance: state string -> entry
          expired,      \* the flows whose entry is older than ten minutes
          home,         \* the instance that served a flow
          state,        \* its state string
          challenge,    \* its code_challenge
          redirectURI,  \* whether it came with a redirect_uri
          before,       \* (history) the flows that had started when it did
          sweep,        \* expired entries a purge has yet to visit
          doomed,       \* the key a purge has found expired and will delete
          cpc,          \* where each callback request stands
          from,         \* the flow whose state string it carries
          verifier,     \* its code_verifier
          at,           \* the instance that serves it
          entry         \* the entry it popped

flowVars == <<home, state, challenge, redirectURI, before>>
callbackVars == <<cpc, from, verifier, at, entry>>
vars == <<states, expired, flowVars, sweep, doomed, callbackVars>>

Started == {f \in Flows : home[f] # None}

\* isCLI := codeChallenge != ""
IsCLI(f) == challenge[f] # None

Stored(i) == {f \in Started : states[i][state[f]] = f}

Answers == {"bad_request", "invalid_state", "invalid_verifier", "failed",
            "json", "redirect", "cookies"}

Init == /\ states = [i \in Instances |-> [s \in States |-> None]]
        /\ expired = {}
        /\ home = [f \in Flows |-> None]
        /\ state = [f \in Flows |-> None]
        /\ challenge = [f \in Flows |-> None]
        /\ redirectURI = [f \in Flows |-> FALSE]
        /\ before = [f \in Flows |-> {}]
        /\ sweep = [i \in Instances |-> {}]
        /\ doomed = [i \in Instances |-> None]
        /\ cpc = [c \in Callbacks |-> "idle"]
        /\ from = [c \in Callbacks |-> None]
        /\ verifier = [c \in Callbacks |-> None]
        /\ at = [c \in Callbacks |-> None]
        /\ entry = [c \in Callbacks |-> None]

-----------------------------------------------------------------------------
(* GET /auth/github.                                                       *)

\* Mutant of StateToStore: LoadOrStore, an entry that is there stays.
StateToStoreIfAbsent(i, s, f) == IF states[i][s] = None THEN f ELSE states[i][s]

\* sync.Map.Store: the entry replaces whatever the key held.
StateToStore(i, s, f) == f

\* RedirectToGitHub: take the client's state or generate one, store the entry
\* and redirect.  GitHub gets the state and the challenge, no redirect_uri.
RedirectToGitHub(f, i, s, ch, uri) ==
  /\ home[f] = None
  /\ home' = [home EXCEPT ![f] = i]
  /\ state' = [state EXCEPT ![f] = s]
  /\ challenge' = [challenge EXCEPT ![f] = ch]
  /\ redirectURI' = [redirectURI EXCEPT ![f] = uri]
  /\ before' = [before EXCEPT ![f] = Started]
  /\ states' = [states EXCEPT ![i][s] = StateToStore(i, s, f)]
  /\ UNCHANGED <<expired, sweep, doomed, callbackVars>>

-----------------------------------------------------------------------------
(* GET /auth/github/callback.                                              *)

\* Mutant of Validation: the ok of LoadAndDelete is forgotten.
ValidationUnfound(e, v) ==
  IF e # None /\ e \in expired THEN "invalid_state"
  ELSE IF e # None /\ IsCLI(e) /\ v # challenge[e] THEN "invalid_verifier"
  ELSE "exchange"

\* Mutant of Validation: the verifier is checked only when there is one.
ValidationIfGiven(e, v) ==
  IF e = None \/ e \in expired THEN "invalid_state"
  ELSE IF IsCLI(e) /\ v # None /\ v # challenge[e] THEN "invalid_verifier"
  ELSE "exchange"

\* Mutant of Validation: expiresAt is not looked at.
ValidationAnyAge(e, v) ==
  IF e = None THEN "invalid_state"
  ELSE IF IsCLI(e) /\ v # challenge[e] THEN "invalid_verifier"
  ELSE "exchange"

\* ValidateAndPopState on the popped entry and the request's code_verifier.
Validation(e, v) ==
  IF e = None \/ e \in expired THEN "invalid_state"
  ELSE IF IsCLI(e) /\ v # challenge[e] THEN "invalid_verifier"
  ELSE "exchange"

\* Mutant of Pop: Load without Delete.
PopByLoad(i, s) == UNCHANGED states

\* LoadAndDelete: atomic, and the entry is gone whatever the checks then say.
Pop(i, s) == states' = [states EXCEPT ![i][s] = None]

\* A callback with the state string of flow f: GitHub's redirect carries no
\* code_verifier, a CLI that calls by itself may pass its own or a wrong one.
Arrive(c, f, v, i) ==
  /\ cpc[c] = "idle"
  /\ f \in Started
  /\ from' = [from EXCEPT ![c] = f]
  /\ verifier' = [verifier EXCEPT ![c] = v]
  /\ at' = [at EXCEPT ![c] = i]
  /\ UNCHANGED <<expired, flowVars, sweep, doomed>>

\* GitHub sent no code (the user declined): 400, and the entry stays.
CallbackWithoutCode(c, f, v, i) ==
  /\ Arrive(c, f, v, i)
  /\ cpc' = [cpc EXCEPT ![c] = "bad_request"]
  /\ UNCHANGED <<states, entry>>

Callback(c, f, v, i) ==
  LET e == states[i][state[f]] IN
  /\ Arrive(c, f, v, i)
  /\ entry' = [entry EXCEPT ![c] = e]
  /\ cpc' = [cpc EXCEPT ![c] = Validation(e, v)]
  /\ Pop(i, state[f])

\* AuthService.HandleCallback: ExchangeCode and GetUser at GitHub, UpsertUser,
\* IssueTokenPair.  Any of them may fail, and the entry is not put back.
Exchange(c) ==
  /\ cpc[c] = "exchange"
  /\ \E r \in {"respond", "failed"} : cpc' = [cpc EXCEPT ![c] = r]
  /\ UNCHANGED <<states, expired, flowVars, sweep, doomed, from, verifier, at, entry>>

\* How a request whose tokens are issued may answer.  A CLI's callback server
\* may be unreachable; the handler then answers the request itself, with a
\* redirect if it came without a verifier.  The redirect_uri may not parse, nor
\* the dashboard's address, which is noticed when the cookies are already set.
Answer(c) ==
  LET e == entry[c]
      toURI == {"redirect", "failed"}
  IN  IF IsCLI(e)
        THEN {"json"} \cup (IF redirectURI[e] /\ verifier[c] = None THEN toURI ELSE {})
        ELSE IF redirectURI[e] THEN toURI ELSE {"cookies", "failed"}

Respond(c) ==
  /\ cpc[c] = "respond"
  /\ \E a \in Answer(c) : cpc' = [cpc EXCEPT ![c] = a]
  /\ UNCHANGED <<states, expired, flowVars, sweep, doomed, from, verifier, at, entry>>

-----------------------------------------------------------------------------
(* The purge, time and restarts.                                           *)

\* Mutant of Due: the comparison with expiresAt is forgotten.
DueAll(i) == Stored(i)

\* The entries now.After(expiresAt) holds of, for the now of one tick.
Due(i) == Stored(i) \cap expired

\* The ticker fires and now is read.
Tick(i) ==
  /\ sweep[i] = {} /\ doomed[i] = None
  /\ sweep' = [sweep EXCEPT ![i] = Due(i)]
  /\ UNCHANGED <<states, expired, flowVars, doomed, callbackVars>>

\* Range loads the value of a key and the closure compares its expiresAt.
Visit(i) ==
  /\ doomed[i] = None
  /\ \E f \in sweep[i] :
       /\ sweep' = [sweep EXCEPT ![i] = @ \ {f}]
       /\ doomed' = [doomed EXCEPT ![i] = IF f \in Stored(i) THEN state[f] ELSE None]
  /\ UNCHANGED <<states, expired, flowVars, callbackVars>>

\* Mutant of Purge: the closure's Delete is lost.
PurgeNothing(i) ==
  /\ doomed[i] # None
  /\ doomed' = [doomed EXCEPT ![i] = None]
  /\ UNCHANGED <<states, expired, flowVars, sweep, callbackVars>>

\* Then it deletes the key, whatever the key holds by now.
Purge(i) ==
  /\ doomed[i] # None
  /\ states' = [states EXCEPT ![i][doomed[i]] = None]
  /\ doomed' = [doomed EXCEPT ![i] = None]
  /\ UNCHANGED <<expired, flowVars, sweep, callbackVars>>

\* Ten minutes pass.
Expire(f) == /\ f \in Started \ expired
             /\ expired' = expired \cup {f}
             /\ UNCHANGED <<states, flowVars, sweep, doomed, callbackVars>>

\* A process ends and another takes its place: the store is gone, and so are
\* the requests it was serving.
Restart(i) ==
  /\ states' = [states EXCEPT ![i] = [s \in States |-> None]]
  /\ sweep' = [sweep EXCEPT ![i] = {}]
  /\ doomed' = [doomed EXCEPT ![i] = None]
  /\ cpc' = [c \in Callbacks |->
               IF at[c] = i /\ cpc[c] \in {"exchange", "respond"}
                 THEN "failed" ELSE cpc[c]]
  /\ UNCHANGED <<expired, flowVars, from, verifier, at, entry>>

Start(f) == \E i \in Instances, s \in ClientStates \cup {f},
               ch \in Verifiers \cup {None}, uri \in BOOLEAN :
              RedirectToGitHub(f, i, s, ch, uri)

Serve(c) == \/ \E f \in Flows, v \in Verifiers \cup {None}, i \in Instances :
                 \/ CallbackWithoutCode(c, f, v, i)
                 \/ Callback(c, f, v, i)
            \/ Exchange(c)
            \/ Respond(c)

Cleanup(i) == Tick(i) \/ Visit(i) \/ Purge(i)

Next == \/ \E f \in Flows : Start(f) \/ Expire(f)
        \/ \E c \in Callbacks : Serve(c)
        \/ \E i \in Instances : Cleanup(i) \/ Restart(i)

Spec == Init /\ [][Next]_vars

\* startCleanup's goroutine runs for as long as its process does.
FairSpec == Spec /\ \A i \in Instances : WF_vars(Cleanup(i))

-----------------------------------------------------------------------------
(* Properties.                                                             *)

\* Every variable has its type, a stored entry belongs to a flow of that
\* instance and that state string, and a request past the checks of the state
\* has the entry they were made on.
TypeOK == /\ states \in [Instances -> [States -> Flows \cup {None}]]
          /\ \A i \in Instances, s \in States :
               LET f == states[i][s] IN f # None => home[f] = i /\ state[f] = s
          /\ \A c \in Callbacks :
               cpc[c] \in {"exchange", "respond"} => entry[c] # None
          /\ expired \subseteq Started
          /\ home \in [Flows -> Instances \cup {None}]
          /\ state \in [Flows -> States \cup {None}]
          /\ challenge \in [Flows -> Verifiers \cup {None}]
          /\ redirectURI \in [Flows -> BOOLEAN]
          /\ before \in [Flows -> SUBSET Flows]
          /\ sweep \in [Instances -> SUBSET Flows]
          /\ doomed \in [Instances -> States \cup {None}]
          /\ cpc \in [Callbacks -> {"idle", "exchange", "respond"} \cup Answers]
          /\ from \in [Callbacks -> Flows \cup {None}]
          /\ verifier \in [Callbacks -> Verifiers \cup {None}]
          /\ at \in [Callbacks -> Instances \cup {None}]
          /\ entry \in [Callbacks -> Flows \cup {None}]

\* A login flow is good for one callback, whether that one succeeds or is
\* refused: no two callbacks ever get hold of the same entry, wherever they
\* are served and however they interleave with restarts and the purge.
EntryTakenOnce ==
  \A c, d \in Callbacks : entry[c] = entry[d] /\ entry[c] # None => c = d

\* A callback served where its flow was stored never gets an entry from
\* before that flow began: a state string supplied again always means the
\* challenge and redirect_uri of its last use.
EntryNotStale ==
  \A c \in Callbacks :
    (entry[c] # None /\ at[c] = home[from[c]]) => entry[c] \notin before[from[c]]

\* The tokens of a CLI flow are never put in a URL: the redirect that
\* HandleCallback falls back to when the CLI cannot be reached needs a request
\* without a verifier, and such a request has not got that far.
CliTokensNotInUrl ==
  \A c \in Callbacks : cpc[c] = "redirect" => ~ IsCLI(entry[c])

\* The purge takes an entry that has not expired only if its state string was
\* used before and that use has expired: never one with a generated state.
PurgeSparesFresh ==
  \A i \in Instances : \A f \in Stored(i) \ expired :
    doomed[i] = state[f] => \E g \in before[f] \cap expired : state[g] = state[f]

\* The flows whose entry a callback can still pop.
Open == UNION {Stored(i) : i \in Instances}

\* What the callbacks with an entry showed.
Shown == [c \in Callbacks |-> IF entry[c] = None THEN None ELSE verifier[c]]

LetIn == {c \in Callbacks : cpc[c] \in {"exchange", "respond"}}
WithTokens == {c \in Callbacks : cpc[c] \in {"json", "redirect", "cookies"}}

Tickets == INSTANCE LoginTickets WITH
  opened <- Started, open <- Open, lapsed <- expired, ticket <- entry, shown <- Shown,
  letIn <- LetIn, answered <- WithTokens

\* The stores, the purge and restarts come to no more than tickets: an entry is
\* used once, and tokens go only to a callback that pops an entry in time and
\* has the verifier of its challenge (auth.go ValidateAndPopState).
ImplementsLoginTickets == Tickets!Spec

\* An expired entry does not stay in memory: it is purged, popped, replaced or
\* gone with its process.
ExpiredPurged ==
  \A i \in Instances, f \in Flows :
    (f \in Stored(i) \cap expired) ~> (f \notin Stored(i))

\* What README.md:25-31 describes: GitHub redirects the browser to the
\* callback and the CLI's login completes; so GitHub's redirect, which has no
\* code_verifier, is not refused for lack of one.
GitHubRedirectAccepted ==
  \A c \in Callbacks : verifier[c] = None => cpc[c] # "invalid_verifier"
=============================================================================
