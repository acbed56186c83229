-------------------------- MODULE OAuthFlowProofs --------------------------
(***************************************************************************)
(* Proofs about OAuthFlow, for any sets of flows, callbacks, instances,    *)
(* client states and verifiers.                                            *)
(*                                                                         *)
(* The inductive invariant IInv has five parts, each inductive given       *)
(* Control: Control (types), Taken (a popped entry is in no store),        *)
(* Replaced (a state string names its last flow), Checked (what a callback *)
(* past the check of the state knows) and Swept (what a purge has seen).   *)
(***************************************************************************)
EXTENDS OAuthFlow, TLAPS

StartedHasState == \A f \in Flows : home[f] # None => state[f] \in States

IdleHasNoEntry == \A c \in Callbacks : cpc[c] = "idle" => entry[c] = None

\* The flows the other variables name have started.
NamesStarted ==
  /\ \A f \in Flows : before[f] \subseteq Started
  /\ \A c \in Callbacks : entry[c] # None =>
       entry[c] \in Started /\ from[c] \in Started

Control == TypeOK /\ StartedHasState /\ IdleHasNoEntry /\ NamesStarted

\* A popped entry is in no store and with no other callback.
Gone == \A c \in Callbacks, i \in Instances, s \in States :
          entry[c] # None => states[i][s] # entry[c]

Taken == Gone /\ EntryTakenOnce

\* Where a state string was used again, the store does not have its first use.
Overwritten ==
  \A f \in Flows : \A g \in before[f] :
    (home[g] = home[f] /\ state[g] = state[f]) => states[home[f]][state[f]] # g

Replaced == Overwritten /\ EntryNotStale

\* Past the check the verifier is the one of the entry's challenge.
VerifierMatches ==
  \A c \in Callbacks :
    (cpc[c] \in {"exchange", "respond"} /\ IsCLI(entry[c]))
      => verifier[c] = challenge[entry[c]]

Checked == /\ VerifierMatches
           /\ \A c \in Callbacks : cpc[c] = "redirect" => entry[c] # None
           /\ CliTokensNotInUrl

\* A key is doomed for a flow that used it and has expired.
DoomedForExpired ==
  \A i \in Instances : doomed[i] # None => \E g \in expired : state[g] = doomed[i]

Swept == /\ \A i \in Instances : sweep[i] \subseteq expired
         /\ DoomedForExpired
         /\ PurgeSparesFresh

IInv == Control /\ Taken /\ Replaced /\ Checked /\ Swept

-----------------------------------------------------------------------------
(* The initial states.                                                     *)

\* Before the first request nothing is stored, popped, swept or answered.
LEMMA InitIInv == Init => IInv
<1> SUFFICES ASSUME Init PROVE IInv
  OBVIOUS
<1> USE DEF Init
<1>1. Control
  BY NoneAssumption DEF Control, TypeOK, StartedHasState, IdleHasNoEntry,
                        NamesStarted, Started, States, Answers
<1>2. Taken
  BY DEF Taken, Gone, EntryTakenOnce
<1>3. Replaced
  BY DEF Replaced, Overwritten, EntryNotStale
<1>4. Checked
  BY DEF Checked, VerifierMatches, CliTokensNotInUrl
<1>5. Swept
  BY DEF Swept, DoomedForExpired, PurgeSparesFresh, Stored, Started
<1> QED
  BY <1>1, <1>2, <1>3, <1>4, <1>5 DEF IInv

-----------------------------------------------------------------------------
(* Facts about single actions.                                             *)

\* What a step may be, one action to a disjunct.
LEMMA NextCases ==
  ASSUME [Next]_vars
  PROVE  \/ \E f \in Flows, i \in Instances, s \in States,
               ch \in Verifiers \cup {None}, uri \in BOOLEAN :
              RedirectToGitHub(f, i, s, ch, uri)
         \/ \E c \in Callbacks, f \in Flows, v \in Verifiers \cup {None}, i \in Instances :
              CallbackWithoutCode(c, f, v, i)
         \/ \E c \in Callbacks, f \in Flows, v \in Verifiers \cup {None}, i \in Instances :
              Callback(c, f, v, i)
         \/ \E c \in Callbacks : Exchange(c)
         \/ \E c \in Callbacks : Respond(c)
         \/ \E i \in Instances : Tick(i)
         \/ \E i \in Instances : Visit(i)
         \/ \E i \in Instances : Purge(i)
         \/ \E i \in Instances : Restart(i)
         \/ \E f \in Flows : Expire(f)
         \/ UNCHANGED vars
<1>1. ASSUME NEW f \in Flows, Start(f)
      PROVE  \E i \in Instances, s \in States, ch \in Verifiers \cup {None},
                uri \in BOOLEAN : RedirectToGitHub(f, i, s, ch, uri)
  <2>1. ClientStates \cup {f} \subseteq States
    BY DEF States
  <2> QED
    BY <1>1, <2>1 DEF Start
<1> QED
  BY <1>1 DEF Next, Serve, Cleanup

\* None is not a state string, and no place in a store holds a flow that has
\* not begun: the shape of the stores that every part of IInv leans on.
LEMMA StoreFacts ==
  ASSUME Control
  PROVE  /\ None \notin States
         /\ \A i \in Instances, s \in States : states[i][s] \in Flows \cup {None}
         /\ \A i \in Instances, s \in States : states[i][s] # None =>
              /\ states[i][s] \in Started
              /\ home[states[i][s]] = i
              /\ state[states[i][s]] = s
         /\ \A f \in Started : f \in Flows /\ home[f] \in Instances /\ state[f] \in States
  BY NoneAssumption DEF Control, TypeOK, StartedHasState, Started, States

\* A store changes at one place only: /auth/github puts a flow there that has
\* just begun, and the callback, the purge and a restart only take entries out.
LEMMA StoresShrink ==
  ASSUME Control, [Next]_vars, NEW i \in Instances, NEW s \in States
  PROVE  \/ states'[i][s] = states[i][s]
         \/ states'[i][s] = None
         \/ /\ states'[i][s] \in Flows
            /\ home[states'[i][s]] = None
<1> USE StoreFacts DEF Control, TypeOK
<1>1. ASSUME NEW f \in Flows, NEW j \in Instances, NEW t \in States,
             NEW ch, NEW uri, RedirectToGitHub(f, j, t, ch, uri)
      PROVE  states'[i][s] = states[i][s] \/ (states'[i][s] = f /\ home[f] = None)
  BY <1>1 DEF RedirectToGitHub, StateToStore
<1>2. ASSUME NEW c \in Callbacks, NEW f \in Flows, NEW v, NEW j \in Instances,
             Callback(c, f, v, j)
      PROVE  states'[i][s] \in {states[i][s], None}
  <2>1. state[f] \in States
    BY <1>2 DEF Callback, Arrive
  <2> QED
    BY <1>2, <2>1 DEF Callback, Pop
<1>3. ASSUME NEW j \in Instances, Cleanup(j) \/ Restart(j)
      PROVE  states'[i][s] \in {states[i][s], None}
  BY <1>3 DEF Cleanup, Tick, Visit, Purge, Restart
<1>4. ASSUME \/ UNCHANGED vars
             \/ \E f \in Flows : Expire(f)
             \/ \E c \in Callbacks : Exchange(c) \/ Respond(c)
             \/ \E c \in Callbacks, f \in Flows, v \in Verifiers \cup {None},
                  j \in Instances : CallbackWithoutCode(c, f, v, j)
      PROVE  states'[i][s] = states[i][s]
  BY <1>4 DEF vars, Expire, Exchange, Respond, CallbackWithoutCode
<1> HIDE DEF Control, TypeOK
<1> QED
  BY <1>1, <1>2, <1>3, <1>4, NextCases DEF Cleanup

\* A step in which no flow begins stores nothing.
LEMMA StoredShrinks ==
  ASSUME Control, [Next]_vars, UNCHANGED flowVars, NEW j \in Instances
  PROVE  Stored(j)' \subseteq Stored(j)
<1>1. ASSUME NEW f \in Stored(j)' PROVE f \in Stored(j)
  <2>1. f \in Started /\ states'[j][state[f]] = f /\ f # None /\ home[f] # None
    BY <1>1, NoneAssumption DEF Stored, Started, flowVars
  <2>2. states[j][state[f]] = f
    BY <2>1, StoreFacts, StoresShrink
  <2> QED
    BY <2>1, <2>2 DEF Stored
<1> QED
  BY <1>1

-----------------------------------------------------------------------------
(* Control is inductive.                                                   *)

\* GET /auth/github: the flow begins, and nothing named it before.
LEMMA RedirectControl ==
  ASSUME Control, NEW f \in Flows, NEW i \in Instances, NEW s \in States,
         NEW ch \in Verifiers \cup {None}, NEW uri \in BOOLEAN,
         RedirectToGitHub(f, i, s, ch, uri)
  PROVE  Control'
<1> USE DEF Control, RedirectToGitHub, StateToStore, callbackVars
<1>1. i # None /\ f # None
  BY NoneAssumption
<1>2. Started' = Started \cup {f}
  BY <1>1 DEF Started, TypeOK
<1>3. TypeOK'
  BY <1>1, <1>2, StoreFacts DEF TypeOK, Started
<1>4. StartedHasState'
  BY DEF StartedHasState, TypeOK
<1>5. IdleHasNoEntry'
  BY DEF IdleHasNoEntry
<1>6. NamesStarted'
  BY <1>2 DEF NamesStarted, TypeOK
<1> QED
  BY <1>3, <1>4, <1>5, <1>6

\* GET /auth/github/callback, to the check of the state: the entry it pops is
\* that of a flow that has begun.
LEMMA CallbackControl ==
  ASSUME Control, NEW c \in Callbacks, NEW f \in Flows,
         NEW v \in Verifiers \cup {None}, NEW i \in Instances,
         CallbackWithoutCode(c, f, v, i) \/ Callback(c, f, v, i)
  PROVE  Control'
<1> DEFINE e == states[i][state[f]]
<1>1. Arrive(c, f, v, i) /\ f \in Started /\ f # None /\ state[f] \in States
  BY NoneAssumption, StoreFacts DEF CallbackWithoutCode, Callback, Arrive
<1>2. e \in Flows \cup {None} /\ (e # None => e \in Started)
  BY <1>1, StoreFacts
<1>3. Validation(e, v) \in {"invalid_state", "invalid_verifier", "exchange"}
      /\ (Validation(e, v) = "exchange" => e # None)
  BY DEF Validation
<1>4. UNCHANGED <<Started, expired, flowVars, sweep, doomed>>
  BY <1>1 DEF Arrive, flowVars, Started
<1>5. CASE CallbackWithoutCode(c, f, v, i)
  <2>1. TypeOK'
    BY <1>1, <1>4, <1>5
       DEF CallbackWithoutCode, Arrive, Control, TypeOK, flowVars, Answers
  <2>2. StartedHasState' /\ IdleHasNoEntry' /\ NamesStarted'
    BY <1>1, <1>4, <1>5
       DEF CallbackWithoutCode, Arrive, Control, TypeOK, flowVars,
           StartedHasState, IdleHasNoEntry, NamesStarted
  <2> QED
    BY <2>1, <2>2 DEF Control
<1>6. CASE Callback(c, f, v, i)
  <2>1. /\ entry' = [entry EXCEPT ![c] = e]
        /\ cpc' = [cpc EXCEPT ![c] = Validation(e, v)]
        /\ states' = [states EXCEPT ![i][state[f]] = None]
    BY <1>6 DEF Callback, Pop
  <2> HIDE DEF e
  <2>2. TypeOK'
    BY <1>1, <1>2, <1>3, <1>4, <2>1 DEF Arrive, Control, TypeOK, flowVars, Answers
  <2>3. StartedHasState'
    BY <1>4 DEF Control, StartedHasState, flowVars
  <2>4. IdleHasNoEntry' /\ NamesStarted'
    BY <1>1, <1>2, <1>3, <1>4, <2>1
       DEF Arrive, Control, TypeOK, flowVars, IdleHasNoEntry, NamesStarted
  <2> QED
    BY <2>2, <2>3, <2>4 DEF Control
<1> QED
  BY <1>5, <1>6

\* The rest of a callback: one request moves on with the entry it has.
LEMMA ServeControl ==
  ASSUME Control, NEW c \in Callbacks, Exchange(c) \/ Respond(c)
  PROVE  Control'
<1>1. PICK a \in {"respond"} \cup Answers :
        /\ cpc' = [cpc EXCEPT ![c] = a]
        /\ cpc[c] \in {"exchange", "respond"}
  BY DEF Exchange, Respond, Answer, Answers
<1>2. UNCHANGED <<states, expired, flowVars, sweep, doomed, from, verifier, at, entry>>
  BY DEF Exchange, Respond
<1>3. a # "idle" /\ a # "exchange" /\ entry[c] # None
  BY <1>1 DEF Control, TypeOK, Answers
<1> QED
  BY <1>1, <1>2, <1>3
     DEF Control, TypeOK, StartedHasState, IdleHasNoEntry, NamesStarted, Started,
         flowVars, Answers

\* The purge takes entries out of one store.
LEMMA CleanupControl ==
  ASSUME Control, NEW i \in Instances, Tick(i) \/ Visit(i) \/ Purge(i)
  PROVE  Control'
<1>1. UNCHANGED <<Started, expired, flowVars, callbackVars>>
  BY DEF Tick, Visit, Purge, Started, flowVars
<1> USE DEF Control, TypeOK
<1>2. CASE Tick(i)
  <2>1. Due(i) \in SUBSET Flows
    BY DEF Due, Stored, Started
  <2> QED
    BY <1>1, <1>2, <2>1
       DEF Tick, StartedHasState, IdleHasNoEntry, NamesStarted, flowVars, callbackVars
<1>3. CASE Visit(i)
  <2>1. PICK f \in sweep[i] :
          /\ sweep' = [sweep EXCEPT ![i] = @ \ {f}]
          /\ doomed' = [doomed EXCEPT ![i] = IF f \in Stored(i) THEN state[f] ELSE None]
    BY <1>3 DEF Visit
  <2>2. f \in Stored(i) => state[f] \in States
    BY StoreFacts DEF Stored
  <2>3. /\ sweep' \in [Instances -> SUBSET Flows]
        /\ doomed' \in [Instances -> States \cup {None}]
    BY <2>1, <2>2
  <2>4. UNCHANGED states
    BY <1>3 DEF Visit
  <2> QED
    BY <1>1, <2>3, <2>4
       DEF StartedHasState, IdleHasNoEntry, NamesStarted, flowVars, callbackVars
<1>4. CASE Purge(i)
  <2>1. doomed[i] \in States
    BY <1>4 DEF Purge
  <2>2. /\ states' = [states EXCEPT ![i] = [@ EXCEPT ![doomed[i]] = None]]
        /\ doomed' = [doomed EXCEPT ![i] = None]
        /\ UNCHANGED sweep
    BY <1>4 DEF Purge
  <2>3. /\ states' \in [Instances -> [States -> Flows \cup {None}]]
        /\ \A j \in Instances, s \in States : states'[j][s] \in {states[j][s], None}
    BY <2>1, <2>2
  <2> QED
    BY <1>1, <2>2, <2>3
       DEF StartedHasState, IdleHasNoEntry, NamesStarted, flowVars, callbackVars
<1> QED
  BY <1>2, <1>3, <1>4

\* A restart empties one store and ends the requests it was serving.
LEMMA RestartControl ==
  ASSUME Control, NEW i \in Instances, Restart(i)
  PROVE  Control'
<1>1. UNCHANGED <<Started, expired, flowVars, from, verifier, at, entry>>
  BY DEF Restart, Started, flowVars
<1>2. /\ cpc' \in [Callbacks -> {"idle", "exchange", "respond"} \cup Answers]
      /\ \A c \in Callbacks : cpc'[c] \in {cpc[c], "failed"}
  BY DEF Restart, Control, TypeOK, Answers
<1>3. /\ states' \in [Instances -> [States -> Flows \cup {None}]]
      /\ \A j \in Instances, s \in States : states'[j][s] \in {states[j][s], None}
  BY DEF Restart, Control, TypeOK
<1>4. /\ sweep' \in [Instances -> SUBSET Flows]
      /\ doomed' \in [Instances -> States \cup {None}]
  BY DEF Restart, Control, TypeOK
<1>5. TypeOK'
  BY <1>1, <1>2, <1>3, <1>4 DEF Control, TypeOK, flowVars
<1> QED
  BY <1>1, <1>2, <1>5
     DEF Control, StartedHasState, IdleHasNoEntry, NamesStarted, flowVars

\* Every step keeps the types and leaves every name that of a flow that began.
LEMMA ControlNext == Control /\ [Next]_vars => Control'
<1> SUFFICES ASSUME Control, [Next]_vars PROVE Control'
  OBVIOUS
<1>1. ASSUME NEW f \in Flows, Expire(f) PROVE Control'
  BY <1>1 DEF Expire, Control, TypeOK, StartedHasState, IdleHasNoEntry,
              NamesStarted, Started, flowVars, callbackVars
<1>2. ASSUME UNCHANGED vars PROVE Control'
  BY <1>2 DEF vars, Control, TypeOK, StartedHasState, IdleHasNoEntry,
              NamesStarted, Started, flowVars, callbackVars
<1> QED
  BY <1>1, <1>2, NextCases, RedirectControl, CallbackControl, ServeControl,
     CleanupControl, RestartControl

-----------------------------------------------------------------------------
(* What each action leaves alone.                                          *)

\* Only GET /auth/github changes a flow, and only the callback endpoint what a
\* callback carries; GET /auth/github changes no callback.
LEMMA Frame ==
  ASSUME [Next]_vars
  PROVE  \/ /\ UNCHANGED <<expired, sweep, doomed, callbackVars>>
            /\ \E f \in Flows, i \in Instances, s \in States,
                  ch \in Verifiers \cup {None}, uri \in BOOLEAN :
                 RedirectToGitHub(f, i, s, ch, uri)
         \/ /\ UNCHANGED <<expired, flowVars, sweep, doomed>>
            /\ \E c \in Callbacks, f \in Flows, v \in Verifiers \cup {None},
                  i \in Instances :
                 CallbackWithoutCode(c, f, v, i) \/ Callback(c, f, v, i)
         \/ UNCHANGED <<flowVars, from, verifier, at, entry>>
<1>1. ASSUME NEW f \in Flows, NEW i \in Instances, NEW s, NEW ch, NEW uri,
             RedirectToGitHub(f, i, s, ch, uri)
      PROVE  UNCHANGED <<expired, sweep, doomed, callbackVars>>
  BY <1>1 DEF RedirectToGitHub
<1>2. ASSUME NEW c \in Callbacks, NEW f \in Flows, NEW v, NEW i \in Instances,
             CallbackWithoutCode(c, f, v, i) \/ Callback(c, f, v, i)
      PROVE  UNCHANGED <<expired, flowVars, sweep, doomed>>
  BY <1>2 DEF CallbackWithoutCode, Callback, Arrive
<1>3. ASSUME NEW c \in Callbacks, Exchange(c) \/ Respond(c)
      PROVE  UNCHANGED <<flowVars, from, verifier, at, entry>>
  BY <1>3 DEF Exchange, Respond
<1>4. ASSUME NEW i \in Instances, Tick(i) \/ Visit(i) \/ Purge(i) \/ Restart(i)
      PROVE  UNCHANGED <<flowVars, from, verifier, at, entry>>
  BY <1>4 DEF Tick, Visit, Purge, Restart, callbackVars
<1>5. ASSUME UNCHANGED vars \/ \E f \in Flows : Expire(f)
      PROVE  UNCHANGED <<flowVars, from, verifier, at, entry>>
  BY <1>5 DEF Expire, vars, callbackVars
<1> QED
  BY <1>1, <1>2, <1>3, <1>4, <1>5, NextCases

-----------------------------------------------------------------------------
(* Taken is inductive.                                                     *)

\* LoadAndDelete leaves the entry nowhere, and no step puts one back.
LEMMA TakenNext == Control /\ Taken /\ [Next]_vars => Taken'
<1> SUFFICES ASSUME Control, Taken, [Next]_vars PROVE Taken'
  OBVIOUS
<1>1. ASSUME NEW d \in Callbacks, entry[d] # None, NEW i \in Instances, NEW s \in States
      PROVE  states'[i][s] # entry[d]
  <2>1. states[i][s] # entry[d] /\ home[entry[d]] # None
    BY <1>1 DEF Taken, Gone, Control, NamesStarted, Started
  <2> QED
    BY <1>1, <2>1, StoresShrink
<1>2. CASE UNCHANGED entry
  BY <1>1, <1>2 DEF Taken, Gone, EntryTakenOnce
<1>3. ASSUME NEW c \in Callbacks, NEW f \in Flows, NEW v \in Verifiers \cup {None},
             NEW i \in Instances, Callback(c, f, v, i)
      PROVE  Taken'
  <2> DEFINE e == states[i][state[f]]
  <2>1. f \in Started /\ state[f] \in States
    BY <1>3, StoreFacts DEF Callback, Arrive
  <2>2. /\ entry' = [entry EXCEPT ![c] = e]
        /\ states'[i][state[f]] = None
    BY <1>3, <2>1 DEF Callback, Pop, Control, TypeOK
  <2>3. /\ entry'[c] = e
        /\ \A d \in Callbacks \ {c} : entry'[d] = entry[d]
    BY <2>2 DEF Control, TypeOK
  <2>4. \A d \in Callbacks : entry[d] # None => entry[d] # e
    BY <2>1 DEF Taken, Gone
  <2>5. EntryTakenOnce'
    BY <2>3, <2>4 DEF Taken, EntryTakenOnce
  <2>6. ASSUME e # None, NEW j \in Instances, NEW t \in States, states'[j][t] = e
        PROVE  FALSE
    <3>1. home[e] = i /\ state[e] = state[f] /\ e \in Started
      BY <2>1, <2>6, StoreFacts
    <3>2. states[j][t] = e
      BY <2>6, <3>1, StoresShrink DEF Started
    <3>3. j = i /\ t = state[f]
      BY <2>6, <3>1, <3>2, StoreFacts
    <3> QED
      BY <2>2, <2>6, <3>3
  <2>7. Gone'
    BY <1>1, <2>3, <2>6 DEF Gone
  <2> QED
    BY <2>5, <2>7 DEF Taken
<1>4. ASSUME NEW c \in Callbacks, NEW f \in Flows, NEW v, NEW i \in Instances,
             CallbackWithoutCode(c, f, v, i)
      PROVE  UNCHANGED entry
  BY <1>4 DEF CallbackWithoutCode
<1> QED
  BY <1>2, <1>3, <1>4, Frame DEF callbackVars

-----------------------------------------------------------------------------
(* Replaced is inductive.                                                  *)

\* Store overwrites, so what a callback pops is never an entry from before the
\* flow whose state string it carries.
LEMMA ReplacedNext == Control /\ Replaced /\ [Next]_vars => Replaced'
<1> SUFFICES ASSUME Control, Replaced, [Next]_vars PROVE Replaced'
  OBVIOUS
<1>1. ASSUME NEW f \in Flows, NEW i \in Instances, NEW s \in States,
             NEW ch \in Verifiers \cup {None}, NEW uri \in BOOLEAN,
             RedirectToGitHub(f, i, s, ch, uri),
             UNCHANGED callbackVars
      PROVE  Replaced'
  <2>1. /\ home[f] = None
        /\ home' = [home EXCEPT ![f] = i]
        /\ state' = [state EXCEPT ![f] = s]
        /\ before' = [before EXCEPT ![f] = Started]
        /\ states' = [states EXCEPT ![i][s] = f]
    BY <1>1 DEF RedirectToGitHub, StateToStore
  <2>2. f \notin Started
    BY <2>1 DEF Started
  <2>3. ASSUME NEW h \in Flows, NEW g \in before'[h],
               home'[g] = home'[h], state'[g] = state'[h]
        PROVE  states'[home'[h]][state'[h]] # g
    <3>1. g \in Started /\ g # f
      BY <2>1, <2>2, <2>3 DEF Control, TypeOK, NamesStarted
    <3>2. CASE h = f
      BY <2>1, <3>1, <3>2 DEF Control, TypeOK
    <3>3. CASE h # f
      <4>1. home'[h] = home[h] /\ state'[h] = state[h] /\ g \in before[h]
            /\ home[g] = home[h] /\ state[g] = state[h]
        BY <2>1, <2>3, <3>1, <3>3, StoreFacts DEF Control, TypeOK
      <4>2. home[h] \in Instances /\ state[h] \in States /\ states[home[h]][state[h]] # g
        BY <3>1, <4>1, StoreFacts DEF Replaced, Overwritten
      <4> QED
        BY <2>1, <3>1, <4>1, <4>2 DEF Control, TypeOK
    <3> QED
      BY <3>2, <3>3
  <2>4. ASSUME NEW c \in Callbacks, entry[c] # None
        PROVE  home'[from[c]] = home[from[c]] /\ before'[from[c]] = before[from[c]]
    <3>1. from[c] \in Flows /\ from[c] # f
      BY <2>2, <2>4 DEF Control, NamesStarted, Started
    <3> QED
      BY <2>1, <3>1 DEF Control, TypeOK
  <2>5. EntryNotStale'
    BY <1>1, <2>4 DEF Replaced, EntryNotStale, callbackVars
  <2> QED
    BY <2>3, <2>5 DEF Replaced, Overwritten
<1>2. CASE UNCHANGED flowVars
  <2>1. ASSUME NEW f \in Flows, NEW g \in before[f],
               home[g] = home[f], state[g] = state[f]
        PROVE  states'[home[f]][state[f]] # g
    <3>1. g \in Started /\ g # None /\ home[g] # None
      BY NoneAssumption DEF Control, NamesStarted, Started
    <3>2. home[f] \in Instances /\ state[f] \in States /\ states[home[f]][state[f]] # g
      BY <2>1, <3>1, StoreFacts DEF Replaced, Overwritten
    <3> QED
      BY <3>1, <3>2, StoresShrink
  <2>2. Overwritten'
    BY <1>2, <2>1 DEF Overwritten, flowVars
  <2>3. CASE UNCHANGED <<from, at, entry>>
    BY <1>2, <2>2, <2>3 DEF Replaced, EntryNotStale, flowVars
  <2>4. ASSUME NEW c \in Callbacks, NEW f \in Flows, NEW v \in Verifiers \cup {None},
               NEW i \in Instances,
               CallbackWithoutCode(c, f, v, i) \/ Callback(c, f, v, i)
        PROVE  EntryNotStale'
    <3>1. /\ cpc[c] = "idle" /\ f \in Started
          /\ from' = [from EXCEPT ![c] = f]
          /\ at' = [at EXCEPT ![c] = i]
      BY <2>4 DEF CallbackWithoutCode, Callback, Arrive
    <3>2. \/ entry' = entry /\ entry[c] = None
          \/ entry' = [entry EXCEPT ![c] = states[i][state[f]]]
      BY <2>4, <3>1 DEF CallbackWithoutCode, Callback, Control, IdleHasNoEntry
    <3>3. ASSUME entry'[c] # None, i = home[f]
          PROVE  entry'[c] \notin before[f]
      <4>1. entry'[c] = states[home[f]][state[f]]
        BY <3>2, <3>3 DEF Control, TypeOK
      <4>2. home[entry'[c]] = home[f] /\ state[entry'[c]] = state[f]
        BY <3>1, <3>3, <4>1, StoreFacts
      <4> QED
        BY <4>1, <4>2 DEF Replaced, Overwritten
    <3>4. from'[c] = f /\ at'[c] = i
      BY <3>1 DEF Control, TypeOK
    <3>5. \A d \in Callbacks \ {c} :
            entry'[d] = entry[d] /\ from'[d] = from[d] /\ at'[d] = at[d]
      BY <3>1, <3>2 DEF Control, TypeOK
    <3>6. \A d \in Callbacks \ {c} :
            (entry'[d] # None /\ at'[d] = home[from'[d]]) => entry'[d] \notin before[from'[d]]
      BY <3>5 DEF Replaced, EntryNotStale
    <3> QED
      BY <1>2, <3>3, <3>4, <3>6 DEF EntryNotStale, flowVars
  <2> QED
    BY <2>2, <2>3, <2>4, NextCases, Frame, <1>2 DEF Replaced, callbackVars
<1> QED
  BY <1>1, <1>2, Frame

-----------------------------------------------------------------------------
(* Checked is inductive.                                                   *)

\* A CLI flow's callback goes on only with the verifier of its challenge, and
\* with a verifier it is answered with JSON.
LEMMA CheckedNext == Control /\ Checked /\ [Next]_vars => Checked'
<1> SUFFICES ASSUME Control, Checked, [Next]_vars PROVE Checked'
  OBVIOUS
<1> USE DEF Checked, VerifierMatches, CliTokensNotInUrl
<1>1. ASSUME NEW f \in Flows, NEW i \in Instances, NEW s \in States,
             NEW ch \in Verifiers \cup {None}, NEW uri \in BOOLEAN,
             RedirectToGitHub(f, i, s, ch, uri),
             UNCHANGED callbackVars
      PROVE  Checked'
  <2>1. home[f] = None /\ challenge' = [challenge EXCEPT ![f] = ch]
    BY <1>1 DEF RedirectToGitHub
  <2>2. ASSUME NEW c \in Callbacks, entry[c] # None
        PROVE  challenge'[entry[c]] = challenge[entry[c]]
    <3>1. entry[c] \in Flows /\ entry[c] # f
      BY <2>1, <2>2 DEF Control, NamesStarted, Started
    <3> QED
      BY <2>1, <3>1 DEF Control, TypeOK
  <2>3. \A c \in Callbacks :
          cpc[c] \in {"exchange", "respond", "redirect"} => entry[c] # None
    BY DEF Control, TypeOK
  <2> QED
    BY <1>1, <2>2, <2>3 DEF callbackVars, IsCLI
<1>2. ASSUME NEW c \in Callbacks, NEW f \in Flows, NEW v \in Verifiers \cup {None},
             NEW i \in Instances,
             CallbackWithoutCode(c, f, v, i) \/ Callback(c, f, v, i)
      PROVE  Checked'
  <2> DEFINE e == states[i][state[f]]
  <2>1. /\ cpc[c] = "idle" /\ verifier' = [verifier EXCEPT ![c] = v]
        /\ UNCHANGED flowVars
    BY <1>2 DEF CallbackWithoutCode, Callback, Arrive
  <2>2. \/ cpc' = [cpc EXCEPT ![c] = "bad_request"] /\ entry' = entry
        \/ /\ cpc' = [cpc EXCEPT ![c] = Validation(e, v)]
           /\ entry' = [entry EXCEPT ![c] = e]
    BY <1>2 DEF CallbackWithoutCode, Callback
  <2>3. /\ Validation(e, v) \in {"invalid_state", "invalid_verifier", "exchange"}
        /\ (Validation(e, v) = "exchange" /\ IsCLI(e)) => v = challenge[e]
    BY DEF Validation
  <2> HIDE DEF e
  <2>4. ASSUME NEW d \in Callbacks, d # c
        PROVE  cpc'[d] = cpc[d] /\ verifier'[d] = verifier[d] /\ entry'[d] = entry[d]
    BY <2>1, <2>2, <2>4 DEF Control, TypeOK
  <2>5. /\ verifier'[c] = v
        /\ \/ cpc'[c] = "bad_request"
           \/ cpc'[c] = Validation(e, v) /\ entry'[c] = e
    BY <2>1, <2>2 DEF Control, TypeOK
  <2>6. UNCHANGED challenge
    BY <2>1 DEF flowVars
  <2> QED
    BY <2>3, <2>4, <2>5, <2>6 DEF IsCLI
<1>3. ASSUME NEW c \in Callbacks, Exchange(c)
      PROVE  Checked'
  <2>1. /\ cpc[c] = "exchange"
        /\ cpc' \in {[cpc EXCEPT ![c] = "respond"], [cpc EXCEPT ![c] = "failed"]}
        /\ UNCHANGED <<flowVars, from, verifier, at, entry>>
    BY <1>3 DEF Exchange
  <2> QED
    BY <2>1 DEF Control, TypeOK, IsCLI, flowVars
<1>4. ASSUME NEW c \in Callbacks, Respond(c)
      PROVE  Checked'
  <2>1. PICK a \in Answer(c) : cpc' = [cpc EXCEPT ![c] = a]
    BY <1>4 DEF Respond
  <2>2. cpc[c] = "respond" /\ UNCHANGED <<flowVars, from, verifier, at, entry>>
    BY <1>4 DEF Respond
  <2>3. entry[c] # None
    BY <2>2 DEF Control, TypeOK
  <2>4. ASSUME IsCLI(entry[c]) PROVE a # "redirect"
    <3>1. verifier[c] # None
      BY <2>2, <2>4 DEF IsCLI
    <3> QED
      BY <2>1, <2>4, <3>1 DEF Answer
  <2>5. a \notin {"exchange", "respond"}
    BY <2>1 DEF Answer
  <2>6. /\ cpc'[c] = a
        /\ \A d \in Callbacks \ {c} : cpc'[d] = cpc[d]
    BY <2>1 DEF Control, TypeOK
  <2> QED
    BY <2>2, <2>3, <2>4, <2>5, <2>6 DEF IsCLI, flowVars
<1>5. ASSUME UNCHANGED <<flowVars, from, verifier, at, entry>>,
             \A c \in Callbacks : cpc'[c] \in {cpc[c], "failed"}
      PROVE  Checked'
  BY <1>5 DEF IsCLI, flowVars
<1>6. ASSUME NEW i \in Instances, Tick(i) \/ Visit(i) \/ Purge(i) \/ Restart(i)
      PROVE  Checked'
  BY <1>5, <1>6 DEF Tick, Visit, Purge, Restart, callbackVars
<1>7. ASSUME UNCHANGED vars \/ \E f \in Flows : Expire(f)
      PROVE  Checked'
  BY <1>5, <1>7 DEF Expire, vars, callbackVars
<1> HIDE DEF Checked, VerifierMatches, CliTokensNotInUrl
<1>8. ASSUME NEW f \in Flows, NEW i \in Instances, NEW s, NEW ch, NEW uri,
             RedirectToGitHub(f, i, s, ch, uri)
      PROVE  UNCHANGED callbackVars
  BY <1>8 DEF RedirectToGitHub
<1> QED
  BY <1>1, <1>2, <1>3, <1>4, <1>6, <1>7, <1>8, NextCases

-----------------------------------------------------------------------------
(* Swept is inductive.                                                     *)

\* The purge dooms a key only for an expired entry; whoever stores under that
\* key before the delete is a later flow with the same state string.
LEMMA SweptNext == Control /\ Swept /\ [Next]_vars => Swept'
<1> SUFFICES ASSUME Control, Swept, [Next]_vars PROVE Swept'
  OBVIOUS
<1>1. expired \subseteq Started
  BY DEF Control, TypeOK
<1>2. ASSUME NEW f \in Flows, NEW i \in Instances, NEW s \in States,
             NEW ch \in Verifiers \cup {None}, NEW uri \in BOOLEAN,
             RedirectToGitHub(f, i, s, ch, uri)
      PROVE  Swept'
  <2>1. /\ home[f] = None
        /\ home' = [home EXCEPT ![f] = i]
        /\ state' = [state EXCEPT ![f] = s]
        /\ before' = [before EXCEPT ![f] = Started]
        /\ states' = [states EXCEPT ![i][s] = f]
        /\ UNCHANGED <<expired, sweep, doomed>>
    BY <1>2 DEF RedirectToGitHub, StateToStore
  <2>2. f \notin Started
    BY <2>1 DEF Started
  <2>3. \A g \in expired : g \in Flows /\ g # f /\ state'[g] = state[g]
    BY <1>1, <2>1, <2>2 DEF Control, TypeOK, Started
  <2>4. DoomedForExpired'
    BY <2>1, <2>3 DEF Swept, DoomedForExpired
  <2>5. ASSUME NEW j \in Instances, NEW h \in Stored(j)' \ expired, doomed[j] = state'[h]
        PROVE  \E g \in before'[h] \cap expired : state'[g] = state'[h]
    <3>1. CASE h = f
      <4>1. doomed[j] # None /\ before'[h] = Started
        BY <2>1, <2>5, <3>1, StoreFacts DEF Control, TypeOK
      <4>2. PICK g \in expired : state[g] = doomed[j]
        BY <4>1 DEF Swept, DoomedForExpired
      <4> QED
        BY <1>1, <2>3, <2>5, <4>1, <4>2
    <3>2. CASE h # f
      <4>1. /\ h \in Started
            /\ state'[h] = state[h] /\ before'[h] = before[h]
        BY <2>1, <2>5, <3>2 DEF Stored, Started, Control, TypeOK
      <4>2. states[j][state[h]] = h
        BY <2>1, <2>5, <3>2, <4>1, StoreFacts DEF Stored, Control, TypeOK
      <4>3. PICK g \in before[h] \cap expired : state[g] = state[h]
        BY <2>5, <4>1, <4>2 DEF Swept, PurgeSparesFresh, Stored
      <4> QED
        BY <2>3, <4>1, <4>3
    <3> QED
      BY <3>1, <3>2
  <2>6. PurgeSparesFresh'
    BY <2>1, <2>5 DEF PurgeSparesFresh
  <2> QED
    BY <2>1, <2>4, <2>6 DEF Swept
<1>3. ASSUME UNCHANGED flowVars, NEW j \in Instances
      PROVE  Stored(j)' \subseteq Stored(j)
  BY <1>3, StoredShrinks
<1>4. ASSUME UNCHANGED flowVars, expired \subseteq expired',
             \A i \in Instances : sweep'[i] \subseteq sweep[i] \cup expired,
             \A i \in Instances : \/ doomed'[i] \in {doomed[i], None}
                                  \/ \E g \in Stored(i) \cap expired : doomed'[i] = state[g]
      PROVE  Swept'
  <2>1. \A i \in Instances : sweep'[i] \subseteq expired'
    BY <1>4 DEF Swept
  <2>2. DoomedForExpired'
    BY <1>4 DEF Swept, DoomedForExpired, flowVars
  <2>3. ASSUME NEW i \in Instances, NEW f \in Stored(i)' \ expired', doomed'[i] = state[f]
        PROVE  \E g \in before[f] \cap expired' : state[g] = state[f]
    <3>1. f \in Stored(i) \ expired /\ state[f] # None
      BY <1>3, <1>4, <2>3, StoreFacts DEF Stored
    <3>2. ASSUME NEW g \in Stored(i) \cap expired PROVE state[g] # state[f]
      BY <3>1, <3>2 DEF Stored
    <3>3. doomed[i] = state[f]
      BY <1>4, <2>3, <3>1, <3>2
    <3>4. \E g \in before[f] \cap expired : state[g] = state[f]
      BY <3>1, <3>3 DEF Swept, PurgeSparesFresh
    <3> QED
      BY <1>4, <3>4
  <2>4. PurgeSparesFresh'
    BY <1>4, <2>3 DEF PurgeSparesFresh, flowVars
  <2> QED
    BY <2>1, <2>2, <2>4 DEF Swept
<1>5. ASSUME UNCHANGED <<expired, flowVars, sweep, doomed>> PROVE Swept'
  BY <1>4, <1>5
<1>6. ASSUME NEW i \in Instances, Tick(i) PROVE Swept'
  <2>1. /\ sweep' = [sweep EXCEPT ![i] = Due(i)] /\ Due(i) \subseteq expired
        /\ UNCHANGED <<expired, flowVars, doomed>>
    BY <1>6 DEF Tick, Due
  <2>2. \A j \in Instances : sweep'[j] \subseteq sweep[j] \cup expired
    BY <2>1 DEF Control, TypeOK
  <2> QED
    BY <1>4, <2>1, <2>2
<1>7. ASSUME NEW i \in Instances, Visit(i) PROVE Swept'
  <2>1. PICK f \in sweep[i] :
          /\ sweep' = [sweep EXCEPT ![i] = @ \ {f}]
          /\ doomed' = [doomed EXCEPT ![i] = IF f \in Stored(i) THEN state[f] ELSE None]
    BY <1>7 DEF Visit
  <2>2. f \in expired
    BY DEF Swept
  <2>3. UNCHANGED <<expired, flowVars>>
    BY <1>7 DEF Visit
  <2>4. \A j \in Instances : sweep'[j] \subseteq sweep[j] \cup expired
    BY <2>1 DEF Control, TypeOK
  <2>5. \A j \in Instances : \/ doomed'[j] \in {doomed[j], None}
                             \/ \E g \in Stored(j) \cap expired : doomed'[j] = state[g]
    BY <2>1, <2>2 DEF Control, TypeOK
  <2> QED
    BY <1>4, <2>3, <2>4, <2>5
<1>8. ASSUME NEW i \in Instances, Purge(i) \/ Restart(i) PROVE Swept'
  <2>1. /\ doomed' = [doomed EXCEPT ![i] = None]
        /\ sweep' \in {sweep, [sweep EXCEPT ![i] = {}]}
        /\ UNCHANGED <<expired, flowVars>>
    BY <1>8 DEF Purge, Restart
  <2>2. \A j \in Instances : sweep'[j] \subseteq sweep[j] \cup expired
    BY <2>1 DEF Control, TypeOK
  <2>3. \A j \in Instances : doomed'[j] \in {doomed[j], None}
    BY <2>1 DEF Control, TypeOK
  <2> QED
    BY <1>4, <2>1, <2>2, <2>3
<1>9. ASSUME NEW f \in Flows, Expire(f) PROVE Swept'
  BY <1>4, <1>9 DEF Expire
<1>10. ASSUME NEW c \in Callbacks, Exchange(c) \/ Respond(c) PROVE Swept'
  BY <1>5, <1>10 DEF Exchange, Respond
<1>11. ASSUME UNCHANGED vars PROVE Swept'
  BY <1>5, <1>11 DEF vars
<1>12. ASSUME NEW c \in Callbacks, NEW f \in Flows, NEW v, NEW i \in Instances,
              CallbackWithoutCode(c, f, v, i) \/ Callback(c, f, v, i)
       PROVE  Swept'
  BY <1>5, <1>12 DEF CallbackWithoutCode, Callback, Arrive
<1> QED
  BY <1>2, <1>6, <1>7, <1>8, <1>9, <1>10, <1>11, <1>12, NextCases

-----------------------------------------------------------------------------
(* OAuthFlow implements LoginTickets.                                      *)

\* What a flow has stored is there unless something takes it out.
LEMMA OpenShrinks ==
  ASSUME Control, [Next]_vars, UNCHANGED flowVars PROVE Open' \subseteq Open
  BY StoredShrinks DEF Open

\* A step that uses no ticket and lets nobody in.
LEMMA LoseMaps ==
  ASSUME Control, [Next]_vars, UNCHANGED <<flowVars, expired, entry, Shown, WithTokens>>,
         LetIn' \subseteq LetIn
  PROVE  Tickets!Next
<1>1. Started' = Started /\ challenge' = challenge
  BY DEF flowVars, Started
<1> QED
  BY <1>1, OpenShrinks DEF Tickets!Lose, Tickets!Next

\* GET /auth/github opens a ticket in the place of what its state string named.
LEMMA RedirectMaps ==
  ASSUME Control, NEW f \in Flows, NEW i \in Instances, NEW s \in States,
         NEW ch \in Verifiers \cup {None}, NEW uri \in BOOLEAN,
         RedirectToGitHub(f, i, s, ch, uri)
  PROVE  Tickets!Next
<1>1. /\ home[f] = None /\ i # None
      /\ home' = [home EXCEPT ![f] = i]
      /\ state' = [state EXCEPT ![f] = s]
      /\ challenge' = [challenge EXCEPT ![f] = ch]
      /\ states' = [states EXCEPT ![i] = [@ EXCEPT ![s] = f]]
      /\ UNCHANGED <<expired, callbackVars>>
  BY NoneAssumption DEF RedirectToGitHub, StateToStore
<1>2. f \notin Started /\ Started' = Started \cup {f}
  BY <1>1 DEF Started, Control, TypeOK
<1>3. /\ state'[f] = s
      /\ \A h \in Started : state'[h] = state[h] /\ h # f
  BY <1>1, <1>2 DEF Control, TypeOK, Started
<1>4. \A j \in Instances, t \in States :
        states'[j][t] = IF j = i /\ t = s THEN f ELSE states[j][t]
  BY <1>1 DEF Control, TypeOK
<1> DEFINE g == IF states[i][s] = None THEN f ELSE states[i][s]
<1>5. g \in Flows /\ (g \in Started => states[i][s] = g /\ home[g] = i /\ state[g] = s)
  BY <1>2, StoreFacts
<1>6. ASSUME NEW j \in Instances, NEW h \in Started
      PROVE  h \in Stored(j)' <=> h \in Stored(j) /\ h # g
  <2>1. h \in Stored(j)' <=> states'[j][state[h]] = h
    BY <1>2, <1>3 DEF Stored
  <2>2. h \in Stored(j) <=> states[j][state[h]] = h
    BY DEF Stored
  <2>3. state[h] \in States /\ h # f /\ h # None
    BY <1>3, StoreFacts, NoneAssumption
  <2>4. CASE j = i /\ state[h] = s
    BY <1>4, <2>1, <2>2, <2>3, <2>4
  <2>5. CASE ~ (j = i /\ state[h] = s)
    <3>1. states'[j][state[h]] = states[j][state[h]]
      BY <1>4, <2>3, <2>5
    <3>2. states[j][state[h]] = h => home[h] = j
      BY <2>3, StoreFacts
    <3> QED
      BY <1>5, <2>1, <2>2, <2>5, <3>1, <3>2
  <2> QED
    BY <2>4, <2>5
<1>7. f \in Stored(i)' /\ \A j \in Instances : Stored(j)' \subseteq Started \cup {f} /\ Stored(j) \subseteq Started
  BY <1>2, <1>3, <1>4 DEF Stored
<1>8. Open' = (Open \ {g}) \cup {f}
  <2> HIDE DEF g
  <2>1. \A h \in Started : h \in Open' <=> h \in Open /\ h # g
    BY <1>6 DEF Open
  <2>2. f \in Open' /\ Open' \subseteq Started \cup {f} /\ Open \subseteq Started
    BY <1>7 DEF Open
  <2> QED
    BY <2>1, <2>2
<1>9. Tickets!Open(f, ch)
  <2> HIDE DEF g
  <2>1. UNCHANGED <<expired, entry, Shown, LetIn, WithTokens>>
    BY <1>1 DEF callbackVars, Shown, LetIn, WithTokens
  <2> QED
    BY <1>1, <1>2, <1>5, <1>8, <2>1 DEF Tickets!Open
<1> QED
  BY <1>9 DEF Tickets!Next

\* A callback that pops an entry uses its ticket, and is let in as the checks say.
LEMMA CallbackMaps ==
  ASSUME Control, [Next]_vars, NEW c \in Callbacks, NEW f \in Flows,
         NEW v \in Verifiers \cup {None}, NEW i \in Instances, Callback(c, f, v, i)
  PROVE  Tickets!Next
<1> DEFINE e == states[i][state[f]]
<1>1. /\ cpc[c] = "idle" /\ f \in Started /\ state[f] \in States
      /\ entry' = [entry EXCEPT ![c] = e]
      /\ cpc' = [cpc EXCEPT ![c] = Validation(e, v)]
      /\ verifier' = [verifier EXCEPT ![c] = v]
      /\ states' = [states EXCEPT ![i] = [@ EXCEPT ![state[f]] = None]]
      /\ UNCHANGED <<expired, flowVars>>
  BY StoreFacts DEF Callback, Arrive, Pop
<1>2. e \in Flows \cup {None} /\ (e # None => e \in Started /\ home[e] = i /\ state[e] = state[f])
  BY <1>1, StoreFacts
<1>3. entry[c] = None
  BY <1>1 DEF Control, IdleHasNoEntry
<1>4. Started' = Started /\ challenge' = challenge /\ state' = state
  BY <1>1 DEF flowVars, Started
<1>5. \A d \in Callbacks : cpc'[d] = IF d = c THEN Validation(e, v) ELSE cpc[d]
  BY <1>1 DEF Control, TypeOK
<1>6. Validation(e, v) \in {"invalid_state", "invalid_verifier", "exchange"}
      /\ (Validation(e, v) = "exchange" <=> e # None /\ e \notin expired /\ challenge[e] \in {None, v})
  BY DEF Validation, IsCLI
<1>7. \A j \in Instances, t \in States :
        states'[j][t] = IF j = i /\ t = state[f] THEN None ELSE states[j][t]
  BY <1>1 DEF Control, TypeOK
<1> HIDE DEF e
<1>8. WithTokens' = WithTokens
  BY <1>1, <1>5, <1>6 DEF WithTokens
<1>9. CASE e = None
  <2>1. entry' = entry
    BY <1>1, <1>3, <1>9 DEF Control, TypeOK
  <2>2. Shown' = Shown
    BY <1>1, <1>3, <2>1 DEF Shown, Control, TypeOK
  <2>3. LetIn' \subseteq LetIn
    BY <1>5, <1>6, <1>9 DEF LetIn
  <2> QED
    BY <1>1, <1>8, <2>1, <2>2, <2>3, LoseMaps
<1>10. CASE e # None
  <2>1. e \in Open
    BY <1>2, <1>10 DEF Open, Stored, e
  <2>2. ASSUME NEW j \in Instances, NEW h \in Started
        PROVE  h \in Stored(j)' <=> h \in Stored(j) /\ h # e
    <3>1. (h \in Stored(j)' <=> states'[j][state[h]] = h) /\ (h \in Stored(j) <=> states[j][state[h]] = h)
      BY <1>4 DEF Stored
    <3>2. state[h] \in States /\ h # None /\ (states[j][state[h]] = h => home[h] = j)
      BY StoreFacts, NoneAssumption
    <3>3. CASE j = i /\ state[h] = state[f]
      BY <1>7, <3>1, <3>2, <3>3 DEF e
    <3>4. CASE ~ (j = i /\ state[h] = state[f])
      <4>1. states'[j][state[h]] = states[j][state[h]]
        BY <1>7, <3>2, <3>4
      <4> QED
        BY <1>2, <1>10, <3>1, <3>2, <3>4, <4>1
    <3> QED
      BY <3>3, <3>4
  <2>3. Open' = Open \ {e}
    <3>1. \A j \in Instances : Stored(j) \subseteq Started /\ Stored(j)' \subseteq Started
      BY <1>4 DEF Stored
    <3> QED
      BY <2>2, <3>1 DEF Open
  <2>4. Shown' = [Shown EXCEPT ![c] = v]
    BY <1>1, <1>10 DEF Shown, Control, TypeOK
  <2>5. LetIn' = LetIn \cup {d \in {c} : e \notin expired /\ challenge[e] \in {None, v}}
    BY <1>1, <1>5, <1>6, <1>10 DEF LetIn
  <2>6. Tickets!Use(c, e, v)
    BY <1>1, <1>3, <1>4, <1>8, <2>1, <2>3, <2>4, <2>5 DEF Tickets!Use
  <2> QED
    BY <1>2, <1>10, <2>6 DEF Tickets!Next
<1> QED
  BY <1>9, <1>10

\* The answers with tokens are to those let in; other answers let nobody in.
LEMMA ServeMaps ==
  ASSUME Control, [Next]_vars, NEW c \in Callbacks, Exchange(c) \/ Respond(c)
  PROVE  Tickets!Next
<1>1. PICK a \in {"respond", "failed", "json", "redirect", "cookies"} :
        /\ cpc' = [cpc EXCEPT ![c] = a]
        /\ c \in LetIn
        /\ a \in {"json", "redirect", "cookies"} => cpc[c] = "respond"
  BY DEF Exchange, Respond, Answer, LetIn
<1>2. /\ UNCHANGED <<states, expired, flowVars, verifier, entry, Started, Open, Shown>>
      /\ challenge' = challenge
  BY DEF Exchange, Respond, flowVars, Started, Open, Stored, Shown
<1>3. \A d \in Callbacks : cpc'[d] = IF d = c THEN a ELSE cpc[d]
  BY <1>1 DEF Control, TypeOK
<1>4. CASE a \in {"respond", "failed"}
  <2>1. LetIn' \subseteq LetIn /\ WithTokens' = WithTokens
    BY <1>1, <1>3, <1>4 DEF LetIn, WithTokens
  <2> QED
    BY <1>2, <2>1, LoseMaps
<1>5. CASE a \in {"json", "redirect", "cookies"}
  <2>1. LetIn' = LetIn \ {c} /\ WithTokens' = WithTokens \cup {c}
    BY <1>1, <1>3, <1>5 DEF LetIn, WithTokens
  <2> QED
    BY <1>1, <1>2, <2>1 DEF Tickets!Answer, Tickets!Next
<1> QED
  BY <1>4, <1>5

\* The purge and restarts lose tickets; a request without a code uses none.
LEMMA StepMaps == Control /\ [Next]_vars => [Tickets!Next]_(Tickets!vars)
<1> SUFFICES ASSUME Control, [Next]_vars PROVE [Tickets!Next]_(Tickets!vars)
  OBVIOUS
<1>1. ASSUME NEW c \in Callbacks, NEW f \in Flows, NEW v \in Verifiers \cup {None},
             NEW i \in Instances, CallbackWithoutCode(c, f, v, i)
      PROVE  Tickets!Next
  <2>1. /\ cpc[c] = "idle" /\ cpc' = [cpc EXCEPT ![c] = "bad_request"]
        /\ verifier' = [verifier EXCEPT ![c] = v] /\ entry[c] = None
        /\ UNCHANGED <<expired, flowVars, entry>>
    BY <1>1 DEF CallbackWithoutCode, Arrive, Control, IdleHasNoEntry
  <2>2. Shown' = Shown
    BY <2>1 DEF Shown, Control, TypeOK
  <2>3. LetIn' \subseteq LetIn /\ WithTokens' = WithTokens
    BY <2>1 DEF LetIn, WithTokens, Control, TypeOK
  <2> QED
    BY <2>1, <2>2, <2>3, LoseMaps
<1>2. ASSUME NEW i \in Instances, Tick(i) \/ Visit(i) \/ Purge(i)
      PROVE  Tickets!Next
  <2>1. UNCHANGED <<expired, flowVars, callbackVars>>
    BY <1>2 DEF Tick, Visit, Purge
  <2> QED
    BY <2>1, LoseMaps DEF callbackVars, Shown, LetIn, WithTokens
<1>3. ASSUME NEW i \in Instances, Restart(i)
      PROVE  Tickets!Next
  <2>1. /\ UNCHANGED <<expired, flowVars, verifier, entry>>
        /\ \A c \in Callbacks : \/ cpc'[c] = cpc[c]
                                \/ cpc[c] \in {"exchange", "respond"} /\ cpc'[c] = "failed"
    BY <1>3 DEF Restart
  <2>2. Shown' = Shown /\ LetIn' \subseteq LetIn /\ WithTokens' = WithTokens
    BY <2>1 DEF Shown, LetIn, WithTokens
  <2> QED
    BY <2>1, <2>2, LoseMaps
<1>4. ASSUME NEW f \in Flows, Expire(f) PROVE Tickets!Next
  <2>1. UNCHANGED <<Started, Open, challenge, entry, Shown, LetIn, WithTokens>>
    BY <1>4 DEF Expire, flowVars, callbackVars, Started, Open, Stored, Shown, LetIn, WithTokens
  <2>2. Tickets!Lapse(f)
    BY <1>4, <2>1 DEF Expire, Tickets!Lapse
  <2> QED
    BY <2>2 DEF Tickets!Next
<1>5. ASSUME UNCHANGED vars PROVE UNCHANGED Tickets!vars
  BY <1>5 DEF vars, flowVars, callbackVars, Tickets!vars, Started, Open, Stored, Shown, LetIn, WithTokens
<1> QED
  BY <1>1, <1>2, <1>3, <1>4, <1>5, NextCases, RedirectMaps, CallbackMaps, ServeMaps

-----------------------------------------------------------------------------
(* What tickets promise, of LoginTickets alone.                            *)

\* A ticket is used once, and who is let in has one and showed its verifier.
TicketsInv ==
  /\ Open \subseteq Started /\ Started \subseteq Flows
  /\ entry \in [Callbacks -> Flows \cup {None}]
  /\ challenge \in [Flows -> Verifiers \cup {None}]
  /\ Shown \in [Callbacks -> Verifiers \cup {None}]
  /\ LetIn \cup WithTokens \subseteq Callbacks
  /\ \A c \in Callbacks : entry[c] # None =>
       /\ entry[c] \in Started \ Open
       /\ \A d \in Callbacks : entry[d] = entry[c] => d = c
  /\ Tickets!TokensForTheVerifier

LEMMA TicketsInit == Tickets!Init => TicketsInv
  BY DEF Tickets!Init, TicketsInv, Tickets!TokensForTheVerifier

LEMMA TicketsNext == TicketsInv /\ [Tickets!Next]_(Tickets!vars) => TicketsInv'
<1> SUFFICES ASSUME TicketsInv, [Tickets!Next]_(Tickets!vars) PROVE TicketsInv'
  OBVIOUS
<1> USE NoneAssumption DEF TicketsInv, Tickets!TokensForTheVerifier
<1>1. ASSUME NEW f \in Flows, NEW ch \in Verifiers \cup {None}, Tickets!Open(f, ch)
      PROVE  TicketsInv'
  BY <1>1 DEF Tickets!Open
<1>2. ASSUME NEW c \in Callbacks, NEW f \in Flows, NEW v \in Verifiers \cup {None}, Tickets!Use(c, f, v)
      PROVE  TicketsInv'
  BY <1>2 DEF Tickets!Use
<1>3. ASSUME \/ \E c \in Callbacks : Tickets!Answer(c)
             \/ \E f \in Flows : Tickets!Lapse(f)
             \/ Tickets!Lose
             \/ UNCHANGED Tickets!vars
      PROVE  TicketsInv'
  BY <1>3 DEF Tickets!Answer, Tickets!Lapse, Tickets!Lose, Tickets!vars
<1> QED
  BY <1>1, <1>2, <1>3 DEF Tickets!Next

-----------------------------------------------------------------------------
(* The theorems.                                                           *)

\* Each part of IInv is kept by every step.
LEMMA NextIInv == IInv /\ [Next]_vars => IInv'
  BY ControlNext, TakenNext, ReplacedNext, CheckedNext, SweptNext DEF IInv

\* What the theorems below project from.
LEMMA Invariance == Spec => []IInv
  BY InitIInv, NextIInv, PTL DEF Spec

\* The stores, the flows and the callbacks always have their types, a stored
\* entry is under the state string of its flow in the instance that served it,
\* and a callback past ValidateAndPopState has the entry it was checked on.
THEOREM TypeCorrect == Spec => []TypeOK
<1>1. IInv => TypeOK
  BY DEF IInv, Control
<1> QED
  BY <1>1, Invariance, PTL

\* No two callbacks ever pop the same entry: LoadAndDelete makes a login flow
\* good for one callback.
THEOREM OneCallbackPerFlow == Spec => []EntryTakenOnce
<1>1. IInv => EntryTakenOnce
  BY DEF IInv, Taken
<1> QED
  BY <1>1, Invariance, PTL

\* A callback served where its flow was stored never gets the challenge or the
\* redirect_uri of an earlier flow with the same state string.
THEOREM LastUseOfState == Spec => []EntryNotStale
<1>1. IInv => EntryNotStale
  BY DEF IInv, Replaced
<1> QED
  BY <1>1, Invariance, PTL

\* HandleCallback's fallback redirect never carries the tokens of a CLI flow.
THEOREM CliTokensInBody == Spec => []CliTokensNotInUrl
<1>1. IInv => CliTokensNotInUrl
  BY DEF IInv, Checked
<1> QED
  BY <1>1, Invariance, PTL

\* startCleanup's delete reaches an entry that has not expired only where its
\* state string was used before, by a flow that has expired.
THEOREM PurgeReach == Spec => []PurgeSparesFresh
<1>1. IInv => PurgeSparesFresh
  BY DEF IInv, Swept
<1> QED
  BY <1>1, Invariance, PTL

\* The stores of all instances, the purge, restarts and racing callbacks come to
\* no more than LoginTickets: an entry is used once, and only a callback that pops
\* it in time with the verifier of its challenge is let in.
THEOREM Implements == Spec => ImplementsLoginTickets
<1>1. Init => Tickets!Init
  BY NoneAssumption DEF Init, Tickets!Init, Started, Open, Stored, Shown, LetIn, WithTokens
<1>2. IInv => Control
  BY DEF IInv
<1> QED
  BY <1>1, <1>2, Invariance, StepMaps, PTL DEF Spec, ImplementsLoginTickets, Tickets!Spec

\* So whoever is answered with tokens has popped an entry that nobody else had,
\* and has shown the verifier of its challenge.
THEOREM TokensOnlyForTheVerifier == Spec => []Tickets!TokensForTheVerifier
<1>1. TicketsInv => Tickets!TokensForTheVerifier
  BY DEF TicketsInv
<1> QED
  BY <1>1, Implements, TicketsInit, TicketsNext, PTL DEF ImplementsLoginTickets, Tickets!Spec
=============================================================================
