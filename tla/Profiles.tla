------------------------------ MODULE Profiles ------------------------------
(***************************************************************************)
(* Who puts rows into the profiles table and who takes them out: the POST  *)
(* that looks a person up, asks three services about the name and inserts  *)
(* a row, the DELETE, the import, and the seeding that every process does  *)
(* when it starts.  Processes share nothing but the table.                 *)
(*                                                                         *)
(* The column name is UNIQUE as it is spelt.  POST inserts the lower case  *)
(* and looks for any spelling; seed and import insert names as they are.   *)
(***************************************************************************)
EXTENDS Integers, Sequences, FiniteSets

CONSTANTS Creates,    \* POST requests
          Processes,  \* backend processes
          Spellings,  \* names as they may be spelt
          Postable,   \* those nameRegex lets through
          Lower,      \* strings.ToLower on Spellings
          Seeds,      \* the names in profiles.json, 2026 in the code
          Apis,       \* Genderize, Agify, Nationalize
          None

ASSUME ProfilesAssumption ==
  /\ Postable \subseteq Spellings
  /\ Lower \in [Spellings -> Spellings]
  /\ \A s \in Spellings : Lower[Lower[s]] = Lower[s]
  /\ Seeds \subseteq Spellings /\ IsFiniteSet(Seeds)
  /\ None \notin Apis \cup Spellings \cup Processes \cup Creates

VARIABLES present,    \* the names in the table
          state,      \* of a process: down, counting, seeding, serving
          todo,       \* the seeds it has not inserted yet
          pc, on,     \* where a POST stands, and the process that serves it
          name,       \* the name in its body
          fetch,      \* what each service has answered it
          err,        \* the service whose error g.Wait returns
          sawAbsent,  \* (history) the person had no profile since the POST began
          raced,      \* (history) its name was inserted since its look-up
          dropped     \* (history) the names that were deleted

bootVars == <<state, todo>>
createVars == <<pc, on, name, fetch, err, sawAbsent, raced>>
vars == <<present, bootVars, createVars, dropped>>

InFlight == {"lookup", "enrich", "insert", "inserted"}
Answered == {"blamed", "conflict", "created"}

Init == /\ present = {}
        /\ state = [i \in Processes |-> "down"]
        /\ todo = [i \in Processes |-> {}]
        /\ pc = [r \in Creates |-> "idle"]
        /\ on = [r \in Creates |-> None]
        /\ name = [r \in Creates |-> None]
        /\ fetch = [r \in Creates |-> [a \in Apis |-> "pending"]]
        /\ err = [r \in Creates |-> None]
        /\ sawAbsent = [r \in Creates |-> FALSE]
        /\ raced = [r \in Creates |-> FALSE]
        /\ dropped = {}

Goto(r, p) == pc' = [pc EXCEPT ![r] = p]

\* The request is over and leaves no history; another may take its place.
Over(r) == /\ Goto(r, "idle")
           /\ on' = [on EXCEPT ![r] = None]
           /\ name' = [name EXCEPT ![r] = None]
           /\ fetch' = [fetch EXCEPT ![r] = [a \in Apis |-> "pending"]]
           /\ err' = [err EXCEPT ![r] = None]
           /\ sawAbsent' = [sawAbsent EXCEPT ![r] = FALSE]
           /\ raced' = [raced EXCEPT ![r] = FALSE]

Answer(r, p) == Goto(r, p) /\ on' = [on EXCEPT ![r] = None]

Serving == \E i \in Processes : state[i] = "serving"

\* The rows of one person in the table t, however they are spelt.
RowsOf(t, s) == {q \in t : Lower[q] = Lower[s]}

\* INSERT of s, which is not in the table; w is the POST that does it.
Add(s, w) ==
  /\ present' = present \cup {s}
  /\ raced' = [r \in Creates |-> raced[r] \/ (/\ r # w
                                              /\ pc[r] \in {"enrich", "insert"}
                                              /\ Lower[name[r]] = s)]

\* ON CONFLICT (name) DO NOTHING
AddUnlessThere(s) == \/ s \notin present /\ Add(s, None)
                     \/ s \in present /\ UNCHANGED <<present, raced>>

-----------------------------------------------------------------------------
(* POST /api/profiles                                                      *)

\* Mutant of Valid: nameRegex is not asked.
ValidAnyway(s) == TRUE

\* nameRegex: letters and hyphens.
Valid(s) == s \in Postable

\* A name that is not valid is a 400 or 422 at once.
Begin(r, i, s) ==
  /\ pc[r] = "idle" /\ state[i] = "serving" /\ Valid(s)
  /\ on' = [on EXCEPT ![r] = i]
  /\ name' = [name EXCEPT ![r] = s]
  /\ sawAbsent' = [sawAbsent EXCEPT ![r] = RowsOf(present, s) = {}]
  /\ Goto(r, "lookup")
  /\ UNCHANGED <<present, bootVars, dropped, fetch, err, raced>>

\* Mutant of Existing: WHERE name = $1, for the lower case.
ExistingExactly(r) == {q \in present : q = Lower[name[r]]}

\* Mutant of Existing: the look-up comes before ToLower, and is exact.
ExistingAsPosted(r) == {q \in present : q = name[r]}

\* GetByName: WHERE LOWER(name) = LOWER($1)
Existing(r) == RowsOf(present, name[r])

\* The person has a profile (200), or the services are asked.
LookUp(r) ==
  /\ pc[r] = "lookup"
  /\ IF Existing(r) # {}
       THEN Over(r)
       ELSE Goto(r, "enrich") /\ UNCHANGED <<on, name, fetch, err, sawAbsent, raced>>
  /\ UNCHANGED <<present, bootVars, dropped>>

\* Mutant of FirstError: the last error is kept.
LastError(r, a) == a

\* errgroup keeps the first error, which also cancels the other fetches.
FirstError(r, a) == IF err[r] = None THEN a ELSE err[r]

\* A service answers well, or fails: no answer in time, a status other than
\* 200, a body without the attribute.  A cancelled fetch reports the same error.
Fetch(r, a) ==
  /\ pc[r] = "enrich" /\ fetch[r][a] = "pending"
  /\ \/ fetch' = [fetch EXCEPT ![r][a] = "ok"] /\ UNCHANGED err
     \/ /\ \/ fetch' = [fetch EXCEPT ![r][a] = "bad"]
           \/ err[r] # None /\ fetch' = [fetch EXCEPT ![r][a] = "cancelled"]
        /\ err' = [err EXCEPT ![r] = FirstError(r, a)]
  /\ UNCHANGED <<present, bootVars, dropped, pc, on, name, sawAbsent, raced>>

\* Mutant of Gathered: the first answer is enough.
GatheredOne(r) == \E a \in Apis : fetch[r][a] # "pending"

\* g.Wait returns when all three have.
Gathered(r) == \A a \in Apis : fetch[r][a] # "pending"

\* Without an error there is something to insert, else the answer is a 502.
Gather(r) ==
  /\ pc[r] = "enrich" /\ Gathered(r)
  /\ IF err[r] = None THEN Goto(r, "insert") /\ UNCHANGED on ELSE Answer(r, "blamed")
  /\ UNCHANGED <<present, bootVars, dropped, name, fetch, err, sawAbsent, raced>>

\* repository.Create.  A duplicate is a 500, and so is any other error.
Insert(r) ==
  LET n == Lower[name[r]] IN
  /\ pc[r] = "insert"
  /\ \/ n \notin present /\ Add(n, r) /\ Goto(r, "inserted") /\ UNCHANGED on
     \/ n \in present /\ Answer(r, "conflict") /\ UNCHANGED <<present, raced>>
  /\ UNCHANGED <<bootVars, dropped, name, fetch, err, sawAbsent>>

\* The answer is a 201 once the result of the statement has come.
Reply(r) ==
  /\ pc[r] = "inserted"
  /\ Answer(r, "created")
  /\ UNCHANGED <<present, bootVars, dropped, name, fetch, err, sawAbsent, raced>>

\* The caller hangs up, which cancels what the request waits for, or a
\* statement fails or its result is lost.  What is in the table stays there.
Fail(r) ==
  /\ pc[r] \in InFlight
  /\ Over(r)
  /\ UNCHANGED <<present, bootVars, dropped>>

CreateStep(r) == LookUp(r) \/ (\E a \in Apis : Fetch(r, a)) \/ Gather(r) \/ Insert(r) \/ Reply(r)

-----------------------------------------------------------------------------
(* DELETE /api/profiles/{id}, and the import.                              *)

\* DELETE ... WHERE id = $1 of the row of s (204), or of one that is not there
\* any more (404), which changes nothing.
Delete(s) ==
  /\ Serving /\ s \in present
  /\ present' = present \ {s}
  /\ dropped' = dropped \cup {s}
  /\ sawAbsent' = [r \in Creates |-> sawAbsent[r] \/
                    (pc[r] \in InFlight /\ RowsOf(present \ {s}, name[r]) = {})]
  /\ UNCHANGED <<bootVars, pc, on, name, fetch, err, raced>>

\* A row of a CSV file (module ImportCSV).
Import(s) ==
  /\ Serving /\ s \notin present /\ Add(s, None)
  /\ UNCHANGED <<bootVars, dropped, pc, on, name, fetch, err, sawAbsent>>

-----------------------------------------------------------------------------
(* A process starts, and ends.                                             *)

\* The migrations change nothing that is there.
Start(i) ==
  /\ state[i] = "down"
  /\ state' = [state EXCEPT ![i] = "counting"]
  /\ UNCHANGED <<present, todo, createVars, dropped>>

\* Mutant of Seeded: there are rows, so it was seeded.
SeededAtAll == present # {}

\* count >= 2026
Seeded == Cardinality(present) >= Cardinality(Seeds)

Count(i) ==
  /\ state[i] = "counting"
  /\ state' = [state EXCEPT ![i] = IF Seeded THEN "serving" ELSE "seeding"]
  /\ todo' = [todo EXCEPT ![i] = IF Seeded THEN {} ELSE Seeds]
  /\ UNCHANGED <<present, createVars, dropped>>

\* One INSERT per seed, none in a transaction with another.
SeedOne(i, s) ==
  /\ state[i] = "seeding" /\ s \in todo[i]
  /\ AddUnlessThere(s)
  /\ todo' = [todo EXCEPT ![i] = @ \ {s}]
  /\ UNCHANGED <<state, pc, on, name, fetch, err, sawAbsent, dropped>>

Serve(i) ==
  /\ state[i] = "seeding" /\ todo[i] = {}
  /\ state' = [state EXCEPT ![i] = "serving"]
  /\ UNCHANGED <<present, todo, createVars, dropped>>

\* log.Fatalf while it starts, or a crash at any time: for the requests it
\* serves, as if their callers hung up.
Stop(i) ==
  /\ state[i] # "down"
  /\ \A r \in Creates : on[r] # i
  /\ state' = [state EXCEPT ![i] = "down"]
  /\ todo' = [todo EXCEPT ![i] = {}]
  /\ UNCHANGED <<present, createVars, dropped>>

Boot(i) == Start(i) \/ Count(i) \/ (\E s \in Seeds : SeedOne(i, s)) \/ Serve(i) \/ Stop(i)

Next == \/ \E r \in Creates : \/ \E i \in Processes, s \in Spellings : Begin(r, i, s)
                              \/ CreateStep(r) \/ Fail(r)
        \/ \E s \in Spellings : Delete(s) \/ Import(s)
        \/ \E i \in Processes : Boot(i)

Spec == Init /\ [][Next]_vars

-----------------------------------------------------------------------------
(* Properties.                                                             *)

\* Every variable has its type.
TypeOK ==
  /\ present \subseteq Spellings
  /\ state \in [Processes -> {"down", "counting", "seeding", "serving"}]
  /\ todo \in [Processes -> SUBSET Seeds]
  /\ pc \in [Creates -> {"idle"} \cup InFlight \cup Answered]
  /\ on \in [Creates -> Processes \cup {None}]
  /\ name \in [Creates -> Postable \cup {None}]
  /\ fetch \in [Creates -> [Apis -> {"pending", "ok", "bad", "cancelled"}]]
  /\ err \in [Creates -> Apis \cup {None}]
  /\ sawAbsent \in [Creates -> BOOLEAN]
  /\ raced \in [Creates -> BOOLEAN]
  /\ dropped \subseteq Spellings

\* A POST makes a profile only for a person who had none at some time while it
\* ran, in any spelling: not for one that an import or a seed has put there
\* and nobody has deleted.
CreatedOnlyIfAbsent == \A r \in Creates : pc[r] = "created" => sawAbsent[r]

\* A duplicate is an internal error only for a POST that lost a race: another
\* writer inserted the very name between its look-up and its INSERT.
ConflictOnlyByRace == \A r \in Creates : pc[r] = "conflict" => raced[r]

\* A 502 names a service that has failed, not one whose fetch was cancelled
\* because another had.
ErrorNamesCulprit == \A r \in Creates : pc[r] = "blamed" => fetch[r][err[r]] = "bad"

\* What is inserted was fetched: every service has answered well, so no field
\* that is dereferenced is nil.
InsertsWhatWasFetched == \A r \in Creates :
  pc[r] \in {"insert", "inserted", "conflict", "created"} => \A a \in Apis : fetch[r][a] = "ok"

\* A process serves only from a table with all the seeds, but for those that
\* were deleted, wherever it or another process died while it seeded.
SeedComplete == Serving => Seeds \ present \subseteq dropped
=============================================================================
