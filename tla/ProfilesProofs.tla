--------------------------- MODULE ProfilesProofs ---------------------------
(***************************************************************************)
(* Proofs about Profiles, for any requests, processes, names and services. *)
(*                                                                         *)
(* A POST is followed through three of its concerns, what it has fetched   *)
(* (Fetched), what the table held when it looked (Looked), and that its    *)
(* process serves (Placed).  The seeds are a fourth: as long as no process *)
(* has served, the table holds nothing else, so that counting rows tells   *)
(* whether seeding was finished.                                           *)
(***************************************************************************)
EXTENDS Profiles, FiniteSetTheorems, TLAPS

Placed == \A r \in Creates : pc[r] \in InFlight =>
  name[r] \in Postable /\ on[r] \in Processes /\ state[on[r]] = "serving"

FetchedBy(r) ==
  /\ pc[r] \in {"idle", "lookup"} => err[r] = None /\ \A a \in Apis : fetch[r][a] = "pending"
  /\ err[r] = None => \A a \in Apis : fetch[r][a] \in {"pending", "ok"}
  /\ err[r] # None => fetch[r][err[r]] = "bad"
  /\ pc[r] \in {"insert", "inserted", "conflict", "created"} =>
       \A a \in Apis : fetch[r][a] = "ok"
  /\ pc[r] = "blamed" => err[r] # None

Fetched == \A r \in Creates : FetchedBy(r)

LookedBy(r) ==
  /\ pc[r] = "lookup" /\ RowsOf(present, name[r]) = {} => sawAbsent[r]
  /\ pc[r] \in {"enrich", "insert", "inserted", "created"} => sawAbsent[r]
  /\ pc[r] \in {"enrich", "insert"} /\ Lower[name[r]] \in present => raced[r]
  /\ pc[r] = "conflict" => raced[r]

Looked == \A r \in Creates : LookedBy(r)

Complete == Seeds \subseteq present \cup dropped

Seeding ==
  /\ present \subseteq Seeds \/ Complete
  /\ Serving => Complete
  /\ \A i \in Processes : state[i] = "seeding" => Seeds \subseteq todo[i] \cup present \cup dropped

IInv == TypeOK /\ Placed /\ Fetched /\ Looked /\ Seeding

-----------------------------------------------------------------------------

LEMMA InitIInv == Init => IInv
<1> SUFFICES ASSUME Init PROVE IInv
  OBVIOUS
<1> USE ProfilesAssumption DEF Init, InFlight, Answered
<1>1. TypeOK /\ Placed
  BY DEF TypeOK, Placed
<1>2. Fetched /\ Looked
  BY DEF Fetched, FetchedBy, Looked, LookedBy, RowsOf
<1>3. Seeding
  BY DEF Seeding, Complete, Serving
<1> QED
  BY <1>1, <1>2, <1>3 DEF IInv

\* A request that goes back to idle has nothing left to show.
LEMMA OverIInv ==
  ASSUME IInv, NEW r \in Creates, Over(r), UNCHANGED <<present, bootVars, dropped>>
  PROVE  IInv'
<1> USE DEF IInv, Over, Goto, bootVars
<1>1. TypeOK'
  BY DEF TypeOK
<1>2. \A q \in Creates : q # r => /\ pc'[q] = pc[q] /\ on'[q] = on[q] /\ name'[q] = name[q]
                                  /\ fetch'[q] = fetch[q] /\ err'[q] = err[q]
                                  /\ sawAbsent'[q] = sawAbsent[q] /\ raced'[q] = raced[q]
  BY DEF TypeOK
<1>3. pc'[r] = "idle" /\ err'[r] = None /\ fetch'[r] = [a \in Apis |-> "pending"]
  BY DEF TypeOK
<1>4. Placed'
  BY <1>2, <1>3 DEF Placed, InFlight
<1>5. Fetched'
  BY <1>2, <1>3 DEF Fetched, FetchedBy
<1>6. Looked'
  BY <1>2, <1>3 DEF Looked, LookedBy, RowsOf
<1>7. Seeding'
  BY DEF Seeding, Complete, Serving
<1> QED
  BY <1>1, <1>4, <1>5, <1>6, <1>7

\* A row that is inserted makes no request less well informed.
LEMMA AddLooked ==
  ASSUME IInv, NEW s \in Spellings, NEW w, Add(s, w),
         NEW q \in Creates, q # w, pc'[q] = pc[q], name'[q] = name[q], sawAbsent'[q] = sawAbsent[q]
  PROVE  LookedBy(q)'
<1>1. pc[q] \in {"enrich", "insert"} /\ Lower[name[q]] = s => raced'[q]
  BY DEF Add
<1>2. raced[q] => raced'[q]
  BY DEF Add
<1>3. RowsOf(present', name[q]) = {} => RowsOf(present, name[q]) = {}
  BY DEF Add, RowsOf
<1>4. LookedBy(q)
  BY DEF IInv, Looked
<1> QED
  BY <1>1, <1>2, <1>3, <1>4 DEF LookedBy, RowsOf, Add

LEMMA AddTyped ==
  ASSUME IInv, NEW s \in Spellings, NEW w, Add(s, w)
  PROVE  raced' \in [Creates -> BOOLEAN] /\ present' \subseteq Spellings
<1>1. \A q \in Creates : (raced[q] \/ (/\ q # w
                                       /\ pc[q] \in {"enrich", "insert"}
                                       /\ Lower[name[q]] = s)) \in BOOLEAN
  BY Zenon
<1> QED
  BY <1>1 DEF Add, IInv, TypeOK

-----------------------------------------------------------------------------

LEMMA CreateIInv ==
  ASSUME IInv, NEW r \in Creates,
         (\E i \in Processes, s \in Spellings : Begin(r, i, s)) \/ CreateStep(r) \/ Fail(r)
  PROVE  IInv'
<1> USE ProfilesAssumption DEF IInv, Goto, bootVars
<1>1. ASSUME NEW i \in Processes, NEW s \in Spellings, Begin(r, i, s) PROVE IInv'
  <2> USE <1>1 DEF Begin
  <2>1. TypeOK'
    BY DEF TypeOK, Valid, InFlight
  <2>2. Placed'
    BY DEF Placed, TypeOK, Valid
  <2>3. Fetched'
    BY DEF Fetched, FetchedBy, TypeOK
  <2>4. Looked'
    <3>1. sawAbsent'[r] = (RowsOf(present, name'[r]) = {}) /\ pc'[r] = "lookup"
      BY DEF TypeOK
    <3>2. LookedBy(r)'
      BY <3>1 DEF LookedBy, RowsOf
    <3>3. ASSUME NEW q \in Creates, q # r PROVE LookedBy(q)'
      <4>1. /\ pc'[q] = pc[q] /\ name'[q] = name[q] /\ raced'[q] = raced[q]
            /\ sawAbsent'[q] = sawAbsent[q] /\ present' = present
        BY <3>3 DEF TypeOK
      <4> QED
        BY <4>1 DEF Looked, LookedBy, RowsOf
    <3> QED
      BY <3>2, <3>3 DEF Looked
  <2>5. Seeding'
    BY DEF Seeding, Complete, Serving
  <2> QED
    BY <2>1, <2>2, <2>3, <2>4, <2>5
<1>2. CASE LookUp(r)
  <2>1. CASE Existing(r) # {}
    BY <1>2, <2>1, OverIInv DEF LookUp
  <2>2. CASE Existing(r) = {}
    <3> USE <1>2, <2>2 DEF LookUp
    <3>1. TypeOK' /\ Placed'
      BY DEF TypeOK, Placed, InFlight
    <3>2. Fetched'
      BY DEF Fetched, FetchedBy, TypeOK
    <3>3. Lower[name[r]] \notin present
      BY DEF Existing, RowsOf, Placed, InFlight
    <3>4. Looked'
      BY <3>3 DEF Looked, LookedBy, TypeOK, RowsOf, Existing
    <3>5. Seeding'
      BY DEF Seeding, Complete, Serving
    <3> QED
      BY <3>1, <3>2, <3>4, <3>5
  <2> QED
    BY <2>1, <2>2
<1>3. ASSUME NEW a \in Apis, Fetch(r, a) PROVE IInv'
  <2> USE <1>3 DEF Fetch
  <2>1. TypeOK'
    <3>1. \A v \in {"ok", "bad", "cancelled"} : [fetch EXCEPT ![r][a] = v]
            \in [Creates -> [Apis -> {"pending", "ok", "bad", "cancelled"}]]
      BY DEF TypeOK
    <3>2. err' \in [Creates -> Apis \cup {None}]
      BY DEF TypeOK, FirstError
    <3>3. fetch' \in [Creates -> [Apis -> {"pending", "ok", "bad", "cancelled"}]]
      BY <3>1
    <3> QED
      BY <3>2, <3>3 DEF TypeOK
  <2>2. Placed' /\ Looked' /\ Seeding'
    BY DEF Placed, Looked, LookedBy, RowsOf, Seeding, Complete, Serving
  <2>3. \A q \in Creates : q # r => fetch'[q] = fetch[q] /\ err'[q] = err[q]
    BY DEF TypeOK
  <2>4. FetchedBy(r)'
    <3>1. FetchedBy(r)
      BY DEF Fetched
    <3>2. CASE fetch' = [fetch EXCEPT ![r][a] = "ok"] /\ UNCHANGED err
      BY <3>1, <3>2 DEF FetchedBy, TypeOK
    <3>3. CASE err' = [err EXCEPT ![r] = FirstError(r, a)]
      BY <3>1, <3>3 DEF FetchedBy, TypeOK, FirstError
    <3> QED
      BY <3>2, <3>3
  <2>5. Fetched'
    BY <2>3, <2>4 DEF Fetched, FetchedBy
  <2> QED
    BY <2>1, <2>2, <2>5
<1>4. CASE Gather(r)
  <2> USE <1>4 DEF Gather, Answer
  <2>1. TypeOK'
    BY DEF TypeOK, InFlight, Answered
  <2>2. Placed'
    BY DEF TypeOK, Placed, InFlight
  <2>3. Fetched'
    BY DEF Fetched, FetchedBy, TypeOK, Gathered
  <2>4. Looked' /\ Seeding'
    BY DEF Looked, LookedBy, RowsOf, TypeOK, Seeding, Complete, Serving
  <2> QED
    BY <2>1, <2>2, <2>3, <2>4
<1>5. CASE Insert(r)
  <2> USE <1>5 DEF Insert
  <2>1. name[r] \in Postable /\ Lower[name[r]] \in Spellings /\ Complete
    BY DEF Placed, InFlight, Seeding, Serving
  <2>2. CASE Lower[name[r]] \notin present
    <3>1. Add(Lower[name[r]], r) /\ pc' = [pc EXCEPT ![r] = "inserted"] /\ UNCHANGED on
      BY <2>2
    <3>2. TypeOK'
      BY <2>1, <3>1, AddTyped DEF TypeOK, InFlight
    <3>3. Placed' /\ Fetched'
      BY <3>1 DEF Placed, Fetched, FetchedBy, TypeOK, InFlight
    <3>4. \A q \in Creates : q # r => LookedBy(q)'
      BY <2>1, <3>1, AddLooked DEF TypeOK
    <3>5. LookedBy(r)'
      BY <3>1 DEF Looked, LookedBy, TypeOK
    <3>6. Seeding'
      BY <2>1, <3>1 DEF Seeding, Complete, Serving, Add
    <3> QED
      BY <3>2, <3>3, <3>4, <3>5, <3>6 DEF Looked
  <2>3. CASE Lower[name[r]] \in present
    <3> USE <2>3 DEF Answer
    <3>1. TypeOK'
      BY DEF TypeOK, Answered
    <3>2. Placed' /\ Fetched'
      BY DEF TypeOK, Placed, InFlight, Fetched, FetchedBy
    <3>3. Looked' /\ Seeding'
      BY DEF Looked, LookedBy, RowsOf, TypeOK, Seeding, Complete, Serving
    <3> QED
      BY <3>1, <3>2, <3>3
  <2> QED
    BY <2>2, <2>3
<1>6. CASE Reply(r)
  <2> USE <1>6 DEF Reply, Answer
  <2>1. TypeOK' /\ Placed'
    BY DEF TypeOK, Placed, InFlight, Answered
  <2>2. Fetched'
    BY DEF Fetched, FetchedBy, TypeOK
  <2>3. Looked' /\ Seeding'
    BY DEF Looked, LookedBy, RowsOf, TypeOK, Seeding, Complete, Serving
  <2> QED
    BY <2>1, <2>2, <2>3
<1>7. CASE Fail(r)
  BY <1>7, OverIInv DEF Fail
<1> QED
  BY <1>1, <1>2, <1>3, <1>4, <1>5, <1>6, <1>7 DEF CreateStep

\* Rows that come and go without a POST.
LEMMA RowsIInv ==
  ASSUME IInv, NEW s \in Spellings, Delete(s) \/ Import(s) PROVE IInv'
<1> USE ProfilesAssumption DEF IInv, bootVars
<1>1. CASE Delete(s)
  <2> USE <1>1 DEF Delete
  <2>1. sawAbsent' \in [Creates -> BOOLEAN]
    <3>1. \A q \in Creates : (sawAbsent[q] \/ (pc[q] \in InFlight /\ RowsOf(present \ {s}, name[q]) = {})) \in BOOLEAN
      BY Zenon
    <3> QED
      BY <3>1
  <2>2. TypeOK'
    BY <2>1 DEF TypeOK
  <2>3. Placed' /\ Fetched'
    BY DEF Placed, Fetched, FetchedBy
  <2>4. \A q \in Creates : /\ sawAbsent[q] => sawAbsent'[q]
                           /\ pc[q] = "lookup" /\ RowsOf(present', name[q]) = {} => sawAbsent'[q]
    BY DEF InFlight
  <2>5. Looked'
    BY <2>4 DEF Looked, LookedBy, RowsOf
  <2>6. Seeding'
    BY DEF Seeding, Complete, Serving
  <2> QED
    BY <2>2, <2>3, <2>5, <2>6
<1>2. CASE Import(s)
  <2> USE <1>2 DEF Import
  <2>1. TypeOK'
    BY AddTyped DEF TypeOK
  <2>2. Placed' /\ Fetched'
    BY DEF Placed, Fetched, FetchedBy, Add
  <2>3. ASSUME NEW q \in Creates PROVE LookedBy(q)'
    BY AddLooked
  <2>4. Looked'
    BY <2>3 DEF Looked
  <2>5. Seeding'
    BY DEF Seeding, Complete, Serving, Add
  <2> QED
    BY <2>1, <2>2, <2>4, <2>5
<1> QED
  BY <1>1, <1>2

\* As long as only seeds are in the table, a count of 2026 means all of them.
LEMMA CountTells == ASSUME IInv, Seeded PROVE Complete
<1>1. CASE present \subseteq Seeds
  <2>1. IsFiniteSet(Seeds)
    BY ProfilesAssumption
  <2>2. IsFiniteSet(present) /\ Cardinality(present) <= Cardinality(Seeds)
        /\ (Cardinality(present) = Cardinality(Seeds) => present = Seeds)
    BY <1>1, <2>1, FS_Subset
  <2>3. Cardinality(present) \in Nat /\ Cardinality(Seeds) \in Nat
    BY <2>1, <2>2, FS_CardinalityType
  <2> QED
    BY <2>2, <2>3 DEF Seeded, Complete
<1> QED
  BY <1>1 DEF IInv, Seeding

LEMMA BootIInv == ASSUME IInv, NEW i \in Processes, Boot(i) PROVE IInv'
<1> USE ProfilesAssumption DEF IInv, createVars
<1>1. CASE Start(i) \/ Count(i) \/ Serve(i) \/ Stop(i)
  <2>0. UNCHANGED <<present, dropped, createVars>>
    BY <1>1 DEF Start, Count, Serve, Stop
  <2>1. TypeOK'
    <3>1. CASE Start(i)
      BY <2>0, <3>1 DEF TypeOK, Start
    <3>2. CASE Count(i)
      BY <2>0, <3>2 DEF TypeOK, Count
    <3>3. CASE Serve(i)
      BY <2>0, <3>3 DEF TypeOK, Serve
    <3>4. CASE Stop(i)
      BY <2>0, <3>4 DEF TypeOK, Stop
    <3> QED
      BY <1>1, <3>1, <3>2, <3>3, <3>4
  <2>2. Placed'
    BY <1>1, <2>0 DEF Placed, TypeOK, InFlight, Start, Count, Serve, Stop
  <2>3. Fetched' /\ Looked'
    BY <2>0 DEF Fetched, FetchedBy, Looked, LookedBy, RowsOf
  <2>4. Seeding'
    <3>1. CASE Start(i)
      BY <3>1 DEF Start, Seeding, Complete, Serving, TypeOK
    <3>2. CASE Count(i)
      BY <3>2, CountTells DEF Count, Seeding, Complete, Serving, TypeOK
    <3>3. CASE Serve(i)
      BY <3>3 DEF Serve, Seeding, Complete, Serving, TypeOK
    <3>4. CASE Stop(i)
      BY <3>4 DEF Stop, Seeding, Complete, Serving, TypeOK
    <3> QED
      BY <1>1, <3>1, <3>2, <3>3, <3>4
  <2> QED
    BY <2>1, <2>2, <2>3, <2>4
<1>2. ASSUME NEW s \in Seeds, SeedOne(i, s) PROVE IInv'
  <2> USE <1>2 DEF SeedOne
  <2>1. TypeOK'
    BY AddTyped DEF TypeOK, AddUnlessThere
  <2>2. Placed' /\ Fetched'
    BY DEF Placed, Fetched, FetchedBy
  <2>3. Looked'
    <3>1. CASE Add(s, None)
      <4> SUFFICES ASSUME NEW q \in Creates PROVE LookedBy(q)'
        BY DEF Looked
      <4> QED
        BY <3>1, AddLooked
    <3>2. CASE UNCHANGED <<present, raced>>
      BY <3>2 DEF Looked, LookedBy, RowsOf
    <3> QED
      BY <3>1, <3>2 DEF AddUnlessThere
  <2>4. Seeding'
    BY DEF Seeding, Complete, Serving, AddUnlessThere, Add, TypeOK
  <2> QED
    BY <2>1, <2>2, <2>3, <2>4
<1> QED
  BY <1>1, <1>2 DEF Boot

LEMMA NextIInv == IInv /\ [Next]_vars => IInv'
<1> SUFFICES ASSUME IInv, [Next]_vars PROVE IInv'
  OBVIOUS
<1>1. CASE UNCHANGED vars
  BY <1>1 DEF vars, bootVars, createVars, IInv, TypeOK, Placed, Fetched, FetchedBy, Looked,
              LookedBy, RowsOf, Seeding, Complete, Serving
<1> QED
  BY <1>1, CreateIInv, RowsIInv, BootIInv DEF Next

LEMMA SpecIInv == Spec => []IInv
  BY InitIInv, NextIInv, PTL DEF Spec

-----------------------------------------------------------------------------
\* The type invariant.
THEOREM Types == Spec => []TypeOK
<1>1. IInv => TypeOK
  BY DEF IInv
<1> QED
  BY <1>1, SpecIInv, PTL

\* No POST makes a second profile for a person who has one, however spelt.
THEOREM OnlyIfAbsent == Spec => []CreatedOnlyIfAbsent
<1>1. IInv => CreatedOnlyIfAbsent
  BY DEF IInv, Looked, LookedBy, CreatedOnlyIfAbsent
<1> QED
  BY <1>1, SpecIInv, PTL

\* A POST ends with a duplicate only when it lost a race.
THEOREM OnlyByRace == Spec => []ConflictOnlyByRace
<1>1. IInv => ConflictOnlyByRace
  BY DEF IInv, Looked, LookedBy, ConflictOnlyByRace
<1> QED
  BY <1>1, SpecIInv, PTL

\* A 502 names a service that has failed, not one whose fetch was cancelled
\* because another had (service/profile.go, the errgroup of CreateProfile).
THEOREM CulpritsNamed == Spec => []ErrorNamesCulprit
<1>1. IInv => ErrorNamesCulprit
  BY DEF IInv, Fetched, FetchedBy, ErrorNamesCulprit
<1> QED
  BY <1>1, SpecIInv, PTL

\* A POST that gets to its INSERT has a good answer of every service, so that no
\* result it dereferences is nil.
THEOREM FetchedThenInserted == Spec => []InsertsWhatWasFetched
<1>1. IInv => InsertsWhatWasFetched
  BY DEF IInv, Fetched, FetchedBy, InsertsWhatWasFetched
<1> QED
  BY <1>1, SpecIInv, PTL

\* Whatever number of processes start, seed, crash and start again, none
\* serves before every seed was inserted once.
THEOREM SeedsComplete == Spec => []SeedComplete
<1>1. IInv => SeedComplete
  BY DEF IInv, Seeding, Complete, SeedComplete
<1> QED
  BY <1>1, SpecIInv, PTL
=============================================================================
