-------------------------- MODULE ListCacheProofs --------------------------
(***************************************************************************)
(* Proofs about ListCache, for any sets of requests, writes and keys and   *)
(* any bound on the commits.                                               *)
(*                                                                         *)
(* The inductive invariant IInv has three parts: Control (types, and what  *)
(* the place of a request, write or invalidation says about its other      *)
(* variables), Swept (what is still cached under a key that a SCAN has     *)
(* passed) and Reads (what a list request has seen).                       *)
(***************************************************************************)
EXTENDS ListCache, TLAPS

\* A write commits nothing more once its invalidation is spawned.
WriteFits == \A w \in Writes :
               /\ last[w] <= version
               /\ ipc[w] # "idle" => wpc[w] = "answered"

\* Between two pages nothing is left to delete, and SCAN ends at cursor 0.
ScanFits == \A w \in Writes :
              /\ ipc[w] \in {"next", "finished"} => page[w] = {}
              /\ ipc[w] = "finished" => todo[w] = {}

ListFits == \A r \in Lists :
              /\ lpc[r] # "idle" => key[r] \in Keys
              /\ lpc[r] \in {"idle", "get"} => total[r] = None /\ rows[r] = None
              /\ \A w \in clean[r] : ipc[w] = "finished"

Control == TypeOK /\ WriteFits /\ ScanFits /\ ListFits

\* The SCAN of w has passed k, and what it returned there is deleted.
Passed(w, k) == /\ ipc[w] \in {"del", "next", "finished"}
                /\ k \notin todo[w] \cup page[w]

Shows(e, w) == w \in e.after \/ (e.rows >= last[w] /\ e.total >= last[w])

Swept == \A w \in Writes, k \in Keys :
           (Passed(w, k) /\ cache[k] # None) => Shows(cache[k], w)

\* A query run after an invalidation has finished sees the write.
QueriesSee == \A r \in Lists : lpc[r] = "query" =>
                \A w \in clean[r] :
                  /\ rows[r] # None => rows[r] >= last[w]
                  /\ total[r] # None => total[r] >= last[w]

Reads == QueriesSee /\ StaleOnlyByOverlap

IInv == Control /\ Swept /\ Reads

-----------------------------------------------------------------------------
\* Nothing is cached, asked for or written before the first request.
LEMMA InitIInv == Init => IInv
<1> SUFFICES ASSUME Init PROVE IInv
  OBVIOUS
<1> USE DEF Init
<1>1. Control
  BY ListCacheAssumption
     DEF Control, TypeOK, WriteFits, ScanFits, ListFits, Answered
<1>2. Swept
  BY DEF Swept, Passed
<1>3. Reads
  BY DEF Reads, QueriesSee, StaleOnlyByOverlap, Answered
<1> QED
  BY <1>1, <1>2, <1>3 DEF IInv

\* What a step may be, one action to a disjunct.
LEMMA NextCases ==
  ASSUME [Next]_vars
  PROVE  \/ \E r \in Lists, k \in Keys : ListProfiles(r, k)
         \/ \E r \in Lists : Hit(r)
         \/ \E r \in Lists : Miss(r)
         \/ \E r \in Lists : CountRows(r)
         \/ \E r \in Lists : FetchPage(r)
         \/ \E r \in Lists : QueryFails(r)
         \/ \E r \in Lists : Put(r)
         \/ \E w \in Writes : Commit(w)
         \/ \E w \in Writes : WriteFails(w)
         \/ \E w \in Writes : Answer(w)
         \/ \E w \in Writes : Scan(w)
         \/ \E w \in Writes : Del(w)
         \/ \E w \in Writes : Finish(w)
         \/ \E w \in Writes : Abandon(w)
         \/ \E k \in Keys : Expire(k)
         \/ UNCHANGED vars
  BY DEF Next, List, Write, InvalidateProfileCache

-----------------------------------------------------------------------------
(* Control is inductive.                                                   *)

\* ListProfiles up to its queries: a request finds its key's entry or goes on.
LEMMA LookControl ==
  ASSUME Control, NEW r \in Lists,
         (\E k \in Keys : ListProfiles(r, k)) \/ Hit(r) \/ Miss(r)
  PROVE  Control'
<1> USE DEF Control, TypeOK, Answered
<1>1. ASSUME NEW k \in Keys, ListProfiles(r, k) PROVE Control'
  BY <1>1 DEF ListProfiles, writeVars, invVars, WriteFits, ScanFits, ListFits
<1>2. CASE Hit(r)
  <2> DEFINE e == cache[key[r]]
  <2>1. e # None
        /\ total' = [total EXCEPT ![r] = e.total]
        /\ rows' = [rows EXCEPT ![r] = e.rows]
        /\ late' = [late EXCEPT ![r] = e.after]
        /\ lpc' = [lpc EXCEPT ![r] = "hit"]
        /\ UNCHANGED <<version, cache, key, clean, wpc, last, ipc, todo, page>>
    BY <1>2 DEF Hit, writeVars, invVars
  <2>2. e \in Entry
    BY <1>2, <2>1 DEF Hit, ListFits
  <2>3. e.total \in 0..MaxVersion /\ e.rows \in 0..MaxVersion /\ e.after \in SUBSET Writes
    BY <2>2 DEF Entry
  <2>4. e.total # None /\ e.rows # None
    BY <2>3, ListCacheAssumption
  <2> HIDE DEF e
  <2>5. TypeOK'
    BY <2>1, <2>3, <2>4
  <2>6. WriteFits' /\ ScanFits'
    BY <2>1 DEF WriteFits, ScanFits
  <2>7. ListFits'
    BY <1>2, <2>1 DEF ListFits, Hit
  <2> HIDE DEF TypeOK
  <2> QED
    BY <2>5, <2>6, <2>7
<1>3. CASE Miss(r)
  BY <1>3 DEF Miss, writeVars, invVars, WriteFits, ScanFits, ListFits
<1> QED
  BY <1>1, <1>2, <1>3

\* The queries and the put: a list answered has both results.
LEMMA QueryControl ==
  ASSUME Control, NEW r \in Lists,
         CountRows(r) \/ FetchPage(r) \/ QueryFails(r) \/ Put(r)
  PROVE  Control'
<1> USE DEF Control, TypeOK, Answered
<1>1. version # None
  BY ListCacheAssumption
<1>2. CASE CountRows(r)
  BY <1>1, <1>2 DEF CountRows, writeVars, invVars, WriteFits, ScanFits, ListFits
<1>3. CASE FetchPage(r)
  BY <1>1, <1>3 DEF FetchPage, writeVars, invVars, WriteFits, ScanFits, ListFits
<1>4. CASE QueryFails(r)
  BY <1>4 DEF QueryFails, writeVars, invVars, WriteFits, ScanFits, ListFits
<1>5. CASE Put(r)
  <2> DEFINE entry == [rows |-> rows[r], total |-> total[r],
                       after |-> {w \in Writes : ipc[w] \notin {"idle", "spawned"}}]
  <2>1. /\ cache' \in {cache, [cache EXCEPT ![key[r]] = entry]}
        /\ lpc' = [lpc EXCEPT ![r] = "miss"]
        /\ lpc[r] = "query" /\ rows[r] # None /\ total[r] # None
        /\ UNCHANGED <<version, key, total, rows, late, clean,
                       wpc, last, ipc, todo, page>>
    BY <1>5 DEF Put, Joined, writeVars, invVars
  <2>2. entry \in Entry
    BY <2>1 DEF Entry
  <2> HIDE DEF entry
  <2>3. cache' \in [Keys -> Entry \cup {None}]
    BY <2>1, <2>2
  <2>4. TypeOK'
    BY <2>1, <2>3
  <2> QED
    BY <2>1, <2>4 DEF WriteFits, ScanFits, ListFits
<1> QED
  BY <1>2, <1>3, <1>4, <1>5

\* Writers commit, then spawn their invalidation, and commit nothing after.
LEMMA WriteControl ==
  ASSUME Control, NEW w \in Writes, Commit(w) \/ WriteFails(w) \/ Answer(w)
  PROVE  Control'
<1> USE DEF Control, TypeOK, Answered, listVars, WriteFits, ScanFits, ListFits
<1>1. CASE Commit(w)
  <2>1. version + 1 \in 0..MaxVersion
    BY <1>1, ListCacheAssumption DEF Commit
  <2> QED
    BY <1>1, <2>1 DEF Commit, invVars
<1>2. CASE WriteFails(w)
  BY <1>2 DEF WriteFails, invVars
<1>3. CASE Answer(w)
  <2>1. ipc[w] # "finished"
    BY <1>3 DEF Answer
  <2> QED
    BY <1>3, <2>1 DEF Answer
<1> QED
  BY <1>1, <1>2, <1>3

\* An invalidation alternates SCAN and DEL; finished, it stays finished.
LEMMA InvalidationControl ==
  ASSUME Control, NEW w \in Writes, Scan(w) \/ Del(w) \/ Finish(w) \/ Abandon(w)
  PROVE  Control'
<1> USE DEF Control, TypeOK, Answered, listVars, writeVars,
            WriteFits, ScanFits, ListFits
<1>1. CASE Scan(w)
  <2>1. PICK P \in SUBSET ScanFrom(w) :
          /\ todo' = [todo EXCEPT ![w] = ScanFrom(w) \ P]
          /\ page' = [page EXCEPT ![w] = {k \in P : cache[k] # None}]
    BY <1>1 DEF Scan
  <2>2. ScanFrom(w) \subseteq Keys /\ P \subseteq Keys
    BY <2>1 DEF ScanFrom
  <2>3. /\ ipc[w] \in {"spawned", "next"} /\ ipc' = [ipc EXCEPT ![w] = "del"]
        /\ UNCHANGED <<version, cache, listVars, writeVars>>
    BY <1>1 DEF Scan
  <2>4. /\ todo' \in [Writes -> SUBSET Keys]
        /\ page' \in [Writes -> SUBSET Keys]
    BY <2>1, <2>2
  <2>5. \A x \in Writes \ {w} : todo'[x] = todo[x] /\ page'[x] = page[x]
    BY <2>1
  <2> QED
    BY <2>3, <2>4, <2>5
<1>2. CASE Del(w)
  BY <1>2 DEF Del
<1>3. CASE Finish(w)
  BY <1>3 DEF Finish, ScanDone
<1>4. CASE Abandon(w)
  BY <1>4 DEF Abandon
<1> QED
  BY <1>1, <1>2, <1>3, <1>4

\* Every step keeps Control.
LEMMA ControlNext == Control /\ [Next]_vars => Control'
<1> SUFFICES ASSUME Control, [Next]_vars PROVE Control'
  OBVIOUS
<1>1. ASSUME NEW k \in Keys, Expire(k) PROVE Control'
  BY <1>1 DEF Expire, Control, TypeOK, Answered, listVars, writeVars, invVars,
              WriteFits, ScanFits, ListFits
<1>2. ASSUME UNCHANGED vars PROVE Control'
  BY <1>2 DEF vars, Control, TypeOK, Answered, listVars, writeVars, invVars,
              WriteFits, ScanFits, ListFits
<1> QED
  BY <1>1, <1>2, NextCases, LookControl, QueryControl, WriteControl, InvalidationControl

-----------------------------------------------------------------------------
(* Swept is inductive.                                                     *)

\* What SCAN has passed is gone or was put there since: DEL takes every key
\* that SCAN returned, and a list put in the cache later is marked as such.
LEMMA SweptNext == Control /\ Swept /\ [Next]_vars => Swept'
<1> SUFFICES ASSUME Control, Swept, [Next]_vars,
                    NEW w \in Writes, NEW k \in Keys, Passed(w, k)', cache'[k] # None
             PROVE  Shows(cache[k], w)'
  BY DEF Swept
<1>1. ASSUME cache'[k] = cache[k], last'[w] = last[w], Passed(w, k)
      PROVE  Shows(cache[k], w)'
  BY <1>1 DEF Swept, Shows
<1>2. ASSUME NEW r \in Lists, (\E j \in Keys : ListProfiles(r, j)) \/ Hit(r) \/ Miss(r)
      PROVE  Shows(cache[k], w)'
  BY <1>1, <1>2 DEF ListProfiles, Hit, Miss, Passed, writeVars, invVars
<1>3. ASSUME NEW r \in Lists, CountRows(r) \/ FetchPage(r) \/ QueryFails(r)
      PROVE  Shows(cache[k], w)'
  BY <1>1, <1>3 DEF CountRows, FetchPage, QueryFails, Passed, writeVars, invVars
<1>4. ASSUME NEW r \in Lists, Put(r) PROVE Shows(cache[k], w)'
  <2>1. UNCHANGED <<last, ipc, todo, page>>
    BY <1>4 DEF Put, writeVars, invVars
  <2>2. ipc[w] \notin {"idle", "spawned"} /\ Passed(w, k)
    BY <2>1 DEF Passed
  <2>3. CASE cache'[k] = cache[k]
    BY <1>1, <2>1, <2>2, <2>3
  <2>4. CASE cache'[k] # cache[k]
    <3>1. cache'[k].after = {x \in Writes : ipc[x] \notin {"idle", "spawned"}}
      BY <1>4, <2>4 DEF Put, Control, TypeOK
    <3> QED
      BY <2>2, <3>1 DEF Shows
  <2> QED
    BY <2>3, <2>4
<1>5. ASSUME NEW x \in Writes, Commit(x) PROVE Shows(cache[k], w)'
  <2>1. Passed(w, k) /\ ipc[w] # "idle" /\ UNCHANGED cache
    BY <1>5 DEF Commit, Passed, invVars
  <2>2. w # x
    BY <1>5, <2>1 DEF Commit, Control, WriteFits
  <2>3. last'[w] = last[w]
    BY <1>5, <2>2 DEF Commit, Control, TypeOK
  <2> QED
    BY <1>1, <2>1, <2>3
<1>6. ASSUME NEW x \in Writes, WriteFails(x) PROVE Shows(cache[k], w)'
  BY <1>1, <1>6 DEF WriteFails, Passed, invVars
<1>7. ASSUME NEW x \in Writes, Answer(x) \/ Finish(x) \/ Abandon(x)
      PROVE  Shows(cache[k], w)'
  <2>1. UNCHANGED <<cache, last>>
    BY <1>7 DEF Answer, Finish, Abandon, writeVars
  <2>2. Passed(w, k)
    BY <1>7 DEF Answer, Finish, Abandon, Passed, Control, TypeOK, ScanFits
  <2> QED
    BY <1>1, <2>1, <2>2
<1>8. ASSUME NEW x \in Writes, Scan(x) PROVE Shows(cache[k], w)'
  <2>1. UNCHANGED <<cache, last>>
    BY <1>8 DEF Scan, writeVars
  <2>2. CASE w # x
    <3>1. ipc'[w] = ipc[w] /\ todo'[w] = todo[w] /\ page'[w] = page[w]
      BY <1>8, <2>2 DEF Scan, Control, TypeOK
    <3> QED
      BY <1>1, <2>1, <3>1 DEF Passed
  <2>3. CASE w = x
    <3>1. PICK P \in SUBSET ScanFrom(w) :
            /\ todo' = [todo EXCEPT ![w] = ScanFrom(w) \ P]
            /\ page' = [page EXCEPT ![w] = {j \in P : cache[j] # None}]
      BY <1>8, <2>3 DEF Scan
    <3>2. k \notin ScanFrom(w) \ P /\ k \notin {j \in P : cache[j] # None}
      BY <3>1 DEF Passed, Control, TypeOK
    <3>3. k \notin ScanFrom(w)
      BY <2>1, <3>2
    <3>4. ipc[w] = "next" /\ k \notin todo[w]
      BY <1>8, <2>3, <3>3 DEF Scan, ScanFrom
    <3>5. Passed(w, k)
      BY <3>4 DEF Passed, Control, ScanFits
    <3> QED
      BY <1>1, <2>1, <3>5
  <2> QED
    BY <2>2, <2>3
<1>9. ASSUME NEW x \in Writes, Del(x) PROVE Shows(cache[k], w)'
  <2>1. /\ ipc[x] = "del" /\ ipc' = [ipc EXCEPT ![x] = "next"]
        /\ cache' = [j \in Keys |-> IF j \in page[x] THEN None ELSE cache[j]]
        /\ page' = [page EXCEPT ![x] = {}]
        /\ UNCHANGED <<todo, last>>
    BY <1>9 DEF Del, writeVars
  <2>2. k \notin page[x] /\ cache'[k] = cache[k]
    BY <2>1
  <2>3. Passed(w, k)
    BY <2>1, <2>2 DEF Passed, Control, TypeOK
  <2> QED
    BY <1>1, <2>1, <2>2, <2>3
<1>10. ASSUME NEW j \in Keys, Expire(j) PROVE Shows(cache[k], w)'
  <2>1. cache'[k] = cache[k] /\ UNCHANGED <<last, ipc, todo, page>>
    BY <1>10 DEF Expire, Control, TypeOK, writeVars, invVars
  <2> QED
    BY <1>1, <2>1 DEF Passed
<1>11. ASSUME UNCHANGED vars PROVE Shows(cache[k], w)'
  BY <1>1, <1>11 DEF vars, Passed, writeVars, invVars
<1> QED
  BY <1>2, <1>3, <1>4, <1>5, <1>6, <1>7, <1>8, <1>9, <1>10, <1>11, NextCases

-----------------------------------------------------------------------------
(* Reads is inductive.                                                     *)

\* A request that began after an invalidation had finished either queries the
\* table, which has the write, or hits an entry that Swept speaks about.
LEMMA ReadsNext == Control /\ Swept /\ Reads /\ [Next]_vars => Reads'
<1> SUFFICES ASSUME Control, Swept, Reads, [Next]_vars PROVE Reads'
  OBVIOUS
<1> DEFINE Seen(r) == /\ lpc[r] = "query" =>
                           \A w \in clean[r] :
                             /\ rows[r] # None => rows[r] >= last[w]
                             /\ total[r] # None => total[r] >= last[w]
                      /\ Answered(r) =>
                           \A w \in clean[r] :
                             w \in late[r] \/ (rows[r] >= last[w] /\ total[r] >= last[w])
<1>1. /\ \A r \in Lists : Seen(r)
      /\ (\A r \in Lists : Seen(r)') => Reads'
  BY DEF Reads, QueriesSee, StaleOnlyByOverlap
<1>2. \A r \in Lists : clean[r] \subseteq Writes
  BY DEF Control, TypeOK
<1>3. ASSUME NEW r \in Lists, NEW k \in Keys, ListProfiles(r, k) PROVE Reads'
  <2>1. /\ lpc' = [lpc EXCEPT ![r] = "get"]
        /\ \A q \in Lists \ {r} : clean'[q] = clean[q]
        /\ UNCHANGED <<rows, total, late, last>>
    BY <1>3 DEF ListProfiles, writeVars, Control, TypeOK
  <2> QED
    BY <1>1, <2>1 DEF Answered, Control, TypeOK
<1>4. ASSUME NEW r \in Lists, Hit(r) PROVE Reads'
  <2> DEFINE e == cache[key[r]]
  <2>1. /\ lpc[r] = "get" /\ e # None
        /\ total' = [total EXCEPT ![r] = e.total]
        /\ rows' = [rows EXCEPT ![r] = e.rows]
        /\ late' = [late EXCEPT ![r] = e.after]
        /\ lpc' = [lpc EXCEPT ![r] = "hit"]
        /\ UNCHANGED <<clean, last>>
    BY <1>4 DEF Hit, writeVars
  <2>2. key[r] \in Keys
    BY <2>1 DEF Control, ListFits
  <2>3. ASSUME NEW w \in clean[r] PROVE Shows(e, w)
    <3>1. Passed(w, key[r])
      BY <1>2, <2>3 DEF Passed, Control, ListFits, ScanFits
    <3> QED
      BY <1>2, <2>1, <2>2, <3>1 DEF Swept
  <2> HIDE DEF e
  <2>4. Seen(r)'
    BY <2>1, <2>3 DEF Shows, Control, TypeOK
  <2>5. \A q \in Lists \ {r} : Seen(q)'
    BY <1>1, <2>1 DEF Answered, Control, TypeOK
  <2> QED
    BY <1>1, <2>4, <2>5
<1>5. ASSUME NEW r \in Lists, Miss(r) PROVE Reads'
  <2>1. /\ lpc' = [lpc EXCEPT ![r] = "query"]
        /\ total[r] = None /\ rows[r] = None
        /\ UNCHANGED <<total, rows, late, clean, last>>
    BY <1>5 DEF Miss, writeVars, Control, ListFits
  <2> QED
    BY <1>1, <2>1 DEF Answered, Control, TypeOK
<1>6. ASSUME NEW r \in Lists, CountRows(r) \/ FetchPage(r) PROVE Reads'
  <2>1. /\ lpc[r] = "query" /\ UNCHANGED <<lpc, late, clean, last>>
        /\ \/ total' = [total EXCEPT ![r] = version] /\ rows' = rows
           \/ rows' = [rows EXCEPT ![r] = version] /\ total' = total
    BY <1>6 DEF CountRows, FetchPage, writeVars
  <2>2. \A w \in clean[r] : version >= last[w]
    BY <1>2 DEF Control, TypeOK, WriteFits
  <2> QED
    BY <1>1, <2>1, <2>2 DEF Answered, Control, TypeOK
<1>7. ASSUME NEW r \in Lists, QueryFails(r) \/ Put(r) PROVE Reads'
  <2>1. /\ lpc[r] = "query"
        /\ \/ lpc' = [lpc EXCEPT ![r] = "failed"]
           \/ lpc' = [lpc EXCEPT ![r] = "miss"] /\ total[r] # None /\ rows[r] # None
        /\ UNCHANGED <<total, rows, late, clean, last>>
    BY <1>7 DEF QueryFails, Put, Joined, writeVars
  <2> QED
    BY <1>1, <2>1 DEF Answered, Control, TypeOK
<1>8. ASSUME NEW w \in Writes, Commit(w) PROVE Reads'
  <2>1. UNCHANGED listVars
    BY <1>8 DEF Commit
  <2>2. \A r \in Lists : \A x \in clean[r] : last'[x] = last[x]
    BY <1>2, <1>8 DEF Commit, Control, TypeOK, WriteFits, ListFits
  <2> QED
    BY <1>1, <2>1, <2>2 DEF Answered, listVars
<1>9. ASSUME UNCHANGED <<listVars, last>> PROVE Reads'
  BY <1>1, <1>9 DEF Answered, listVars
<1>10. ASSUME NEW w \in Writes,
              WriteFails(w) \/ Answer(w) \/ Scan(w) \/ Del(w) \/ Finish(w) \/ Abandon(w)
       PROVE  Reads'
  BY <1>9, <1>10 DEF WriteFails, Answer, Scan, Del, Finish, Abandon, writeVars
<1>11. ASSUME UNCHANGED vars \/ \E k \in Keys : Expire(k) PROVE Reads'
  BY <1>9, <1>11 DEF Expire, vars, writeVars
<1> QED
  BY <1>3, <1>4, <1>5, <1>6, <1>7, <1>8, <1>10, <1>11, NextCases

-----------------------------------------------------------------------------
(* The theorems.                                                           *)

\* Each part of IInv is kept by every step.
LEMMA NextIInv == IInv /\ [Next]_vars => IInv'
  BY ControlNext, SweptNext, ReadsNext DEF IInv

\* What the theorems below project from.
LEMMA Invariance == Spec => []IInv
  BY InitIInv, NextIInv, PTL DEF Spec

\* The cache and the list requests always have their types: no list is cached
\* or answered before both of its queries have succeeded.
THEOREM TypeCorrect == Spec => []TypeOK
<1>1. IInv => TypeOK
  BY DEF IInv, Control
<1> QED
  BY <1>1, Invariance, PTL

\* A list asked for once a write's invalidation has finished shows the write,
\* or was put in the cache after that invalidation had begun its SCAN.
THEOREM FreshAfterInvalidation == Spec => []StaleOnlyByOverlap
<1>1. IInv => StaleOnlyByOverlap
  BY DEF IInv, Reads
<1> QED
  BY <1>1, Invariance, PTL
=============================================================================
