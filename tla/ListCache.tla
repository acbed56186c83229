----------------------------- MODULE ListCache -----------------------------
(***************************************************************************)
(* The cache of profile lists.  GET /api/profiles and its search look in   *)
(* Redis, else query PostgreSQL and put the result in Redis for a minute.  *)
(* POST, DELETE and import change the table and then, in a goroutine of    *)
(* their own, delete every "profiles:*" key.  Redis may fail at any time   *)
(* and is then left alone.                                                 *)
(*                                                                         *)
(* What the table holds is named by the number of commits so far, its      *)
(* version: the result of a query is the version it saw.  COUNT and the    *)
(* page of rows are two queries, run concurrently.                         *)
(***************************************************************************)
EXTENDS Integers

CONSTANTS Lists,       \* GET requests
          Writes,      \* POST, DELETE and import requests
          Keys,        \* cache keys
          MaxVersion,  \* bound on the commits of a behaviour
          None         \* no entry, no result yet

ASSUME ListCacheAssumption == MaxVersion \in Nat /\ None \notin Nat \cup Keys

VARIABLES version,    \* commits so far
          cache,      \* Redis: key -> entry
          lpc,        \* where each list request stands
          key,        \* its cache key
          total,      \* its COUNT, or the cached one
          rows,       \* its page of rows, or the cached one
          late,       \* (history) for a hit, the entry's "after"
          clean,      \* (history) writes invalidated when it began
          wpc,        \* where each write stands
          last,       \* the version of its last commit
          ipc,        \* where its invalidation stands
          todo,       \* keys its SCAN has not passed yet
          page        \* keys the SCAN has returned and DEL has not deleted

listVars == <<lpc, key, total, rows, late, clean>>
writeVars == <<wpc, last>>
invVars == <<ipc, todo, page>>
vars == <<version, cache, listVars, writeVars, invVars>>

\* A cached list, and (history) the writes whose SCAN had begun when it was put.
Entry == [rows : 0..MaxVersion, total : 0..MaxVersion, after : SUBSET Writes]

Init == /\ version = 0
        /\ cache = [k \in Keys |-> None]
        /\ lpc = [r \in Lists |-> "idle"]
        /\ key = [r \in Lists |-> None]
        /\ total = [r \in Lists |-> None]
        /\ rows = [r \in Lists |-> None]
        /\ late = [r \in Lists |-> {}]
        /\ clean = [r \in Lists |-> {}]
        /\ wpc = [w \in Writes |-> "idle"]
        /\ last = [w \in Writes |-> 0]
        /\ ipc = [w \in Writes |-> "idle"]
        /\ todo = [w \in Writes |-> {}]
        /\ page = [w \in Writes |-> {}]

-----------------------------------------------------------------------------
(* ListProfiles.                                                           *)

ListProfiles(r, k) ==
  /\ lpc[r] = "idle"
  /\ lpc' = [lpc EXCEPT ![r] = "get"]
  /\ key' = [key EXCEPT ![r] = k]
  /\ clean' = [clean EXCEPT ![r] = {w \in Writes : ipc[w] = "finished"}]
  /\ UNCHANGED <<version, cache, total, rows, late, writeVars, invVars>>

\* A hit is answered as it is.
Hit(r) ==
  LET cached == cache[key[r]] IN
  /\ lpc[r] = "get"
  /\ cached # None
  /\ total' = [total EXCEPT ![r] = cached.total]
  /\ rows' = [rows EXCEPT ![r] = cached.rows]
  /\ late' = [late EXCEPT ![r] = cached.after]
  /\ lpc' = [lpc EXCEPT ![r] = "hit"]
  /\ UNCHANGED <<version, cache, key, clean, writeVars, invVars>>

\* A miss, and any error of Redis, goes on to the database.
Miss(r) ==
  /\ lpc[r] = "get"
  /\ lpc' = [lpc EXCEPT ![r] = "query"]
  /\ UNCHANGED <<version, cache, key, total, rows, late, clean, writeVars, invVars>>

\* The two goroutines of List, each with a snapshot of its own.
CountRows(r) ==
  /\ lpc[r] = "query" /\ total[r] = None
  /\ total' = [total EXCEPT ![r] = version]
  /\ UNCHANGED <<version, cache, lpc, key, rows, late, clean, writeVars, invVars>>

FetchPage(r) ==
  /\ lpc[r] = "query" /\ rows[r] = None
  /\ rows' = [rows EXCEPT ![r] = version]
  /\ UNCHANGED <<version, cache, lpc, key, total, late, clean, writeVars, invVars>>

\* Either query fails: an error is neither cached nor answered as a list.
QueryFails(r) ==
  /\ lpc[r] = "query" /\ (total[r] = None \/ rows[r] = None)
  /\ lpc' = [lpc EXCEPT ![r] = "failed"]
  /\ UNCHANGED <<version, cache, key, total, rows, late, clean, writeVars, invVars>>

\* Mutant of Joined: the handler does not wait for the COUNT.
JoinedOnRows(r) == rows[r] # None

\* wg.Wait() has returned and neither query has failed.
Joined(r) == total[r] # None /\ rows[r] # None

\* cache.Set, which may fail unnoticed, and the answer.
Put(r) ==
  LET entry == [rows |-> rows[r], total |-> total[r],
                after |-> {w \in Writes : ipc[w] \notin {"idle", "spawned"}}]
  IN
  /\ lpc[r] = "query" /\ Joined(r)
  /\ \/ cache' = [cache EXCEPT ![key[r]] = entry]
     \/ UNCHANGED cache
  /\ lpc' = [lpc EXCEPT ![r] = "miss"]
  /\ UNCHANGED <<version, key, total, rows, late, clean, writeVars, invVars>>

-----------------------------------------------------------------------------
(* CreateProfile, DeleteProfile and ImportCSV.                             *)

\* A commit; an import has several.
Commit(w) ==
  /\ wpc[w] \in {"idle", "writing"}
  /\ version < MaxVersion
  /\ version' = version + 1
  /\ last' = [last EXCEPT ![w] = version + 1]
  /\ wpc' = [wpc EXCEPT ![w] = "writing"]
  /\ UNCHANGED <<cache, listVars, invVars>>

\* The answer to the commit is lost, which is a 500, or the process ends: there
\* is no invalidation.
WriteFails(w) ==
  /\ wpc[w] = "writing"
  /\ wpc' = [wpc EXCEPT ![w] = "failed"]
  /\ UNCHANGED <<version, cache, listVars, last, invVars>>

\* go InvalidateProfileCache(context.Background()), and the answer.
Answer(w) ==
  /\ wpc[w] = "writing"
  /\ wpc' = [wpc EXCEPT ![w] = "answered"]
  /\ ipc' = [ipc EXCEPT ![w] = "spawned"]
  /\ UNCHANGED <<version, cache, listVars, last, todo, page>>

-----------------------------------------------------------------------------
(* InvalidateProfileCache.                                                 *)

\* Mutant of ScanDone: the loop ends after one page.
ScanDoneAtOnce(w) == TRUE

\* cursor == 0
ScanDone(w) == todo[w] = {}

ScanFrom(w) == IF ipc[w] = "spawned" THEN Keys ELSE todo[w]

\* SCAN passes some of the keys it has not passed yet and returns those that
\* exist: a key that is there from its first call to its last is returned.
Scan(w) ==
  /\ ipc[w] = "spawned" \/ (ipc[w] = "next" /\ ~ScanDone(w))
  /\ \E P \in SUBSET ScanFrom(w) :
       /\ P # {}
       /\ todo' = [todo EXCEPT ![w] = ScanFrom(w) \ P]
       /\ page' = [page EXCEPT ![w] = {k \in P : cache[k] # None}]
  /\ ipc' = [ipc EXCEPT ![w] = "del"]
  /\ UNCHANGED <<version, cache, listVars, writeVars>>

Del(w) ==
  /\ ipc[w] = "del"
  /\ cache' = [k \in Keys |-> IF k \in page[w] THEN None ELSE cache[k]]
  /\ page' = [page EXCEPT ![w] = {}]
  /\ ipc' = [ipc EXCEPT ![w] = "next"]
  /\ UNCHANGED <<version, listVars, writeVars, todo>>

Finish(w) ==
  /\ ipc[w] = "next" /\ ScanDone(w)
  /\ ipc' = [ipc EXCEPT ![w] = "finished"]
  /\ UNCHANGED <<version, cache, listVars, writeVars, todo, page>>

\* SCAN fails and the goroutine returns, DEL fails and leaves keys behind, or
\* the process ends: this invalidation will not be complete.  (What it goes on
\* to delete after a DEL that failed, Expire may take away.)
Abandon(w) ==
  /\ ipc[w] \in {"spawned", "del", "next"}
  /\ ipc' = [ipc EXCEPT ![w] = "abandoned"]
  /\ todo' = [todo EXCEPT ![w] = {}]
  /\ page' = [page EXCEPT ![w] = {}]
  /\ UNCHANGED <<version, cache, listVars, writeVars>>

\* A minute passes, or Redis evicts the key.
Expire(k) ==
  /\ cache[k] # None
  /\ cache' = [cache EXCEPT ![k] = None]
  /\ UNCHANGED <<version, listVars, writeVars, invVars>>

List(r) == \/ \E k \in Keys : ListProfiles(r, k)
           \/ Hit(r) \/ Miss(r) \/ CountRows(r) \/ FetchPage(r) \/ QueryFails(r) \/ Put(r)

Write(w) == Commit(w) \/ WriteFails(w) \/ Answer(w)

InvalidateProfileCache(w) == Scan(w) \/ Del(w) \/ Finish(w) \/ Abandon(w)

Next == \/ \E r \in Lists : List(r)
        \/ \E w \in Writes : Write(w) \/ InvalidateProfileCache(w)
        \/ \E k \in Keys : Expire(k)

Spec == Init /\ [][Next]_vars

-----------------------------------------------------------------------------
(* Properties.                                                             *)

Answered(r) == lpc[r] \in {"hit", "miss"}

\* Every variable has its type; what is cached or answered is the result of
\* two queries that both succeeded.
TypeOK == /\ \A r \in Lists : Answered(r) => total[r] # None /\ rows[r] # None
          /\ version \in 0..MaxVersion
          /\ cache \in [Keys -> Entry \cup {None}]
          /\ lpc \in [Lists -> {"idle", "get", "query", "hit", "miss", "failed"}]
          /\ key \in [Lists -> Keys \cup {None}]
          /\ total \in [Lists -> 0..MaxVersion \cup {None}]
          /\ rows \in [Lists -> 0..MaxVersion \cup {None}]
          /\ late \in [Lists -> SUBSET Writes]
          /\ clean \in [Lists -> SUBSET Writes]
          /\ wpc \in [Writes -> {"idle", "writing", "failed", "answered"}]
          /\ last \in [Writes -> 0..MaxVersion]
          /\ ipc \in [Writes -> {"idle", "spawned", "del", "next", "finished", "abandoned"}]
          /\ todo \in [Writes -> SUBSET Keys]
          /\ page \in [Writes -> SUBSET Keys]

\* A list request that begins after the invalidation of a write has finished
\* is served that write, from the cache or not, unless the list was put in
\* the cache after that invalidation had started its SCAN: lists cached before
\* are gone, wherever SCAN was when other requests came and went.
StaleOnlyByOverlap ==
  \A r \in Lists : Answered(r) =>
    \A w \in clean[r] :
      w \in late[r] \/ (rows[r] >= last[w] /\ total[r] >= last[w])
=============================================================================
