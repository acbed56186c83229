----------------------------- MODULE ImportCSV -----------------------------
(***************************************************************************)
(* POST /api/profiles/import.  Each upload runs a pipeline of goroutines:  *)
(* a reader that parses the file into the bounded channel rowCh, the       *)
(* handler's loop that validates rows and cuts them into batches, and one  *)
(* worker per batch that inserts it.  All uploads of a process share one   *)
(* semaphore, which bounds the workers, and one table of profiles.         *)
(*                                                                         *)
(* A row of a file is the person it names, or what is wrong with it:       *)
(* Malformed for encoding/csv, Invalid for ValidateProfileImportRow.  A    *)
(* profile is a person and how the name is spelled: an import lower-cases  *)
(* names, the seed file capitalises them, and the UNIQUE constraint of the *)
(* table compares spellings.                                               *)
(***************************************************************************)
EXTENDS Integers, Sequences, FiniteSets

CONSTANTS Uploads,    \* the POST requests
          Names,      \* people
          Malformed,  \* a row encoding/csv cannot parse
          Invalid,    \* a row that fails validation
          Files,      \* the files uploaded: sequences of rows
          Seeded,     \* people whose profile the seed file created
          Touched,    \* people whose profiles other requests create or delete
          ChunkSize,  \* chunkSize, 1000 in the code
          SubBatch,   \* subBatchSize, 100 in the code
          Workers     \* importWorkerCount()

ASSUME ImportAssumption ==
  /\ Malformed \notin Names /\ Invalid \notin Names /\ Malformed # Invalid
  /\ \A f \in Files : f \in Seq(Names \cup {Malformed, Invalid})
  /\ Touched \subseteq Names /\ Seeded \subseteq Names
  /\ ChunkSize \in Nat \ {0} /\ SubBatch \in Nat \ {0}
  /\ Workers \in 1..16

Profiles == Names \X {"lower", "seeded"}

Imported(S) == {<<n, "lower">> : n \in S}

Reasons == {"malformed_csv", "invalid_row", "duplicate_name", "batch_error"}

\* A batch in a worker's hands, and what its statements have come to so far.
Job == [rows : Seq(Names), pc : {"copy", "sub", "account", "done"},
        next : Nat, inserted : Nat, dups : Nat, err : BOOLEAN]

VARIABLES table,     \* the profiles table: person and spelling
          everIn,    \* (history) every profile that ever was in it
          sem,       \* tokens in importSem
          file,      \* the file of an upload
          pos,       \* rows its reader has read
          rowCh,     \* the channel between reader and handler
          closed,    \* the reader has closed it
          hpc,       \* where the handler stands
          batch,     \* the batch being filled
          jobs,      \* the batches handed to workers, in order
          wg,        \* the WaitGroup's counter
          stats,     \* ImportStats
          landed,    \* (history) rows of the upload that reached the table
          unsure     \* (history) a commit of the upload lost its answer

readerVars == <<pos, rowCh, closed>>
handlerVars == <<file, hpc, batch>>
tableVars == <<table, everIn, landed, unsure>>
vars == <<tableVars, sem, readerVars, handlerVars, jobs, wg, stats>>

NoStats == [TotalRows |-> 0, Inserted |-> 0, Skipped |-> 0,
            Reasons |-> [x \in Reasons |-> 0]]

\* total rows, inserted rows, and skipped rows for one reason, added at once
Add(u, total, inserted, skipped, reason) ==
  LET s == stats[u] IN
  stats' = [stats EXCEPT ![u] = [TotalRows |-> s.TotalRows + total,
                                 Inserted  |-> s.Inserted + inserted,
                                 Skipped   |-> s.Skipped + skipped,
                                 Reasons   |-> [s.Reasons EXCEPT ![reason] = @ + skipped]]]

Init == /\ table = {<<n, "seeded">> : n \in Seeded}
        /\ everIn = table
        /\ sem = 0
        /\ file \in [Uploads -> Files]
        /\ pos = [u \in Uploads |-> 0]
        /\ rowCh = [u \in Uploads |-> <<>>]
        /\ closed = [u \in Uploads |-> FALSE]
        /\ hpc = [u \in Uploads |-> "idle"]
        /\ batch = [u \in Uploads |-> <<>>]
        /\ jobs = [u \in Uploads |-> <<>>]
        /\ wg = [u \in Uploads |-> 0]
        /\ stats = [u \in Uploads |-> NoStats]
        /\ landed = [u \in Uploads |-> 0]
        /\ unsure = [u \in Uploads |-> FALSE]

-----------------------------------------------------------------------------
(* The handler begins: the form and the header are read before anything    *)
(* else starts; the answer is given at once, or the pipeline is set up.    *)

Begin(u) ==
  /\ hpc[u] = "idle"
  /\ \E p \in {"rejected", "receive"} : hpc' = [hpc EXCEPT ![u] = p]
  /\ UNCHANGED <<tableVars, sem, readerVars, file, batch, jobs, wg, stats>>

-----------------------------------------------------------------------------
(* The reader goroutine.                                                   *)

Reading(u) == hpc[u] \notin {"idle", "rejected"} /\ ~closed[u]

\* A record that does not parse is counted here and not sent.
ReadMalformed(u) ==
  /\ Reading(u)
  /\ pos[u] < Len(file[u])
  /\ file[u][pos[u] + 1] = Malformed
  /\ pos' = [pos EXCEPT ![u] = @ + 1]
  /\ Add(u, 1, 0, 1, "malformed_csv")
  /\ UNCHANGED <<tableVars, sem, rowCh, closed, handlerVars, jobs, wg>>

\* Any other is sent; the channel has room for two batches.
ReadRow(u) ==
  /\ Reading(u)
  /\ pos[u] < Len(file[u])
  /\ file[u][pos[u] + 1] # Malformed
  /\ Len(rowCh[u]) < 2 * ChunkSize
  /\ pos' = [pos EXCEPT ![u] = @ + 1]
  /\ rowCh' = [rowCh EXCEPT ![u] = Append(@, file[u][pos[u] + 1])]
  /\ UNCHANGED <<tableVars, sem, closed, handlerVars, jobs, wg, stats>>

ReadEOF(u) ==
  /\ Reading(u)
  /\ pos[u] = Len(file[u])
  /\ closed' = [closed EXCEPT ![u] = TRUE]
  /\ UNCHANGED <<tableVars, sem, pos, rowCh, handlerVars, jobs, wg, stats>>

-----------------------------------------------------------------------------
(* The handler's loop.                                                     *)

\* for raw := range rowCh, a row that fails validation
ReceiveInvalid(u) ==
  /\ hpc[u] = "receive"
  /\ rowCh[u] # <<>> /\ Head(rowCh[u]) = Invalid
  /\ rowCh' = [rowCh EXCEPT ![u] = Tail(@)]
  /\ Add(u, 1, 0, 1, "invalid_row")
  /\ UNCHANGED <<tableVars, sem, pos, closed, handlerVars, jobs, wg>>

\* ... and one that is appended to the batch, which may be full now
ReceiveRow(u) ==
  /\ hpc[u] = "receive"
  /\ rowCh[u] # <<>> /\ Head(rowCh[u]) \in Names
  /\ rowCh' = [rowCh EXCEPT ![u] = Tail(@)]
  /\ batch' = [batch EXCEPT ![u] = Append(@, Head(rowCh[u]))]
  /\ hpc' = [hpc EXCEPT ![u] = IF Len(batch[u]) + 1 >= ChunkSize THEN "full" ELSE "receive"]
  /\ stats' = [stats EXCEPT ![u].TotalRows = @ + 1]
  /\ UNCHANGED <<tableVars, sem, pos, closed, file, jobs, wg>>

\* The channel is drained and closed.
EndOfRows(u) ==
  /\ hpc[u] = "receive"
  /\ rowCh[u] = <<>> /\ closed[u]
  /\ hpc' = [hpc EXCEPT ![u] = IF batch[u] = <<>> THEN "wait" ELSE "last"]
  /\ UNCHANGED <<tableVars, sem, readerVars, file, batch, jobs, wg, stats>>

\* The workers of u that have not returned.
Active(u) == {k \in DOMAIN jobs[u] : jobs[u][k].pc # "done"}

\* Mutant of SlotFree: each upload counts its own workers only.
SlotFreeForUpload(u) == Cardinality(Active(u)) < Workers

\* The global semaphore has room.
SlotFree(u) == sem < Workers

\* sem <- struct{}{}; wg.Add(1); go insertBatch(toInsert)
Spawn(u) ==
  /\ hpc[u] \in {"full", "last"}
  /\ SlotFree(u)
  /\ sem' = sem + 1
  /\ wg' = [wg EXCEPT ![u] = @ + 1]
  /\ jobs' = [jobs EXCEPT ![u] = Append(@, [rows |-> batch[u], pc |-> "copy", next |-> 1,
                                            inserted |-> 0, dups |-> 0, err |-> FALSE])]
  /\ batch' = [batch EXCEPT ![u] = <<>>]
  /\ hpc' = [hpc EXCEPT ![u] = IF hpc[u] = "last" THEN "wait" ELSE "receive"]
  /\ UNCHANGED <<tableVars, readerVars, file, stats>>

\* wg.Wait() returns.
AllDone(u) == wg[u] = 0

\* The cache is invalidated in a goroutine of its own, and the stats are sent.
Respond(u) ==
  /\ hpc[u] = "wait"
  /\ AllDone(u)
  /\ hpc' = [hpc EXCEPT ![u] = "done"]
  /\ UNCHANGED <<tableVars, sem, readerVars, file, batch, jobs, wg, stats>>

-----------------------------------------------------------------------------
(* A worker: BatchInsert, then the accounting.                             *)

\* The k-th worker of u has statement result r: rows added, duplicates, error.
Result(u, k, ins, dup, err, next, p) ==
  LET j == jobs[u][k] IN
  jobs' = [jobs EXCEPT ![u] = [@ EXCEPT ![k] =
             [rows |-> j.rows, pc |-> p, next |-> next,
              inserted |-> j.inserted + ins, dups |-> j.dups + dup, err |-> j.err \/ err]]]

\* The statement commits the profiles of S.
Land(u, S, lost) ==
  /\ table' = table \cup Imported(S)
  /\ everIn' = everIn \cup Imported(S)
  /\ landed' = [landed EXCEPT ![u] = @ + Cardinality(S)]
  /\ unsure' = [unsure EXCEPT ![u] = @ \/ lost]

RowSet(rows) == {rows[i] : i \in DOMAIN rows}

\* COPY meets a name twice, in the table or within the batch.
Conflict(rows) == \/ Imported(RowSet(rows)) \cap table # {}
                  \/ Cardinality(RowSet(rows)) # Len(rows)

\* CopyFrom inserts all rows ...
CopyAll(u, k) ==
  LET rows == jobs[u][k].rows IN
  /\ jobs[u][k].pc = "copy"
  /\ ~Conflict(rows)
  /\ \E lost \in BOOLEAN :
       /\ Land(u, RowSet(rows), lost)
       /\ Result(u, k, IF lost THEN 0 ELSE Len(rows), 0, lost, 1, "account")
  /\ UNCHANGED <<sem, readerVars, handlerVars, wg, stats>>

\* ... or none, because a name is taken: the batch is retried in pieces
CopyConflict(u, k) ==
  /\ jobs[u][k].pc = "copy"
  /\ Conflict(jobs[u][k].rows)
  /\ Result(u, k, 0, 0, FALSE, 1, "sub")
  /\ UNCHANGED <<tableVars, sem, readerVars, handlerVars, wg, stats>>

\* Mutant of CopyFails: the number of rows is returned with the error.
CopyFailsCounting(u, k) ==
  /\ jobs[u][k].pc = "copy"
  /\ Result(u, k, Len(jobs[u][k].rows), 0, TRUE, 1, "account")
  /\ UNCHANGED <<tableVars, sem, readerVars, handlerVars, wg, stats>>

\* ... or none, because of another error (a lost connection, a deadlock
\* between workers, the client's context cancelled): no retry.
CopyFails(u, k) ==
  /\ jobs[u][k].pc = "copy"
  /\ Result(u, k, 0, 0, TRUE, 1, "account")
  /\ UNCHANGED <<tableVars, sem, readerVars, handlerVars, wg, stats>>

\* Mutant of PieceEnd: the last piece ends one row early.
PieceEndEarly(rows, i) == IF i + SubBatch > Len(rows) THEN Len(rows) - 1 ELSE i + SubBatch - 1

\* end := min(i + subBatchSize, len(rows))
PieceEnd(rows, i) == IF i + SubBatch - 1 > Len(rows) THEN Len(rows) ELSE i + SubBatch - 1

\* insertSubBatch: INSERT ... ON CONFLICT (name) DO NOTHING, whose command tag
\* tells the rows added.  A piece that fails does not stop the next ones.
InsertPiece(u, k) ==
  LET rows  == jobs[u][k].rows
      i     == jobs[u][k].next
      piece == SubSeq(rows, i, PieceEnd(rows, i))
      new   == {n \in RowSet(piece) : <<n, "lower">> \notin table}
      p     == IF i + SubBatch > Len(rows) THEN "account" ELSE "sub"
  IN
  /\ jobs[u][k].pc = "sub"
  /\ \/ /\ Land(u, new, FALSE)
        /\ Result(u, k, Cardinality(new), Len(piece) - Cardinality(new), FALSE, i + SubBatch, p)
     \/ /\ Land(u, new, TRUE)
        /\ Result(u, k, 0, 0, TRUE, i + SubBatch, p)
     \/ /\ UNCHANGED tableVars
        /\ Result(u, k, 0, 0, TRUE, i + SubBatch, p)
  /\ UNCHANGED <<sem, readerVars, handlerVars, wg, stats>>

\* Mutant of Failed: duplicates are counted as failed rows as well.
FailedWithDups(j) == IF j.err THEN Len(j.rows) - j.inserted ELSE 0

\* failed := len(rows) - inserted - dupCount, when there was an error
Failed(j) == IF j.err THEN Len(j.rows) - j.inserted - j.dups ELSE 0

\* Mutant of ReleaseSlot: a worker whose batch failed keeps its slot.
ReleaseSlotUnlessFailed(u, k) == sem' = IF jobs[u][k].err THEN sem ELSE sem - 1

ReleaseSlot(u, k) == sem' = sem - 1

\* A worker that has returned; its locals are gone.
Returned == [rows |-> <<>>, pc |-> "done", next |-> 1,
             inserted |-> 0, dups |-> 0, err |-> FALSE]

\* The counters are updated one atomic addition after the other; nothing reads
\* them before the deferred calls, <-sem and wg.Done(), let the handler go on.
Account(u, k) ==
  LET j == jobs[u][k]
      s == stats[u] IN
  /\ j.pc = "account"
  /\ stats' = [stats EXCEPT ![u] =
                 [TotalRows |-> s.TotalRows,
                  Inserted  |-> s.Inserted + j.inserted,
                  Skipped   |-> s.Skipped + j.dups + Failed(j),
                  Reasons   |-> [s.Reasons EXCEPT !["duplicate_name"] = @ + j.dups,
                                                  !["batch_error"] = @ + Failed(j)]]]
  /\ ReleaseSlot(u, k)
  /\ wg' = [wg EXCEPT ![u] = @ - 1]
  /\ jobs' = [jobs EXCEPT ![u] = [@ EXCEPT ![k] = Returned]]
  /\ UNCHANGED <<tableVars, readerVars, handlerVars>>

-----------------------------------------------------------------------------
(* Other requests on the same table.                                       *)

\* POST /api/profiles adds a profile under a lower-case name: GetByName found no
\* profile of that person in any case, and the INSERT no equal name.  Between
\* the two only lower-case names appear, so the INSERT's moment stands for both.
CreateProfile(n) ==
  /\ n \in Touched /\ \A x \in table : x[1] # n
  /\ table' = table \cup Imported({n})
  /\ everIn' = everIn \cup Imported({n})
  /\ UNCHANGED <<landed, unsure, sem, readerVars, handlerVars, jobs, wg, stats>>

\* DELETE /api/profiles/{id}
DeleteProfile(x) ==
  /\ x \in table /\ x[1] \in Touched
  /\ table' = table \ {x}
  /\ UNCHANGED <<everIn, landed, unsure, sem, readerVars, handlerVars, jobs, wg, stats>>

Reader(u) == ReadMalformed(u) \/ ReadRow(u) \/ ReadEOF(u)

Handler(u) == ReceiveInvalid(u) \/ ReceiveRow(u) \/ EndOfRows(u) \/ Spawn(u) \/ Respond(u)

Worker(u, k) == \/ CopyAll(u, k) \/ CopyConflict(u, k) \/ CopyFails(u, k)
                \/ InsertPiece(u, k)
                \/ Account(u, k)

Next == \/ \E u \in Uploads : \/ Begin(u) \/ Reader(u) \/ Handler(u)
                              \/ \E k \in DOMAIN jobs[u] : Worker(u, k)
        \/ \E n \in Names : CreateProfile(n)
        \/ \E x \in Profiles : DeleteProfile(x)

Spec == Init /\ [][Next]_vars

\* Go schedules every goroutine, and every statement ends with a result.
FairSpec ==
  Spec /\ \A u \in Uploads : /\ WF_vars(Reader(u))
                             /\ WF_vars(Handler(u))
                             /\ WF_vars(\E k \in DOMAIN jobs[u] : Worker(u, k))

-----------------------------------------------------------------------------
(* Properties.                                                             *)

Good(u) == {file[u][i] : i \in DOMAIN file[u]} \cap Names

\* Every variable has its type, and the two buffered channels, rowCh and the
\* semaphore, hold no more than they were made for.
TypeOK == /\ table \in SUBSET Profiles /\ everIn \in SUBSET Profiles
          /\ sem \in 0..Workers
          /\ file \in [Uploads -> Files]
          /\ pos \in [Uploads -> Nat]
          /\ rowCh \in [Uploads -> Seq(Names \cup {Invalid})]
          /\ \A u \in Uploads : Len(rowCh[u]) <= 2 * ChunkSize
          /\ closed \in [Uploads -> BOOLEAN]
          /\ hpc \in [Uploads -> {"idle", "rejected", "receive", "full", "last", "wait", "done"}]
          /\ batch \in [Uploads -> Seq(Names)]
          /\ \A u \in Uploads : Len(batch[u]) <= ChunkSize
          /\ jobs \in [Uploads -> Seq(Job)]
          /\ wg \in [Uploads -> Nat]
          /\ stats \in [Uploads -> [TotalRows : Nat, Inserted : Nat, Skipped : Nat,
                                    Reasons : [Reasons -> Nat]]]
          /\ landed \in [Uploads -> Nat]
          /\ unsure \in [Uploads -> BOOLEAN]

\* What the client is told adds up, however workers of several uploads
\* interleave and whatever fails: every row of the file is counted once, as
\* inserted or as skipped, and every skipped row has one reason.
ResponseAddsUp ==
  \A u \in Uploads : hpc[u] = "done" =>
    LET s == stats[u] IN
    /\ s.TotalRows = Len(file[u])
    /\ s.TotalRows = s.Inserted + s.Skipped
    /\ s.Skipped = s.Reasons["malformed_csv"] + s.Reasons["invalid_row"]
                     + s.Reasons["duplicate_name"] + s.Reasons["batch_error"]

\* A row is reported as inserted only if this upload put it in the table, and
\* every row it put there is reported unless the answer to a commit was lost.
InsertedAreReal ==
  \A u \in Uploads : hpc[u] = "done" =>
    /\ stats[u].Inserted <= landed[u]
    /\ ~unsure[u] => stats[u].Inserted = landed[u]

\* No person is dropped in silence: when no batch_error is reported, everybody
\* the file names in a valid row has been in the table.
NothingDropped ==
  \A u \in Uploads :
    (hpc[u] = "done" /\ stats[u].Reasons["batch_error"] = 0)
      => Imported(Good(u)) \subseteq everIn

Running == UNION {{u} \X Active(u) : u \in Uploads}

\* All uploads together never have more workers than importSem has room for.
WorkersBounded == Cardinality(Running) <= Workers

\* Every upload is answered: reader, handler and workers of the uploads never
\* wait for each other in a circle, with the channel or the semaphore full.
UploadAnswered ==
  \A u \in Uploads : (hpc[u] = "receive") ~> (hpc[u] = "done")

\* What SOLUTION.md:76 says: an upload of people who have a profile, all of
\* them and all the time, inserts nothing.
AllDuplicatesInsertNothing ==
  \A u \in Uploads :
    (hpc[u] = "done" /\ Good(u) \subseteq Seeded \ Touched) => stats[u].Inserted = 0
=============================================================================
