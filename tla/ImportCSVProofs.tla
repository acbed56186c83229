-------------------------- MODULE ImportCSVProofs --------------------------
(***************************************************************************)
(* Proofs about ImportCSV, for any uploads, files, chunk sizes and number  *)
(* of workers: the types, the bound on the workers of all uploads, that no *)
(* person is dropped in silence, and that what the client is told adds up. *)
(*                                                                         *)
(* The semaphore and each WaitGroup count the workers that have not        *)
(* returned (Counted).  A row that was read is in the channel, in the      *)
(* batch, with such a worker, in the table, or a batch error was counted   *)
(* (Carried); a worker that ends without an error has put all its rows in  *)
(* the table, and one with an error has rows left to count as failed       *)
(* (WorkerFits).  The second invariant, SInv, counts rows: those a reader  *)
(* has read are in the channel, in the batch, in workers' hands or in the  *)
(* counters (Sums).                                                        *)
(***************************************************************************)
EXTENDS ImportCSV, FiniteSetTheorems, SequenceTheorems, TLAPS

Counted == /\ IsFiniteSet(Running) /\ Cardinality(Running) = sem
           /\ \A u \in Uploads : IsFiniteSet(Active(u)) /\ Cardinality(Active(u)) = wg[u]

Was(n) == <<n, "lower">> \in everIn

WorkerFits(j) ==
  /\ j.pc # "done" => j.rows # <<>>
  /\ j.pc = "copy" => j.inserted = 0 /\ j.dups = 0 /\ ~j.err
  /\ j.pc = "sub" => /\ j.next \in 1..Len(j.rows)
                     /\ j.inserted + j.dups <= j.next - 1
                     /\ j.err => j.inserted + j.dups < j.next - 1
                     /\ ~j.err => \A i \in 1..(j.next - 1) : Was(j.rows[i])
  /\ j.pc = "account" => /\ j.inserted + j.dups <= Len(j.rows)
                         /\ j.err => j.inserted + j.dups < Len(j.rows)
                         /\ ~j.err => \A i \in 1..Len(j.rows) : Was(j.rows[i])

HandlerFits(u) ==
  /\ pos[u] <= Len(file[u])
  /\ closed[u] => pos[u] = Len(file[u])
  /\ hpc[u] \in {"last", "wait", "done"} => closed[u] /\ rowCh[u] = <<>>
  /\ hpc[u] \in {"full", "last"} => batch[u] # <<>>
  /\ hpc[u] \in {"wait", "done"} => batch[u] = <<>>
  /\ hpc[u] \in {"idle", "receive"} => Len(batch[u]) < ChunkSize
  /\ hpc[u] = "done" => wg[u] = 0

Holds(s, n) == \E i \in 1..Len(s) : s[i] = n

Accounted(u, n) == \/ Was(n) \/ stats[u].Reasons["batch_error"] > 0
                   \/ Holds(rowCh[u], n) \/ Holds(batch[u], n)
                   \/ \E k \in Active(u) : Holds(jobs[u][k].rows, n)

Carried(u) == \A i \in 1..pos[u] : file[u][i] \in Names => Accounted(u, file[u][i])

WorkersFit == \A u \in Uploads : \A k \in DOMAIN jobs[u] : WorkerFits(jobs[u][k])

IInv == /\ TypeOK /\ Counted /\ WorkersFit /\ table \subseteq everIn
        /\ \A u \in Uploads : HandlerFits(u) /\ Carried(u)

-----------------------------------------------------------------------------
(* Sequences and counting.                                                 *)

\* A file has no rows but people, rows that do not parse and invalid ones.
LEMMA RowTypes ==
  ASSUME TypeOK, NEW u \in Uploads
  PROVE  /\ file[u] \in Seq(Names \cup {Malformed, Invalid})
         /\ Len(file[u]) \in Nat
         /\ \A i \in 1..Len(file[u]) : file[u][i] \in Names \cup {Malformed, Invalid}
<1>1. file[u] \in Seq(Names \cup {Malformed, Invalid})
  BY ImportAssumption DEF TypeOK
<1> QED
  BY <1>1, LenProperties, ElementOfSeq

\* The rows of a piece are no more than its length.
LEMMA RowSetBounded ==
  ASSUME NEW s \in Seq(Names)
  PROVE  IsFiniteSet(RowSet(s)) /\ Cardinality(RowSet(s)) \in Nat /\ Cardinality(RowSet(s)) <= Len(s)
<1>1. Len(s) \in Nat /\ DOMAIN s = 1..Len(s) /\ s \in [1..Len(s) -> Names]
  BY LenProperties
<1>2. RowSet(s) = {s[i] : i \in 1..Len(s)}
  BY <1>1 DEF RowSet
<1>3. s \in Surjection(1..Len(s), RowSet(s))
  BY <1>1, <1>2 DEF Surjection
<1>4. ExistsSurjection(1..Len(s), RowSet(s))
  BY <1>3 DEF ExistsSurjection
<1>5. IsFiniteSet(1..Len(s))
  BY <1>1, FS_Interval
<1>6. IsFiniteSet(RowSet(s))
  BY <1>3, <1>5, FS_Surjection
<1> QED
  BY <1>1, <1>4, <1>6, FS_SurjCardinalityBound, FS_CardinalityType

\* Workers do the counting: the counters follow from who has returned.
LEMMA CountedSame ==
  ASSUME Counted, UNCHANGED <<sem, wg>>, \A u \in Uploads : Active(u)' = Active(u)
  PROVE  Counted'
<1>1. Running' = Running
  BY DEF Running
<1> QED
  BY <1>1 DEF Counted

LEMMA RunningIs == \A u, k : <<u, k>> \in Running <=> u \in Uploads /\ k \in Active(u)
  BY DEF Running

-----------------------------------------------------------------------------
(* Reader and handler.                                                     *)

\* A row that is accounted for stays so while it is passed on: other variables
\* than those of the step keep their values, and history grows.
LEMMA StillCarried ==
  ASSUME TypeOK, NEW u \in Uploads, Carried(u), everIn \subseteq everIn',
         UNCHANGED <<file[u], pos[u], rowCh[u], batch[u], jobs[u]>>,
         stats'[u].Reasons["batch_error"] >= stats[u].Reasons["batch_error"],
         stats'[u].Reasons["batch_error"] \in Nat
  PROVE  Carried(u)'
<1>1. stats[u].Reasons["batch_error"] \in Nat
  BY DEF TypeOK, Reasons
<1>2. Active(u)' = Active(u)
  BY DEF Active
<1>3. ASSUME NEW n, Accounted(u, n) PROVE Accounted(u, n)'
  BY <1>1, <1>2, <1>3 DEF Accounted, Was, Holds
<1> QED
  BY <1>3 DEF Carried

\* A step of u's reader or handler that hands nothing to a worker.
LEMMA PipelineStep ==
  ASSUME IInv, NEW u \in Uploads, UNCHANGED <<tableVars, sem, file, jobs, wg>>,
         \A v \in Uploads \ {u} : UNCHANGED <<pos[v], rowCh[v], closed[v], hpc[v], batch[v], stats[v]>>,
         TypeOK', HandlerFits(u)', Carried(u)'
  PROVE  IInv'
<1> USE DEF IInv
<1>1. Counted' /\ WorkersFit' /\ (table \subseteq everIn)'
  <2>1. \A v \in Uploads : Active(v)' = Active(v)
    BY DEF Active
  <2>2. Counted'
    BY <2>1, CountedSame
  <2> QED
    BY <2>2 DEF WorkersFit, WorkerFits, Was, tableVars
<1>2. ASSUME NEW v \in Uploads \ {u} PROVE HandlerFits(v)' /\ Carried(v)'
  <2>1. HandlerFits(v)'
    BY <1>2 DEF HandlerFits
  <2>2. stats[v].Reasons["batch_error"] \in Nat
    BY DEF TypeOK, Reasons
  <2>3. Carried(v)'
    BY <1>2, <2>2, StillCarried DEF tableVars
  <2> QED
    BY <2>1, <2>3
<1> QED
  BY <1>1, <1>2

\* The counters of a row that is skipped by the reader or the handler.
LEMMA AddTypes ==
  ASSUME TypeOK, NEW u \in Uploads, NEW r \in Reasons, Add(u, 1, 0, 1, r)
  PROVE  /\ stats' \in [Uploads -> [TotalRows : Nat, Inserted : Nat, Skipped : Nat,
                                    Reasons : [Reasons -> Nat]]]
         /\ \A v \in Uploads \ {u} : stats'[v] = stats[v]
         /\ stats'[u].Reasons["batch_error"] >= stats[u].Reasons["batch_error"]
         /\ stats'[u].Reasons["batch_error"] \in Nat /\ stats[u].Reasons["batch_error"] \in Nat
<1> DEFINE S == [TotalRows : Nat, Inserted : Nat, Skipped : Nat, Reasons : [Reasons -> Nat]]
           f == [stats[u].Reasons EXCEPT ![r] = @ + 1]
           t == [TotalRows |-> stats[u].TotalRows + 1, Inserted |-> stats[u].Inserted + 0,
                 Skipped |-> stats[u].Skipped + 1, Reasons |-> f]
<1>1. stats \in [Uploads -> S] /\ stats[u] \in S /\ stats[u].Reasons \in [Reasons -> Nat]
  BY DEF TypeOK
<1>2. /\ f \in [Reasons -> Nat] /\ f["batch_error"] \in Nat
      /\ stats[u].Reasons["batch_error"] \in Nat
      /\ f["batch_error"] >= stats[u].Reasons["batch_error"]
  BY <1>1 DEF Reasons
<1>3. stats' = [stats EXCEPT ![u] = t]
  BY DEF Add
<1>4. t \in S /\ t.Reasons = f
  BY <1>1, <1>2
<1> QED
  BY <1>1, <1>2, <1>3, <1>4

LEMMA BeginIInv == ASSUME IInv, NEW u \in Uploads, Begin(u) PROVE IInv'
<1>1. TypeOK'
  BY DEF IInv, TypeOK, Begin, tableVars, readerVars
<1>2. HandlerFits(u)'
  BY DEF IInv, TypeOK, HandlerFits, Begin, readerVars
<1>3. stats[u].Reasons["batch_error"] \in Nat
  BY DEF IInv, TypeOK, Reasons
<1>4. Carried(u)'
  BY <1>3, StillCarried DEF IInv, Begin, tableVars, readerVars
<1> QED
  BY <1>1, <1>2, <1>4, PipelineStep DEF Begin, tableVars, readerVars, IInv, TypeOK

LEMMA ReadMalformedIInv == ASSUME IInv, NEW u \in Uploads, ReadMalformed(u) PROVE IInv'
<1> USE DEF ReadMalformed, handlerVars, tableVars
<1>1. pos[u] \in Nat /\ pos'[u] = pos[u] + 1 /\ pos' \in [Uploads -> Nat]
  BY DEF IInv, TypeOK
<1>2. TypeOK'
  BY <1>1, AddTypes DEF IInv, TypeOK, Reasons
<1>3. HandlerFits(u)'
  BY <1>1, RowTypes DEF IInv, HandlerFits, Reading
<1>4. \A n : Accounted(u, n) => Accounted(u, n)'
  BY AddTypes DEF IInv, Accounted, Was, Holds, Active, Reasons
<1>5. Carried(u)'
  BY <1>1, <1>4, ImportAssumption DEF IInv, Carried
<1>6. \A v \in Uploads \ {u} : pos'[v] = pos[v] /\ stats'[v] = stats[v]
  BY AddTypes DEF IInv, TypeOK, Reasons
<1> QED
  BY <1>2, <1>3, <1>5, <1>6, PipelineStep

LEMMA ReadRowIInv == ASSUME IInv, NEW u \in Uploads, ReadRow(u) PROVE IInv'
<1> USE DEF ReadRow, handlerVars, tableVars
<1>1. /\ pos[u] \in Nat /\ pos'[u] = pos[u] + 1 /\ pos' \in [Uploads -> Nat]
      /\ rowCh[u] \in Seq(Names \cup {Invalid}) /\ rowCh \in [Uploads -> Seq(Names \cup {Invalid})]
  <2>1. pos \in [Uploads -> Nat] /\ rowCh \in [Uploads -> Seq(Names \cup {Invalid})]
    BY DEF IInv, TypeOK
  <2>2. pos' = [pos EXCEPT ![u] = @ + 1]
    OBVIOUS
  <2> QED
    BY <2>1, <2>2
<1>2. PICK row \in Names \cup {Invalid} : row = file[u][pos[u] + 1]
  <2>1. pos[u] + 1 \in 1..Len(file[u])
    BY <1>1, RowTypes DEF IInv, HandlerFits
  <2> QED
    BY <2>1, RowTypes DEF IInv
<1>3. rowCh' = [rowCh EXCEPT ![u] = Append(rowCh[u], row)]
  BY <1>2
<1>4. /\ rowCh' \in [Uploads -> Seq(Names \cup {Invalid})]
      /\ Len(rowCh[u]) \in Nat /\ Len(rowCh'[u]) = Len(rowCh[u]) + 1
      /\ \A i \in 1..Len(rowCh[u]) : rowCh'[u][i] = rowCh[u][i]
      /\ rowCh'[u][Len(rowCh[u]) + 1] = row
  BY <1>1, <1>2, <1>3, AppendProperties, LenProperties
<1>5. \A v \in Uploads \ {u} : pos'[v] = pos[v] /\ rowCh'[v] = rowCh[v]
  <2>1. pos' = [pos EXCEPT ![u] = @ + 1]
    OBVIOUS
  <2>2. pos \in [Uploads -> Nat]
    BY DEF IInv, TypeOK
  <2> QED
    BY <1>1, <1>3, <2>1, <2>2
<1>6. TypeOK'
  <2>1. \A v \in Uploads : Len(rowCh'[v]) <= 2 * ChunkSize
    <3>1. Len(rowCh'[u]) <= 2 * ChunkSize
      BY <1>4, ImportAssumption
    <3> QED
      BY <1>5, <3>1 DEF IInv, TypeOK
  <2> QED
    BY <1>1, <1>4, <2>1 DEF IInv, TypeOK
<1>7. HandlerFits(u)'
  BY <1>1, RowTypes DEF IInv, HandlerFits, Reading
<1>8. \A n : Accounted(u, n) => Accounted(u, n)'
  BY <1>4 DEF IInv, Accounted, Was, Holds, Active
<1>9. Accounted(u, row)'
  BY <1>4 DEF Accounted, Holds
<1>10. Carried(u)'
  BY <1>1, <1>2, <1>8, <1>9 DEF IInv, Carried
<1> QED
  BY <1>5, <1>6, <1>7, <1>10, PipelineStep

LEMMA ReadEOFIInv == ASSUME IInv, NEW u \in Uploads, ReadEOF(u) PROVE IInv'
<1> USE DEF ReadEOF, handlerVars, tableVars
<1>1. TypeOK'
  BY DEF IInv, TypeOK
<1>2. HandlerFits(u)'
  BY RowTypes DEF IInv, TypeOK, HandlerFits, Reading
<1>3. stats[u].Reasons["batch_error"] \in Nat
  BY DEF IInv, TypeOK, Reasons
<1>4. Carried(u)'
  BY <1>3, StillCarried DEF IInv
<1> QED
  BY <1>1, <1>2, <1>4, PipelineStep DEF IInv, TypeOK

\* What a receive leaves in the channel.
LEMMA TakenFromChannel ==
  ASSUME IInv, NEW u \in Uploads, rowCh[u] # <<>>, rowCh' = [rowCh EXCEPT ![u] = Tail(@)]
  PROVE  /\ rowCh' \in [Uploads -> Seq(Names \cup {Invalid})]
         /\ \A v \in Uploads \ {u} : rowCh'[v] = rowCh[v]
         /\ \A v \in Uploads : Len(rowCh'[v]) <= 2 * ChunkSize
         /\ Head(rowCh[u]) \in Names \cup {Invalid} /\ Len(rowCh'[u]) = Len(rowCh[u]) - 1
         /\ \A n : Holds(rowCh[u], n) => n = Head(rowCh[u]) \/ Holds(rowCh'[u], n)
<1>1. rowCh \in [Uploads -> Seq(Names \cup {Invalid})] /\ \A v \in Uploads : Len(rowCh[v]) <= 2 * ChunkSize
  BY DEF IInv, TypeOK
<1>2. rowCh[u] \in Seq(Names \cup {Invalid}) /\ rowCh'[u] = Tail(rowCh[u])
  BY <1>1
<1>3. /\ Head(rowCh[u]) \in Names \cup {Invalid} /\ Head(rowCh[u]) = rowCh[u][1]
      /\ rowCh'[u] \in Seq(Names \cup {Invalid})
      /\ Len(rowCh[u]) \in Nat /\ Len(rowCh'[u]) = Len(rowCh[u]) - 1
      /\ \A i \in 1..Len(rowCh'[u]) : rowCh'[u][i] = rowCh[u][i + 1]
  <2>1. Head(rowCh[u]) = rowCh[u][1]
    BY <1>2
  <2>2. Len(rowCh[u]) \in Nat
    BY <1>2, LenProperties
  <2>3. /\ Head(rowCh[u]) \in Names \cup {Invalid}
        /\ Tail(rowCh[u]) \in Seq(Names \cup {Invalid})
        /\ Len(Tail(rowCh[u])) = Len(rowCh[u]) - 1
        /\ \A i \in 1..Len(Tail(rowCh[u])) : Tail(rowCh[u])[i] = rowCh[u][i + 1]
    BY <1>2, HeadTailProperties
  <2> QED
    BY <1>2, <2>1, <2>2, <2>3
<1>4. \A v \in Uploads \ {u} : rowCh'[v] = rowCh[v]
  BY <1>1
<1>5. rowCh' \in [Uploads -> Seq(Names \cup {Invalid})]
  BY <1>1, <1>2, <1>3
<1>6. \A v \in Uploads : Len(rowCh'[v]) <= 2 * ChunkSize
  <2>1. Len(rowCh'[u]) <= 2 * ChunkSize
    BY <1>1, <1>3, ImportAssumption
  <2> QED
    BY <1>1, <1>4, <2>1
<1>7. ASSUME NEW n, NEW i \in 1..Len(rowCh[u]), rowCh[u][i] = n, n # Head(rowCh[u])
      PROVE  Holds(rowCh'[u], n)
  <2>1. i - 1 \in 1..Len(rowCh'[u]) /\ rowCh'[u][i - 1] = n
    BY <1>3, <1>7
  <2> QED
    BY <2>1 DEF Holds
<1> QED
  BY <1>3, <1>4, <1>5, <1>6, <1>7 DEF Holds

LEMMA ReceiveInvalidIInv == ASSUME IInv, NEW u \in Uploads, ReceiveInvalid(u) PROVE IInv'
<1> USE DEF ReceiveInvalid, handlerVars, tableVars
<1>1. TypeOK'
  BY AddTypes, TakenFromChannel DEF IInv, TypeOK, Reasons
<1>2. HandlerFits(u)'
  BY DEF IInv, HandlerFits
<1>3. \A n \in Names : Holds(rowCh[u], n) => Holds(rowCh'[u], n)
  BY TakenFromChannel, ImportAssumption
<1>4. \A n \in Names : Accounted(u, n) => Accounted(u, n)'
  <2>1. \A n : Holds(batch'[u], n) = Holds(batch[u], n)
    OBVIOUS
  <2>2. \A n : Holds(rowCh[u], n)' = Holds(rowCh'[u], n)
    BY DEF Holds
  <2>3. stats'[u].Reasons["batch_error"] >= stats[u].Reasons["batch_error"]
        /\ stats'[u].Reasons["batch_error"] \in Nat /\ stats[u].Reasons["batch_error"] \in Nat
    BY AddTypes DEF IInv, Reasons
  <2> QED
    BY <1>3, <2>1, <2>2, <2>3 DEF Accounted, Was, Active
<1>5. Carried(u)'
  BY <1>4 DEF IInv, Carried
<1>6. \A v \in Uploads \ {u} : rowCh'[v] = rowCh[v] /\ stats'[v] = stats[v]
  BY AddTypes, TakenFromChannel DEF IInv, Reasons
<1> QED
  BY <1>1, <1>2, <1>5, <1>6, PipelineStep

LEMMA ReceiveRowIInv == ASSUME IInv, NEW u \in Uploads, ReceiveRow(u) PROVE IInv'
<1> USE DEF ReceiveRow, tableVars
<1>1. PICK n \in Names : n = Head(rowCh[u])
  OBVIOUS
<1>2. batch \in [Uploads -> Seq(Names)] /\ batch' = [batch EXCEPT ![u] = Append(@, n)]
  <2>1. batch' = [batch EXCEPT ![u] = Append(@, n)]
    BY <1>1
  <2> QED
    BY <2>1 DEF IInv, TypeOK
<1>3. /\ batch'[u] = Append(batch[u], n) /\ batch[u] \in Seq(Names)
      /\ \A v \in Uploads \ {u} : batch'[v] = batch[v]
  BY <1>2
<1>4. /\ batch'[u] \in Seq(Names) /\ batch'[u] # <<>>
      /\ Len(batch[u]) \in Nat /\ Len(batch'[u]) = Len(batch[u]) + 1
      /\ \A i \in 1..Len(batch[u]) : batch'[u][i] = batch[u][i]
      /\ batch'[u][Len(batch[u]) + 1] = n
  <2>1. Len(batch[u]) \in Nat
    BY <1>3, LenProperties
  <2> DEFINE b == batch[u]
  <2>2. b \in Seq(Names)
    BY <1>3
  <2> HIDE DEF b
  <2>3. /\ Append(b, n) \in Seq(Names) /\ Append(b, n) # <<>> /\ Len(Append(b, n)) = Len(b) + 1
        /\ \A i \in 1..Len(b) : Append(b, n)[i] = b[i]
        /\ Append(b, n)[Len(b) + 1] = n
    BY <2>2, AppendProperties
  <2> QED
    BY <1>3, <2>1, <2>3 DEF b
<1>5. batch' \in [Uploads -> Seq(Names)]
  BY <1>2, <1>3, <1>4
<1>6. Len(batch'[u]) <= ChunkSize /\ (hpc'[u] = "receive" => Len(batch'[u]) < ChunkSize)
      /\ hpc'[u] \in {"full", "receive"}
  <2>1. Len(batch[u]) < ChunkSize
    BY DEF IInv, HandlerFits
  <2>2. hpc'[u] = IF Len(batch[u]) + 1 >= ChunkSize THEN "full" ELSE "receive"
    BY DEF IInv, TypeOK
  <2> QED
    BY <1>4, <2>1, <2>2, ImportAssumption
<1>7. /\ stats' \in [Uploads -> [TotalRows : Nat, Inserted : Nat, Skipped : Nat,
                                 Reasons : [Reasons -> Nat]]]
      /\ \A v \in Uploads : stats'[v].Reasons = stats[v].Reasons
      /\ \A v \in Uploads \ {u} : stats'[v] = stats[v]
  <2>1. stats' = [stats EXCEPT ![u].TotalRows = @ + 1]
    OBVIOUS
  <2>2. stats \in [Uploads -> [TotalRows : Nat, Inserted : Nat, Skipped : Nat,
                              Reasons : [Reasons -> Nat]]]
    BY DEF IInv, TypeOK
  <2>3. stats'[u] = [stats[u] EXCEPT !.TotalRows = @ + 1]
        /\ \A v \in Uploads \ {u} : stats'[v] = stats[v]
    BY <2>1, <2>2
  <2>4. stats'[u] \in [TotalRows : Nat, Inserted : Nat, Skipped : Nat, Reasons : [Reasons -> Nat]]
        /\ stats'[u].Reasons = stats[u].Reasons
    <3> DEFINE F == [Reasons -> Nat]
               s == stats[u]
    <3>1. s \in [TotalRows : Nat, Inserted : Nat, Skipped : Nat, Reasons : F]
      BY <2>2
    <3> HIDE DEF F, s
    <3>2. s.TotalRows \in Nat
      BY <3>1
    <3>3. [s EXCEPT !.TotalRows = @ + 1] \in [TotalRows : Nat, Inserted : Nat, Skipped : Nat, Reasons : F]
          /\ [s EXCEPT !.TotalRows = @ + 1].Reasons = s.Reasons
      BY <3>1, <3>2
    <3> QED
      BY <2>3, <3>3 DEF F, s
  <2> QED
    BY <2>1, <2>2, <2>3, <2>4
<1>8. TypeOK'
  <2>1. \A v \in Uploads : Len(batch'[v]) <= ChunkSize
    BY <1>3, <1>6 DEF IInv, TypeOK
  <2>2. hpc' \in [Uploads -> {"idle", "rejected", "receive", "full", "last", "wait", "done"}]
    BY DEF IInv, TypeOK
  <2> QED
    BY <1>5, <1>7, <2>1, <2>2, TakenFromChannel DEF IInv, TypeOK
<1>9. HandlerFits(u)'
  BY <1>4, <1>6 DEF IInv, HandlerFits
<1>10. ASSUME NEW m, Accounted(u, m) PROVE Accounted(u, m)'
  <2>1. CASE Holds(rowCh[u], m)
    <3>1. m = n \/ Holds(rowCh'[u], m)
      BY <1>1, <2>1, TakenFromChannel
    <3>2. m = n => Holds(batch'[u], m)
      BY <1>4 DEF Holds
    <3> QED
      BY <3>1, <3>2 DEF Accounted, Holds
  <2>2. CASE Holds(batch[u], m)
    BY <1>4, <2>2 DEF Accounted, Holds
  <2> QED
    BY <1>7, <1>10, <2>1, <2>2 DEF Accounted, Was, Holds, Active
<1>11. Carried(u)'
  BY <1>10 DEF IInv, Carried
<1>12. \A v \in Uploads \ {u} : hpc'[v] = hpc[v] /\ rowCh'[v] = rowCh[v]
  BY TakenFromChannel DEF IInv, TypeOK
<1> QED
  BY <1>3, <1>7, <1>8, <1>9, <1>11, <1>12, PipelineStep

LEMMA EndOfRowsIInv == ASSUME IInv, NEW u \in Uploads, EndOfRows(u) PROVE IInv'
<1> USE DEF EndOfRows, readerVars, tableVars
<1>1. TypeOK'
  BY DEF IInv, TypeOK
<1>2. HandlerFits(u)'
  BY DEF IInv, TypeOK, HandlerFits
<1>3. stats[u].Reasons["batch_error"] \in Nat
  BY DEF IInv, TypeOK, Reasons
<1>4. Carried(u)'
  BY <1>3, StillCarried DEF IInv
<1> QED
  BY <1>1, <1>2, <1>4, PipelineStep DEF IInv, TypeOK

LEMMA RespondIInv == ASSUME IInv, NEW u \in Uploads, Respond(u) PROVE IInv'
<1> USE DEF Respond, readerVars, tableVars
<1>1. TypeOK'
  BY DEF IInv, TypeOK
<1>2. HandlerFits(u)'
  BY DEF IInv, TypeOK, HandlerFits, AllDone
<1>3. stats[u].Reasons["batch_error"] \in Nat
  BY DEF IInv, TypeOK, Reasons
<1>4. Carried(u)'
  BY <1>3, StillCarried DEF IInv
<1> QED
  BY <1>1, <1>2, <1>4, PipelineStep DEF IInv, TypeOK

-----------------------------------------------------------------------------
(* Workers.                                                                *)

\* What a worker's rows have become is not forgotten.
LEMMA FitsLater ==
  ASSUME NEW j, WorkerFits(j), everIn \subseteq everIn'
  PROVE  WorkerFits(j)'
  BY DEF WorkerFits, Was

\* The workers after one of them has become t.
LEMMA JobsFacts ==
  ASSUME TypeOK, NEW u \in Uploads, NEW k \in DOMAIN jobs[u], NEW t \in Job,
         jobs' = [jobs EXCEPT ![u] = [@ EXCEPT ![k] = t]]
  PROVE  /\ jobs' \in [Uploads -> Seq(Job)]
         /\ \A v \in Uploads \ {u} : jobs'[v] = jobs[v]
         /\ DOMAIN jobs'[u] = DOMAIN jobs[u]
         /\ \A l \in DOMAIN jobs[u] \ {k} : jobs'[u][l] = jobs[u][l]
         /\ jobs'[u][k] = t
<1> DEFINE s == jobs[u]
<1>1. jobs \in [Uploads -> Seq(Job)] /\ s \in Seq(Job)
  BY DEF TypeOK
<1>2. DOMAIN s = 1..Len(s) /\ Len(s) \in Nat
  BY <1>1, LenProperties
<1>4. jobs' = [jobs EXCEPT ![u] = [s EXCEPT ![k] = t]]
  OBVIOUS
<1> HIDE DEF s
<1>6. /\ [s EXCEPT ![k] = t] \in Seq(Job) /\ Len([s EXCEPT ![k] = t]) = Len(s)
      /\ \A l \in 1..Len(s) : [s EXCEPT ![k] = t][l] = IF l = k THEN t ELSE s[l]
  BY <1>1, <1>2, ExceptSeq DEF s
<1>7. DOMAIN [s EXCEPT ![k] = t] = DOMAIN s
  OBVIOUS
<1>8. jobs'[u] = [s EXCEPT ![k] = t] /\ \A v \in Uploads \ {u} : jobs'[v] = jobs[v]
  BY <1>1, <1>4
<1>9. k \in 1..Len(s)
  BY <1>2 DEF s
<1>10. jobs'[u][k] = t /\ \A l \in DOMAIN s \ {k} : jobs'[u][l] = s[l]
  BY <1>2, <1>6, <1>8, <1>9
<1>11. jobs' \in [Uploads -> Seq(Job)] /\ DOMAIN jobs'[u] = DOMAIN s
  BY <1>1, <1>4, <1>6, <1>7, <1>8
<1> QED
  BY <1>8, <1>10, <1>11 DEF s

\* What is true of a worker that has not returned.
LEMMA JobFacts ==
  ASSUME IInv, NEW u \in Uploads, NEW k \in DOMAIN jobs[u]
  PROVE  /\ jobs[u][k] \in Job /\ WorkerFits(jobs[u][k])
         /\ jobs[u][k].rows \in Seq(Names) /\ Len(jobs[u][k].rows) \in Nat
         /\ jobs[u][k].inserted \in Nat /\ jobs[u][k].dups \in Nat
         /\ jobs[u][k].err \in BOOLEAN /\ jobs[u][k].next \in Nat
<1>1. jobs[u] \in Seq(Job)
  BY DEF IInv, TypeOK
<1>2. jobs[u][k] \in Job
  BY <1>1, LenProperties, ElementOfSeq
<1> QED
  BY <1>2, LenProperties DEF IInv, WorkersFit, Job

\* A statement's result keeps the invariant if the worker still fits: nobody has
\* begun or returned, and its rows are where they were.
LEMMA WorkerStep ==
  ASSUME IInv, NEW u \in Uploads, NEW k \in DOMAIN jobs[u], jobs[u][k].pc # "done",
         NEW t \in Job, jobs' = [jobs EXCEPT ![u] = [@ EXCEPT ![k] = t]],
         t.pc # "done", t.rows = jobs[u][k].rows, WorkerFits(t)',
         UNCHANGED <<sem, readerVars, handlerVars, wg, stats>>,
         table' \in SUBSET Profiles, everIn' \in SUBSET Profiles,
         landed' \in [Uploads -> Nat], unsure' \in [Uploads -> BOOLEAN],
         everIn \subseteq everIn', table' \subseteq everIn'
  PROVE  IInv'
<1> USE DEF readerVars, handlerVars
<1>2. /\ jobs' \in [Uploads -> Seq(Job)]
      /\ \A v \in Uploads \ {u} : jobs'[v] = jobs[v]
      /\ DOMAIN jobs'[u] = DOMAIN jobs[u]
      /\ \A l \in DOMAIN jobs[u] \ {k} : jobs'[u][l] = jobs[u][l]
      /\ jobs'[u][k] = t
  <2>1. TypeOK
    BY DEF IInv
  <2> QED
    BY <2>1, JobsFacts
<1>3. TypeOK'
  BY <1>2 DEF IInv, TypeOK
<1>4. \A v \in Uploads : Active(v)' = Active(v)
  <2>1. Active(u)' = Active(u)
    BY <1>2 DEF Active
  <2>2. \A v \in Uploads \ {u} : Active(v)' = Active(v)
    BY <1>2 DEF Active
  <2> QED
    BY <2>1, <2>2
<1>5. Counted'
  BY <1>4, CountedSame DEF IInv
<1>6. ASSUME NEW v \in Uploads, NEW l \in (DOMAIN jobs[v])' PROVE WorkerFits(jobs[v][l])'
  <2>1. CASE v = u /\ l = k
    BY <1>2, <2>1
  <2>2. CASE ~(v = u /\ l = k)
    <3>1. l \in DOMAIN jobs[v] /\ jobs'[v][l] = jobs[v][l]
      BY <1>2, <1>6, <2>2
    <3>2. PICK j : j = jobs[v][l]
      OBVIOUS
    <3>3. WorkerFits(j)'
      BY <3>1, <3>2, FitsLater DEF IInv, WorkersFit
    <3> QED
      BY <3>1, <3>2, <3>3
  <2> QED
    BY <2>1, <2>2
<1>7. ASSUME NEW v \in Uploads PROVE HandlerFits(v)' /\ Carried(v)'
  <2>1. HandlerFits(v)'
    BY DEF IInv, HandlerFits
  <2>2. \A l \in Active(v) : jobs'[v][l].rows = jobs[v][l].rows
    BY <1>2 DEF Active
  <2>3. ASSUME NEW n, Accounted(v, n) PROVE Accounted(v, n)'
    <3>1. (\E l \in Active(v) : Holds(jobs[v][l].rows, n)) =>
            (\E l \in Active(v)' : Holds(jobs'[v][l].rows, n))
      BY <1>4, <2>2
    <3>2. \A l : Holds(jobs[v][l].rows, n)' = Holds(jobs'[v][l].rows, n)
      BY DEF Holds
    <3> QED
      BY <2>3, <3>1, <3>2 DEF Accounted, Was, Holds
  <2> QED
    BY <2>1, <2>3 DEF IInv, Carried
<1> QED
  BY <1>3, <1>5, <1>6, <1>7 DEF IInv, WorkersFit

\* What a commit of the names of S does to the table and its history.
LEMMA LandTypes ==
  ASSUME IInv, NEW u \in Uploads, NEW S \in SUBSET Names, Cardinality(S) \in Nat,
         NEW lost \in BOOLEAN, Land(u, S, lost)
  PROVE  /\ table' \in SUBSET Profiles /\ everIn' \in SUBSET Profiles
         /\ landed' \in [Uploads -> Nat] /\ unsure' \in [Uploads -> BOOLEAN]
         /\ everIn \subseteq everIn' /\ table' \subseteq everIn'
         /\ \A n \in S : Was(n)'
<1>1. Imported(S) \subseteq Profiles
  BY DEF Imported, Profiles
<1>2. /\ table' \in SUBSET Profiles /\ everIn' \in SUBSET Profiles
      /\ everIn \subseteq everIn' /\ table' \subseteq everIn'
  BY <1>1 DEF Land, IInv, TypeOK
<1>3. \A n \in S : Was(n)'
  BY DEF Land, Imported, Was
<1>4. landed' \in [Uploads -> Nat]
  BY DEF Land, IInv, TypeOK
<1>5. unsure' \in [Uploads -> BOOLEAN]
  BY DEF Land, IInv, TypeOK
<1> QED
  BY <1>2, <1>3, <1>4, <1>5

\* A step of a worker that leaves the table as it is.
LEMMA NothingLands ==
  ASSUME IInv, UNCHANGED tableVars, NEW u \in Uploads
  PROVE  /\ landed'[u] = landed[u] + 0 /\ unsure'[u] = unsure[u]
         /\ \A v \in Uploads \ {u} : landed'[v] = landed[v] /\ unsure'[v] = unsure[v]
<1>1. landed[u] \in Nat
  BY DEF IInv, TypeOK
<1> QED
  BY <1>1 DEF tableVars

\* What a statement that adds the profiles of S adds to the upload's history.
LEMMA Lands ==
  ASSUME IInv, NEW u \in Uploads, NEW S, NEW lost \in BOOLEAN, Land(u, S, lost)
  PROVE  /\ landed'[u] = landed[u] + Cardinality(S)
         /\ unsure'[u] <=> unsure[u] \/ lost
         /\ \A v \in Uploads \ {u} : landed'[v] = landed[v] /\ unsure'[v] = unsure[v]
<1>1. landed \in [Uploads -> Nat] /\ unsure \in [Uploads -> BOOLEAN]
  BY DEF IInv, TypeOK
<1> QED
  BY <1>1 DEF Land

\* A worker that goes on from copy has tried nothing yet.
LEMMA CopyFacts ==
  ASSUME IInv, NEW u \in Uploads, NEW k \in DOMAIN jobs[u], jobs[u][k].pc = "copy"
  PROVE  /\ jobs[u][k].inserted = 0 /\ jobs[u][k].dups = 0 /\ jobs[u][k].err = FALSE
         /\ Len(jobs[u][k].rows) \in Nat \ {0} /\ jobs[u][k].rows \in Seq(Names)
<1>1. jobs[u][k].rows # <<>>
  BY JobFacts DEF WorkerFits
<1>2. Len(jobs[u][k].rows) # 0
  BY <1>1, JobFacts, EmptySeq
<1> QED
  BY <1>2, JobFacts DEF WorkerFits

LEMMA CopyConflictIInv ==
  ASSUME IInv, NEW u \in Uploads, NEW k \in DOMAIN jobs[u], CopyConflict(u, k) PROVE IInv'
<1>1. jobs[u][k].pc = "copy"
  BY DEF CopyConflict
<1>2. PICK j \in Job : j = jobs[u][k]
  BY JobFacts
<1>3. /\ j.inserted = 0 /\ j.dups = 0 /\ j.err = FALSE
      /\ Len(j.rows) \in Nat \ {0} /\ j.rows \in Seq(Names) /\ j.rows # <<>>
  BY <1>1, <1>2, CopyFacts, EmptySeq
<1> DEFINE f == FALSE
<1>4. PICK t : t = [rows |-> j.rows, pc |-> "sub", next |-> 1,
                    inserted |-> j.inserted + 0, dups |-> j.dups + 0, err |-> j.err \/ f]
  OBVIOUS
<1>5. jobs' = [jobs EXCEPT ![u] = [@ EXCEPT ![k] = t]]
  BY <1>2, <1>4 DEF CopyConflict, Result
<1>6. t = [rows |-> j.rows, pc |-> "sub", next |-> 1, inserted |-> 0, dups |-> 0, err |-> FALSE]
  <2>1. f \in BOOLEAN
    OBVIOUS
  <2>2. f = FALSE
    OBVIOUS
  <2> HIDE DEF f
  <2>3. t = [rows |-> j.rows, pc |-> "sub", next |-> 1, inserted |-> 0, dups |-> 0, err |-> f]
    BY <1>3, <1>4, <2>1
  <2> QED
    BY <2>2, <2>3
<1>7. t \in Job
  BY <1>3, <1>6 DEF Job
<1>8. WorkerFits(t)'
  BY <1>3, <1>6 DEF WorkerFits
<1>9. t.rows = jobs[u][k].rows /\ t.pc # "done"
  BY <1>2, <1>6
<1>10. UNCHANGED <<sem, readerVars, handlerVars, wg, stats>> /\ UNCHANGED tableVars
  BY DEF CopyConflict
<1>11. /\ table' \in SUBSET Profiles /\ everIn' \in SUBSET Profiles
      /\ landed' \in [Uploads -> Nat] /\ unsure' \in [Uploads -> BOOLEAN]
      /\ everIn \subseteq everIn' /\ table' \subseteq everIn'
  BY <1>10 DEF tableVars, IInv, TypeOK
<1> QED
  BY <1>1, <1>5, <1>7, <1>8, <1>9, <1>10, <1>11, WorkerStep

LEMMA CopyFailsIInv ==
  ASSUME IInv, NEW u \in Uploads, NEW k \in DOMAIN jobs[u], CopyFails(u, k) PROVE IInv'
<1>1. jobs[u][k].pc = "copy"
  BY DEF CopyFails
<1>2. PICK j \in Job : j = jobs[u][k]
  BY JobFacts
<1>3. /\ j.inserted = 0 /\ j.dups = 0 /\ j.err = FALSE
      /\ Len(j.rows) \in Nat \ {0} /\ j.rows \in Seq(Names) /\ j.rows # <<>>
  BY <1>1, <1>2, CopyFacts, EmptySeq
<1> DEFINE f == TRUE
<1>4. PICK t : t = [rows |-> j.rows, pc |-> "account", next |-> 1,
                    inserted |-> j.inserted + 0, dups |-> j.dups + 0, err |-> j.err \/ f]
  OBVIOUS
<1>5. jobs' = [jobs EXCEPT ![u] = [@ EXCEPT ![k] = t]]
  BY <1>2, <1>4 DEF CopyFails, Result
<1>6. t = [rows |-> j.rows, pc |-> "account", next |-> 1, inserted |-> 0, dups |-> 0, err |-> TRUE]
  <2>1. f \in BOOLEAN
    OBVIOUS
  <2>2. f = TRUE
    OBVIOUS
  <2> HIDE DEF f
  <2>3. t = [rows |-> j.rows, pc |-> "account", next |-> 1, inserted |-> 0, dups |-> 0, err |-> f]
    BY <1>3, <1>4, <2>1
  <2> QED
    BY <2>2, <2>3
<1>7. t \in Job
  BY <1>3, <1>6 DEF Job
<1>8. WorkerFits(t)'
  BY <1>3, <1>6 DEF WorkerFits
<1>9. t.rows = jobs[u][k].rows /\ t.pc # "done"
  BY <1>2, <1>6
<1>10. UNCHANGED <<sem, readerVars, handlerVars, wg, stats>> /\ UNCHANGED tableVars
  BY DEF CopyFails
<1>11. /\ table' \in SUBSET Profiles /\ everIn' \in SUBSET Profiles
      /\ landed' \in [Uploads -> Nat] /\ unsure' \in [Uploads -> BOOLEAN]
      /\ everIn \subseteq everIn' /\ table' \subseteq everIn'
  BY <1>10 DEF tableVars, IInv, TypeOK
<1> QED
  BY <1>1, <1>5, <1>7, <1>8, <1>9, <1>10, <1>11, WorkerStep

LEMMA CopyAllIInv ==
  ASSUME IInv, NEW u \in Uploads, NEW k \in DOMAIN jobs[u], CopyAll(u, k) PROVE IInv'
<1>1. jobs[u][k].pc = "copy"
  BY DEF CopyAll
<1>2. PICK j \in Job : j = jobs[u][k]
  BY JobFacts
<1>3. /\ j.inserted = 0 /\ j.dups = 0 /\ j.err = FALSE
      /\ Len(j.rows) \in Nat \ {0} /\ j.rows \in Seq(Names) /\ j.rows # <<>>
  BY <1>1, <1>2, CopyFacts, EmptySeq
<1>4. PICK lost \in BOOLEAN :
        /\ Land(u, RowSet(j.rows), lost)
        /\ Result(u, k, IF lost THEN 0 ELSE Len(j.rows), 0, lost, 1, "account")
  BY <1>2 DEF CopyAll
<1>5. PICK ins : ins = IF lost THEN 0 ELSE Len(j.rows)
  OBVIOUS
<1>6. PICK t : t = [rows |-> j.rows, pc |-> "account", next |-> 1,
                    inserted |-> j.inserted + ins, dups |-> j.dups + 0, err |-> j.err \/ lost]
  OBVIOUS
<1>7. jobs' = [jobs EXCEPT ![u] = [@ EXCEPT ![k] = t]]
  BY <1>2, <1>4, <1>5, <1>6 DEF Result
<1>8. t = [rows |-> j.rows, pc |-> "account", next |-> 1, inserted |-> ins, dups |-> 0, err |-> lost]
  BY <1>3, <1>5, <1>6
<1>9. t \in Job
  BY <1>3, <1>5, <1>8 DEF Job
<1>10. RowSet(j.rows) \in SUBSET Names /\ \A i \in 1..Len(j.rows) : j.rows[i] \in RowSet(j.rows)
  BY <1>3, LenProperties, ElementOfSeq DEF RowSet
<1>11. /\ table' \in SUBSET Profiles /\ everIn' \in SUBSET Profiles
       /\ landed' \in [Uploads -> Nat] /\ unsure' \in [Uploads -> BOOLEAN]
       /\ everIn \subseteq everIn' /\ table' \subseteq everIn'
       /\ \A n \in RowSet(j.rows) : Was(n)'
  <2>1. Cardinality(RowSet(j.rows)) \in Nat
    BY <1>3, RowSetBounded
  <2> QED
    BY <1>4, <1>10, <2>1, LandTypes
<1>12. WorkerFits(t)'
  <2>1. \A i \in 1..Len(j.rows) : Was(j.rows[i])'
    BY <1>10, <1>11
  <2> QED
    BY <1>3, <1>5, <1>8, <2>1 DEF WorkerFits
<1>13. t.rows = jobs[u][k].rows /\ t.pc # "done"
  BY <1>2, <1>8
<1>14. UNCHANGED <<sem, readerVars, handlerVars, wg, stats>>
  BY DEF CopyAll
<1> QED
  BY <1>1, <1>7, <1>9, <1>11, <1>12, <1>13, <1>14, WorkerStep

\* A piece begins and ends within the batch.
LEMMA PieceBounds ==
  ASSUME NEW rows, Len(rows) \in Nat, NEW i \in 1..Len(rows)
  PROVE  /\ PieceEnd(rows, i) \in i..Len(rows) /\ PieceEnd(rows, i) \in Nat
         /\ PieceEnd(rows, i) = i + SubBatch - 1 \/ (PieceEnd(rows, i) = Len(rows) /\ i + SubBatch > Len(rows))
  BY ImportAssumption DEF PieceEnd

\* A piece of a batch, and the names of it that the table does not have.
LEMMA PieceFacts ==
  ASSUME NEW rows \in Seq(Names), NEW i \in 1..Len(rows), NEW new \in SUBSET RowSet(SubSeq(rows, i, PieceEnd(rows, i)))
  PROVE  /\ PieceEnd(rows, i) \in i..Len(rows)
         /\ PieceEnd(rows, i) = i + SubBatch - 1 \/ (PieceEnd(rows, i) = Len(rows) /\ i + SubBatch > Len(rows))
         /\ Len(SubSeq(rows, i, PieceEnd(rows, i))) = PieceEnd(rows, i) - i + 1
         /\ Cardinality(new) \in 0..(PieceEnd(rows, i) - i + 1)
         /\ new \in SUBSET Names
         /\ \A x \in i..PieceEnd(rows, i) : rows[x] \in RowSet(SubSeq(rows, i, PieceEnd(rows, i)))
<1> DEFINE e == PieceEnd(rows, i)
           piece == SubSeq(rows, i, e)
<1>1. Len(rows) \in Nat /\ SubBatch \in Nat \ {0} /\ \A x \in 1..Len(rows) : rows[x] \in Names
  BY ImportAssumption, LenProperties, ElementOfSeq
<1>2. e \in i..Len(rows) /\ (e = i + SubBatch - 1 \/ (e = Len(rows) /\ i + SubBatch > Len(rows)))
  BY <1>1, PieceBounds
<1> HIDE DEF e
<1>3. /\ piece \in Seq(Names) /\ Len(piece) = e - i + 1
      /\ \A x \in 1..(e - i + 1) : piece[x] = rows[i + x - 1]
  <2>1. i \in 1..(Len(rows) + 1) /\ e \in (i - 1)..Len(rows)
    BY <1>1, <1>2
  <2> QED
    BY <1>1, <1>2, <2>1, SubSeqProperties
<1> HIDE DEF piece
<1>4. DOMAIN piece = 1..(e - i + 1)
  BY <1>3, LenProperties
<1>5. ASSUME NEW x \in i..e PROVE rows[x] \in RowSet(piece)
  <2>1. x - i + 1 \in DOMAIN piece /\ piece[x - i + 1] = rows[x]
    BY <1>1, <1>2, <1>3, <1>4
  <2> QED
    BY <2>1 DEF RowSet
<1>6. RowSet(piece) \subseteq Names
  BY <1>1, <1>2, <1>3, <1>4, ElementOfSeq DEF RowSet
<1>7. new \subseteq RowSet(piece)
  BY DEF piece, e
<1>8. Cardinality(new) \in 0..(e - i + 1)
  <2>1. IsFiniteSet(new) /\ Cardinality(new) <= Cardinality(RowSet(piece))
    BY <1>3, <1>7, RowSetBounded, FS_Subset
  <2>2. Cardinality(new) \in Nat
    BY <2>1, FS_CardinalityType
  <2> QED
    BY <1>2, <1>3, <2>1, <2>2, RowSetBounded
<1> QED
  BY <1>2, <1>3, <1>5, <1>6, <1>7, <1>8 DEF e, piece

\* The table has d more rows of u, and ins of them were reported, all unless the
\* answer was lost.
PieceLanded(u, ins) ==
  \E d \in Nat : /\ landed'[u] = landed[u] + d /\ ins <= d
                 /\ ~unsure'[u] => ~unsure[u] /\ ins = d
                 /\ \A v \in Uploads \ {u} : landed'[v] = landed[v] /\ unsure'[v] = unsure[v]

\* The k-th worker of u was j, tried the piece that ends with row e, of m rows,
\* and is t now: ins of them were reported added and dup duplicates, all of them
\* unless there was an error.
PieceTried(u, k, j, e, m, ins, dup, t) ==
  /\ u \in Uploads /\ k \in DOMAIN jobs[u] /\ j = jobs[u][k] /\ j.pc = "sub"
  /\ e = PieceEnd(j.rows, j.next) /\ m = e - j.next + 1
  /\ ins \in Nat /\ dup \in Nat /\ ins + dup <= m
  /\ t \in Job /\ jobs' = [jobs EXCEPT ![u] = [@ EXCEPT ![k] = t]]
  /\ t.rows = j.rows /\ t.next = j.next + SubBatch
  /\ t.pc = IF j.next + SubBatch > Len(j.rows) THEN "account" ELSE "sub"
  /\ t.inserted = j.inserted + ins /\ t.dups = j.dups + dup
  /\ t.err => j.err \/ ins + dup = 0
  /\ j.err => t.err
  /\ ~t.err => ins + dup = m /\ \A x \in j.next..e : Was(j.rows[x])'
  /\ PieceLanded(u, ins)
  /\ UNCHANGED <<sem, readerVars, handlerVars, wg, stats>>
  /\ table' \in SUBSET Profiles /\ everIn' \in SUBSET Profiles
  /\ landed' \in [Uploads -> Nat] /\ unsure' \in [Uploads -> BOOLEAN]
  /\ everIn \subseteq everIn' /\ table' \subseteq everIn'

\* Where the worker stands after the piece.
LEMMA PieceEnds ==
  ASSUME IInv, NEW u, NEW k, NEW j, NEW e, NEW m, NEW ins, NEW dup, NEW t,
         PieceTried(u, k, j, e, m, ins, dup, t)
  PROVE  /\ j.rows \in Seq(Names) /\ Len(j.rows) \in Nat /\ j.rows # <<>>
         /\ j.next \in 1..Len(j.rows) /\ j.next \in Nat
         /\ j.inserted \in Nat /\ j.dups \in Nat
         /\ j.inserted + j.dups <= j.next - 1
         /\ j.err => j.inserted + j.dups < j.next - 1
         /\ ~j.err => \A x \in 1..(j.next - 1) : Was(j.rows[x])
         /\ e \in j.next..Len(j.rows) /\ e \in Nat
         /\ t.pc \in {"sub", "account"}
         /\ t.pc = "sub" => t.next \in 1..Len(j.rows) /\ e = t.next - 1
         /\ t.pc = "account" => e = Len(j.rows)
<1> USE DEF PieceTried
<1>1. /\ j.rows \in Seq(Names) /\ Len(j.rows) \in Nat /\ j.rows # <<>>
      /\ j.next \in 1..Len(j.rows) /\ j.next \in Nat
      /\ j.inserted \in Nat /\ j.dups \in Nat /\ SubBatch \in Nat \ {0}
      /\ j.inserted + j.dups <= j.next - 1
      /\ j.err => j.inserted + j.dups < j.next - 1
      /\ ~j.err => \A x \in 1..(j.next - 1) : Was(j.rows[x])
  BY JobFacts, ImportAssumption DEF WorkerFits
<1>2. /\ e \in j.next..Len(j.rows) /\ e \in Nat
      /\ e = j.next + SubBatch - 1 \/ (e = Len(j.rows) /\ j.next + SubBatch > Len(j.rows))
  <2> DEFINE rows == j.rows
             i == j.next
  <2>1. Len(rows) \in Nat /\ i \in 1..Len(rows) /\ e = PieceEnd(rows, i)
    BY <1>1
  <2> HIDE DEF rows, i
  <2>2. /\ e \in i..Len(rows) /\ e \in Nat
        /\ e = i + SubBatch - 1 \/ (e = Len(rows) /\ i + SubBatch > Len(rows))
    BY <2>1, PieceBounds
  <2> QED
    BY <2>2 DEF rows, i
<1>3. /\ t.pc \in {"sub", "account"}
      /\ t.pc = "sub" => t.next \in 1..Len(j.rows) /\ e = t.next - 1
      /\ t.pc = "account" => e = Len(j.rows)
  <2> DEFINE n == Len(j.rows)
             i == j.next
  <2>1. n \in Nat /\ i \in 1..n /\ e \in i..n /\ (e = i + SubBatch - 1 \/ (e = n /\ i + SubBatch > n))
        /\ t.next = i + SubBatch /\ SubBatch \in Nat \ {0}
        /\ t.pc = IF i + SubBatch > n THEN "account" ELSE "sub"
    BY <1>1, <1>2
  <2> HIDE DEF n, i
  <2>2. i + SubBatch \in Nat
    BY <2>1
  <2>3. CASE i + SubBatch > n
    BY <2>1, <2>3 DEF n
  <2>4. CASE ~(i + SubBatch > n)
    BY <2>1, <2>2, <2>4 DEF n
  <2> QED
    BY <2>3, <2>4
<1> QED
  BY <1>1, <1>2, <1>3

LEMMA PieceStep ==
  ASSUME IInv, NEW u, NEW k, NEW j, NEW e, NEW m, NEW ins, NEW dup, NEW t,
         PieceTried(u, k, j, e, m, ins, dup, t)
  PROVE  IInv'
<1>1. /\ j.rows \in Seq(Names) /\ Len(j.rows) \in Nat /\ j.rows # <<>>
      /\ j.next \in 1..Len(j.rows) /\ j.next \in Nat
      /\ j.inserted \in Nat /\ j.dups \in Nat
      /\ j.inserted + j.dups <= j.next - 1
      /\ j.err => j.inserted + j.dups < j.next - 1
      /\ ~j.err => \A x \in 1..(j.next - 1) : Was(j.rows[x])
  BY PieceEnds
<1>2. e \in j.next..Len(j.rows) /\ e \in Nat
  BY PieceEnds
<1>3. /\ t.pc \in {"sub", "account"}
      /\ t.pc = "sub" => t.next \in 1..Len(j.rows) /\ e = t.next - 1
      /\ t.pc = "account" => e = Len(j.rows)
  BY PieceEnds
<1> USE DEF PieceTried
<1>4. t.inserted + t.dups <= e /\ (t.err => t.inserted + t.dups < e)
  <2>1. PICK i \in Nat, a \in Nat, d \in Nat : i = j.next /\ a = j.inserted /\ d = j.dups
    BY <1>1
  <2>2. t.inserted + t.dups = (a + d) + (ins + dup)
    BY <2>1
  <2>3. a + d <= i - 1 /\ (j.err => a + d < i - 1) /\ ins + dup <= e - i + 1 /\ i <= e /\ e \in Nat
    BY <1>1, <1>2, <2>1
  <2>4. (a + d) + (ins + dup) <= e
    BY <2>3
  <2>5. CASE j.err
    BY <2>2, <2>3, <2>4, <2>5
  <2>6. CASE ins + dup = 0
    BY <2>2, <2>3, <2>4, <2>6
  <2> QED
    BY <2>2, <2>4, <2>5, <2>6
<1>5. ASSUME ~t.err, NEW x \in 1..e PROVE Was(j.rows[x])'
  <2>1. CASE x \in 1..(j.next - 1)
    <3>1. Was(j.rows[x])
      BY <1>1, <1>5, <2>1
    <3> QED
      BY <3>1 DEF Was
  <2>2. CASE x \in j.next..e
    BY <1>5, <2>2
  <2> QED
    BY <1>1, <1>2, <2>1, <2>2
<1>6. WorkerFits(t)'
  BY <1>1, <1>2, <1>3, <1>4, <1>5 DEF WorkerFits
<1> QED
  BY <1>3, <1>6, WorkerStep

LEMMA InsertPieceTried ==
  ASSUME IInv, NEW u \in Uploads, NEW k \in DOMAIN jobs[u], InsertPiece(u, k)
  PROVE  \E j, e, m, ins, dup, t : PieceTried(u, k, j, e, m, ins, dup, t)
<1> DEFINE rows  == jobs[u][k].rows
           i     == jobs[u][k].next
           piece == SubSeq(rows, i, PieceEnd(rows, i))
           new   == {n \in RowSet(piece) : <<n, "lower">> \notin table}
           p     == IF i + SubBatch > Len(rows) THEN "account" ELSE "sub"
<1>1. jobs[u][k].pc = "sub" /\ UNCHANGED <<sem, readerVars, handlerVars, wg, stats>>
  BY DEF InsertPiece
<1>2. PICK j \in Job : j = jobs[u][k]
  BY JobFacts
<1>3. /\ j.rows \in Seq(Names) /\ Len(j.rows) \in Nat /\ j.next \in 1..Len(j.rows) /\ j.next \in Nat
      /\ j.inserted \in Nat /\ j.dups \in Nat /\ j.err \in BOOLEAN /\ SubBatch \in Nat \ {0}
  BY <1>1, <1>2, JobFacts, ImportAssumption DEF WorkerFits
<1>4. PICK e : e = PieceEnd(j.rows, j.next)
  OBVIOUS
<1>5. rows \in Seq(Names) /\ i \in 1..Len(rows) /\ new \in SUBSET RowSet(piece)
  BY <1>2, <1>3
<1>6. PICK c : c = Cardinality(new)
  OBVIOUS
<1>7. PICK m : m = e - j.next + 1
  OBVIOUS
<1>8. /\ m \in Nat /\ c \in 0..m /\ Len(piece) = m
      /\ new \in SUBSET Names
      /\ \A x \in j.next..e : j.rows[x] \in RowSet(piece)
  <2> HIDE DEF rows, i, new
  <2>1. /\ PieceEnd(rows, i) \in i..Len(rows)
        /\ Len(piece) = PieceEnd(rows, i) - i + 1
        /\ Cardinality(new) \in 0..(PieceEnd(rows, i) - i + 1)
        /\ new \in SUBSET Names
        /\ \A x \in i..PieceEnd(rows, i) : rows[x] \in RowSet(piece)
    BY <1>5, PieceFacts
  <2>2. PieceEnd(rows, i) = e /\ rows = j.rows /\ i = j.next
    BY <1>2, <1>4 DEF rows, i
  <2> QED
    BY <1>3, <1>6, <1>7, <2>1, <2>2
<1>9. \A x \in j.next..e : j.rows[x] \in new \/ Was(j.rows[x])
  BY <1>8 DEF IInv, Was
<1>10. \/ Land(u, new, FALSE) /\ Result(u, k, Cardinality(new), Len(piece) - Cardinality(new), FALSE, i + SubBatch, p)
       \/ Land(u, new, TRUE) /\ Result(u, k, 0, 0, TRUE, i + SubBatch, p)
       \/ UNCHANGED tableVars /\ Result(u, k, 0, 0, TRUE, i + SubBatch, p)
  BY DEF InsertPiece
<1>11. PICK q : q = IF j.next + SubBatch > Len(j.rows) THEN "account" ELSE "sub"
  OBVIOUS
<1>12. q = p /\ rows = j.rows /\ i = j.next
  BY <1>2, <1>11
<1>13. Cardinality(new) \in Nat
  BY <1>6, <1>8
<1> HIDE DEF rows, i, new, piece, p
<1>14. CASE Land(u, new, FALSE) /\ Result(u, k, Cardinality(new), Len(piece) - Cardinality(new), FALSE, i + SubBatch, p)
  <2> DEFINE f == FALSE
  <2>1. PICK d : d = m - c
    OBVIOUS
  <2>2. PICK t : t = [rows |-> j.rows, pc |-> q, next |-> j.next + SubBatch,
                      inserted |-> j.inserted + c, dups |-> j.dups + d, err |-> j.err \/ f]
    OBVIOUS
  <2>3. jobs' = [jobs EXCEPT ![u] = [@ EXCEPT ![k] = t]]
    <3>1. Len(piece) - Cardinality(new) = d /\ Cardinality(new) = c
      BY <1>6, <1>8, <2>1
    <3> QED
      BY <1>2, <1>12, <1>14, <2>2, <3>1 DEF Result
  <2>4. d \in Nat /\ c \in Nat /\ c + d = m
    BY <1>8, <2>1
  <2>5. f \in BOOLEAN /\ ~f
    OBVIOUS
  <2> HIDE DEF f
  <2>6. t \in Job /\ (t.err <=> j.err)
    BY <1>3, <1>11, <2>2, <2>4, <2>5 DEF Job
  <2>7. /\ table' \in SUBSET Profiles /\ everIn' \in SUBSET Profiles
        /\ landed' \in [Uploads -> Nat] /\ unsure' \in [Uploads -> BOOLEAN]
        /\ everIn \subseteq everIn' /\ table' \subseteq everIn'
        /\ \A n \in new : Was(n)'
    BY <1>8, <1>13, <1>14, LandTypes
  <2>8. \A x \in j.next..e : Was(j.rows[x])'
    BY <1>9, <2>7 DEF Was
  <2>9. /\ t.rows = j.rows /\ t.next = j.next + SubBatch /\ t.inserted = j.inserted + c
        /\ t.dups = j.dups + d
        /\ t.pc = IF j.next + SubBatch > Len(j.rows) THEN "account" ELSE "sub"
    BY <1>11, <2>2
  <2>10. j.pc = "sub" /\ c + d <= m
    BY <1>1, <1>2, <1>8, <2>4
  <2>11. PieceLanded(u, c)
    <3>1. PICK lost \in BOOLEAN : lost = FALSE /\ Land(u, new, lost)
      BY <1>14
    <3>2. /\ landed'[u] = landed[u] + c /\ (unsure'[u] <=> unsure[u])
          /\ \A v \in Uploads \ {u} : landed'[v] = landed[v] /\ unsure'[v] = unsure[v]
      BY <1>6, <3>1, Lands
    <3> QED
      BY <2>4, <3>2 DEF PieceLanded
  <2>12. PieceTried(u, k, j, e, m, c, d, t)
    BY <1>1, <1>2, <1>4, <1>7, <2>3, <2>4, <2>6, <2>7, <2>8, <2>9, <2>10, <2>11, Zenon DEF PieceTried
  <2> QED
    BY <2>12
<1>15. CASE (Land(u, new, TRUE) \/ UNCHANGED tableVars) /\ Result(u, k, 0, 0, TRUE, i + SubBatch, p)
  <2> DEFINE f == TRUE
  <2>1. PICK t : t = [rows |-> j.rows, pc |-> q, next |-> j.next + SubBatch,
                      inserted |-> j.inserted + 0, dups |-> j.dups + 0, err |-> j.err \/ f]
    OBVIOUS
  <2>2. jobs' = [jobs EXCEPT ![u] = [@ EXCEPT ![k] = t]]
    BY <1>2, <1>12, <1>15, <2>1 DEF Result
  <2>3. f \in BOOLEAN
    OBVIOUS
  <2>4. f
    OBVIOUS
  <2> HIDE DEF f
  <2>5. t \in Job /\ (t.err <=> j.err \/ f)
    BY <1>3, <1>11, <2>1, <2>3 DEF Job
  <2>6. /\ table' \in SUBSET Profiles /\ everIn' \in SUBSET Profiles
        /\ landed' \in [Uploads -> Nat] /\ unsure' \in [Uploads -> BOOLEAN]
        /\ everIn \subseteq everIn' /\ table' \subseteq everIn'
    <3>1. CASE Land(u, new, TRUE)
      BY <1>8, <1>13, <3>1, LandTypes
    <3>2. CASE UNCHANGED tableVars
      BY <3>2 DEF tableVars, IInv, TypeOK
    <3> QED
      BY <1>15, <3>1, <3>2
  <2>7. /\ t.rows = j.rows /\ t.next = j.next + SubBatch /\ t.inserted = j.inserted + 0
        /\ t.dups = j.dups + 0
        /\ t.pc = IF j.next + SubBatch > Len(j.rows) THEN "account" ELSE "sub"
    BY <1>11, <2>1
  <2>8. 0 + 0 <= m /\ 0 + 0 = 0 /\ 0 \in Nat
    BY <1>8
  <2>9. j.pc = "sub" /\ t.err
    BY <1>1, <1>2, <2>4, <2>5
  <2>10. PieceLanded(u, 0)
    <3>1. CASE Land(u, new, TRUE)
      <4>1. PICK lost \in BOOLEAN : lost = TRUE /\ Land(u, new, lost)
        BY <3>1
      <4>2. /\ landed'[u] = landed[u] + c /\ unsure'[u] /\ c \in Nat
            /\ \A v \in Uploads \ {u} : landed'[v] = landed[v] /\ unsure'[v] = unsure[v]
        BY <1>6, <1>13, <4>1, Lands
      <4> QED
        BY <4>2 DEF PieceLanded
    <3>2. CASE UNCHANGED tableVars
      BY <3>2, NothingLands DEF PieceLanded
    <3> QED
      BY <1>15, <3>1, <3>2
  <2>11. PieceTried(u, k, j, e, m, 0, 0, t)
    BY <1>1, <1>2, <1>4, <1>7, <2>2, <2>5, <2>6, <2>7, <2>8, <2>9, <2>10, Zenon DEF PieceTried
  <2> QED
    BY <2>11
<1> QED
  BY <1>10, <1>14, <1>15

LEMMA InsertPieceIInv ==
  ASSUME IInv, NEW u \in Uploads, NEW k \in DOMAIN jobs[u], InsertPiece(u, k) PROVE IInv'
  BY InsertPieceTried, PieceStep

-----------------------------------------------------------------------------
(* A worker begins; a worker returns.                                      *)

\* What a worker that begins changes of jobs.
LEMMA JobAdded ==
  ASSUME TypeOK, NEW u \in Uploads, NEW j \in Job, jobs' = [jobs EXCEPT ![u] = Append(@, j)]
  PROVE  \E k : /\ jobs' \in [Uploads -> Seq(Job)]
                /\ \A v \in Uploads \ {u} : jobs'[v] = jobs[v]
                /\ DOMAIN jobs'[u] = DOMAIN jobs[u] \cup {k} /\ k \notin DOMAIN jobs[u]
                /\ \A l \in DOMAIN jobs[u] : jobs'[u][l] = jobs[u][l]
                /\ jobs'[u][k] = j
<1>1. PICK s \in Seq(Job) : s = jobs[u]
  BY DEF TypeOK
<1>2. jobs' = [jobs EXCEPT ![u] = Append(s, j)]
  BY <1>1
<1>3. PICK k : k = Len(s) + 1
  OBVIOUS
<1>4. /\ Len(s) \in Nat /\ k \in Nat /\ DOMAIN s = 1..Len(s) /\ k \notin DOMAIN s
      /\ Append(s, j) \in Seq(Job) /\ DOMAIN Append(s, j) = DOMAIN s \cup {k}
      /\ \A l \in DOMAIN s : Append(s, j)[l] = s[l]
      /\ Append(s, j)[k] = j
  <2>1. Len(s) \in Nat /\ DOMAIN s = 1..Len(s)
    BY LenProperties
  <2>2. /\ Append(s, j) \in Seq(Job) /\ Len(Append(s, j)) = Len(s) + 1
        /\ \A l \in 1..Len(s) : Append(s, j)[l] = s[l]
        /\ Append(s, j)[Len(s) + 1] = j
    BY AppendProperties
  <2>3. DOMAIN Append(s, j) = 1..(Len(s) + 1)
    BY <2>2, LenProperties
  <2> QED
    BY <1>3, <2>1, <2>2, <2>3
<1>5. jobs \in [Uploads -> Seq(Job)]
  BY DEF TypeOK
<1>6. jobs'[u] = Append(s, j) /\ \A v \in Uploads \ {u} : jobs'[v] = jobs[v]
  BY <1>2, <1>5
<1> QED
  BY <1>1, <1>2, <1>4, <1>5, <1>6

LEMMA SpawnIInv == ASSUME IInv, NEW u \in Uploads, Spawn(u) PROVE IInv'
<1> USE DEF Spawn
<1>1. PICK b \in Seq(Names) : b = batch[u]
  BY DEF IInv, TypeOK
<1>2. PICK j : j = [rows |-> b, pc |-> "copy", next |-> 1, inserted |-> 0, dups |-> 0, err |-> FALSE]
  OBVIOUS
<1>3. j \in Job /\ j.pc = "copy" /\ j.rows = b
  BY <1>2 DEF Job
<1>4. b # <<>>
  BY <1>1 DEF IInv, HandlerFits
<1>6. jobs' = [jobs EXCEPT ![u] = Append(@, j)]
  BY <1>1, <1>2
<1>9. PICK k : /\ jobs' \in [Uploads -> Seq(Job)]
               /\ \A v \in Uploads \ {u} : jobs'[v] = jobs[v]
               /\ DOMAIN jobs'[u] = DOMAIN jobs[u] \cup {k} /\ k \notin DOMAIN jobs[u]
               /\ \A l \in DOMAIN jobs[u] : jobs'[u][l] = jobs[u][l]
               /\ jobs'[u][k] = j
  <2>1. TypeOK
    BY DEF IInv
  <2> QED
    BY <1>3, <1>6, <2>1, JobAdded
<1>10. Active(u)' = Active(u) \cup {k} /\ k \notin Active(u) /\ \A v \in Uploads \ {u} : Active(v)' = Active(v)
  BY <1>3, <1>9 DEF Active
<1>11. /\ sem' = sem + 1 /\ sem < Workers /\ sem \in 0..Workers /\ Workers \in 1..16
       /\ wg' = [wg EXCEPT ![u] = @ + 1] /\ wg \in [Uploads -> Nat]
  BY ImportAssumption DEF IInv, TypeOK, SlotFree
<1>12. TypeOK'
  <2>1. batch' \in [Uploads -> Seq(Names)] /\ \A v \in Uploads : Len(batch'[v]) <= ChunkSize
    <3>1. batch' = [batch EXCEPT ![u] = <<>>] /\ batch \in [Uploads -> Seq(Names)]
      BY DEF IInv, TypeOK
    <3>2. <<>> \in Seq(Names) /\ Len(<<>>) = 0
      BY EmptySeq
    <3>3. \A v \in Uploads : batch'[v] = IF v = u THEN <<>> ELSE batch[v]
      BY <3>1
    <3> QED
      BY <3>1, <3>2, <3>3, ImportAssumption DEF IInv, TypeOK
  <2>2. hpc' \in [Uploads -> {"idle", "rejected", "receive", "full", "last", "wait", "done"}]
    BY DEF IInv, TypeOK
  <2>3. sem' \in 0..Workers /\ wg' \in [Uploads -> Nat]
    BY <1>11
  <2> QED
    BY <1>9, <2>1, <2>2, <2>3 DEF IInv, TypeOK, tableVars, readerVars
<1>13. Counted'
  <2>1. Running' = Running \cup {<<u, k>>} /\ <<u, k>> \notin Running
    BY <1>10 DEF Running
  <2>2. IsFiniteSet(Running') /\ Cardinality(Running') = sem'
    BY <1>11, <2>1, FS_AddElement DEF IInv, Counted
  <2>3. IsFiniteSet(Active(u)') /\ Cardinality(Active(u)') = wg'[u]
    BY <1>10, <1>11, FS_AddElement DEF IInv, Counted
  <2>4. \A v \in Uploads \ {u} : IsFiniteSet(Active(v)') /\ Cardinality(Active(v)') = wg'[v]
    BY <1>10, <1>11 DEF IInv, Counted
  <2> QED
    BY <2>2, <2>3, <2>4 DEF Counted
<1>14. WorkersFit'
  <2>1. ASSUME NEW v \in Uploads, NEW l \in DOMAIN jobs[v] PROVE WorkerFits(jobs[v][l])'
    <3>1. PICK x : x = jobs[v][l]
      OBVIOUS
    <3>2. WorkerFits(x)'
      BY <3>1, FitsLater DEF IInv, WorkersFit, tableVars
    <3> QED
      BY <1>9, <3>1, <3>2
  <2>2. WorkerFits(j)'
    BY <1>2, <1>4 DEF WorkerFits
  <2> QED
    BY <1>9, <2>1, <2>2 DEF WorkersFit
<1>15. ASSUME NEW v \in Uploads PROVE HandlerFits(v)'
  <2>1. CASE v = u
    <3>1. /\ batch'[u] = <<>> /\ Len(<<>>) = 0
          /\ hpc'[u] = IF hpc[u] = "last" THEN "wait" ELSE "receive"
      BY DEF IInv, TypeOK
    <3> QED
      BY <2>1, <3>1, ImportAssumption DEF IInv, HandlerFits, readerVars
  <2>2. CASE v # u
    <3>1. batch'[v] = batch[v] /\ hpc'[v] = hpc[v] /\ wg'[v] = wg[v]
      BY <2>2 DEF IInv, TypeOK
    <3> QED
      BY <3>1 DEF IInv, HandlerFits, readerVars
  <2> QED
    BY <2>1, <2>2
<1>16. ASSUME NEW v \in Uploads, NEW n, Accounted(v, n) PROVE Accounted(v, n)'
  <2>1. \A m : Holds(rowCh[v], m)' = Holds(rowCh[v], m) /\ Was(m)' = Was(m)
    BY DEF Holds, Was, readerVars, tableVars
  <2>2. CASE v = u
    <3>1. Holds(batch[u], n) => Holds(jobs'[u][k].rows, n)
      BY <1>1, <1>3, <1>9
    <3>2. \A l \in Active(u) : jobs'[u][l] = jobs[u][l]
      BY <1>9 DEF Active
    <3>3. (\E l \in Active(u) : Holds(jobs[u][l].rows, n)) \/ Holds(batch[u], n)
             => \E l \in Active(u)' : Holds(jobs'[u][l].rows, n)
      BY <1>10, <3>1, <3>2
    <3>4. \A l : Holds(jobs[u][l].rows, n)' = Holds(jobs'[u][l].rows, n)
      BY DEF Holds
    <3> QED
      BY <1>16, <2>1, <2>2, <3>3, <3>4 DEF Accounted
  <2>3. CASE v # u
    <3>1. batch'[v] = batch[v] /\ jobs'[v] = jobs[v] /\ Active(v)' = Active(v)
      BY <1>9, <1>10, <2>3 DEF IInv, TypeOK
    <3>2. \A m : Holds(batch[v], m)' = Holds(batch[v], m)
      BY <3>1 DEF Holds
    <3>3. \A l : Holds(jobs[v][l].rows, n)' = Holds(jobs[v][l].rows, n)
      BY <3>1 DEF Holds
    <3> QED
      BY <1>16, <2>1, <3>1, <3>2, <3>3 DEF Accounted
  <2> QED
    BY <2>2, <2>3
<1>17. ASSUME NEW v \in Uploads PROVE Carried(v)'
  BY <1>16 DEF IInv, Carried, readerVars
<1> QED
  BY <1>12, <1>13, <1>14, <1>15, <1>17 DEF IInv, tableVars

\* What a worker that returns has left to count.
LEMMA FailedCounts ==
  ASSUME NEW j \in Job, j.pc = "account", WorkerFits(j)
  PROVE  Failed(j) \in Nat /\ (j.err => Failed(j) > 0)
<1>1. /\ Len(j.rows) \in Nat /\ j.inserted \in Nat /\ j.dups \in Nat /\ j.err \in BOOLEAN
      /\ j.inserted + j.dups <= Len(j.rows)
      /\ j.err => j.inserted + j.dups < Len(j.rows)
  BY LenProperties DEF Job, WorkerFits
<1> QED
  BY <1>1 DEF Failed

\* The counters after a worker has returned.
LEMMA AccountStats ==
  ASSUME IInv, NEW u \in Uploads, NEW k \in DOMAIN jobs[u], Account(u, k)
  PROVE  /\ stats' \in [Uploads -> [TotalRows : Nat, Inserted : Nat, Skipped : Nat,
                                    Reasons : [Reasons -> Nat]]]
         /\ \A v \in Uploads \ {u} : stats'[v] = stats[v]
         /\ stats[u].Reasons["batch_error"] \in Nat
         /\ stats'[u].Reasons["batch_error"] = stats[u].Reasons["batch_error"] + Failed(jobs[u][k])
<1> DEFINE S == [TotalRows : Nat, Inserted : Nat, Skipped : Nat, Reasons : [Reasons -> Nat]]
<1>1. PICK j \in Job : j = jobs[u][k] /\ j.pc = "account" /\ WorkerFits(j)
  BY JobFacts DEF Account
<1>2. PICK f \in Nat : f = Failed(j)
  BY <1>1, FailedCounts
<1>3. PICK s \in S : s = stats[u]
  BY DEF IInv, TypeOK
<1>4. j.inserted \in Nat /\ j.dups \in Nat
  BY DEF Job
<1>5. PICK r : r = [s.Reasons EXCEPT !["duplicate_name"] = @ + j.dups, !["batch_error"] = @ + f]
  OBVIOUS
<1>6. /\ s.Reasons \in [Reasons -> Nat] /\ r \in [Reasons -> Nat]
      /\ s.Reasons["batch_error"] \in Nat /\ r["batch_error"] = s.Reasons["batch_error"] + f
  BY <1>4, <1>5 DEF Reasons
<1>7. PICK t : t = [TotalRows |-> s.TotalRows, Inserted |-> s.Inserted + j.inserted,
                    Skipped |-> s.Skipped + j.dups + f, Reasons |-> r]
  OBVIOUS
<1>8. t \in S /\ t.Reasons = r
  BY <1>4, <1>6, <1>7
<1>9. stats' = [stats EXCEPT ![u] = t]
  BY <1>1, <1>2, <1>3, <1>5, <1>7 DEF Account
<1>10. stats \in [Uploads -> S]
  BY DEF IInv, TypeOK
<1> HIDE DEF S
<1>11. stats' \in [Uploads -> S] /\ stats'[u] = t /\ \A v \in Uploads \ {u} : stats'[v] = stats[v]
  BY <1>8, <1>9, <1>10
<1> QED
  BY <1>1, <1>2, <1>3, <1>6, <1>8, <1>11 DEF S

LEMMA AccountIInv ==
  ASSUME IInv, NEW u \in Uploads, NEW k \in DOMAIN jobs[u], Account(u, k) PROVE IInv'
<1>1. PICK j \in Job : j = jobs[u][k] /\ j.pc = "account" /\ WorkerFits(j)
  BY JobFacts DEF Account
<1>2. /\ UNCHANGED <<tableVars, readerVars, handlerVars>> /\ sem' = sem - 1
      /\ wg' = [wg EXCEPT ![u] = @ - 1] /\ jobs' = [jobs EXCEPT ![u] = [@ EXCEPT ![k] = Returned]]
  BY DEF Account, ReleaseSlot
<1>3. Returned \in Job /\ Returned.pc = "done"
  <2>1. <<>> \in Seq(Names)
    BY EmptySeq
  <2> QED
    BY <2>1 DEF Returned, Job
<1>4. /\ jobs' \in [Uploads -> Seq(Job)]
      /\ \A v \in Uploads \ {u} : jobs'[v] = jobs[v]
      /\ DOMAIN jobs'[u] = DOMAIN jobs[u]
      /\ \A l \in DOMAIN jobs[u] \ {k} : jobs'[u][l] = jobs[u][l]
      /\ jobs'[u][k] = Returned
  <2>1. PICK t \in Job : t = Returned
    BY <1>3
  <2>2. TypeOK /\ jobs' = [jobs EXCEPT ![u] = [@ EXCEPT ![k] = t]]
    BY <1>2, <2>1 DEF IInv
  <2> QED
    BY <2>1, <2>2, JobsFacts
<1>5. Active(u)' = Active(u) \ {k} /\ k \in Active(u) /\ \A v \in Uploads \ {u} : Active(v)' = Active(v)
  BY <1>1, <1>3, <1>4 DEF Active
<1>6. Counted' /\ sem' \in 0..Workers /\ wg' \in [Uploads -> Nat]
  <2>1. Running' = Running \ {<<u, k>>} /\ <<u, k>> \in Running
    BY <1>5 DEF Running
  <2>2. IsFiniteSet(Running') /\ Cardinality(Running') = sem'
    BY <1>2, <2>1, FS_RemoveElement DEF IInv, Counted
  <2>3. wg \in [Uploads -> Nat] /\ sem \in 0..Workers /\ Workers \in 1..16
    BY ImportAssumption DEF IInv, TypeOK
  <2>4. IsFiniteSet(Active(u)') /\ Cardinality(Active(u)') = wg'[u]
    BY <1>2, <1>5, <2>3, FS_RemoveElement DEF IInv, Counted
  <2>5. \A v \in Uploads \ {u} : IsFiniteSet(Active(v)') /\ Cardinality(Active(v)') = wg'[v]
    BY <1>2, <1>5, <2>3 DEF IInv, Counted
  <2>6. sem' \in Nat /\ wg'[u] \in Nat
    BY <2>2, <2>4, FS_CardinalityType
  <2>7. sem' \in 0..Workers
    BY <1>2, <2>3, <2>6
  <2>8. wg' \in [Uploads -> Nat]
    BY <1>2, <2>3, <2>6
  <2> QED
    BY <2>2, <2>4, <2>5, <2>7, <2>8 DEF Counted
<1>7. TypeOK'
  BY <1>2, <1>4, <1>6, AccountStats DEF IInv, TypeOK, tableVars, readerVars, handlerVars
<1>8. WorkersFit'
  <2>1. ASSUME NEW v \in Uploads, NEW l \in DOMAIN jobs[v], ~(v = u /\ l = k) PROVE WorkerFits(jobs[v][l])'
    <3>1. PICK x : x = jobs[v][l]
      OBVIOUS
    <3>2. WorkerFits(x)'
      BY <1>2, <3>1, FitsLater DEF IInv, WorkersFit, tableVars
    <3>3. jobs'[v][l] = x
      BY <1>4, <2>1, <3>1
    <3> QED
      BY <3>2, <3>3
  <2>2. WorkerFits(Returned)'
    BY DEF WorkerFits, Returned
  <2> QED
    BY <1>4, <2>1, <2>2 DEF WorkersFit
<1>9. ASSUME NEW v \in Uploads PROVE HandlerFits(v)'
  <2>1. hpc[v] = "done" => v # u
    <3>1. wg[u] # 0
      BY <1>5, FS_EmptySet DEF IInv, Counted
    <3> QED
      BY <3>1 DEF IInv, HandlerFits
  <2>2. v # u => wg'[v] = wg[v]
    BY <1>2 DEF IInv, TypeOK
  <2> QED
    BY <1>2, <2>1, <2>2 DEF IInv, HandlerFits, readerVars, handlerVars
<1>10. ASSUME NEW v \in Uploads, NEW n, Accounted(v, n) PROVE Accounted(v, n)'
  <2>1. \A m : /\ Holds(rowCh[v], m)' = Holds(rowCh[v], m) /\ Holds(batch[v], m)' = Holds(batch[v], m)
               /\ Was(m)' = Was(m)
    BY <1>2 DEF Holds, Was, readerVars, handlerVars, tableVars
  <2>2. \A l : Holds(jobs[v][l].rows, n)' = Holds(jobs'[v][l].rows, n)
    BY DEF Holds
  <2>3. CASE v # u
    <3>1. jobs'[v] = jobs[v] /\ Active(v)' = Active(v) /\ stats'[v] = stats[v]
      BY <1>4, <1>5, <2>3, AccountStats
    <3> QED
      BY <1>10, <2>1, <2>2, <3>1 DEF Accounted
  <2>4. CASE v = u
    <3>1. Failed(j) \in Nat /\ (j.err => Failed(j) > 0)
      BY <1>1, FailedCounts
    <3>2. /\ stats[u].Reasons["batch_error"] \in Nat
          /\ stats'[u].Reasons["batch_error"] = stats[u].Reasons["batch_error"] + Failed(j)
      BY <1>1, AccountStats
    <3>3. /\ stats[u].Reasons["batch_error"] > 0 => stats'[u].Reasons["batch_error"] > 0
          /\ j.err => stats'[u].Reasons["batch_error"] > 0
      BY <3>1, <3>2
    <3>4. ASSUME NEW l \in Active(u) \ {k}, Holds(jobs[u][l].rows, n) PROVE Accounted(u, n)'
      <4>1. l \in Active(u)' /\ Holds(jobs'[u][l].rows, n)
        BY <1>4, <1>5, <3>4 DEF Active
      <4> QED
        BY <2>2, <2>4, <4>1 DEF Accounted
    <3>5. ASSUME Holds(j.rows, n), ~j.err PROVE Was(n)
      BY <1>1, <3>5 DEF WorkerFits, Holds
    <3> QED
      BY <1>1, <1>10, <2>1, <2>4, <3>3, <3>4, <3>5 DEF Accounted
  <2> QED
    BY <2>3, <2>4
<1>11. ASSUME NEW v \in Uploads PROVE Carried(v)'
  BY <1>2, <1>10 DEF IInv, Carried, readerVars, handlerVars
<1> QED
  BY <1>2, <1>6, <1>7, <1>8, <1>9, <1>11 DEF IInv, tableVars

-----------------------------------------------------------------------------
(* Other requests, and the theorems.                                       *)

\* What is in the table for other requests' sake disturbs no upload.
LEMMA OthersStep ==
  ASSUME IInv, UNCHANGED <<landed, unsure, sem, readerVars, handlerVars, jobs, wg, stats>>,
         table' \in SUBSET Profiles, everIn' \in SUBSET Profiles,
         everIn \subseteq everIn', table' \subseteq everIn'
  PROVE  IInv'
<1> USE DEF readerVars, handlerVars
<1>1. TypeOK'
  BY DEF IInv, TypeOK
<1>2. Counted'
  BY CountedSame DEF IInv, Active
<1>3. WorkersFit'
  BY FitsLater DEF IInv, WorkersFit
<1>4. ASSUME NEW u \in Uploads PROVE HandlerFits(u)' /\ Carried(u)'
  <2>1. HandlerFits(u)'
    BY DEF IInv, HandlerFits
  <2>2. stats[u].Reasons["batch_error"] \in Nat
    BY DEF IInv, TypeOK, Reasons
  <2> QED
    BY <2>1, <2>2, StillCarried DEF IInv
<1> QED
  BY <1>1, <1>2, <1>3, <1>4 DEF IInv

LEMMA CreateProfileIInv == ASSUME IInv, NEW n \in Names, CreateProfile(n) PROVE IInv'
<1>1. Imported({n}) \subseteq Profiles
  BY DEF Imported, Profiles
<1> QED
  BY <1>1, OthersStep DEF CreateProfile, IInv, TypeOK

LEMMA DeleteProfileIInv == ASSUME IInv, NEW x \in Profiles, DeleteProfile(x) PROVE IInv'
<1>1. table' \in SUBSET Profiles /\ UNCHANGED everIn /\ table' \subseteq everIn'
  BY DEF DeleteProfile, IInv, TypeOK
<1> QED
  BY <1>1, OthersStep DEF DeleteProfile, IInv, TypeOK

LEMMA InitIInv == Init => IInv
<1> SUFFICES ASSUME Init PROVE IInv
  OBVIOUS
<1> USE DEF Init
<1>1. \A u \in Uploads : jobs[u] = <<>> /\ rowCh[u] = <<>> /\ batch[u] = <<>> /\ pos[u] = 0
  OBVIOUS
<1>2. \A u \in Uploads : Active(u) = {} /\ DOMAIN jobs[u] = {}
  BY <1>1 DEF Active
<1>3. Running = {}
  BY <1>2 DEF Running
<1>4. Counted
  BY <1>2, <1>3, FS_EmptySet DEF Counted
<1>5. TypeOK
  <2>1. {<<n, "seeded">> : n \in Seeded} \subseteq Profiles
    BY ImportAssumption DEF Profiles
  <2>2. /\ rowCh \in [Uploads -> Seq(Names \cup {Invalid})] /\ batch \in [Uploads -> Seq(Names)]
        /\ jobs \in [Uploads -> Seq(Job)]
    BY EmptySeq
  <2>3. \A u \in Uploads : Len(rowCh[u]) = 0 /\ Len(batch[u]) = 0
    BY <1>1, EmptySeq
  <2>4. NoStats \in [TotalRows : Nat, Inserted : Nat, Skipped : Nat, Reasons : [Reasons -> Nat]]
    BY DEF NoStats
  <2>5. sem \in 0..Workers
    BY ImportAssumption
  <2> QED
    BY <2>1, <2>2, <2>3, <2>4, <2>5, ImportAssumption DEF TypeOK
<1>6. ASSUME NEW u \in Uploads PROVE HandlerFits(u)
  <2>1. Len(file[u]) \in Nat
    BY <1>5, RowTypes
  <2>2. Len(batch[u]) = 0 /\ hpc[u] = "idle" /\ ~closed[u]
    BY <1>1, EmptySeq
  <2> QED
    BY <1>1, <2>1, <2>2, ImportAssumption DEF HandlerFits
<1> QED
  BY <1>1, <1>2, <1>4, <1>5, <1>6 DEF IInv, WorkersFit, Carried

LEMMA StutterIInv == IInv /\ UNCHANGED vars => IInv'
<1> SUFFICES ASSUME IInv, UNCHANGED vars PROVE IInv'
  OBVIOUS
<1> QED
  BY OthersStep DEF vars, tableVars, IInv, TypeOK

LEMMA NextIInv == ASSUME IInv, Next PROVE IInv'
<1>1. ASSUME NEW u \in Uploads, Begin(u) PROVE IInv'
  BY <1>1, BeginIInv
<1>2. ASSUME NEW u \in Uploads, Reader(u) PROVE IInv'
  BY <1>2, ReadMalformedIInv, ReadRowIInv, ReadEOFIInv DEF Reader
<1>3. ASSUME NEW u \in Uploads, Handler(u) PROVE IInv'
  BY <1>3, ReceiveInvalidIInv, ReceiveRowIInv, EndOfRowsIInv, SpawnIInv, RespondIInv DEF Handler
<1>4. ASSUME NEW u \in Uploads, NEW k \in DOMAIN jobs[u], Worker(u, k) PROVE IInv'
  BY <1>4, CopyAllIInv, CopyConflictIInv, CopyFailsIInv, InsertPieceIInv, AccountIInv DEF Worker
<1> QED
  BY <1>1, <1>2, <1>3, <1>4, CreateProfileIInv, DeleteProfileIInv DEF Next

\* IInv is inductive.
THEOREM SpecIInv == Spec => []IInv
<1>1. IInv /\ [Next]_vars => IInv'
  BY NextIInv, StutterIInv
<1> QED
  BY <1>1, InitIInv, PTL DEF Spec

\* The variables of an import have their types, and the channel of rows and the
\* semaphore never hold more than they were made for, whatever their sizes.
THEOREM ImportTypes == Spec => []TypeOK
<1>1. IInv => TypeOK
  BY DEF IInv
<1> QED
  BY <1>1, SpecIInv, PTL

\* The workers of all uploads together are never more than importSem admits.
THEOREM WorkersStayBounded == Spec => []WorkersBounded
<1>1. IInv => WorkersBounded
  BY ImportAssumption DEF IInv, Counted, TypeOK, WorkersBounded
<1> QED
  BY <1>1, SpecIInv, PTL

\* An upload that is answered without a batch error has dropped no person of its
\* file, for any file, batch and piece sizes and other requests on the table.
THEOREM NobodyDropped == Spec => []NothingDropped
<1>1. ASSUME IInv, NEW u \in Uploads, hpc[u] = "done", stats[u].Reasons["batch_error"] = 0,
             NEW n \in Good(u)
      PROVE  Was(n)
  <2>1. PICK i \in 1..Len(file[u]) : file[u][i] = n
    BY <1>1, RowTypes, LenProperties DEF Good, IInv
  <2>2. pos[u] = Len(file[u]) /\ rowCh[u] = <<>> /\ batch[u] = <<>> /\ wg[u] = 0
    BY <1>1 DEF IInv, HandlerFits
  <2>3. Accounted(u, n)
    BY <1>1, <2>1, <2>2 DEF IInv, Carried, Good
  <2>4. Active(u) = {}
    <3>1. IsFiniteSet(Active(u)) /\ Cardinality(Active(u)) = 0
      BY <1>1, <2>2 DEF IInv, Counted
    <3> QED
      BY <3>1, FS_EmptySet
  <2>5. ~Holds(rowCh[u], n) /\ ~Holds(batch[u], n)
    BY <2>2, EmptySeq DEF Holds
  <2> QED
    BY <1>1, <2>3, <2>4, <2>5 DEF Accounted
<1>2. IInv => NothingDropped
  BY <1>1 DEF NothingDropped, Imported, Was
<1> QED
  BY <1>2, SpecIInv, PTL

-----------------------------------------------------------------------------
(* Sums.  What the workers of an upload have in hand is a sum over them; a *)
(* sum of numbers f[k] is the cardinality of a set of as many cells.       *)

Cells(f) == UNION {{k} \X (1..f[k]) : k \in DOMAIN f}

\* The rows in workers' hands, and those of them that are known to be added.
Owed(u) == Cells([k \in DOMAIN jobs[u] |-> Len(jobs[u][k].rows)])
Unreported(u) == Cells([k \in DOMAIN jobs[u] |-> jobs[u][k].inserted])

\* A worker without an error knows what became of each row it has tried.
Exact(j) == /\ j.pc = "done" => j.rows = <<>> /\ j.inserted = 0
            /\ j.pc = "sub" /\ ~j.err => j.inserted + j.dups = j.next - 1
            /\ j.pc = "account" /\ ~j.err => j.inserted + j.dups = Len(j.rows)

Skips(u) == stats[u].Reasons["malformed_csv"] + stats[u].Reasons["invalid_row"]
              + stats[u].Reasons["duplicate_name"] + stats[u].Reasons["batch_error"]

Sums(u) ==
  /\ IsFiniteSet(Owed(u)) /\ IsFiniteSet(Unreported(u))
  /\ stats[u].TotalRows + Len(rowCh[u]) = pos[u]
  /\ stats[u].TotalRows = stats[u].Inserted + stats[u].Skipped + Len(batch[u]) + Cardinality(Owed(u))
  /\ stats[u].Skipped = Skips(u)
  /\ stats[u].Inserted + Cardinality(Unreported(u)) <= landed[u]
  /\ ~unsure[u] => stats[u].Inserted + Cardinality(Unreported(u)) = landed[u]

SInv == \A u \in Uploads : Sums(u) /\ \A k \in DOMAIN jobs[u] : Exact(jobs[u][k])

\* A sum, and one more number.
LEMMA CellsPlus ==
  ASSUME NEW B, NEW k, NEW n \in Nat, IsFiniteSet(B), \A i : <<k, i>> \notin B
  PROVE  /\ IsFiniteSet(B \cup ({k} \X (1..n)))
         /\ Cardinality(B \cup ({k} \X (1..n))) = Cardinality(B) + n
<1>1. IsFiniteSet(1..n) /\ Cardinality(1..n) = n
  <2>1. 1 \in Int /\ n \in Int
    OBVIOUS
  <2>2. IsFiniteSet(1..n) /\ Cardinality(1..n) = IF 1 > n THEN 0 ELSE n - 1 + 1
    BY <2>1, FS_Interval
  <2> QED
    BY <2>2
<1>2. PICK S : S = 1..n
  OBVIOUS
<1>3. PICK K : K = {k}
  OBVIOUS
<1>4. IsFiniteSet(K) /\ Cardinality(K) = 1
  BY <1>3, FS_Singleton
<1>5. IsFiniteSet(S) /\ Cardinality(S) = n
  BY <1>1, <1>2
<1>6. IsFiniteSet(K \X S) /\ Cardinality(K \X S) = Cardinality(K) * Cardinality(S)
  BY <1>4, <1>5, FS_Product
<1>7. PICK C : C = K \X S
  OBVIOUS
<1>8. IsFiniteSet(C) /\ Cardinality(C) = n
  BY <1>4, <1>5, <1>6, <1>7
<1>9. B \cap C = {}
  <2>1. \A x \in C : \E i : x = <<k, i>>
    BY <1>3, <1>7
  <2> QED
    BY <2>1
<1>10. /\ IsFiniteSet(B \cup C)
       /\ Cardinality(B \cup C) = Cardinality(B) + Cardinality(C) - Cardinality(B \cap C)
  BY <1>8, FS_Union
<1>11. Cardinality(B \cap C) = 0 /\ Cardinality(B) \in Nat
  BY <1>9, FS_EmptySet, FS_CardinalityType
<1>12. Cardinality(B \cup C) = Cardinality(B) + n
  BY <1>8, <1>10, <1>11
<1> QED
  BY <1>2, <1>3, <1>7, <1>10, <1>12

LEMMA CellsGrow ==
  ASSUME NEW f, NEW g, NEW k, k \notin DOMAIN f, DOMAIN g = DOMAIN f \cup {k},
         \A l \in DOMAIN f : g[l] = f[l], g[k] \in Nat, IsFiniteSet(Cells(f))
  PROVE  IsFiniteSet(Cells(g)) /\ Cardinality(Cells(g)) = Cardinality(Cells(f)) + g[k]
<1>1. Cells(g) = Cells(f) \cup ({k} \X (1..g[k]))
  BY DEF Cells
<1>2. \A i : <<k, i>> \notin Cells(f)
  BY DEF Cells
<1>3. PICK B : B = Cells(f)
  OBVIOUS
<1> PICK n \in Nat : n = g[k]
  OBVIOUS
<1>4. IsFiniteSet(B \cup ({k} \X (1..n))) /\ Cardinality(B \cup ({k} \X (1..n))) = Cardinality(B) + n
  BY <1>2, <1>3, CellsPlus
<1> QED
  BY <1>1, <1>3, <1>4

LEMMA CellsChange ==
  ASSUME NEW f, NEW g, NEW k \in DOMAIN f, DOMAIN g = DOMAIN f,
         \A l \in DOMAIN f \ {k} : g[l] = f[l], f[k] \in Nat, g[k] \in Nat, IsFiniteSet(Cells(f))
  PROVE  /\ IsFiniteSet(Cells(g)) /\ Cardinality(Cells(f)) \in Nat
         /\ Cardinality(Cells(g)) + f[k] = Cardinality(Cells(f)) + g[k]
<1>1. PICK h : h = [l \in DOMAIN f \ {k} |-> f[l]]
  OBVIOUS
<1>2. IsFiniteSet(Cells(h)) /\ Cardinality(Cells(h)) \in Nat
  <2>1. Cells(h) \in SUBSET Cells(f)
    BY <1>1 DEF Cells
  <2> QED
    BY <2>1, FS_Subset, FS_CardinalityType
<1>3. Cardinality(Cells(f)) = Cardinality(Cells(h)) + f[k]
  BY <1>1, <1>2, CellsGrow
<1>4. IsFiniteSet(Cells(g)) /\ Cardinality(Cells(g)) = Cardinality(Cells(h)) + g[k]
  BY <1>1, <1>2, CellsGrow
<1> QED
  BY <1>2, <1>3, <1>4

LEMMA CellsNone ==
  ASSUME NEW f, \A k \in DOMAIN f : f[k] = 0
  PROVE  IsFiniteSet(Cells(f)) /\ Cardinality(Cells(f)) = 0
<1>1. \A k \in DOMAIN f : 1..f[k] = {}
  OBVIOUS
<1>2. Cells(f) = {}
  BY <1>1 DEF Cells
<1> QED
  BY <1>2, FS_EmptySet

-----------------------------------------------------------------------------

LEMMA SumTypes ==
  ASSUME IInv, NEW u \in Uploads
  PROVE  /\ stats[u].TotalRows \in Nat /\ stats[u].Inserted \in Nat /\ stats[u].Skipped \in Nat
         /\ stats[u].Reasons \in [Reasons -> Nat] /\ Skips(u) \in Nat
         /\ pos[u] \in Nat /\ Len(rowCh[u]) \in Nat /\ Len(batch[u]) \in Nat
         /\ landed[u] \in Nat /\ unsure[u] \in BOOLEAN
<1>1. /\ stats[u].TotalRows \in Nat /\ stats[u].Inserted \in Nat /\ stats[u].Skipped \in Nat
      /\ stats[u].Reasons \in [Reasons -> Nat]
      /\ pos[u] \in Nat /\ landed[u] \in Nat /\ unsure[u] \in BOOLEAN
  BY DEF IInv, TypeOK
<1>2. rowCh[u] \in Seq(Names \cup {Invalid}) /\ batch[u] \in Seq(Names)
  BY DEF IInv, TypeOK
<1>3. Len(rowCh[u]) \in Nat /\ Len(batch[u]) \in Nat
  BY <1>2, LenProperties
<1>4. Skips(u) \in Nat
  BY <1>1 DEF Skips, Reasons
<1> QED
  BY <1>1, <1>3, <1>4

\* The sums of an upload that nothing happens to.
LEMMA SumsSame ==
  ASSUME NEW u \in Uploads, Sums(u),
         UNCHANGED <<jobs[u], stats[u], rowCh[u], pos[u], batch[u], landed[u], unsure[u]>>
  PROVE  Sums(u)'
<1>1. Owed(u)' = Owed(u) /\ Unreported(u)' = Unreported(u) /\ Skips(u)' = Skips(u)
  BY DEF Owed, Unreported, Skips
<1> QED
  BY <1>1 DEF Sums

\* The sums of an upload as numbers.
LEMMA Totals ==
  ASSUME IInv, SInv, NEW u \in Uploads
  PROVE  /\ Cardinality(Owed(u)) \in Nat
         /\ stats[u].TotalRows + Len(rowCh[u]) = pos[u]
         /\ stats[u].TotalRows = stats[u].Inserted + stats[u].Skipped + Len(batch[u]) + Cardinality(Owed(u))
         /\ stats[u].Skipped = Skips(u)
  BY FS_CardinalityType DEF SInv, Sums

\* A step of u's reader or handler that hands nothing to a worker: it reads some
\* rows, puts some in the channel, and counts some, to skip or to keep them.
LEMMA PipelineSums ==
  ASSUME IInv, SInv, NEW u \in Uploads, UNCHANGED <<tableVars, jobs>>,
         \A v \in Uploads \ {u} : UNCHANGED <<stats[v], rowCh[v], pos[v], batch[v]>>,
         NEW read \in Nat, NEW sent \in Int, NEW skip \in Nat, NEW keep \in Nat,
         sent + skip + keep = read,
         pos'[u] = pos[u] + read, Len(rowCh'[u]) = Len(rowCh[u]) + sent,
         Len(batch'[u]) = Len(batch[u]) + keep,
         stats'[u].TotalRows = stats[u].TotalRows + skip + keep,
         stats'[u].Inserted = stats[u].Inserted,
         stats'[u].Skipped = stats[u].Skipped + skip, Skips(u)' = Skips(u) + skip
  PROVE  SInv'
<1>1. Owed(u)' = Owed(u) /\ Unreported(u)' = Unreported(u)
  BY DEF Owed, Unreported
<1>2. /\ stats'[u].TotalRows + Len(rowCh'[u]) = pos'[u]
      /\ stats'[u].TotalRows = stats'[u].Inserted + stats'[u].Skipped + Len(batch'[u]) + Cardinality(Owed(u))
      /\ stats'[u].Skipped = Skips(u)'
  <2>1. PICK total \in Nat : total = stats[u].TotalRows
    BY SumTypes
  <2>2. PICK ins \in Nat : ins = stats[u].Inserted
    BY SumTypes
  <2>3. PICK skipped \in Nat : skipped = stats[u].Skipped
    BY SumTypes
  <2>4. PICK ch \in Nat : ch = Len(rowCh[u])
    BY SumTypes
  <2>5. PICK b \in Nat : b = Len(batch[u])
    BY SumTypes
  <2>6. PICK owed \in Nat : owed = Cardinality(Owed(u))
    BY Totals
  <2>7. total + ch = pos[u] /\ total = ins + skipped + b + owed /\ skipped = Skips(u)
    BY <2>1, <2>2, <2>3, <2>4, <2>5, <2>6, Totals
  <2>8. total + skip + keep + (ch + sent) = (total + ch) + read
    OBVIOUS
  <2>9. total + skip + keep = ins + (skipped + skip) + (b + keep) + owed
    <3>1. total = ins + skipped + b + owed
      BY <2>7
    <3>2. \A a, c, d, e, f, g \in Nat : (a + c + d + e) + f + g = a + (c + f) + (d + g) + e
      OBVIOUS
    <3> QED
      BY <3>1, <3>2
  <2> QED
    BY <2>1, <2>2, <2>3, <2>4, <2>5, <2>6, <2>7, <2>8, <2>9
<1>3. Sums(u)'
  BY <1>1, <1>2 DEF Sums, SInv, tableVars
<1>4. \A v \in Uploads \ {u} : Sums(v)'
  BY SumsSame DEF SInv, tableVars
<1> QED
  BY <1>3, <1>4 DEF SInv, Exact

\* One row is skipped for a reason of the reader's or of the handler's.
LEMMA AddSums ==
  ASSUME IInv, NEW u \in Uploads, NEW r \in {"malformed_csv", "invalid_row"}, Add(u, 1, 0, 1, r)
  PROVE  /\ stats'[u].TotalRows = stats[u].TotalRows + 1
         /\ stats'[u].Inserted = stats[u].Inserted
         /\ stats'[u].Skipped = stats[u].Skipped + 1
         /\ Skips(u)' = Skips(u) + 1
         /\ \A v \in Uploads \ {u} : stats'[v] = stats[v]
<1> DEFINE S == [TotalRows : Nat, Inserted : Nat, Skipped : Nat, Reasons : [Reasons -> Nat]]
<1>1. PICK s \in S : s = stats[u]
  BY DEF IInv, TypeOK
<1>2. PICK f : f = [s.Reasons EXCEPT ![r] = @ + 1]
  OBVIOUS
<1>3. PICK t : t = [TotalRows |-> s.TotalRows + 1, Inserted |-> s.Inserted + 0,
                    Skipped |-> s.Skipped + 1, Reasons |-> f]
  OBVIOUS
<1>4. stats' = [stats EXCEPT ![u] = t]
  BY <1>1, <1>2, <1>3 DEF Add
<1>5. stats \in [Uploads -> S]
  BY DEF IInv, TypeOK
<1>6. stats'[u] = t /\ \A v \in Uploads \ {u} : stats'[v] = stats[v]
  BY <1>4, <1>5
<1>7. /\ t.TotalRows = s.TotalRows + 1 /\ t.Inserted = s.Inserted /\ t.Skipped = s.Skipped + 1
      /\ t.Reasons = f
  BY <1>3
<1>8. f["malformed_csv"] + f["invalid_row"] + f["duplicate_name"] + f["batch_error"]
        = s.Reasons["malformed_csv"] + s.Reasons["invalid_row"]
            + s.Reasons["duplicate_name"] + s.Reasons["batch_error"] + 1
  <2>1. s.Reasons \in [Reasons -> Nat]
    OBVIOUS
  <2>2. CASE r = "malformed_csv"
    BY <1>2, <2>1, <2>2 DEF Reasons
  <2>3. CASE r = "invalid_row"
    BY <1>2, <2>1, <2>3 DEF Reasons
  <2> QED
    BY <2>2, <2>3
<1>9. Skips(u)' = Skips(u) + 1
  BY <1>1, <1>6, <1>7, <1>8 DEF Skips
<1> QED
  BY <1>1, <1>6, <1>7, <1>9

LEMMA SameCounters ==
  ASSUME IInv, SInv, NEW u \in Uploads, UNCHANGED <<tableVars, jobs, stats, rowCh, pos, batch>>
  PROVE  SInv'
<1>1. Skips(u)' = Skips(u)
  BY DEF Skips
<1> DEFINE none == 0
<1>2. /\ pos'[u] = pos[u] + none /\ Len(rowCh'[u]) = Len(rowCh[u]) + none
      /\ Len(batch'[u]) = Len(batch[u]) + none
      /\ stats'[u].TotalRows = stats[u].TotalRows + none + none
      /\ stats'[u].Inserted = stats[u].Inserted
      /\ stats'[u].Skipped = stats[u].Skipped + none /\ Skips(u)' = Skips(u) + none
  BY <1>1, SumTypes
<1>3. none \in Nat /\ none \in Int /\ none + none + none = none
  OBVIOUS
<1> HIDE DEF none
<1> QED
  BY <1>2, <1>3, PipelineSums

LEMMA ReadMalformedSums == ASSUME IInv, SInv, NEW u \in Uploads, ReadMalformed(u) PROVE SInv'
<1> USE DEF ReadMalformed, handlerVars
<1>1. pos'[u] = pos[u] + 1 /\ \A v \in Uploads \ {u} : pos'[v] = pos[v]
  BY DEF IInv, TypeOK
<1>2. /\ stats'[u].TotalRows = stats[u].TotalRows + 1 /\ stats'[u].Inserted = stats[u].Inserted
      /\ stats'[u].Skipped = stats[u].Skipped + 1 /\ Skips(u)' = Skips(u) + 1
      /\ \A v \in Uploads \ {u} : stats'[v] = stats[v]
  BY AddSums
<1> DEFINE read == 1
           sent == 0
           skip == 1
           keep == 0
<1>7. /\ pos'[u] = pos[u] + read /\ Len(rowCh'[u]) = Len(rowCh[u]) + sent
      /\ Len(batch'[u]) = Len(batch[u]) + keep
      /\ stats'[u].TotalRows = stats[u].TotalRows + skip + keep
      /\ stats'[u].Inserted = stats[u].Inserted
      /\ stats'[u].Skipped = stats[u].Skipped + skip /\ Skips(u)' = Skips(u) + skip
  BY <1>1, <1>2, SumTypes
<1>8. read \in Nat /\ sent \in Int /\ skip \in Nat /\ keep \in Nat /\ sent + skip + keep = read
  OBVIOUS
<1>9. /\ UNCHANGED <<tableVars, jobs>>
      /\ \A v \in Uploads \ {u} : UNCHANGED <<stats[v], rowCh[v], pos[v], batch[v]>>
  BY <1>1, <1>2
<1> HIDE DEF read, sent, skip, keep
<1> QED
  BY <1>7, <1>8, <1>9, PipelineSums

LEMMA ReadRowSums == ASSUME IInv, SInv, NEW u \in Uploads, ReadRow(u) PROVE SInv'
<1> USE DEF ReadRow, handlerVars
<1>1. pos'[u] = pos[u] + 1 /\ \A v \in Uploads \ {u} : pos'[v] = pos[v]
  BY DEF IInv, TypeOK
<1>2. Len(rowCh'[u]) = Len(rowCh[u]) + 1 /\ \A v \in Uploads \ {u} : rowCh'[v] = rowCh[v]
  <2>1. rowCh \in [Uploads -> Seq(Names \cup {Invalid})]
    BY DEF IInv, TypeOK
  <2>2. PICK row : row = file[u][pos[u] + 1]
    OBVIOUS
  <2>3. rowCh' = [rowCh EXCEPT ![u] = Append(rowCh[u], row)]
    BY <2>2
  <2>4. row \in Names \cup {Invalid}
    <3>1. pos[u] \in Nat /\ pos[u] + 1 \in 1..Len(file[u])
      BY SumTypes, RowTypes DEF IInv
    <3> QED
      BY <2>2, <3>1, RowTypes DEF IInv
  <2>5. Len(Append(rowCh[u], row)) = Len(rowCh[u]) + 1
    BY <2>1, <2>4, AppendProperties
  <2> QED
    BY <2>1, <2>3, <2>5
<1>3. Skips(u)' = Skips(u)
  BY DEF Skips
<1> DEFINE read == 1
           sent == 1
           skip == 0
           keep == 0
<1>7. /\ pos'[u] = pos[u] + read /\ Len(rowCh'[u]) = Len(rowCh[u]) + sent
      /\ Len(batch'[u]) = Len(batch[u]) + keep
      /\ stats'[u].TotalRows = stats[u].TotalRows + skip + keep
      /\ stats'[u].Inserted = stats[u].Inserted
      /\ stats'[u].Skipped = stats[u].Skipped + skip /\ Skips(u)' = Skips(u) + skip
  BY <1>1, <1>2, <1>3, SumTypes
<1>8. read \in Nat /\ sent \in Int /\ skip \in Nat /\ keep \in Nat /\ sent + skip + keep = read
  OBVIOUS
<1>9. /\ UNCHANGED <<tableVars, jobs>>
      /\ \A v \in Uploads \ {u} : UNCHANGED <<stats[v], rowCh[v], pos[v], batch[v]>>
  BY <1>1, <1>2, <1>3
<1> HIDE DEF read, sent, skip, keep
<1> QED
  BY <1>7, <1>8, <1>9, PipelineSums

LEMMA ReceiveInvalidSums == ASSUME IInv, SInv, NEW u \in Uploads, ReceiveInvalid(u) PROVE SInv'
<1> USE DEF ReceiveInvalid, handlerVars
<1>1. Len(rowCh'[u]) = Len(rowCh[u]) - 1 /\ \A v \in Uploads \ {u} : rowCh'[v] = rowCh[v]
  BY TakenFromChannel DEF IInv
<1>2. /\ stats'[u].TotalRows = stats[u].TotalRows + 1 /\ stats'[u].Inserted = stats[u].Inserted
      /\ stats'[u].Skipped = stats[u].Skipped + 1 /\ Skips(u)' = Skips(u) + 1
      /\ \A v \in Uploads \ {u} : stats'[v] = stats[v]
  BY AddSums
<1> DEFINE read == 0
           sent == 0-1
           skip == 1
           keep == 0
<1>7. /\ pos'[u] = pos[u] + read /\ Len(rowCh'[u]) = Len(rowCh[u]) + sent
      /\ Len(batch'[u]) = Len(batch[u]) + keep
      /\ stats'[u].TotalRows = stats[u].TotalRows + skip + keep
      /\ stats'[u].Inserted = stats[u].Inserted
      /\ stats'[u].Skipped = stats[u].Skipped + skip /\ Skips(u)' = Skips(u) + skip
  BY <1>1, <1>2, SumTypes
<1>8. read \in Nat /\ sent \in Int /\ skip \in Nat /\ keep \in Nat /\ sent + skip + keep = read
  OBVIOUS
<1>9. /\ UNCHANGED <<tableVars, jobs>>
      /\ \A v \in Uploads \ {u} : UNCHANGED <<stats[v], rowCh[v], pos[v], batch[v]>>
  BY <1>1, <1>2
<1> HIDE DEF read, sent, skip, keep
<1> QED
  BY <1>7, <1>8, <1>9, PipelineSums

LEMMA ReceiveRowSums == ASSUME IInv, SInv, NEW u \in Uploads, ReceiveRow(u) PROVE SInv'
<1> USE DEF ReceiveRow
<1>1. Len(rowCh'[u]) = Len(rowCh[u]) - 1 /\ \A v \in Uploads \ {u} : rowCh'[v] = rowCh[v]
  BY TakenFromChannel DEF IInv
<1>2. Len(batch'[u]) = Len(batch[u]) + 1 /\ \A v \in Uploads \ {u} : batch'[v] = batch[v]
  <2>1. batch \in [Uploads -> Seq(Names)]
    BY DEF IInv, TypeOK
  <2>2. PICK n \in Names : n = Head(rowCh[u])
    OBVIOUS
  <2>3. batch' = [batch EXCEPT ![u] = Append(batch[u], n)]
    BY <2>2
  <2>4. Len(Append(batch[u], n)) = Len(batch[u]) + 1
    BY <2>1, AppendProperties
  <2> QED
    BY <2>1, <2>3, <2>4
<1>3. /\ stats'[u].TotalRows = stats[u].TotalRows + 1 /\ stats'[u].Inserted = stats[u].Inserted
      /\ stats'[u].Skipped = stats[u].Skipped /\ stats'[u].Reasons = stats[u].Reasons
      /\ \A v \in Uploads \ {u} : stats'[v] = stats[v]
  BY DEF IInv, TypeOK
<1>4. Skips(u)' = Skips(u)
  BY <1>3 DEF Skips
<1> DEFINE read == 0
           sent == 0-1
           skip == 0
           keep == 1
<1>7. /\ pos'[u] = pos[u] + read /\ Len(rowCh'[u]) = Len(rowCh[u]) + sent
      /\ Len(batch'[u]) = Len(batch[u]) + keep
      /\ stats'[u].TotalRows = stats[u].TotalRows + skip + keep
      /\ stats'[u].Inserted = stats[u].Inserted
      /\ stats'[u].Skipped = stats[u].Skipped + skip /\ Skips(u)' = Skips(u) + skip
  BY <1>1, <1>2, <1>3, <1>4, SumTypes
<1>8. read \in Nat /\ sent \in Int /\ skip \in Nat /\ keep \in Nat /\ sent + skip + keep = read
  OBVIOUS
<1>9. /\ UNCHANGED <<tableVars, jobs>>
      /\ \A v \in Uploads \ {u} : UNCHANGED <<stats[v], rowCh[v], pos[v], batch[v]>>
  BY <1>1, <1>2, <1>3, <1>4
<1> HIDE DEF read, sent, skip, keep
<1> QED
  BY <1>7, <1>8, <1>9, PipelineSums

\* The k-th worker of u was j and is t now; its statement added d rows, of which
\* it was told all, unless the answer was lost.
Told(u, k, d, t) ==
  /\ u \in Uploads /\ k \in DOMAIN jobs[u] /\ d \in Nat
  /\ t \in Job /\ jobs' = [jobs EXCEPT ![u] = [@ EXCEPT ![k] = t]]
  /\ t.rows = jobs[u][k].rows /\ Exact(t)
  /\ t.inserted <= jobs[u][k].inserted + d
  /\ ~unsure'[u] => ~unsure[u] /\ t.inserted = jobs[u][k].inserted + d
  /\ landed'[u] = landed[u] + d
  /\ \A v \in Uploads \ {u} : landed'[v] = landed[v] /\ unsure'[v] = unsure[v]
  /\ UNCHANGED <<readerVars, handlerVars, stats>>

LEMMA ToldSums ==
  ASSUME IInv, SInv, NEW u, NEW k, NEW d, NEW t, Told(u, k, d, t)
  PROVE  SInv'
<1> USE DEF Told, readerVars, handlerVars
<1>1. /\ \A v \in Uploads \ {u} : jobs'[v] = jobs[v]
      /\ DOMAIN jobs'[u] = DOMAIN jobs[u]
      /\ \A l \in DOMAIN jobs[u] \ {k} : jobs'[u][l] = jobs[u][l]
      /\ jobs'[u][k] = t
  BY JobsFacts DEF IInv
<1>2. Owed(u)' = Owed(u)
  <2>1. \A l \in DOMAIN jobs[u] : Len(jobs'[u][l].rows) = Len(jobs[u][l].rows)
    BY <1>1
  <2>2. [l \in DOMAIN jobs'[u] |-> Len(jobs'[u][l].rows)] = [l \in DOMAIN jobs[u] |-> Len(jobs[u][l].rows)]
    BY <1>1, <2>1
  <2> QED
    BY <2>2 DEF Owed
<1>3. PICK f : f = [l \in DOMAIN jobs[u] |-> jobs[u][l].inserted]
  OBVIOUS
<1>4. PICK g : g = [l \in DOMAIN jobs'[u] |-> jobs'[u][l].inserted]
  OBVIOUS
<1>5. Unreported(u) = Cells(f) /\ Unreported(u)' = Cells(g)
  BY <1>3, <1>4 DEF Unreported
<1>6. /\ k \in DOMAIN f /\ DOMAIN g = DOMAIN f /\ \A l \in DOMAIN f \ {k} : g[l] = f[l]
      /\ f[k] = jobs[u][k].inserted /\ g[k] = t.inserted /\ f[k] \in Nat /\ g[k] \in Nat
  BY <1>1, <1>3, <1>4, JobFacts DEF Job
<1>7. IsFiniteSet(Cells(f))
  BY <1>5 DEF SInv, Sums
<1>8. /\ IsFiniteSet(Cells(g)) /\ Cardinality(Cells(f)) \in Nat
      /\ Cardinality(Cells(g)) + f[k] = Cardinality(Cells(f)) + g[k]
  BY <1>6, <1>7, CellsChange
<1>9. Cardinality(Cells(g)) \in Nat
  BY <1>8, FS_CardinalityType
<1>10. /\ stats[u].Inserted + Cardinality(Cells(g)) <= landed'[u]
       /\ ~unsure'[u] => stats[u].Inserted + Cardinality(Cells(g)) = landed'[u]
  <2>1. PICK ins \in Nat, cf \in Nat, cg \in Nat, a \in Nat, b \in Nat, land \in Nat :
          /\ ins = stats[u].Inserted /\ cf = Cardinality(Cells(f)) /\ cg = Cardinality(Cells(g))
          /\ a = f[k] /\ b = g[k] /\ land = landed[u]
    BY <1>6, <1>8, <1>9, SumTypes
  <2>2. /\ ins + cf <= land /\ (~unsure[u] => ins + cf = land) /\ cg + a = cf + b /\ b <= a + d
        /\ ~unsure'[u] => ~unsure[u] /\ b = a + d
    BY <1>5, <1>6, <1>8, <2>1 DEF SInv, Sums
  <2>3. ins + cg <= land + d
    BY <2>2
  <2>4. ~unsure'[u] => ins + cg = land + d
    BY <2>2
  <2> QED
    BY <2>1, <2>3, <2>4
<1>11. Skips(u)' = Skips(u)
  BY DEF Skips
<1>12. Sums(u)'
  BY <1>2, <1>5, <1>8, <1>10, <1>11 DEF SInv, Sums
<1>13. \A v \in Uploads \ {u} : Sums(v)'
  BY <1>1, SumsSame DEF SInv
<1>14. \A v \in Uploads : \A l \in DOMAIN jobs'[v] : Exact(jobs'[v][l])
  BY <1>1 DEF SInv
<1> QED
  BY <1>12, <1>13, <1>14 DEF SInv, Exact

LEMMA CopyConflictSums ==
  ASSUME IInv, SInv, NEW u \in Uploads, NEW k \in DOMAIN jobs[u], CopyConflict(u, k) PROVE SInv'
<1>1. PICK j \in Job : j = jobs[u][k]
  BY JobFacts
<1>2. j.inserted = 0 /\ j.dups = 0 /\ j.err = FALSE /\ j.rows \in Seq(Names)
  BY <1>1, CopyFacts DEF CopyConflict
<1> DEFINE f == FALSE
           none == 0
<1>3. PICK t : t = [rows |-> j.rows, pc |-> "sub", next |-> 1,
                    inserted |-> j.inserted + 0, dups |-> j.dups + 0, err |-> j.err \/ f]
  OBVIOUS
<1>4. jobs' = [jobs EXCEPT ![u] = [@ EXCEPT ![k] = t]] /\ UNCHANGED <<tableVars, readerVars, handlerVars, stats>>
  BY <1>1, <1>3 DEF CopyConflict, Result
<1>5. f \in BOOLEAN
  OBVIOUS
<1> HIDE DEF f
<1>6. t \in Job /\ t.rows = j.rows /\ t.inserted = 0 /\ t.dups = 0 /\ t.pc = "sub" /\ t.next = 1
  BY <1>2, <1>3, <1>5 DEF Job
<1>7. Exact(t)
  BY <1>6 DEF Exact
<1>8. /\ none \in Nat /\ landed'[u] = landed[u] + none /\ unsure'[u] = unsure[u]
      /\ \A v \in Uploads \ {u} : landed'[v] = landed[v] /\ unsure'[v] = unsure[v]
      /\ t.inserted = jobs[u][k].inserted + none /\ t.inserted <= jobs[u][k].inserted + none
  BY <1>1, <1>2, <1>4, <1>6, NothingLands
<1> HIDE DEF none
<1>9. Told(u, k, none, t)
  BY <1>1, <1>4, <1>6, <1>7, <1>8 DEF Told
<1> QED
  BY <1>9, ToldSums

LEMMA CopyFailsSums ==
  ASSUME IInv, SInv, NEW u \in Uploads, NEW k \in DOMAIN jobs[u], CopyFails(u, k) PROVE SInv'
<1>1. PICK j \in Job : j = jobs[u][k]
  BY JobFacts
<1>2. j.inserted = 0 /\ j.dups = 0 /\ j.err = FALSE /\ j.rows \in Seq(Names)
  BY <1>1, CopyFacts DEF CopyFails
<1> DEFINE f == TRUE
           none == 0
<1>3. PICK t : t = [rows |-> j.rows, pc |-> "account", next |-> 1,
                    inserted |-> j.inserted + 0, dups |-> j.dups + 0, err |-> j.err \/ f]
  OBVIOUS
<1>4. jobs' = [jobs EXCEPT ![u] = [@ EXCEPT ![k] = t]] /\ UNCHANGED <<tableVars, readerVars, handlerVars, stats>>
  BY <1>1, <1>3 DEF CopyFails, Result
<1>5. f \in BOOLEAN
  OBVIOUS
<1>6. f
  OBVIOUS
<1> HIDE DEF f
<1>7. t \in Job /\ t.rows = j.rows /\ t.inserted = 0 /\ t.pc = "account" /\ (t.err <=> j.err \/ f)
  BY <1>2, <1>3, <1>5 DEF Job
<1>8. Exact(t)
  BY <1>6, <1>7 DEF Exact
<1>9. /\ none \in Nat /\ landed'[u] = landed[u] + none /\ unsure'[u] = unsure[u]
      /\ \A v \in Uploads \ {u} : landed'[v] = landed[v] /\ unsure'[v] = unsure[v]
      /\ t.inserted = jobs[u][k].inserted + none /\ t.inserted <= jobs[u][k].inserted + none
  BY <1>1, <1>2, <1>4, <1>7, NothingLands
<1> HIDE DEF none
<1>10. Told(u, k, none, t)
  BY <1>1, <1>4, <1>7, <1>8, <1>9 DEF Told
<1> QED
  BY <1>10, ToldSums

LEMMA CopyAllSums ==
  ASSUME IInv, SInv, NEW u \in Uploads, NEW k \in DOMAIN jobs[u], CopyAll(u, k) PROVE SInv'
<1>1. PICK j \in Job : j = jobs[u][k]
  BY JobFacts
<1>2. j.inserted = 0 /\ j.dups = 0 /\ j.err = FALSE /\ j.rows \in Seq(Names) /\ Len(j.rows) \in Nat
  BY <1>1, CopyFacts DEF CopyAll
<1>3. PICK lost \in BOOLEAN :
        /\ Land(u, RowSet(j.rows), lost)
        /\ Result(u, k, IF lost THEN 0 ELSE Len(j.rows), 0, lost, 1, "account")
  BY <1>1 DEF CopyAll
<1>4. PICK d : d = Len(j.rows)
  OBVIOUS
<1>5. d = Cardinality(RowSet(j.rows)) /\ d \in Nat
  BY <1>1, <1>2, <1>4 DEF CopyAll, Conflict
<1>6. PICK ins : ins = IF lost THEN 0 ELSE d
  OBVIOUS
<1>7. PICK t : t = [rows |-> j.rows, pc |-> "account", next |-> 1,
                    inserted |-> j.inserted + ins, dups |-> j.dups + 0, err |-> j.err \/ lost]
  OBVIOUS
<1>8. jobs' = [jobs EXCEPT ![u] = [@ EXCEPT ![k] = t]]
  BY <1>1, <1>3, <1>4, <1>6, <1>7 DEF Result
<1>9. t = [rows |-> j.rows, pc |-> "account", next |-> 1, inserted |-> ins, dups |-> 0, err |-> lost]
  BY <1>2, <1>5, <1>6, <1>7
<1>10. t \in Job /\ t.rows = j.rows /\ t.inserted = ins /\ t.dups = 0 /\ t.pc = "account" /\ t.err = lost
  BY <1>2, <1>5, <1>6, <1>9 DEF Job
<1>11. Exact(t)
  <2>1. ~lost => ins + 0 = Len(j.rows)
    BY <1>4, <1>5, <1>6
  <2> QED
    BY <1>10, <2>1 DEF Exact
<1>12. /\ landed'[u] = landed[u] + d /\ (unsure'[u] <=> unsure[u] \/ lost)
       /\ \A v \in Uploads \ {u} : landed'[v] = landed[v] /\ unsure'[v] = unsure[v]
  BY <1>3, <1>5, Lands
<1>13. /\ t.inserted <= jobs[u][k].inserted + d
       /\ ~unsure'[u] => ~unsure[u] /\ t.inserted = jobs[u][k].inserted + d
  BY <1>1, <1>2, <1>5, <1>6, <1>10, <1>12
<1>14. UNCHANGED <<readerVars, handlerVars, stats>>
  BY DEF CopyAll
<1>15. Told(u, k, d, t)
  BY <1>1, <1>5, <1>8, <1>10, <1>11, <1>12, <1>13, <1>14 DEF Told
<1> QED
  BY <1>15, ToldSums

\* A piece: rows of it are reported added, reported duplicates, or there is an error.
LEMMA InsertPieceSums ==
  ASSUME IInv, SInv, NEW u \in Uploads, NEW k \in DOMAIN jobs[u], InsertPiece(u, k) PROVE SInv'
<1>1. PICK j, e, m, ins, dup, t : PieceTried(u, k, j, e, m, ins, dup, t)
  BY InsertPieceTried
<1>2. /\ j.next \in 1..Len(j.rows) /\ j.next \in Nat /\ Len(j.rows) \in Nat
      /\ j.inserted \in Nat /\ j.dups \in Nat /\ e \in Nat
      /\ t.pc \in {"sub", "account"}
      /\ t.pc = "sub" => e = t.next - 1
      /\ t.pc = "account" => e = Len(j.rows)
  BY <1>1, PieceEnds
<1>3. /\ j = jobs[u][k] /\ j.pc = "sub" /\ m = e - j.next + 1 /\ ins \in Nat /\ dup \in Nat
      /\ t \in Job /\ jobs' = [jobs EXCEPT ![u] = [@ EXCEPT ![k] = t]] /\ t.rows = j.rows
      /\ t.inserted = j.inserted + ins /\ t.dups = j.dups + dup
      /\ j.err => t.err
      /\ ~t.err => ins + dup = m
      /\ UNCHANGED <<readerVars, handlerVars, stats>>
  BY <1>1 DEF PieceTried
<1>4. PICK d \in Nat :
        /\ landed'[u] = landed[u] + d /\ ins <= d /\ (~unsure'[u] => ~unsure[u] /\ ins = d)
        /\ \A v \in Uploads \ {u} : landed'[v] = landed[v] /\ unsure'[v] = unsure[v]
  BY <1>1 DEF PieceTried, PieceLanded
<1>5. ~t.err => t.inserted + t.dups = e
  <2>1. ~j.err => j.inserted + j.dups = j.next - 1
    BY <1>3 DEF SInv, Exact
  <2>2. PICK i \in Nat, a \in Nat, b \in Nat : i = j.next /\ a = j.inserted /\ b = j.dups
    BY <1>2
  <2>3. ~t.err => a + b = i - 1 /\ ins + dup = e - i + 1
    BY <1>3, <2>1, <2>2
  <2>4. ~t.err => (a + ins) + (b + dup) = e
    <3>1. \A x, y \in Nat : (a + x) + (b + y) = (a + b) + (x + y)
      OBVIOUS
    <3>2. (i - 1) + (e - i + 1) = e
      BY <1>2
    <3>3. (a + ins) + (b + dup) = (a + b) + (ins + dup)
      BY <1>3, <3>1
    <3> QED
      BY <2>3, <3>2, <3>3
  <2> QED
    BY <1>3, <2>2, <2>4
<1>6. Exact(t)
  BY <1>2, <1>3, <1>5 DEF Exact
<1>7. /\ t.inserted <= jobs[u][k].inserted + d
      /\ ~unsure'[u] => ~unsure[u] /\ t.inserted = jobs[u][k].inserted + d
  BY <1>2, <1>3, <1>4
<1>8. Told(u, k, d, t)
  BY <1>3, <1>4, <1>6, <1>7 DEF Told
<1> QED
  BY <1>8, ToldSums

\* A batch changes hands.
LEMMA SpawnSums == ASSUME IInv, SInv, NEW u \in Uploads, Spawn(u) PROVE SInv'
<1>1. PICK b \in Seq(Names) : b = batch[u]
  BY DEF IInv, TypeOK
<1>2. PICK j : j = [rows |-> b, pc |-> "copy", next |-> 1, inserted |-> 0, dups |-> 0, err |-> FALSE]
  OBVIOUS
<1>3. j \in Job /\ j.pc = "copy" /\ j.rows = b /\ j.inserted = 0
  BY <1>2 DEF Job
<1>4. jobs' = [jobs EXCEPT ![u] = Append(@, j)]
  BY <1>1, <1>2 DEF Spawn
<1>5. PICK k : /\ \A v \in Uploads \ {u} : jobs'[v] = jobs[v]
               /\ DOMAIN jobs'[u] = DOMAIN jobs[u] \cup {k} /\ k \notin DOMAIN jobs[u]
               /\ \A l \in DOMAIN jobs[u] : jobs'[u][l] = jobs[u][l]
               /\ jobs'[u][k] = j
  <2>1. TypeOK
    BY DEF IInv
  <2> QED
    BY <1>3, <1>4, <2>1, JobAdded
<1> USE DEF Spawn, readerVars, tableVars
<1>6. batch'[u] = <<>> /\ Len(batch'[u]) = 0 /\ \A v \in Uploads \ {u} : batch'[v] = batch[v]
  BY EmptySeq DEF IInv, TypeOK
<1>7. PICK f : f = [l \in DOMAIN jobs[u] |-> Len(jobs[u][l].rows)]
  OBVIOUS
<1>8. PICK g : g = [l \in DOMAIN jobs'[u] |-> Len(jobs'[u][l].rows)]
  OBVIOUS
<1>9. PICK p : p = [l \in DOMAIN jobs[u] |-> jobs[u][l].inserted]
  OBVIOUS
<1>10. PICK q : q = [l \in DOMAIN jobs'[u] |-> jobs'[u][l].inserted]
  OBVIOUS
<1>11. /\ Owed(u) = Cells(f) /\ Owed(u)' = Cells(g)
       /\ Unreported(u) = Cells(p) /\ Unreported(u)' = Cells(q)
  BY <1>7, <1>8, <1>9, <1>10 DEF Owed, Unreported
<1>12. /\ IsFiniteSet(Cells(f)) /\ IsFiniteSet(Cells(p))
       /\ Cardinality(Cells(f)) \in Nat /\ Cardinality(Cells(p)) \in Nat
  BY <1>11, FS_CardinalityType DEF SInv, Sums
<1>13. IsFiniteSet(Cells(g)) /\ Cardinality(Cells(g)) = Cardinality(Cells(f)) + Len(b)
  <2>1. Len(b) \in Nat
    BY LenProperties
  <2>2. /\ k \notin DOMAIN f /\ DOMAIN g = DOMAIN f \cup {k} /\ \A l \in DOMAIN f : g[l] = f[l]
        /\ g[k] = Len(b)
    BY <1>3, <1>5, <1>7, <1>8
  <2> QED
    BY <1>12, <2>1, <2>2, CellsGrow
<1>14. IsFiniteSet(Cells(q)) /\ Cardinality(Cells(q)) = Cardinality(Cells(p))
  <2>1. /\ k \notin DOMAIN p /\ DOMAIN q = DOMAIN p \cup {k} /\ \A l \in DOMAIN p : q[l] = p[l]
        /\ q[k] = 0 /\ 0 \in Nat
    BY <1>3, <1>5, <1>9, <1>10
  <2>2. IsFiniteSet(Cells(q)) /\ Cardinality(Cells(q)) = Cardinality(Cells(p)) + q[k]
    BY <1>12, <2>1, CellsGrow
  <2> QED
    BY <1>12, <2>1, <2>2
<1>15. Skips(u)' = Skips(u)
  BY DEF Skips
<1>16. stats[u].TotalRows = stats[u].Inserted + stats[u].Skipped + Len(batch'[u]) + Cardinality(Cells(g))
  <2>1. PICK ins \in Nat, skip \in Nat, n \in Nat, owed \in Nat :
          ins = stats[u].Inserted /\ skip = stats[u].Skipped /\ n = Len(batch[u]) /\ owed = Cardinality(Cells(f))
    BY <1>12, SumTypes
  <2>2. stats[u].TotalRows = ins + skip + n + owed
    BY <1>11, <2>1, Totals
  <2>3. Cardinality(Cells(g)) = owed + n
    BY <1>1, <1>13, <2>1
  <2>4. ins + skip + n + owed = ins + skip + 0 + (owed + n)
    OBVIOUS
  <2> QED
    BY <1>6, <2>1, <2>2, <2>3, <2>4
<1>17. Sums(u)'
  BY <1>11, <1>12, <1>13, <1>14, <1>15, <1>16 DEF SInv, Sums
<1>18. \A v \in Uploads \ {u} : Sums(v)'
  BY <1>5, <1>6, SumsSame DEF SInv
<1>19. Exact(j)
  BY <1>3 DEF Exact
<1>20. \A v \in Uploads : \A l \in DOMAIN jobs'[v] : Exact(jobs'[v][l])
  BY <1>5, <1>19 DEF SInv
<1> QED
  BY <1>17, <1>18, <1>20 DEF SInv, Exact

\* What a worker that returns adds to the counters of its upload.
LEMMA AccountSteps ==
  ASSUME IInv, NEW u \in Uploads, NEW k \in DOMAIN jobs[u], Account(u, k)
  PROVE  /\ stats'[u].TotalRows = stats[u].TotalRows
         /\ stats'[u].Inserted = stats[u].Inserted + jobs[u][k].inserted
         /\ stats'[u].Skipped = stats[u].Skipped + jobs[u][k].dups + Failed(jobs[u][k])
         /\ Skips(u)' = Skips(u) + jobs[u][k].dups + Failed(jobs[u][k])
         /\ \A v \in Uploads \ {u} : stats'[v] = stats[v]
<1> DEFINE S == [TotalRows : Nat, Inserted : Nat, Skipped : Nat, Reasons : [Reasons -> Nat]]
<1>1. PICK j \in Job : j = jobs[u][k] /\ j.pc = "account" /\ WorkerFits(j)
  BY JobFacts DEF Account
<1>2. PICK f \in Nat : f = Failed(j)
  BY <1>1, FailedCounts
<1>3. PICK s \in S : s = stats[u]
  BY DEF IInv, TypeOK
<1>4. PICK dup \in Nat : dup = j.dups
  BY DEF Job
<1>5. PICK r : r = [s.Reasons EXCEPT !["duplicate_name"] = @ + dup, !["batch_error"] = @ + f]
  OBVIOUS
<1>6. r["malformed_csv"] + r["invalid_row"] + r["duplicate_name"] + r["batch_error"]
        = s.Reasons["malformed_csv"] + s.Reasons["invalid_row"]
            + s.Reasons["duplicate_name"] + s.Reasons["batch_error"] + dup + f
  <2>1. s.Reasons \in [Reasons -> Nat]
    OBVIOUS
  <2>2. /\ r["malformed_csv"] = s.Reasons["malformed_csv"] /\ r["invalid_row"] = s.Reasons["invalid_row"]
        /\ r["duplicate_name"] = s.Reasons["duplicate_name"] + dup
        /\ r["batch_error"] = s.Reasons["batch_error"] + f
        /\ s.Reasons["malformed_csv"] \in Nat /\ s.Reasons["invalid_row"] \in Nat
        /\ s.Reasons["duplicate_name"] \in Nat /\ s.Reasons["batch_error"] \in Nat
    BY <1>5, <2>1 DEF Reasons
  <2> QED
    BY <2>2
<1>7. PICK t : t = [TotalRows |-> s.TotalRows, Inserted |-> s.Inserted + j.inserted,
                    Skipped |-> s.Skipped + dup + f, Reasons |-> r]
  OBVIOUS
<1>8. stats' = [stats EXCEPT ![u] = t]
  BY <1>1, <1>2, <1>3, <1>4, <1>5, <1>7 DEF Account
<1>9. stats \in [Uploads -> S]
  BY DEF IInv, TypeOK
<1>10. stats'[u] = t /\ \A v \in Uploads \ {u} : stats'[v] = stats[v]
  BY <1>8, <1>9
<1>11. /\ t.TotalRows = s.TotalRows /\ t.Inserted = s.Inserted + j.inserted
       /\ t.Skipped = s.Skipped + dup + f /\ t.Reasons = r
  BY <1>7
<1>12. Skips(u)' = Skips(u) + dup + f
  BY <1>3, <1>6, <1>10, <1>11 DEF Skips
<1> QED
  BY <1>1, <1>2, <1>3, <1>4, <1>10, <1>11, <1>12

\* A worker returns: what it has in hand is what it adds to the counters.
LEMMA AccountSums ==
  ASSUME IInv, SInv, NEW u \in Uploads, NEW k \in DOMAIN jobs[u], Account(u, k) PROVE SInv'
<1>1. PICK j \in Job : j = jobs[u][k] /\ j.pc = "account" /\ WorkerFits(j) /\ Exact(j)
  BY JobFacts DEF Account, SInv
<1>2. UNCHANGED <<tableVars, readerVars, handlerVars>> /\ jobs' = [jobs EXCEPT ![u] = [@ EXCEPT ![k] = Returned]]
  BY DEF Account
<1>3. PICK t \in Job : t = Returned
  BY EmptySeq DEF Returned, Job
<1>4. t.inserted = 0 /\ Len(t.rows) = 0 /\ Exact(t)
  BY <1>3, EmptySeq DEF Returned, Exact
<1>5. /\ \A v \in Uploads \ {u} : jobs'[v] = jobs[v]
      /\ DOMAIN jobs'[u] = DOMAIN jobs[u]
      /\ \A l \in DOMAIN jobs[u] \ {k} : jobs'[u][l] = jobs[u][l]
      /\ jobs'[u][k] = t
  <2>1. TypeOK /\ jobs' = [jobs EXCEPT ![u] = [@ EXCEPT ![k] = t]]
    BY <1>2, <1>3 DEF IInv
  <2> QED
    BY <2>1, JobsFacts
<1>6. PICK ins \in Nat, dup \in Nat, rows \in Nat, failed \in Nat :
        /\ ins = j.inserted /\ dup = j.dups /\ rows = Len(j.rows) /\ failed = Failed(j)
  BY <1>1, JobFacts, FailedCounts
<1>7. ins + dup + failed = rows
  <2>1. failed = IF j.err THEN rows - ins - dup ELSE 0
    BY <1>6 DEF Failed
  <2>2. ~j.err => ins + dup = rows
    BY <1>1, <1>6 DEF Exact
  <2> QED
    BY <2>1, <2>2
<1>8. PICK f : f = [l \in DOMAIN jobs[u] |-> Len(jobs[u][l].rows)]
  OBVIOUS
<1>9. PICK g : g = [l \in DOMAIN jobs'[u] |-> Len(jobs'[u][l].rows)]
  OBVIOUS
<1>10. PICK p : p = [l \in DOMAIN jobs[u] |-> jobs[u][l].inserted]
  OBVIOUS
<1>11. PICK q : q = [l \in DOMAIN jobs'[u] |-> jobs'[u][l].inserted]
  OBVIOUS
<1>12. /\ Owed(u) = Cells(f) /\ Owed(u)' = Cells(g)
       /\ Unreported(u) = Cells(p) /\ Unreported(u)' = Cells(q)
  BY <1>8, <1>9, <1>10, <1>11 DEF Owed, Unreported
<1>13. IsFiniteSet(Cells(f)) /\ IsFiniteSet(Cells(p))
  BY <1>12 DEF SInv, Sums
<1>14. /\ IsFiniteSet(Cells(g)) /\ Cardinality(Cells(f)) \in Nat
       /\ Cardinality(Cells(g)) + rows = Cardinality(Cells(f))
  <2>1. /\ k \in DOMAIN f /\ DOMAIN g = DOMAIN f /\ \A l \in DOMAIN f \ {k} : g[l] = f[l]
        /\ f[k] = rows /\ g[k] = 0 /\ f[k] \in Nat /\ g[k] \in Nat
    BY <1>1, <1>4, <1>5, <1>6, <1>8, <1>9
  <2>2. /\ IsFiniteSet(Cells(g)) /\ Cardinality(Cells(f)) \in Nat
        /\ Cardinality(Cells(g)) + f[k] = Cardinality(Cells(f)) + g[k]
    BY <1>13, <2>1, CellsChange
  <2> QED
    BY <2>1, <2>2
<1>15. /\ IsFiniteSet(Cells(q)) /\ Cardinality(Cells(p)) \in Nat
       /\ Cardinality(Cells(q)) + ins = Cardinality(Cells(p))
  <2>1. /\ k \in DOMAIN p /\ DOMAIN q = DOMAIN p /\ \A l \in DOMAIN p \ {k} : q[l] = p[l]
        /\ p[k] = ins /\ q[k] = 0 /\ p[k] \in Nat /\ q[k] \in Nat
    BY <1>1, <1>4, <1>5, <1>6, <1>10, <1>11
  <2>2. /\ IsFiniteSet(Cells(q)) /\ Cardinality(Cells(p)) \in Nat
        /\ Cardinality(Cells(q)) + p[k] = Cardinality(Cells(p)) + q[k]
    BY <1>13, <2>1, CellsChange
  <2> QED
    BY <2>1, <2>2
<1>16. Cardinality(Cells(g)) \in Nat /\ Cardinality(Cells(q)) \in Nat
  BY <1>14, <1>15, FS_CardinalityType
<1>17. /\ stats'[u].TotalRows = stats[u].TotalRows
       /\ stats'[u].Inserted = stats[u].Inserted + ins
       /\ stats'[u].Skipped = stats[u].Skipped + dup + failed
       /\ Skips(u)' = Skips(u) + dup + failed
       /\ \A v \in Uploads \ {u} : stats'[v] = stats[v]
  BY <1>1, <1>6, AccountSteps
<1>18. /\ stats'[u].TotalRows = stats'[u].Inserted + stats'[u].Skipped + Len(batch[u]) + Cardinality(Cells(g))
       /\ stats'[u].Skipped = Skips(u)'
  <2>1. PICK i \in Nat, s \in Nat, n \in Nat, owed \in Nat :
          i = stats[u].Inserted /\ s = stats[u].Skipped /\ n = Len(batch[u]) /\ owed = Cardinality(Cells(g))
    BY <1>16, SumTypes
  <2>2. stats[u].TotalRows = i + s + n + (owed + rows) /\ s = Skips(u)
    BY <1>12, <1>14, <2>1, Totals
  <2>3. i + s + n + (owed + (ins + dup + failed)) = (i + ins) + (s + dup + failed) + n + owed
    OBVIOUS
  <2> QED
    BY <1>7, <1>17, <2>1, <2>2, <2>3
<1>19. stats'[u].Inserted + Cardinality(Cells(q)) = stats[u].Inserted + Cardinality(Cells(p))
  <2>1. stats[u].Inserted \in Nat
    BY SumTypes
  <2> QED
    BY <1>15, <1>16, <1>17, <2>1
<1>20. Sums(u)'
  BY <1>2, <1>12, <1>14, <1>15, <1>17, <1>18, <1>19 DEF SInv, Sums, tableVars, readerVars, handlerVars
<1>21. \A v \in Uploads \ {u} : Sums(v)'
  BY <1>2, <1>5, <1>17, SumsSame DEF SInv, tableVars, readerVars, handlerVars
<1>22. \A v \in Uploads : \A l \in DOMAIN jobs'[v] : Exact(jobs'[v][l])
  BY <1>4, <1>5 DEF SInv
<1> QED
  BY <1>20, <1>21, <1>22 DEF SInv, Exact

LEMMA InitSums == Init => SInv
<1> SUFFICES ASSUME Init, NEW u \in Uploads PROVE Sums(u) /\ \A k \in DOMAIN jobs[u] : Exact(jobs[u][k])
  BY DEF SInv
<1>1. jobs[u] = <<>> /\ rowCh[u] = <<>> /\ batch[u] = <<>> /\ pos[u] = 0 /\ landed[u] = 0
  BY DEF Init
<1>2. DOMAIN jobs[u] = {} /\ Len(rowCh[u]) = 0 /\ Len(batch[u]) = 0
  BY <1>1, EmptySeq
<1>3. Owed(u) = {} /\ Unreported(u) = {}
  BY <1>2 DEF Owed, Unreported, Cells
<1>4. IsFiniteSet({}) /\ Cardinality({}) = 0
  BY FS_EmptySet
<1>5. /\ stats[u].TotalRows = 0 /\ stats[u].Inserted = 0 /\ stats[u].Skipped = 0
      /\ \A r \in Reasons : stats[u].Reasons[r] = 0
  BY DEF Init, NoStats
<1>6. Skips(u) = 0
  BY <1>5 DEF Skips, Reasons
<1> QED
  BY <1>1, <1>2, <1>3, <1>4, <1>5, <1>6 DEF Sums

\* A step of other requests, and no step, leave all sums as they are.
LEMMA OthersSums ==
  ASSUME SInv, UNCHANGED <<landed, unsure, readerVars, handlerVars, jobs, stats>>
  PROVE  SInv'
<1>1. \A u \in Uploads : Sums(u)'
  BY SumsSame DEF SInv, readerVars, handlerVars
<1> QED
  BY <1>1 DEF SInv, Exact

LEMMA NextSums == ASSUME IInv, SInv, Next PROVE SInv'
<1>1. ASSUME NEW u \in Uploads, Begin(u) \/ ReadEOF(u) \/ EndOfRows(u) \/ Respond(u) PROVE SInv'
  BY <1>1, SameCounters DEF Begin, ReadEOF, EndOfRows, Respond, readerVars, handlerVars
<1>2. ASSUME NEW u \in Uploads, Reader(u) PROVE SInv'
  BY <1>1, <1>2, ReadMalformedSums, ReadRowSums DEF Reader
<1>3. ASSUME NEW u \in Uploads, Handler(u) PROVE SInv'
  BY <1>1, <1>3, ReceiveInvalidSums, ReceiveRowSums, SpawnSums DEF Handler
<1>4. ASSUME NEW u \in Uploads, NEW k \in DOMAIN jobs[u], Worker(u, k) PROVE SInv'
  BY <1>4, CopyAllSums, CopyConflictSums, CopyFailsSums, InsertPieceSums, AccountSums DEF Worker
<1>5. ASSUME NEW n \in Names, CreateProfile(n) PROVE SInv'
  BY <1>5, OthersSums DEF CreateProfile
<1>6. ASSUME NEW x \in Profiles, DeleteProfile(x) PROVE SInv'
  BY <1>6, OthersSums DEF DeleteProfile
<1> QED
  BY <1>1, <1>2, <1>3, <1>4, <1>5, <1>6 DEF Next

\* SInv is inductive with IInv.
THEOREM SpecSInv == Spec => []SInv
<1>1. IInv /\ SInv /\ [Next]_vars => SInv'
  BY NextSums, OthersSums DEF vars, tableVars
<1> QED
  BY <1>1, InitSums, SpecIInv, PTL DEF Spec

\* An upload that is done has no row under way.
LEMMA NothingOwed ==
  ASSUME IInv, SInv, NEW u \in Uploads, hpc[u] = "done"
  PROVE  /\ pos[u] = Len(file[u]) /\ Len(rowCh[u]) = 0 /\ Len(batch[u]) = 0
         /\ Cardinality(Owed(u)) = 0 /\ Cardinality(Unreported(u)) = 0
<1>1. pos[u] = Len(file[u]) /\ rowCh[u] = <<>> /\ batch[u] = <<>> /\ wg[u] = 0
  BY DEF IInv, HandlerFits
<1>2. Active(u) = {}
  <2>1. IsFiniteSet(Active(u)) /\ Cardinality(Active(u)) = 0
    BY <1>1 DEF IInv, Counted
  <2> QED
    BY <2>1, FS_EmptySet
<1>3. ASSUME NEW k \in DOMAIN jobs[u] PROVE Len(jobs[u][k].rows) = 0 /\ jobs[u][k].inserted = 0
  BY <1>2, EmptySeq DEF Active, SInv, Exact
<1>4. PICK f : f = [k \in DOMAIN jobs[u] |-> Len(jobs[u][k].rows)]
  OBVIOUS
<1>5. PICK p : p = [k \in DOMAIN jobs[u] |-> jobs[u][k].inserted]
  OBVIOUS
<1>6. Cardinality(Cells(f)) = 0 /\ Cardinality(Cells(p)) = 0
  <2>1. (\A k \in DOMAIN f : f[k] = 0) /\ (\A k \in DOMAIN p : p[k] = 0)
    BY <1>3, <1>4, <1>5
  <2> QED
    BY <2>1, CellsNone
<1> QED
  BY <1>1, <1>4, <1>5, <1>6, EmptySeq DEF Owed, Unreported

\* What the client is told adds up: for any files, sizes of channel, batch and
\* piece, number of workers and failures, each row of the file is counted once.
THEOREM ResponsesAddUp == Spec => []ResponseAddsUp
<1>1. ASSUME IInv, SInv, NEW u \in Uploads, hpc[u] = "done"
      PROVE  /\ stats[u].TotalRows = Len(file[u])
             /\ stats[u].TotalRows = stats[u].Inserted + stats[u].Skipped
             /\ stats[u].Skipped = Skips(u)
  BY <1>1, NothingOwed, Totals, SumTypes
<1>2. IInv /\ SInv => ResponseAddsUp
  BY <1>1 DEF ResponseAddsUp, Skips
<1> QED
  BY <1>2, SpecIInv, SpecSInv, PTL

\* An upload reports no row as inserted that it did not add, and all it added
\* unless the answer to a commit was lost.
THEOREM InsertionsAreReal == Spec => []InsertedAreReal
<1>1. ASSUME IInv, SInv, NEW u \in Uploads, hpc[u] = "done"
      PROVE  /\ stats[u].Inserted <= landed[u]
             /\ ~unsure[u] => stats[u].Inserted = landed[u]
  <2>1. /\ stats[u].Inserted + Cardinality(Unreported(u)) <= landed[u]
        /\ ~unsure[u] => stats[u].Inserted + Cardinality(Unreported(u)) = landed[u]
    BY <1>1 DEF SInv, Sums
  <2>2. Cardinality(Unreported(u)) = 0 /\ stats[u].Inserted \in Nat
    BY <1>1, NothingOwed, SumTypes
  <2> QED
    BY <2>1, <2>2
<1>2. IInv /\ SInv => InsertedAreReal
  BY <1>1 DEF InsertedAreReal
<1> QED
  BY <1>2, SpecIInv, SpecSInv, PTL
=============================================================================
