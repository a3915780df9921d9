------------------------- MODULE LogIngestorProofs -------------------------
(***************************************************************************)
(* What LogIngestor keeps for every number of entries, workers, every      *)
(* batch and queue size and any number of lost acknowledgements.           *)
(***************************************************************************)
EXTENDS LogIngestor, SequenceTheorems, FiniteSetTheorems, TLAPS

-----------------------------------------------------------------------------
(***************************************************************************)
(* Channels are sequences: what a send and a receive do to their contents. *)
(***************************************************************************)

\* A sequence over S holds elements of S only, and the empty one holds none.
LEMMA RangeType ==
    ASSUME NEW S, NEW s \in Seq(S)
    PROVE  Range(s) \subseteq S /\ Range(<<>>) = {}
  BY RangeEquality DEF Range

\* A send adds the element sent, and nothing else.
LEMMA RangeAppend ==
    ASSUME NEW S, NEW s \in Seq(S), NEW x \in S
    PROVE  /\ Append(s, x) \in Seq(S)
           /\ Len(Append(s, x)) = Len(s) + 1
           /\ Range(Append(s, x)) = Range(s) \cup {x}
  <1> DEFINE t == Append(s, x)
  <1>1. t \in Seq(S) /\ Len(t) = Len(s) + 1
    BY AppendProperties
  <1>2. /\ \A i \in 1 .. Len(s) : t[i] = s[i]
        /\ t[Len(s) + 1] = x
    BY AppendProperties
  <1>3. Len(s) \in Nat
    BY LenProperties
  <1>4. Range(s) = {s[i] : i \in 1 .. Len(s)}
    BY RangeEquality
  <1>5. Range(t) = {t[i] : i \in 1 .. Len(t)}
    BY <1>1, RangeEquality
  <1>6. Range(t) = Range(s) \cup {x}
    BY <1>1, <1>2, <1>3, <1>4, <1>5
  <1>7. QED
    BY <1>1, <1>6

\* A receive splits the contents into the element taken and the rest.
LEMMA RangeHeadTail ==
    ASSUME NEW S, NEW s \in Seq(S), s # <<>>
    PROVE  /\ Head(s) \in S
           /\ Tail(s) \in Seq(S)
           /\ Len(Tail(s)) = Len(s) - 1
           /\ Len(s) \in Nat \ {0}
           /\ Range(s) = {Head(s)} \cup Range(Tail(s))
  <1> DEFINE t == Tail(s)
  <1>1. /\ Head(s) \in S
        /\ t \in Seq(S)
        /\ Len(t) = Len(s) - 1
        /\ \A i \in 1 .. Len(t) : t[i] = s[i + 1]
    BY HeadTailProperties
  <1>2. Len(s) \in Nat \ {0}
    BY EmptySeq
  <1>3. Range(s) = {s[i] : i \in 1 .. Len(s)}
    BY RangeEquality
  <1>4. Range(t) = {t[i] : i \in 1 .. Len(t)}
    BY <1>1, RangeEquality
  <1>5. Head(s) = s[1]
    OBVIOUS
  <1>6. \A i \in 1 .. Len(s) : i = 1 \/ (i - 1 \in 1 .. Len(t) /\ t[i - 1] = s[i])
    BY <1>1, <1>2
  <1>7. Range(s) \subseteq {Head(s)} \cup Range(t)
    BY <1>3, <1>4, <1>5, <1>6
  <1>8. {Head(s)} \cup Range(t) \subseteq Range(s)
    BY <1>1, <1>2, <1>3, <1>4, <1>5
  <1>9. QED
    BY <1>1, <1>2, <1>7, <1>8
-----------------------------------------------------------------------------
(***************************************************************************)
(* BulkInsert cuts a batch: each row goes to exactly one statement.        *)
(***************************************************************************)

\* At least one row fits a statement, and the rows that do have no more
\* parameters than a statement takes.
LEMMA RowsFit == MaxRows \in Nat \ {0} /\ MaxRows * LogColumns <= MaxPlaceholders
  BY StatementAssumption, SMT DEF MaxRows, LogColumns

\* Each row of a batch of n is in a statement ...
LEMMA RowHasStatement ==
    ASSUME NEW n \in Nat, NEW i \in 1 .. n
    PROVE  \E k \in Statements(n) : i \in Statement(n, k)
  <1> DEFINE k == (i - 1) \div MaxRows
  <1>1. MaxRows \in Nat \ {0}
    BY RowsFit
  <1>2. k \in Nat /\ k * MaxRows <= i - 1 /\ i - 1 < k * MaxRows + MaxRows
    BY <1>1, SMT
  <1>3. k <= k * MaxRows
    BY <1>1, <1>2, SMT
  <1>. HIDE DEF k
  <1>4. k \in Statements(n) /\ i \in Statement(n, k)
    BY <1>1, <1>2, <1>3 DEF Statements, Statement
  <1>5. QED
    BY <1>4

\* ... and in no other.
LEMMA RowHasOneStatement ==
    ASSUME NEW n \in Nat, NEW k \in Nat, NEW l \in Nat,
           NEW i \in Statement(n, k), i \in Statement(n, l)
    PROVE  k = l
  <1>1. MaxRows \in Nat \ {0} /\ i \in Nat
    BY RowsFit DEF Statement
  <1>2. ASSUME NEW a \in Nat, NEW b \in Nat, a < b
        PROVE  a * MaxRows + MaxRows <= b * MaxRows
    <2>1. PICK d \in Nat : b = a + 1 + d
      <3>1. b - a - 1 \in Nat /\ b = a + 1 + (b - a - 1)
        BY <1>2
      <3>2. QED
        BY <3>1
    <2>2. b * MaxRows = a * MaxRows + MaxRows + d * MaxRows
      BY <1>1, <2>1, SMT
    <2>3. d * MaxRows \in Nat /\ a * MaxRows \in Nat
      BY <1>1, SMT
    <2>4. QED
      BY <1>1, <2>2, <2>3
  <1>3. k * MaxRows \in Nat /\ l * MaxRows \in Nat
    BY <1>1, SMT
  <1>4. ~(k < l)
    <2>1. k * MaxRows + MaxRows >= i /\ l * MaxRows < i
      BY DEF Statement
    <2>2. QED
      BY <1>1, <1>2, <1>3, <2>1
  <1>5. ~(l < k)
    <2>1. l * MaxRows + MaxRows >= i /\ k * MaxRows < i
      BY DEF Statement
    <2>2. QED
      BY <1>1, <1>2, <1>3, <2>1
  <1>6. QED
    BY <1>4, <1>5

\* A statement has MaxRows rows at most.
LEMMA StatementSize ==
    ASSUME NEW n \in Nat, NEW k \in Nat
    PROVE  Cardinality(Statement(n, k)) * LogColumns <= MaxPlaceholders
  <1> DEFINE first == k * MaxRows + 1
             last == k * MaxRows + MaxRows
  <1>1. MaxRows \in Nat \ {0} /\ first \in Int /\ last \in Int
    BY RowsFit, SMT
  <1>2. Statement(n, k) \subseteq first .. last
    BY <1>1, SMT DEF Statement
  <1>3. IsFiniteSet(first .. last) /\ Cardinality(first .. last) = MaxRows
    BY <1>1, FS_Interval, SMT
  <1>4. /\ Cardinality(Statement(n, k)) <= MaxRows
        /\ Cardinality(Statement(n, k)) \in Nat
    BY <1>2, <1>3, FS_Subset, FS_CardinalityType
  <1>5. \A c \in Nat : c <= MaxRows => c * 5 <= MaxRows * 5
    BY <1>1
  <1>6. MaxRows * 5 <= MaxPlaceholders /\ MaxPlaceholders \in Nat
    BY RowsFit, StatementAssumption DEF LogColumns
  <1>7. Cardinality(Statement(n, k)) * 5 <= MaxRows * 5
    BY <1>4, <1>5
  <1>. HIDE DEF first, last
  <1>8. QED
    BY <1>1, <1>4, <1>6, <1>7 DEF LogColumns

\* Together they carry the batch.
LEMMA InsertsAll ==
    ASSUME NEW w \in Worker, held[w] \in Seq(Entry)
    PROVE  InsertedBy(w) = Range(held[w])
  <1> DEFINE n == Len(held[w])
  <1>1. n \in Nat /\ Range(held[w]) = {held[w][i] : i \in 1 .. n}
    BY LenProperties, RangeEquality
  <1>2. UNION {Statement(n, k) : k \in Statements(n)} = 1 .. n
    <2>1. \A k \in Statements(n) : Statement(n, k) \subseteq 1 .. n
      BY DEF Statement
    <2>2. QED
      BY <1>1, <2>1, RowHasStatement
  <1>3. QED
    BY <1>1, <1>2 DEF InsertedBy

-----------------------------------------------------------------------------
(***************************************************************************)
(* Types.  The batch slice has room for the next entry whenever dispatch   *)
(* is about to receive one, which is what bounds it.                       *)
(***************************************************************************)

Phases == {"off", "select", "drain", "exited"} \cup Flushing

BatchRoom == dpc \in {"off", "select", "drain"} => Len(batch) < BatchSize

\* A batch cut by flush is never longer than BatchSize, wherever it is.
BatchesFit ==
    /\ \A b \in Range(batches) : Len(b) <= BatchSize
    /\ \A w \in Worker : Len(held[w]) <= BatchSize

TypeInv == TypeOK /\ BatchRoom /\ BatchesFit

LEMMA InitType == Init => TypeInv
  <1>1. Cardinality(Worker) \in Nat
    BY WorkerAssumption, FS_CardinalityType
  <1>2. <<>> \in Seq(Entry) /\ <<>> \in Seq(Seq(Entry)) /\ Len(<<>>) = 0
    BY EmptySeq
  <1>3. Range(<<>>) = {}
    BY RangeType, <1>2
  <1> SUFFICES ASSUME Init PROVE TypeInv
    OBVIOUS
  <1>4. /\ call \in [Entry -> {"new", "selecting", "sent", "ok", "stopped",
                               "cancelled"}]
        /\ wpc \in [Worker -> {"off", "idle", "insert", "landed", "backoff",
                               "done"}]
        /\ rows \in [Entry -> Nat]
    BY DEF Init
  <1>5. /\ held \in [Worker -> Seq(Entry)]
        /\ \A w \in Worker : Len(held[w]) <= BatchSize
    BY <1>2, ConfigAssumption DEF Init
  <1>6. BatchesFit /\ BatchRoom
    BY <1>2, <1>3, <1>5, ConfigAssumption DEF Init, BatchesFit, BatchRoom
  <1>7. TypeOK
    <2>1. /\ ingest \in Seq(Entry) /\ Len(ingest) <= QueueSize
          /\ batch \in Seq(Entry) /\ Len(batch) <= BatchSize
      BY <1>2, ConfigAssumption DEF Init
    <2>2. batches \in Seq(Seq(Entry)) /\ Len(batches) <= 2 * Cardinality(Worker)
      BY <1>1, <1>2 DEF Init
    <2>3. /\ dpc \in Phases
          /\ ackLosses \in 0 .. MaxAckLosses
          /\ written \in Nat
          /\ stop \in {"none", "waiting", "clean", "deadline"}
      BY ConfigAssumption DEF Init, Phases
    <2>4. /\ already \in SUBSET Entry
          /\ stopping \in BOOLEAN /\ hardDone \in BOOLEAN
      BY Zenon DEF Init
    <2>5. QED
      BY <2>1, <2>2, <2>3, <2>4, <1>4, <1>5 DEF TypeOK, Phases
  <1>8. QED
    BY <1>6, <1>7 DEF TypeInv

\* The steps of Submit.
LEMMA SubmitType ==
    ASSUME TypeInv, NEW e \in Entry, Submit(e)
    PROVE  TypeInv'
  <1> USE DEF TypeInv, TypeOK, BatchRoom, BatchesFit, CallMoves,
              dispatchVars, workerVars, tableVars, stopVars
  <1>1. CASE SubmitEnter(e)
    BY <1>1 DEF SubmitEnter
  <1>2. CASE SubmitRefused(e)
    BY <1>2 DEF SubmitRefused
  <1>3. CASE SubmitSend(e)
    <2>1. Append(ingest, e) \in Seq(Entry)
          /\ Len(Append(ingest, e)) = Len(ingest) + 1
      BY RangeAppend
    <2>2. Len(ingest) \in Nat
      BY LenProperties
    <2>3. ingest' \in Seq(Entry) /\ Len(ingest') <= QueueSize
      BY <1>3, <2>1, <2>2, ConfigAssumption DEF SubmitSend, IngestHasRoom
    <2>4. QED
      BY <1>3, <2>3 DEF SubmitSend
  <1>4. CASE SubmitCount(e)
    BY <1>4 DEF SubmitCount
  <1>5. CASE SubmitCancel(e)
    BY <1>5 DEF SubmitCancel, Cancellable
  <1>6. QED
    BY <1>1, <1>2, <1>3, <1>4, <1>5 DEF Submit

\* The steps of dispatch.
LEMMA DispatchType ==
    ASSUME TypeInv, Dispatch
    PROVE  TypeInv'
  <1> USE DEF TypeInv, TypeOK, BatchRoom, BatchesFit, Flushing,
              DispatchGoes, submitVars, workerVars, tableVars, stopVars
  <1>a. Len(batch) \in Nat /\ Len(batches) \in Nat /\ Len(ingest) \in Nat
    BY LenProperties
  <1>b. <<>> \in Seq(Entry) /\ Len(<<>>) = 0
    BY EmptySeq
  <1>1. CASE DispatchReceive
    <2>1. /\ Head(ingest) \in Entry
          /\ Tail(ingest) \in Seq(Entry)
          /\ Len(Tail(ingest)) = Len(ingest) - 1
      BY <1>1, RangeHeadTail DEF DispatchReceive
    <2>2. /\ Append(batch, Head(ingest)) \in Seq(Entry)
          /\ Len(Append(batch, Head(ingest))) = Len(batch) + 1
      BY <2>1, RangeAppend
    <2>3. batch' \in Seq(Entry) /\ Len(batch') <= BatchSize
      BY <1>1, <1>a, <2>2, ConfigAssumption DEF DispatchReceive
    <2>4. ingest' \in Seq(Entry) /\ Len(ingest') <= QueueSize
      BY <1>1, <1>a, <2>1, ConfigAssumption DEF DispatchReceive
    <2>5. dpc' \in Phases /\ BatchRoom'
      BY <1>1 DEF DispatchReceive, Phases
    <2>6. QED
      BY <1>1, <2>3, <2>4, <2>5 DEF DispatchReceive, Phases
  <1>2. CASE DispatchTick
    BY <1>2 DEF DispatchTick
  <1>3. CASE DispatchStop
    BY <1>3 DEF DispatchStop
  <1>4. CASE DispatchAbort
    BY <1>4 DEF DispatchAbort
  <1>5. CASE DrainEmpty
    BY <1>5 DEF DrainEmpty, AfterDrain
  <1>6. CASE HandOff
    <2>1. /\ Append(batches, batch) \in Seq(Seq(Entry))
          /\ Len(Append(batches, batch)) = Len(batches) + 1
          /\ Range(Append(batches, batch)) = Range(batches) \cup {batch}
      BY RangeAppend
    <2>2. Cardinality(Worker) \in Nat
      BY WorkerAssumption, FS_CardinalityType
    <2>3. /\ batches' \in Seq(Seq(Entry))
          /\ Len(batches') <= 2 * Cardinality(Worker)
      BY <1>6, <1>a, <2>1, <2>2 DEF HandOff, BatchesHaveRoom
    <2>4. batch' \in Seq(Entry) /\ Len(batch') = 0
      BY <1>6, <1>b DEF HandOff, NextBatch
    <2>5. dpc' \in Phases
      BY <1>6 DEF HandOff, Phases
    <2>6. BatchesFit'
      BY <1>6, <2>1 DEF HandOff
    <2>7. QED
      BY <1>6, <2>3, <2>4, <2>5, <2>6, ConfigAssumption DEF HandOff, Phases
  <1>7. CASE FlushAborted
    <2>1. batch' \in Seq(Entry) /\ Len(batch') = 0
      BY <1>7, <1>b DEF FlushAborted
    <2>2. dpc' \in Phases
      BY <1>7 DEF FlushAborted, Phases
    <2>3. QED
      BY <1>7, <2>1, <2>2, ConfigAssumption DEF FlushAborted, Phases
  <1>8. QED
    BY <1>1, <1>2, <1>3, <1>4, <1>5, <1>6, <1>7 DEF Dispatch

\* The steps of a worker.
LEMMA WorkType ==
    ASSUME TypeInv, NEW w \in Worker, Work(w)
    PROVE  TypeInv'
  <1> USE DEF TypeInv, TypeOK, BatchRoom, BatchesFit, WorkerGoes,
              submitVars, dispatchVars, tableVars, stopVars
  <1>b. <<>> \in Seq(Entry) /\ Len(<<>>) = 0
    BY EmptySeq
  <1>1. CASE WorkerTake(w)
    <2>1. /\ Head(batches) \in Seq(Entry)
          /\ Tail(batches) \in Seq(Seq(Entry))
          /\ Len(Tail(batches)) = Len(batches) - 1
          /\ Len(batches) \in Nat
          /\ Range(batches) = {Head(batches)} \cup Range(Tail(batches))
      BY <1>1, RangeHeadTail DEF WorkerTake
    <2>2. Cardinality(Worker) \in Nat
      BY WorkerAssumption, FS_CardinalityType
    <2>3. /\ batches' \in Seq(Seq(Entry))
          /\ Len(batches') <= 2 * Cardinality(Worker)
      BY <1>1, <2>1, <2>2 DEF WorkerTake
    <2>4. held' \in [Worker -> Seq(Entry)] /\ BatchesFit'
      BY <1>1, <2>1 DEF WorkerTake
    <2>5. QED
      BY <1>1, <2>3, <2>4 DEF WorkerTake
  <1>2. CASE WorkerExit(w)
    BY <1>2 DEF WorkerExit
  <1>3. CASE InsertLands(w)
    <2>1. rows' \in [Entry -> Nat]
      BY <1>3 DEF InsertLands
    <2>2. QED
      BY <1>3, <2>1 DEF InsertLands
  <1>4. CASE InsertAcked(w)
    <2>1. held' \in [Worker -> Seq(Entry)] /\ BatchesFit'
      BY <1>4, <1>b, ConfigAssumption DEF InsertAcked
    <2>2. written' \in Nat
      BY <1>4, LenProperties DEF InsertAcked, CountInserted
    <2>3. QED
      BY <1>4, <2>1, <2>2 DEF InsertAcked
  <1>5. ASSUME NEW from, Failed(w, from)
        PROVE  /\ held' \in [Worker -> Seq(Entry)]
               /\ \A v \in Worker : Len(held'[v]) <= BatchSize
               /\ wpc' \in [Worker -> {"off", "idle", "insert", "landed",
                                       "backoff", "done"}]
               /\ UNCHANGED <<submitVars, hardDone, dpc, batch, stopVars>>
    <2>1. CASE hardDone
      <3>1. held' = [held EXCEPT ![w] = <<>>] /\ WorkerGoes(w, from, "idle")
        BY <1>5, <2>1 DEF Failed
      <3>2. QED
        BY <3>1, <1>b, ConfigAssumption
    <2>2. CASE ~hardDone
      <3>1. held' = held /\ WorkerGoes(w, from, "backoff")
        BY <1>5, <2>2 DEF Failed
      <3>2. QED
        BY <3>1
    <2>3. QED
      BY <2>1, <2>2
  <1>6. CASE InsertFails(w)
    BY <1>5, <1>6 DEF InsertFails
  <1>7. CASE AckLost(w)
    BY <1>5, <1>7, ConfigAssumption DEF AckLost
  <1>8. CASE BackoffElapsed(w)
    BY <1>8 DEF BackoffElapsed
  <1>9. CASE BackoffAborted(w)
    <2>1. held' \in [Worker -> Seq(Entry)] /\ BatchesFit'
      BY <1>9, <1>b, ConfigAssumption DEF BackoffAborted
    <2>2. QED
      BY <1>9, <2>1 DEF BackoffAborted
  <1>10. QED
    BY <1>1, <1>2, <1>3, <1>4, <1>6, <1>7, <1>8, <1>9 DEF Work

LEMMA StepType == TypeInv /\ [Next]_vars => TypeInv'
  <1> SUFFICES ASSUME TypeInv, [Next]_vars PROVE TypeInv'
    OBVIOUS
  <1> USE DEF TypeInv, TypeOK, BatchRoom, BatchesFit, pipelineVars,
              submitVars, dispatchVars, workerVars, tableVars, stopVars
  <1>1. CASE Start
    BY <1>1 DEF Start
  <1>2. CASE \E e \in Entry : Submit(e)
    BY <1>2, SubmitType
  <1>3. CASE Dispatch
    BY <1>3, DispatchType
  <1>4. CASE \E w \in Worker : Work(w)
    BY <1>4, WorkType
  <1>5. CASE StopCall
    BY <1>5 DEF StopCall, Taken
  <1>6. CASE StopClean \/ StopDeadline
    BY <1>6 DEF StopClean, StopDeadline
  <1>7. CASE HardAbort
    BY <1>7 DEF HardAbort
  <1>8. CASE UNCHANGED vars
    BY <1>8 DEF vars
  <1>9. QED
    BY <1>1, <1>2, <1>3, <1>4, <1>5, <1>6, <1>7, <1>8 DEF Next, Finished

\* Every variable keeps its type, and no channel or slice outgrows the
\* capacity NewLogIngestor gives it.
THEOREM TypeCorrect == Spec => []TypeOK
  <1>1. TypeInv => TypeOK
    BY DEF TypeInv
  <1>2. QED
    BY <1>1, InitType, StepType, PTL DEF Spec
-----------------------------------------------------------------------------
(***************************************************************************)
(* Where the entries are.  Every step moves entries between the places of  *)
(* the pipeline, and only the three facts below matter for the safety      *)
(* properties: what enters, what leaves, and what is merely passed on.     *)
(***************************************************************************)

\* Giving worker w the batch b replaces what w held by b, and leaves the
\* other workers alone.
LEMMA HeldUpdate ==
    ASSUME TypeInv, NEW w \in Worker, NEW b \in Seq(Entry),
           held' = [held EXCEPT ![w] = b]
    PROVE  BeingWritten' \cup Range(held[w]) = BeingWritten \cup Range(b)
  <1>1. \A v \in Worker : held'[v] = IF v = w THEN b ELSE held[v]
    BY DEF TypeInv, TypeOK
  <1>2. ASSUME NEW x \in BeingWritten'
        PROVE  x \in BeingWritten \cup Range(b)
    <2>1. PICK v \in Worker : x \in Range(held'[v])
      BY <1>2 DEF BeingWritten
    <2>2. QED
      BY <1>1, <2>1 DEF BeingWritten
  <1>3. ASSUME NEW x \in BeingWritten
        PROVE  x \in BeingWritten' \cup Range(held[w])
    <2>1. PICK v \in Worker : x \in Range(held[v])
      BY <1>3 DEF BeingWritten
    <2>2. QED
      BY <1>1, <2>1 DEF BeingWritten
  <1>4. Range(held[w]) \subseteq BeingWritten
    BY DEF BeingWritten
  <1>5. Range(b) \subseteq BeingWritten'
    BY <1>1 DEF BeingWritten
  <1>6. QED
    BY <1>2, <1>3, <1>4, <1>5

\* Submit adds its entry to the pipeline.
LEMMA SendMemory ==
    ASSUME TypeInv, NEW e \in Entry, SubmitSend(e)
    PROVE  InMemory' = InMemory \cup {e}
  <1>1. Range(ingest') = Range(ingest) \cup {e}
    BY RangeAppend DEF SubmitSend, TypeInv, TypeOK
  <1>2. batch' = batch /\ batches' = batches /\ held' = held
    BY DEF SubmitSend, CallMoves, dispatchVars, workerVars
  <1>3. Batched' = Batched /\ BeingWritten' = BeingWritten
    BY <1>2 DEF Batched, BeingWritten
  <1>4. QED
    BY <1>1, <1>2, <1>3 DEF InMemory

\* dispatch passes entries on, and drops its batch on a hard abort only.
LEMMA DispatchMemory ==
    ASSUME TypeInv, Dispatch
    PROVE  /\ InMemory' \subseteq InMemory
           /\ ~hardDone => InMemory' = InMemory
  <1> USE DEF TypeInv, TypeOK
  <1>0. Range(<<>>) = {}
    BY RangeType, EmptySeq
  <1>1. CASE DispatchReceive
    <2>1. /\ Head(ingest) \in Entry
          /\ Range(ingest) = {Head(ingest)} \cup Range(Tail(ingest))
      BY <1>1, RangeHeadTail DEF DispatchReceive
    <2>2. Range(Append(batch, Head(ingest))) = Range(batch) \cup {Head(ingest)}
      BY <2>1, RangeAppend
    <2>3. /\ ingest' = Tail(ingest) /\ batch' = Append(batch, Head(ingest))
          /\ batches' = batches /\ held' = held
      BY <1>1 DEF DispatchReceive, workerVars
    <2>4. Batched' = Batched /\ BeingWritten' = BeingWritten
      BY <2>3 DEF Batched, BeingWritten
    <2>5. QED
      BY <2>1, <2>2, <2>3, <2>4 DEF InMemory
  <1>2. CASE DispatchTick \/ DispatchStop \/ DispatchAbort \/ DrainEmpty
    <2>1. UNCHANGED <<ingest, batch, batches, held>>
      BY <1>2 DEF DispatchTick, DispatchStop, DispatchAbort, DrainEmpty,
                  DispatchGoes, submitVars, workerVars
    <2>2. QED
      BY <2>1 DEF InMemory, Batched, BeingWritten
  <1>3. CASE HandOff
    <2>1. Range(Append(batches, batch)) = Range(batches) \cup {batch}
      BY RangeAppend
    <2>2. /\ ingest' = ingest /\ batch' = <<>>
          /\ batches' = Append(batches, batch) /\ held' = held
      BY <1>3 DEF HandOff, NextBatch, submitVars, workerVars
    <2>3. Batched' = Batched \cup Range(batch)
      BY <2>1, <2>2 DEF Batched
    <2>4. BeingWritten' = BeingWritten
      BY <2>2 DEF BeingWritten
    <2>5. QED
      BY <1>0, <2>2, <2>3, <2>4 DEF InMemory
  <1>4. CASE FlushAborted
    <2>1. /\ hardDone /\ ingest' = ingest /\ batch' = <<>>
          /\ batches' = batches /\ held' = held
      BY <1>4 DEF FlushAborted, submitVars, workerVars
    <2>2. Batched' = Batched /\ BeingWritten' = BeingWritten
      BY <2>1 DEF Batched, BeingWritten
    <2>3. QED
      BY <1>0, <2>1, <2>2 DEF InMemory
  <1>5. QED
    BY <1>1, <1>2, <1>3, <1>4 DEF Dispatch
\* A worker that is not writing holds nothing.
IdleHoldsNothing ==
    \A w \in Worker : wpc[w] \in {"off", "idle", "done"} => held[w] = <<>>

\* A worker passes entries on; the only ones that leave the pipeline are
\* those of a batch it was told is written, or abandons on a hard abort.
LEMMA WorkMemory ==
    ASSUME TypeInv, IdleHoldsNothing, NEW w \in Worker, Work(w)
    PROVE  /\ InMemory' \subseteq InMemory
           /\ InMemory \subseteq InMemory' \cup Range(held[w])
           /\ InsertAcked(w) \/ hardDone \/ InMemory' = InMemory
  <1> USE DEF TypeInv, TypeOK, WorkerGoes, submitVars
  <1>0. <<>> \in Seq(Entry) /\ Range(<<>>) = {}
    BY RangeType, EmptySeq
  <1>1. CASE WorkerTake(w)
    <2>1. /\ Head(batches) \in Seq(Entry)
          /\ Range(batches) = {Head(batches)} \cup Range(Tail(batches))
      BY <1>1, RangeHeadTail DEF WorkerTake
    <2>2. /\ ingest' = ingest /\ batch' = batch /\ batches' = Tail(batches)
          /\ held' = [held EXCEPT ![w] = Head(batches)]
          /\ held[w] = <<>>
      BY <1>1 DEF WorkerTake, IdleHoldsNothing
    <2>3. BeingWritten' = BeingWritten \cup Range(Head(batches))
      BY <1>0, <2>1, <2>2, HeldUpdate
    <2>4. Batched = Batched' \cup Range(Head(batches))
      BY <2>1, <2>2 DEF Batched
    <2>5. QED
      BY <2>2, <2>3, <2>4 DEF InMemory
  <1>2. ASSUME held' = [held EXCEPT ![w] = <<>>],
               UNCHANGED <<ingest, batch, batches>>
        PROVE  /\ InMemory' \subseteq InMemory
               /\ InMemory \subseteq InMemory' \cup Range(held[w])
    <2>1. BeingWritten' \cup Range(held[w]) = BeingWritten
      BY <1>0, <1>2, HeldUpdate
    <2>2. Batched' = Batched
      BY <1>2 DEF Batched
    <2>3. QED
      BY <1>2, <2>1, <2>2 DEF InMemory
  <1>3. ASSUME UNCHANGED <<ingest, batch, batches, held>>
        PROVE  InMemory' = InMemory
    BY <1>3 DEF InMemory, Batched, BeingWritten
  <1>4. CASE WorkerExit(w)
    BY <1>3, <1>4 DEF WorkerExit
  <1>5. CASE InsertLands(w)
    BY <1>3, <1>5 DEF InsertLands
  <1>6. CASE InsertAcked(w)
    BY <1>2, <1>6 DEF InsertAcked
  <1>7. CASE InsertFails(w) \/ AckLost(w)
    <2>1. UNCHANGED <<ingest, batch, batches>>
      BY <1>7 DEF InsertFails, AckLost, Failed
    <2>2. \/ hardDone /\ held' = [held EXCEPT ![w] = <<>>]
          \/ held' = held
      BY <1>7 DEF InsertFails, AckLost, Failed
    <2>3. QED
      BY <1>2, <1>3, <2>1, <2>2
  <1>8. CASE BackoffElapsed(w)
    BY <1>3, <1>8 DEF BackoffElapsed
  <1>9. CASE BackoffAborted(w)
    BY <1>2, <1>9 DEF BackoffAborted
  <1>10. QED
    BY <1>1, <1>4, <1>5, <1>6, <1>7, <1>8, <1>9 DEF Work

-----------------------------------------------------------------------------
(***************************************************************************)
(* The shape of a shutdown.  CleanStopDrains speaks of the end of a long   *)
(* sequence of steps; what makes it inductive is what each phase of the    *)
(* shutdown has already emptied:                                           *)
(*   lastFlush   the queue, of everything sent before Stop                 *)
(*   exited      the dispatcher's batch as well                            *)
(*   done        the channel batches and the worker's own hands            *)
(***************************************************************************)

QueueDrained ==
    (dpc \in {"lastFlush", "exited"} /\ ~hardDone) =>
        already \cap Range(ingest) = {}

BatchFlushed == (dpc = "exited" /\ ~hardDone) => batch = <<>>

WorkersDrained ==
    \A w \in Worker : wpc[w] = "done" => dpc = "exited" /\ batches = <<>>

FinishHasCause ==
    dpc \in {"drain", "drainFlush", "lastFlush", "exited"} =>
        stopping \/ hardDone

ShutdownShape ==
    /\ IdleHoldsNothing
    /\ dpc = "off" => \A w \in Worker : wpc[w] = "off"
    /\ QueueDrained
    /\ BatchFlushed
    /\ WorkersDrained
    /\ FinishHasCause
    /\ already \subseteq Taken
    /\ stop # "none" => stopping
    /\ stop = "clean" => AllGone

\* What a worker is told is written is in the table.
LandedStored ==
    \A w \in Worker :
        wpc[w] = "landed" => \A e \in Range(held[w]) : rows[e] >= 1

Inv ==
    /\ TypeInv
    /\ ShutdownShape
    /\ RefusedNeverStored
    /\ NoSilentLoss
    /\ LandedStored
LEMMA InitInv == Init => Inv
  <1> SUFFICES ASSUME Init PROVE Inv
    OBVIOUS
  <1>1. TypeInv
    BY InitType
  <1>2. Range(<<>>) = {}
    BY RangeType, EmptySeq
  <1>3. Taken = {}
    BY DEF Init, Taken
  <1>4. InMemory = {}
    BY <1>2 DEF Init, InMemory, Batched, BeingWritten
  <1>5. ShutdownShape
    BY <1>3 DEF Init, ShutdownShape, IdleHoldsNothing, QueueDrained,
                BatchFlushed, WorkersDrained, FinishHasCause
  <1>6. RefusedNeverStored /\ NoSilentLoss /\ LandedStored
    BY <1>3, <1>4 DEF Init, RefusedNeverStored, NoSilentLoss, LandedStored
  <1>7. QED
    BY <1>1, <1>5, <1>6 DEF Inv

LEMMA SubmitInv ==
    ASSUME Inv, NEW e \in Entry, Submit(e)
    PROVE  Inv'
  <1> USE DEF Inv, ShutdownShape, CallMoves, dispatchVars, workerVars,
              tableVars, stopVars
  <1>0. TypeInv'
    BY SubmitType
  <1>1. CASE SubmitSend(e)
    <2>1. InMemory' = InMemory \cup {e}
      BY <1>1, SendMemory
    <2>2. e \notin Taken /\ Taken' = Taken \cup {e}
      BY <1>1 DEF SubmitSend, Taken, TypeInv, TypeOK
    <2>3. Range(ingest') = Range(ingest) \cup {e}
      BY <1>1, RangeAppend DEF SubmitSend, TypeInv, TypeOK
    <2>4. UNCHANGED <<hardDone, dpc, batch, batches, wpc, held, rows, stop,
                      stopping, already>>
      BY <1>1 DEF SubmitSend
    <2>5. QueueDrained'
      BY <2>2, <2>3, <2>4 DEF QueueDrained
    <2>6. RefusedNeverStored' /\ NoSilentLoss' /\ LandedStored'
      BY <2>1, <2>2, <2>4 DEF RefusedNeverStored, NoSilentLoss, LandedStored
    <2>7. QED
      BY <1>0, <2>2, <2>4, <2>5, <2>6
      DEF IdleHoldsNothing, BatchFlushed, WorkersDrained, FinishHasCause, AllGone
  <1>2. CASE SubmitEnter(e) \/ SubmitRefused(e) \/ SubmitCount(e)
             \/ SubmitCancel(e)
    <2>1. UNCHANGED <<ingest, hardDone, dpc, batch, batches, wpc, held, rows,
                      stop, stopping, already>>
      BY <1>2 DEF SubmitEnter, SubmitRefused, SubmitCount, SubmitCancel
    <2>2. Taken' = Taken
      BY <1>2 DEF SubmitEnter, SubmitRefused, SubmitCount, SubmitCancel,
                  Cancellable, Taken, TypeInv, TypeOK
    <2>3. InMemory' = InMemory
      BY <2>1 DEF InMemory, Batched, BeingWritten
    <2>4. QED
      BY <1>0, <2>1, <2>2, <2>3
      DEF IdleHoldsNothing, QueueDrained, BatchFlushed, WorkersDrained,
          FinishHasCause, AllGone, RefusedNeverStored, NoSilentLoss,
          LandedStored
  <1>3. QED
    BY <1>1, <1>2 DEF Submit

LEMMA DispatchInv ==
    ASSUME Inv, Dispatch
    PROVE  Inv'
  <1> USE DEF Inv, ShutdownShape
  <1>0. TypeInv'
    BY DispatchType
  <1>1. /\ InMemory' \subseteq InMemory
        /\ ~hardDone => InMemory' = InMemory
    BY DispatchMemory
  <1>2. UNCHANGED <<call, hardDone, wpc, held, rows, stop, stopping, already>>
    BY DEF Dispatch, DispatchReceive, DispatchTick, DispatchStop,
           DispatchAbort, DrainEmpty, DispatchGoes, HandOff, FlushAborted,
           submitVars, workerVars, tableVars, stopVars
  <1>3. Taken' = Taken
    BY <1>2 DEF Taken
  <1>4. RefusedNeverStored' /\ NoSilentLoss' /\ LandedStored'
    BY <1>1, <1>2, <1>3 DEF RefusedNeverStored, NoSilentLoss, LandedStored
  <1>5. dpc # "exited" /\ dpc # "off" /\ dpc' # "off"
    BY DEF Dispatch, DispatchReceive, DispatchTick, DispatchStop,
           DispatchAbort, DrainEmpty, AfterDrain, DispatchGoes, HandOff,
           FlushAborted, Flushing, TypeInv, TypeOK
  <1>6. IdleHoldsNothing' /\ WorkersDrained' /\ (stop' = "clean" => AllGone')
    BY <1>2, <1>5 DEF IdleHoldsNothing, WorkersDrained, AllGone
  <1>7. FinishHasCause'
    BY <1>2 DEF FinishHasCause, Dispatch, DispatchReceive, DispatchTick,
           DispatchStop, DispatchAbort, DrainEmpty, DispatchGoes, HandOff,
           FlushAborted
  <1>8. QueueDrained'
    <2>1. CASE DrainEmpty
      <3>1. ingest' = <<>>
        BY <2>1 DEF DrainEmpty, DispatchGoes, submitVars
      <3>2. Range(ingest') = {}
        BY <3>1, RangeType, EmptySeq
      <3>3. QED
        BY <3>2 DEF QueueDrained
    <2>2. CASE HandOff
      BY <1>2, <2>2 DEF HandOff, QueueDrained, submitVars
    <2>3. CASE DispatchReceive \/ DispatchTick \/ DispatchStop
      BY <1>5, <2>3 DEF DispatchReceive, DispatchTick, DispatchStop,
         DispatchGoes, QueueDrained
    <2>4. CASE DispatchAbort \/ FlushAborted
      BY <1>2, <2>4 DEF DispatchAbort, FlushAborted, QueueDrained
    <2>5. QED
      BY <2>1, <2>2, <2>3, <2>4 DEF Dispatch
  <1>9. BatchFlushed'
    BY <1>2 DEF BatchFlushed, Dispatch, DispatchReceive, DispatchTick,
           DispatchStop, DispatchAbort, DrainEmpty, AfterDrain, DispatchGoes,
           HandOff, NextBatch, FlushAborted
  <1>10. QED
    BY <1>0, <1>2, <1>3, <1>4, <1>5, <1>6, <1>7, <1>8, <1>9
LEMMA WorkInv ==
    ASSUME Inv, NEW w \in Worker, Work(w)
    PROVE  Inv'
  <1> USE DEF Inv, ShutdownShape, WorkerGoes, submitVars, stopVars
  <1>0. TypeInv'
    BY WorkType
  <1>1. /\ InMemory' \subseteq InMemory
        /\ InMemory \subseteq InMemory' \cup Range(held[w])
        /\ InsertAcked(w) \/ hardDone \/ InMemory' = InMemory
    BY WorkMemory
  <1>2. UNCHANGED <<call, ingest, hardDone, dpc, batch, stop, stopping, already>>
    BY DEF Work, WorkerTake, WorkerExit, InsertLands, InsertAcked,
           InsertFails, AckLost, Failed, BackoffElapsed, BackoffAborted
  <1>3. Taken' = Taken
    BY <1>2 DEF Taken
  <1>4. /\ wpc[w] \notin {"off", "done"} /\ wpc'[w] # "off"
        /\ \A v \in Worker \ {w} : wpc'[v] = wpc[v]
    BY DEF Work, WorkerTake, WorkerExit, InsertLands, InsertAcked,
           InsertFails, AckLost, Failed, BackoffElapsed, BackoffAborted,
           TypeInv, TypeOK
  <1>5. \A v \in Worker \ {w} : held'[v] = held[v]
    BY DEF Work, WorkerTake, WorkerExit, InsertLands, InsertAcked,
           InsertFails, AckLost, Failed, BackoffElapsed, BackoffAborted,
           TypeInv, TypeOK
  <1>6. \A e \in Entry : rows'[e] >= rows[e]
    <2>1. \A e \in Entry : rows[e] \in Nat
      BY DEF TypeInv, TypeOK
    <2>2. CASE InsertLands(w)
      BY <2>1, <2>2 DEF InsertLands
    <2>3. CASE ~InsertLands(w)
      <3>1. rows' = rows
        BY <2>3 DEF Work, WorkerTake, WorkerExit, InsertAcked, InsertFails,
                    AckLost, BackoffElapsed, BackoffAborted, tableVars
      <3>2. QED
        BY <2>1, <3>1
    <2>4. QED
      BY <2>2, <2>3
  <1>7. Range(held[w]) \subseteq InMemory
    BY DEF InMemory, BeingWritten
  <1>8. \A e \in Entry : rows'[e] # rows[e] => e \in Range(held[w])
    BY InsertsAll
    DEF Work, WorkerTake, WorkerExit, InsertLands, InsertAcked,
           InsertFails, AckLost, BackoffElapsed, BackoffAborted,
           tableVars, TypeInv, TypeOK
  <1>9. IdleHoldsNothing'
    <2>1. wpc'[w] \in {"off", "idle", "done"} => held'[w] = <<>>
      BY DEF Work, WorkerTake, WorkerExit, InsertLands, InsertAcked,
             InsertFails, AckLost, Failed, BackoffElapsed, BackoffAborted,
             IdleHoldsNothing, TypeInv, TypeOK
    <2>2. QED
      BY <1>4, <1>5, <2>1 DEF IdleHoldsNothing
  <1>10. WorkersDrained'
    <2>1. batches = <<>> => batches' = <<>>
      BY DEF Work, WorkerTake, WorkerExit, InsertLands, InsertAcked,
             InsertFails, AckLost, BackoffElapsed, BackoffAborted
    <2>2. wpc'[w] = "done" => dpc = "exited" /\ batches = <<>>
      BY DEF Work, WorkerTake, WorkerExit, InsertLands, InsertAcked,
             InsertFails, AckLost, Failed, BackoffElapsed, BackoffAborted,
             TypeInv, TypeOK
    <2>3. QED
      BY <1>2, <1>4, <2>1, <2>2 DEF WorkersDrained
  <1>11. dpc # "off" /\ stop # "clean"
    BY <1>4 DEF AllGone
  <1>12. ShutdownShape'
    BY <1>2, <1>3, <1>9, <1>10, <1>11
    DEF QueueDrained, BatchFlushed, FinishHasCause
  <1>13. RefusedNeverStored'
    BY <1>1, <1>3, <1>7, <1>8 DEF RefusedNeverStored
  <1>14. LandedStored'
    <2>1. ASSUME wpc'[w] = "landed", NEW e \in Range(held'[w])
          PROVE  rows'[e] >= 1
      <3>1. InsertLands(w)
        BY <2>1 DEF Work, WorkerTake, WorkerExit, InsertAcked, InsertFails,
                    AckLost, Failed, BackoffElapsed, BackoffAborted,
                    TypeInv, TypeOK
      <3>2. held' = held /\ e \in Entry
        BY <2>1, <3>1, RangeType DEF InsertLands, TypeInv, TypeOK
      <3>3. QED
        BY <2>1, <3>1, <3>2, InsertsAll DEF InsertLands, TypeInv, TypeOK
    <2>2. ASSUME NEW v \in Worker \ {w}, NEW e \in Range(held'[v]),
                 wpc'[v] = "landed"
          PROVE  rows'[e] >= 1
      <3>1. e \in Range(held[v]) /\ wpc[v] = "landed"
        BY <1>4, <1>5, <2>2
      <3>2. e \in Entry
        BY <3>1, RangeType DEF TypeInv, TypeOK
      <3>3. rows[e] >= 1
        BY <3>1 DEF LandedStored
      <3>4. QED
        BY <1>0, <1>6, <3>2, <3>3 DEF TypeInv, TypeOK
    <2>3. QED
      BY <2>1, <2>2 DEF LandedStored
  <1>15. NoSilentLoss'
    <2>1. SUFFICES ASSUME ~hardDone, NEW e \in Taken
                   PROVE  e \in InMemory' \/ rows'[e] >= 1
      BY <1>2, <1>3 DEF NoSilentLoss
    <2>2. e \in Entry
      BY DEF Taken
    <2>3. CASE rows[e] >= 1
      BY <1>0, <1>6, <2>2, <2>3 DEF TypeInv, TypeOK
    <2>4. CASE e \in InMemory /\ ~InsertAcked(w)
      BY <1>1, <2>1, <2>4
    <2>5. CASE e \in InMemory /\ InsertAcked(w)
      <3>1. e \in InMemory' \/ e \in Range(held[w])
        BY <1>1, <2>5
      <3>2. wpc[w] = "landed" /\ rows' = rows
        BY <2>5 DEF InsertAcked
      <3>3. QED
        BY <3>1, <3>2 DEF LandedStored
    <2>6. QED
      BY <2>1, <2>3, <2>4, <2>5 DEF NoSilentLoss
  <1>16. QED
    BY <1>0, <1>12, <1>13, <1>14, <1>15

LEMMA StepInv == Inv /\ [Next]_vars => Inv'
  <1> SUFFICES ASSUME Inv, [Next]_vars PROVE Inv'
    OBVIOUS
  <1>0. TypeInv'
    BY StepType DEF Inv
  <1> USE DEF Inv, ShutdownShape, IdleHoldsNothing, QueueDrained,
              BatchFlushed, WorkersDrained, FinishHasCause, AllGone,
              RefusedNeverStored, NoSilentLoss, LandedStored
  <1>1. CASE \E e \in Entry : Submit(e)
    BY <1>1, SubmitInv
  <1>2. CASE Dispatch
    BY <1>2, DispatchInv
  <1>3. CASE \E w \in Worker : Work(w)
    BY <1>3, WorkInv
  <1>4. CASE Start
    <2>1. UNCHANGED <<call, ingest, hardDone, batch, batches, held, rows,
                      stop, stopping, already>>
      BY <1>4 DEF Start, submitVars, tableVars, stopVars
    <2>2. Taken' = Taken /\ InMemory' = InMemory
      BY <2>1 DEF Taken, InMemory, Batched, BeingWritten
    <2>3. dpc = "off" /\ dpc' = "select" /\ wpc' = [w \in Worker |-> "idle"]
      BY <1>4 DEF Start
    <2>4. stop # "clean"
      BY <2>3
    <2>5. QED
      BY <1>0, <2>1, <2>2, <2>3, <2>4
  <1>5. CASE StopCall \/ StopClean \/ StopDeadline \/ HardAbort \/ UNCHANGED vars
    <2>1. UNCHANGED <<call, ingest, dpc, batch, batches, wpc, held, rows>>
      BY <1>5 DEF StopCall, StopClean, StopDeadline, HardAbort, pipelineVars,
                  submitVars, dispatchVars, workerVars, tableVars, vars
    <2>2. Taken' = Taken /\ InMemory' = InMemory
      BY <2>1 DEF Taken, InMemory, Batched, BeingWritten
    <2>3. /\ hardDone => hardDone'
          /\ stopping => stopping'
      BY <1>5 DEF StopCall, StopClean, StopDeadline, HardAbort, stopVars, vars
    <2>4. /\ stop' = "clean" => AllGone
          /\ stop' # "none" => stopping'
      BY <1>5 DEF StopCall, StopClean, StopDeadline, HardAbort, stopVars, vars
    <2>5. \/ already' = already
          \/ ~stopping /\ already' = Taken
      BY <1>5 DEF StopCall, StopClean, StopDeadline, HardAbort, stopVars, vars
    <2>6. QED
      BY <1>0, <2>1, <2>2, <2>3, <2>4, <2>5
  <1>6. QED
    BY <1>1, <1>2, <1>3, <1>4, <1>5 DEF Next, Finished
\* An entry Submit took stays in the pipeline until it is in the table,
\* unless the pipeline is hard-aborted.
THEOREM NothingLostSilently == Spec => []NoSilentLoss
  <1>1. Inv => NoSilentLoss
    BY DEF Inv
  <1>2. QED
    BY <1>1, InitInv, StepInv, PTL DEF Spec

\* An entry whose Submit returned an error, or has not got past its selects,
\* is in no queue and not in the table.
THEOREM RefusedIsNeverStored == Spec => []RefusedNeverStored
  <1>1. Inv => RefusedNeverStored
    BY DEF Inv
  <1>2. QED
    BY <1>1, InitInv, StepInv, PTL DEF Spec

\* When every goroutine is gone, nothing handed over in time is missing.
LEMMA GoneMeansWritten ==
    (Inv /\ AllGone /\ ~hardDone) => \A e \in already : rows[e] >= 1
  <1> SUFFICES ASSUME Inv, AllGone, ~hardDone, NEW e \in already
               PROVE  rows[e] >= 1
    OBVIOUS
  <1> USE DEF Inv, ShutdownShape
  <1>1. Range(<<>>) = {}
    BY RangeType, EmptySeq
  <1>2. dpc = "exited" /\ \A w \in Worker : wpc[w] = "done"
    BY DEF AllGone
  <1>3. e \notin Range(ingest) /\ batch = <<>>
    BY <1>2 DEF QueueDrained, BatchFlushed
  <1>4. batches = <<>> /\ \A w \in Worker : held[w] = <<>>
    BY <1>2, WorkerAssumption DEF WorkersDrained, IdleHoldsNothing
  <1>5. e \notin InMemory
    BY <1>1, <1>3, <1>4 DEF InMemory, Batched, BeingWritten
  <1>6. QED
    BY <1>5 DEF NoSilentLoss

LEMMA InvDrains == Inv => CleanStopDrains
  BY GoneMeansWritten DEF CleanStopDrains, Inv, ShutdownShape

\* A Stop that returns nil has written everything handed over before it was
\* called, however the senders, the dispatcher and the workers interleave.
THEOREM CleanStopIsComplete == Spec => []CleanStopDrains
  BY InvDrains, InitInv, StepInv, PTL DEF Spec

LEMMA QuietStep == Inv /\ [Next]_vars => (stop = "clean" => UNCHANGED <<rows, written>>)
  <1> SUFFICES ASSUME Inv, [Next]_vars, stop = "clean"
               PROVE  UNCHANGED <<rows, written>>
    OBVIOUS
  <1>1. \A w \in Worker : wpc[w] = "done"
    BY DEF Inv, ShutdownShape, AllGone
  <1>2. ~ \E w \in Worker : Work(w)
    BY <1>1 DEF Work, WorkerTake, WorkerExit, InsertLands, InsertAcked,
                InsertFails, AckLost, Failed, BackoffElapsed, BackoffAborted,
                WorkerGoes
  <1>3. CASE Start \/ (\E e \in Entry : Submit(e)) \/ Dispatch
    BY <1>3 DEF Start, Submit, SubmitEnter, SubmitRefused, SubmitSend,
                SubmitCount, SubmitCancel, CallMoves, Dispatch,
                DispatchReceive, DispatchTick, DispatchStop, DispatchAbort,
                DrainEmpty, DispatchGoes, HandOff, FlushAborted, tableVars
  <1>4. CASE StopCall \/ StopClean \/ StopDeadline \/ HardAbort \/ UNCHANGED vars
    BY <1>4 DEF StopCall, StopClean, StopDeadline, HardAbort, pipelineVars,
                tableVars, vars
  <1>5. QED
    BY <1>2, <1>3, <1>4 DEF Next, Finished

\* After a clean Stop nothing of the pipeline touches the table again, so
\* the database may be closed.
THEOREM QuietAfterStop == Spec => QuietAfterCleanStop
  BY QuietStep, InitInv, StepInv, PTL DEF Spec, QuietAfterCleanStop
-----------------------------------------------------------------------------
(***************************************************************************)
(* Refinement: every step of the pipeline is a step of LogDelivery or      *)
(* leaves what LogDelivery sees alone.                                     *)
(***************************************************************************)

\* A sequence has no more distinct elements than positions.
LEMMA RangeCardinality ==
    ASSUME NEW S, NEW s \in Seq(S)
    PROVE  IsFiniteSet(Range(s)) /\ Cardinality(Range(s)) <= Len(s)
  <1>1. Len(s) \in Nat
    BY LenProperties
  <1>2. IsFiniteSet(1 .. Len(s)) /\ Cardinality(1 .. Len(s)) = Len(s)
    BY <1>1, FS_Interval
  <1>3. s \in [1 .. Len(s) -> S] /\ Range(s) = {s[i] : i \in 1 .. Len(s)}
    BY LenProperties, RangeEquality
  <1>4. s \in Surjection(1 .. Len(s), Range(s))
    BY <1>3 DEF Surjection
  <1>5. QED
    BY <1>2, <1>4, FS_Surjection

Stored == {e \in Entry : rows[e] >= 1}

LEMMA InitDelivers == Init => Delivery!Init
  BY DEF Init, Delivery!Init, Taken

\* A committed batch is one Store, or nothing new when a retry repeats it.
LEMMA InsertDelivers ==
    ASSUME Inv, NEW w \in Worker, InsertLands(w)
    PROVE  [Delivery!Next]_(Delivery!dvars)
  <1>1. held[w] \in Seq(Entry) /\ Len(held[w]) <= BatchSize
    BY DEF Inv, TypeInv, TypeOK, BatchesFit
  <1>2. Range(held[w]) \subseteq Entry
    BY <1>1, RangeType
  <1> PICK group \in SUBSET Entry : group = Range(held[w]) \ Stored
    BY <1>2
  <1>3. Range(held[w]) \subseteq InMemory
    BY DEF InMemory, BeingWritten
  <1>4. group \subseteq Taken \ Stored
    BY <1>2, <1>3 DEF Inv, RefusedNeverStored
  <1>5. Cardinality(group) <= BatchSize
    <2>1. IsFiniteSet(Range(held[w])) /\ Cardinality(Range(held[w])) <= Len(held[w])
      BY <1>1, RangeCardinality
    <2>2. Cardinality(group) <= Cardinality(Range(held[w]))
      BY <2>1, FS_Subset
    <2>3. /\ Cardinality(group) \in Nat
          /\ Cardinality(Range(held[w])) \in Nat
          /\ Len(held[w]) \in Nat
      BY <1>1, <2>1, FS_Subset, FS_CardinalityType, LenProperties
    <2>4. QED
      BY <1>1, <2>1, <2>2, <2>3, ConfigAssumption
  <1>6. Stored' = Stored \cup group
    <2>1. \A e \in Entry : rows[e] \in Nat
      BY DEF Inv, TypeInv, TypeOK
    <2>2. \A e \in Entry : rows'[e] >= 1 <=> (rows[e] >= 1 \/ e \in Range(held[w]))
      BY <1>1, <2>1, InsertsAll DEF InsertLands
    <2>3. QED
      BY <1>2, <2>2 DEF Stored
  <1>7. UNCHANGED <<call, stopping, already, hardDone, stop>>
    BY DEF InsertLands, WorkerGoes, submitVars, stopVars
  <1>8. stop # "clean"
    BY DEF Inv, ShutdownShape, AllGone, InsertLands, WorkerGoes
  <1>9. Taken' = Taken
    BY <1>7 DEF Taken
  <1>10. CASE group = {}
    BY <1>6, <1>7, <1>9, <1>10 DEF Delivery!dvars, Stored
  <1>11. CASE group # {}
    <2>1. Delivery!Store(group)
      BY <1>4, <1>5, <1>6, <1>7, <1>8, <1>9, <1>11 DEF Delivery!Store, Stored, Delivery!Cardinality, Cardinality
    <2>2. QED
      BY <2>1 DEF Delivery!Next
  <1>12. QED
    BY <1>10, <1>11

LEMMA StepDelivers == Inv /\ [Next]_vars => [Delivery!Next]_(Delivery!dvars)
  <1> SUFFICES ASSUME Inv, [Next]_vars
               PROVE  [Delivery!Next]_(Delivery!dvars)
    OBVIOUS
  <1>1. ASSUME NEW e \in Entry, SubmitSend(e)
        PROVE  Delivery!Take(e)
    <2>1. e \notin Taken /\ Taken' = Taken \cup {e}
      BY <1>1 DEF SubmitSend, CallMoves, Taken, Inv, TypeInv, TypeOK
    <2>2. UNCHANGED <<rows, stopping, already, hardDone, stop>>
      BY <1>1 DEF SubmitSend, CallMoves, tableVars, stopVars
    <2>3. QED
      BY <2>1, <2>2 DEF Delivery!Take
  <1>2. ASSUME NEW e \in Entry, Submit(e), ~SubmitSend(e)
        PROVE  UNCHANGED Delivery!dvars
    <2>1. Taken' = Taken
      BY <1>2 DEF Submit, SubmitEnter, SubmitRefused, SubmitCount,
                  SubmitCancel, Cancellable, CallMoves, Taken, Inv, TypeInv,
                  TypeOK
    <2>2. UNCHANGED <<rows, stopping, already, hardDone, stop>>
      BY <1>2 DEF Submit, SubmitEnter, SubmitRefused, SubmitCount,
                  SubmitCancel, CallMoves, tableVars, stopVars
    <2>3. QED
      BY <2>1, <2>2 DEF Delivery!dvars
  <1>3. ASSUME UNCHANGED <<call, rows, stopping, already, hardDone, stop>>
        PROVE  UNCHANGED Delivery!dvars
    BY <1>3 DEF Delivery!dvars, Taken
  <1>4. CASE Start \/ Dispatch \/ UNCHANGED vars
    BY <1>3, <1>4 DEF Start, Dispatch, DispatchReceive, DispatchTick,
       DispatchStop, DispatchAbort, DrainEmpty, DispatchGoes, HandOff,
       FlushAborted, submitVars, tableVars, stopVars, vars
  <1>5. ASSUME NEW w \in Worker, Work(w), ~InsertLands(w)
        PROVE  UNCHANGED Delivery!dvars
    BY <1>3, <1>5 DEF Work, WorkerTake, WorkerExit, InsertAcked, InsertFails,
       AckLost, Failed, BackoffElapsed, BackoffAborted, WorkerGoes,
       submitVars, tableVars, stopVars
  <1>6. CASE StopCall
    <2>1. /\ UNCHANGED <<call, rows, hardDone>> /\ stopping'
          /\ stop # "clean" /\ stop' # "clean"
          /\ already' = IF stopping THEN already ELSE Taken
      BY <1>6 DEF StopCall, pipelineVars, submitVars, tableVars
    <2>2. Taken' = Taken
      BY <2>1 DEF Taken
    <2>3. CASE stopping
      BY <2>1, <2>2, <2>3 DEF Delivery!dvars, Inv, TypeInv, TypeOK
    <2>4. CASE ~stopping
      <3>1. Delivery!Close
        BY <1>6, <2>1, <2>2, <2>4 DEF Delivery!Close, StopCall
      <3>2. QED
        BY <3>1 DEF Delivery!Next
    <2>5. QED
      BY <2>3, <2>4
  <1>7. CASE StopClean
    <2>1. /\ UNCHANGED <<call, rows, stopping, already, hardDone>>
          /\ stop' = "clean"
      BY <1>7 DEF StopClean, pipelineVars, submitVars, tableVars
    <2>2. stopping
      BY <1>7 DEF Inv, ShutdownShape, StopClean
    <2>3. hardDone \/ already \subseteq {e \in Entry : rows[e] >= 1}
      BY <1>7, GoneMeansWritten DEF StopClean, Inv, TypeInv, TypeOK
    <2>4. Delivery!Finish
      BY <2>1, <2>2, <2>3 DEF Delivery!Finish, Taken
    <2>5. QED
      BY <2>4 DEF Delivery!Next
  <1>8. CASE StopDeadline
    BY <1>8 DEF StopDeadline, pipelineVars, submitVars, tableVars,
       Delivery!dvars, Taken
  <1>9. CASE HardAbort
    <2>1. Delivery!Abort
      BY <1>9 DEF HardAbort, pipelineVars, submitVars, tableVars, stopVars,
         Delivery!Abort, Taken
    <2>2. QED
      BY <2>1 DEF Delivery!Next
  <1>10. QED
    BY <1>1, <1>2, <1>4, <1>5, <1>6, <1>7, <1>8, <1>9, InsertDelivers
    DEF Next, Delivery!Next, Finished

\* The pipeline keeps the promise LogDelivery states, for every
\* configuration.
THEOREM PipelineImplementsDelivery == Spec => ImplementsDelivery
  BY InitDelivers, StepDelivers, InitInv, StepInv, PTL
  DEF Spec, ImplementsDelivery, Delivery!Spec
-----------------------------------------------------------------------------
(***************************************************************************)
(* Memory.  The places that can hold an entry form a grid: as many batches *)
(* as the channel and the workers have room for, times BatchSize.          *)
(***************************************************************************)

LEMMA IntervalCardinality ==
    ASSUME NEW n \in Nat
    PROVE  IsFiniteSet(1 .. n) /\ Cardinality(1 .. n) = n
  BY FS_Interval

\* Finitely many sequences of length at most n hold at most n entries each.
LEMMA GridCardinality ==
    ASSUME NEW I, IsFiniteSet(I), NEW n \in Nat,
           NEW g \in [I -> Seq(Entry)],
           \A i \in I : Len(g[i]) <= n
    PROVE  LET U == UNION {Range(g[i]) : i \in I}
           IN  IsFiniteSet(U) /\ Cardinality(U) <= Cardinality(I) * n
  <1> DEFINE U == UNION {Range(g[i]) : i \in I}
             Grid == I \X (1 .. n)
  <1>1. IsFiniteSet(1 .. n) /\ Cardinality(1 .. n) = n
    BY IntervalCardinality
  <1>2. IsFiniteSet(Grid) /\ Cardinality(Grid) = Cardinality(I) * n
    BY <1>1, FS_Product
  <1>3. CASE U = {}
    <2>1. IsFiniteSet(U) /\ Cardinality(U) = 0
      BY <1>3, FS_EmptySet
    <2>2. Cardinality(Grid) \in Nat
      BY <1>2, FS_CardinalityType
    <2>3. QED
      BY <1>2, <2>1, <2>2
  <1>4. ASSUME NEW d \in U
        PROVE  IsFiniteSet(U) /\ Cardinality(U) <= Cardinality(Grid)
    <2> DEFINE f == [p \in Grid |-> IF p[2] \in 1 .. Len(g[p[1]])
                                    THEN g[p[1]][p[2]] ELSE d]
    <2>1. ASSUME NEW i \in I
          PROVE  /\ Len(g[i]) \in Nat
                 /\ Range(g[i]) = {g[i][j] : j \in 1 .. Len(g[i])}
      BY RangeEquality, LenProperties
    <2>2. ASSUME NEW i \in I, NEW j \in 1 .. n
          PROVE  f[<<i, j>>] = IF j \in 1 .. Len(g[i]) THEN g[i][j] ELSE d
      OBVIOUS
    <2> HIDE DEF f
    <2>3. ASSUME NEW p \in Grid
          PROVE  f[p] \in U
      <3>1. PICK i \in I, j \in 1 .. n : p = <<i, j>>
        OBVIOUS
      <3>2. CASE j \in 1 .. Len(g[i])
        <4>1. f[p] \in Range(g[i])
          BY <2>1, <2>2, <3>1, <3>2
        <4>2. QED
          BY <4>1
      <3>3. CASE j \notin 1 .. Len(g[i])
        BY <2>2, <3>1, <3>3
      <3>4. QED
        BY <3>2, <3>3
    <2>4. ASSUME NEW x \in U
          PROVE  \E p \in Grid : f[p] = x
      <3>1. PICK i \in I : x \in Range(g[i])
        OBVIOUS
      <3>2. PICK j \in 1 .. Len(g[i]) : x = g[i][j]
        BY <2>1, <3>1
      <3>3. j \in 1 .. n
        BY <2>1
      <3>4. <<i, j>> \in Grid /\ f[<<i, j>>] = x
        BY <2>2, <3>2, <3>3
      <3>5. QED
        BY <3>4
    <2>5. f \in Surjection(Grid, U)
      <3>1. f \in [Grid -> U]
        <4>1. f = [p \in Grid |-> f[p]]
          BY DEF f
        <4>2. QED
          BY <2>3, <4>1
      <3>2. QED
        BY <2>4, <3>1 DEF Surjection
    <2>6. QED
      BY <1>2, <2>5, FS_Surjection
  <1>5. QED
    BY <1>2, <1>3, <1>4

LEMMA UnionCardinality ==
    ASSUME NEW S, IsFiniteSet(S), NEW T, IsFiniteSet(T)
    PROVE  /\ IsFiniteSet(S \cup T)
           /\ Cardinality(S \cup T) <= Cardinality(S) + Cardinality(T)
  <1>1. IsFiniteSet(S \cap T)
    BY FS_Subset
  <1>2. /\ Cardinality(S) \in Nat /\ Cardinality(T) \in Nat
        /\ Cardinality(S \cap T) \in Nat
    BY <1>1, FS_CardinalityType
  <1>3. /\ IsFiniteSet(S \cup T)
        /\ Cardinality(S \cup T) =
              Cardinality(S) + Cardinality(T) - Cardinality(S \cap T)
    BY FS_Union
  <1>4. QED
    BY <1>2, <1>3

\* The bound, with its terms collected.
LEMMA RoomSum ==
    ASSUME NEW q \in Nat, NEW b \in Nat, NEW c \in Nat
    PROVE  q + b + (2 * c) * b + c * b = q + b * (1 + 3 * c)
  <1>1. (2 * c) * b = 2 * (c * b)
    OBVIOUS
  <1>2. b * (1 + 3 * c) = b + 3 * (c * b)
    OBVIOUS
  <1>3. c * b \in Nat
    OBVIOUS
  <1>4. QED
    BY <1>1, <1>2, <1>3

\* The sum of the four bounds.
LEMMA SumOfParts ==
    ASSUME NEW a \in Nat, NEW b \in Nat, NEW c \in Nat, NEW d \in Nat,
           NEW q \in Nat, NEW x \in Nat, NEW y \in Nat, NEW z \in Nat,
           NEW m \in Nat, m <= a + b + c + d,
           a <= q, b <= x, c <= y, d <= z
    PROVE  m <= q + x + y + z
  OBVIOUS

LEMMA MemoryFits == TypeInv => MemoryBounded
  <1> SUFFICES ASSUME TypeInv PROVE MemoryBounded
    OBVIOUS
  <1> USE DEF TypeInv, TypeOK
  <1> DEFINE C == Cardinality(Worker)
  <1>1. C \in Nat /\ 2 * C \in Nat /\ BatchSize \in Nat /\ QueueSize \in Nat
    BY WorkerAssumption, FS_CardinalityType, ConfigAssumption
  <1>2. /\ IsFiniteSet(Range(ingest)) /\ Cardinality(Range(ingest)) <= Len(ingest)
        /\ IsFiniteSet(Range(batch)) /\ Cardinality(Range(batch)) <= Len(batch)
    BY RangeCardinality
  <1>3. Len(ingest) \in Nat /\ Len(batch) \in Nat /\ Len(batches) \in Nat
    BY LenProperties
  <1>4. IsFiniteSet(BeingWritten) /\ Cardinality(BeingWritten) <= C * BatchSize
    <2>1. /\ IsFiniteSet(UNION {Range(held[w]) : w \in Worker})
          /\ Cardinality(UNION {Range(held[w]) : w \in Worker}) <= C * BatchSize
      BY <1>1, WorkerAssumption, GridCardinality DEF BatchesFit
    <2>2. QED
      BY <2>1 DEF BeingWritten
  <1>5. IsFiniteSet(Batched) /\ Cardinality(Batched) <= (2 * C) * BatchSize
    <2> DEFINE I == 1 .. (2 * C)
               g == [i \in I |-> IF i \in 1 .. Len(batches) THEN batches[i]
                                                           ELSE <<>>]
    <2>1. IsFiniteSet(I) /\ Cardinality(I) = 2 * C
      BY <1>1, IntervalCardinality
    <2>2. <<>> \in Seq(Entry) /\ Len(<<>>) = 0 /\ Range(<<>>) = {}
      BY EmptySeq, RangeType
    <2>3. Range(batches) = {batches[i] : i \in 1 .. Len(batches)}
      BY RangeEquality
    <2>4. \A i \in 1 .. Len(batches) :
            batches[i] \in Seq(Entry) /\ Len(batches[i]) <= BatchSize
      BY <2>3, RangeType DEF BatchesFit
    <2>5. g \in [I -> Seq(Entry)] /\ \A i \in I : Len(g[i]) <= BatchSize
      BY <1>1, <2>2, <2>4
    <2>6. /\ IsFiniteSet(UNION {Range(g[i]) : i \in I})
          /\ Cardinality(UNION {Range(g[i]) : i \in I}) <= (2 * C) * BatchSize
      <3> HIDE DEF g, I
      <3>1. /\ IsFiniteSet(UNION {Range(g[i]) : i \in I})
            /\ Cardinality(UNION {Range(g[i]) : i \in I})
                 <= Cardinality(I) * BatchSize
        BY <1>1, <2>1, <2>5, GridCardinality
      <3>2. QED
        BY <2>1, <3>1
    <2>7. UNION {Range(g[i]) : i \in I} = Batched
      <3>1. \A i \in 1 .. Len(batches) : i \in I /\ g[i] = batches[i]
        BY <1>1, <1>3
      <3>2. \A i \in I : i \notin 1 .. Len(batches) => Range(g[i]) = {}
        BY <2>2
      <3> HIDE DEF g, I
      <3>3. ASSUME NEW x, NEW i \in I, x \in Range(g[i])
            PROVE  x \in Batched
        <4>1. i \in 1 .. Len(batches)
          BY <3>2, <3>3
        <4>2. x \in Range(batches[i]) /\ batches[i] \in Range(batches)
          BY <2>3, <3>1, <3>3, <4>1
        <4>3. QED
          BY <4>2 DEF Batched
      <3>4. ASSUME NEW x \in Batched
            PROVE  \E i \in I : x \in Range(g[i])
        <4>1. PICK b \in Range(batches) : x \in Range(b)
          BY <3>4 DEF Batched
        <4>2. PICK i \in 1 .. Len(batches) : b = batches[i]
          BY <2>3, <4>1
        <4>3. QED
          BY <3>1, <4>1, <4>2
      <3>5. QED
        BY <3>3, <3>4
    <2>8. QED
      BY <2>6, <2>7
  <1>6. /\ IsFiniteSet(InMemory)
        /\ Cardinality(InMemory) <= Cardinality(Range(ingest))
             + Cardinality(Range(batch)) + Cardinality(Batched)
             + Cardinality(BeingWritten)
    <2> DEFINE A == Range(ingest) \cup Range(batch)
               B == A \cup Batched
    <2>1. IsFiniteSet(A) /\ Cardinality(A) <= Cardinality(Range(ingest)) + Cardinality(Range(batch))
      BY <1>2, UnionCardinality
    <2>2. IsFiniteSet(B) /\ Cardinality(B) <= Cardinality(A) + Cardinality(Batched)
      BY <1>5, <2>1, UnionCardinality
    <2>3. IsFiniteSet(B \cup BeingWritten)
          /\ Cardinality(B \cup BeingWritten) <= Cardinality(B) + Cardinality(BeingWritten)
      BY <1>4, <2>2, UnionCardinality
    <2>4. InMemory = B \cup BeingWritten
      BY DEF InMemory
    <2>5. /\ Cardinality(Range(ingest)) \in Nat /\ Cardinality(Range(batch)) \in Nat
          /\ Cardinality(Batched) \in Nat /\ Cardinality(BeingWritten) \in Nat
          /\ Cardinality(A) \in Nat /\ Cardinality(B) \in Nat
          /\ Cardinality(InMemory) \in Nat
      BY <1>2, <1>4, <1>5, <2>1, <2>2, <2>3, <2>4, FS_CardinalityType
    <2> HIDE DEF A, B
    <2>6. QED
      BY <2>1, <2>2, <2>3, <2>4, <2>5
  <1>7. /\ Cardinality(Range(ingest)) \in Nat /\ Cardinality(Range(batch)) \in Nat
        /\ Cardinality(Batched) \in Nat /\ Cardinality(BeingWritten) \in Nat
        /\ Cardinality(InMemory) \in Nat
    BY <1>2, <1>4, <1>5, <1>6, FS_CardinalityType
  <1>8. Cardinality(InMemory) <= QueueSize + BatchSize + (2 * C) * BatchSize
                                   + C * BatchSize
    <2>1. (2 * C) * BatchSize \in Nat /\ C * BatchSize \in Nat
      BY <1>1
    <2>2. /\ Cardinality(Range(ingest)) <= QueueSize
          /\ Cardinality(Range(batch)) <= BatchSize
      BY <1>1, <1>2, <1>3, <1>7
    <2> DEFINE Y == (2 * C) * BatchSize
               Z == C * BatchSize
    <2>3. /\ Y \in Nat /\ Z \in Nat
          /\ Cardinality(Batched) <= Y /\ Cardinality(BeingWritten) <= Z
      BY <1>4, <1>5, <2>1
    <2> HIDE DEF C, Y, Z, TypeInv, TypeOK
    <2>4. Cardinality(InMemory) <= QueueSize + BatchSize + Y + Z
      BY <1>1, <1>6, <1>7, <2>2, <2>3, SumOfParts
    <2>5. QED
      BY <2>4 DEF Y, Z
  <1>9. QueueSize + BatchSize + (2 * C) * BatchSize + C * BatchSize
          = QueueSize + BatchSize * (1 + 3 * C)
    <2> HIDE DEF C
    <2>1. QED
      BY <1>1, RoomSum
  <1>10. QED
    BY <1>8, <1>9 DEF MemoryBounded

\* However long an outage lasts, the pipeline holds no more entries than
\* its channels, its batch and its workers have room for.
THEOREM MemoryIsBounded == Spec => []MemoryBounded
  BY MemoryFits, InitType, StepType, PTL DEF Spec

\* Whatever the batch size and the database's limit, a batch is cut so that
\* each row is in exactly one statement and every statement fits.
THEOREM BatchIsPartitioned == Spec => []OneStatementPerRow
  <1>1. TypeInv => OneStatementPerRow
    <2>1. SUFFICES ASSUME TypeInv, NEW w \in Worker, NEW n \in Nat,
                          n = Len(held[w])
                   PROVE
          /\ \A i \in 1 .. n : \E k \in Statements(n) :
                /\ i \in Statement(n, k)
                /\ \A l \in Statements(n) : i \in Statement(n, l) => l = k
          /\ \A k \in Statements(n) :
                Cardinality(Statement(n, k)) * LogColumns <= MaxPlaceholders
      <3>1. ASSUME TypeInv, NEW w \in Worker
            PROVE  Len(held[w]) \in Nat
        BY <3>1, LenProperties DEF TypeInv, TypeOK
      <3>2. QED
        BY <3>1 DEF OneStatementPerRow
    <2>2. \A k \in Statements(n) : k \in Nat
      BY DEF Statements
    <2>3. QED
      BY <2>1, <2>2, RowHasStatement, RowHasOneStatement, StatementSize
  <1>2. QED
    BY <1>1, InitType, StepType, PTL DEF Spec
-----------------------------------------------------------------------------
(***************************************************************************)
(* Nobody waits for nobody.  Senders wait for the dispatcher, it for the   *)
(* workers, they for the database, and Stop for all of them, through two   *)
(* channels that may be full or empty at any moment.                       *)
(***************************************************************************)

\* A worker waits for the database or for its timer, and for nobody else.
WorkerBusy == \E w \in Worker : wpc[w] \in {"insert", "landed", "backoff"}

\* A goroutine of the pipeline can take its next step: WorkerTake or
\* WorkerExit, HandOff, DrainEmpty or DispatchReceive, DispatchTick or
\* DispatchStop.
CanGoOn ==
    \/ WorkerBusy
    \/ (batches # <<>> \/ dpc = "exited") /\ \E w \in Worker : wpc[w] = "idle"
    \/ dpc \in Flushing /\ BatchesHaveRoom
    \/ dpc = "drain"
    \/ dpc = "select" /\ (ingest # <<>> \/ batch # <<>> \/ stopping)

\* Entries that a goroutine has, or has to take, or a Stop that has not got
\* its goroutines back.
HasWork ==
    \/ (ingest # <<>> \/ batch # <<>>) /\ dpc # "exited"
    \/ Batched \cup BeingWritten # {}
    \/ stopping /\ ~AllGone

\* While there is work somebody goes on, whatever is full, and while a Submit
\* waits for room there is (log_ingest.go:139-157, 195-335).
PipelineGoesOn ==
    dpc # "off" =>
        /\ HasWork => CanGoOn
        /\ \A e \in Entry : call[e] = "selecting" =>
              stopping \/ hardDone \/ IngestHasRoom \/ HasWork

\* The workers are started with the dispatcher.
Started == dpc # "off" => \A w \in Worker : wpc[w] # "off"

LEMMA StartedKeeps == TypeInv /\ Started /\ [Next]_vars => Started'
  <1> SUFFICES ASSUME TypeInv, Started, [Next]_vars PROVE Started'
    OBVIOUS
  <1> USE DEF TypeInv, TypeOK, Started
  <1>1. CASE Start
    BY <1>1 DEF Start
  <1>2. ASSUME NEW e \in Entry, Submit(e)
        PROVE  Started'
    BY <1>2 DEF Submit, SubmitEnter, SubmitRefused, SubmitSend, SubmitCount,
                SubmitCancel, CallMoves, dispatchVars, workerVars
  <1>3. CASE Dispatch
    BY <1>3 DEF Dispatch, DispatchReceive, DispatchTick, DispatchStop,
                DispatchAbort, DrainEmpty, DispatchGoes, HandOff,
                FlushAborted, Flushing, workerVars
  <1>4. ASSUME NEW w \in Worker, Work(w)
        PROVE  Started'
    BY <1>4 DEF Work, WorkerTake, WorkerExit, InsertLands, InsertAcked,
                InsertFails, AckLost, Failed, BackoffElapsed, BackoffAborted,
                WorkerGoes
  <1>5. CASE StopCall \/ StopClean \/ StopDeadline \/ HardAbort \/ UNCHANGED vars
    BY <1>5 DEF StopCall, StopClean, StopDeadline, HardAbort, pipelineVars,
                dispatchVars, workerVars, vars
  <1>6. QED
    BY <1>1, <1>2, <1>3, <1>4, <1>5 DEF Next, Finished

LEMMA WorkGoesOn == Inv /\ Started /\ dpc # "off" /\ HasWork => CanGoOn
  <1> SUFFICES ASSUME Inv, Started, dpc # "off", HasWork PROVE CanGoOn
    OBVIOUS
  <1> USE DEF Inv, ShutdownShape, TypeInv, TypeOK
  <1>1. Range(<<>>) = {}
    BY RangeType, EmptySeq
  <1>2. \A w \in Worker : wpc[w] \in {"off", "idle", "done"} => held[w] = <<>>
    BY DEF IdleHoldsNothing
  <1>3. \A w \in Worker : wpc[w] = "done" => dpc = "exited" /\ batches = <<>>
    BY DEF WorkersDrained
  <1>4. \A w \in Worker : wpc[w] # "off"
    BY DEF Started
  <1>5. ASSUME batches # <<>>
        PROVE  CanGoOn
    <2>1. PICK w \in Worker : TRUE
      BY WorkerAssumption
    <2>2. wpc[w] \in {"idle", "insert", "landed", "backoff"}
      BY <1>3, <1>4, <1>5
    <2>3. QED
      BY <1>5, <2>2 DEF CanGoOn, WorkerBusy
  <1>6. ASSUME BeingWritten # {}
        PROVE  CanGoOn
    <2>1. PICK w \in Worker : held[w] # <<>>
      BY <1>1, <1>6 DEF BeingWritten
    <2>2. wpc[w] \in {"insert", "landed", "backoff"}
      BY <1>2, <2>1
    <2>3. QED
      BY <2>2 DEF CanGoOn, WorkerBusy
  <1>7. CASE dpc = "select"
    <2>1. CASE ingest # <<>> \/ batch # <<>> \/ stopping
      BY <1>7, <2>1 DEF CanGoOn
    <2>2. CASE ingest = <<>> /\ batch = <<>> /\ ~stopping
      <3>1. Batched # {} => batches # <<>>
        BY <1>1 DEF Batched
      <3>2. QED
        BY <1>1, <1>5, <1>6, <2>2, <3>1 DEF HasWork
    <2>3. QED
      BY <2>1, <2>2
  <1>8. CASE dpc = "drain"
    BY <1>8 DEF CanGoOn
  <1>9. CASE dpc \in Flushing
    <2>1. CASE BatchesHaveRoom
      BY <1>9, <2>1 DEF CanGoOn
    <2>2. CASE ~BatchesHaveRoom
      <3>1. Cardinality(Worker) \in Nat /\ Cardinality(Worker) # 0
        BY WorkerAssumption, FS_CardinalityType, FS_EmptySet
      <3>2. batches # <<>>
        BY <2>2, <3>1, EmptySeq DEF BatchesHaveRoom
      <3>3. QED
        BY <1>5, <3>2
    <2>3. QED
      BY <2>1, <2>2
  <1>10. CASE dpc = "exited"
    <2>1. CASE AllGone
      <3>1. batches = <<>>
        BY <1>10, <2>1, <1>3, WorkerAssumption DEF AllGone
      <3>2. Batched = {}
        BY <1>1, <3>1 DEF Batched
      <3>3. QED
        BY <1>6, <1>10, <2>1, <3>2 DEF HasWork
    <2>2. CASE ~AllGone
      <3>1. PICK w \in Worker : wpc[w] # "done"
        BY <1>10, <2>2 DEF AllGone
      <3>2. wpc[w] \in {"idle", "insert", "landed", "backoff"}
        BY <1>4, <3>1
      <3>3. QED
        BY <1>10, <3>2 DEF CanGoOn, WorkerBusy
    <2>3. QED
      BY <2>1, <2>2
  <1>11. QED
    BY <1>7, <1>8, <1>9, <1>10

LEMMA RoomOrWork ==
    ASSUME Inv, dpc # "off", NEW e \in Entry, call[e] = "selecting"
    PROVE  stopping \/ hardDone \/ IngestHasRoom \/ HasWork
  <1>1. CASE dpc = "exited"
    BY <1>1 DEF Inv, ShutdownShape, FinishHasCause
  <1>2. CASE dpc # "exited"
    <2>1. ingest = <<>> => IngestHasRoom
      BY ConfigAssumption, EmptySeq DEF ConfigAssumption, IngestHasRoom
    <2>2. QED
      BY <1>2, <2>1 DEF HasWork
  <1>3. QED
    BY <1>1, <1>2

\* No deadlock, for any number of workers, batch and queue size: while there
\* is work some goroutine of the pipeline waits for none of the others, and a
\* Submit that finds the queue full waits for such a pipeline, until Stop or
\* the abort sends it home (log_ingest.go:139-157, 195-335).
THEOREM NobodyWaitsForNobody == Spec => []PipelineGoesOn
  <1>1. Init => Started
    BY DEF Init, Started
  <1>2. Inv => TypeInv
    BY DEF Inv
  <1>3. Inv /\ Started => PipelineGoesOn
    BY WorkGoesOn, RoomOrWork DEF PipelineGoesOn
  <1>4. QED
    BY <1>1, <1>2, <1>3, StartedKeeps, InitInv, StepInv, PTL DEF Spec
=============================================================================
