---------------------------- MODULE LogIngestor ----------------------------
(***************************************************************************)
(* The log pipeline of src/internal/service/log_ingest.go:                 *)
(*                                                                         *)
(*   Submit --> ingest --> dispatch --> batches --> work(n) --> BulkInsert *)
(*                                                                         *)
(* One action per step that another goroutine can observe: a channel       *)
(* operation, an atomic add, the start or the end of a BulkInsert.         *)
(* Entries are model values.  Each one is offered by one call of Submit,   *)
(* running in a goroutine of its own (one per Ingest stream of             *)
(* log_handler.go), and its row may end up in Postgres any number of       *)
(* times: the table logs has no key that would stop a second copy.         *)
(*                                                                         *)
(* Left out: the counters batchCnt and retries and the log lines (nothing  *)
(* reads them back), and the length of the backoff (any finite delay).     *)
(***************************************************************************)
EXTENDS Naturals, Sequences, FiniteSets, Functions

CONSTANTS
    Entry,        \* the entries offered to Submit, one call each
    Worker,       \* the worker goroutines, cfg.Workers of them
    BatchSize,    \* cfg.BatchSize
    QueueSize,    \* cfg.QueueSize, the capacity of the channel ingest
    MaxPlaceholders, \* how many parameters Postgres takes in a statement
    MaxAckLosses  \* bound: how often Postgres commits an INSERT and the
                  \* connection dies before the acknowledgement arrives

\* What NewLogIngestor (lines 93-101) leaves of its configuration.
ASSUME ConfigAssumption ==
    /\ BatchSize \in Nat \ {0}
    /\ QueueSize \in Nat
    /\ QueueSize >= BatchSize
    /\ MaxAckLosses \in Nat

\* A row of the table logs takes five of them.
LogColumns == 5

ASSUME StatementAssumption ==
    MaxPlaceholders \in Nat /\ MaxPlaceholders >= LogColumns

ASSUME WorkerAssumption == IsFiniteSet(Worker) /\ Worker # {}

VARIABLES
    call,       \* call[e]: how far Submit(e) has come
    ingest,     \* the channel ingest
    stopping,   \* the channel stopping is closed
    hardDone,   \* hardCtx is cancelled
    dpc,        \* where dispatch stands
    batch,      \* the dispatcher's slice: batch, or its copy out in flush
    batches,    \* the channel batches; it is closed iff dpc = "exited"
    wpc,        \* wpc[w]: where worker w stands
    held,       \* held[w]: the batch worker w is writing
    rows,       \* rows[e]: copies of e in the table logs
    written,    \* the atomic counter written
    stop,       \* where the caller of Stop stands
    \* History, read by no guard of the code:
    already,    \* the entries Submit had put into ingest when Stop began
    ackLosses   \* acknowledgements lost so far

vars == <<call, ingest, stopping, hardDone, dpc, batch, batches, wpc, held,
          rows, written, stop, already, ackLosses>>

submitVars == <<call, ingest>>
dispatchVars == <<dpc, batch, batches>>
workerVars == <<wpc, held>>
tableVars == <<rows, written, ackLosses>>
stopVars == <<stop, stopping, already>>

\* The entries Submit has handed over; only "ok" has been counted as well.
Taken == {e \in Entry : call[e] \in {"sent", "ok"}}

\* The atomic counter accepted: Submit adds 1 just before it returns nil.
Accepted == Cardinality({e \in Entry : call[e] = "ok"})

\* The slices waiting in the channel batches, and those held by workers.
Batched == UNION {Range(b) : b \in Range(batches)}
BeingWritten == UNION {Range(held[w]) : w \in Worker}

\* Every entry that some queue, slice or goroutine of the pipeline holds.
InMemory == Range(ingest) \cup Range(batch) \cup Batched \cup BeingWritten

Init ==
    /\ call = [e \in Entry |-> "new"]
    /\ ingest = <<>>
    /\ stopping = FALSE
    /\ hardDone = FALSE
    /\ dpc = "off"
    /\ batch = <<>>
    /\ batches = <<>>
    /\ wpc = [w \in Worker |-> "off"]
    /\ held = [w \in Worker |-> <<>>]
    /\ rows = [e \in Entry |-> 0]
    /\ written = 0
    /\ stop = "none"
    /\ already = {}
    /\ ackLosses = 0

\* Start: one dispatcher and all workers, once.  main.go calls it before it
\* serves or stops anything, so Submit and Stop below come after it.
Start ==
    /\ dpc = "off"
    /\ dpc' = "select"
    /\ wpc' = [w \in Worker |-> "idle"]
    /\ UNCHANGED <<submitVars, hardDone, batch, batches, held, tableVars,
                   stopVars>>

-----------------------------------------------------------------------------
(***************************************************************************)
(* Submit.  The first select finds stopping open or returns; the second    *)
(* one then waits on three channels and takes ANY that is ready, which is  *)
(* how a send can still win after stopping was closed.                     *)
(***************************************************************************)

CallMoves(e, from, to) ==
    /\ dpc # "off"
    /\ call[e] \in from
    /\ call' = [call EXCEPT ![e] = to]
    /\ UNCHANGED <<hardDone, dispatchVars, workerVars, tableVars, stopVars>>

SubmitEnter(e) ==
    /\ ~stopping
    /\ CallMoves(e, {"new"}, "selecting")
    /\ UNCHANGED ingest

\* ErrIngestorStopped, from either select.
SubmitRefused(e) ==
    /\ stopping
    /\ CallMoves(e, {"new", "selecting"}, "stopped")
    /\ UNCHANGED ingest

AlwaysRoom == TRUE                                 \* bug: no capacity
IngestHasRoom == Len(ingest) < QueueSize

SubmitSend(e) ==
    /\ IngestHasRoom
    /\ ingest' = Append(ingest, e)
    /\ CallMoves(e, {"selecting"}, "sent")

\* accepted.Add(1); return nil.
SubmitCount(e) ==
    /\ CallMoves(e, {"sent"}, "ok")
    /\ UNCHANGED ingest

CancellableLate == {"selecting", "sent"}           \* bug: after the send too
Cancellable == {"selecting"}

\* The caller's context ends while the queue is full.
SubmitCancel(e) ==
    /\ CallMoves(e, Cancellable, "cancelled")
    /\ UNCHANGED ingest

-----------------------------------------------------------------------------
(***************************************************************************)
(* dispatch.  dpc is "select" in the main loop and "drain" in finish; the  *)
(* states in between wait for flush to hand the copied batch over:         *)
(*   "flush"       from the main loop      "drainFlush"  inside finish     *)
(*   "lastFlush"   finish's default case, after which batches is closed.   *)
(***************************************************************************)

Flushing == {"flush", "drainFlush", "lastFlush"}

\* An entry arrives; a full batch is flushed at once.
DispatchReceive ==
    /\ dpc \in {"select", "drain"}
    /\ ingest # <<>>
    /\ ingest' = Tail(ingest)
    /\ batch' = Append(batch, Head(ingest))
    /\ \/ Len(batch') < BatchSize /\ dpc' = dpc
       \/ Len(batch') >= BatchSize /\ dpc = "select" /\ dpc' = "flush"
       \/ Len(batch') >= BatchSize /\ dpc = "drain" /\ dpc' = "drainFlush"
    /\ UNCHANGED <<call, hardDone, batches, workerVars, tableVars, stopVars>>

\* A step of the dispatcher that moves no entry.
DispatchGoes(from, to) ==
    /\ dpc = from
    /\ dpc' = to
    /\ UNCHANGED <<submitVars, hardDone, batch, batches, workerVars,
                   tableVars, stopVars>>

FlushWhenFull == Len(batch) >= BatchSize           \* bug: full batches only
FlushOnTick == batch # <<>>

\* The window elapses; flush returns at once when there is nothing to hand
\* over, so only a non-empty batch changes the state.
DispatchTick == FlushOnTick /\ DispatchGoes("select", "flush")

DispatchStop == stopping /\ DispatchGoes("select", "drain")

\* hardCtx.Done in the main loop: batches is closed, nothing is drained.
DispatchAbort == hardDone /\ DispatchGoes("select", "exited")

\* bug: finish waits for one more entry when it has none to hand over
AfterDrainWaiting == IF batch = <<>> THEN "drain" ELSE "lastFlush"
AfterDrain == IF batch = <<>> THEN "exited" ELSE "lastFlush"

\* finish's default case: the queue is empty, the rest of the batch goes out.
DrainEmpty == ingest = <<>> /\ DispatchGoes("drain", AfterDrain)

BatchesHaveRoom == Len(batches) < 2 * Cardinality(Worker)

SameBatch == batch                                 \* bug: batch not reset
NextBatch == <<>>

\* flush gets its copy into the channel, of capacity 2 * Workers.
HandOff ==
    /\ BatchesHaveRoom
    /\ batches' = Append(batches, batch)
    /\ batch' = NextBatch
    /\ \/ dpc = "flush" /\ dpc' = "select"
       \/ dpc = "drainFlush" /\ dpc' = "drain"
       \/ dpc = "lastFlush" /\ dpc' = "exited"
    /\ UNCHANGED <<submitVars, hardDone, workerVars, tableVars, stopVars>>

\* flush gives up on a hard abort: its batch is gone.  The main loop then
\* calls finish, finish closes batches.
FlushAborted ==
    /\ dpc \in Flushing
    /\ hardDone
    /\ batch' = <<>>
    /\ dpc' = IF dpc = "flush" THEN "drain" ELSE "exited"
    /\ UNCHANGED <<submitVars, hardDone, batches, workerVars, tableVars,
                   stopVars>>

-----------------------------------------------------------------------------
(***************************************************************************)
(* work and writeWithRetry.  wpc[w] is "insert" while BulkInsert runs and  *)
(* "landed" when its rows are committed but the answer is still on the     *)
(* way; "backoff" is the wait between two attempts.                        *)
(***************************************************************************)

WorkerGoes(w, from, to) ==
    /\ wpc[w] = from
    /\ wpc' = [wpc EXCEPT ![w] = to]
    /\ UNCHANGED <<submitVars, hardDone, dpc, batch, stopVars>>

WorkerTake(w) ==
    /\ batches # <<>>
    /\ held' = [held EXCEPT ![w] = Head(batches)]
    /\ batches' = Tail(batches)
    /\ WorkerGoes(w, "idle", "insert")
    /\ UNCHANGED tableVars

\* range over batches ends when the channel is closed AND empty.
WorkerExit(w) ==
    /\ batches = <<>>
    /\ dpc = "exited"
    /\ WorkerGoes(w, "idle", "done")
    /\ UNCHANGED <<batches, held, tableVars>>

RowsRoundedUp == (MaxPlaceholders + LogColumns - 1) \div LogColumns  \* bug
MaxRows == MaxPlaceholders \div LogColumns

\* The rows of a batch of n that its k-th INSERT carries, and the INSERTs.
Statement(n, k) == {i \in 1 .. n : k * MaxRows < i /\ i <= k * MaxRows + MaxRows}
Statements(n) == {k \in 0 .. n : k * MaxRows < n}

FirstOnly(w) == {Head(held[w])}                    \* bug: no transaction
InsertedBy(w) ==
    LET n == Len(held[w]) IN
    {held[w][i] : i \in UNION {Statement(n, k) : k \in Statements(n)}}

\* One statement or one transaction: Postgres commits the whole batch or
\* nothing of it.
InsertLands(w) ==
    /\ WorkerGoes(w, "insert", "landed")
    /\ rows' = [e \in Entry |->
                  IF e \in InsertedBy(w) THEN rows[e] + 1 ELSE rows[e]]
    /\ UNCHANGED <<batches, held, written, ackLosses>>

CountCapacity(w) == BatchSize                      \* bug: cap for len
CountInserted(w) == Len(held[w])

\* err == nil: count the batch and go back for the next one.
InsertAcked(w) ==
    /\ written' = written + CountInserted(w)
    /\ held' = [held EXCEPT ![w] = <<>>]
    /\ WorkerGoes(w, "landed", "idle")
    /\ UNCHANGED <<batches, rows, ackLosses>>

GiveUp(w, from) ==                                 \* bug: no retry
    /\ held' = [held EXCEPT ![w] = <<>>]
    /\ WorkerGoes(w, from, "idle")

EndWorker(w, from) ==                              \* bug: the worker ends
    /\ UNCHANGED held
    /\ WorkerGoes(w, from, "done")

\* err # nil: abandon the batch on a hard abort, otherwise keep it and wait.
Failed(w, from) ==
    \/ /\ hardDone
       /\ held' = [held EXCEPT ![w] = <<>>]
       /\ WorkerGoes(w, from, "idle")
    \/ /\ ~hardDone
       /\ UNCHANGED held
       /\ WorkerGoes(w, from, "backoff")

\* The database refused the batch or could not be reached.
InsertFails(w) == Failed(w, "insert") /\ UNCHANGED <<batches, tableVars>>

\* The rows are committed and the worker is told they are not.
AckLost(w) ==
    /\ ackLosses < MaxAckLosses
    /\ ackLosses' = ackLosses + 1
    /\ Failed(w, "landed")
    /\ UNCHANGED <<batches, rows, written>>

BackoffElapsed(w) ==
    /\ WorkerGoes(w, "backoff", "insert")
    /\ UNCHANGED <<batches, held, tableVars>>

BackoffAborted(w) ==
    /\ hardDone
    /\ held' = [held EXCEPT ![w] = <<>>]
    /\ WorkerGoes(w, "backoff", "idle")
    /\ UNCHANGED <<batches, tableVars>>

-----------------------------------------------------------------------------
(***************************************************************************)
(* Stop and the hard abort.                                                *)
(***************************************************************************)

pipelineVars == <<submitVars, dispatchVars, workerVars, tableVars>>

\* stopOnce closes stopping; a caller whose deadline passed may come again.
StopCall ==
    /\ dpc # "off"
    /\ stop \in {"none", "deadline"}
    /\ stop' = "waiting"
    /\ stopping' = TRUE
    /\ already' = IF stopping THEN already ELSE Taken
    /\ UNCHANGED <<pipelineVars, hardDone>>

DispatcherGone == dpc = "exited"                   \* bug: workers not in wg
AllGone == dpc = "exited" /\ \A w \in Worker : wpc[w] = "done"

\* wg.Wait returned: the dispatcher and every worker are gone.
StopClean ==
    /\ stop = "waiting"
    /\ AllGone
    /\ stop' = "clean"
    /\ UNCHANGED <<pipelineVars, hardDone, stopping, already>>

\* The deadline of the caller's context passes first; nothing is aborted.
StopDeadline ==
    /\ stop = "waiting"
    /\ stop' = "deadline"
    /\ UNCHANGED <<pipelineVars, hardDone, stopping, already>>

\* main.go's abortIngest cancels the context given to Start.
HardAbort ==
    /\ dpc # "off"
    /\ ~hardDone
    /\ hardDone' = TRUE
    /\ UNCHANGED <<pipelineVars, stopVars>>

\* Everything has returned: the process may rest here.
Finished ==
    /\ stop = "clean"
    /\ \A e \in Entry : call[e] \in {"ok", "stopped", "cancelled"}
    /\ UNCHANGED vars

Submit(e) ==
    \/ SubmitEnter(e)
    \/ SubmitRefused(e)
    \/ SubmitSend(e)
    \/ SubmitCount(e)
    \/ SubmitCancel(e)

Dispatch ==
    \/ DispatchReceive
    \/ DispatchTick
    \/ DispatchStop
    \/ DispatchAbort
    \/ DrainEmpty
    \/ HandOff
    \/ FlushAborted

Work(w) ==
    \/ WorkerTake(w)
    \/ WorkerExit(w)
    \/ InsertLands(w)
    \/ InsertAcked(w)
    \/ InsertFails(w)
    \/ AckLost(w)
    \/ BackoffElapsed(w)
    \/ BackoffAborted(w)

Next ==
    \/ Start
    \/ \E e \in Entry : Submit(e)
    \/ Dispatch
    \/ \E w \in Worker : Work(w)
    \/ StopCall
    \/ StopClean
    \/ StopDeadline
    \/ HardAbort
    \/ Finished

Spec == Init /\ [][Next]_vars

(***************************************************************************)
(* Fairness.  The Go scheduler runs every goroutine that can proceed, and  *)
(* the ticker keeps ticking: WF on the dispatcher's steps and on the       *)
(* worker's.  Go serves blocked senders of a channel in order, so a send   *)
(* that finds room again and again succeeds: SF on SubmitSend.  SF on      *)
(* InsertLands says the outage ends: a batch that is retried for ever is   *)
(* not refused for ever.  Nothing is assumed of the environment: nobody    *)
(* has to call Submit or Stop, cancel, abort or lose an acknowledgement.   *)
(***************************************************************************)
Fairness ==
    /\ WF_vars(Start)
    /\ WF_vars(DispatchReceive)
    /\ WF_vars(DispatchTick)
    /\ WF_vars(DispatchStop \/ DispatchAbort)
    /\ WF_vars(DrainEmpty)
    /\ WF_vars(HandOff \/ FlushAborted)
    /\ \A e \in Entry :
         /\ SF_vars(SubmitSend(e))
         /\ WF_vars(SubmitCount(e) \/ SubmitRefused(e))
    /\ \A w \in Worker :
         /\ WF_vars(WorkerTake(w))
         /\ WF_vars(WorkerExit(w))
         /\ SF_vars(InsertLands(w))
         /\ WF_vars(InsertLands(w) \/ InsertFails(w))
         /\ WF_vars(InsertAcked(w))
         /\ WF_vars(BackoffElapsed(w) \/ BackoffAborted(w))
    /\ WF_vars(StopClean)

FairSpec == Spec /\ Fairness

-----------------------------------------------------------------------------
\* Types, and the capacities of the channels and of the batch slice.
TypeOK ==
    /\ call \in [Entry -> {"new", "selecting", "sent", "ok", "stopped",
                           "cancelled"}]
    /\ ingest \in Seq(Entry) /\ Len(ingest) <= QueueSize
    /\ stopping \in BOOLEAN
    /\ hardDone \in BOOLEAN
    /\ dpc \in {"off", "select", "drain", "exited"} \cup Flushing
    /\ batch \in Seq(Entry) /\ Len(batch) <= BatchSize
    /\ batches \in Seq(Seq(Entry)) /\ Len(batches) <= 2 * Cardinality(Worker)
    /\ wpc \in [Worker -> {"off", "idle", "insert", "landed", "backoff",
                           "done"}]
    /\ held \in [Worker -> Seq(Entry)]
    /\ rows \in [Entry -> Nat]
    /\ written \in Nat
    /\ stop \in {"none", "waiting", "clean", "deadline"}
    /\ already \in SUBSET Entry
    /\ ackLosses \in 0 .. MaxAckLosses

\* An entry Submit took is in some queue or in the table at every moment:
\* no hand-over between goroutines drops it, and no retry gives up on it,
\* unless the pipeline is hard-aborted (log_ingest.go:141-146, 291-293).
NoSilentLoss ==
    ~hardDone => \A e \in Taken : e \in InMemory \/ rows[e] >= 1

\* The pipeline itself never hands one entry to two inserts: a row can only
\* be duplicated by a retry after an acknowledgement was lost, once for each
\* lost acknowledgement.
DuplicatesOnlyByLostAcks ==
    \A e \in Entry : rows[e] <= 1 + ackLosses

\* When Stop returns nil, whatever had been handed over when it was called
\* is in the table (log_ingest.go:165-167), whatever raced with it.
CleanStopDrains ==
    (stop = "clean" /\ ~hardDone) => \A e \in already : rows[e] >= 1

\* An entry whose Submit returned an error, or has not returned yet from its
\* selects, is neither buffered nor stored: the caller may safely offer it
\* again.
RefusedNeverStored ==
    \A e \in Entry \ Taken : e \notin InMemory /\ rows[e] = 0

\* However long the database is away, the pipeline holds no more than its
\* queues can: ingest, the batch being cut, 2 * Workers batches waiting and
\* one in each worker's hands (log_ingest.go:295-298).
MemoryBounded ==
    Cardinality(InMemory) <=
        QueueSize + BatchSize * (1 + 3 * Cardinality(Worker))

\* The counter written is the number of entries in the table that no worker
\* holds any more, retries and lost acknowledgements included.
WrittenCountsRows ==
    ~hardDone =>
        written = Cardinality({e \in Entry : rows[e] >= 1 /\ e \notin InMemory})

\* A batch that is too large for one INSERT is cut so that each row is in
\* exactly one, and no INSERT has more parameters than Postgres takes
\* (log_repository.go:57-69).
OneStatementPerRow ==
    \A w \in Worker : LET n == Len(held[w]) IN
        /\ \A i \in 1 .. n : \E k \in Statements(n) :
              /\ i \in Statement(n, k)
              /\ \A l \in Statements(n) : i \in Statement(n, l) => l = k
        /\ \A k \in Statements(n) :
              Cardinality(Statement(n, k)) * LogColumns <= MaxPlaceholders

\* Once Stop has returned nil no goroutine of the pipeline touches the
\* table any more, so main.go may close the database.
QuietAfterCleanStop ==
    [][stop = "clean" => UNCHANGED <<rows, written>>]_vars

\* An entry handed over before Stop is written in the end, full batch or
\* not.
TakenIsStored ==
    \A e \in Entry :
        (e \in Taken /\ ~stopping) ~> (rows[e] >= 1 \/ hardDone)

\* Shutdown ends: after Stop closed stopping, or after a hard abort, the
\* dispatcher and every worker exit.
ShutdownEnds ==
    (stopping \/ hardDone) ~> AllGone

\* The pipeline implements LogDelivery: its queues, slices and goroutines
\* are invisible, an INSERT stores its whole batch at once, and a Stop that
\* returns nil has kept what it promised.
Delivery ==
    INSTANCE LogDelivery WITH
        taken    <- Taken,
        stored   <- {e \in Entry : rows[e] >= 1},
        closing  <- stopping,
        due      <- already,
        aborted  <- hardDone,
        finished <- (stop = "clean")

ImplementsDelivery == Delivery!Spec

-----------------------------------------------------------------------------
(***************************************************************************)
(* Statements of the repository that the code does not keep.               *)
(***************************************************************************)

\* log_ingest_test.go:87-88 and log_ingest.go:165-166: after a clean Stop,
\* everything a Submit accepted has been written.
CleanStopLosesNothing ==
    (stop = "clean" /\ ~hardDone) =>
        \A e \in Entry : call[e] = "ok" => rows[e] >= 1

\* log_repository.go:40-41: a retry cannot duplicate rows that landed.
RetryNeverDuplicates == \A e \in Entry : rows[e] <= 1

\* log_ingest.go:54: Queued is the number of entries accepted but not yet
\* written, which cannot be negative.
QueuedNotNegative == written <= Accepted
=============================================================================
