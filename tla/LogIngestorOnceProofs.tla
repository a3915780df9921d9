----------------------- MODULE LogIngestorOnceProofs -----------------------
(***************************************************************************)
(* The pipeline hands an entry to one place at a time, for every           *)
(* configuration: hence at most one INSERT that is not a retry, at most    *)
(* one more row for each lost acknowledgement, and a counter written that  *)
(* counts every entry once, when its batch is acknowledged.                *)
(***************************************************************************)
EXTENDS LogIngestorProofs

-----------------------------------------------------------------------------
(***************************************************************************)
(* Pairwise facts about the contents of a channel.                         *)
(***************************************************************************)

\* What stands where after a send.
LEMMA AppendPositions ==
    ASSUME NEW S, NEW s \in Seq(S), NEW x \in S
    PROVE  \A i \in 1 .. Len(Append(s, x)) :
               \/ i \in 1 .. Len(s) /\ Append(s, x)[i] = s[i]
               \/ i = Len(s) + 1 /\ Append(s, x)[i] = x
  BY AppendProperties, LenProperties

\* What stands where after a receive.
LEMMA TailPositions ==
    ASSUME NEW S, NEW s \in Seq(S), s # <<>>
    PROVE  /\ Head(s) = s[1]
           /\ 1 \in 1 .. Len(s)
           /\ \A i \in 1 .. Len(Tail(s)) :
                 i + 1 \in 1 .. Len(s) /\ Tail(s)[i] = s[i + 1] /\ i + 1 # 1
           /\ \A x \in Range(Tail(s)) :
                 \E i \in 1 .. Len(Tail(s)) : x = Tail(s)[i]
  <1>1. Tail(s) \in Seq(S)
    BY HeadTailProperties
  <1>2. Range(Tail(s)) = {Tail(s)[i] : i \in 1 .. Len(Tail(s))}
    BY <1>1, RangeEquality
  <1>3. QED
    BY <1>2, HeadTailProperties, EmptySeq, LenProperties

-----------------------------------------------------------------------------
\* The queue holds no entry twice.
QueueDistinct ==
    \A i, j \in 1 .. Len(ingest) : ingest[i] = ingest[j] => i = j

\* Neither do two waiting batches, nor two workers, share an entry.
BatchesDisjoint ==
    \A i, j \in 1 .. Len(batches) :
        i # j => Range(batches[i]) \cap Range(batches[j]) = {}

WorkersDisjoint ==
    \A v, w \in Worker : v # w => Range(held[v]) \cap Range(held[w]) = {}

\* No entry is in two places at once.
PlacesDisjoint ==
    /\ Range(ingest) \cap Range(batch) = {}
    /\ (Range(ingest) \cup Range(batch)) \cap Batched = {}
    /\ (Range(ingest) \cup Range(batch) \cup Batched) \cap BeingWritten = {}

\* What has not reached a worker has no row yet.
NotYetInserted ==
    \A e \in Range(ingest) \cup Range(batch) \cup Batched : rows[e] = 0

\* A batch that is still to be inserted has a row for each earlier insert of
\* it, and each of those must have lost its acknowledgement.
RetriesPaidFor ==
    \A w \in Worker :
        wpc[w] \in {"insert", "backoff"} =>
            \A e \in Range(held[w]) : rows[e] <= ackLosses

Once ==
    /\ QueueDistinct
    /\ BatchesDisjoint
    /\ WorkersDisjoint
    /\ PlacesDisjoint
    /\ NotYetInserted
    /\ RetriesPaidFor
    /\ DuplicatesOnlyByLostAcks

LEMMA InitOnce == Init => Once
  <1> SUFFICES ASSUME Init PROVE Once
    OBVIOUS
  <1>1. Range(<<>>) = {} /\ Len(<<>>) = 0
    BY RangeType, EmptySeq
  <1>2. Batched = {} /\ BeingWritten = {}
    BY <1>1 DEF Init, Batched, BeingWritten
  <1>3. QueueDistinct /\ BatchesDisjoint
    BY <1>1 DEF Init, QueueDistinct, BatchesDisjoint
  <1>4. WorkersDisjoint
    BY <1>1 DEF Init, WorkersDisjoint
  <1>5. PlacesDisjoint /\ NotYetInserted
    BY <1>1, <1>2 DEF Init, PlacesDisjoint, NotYetInserted
  <1>6. RetriesPaidFor /\ DuplicatesOnlyByLostAcks
    BY DEF Init, RetriesPaidFor, DuplicatesOnlyByLostAcks
  <1>7. QED
    BY <1>3, <1>4, <1>5, <1>6 DEF Once

LEMMA SubmitOnce ==
    ASSUME Inv, Once, NEW e \in Entry, Submit(e)
    PROVE  Once'
  <1> USE DEF Once, CallMoves, dispatchVars, workerVars, tableVars
  <1>1. UNCHANGED <<batch, batches, wpc, held, rows, ackLosses>>
    BY DEF Submit, SubmitEnter, SubmitRefused, SubmitSend, SubmitCount,
           SubmitCancel
  <1>2. Batched' = Batched /\ BeingWritten' = BeingWritten
    BY <1>1 DEF Batched, BeingWritten
  <1>3. CASE SubmitSend(e)
    <2>1. e \notin Taken
      BY <1>3 DEF SubmitSend, Taken
    <2>2. e \notin InMemory /\ rows[e] = 0
      BY <2>1 DEF Inv, RefusedNeverStored
    <2>3. ingest' = Append(ingest, e) /\ ingest \in Seq(Entry)
      BY <1>3 DEF SubmitSend, Inv, TypeInv, TypeOK
    <2>4. Range(ingest') = Range(ingest) \cup {e}
      BY <2>3, RangeAppend
    <2>5. QueueDistinct'
      <3>1. \A i \in 1 .. Len(ingest) : ingest[i] \in Range(ingest)
        BY <2>3, RangeEquality
      <3>2. \A i \in 1 .. Len(ingest) : ingest[i] # e
        BY <2>2, <3>1 DEF InMemory
      <3>3. \A i \in 1 .. Len(ingest') :
              \/ i \in 1 .. Len(ingest) /\ ingest'[i] = ingest[i]
              \/ i = Len(ingest) + 1 /\ ingest'[i] = e
        BY <2>3, AppendPositions
      <3>4. QED
        BY <3>2, <3>3 DEF QueueDistinct
    <2>6. PlacesDisjoint'
      BY <1>1, <1>2, <2>2, <2>4 DEF PlacesDisjoint, InMemory
    <2>7. NotYetInserted'
      BY <1>1, <1>2, <2>2, <2>4 DEF NotYetInserted
    <2>8. QED
      BY <1>1, <2>5, <2>6, <2>7 DEF BatchesDisjoint, WorkersDisjoint,
         RetriesPaidFor, DuplicatesOnlyByLostAcks
  <1>4. CASE ~SubmitSend(e)
    <2>1. ingest' = ingest
      BY <1>4 DEF Submit, SubmitEnter, SubmitRefused, SubmitCount, SubmitCancel
    <2>2. QED
      BY <1>1, <1>2, <2>1 DEF QueueDistinct, BatchesDisjoint,
         WorkersDisjoint, PlacesDisjoint, NotYetInserted, RetriesPaidFor,
         DuplicatesOnlyByLostAcks
  <1>5. QED
    BY <1>3, <1>4
LEMMA DispatchOnce ==
    ASSUME Inv, Once, Dispatch
    PROVE  Once'
  <1> USE DEF Inv, TypeInv, TypeOK, Once
  <1>0. Range(<<>>) = {}
    BY RangeType, EmptySeq
  <1>1. UNCHANGED <<wpc, held, rows, ackLosses>>
    BY DEF Dispatch, DispatchReceive, DispatchTick, DispatchStop,
           DispatchAbort, DrainEmpty, DispatchGoes, HandOff, FlushAborted,
           workerVars, tableVars
  <1>2. BeingWritten' = BeingWritten
    BY <1>1 DEF BeingWritten
  <1>3. WorkersDisjoint' /\ RetriesPaidFor' /\ DuplicatesOnlyByLostAcks'
    BY <1>1 DEF WorkersDisjoint, RetriesPaidFor, DuplicatesOnlyByLostAcks
  <1>4. CASE DispatchReceive
    <2>1. /\ ingest # <<>> /\ ingest' = Tail(ingest) /\ batches' = batches
          /\ batch' = Append(batch, Head(ingest))
      BY <1>4 DEF DispatchReceive
    <2>2. /\ Head(ingest) \in Entry /\ Tail(ingest) \in Seq(Entry)
          /\ Range(ingest) = {Head(ingest)} \cup Range(ingest')
      BY <2>1, RangeHeadTail
    <2>3. Range(batch') = Range(batch) \cup {Head(ingest)}
      BY <2>1, <2>2, RangeAppend
    <2>4. /\ Head(ingest) = ingest[1]
          /\ 1 \in 1 .. Len(ingest)
          /\ \A i \in 1 .. Len(ingest') :
                /\ i + 1 \in 1 .. Len(ingest)
                /\ ingest'[i] = ingest[i + 1]
                /\ i + 1 # 1
          /\ \A x \in Range(ingest') :
                \E i \in 1 .. Len(ingest') : x = ingest'[i]
      BY <2>1, TailPositions
    <2>5. QueueDistinct'
      <3>1. SUFFICES ASSUME NEW i \in 1 .. Len(ingest'),
                            NEW j \in 1 .. Len(ingest'),
                            ingest'[i] = ingest'[j]
                     PROVE  i = j
        BY DEF QueueDistinct
      <3>2. i + 1 = j + 1
        BY <2>4, <3>1 DEF QueueDistinct
      <3>3. i \in Nat /\ j \in Nat
        OBVIOUS
      <3>4. QED
        BY <3>2, <3>3
    <2>6. Head(ingest) \notin Range(ingest')
      <3>1. \A i \in 1 .. Len(ingest') : ingest'[i] # Head(ingest)
        BY <2>4 DEF QueueDistinct
      <3>2. QED
        BY <2>4, <3>1
    <2>7. Batched' = Batched
      BY <2>1 DEF Batched
    <2>8. PlacesDisjoint'
      BY <1>2, <2>2, <2>3, <2>6, <2>7 DEF PlacesDisjoint
    <2>9. NotYetInserted'
      BY <1>1, <2>2, <2>3, <2>7 DEF NotYetInserted
    <2>10. BatchesDisjoint'
      BY <2>1 DEF BatchesDisjoint
    <2>11. QED
      BY <1>3, <2>5, <2>8, <2>9, <2>10
  <1>5. CASE DispatchTick \/ DispatchStop \/ DispatchAbort \/ DrainEmpty
    <2>1. UNCHANGED <<ingest, batch, batches>>
      BY <1>5 DEF DispatchTick, DispatchStop, DispatchAbort, DrainEmpty,
                  DispatchGoes, submitVars
    <2>2. Batched' = Batched
      BY <2>1 DEF Batched
    <2>3. QED
      BY <1>1, <1>2, <1>3, <2>1, <2>2
      DEF QueueDistinct, BatchesDisjoint, PlacesDisjoint, NotYetInserted
  <1>6. CASE HandOff
    <2>1. /\ ingest' = ingest /\ batch' = <<>>
          /\ batches' = Append(batches, batch)
      BY <1>6 DEF HandOff, NextBatch, submitVars
    <2>2. Range(batches') = Range(batches) \cup {batch}
      BY <2>1, RangeAppend
    <2>3. Batched' = Batched \cup Range(batch)
      BY <2>2 DEF Batched
    <2>4. BatchesDisjoint'
      <3>1. \A i \in 1 .. Len(batches) : Range(batches[i]) \subseteq Batched
        BY RangeEquality DEF Batched
      <3>2. \A i \in 1 .. Len(batches) : Range(batches[i]) \cap Range(batch) = {}
        BY <3>1 DEF PlacesDisjoint
      <3>3. \A i \in 1 .. Len(batches') :
              \/ i \in 1 .. Len(batches) /\ batches'[i] = batches[i]
              \/ i = Len(batches) + 1 /\ batches'[i] = batch
        BY <2>1, AppendPositions
      <3>4. SUFFICES ASSUME NEW i \in 1 .. Len(batches'),
                            NEW j \in 1 .. Len(batches'), i # j
                     PROVE  Range(batches'[i]) \cap Range(batches'[j]) = {}
        BY DEF BatchesDisjoint
      <3>5. CASE i \in 1 .. Len(batches) /\ j \in 1 .. Len(batches)
        <4>1. batches'[i] = batches[i] /\ batches'[j] = batches[j]
          BY <2>1, <3>5, AppendProperties
        <4>2. QED
          BY <3>4, <3>5, <4>1 DEF BatchesDisjoint
      <3>6. CASE i \in 1 .. Len(batches) /\ j \notin 1 .. Len(batches)
        BY <3>2, <3>3, <3>6, <2>1, AppendProperties
      <3>7. CASE i \notin 1 .. Len(batches) /\ j \in 1 .. Len(batches)
        BY <3>2, <3>3, <3>7, <2>1, AppendProperties
      <3>8. CASE i \notin 1 .. Len(batches) /\ j \notin 1 .. Len(batches)
        BY <3>3, <3>4, <3>8
      <3>9. QED
        BY <3>5, <3>6, <3>7, <3>8
    <2>5. PlacesDisjoint' /\ NotYetInserted'
      BY <1>0, <1>1, <1>2, <2>1, <2>3 DEF PlacesDisjoint, NotYetInserted
    <2>6. QueueDistinct'
      BY <2>1 DEF QueueDistinct
    <2>7. QED
      BY <1>3, <2>4, <2>5, <2>6
  <1>7. CASE FlushAborted
    <2>1. ingest' = ingest /\ batch' = <<>> /\ batches' = batches
      BY <1>7 DEF FlushAborted, submitVars
    <2>2. Batched' = Batched
      BY <2>1 DEF Batched
    <2>3. QED
      BY <1>0, <1>1, <1>2, <1>3, <2>1, <2>2
      DEF QueueDistinct, BatchesDisjoint, PlacesDisjoint, NotYetInserted
  <1>8. QED
    BY <1>4, <1>5, <1>6, <1>7 DEF Dispatch

\* A worker that drops or keeps its batch, and inserts nothing.
LEMMA HoldOnce ==
    ASSUME Inv, Once, NEW w \in Worker,
           UNCHANGED <<ingest, batch, batches, rows>>,
           held' = held \/ held' = [held EXCEPT ![w] = <<>>],
           \A v \in Worker : held'[v] # <<>> /\ wpc'[v] \in {"insert", "backoff"}
               => wpc[v] \in {"insert", "backoff"} \/ ackLosses' = ackLosses + 1,
           ackLosses' \in Nat, ackLosses' >= ackLosses
    PROVE  Once'
  <1> USE DEF Inv, TypeInv, TypeOK, Once
  <1>0. Range(<<>>) = {} /\ <<>> \in Seq(Entry)
    BY RangeType, EmptySeq
  <1>1. \A v \in Worker : held'[v] = held[v] \/ held'[v] = <<>>
    OBVIOUS
  <1>2. \A v \in Worker : Range(held'[v]) \subseteq Range(held[v])
    BY <1>0, <1>1
  <1>3. BeingWritten' \subseteq BeingWritten
    BY <1>2 DEF BeingWritten
  <1>4. Batched' = Batched
    BY DEF Batched
  <1>5. QueueDistinct' /\ BatchesDisjoint'
    BY DEF QueueDistinct, BatchesDisjoint
  <1>6. WorkersDisjoint'
    BY <1>2 DEF WorkersDisjoint
  <1>7. PlacesDisjoint' /\ NotYetInserted'
    BY <1>3, <1>4 DEF PlacesDisjoint, NotYetInserted
  <1>8. ackLosses \in Nat /\ \A e \in Entry : rows[e] \in Nat
    BY ConfigAssumption
  <1>9. DuplicatesOnlyByLostAcks'
    BY <1>8 DEF DuplicatesOnlyByLostAcks
  <1>10. RetriesPaidFor'
    <2>1. SUFFICES ASSUME NEW v \in Worker,
                          wpc'[v] \in {"insert", "backoff"},
                          NEW e \in Range(held'[v])
                   PROVE  rows[e] <= ackLosses'
      BY DEF RetriesPaidFor
    <2>2. e \in Range(held[v]) /\ held'[v] # <<>>
      BY <1>0, <1>2, <2>1
    <2>3. e \in Entry
      BY <2>2, RangeType
    <2>4. CASE wpc[v] \in {"insert", "backoff"}
      BY <1>8, <2>2, <2>3, <2>4 DEF RetriesPaidFor
    <2>5. CASE ackLosses' = ackLosses + 1
      BY <1>8, <2>3, <2>5 DEF DuplicatesOnlyByLostAcks
    <2>6. QED
      BY <2>1, <2>2, <2>4, <2>5
  <1>11. QED
    BY <1>5, <1>6, <1>7, <1>9, <1>10
LEMMA WorkOnce ==
    ASSUME Inv, Once, NEW w \in Worker, Work(w)
    PROVE  Once'
  <1> USE DEF Inv, TypeInv, TypeOK, Once, WorkerGoes, submitVars, tableVars
  <1>0. ackLosses \in Nat /\ \A e \in Entry : rows[e] \in Nat
    BY ConfigAssumption
  <1>1. /\ UNCHANGED <<ingest, batch>>
        /\ \A v \in Worker \ {w} : wpc'[v] = wpc[v]
    BY DEF Work, WorkerTake, WorkerExit, InsertLands, InsertAcked,
           InsertFails, AckLost, Failed, BackoffElapsed, BackoffAborted
  <1>2. CASE WorkerTake(w)
    <2>1. /\ batches # <<>> /\ batches' = Tail(batches)
          /\ held' = [held EXCEPT ![w] = Head(batches)]
          /\ wpc[w] = "idle" /\ UNCHANGED <<rows, ackLosses>>
      BY <1>2 DEF WorkerTake
    <2>2. /\ Head(batches) \in Seq(Entry) /\ Tail(batches) \in Seq(Seq(Entry))
          /\ Range(batches) = {Head(batches)} \cup Range(Tail(batches))
      BY <2>1, RangeHeadTail
    <2>3. Batched = Range(Head(batches)) \cup Batched'
      BY <2>1, <2>2 DEF Batched
    <2>4. /\ Head(batches) = batches[1]
          /\ 1 \in 1 .. Len(batches)
          /\ \A i \in 1 .. Len(batches') :
                /\ i + 1 \in 1 .. Len(batches)
                /\ batches'[i] = batches[i + 1]
                /\ i + 1 # 1
          /\ \A b \in Range(batches') :
                \E i \in 1 .. Len(batches') : b = batches'[i]
      BY <2>1, TailPositions
    <2>5. Range(Head(batches)) \cap Batched' = {}
      <3>1. \A i \in 1 .. Len(batches') :
              Range(Head(batches)) \cap Range(batches'[i]) = {}
        BY <2>4 DEF BatchesDisjoint
      <3>2. \A b \in Range(batches') : Range(Head(batches)) \cap Range(b) = {}
        BY <2>4, <3>1
      <3>3. QED
        BY <3>2 DEF Batched
    <2>6. BatchesDisjoint'
      <3>1. SUFFICES ASSUME NEW i \in 1 .. Len(batches'),
                            NEW j \in 1 .. Len(batches'), i # j
                     PROVE  Range(batches'[i]) \cap Range(batches'[j]) = {}
        BY DEF BatchesDisjoint
      <3>2. i \in Nat /\ j \in Nat
        OBVIOUS
      <3>3. PICK k \in 1 .. Len(batches) : k = i + 1 /\ batches'[i] = batches[k]
        BY <2>4
      <3>4. PICK l \in 1 .. Len(batches) : l = j + 1 /\ batches'[j] = batches[l]
        BY <2>4
      <3>5. k # l
        BY <3>1, <3>2, <3>3, <3>4
      <3>6. QED
        BY <3>3, <3>4, <3>5 DEF BatchesDisjoint
    <2>7. BeingWritten' \cup Range(held[w]) = BeingWritten \cup Range(Head(batches))
      BY <2>1, <2>2, HeldUpdate
    <2>8. held[w] = <<>>
      BY <2>1 DEF ShutdownShape, IdleHoldsNothing
    <2>9. Range(held[w]) = {}
      BY <2>8, RangeType, EmptySeq
    <2>10. \A v \in Worker : held'[v] = IF v = w THEN Head(batches) ELSE held[v]
      BY <2>1
    <2>11. \A v \in Worker : Range(held[v]) \cap Range(Head(batches)) = {}
      BY <2>3 DEF PlacesDisjoint, BeingWritten
    <2>12. WorkersDisjoint'
      BY <2>10, <2>11 DEF WorkersDisjoint
    <2>13. PlacesDisjoint' /\ NotYetInserted'
      BY <1>1, <2>1, <2>3, <2>5, <2>7, <2>9 DEF PlacesDisjoint, NotYetInserted
    <2>14. RetriesPaidFor'
      <3>1. \A e \in Range(Head(batches)) : rows[e] = 0
        BY <2>3 DEF NotYetInserted
      <3>2. QED
        BY <1>0, <1>1, <2>1, <2>10, <3>1 DEF RetriesPaidFor
    <2>15. QED
      BY <1>1, <2>1, <2>6, <2>12, <2>13, <2>14
      DEF QueueDistinct, DuplicatesOnlyByLostAcks
  <1>3. CASE InsertLands(w)
    <2>1. /\ UNCHANGED <<batches, held, ackLosses>>
          /\ wpc[w] = "insert" /\ wpc'[w] = "landed"
      BY <1>3 DEF InsertLands
    <2>2. \A e \in Entry :
            rows'[e] = IF e \in Range(held[w]) THEN rows[e] + 1 ELSE rows[e]
      BY <1>3, InsertsAll DEF InsertLands
    <2>3. Batched' = Batched /\ BeingWritten' = BeingWritten
      BY <2>1 DEF Batched, BeingWritten
    <2>4. Range(held[w]) \subseteq BeingWritten
      BY DEF BeingWritten
    <2>5. NotYetInserted'
      <3>1. SUFFICES ASSUME NEW e \in Range(ingest) \cup Range(batch) \cup Batched
                     PROVE  rows'[e] = 0
        BY <1>1, <2>3 DEF NotYetInserted
      <3>2. e \in Entry
        <4>1. e \in InMemory
          BY DEF InMemory
        <4>2. Range(ingest) \subseteq Entry /\ Range(batch) \subseteq Entry
          BY RangeType
        <4>3. \A b \in Range(batches) : Range(b) \subseteq Entry
          BY RangeType
        <4>4. QED
          BY <4>2, <4>3, <3>1 DEF Batched
      <3>3. e \notin Range(held[w])
        BY <2>4 DEF PlacesDisjoint
      <3>4. QED
        BY <2>2, <3>2, <3>3 DEF NotYetInserted
    <2>6. DuplicatesOnlyByLostAcks'
      <3>1. \A e \in Range(held[w]) : rows[e] <= ackLosses
        BY <2>1 DEF RetriesPaidFor
      <3>2. SUFFICES ASSUME NEW e \in Entry
                     PROVE  rows'[e] <= 1 + ackLosses
        BY <2>1 DEF DuplicatesOnlyByLostAcks
      <3>3. rows[e] <= 1 + ackLosses /\ rows[e] \in Nat
        BY <1>0 DEF DuplicatesOnlyByLostAcks
      <3>4. CASE e \in Range(held[w])
        BY <1>0, <2>2, <3>1, <3>3, <3>4
      <3>5. CASE e \notin Range(held[w])
        BY <2>2, <3>3, <3>5
      <3>6. QED
        BY <3>4, <3>5
    <2>7. RetriesPaidFor'
      <3>1. SUFFICES ASSUME NEW v \in Worker,
                            wpc'[v] \in {"insert", "backoff"},
                            NEW e \in Range(held[v])
                     PROVE  rows'[e] <= ackLosses
        BY <2>1 DEF RetriesPaidFor
      <3>2. v # w
        BY <2>1, <3>1
      <3>3. e \notin Range(held[w]) /\ e \in Entry
        BY <3>2, RangeType DEF WorkersDisjoint
      <3>4. rows[e] <= ackLosses
        BY <1>1, <3>1, <3>2 DEF RetriesPaidFor
      <3>5. QED
        BY <2>2, <3>3, <3>4
    <2>8. QED
      BY <1>1, <2>1, <2>3, <2>5, <2>6, <2>7
      DEF QueueDistinct, BatchesDisjoint, WorkersDisjoint, PlacesDisjoint
  <1>4. CASE WorkerExit(w)
    BY <1>0, <1>1, <1>4, HoldOnce DEF WorkerExit
  <1>5. CASE InsertAcked(w)
    <2>1. /\ wpc'[w] = "idle" /\ UNCHANGED <<batches, rows, ackLosses>>
          /\ held' = [held EXCEPT ![w] = <<>>]
      BY <1>5 DEF InsertAcked
    <2>2. \A v \in Worker : wpc'[v] \in {"insert", "backoff"} => wpc'[v] = wpc[v]
      BY <1>1, <2>1
    <2>3. ackLosses' >= ackLosses /\ ackLosses' \in Nat
      BY <1>0, <2>1
    <2>4. QED
      BY <1>1, <2>1, <2>2, <2>3, HoldOnce
  <1>6. ASSUME NEW from, Failed(w, from)
        PROVE  held' = held \/ held' = [held EXCEPT ![w] = <<>>]
    BY <1>6 DEF Failed
  <1>7. CASE InsertFails(w)
    <2>1. UNCHANGED <<batches, rows, ackLosses>> /\ Failed(w, "insert")
      BY <1>7 DEF InsertFails
    <2>2. wpc[w] = "insert"
      BY <2>1 DEF Failed
    <2>3. \A v \in Worker : wpc'[v] \in {"insert", "backoff"} =>
                               wpc[v] \in {"insert", "backoff"}
      BY <1>1, <2>2
    <2>4. ackLosses' >= ackLosses /\ ackLosses' \in Nat
      BY <1>0, <2>1
    <2>5. QED
      BY <1>1, <1>6, <2>1, <2>3, <2>4, HoldOnce
  <1>8. CASE AckLost(w)
    <2>1. /\ UNCHANGED <<batches, rows>> /\ Failed(w, "landed")
          /\ ackLosses' = ackLosses + 1
      BY <1>8 DEF AckLost
    <2>2. ackLosses' >= ackLosses /\ ackLosses' \in Nat
      BY <1>0, <2>1
    <2>3. QED
      BY <1>1, <1>6, <2>1, <2>2, HoldOnce
  <1>9. CASE BackoffElapsed(w)
    BY <1>0, <1>1, <1>9, HoldOnce DEF BackoffElapsed
  <1>10. CASE BackoffAborted(w)
    <2>1. /\ wpc'[w] = "idle" /\ UNCHANGED <<batches, rows, ackLosses>>
          /\ held' = [held EXCEPT ![w] = <<>>]
      BY <1>10 DEF BackoffAborted
    <2>2. \A v \in Worker : wpc'[v] \in {"insert", "backoff"} => wpc'[v] = wpc[v]
      BY <1>1, <2>1
    <2>3. ackLosses' >= ackLosses /\ ackLosses' \in Nat
      BY <1>0, <2>1
    <2>4. QED
      BY <1>1, <2>1, <2>2, <2>3, HoldOnce
  <1>11. QED
    BY <1>2, <1>3, <1>4, <1>5, <1>7, <1>8, <1>9, <1>10 DEF Work

LEMMA StepOnce == Inv /\ Once /\ [Next]_vars => Once'
  <1> SUFFICES ASSUME Inv, Once, [Next]_vars PROVE Once'
    OBVIOUS
  <1>1. CASE \E e \in Entry : Submit(e)
    BY <1>1, SubmitOnce
  <1>2. CASE Dispatch
    BY <1>2, DispatchOnce
  <1>3. CASE \E w \in Worker : Work(w)
    BY <1>3, WorkOnce
  <1>4. CASE Start \/ StopCall \/ StopClean \/ StopDeadline \/ HardAbort
             \/ UNCHANGED vars
    <2>1. UNCHANGED <<ingest, batch, batches, held, rows, ackLosses>>
      BY <1>4 DEF Start, StopCall, StopClean, StopDeadline, HardAbort,
         pipelineVars, submitVars, dispatchVars, workerVars, tableVars, vars
    <2>2. wpc' = wpc \/ wpc' = [w \in Worker |-> "idle"]
      BY <1>4 DEF Start, StopCall, StopClean, StopDeadline, HardAbort,
         pipelineVars, workerVars, vars
    <2>3. Batched' = Batched /\ BeingWritten' = BeingWritten
      BY <2>1 DEF Batched, BeingWritten
    <2>4. RetriesPaidFor'
      BY <2>1, <2>2 DEF Once, RetriesPaidFor
    <2>5. QED
      BY <2>1, <2>3, <2>4 DEF Once, QueueDistinct, BatchesDisjoint,
         WorkersDisjoint, PlacesDisjoint, NotYetInserted,
         DuplicatesOnlyByLostAcks
  <1>5. QED
    BY <1>1, <1>2, <1>3, <1>4 DEF Next, Finished

\* However batches, retries and workers interleave, an entry has at most
\* one row more than acknowledgements were lost; in particular each entry is
\* stored at most once when none is.
THEOREM NoDuplicatesOfItsOwn == Spec => []DuplicatesOnlyByLostAcks
  <1>1. Inv /\ Once => DuplicatesOnlyByLostAcks
    BY DEF Once
  <1>2. Init => Inv /\ Once
    BY InitInv, InitOnce
  <1>3. (Inv /\ Once) /\ [Next]_vars => (Inv /\ Once)'
    BY StepInv, StepOnce
  <1>4. QED
    BY <1>1, <1>2, <1>3, PTL DEF Spec

-----------------------------------------------------------------------------
(***************************************************************************)
(* The counter.  A slice of n entries is counted as n rows when it leaves  *)
(* memory, so no slice may hold an entry twice.                            *)
(***************************************************************************)

NoRepeats(s) == \A i, j \in 1 .. Len(s) : s[i] = s[j] => i = j

SlicesDistinct ==
    /\ NoRepeats(batch)
    /\ \A i \in 1 .. Len(batches) : NoRepeats(batches[i])
    /\ \A w \in Worker : NoRepeats(held[w])

\* Rows whose entry the pipeline is done with.
Settled == {e \in Entry : rows[e] >= 1 /\ e \notin InMemory}

CountInv ==
    /\ SlicesDistinct
    /\ ~hardDone => IsFiniteSet(Settled) /\ written = Cardinality(Settled)

\* A sequence without repetitions has as many elements as positions.
LEMMA DistinctCardinality ==
    ASSUME NEW S, NEW s \in Seq(S), NoRepeats(s)
    PROVE  IsFiniteSet(Range(s)) /\ Cardinality(Range(s)) = Len(s)
  <1>1. Len(s) \in Nat
    BY LenProperties
  <1>2. IsFiniteSet(1 .. Len(s)) /\ Cardinality(1 .. Len(s)) = Len(s)
    BY <1>1, FS_Interval
  <1>3. s \in [1 .. Len(s) -> S] /\ Range(s) = {s[i] : i \in 1 .. Len(s)}
    BY LenProperties, RangeEquality
  <1>4. s \in Surjection(1 .. Len(s), Range(s))
    BY <1>3 DEF Surjection
  <1>5. s \in Injection(1 .. Len(s), Range(s))
    BY <1>3 DEF Injection, IsInjective, NoRepeats
  <1>6. QED
    BY <1>2, <1>4, <1>5, FS_Surjection

LEMMA AppendDistinct ==
    ASSUME NEW S, NEW s \in Seq(S), NEW x \in S, NoRepeats(s), x \notin Range(s)
    PROVE  NoRepeats(Append(s, x))
  <1>1. \A i \in 1 .. Len(s) : s[i] # x
    BY RangeEquality
  <1>2. \A i \in 1 .. Len(Append(s, x)) :
           \/ i \in 1 .. Len(s) /\ Append(s, x)[i] = s[i]
           \/ i = Len(s) + 1 /\ Append(s, x)[i] = x
    BY AppendPositions
  <1>3. QED
    BY <1>1, <1>2 DEF NoRepeats

LEMMA SlicesKeep ==
    ASSUME Inv, Once, SlicesDistinct, [Next]_vars
    PROVE  SlicesDistinct'
  <1> USE DEF Inv, TypeInv, TypeOK
  <1>0. NoRepeats(<<>>)
    BY DEF NoRepeats
  <1>1. CASE DispatchReceive
    <2>1. /\ ingest # <<>> /\ batch' = Append(batch, Head(ingest))
          /\ UNCHANGED <<batches, held>>
      BY <1>1 DEF DispatchReceive, workerVars
    <2>2. Head(ingest) \in Entry /\ Head(ingest) \in Range(ingest)
      BY <2>1, RangeHeadTail
    <2>3. Head(ingest) \notin Range(batch)
      BY <2>2 DEF Once, PlacesDisjoint
    <2>4. NoRepeats(batch')
      BY <2>1, <2>2, <2>3, AppendDistinct DEF SlicesDistinct
    <2>5. QED
      BY <2>1, <2>4 DEF SlicesDistinct
  <1>2. CASE HandOff
    <2>1. batch' = <<>> /\ batches' = Append(batches, batch) /\ held' = held
      BY <1>2 DEF HandOff, NextBatch, workerVars
    <2>2. \A i \in 1 .. Len(batches') :
             \/ i \in 1 .. Len(batches) /\ batches'[i] = batches[i]
             \/ batches'[i] = batch
      BY <2>1, AppendPositions
    <2>3. QED
      BY <1>0, <2>1, <2>2 DEF SlicesDistinct
  <1>3. CASE FlushAborted
    BY <1>0, <1>3 DEF FlushAborted, workerVars, SlicesDistinct
  <1>4. ASSUME NEW w \in Worker, WorkerTake(w)
        PROVE  SlicesDistinct'
    <2>1. /\ batches # <<>> /\ batches' = Tail(batches) /\ batch' = batch
          /\ held' = [held EXCEPT ![w] = Head(batches)]
      BY <1>4 DEF WorkerTake, WorkerGoes
    <2>2. /\ Head(batches) = batches[1] /\ 1 \in 1 .. Len(batches)
          /\ \A i \in 1 .. Len(batches') :
                i + 1 \in 1 .. Len(batches) /\ batches'[i] = batches[i + 1]
      BY <2>1, TailPositions
    <2>3. \A v \in Worker : held'[v] = held[v] \/ held'[v] = Head(batches)
      BY <2>1
    <2>4. QED
      BY <2>1, <2>2, <2>3 DEF SlicesDistinct
  <1>5. ASSUME NEW w \in Worker, Work(w), ~WorkerTake(w)
        PROVE  SlicesDistinct'
    <2>1. UNCHANGED <<batch, batches>>
      BY <1>5 DEF Work, WorkerExit, InsertLands, InsertAcked, InsertFails,
         AckLost, Failed, BackoffElapsed, BackoffAborted, WorkerGoes
    <2>2. held' = held \/ held' = [held EXCEPT ![w] = <<>>]
      BY <1>5 DEF Work, WorkerExit, InsertLands, InsertAcked, InsertFails,
         AckLost, Failed, BackoffElapsed, BackoffAborted
    <2>3. \A v \in Worker : held'[v] = held[v] \/ held'[v] = <<>>
      BY <2>2
    <2>4. QED
      BY <1>0, <2>1, <2>3 DEF SlicesDistinct
  <1>6. CASE UNCHANGED <<batch, batches, held>>
    BY <1>6 DEF SlicesDistinct
  <1>7. ASSUME NEW e \in Entry, Submit(e)
        PROVE  UNCHANGED <<batch, batches, held>>
    BY <1>7 DEF Submit, SubmitEnter, SubmitRefused, SubmitSend, SubmitCount,
       SubmitCancel, CallMoves, dispatchVars, workerVars
  <1>8. CASE Start \/ StopCall \/ StopClean \/ StopDeadline \/ HardAbort
             \/ DispatchTick \/ DispatchStop \/ DispatchAbort \/ DrainEmpty
             \/ UNCHANGED vars
    <2>1. UNCHANGED <<batch, batches, held>>
      BY <1>8 DEF Start, StopCall, StopClean, StopDeadline, HardAbort,
         DispatchTick, DispatchStop, DispatchAbort, DrainEmpty, DispatchGoes,
         pipelineVars, dispatchVars, workerVars, vars
    <2>2. QED
      BY <1>6, <2>1
  <1>9. QED
    BY <1>1, <1>2, <1>3, <1>4, <1>5, <1>6, <1>7, <1>8
    DEF Next, Dispatch, Finished

\* Only the acknowledgement of an insert settles rows, and those of its batch.
LEMMA AckSettles ==
    ASSUME Inv, Once, NEW w \in Worker, InsertAcked(w)
    PROVE  /\ Settled' = Settled \cup Range(held[w])
           /\ Settled \cap Range(held[w]) = {}
  <1> USE DEF Inv, TypeInv, TypeOK
  <1>1. /\ UNCHANGED <<ingest, batch, batches, rows>> /\ wpc[w] = "landed"
        /\ held' = [held EXCEPT ![w] = <<>>]
    BY DEF InsertAcked, WorkerGoes, submitVars
  <1>2. \A v \in Worker : held'[v] = IF v = w THEN <<>> ELSE held[v]
    BY <1>1
  <1>3. Range(<<>>) = {} /\ Range(held[w]) \subseteq Entry
    BY RangeType
  <1>4. BeingWritten' \cap Range(held[w]) = {}
    <2>1. \A v \in Worker : v # w => Range(held[v]) \cap Range(held[w]) = {}
      BY DEF Once, WorkersDisjoint
    <2>2. \A v \in Worker : Range(held'[v]) \cap Range(held[w]) = {}
      BY <1>2, <1>3, <2>1
    <2>3. QED
      BY <2>2 DEF BeingWritten
  <1>5. BeingWritten = BeingWritten' \cup Range(held[w])
    BY <1>2, <1>3 DEF BeingWritten
  <1>6. Batched' = Batched
    BY <1>1 DEF Batched
  <1>7. InMemory = InMemory' \cup Range(held[w])
    BY <1>1, <1>5, <1>6 DEF InMemory
  <1>8. InMemory' \cap Range(held[w]) = {}
    BY <1>1, <1>4, <1>5, <1>6 DEF InMemory, Once, PlacesDisjoint
  <1>9. \A e \in Range(held[w]) : rows[e] >= 1
    BY <1>1 DEF LandedStored
  <1>10. QED
    BY <1>1, <1>3, <1>7, <1>8, <1>9 DEF Settled

\* No other step does, unless the pipeline is aborted.
LEMMA OthersSettleNothing ==
    ASSUME Inv, Once, [Next]_vars, ~hardDone,
           \A w \in Worker : ~InsertAcked(w)
    PROVE  Settled' = Settled /\ written' = written
  <1> USE DEF Inv, TypeInv, TypeOK
  <1>1. ASSUME NEW e \in Entry, Submit(e)
        PROVE  Settled' = Settled /\ written' = written
    <2>1. rows' = rows /\ written' = written
      BY <1>1 DEF Submit, SubmitEnter, SubmitRefused, SubmitSend,
         SubmitCount, SubmitCancel, CallMoves, tableVars
    <2>2. CASE SubmitSend(e)
      <3>1. InMemory' = InMemory \cup {e}
        BY <2>2, SendMemory
      <3>2. rows[e] = 0
        BY <2>2 DEF SubmitSend, CallMoves, Taken, RefusedNeverStored
      <3>3. QED
        BY <2>1, <3>1, <3>2 DEF Settled
    <2>3. CASE ~SubmitSend(e)
      <3>1. UNCHANGED <<ingest, batch, batches, held>>
        BY <1>1, <2>3 DEF Submit, SubmitEnter, SubmitRefused, SubmitCount,
           SubmitCancel, CallMoves, dispatchVars, workerVars
      <3>2. InMemory' = InMemory
        BY <3>1 DEF InMemory, Batched, BeingWritten
      <3>3. QED
        BY <2>1, <3>2 DEF Settled
    <2>4. QED
      BY <2>2, <2>3
  <1>2. CASE Dispatch
    <2>1. rows' = rows /\ written' = written
      BY <1>2 DEF Dispatch, DispatchReceive, DispatchTick, DispatchStop,
         DispatchAbort, DrainEmpty, DispatchGoes, HandOff, FlushAborted,
         tableVars
    <2>2. InMemory' = InMemory
      BY <1>2, DispatchMemory
    <2>3. QED
      BY <2>1, <2>2 DEF Settled
  <1>3. ASSUME NEW w \in Worker, Work(w)
        PROVE  Settled' = Settled /\ written' = written
    <2>1. InMemory' = InMemory
      BY <1>3, WorkMemory DEF ShutdownShape
    <2>2. written' = written
      BY <1>3 DEF Work, WorkerTake, WorkerExit, InsertLands, InsertFails,
         AckLost, BackoffElapsed, BackoffAborted, tableVars
    <2>3. CASE InsertLands(w)
      <3>1. \A e \in Entry : e \notin Range(held[w]) => rows'[e] = rows[e]
        BY <2>3, InsertsAll DEF InsertLands
      <3>2. Range(held[w]) \subseteq InMemory
        BY DEF InMemory, BeingWritten
      <3>3. QED
        BY <2>1, <2>2, <3>1, <3>2 DEF Settled
    <2>4. CASE ~InsertLands(w)
      <3>1. rows' = rows
        BY <1>3, <2>4 DEF Work, WorkerTake, WorkerExit, InsertFails, AckLost,
           BackoffElapsed, BackoffAborted, tableVars
      <3>2. QED
        BY <2>1, <2>2, <3>1 DEF Settled
    <2>5. QED
      BY <2>3, <2>4
  <1>4. CASE Start \/ StopCall \/ StopClean \/ StopDeadline \/ HardAbort
             \/ UNCHANGED vars
    <2>1. UNCHANGED <<ingest, batch, batches, held, rows, written>>
      BY <1>4 DEF Start, StopCall, StopClean, StopDeadline, HardAbort,
         pipelineVars, submitVars, dispatchVars, workerVars, tableVars, vars
    <2>2. InMemory' = InMemory
      BY <2>1 DEF InMemory, Batched, BeingWritten
    <2>3. QED
      BY <2>1, <2>2 DEF Settled
  <1>5. QED
    BY <1>1, <1>2, <1>3, <1>4 DEF Next, Finished

LEMMA CountKeeps ==
    ASSUME Inv, Once, CountInv, [Next]_vars
    PROVE  CountInv'
  <1>1. SlicesDistinct'
    BY SlicesKeep DEF CountInv
  <1>2. hardDone => hardDone'
    BY DEF Next, Start, Submit, SubmitEnter, SubmitRefused, SubmitSend,
       SubmitCount, SubmitCancel, CallMoves, Dispatch, DispatchReceive,
       DispatchTick, DispatchStop, DispatchAbort, DrainEmpty, DispatchGoes,
       HandOff, FlushAborted, Work, WorkerTake, WorkerExit, InsertLands,
       InsertAcked, InsertFails, AckLost, Failed, BackoffElapsed,
       BackoffAborted, WorkerGoes, StopCall, StopClean, StopDeadline,
       HardAbort, Finished, vars
  <1>3. ASSUME ~hardDone, NEW w \in Worker, InsertAcked(w)
        PROVE  IsFiniteSet(Settled') /\ written' = Cardinality(Settled')
    <2>1. held[w] \in Seq(Entry) /\ NoRepeats(held[w])
      BY DEF Inv, TypeInv, TypeOK, CountInv, SlicesDistinct
    <2>2. IsFiniteSet(Range(held[w])) /\ Cardinality(Range(held[w])) = Len(held[w])
      BY <2>1, DistinctCardinality
    <2>3. IsFiniteSet(Settled) /\ written = Cardinality(Settled)
      BY <1>3 DEF CountInv
    <2>4. /\ Settled' = Settled \cup Range(held[w])
          /\ Settled \cap Range(held[w]) = {}
      BY <1>3, AckSettles
    <2>5. /\ IsFiniteSet(Settled')
          /\ Cardinality(Settled') = Cardinality(Settled) + Len(held[w])
                                        - Cardinality(Settled \cap Range(held[w]))
      BY <2>2, <2>3, <2>4, FS_Union
    <2>6. Cardinality(Settled \cap Range(held[w])) = 0
      BY <2>4, FS_EmptySet
    <2>7. written' = written + Len(held[w])
      BY <1>3 DEF InsertAcked, CountInserted
    <2>8. written \in Nat /\ Len(held[w]) \in Nat
      BY <2>1 DEF Inv, TypeInv, TypeOK
    <2>9. QED
      BY <2>3, <2>5, <2>6, <2>7, <2>8
  <1>4. ASSUME ~hardDone, \A w \in Worker : ~InsertAcked(w)
        PROVE  IsFiniteSet(Settled') /\ written' = Cardinality(Settled')
    BY <1>4, OthersSettleNothing DEF CountInv
  <1>5. QED
    BY <1>1, <1>2, <1>3, <1>4 DEF CountInv

\* The counter written is the number of entries in the table that no worker
\* holds any more, for every configuration, whatever was retried and however
\* many acknowledgements were lost (log_ingest.go:305-318).
THEOREM WrittenCounts == Spec => []WrittenCountsRows
  <1>1. Init => CountInv
    <2>1. Init => Settled = {} /\ written = 0
      BY DEF Init, Settled
    <2>2. Init => SlicesDistinct
      BY DEF Init, SlicesDistinct, NoRepeats
    <2>3. QED
      BY <2>1, <2>2, FS_EmptySet DEF CountInv
  <1>2. (Inv /\ Once /\ CountInv) /\ [Next]_vars => (Inv /\ Once /\ CountInv)'
    BY StepInv, StepOnce, CountKeeps
  <1>3. CountInv => WrittenCountsRows
    BY DEF CountInv, Settled, WrittenCountsRows
  <1>4. Init => Inv /\ Once
    BY InitInv, InitOnce
  <1>5. QED
    BY <1>1, <1>2, <1>3, <1>4, PTL DEF Spec
=============================================================================
