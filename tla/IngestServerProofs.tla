------------------------- MODULE IngestServerProofs -------------------------
(***************************************************************************)
(* What TLAPS proves of IngestServer: the server runs the pipeline as      *)
(* LogIngestor specifies it, so that every theorem of LogIngestorProofs    *)
(* holds of it; and the order in which main shuts down closes the race     *)
(* that Stop alone leaves open.                                            *)
(***************************************************************************)
EXTENDS IngestServer, LogIngestorProofs

\* The steps that only the handlers or main see.
HandlerOnly(s) ==
    \/ Open(s) \/ Recv(s) \/ RecvEOF(s) \/ RecvFails(s)
    \/ AuthOk(s) \/ AuthFails(s)

\* Every step of the server is a step of the pipeline, or none.
LEMMA ServerStep == [ServerNext]_allVars => [Next]_vars
  <1> SUFFICES ASSUME [ServerNext]_allVars PROVE [Next]_vars
    OBVIOUS
  <1>1. ASSUME NEW s \in Stream, Ingest(s) PROVE [Next]_vars
    <2>1. CASE HandlerOnly(s)
      BY <2>1 DEF HandlerOnly, Open, Recv, RecvEOF, RecvFails, AuthOk, AuthFails
    <2>2. ASSUME NEW e \in Entry, SubmitGoesOn(s, e) PROVE Next
      BY <2>2 DEF SubmitGoesOn, Next, Submit
    <2>3. ASSUME NEW e \in Entry, SubmitReturns(s, e) PROVE Next
      BY <2>3 DEF SubmitReturns, Next, Submit
    <2>4. ASSUME NEW e \in Entry, SubmitErrs(s, e) PROVE Next
      BY <2>4 DEF SubmitErrs, Next, Submit
    <2>5. QED
      BY <1>1, <2>1, <2>2, <2>3, <2>4 DEF Ingest, HandlerOnly
  <1>2. CASE Main
    BY <1>2 DEF Main, MainStart, Signal, StopBegins, StopReturns,
                AbortDeferred, Exit, Killed, Next
  <1>3. CASE DispatchRuns
    BY <1>3 DEF DispatchRuns, Next
  <1>4. ASSUME NEW w \in Worker, WorkRuns(w) PROVE Next
    BY <1>4 DEF WorkRuns, Next
  <1>5. CASE Gone \/ UNCHANGED allVars
    BY <1>5 DEF Gone, allVars
  <1>6. ASSUME NEW o \in Other, OtherRPC(o) PROVE UNCHANGED vars
    BY <1>6 DEF OtherRPC, OtherOpens, OtherEnds
  <1>7. QED
    BY <1>1, <1>2, <1>3, <1>4, <1>5, <1>6 DEF ServerNext

\* The server implements LogIngestor: what is proved of the pipeline holds
\* of the pipeline in its server, whatever handlers and main do.
THEOREM ServerRunsPipeline == ServerSpec => Spec
  <1>1. ServerInit => Init
    BY DEF ServerInit
  <1>2. QED
    BY <1>1, ServerStep, PTL DEF ServerSpec, Spec

\* So the server, with all its streams and its shutdown, keeps the promise
\* of LogDelivery too (log_handler.go:45-93, main.go:81-128).
THEOREM ServerImplementsDelivery == ServerSpec => ImplementsDelivery
  BY ServerRunsPipeline, PipelineImplementsDelivery

-----------------------------------------------------------------------------
\* How far a shutdown has come, seen from main and from the pipeline.
Order ==
    /\ main \in {"starting", "serving", "graceful"} => ~stopping
    /\ main \in {"starting", "serving", "graceful", "draining"} =>
           ~hardDone /\ stop # "clean"

\* Stop is called when no handler is left, so Taken is what it answers for.
Closed ==
    stopping => StreamsGone /\ already = Taken

ShutdownInv ==
    /\ Inv
    /\ Order
    /\ Closed
    /\ NobodyRefused
    /\ GracefulStopLosesNothing

LEMMA ShutdownInit == ServerInit => ShutdownInv
  <1> SUFFICES ASSUME ServerInit PROVE ShutdownInv
    OBVIOUS
  <1>1. Inv
    BY InitInv DEF ServerInit
  <1>2. Order /\ Closed /\ NobodyRefused /\ GracefulStopLosesNothing
    BY DEF ServerInit, Init, Order, Closed, NobodyRefused,
           GracefulStopLosesNothing
  <1>3. QED
    BY <1>1, <1>2 DEF ShutdownInv

\* A handler's step happens before Stop, and leaves what Stop looks at.
LEMMA IngestShutdown ==
    ASSUME ShutdownInv, NEW s \in Stream, Ingest(s)
    PROVE  Order' /\ Closed' /\ NobodyRefused' /\ GracefulStopLosesNothing'
  <1>1. conn[s] \notin {"none", "answered", "failed"} \/ main = "serving"
    BY DEF Ingest, Open, Recv, RecvEOF, RecvFails, AuthOk, AuthFails,
           SubmitGoesOn, SubmitReturns, SubmitErrs, InSubmit, Handler
  <1>2. ~stopping
    BY <1>1 DEF ShutdownInv, Order, Closed, StreamsGone
  <1>3. UNCHANGED <<main, stopping, hardDone, stop, already>>
    <2>1. CASE HandlerOnly(s)
      BY <2>1 DEF HandlerOnly, Open, Recv, RecvEOF, RecvFails, AuthOk,
                  AuthFails, Handler, vars
    <2>2. ASSUME NEW e \in Entry, SubmitGoesOn(s, e)
          PROVE  UNCHANGED <<main, stopping, hardDone, stop, already>>
      BY <2>2 DEF SubmitGoesOn, SubmitEnter, SubmitSend, CallMoves,
                  serverVars, stopVars
    <2>3. ASSUME NEW e \in Entry, SubmitReturns(s, e) \/ SubmitErrs(s, e)
          PROVE  UNCHANGED <<main, stopping, hardDone, stop, already>>
      BY <2>3 DEF SubmitReturns, SubmitErrs, ReturnError, SubmitCount,
                  SubmitRefused, SubmitCancel, CallMoves, Handler, stopVars
    <2>4. QED
      BY <2>1, <2>2, <2>3 DEF Ingest, HandlerOnly
  <1>4. stop # "clean"
    BY <1>2 DEF ShutdownInv, Inv, ShutdownShape
  <1>5. NobodyRefused'
    <2>1. call' = call \/ \E e \in Entry, to \in {"selecting", "sent", "ok", "cancelled"} :
                              call' = [call EXCEPT ![e] = to]
      BY <1>2 DEF Ingest, Open, Recv, RecvEOF, RecvFails, AuthOk, AuthFails,
           SubmitGoesOn, SubmitReturns, SubmitErrs, vars,
           SubmitEnter, SubmitSend, SubmitCount, SubmitRefused, SubmitCancel,
           CallMoves
    <2>2. QED
      BY <2>1 DEF ShutdownInv, NobodyRefused, Inv, TypeInv, TypeOK
  <1>6. QED
    BY <1>2, <1>3, <1>4, <1>5
       DEF ShutdownInv, Order, Closed, GracefulStopLosesNothing

\* Another RPC opens while the server serves, and ends before Stop.
LEMMA OtherShutdown ==
    ASSUME ShutdownInv, NEW o \in Other, OtherRPC(o)
    PROVE  Order' /\ Closed' /\ NobodyRefused' /\ GracefulStopLosesNothing'
  <1>1. ~stopping
    BY DEF OtherRPC, OtherOpens, OtherEnds, ShutdownInv, Order, Closed,
           StreamsGone
  <1>2. UNCHANGED <<main, call, rows, stopping, hardDone, stop, already>>
    BY DEF OtherRPC, OtherOpens, OtherEnds, vars
  <1>3. Taken' = Taken
    BY <1>2 DEF Taken
  <1>4. QED
    BY <1>1, <1>2, <1>3
       DEF ShutdownInv, Order, Closed, NobodyRefused, GracefulStopLosesNothing

\* The pipeline's own steps leave calls and the stop alone, and never
\* delete a row.
LEMMA PipelineShutdown ==
    ASSUME ShutdownInv, UNCHANGED serverVars,
           Dispatch \/ \E w \in Worker : Work(w)
    PROVE  Order' /\ Closed' /\ NobodyRefused' /\ GracefulStopLosesNothing'
  <1>1. UNCHANGED <<call, stopping, hardDone, stop, already>>
    BY DEF Dispatch, DispatchReceive, DispatchTick, DispatchStop,
           DispatchAbort, DispatchGoes, DrainEmpty, HandOff, FlushAborted,
           Work, WorkerTake, WorkerExit, InsertLands, InsertAcked,
           InsertFails, AckLost, Failed, BackoffElapsed, BackoffAborted,
           WorkerGoes, submitVars, stopVars
  <1>2. \A e \in Entry : rows[e] >= 1 => rows'[e] >= 1
    <2>1. \/ rows' = rows
          \/ \E w \in Worker : InsertLands(w)
      BY DEF Dispatch, DispatchReceive, DispatchTick, DispatchStop,
           DispatchAbort, DispatchGoes, DrainEmpty, HandOff, FlushAborted,
           Work, WorkerTake, WorkerExit, InsertAcked,
           InsertFails, AckLost, BackoffElapsed, BackoffAborted, tableVars
    <2>2. ASSUME NEW w \in Worker, InsertLands(w)
          PROVE  \A e \in Entry : rows[e] >= 1 => rows'[e] >= 1
      BY <2>2 DEF InsertLands, ShutdownInv, Inv, TypeInv, TypeOK
    <2>3. QED
      BY <2>1, <2>2
  <1>3. Taken' = Taken /\ StreamsGone' = StreamsGone /\ main' = main
    BY <1>1 DEF Taken, StreamsGone, serverVars, handlerVars
  <1>4. Taken \subseteq Entry
    BY DEF Taken
  <1>5. QED
    BY <1>1, <1>2, <1>3, <1>4
       DEF ShutdownInv, Order, Closed, NobodyRefused, GracefulStopLosesNothing

LEMMA InvDrainsNext == Inv' => CleanStopDrains'
  BY InvDrains, PTL

\* main's steps: Stop begins when the streams are gone, and returns nil only
\* when CleanStopDrains holds of all that was taken.
LEMMA MainShutdown ==
    ASSUME ShutdownInv, Inv', Main
    PROVE  Order' /\ Closed' /\ NobodyRefused' /\ GracefulStopLosesNothing'
  <1> USE DEF ShutdownInv, Order, MainGoes
  <1>1. CASE MainStart
    <2>1. UNCHANGED <<call, rows, stopping, hardDone, stop, already, conn, others>>
          /\ main' = "serving" /\ main = "starting"
      BY <1>1 DEF MainStart, Start, submitVars, tableVars, stopVars, handlerVars
    <2>2. QED
      BY <2>1 DEF Closed, NobodyRefused, GracefulStopLosesNothing
  <1>2. CASE Signal \/ Exit \/ Killed
    <2>1. UNCHANGED <<call, rows, stopping, hardDone, stop, already, conn, others>>
      BY <1>2 DEF Signal, Exit, Killed, vars, handlerVars
    <2>2. Taken' = Taken /\ StreamsGone' = StreamsGone
      BY <2>1 DEF Taken, StreamsGone
    <2>3. Closed' /\ NobodyRefused' /\ GracefulStopLosesNothing'
      BY <2>1, <2>2 DEF Closed, NobodyRefused, GracefulStopLosesNothing
    <2>4. Order'
      BY <1>2, <2>1 DEF Signal, Exit, Killed
    <2>5. QED
      BY <2>3, <2>4
  <1>3. CASE StopBegins
    <2>1. /\ StreamsGone /\ main = "graceful" /\ main' = "draining"
          /\ stopping' /\ stop' = "waiting" /\ already' = Taken
          /\ UNCHANGED <<call, hardDone, conn, others>>
      BY <1>3 DEF StopBegins, StopCall, pipelineVars, submitVars, handlerVars
    <2>2. Taken' = Taken /\ StreamsGone'
      BY <2>1 DEF Taken, StreamsGone
    <2>3. QED
      BY <2>1, <2>2 DEF Closed, NobodyRefused, GracefulStopLosesNothing
  <1>4. CASE StopReturns
    <2>1. /\ main = "draining" /\ main' = "returned"
          /\ UNCHANGED <<call, rows, stopping, hardDone, already, conn, others>>
      BY <1>4 DEF StopReturns, StopClean, StopDeadline, pipelineVars,
                  submitVars, tableVars, handlerVars
    <2>2. Taken' = Taken /\ StreamsGone' = StreamsGone
      BY <2>1 DEF Taken, StreamsGone
    <2>3. Order' /\ Closed' /\ NobodyRefused'
      BY <2>1, <2>2 DEF Closed, NobodyRefused
    <2>4. CleanStopDrains'
      BY InvDrainsNext
    <2>5. stop' = "clean" => stopping'
      BY DEF Inv, ShutdownShape
    <2>6. GracefulStopLosesNothing'
      BY <2>1, <2>3, <2>4, <2>5
         DEF Closed, CleanStopDrains, GracefulStopLosesNothing
    <2>7. QED
      BY <2>3, <2>6
  <1>5. CASE AbortDeferred
    <2>1. /\ main = "returned" /\ main' = "returned"
          /\ UNCHANGED <<call, rows, stopping, stop, already, conn, others>>
      BY <1>5 DEF AbortDeferred, HardAbort, pipelineVars, submitVars,
                  tableVars, stopVars, handlerVars
    <2>2. Taken' = Taken /\ StreamsGone' = StreamsGone
      BY <2>1 DEF Taken, StreamsGone
    <2>3. QED
      BY <2>1, <2>2 DEF Closed, NobodyRefused, GracefulStopLosesNothing
  <1>6. QED
    BY <1>1, <1>2, <1>3, <1>4, <1>5 DEF Main

LEMMA ShutdownStep == ShutdownInv /\ [ServerNext]_allVars => ShutdownInv'
  <1> SUFFICES ASSUME ShutdownInv, [ServerNext]_allVars PROVE ShutdownInv'
    OBVIOUS
  <1>1. Inv'
    BY ServerStep, StepInv DEF ShutdownInv
  <1>2. Order' /\ Closed' /\ NobodyRefused' /\ GracefulStopLosesNothing'
    <2>1. CASE \E s \in Stream : Ingest(s)
      BY <2>1, IngestShutdown
    <2>2. CASE Main
      BY <1>1, <2>2, MainShutdown
    <2>3. CASE DispatchRuns \/ \E w \in Worker : WorkRuns(w)
      BY <2>3, PipelineShutdown DEF DispatchRuns, WorkRuns
    <2>4. CASE Gone \/ UNCHANGED allVars
      <3>1. UNCHANGED <<vars, serverVars>>
        BY <2>4 DEF Gone, allVars
      <3>2. Taken' = Taken /\ StreamsGone' = StreamsGone
        BY <3>1 DEF vars, serverVars, handlerVars, Taken, StreamsGone
      <3>3. QED
        BY <3>1, <3>2 DEF vars, serverVars, ShutdownInv, Order, Closed,
                          NobodyRefused, GracefulStopLosesNothing
    <2>5. CASE \E o \in Other : OtherRPC(o)
      BY <2>5, OtherShutdown
    <2>6. QED
      BY <2>1, <2>2, <2>3, <2>4, <2>5 DEF ServerNext
  <1>3. QED
    BY <1>1, <1>2 DEF ShutdownInv

\* When Stop has returned nil to main, every entry that a stream ever got
\* into the pipeline is in the table (main.go:118-126).
THEOREM GracefulShutdownIsComplete == ServerSpec => []GracefulStopLosesNothing
  <1>1. ShutdownInv => GracefulStopLosesNothing
    BY DEF ShutdownInv
  <1>2. QED
    BY <1>1, ShutdownInit, ShutdownStep, PTL DEF ServerSpec

\* No stream is turned away by a shutdown.
THEOREM NoStreamIsRefused == ServerSpec => []NobodyRefused
  <1>1. ShutdownInv => NobodyRefused
    BY DEF ShutdownInv
  <1>2. QED
    BY <1>1, ShutdownInit, ShutdownStep, PTL DEF ServerSpec

-----------------------------------------------------------------------------
(***************************************************************************)
(* What a stream was told: the calls of Submit it has made, one after the  *)
(* other, are those of its accepted entries and of the one in its hands.   *)
(***************************************************************************)

\* The calls of Submit for the entries of s: made for those accepted, under
\* way or refused for the next one at most, and not made for the rest.
CallsInOrder(s) ==
    \A i \in 1 .. Len(Offers[s]) :
        /\ i <= accepted[s] => call[Offers[s][i]] = "ok"
        /\ i > accepted[s] + 1 => call[Offers[s][i]] = "new"
        /\ i = accepted[s] + 1 =>
              /\ conn[s] \notin {"submit", "failed"} => call[Offers[s][i]] = "new"
              /\ conn[s] = "failed" => Offers[s][i] \notin Taken

HandlerInv ==
    /\ ServerTypeOK
    /\ \A s \in Stream :
         /\ accepted[s] <= Len(Offers[s])
         /\ conn[s] \in {"auth", "submit"} => accepted[s] < Len(Offers[s])
         /\ CallsInOrder(s)

LEMMA OffersType ==
    ASSUME NEW s \in Stream
    PROVE  /\ Offers[s] \in Seq(Entry)
           /\ Len(Offers[s]) \in Nat
           /\ \A i \in 1 .. Len(Offers[s]) : Offers[s][i] \in Entry
  BY OffersAssumption

\* Every entry is offered once.
LEMMA OfferedOnce ==
    ASSUME NEW s \in Stream, NEW r \in Stream,
           NEW i \in 1 .. Len(Offers[s]), NEW j \in 1 .. Len(Offers[r]),
           Offers[s][i] = Offers[r][j]
    PROVE  s = r /\ i = j
  <1>1. i \in DOMAIN Offers[s] /\ j \in DOMAIN Offers[r]
    BY OffersType
  <1>2. QED
    BY <1>1, OnceAssumption

\* What is left of a stream of entries, and what is left after one more.
LEMMA Rests ==
    ASSUME NEW q \in Seq(Entry), NEW n \in Nat
    PROVE  /\ SubSeq(q, n + 1, Len(q)) \in Seq(Entry)
           /\ n >= Len(q) => SubSeq(q, n + 1, Len(q)) = <<>>
           /\ n < Len(q) =>
                 /\ Head(SubSeq(q, n + 1, Len(q))) = q[n + 1]
                 /\ Tail(SubSeq(q, n + 1, Len(q))) = SubSeq(q, n + 2, Len(q))
  OBVIOUS

LEMMA HandlerInit == ServerInit => HandlerInv
  <1> SUFFICES ASSUME ServerInit PROVE HandlerInv
    OBVIOUS
  <1>1. \A s \in Stream : Offers[s] = SubSeq(Offers[s], 0 + 1, Len(Offers[s]))
    BY OffersType
  <1>2. ServerTypeOK
    BY <1>1, OffersAssumption DEF ServerInit, ServerTypeOK
  <1>3. QED
    BY <1>2, OffersType DEF ServerInit, Init, HandlerInv, CallsInOrder, Taken

\* What the handler of s has in its hands is the next of its entries.
LEMMA InHands ==
    ASSUME HandlerInv, NEW s \in Stream, conn[s] \in {"auth", "submit"}
    PROVE  /\ accepted[s] + 1 \in 1 .. Len(Offers[s])
           /\ Head(left[s]) = Offers[s][accepted[s] + 1]
           /\ Tail(left[s]) = SubSeq(Offers[s], accepted[s] + 2, Len(Offers[s]))
           /\ Tail(left[s]) \in Seq(Entry)
  <1>1. accepted[s] \in Nat /\ accepted[s] < Len(Offers[s])
    BY DEF HandlerInv, ServerTypeOK
  <1>2. left[s] = SubSeq(Offers[s], accepted[s] + 1, Len(Offers[s]))
    BY DEF HandlerInv, ServerTypeOK
  <1> DEFINE q == Offers[s]
             n == accepted[s]
  <1>3. q \in Seq(Entry) /\ n \in Nat /\ n < Len(q) /\ Len(q) \in Nat
    BY <1>1, OffersType
  <1>4. left[s] = SubSeq(q, n + 1, Len(q))
    BY <1>2
  <1> HIDE DEF q, n
  <1>5. /\ Head(left[s]) = q[n + 1]
        /\ Tail(left[s]) = SubSeq(q, n + 2, Len(q))
    BY <1>3, <1>4, Rests
  <1>6. SubSeq(q, n + 2, Len(q)) \in Seq(Entry)
    <2>1. n + 2 = (n + 1) + 1 /\ n + 1 \in Nat
      BY <1>3
    <2>2. QED
      BY <1>3, <2>1, Rests
  <1>7. n + 1 \in 1 .. Len(q)
    BY <1>3
  <1>8. QED
    BY <1>5, <1>6, <1>7 DEF q, n

\* A step that makes no call leaves the handlers' invariant to what it does
\* to conn: the handler of s moves on with the same entry, or none.
LEMMA HandlerMoves ==
    ASSUME HandlerInv, NEW s \in Stream, HandlerOnly(s)
    PROVE  HandlerInv'
  <1> USE DEF HandlerInv, ServerTypeOK, HandlerOnly, Handler
  <1>1. UNCHANGED <<call, left, accepted>>
    BY DEF Open, Recv, RecvEOF, RecvFails, AuthOk, AuthFails, vars
  <1>2. PICK to \in {"recv", "auth", "submit", "answered", "failed"} :
            /\ conn' = [conn EXCEPT ![s] = to]
            /\ to \in {"auth", "submit"} =>
                  conn[s] = "auth" \/ (conn[s] = "recv" /\ left[s] # <<>>)
    BY DEF Open, Recv, RecvEOF, RecvFails, AuthOk, AuthFails
  <1>3. conn[s] \notin {"submit", "failed"}
    BY DEF Open, Recv, RecvEOF, RecvFails, AuthOk, AuthFails
  <1>4. to \in {"auth", "submit"} => accepted[s] < Len(Offers[s])
    BY <1>2, OffersType, Rests
  <1>5. ServerTypeOK'
    BY <1>1, <1>2 DEF Open, Recv, RecvEOF, RecvFails, AuthOk, AuthFails, Running
  <1>6. ASSUME NEW r \in Stream
        PROVE  CallsInOrder(r)'
    <2>1. CASE r = s
      BY <1>1, <1>2, <1>3, <2>1 DEF CallsInOrder, Taken
    <2>2. CASE r # s
      BY <1>1, <1>2, <2>2 DEF CallsInOrder, Taken
    <2>3. QED
      BY <2>1, <2>2
  <1>7. QED
    BY <1>1, <1>2, <1>4, <1>5, <1>6

\* A step of Submit concerns the entry in the hands of its handler.
LEMMA CallOfHands ==
    ASSUME HandlerInv, NEW s \in Stream, NEW e \in Entry, InSubmit(s, e)
    PROVE  /\ e = Offers[s][accepted[s] + 1]
           /\ accepted[s] + 1 \in 1 .. Len(Offers[s])
           /\ \A r \in Stream : \A i \in 1 .. Len(Offers[r]) :
                Offers[r][i] = e => r = s /\ i = accepted[s] + 1
  <1>1. conn[s] = "submit" /\ e = Head(left[s])
    BY DEF InSubmit
  <1>2. QED
    BY <1>1, InHands, OfferedOnce

LEMMA CallsOfOthers ==
    ASSUME HandlerInv, NEW s \in Stream, NEW e \in Entry, InSubmit(s, e),
           \A d \in Entry : d # e => call'[d] = call[d],
           NEW r \in Stream, NEW i \in 1 .. Len(Offers[r])
    PROVE  /\ r = s /\ i = accepted[s] + 1 => Offers[r][i] = e
           /\ ~(r = s /\ i = accepted[s] + 1) =>
                call'[Offers[r][i]] = call[Offers[r][i]]
  <1>1. Offers[r][i] \in Entry
    BY OffersType
  <1>2. r = s /\ i = accepted[s] + 1 => Offers[r][i] = e
    BY CallOfHands
  <1>3. ~(r = s /\ i = accepted[s] + 1) => Offers[r][i] # e
    BY CallOfHands
  <1>4. QED
    BY <1>1, <1>2, <1>3

\* Hence a call in the hands of s keeps the order of all streams, if it
\* keeps that of its own entry.
LEMMA CallKeepsOrder ==
    ASSUME HandlerInv, TypeOK, NEW s \in Stream, NEW e \in Entry,
           InSubmit(s, e), NEW to, call' = [call EXCEPT ![e] = to],
           accepted' = accepted, NEW at, conn' = [conn EXCEPT ![s] = at],
           at = "submit" \/ (at = "failed" /\ to \notin {"sent", "ok"})
    PROVE  \A r \in Stream : CallsInOrder(r)'
  <1> SUFFICES ASSUME NEW r \in Stream, NEW i \in 1 .. Len(Offers[r])
               PROVE  /\ i <= accepted[r] => call'[Offers[r][i]] = "ok"
                      /\ i > accepted[r] + 1 => call'[Offers[r][i]] = "new"
                      /\ i = accepted[r] + 1 =>
                            /\ conn'[r] \notin {"submit", "failed"} =>
                                  call'[Offers[r][i]] = "new"
                            /\ conn'[r] = "failed" => Offers[r][i] \notin Taken'
    BY DEF CallsInOrder
  <1>1. conn \in [Stream -> {"none", "recv", "auth", "submit", "answered", "failed"}]
        /\ accepted[r] \in Nat /\ CallsInOrder(r) /\ Offers[r][i] \in Entry
    BY OffersType DEF HandlerInv, ServerTypeOK
  <1>0. call'[e] = to /\ \A d \in Entry : d # e => call'[d] = call[d]
    BY DEF TypeOK
  <1>2. CASE r = s /\ i = accepted[s] + 1
    <2>0. Offers[r][i] = e
      BY <1>0, <1>2, CallsOfOthers
    <2>1. call'[Offers[r][i]] = to /\ conn'[r] = at
      BY <1>0, <1>1, <1>2, <2>0
    <2>2. at = "failed" => Offers[r][i] \notin Taken'
      BY <2>1 DEF Taken
    <2>3. QED
      BY <1>1, <1>2, <2>1, <2>2
  <1>3. CASE ~(r = s /\ i = accepted[s] + 1)
    <2>1. call'[Offers[r][i]] = call[Offers[r][i]]
      BY <1>0, <1>3, CallsOfOthers
    <2>2. Offers[r][i] \in Taken' <=> Offers[r][i] \in Taken
      BY <2>1 DEF Taken
    <2>3. r # s => conn'[r] = conn[r]
      BY <1>1
    <2>4. QED
      BY <1>1, <1>3, <2>1, <2>2, <2>3 DEF CallsInOrder
  <1>4. QED
    BY <1>2, <1>3

LEMMA SubmitMoves ==
    ASSUME HandlerInv, TypeOK, NEW s \in Stream, NEW e \in Entry,
           SubmitGoesOn(s, e)
    PROVE  HandlerInv'
  <1>1. InSubmit(s, e) /\ UNCHANGED <<main, conn, known, left, accepted, others>>
    BY DEF SubmitGoesOn, serverVars, handlerVars
  <1>2. PICK to \in {"selecting", "sent"} : call' = [call EXCEPT ![e] = to]
    BY DEF SubmitGoesOn, SubmitEnter, SubmitSend, CallMoves
  <1>3. conn' = [conn EXCEPT ![s] = "submit"]
    BY <1>1 DEF InSubmit, HandlerInv, ServerTypeOK
  <1>4. \A r \in Stream : CallsInOrder(r)'
    BY <1>1, <1>2, <1>3, CallKeepsOrder
  <1>5. QED
    BY <1>1, <1>4 DEF HandlerInv, ServerTypeOK

\* An error: the entry is not accepted, and nor is any after it.
LEMMA SubmitRefuses ==
    ASSUME HandlerInv, TypeOK, NEW s \in Stream, NEW e \in Entry,
           SubmitErrs(s, e)
    PROVE  HandlerInv'
  <1>1. /\ InSubmit(s, e)
        /\ conn' = [conn EXCEPT ![s] = "failed"]
        /\ UNCHANGED <<main, known, left, accepted, others>>
    BY DEF SubmitErrs, Handler, ReturnError
  <1>2. PICK to \in {"stopped", "cancelled"} : call' = [call EXCEPT ![e] = to]
    BY DEF SubmitErrs, SubmitRefused, SubmitCancel, CallMoves
  <1>3. \A r \in Stream : CallsInOrder(r)'
    BY <1>1, <1>2, CallKeepsOrder
  <1>4. QED
    BY <1>1, <1>3 DEF HandlerInv, ServerTypeOK

\* nil: the entry is one of the accepted ones, and the next has not been
\* offered.
LEMMA SubmitAccepts ==
    ASSUME HandlerInv, TypeOK, NEW s \in Stream, NEW e \in Entry,
           SubmitReturns(s, e)
    PROVE  HandlerInv'
  <1>1. /\ InSubmit(s, e) /\ conn[s] = "submit"
        /\ conn' = [conn EXCEPT ![s] = "recv"]
        /\ accepted' = [accepted EXCEPT ![s] = @ + 1]
        /\ left' = [left EXCEPT ![s] = Tail(left[s])]
        /\ known' = known /\ main' = main /\ others' = others
        /\ call' = [call EXCEPT ![e] = "ok"]
    BY DEF SubmitReturns, SubmitCount, CallMoves, NextEntries, Handler
  <1>2. /\ accepted \in [Stream -> Nat]
        /\ accepted'[s] = accepted[s] + 1 /\ accepted'[s] <= Len(Offers[s])
        /\ \A r \in Stream : r # s => accepted'[r] = accepted[r]
                               /\ conn'[r] = conn[r] /\ left'[r] = left[r]
        /\ conn'[s] = "recv"
    BY <1>1, OffersType DEF HandlerInv, ServerTypeOK
  <1>3. left'[s] = SubSeq(Offers[s], accepted'[s] + 1, Len(Offers[s]))
        /\ left' \in [Stream -> Seq(Entry)]
    <2>1. (accepted[s] + 1) + 1 = accepted[s] + 2
      BY <1>2
    <2>2. /\ Tail(left[s]) = SubSeq(Offers[s], accepted[s] + 2, Len(Offers[s]))
          /\ Tail(left[s]) \in Seq(Entry)
      BY <1>1, InHands
    <2>3. left \in [Stream -> Seq(Entry)]
      BY DEF HandlerInv, ServerTypeOK
    <2>4. left'[s] = Tail(left[s]) /\ left' \in [Stream -> Seq(Entry)]
      BY <1>1, <2>2, <2>3
    <2>5. accepted'[s] + 1 = accepted[s] + 2
      BY <1>2, <2>1
    <2>6. QED
      BY <2>2, <2>4, <2>5
  <1>4. ServerTypeOK'
    <2>1. \A r \in Stream :
            left'[r] = SubSeq(Offers[r], accepted'[r] + 1, Len(Offers[r]))
      BY <1>2, <1>3 DEF HandlerInv, ServerTypeOK
    <2>2. /\ accepted' \in [Stream -> Nat]
          /\ conn' \in [Stream -> {"none", "recv", "auth", "submit",
                                    "answered", "failed"}]
      BY <1>1, <1>2 DEF HandlerInv, ServerTypeOK
    <2>3. QED
      BY <1>1, <1>3, <2>1, <2>2 DEF HandlerInv, ServerTypeOK
  <1>0. call'[e] = "ok" /\ \A d \in Entry : d # e => call'[d] = call[d]
    BY <1>1 DEF TypeOK
  <1>5. ASSUME NEW r \in Stream
        PROVE  CallsInOrder(r)'
    <2> SUFFICES ASSUME NEW i \in 1 .. Len(Offers[r])
                 PROVE  /\ i <= accepted'[r] => call'[Offers[r][i]] = "ok"
                        /\ i > accepted'[r] + 1 => call'[Offers[r][i]] = "new"
                        /\ i = accepted'[r] + 1 =>
                              /\ conn'[r] \notin {"submit", "failed"} =>
                                    call'[Offers[r][i]] = "new"
                              /\ conn'[r] = "failed" =>
                                    Offers[r][i] \notin Taken'
      BY DEF CallsInOrder
    <2>1. CallsInOrder(r) /\ accepted[r] \in Nat /\ i \in Int
          /\ Offers[r][i] \in Entry
      BY <1>2, OffersType DEF HandlerInv
    <2>2. CASE r = s /\ i = accepted[s] + 1
      <3>0. Offers[r][i] = e
        BY <1>0, <1>1, <2>2, CallsOfOthers
      <3>1. call'[Offers[r][i]] = "ok"
        BY <1>0, <3>0
      <3>2. QED
        BY <1>2, <2>1, <2>2, <3>1
    <2>3. CASE r = s /\ i # accepted[s] + 1
      <3>1. call'[Offers[r][i]] = call[Offers[r][i]]
        BY <1>0, <1>1, <2>3, CallsOfOthers
      <3>2. QED
        BY <1>2, <2>1, <2>3, <3>1 DEF CallsInOrder
    <2>4. CASE r # s
      <3>1. call'[Offers[r][i]] = call[Offers[r][i]]
        BY <1>0, <1>1, <2>4, CallsOfOthers
      <3>2. Offers[r][i] \in Taken' <=> Offers[r][i] \in Taken
        BY <3>1 DEF Taken
      <3>3. QED
        BY <1>2, <2>1, <2>4, <3>1, <3>2 DEF CallsInOrder
    <2>5. QED
      BY <2>2, <2>3, <2>4
  <1>6. QED
    BY <1>2, <1>4, <1>5 DEF HandlerInv

LEMMA HandlerStep ==
    ASSUME HandlerInv, TypeOK, [ServerNext]_allVars
    PROVE  HandlerInv'
  <1>1. ASSUME NEW s \in Stream, Ingest(s)
        PROVE  HandlerInv'
    BY <1>1, HandlerMoves, SubmitMoves, SubmitAccepts, SubmitRefuses
       DEF Ingest, HandlerOnly
  <1>2. ASSUME UNCHANGED <<call, conn, known, left, accepted>>,
               others' \in SUBSET Other,
               main' \in {"starting", "serving", "graceful", "draining",
                           "returned", "gone"}
        PROVE  HandlerInv'
    BY <1>2 DEF HandlerInv, ServerTypeOK, CallsInOrder, Taken
  <1>3. CASE Main
    <2>1. UNCHANGED <<call, conn, known, left, accepted, others>>
      BY <1>3 DEF Main, MainStart, Signal, StopBegins, StopReturns,
                  AbortDeferred, Exit, Killed, MainGoes, handlerVars, Start,
                  StopCall, StopClean, StopDeadline, HardAbort, vars,
                  pipelineVars, submitVars
    <2>2. main' \in {"starting", "serving", "graceful", "draining",
                     "returned", "gone"}
      BY <1>3 DEF Main, MainStart, Signal, StopBegins, StopReturns,
                  AbortDeferred, Exit, Killed, MainGoes
    <2>3. QED
      BY <1>2, <2>1, <2>2 DEF HandlerInv, ServerTypeOK
  <1>4. CASE DispatchRuns \/ \E w \in Worker : WorkRuns(w)
    <2>1. call' = call
      BY <1>4 DEF DispatchRuns, WorkRuns, Dispatch, DispatchReceive,
           DispatchTick, DispatchStop, DispatchAbort, DispatchGoes,
           DrainEmpty, HandOff, FlushAborted,
           Work, WorkerTake, WorkerExit, InsertLands, InsertAcked,
           InsertFails, AckLost, Failed, BackoffElapsed, BackoffAborted,
           WorkerGoes, submitVars
    <2>2. UNCHANGED serverVars
      BY <1>4 DEF DispatchRuns, WorkRuns
    <2>3. QED
      BY <1>2, <2>1, <2>2 DEF serverVars, handlerVars, HandlerInv, ServerTypeOK
  <1>5. CASE Gone \/ UNCHANGED allVars
    <2>1. UNCHANGED <<call, main, conn, known, left, accepted, others>>
      BY <1>5 DEF Gone, allVars, vars, serverVars, handlerVars
    <2>2. QED
      BY <1>2, <2>1 DEF HandlerInv, ServerTypeOK
  <1>6. ASSUME NEW o \in Other, OtherRPC(o)
        PROVE  HandlerInv'
    <2>1. UNCHANGED <<call, main, conn, known, left, accepted>>
      BY <1>6 DEF OtherRPC, OtherOpens, OtherEnds, vars
    <2>2. others' \in SUBSET Other
      BY <1>6 DEF OtherRPC, OtherOpens, OtherEnds, HandlerInv, ServerTypeOK
    <2>3. QED
      BY <1>2, <2>1, <2>2 DEF HandlerInv, ServerTypeOK
  <1>7. QED
    BY <1>1, <1>3, <1>4, <1>5, <1>6 DEF ServerNext

LEMMA ServerInvariant == ServerSpec => [](HandlerInv /\ Inv)
  <1>1. HandlerInv /\ Inv /\ [ServerNext]_allVars => HandlerInv' /\ Inv'
    BY HandlerStep, ServerStep, StepInv DEF Inv, TypeInv
  <1>2. ServerInit => HandlerInv /\ Inv
    BY HandlerInit, InitInv DEF ServerInit
  <1>3. QED
    BY <1>1, <1>2, PTL DEF ServerSpec

\* Types, and a stream's entries are accepted one after the other.
THEOREM ServerTypes == ServerSpec => []ServerTypeOK
  <1>1. HandlerInv => ServerTypeOK
    BY DEF HandlerInv
  <1>2. QED
    BY <1>1, ServerInvariant, PTL

\* What is accepted is in the pipeline or the table, and nothing else of
\* its stream is, for any streams and entries (log_handler.go:81-84).
LEMMA AcceptedInMemory ==
    ASSUME HandlerInv, Inv
    PROVE  AcceptedIsKept
  <1> SUFFICES ASSUME NEW s \in Stream, NEW i \in DOMAIN Offers[s],
                      NEW e, e = Offers[s][i]
               PROVE  /\ i <= accepted[s] /\ main # "gone" /\ ~hardDone =>
                            e \in InMemory \/ rows[e] >= 1
                      /\ i > accepted[s] + 1 => e \notin InMemory /\ rows[e] = 0
                      /\ i = accepted[s] + 1 /\ conn[s] \in {"answered", "failed"} =>
                            e \notin InMemory /\ rows[e] = 0
    BY DEF AcceptedIsKept
  <1>1. i \in 1 .. Len(Offers[s]) /\ e \in Entry
    BY OffersType
  <1>2. CallsInOrder(s)
    BY DEF HandlerInv
  <1>3. i <= accepted[s] => e \in Taken
    BY <1>1, <1>2 DEF CallsInOrder, Taken
  <1>4. i > accepted[s] + 1 => e \notin Taken
    BY <1>1, <1>2 DEF CallsInOrder, Taken
  <1>5. i = accepted[s] + 1 /\ conn[s] \in {"answered", "failed"} => e \notin Taken
    BY <1>1, <1>2 DEF CallsInOrder, Taken
  <1>6. QED
    BY <1>1, <1>3, <1>4, <1>5 DEF Inv, NoSilentLoss, RefusedNeverStored

THEOREM AcceptedEntriesAreKept == ServerSpec => []AcceptedIsKept
  BY AcceptedInMemory, ServerInvariant, PTL
=============================================================================
