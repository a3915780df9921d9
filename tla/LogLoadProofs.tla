---------------------------- MODULE LogLoadProofs ----------------------------
(***************************************************************************)
(* What a load generator may rely on, for any number of generators and any *)
(* size of the pipeline and of the wire: its stream is a stream as         *)
(* IngestServer has them, so all that is proved of those holds of it, and  *)
(* the summary it ends with tells the truth.                               *)
(***************************************************************************)
EXTENDS LogLoad, IngestServerProofs

LEMMA LoadLeavesServer ==
    ASSUME NEW s \in Stream, Load(s)
    PROVE  UNCHANGED allVars
  BY DEF Load, Tick, Send, CloseSend, Done, Fatal, ClientGoes

LEMMA ServesIsIngest ==
    ASSUME NEW s \in Stream, Serves(s)
    PROVE  Ingest(s)
  BY DEF Serves, Receives, Ingest

LEMMA LoadStep == [LoadNext]_systemVars => [ServerNext]_allVars
  <1>1. ASSUME NEW s \in Stream, Load(s)
        PROVE  UNCHANGED allVars
    BY <1>1, LoadLeavesServer
  <1>2. ASSUME NEW s \in Stream, Serves(s)
        PROVE  ServerNext
    BY <1>2, ServesIsIngest DEF ServerNext
  <1>3. Rest => ServerNext
    BY DEF Rest, ServerNext
  <1>4. UNCHANGED systemVars => UNCHANGED allVars
    BY DEF systemVars
  <1>5. QED
    BY <1>1, <1>2, <1>3, <1>4 DEF LoadNext

\* The generator and its server behave as IngestServer says, with a client
\* that closes when its time is up (logload.go:61-88).
THEOREM LoadRunsServer == LoadSpec => ServerSpec
  <1>1. LoadInit => ServerInit
    BY DEF LoadInit
  <1>2. QED
    BY <1>1, LoadStep, PTL DEF LoadSpec, ServerSpec

\* However long an outage, and however many generators go on sending, the
\* entries in the server's memory stay below the bound (log_ingest.go:69).
THEOREM MemoryIsBoundedUnderLoad == LoadSpec => []MemoryBounded
  BY LoadRunsServer, ServerRunsPipeline, MemoryIsBounded, PTL

-----------------------------------------------------------------------------
\* What the handler has in its hands was sent, and a summary is made when
\* the client has closed and everything it sent is accepted.
OnTheWire(s) ==
    /\ sent[s] - accepted[s] \in 0 .. Window + 1
    /\ conn[s] \in {"auth", "submit"} => accepted[s] + 1 <= sent[s]
    /\ conn[s] = "answered" =>
          client[s] \in {"closing", "done", "fatal"} /\ accepted[s] = sent[s]
    /\ client[s] = "done" => conn[s] = "answered"

LoadInv ==
    /\ client \in [Stream -> {"ticking", "sending", "closing", "done", "fatal"}]
    /\ sent \in [Stream -> Nat]
    /\ \A s \in Stream : OnTheWire(s)

LEMMA LoadInitial == LoadInit => LoadInv
  BY WindowAssumption
  DEF LoadInit, ServerInit, LoadInv, OnTheWire

\* A step of the generator: Send finds room on the wire.
LEMMA LoadKeeps ==
    ASSUME LoadInv, ServerTypeOK, NEW s \in Stream, Load(s)
    PROVE  LoadInv'
  <1> USE DEF LoadInv, OnTheWire, ServerTypeOK, ClientGoes
  <1>1. UNCHANGED <<conn, accepted>>
    BY LoadLeavesServer DEF allVars, serverVars, handlerVars
  <1>2. CASE Tick(s)
    BY <1>1, <1>2 DEF Tick
  <1>3. CASE Send(s)
    <2>1. /\ client[s] = "sending"
          /\ client' = [client EXCEPT ![s] = "ticking"]
          /\ sent' = [sent EXCEPT ![s] = @ + 1]
      BY <1>3 DEF Send
    <2>2. sent[s] - accepted[s] < Window + 1
      <3>1. sent[s] \in Nat /\ accepted[s] \in Nat /\ Window \in Nat
        BY WindowAssumption
      <3>2. sent[s] - Received(s) < Window
        BY <1>3 DEF Send
      <3>3. Received(s) \in {accepted[s], accepted[s] + 1}
        BY <3>1 DEF Received
      <3>4. QED
        BY <3>1, <3>2, <3>3
    <2>3. /\ client' \in [Stream -> {"ticking", "sending", "closing", "done",
                                     "fatal"}]
          /\ sent' \in [Stream -> Nat]
      BY <2>1
    <2>4. OnTheWire(s)'
      <3>1. /\ sent[s] \in Nat /\ accepted[s] \in Nat /\ Window \in Nat
            /\ sent[s] - accepted[s] \in 0 .. Window + 1
        BY WindowAssumption
      <3>2. sent'[s] = sent[s] + 1 /\ client'[s] = "ticking"
        BY <2>1
      <3>3. conn[s] # "answered"
        BY <2>1
      <3>4. conn[s] \in {"auth", "submit"} => accepted[s] + 1 <= sent[s]
        OBVIOUS
      <3>5. sent'[s] - accepted[s] \in 0 .. Window + 1
        BY <2>2, <3>1, <3>2
      <3> HIDE DEF LoadInv, ServerTypeOK
      <3>6. QED
        BY <1>1, <3>1, <3>2, <3>3, <3>4, <3>5
    <2>5. ASSUME NEW r \in Stream, r # s
          PROVE  OnTheWire(r)'
      <3>1. client'[r] = client[r] /\ sent'[r] = sent[r]
        BY <2>1, <2>5
      <3>2. OnTheWire(r)
        OBVIOUS
      <3>3. QED
        BY <1>1, <3>1, <3>2
    <2>6. QED
      BY <2>3, <2>4, <2>5
  <1>4. CASE CloseSend(s)
    BY <1>1, <1>4 DEF CloseSend
  <1>5. CASE Done(s)
    BY <1>1, <1>5 DEF Done
  <1>6. CASE Fatal(s)
    BY <1>1, <1>6 DEF Fatal
  <1>7. QED
    BY <1>2, <1>3, <1>4, <1>5, <1>6 DEF Load

\* A step of the handler: it receives what was sent, and io.EOF at the end.
LEMMA ServesKeeps ==
    ASSUME LoadInv, ServerTypeOK, NEW s \in Stream, Serves(s),
           UNCHANGED loadVars
    PROVE  LoadInv'
  <1> USE DEF LoadInv, OnTheWire, ServerTypeOK, loadVars, Handler
  <1>1. CASE Open(s)
    BY <1>1 DEF Open
  <1>2. CASE Received(s) < sent[s] /\ Recv(s)
    BY <1>2 DEF Recv, Received
  <1>3. CASE client[s] = "closing" /\ Received(s) = sent[s] /\ RecvEOF(s)
    BY <1>3 DEF RecvEOF, Received
  <1>4. CASE RecvFails(s) \/ AuthOk(s) \/ AuthFails(s)
    BY <1>4 DEF RecvFails, AuthOk, AuthFails
  <1>5. CASE \E e \in Entry : SubmitGoesOn(s, e)
    <2>1. UNCHANGED <<client, sent, conn, accepted>>
      BY <1>5 DEF SubmitGoesOn, serverVars, handlerVars
    <2>2. QED
      BY <2>1
  <1>6. CASE \E e \in Entry : SubmitReturns(s, e)
    <2>1. /\ conn[s] = "submit"
          /\ conn' = [conn EXCEPT ![s] = "recv"]
          /\ accepted' = [accepted EXCEPT ![s] = @ + 1]
      BY <1>6 DEF SubmitReturns
    <2>2. client[s] # "done" /\ accepted[s] + 1 <= sent[s]
      BY <2>1
    <2>3. accepted'[s] = accepted[s] + 1 /\ conn'[s] = "recv"
      BY <2>1
    <2>4. accepted[s] \in Nat /\ sent[s] \in Nat /\ sent'[s] = sent[s]
      OBVIOUS
    <2>5. sent'[s] - accepted'[s] \in 0 .. Window + 1
      BY <2>2, <2>3, <2>4, WindowAssumption
    <2>6. OnTheWire(s)'
      BY <2>2, <2>3, <2>5
    <2>7. ASSUME NEW r \in Stream, r # s
          PROVE  OnTheWire(r)'
      BY <2>1, <2>7
    <2>8. QED
      BY <2>6, <2>7
  <1>7. CASE \E e \in Entry : SubmitErrs(s, e)
    BY <1>7 DEF SubmitErrs, ReturnError
  <1>8. QED
    BY <1>1, <1>2, <1>3, <1>4, <1>5, <1>6, <1>7 DEF Serves, Receives

LEMMA LoadInvStep ==
    ASSUME LoadInv, ServerTypeOK, [LoadNext]_systemVars
    PROVE  LoadInv'
  <1>1. ASSUME NEW s \in Stream, Load(s)
        PROVE  LoadInv'
    BY <1>1, LoadKeeps
  <1>2. ASSUME NEW s \in Stream, Serves(s), UNCHANGED loadVars
        PROVE  LoadInv'
    BY <1>2, ServesKeeps
  <1>3. ASSUME Rest, UNCHANGED loadVars
        PROVE  LoadInv'
    <2>1. UNCHANGED <<conn, accepted>>
      BY <1>3 DEF Rest, Main, MainStart, Signal, StopBegins, StopReturns,
                  AbortDeferred, Exit, Killed, MainGoes, handlerVars,
                  DispatchRuns, WorkRuns, serverVars, Gone, allVars,
                  OtherRPC, OtherOpens, OtherEnds
    <2>2. QED
      BY <1>3, <2>1 DEF loadVars, LoadInv, OnTheWire
  <1>4. CASE UNCHANGED systemVars
    BY <1>4 DEF systemVars, allVars, serverVars, handlerVars, loadVars, LoadInv, OnTheWire
  <1>5. QED
    BY <1>1, <1>2, <1>3, <1>4 DEF LoadNext

LEMMA LoadInvariant == LoadSpec => [](LoadInv /\ HandlerInv /\ Inv)
  <1>1. LoadInv /\ ServerTypeOK /\ [LoadNext]_systemVars => LoadInv'
    BY LoadInvStep
  <1>2. HandlerInv => ServerTypeOK
    BY DEF HandlerInv
  <1>3. QED
    BY LoadInitial, <1>1, <1>2, LoadRunsServer, ServerInvariant, PTL
    DEF LoadSpec

\* The handler is never ahead of its client, nor behind it by more than the
\* wire and the entry in its hands, for any size of the wire.
THEOREM LoadTypes == LoadSpec => []LoadTypeOK
  <1>1. LoadInv /\ HandlerInv => LoadTypeOK
    BY DEF LoadInv, HandlerInv, OnTheWire, LoadTypeOK
  <1>2. QED
    BY <1>1, LoadInvariant, PTL

\* A generator that is done was told the truth: every entry it sent is in
\* the pipeline or the table while the process lives and has not given up
\* the drain, for any number of generators (logload.go:85-91).
THEOREM DoneIsKept == LoadSpec => []DoneMeansKept
  <1>1. ASSUME LoadInv, HandlerInv, Inv
        PROVE  DoneMeansKept
    <2>1. AcceptedIsKept
      BY <1>1, AcceptedInMemory
    <2>2. ASSUME NEW s \in Stream, client[s] = "done"
          PROVE  accepted[s] = sent[s]
      BY <1>1, <2>2 DEF LoadInv, OnTheWire
    <2>3. ASSUME NEW s \in Stream, NEW i \in 1 .. accepted[s]
          PROVE  i \in DOMAIN Offers[s] /\ i <= accepted[s]
      BY <1>1, <2>3, OffersType DEF HandlerInv, ServerTypeOK
    <2>4. QED
      BY <2>1, <2>2, <2>3 DEF AcceptedIsKept, DoneMeansKept
  <1>2. QED
    BY <1>1, LoadInvariant, PTL
=============================================================================
