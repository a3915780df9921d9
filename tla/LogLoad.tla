------------------------------- MODULE LogLoad -------------------------------
(***************************************************************************)
(* The load generator at the other end of an Ingest stream: it sends one   *)
(* entry after the other until its time is up, then CloseAndRecv, which    *)
(* waits for the summary.  Any error is its end (log.Fatalf).  The handler *)
(* receives what was sent, in order, and io.EOF after the last entry.      *)
(*                                                                         *)
(* gRPC's flow control is a window: Send blocks when as many entries are   *)
(* on the wire.  Left out: the ticks, and the fields of an entry.          *)
(***************************************************************************)
EXTENDS IngestServer

CONSTANT Window    \* entries that may be on the wire

ASSUME WindowAssumption == Window \in Nat \ {0}

VARIABLES
    client,   \* client[s]: where Run stands
    sent      \* sent[s]: its counter

loadVars == <<client, sent>>
systemVars == <<allVars, loadVars>>

LoadInit ==
    /\ ServerInit
    /\ client = [s \in Stream |-> "ticking"]
    /\ sent = [s \in Stream |-> 0]

\* What the handler has received: the accepted entries, and the one in its
\* hands.
Received(s) ==
    accepted[s] + (IF conn[s] \in {"auth", "submit"} THEN 1 ELSE 0)

\* The stream or its summary is lost, nobody takes it, or the server is gone.
Cut(s) ==
    \/ conn[s] \in {"failed", "answered"}
    \/ conn[s] = "none" /\ main # "serving"
    \/ main = "gone"

ClientGoes(s, from, to) ==
    /\ client[s] = from
    /\ client' = [client EXCEPT ![s] = to]
    /\ UNCHANGED allVars

Tick(s) ==
    /\ sent[s] < Len(Offers[s])
    /\ ClientGoes(s, "ticking", "sending")
    /\ UNCHANGED sent

\* Send blocks while the wire is full.
Send(s) ==
    /\ ClientGoes(s, "sending", "ticking")
    /\ sent[s] - Received(s) < Window
    /\ sent' = [sent EXCEPT ![s] = @ + 1]

\* Its time is up; it looks at the clock between two sends only.
CloseSend(s) == ClientGoes(s, "ticking", "closing") /\ UNCHANGED sent

\* The summary is there.
Done(s) ==
    /\ conn[s] = "answered"
    /\ ClientGoes(s, "closing", "done")
    /\ UNCHANGED sent

\* An error of Send or of CloseAndRecv.
Fatal(s) ==
    /\ Cut(s)
    /\ \E at \in {"sending", "closing"} : ClientGoes(s, at, "fatal")
    /\ UNCHANGED sent

Load(s) == Tick(s) \/ Send(s) \/ CloseSend(s) \/ Done(s) \/ Fatal(s)

\* The handler of s, as far as its client lets it.
Receives(s) ==
    \/ Received(s) < sent[s] /\ Recv(s)
    \/ client[s] = "closing" /\ Received(s) = sent[s] /\ RecvEOF(s)
    \/ RecvFails(s)

Serves(s) ==
    \/ Open(s)
    \/ Receives(s)
    \/ AuthOk(s)
    \/ AuthFails(s)
    \/ \E e \in Entry : SubmitGoesOn(s, e)
    \/ \E e \in Entry : SubmitReturns(s, e)
    \/ \E e \in Entry : SubmitErrs(s, e)

Rest ==
    \/ \E o \in Other : OtherRPC(o)
    \/ Main
    \/ DispatchRuns
    \/ \E w \in Worker : WorkRuns(w)
    \/ Gone

LoadNext ==
    \/ \E s \in Stream : Load(s)
    \/ (\E s \in Stream : Serves(s)) /\ UNCHANGED loadVars
    \/ Rest /\ UNCHANGED loadVars

LoadSpec == LoadInit /\ [][LoadNext]_systemVars

(***************************************************************************)
(* Fairness: that of IngestServer, and here the client goes on of its own: *)
(* it sends or, when its time is up, closes, and learns of every end; what *)
(* it sent arrives, or the stream breaks.  Nobody has to leave a Chat.     *)
(***************************************************************************)
LoadFairness ==
    /\ WF_systemVars(StopBegins /\ UNCHANGED loadVars)
    /\ WF_systemVars(StopReturns /\ UNCHANGED loadVars)
    /\ WF_systemVars(AbortDeferred /\ UNCHANGED loadVars)
    /\ WF_systemVars(Exit /\ UNCHANGED loadVars)
    /\ \A s \in Stream :
         /\ WF_systemVars(CloseSend(s))
         /\ WF_systemVars(Send(s) \/ Done(s) \/ Fatal(s))
         /\ WF_systemVars(Open(s) /\ UNCHANGED loadVars)
         /\ WF_systemVars(Receives(s) /\ UNCHANGED loadVars)
         /\ WF_systemVars((AuthOk(s) \/ AuthFails(s)) /\ UNCHANGED loadVars)
         /\ SF_systemVars((\E e \in Entry : SubmitGoesOn(s, e)) /\ UNCHANGED loadVars)
         /\ WF_systemVars((\E e \in Entry : SubmitReturns(s, e)) /\ UNCHANGED loadVars)
    /\ WF_systemVars(DispatchRuns /\ UNCHANGED loadVars)
    /\ \A w \in Worker :
         /\ WF_systemVars(WorkRuns(w) /\ UNCHANGED loadVars)
         /\ SF_systemVars(Running /\ InsertLands(w) /\ UNCHANGED <<serverVars, loadVars>>)

FairLoadSpec == LoadSpec /\ LoadFairness

-----------------------------------------------------------------------------
\* Types; the handler is never ahead of its client, nor behind it by more
\* than the wire and the entry in its hands.
LoadTypeOK ==
    /\ ServerTypeOK
    /\ client \in [Stream -> {"ticking", "sending", "closing", "done", "fatal"}]
    /\ sent \in [Stream -> Nat]
    /\ \A s \in Stream : sent[s] - accepted[s] \in 0 .. Window + 1

\* A load generator that is done was told the truth: everything it sent was
\* accepted, and is in the pipeline or the table as long as the process
\* lives and has not given up the drain (logload.go:3-4, 85-91:
\* "without dropping anything").
DoneMeansKept ==
    \A s \in Stream : client[s] = "done" =>
        /\ accepted[s] = sent[s]
        /\ main # "gone" /\ ~hardDone =>
              \A i \in 1 .. sent[s] :
                  Offers[s][i] \in InMemory \/ rows[Offers[s][i]] >= 1

\* A load generator ends, however long an outage blocked its Send, and
\* whatever happens to the server: shut down while it waits, held up by
\* other clients, or killed (logload.go:72-77).
LoadEnds ==
    \A s \in Stream : client[s] = "sending" ~> client[s] \in {"done", "fatal"}
=============================================================================
