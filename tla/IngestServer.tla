---------------------------- MODULE IngestServer ----------------------------
(***************************************************************************)
(* The log pipeline inside its server: LogIngestor composed with its only  *)
(* callers, the Ingest streams of log_handler.go, and with main, which     *)
(* starts it, and at a signal runs                                         *)
(*                                                                         *)
(*   GracefulStop --> Stop (ShutdownGrace) --> abortIngest --> exit.       *)
(*                                                                         *)
(* Every step of LogIngestor happens here too, as a step of the goroutine  *)
(* that takes it: Submit in a handler, Start, Stop and the abort in main,  *)
(* the others on their own as long as the process lives.  Of the server's  *)
(* other RPCs, Chat, Leaderboard and the short ones, only what main sees   *)
(* is here: GracefulStop waits for them too.                               *)
(*                                                                         *)
(* Left out: the entries' fields, and the summary's counters written and   *)
(* retries, differences of server-wide numbers that are only displayed.    *)
(***************************************************************************)
EXTENDS LogIngestor

CONSTANTS
    Stream,   \* calls of Ingest
    Offers,   \* Offers[s]: the entries the client of s has to send
    Other     \* other RPCs of the server

ASSUME OffersAssumption == Offers \in [Stream -> Seq(Entry)]

\* Every entry is a log line of its own, sent once.
ASSUME OnceAssumption ==
    \A s, r \in Stream : \A i \in DOMAIN Offers[s], j \in DOMAIN Offers[r] :
        Offers[s][i] = Offers[r][j] => s = r /\ i = j

VARIABLES
    main,      \* where main stands
    conn,      \* conn[s]: where the handler of s stands
    known,     \* known[s]: username is resolved
    left,      \* left[s]: what the client has not got accepted yet; its
               \* head is the entry in the handler's hands
    accepted,  \* accepted[s]: the handler's counter
    others     \* the other RPCs under way

handlerVars == <<conn, known, left, accepted, others>>
serverVars == <<main, handlerVars>>
allVars == <<vars, serverVars>>

Running == main \notin {"starting", "gone"}

ServerInit ==
    /\ Init
    /\ main = "starting"
    /\ conn = [s \in Stream |-> "none"]
    /\ known = [s \in Stream |-> FALSE]
    /\ left = Offers
    /\ accepted = [s \in Stream |-> 0]
    /\ others = {}

-----------------------------------------------------------------------------
(***************************************************************************)
(* The handler Ingest.                                                     *)
(***************************************************************************)

Handler(s, from, to) ==
    /\ Running
    /\ conn[s] = from
    /\ conn' = [conn EXCEPT ![s] = to]
    /\ UNCHANGED <<main, others>>

\* gRPC takes new streams until GracefulStop.
Open(s) ==
    /\ main = "serving"
    /\ Handler(s, "none", "recv")
    /\ UNCHANGED <<vars, known, left, accepted>>

Recv(s) ==
    /\ left[s] # <<>>
    /\ Handler(s, "recv", IF known[s] THEN "submit" ELSE "auth")
    /\ UNCHANGED <<vars, known, left, accepted>>

\* io.EOF: the client may close at any time, and is told accepted[s].
RecvEOF(s) ==
    /\ Handler(s, "recv", "answered")
    /\ UNCHANGED <<vars, known, left, accepted>>

\* The stream breaks.
RecvFails(s) ==
    /\ Handler(s, "recv", "failed")
    /\ UNCHANGED <<vars, known, left, accepted>>

AuthOk(s) ==
    /\ Handler(s, "auth", "submit")
    /\ known' = [known EXCEPT ![s] = TRUE]
    /\ UNCHANGED <<vars, left, accepted>>

\* A token that cannot be resolved ends the stream.
AuthFails(s) ==
    /\ Handler(s, "auth", "failed")
    /\ UNCHANGED <<vars, known, left, accepted>>

\* The handler is inside Submit(Head(left[s])).
InSubmit(s, e) == Running /\ conn[s] = "submit" /\ e = Head(left[s])

SubmitGoesOn(s, e) ==
    /\ InSubmit(s, e)
    /\ SubmitEnter(e) \/ SubmitSend(e)
    /\ UNCHANGED serverVars

SameEntry(s) == left[s]                            \* bug: sent again
NextEntries(s) == Tail(left[s])

\* Submit returns nil: accepted++, and back to Recv.
SubmitReturns(s, e) ==
    /\ InSubmit(s, e)
    /\ SubmitCount(e)
    /\ Handler(s, "submit", "recv")
    /\ accepted' = [accepted EXCEPT ![s] = @ + 1]
    /\ left' = [left EXCEPT ![s] = NextEntries(s)]
    /\ UNCHANGED known

IgnoreError(s) ==                                  \* bug: err not checked
    /\ Handler(s, "submit", "recv")
    /\ accepted' = [accepted EXCEPT ![s] = @ + 1]
    /\ left' = [left EXCEPT ![s] = Tail(@)]
ReturnError(s) ==
    /\ Handler(s, "submit", "failed")
    /\ UNCHANGED <<left, accepted>>

\* Submit returns an error, and so does Ingest.
SubmitErrs(s, e) ==
    /\ InSubmit(s, e)
    /\ SubmitRefused(e) \/ SubmitCancel(e)
    /\ ReturnError(s)
    /\ UNCHANGED known

Ingest(s) ==
    \/ Open(s)
    \/ Recv(s)
    \/ RecvEOF(s)
    \/ RecvFails(s)
    \/ AuthOk(s)
    \/ AuthFails(s)
    \/ \E e \in Entry : SubmitGoesOn(s, e)
    \/ \E e \in Entry : SubmitReturns(s, e)
    \/ \E e \in Entry : SubmitErrs(s, e)

\* Chat and Leaderboard are open until their client leaves or their
\* connection breaks (game_handler.go:86-90, 116-120).
OtherOpens(o) ==
    /\ main = "serving"
    /\ o \notin others
    /\ others' = others \cup {o}
    /\ UNCHANGED <<vars, main, conn, known, left, accepted>>

OtherEnds(o) ==
    /\ Running
    /\ o \in others
    /\ others' = others \ {o}
    /\ UNCHANGED <<vars, main, conn, known, left, accepted>>

OtherRPC(o) == OtherOpens(o) \/ OtherEnds(o)

-----------------------------------------------------------------------------
(***************************************************************************)
(* main.                                                                   *)
(***************************************************************************)

MainGoes(from, to) ==
    /\ main = from
    /\ main' = to
    /\ UNCHANGED handlerVars

MainStart == MainGoes("starting", "serving") /\ Start

\* signalCtx is done; GracefulStop refuses new streams from here on.
Signal == MainGoes("serving", "graceful") /\ UNCHANGED vars

NoWait == TRUE                                     \* bug: does not wait
AllAnswered ==                                     \* bug: waits for errors
    /\ \A s \in Stream : conn[s] \in {"none", "answered"}
    /\ others = {}
StreamsGone ==
    /\ \A s \in Stream : conn[s] \in {"none", "answered", "failed"}
    /\ others = {}

\* GracefulStop returns when every handler has, however long that takes;
\* only then does main call Stop, and ShutdownGrace begins to run.
StopBegins == StreamsGone /\ MainGoes("graceful", "draining") /\ StopCall

StopReturns == MainGoes("draining", "returned") /\ (StopClean \/ StopDeadline)

\* The deferred abortIngest, then the databases are closed, then the end.
AbortDeferred == MainGoes("returned", "returned") /\ HardAbort

Exit == hardDone /\ MainGoes("returned", "gone") /\ UNCHANGED vars

\* The process is killed, or ends in log.Fatalf because Serve failed: no
\* drain, and what was in memory is lost.
Killed == Running /\ main' = "gone" /\ UNCHANGED <<vars, handlerVars>>

Main ==
    \/ MainStart
    \/ Signal
    \/ StopBegins
    \/ StopReturns
    \/ AbortDeferred
    \/ Exit
    \/ Killed

-----------------------------------------------------------------------------
\* The goroutines of the pipeline itself.
DispatchRuns == Running /\ Dispatch /\ UNCHANGED serverVars
WorkRuns(w) == Running /\ Work(w) /\ UNCHANGED serverVars

\* Nothing happens in a process that is gone.
Gone == main = "gone" /\ UNCHANGED allVars

ServerNext ==
    \/ \E s \in Stream : Ingest(s)
    \/ \E o \in Other : OtherRPC(o)
    \/ Main
    \/ DispatchRuns
    \/ \E w \in Worker : WorkRuns(w)
    \/ Gone

ServerSpec == ServerInit /\ [][ServerNext]_allVars

(***************************************************************************)
(* Fairness.  main goes on when what it waits for has happened, the        *)
(* deadline of ShutdownGrace included, and handlers run.  No client has to *)
(* send, to close its stream or to leave.  The pipeline is as fair as in   *)
(* LogIngestor, but for the end of the outage, which OutageEnds says.      *)
(***************************************************************************)
ServerFairness ==
    /\ WF_allVars(StopBegins)
    /\ WF_allVars(StopReturns)
    /\ WF_allVars(AbortDeferred)
    /\ WF_allVars(Exit)
    /\ \A s \in Stream :
         /\ WF_allVars(AuthOk(s) \/ AuthFails(s))
         /\ SF_allVars(\E e \in Entry : SubmitGoesOn(s, e))
         /\ WF_allVars(\E e \in Entry : SubmitReturns(s, e))
    /\ WF_allVars(DispatchRuns)
    /\ \A w \in Worker : WF_allVars(WorkRuns(w))

OutageEnds ==
    \A w \in Worker : SF_allVars(Running /\ InsertLands(w) /\ UNCHANGED serverVars)

FairServerSpec == ServerSpec /\ ServerFairness /\ OutageEnds

-----------------------------------------------------------------------------
\* Types; a stream's entries are accepted one after the other.
ServerTypeOK ==
    /\ main \in {"starting", "serving", "graceful", "draining", "returned",
                 "gone"}
    /\ conn \in [Stream -> {"none", "recv", "auth", "submit", "answered",
                            "failed"}]
    /\ known \in [Stream -> BOOLEAN]
    /\ left \in [Stream -> Seq(Entry)]
    /\ accepted \in [Stream -> Nat]
    /\ others \in SUBSET Other
    /\ \A s \in Stream :
         left[s] = SubSeq(Offers[s], accepted[s] + 1, Len(Offers[s]))

\* main closes the gap that Stop leaves to its callers (a Submit past its
\* first select): it stops the RPCs first, so when Stop has returned nil
\* every entry that was ever taken is in the table (main.go:118-119).
GracefulStopLosesNothing ==
    stop = "clean" => \A e \in Taken : rows[e] >= 1

\* For the same reason a shutdown turns no stream away with
\* ErrIngestorStopped: all of them have ended before.
NobodyRefused == \A e \in Entry : call[e] # "stopped"

\* What a stream was told is accepted is in the pipeline or in the table as
\* long as the process lives and has not given up the drain: exactly the
\* first accepted[s] entries, and none of the others
\* (log_handler.go:81-84).
AcceptedIsKept ==
    \A s \in Stream : \A i \in DOMAIN Offers[s] :
        LET e == Offers[s][i] IN
        /\ i <= accepted[s] /\ main # "gone" /\ ~hardDone =>
               e \in InMemory \/ rows[e] >= 1
        /\ i > accepted[s] + 1 => e \notin InMemory /\ rows[e] = 0
        /\ i = accepted[s] + 1 /\ conn[s] \in {"answered", "failed"} =>
               e \notin InMemory /\ rows[e] = 0

\* The server waits for a client: to send or to close, or to leave.
ClientHolds == others # {} \/ \E s \in Stream : conn[s] = "recv"

\* A signal ends the server, unless a client keeps an RPC open for ever:
\* GracefulStop has no deadline (main.go:119).
SignalEnds ==
    main = "graceful" ~>
        (main = "gone" \/ [](main = "graceful" /\ ClientHolds))

\* A Submit blocked on a full queue gets through once the database is back,
\* as long as the process lives.
BlockedSubmitResumes ==
    \A s \in Stream :
        conn[s] = "submit" ~> (conn[s] # "submit" \/ main = "gone")

-----------------------------------------------------------------------------
\* config.go:19-20: ShutdownGrace bounds how long the server waits for
\* buffered logs before giving up and exiting, also when the database stays
\* away.  Not kept: its clock starts after GracefulStop, which waits for a
\* stream that waits in Submit for the database.
GraceBoundsShutdown == main = "graceful" ~> main = "gone"
=============================================================================
