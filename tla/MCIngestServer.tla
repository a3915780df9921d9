--------------------------- MODULE MCIngestServer ---------------------------
(* Instances of IngestServer for TLC.                                      *)
EXTENDS IngestServer, TLC

CONSTANTS s1, s2

\* Two streams, one of which sends two entries.
TwoStreams == s1 :> <<1, 2>> @@ s2 :> <<3>>

\* One stream with more entries than a pipeline of size one can hold.
LongStream == s1 :> <<1, 2, 3, 4, 5, 6>>

\* Postgres never answers again: InsertLands and the acknowledgement never
\* happen.  Clients go on sending, neither give up nor close before
\* everything is sent, and the process ends only where main does.
StalledSpec ==
    /\ ServerInit
    /\ [][/\ ServerNext
          /\ rows' = rows
          /\ \A s \in Stream : conn'[s] # "failed"
          /\ \A s \in Stream : conn'[s] = "answered" => left'[s] = <<>>
          /\ main' = "gone" => main \in {"returned", "gone"}]_allVars
    /\ ServerFairness
    /\ \A s \in Stream : WF_allVars(Recv(s) \/ RecvEOF(s))
=============================================================================
