---------------------------- MODULE MCScoreBoard ----------------------------
(* Small instances of ScoreBoard for TLC: ann can race with herself and    *)
(* repair the cache, bob's scores must not be mistaken for hers.           *)
EXTENDS ScoreBoard, TLC

CONSTANTS ann, bob, t1, t2, t3

TurnsOf == [t \in Turn |-> IF t = t3 THEN bob ELSE ann]
Deltas == [t \in Turn |-> IF t = t3 THEN -1 ELSE 1]

\* With MaxLate = 0 and MaxCrashes = 0, a failed ZADD is what is left that
\* could go wrong: here every one is executed when its turn sends it.
HealthySpec ==
    Init /\ [][Next /\ \A t \in Turn :
                 (tpc[t] = "scored" /\ tpc'[t] = "mirrored") =>
                     cache'[TurnOf[t]] = total[t]]_vars
=============================================================================
