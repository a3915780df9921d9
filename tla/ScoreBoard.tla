----------------------------- MODULE ScoreBoard -----------------------------
(***************************************************************************)
(* The game's score and everything that shows it.  A turn of Play writes   *)
(* three places one after the other, with nothing held in between:         *)
(*                                                                         *)
(*   AddPoints (Postgres) --> SetPoints (Redis cache) --> Notify           *)
(*                                                                         *)
(* while each Leaderboard stream subscribes to the notifier, sends the     *)
(* board it reads from the cache, and reads again at every signal.  The    *)
(* process may crash between any two steps; the next one rebuilds the      *)
(* cache from Postgres (WarmCache) before it serves anything.              *)
(*                                                                         *)
(* A statement outlives the call that sent it.  One whose call was given   *)
(* up at a deadline, broke with its connection, was sent again by go-redis *)
(* (main.go:55 leaves its retries on) or died with the process is late: it *)
(* may be executed at any moment from then on, or never.                   *)
(*                                                                         *)
(* points, cache, and the streams' boards are whole: a board is the cache  *)
(* at one moment (ZREVRANGE is one command), its order and its length are  *)
(* left out.  One server process runs at a time, as docker-compose.yaml    *)
(* has it, and every player of the model has registered before.            *)
(***************************************************************************)
EXTENDS Integers, FiniteSets

CONSTANTS
    Player,      \* registered users
    Turn,        \* calls of Play
    TurnOf,      \* the user a turn is played by
    Delta,       \* what ScoreWord gives its word: 1, 0 or -1
    Watcher,     \* Leaderboard streams
    Absent,      \* a user the sorted set has no member for
    MaxCrashes,  \* bound: how often the server process dies
    MaxLate      \* bound: how many statements are late at a time

ASSUME TurnAssumption ==
    /\ TurnOf \in [Turn -> Player]
    /\ Delta \in [Turn -> {-1, 0, 1}]
    /\ MaxCrashes \in Nat
    /\ MaxLate \in Nat

ASSUME AbsentAssumption == Absent \notin Int

VARIABLES
    points,    \* users.points in Postgres
    cache,     \* the sorted set in Redis
    server,    \* "down", "warming" with the users read, "up" with them cached
    list,      \* list[n]: what the start after n crashes read of Postgres
    tpc,       \* tpc[t]: how far Play has come
    total,     \* total[t]: what AddPoints returned to turn t
    wpc,       \* wpc[w]: where the stream stands
    board,     \* board[w]: the board w read last
    pending,   \* the streams whose channel, of capacity 1, holds a signal
    crashes,
    lateScores,    \* turns whose UPDATE is late
    lateSets,      \* turns whose ZADD is late
    lateLists,     \* starts whose ZADD of all users is late
    \* History, read by no guard of the code:
    alone,     \* alone[t]: no other score of the player since AddPoints
    strayed,   \* strayed[p]: a write of the cache failed or was overtaken, or
               \* a late statement was executed, and no undisturbed turn
               \* has followed
    silent     \* silent[w]: players a late ZADD has written, with no signal,
               \* since w read the board

vars == <<points, cache, server, list, tpc, total, wpc, board, pending, crashes,
          lateScores, lateSets, lateLists, alone, strayed, silent>>

lateVars == <<lateScores, lateSets, lateLists>>
startVars == <<server, list, crashes>>
turnVars == <<points, cache, tpc, total, alone, strayed>>
watchVars == <<wpc, board, pending>>

\* The streams registered in the notifier's map subs.
Subscribed == {w \in Watcher : wpc[w] \in {"reading", "sending", "waiting"}}

\* The turns of p whose score is in Postgres and not yet in Redis.
Unmirrored(p) == {t \in Turn : TurnOf[t] = p /\ tpc[t] = "scored"}

\* One more statement may become late.
LateRoom ==
    Cardinality(lateScores) + Cardinality(lateSets) + Cardinality(lateLists)
        < MaxLate

\* What a stream that has read nothing shows.
NoBoard == [p \in Player |-> Absent]

Init ==
    /\ points = [p \in Player |-> 0]
    /\ cache = [p \in Player |-> Absent]
    /\ server = "down"
    /\ list = [n \in 0 .. MaxCrashes |-> [p \in Player |-> 0]]
    /\ tpc = [t \in Turn |-> "new"]
    /\ total = [t \in Turn |-> 0]
    /\ wpc = [w \in Watcher |-> "new"]
    /\ board = [w \in Watcher |-> NoBoard]
    /\ pending = {}
    /\ crashes = 0
    /\ lateScores = {}
    /\ lateSets = {}
    /\ lateLists = {}
    /\ alone = [t \in Turn |-> FALSE]
    /\ strayed = [p \in Player |-> TRUE]
    /\ silent = [w \in Watcher |-> {}]

-----------------------------------------------------------------------------
(***************************************************************************)
(* The server's life.                                                      *)
(***************************************************************************)

WarmMissing ==                                     \* bug: ZADD NX
    [p \in Player |->
        IF cache[p] = Absent THEN list[crashes][p] ELSE cache[p]]
Warmed == list[crashes]

\* main: WarmCache reads every user's points ...
ListUsers ==
    /\ server = "down"
    /\ server' = "warming"
    /\ list' = [list EXCEPT ![crashes] = points]
    /\ strayed' = [p \in Player |-> FALSE]
    /\ UNCHANGED <<points, cache, tpc, total, watchVars, crashes, lateVars,
                   alone, silent>>

\* ... and writes them all with one ZADD, then main serves.
SetMany ==
    /\ server = "warming"
    /\ server' = "up"
    /\ cache' = Warmed
    /\ \/ UNCHANGED lateLists
       \/ LateRoom /\ lateLists' = lateLists \cup {crashes}
    /\ UNCHANGED <<points, list, tpc, total, watchVars, crashes, lateScores,
                   lateSets, alone, strayed, silent>>

\* The ZADD fails, and the process ends (log.Fatalf); or it dies there.  A
\* list that cannot be read leaves everything as it was.
StartFails ==
    /\ server = "warming"
    /\ crashes < MaxCrashes
    /\ crashes' = crashes + 1
    /\ server' = "down"
    /\ \/ UNCHANGED lateLists
       \/ LateRoom /\ lateLists' = lateLists \cup {crashes}
    /\ UNCHANGED <<turnVars, list, watchVars, lateScores, lateSets, silent>>

\* The process dies: turns and streams end where they stand, a ZADD under
\* way may be late.  Redis may be emptied before the next start
\* (leaderboard.go:48, "emptied cache").
Crash ==
    /\ server = "up"
    /\ crashes < MaxCrashes
    /\ crashes' = crashes + 1
    /\ server' = "down"
    /\ tpc' = [t \in Turn |->
                 IF tpc[t] \in {"scored", "mirrored"} THEN "failed" ELSE tpc[t]]
    /\ \/ UNCHANGED lateSets
       \/ /\ LateRoom
          /\ \E t \in Turn :
                tpc[t] = "scored" /\ lateSets' = lateSets \cup {t}
    /\ wpc' = [w \in Watcher |-> IF w \in Subscribed THEN "gone" ELSE wpc[w]]
    /\ board' = [w \in Watcher |-> NoBoard]
    /\ pending' = {}
    /\ \/ UNCHANGED cache
       \/ cache' = NoBoard
    /\ strayed' = [p \in Player |-> TRUE]
    /\ silent' = [w \in Watcher |-> {}]
    /\ UNCHANGED <<points, total, list, lateScores, lateLists, alone>>

-----------------------------------------------------------------------------
(***************************************************************************)
(* Play.                                                                   *)
(***************************************************************************)

TurnMoves(t, from, to) ==
    /\ server = "up"
    /\ tpc[t] = from
    /\ tpc' = [tpc EXCEPT ![t] = to]
    /\ UNCHANGED <<startVars, wpc, board, lateLists>>

\* The ZADD of t, or a copy of it that go-redis sent, may come late.
SetMayComeLate(t) ==
    \/ UNCHANGED lateSets
    \/ LateRoom /\ lateSets' = lateSets \cup {t}

\* UPDATE ... SET points = points + delta: the player's other turns that
\* are still on their way to Redis are no longer alone.
Score(t) ==
    /\ points' = [points EXCEPT ![TurnOf[t]] = @ + Delta[t]]
    /\ alone' = [u \in Turn |->
                   IF u = t THEN Unmirrored(TurnOf[t]) = {}
                   ELSE alone[u] /\ TurnOf[u] # TurnOf[t]]

\* ... RETURNING points.
AddPoints(t) ==
    /\ TurnMoves(t, "new", "scored")
    /\ Score(t)
    /\ total' = [total EXCEPT ![t] = points'[TurnOf[t]]]
    /\ UNCHANGED <<cache, strayed, silent, pending, lateScores, lateSets>>

\* The UPDATE was sent and the call fails (the client's deadline ends it, or
\* the connection breaks): Play returns the error at once.
AddPointsFails(t) ==
    /\ TurnMoves(t, "new", "failed")
    /\ LateRoom
    /\ lateScores' = lateScores \cup {t}
    /\ UNCHANGED <<points, cache, total, alone, strayed, silent, pending, lateSets>>

\* Not authenticated, or Postgres will never execute the update.
PlayFails(t) ==
    /\ TurnMoves(t, "new", "failed")
    /\ UNCHANGED <<points, cache, total, alone, strayed, silent, pending,
                   lateScores, lateSets>>

\* ZADD of the total this turn was given, whatever has been written since.
\* A call that failed once the ZADD was executed does the same: the error is
\* logged, and the turn goes on.
SetPoints(t) ==
    /\ TurnMoves(t, "scored", "mirrored")
    /\ cache' = [cache EXCEPT ![TurnOf[t]] = total[t]]
    /\ strayed' = [strayed EXCEPT ![TurnOf[t]] = ~alone[t]]
    /\ silent' = [w \in Watcher |-> silent[w] \ {TurnOf[t]}]
    /\ SetMayComeLate(t)
    /\ UNCHANGED <<points, total, alone, pending, lateScores>>

\* The ZADD has not been executed when the call fails: logged as well.
SetPointsFails(t) ==
    /\ TurnMoves(t, "scored", "mirrored")
    /\ strayed' = [strayed EXCEPT ![TurnOf[t]] = TRUE]
    /\ SetMayComeLate(t)
    /\ UNCHANGED <<points, cache, total, alone, silent, pending, lateScores>>

Unbuffered == {w \in Watcher : wpc[w] = "waiting"} \* bug: make(chan, 0)
StopAtBusy ==                                      \* bug: return in default
    IF pending = {} THEN Subscribed ELSE {}
Signalled == Subscribed

\* A non-blocking send to every subscriber, under the notifier's lock.
Notify(t) ==
    /\ TurnMoves(t, "mirrored", "done")
    /\ pending' = pending \cup Signalled
    /\ UNCHANGED <<points, cache, total, alone, strayed, silent, lateScores,
                   lateSets>>

-----------------------------------------------------------------------------
(***************************************************************************)
(* Late statements, whatever has become of the process that sent them.     *)
(***************************************************************************)

LateScore(t) ==
    /\ t \in lateScores
    /\ lateScores' = lateScores \ {t}
    /\ Score(t)
    /\ strayed' = [strayed EXCEPT ![TurnOf[t]] = TRUE]
    /\ UNCHANGED <<startVars, cache, tpc, total, watchVars, lateSets,
                   lateLists, silent>>

\* A late ZADD of the players in ps: nobody signals it, and SetMany will
\* overwrite what comes before it.
WriteLate(ps, written) ==
    /\ cache' = [p \in Player |-> IF p \in ps THEN written[p] ELSE cache[p]]
    /\ strayed' = [p \in Player |-> strayed[p] \/ (p \in ps /\ server = "up")]
    /\ silent' = [w \in Watcher |->
                    IF wpc[w] \in {"sending", "waiting"} THEN silent[w] \cup ps
                    ELSE silent[w]]
    /\ UNCHANGED <<startVars, points, tpc, total, watchVars, lateScores, alone>>

LateSet(t) ==
    /\ t \in lateSets
    /\ lateSets' = lateSets \ {t}
    /\ WriteLate({TurnOf[t]}, [p \in Player |-> total[t]])
    /\ UNCHANGED lateLists

LateList(n) ==
    /\ n \in lateLists
    /\ lateLists' = lateLists \ {n}
    /\ WriteLate(Player, list[n])
    /\ UNCHANGED lateSets

-----------------------------------------------------------------------------
(***************************************************************************)
(* Leaderboard streams.                                                    *)
(***************************************************************************)

WatchMoves(w, from, to) ==
    /\ server = "up"
    /\ wpc[w] \in from
    /\ wpc' = [wpc EXCEPT ![w] = to]
    /\ UNCHANGED <<turnVars, startVars, lateVars>>

\* Subscribe comes before the first read.
WatchSubscribe(w) ==
    /\ WatchMoves(w, {"new"}, "reading")
    /\ UNCHANGED <<board, pending, silent>>

ReadBoard(w) ==
    /\ WatchMoves(w, {"reading"}, "sending")
    /\ board' = [board EXCEPT ![w] = cache]
    /\ silent' = [silent EXCEPT ![w] = {}]
    /\ UNCHANGED pending

SendBoard(w) ==
    /\ WatchMoves(w, {"sending"}, "waiting")
    /\ UNCHANGED <<board, pending, silent>>

WatchWake(w) ==
    /\ w \in pending
    /\ pending' = pending \ {w}
    /\ WatchMoves(w, {"waiting"}, "reading")
    /\ UNCHANGED <<board, silent>>

KeepSignals(w) == pending                          \* bug: never removed
DropSignals(w) == pending \ {w}

\* The client left, Redis could not be read or Send failed: unsubscribe.
WatchEnd(w) ==
    /\ WatchMoves(w, {"reading", "sending", "waiting"}, "gone")
    /\ pending' = DropSignals(w)
    /\ board' = [board EXCEPT ![w] = NoBoard]
    /\ silent' = [silent EXCEPT ![w] = {}]

\* Every turn is over and no stream has anything to do: all may rest.
Quiet ==
    /\ server = "up"
    /\ \A t \in Turn : tpc[t] \in {"done", "failed"}
    /\ \A w \in Subscribed : wpc[w] = "waiting" /\ w \notin pending
    /\ UNCHANGED vars

Play(t) ==
    \/ AddPoints(t)
    \/ AddPointsFails(t)
    \/ PlayFails(t)
    \/ SetPoints(t)
    \/ SetPointsFails(t)
    \/ Notify(t)

Leaderboard(w) ==
    \/ WatchSubscribe(w)
    \/ ReadBoard(w)
    \/ SendBoard(w)
    \/ WatchWake(w)
    \/ WatchEnd(w)

Next ==
    \/ ListUsers
    \/ SetMany
    \/ StartFails
    \/ Crash
    \/ \E t \in Turn : Play(t) \/ LateScore(t) \/ LateSet(t)
    \/ \E n \in lateLists : LateList(n)
    \/ \E w \in Watcher : Leaderboard(w)
    \/ Quiet

Spec == Init /\ [][Next]_vars

(***************************************************************************)
(* Fairness: a turn that has scored runs to its end, a stream goes on as   *)
(* long as its client reads (or ends).  Nobody has to play, watch or       *)
(* crash, and a late statement need never be executed.                     *)
(***************************************************************************)
Fairness ==
    /\ \A t \in Turn :
         /\ WF_vars(SetPoints(t) \/ SetPointsFails(t))
         /\ WF_vars(Notify(t))
    /\ \A w \in Watcher :
         /\ WF_vars(ReadBoard(w))
         /\ WF_vars(SendBoard(w))
         /\ WF_vars(WatchWake(w))

FairSpec == Spec /\ Fairness

-----------------------------------------------------------------------------
\* Types; a signal waits only in the channel of a live subscription.
TypeOK ==
    /\ points \in [Player -> Int]
    /\ cache \in [Player -> Int \cup {Absent}]
    /\ server \in {"down", "warming", "up"}
    /\ list \in [0 .. MaxCrashes -> [Player -> Int]]
    /\ tpc \in [Turn -> {"new", "scored", "mirrored", "done", "failed"}]
    /\ total \in [Turn -> Int]
    /\ wpc \in [Watcher -> {"new", "reading", "sending", "waiting", "gone"}]
    /\ board \in [Watcher -> [Player -> Int \cup {Absent}]]
    /\ pending \in SUBSET Subscribed
    /\ crashes \in 0 .. MaxCrashes
    /\ lateScores \in SUBSET Turn
    /\ lateSets \in SUBSET Turn
    /\ lateLists \in SUBSET (0 .. MaxCrashes)
    /\ alone \in [Turn -> BOOLEAN]
    /\ strayed \in [Player -> BOOLEAN]
    /\ silent \in [Watcher -> SUBSET Player]

\* What game.go:48-50 promises of the cache, as far as it holds: it agrees
\* with Postgres for a user unless a write failed, two turns overlapped or a
\* late statement was executed, and the next turn that nothing disturbs, or
\* the warm-up after a restart, repairs it (until another late statement of
\* that user is executed).
CacheAgrees ==
    server = "up" =>
        \A p \in Player :
            (~strayed[p] /\ Unmirrored(p) = {}) => cache[p] = points[p]

\* A stream that waits with nothing in its channel has every player's newest
\* score, but for those a late ZADD has written since it read; or the turn
\* that changed the score is still about to signal it.  The read that
\* overlaps a turn's change is always followed by another one
\* (leaderboard_notifier.go:22-24).
NoLostWakeup ==
    \A w \in Watcher, p \in Player :
        (wpc[w] = "waiting" /\ w \notin pending /\ p \notin silent[w]
            /\ board[w][p] # cache[p]) =>
            \E t \in Turn : TurnOf[t] = p /\ tpc[t] = "mirrored"

\* Once the players pause, every open stream shows the current score of every
\* player, but for those a late ZADD has written since it read.
BoardsCatchUp ==
    \A w \in Watcher :
        w \in Subscribed ~>
            (w \notin Subscribed
                \/ \A p \in Player \ silent[w] : board[w][p] = cache[p])

-----------------------------------------------------------------------------
\* game_test.go:41, "The leaderboard cache must agree with the durable
\* total", when every turn has returned, even where no call ever failed: two
\* turns of one user may reach Redis in the opposite order.
CacheAgreesWhenQuiet ==
    (server = "up" /\ \A t \in Turn : tpc[t] = "done") =>
        \A p \in Player : cache[p] = points[p]
=============================================================================
