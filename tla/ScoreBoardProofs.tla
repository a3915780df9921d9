-------------------------- MODULE ScoreBoardProofs --------------------------
(***************************************************************************)
(* What TLAPS proves of ScoreBoard for any number of players, turns,       *)
(* streams and crashes: its types, that the cache strays from Postgres     *)
(* only as game.go admits, and that no change of the board goes unnoticed. *)
(***************************************************************************)
EXTENDS ScoreBoard, TLAPS

\* The steps of one turn or one stream, as Next sees them.
LEMMA StepCases ==
    ASSUME [Next]_vars
    PROVE  \/ ListUsers \/ SetMany \/ StartFails \/ Crash \/ UNCHANGED vars
           \/ \E t \in Turn : Play(t) \/ LateScore(t) \/ LateSet(t)
           \/ \E n \in lateLists : LateList(n)
           \/ \E w \in Watcher : Leaderboard(w)
BY DEF Next, Quiet

\* A server that does not serve has no open stream and no turn under way.
DownIsIdle ==
    server # "up" =>
        /\ Subscribed = {}
        /\ \A t \in Turn : tpc[t] \notin {"scored", "mirrored"}

\* A turn that is still alone on its way to Redis carries the newest total,
\* and no other turn of its player is on that way.
AloneIsNewest ==
    \A t \in Turn :
        (tpc[t] = "scored" /\ alone[t]) =>
            /\ total[t] = points[TurnOf[t]]
            /\ Unmirrored(TurnOf[t]) = {t}

\* While a start warms the cache, its list is Postgres's for every user whom
\* no late score has changed since.
ListIsNewest ==
    server = "warming" =>
        \A p \in Player : ~strayed[p] => list[crashes][p] = points[p]

\* NoLostWakeup for a stream that is still sending what it read.
NoLostChange ==
    \A w \in Watcher, p \in Player :
        (wpc[w] \in {"sending", "waiting"} /\ w \notin pending
            /\ p \notin silent[w] /\ board[w][p] # cache[p]) =>
            \E t \in Turn : TurnOf[t] = p /\ tpc[t] = "mirrored"

-----------------------------------------------------------------------------
\* The initial values have their types.
LEMMA InitTypeOK == Init => TypeOK
BY TurnAssumption DEF Init, TypeOK, Subscribed, NoBoard

\* Whose turn it is, and what its word gives.
LEMMA TurnTypes ==
    ASSUME NEW t \in Turn
    PROVE  TurnOf[t] \in Player /\ Delta[t] \in Int
BY TurnAssumption

\* A score, in time or late, keeps the types of what it writes.
LEMMA ScoreTypes ==
    ASSUME TypeOK, NEW t \in Turn, Score(t)
    PROVE  points' \in [Player -> Int] /\ alone' \in [Turn -> BOOLEAN]
<1>1. TurnOf[t] \in Player /\ Delta[t] \in Int
  BY TurnTypes
<1>2. points' \in [Player -> Int]
  BY <1>1 DEF Score, TypeOK
<1>3. \A u \in Turn :
        (IF u = t THEN Unmirrored(TurnOf[t]) = {}
                  ELSE alone[u] /\ TurnOf[u] # TurnOf[t]) \in BOOLEAN
  BY DEF TypeOK
<1>4. alone' \in [Turn -> BOOLEAN]
  BY <1>3, Zenon DEF Score
<1> QED
  BY <1>2, <1>4

\* So does a late ZADD.
LEMMA WriteLateTypes ==
    ASSUME TypeOK, NEW ps \in SUBSET Player, NEW written \in [Player -> Int],
           WriteLate(ps, written)
    PROVE  /\ cache' \in [Player -> Int \cup {Absent}]
           /\ strayed' \in [Player -> BOOLEAN]
           /\ silent' \in [Watcher -> SUBSET Player]
<1>1. cache' \in [Player -> Int \cup {Absent}]
  BY DEF WriteLate, TypeOK
<1>2. \A p \in Player : (strayed[p] \/ (p \in ps /\ server = "up")) \in BOOLEAN
  BY DEF TypeOK
<1>3. strayed' \in [Player -> BOOLEAN]
  BY <1>2, Zenon DEF WriteLate
<1>4. silent' \in [Watcher -> SUBSET Player]
  BY DEF WriteLate, TypeOK
<1> QED
  BY <1>1, <1>3, <1>4

\* Every step keeps the types; a stream that ends takes its signal with it.
LEMMA NextTypeOK == TypeOK /\ [Next]_vars => TypeOK'
<1> SUFFICES ASSUME TypeOK, [Next]_vars PROVE TypeOK'
  OBVIOUS
<1> USE DEF TypeOK, Subscribed
<1>1. CASE ListUsers \/ SetMany \/ StartFails
  <2>1. CASE ListUsers
    BY <2>1 DEF ListUsers, watchVars, lateVars
  <2>2. CASE SetMany
    <3>1. cache' \in [Player -> Int \cup {Absent}]
      <4>1. list[crashes] \in [Player -> Int]
        OBVIOUS
      <4>2. cache' = list[crashes]
        <5> HIDE DEF TypeOK
        <5>1. QED
          BY <2>2 DEF SetMany, Warmed
      <4>3. QED
        BY <4>1, <4>2
    <3>2. lateLists' \in SUBSET (0 .. MaxCrashes)
      BY <2>2 DEF SetMany
    <3>3. /\ server' = "up"
          /\ UNCHANGED <<points, list, tpc, total, wpc, board, pending, crashes,
                         lateScores, lateSets, alone, strayed, silent>>
      BY <2>2 DEF SetMany, watchVars
    <3> QED
      BY <3>1, <3>2, <3>3
  <2>3. CASE StartFails
    <3>1. crashes' \in 0 .. MaxCrashes
      BY <2>3, TurnAssumption DEF StartFails
    <3> QED
      BY <2>3, <3>1 DEF StartFails, turnVars, watchVars
  <2> QED
    BY <1>1, <2>1, <2>2, <2>3
<1>2. CASE Crash
  <2>1. cache' \in [Player -> Int \cup {Absent}]
    BY <1>2 DEF Crash, NoBoard
  <2>2. tpc' \in [Turn -> {"new", "scored", "mirrored", "done", "failed"}]
    BY <1>2 DEF Crash
  <2>3. wpc' \in [Watcher -> {"new", "reading", "sending", "waiting", "gone"}]
    BY <1>2 DEF Crash
  <2>4. crashes' \in 0 .. MaxCrashes
    BY <1>2, TurnAssumption DEF Crash
  <2>5. /\ lateSets' \in SUBSET Turn
        /\ silent' \in [Watcher -> SUBSET Player]
        /\ board' \in [Watcher -> [Player -> Int \cup {Absent}]]
        /\ strayed' \in [Player -> BOOLEAN]
    BY <1>2 DEF Crash, NoBoard
  <2> QED
    BY <1>2, <2>1, <2>2, <2>3, <2>4, <2>5 DEF Crash
<1>3. CASE UNCHANGED vars
  BY <1>3 DEF vars
<1>4. ASSUME NEW t \in Turn, Play(t) PROVE TypeOK'
  <2>1. TurnOf[t] \in Player /\ Delta[t] \in Int
    BY TurnTypes
  <2>2. ASSUME NEW from, NEW to \in {"new", "scored", "mirrored", "done", "failed"},
               TurnMoves(t, from, to)
        PROVE  /\ tpc' \in [Turn -> {"new", "scored", "mirrored", "done", "failed"}]
               /\ UNCHANGED <<server, list, crashes, wpc, board, lateLists>>
    BY <2>2 DEF TurnMoves, startVars
  <2>4. CASE AddPoints(t)
    BY <2>1, <2>2, <2>4, ScoreTypes DEF AddPoints
  <2>5. CASE AddPointsFails(t)
    BY <2>1, <2>2, <2>5 DEF AddPointsFails
  <2>6. CASE PlayFails(t)
    BY <2>2, <2>6 DEF PlayFails
  <2>7. CASE SetPoints(t)
    <3>1. cache' \in [Player -> Int \cup {Absent}] /\ lateSets' \in SUBSET Turn
      BY <2>1, <2>7 DEF SetPoints, SetMayComeLate
    <3>2. strayed' \in [Player -> BOOLEAN]
      BY <2>1, <2>7 DEF SetPoints
    <3>3. silent' \in [Watcher -> SUBSET Player]
      BY <2>7 DEF SetPoints
    <3> QED
      BY <2>2, <2>7, <3>1, <3>2, <3>3 DEF SetPoints
  <2>8. CASE SetPointsFails(t)
    BY <2>1, <2>2, <2>8 DEF SetPointsFails, SetMayComeLate
  <2>9. CASE Notify(t)
    BY <2>2, <2>9 DEF Notify, Signalled
  <2> QED
    BY <1>4, <2>4, <2>5, <2>6, <2>7, <2>8, <2>9 DEF Play
<1>5. ASSUME NEW w \in Watcher, Leaderboard(w) PROVE TypeOK'
  <2>1. UNCHANGED <<turnVars, startVars, lateVars>>
    BY <1>5 DEF Leaderboard, WatchSubscribe, ReadBoard, SendBoard, WatchWake,
                WatchEnd, WatchMoves
  <2>2. /\ wpc' \in [Watcher -> {"new", "reading", "sending", "waiting", "gone"}]
        /\ board' \in [Watcher -> [Player -> Int \cup {Absent}]]
        /\ pending' \in SUBSET Subscribed'
        /\ silent' \in [Watcher -> SUBSET Player]
    <3>1. CASE WatchSubscribe(w)
      BY <3>1 DEF WatchSubscribe, WatchMoves
    <3>2. CASE ReadBoard(w)
      BY <3>2 DEF ReadBoard, WatchMoves
    <3>3. CASE SendBoard(w)
      BY <3>3 DEF SendBoard, WatchMoves
    <3>4. CASE WatchWake(w)
      BY <3>4 DEF WatchWake, WatchMoves
    <3>5. CASE WatchEnd(w)
      BY <3>5 DEF WatchEnd, WatchMoves, DropSignals, NoBoard
    <3> QED
      BY <1>5, <3>1, <3>2, <3>3, <3>4, <3>5 DEF Leaderboard
  <2> QED
    BY <2>1, <2>2 DEF turnVars, startVars, lateVars
<1>6. ASSUME NEW t \in Turn, LateScore(t) PROVE TypeOK'
  <2>1. TurnOf[t] \in Player
    BY TurnAssumption
  <2> QED
    BY <1>6, <2>1, ScoreTypes DEF LateScore, startVars, watchVars
<1>7. ASSUME NEW t \in Turn, LateSet(t) PROVE TypeOK'
  <2>1. WriteLate({TurnOf[t]}, [p \in Player |-> total[t]])
    BY <1>7 DEF LateSet
  <2>2. {TurnOf[t]} \in SUBSET Player /\ [p \in Player |-> total[t]] \in [Player -> Int]
    BY TurnAssumption
  <2>3. /\ cache' \in [Player -> Int \cup {Absent}]
        /\ strayed' \in [Player -> BOOLEAN]
        /\ silent' \in [Watcher -> SUBSET Player]
    BY <2>1, <2>2, WriteLateTypes
  <2> QED
    BY <1>7, <2>1, <2>3 DEF LateSet, WriteLate, startVars, watchVars
<1>8. ASSUME NEW n \in lateLists, LateList(n) PROVE TypeOK'
  <2>1. WriteLate(Player, list[n])
    BY <1>8 DEF LateList
  <2>2. Player \in SUBSET Player /\ list[n] \in [Player -> Int]
    OBVIOUS
  <2>3. /\ cache' \in [Player -> Int \cup {Absent}]
        /\ strayed' \in [Player -> BOOLEAN]
        /\ silent' \in [Watcher -> SUBSET Player]
    BY <2>1, <2>2, WriteLateTypes
  <2> QED
    BY <1>8, <2>1, <2>3 DEF LateList, WriteLate, startVars, watchVars
<1> QED
  BY <1>1, <1>2, <1>3, <1>4, <1>5, <1>6, <1>7, <1>8, StepCases

\* Types hold in every reachable state, and a signal waits only in the
\* channel of a live subscription.
THEOREM TypeCorrect == Spec => []TypeOK
BY InitTypeOK, NextTypeOK, PTL DEF Spec

-----------------------------------------------------------------------------
CacheInv ==
    /\ TypeOK
    /\ DownIsIdle
    /\ AloneIsNewest
    /\ ListIsNewest
    /\ CacheAgrees

\* A stopped server stays idle: only a crash takes it down.
LEMMA NextDownIsIdle == TypeOK /\ DownIsIdle /\ [Next]_vars => DownIsIdle'
<1> SUFFICES ASSUME TypeOK, DownIsIdle, [Next]_vars PROVE DownIsIdle'
  OBVIOUS
<1>1. CASE ListUsers \/ SetMany \/ StartFails
  BY <1>1 DEF ListUsers, SetMany, StartFails, DownIsIdle, turnVars, watchVars,
              Subscribed
<1>2. CASE Crash
  <2>1. \A t \in Turn : tpc'[t] \notin {"scored", "mirrored"}
    BY <1>2 DEF Crash, TypeOK
  <2>2. Subscribed' = {}
    BY <1>2 DEF Crash, TypeOK, Subscribed
  <2> QED
    BY <2>1, <2>2 DEF DownIsIdle
<1>3. CASE UNCHANGED vars
  BY <1>3 DEF vars, DownIsIdle, Subscribed
<1>4. ASSUME NEW t \in Turn, Play(t) PROVE DownIsIdle'
  <2>1. server = "up" /\ server' = server
    BY <1>4 DEF Play, AddPoints, AddPointsFails, PlayFails, SetPoints,
                SetPointsFails, Notify, TurnMoves, startVars
  <2> QED
    BY <2>1 DEF DownIsIdle
<1>5. ASSUME NEW w \in Watcher, Leaderboard(w) PROVE DownIsIdle'
  <2>1. server = "up" /\ server' = server
    BY <1>5 DEF Leaderboard, WatchSubscribe, ReadBoard, SendBoard, WatchWake,
                WatchEnd, WatchMoves, startVars
  <2> QED
    BY <2>1 DEF DownIsIdle
<1>6. ASSUME UNCHANGED <<server, tpc, wpc>> PROVE DownIsIdle'
  BY <1>6 DEF DownIsIdle, Subscribed
<1>7. ASSUME NEW t \in Turn, LateScore(t) \/ LateSet(t) PROVE DownIsIdle'
  BY <1>6, <1>7 DEF LateScore, LateSet, WriteLate, startVars, watchVars
<1>8. ASSUME NEW n \in lateLists, LateList(n) PROVE DownIsIdle'
  BY <1>6, <1>8 DEF LateList, WriteLate, startVars, watchVars
<1> QED
  BY <1>1, <1>2, <1>3, <1>4, <1>5, <1>7, <1>8, StepCases

\* A score makes the player's other turns no longer alone, so the one that
\* stays alone carries the newest total.
LEMMA ScoreKeepsNewest ==
    ASSUME TypeOK, AloneIsNewest, NEW t \in Turn, Score(t),
           tpc[t] = "new", tpc' = [tpc EXCEPT ![t] = "scored"],
           total' = [total EXCEPT ![t] = points'[TurnOf[t]]]
    PROVE  AloneIsNewest'
<1> SUFFICES ASSUME NEW u \in Turn, tpc'[u] = "scored", alone'[u]
             PROVE  /\ total'[u] = points'[TurnOf[u]]
                    /\ Unmirrored(TurnOf[u])' = {u}
  BY DEF AloneIsNewest
<1>1. TurnOf[t] \in Player /\ TurnOf[u] \in Player
  BY TurnAssumption
<1>2. CASE u = t
  <2>1. Unmirrored(TurnOf[t]) = {}
    BY <1>2 DEF Score, TypeOK
  <2>2. Unmirrored(TurnOf[u])' = {u}
    BY <1>2, <2>1 DEF Unmirrored, TypeOK
  <2> QED
    BY <1>2, <2>2 DEF TypeOK
<1>3. CASE u # t
  <2>1. alone[u] /\ TurnOf[u] # TurnOf[t]
    BY <1>3 DEF Score, TypeOK
  <2>2. tpc[u] = "scored"
    BY <1>3 DEF TypeOK
  <2>3. total[u] = points[TurnOf[u]] /\ Unmirrored(TurnOf[u]) = {u}
    BY <2>1, <2>2 DEF AloneIsNewest
  <2>4. points'[TurnOf[u]] = points[TurnOf[u]]
    BY <1>1, <2>1 DEF Score, TypeOK
  <2>5. total'[u] = total[u]
    BY <1>3 DEF TypeOK
  <2>6. Unmirrored(TurnOf[u])' = Unmirrored(TurnOf[u])
    BY <2>1 DEF Unmirrored, TypeOK
  <2> QED
    BY <2>3, <2>4, <2>5, <2>6
<1> QED
  BY <1>2, <1>3

\* A late score disturbs every turn of its player on its way to Redis.
LEMMA LateKeepsNewest ==
    ASSUME TypeOK, AloneIsNewest, NEW t \in Turn, Score(t),
           UNCHANGED <<tpc, total>>
    PROVE  AloneIsNewest'
<1> SUFFICES ASSUME NEW u \in Turn, tpc'[u] = "scored", alone'[u]
             PROVE  /\ total'[u] = points'[TurnOf[u]]
                    /\ Unmirrored(TurnOf[u])' = {u}
  BY DEF AloneIsNewest
<1>1. TurnOf[t] \in Player /\ TurnOf[u] \in Player /\ u # t
  BY TurnAssumption DEF Score, TypeOK, Unmirrored
<1>2. alone[u] /\ TurnOf[u] # TurnOf[t]
  BY <1>1 DEF Score, TypeOK
<1>3. total[u] = points[TurnOf[u]] /\ Unmirrored(TurnOf[u]) = {u}
  BY <1>2 DEF AloneIsNewest
<1>4. points'[TurnOf[u]] = points[TurnOf[u]]
  BY <1>1, <1>2 DEF Score, TypeOK
<1> QED
  BY <1>3, <1>4 DEF Unmirrored

\* A turn that leaves "scored" takes itself off the way to Redis.
LEMMA MirrorKeepsNewest ==
    ASSUME TypeOK, AloneIsNewest, NEW t \in Turn,
           NEW from \in {"new", "scored", "mirrored"}, tpc[t] = from,
           NEW to \in {"mirrored", "done", "failed"}, tpc' = [tpc EXCEPT ![t] = to],
           UNCHANGED <<points, total, alone>>
    PROVE  AloneIsNewest'
<1> SUFFICES ASSUME NEW u \in Turn, tpc'[u] = "scored", alone'[u]
             PROVE  /\ total'[u] = points'[TurnOf[u]]
                    /\ Unmirrored(TurnOf[u])' = {u}
  BY DEF AloneIsNewest
<1>1. u # t /\ tpc[u] = "scored" /\ alone[u]
  BY DEF TypeOK
<1>2. total[u] = points[TurnOf[u]] /\ Unmirrored(TurnOf[u]) = {u}
  BY <1>1 DEF AloneIsNewest
<1>3. Unmirrored(TurnOf[u])' = {u}
  BY <1>1, <1>2 DEF Unmirrored, TypeOK
<1> QED
  BY <1>2, <1>3

\* Every step keeps the newest total with the turn that is alone.
LEMMA NextAloneIsNewest == TypeOK /\ AloneIsNewest /\ [Next]_vars => AloneIsNewest'
<1> SUFFICES ASSUME TypeOK, AloneIsNewest, [Next]_vars PROVE AloneIsNewest'
  OBVIOUS
<1>1. CASE ListUsers \/ SetMany \/ StartFails
  <2>1. UNCHANGED <<tpc, total, points, alone>>
    BY <1>1 DEF ListUsers, SetMany, StartFails, turnVars
  <2> QED
    BY <2>1 DEF AloneIsNewest, Unmirrored
<1>2. CASE Crash
  BY <1>2 DEF Crash, AloneIsNewest, TypeOK
<1>3. CASE UNCHANGED vars
  BY <1>3 DEF vars, AloneIsNewest, Unmirrored
<1>4. ASSUME NEW t \in Turn, Play(t) PROVE AloneIsNewest'
  <2>1. CASE AddPoints(t)
    BY <2>1, ScoreKeepsNewest DEF AddPoints, TurnMoves
  <2>2. CASE AddPointsFails(t)
    BY <2>2, MirrorKeepsNewest DEF AddPointsFails, TurnMoves
  <2>3. CASE PlayFails(t)
    BY <2>3, MirrorKeepsNewest DEF PlayFails, TurnMoves
  <2>4. CASE SetPoints(t)
    BY <2>4, MirrorKeepsNewest DEF SetPoints, TurnMoves
  <2>5. CASE SetPointsFails(t)
    BY <2>5, MirrorKeepsNewest DEF SetPointsFails, TurnMoves
  <2>6. CASE Notify(t)
    BY <2>6, MirrorKeepsNewest DEF Notify, TurnMoves
  <2> QED
    BY <1>4, <2>1, <2>2, <2>3, <2>4, <2>5, <2>6 DEF Play
<1>5. ASSUME NEW w \in Watcher, Leaderboard(w) PROVE AloneIsNewest'
  <2>1. UNCHANGED turnVars
    BY <1>5 DEF Leaderboard, WatchSubscribe, ReadBoard, SendBoard, WatchWake,
                WatchEnd, WatchMoves
  <2> QED
    BY <2>1 DEF turnVars, AloneIsNewest, Unmirrored
<1>6. ASSUME NEW t \in Turn, LateScore(t) PROVE AloneIsNewest'
  BY <1>6, LateKeepsNewest DEF LateScore
<1>7. ASSUME UNCHANGED <<tpc, total, points, alone>> PROVE AloneIsNewest'
  BY <1>7 DEF AloneIsNewest, Unmirrored
<1>8. ASSUME NEW t \in Turn, LateSet(t) PROVE AloneIsNewest'
  BY <1>7, <1>8 DEF LateSet, WriteLate
<1>9. ASSUME NEW n \in lateLists, LateList(n) PROVE AloneIsNewest'
  BY <1>7, <1>9 DEF LateList, WriteLate
<1> QED
  BY <1>1, <1>2, <1>3, <1>4, <1>5, <1>6, <1>8, <1>9, StepCases

\* Only a late score changes Postgres while a start warms the cache.
LEMMA NextListIsNewest == TypeOK /\ ListIsNewest /\ [Next]_vars => ListIsNewest'
<1> SUFFICES ASSUME TypeOK, ListIsNewest, [Next]_vars, server' = "warming",
                    NEW p \in Player, ~strayed'[p]
             PROVE  list'[crashes'][p] = points'[p]
  BY DEF ListIsNewest
<1>1. CASE ListUsers
  BY <1>1 DEF ListUsers, TypeOK
<1>2. CASE SetMany \/ StartFails \/ Crash
  BY <1>2 DEF SetMany, StartFails, Crash
<1>3. ASSUME UNCHANGED <<server, list, crashes>>, points'[p] = points[p],
             ~strayed[p]
      PROVE  list'[crashes'][p] = points'[p]
  BY <1>3 DEF ListIsNewest
<1>4. CASE UNCHANGED vars
  BY <1>3, <1>4 DEF vars
<1>5. ASSUME NEW t \in Turn, Play(t) PROVE FALSE
  BY <1>5 DEF Play, AddPoints, AddPointsFails, PlayFails, SetPoints,
              SetPointsFails, Notify, TurnMoves, startVars
<1>6. ASSUME NEW w \in Watcher, Leaderboard(w) PROVE FALSE
  BY <1>6 DEF Leaderboard, WatchSubscribe, ReadBoard, SendBoard, WatchWake,
              WatchEnd, WatchMoves, startVars
<1>7. ASSUME NEW t \in Turn, LateScore(t) PROVE list'[crashes'][p] = points'[p]
  <2>1. TurnOf[t] \in Player /\ p # TurnOf[t]
    BY <1>7, TurnAssumption DEF LateScore, TypeOK
  <2>2. points'[p] = points[p] /\ ~strayed[p]
    BY <1>7, <2>1 DEF LateScore, Score, TypeOK
  <2> QED
    BY <1>3, <1>7, <2>2 DEF LateScore, startVars
<1>8. ASSUME NEW t \in Turn, LateSet(t) PROVE list'[crashes'][p] = points'[p]
  BY <1>3, <1>8 DEF LateSet, WriteLate, startVars
<1>9. ASSUME NEW n \in lateLists, LateList(n) PROVE list'[crashes'][p] = points'[p]
  BY <1>3, <1>9 DEF LateList, WriteLate, startVars
<1> QED
  BY <1>1, <1>2, <1>4, <1>5, <1>6, <1>7, <1>8, <1>9, StepCases

\* Where no write is missing and nobody is on the way to Redis, a step that
\* changes neither keeps the cache right for that player.
LEMMA NextCacheAgrees == CacheInv /\ [Next]_vars => CacheAgrees'
<1> SUFFICES ASSUME CacheInv, [Next]_vars,
                    server' = "up", NEW p \in Player,
                    ~strayed'[p], Unmirrored(p)' = {}
             PROVE  cache'[p] = points'[p]
  BY DEF CacheAgrees
<1> USE DEF CacheInv
<1>1. CASE ListUsers \/ SetMany \/ StartFails
  BY <1>1 DEF ListUsers, SetMany, StartFails, Warmed, ListIsNewest
<1>2. CASE Crash
  BY <1>2 DEF Crash
<1>3. CASE UNCHANGED vars
  BY <1>3 DEF vars, CacheAgrees, Unmirrored
<1>4. ASSUME NEW t \in Turn, Play(t) PROVE cache'[p] = points'[p]
  <2>1. TurnOf[t] \in Player /\ server = "up"
    BY <1>4, TurnAssumption
       DEF Play, AddPoints, AddPointsFails, PlayFails, SetPoints,
           SetPointsFails, Notify, TurnMoves, startVars
  <2>2. ASSUME NEW from, NEW to, tpc[t] = from, from # "scored",
               tpc' = [tpc EXCEPT ![t] = to]
        PROVE  /\ Unmirrored(p) \subseteq Unmirrored(p)'
               /\ (to = "scored" => p # TurnOf[t])
    BY <2>2 DEF Unmirrored, TypeOK
  <2>3. CASE AddPoints(t)
    <3>1. p # TurnOf[t] /\ Unmirrored(p) = {}
      BY <2>2, <2>3 DEF AddPoints, TurnMoves
    <3> QED
      BY <2>1, <2>3, <3>1 DEF AddPoints, Score, CacheAgrees, TypeOK
  <2>4. CASE AddPointsFails(t)
    <3>1. Unmirrored(p) = {}
      BY <2>2, <2>4 DEF AddPointsFails, TurnMoves
    <3> QED
      BY <2>1, <2>4, <3>1 DEF AddPointsFails, CacheAgrees
  <2>5. CASE PlayFails(t)
    <3>1. Unmirrored(p) = {}
      BY <2>2, <2>5 DEF PlayFails, TurnMoves
    <3> QED
      BY <2>1, <2>5, <3>1 DEF PlayFails, CacheAgrees
  <2>6. CASE SetPoints(t)
    <3>1. CASE p = TurnOf[t]
      BY <2>1, <2>6, <3>1 DEF SetPoints, TurnMoves, AloneIsNewest, TypeOK
    <3>2. CASE p # TurnOf[t]
      <4>1. Unmirrored(p) = {}
        BY <2>6, <3>2 DEF SetPoints, TurnMoves, Unmirrored, TypeOK
      <4> QED
        BY <2>1, <2>6, <3>2, <4>1 DEF SetPoints, CacheAgrees, TypeOK
    <3> QED
      BY <3>1, <3>2
  <2>7. CASE SetPointsFails(t)
    <3>1. p # TurnOf[t]
      BY <2>1, <2>7 DEF SetPointsFails, TypeOK
    <3>2. Unmirrored(p) = {}
      BY <2>7, <3>1 DEF SetPointsFails, TurnMoves, Unmirrored, TypeOK
    <3> QED
      BY <2>1, <2>7, <3>1, <3>2 DEF SetPointsFails, CacheAgrees, TypeOK
  <2>8. CASE Notify(t)
    <3>1. Unmirrored(p) = {}
      BY <2>2, <2>8 DEF Notify, TurnMoves
    <3> QED
      BY <2>1, <2>8, <3>1 DEF Notify, CacheAgrees
  <2> QED
    BY <1>4, <2>3, <2>4, <2>5, <2>6, <2>7, <2>8 DEF Play
<1>5. ASSUME NEW w \in Watcher, Leaderboard(w) PROVE cache'[p] = points'[p]
  <2>1. UNCHANGED <<turnVars, server>>
    BY <1>5 DEF Leaderboard, WatchSubscribe, ReadBoard, SendBoard, WatchWake,
                WatchEnd, WatchMoves, startVars
  <2> QED
    BY <2>1 DEF turnVars, CacheAgrees, Unmirrored
<1>6. ASSUME UNCHANGED <<server, tpc>>, ~strayed[p],
             points'[p] = points[p], cache'[p] = cache[p]
      PROVE  cache'[p] = points'[p]
  BY <1>6 DEF CacheAgrees, Unmirrored
<1>7. ASSUME NEW t \in Turn, LateScore(t) PROVE cache'[p] = points'[p]
  <2>1. TurnOf[t] \in Player /\ p # TurnOf[t]
    BY <1>7, TurnAssumption DEF LateScore, TypeOK
  <2>2. points'[p] = points[p] /\ ~strayed[p]
    BY <1>7, <2>1 DEF LateScore, Score, TypeOK
  <2> QED
    BY <1>6, <1>7, <2>2 DEF LateScore, startVars
<1>8. ASSUME NEW ps, NEW written, WriteLate(ps, written)
      PROVE  ~strayed[p] /\ p \notin ps
  BY <1>8 DEF WriteLate, startVars
<1>9. ASSUME NEW ps, NEW written, WriteLate(ps, written)
      PROVE  cache'[p] = points'[p]
  <2>1. ~strayed[p] /\ p \notin ps
    BY <1>8, <1>9
  <2>2. points' = points /\ cache'[p] = cache[p] /\ UNCHANGED <<server, tpc>>
    BY <1>9, <2>1 DEF WriteLate, startVars
  <2> QED
    BY <1>6, <1>9, <2>1, <2>2
<1>10. ASSUME NEW t \in Turn, LateSet(t) PROVE cache'[p] = points'[p]
  BY <1>9, <1>10 DEF LateSet
<1>11. ASSUME NEW n \in lateLists, LateList(n) PROVE cache'[p] = points'[p]
  BY <1>9, <1>11 DEF LateList
<1> QED
  BY <1>1, <1>2, <1>3, <1>4, <1>5, <1>7, <1>10, <1>11, StepCases

\* The cache agrees with Postgres for every user whose last good write of it
\* has been followed by no failure, no overlap and no late statement.
THEOREM CacheIsRight == Spec => []CacheAgrees
<1>1. Init => CacheInv
  <2>1. Init => TypeOK
    BY InitTypeOK
  <2>2. Init => DownIsIdle /\ AloneIsNewest /\ ListIsNewest /\ CacheAgrees
    BY DEF Init, DownIsIdle, Subscribed, AloneIsNewest, ListIsNewest, CacheAgrees
  <2> QED
    BY <2>1, <2>2 DEF CacheInv
<1>2. CacheInv /\ [Next]_vars => CacheInv'
  BY NextTypeOK, NextDownIsIdle, NextAloneIsNewest, NextListIsNewest,
     NextCacheAgrees DEF CacheInv
<1>3. CacheInv => CacheAgrees
  BY DEF CacheInv
<1> QED
  BY <1>1, <1>2, <1>3, PTL DEF Spec

-----------------------------------------------------------------------------
WakeInv == TypeOK /\ DownIsIdle /\ NoLostChange

\* A change of the cache is signalled by the turn that made it, and a read
\* that comes after the signal sees the change; a late change is remembered
\* in silent until the stream reads again or a turn signals a newer one.
LEMMA NextNoLostChange == WakeInv /\ [Next]_vars => NoLostChange'
<1> SUFFICES ASSUME WakeInv, [Next]_vars, NEW v \in Watcher, NEW p \in Player,
                    wpc'[v] \in {"sending", "waiting"}, v \notin pending',
                    p \notin silent'[v], board'[v][p] # cache'[p]
             PROVE  \E u \in Turn : TurnOf[u] = p /\ tpc'[u] = "mirrored"
  BY DEF NoLostChange
<1> USE DEF WakeInv
<1>1. CASE ListUsers \/ SetMany \/ StartFails
  BY <1>1 DEF ListUsers, SetMany, StartFails, DownIsIdle, Subscribed, watchVars
<1>2. CASE Crash
  BY <1>2 DEF Crash, Subscribed, TypeOK
<1>3. CASE UNCHANGED vars
  BY <1>3 DEF vars, NoLostChange
<1>4. ASSUME NEW t \in Turn, Play(t)
      PROVE  \E u \in Turn : TurnOf[u] = p /\ tpc'[u] = "mirrored"
  <2>1. ASSUME NEW from, NEW to, from # "mirrored",
               tpc[t] = from, tpc' = [tpc EXCEPT ![t] = to],
               UNCHANGED <<wpc, board, pending>>,
               p \notin silent[v], cache'[p] = cache[p]
        PROVE  \E u \in Turn : TurnOf[u] = p /\ tpc'[u] = "mirrored"
    <3>1. PICK u \in Turn : TurnOf[u] = p /\ tpc[u] = "mirrored"
      BY <2>1 DEF NoLostChange
    <3>2. tpc'[u] = "mirrored"
      BY <2>1, <3>1 DEF TypeOK
    <3> QED
      BY <3>1, <3>2
  <2>2. CASE AddPoints(t) \/ AddPointsFails(t) \/ PlayFails(t) \/ SetPointsFails(t)
    BY <2>1, <2>2 DEF AddPoints, AddPointsFails, PlayFails, SetPointsFails, TurnMoves
  <2>3. CASE SetPoints(t)
    <3>1. CASE p = TurnOf[t]
      BY <2>3, <3>1 DEF SetPoints, TurnMoves, TypeOK
    <3>2. CASE p # TurnOf[t]
      <4>1. cache'[p] = cache[p] /\ p \notin silent[v]
        BY <2>3, <3>2 DEF SetPoints, TypeOK
      <4> QED
        BY <2>1, <2>3, <4>1 DEF SetPoints, TurnMoves
    <3> QED
      BY <3>1, <3>2
  <2>4. CASE Notify(t)
    BY <2>4 DEF Notify, Signalled, Subscribed, TurnMoves
  <2> QED
    BY <1>4, <2>2, <2>3, <2>4 DEF Play
<1>5. ASSUME NEW w \in Watcher, Leaderboard(w)
      PROVE  \E u \in Turn : TurnOf[u] = p /\ tpc'[u] = "mirrored"
  <2>1. UNCHANGED <<tpc, cache>>
    BY <1>5 DEF Leaderboard, WatchSubscribe, ReadBoard, SendBoard, WatchWake,
                WatchEnd, WatchMoves, turnVars
  <2>2. ASSUME wpc[v] \in {"sending", "waiting"}, v \notin pending,
               p \notin silent[v], board[v][p] # cache[p]
        PROVE  \E u \in Turn : TurnOf[u] = p /\ tpc'[u] = "mirrored"
    BY <2>1, <2>2 DEF NoLostChange
  <2>3. CASE WatchSubscribe(w)
    BY <2>1, <2>2, <2>3 DEF WatchSubscribe, WatchMoves, TypeOK
  <2>4. CASE ReadBoard(w)
    BY <2>1, <2>2, <2>4 DEF ReadBoard, WatchMoves, TypeOK
  <2>5. CASE SendBoard(w)
    BY <2>1, <2>2, <2>5 DEF SendBoard, WatchMoves, TypeOK
  <2>6. CASE WatchWake(w)
    BY <2>1, <2>2, <2>6 DEF WatchWake, WatchMoves, TypeOK
  <2>7. CASE WatchEnd(w)
    BY <2>1, <2>2, <2>7 DEF WatchEnd, WatchMoves, DropSignals, TypeOK
  <2> QED
    BY <1>5, <2>3, <2>4, <2>5, <2>6, <2>7 DEF Leaderboard
<1>6. ASSUME UNCHANGED <<tpc, wpc, board, pending>>,
             p \notin silent[v], cache'[p] = cache[p]
      PROVE  \E u \in Turn : TurnOf[u] = p /\ tpc'[u] = "mirrored"
  BY <1>6 DEF NoLostChange
<1>7. ASSUME NEW t \in Turn, LateScore(t)
      PROVE  \E u \in Turn : TurnOf[u] = p /\ tpc'[u] = "mirrored"
  BY <1>6, <1>7 DEF LateScore, watchVars
<1>8. ASSUME NEW ps, NEW written, WriteLate(ps, written)
      PROVE  \E u \in Turn : TurnOf[u] = p /\ tpc'[u] = "mirrored"
  <2>1. UNCHANGED <<tpc, wpc, board, pending>>
    BY <1>8 DEF WriteLate, watchVars
  <2>2. p \notin silent[v] /\ p \notin ps
    BY <1>8, <2>1 DEF WriteLate, TypeOK
  <2>3. cache'[p] = cache[p]
    BY <1>8, <2>2 DEF WriteLate
  <2> QED
    BY <1>6, <2>1, <2>2, <2>3
<1>9. ASSUME NEW t \in Turn, LateSet(t)
      PROVE  \E u \in Turn : TurnOf[u] = p /\ tpc'[u] = "mirrored"
  BY <1>8, <1>9 DEF LateSet
<1>10. ASSUME NEW n \in lateLists, LateList(n)
       PROVE  \E u \in Turn : TurnOf[u] = p /\ tpc'[u] = "mirrored"
  BY <1>8, <1>10 DEF LateList
<1> QED
  BY <1>1, <1>2, <1>3, <1>4, <1>5, <1>7, <1>9, <1>10, StepCases

\* No stream waits with an old score of a player and without a signal, unless
\* the turn that changed the score is still about to give it or a late ZADD
\* has changed it since the stream read.
THEOREM NoWakeupIsLost == Spec => []NoLostWakeup
<1>1. Init => WakeInv
  <2>1. Init => TypeOK
    BY InitTypeOK
  <2>2. Init => DownIsIdle /\ NoLostChange
    BY DEF Init, DownIsIdle, Subscribed, NoLostChange
  <2> QED
    BY <2>1, <2>2 DEF WakeInv
<1>2. WakeInv /\ [Next]_vars => WakeInv'
  BY NextTypeOK, NextDownIsIdle, NextNoLostChange DEF WakeInv
<1>3. WakeInv => NoLostWakeup
  BY DEF WakeInv, NoLostChange, NoLostWakeup
<1> QED
  BY <1>1, <1>2, <1>3, PTL DEF Spec
=============================================================================
