\* Two turns of ann, two Leaderboard streams, one crash, one late statement.
CONSTANTS
    ann = ann
    bob = bob
    t1 = t1
    t2 = t2
    t3 = t3
    Absent = Absent
    Player = {ann, bob}
    Turn = {t1, t2}
    TurnOf <- TurnsOf
    Delta <- Deltas
    Watcher = {w1, w2}
    MaxCrashes = 1
    MaxLate = 1
SPECIFICATION FairSpec
INVARIANTS
    TypeOK
    CacheAgrees
    NoLostWakeup
PROPERTIES
    BoardsCatchUp
