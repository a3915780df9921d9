\* No call fails and nothing crashes: what is left is the race.
CONSTANTS
    ann = ann
    bob = bob
    t1 = t1
    t2 = t2
    t3 = t3
    Absent = Absent
    Player = {ann, bob}
    Turn = {t1, t2, t3}
    TurnOf <- TurnsOf
    Delta <- Deltas
    Watcher = {w1}
    MaxCrashes = 0
    MaxLate = 0
SPECIFICATION HealthySpec
INVARIANTS
    CacheAgreesWhenQuiet
