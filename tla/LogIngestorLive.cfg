\* Fairness, two workers; no symmetry, which TLC's liveness checking does
\* not allow.
CONSTANTS
    Entry = {e1, e2}
    Worker = {w1, w2}
    BatchSize = 2
    QueueSize = 2
    MaxPlaceholders = 65535
    MaxAckLosses = 0
SPECIFICATION FairSpec
PROPERTIES
    TakenIsStored
    ShutdownEnds
