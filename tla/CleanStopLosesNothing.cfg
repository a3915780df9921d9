CONSTANTS
    Entry = {e1, e2}
    Worker = {w1}
    BatchSize = 2
    QueueSize = 2
    MaxPlaceholders = 65535
    MaxAckLosses = 0
SPECIFICATION Spec
INVARIANTS
    CleanStopLosesNothing
