\* One stream that fills the pipeline during an outage that does not end.
CONSTANTS
    s1 = s1
    s2 = s2
    Entry = {1, 2, 3, 4, 5, 6}
    Worker = {w1}
    BatchSize = 1
    QueueSize = 1
    MaxPlaceholders = 65535
    MaxAckLosses = 0
    Stream = {s1}
    Offers <- LongStream
    Other = {}
SPECIFICATION StalledSpec
CHECK_DEADLOCK FALSE
PROPERTIES
    GraceBoundsShutdown
