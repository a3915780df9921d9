\* Three entries on two streams, batches of two, and a Chat stream.
CONSTANTS
    s1 = s1
    s2 = s2
    Entry = {1, 2, 3}
    Worker = {w1}
    BatchSize = 2
    QueueSize = 2
    MaxPlaceholders = 65535
    MaxAckLosses = 0
    Stream = {s1, s2}
    Offers <- TwoStreams
    Other = {chat}
SPECIFICATION FairServerSpec
INVARIANTS
    ServerTypeOK
    GracefulStopLosesNothing
    NobodyRefused
    AcceptedIsKept
PROPERTIES
    SignalEnds
