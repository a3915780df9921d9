\* One load generator sends up to eight entries to a pipeline that can hold
\* five: while the database is away the sixth Submit blocks, with nothing
\* left to move, the seventh entry fills the wire, and Send blocks with the
\* eighth.
CONSTANTS
    s1 = s1
    Entry = {1, 2, 3, 4, 5, 6, 7, 8}
    Worker = {w1}
    BatchSize = 1
    QueueSize = 1
    MaxPlaceholders = 65535
    MaxAckLosses = 0
    Stream = {s1}
    Offers <- OneStream
    Other = {chat}
    Window = 1
SPECIFICATION FairLoadSpec
INVARIANTS
    LoadTypeOK
    MemoryBounded
    DoneMeansKept
PROPERTIES
    BlockedSubmitResumes
    LoadEnds
