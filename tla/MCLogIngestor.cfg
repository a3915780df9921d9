\* Two workers, batches of two, a queue of two; three entries make a full
\* batch and a rest or up to three cut by the window, and two
\* acknowledgements may be lost.  A batch of two takes two statements.
CONSTANTS
    Entry = {e1, e2, e3}
    Worker = {w1, w2}
    BatchSize = 2
    QueueSize = 2
    MaxPlaceholders = 7
    MaxAckLosses = 2
SPECIFICATION Spec
SYMMETRY Symmetry
INVARIANTS
    TypeOK
    NoSilentLoss
    CleanStopDrains
    RefusedNeverStored
    DuplicatesOnlyByLostAcks
    WrittenCountsRows
    OneStatementPerRow
PROPERTIES
    QuietAfterCleanStop
    ImplementsDelivery
