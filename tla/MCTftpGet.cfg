CONSTANTS
    t1 = t1
    t2 = t2
    Tid <- TwoPorts
    NChunks = 3
    BlockMod = 3
    MaxRetries = 1
    CanRemove = TRUE
    MaxDups = 1
    MaxResends = 1
SPECIFICATION FairSpec
INVARIANTS
    ExpectedIsNextChunk
    FailedLeavesNoFile
    AckedMeansWritten
PROPERTIES
    Terminates
    TransferSpec
CHECK_DEADLOCK FALSE
