CONSTANTS
    t1 = t1
    t2 = t2
    Tid <- TwoPorts
    NChunks = 4
    BlockMod = 4
    MaxRetries = 1
    CanUnlink = TRUE
    MaxDups = 1
    MaxResends = 1
SPECIFICATION FairSpec
INVARIANTS
    ExpectedIsLastSent
    OneOwner
PROPERTIES
    Terminates
    WholeOrGone
    TransferSpec
CHECK_DEADLOCK FALSE
