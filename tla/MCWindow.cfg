CONSTANTS
    Keys = {k1, k2}
    TrapCap = 2
    RowCap = 1
    NoticeCap = 2
    MaxSent = 3
    MaxTransfers = 2
SPECIFICATION WindowFairSpec
INVARIANTS
    WindowTypeOK
    ListsAreLatest
    StatusIsFinal
PROPERTY AllShownAtLast
CHECK_DEADLOCK FALSE
