CONSTANTS
    s1 = s1
    s2 = s2
    Sessions = {s1, s2}
    Roots <- TwoRoots
    Paths <- SomePaths
    Requests <- SomeRequests
    MaxEntries = 2
SPECIFICATION SessionSpec
SYMMETRY SessionSymmetry
INVARIANT NothingNewForOldAccount
PROPERTIES
    OnlyAllowedChanges
    LeavesRootFromAbove
CHECK_DEADLOCK FALSE
