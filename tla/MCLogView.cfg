CONSTANTS
    a = a
    b = b
    h1 = h1
    h2 = h2
    Kinds = {a, b}
    Filters <- MCFilters
    Handlers <- MCHandlers
    LogCap = 3
    ViewCap = 2
    MaxMsgs = 4
    MaxSearches = 3
SPECIFICATION FairSpec
INVARIANTS
    TypeOK
    OnlyMatchesListed
    RecentMatchesListed
    ListInOrder
PROPERTY EventuallyShown
CHECK_DEADLOCK FALSE
