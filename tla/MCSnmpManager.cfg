CONSTANT MaxRequests = 2
SPECIFICATION FairSpec
INVARIANTS
    AnsweredOnce
    DisabledIsOwed
    EnabledMeansIdle
    OnlyLatestListed
PROPERTIES
    ButtonsComeBack
    NoTaskLeft
CHECK_DEADLOCK FALSE
