CONSTANTS
    Ports = {1069, 1514}
    MaxClicks = 4
SPECIFICATION Spec
INVARIANTS
    StartedOrReported
    StopCloses
    NoOrphan
CHECK_DEADLOCK FALSE
