CONSTANTS
    Ports = {161, 162}
    MaxClicks = 4
SPECIFICATION Spec
INVARIANTS
    OneDispatcher
    StopCloses
    StartedOrReported
CHECK_DEADLOCK FALSE
