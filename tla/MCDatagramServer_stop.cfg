CONSTANTS
    Ports = {1069, 1514}
    MaxClicks = 4
SPECIFICATION Spec
INVARIANT StoppedMeansClosed
CHECK_DEADLOCK FALSE
