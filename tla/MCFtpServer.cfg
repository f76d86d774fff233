CONSTANTS
    s1 = s1
    s2 = s2
    bad = bad
    Settings = {s1, s2, bad}
    Invalid = {bad}
    MaxStarts = 3
SPECIFICATION Spec
INVARIANTS
    SettingsInForce
    ServesUntilStopped
    StopCloses
CHECK_DEADLOCK FALSE
