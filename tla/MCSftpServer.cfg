CONSTANT MaxStarts = 3
SPECIFICATION FairSpec
INVARIANTS
    NoOrphan
    ServesUntilStopped
PROPERTY StopQuiesces
