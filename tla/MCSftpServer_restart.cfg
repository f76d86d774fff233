CONSTANT MaxStarts = 2
SPECIFICATION FairSpec
PROPERTY KeepsServing
