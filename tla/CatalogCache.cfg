SPECIFICATION FairSpec
CONSTANTS
    Callers = {c1, c2, c3}
    Capacity = 1
    MaxVersion = 2
    MaxOthers = 2
    MaxCells = 4
    MaxGets = 3
    MaxBuildFaults = 1
    MaxCloses = 1
CHECK_DEADLOCK FALSE
INVARIANTS FreshUnlessPutBack
PROPERTY GetsReturn
