CONSTANTS
    Names = {a, b}
    Ops = {o1, o2}
    Instances = {i1, i2, i3}
    None = None
    NumNodes = 1
    Concurrent = TRUE
    MaxPolls = 1
    MaxFaults = 1
    MaxCrashes = 1
SPECIFICATION FairSpec
CHECK_DEADLOCK FALSE
INVARIANTS Isolation DownEventIsTrue
PROPERTY OperationsReturn
