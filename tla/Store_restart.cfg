CONSTANTS
    Procs = {p}
    Collections <- SaveOrder
    Keys = {k1, k2}
    Values = {v1, v2}
    None = None
    MaxOps = 3
    MaxFaults = 1
    MaxUnread = 1
    MaxCrashes = 2
    Reqs = {r1, r2}
    MaxSecrets = 2
    MaxTime = 2
    MaxRequests = 3
    MaxRestarts = 1
    MaxUnsaved = 1
    Writers = {w}
    Contents = {d1, d2}
    NoFile = NoFile
    MaxFiles = 5
    MaxFileFaults = 1
    MaxFileCrashes = 2
    DbProcs = {p1, p2}
    DbKeys = {n1, n2}
    DbValues = {w1}
    Kinds = {"sqlite", "mysql", "redis"}
    MaxErrors = 2
    MaxDeaths = 1
SPECIFICATION SpecState
CHECK_DEADLOCK FALSE
SYMMETRY Symmetry
INVARIANTS TypeOK AckedSurvives MemoryAgrees NoLateEntry ShownSecretsWork AlwaysLoadable
PROPERTIES OnlyCompletedWrites SavesAreWhole
