CONSTANTS
    Names = {c, d}
    Calls = {p1, p2}
    None = None
    Clouds = {"aws", "aliyun"}
    NumZones = 2
    NumNodes = 2
    Old = 2
    MaxFaults = 1
    Callers = {c1, c2, c3}
    Types = {t1, t2}
    Asks = {{t1}, {t1, t2}}
    Nil = Nil
    SpecsTTL = 1
    PriceTTL = 1
    Backoff = 1
    MaxTime = 2
    MaxFetchFaults = 1
SYMMETRY Symmetry
SPECIFICATION SpecClouds
CHECK_DEADLOCK FALSE
INVARIANTS OneBatch TriesEveryZone NetworkIsSound ReturnsOwnNodes CacheIsFresh
PROPERTIES CachedDataIsKept
