CONSTANTS
    Callers = {c1, c2, c3}
    Types = {t1, t2}
    Asks = {{t1}, {t1, t2}}
    Nil = Nil
    SpecsTTL = 1
    PriceTTL = 1
    Backoff = 1
    MaxTime = 3
    MaxFetchFaults = 1
SPECIFICATION CacheSpec
CHECK_DEADLOCK FALSE
PROPERTIES MapsAreNotShared
