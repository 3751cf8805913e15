CONSTANTS
    Names = {c, d}
    Calls = {p1, p2}
    None = None
    Clouds = {"aws", "aliyun"}
    NumZones = 2
    NumNodes = 2
    Old = 2
    MaxFaults = 1
SPECIFICATION Spec
CHECK_DEADLOCK FALSE
INVARIANTS OtherZonesAreFallbacks
