CONSTANTS
    Names = {a}
    Ops = {o1, o2, o3, o4}
    Instances = {i1, i2, i3, i4}
    None = None
    NumNodes = 2
    Concurrent = FALSE
    MaxPolls = 1
    MaxFaults = 2
    MaxCrashes = 0
SPECIFICATION Spec
CHECK_DEADLOCK FALSE
SYMMETRY Symmetry
INVARIANTS TypeOK NoOverProvision QuiescentTruth
PROPERTIES RegistrySpec DurableSuccess
