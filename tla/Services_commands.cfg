CONSTANTS
    Svcs = {s}
    MaxCmds = 5
    None = None
    Backends = {"docker", "local", "existing", "cloud"}
    Replicas = 2
    MaxFaults = 2
SPECIFICATION Spec
CHECK_DEADLOCK FALSE
INVARIANTS ServicesAreListed NoOrphans StatusIsTrue
