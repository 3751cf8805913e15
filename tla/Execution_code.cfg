CONSTANTS
    Backends = {"cloud", "existing", "docker", "local"}
    Sizes = {1, 2}
    Texts <- TextSet
    MaxWait = 2
    MaxFaults = 1
SPECIFICATION Spec
CHECK_DEADLOCK FALSE
INVARIANT ExitCodeIsReported
