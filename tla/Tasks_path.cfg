CONSTANTS
    Backends = {"cloud", "existing", "docker", "local"}
    Sizes = {1, 2}
    Texts <- TextSet
    MaxWait = 2
    MaxFaults = 1
    Radix <- SmallRadix
    Specs <- SpecSet
    Horizon = 30
    MaxMinute = 12
    Catalog <- CatalogSeq
    Requests <- RequestSet
    PriceTables <- Tables
    MaxPriced = 2
    MaxCandidates = 3
SPECIFICATION SpecTasks
CHECK_DEADLOCK FALSE
INVARIANTS NextIsEarliest PlanMeetsTask BestFirst ReportIsTrue
PROPERTIES TasksReturn
