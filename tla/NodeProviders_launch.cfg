CONSTANTS
    Names <- ClusterNames
    Calls = {p1, p2}
    None = None
    Kinds = {"kubernetes", "gcp", "azure"}
    Sizes = {1, 2}
    Aways = {FALSE, TRUE}
    Retries = 2
    MaxFaults = 1
SPECIFICATION FairSpec
CHECK_DEADLOCK FALSE
INVARIANTS LaunchesAreWhole RecordsAreTrue
PROPERTIES OtherClustersUntouched CallsReturn
