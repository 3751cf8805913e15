CONSTANTS
    Names = {j}
    Submissions = {s1, s2}
    ApiRuns = {a1}
    SchedRuns = {c1}
    None = None
    Retries = 1
    MaxFaults = 1
    MaxCrashes = 1
SPECIFICATION FairSpec
CHECK_DEADLOCK FALSE
INVARIANTS TypeOK RunningIsTrue
PROPERTIES FirstSubmissionWins ScheduledJobsRecur
