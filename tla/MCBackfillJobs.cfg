CONSTANTS
    r1 = r1
    r2 = r2
    Requests = {r1, r2}
    NoRequest = NoRequest
    MaxConcurrent = 2
    MaxRetained = 1
    MaxJobs = 4
SPECIFICATION FairSpec
INVARIANTS
    ExclusiveRuns
    PermitsAccounted
PROPERTIES
    OldestGoFirst
    EveryJobEnds
CHECK_DEADLOCK FALSE
