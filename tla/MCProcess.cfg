CONSTANTS
    k1 = k1
    b1 = b1
    b2 = b2
    CronRuns = {k1}
    Calls = {b1, b2}
    ServerOf <- OneCallEach
    r1 = r1
    r2 = r2
    none = none
    Asks <- SameOrOther
    Requests = {r1, r2}
    NoRequest = none
    MaxConcurrent = 2
    MaxRetained = 1
    MaxJobs = 2
    Capacity = 2
    MaxEvents = 5
SPECIFICATION MCSpec
INVARIANT CleanExit
INVARIANT JobsEndBeforeExit
PROPERTY ImplementsFeed
PROPERTY BothKeepTheirPromises
PROPERTY ShutdownEnds
PROPERTY EverythingIsSent
CHECK_DEADLOCK FALSE
