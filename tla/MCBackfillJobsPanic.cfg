CONSTANTS
    r1 = r1  r2 = r2
    Requests = {r1, r2}
    NoRequest = NoRequest
    MaxConcurrent = 1
    MaxRetained = 1
    MaxJobs = 2
SPECIFICATION Spec
INVARIANT RunningHasTask
CHECK_DEADLOCK FALSE
