SPECIFICATION Spec
CONSTANTS
    NoJob = 0
    MaxJobs = 2
    MaxPosts = 2
    LateStart = FALSE
CHECK_DEADLOCK FALSE
INVARIANT
    JoinFlushes
