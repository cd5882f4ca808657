SPECIFICATION Spec
CONSTANTS
    NoJob = 0
    MaxJobs = 4
    MaxPosts = 3
    LateStart = FALSE
CHECK_DEADLOCK FALSE
INVARIANTS
    TypeOK
    JobsKept
    NeverSleepsOnWork
PROPERTIES
    WaitFlushes
