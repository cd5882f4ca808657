SPECIFICATION Spec
CONSTANTS
    NoJob = 0
    MaxJobs = 2
    MaxPosts = 2
    LateStart = TRUE
CHECK_DEADLOCK FALSE
PROPERTY
    WaitFlushes
