SPECIFICATION Spec
CONSTANTS
    NumSlots = 3
    NumJobs = 2
    MaxFrame = 5
    MaxFailed = 1
    NoFence = NoFence
    NoSlot = NoSlot
    NoJob = NoJob
CHECK_DEADLOCK FALSE
PROPERTIES
    JobParamFound
