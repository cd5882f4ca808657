SPECIFICATION Spec
CONSTANTS
    JobPoolSize = 2
    FramePoolSize = 2
    FenceWait = FALSE
    TriggerByVSync = TRUE
    MaxSeq = 3
    MaxPlugs = 0
    JobFences <- OneKind
    NoJob = NoJob
PROPERTIES
    MainGetsOn
    PlugOutEnds
    JobsReachDriver
