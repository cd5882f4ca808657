SPECIFICATION Spec
CONSTANTS
    JobPoolSize = 2
    FramePoolSize = 2
    FenceWait = FALSE
    TriggerByVSync = FALSE
    MaxSeq = 3
    MaxPlugs = 1
    JobFences <- AllFences
    NoJob = NoJob
INVARIANTS
    TypeOK
    JobsConserved
    FramesConserved
    OldestFirst
    FencesClosedOnce
    NoUseAfterRelease
PROPERTIES
    PowerOffFlushes
