SPECIFICATION Spec
CONSTANTS
    JobPoolSize = 2
    FramePoolSize = 2
    FenceWait = TRUE
    TriggerByVSync = FALSE
    MaxSeq = 2
    MaxPlugs = 0
    JobFences <- AllFences
    NoJob = NoJob
INVARIANT
    PresentedHoldsNoFence
