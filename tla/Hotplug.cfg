SPECIFICATION Spec
CONSTANT
    MaxEvents = 3
INVARIANTS
    TypeOK
    AnswerEndsOwnWait
    ActiveInStep
    VSyncOnWhenOn
    OneVSyncThread
    ListenersLive
    FlipFollowsCalls
PROPERTIES
    ClearedAfterUse
    UEventEnds
