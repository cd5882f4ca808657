SPECIFICATION Spec
CONSTANTS
    NumSlots = 3
    Fds <- MCFds
    NoFence = NoFence
    MaxFrame = 4
    f1 = f1
    f2 = f2
    f3 = f3
SYMMETRY Symmetry
INVARIANTS
    TypeOK
    QueueHoldsQueuedSlots
    FramesInOrder
    AsyncHoldsOneFrame
    FenceHeldOnce
    OnlyReplacedFramesLeak
PROPERTY
    ImplementsStream
