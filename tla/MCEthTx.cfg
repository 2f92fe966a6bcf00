CONSTANTS
    NDesc = 3
    Frames = {f1, f2}
    NoFrame = NoFrame
    Torn = Torn
    MainSends = 0
SPECIFICATION Spec
INVARIANTS
    DmaStretch
PROPERTIES
    ImplementsFrameQueue
    OverrunExact
    QueuedIsSent
