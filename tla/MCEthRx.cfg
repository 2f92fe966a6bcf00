CONSTANTS
    NDesc = 3
    Frames = {f1, f2, f3}
    WindowMax = 3
    NoFrame = NoFrame
    Torn = Torn
SPECIFICATION Spec
INVARIANTS
    CpuStretch
    NoNullDescriptor
    NoSharedBuffer
PROPERTIES
    ImplementsFrameQueue
    DescriptorsReturn
CHECK_DEADLOCK FALSE
