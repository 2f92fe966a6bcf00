CONSTANTS
    NDesc = 3
    Frames = {f1}
    NoFrame = NoFrame
    Torn = Torn
    MainSends = 1
SPECIFICATION SteadyTraffic
PROPERTIES
    QueuedIsSent
