SPECIFICATION FirmwareSpec
CONSTANTS
    PoolSizes <- MCPoolSizes
    Need <- MCNeed
    NULL = NULL
    Tick = 2
    Interval = 6
    Wrap = 15
    LateMax = 12
INVARIANTS
    BuffersReady
    FreesOnlyGranted
    LeakExact
    NeverEarly
PROPERTIES
    BootsWhilePoolLasts
    AgesOnceUp
