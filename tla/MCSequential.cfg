SPECIFICATION SequentialSpec
CONSTANTS
    NBlocks = 6
    BlkSize = 4
    Sizes <- MCSizes
    Junk = {0, 3}
    NULL = NULL
    USART_REC_LEN = 4
    Bytes <- MCBytes
    CR = "cr"
    LF = "lf"
    NoByte = NoByte
    Fragments <- MCFragments
    Clen <- MCClen
    MaxPbufs = 10
    NumReass = 5
    PoolSize = 12
    Regs = {r1, r2}
    Values = {v1, v2}
    PollMax = 2
    None = None
INVARIANTS
    RegionsDisjoint
    MapAgrees
    PerusedExact
    UsartTypeOK
    FlagsApart
    LineExact
    ListInv
    DeliveredInOrder
    CommandWhenIdle
PROPERTIES
    HighestFit
    ImplementsHeap
    GivesUpOldest
    ReadIsFresh
