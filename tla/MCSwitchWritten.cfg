SPECIFICATION StartSpec
CONSTANTS
    Regs = {bcr, r2}
    Values = {reset, autonego, v}
    PollMax = 2
    None = None
    BCR = bcr
    Reset = reset
    AutoNego = autonego
PROPERTY SuccessIsWritten
