SPECIFICATION ReassSpec
CONSTANTS
    Fragments <- MCFragments
    Clen <- MCClen
    MaxPbufs = 10
    NumReass = 5
    PoolSize = 12
INVARIANT FreedIsUnlinked
