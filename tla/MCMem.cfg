SPECIFICATION Spec
CONSTANTS
    MEM_SIZE = 12
    SIZEOF = 1
    MIN_SIZE = 2
    Sizes <- MCSizes
INVARIANT HeapIntact
PROPERTIES FirstFit
