CONSTANTS
    ALIGN = 4
    BUFSIZE = 12
    SizeMod = 65536
    Sizes <- MCSizes
    Counts <- MCCounts
    MaxCalls = 3
SPECIFICATION Spec
INVARIANT NoFalseWildWrite
CHECK_DEADLOCK FALSE
