CONSTANTS
    ALIGN = 4
    BUFSIZE = 12
    SizeMod = 65536
    Sizes <- MCSizes
    Counts <- MCCounts
    MaxCalls = 3
SPECIFICATION Spec
INVARIANT TypeOK
INVARIANT HeapTiled
INVARIANT ClientViewMatches
\* An abort or crash ends the client program.
CHECK_DEADLOCK FALSE
