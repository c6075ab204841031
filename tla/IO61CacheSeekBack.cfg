CONSTANTS
    bufsize = 2
    FileInit <- MCFile
    Sizes = {1, 2, 3}
    ReadOffsets <- MCReadOffsets
    WriteOffsets <- MCWriteOffsets
    WriterSeeksBack = TRUE
    MaxOps = 8
SPECIFICATION Spec
INVARIANT WriterViewMatches
CHECK_DEADLOCK FALSE
