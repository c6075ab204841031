CONSTANTS
    bufsize = 2
    FileInit <- MCFile
    Sizes = {1, 2, 3}
    ReadOffsets <- MCReadOffsets
    WriteOffsets <- MCWriteOffsets
    WriterSeeksBack = FALSE
    MaxOps = 8
SPECIFICATION Spec
INVARIANT TypeOK
INVARIANT ReadsMatchFile
INVARIANT WriterViewMatches
\* A client makes at most MaxOps calls and then stops.
CHECK_DEADLOCK FALSE
