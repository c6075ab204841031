CONSTANTS
    Threads = {t1, t2}
    NoThread = NoThread
    REGION_SIZE = 2
    FileLen = 4
    BUFSZ = 2
    Ranges <- MCThreadRanges
    MaxHeld = 1
    UINT_MAX = 2147483647
    Vals = {7}
    MaxIncs = 2
SPECIFICATION Spec
INVARIANT TypeOK
INVARIANT NoLostUpdate
INVARIANT Isolation
PROPERTY RoundsComplete
\* The clients stop after MaxIncs rounds each; that end state has no
\* successor.  A thread stuck waiting is RoundsComplete's concern.
CHECK_DEADLOCK FALSE
