CONSTANTS
    Threads = {t1, t2, t3}
    NoThread = NoThread
    REGION_SIZE = 2
    FileSize = 4
    Ranges <- MCRanges
    MaxHeld = 2
    UINT_MAX = 2147483647
SPECIFICATION Spec
INVARIANT TypeOK
INVARIANT RegionsMatchGrants
PROPERTY NoLostWakeup
PROPERTY LockRefinement
