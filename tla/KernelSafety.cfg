CONSTANTS
    NPROC = 3
    NPAGES = 8
    NVA = 4
    Region <- MCRegion1
    Image <- MCImage
    StackVA = 4
    NINIT = 1
    MaxRef = 2
SPECIFICATION Spec
INVARIANT TypeOK
INVARIANT RefcountCoversOwners
INVARIANT MemoryIsolation
PROPERTY SchedRefinement
CHECK_DEADLOCK FALSE
