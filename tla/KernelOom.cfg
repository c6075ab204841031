CONSTANTS
    NPROC = 2
    NPAGES = 9
    NVA = 4
    Region <- MCRegion
    Image <- MCImage
    StackVA = 4
    NINIT = 1
    MaxRef = 2
SPECIFICATION Spec
INVARIANT ExhaustionRecoverable
CHECK_DEADLOCK FALSE
