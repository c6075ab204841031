\* sys_kill of the caller's own pid, then a return into the freed slot.
CONSTANTS
    NPROC = 2
    NINIT = 1
SPECIFICATION SchedSpec
INVARIANT ResumesRunnable
CHECK_DEADLOCK FALSE
