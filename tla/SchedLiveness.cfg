\* Four process slots, one initial process: forks, kills, exits and faults
\* in any order around a round-robin of up to four runnable processes.
CONSTANTS
    NPROC = 4
    NINIT = 1
SPECIFICATION SchedSpec
INVARIANT SchedTypeOK
PROPERTY StarvationFree
\* schedule() spins forever when nothing is runnable, and a halted kernel
\* stops: both are real terminal states.
CHECK_DEADLOCK FALSE
