---------------------------- MODULE WeensySched -----------------------------
(***************************************************************************)
(* What the WeensyOS kernel (src/kernel/kernel.cc) promises about          *)
(* processes and the CPU, with memory abstracted away: which slots are     *)
(* P_FREE, P_RUNNABLE or P_FAULTED, which process the kernel returns to,   *)
(* and whether it runs user code, spins in schedule() or has halted.       *)
(*                                                                         *)
(* A successful fork makes the lowest free slot runnable; a failed one     *)
(* returns -1 and changes nothing here.  Any trap may instead halt the     *)
(* kernel (a failed assertion, a kernel fault, sys_panic).  Operations     *)
(* that only touch memory (page_alloc, a copy-on-write fault) are          *)
(* stuttering steps of this specification.  WeensyKernel implements it.    *)
(***************************************************************************)
EXTENDS Integers, FiniteSets, FiniteSetsExt

CONSTANTS
    NPROC,      \* process slots 1..NPROC; PID_MAX = NPROC + 1
    NINIT       \* kernel_start sets up processes 1..NINIT

PID_MAX == NPROC + 1
Slots   == 0 .. NPROC
Pids    == 1 .. NPROC

Free     == "P_FREE"
Runnable == "P_RUNNABLE"
Faulted  == "P_FAULTED"

VARIABLES
    pstate,     \* ptable[pid].state
    current,    \* current->pid
    cpu         \* "user", "idle" (schedule() spins) or "halted"

svars == <<pstate, current, cpu>>

\* Faulty variants of schedule(), each a plausible slip in its loop: the
\* chosen slot not reduced modulo PID_MAX, and the scan restarted from
\* slot 0 instead of from the current process.
ScheduleNoWrap(ps, from) ==
    LET ahead == {k \in 1 .. PID_MAX : ps[(from + k) % PID_MAX] = Runnable}
    IN IF ahead = {} THEN [cpu |-> "idle", cur |-> from]
       ELSE [cpu |-> "user", cur |-> from + Min(ahead)]
ScheduleLowest(ps, from) ==
    LET ready == {p \in Slots : ps[p] = Runnable}
    IN IF ready = {} THEN [cpu |-> "idle", cur |-> from]
       ELSE [cpu |-> "user", cur |-> Min(ready)]

\* schedule(): scan circularly from the slot after `from`; the first
\* runnable slot is run, and if there is none the kernel spins forever.
Schedule(ps, from) ==
    LET ahead == {k \in 1 .. PID_MAX : ps[(from + k) % PID_MAX] = Runnable}
    IN IF ahead = {} THEN [cpu |-> "idle", cur |-> from]
       ELSE [cpu |-> "user", cur |-> (from + Min(ahead)) % PID_MAX]

\* End a trap by calling schedule() on the new process states.
Reschedule(ps) ==
    LET s == Schedule(ps, current) IN cpu' = s.cpu /\ current' = s.cur

\* A trap from user mode; only a runnable process issues one.
UserTrap == cpu = "user" /\ pstate[current] = Runnable

\* kernel_start: processes 1..NINIT set up and run(&ptable[1]); or an
\* allocation assertion during process_setup halts it.
Init ==
    \/ /\ pstate = [p \in Slots |-> IF p \in 1 .. NINIT THEN Runnable ELSE Free]
       /\ current = 1
       /\ cpu = "user"
    \/ /\ pstate \in [Slots -> {Free, Runnable}] /\ pstate[0] = Free
       /\ current = 0
       /\ cpu = "halted"

\* Timer interrupt: schedule().
Timer == cpu = "user" /\ Reschedule(pstate) /\ UNCHANGED pstate

\* SYSCALL_YIELD.
Yield == UserTrap /\ Reschedule(pstate) /\ UNCHANGED pstate

\* A successful sys_fork: the lowest free slot becomes runnable and the
\* parent continues.
Spawn ==
    /\ UserTrap
    /\ \E c \in Pids : pstate[c] = Free
    /\ pstate' = [pstate EXCEPT ![Min({q \in Pids : pstate[q] = Free})] = Runnable]
    /\ UNCHANGED <<current, cpu>>

\* SYSCALL_EXIT: the slot is freed, then schedule().
Exit ==
    /\ UserTrap
    /\ pstate' = [pstate EXCEPT ![current] = Free]
    /\ Reschedule(pstate')

\* SYSCALL_KILL of a live slot: freed, and the caller is returned to.
Kill(p) ==
    /\ UserTrap
    /\ pstate[p] # Free
    /\ pstate' = [pstate EXCEPT ![p] = Free]
    /\ UNCHANGED <<current, cpu>>

\* A user page fault that copy-on-write does not explain.
Fault ==
    /\ UserTrap
    /\ pstate' = [pstate EXCEPT ![current] = Faulted]
    /\ Reschedule(pstate')

\* A trap that ends in proc_panic or a failed assertion.
Crash == UserTrap /\ cpu' = "halted" /\ UNCHANGED <<pstate, current>>

SchedNext ==
    \/ Yield \/ Timer \/ Spawn \/ Exit \/ Fault \/ Crash
    \/ \E p \in Slots : Kill(p)

\* The timer interrupt is delivered whenever user code runs.
SchedSpec == Init /\ [][SchedNext]_svars /\ WF_svars(Timer)

-----------------------------------------------------------------------------
(* Properties *)

SchedTypeOK ==
    /\ pstate \in [Slots -> {Free, Runnable, Faulted}]
    /\ current \in Slots
    /\ cpu \in {"user", "idle", "halted"}

\* Round-robin: a runnable process eventually runs, unless it stops being
\* runnable or the kernel halts.  Relies on the timer interrupt and on
\* schedule() scanning forward from the current slot, whatever the other
\* processes fork, kill or exit meanwhile.
StarvationFree ==
    \A p \in Pids :
        pstate[p] = Runnable ~>
            \/ cpu = "user" /\ current = p
            \/ pstate[p] # Runnable
            \/ cpu = "halted"

\* The process the kernel returns to is runnable (kernel.cc exception():
\* "It is only valid to return from this function if current->state ==
\* P_RUNNABLE").
ResumesRunnable == cpu = "user" => pstate[current] = Runnable

=============================================================================
