---------------------------- MODULE WeensyKernel ----------------------------
(***************************************************************************)
(* The WeensyOS kernel of src/kernel/kernel.cc: the physical page          *)
(* allocator (physpages[].refcount, kalloc, kfree), per-process page       *)
(* tables, process_setup, the fork / exit / kill / page_alloc / yield      *)
(* system calls, the page-fault handler with copy-on-write, the timer      *)
(* interrupt and the round-robin scheduler.                                *)
(*                                                                         *)
(* The kernel runs with interrupts disabled, so every trap, together with  *)
(* the handler and the schedule() or run() that ends it, is one atomic     *)
(* step.  Pages are abstracted to numbers 1..NPAGES (the allocatable       *)
(* pages, in address order); a user virtual page is a number in UserVA, in *)
(* address order.  A process's page table keeps, per user page, the       *)
(* physical page and the PTE_W and PTE_C bits (every user entry is P|U),   *)
(* plus its structure pages: the root and, per region of the address      *)
(* space, the page-table page(s) that vmiter::try_map allocates on demand. *)
(* Region 0 is the low region that also holds the kernel mappings copied   *)
(* into every process.  The console page and the kernel's own identity     *)
(* mappings are the same in every table and never reference counted; they *)
(* are left out.                                                           *)
(***************************************************************************)
EXTENDS Integers, FiniteSets, Sequences, SequencesExt, FiniteSetsExt

CONSTANTS
    NPROC,      \* PID_MAX - 1: process slots 1..NPROC (slot 0 is never used)
    NPAGES,     \* physical pages available to kalloc
    NVA,        \* user virtual pages PROC_START_ADDR .. MEMSIZE_VIRTUAL
    Region,     \* [1..NVA -> Regions]: the last-level table covering a page
    Image,      \* program segments: a sequence of [va, writable], one page each
    StackVA,    \* MEMSIZE_VIRTUAL - PAGESIZE
    NINIT,      \* kernel_start sets up processes 1..NINIT
    MaxRef      \* model bound: fork is not explored past this refcount

PID_MAX  == NPROC + 1
Slots    == 0 .. NPROC
Pids     == 1 .. NPROC
Pages    == 1 .. NPAGES
UserVA   == 1 .. NVA
Regions  == {0} \cup {Region[va] : va \in UserVA}
InitProcs == 1 .. NINIT

ASSUME /\ NPROC \in Nat \ {0} /\ NPAGES \in Nat /\ NVA \in Nat \ {0}
       /\ Region \in [UserVA -> Nat]
       /\ StackVA \in UserVA /\ NINIT \in 1 .. NPROC /\ MaxRef \in Nat
       /\ \A i \in DOMAIN Image : Image[i].va \in UserVA \ {StackVA}

NoPage == 0                                  \* nullptr
Free == "P_FREE"
Runnable == "P_RUNNABLE"
Faulted == "P_FAULTED"
NoEntry == [pa |-> NoPage, w |-> FALSE, cow |-> FALSE]   \* PTE not present
Entry == [pa : Pages, w : BOOLEAN, cow : BOOLEAN] \cup {NoEntry}
EmptyTable == [va \in UserVA |-> NoEntry]
NoL1 == [r \in Regions |-> NoPage]

\* Why the kernel stopped: a failed assert or kernel page fault (proc_panic),
\* or a user sys_panic.
HaltReasons == {"setup", "kfree", "fork_cleanup", "cow_oom",
                "page_alloc_map", "user_panic"}

VARIABLES
    refcount,   \* physpages[pg].refcount
    pstate,     \* ptable[pid].state
    pt,         \* ptable[pid].pagetable: user entries
    ptl1,       \* ptable[pid].pagetable: structure page of each region
    ptroot,     \* ptable[pid].pagetable: the root page (nullptr when free)
    current,    \* current->pid
    cpu,        \* "user" (a process runs), "idle" (schedule() spins) or
                \* "halted"
    panic       \* why the kernel halted, "none" while it runs

vars == <<refcount, pstate, pt, ptl1, ptroot, current, cpu, panic>>

-----------------------------------------------------------------------------
(* Physical page allocator *)

\* Faulty kalloc: a page whose refcount is 1 counted as free.
KallocInUse(rc) ==
    IF {pg \in Pages : rc[pg] <= 1} = {} THEN NoPage
    ELSE Min({pg \in Pages : rc[pg] <= 1})

\* kalloc: the first page, scanning from page 0, that is free.
FreePages(rc) == {pg \in Pages : rc[pg] = 0}
Kalloc(rc) == IF FreePages(rc) = {} THEN NoPage ELSE Min(FreePages(rc))

\* Physical pages a table references, with their multiplicity: the pages
\* sys_exit hands to kfree.
UserUses(p, pg) == Cardinality({va \in UserVA : pt[p][va].pa = pg})
Uses(p, pg) == UserUses(p, pg)
             + Cardinality({r \in Regions : ptl1[p][r] = pg})
             + (IF ptroot[p] = pg THEN 1 ELSE 0)

\* A table under construction: refcounts, entries, structure pages, and
\* whether every allocation so far succeeded.
\* vmiter::try_map: allocate region r's page-table page if it is missing.
EnsureL1(s, r) ==
    IF ~s.ok \/ s.l1[r] # NoPage THEN s
    ELSE LET pg == Kalloc(s.rc) IN
         IF pg = NoPage THEN [s EXCEPT !.ok = FALSE]
         ELSE [s EXCEPT !.rc[pg] = 1, !.l1[r] = pg]

\* kalloc_pagetable(): a fresh root page.
NewTable(rc) ==
    LET pg == Kalloc(rc) IN
    [rc |-> IF pg = NoPage THEN rc ELSE [rc EXCEPT ![pg] = 1],
     root |-> pg, pt |-> EmptyTable, l1 |-> NoL1, ok |-> pg # NoPage]

-----------------------------------------------------------------------------
(* Scheduler: schedule() and the process view, from WeensySched *)

Sched == INSTANCE WeensySched

\* Faulty: schedule() run on the process states read before the handler
\* changed them.
RescheduleStale(ps) == Sched!Reschedule(pstate)
Reschedule(ps) == Sched!Reschedule(ps)
\* A trap from user mode; only a runnable process issues one.
UserTrap == Sched!UserTrap

Halt(why) ==
    /\ cpu' = "halted" /\ panic' = why
    /\ UNCHANGED <<refcount, pstate, pt, ptl1, ptroot, current>>


-----------------------------------------------------------------------------
(* Boot: kernel_start, process_setup *)

\* One program segment: kalloc a page (asserted non-null), map it with
\* PTE_W iff the segment is writable.
SetupSeg(s, seg) ==
    LET pg == Kalloc(s.rc) IN
    IF ~s.ok \/ pg = NoPage THEN [s EXCEPT !.ok = FALSE]
    ELSE EnsureL1([s EXCEPT !.rc[pg] = 1,
                            !.pt[seg.va] = [pa |-> pg, w |-> seg.writable,
                                            cow |-> FALSE]],
                  Region[seg.va])

\* process_setup(pid): fresh table, kernel mappings copied (region 0),
\* the image's segments, then the stack page; runnable.  k is the kernel
\* state during boot; a failed allocation (k.ok = FALSE) is a failed
\* assertion or a write through nullptr.
ProcessSetup(k, pid) ==
    LET s == FoldLeft(SetupSeg, EnsureL1(NewTable(k.rc), 0),
                      Image \o <<[va |-> StackVA, writable |-> TRUE]>>)
    IN [rc |-> s.rc, ok |-> s.ok,
        pt |-> [k.pt EXCEPT ![pid] = s.pt],
        l1 |-> [k.l1 EXCEPT ![pid] = s.l1],
        root |-> [k.root EXCEPT ![pid] = s.root],
        ps |-> [k.ps EXCEPT ![pid] = Runnable]]

\* kernel_start: every slot P_FREE, then process_setup for 1..NINIT in
\* order.
RECURSIVE SetupFrom(_, _)
SetupFrom(k, pids) ==
    IF pids = {} \/ ~k.ok THEN k
    ELSE SetupFrom(ProcessSetup(k, Min(pids)), pids \ {Min(pids)})
Booted ==
    SetupFrom([rc |-> [pg \in Pages |-> 0], ok |-> TRUE,
               pt |-> [p \in Slots |-> EmptyTable],
               l1 |-> [p \in Slots |-> NoL1],
               root |-> [p \in Slots |-> NoPage],
               ps |-> [p \in Slots |-> Free]], InitProcs)

-----------------------------------------------------------------------------
(* Teardown and system calls *)

\* sys_exit(pid): kfree every user page, every structure page and the
\* root (kfree asserts refcount > 0 before each decrement), then mark the
\* slot free.  FALSE (returns -1) when pid is free.
ExitOk(pid) == pstate[pid] # Free
DoubleFree(pid) == \E pg \in Pages : refcount[pg] < Uses(pid, pg)
TearDown(pid) ==
    /\ refcount' = [pg \in Pages |-> refcount[pg] - Uses(pid, pg)]
    /\ pstate' = [pstate EXCEPT ![pid] = Free]
    /\ pt' = [pt EXCEPT ![pid] = EmptyTable]
    /\ ptl1' = [ptl1 EXCEPT ![pid] = NoL1]
    /\ ptroot' = [ptroot EXCEPT ![pid] = NoPage]

\* SYSCALL_EXIT: assert(sys_exit(current->pid) == 0); schedule().
SysExit ==
    /\ UserTrap
    /\ IF DoubleFree(current) THEN Halt("kfree")
       ELSE /\ TearDown(current)
            /\ Reschedule([pstate EXCEPT ![current] = Free])
            /\ UNCHANGED panic

\* SYSCALL_KILL: return sys_exit(regs.reg_rdi) to the caller; no check that
\* the target is another process.
SysKill(pid) ==
    /\ UserTrap
    /\ ExitOk(pid)
    /\ IF DoubleFree(pid) THEN Halt("kfree")
       ELSE TearDown(pid) /\ UNCHANGED <<current, cpu, panic>>

\* SYSCALL_YIELD: schedule().
SysYield ==
    /\ UserTrap
    /\ Reschedule(pstate)
    /\ UNCHANGED <<refcount, pstate, pt, ptl1, ptroot, panic>>

\* Faulty page_alloc: kalloc's nullptr not checked before mapping.
SysPageAllocNoNullCheck(va) ==
    /\ UserTrap
    /\ LET pg == Kalloc(refcount)
       IN /\ refcount' = [refcount EXCEPT ![pg] = 1]
          /\ pt' = [pt EXCEPT ![current][va] = [pa |-> pg, w |-> TRUE, cow |-> FALSE]]
          /\ UNCHANGED <<pstate, ptl1, ptroot, current, cpu, panic>>

\* syscall_page_alloc(addr) for a valid addr: kalloc (nullptr: return -1),
\* then try_map, which may need a page-table page (failure is asserted
\* against).  The page previously mapped at addr is not freed.
SysPageAlloc(va) ==
    /\ UserTrap
    /\ Kalloc(refcount) # NoPage
    /\ LET pg == Kalloc(refcount)
           s == EnsureL1([rc |-> [refcount EXCEPT ![pg] = 1],
                          l1 |-> ptl1[current], ok |-> TRUE], Region[va])
       IN IF ~s.ok THEN Halt("page_alloc_map")
          ELSE /\ refcount' = s.rc
               /\ ptl1' = [ptl1 EXCEPT ![current] = s.l1]
               /\ pt' = [pt EXCEPT ![current][va] =
                                   [pa |-> pg, w |-> TRUE, cow |-> FALSE]]
               /\ UNCHANGED <<pstate, ptroot, current, cpu, panic>>

\* Faulty fork permissions: only pages that are already copy-on-write are
\* downgraded; writable pages are shared writable.
ForkPermCowOnly(e) ==
    IF e.cow THEN [pa |-> e.pa, w |-> FALSE, cow |-> TRUE] ELSE e

\* The entry fork leaves in both tables: writable or already copy-on-write
\* user pages become P|U|C; read-only pages are shared as they are.
ForkPerm(e) ==
    IF e.w \/ e.cow THEN [pa |-> e.pa, w |-> FALSE, cow |-> TRUE] ELSE e

\* One parent page copied into the child: try_map may need the region's
\* page-table page.
ForkCopy(s, va) ==
    EnsureL1([s EXCEPT !.pt[va] = ForkPerm(pt[current][va])], Region[va])

\* sys_fork(): lowest free slot (none: -1); kalloc_pagetable (nullptr: -1);
\* then every present page, in address order: parent downgraded, refcount
\* incremented, child mapped.  A failed try_map runs
\* assert(sys_exit(new_id) == 0) on a slot that is still P_FREE.
SysFork ==
    /\ UserTrap
    /\ \E c \in Pids : pstate[c] = Free
    /\ Kalloc(refcount) # NoPage
    /\ \A pg \in Pages : refcount[pg] + UserUses(current, pg) <= MaxRef
    /\ LET c == Min({q \in Pids : pstate[q] = Free})
           present == SelectSeq([i \in UserVA |-> i],
                                LAMBDA va : pt[current][va] # NoEntry)
           s == FoldLeft(ForkCopy, EnsureL1(NewTable(refcount), 0), present)
       IN IF ~s.ok THEN Halt("fork_cleanup")
          ELSE /\ refcount' = [pg \in Pages |-> s.rc[pg] + UserUses(current, pg)]
               /\ pt' = [pt EXCEPT ![current] = [va \in UserVA |->
                                                   ForkPerm(pt[current][va])],
                                   ![c] = s.pt]
               /\ ptl1' = [ptl1 EXCEPT ![c] = s.l1]
               /\ ptroot' = [ptroot EXCEPT ![c] = s.root]
               /\ pstate' = [pstate EXCEPT ![c] = Runnable]
               /\ UNCHANGED <<current, cpu, panic>>

\* SYSCALL_PANIC, an unhandled exception or an unknown system call number:
\* the kernel halts.
UserPanic == UserTrap /\ Halt("user_panic")

-----------------------------------------------------------------------------
(* Exceptions *)

\* INT_IRQ + IRQ_TIMER: ++ticks; schedule().  The timer interrupts whatever
\* runs in user mode.
Timer ==
    /\ cpu = "user"
    /\ Reschedule(pstate)
    /\ UNCHANGED <<refcount, pstate, pt, ptl1, ptroot, panic>>

\* INT_PF on a PTE_C entry (a write to a copy-on-write page).  Sole owner:
\* remap writable.  Shared: kalloc, copy, decrement the shared page, remap;
\* a nullptr from kalloc is passed to sys_exit and then to memcpy, a
\* kernel fault on address 0.  Then run(current).
CowFault(va) ==
    /\ UserTrap
    /\ pt[current][va].cow
    /\ LET e == pt[current][va]
           pg == Kalloc(refcount)
       IN IF refcount[e.pa] = 1
          THEN /\ pt' = [pt EXCEPT ![current][va] =
                                   [pa |-> e.pa, w |-> TRUE, cow |-> FALSE]]
               /\ UNCHANGED <<refcount, pstate, ptl1, ptroot, current, cpu, panic>>
          ELSE IF pg = NoPage THEN Halt("cow_oom")
          ELSE /\ refcount' = [refcount EXCEPT ![pg] = 1, ![e.pa] = @ - 1]
               /\ pt' = [pt EXCEPT ![current][va] =
                                   [pa |-> pg, w |-> TRUE, cow |-> FALSE]]
               /\ UNCHANGED <<pstate, ptl1, ptroot, current, cpu, panic>>

\* INT_PF from user mode that copy-on-write does not explain: a missing
\* page, or a write to a read-only page.  The process is P_FAULTED and
\* schedule() runs.
BadFault(va) ==
    /\ UserTrap
    /\ \/ pt[current][va] = NoEntry
       \/ ~pt[current][va].w /\ ~pt[current][va].cow
    /\ pstate' = [pstate EXCEPT ![current] = Faulted]
    /\ Reschedule(pstate')
    /\ UNCHANGED <<refcount, pt, ptl1, ptroot, panic>>

-----------------------------------------------------------------------------

\* The state kernel_start leaves: the initial processes set up, then
\* run(&ptable[1]).
Init ==
    /\ refcount = Booted.rc
    /\ pstate = Booted.ps
    /\ pt = Booted.pt
    /\ ptl1 = Booted.l1
    /\ ptroot = Booted.root
    /\ current = IF Booted.ok THEN 1 ELSE 0
    /\ cpu = IF Booted.ok THEN "user" ELSE "halted"
    /\ panic = IF Booted.ok THEN "none" ELSE "setup"

Next ==
    \/ SysYield
    \/ Timer
    \/ SysFork
    \/ SysExit
    \/ \E p \in Slots : SysKill(p)
    \/ \E va \in UserVA : SysPageAlloc(va) \/ CowFault(va) \/ BadFault(va)
    \/ UserPanic

\* The timer interrupt (HZ = 100) is delivered whenever a process runs in
\* user mode: interrupts are only disabled inside the kernel.
Fairness == WF_vars(Timer)

Spec == Init /\ [][Next]_vars /\ Fairness

-----------------------------------------------------------------------------
(* Properties *)

TypeOK ==
    /\ refcount \in [Pages -> Nat]
    /\ pstate \in [Slots -> {Free, Runnable, Faulted}]
    /\ pt \in [Slots -> [UserVA -> Entry]]
    /\ ptl1 \in [Slots -> [Regions -> Pages \cup {NoPage}]]
    /\ ptroot \in [Slots -> Pages \cup {NoPage}]
    /\ current \in Slots
    /\ cpu \in {"user", "idle", "halted"}
    /\ panic \in HaltReasons \cup {"none"}

\* The page-table references to a page, over all slots.
Owners(pg) == SumFunction([p \in Slots |-> Uses(p, pg)])

\* No page that a live mapping or page table still uses can be handed out
\* again: its refcount counts at least every use.  fork's increments, the
\* copy-on-write decrement and sys_exit's kfree loops must all agree over
\* any sequence of calls; an undercount lets kalloc give a mapped page to
\* another process.
RefcountCoversOwners == \A pg \in Pages : refcount[pg] >= Owners(pg)

\* The refcount of every page is exactly the number of its uses (spec 3:
\* "refcount = owner count"; spec 8: page_alloc twice at one address
\* decrements the old page).
RefcountExact == \A pg \in Pages : refcount[pg] = Owners(pg)

\* Memory isolation: a page is either one table's structure page and not
\* mapped, or mapped only read-only / copy-on-write, or mapped writable by
\* exactly one entry of one process.  This is what copy-on-write must
\* preserve: the sole-owner shortcut of the fault handler, fork's
\* downgrade of the parent, and allocation of only unreferenced pages.
StructureRefs(pg) == {<<p, r>> \in Slots \X Regions : ptl1[p][r] = pg}
                     \cup {<<p, -1>> : p \in {q \in Slots : ptroot[q] = pg}}
Mappings(pg) == {<<p, va>> \in Slots \X UserVA : pt[p][va].pa = pg}
MemoryIsolation ==
    \A pg \in Pages :
        /\ StructureRefs(pg) # {} =>
               Cardinality(StructureRefs(pg)) = 1 /\ Mappings(pg) = {}
        /\ \A m \in Mappings(pg) :
               pt[m[1]][m[2]].w => Mappings(pg) = {m}

\* The kernel implements the process and scheduler specification: under
\* the refinement that keeps pstate, current and cpu, every kernel step is
\* a step of WeensySched or leaves them unchanged, and the timer's
\* fairness carries over (so round-robin starvation freedom holds of the
\* kernel too).
SchedRefinement == Sched!SchedSpec

\* Exhausted memory never halts the kernel: a fork that runs out is
\* reported to the parent as -1 (spec 4.5), and a copy-on-write fault that
\* runs out terminates only the faulting process (spec 4.4).
ExhaustionRecoverable == panic \notin {"fork_cleanup", "cow_oom"}

====
