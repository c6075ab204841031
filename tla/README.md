# TLA+ models of prbsth/systems

This directory holds TLA+ specifications of the programs under `src/`, the
TLC configurations that check them, and `PROJECT.json`. `PROJECT.json` is the
machine-readable index of components, runs, mutants, the definition-to-source
map, findings and hazards.

## 1. The system

The repository has five independent programs:

| part | source | what it is |
|---|---|---|
| WeensyOS kernel | `src/kernel/kernel.cc`, `u-lib.hh` | teaching OS kernel: page allocator, per-process page tables, loader, fault handler with copy-on-write fork, system calls, round-robin scheduler |
| m61 | `src/memory/m61.cc` | debugging `malloc`/`free`/`calloc`/`realloc` over a fixed arena: a free-list map, first fit, split and coalesce, magic byte for wild writes |
| io61 (cache) | `src/cache/io61.cc` | single-slot buffered file I/O: read, write, seek, flush |
| io61 (fTx) | `src/fTx/io61.cc` | thread-safe positioned I/O with 64-byte region locks, a recursive mutex and a condition variable |
| sh61 | `src/processes/sh61.cc` | a shell: command lists, `&&`/`||`, pipelines, background chains |

`spec.md` specifies the kernel. The project models the kernel, m61, the
single-slot cache of `src/cache/io61.cc`, the region locks and the positioned
cache of `src/fTx/io61.cc`, and the sh61 shell. The programs are independent.
Within the fTx file, `IO61Threads` composes its two parts, the region locks and
the cache, as threads use them together.

### Kernel inventory

State, per `kernel.cc`:
- `physpages[pg].refcount`
- `ptable[pid].state`, one of P_FREE, P_RUNNABLE or P_FAULTED
- `ptable[pid].pagetable`: the root, the table pages, and the user entries with PTE_P/W/U/C
- `current`
- whether the CPU runs user code, spins in `schedule()` or has halted

Operations. Each one is atomic, because the kernel runs with interrupts
disabled (kernel.cc:264, 480):
- **Boot:** `kernel_start` with `process_setup`.
- **Timer interrupt:** `schedule()`.
- **Page fault:** the copy-on-write paths (sole owner, copy, out of memory), or a user fault that leads to P_FAULTED.
- **System calls:** `sys_yield`, `sys_page_alloc`, `sys_fork`, `sys_exit`, `sys_kill`, `sys_panic` and `sys_getpid`. `sys_getpid` is a no-op here.

Interactions: processes share physical pages through fork. Copy-on-write
faults, page_alloc and exit/kill then change those shared pages' refcounts, and
the scheduler interleaves the processes' traps.

What makes the kernel correct:
- **(a)** No page that is still in use can be allocated again: refcounts never undercount.
- **(b)** No two mappings share a writable page, and no table page is mapped into user space.
- **(c)** Refcount equals the owner count, so nothing leaks.
- **(d)** Memory exhaustion is reported with -1 or by ending the process, and never halts the kernel.
- **(e)** The kernel only returns to a runnable process.
- **(f)** Round-robin eventually runs every runnable process.

## 2. Modules

**`WeensySched.tla`** is the abstract specification of processes and the CPU.
- Variables: `pstate`, `current`, `cpu`.
- It defines `Schedule` (kernel.cc:565-586) and the ending of a trap,
  `Reschedule`: `run(current)` if it is runnable, else `schedule()`
  (kernel.cc:355-363).
- Actions:
  - `Timer` and `Yield`;
  - `Spawn`: a successful fork takes the lowest free slot;
  - `Exit`, `Kill`, `Fault`;
  - `Crash`: any trap that ends in an assertion or `proc_panic`.
- Memory-only steps (page_alloc, COW faults) are stutters of this spec.

**`WeensyKernel.tla`** is the kernel, built on WeensySched through
`Sched == INSTANCE WeensySched` and sharing its variables.

It adds these variables:
- `refcount`
- `pt`: per slot and user page, an entry `[pa, w, cow]`
- `ptl1`: the table page of each address-space region
- `ptroot`
- `panic`: the halt reason

Actions, each with its source:

| action | source |
|---|---|
| `SysYield` | 511-513 |
| `Timer` | 292-296 |
| `SysFork` | 395-464 |
| `SysExit` | 521-523 with `TearDown` = sys_exit 370-392 |
| `SysKill(p)` | 525-526 |
| `SysPageAlloc(va)` | 541-559 |
| `CowFault(va)` | 298-329 |
| `BadFault(va)` | 331-347 |
| `UserPanic` | 504-506, 350-353 |

Boot (`kernel_start`, `process_setup`) is folded into `Init`: the operator
`Booted` runs `ProcessSetup` over processes 1..NINIT. `Kalloc` is first-fit
over pages with refcount 0. `EnsureL1` stands for `vmiter::try_map` allocating
a missing table page, and `NewTable` for `kalloc_pagetable`; both are modelled
from the spec because that code is not under `src/`.

Abstractions:
- A physical page is a number in address order. A user virtual page is a number in 1..NVA.
- The kernel's identity mappings and the console page are identical in every table and never refcounted, so they are left out.
- The 4-level table is one table page per region: `Region[va]` says which. Region 0 also holds the kernel mappings, so try_map allocates its page first.
- A halt keeps the state at the trap. Nothing runs after a halt.
- Calls that fail early and change nothing are stuttering steps and are not written out. These are: fork with no free slot or no root page, page_alloc at an invalid address, and kill of a free pid.

**`M61.tla`** is the m61 allocator (`src/memory/m61.cc`).

Variables:
- `freed` and `active`: `freed_addresses` and `active_addresses`, as functions from block start to size (for `active`, a record of actual size and padding). `Insert` and `Erase` are `std::map::insert` (which keeps an existing key) and `erase`.
- `magic`: the buffer bytes that hold 61.
- `gstats`: `m61_statistics`, with its sizes taken modulo `SizeMod`, the size_t width.
- `status`: "ok", or how the program ended (an abort message of m61_free, or a crash).
- `live` and `valid`: ghost state, for what the client was handed and whether it has kept to the API.

Each call is a pure operator on a `Heap` record, and the action applies the result:

| action | operator | source |
|---|---|---|
| `Malloc(sz)` | `MallocOp` with `Padding`, `Fail` and `MallocStats` | m61.cc m61_malloc |
| `Free(p)` | `FreeOp` with `CoalesceDown` and the RECURSIVE `CoalesceUp` | m61.cc m61_free |
| `Realloc(p, sz)` | `ReallocOp`: `ShrinkOp` in place, or `GrowOp` (malloc, free, copy) | m61.cc m61_realloc |
| `Calloc(c, sz)` | `CallocOp` | m61.cc m61_calloc |
| `Write(a)` | the client storing a byte | none (client) |

Each operator keeps the code's order of checks and updates. m61_free tests
null, double free, outside the heap, not allocated, and then the magic byte.
The buffer is 12 bytes with ALIGN 4, so a padded block is 4, 8 or 12 bytes.
Realloc's copy reads `sz` bytes from the old block. When that runs past the
buffer, the model records a crash ("segv"). The statistics' overflow checks are
kept, but with 12 bytes they are never reached.

**`MCM61.tla`** gives the request sizes {0, 1, 2, 5, 12} and the calloc counts
{0, 2}. Together they exercise the zero size, the sub-alignment sizes, a
multi-word size and the whole buffer.

**`MCWeensyKernel.tla`** gives the constants for TLC:
- The program image has a read-only code page and a writable data page.
- Page 3 is left for page_alloc, and page 4 is the stack.
- `MCRegion` puts pages 3-4 in a second region, so fork and setup need two table pages. `MCRegion1` puts everything in region 0; kernel_safety uses it.

### IO61Locks and RangeLocks (fTx region locks)

**`RangeLocks.tla`** is what the lock API comments (fTx io61.cc:445-518)
promise, stated at the level of byte ranges. `held[t]` is the set of
`[start, len, type]` ranges that thread t's lock calls returned 0 for.
`Acquire` requires that no other thread holds a range that shares a byte with
the new one when either is `LOCK_EX`. `Release` gives a range back.

**`IO61Locks.tla`** is the implementation:

| state | code |
|---|---|
| `locked[ri]`, `owner[ri]` | `f->reg[ri].locked`, `.owner`, one per 64-byte region, `num_regions` from the size at `io61_fdopen` |
| `pc[t]` | thread t in its own code (`idle`), blocked in `cv.wait` (`waiting`), or woken and waiting for the mutex (`woken`) |
| `want[t]` | the range of t's `io61_lock` call in progress |
| `granted[t]` | ghost: the ranges whose lock call returned 0 |
| `overrun` | `reg[]` was indexed past `num_regions` |

`io61_try_lock`, `io61_lock` and `io61_unlock` hold `f->mutex` throughout, so
each is one step. The exception is `cv.wait`, which releases the mutex: `Lock`
either takes the regions or enters `waiting`. `Unlock` decrements the regions
without an owner check and `notify_all`s, which moves every waiter to `woken`.
`Spurious` is a wakeup without a notify. `Recheck` re-tests
`may_overlap_with_other_lock` and either takes the regions or waits again.
Each of `TryLock`, `Lock` and `Unlock` keeps the `len == 0` early return.

The threads are the client. Each holds at most `MaxHeld` ranges at once and
unlocks only what it was granted. A thread that already holds a range locks
only ranges that start after it (`CanLock`). This order is an assumption of
the model. Neither the code nor the API comment asks for it; the comment only
reserves -1 for EDEADLK, which `io61_lock` never returns. Under the order no
wait cycle forms, so the deadlock hazard at io61.cc:505 is not checked. Because
clients unlock only what they hold, the missing owner check in `io61_unlock`
is never exercised either.
`reg_lock.locked` is unsigned, so `++` and `--` wrap at `UINT_MAX`. TLC's
integers are 32-bit, so 2^31-1 stands in for the real width. Only an unlock
without a lock could reach the wrap.

**`MCIO61Locks.tla`**:
- regions are 2 bytes, standing for 64, over a 4-byte file, which gives two regions;
- the ranges are [0,1), [1,3) (which spans both regions), [2,4) and an empty range at 3, each shared or exclusive;
- `MCRangesPastEnd` adds [3,5), which runs past the array.

`RegionsMatchGrants` relates the region table to the grants.
`LockRefinement` is `RangeLocks` with `held <- granted`: a lock returns 0 only
when the API allows it.

### IO61PCache and IO61Threads (fTx positioned cache under the locks)

**`IO61PCache.tla`** has no variables. It models the positioned mode of the
fTx cache as functions on a record of the `io61_file` fields:
- `cbuf`, `tag`, `end`, `pos`, `dirty` and `positioned`;
- `disk`, the file.

Each function runs under `f->rmutex`, so each is one step:
- `Pfill`: write back a dirty cache, round `off` down to a block, `pread`;
- `Pread` and `Pwrite`, whose copy length `Ncopy` is `min(sz, nleft)`. `nleft` is a `size_t`, so a negative difference wraps;
- `FlushLocked`, which dispatches to `FlushDirtyPositioned`, `FlushDirty` or `FlushClean`.

`View` is what a pread of a byte returns: the cache's copy where the cache holds
the byte, the disk's elsewhere.

**`IO61Threads.tla`** composes it with `IO61Locks` (`L == INSTANCE IO61Locks`):
- state: the lock variables, the `file` record, each thread's round `cl`, and a ghost `incs`, the increments each byte received;
- a round is `Begin` (`io61_lock`), `Read` (`io61_pread` of a byte in the range), `Write` (`io61_pwrite` of the value plus one, under LOCK_EX only) and `Finish` (`io61_unlock`);
- `Flush` is `io61_flush` by any thread at any time, and `LockWait` is a waiter's recheck or spurious wakeup.

The lock calls take `f->mutex` and the cache calls `f->rmutex`. These are two
different mutexes, so one thread's cache call can fall between another
thread's lock steps.

**`MCIO61Threads.tla`**:
- a 4-byte file of zeros with 2-byte regions and a 2-byte cache;
- exclusive ranges on byte 0, bytes 1-2 (across both regions) and bytes 2-3, and a shared range on bytes 1-2;
- a fresh cache holding 7, a value no client writes.

### IO61Cache (single-slot cache)

**`IO61Cache.tla`** models `src/cache/io61.cc` for one file, opened read-only or
write-only:
- `cbuf`, `tag`, `end_tag`, `pos_tag`: the cache;
- `fpos`: the kernel file position;
- `disk`: the file.

The client's calls are `ReadC`, `Read(sz)`, `WriteC`, `Write(sz)`, `Flush` and
`Seek(off)`. Each call's helpers are operators over a record `File` of the
cache, applied in the code's order:
- `CacheFill`: `read` of up to bufsize bytes, or -1 at end of file;
- `ReadLoop` and `WriteLoop`: the loops of `io61_read` and `io61_write`, RECURSIVE;
- `Flushed`: writes `pos_tag - tag` bytes at `fpos` and sets `tag = pos_tag`.

`io61_fdopen` never fills `f->st`, so the `mmap` length is indeterminate. The
model takes the `MAP_FAILED` outcome, the one on which `io61_seek`'s buffered
branch runs.

The model also keeps:
- `logical` and `lpos`: what the client has written or read, and where it is;
- `got`: the last read's result;
- `status`: "hang" when `io61_write`'s loop finds no space and spins, and "overflow" when `io61_writec` stores past `cbuf`.

`WriterSeeksBack` says whether a writer may seek to an offset it has already
passed. `MaxOps` bounds the number of calls.

**`MCIO61Cache.tla`**:
- bufsize 2 over a 3-byte file, so the file ends mid-block. It never ends on a block boundary, so the failing aligned seek at end of file (cache io61.cc:252) is not reached;
- read offsets 0..5, which include the end of file and offsets past it, aligned and not;
- write offsets {0, 1, 5}.


### Sh61 (shell)

**`Sh61.tla`** models `src/processes/sh61.cc` from the token stream on. Its state:
- `line`: the lines parsed so far. Each is a sequence of command records with `args`, `link`, `file_i`, `file_o` and `error_f`, as `parse_line` builds them;
- `sh`: one interpreter record for the shell (`Sh`) and one per background subshell. A record holds `pc`, the current command `c`, and the per-command `executable`, `state` and `pipefd` fields (`exe`, `st`, `pin`, `pout`). Each subshell has its own copy, as after `fork`;
- `procs`: the processes the shell forks, with their program, input, output and exit code;
- `fds`: the pipe ends each process holds;
- `pipes`: the bytes in each pipe buffer;
- `decided` and `exitst`: ghosts recording which interpreter ran or skipped each command, and the status each one gave.

`ParseLine` is `parse_line` as a `FoldLeft` of `ParseStep` over the tokens. A
step that dereferences the null `ccur` sets `crash`. The tokenizer
(`shell_parser`) is not under `src/`, so lines are given as token sequences.

The interpreter takes one `rl_helper` loop iteration per step:
- `Skip`: a command that is not executable;
- `Cd`: a `cd`, which runs in the interpreter;
- `Start`: fork, the pipe the iteration creates, `redirect`, the parent's closes, then the `&` return, or the wait test, or the advance;
- `Wait`: the `waitpid` for the command.

`Advance` is the `&&`/`||` update and `c = c->next`. The remaining shell actions:
- `RunList`: `run_list`, with `chain_in_bg` and the subshell fork;
- `End`: rl_helper's closing loop, which starts from null;
- `LineDone` and `ReadLine`: `main`'s line loop, with the `waitpid(-1, 0, WNOHANG)` calls (`ReapOne`);
- `SubDone`: a subshell's `_exit(1)`.

The programs are `ProgStep`, a small set of behaviours:
- `true`, `false`, and `maybe` (0 or 2);
- `prod`, which writes `Out` bytes;
- `wc`, which reads to end of file.

A write to a full pipe blocks. A write to a pipe with no reader dies of SIGPIPE.

**`MCSh61.tla`** gives the lines:
- `AndOrLine`: `maybe || cd bad && false || true`;
- `PipeLine`: `prod | wc`;
- `TriplePipeLine`: `prod | wc | wc`;
- `BgLine`: `prod > f | wc & wc < nofile ; true &`;
- `EmptyLine`: the empty line.

It also holds five witness lines. Each breaks one property through a defect of
the code, and section 3 lists them.

## 3. Runs

Passing runs:

| run | cfg | machine | checks |
|---|---|---|---|
| sched_liveness | SchedLiveness.cfg | 4 slots, 1 initial process | SchedTypeOK, StarvationFree (f) |
| kernel_safety | KernelSafety.cfg | 3 slots, 8 pages, MCRegion1 | TypeOK, RefcountCoversOwners (a), MemoryIsolation (b), SchedRefinement (the kernel implements WeensySched, with its fairness). 131,050 states in under a minute |
| io61_locks | IO61Locks.cfg | 3 threads, 2 regions, 8 ranges, MaxHeld 2 | TypeOK; RegionsMatchGrants (every region's count is the number of granted ranges covering it, and its owner is their thread); NoLostWakeup (a thread in `cv.wait` is eventually woken); LockRefinement (IO61Locks implements RangeLocks). 55,050 states |
| io61_cache | IO61Cache.cfg | bufsize 2, 3-byte file, 8 calls, forward-seeking writer | TypeOK (with the code's `tag <= pos_tag <= end_tag` assertions); ReadsMatchFile (every read returns exactly the file's bytes at the reader's position); WriterViewMatches (the cache laid over the disk equals what the writer wrote, and `end_tag - tag <= bufsize`). 181,049 states |
| sh61 | Sh61.cfg | 2 lines from MCLines, 4 commands per line, pipe capacity 1, prod writes 1 byte | RunsOnce (no command is run or skipped by two interpreters); ConditionalsFollowStatus (a command ran exactly when a reference and-or semantics over the statuses says it should); ForegroundDone (at the next prompt, every foreground command the shell started has exited); NoWaitOnBackground (the shell never waits on a command of a chain ending in `&`); Terminates (the shell reaches end of input). 7,210 states |
| io61_threads | IO61Threads.cfg | 2 threads, 2 rounds each, 4-byte file, 2-byte regions and cache | TypeOK (with pfill's alignment, and `dirty => positioned`: a dirty cache is flushed at `tag`, never at the fd's offset); NoLostUpdate (every byte as pread returns it equals the increments it received); Isolation (a thread's byte keeps the value it read until it unlocks); RoundsComplete (every round that calls io61_lock ends in io61_unlock). 38,009 states |
| m61_safety | M61Safety.cfg | 12-byte buffer, ALIGN 4, 3 allocating calls | TypeOK; HeapTiled (free and active blocks tile the buffer exactly); ClientViewMatches (every pointer the client holds is an active block at least as large as it asked for, and none overlap) |

Violation runs. Each one is a finding, and TLC finds each in two to four steps:

| run | property | finding |
|---|---|---|
| kernel_oom | ExhaustionRecoverable (d) | with 9 pages: a COW fault with no free page calls sys_exit and then `memcpy(nullptr, ...)`, a kernel fault (kernel.cc:314-318). With `NPAGES = 8` in KernelOom.cfg, TLC instead stops at a failed try_map in fork, which runs `assert(sys_exit(new_id) == 0)` on a P_FREE slot (kernel.cc:455) |
| io61_cache_seek_back | WriterViewMatches | IO61CacheSeekBack.cfg lets the writer seek back. After writec, seek(0) and write of 2 bytes, `end_tag` has grown by 2 although one byte overwrote a cached one (cache io61.cc:194): tag 0, pos_tag 2, end_tag 3 with bufsize 2. The next flush writes only `pos_tag - tag` bytes, and the next write finds no space and spins, or writec stores past `cbuf` |
| sched_self_kill | ResumesRunnable (e) | kill of one's own pid returns to a freed process (kernel.cc:526) |
| m61_false_wild_write | NoFalseWildWrite | realloc shrinking in place writes the magic byte only if the padded size changed (m61.cc:162). After malloc(0) and realloc(p, 1), a client's write to its own byte is reported as a wild write when it frees |
| sh61_pipe_full | Terminates | Sh61PipeFull.cfg runs `prod | wc` with prod writing 2 bytes into a 1-byte pipe. rl_helper waits for prod before forking wc (sh61.cc:170-172), so prod blocks for ever and the shell with it |

Sh61's pass run uses lines that avoid five more defects. Each witness line in
MCSh61 breaks one property when it is put in `Lines`:
- `SkippedBgLine` (`maybe || prod & wc`) breaks RunsOnce. A skipped `&` command does not return (sh61.cc:166, 178), so the subshell runs `wc` too;
- `SkippedPipeLine` (`maybe && prod | wc`) breaks ConditionalsFollowStatus. Only the pipeline's first command is skipped (sh61.cc:183-186);
- `LateBgLine` (`true ; maybe && true &`) breaks NoWaitOnBackground. rl_helper runs on past `;` into the background chain (sh61.cc:143, 207);
- `RedirectedHeadLine` (`prod > f | wc | wc`) breaks ForegroundDone. The head of a 3-pipeline is never waited for (sh61.cc:170);
- `CdPipeLine` (`cd ok | wc`) breaks Terminates. The shell keeps the write end of the pipe made for cd (sh61.cc:156-162).

WeensyKernel states `RefcountExact` (c), which has no run of its own. The
run cap gives the slot to io61_threads. TLC breaks (c) with KernelSafety.cfg's
constants: after fork, a page_alloc over the shared page never releases the old
page (kernel.cc:555). That breaks the contract in u-lib.hh and spec §8.

M61 also states four properties that have no run of their own. TLC breaks
each when it is given as an INVARIANT with M61Safety.cfg's constants:
- `ActiveSizeExact`: the same realloc shrink path adds the difference of the padded sizes to `active_size` (m61.cc:169), while malloc and free count requested sizes (m61.cc:117, 263);
- `CallocNoCrash`: `m61_calloc(c, 0)` divides by `sz` in its overflow check;
- `EmptyHeapCoalesced`: both coalescing loops skip the lowest free block (`!= begin()`, m61.cc:243, 253), so after malloc and its free the buffer stays in two free blocks;
- `ReallocNoOverRead`: a growing realloc copies the new size, not the old one, from the old block. Near the end of the buffer that reads past it.

They are listed as hazards in `PROJECT.json`. In the same way, IO61Locks
states `NoRegionOverrun`. TLC breaks it in three states when `Ranges` is
`MCRangesPastEnd`: lock [0,1), then lock [3,5), which reads `reg[2]` of a
two-entry array (fTx io61.cc:98).

Because of that leak, (c) cannot hold. kernel_safety therefore checks the
weaker (a), which is what prevents reuse of a live page. The extra refcount
then stops fork from being explored forever: `MaxRef` is a model bound on how
high a refcount fork may push. In KernelSafety.cfg it is 2, so fork is not
taken while a page is already shared.

Why the bounds are enough:
- **8 pages with MCRegion1 and 3 slots:** setup takes 5 pages: root, one table page, two image pages and the stack. A fork takes 2: the child's root and its table page, since user pages are shared copy-on-write. So one fork fits and leaves one page. That page goes to a COW copy, a page_alloc or part of a second fork, and TLC reaches both the COW and the fork out-of-memory halts.
- **At most two live processes:** one fork fits in 8 pages, and `MaxRef` 2 blocks a second fork while the first still shares pages. So the third slot stays free, and no page is shared by more than two processes. Copy-on-write sharing between two processes is what the refcount and isolation hazards need: fork, the fault, the sole-owner upgrade, exit and kill of one sharer.
- **A run under 1 minute:** the earlier machine, 2 slots and 10 pages with MCRegion, took 2.5 minutes for safety alone, and the liveness part of SchedRefinement made it slower still. The smaller machine keeps every branch above. kernel_oom still uses MCRegion.
- **WeensySched:** it has no memory, so four slots cost little.

Two assertion branches are modelled and TLC shows they are never reached:
- kfree's refcount assertion on exit or kill, which follows from (a);
- page_alloc's try_map assertion, since every process already owns every region's table page.

Every property of a passing run has a mutant in `PROJECT.json`. Each mutant is
a plausible slip in the code that TLC then catches:
- `ScheduleNoWrap`: a missing `% PID_MAX`;
- `ScheduleLowest`: the scan restarts at slot 0;
- `SysPageAllocNoNullCheck`;
- `KallocInUse`: a page with refcount 1 treated as free;
- `ForkPermCowOnly`: writable pages shared without COW;
- `RescheduleStale`: `schedule()` run on the process states from before the handler;
- `PaddingNone`: no alignment padding;
- `MallocOpNoPad`: the split-off remainder starts at the unpadded end;
- `GrowOpKeepOld`: a growing realloc that does not free the old block;
- `UnlockNoEmptyCheck`: unlock without the `len == 0` return, which wraps a count;
- `TakeNoOwner`: the lock loop does not record the owner;
- `UnlockNoNotify`: unlock without `notify_all`;
- `MayOverlapSkipLast`: the overlap loop stops before `rend`;
- `SeekNoEofCheck`: a reader's seek without the `pos_tag == end_tag` failure;
- `CacheFillNoAdvance`: `cache_fill` that does not advance the fd's offset `fpos` after the read;
- `FlushedKeepTag`: flush that does not set `tag = pos_tag`;
- `PfillNotPositioned`: pfill that does not set `positioned = true`, so a later pwrite leaves a dirty cache that is not positioned;
- `PfillNoFlush`: pfill that refills a dirty cache without writing it back. In io61_threads, `MayOverlapSkipLast` breaks Isolation and `UnlockNoNotify` breaks RoundsComplete;
- `ReturnsNever`: no return after a `&` command;
- `AdvanceNoOr`: `||` after a success does not skip;
- `MustWaitNotLast`: the last command is not waited for;
- `ChainInBgHere`: `chain_in_bg` reads only the current link;
- `ParentClosesRead`: the parent keeps the pipe's write end.

Why the io61 bounds are enough:
- **Locks:** three threads let two wait on one holder, so that both the notify-all and the recheck that fails again happen. Two regions and a range that spans both reach the partial overlaps. MaxHeld 2 lets a thread hold a range while it waits for another.
- **Threads:** two threads over two cache blocks. A round on byte 0 leaves the cache dirty, and another thread's round on bytes 2-3 must write it back before refilling. Overlapping exclusive ranges make a thread wait and be woken. The shared range lets a reader run beside a writer of another region. Two rounds per thread bring each byte to 2 and make a thread lock again while the other waits. Three threads, or ranges shared and exclusive everywhere, take over a minute, which liveness checking makes slower still.
- **Cache:** a 2-byte cache over 3 bytes needs a refill mid-read, reaches a short final block, and hits end of file both on and off a block boundary. Eight calls are enough for two refills, a flush, and a seek on either side of each.

Why the sh61 bounds are enough:
- **Lines:** two lines let a background chain from the first line still run while the second line is read and run. That is where the zombies and the WNOHANG reaps matter.
- **Three lines:** TLC takes 7 minutes.
- **Pipes:** capacity 1 with `Out = 1` lets the writer finish without a reader. Sh61PipeFull.cfg's `Out = 2` is the smallest case that fills the pipe.
- **Lines chosen:** together they reach every branch of rl_helper: skip, cd, the `&` return, wait, no wait (the middle of a 3-pipeline), and run_list's fork.

m61_safety's bound is 3 allocating calls: free and client writes are not
counted. That is enough for two live blocks, a free in the middle, and a
realloc that moves or fails. With 4 calls the state space does not finish in
5 minutes.

## 4. Fairness

The only fairness is `WF(Timer)`. Timer interrupts are enabled whenever user
code runs, since interrupts are only off inside the kernel, so a process can
never keep the CPU without a timer trap. Nothing else is assumed: a process may
never make a system call.

IO61Locks assumes:
- `WF(Recheck(t))`: a woken thread gets the mutex back once it is free, since the OS runs a runnable thread.
- `WF(Unlock(t, r))` for each range: the client eventually unlocks what it holds. The fairness is per range because a condition over "some range" would be met by locking and unlocking an empty range forever.

There is no fairness for `Lock`, `TryLock` or `Spurious`: a thread need never ask.
IO61Threads assumes `WF(ThreadRuns(t))` for each thread. A thread that was
woken rechecks, and a thread that holds its range reads, writes and unlocks.
At most one of these steps is enabled for a thread at a time. There is no
fairness for starting a round or for flushing.

IO61Cache is checked for safety only.

Sh61 assumes weak fairness of the shell's steps, of each subshell's steps and
of each program's steps. The OS runs every runnable process, and a process
blocked in `waitpid` or on a pipe is simply not enabled. Nothing is assumed of
when lines arrive beyond the bound `MaxLines`.

## 5. Not modelled

- **memshow, console, check_keyboard and ticks:** display only.
- **Page contents and registers:** no property depends on them.
- **fTx sequential I/O:** `io61_readc`, `io61_read`, `io61_writec`, `io61_write`, `io61_seek` and `io61_fill`. They assert `!positioned`, and threads sharing a file do not use them. Their logic is that of the `src/cache` version, which IO61Cache models.
- **Offsets past the end of the file in pread and pwrite:** they are not enumerated. A pwrite at the end returns 0, and one past it is silently dropped (fTx io61.cc:413). This is a hazard without a run.
- **The mmap branch of the fTx read path:** not modelled.
- **The cache's mmap branch:** never taken, for the reason given in section 2. `io61_close`, `io61_open_check`, `io61_fileno` and `io61_filesize` are only system-call wrappers.
- **I/O errors:** the disk's `read` and `write` always succeed, so `io61_flush`'s ignored write error (cache io61.cc:218) is a hazard without a property.
- **Starvation under notify_all:** not checked, because it would need strong fairness that the scheduler does not give.
- **sh61's tokenizer, prompt and input buffering:** `shell_parser` is not under `src/`, so lines are token sequences. The prompt, `fgets` into `buf`, `claim_foreground` and the `-q` and file arguments do not change what is run. Programs are abstract behaviours, and `cd` succeeds or fails by its argument. The zombie count is unbounded in the code and is not stated.
- **Further actions of a self-killed zombie:** the model lets it take only timer steps. In the code it could go on making system calls on a freed page table, which is worse than what the model shows.

## 6. Plan for the next stages

Most important first:
1. fTx: a run showing pwrite past the end of the file losing data, if a run slot frees up.
2. m61: a bounded check of `CoalesceUp` against a reference definition.
