----------------------------- MODULE IO61Threads -----------------------------
(***************************************************************************)
(* Threads sharing one io61_file of src/fTx/io61.cc, opened O_RDWR: the   *)
(* region locks of IO61Locks composed with the positioned cache of        *)
(* IO61PCache, as the threaded clients of the API use them.  A thread     *)
(* takes a range with io61_lock, reads one byte of it with io61_pread,    *)
(* and under LOCK_EX writes the byte back plus one with io61_pwrite; then *)
(* io61_unlock.  Any thread may call io61_flush at any time.  The lock    *)
(* calls run under f->mutex and the cache calls under f->rmutex, two      *)
(* different mutexes, so a cache call may fall between any two steps of   *)
(* the locks, and each call is one step.                                   *)
(*                                                                         *)
(* The file starts as zeros; incs is a ghost: the increments each byte    *)
(* has received.                                                           *)
(***************************************************************************)
EXTENDS IO61PCache, FiniteSets

CONSTANTS
    Threads, NoThread, REGION_SIZE, Ranges, MaxHeld, UINT_MAX,
    FileLen,    \* the file's size at io61_fdopen, in bytes
    Vals,       \* what new io61_file's cbuf may hold
    MaxIncs     \* model bound: lock-and-update rounds per thread

VARIABLES
    locked, owner, pc, want, granted, overrun,  \* the region locks
    file,       \* the io61_file's cache and the file (an IO61PCache record)
    cl,         \* each thread's client state
    incs        \* ghost

L == INSTANCE IO61Locks WITH FileSize <- FileLen

lockVars == <<locked, owner, pc, want, granted, overrun>>
vars == <<lockVars, file, cl, incs>>

Offsets == 0 .. FileLen - 1
Idle == [st |-> "idle", r |-> L!NoRange, b |-> 0, v |-> 0, n |-> 0]

\* The byte offsets a range covers, within the file.
RangeBytes(r) == {b \in Offsets : r.start <= b /\ b < r.start + r.len}

\* io61_lock(f, off, len, type) for a round: the thread may be made to wait.
Begin(t, r) ==
    /\ cl[t].st = "idle" /\ cl[t].n < MaxIncs
    /\ r.len > 0
    /\ L!Lock(t, r)
    /\ cl' = [cl EXCEPT ![t] = [@ EXCEPT !.st = "locking", !.r = r]]
    /\ UNCHANGED <<file, incs>>

\* The thread holds its range (io61_lock returned 0) and preads a byte.
Read(t, b) ==
    LET P == Pread(file, b, 1) IN
    /\ cl[t].st = "locking" /\ cl[t].r \in granted[t] /\ pc[t] = "idle"
    /\ b \in RangeBytes(cl[t].r)
    /\ file' = P.f
    /\ cl' = [cl EXCEPT ![t] = [@ EXCEPT !.st = "read", !.b = b, !.v = P.data[1]]]
    /\ UNCHANGED <<lockVars, incs>>

\* Under LOCK_EX: pwrite of the value read plus one.
Write(t) ==
    LET P == Pwrite(file, cl[t].b, <<cl[t].v + 1>>) IN
    /\ cl[t].st = "read" /\ cl[t].r.type = "LOCK_EX"
    /\ file' = P.f
    /\ incs' = [incs EXCEPT ![cl[t].b] = @ + 1]
    /\ cl' = [cl EXCEPT ![t] = [@ EXCEPT !.st = "wrote"]]
    /\ UNCHANGED lockVars

\* io61_unlock of the range: after the write, or after the read under
\* LOCK_SH.
Finish(t) ==
    /\ \/ cl[t].st = "wrote"
       \/ cl[t].st = "read" /\ cl[t].r.type = "LOCK_SH"
    /\ L!Unlock(t, cl[t].r)
    /\ cl' = [cl EXCEPT ![t] = [Idle EXCEPT !.n = cl[t].n + 1]]
    /\ UNCHANGED <<file, incs>>

\* io61_flush from any thread.
Flush ==
    /\ file.dirty
    /\ file' = FlushLocked(file)
    /\ UNCHANGED <<lockVars, cl, incs>>

\* A thread in cv.wait, woken or not.
LockWait(t) ==
    /\ L!Recheck(t) \/ L!Spurious(t)
    /\ UNCHANGED <<file, cl, incs>>

Init ==
    /\ L!Init
    /\ \E v0 \in Vals : file = Opened([i \in 1 .. FileLen |-> 0], v0)
    /\ cl = [t \in Threads |-> Idle]
    /\ incs = [b \in Offsets |-> 0]

Next ==
    \/ Flush
    \/ \E t \in Threads :
          \/ LockWait(t) \/ Write(t) \/ Finish(t)
          \/ \E r \in Ranges : Begin(t, r)
          \/ \E b \in Offsets : Read(t, b)

\* A step of thread t once it no longer waits for a caller: recheck after a
\* wakeup, then read, write and unlock.  At most one is enabled at a time.
ThreadRuns(t) ==
    \/ L!Recheck(t) /\ UNCHANGED <<file, cl, incs>>
    \/ \E b \in Offsets : Read(t, b)
    \/ Write(t)
    \/ Finish(t)

\* The OS runs a thread that can run.  A thread need never start a round,
\* and nothing need ever flush.
Spec ==
    /\ Init /\ [][Next]_vars
    /\ \A t \in Threads : WF_vars(ThreadRuns(t))

-----------------------------------------------------------------------------
(* Properties *)

\* The record shapes; io61_pfill's alignment (a positioned cache starts at
\* a multiple of the buffer size and holds at most BUFSZ bytes); and a
\* dirty cache is always positioned, so io61_flush takes the positioned
\* write-back at tag rather than io61_flush_dirty at the fd's offset.
TypeOK ==
    /\ cl \in [Threads -> [st : {"idle", "locking", "read", "wrote"}, r : Ranges \cup {L!NoRange},
                           b : Offsets, v : Nat, n : 0 .. MaxIncs]]
    /\ incs \in [Offsets -> Nat]
    /\ file.tag % BUFSZ = 0 /\ file.end - file.tag \in 0 .. BUFSZ
    /\ file.dirty => file.positioned

\* No update is lost: every byte of the file, as io61_pread would return it
\* (the cache where it holds the byte, the disk elsewhere), has been
\* incremented exactly as often as threads wrote it.  A refill that drops
\* a dirty cache, a flush of the wrong bytes, or two threads updating one
\* byte at once each break it.
NoLostUpdate == \A b \in Offsets : View(file, b) = incs[b]

\* Isolation: between a thread's io61_pread and its io61_unlock, the byte
\* it read keeps the value it read, whatever other threads lock, read,
\* write and flush.  It needs the region locks to exclude every writer of
\* the byte, across the 64-byte region arithmetic.
Isolation == \A t \in Threads : cl[t].st = "read" => View(file, cl[t].b) = cl[t].v

\* Every thread that calls io61_lock for a round eventually unlocks it:
\* waiters are woken by io61_unlock's notify_all, and cache calls never
\* wait.
RoundsComplete == \A t \in Threads : cl[t].st = "locking" ~> cl[t].st = "idle"
=============================================================================
