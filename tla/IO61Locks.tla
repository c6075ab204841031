------------------------------ MODULE IO61Locks ------------------------------
(***************************************************************************)
(* The region locks of src/fTx/io61.cc.  io61_fdopen divides the file into *)
(* REGION_SIZE regions and allocates one reg_lock {locked, owner} per      *)
(* region of the file's size at open.  io61_lock, io61_try_lock and        *)
(* io61_unlock run under f->mutex, so each is one atomic step here, except *)
(* that io61_lock may wait on f->cv: cv.wait releases the mutex, and the   *)
(* thread re-tests may_overlap_with_other_lock once woken by notify_all    *)
(* (or spuriously) and has the mutex again.                                *)
(*                                                                         *)
(* Threads are the client: each locks ranges in increasing start order,    *)
(* at most MaxHeld at a time, and unlocks exactly what it was granted.     *)
(* The ghost variable granted records which calls returned 0.              *)
(***************************************************************************)
EXTENDS Integers, FiniteSets

CONSTANTS
    Threads,
    NoThread,       \* std::thread::id(): the owner of a region never locked
    REGION_SIZE,
    FileSize,       \* f->st.st_size at io61_fdopen
    Ranges,         \* lock requests [start, len, type]
    MaxHeld,        \* model bound: ranges a thread holds at once
    UINT_MAX        \* reg_lock.locked is unsigned and wraps past this

ASSUME NoThread \notin Threads /\ REGION_SIZE > 0 /\ MaxHeld > 0

NoRange == [start |-> 0, len |-> 0, type |-> "none"]

\* num_regions, rounded up; reg[] has exactly these entries.
NumRegions == (FileSize + (REGION_SIZE - 1)) \div REGION_SIZE
Regions == 0 .. NumRegions - 1

\* rstart .. rend of the lock functions.
RegionsOf(r) == (r.start \div REGION_SIZE) .. ((r.start + r.len - 1) \div REGION_SIZE)

VARIABLES
    locked,     \* reg[ri].locked
    owner,      \* reg[ri].owner
    pc,         \* "idle" (in its own code), "waiting" in cv.wait, "woken"
    want,       \* the range an io61_lock call in progress asks for
    granted,    \* ghost: ranges whose lock call returned 0
    overrun     \* reg[] was indexed past num_regions (undefined behaviour)

vars == <<locked, owner, pc, want, granted, overrun>>

\* ++ and -- on an unsigned.
Inc(n) == IF n = UINT_MAX THEN 0 ELSE n + 1
Dec(n) == IF n = 0 THEN UINT_MAX ELSE n - 1

\* Faulty test: the loop stops before the range's last region (ri < rend).
MayOverlapSkipLast(t, r) ==
    \E ri \in (r.start \div REGION_SIZE) .. ((r.start + r.len - 1) \div REGION_SIZE) - 1 :
        locked[ri] > 0 /\ owner[ri] # t

\* may_overlap_with_other_lock: some region of the range is locked by a
\* thread other than the last one recorded as its owner.
MayOverlap(t, r) == \E ri \in RegionsOf(r) : locked[ri] > 0 /\ owner[ri] # t

\* Faulty take: the owner assignment left out.
TakeNoOwner(t, r) ==
    /\ locked' = [ri \in Regions |->
                    IF ri \in RegionsOf(r) THEN Inc(locked[ri]) ELSE locked[ri]]
    /\ UNCHANGED owner

\* The loop that takes every region of the range for t.
Take(t, r) ==
    /\ locked' = [ri \in Regions |->
                    IF ri \in RegionsOf(r) THEN Inc(locked[ri])
                    ELSE locked[ri]]
    /\ owner' = [ri \in Regions |-> IF ri \in RegionsOf(r) THEN t ELSE owner[ri]]

Grant(t, r) == granted' = [granted EXCEPT ![t] = @ \cup {r}]

\* The model's clients: a new lock starts after every range the thread holds.
\* This order is assumed by the model, not asked for by the code; it keeps
\* wait cycles, which io61_lock never detects, out of the runs.
CanLock(t, r) ==
    /\ pc[t] = "idle" /\ ~overrun
    /\ Cardinality(granted[t]) < MaxHeld
    /\ \A q \in granted[t] : q.start < r.start

\* A range with a region past reg[]: the first read of reg[ri] is already
\* out of bounds.
Overrun(r) ==
    /\ r.len > 0 /\ ~(RegionsOf(r) \subseteq Regions)
    /\ overrun' = TRUE
    /\ UNCHANGED <<locked, owner, pc, want, granted>>

\* len == 0 returns 0 without touching the regions.
EmptyGrant(t, r) ==
    /\ r.len = 0
    /\ Grant(t, r)
    /\ UNCHANGED <<locked, owner, pc, want, overrun>>

\* io61_try_lock: fails at once (no state change) if may_overlap.
TryLock(t, r) ==
    /\ CanLock(t, r)
    /\ \/ EmptyGrant(t, r)
       \/ Overrun(r)
       \/ /\ r.len > 0 /\ RegionsOf(r) \subseteq Regions
          /\ ~MayOverlap(t, r)
          /\ Take(t, r) /\ Grant(t, r)
          /\ UNCHANGED <<pc, want, overrun>>

\* io61_lock: takes the regions, or enters cv.wait.
Lock(t, r) ==
    /\ CanLock(t, r)
    /\ \/ EmptyGrant(t, r)
       \/ Overrun(r)
       \/ /\ r.len > 0 /\ RegionsOf(r) \subseteq Regions
          /\ \/ /\ ~MayOverlap(t, r)
                /\ Take(t, r) /\ Grant(t, r)
                /\ UNCHANGED <<pc, want, overrun>>
             \/ /\ MayOverlap(t, r)
                /\ pc' = [pc EXCEPT ![t] = "waiting"]
                /\ want' = [want EXCEPT ![t] = r]
                /\ UNCHANGED <<locked, owner, granted, overrun>>

\* cv.wait returns without a notify (a spurious wakeup).
Spurious(t) ==
    /\ pc[t] = "waiting" /\ ~overrun
    /\ pc' = [pc EXCEPT ![t] = "woken"]
    /\ UNCHANGED <<locked, owner, want, granted, overrun>>

\* A woken thread holds f->mutex again and re-tests the while condition.
Recheck(t) ==
    /\ pc[t] = "woken" /\ ~overrun
    /\ LET r == want[t] IN
       \/ /\ ~MayOverlap(t, r)
          /\ Take(t, r) /\ Grant(t, r)
          /\ pc' = [pc EXCEPT ![t] = "idle"]
          /\ want' = [want EXCEPT ![t] = NoRange]
          /\ UNCHANGED overrun
       \/ /\ MayOverlap(t, r)
          /\ pc' = [pc EXCEPT ![t] = "waiting"]
          /\ UNCHANGED <<locked, owner, want, granted, overrun>>

\* Faulty unlocks: without the len == 0 early return, and without the
\* notify_all.
UnlockNoEmptyCheck(t, r) ==
    /\ pc[t] = "idle" /\ ~overrun
    /\ r \in granted[t]
    /\ granted' = [granted EXCEPT ![t] = @ \ {r}]
    /\ locked' = [ri \in Regions |->
                    IF ri \in RegionsOf(r) THEN Dec(locked[ri]) ELSE locked[ri]]
    /\ pc' = [u \in Threads |-> IF pc[u] = "waiting" THEN "woken" ELSE pc[u]]
    /\ UNCHANGED <<owner, want, overrun>>
UnlockNoNotify(t, r) ==
    /\ pc[t] = "idle" /\ ~overrun
    /\ r \in granted[t]
    /\ granted' = [granted EXCEPT ![t] = @ \ {r}]
    /\ locked' = [ri \in Regions |->
                    IF ri \in RegionsOf(r) THEN Dec(locked[ri]) ELSE locked[ri]]
    /\ UNCHANGED <<owner, pc, want, overrun>>

\* io61_unlock: decrement every region of the range (owner is left as it
\* is), then notify_all wakes every waiting thread.
Unlock(t, r) ==
    /\ pc[t] = "idle" /\ ~overrun
    /\ r \in granted[t]
    /\ granted' = [granted EXCEPT ![t] = @ \ {r}]
    /\ \/ /\ r.len = 0
          /\ UNCHANGED <<locked, owner, pc, want, overrun>>
       \/ /\ r.len > 0
          /\ locked' = [ri \in Regions |->
                          IF ri \in RegionsOf(r) THEN Dec(locked[ri])
                          ELSE locked[ri]]
          /\ pc' = [u \in Threads |-> IF pc[u] = "waiting" THEN "woken" ELSE pc[u]]
          /\ UNCHANGED <<owner, want, overrun>>

\* io61_fdopen: reg = new reg_lock[num_regions], all zero.
Init ==
    /\ locked = [ri \in Regions |-> 0]
    /\ owner = [ri \in Regions |-> NoThread]
    /\ pc = [t \in Threads |-> "idle"]
    /\ want = [t \in Threads |-> NoRange]
    /\ granted = [t \in Threads |-> {}]
    /\ overrun = FALSE

Next ==
    \E t \in Threads :
        \/ Recheck(t)
        \/ Spurious(t)
        \/ \E r \in Ranges : Lock(t, r) \/ TryLock(t, r) \/ Unlock(t, r)

\* The OS runs a thread that can run, and a client eventually unlocks
\* each range it holds.  A thread need never ask for a lock.
Spec ==
    /\ Init /\ [][Next]_vars
    /\ \A t \in Threads :
          /\ WF_vars(Recheck(t))
          /\ \A r \in Ranges : WF_vars(Unlock(t, r))

-----------------------------------------------------------------------------
(* Properties *)

TypeOK ==
    /\ locked \in [Regions -> 0 .. Cardinality(Threads) * MaxHeld]
    /\ owner \in [Regions -> Threads \cup {NoThread}]
    /\ pc \in [Threads -> {"idle", "waiting", "woken"}]
    /\ want \in [Threads -> Ranges \cup {NoRange}]
    /\ granted \in [Threads -> SUBSET Ranges]
    /\ overrun \in BOOLEAN

\* The region table agrees with the grants: reg[ri].locked counts the
\* granted ranges that cover ri, and a locked region's owner is the one
\* thread holding it.  io61_unlock decrements without checking the
\* owner, and may_overlap trusts the single owner field, so a count or an
\* owner out of step lets one thread's unlock release another's region.
RegionsMatchGrants ==
    \A ri \in Regions :
        LET holders == {<<t, r>> \in Threads \X Ranges :
                            r \in granted[t] /\ r.len > 0 /\ ri \in RegionsOf(r)}
        IN /\ locked[ri] = Cardinality(holders)
           /\ \A h \in holders : owner[ri] = h[1]

\* No lost wakeup: a thread blocked in io61_lock's cv.wait is eventually
\* woken.  The test of may_overlap and the wait happen under f->mutex, and
\* io61_unlock's notify_all happens under it too.
NoLostWakeup == \A t \in Threads : pc[t] = "waiting" ~> pc[t] # "waiting"

\* The region locks implement the byte-range API (RangeLocks): a lock call
\* returns 0 only when no other thread holds a conflicting range.
Abs == INSTANCE RangeLocks WITH held <- granted
LockRefinement == Abs!LockSpec

\* A lock call never indexes reg[] past num_regions: io61_fdopen sizes the
\* array by the file size at open, and nothing in the API limits the range.
NoRegionOverrun == ~overrun

=============================================================================
