----------------------------- MODULE RangeLocks ------------------------------
(***************************************************************************)
(* What the file-locking API of src/fTx/io61.cc promises, at the level of  *)
(* byte ranges: io61_lock and io61_try_lock grant a thread the offsets     *)
(* [start, start+len) as LOCK_SH (shared) or LOCK_EX (exclusive), and      *)
(* io61_unlock gives them back.  A grant never conflicts with a range      *)
(* another thread holds: two ranges conflict when they share a byte and    *)
(* one of them is exclusive.  Blocking and failed attempts are not visible *)
(* here; they are stuttering steps.  IO61Locks implements this.            *)
(***************************************************************************)
EXTENDS Integers

CONSTANTS
    Threads,    \* the threads that share one io61_file
    Ranges      \* lock requests: [start, len, type] with type LOCK_SH/LOCK_EX

VARIABLE held   \* held[t]: the ranges t's lock calls returned 0 for

Bytes(r) == r.start .. r.start + r.len - 1

Conflict(r, q) ==
    /\ Bytes(r) \cap Bytes(q) # {}
    /\ "LOCK_EX" \in {r.type, q.type}

\* A lock call returns 0: no other thread holds a conflicting range.
Acquire(t, r) ==
    /\ r \notin held[t]
    /\ \A u \in Threads \ {t} : \A q \in held[u] : ~Conflict(r, q)
    /\ held' = [held EXCEPT ![t] = @ \cup {r}]

\* io61_unlock of a range the thread holds.
Release(t, r) ==
    /\ r \in held[t]
    /\ held' = [held EXCEPT ![t] = @ \ {r}]

LockInit == held = [t \in Threads |-> {}]

LockNext == \E t \in Threads, r \in Ranges : Acquire(t, r) \/ Release(t, r)

LockSpec == LockInit /\ [][LockNext]_held

=============================================================================
