-------------------------------- MODULE M61 ---------------------------------
(***************************************************************************)
(* The m61 debugging allocator of src/memory/m61.cc.  The 8 MiB buffer is  *)
(* addresses 0 .. BUFSIZE-1 (first_heap = 0); freed_addresses and          *)
(* active_addresses are functions from block start to size (resp. actual   *)
(* and padding size); magic is the set of buffer bytes that hold the       *)
(* value 61.  A client program calls m61_malloc, m61_calloc, m61_realloc   *)
(* and m61_free with arguments from small sets and writes single bytes     *)
(* anywhere in the buffer.  The ghost variables live and valid record what *)
(* the client was given and whether it has kept to the API so far.         *)
(***************************************************************************)
EXTENDS Integers, FiniteSets, FiniteSetsExt, Functions, TLC

CONSTANTS
    ALIGN,      \* alignof(std::max_align_t)
    BUFSIZE,    \* default_buffer.size
    SizeMod,    \* 2^w for the w-bit size_t of the statistics
    Sizes,      \* request sizes the client passes
    Counts,     \* element counts the client passes to m61_calloc
    MaxCalls    \* model bound: allocating calls (ntotal + nfail)

ASSUME ALIGN \in Nat \ {0} /\ BUFSIZE \in Nat \ {0} /\ SizeMod > BUFSIZE
       /\ Sizes \subseteq Nat /\ Counts \subseteq Nat /\ MaxCalls \in Nat

Null == -1                      \* nullptr
UintptrMax == 2^30              \* UINTPTR_MAX, above every buffer address
Addr == 0 .. BUFSIZE - 1
Ptrs == {Null} \cup 0 .. BUFSIZE + 1   \* pointers a client may pass
Statuses == {"ok", "double_free", "not_in_heap", "not_allocated",
             "wild_write", "bad_realloc", "sigfpe", "segv"}

VARIABLES
    freed,      \* freed_addresses: block start -> size
    active,     \* active_addresses: start -> [actual, padding]
    magic,      \* buffer bytes equal to 61
    gstats,     \* m61_statistics
    status,     \* "ok", or why the program died (abort or signal)
    live,       \* ghost: pointers the client holds -> size it asked for
    valid       \* ghost: the client has only used its own bytes and pointers

vars == <<freed, active, magic, gstats, status, live, valid>>

-----------------------------------------------------------------------------
(* std::map operations *)

\* insert({k, v}): no effect if k is already a key.
Insert(f, k, v) == IF k \in DOMAIN f THEN f ELSE (k :> v) @@ f
Erase(f, k) == Restrict(f, DOMAIN f \ {k})

\* The allocator's state as one record, so that m61_realloc and m61_calloc
\* can run m61_malloc and m61_free inside one step.
Heap == [freed |-> freed, active |-> active, magic |-> magic,
         gstats |-> gstats, status |-> status]

-----------------------------------------------------------------------------
(* m61_malloc *)

\* Faulty padding: rounds up to a multiple of ALIGN, leaving no room for
\* the magic byte when sz is already a multiple.
PaddingNone(sz) == (ALIGN - (sz % ALIGN)) % ALIGN

\* Padding up to the next multiple of ALIGN, never zero: there is always
\* room for the magic byte after the sz requested bytes.
Padding(sz) ==
    IF ALIGN - (sz % ALIGN) = 0 THEN ALIGN - ((sz + 1) % ALIGN)
    ELSE ALIGN - (sz % ALIGN)

\* A failed allocation: ++nfail, fail_size += sz.
Fail(h, sz) ==
    [h EXCEPT !.gstats.nfail = @ + 1,
              !.gstats.fail_size = (@ + sz) % SizeMod]

\* The statistics of a successful allocation at f.
MallocStats(g, f, sz) ==
    LET ntotal == g.ntotal + 1
        hmin == IF ntotal = 1 THEN f ELSE g.heap_min
    IN [g EXCEPT !.ntotal = ntotal,
                 !.heap_min = IF hmin > f THEN f ELSE hmin,
                 !.heap_max = IF @ < f + sz THEN f + sz ELSE @,
                 !.nactive = @ + 1,
                 !.total_size = (@ + sz) % SizeMod,
                 !.active_size = (@ + sz) % SizeMod]

\* Faulty m61_malloc: the remainder block starts after the requested
\* bytes, forgetting the padding.
MallocOpNoPad(h, sz) ==
    LET need == sz + Padding(sz)
        fits == {k \in DOMAIN h.freed : h.freed[k] >= need}
    IN IF sz >= BUFSIZE \/ fits = {} THEN [h |-> Fail(h, sz), ptr |-> Null]
       ELSE LET f == Min(fits)
                left == h.freed[f] - need
                fr == IF left > 0 THEN Insert(h.freed, f + sz, left) ELSE h.freed
            IN [h |-> [h EXCEPT !.freed = Erase(fr, f),
                         !.active = Insert(@, f, [actual |-> sz, padding |-> Padding(sz)]),
                         !.magic = @ \cup {f + sz},
                         !.gstats = MallocStats(@, f, sz)],
                ptr |-> f]

\* First fit in address order; the rest of the block stays free; the magic
\* byte 61 is written right after the sz bytes.  [h, ptr]
MallocOp(h, sz) ==
    LET need == sz + Padding(sz)
        fits == {k \in DOMAIN h.freed : h.freed[k] >= need}
    IN IF sz >= BUFSIZE \/ fits = {} THEN [h |-> Fail(h, sz), ptr |-> Null]
       ELSE LET f == Min(fits)
                left == h.freed[f] - need
                fr == IF left > 0 THEN Insert(h.freed, f + need, left)
                      ELSE h.freed
            IN [h |-> [h EXCEPT
                         !.freed = Erase(fr, f),
                         !.active = Insert(@, f, [actual |-> sz,
                                                  padding |-> Padding(sz)]),
                         !.magic = @ \cup {f + sz},
                         !.gstats = MallocStats(@, f, sz)],
                ptr |-> f]

-----------------------------------------------------------------------------
(* m61_free *)

\* Coalesce down: merge with the nearest free block below if it ends at p,
\* unless that block is the first one in the map.  [fr, ptr, total]
CoalesceDown(fr, p, total) ==
    LET below == {k \in DOMAIN fr : k < p}
        prev == Max(below)
    IN IF below # {} /\ prev # Min(DOMAIN fr) /\ prev = p - fr[prev]
       THEN [fr |-> Erase(fr, prev), ptr |-> prev, total |-> total + fr[prev]]
       ELSE [fr |-> fr, ptr |-> p, total |-> total]

\* Coalesce up: absorb free blocks that start where the block ends, while
\* the next one is not the first one in the map.  [fr, total]
RECURSIVE CoalesceUp(_, _, _)
CoalesceUp(fr, p, total) ==
    LET above == {k \in DOMAIN fr : k > p}
        next == Min(above)
    IN IF above # {} /\ next # Min(DOMAIN fr) /\ next = p + total
       THEN CoalesceUp(Erase(fr, next), p, total + fr[next])
       ELSE [fr |-> fr, total |-> total]

\* The checks abort in this order: double free (p is a free block's
\* start), not in heap (above first_heap + size), not allocated, wild write
\* (the byte after the actual size is not 61).
FreeOp(h, p) ==
    IF p = Null THEN h
    ELSE IF p \in DOMAIN h.freed THEN [h EXCEPT !.status = "double_free"]
    ELSE IF p > BUFSIZE THEN [h EXCEPT !.status = "not_in_heap"]
    ELSE IF p \notin DOMAIN h.active THEN [h EXCEPT !.status = "not_allocated"]
    ELSE IF p + h.active[p].actual \notin h.magic
         THEN [h EXCEPT !.status = "wild_write"]
    ELSE LET a == h.active[p]
             down == CoalesceDown(h.freed, p, a.actual + a.padding)
             up == CoalesceUp(down.fr, down.ptr, down.total)
         IN [h EXCEPT !.freed = Insert(up.fr, down.ptr, up.total),
                      !.active = Erase(@, p),
                      !.gstats.nactive = @ - 1,
                      !.gstats.active_size = (@ - a.actual) % SizeMod]

-----------------------------------------------------------------------------
(* m61_realloc and m61_calloc *)

\* memcpy(q, p, n): the bytes q .. q+n-1 take the values of p .. p+n-1.
\* Bytes read past the end of the buffer are taken not to be 61.
Copy(mg, q, p, n) ==
    (mg \ {q + j : j \in 0 .. n - 1})
    \cup {q + j : j \in {i \in 0 .. n - 1 : p + i \in mg}}

\* Shrinking in place: new sizes recorded; a non-empty tail becomes a free
\* block and only then is the magic byte moved; active_size is adjusted by
\* the difference of the padded sizes.
ShrinkOp(h, p, sz) ==
    LET a == h.active[p]
        old == a.actual + a.padding
        new == sz + Padding(sz)
        diff == old - new
    IN [h EXCEPT !.active[p] = [actual |-> sz, padding |-> Padding(sz)],
                 !.freed = IF diff > 0 THEN Insert(@, p + new, diff) ELSE @,
                 !.magic = IF diff > 0 THEN @ \cup {p + sz} ELSE @,
                 !.gstats.active_size = (@ + new - old) % SizeMod]

\* Faulty growing realloc: the old block is never freed.
GrowOpKeepOld(h, p, sz) ==
    LET m == MallocOp(h, sz)
    IN IF m.ptr = Null THEN {m}
       ELSE {[h |-> [m.h EXCEPT !.magic = Copy(@, m.ptr, p, sz)], ptr |-> m.ptr]}

\* Growing: m61_malloc(sz); on success m61_free(p), then memcpy of sz bytes
\* from the old block, which may read past the end of the buffer (a fault
\* there, or not, depending on what is mapped after it).  A set of [h, ptr].
GrowOp(h, p, sz) ==
    LET m == MallocOp(h, sz)
        h3 == FreeOp(m.h, p)
    IN IF m.ptr = Null THEN {m}
       ELSE IF h3.status # "ok" THEN {[h |-> h3, ptr |-> Null]}
       ELSE {[h |-> [h3 EXCEPT !.magic = Copy(@, m.ptr, p, sz)], ptr |-> m.ptr]}
            \cup (IF p + sz > BUFSIZE
                  THEN {[h |-> [h3 EXCEPT !.status = "segv"], ptr |-> Null]}
                  ELSE {})

\* m61_realloc: size 0 frees; nullptr mallocs; an unknown pointer aborts;
\* otherwise shrink in place if the padded size fits, else grow.
ReallocOp(h, p, sz) ==
    IF sz = 0 THEN {[h |-> FreeOp(h, p), ptr |-> Null]}
    ELSE IF p = Null THEN {MallocOp(h, sz)}
    ELSE IF p \notin DOMAIN h.active
         THEN {[h |-> [h EXCEPT !.status = "bad_realloc"], ptr |-> Null]}
    ELSE IF sz + Padding(sz) <= h.active[p].actual + h.active[p].padding
         THEN {[h |-> ShrinkOp(h, p, sz), ptr |-> p]}
    ELSE GrowOp(h, p, sz)

\* m61_calloc: the overflow test divides SIZE_MAX by sz (a division by
\* zero when sz = 0); too large fails; else m61_malloc and zero the bytes.
CallocOp(h, count, sz) ==
    IF sz = 0 THEN [h |-> [h EXCEPT !.status = "sigfpe"], ptr |-> Null]
    ELSE IF sz * count >= BUFSIZE THEN [h |-> Fail(h, sz), ptr |-> Null]
    ELSE LET m == MallocOp(h, count * sz)
         IN IF m.ptr = Null THEN m
            ELSE [m EXCEPT !.h.magic = @ \ {m.ptr + j : j \in 0 .. count * sz - 1}]

-----------------------------------------------------------------------------
(* The client program *)

Apply(h) ==
    /\ freed' = h.freed /\ active' = h.active /\ magic' = h.magic
    /\ gstats' = h.gstats /\ status' = h.status

Running == status = "ok"
CanCall == gstats.ntotal + gstats.nfail < MaxCalls

\* A pointer the client may pass to free or realloc under the API.
Owned(p) == p = Null \/ p \in DOMAIN live

Malloc(sz) ==
    /\ Running /\ CanCall
    /\ LET m == MallocOp(Heap, sz)
       IN /\ Apply(m.h)
          /\ live' = IF m.ptr = Null THEN live ELSE (m.ptr :> sz) @@ live
    /\ UNCHANGED valid

Calloc(count, sz) ==
    /\ Running /\ CanCall
    /\ LET m == CallocOp(Heap, count, sz)
       IN /\ Apply(m.h)
          /\ live' = IF m.ptr = Null THEN live ELSE (m.ptr :> count * sz) @@ live
    /\ UNCHANGED valid

Free(p) ==
    /\ Running
    /\ Apply(FreeOp(Heap, p))
    /\ live' = Erase(live, p)
    /\ valid' = (valid /\ Owned(p))

Realloc(p, sz) ==
    /\ Running /\ CanCall
    /\ \E r \in ReallocOp(Heap, p, sz) :
          /\ Apply(r.h)
          /\ live' = IF sz = 0 THEN Erase(live, p)
                     ELSE IF r.ptr = Null THEN live
                     ELSE (r.ptr :> sz) @@ Erase(live, p)
    /\ valid' = (valid /\ Owned(p))

\* The client stores a byte (not 61) anywhere in the buffer; within the
\* sizes it asked for, that is its right.
Write(a) ==
    /\ Running
    /\ magic' = magic \ {a}
    /\ valid' = (valid /\ \E q \in DOMAIN live : q <= a /\ a < q + live[q])
    /\ UNCHANGED <<freed, active, gstats, status, live>>

\* Static initialisation: gstats, the empty maps, then default_buffer's
\* constructor inserting the whole (zero-filled) buffer as free.
Init ==
    /\ freed = (0 :> BUFSIZE)
    /\ active = [p \in {} |-> [actual |-> 0, padding |-> 0]]
    /\ magic = {}
    /\ gstats = [nactive |-> 0, active_size |-> 0, ntotal |-> 0,
                 total_size |-> 0, nfail |-> 0, fail_size |-> 0,
                 heap_min |-> UintptrMax, heap_max |-> 0]
    /\ status = "ok"
    /\ live = [p \in {} |-> 0]
    /\ valid = TRUE

Next ==
    \/ \E sz \in Sizes : Malloc(sz)
    \/ \E c \in Counts, sz \in Sizes : Calloc(c, sz)
    \/ \E p \in Ptrs : Free(p)
    \/ \E p \in Ptrs, sz \in Sizes : Realloc(p, sz)
    \/ \E a \in Addr : Write(a)

Spec == Init /\ [][Next]_vars

-----------------------------------------------------------------------------
(* Properties *)

TypeOK ==
    /\ freed \in [DOMAIN freed -> 1 .. BUFSIZE] /\ DOMAIN freed \subseteq Addr
    /\ DOMAIN active \subseteq Addr
    /\ active \in [DOMAIN active -> [actual : 0 .. BUFSIZE, padding : 1 .. ALIGN]]
    /\ magic \subseteq Addr
    /\ gstats \in [{"nactive", "active_size", "ntotal", "total_size", "nfail",
                    "fail_size", "heap_min", "heap_max"} -> Nat]
    /\ status \in Statuses
    /\ valid \in BOOLEAN

\* Every block the two maps describe: start, length, and which map.
Blocks ==
    {[at |-> k, len |-> freed[k], free |-> TRUE] : k \in DOMAIN freed}
    \cup {[at |-> k, len |-> active[k].actual + active[k].padding,
           free |-> FALSE] : k \in DOMAIN active}

\* The free and active blocks tile the buffer: every byte lies in exactly
\* one block and no block runs past the end.  Splitting in m61_malloc,
\* the tail handed back by a shrinking m61_realloc and the two coalescing
\* loops of m61_free must all keep the two maps consistent; an overlap is
\* memory handed out twice.
HeapTiled ==
    /\ \A b \in Blocks : b.at + b.len <= BUFSIZE
    /\ \A a \in Addr : Cardinality({b \in Blocks : b.at <= a /\ a < b.at + b.len}) = 1

\* While the client keeps to the API, the pointers it holds are exactly
\* the active blocks, each with the size it last asked for: m61_realloc's
\* in-place and moving paths and m61_free update active_addresses in step
\* with what they return.
ClientViewMatches ==
    valid /\ status = "ok" => live = [p \in DOMAIN active |-> active[p].actual]

\* m61_free reports a wild write only if the client really wrote outside
\* its allocations (the magic byte after the requested size is intact for
\* a client that kept to the API).
NoFalseWildWrite == valid => status # "wild_write"

\* gstats.active_size is the total size of the active allocations, as
\* m61_malloc adds and m61_free subtracts it.
ActiveSizeExact ==
    gstats.active_size = SumFunction([p \in DOMAIN active |-> active[p].actual])

\* Once everything is freed the buffer is one free block again: m61_free's
\* comment promises to coalesce with both neighbours.
EmptyHeapCoalesced ==
    status = "ok" /\ DOMAIN active = {} => freed = (0 :> BUFSIZE)

\* m61_calloc returns nullptr or memory; it may return nullptr for a zero
\* size (its comment), never kill the program.
CallocNoCrash == status # "sigfpe"

\* m61_realloc copies only memory the program owns; it never faults
\* reading past the end of the buffer.
ReallocNoOverRead == status # "segv"

=============================================================================
