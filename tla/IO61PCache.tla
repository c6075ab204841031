------------------------------ MODULE IO61PCache -----------------------------
(***************************************************************************)
(* The positioned mode of the single-slot cache of src/fTx/io61.cc: the   *)
(* cache of one io61_file opened O_RDWR, and what io61_pread, io61_pwrite, *)
(* io61_pfill and io61_flush do to it and to the file.  Every one of them  *)
(* runs under f->rmutex, so each is a function from the file record to the *)
(* next one; the caller applies it in one step.                            *)
(*                                                                         *)
(* The record F has the fields of io61_file that these functions touch:   *)
(* cbuf (slots 0 .. BUFSZ-1), tag, end (end_tag), pos (pos_tag), dirty,   *)
(* positioned, and disk, the file's bytes.  pread and pwrite of the fd    *)
(* succeed, so the -1 returns of io61_pfill are not taken.                 *)
(***************************************************************************)
EXTENDS Integers, Sequences

CONSTANT BUFSZ     \* io61_file::cbufsz, and the 8192 io61_pfill rounds to

Slots == 0 .. BUFSZ - 1
NoByte == -1        \* a byte copied from outside cbuf

FileBytes(f) == Len(f.disk)     \* disk[b + 1] is the byte at offset b

\* The file as a client sees it: the cache's bytes where the cache is
\* positioned and holds them, the disk's elsewhere.
View(f, b) ==
    IF f.positioned /\ f.tag <= b /\ b < f.end THEN f.cbuf[b - f.tag]
    ELSE f.disk[b + 1]

\* io61_flush_dirty_positioned: pwrite of cbuf[0 .. end_tag - tag) at
\* offset tag, looping until all is written; the cache stays.
FlushDirtyPositioned(f) ==
    [f EXCEPT !.dirty = FALSE,
              !.disk = [i \in DOMAIN f.disk |->
                          IF f.tag <= i - 1 /\ i - 1 < f.end THEN f.cbuf[i - 1 - f.tag]
                          ELSE f.disk[i]]]

\* io61_flush_dirty: write at the descriptor's offset, which the code
\* assumes equals tag; then tag = pos_tag = end_tag.
FlushDirty(f) ==
    [FlushDirtyPositioned(f) EXCEPT !.tag = f.end, !.pos = f.end]

\* io61_flush_clean: a non-positioned cache is dropped at pos_tag.
FlushClean(f) ==
    IF ~f.positioned THEN [f EXCEPT !.tag = f.pos, !.end = f.pos] ELSE f

\* io61_flush_locked (and io61_flush, which only adds the lock).
FlushLocked(f) ==
    IF f.dirty /\ f.positioned THEN FlushDirtyPositioned(f)
    ELSE IF f.dirty THEN FlushDirty(f)
    ELSE FlushClean(f)

\* Faulty fill: the cache is filled but not marked positioned.
PfillNotPositioned(f, off) ==
    LET g == IF f.dirty THEN FlushLocked(f) ELSE f
        aoff == off - (off % BUFSZ)
        nr == IF aoff >= FileBytes(g) THEN 0 ELSE IF FileBytes(g) - aoff < BUFSZ
                                                 THEN FileBytes(g) - aoff ELSE BUFSZ
    IN [g EXCEPT !.cbuf = [j \in Slots |-> IF j < nr THEN g.disk[aoff + j + 1]
                                          ELSE g.cbuf[j]],
                 !.tag = aoff, !.end = aoff + nr]

\* Faulty fill: the dirty cache is refilled without being written back.
PfillNoFlush(f, off) ==
    LET aoff == off - (off % BUFSZ)
        nr == IF aoff >= FileBytes(f) THEN 0 ELSE IF FileBytes(f) - aoff < BUFSZ
                                                 THEN FileBytes(f) - aoff ELSE BUFSZ
    IN [f EXCEPT !.cbuf = [j \in Slots |-> IF j < nr THEN f.disk[aoff + j + 1]
                                          ELSE f.cbuf[j]],
                 !.tag = aoff, !.end = aoff + nr, !.positioned = TRUE]

\* io61_pfill: write back a dirty cache, then pread BUFSZ bytes at off
\* rounded down to a multiple of BUFSZ.  pread returns fewer bytes near
\* the end of the file and 0 past it; the slots it does not fill keep
\* what they held.
Pfill(f, off) ==
    LET g == IF f.dirty THEN FlushLocked(f) ELSE f
        aoff == off - (off % BUFSZ)
        nr == IF aoff >= FileBytes(g) THEN 0 ELSE IF FileBytes(g) - aoff < BUFSZ
                                                 THEN FileBytes(g) - aoff ELSE BUFSZ
    IN [g EXCEPT !.cbuf = [j \in Slots |-> IF j < nr THEN g.disk[aoff + j + 1]
                                          ELSE g.cbuf[j]],
                 !.tag = aoff, !.end = aoff + nr, !.positioned = TRUE]

\* The test io61_pread and io61_pwrite make before copying.
NeedsFill(f, off) == ~f.positioned \/ off < f.tag \/ off >= f.end

\* ncopy = min(sz, nleft) with nleft = end_tag - off a size_t: a
\* negative difference wraps to a huge value and ncopy is sz.
Ncopy(f, off, sz) ==
    LET nleft == f.end - off IN
    IF nleft < 0 \/ sz <= nleft THEN sz ELSE nleft

\* io61_pread(f, buf, sz, off): the bytes copied from cbuf and their count.
Pread(f, off, sz) ==
    LET g == IF NeedsFill(f, off) THEN Pfill(f, off) ELSE f
        n == Ncopy(g, off, sz)
    IN [f |-> g, n |-> n,
        data |-> [j \in 1 .. n |-> IF off - g.tag + j - 1 \in Slots
                                   THEN g.cbuf[off - g.tag + j - 1] ELSE NoByte]]

\* io61_pwrite(f, buf, sz, off): vals copied into cbuf at off - tag; the
\* cache becomes dirty.  over is a store past the end of cbuf.
Pwrite(f, off, vals) ==
    LET g == IF NeedsFill(f, off) THEN Pfill(f, off) ELSE f
        n == Ncopy(g, off, Len(vals))
        at == off - g.tag
    IN [f |-> [g EXCEPT !.dirty = TRUE,
                        !.cbuf = [j \in Slots |-> IF at <= j /\ j < at + n
                                                  THEN vals[j - at + 1] ELSE g.cbuf[j]]],
        n |-> n, over |-> at + n > BUFSZ]

\* io61_fdopen on a seekable file at offset 0: an empty, clean cache.
Opened(disk0, v0) ==
    [cbuf |-> [j \in Slots |-> v0], tag |-> 0, end |-> 0, pos |-> 0,
     dirty |-> FALSE, positioned |-> FALSE, disk |-> disk0]
=============================================================================
