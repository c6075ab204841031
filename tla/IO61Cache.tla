------------------------------ MODULE IO61Cache ------------------------------
(***************************************************************************)
(* The single-slot cache of src/cache/io61.cc for one io61_file, opened    *)
(* O_RDONLY on a file with contents FileInit or O_WRONLY on an empty file. *)
(* cbuf holds bytes for offsets tag .. end_tag-1 and pos_tag is the next   *)
(* offset the client reads or writes.  The kernel's side is the file's     *)
(* contents disk and the descriptor's offset fpos.                         *)
(*                                                                         *)
(* io61_fdopen never fills f->st, so its mmap is given an indeterminate    *)
(* length; the model takes the outcome of a fresh allocation (st_size 0,   *)
(* mmap fails with EINVAL) and so the MAP_FAILED branches.  System calls   *)
(* succeed: read and write are not interrupted and the disk does not fill. *)
(*                                                                         *)
(* The ghost variables are the client's view: lpos, where it thinks it     *)
(* is; logical, the file a correct writer would leave; got, what the last  *)
(* read returned and from where.                                           *)
(***************************************************************************)
EXTENDS Integers, Sequences, SequencesExt

CONSTANTS
    bufsize,    \* io61_file::bufsize (4096)
    FileInit,   \* contents of the file opened O_RDONLY
    Sizes,      \* sz arguments of io61_read and io61_write
    ReadOffsets,    \* off arguments of io61_seek on the reader
    WriteOffsets,   \* off arguments of io61_seek on the writer
    WriterSeeksBack, \* FALSE: the writer only seeks past all it has written
    MaxOps      \* model bound: calls per run

RDONLY == "O_RDONLY"
WRONLY == "O_WRONLY"
EOF == -1
Slots == 0 .. bufsize - 1

VARIABLES
    mode, disk, fpos,               \* f->mode, the file, the fd's offset
    cbuf, tag, end_tag, pos_tag,    \* the cache
    status,                         \* "ok", or how the program went wrong
    ops, lpos, logical, got         \* call count and client ghosts

vars == <<mode, disk, fpos, cbuf, tag, end_tag, pos_tag, status, ops, lpos,
          logical, got>>

\* The cache and the descriptor as a record, threaded through helpers.
File == [cbuf |-> cbuf, tag |-> tag, end |-> end_tag, pos |-> pos_tag,
         fpos |-> fpos, disk |-> disk]

Apply(f) ==
    /\ cbuf' = f.cbuf /\ tag' = f.tag /\ end_tag' = f.end /\ pos_tag' = f.pos
    /\ fpos' = f.fpos /\ disk' = f.disk

\* Faulty fill: the descriptor's offset is not advanced past the bytes read.
CacheFillNoAdvance(f) ==
    LET n == Min({bufsize, Len(f.disk) - f.fpos})
        g == [f EXCEPT !.tag = f.end, !.pos = f.end,
                       !.cbuf = [i \in Slots |-> IF i < n THEN f.disk[f.fpos + i + 1]
                                                 ELSE f.cbuf[i]]]
    IN IF n > 0 THEN [f |-> [g EXCEPT !.end = g.tag + n], n |-> n]
       ELSE [f |-> g, n |-> -1]

\* read(fd, cbuf, bufsize): up to bufsize bytes from the fd's offset.
\* cache_fill returns -1 at end of file: read returns 0 and errno is not
\* EINTR or EAGAIN.
CacheFill(f) ==
    LET n == Min({bufsize, Len(f.disk) - f.fpos})
        g == [f EXCEPT !.tag = f.end, !.pos = f.end, !.fpos = @ + n,
                       !.cbuf = [i \in Slots |-> IF i < n THEN f.disk[f.fpos + i + 1]
                                                 ELSE f.cbuf[i]]]
    IN IF n > 0 THEN [f |-> [g EXCEPT !.end = g.tag + n], n |-> n]
       ELSE [f |-> g, n |-> -1]

\* io61_read's loop, from `have` bytes read so far.
RECURSIVE ReadLoop(_, _, _)
ReadLoop(f, sz, have) ==
    IF Len(have) >= sz THEN [f |-> f, data |-> have]
    ELSE LET c == IF f.pos = f.end THEN CacheFill(f) ELSE [f |-> f, n |-> 1]
             g == c.f
             k == Min({g.end - g.pos, sz - Len(have)})
         IN IF c.n = 0 \/ g.pos = g.end THEN [f |-> g, data |-> have]
            ELSE ReadLoop([g EXCEPT !.pos = @ + k], sz,
                          have \o [j \in 1 .. k |-> g.cbuf[g.pos - g.tag + j - 1]])

\* Faulty flush: tag is left where it was.
FlushedKeepTag(f) ==
    LET towrite == f.pos - f.tag
        at == f.fpos
        new == [i \in 1 .. Max({Len(f.disk), at + towrite}) |->
                   IF i > at /\ i <= at + towrite THEN f.cbuf[i - at - 1]
                   ELSE IF i <= Len(f.disk) THEN f.disk[i] ELSE 0]
    IN [f EXCEPT !.disk = new, !.fpos = at + towrite]

\* io61_flush: O_RDONLY returns 0; otherwise write cbuf[0 .. pos-tag) at
\* the fd's offset (extending the file) and set tag = pos_tag.
Flushed(f) ==
    LET towrite == f.pos - f.tag
        at == f.fpos
        new == [i \in 1 .. Max({Len(f.disk), at + towrite}) |->
                   IF i > at /\ i <= at + towrite THEN f.cbuf[i - at - 1]
                   ELSE IF i <= Len(f.disk) THEN f.disk[i] ELSE 0]
    IN [f EXCEPT !.disk = new, !.fpos = at + towrite, !.tag = f.pos]

FlushOp(f) == IF mode = RDONLY THEN f ELSE Flushed(f)

\* io61_write's loop; byte j of the data is data[j].  A chunk of 0 bytes
\* (pos_tag at the end of the slot with end_tag elsewhere) repeats for
\* ever: the result is then [hang |-> TRUE].
RECURSIVE WriteLoop(_, _)
WriteLoop(f, data) ==
    IF data = <<>> THEN [f |-> f, hang |-> FALSE]
    ELSE LET g == IF f.end = f.tag + bufsize THEN FlushOp(f) ELSE f
             k == Min({Len(data), g.tag + bufsize - g.pos})
             h == [g EXCEPT !.cbuf = [i \in Slots |->
                                 IF i >= g.pos - g.tag /\ i < g.pos - g.tag + k
                                 THEN data[i - (g.pos - g.tag) + 1] ELSE g.cbuf[i]],
                            !.pos = @ + k, !.end = @ + k]
         IN IF k <= 0 THEN [f |-> g, hang |-> TRUE]
            ELSE WriteLoop(h, SubSeq(data, k + 1, Len(data)))

\* What a correct file would contain after writing data at offset at.
Overlay(l, at, data) ==
    [i \in 1 .. Max({Len(l), at + Len(data)}) |->
        IF i > at /\ i <= at + Len(data) THEN data[i - at]
        ELSE IF i <= Len(l) THEN l[i] ELSE 0]

\* Distinct bytes for every call: byte j of call number v is 10*v + j.
Payload(sz) == [j \in 1 .. sz |-> 10 * (ops + 1) + j]

Call == status = "ok" /\ ops < MaxOps /\ ops' = ops + 1

-----------------------------------------------------------------------------
(* Calls *)

ReadC ==
    /\ Call /\ mode = RDONLY
    /\ LET c == IF pos_tag = end_tag THEN CacheFill(File) ELSE [f |-> File, n |-> 1]
       IN \/ /\ c.n <= 0
             /\ Apply(c.f)
             /\ got' = [at |-> lpos, sz |-> 1, data |-> <<>>]
             /\ UNCHANGED lpos
          \/ /\ c.n > 0
             /\ Apply([c.f EXCEPT !.pos = @ + 1])
             /\ got' = [at |-> lpos, sz |-> 1, data |-> <<c.f.cbuf[c.f.pos - c.f.tag]>>]
             /\ lpos' = lpos + 1
    /\ UNCHANGED <<mode, status, logical>>

Read(sz) ==
    /\ Call /\ mode = RDONLY
    /\ LET r == ReadLoop(File, sz, <<>>)
       IN /\ Apply(r.f)
          /\ got' = [at |-> lpos, sz |-> sz, data |-> r.data]
          /\ lpos' = lpos + Len(r.data)
    /\ UNCHANGED <<mode, status, logical>>

\* A store at cbuf[pos_tag - tag] past the array lands on the fields after
\* it: the program is then off the rails ("overflow").
WriteC ==
    /\ Call /\ mode = WRONLY
    /\ LET g == IF end_tag = tag + bufsize THEN FlushOp(File) ELSE File
           b == Payload(1)[1]
           past == g.pos - g.tag >= bufsize
       IN /\ Apply(IF past THEN g
                   ELSE [g EXCEPT !.cbuf[g.pos - g.tag] = b, !.pos = @ + 1,
                                  !.end = IF g.pos + 1 > g.end THEN g.pos + 1 ELSE g.end])
          /\ status' = IF past THEN "overflow" ELSE status
    /\ logical' = Overlay(logical, lpos, Payload(1))
    /\ lpos' = lpos + 1
    /\ UNCHANGED <<mode, got>>

Write(sz) ==
    /\ Call /\ mode = WRONLY
    /\ LET w == WriteLoop(File, Payload(sz))
       IN /\ Apply(w.f)
          /\ status' = IF w.hang THEN "hang" ELSE status
    /\ logical' = Overlay(logical, lpos, Payload(sz))
    /\ lpos' = lpos + sz
    /\ UNCHANGED <<mode, got>>

Flush ==
    /\ Call
    /\ Apply(FlushOp(File))
    /\ UNCHANGED <<mode, status, lpos, logical, got>>

\* Faulty seek: the reader adds off % bufsize even when the fill is empty.
SeekNoEofCheck(off) ==
    /\ Call
    /\ off \in (IF mode = RDONLY THEN ReadOffsets ELSE WriteOffsets)
    /\ mode = WRONLY /\ ~WriterSeeksBack => off > Len(logical)
    /\ \/ /\ off >= tag /\ off < end_tag
          /\ Apply([File EXCEPT !.pos = off])
       \/ /\ ~(off >= tag /\ off < end_tag) /\ mode = RDONLY
          /\ LET a == off - (off % bufsize)
                 c == CacheFill([File EXCEPT !.fpos = a, !.tag = a, !.end = a, !.pos = a])
             IN Apply([c.f EXCEPT !.pos = @ + (off % bufsize)])
       \/ /\ ~(off >= tag /\ off < end_tag) /\ mode = WRONLY
          /\ Apply([Flushed(File) EXCEPT !.fpos = off, !.tag = off, !.end = off,
                                         !.pos = off])
    /\ lpos' = off
    /\ UNCHANGED <<mode, status, logical, got>>

\* io61_seek on the MAP_FAILED branch.  Inside the cache only pos_tag
\* moves; otherwise a reader refills from the aligned offset (and returns
\* -1, left at that offset, if the fill is empty) and a writer flushes and
\* restarts the cache.
Seek(off) ==
    /\ Call
    /\ off \in (IF mode = RDONLY THEN ReadOffsets ELSE WriteOffsets)
    /\ mode = WRONLY /\ ~WriterSeeksBack => off > Len(logical)
    /\ \/ /\ off >= tag /\ off < end_tag
          /\ Apply([File EXCEPT !.pos = off])
          /\ lpos' = off
       \/ /\ ~(off >= tag /\ off < end_tag) /\ mode = RDONLY
          /\ LET a == off - (off % bufsize)
                 c == CacheFill([File EXCEPT !.fpos = a, !.tag = a, !.end = a, !.pos = a])
             IN \/ /\ c.f.pos = c.f.end
                   /\ Apply(c.f)
                   /\ lpos' = a
                \/ /\ c.f.pos # c.f.end
                   /\ Apply([c.f EXCEPT !.pos = @ + (off % bufsize)])
                   /\ lpos' = off
       \/ /\ ~(off >= tag /\ off < end_tag) /\ mode = WRONLY
          /\ Apply([Flushed(File) EXCEPT !.fpos = off, !.tag = off, !.end = off,
                                         !.pos = off])
          /\ lpos' = off
    /\ UNCHANGED <<mode, status, logical, got>>

\* io61_fdopen on a freshly opened file: offset 0, empty cache.
Init ==
    /\ mode \in {RDONLY, WRONLY}
    /\ disk = IF mode = RDONLY THEN FileInit ELSE <<>>
    /\ fpos = 0
    /\ cbuf = [i \in Slots |-> 0]
    /\ tag = 0 /\ end_tag = 0 /\ pos_tag = 0
    /\ status = "ok"
    /\ ops = 0 /\ lpos = 0
    /\ logical = <<>>
    /\ got = [at |-> 0, sz |-> 0, data |-> <<>>]

Next ==
    \/ ReadC \/ WriteC \/ Flush
    \/ \E sz \in Sizes : Read(sz) \/ Write(sz)
    \/ \E off \in ReadOffsets \cup WriteOffsets : Seek(off)

Spec == Init /\ [][Next]_vars

-----------------------------------------------------------------------------
(* Properties *)

\* The variables have their types, and the cache keeps the order of its
\* offsets that cache_fill, io61_read and io61_write assert.
TypeOK ==
    /\ mode \in {RDONLY, WRONLY}
    /\ disk \in Seq(Int) /\ fpos \in Nat
    /\ cbuf \in [Slots -> Int]
    /\ {tag, end_tag, pos_tag} \subseteq Nat
    \* asserted by cache_fill, io61_read and io61_write
    /\ tag <= pos_tag /\ pos_tag <= end_tag
    /\ status \in {"ok", "hang", "overflow"}
    /\ ops \in 0 .. MaxOps /\ lpos \in Nat

\* A reader sees the file: every io61_readc and io61_read returns the
\* file's bytes at the client's position, as many as asked for unless the
\* file ends first, and the cache's pos_tag is the client's position.
\* cache_fill, the refill and realignment in io61_seek, and the copy loop
\* of io61_read must agree on tag, end_tag, pos_tag and the fd's offset.
ReadsMatchFile ==
    mode = RDONLY =>
        /\ got.data = SubSeq(disk, got.at + 1, got.at + Len(got.data))
        /\ Len(got.data) = Min({got.sz, Max({0, Len(disk) - got.at})})
        /\ pos_tag = lpos

\* The file as it would read after a flush: the cached bytes tag+1 ..
\* end_tag over the disk, unwritten offsets reading as 0.
View(i) ==
    IF tag < i /\ i <= end_tag THEN cbuf[i - tag - 1]
    ELSE IF i <= Len(disk) THEN disk[i] ELSE 0
Padded(l, i) == IF i <= Len(l) THEN l[i] ELSE 0

\* A writer's file is what it wrote: the slot holds at most bufsize bytes
\* starting at tag, the fd's offset is tag, pos_tag is the client's
\* position, and disk plus cache read back as the bytes written, each at
\* the offset the client wrote it.  io61_write, io61_writec, io61_flush
\* and io61_seek all move tag, pos_tag and end_tag and must keep this.
WriterViewMatches ==
    mode = WRONLY =>
        /\ status = "ok"
        /\ tag <= pos_tag /\ pos_tag <= end_tag /\ end_tag - tag <= bufsize
        /\ fpos = tag /\ pos_tag = lpos
        /\ \A i \in 1 .. Max({Len(logical), Len(disk), end_tag}) :
              View(i) = Padded(logical, i)

=============================================================================
