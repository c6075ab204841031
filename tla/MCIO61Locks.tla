----------------------------- MODULE MCIO61Locks -----------------------------
(* Two regions of two bytes each stand for REGION_SIZE = 64; the region   *)
(* arithmetic is the same.  The requests cover one byte of region 0, a    *)
(* range spanning both regions, one of region 1 only, and an empty range, *)
(* each shared or exclusive.  MCRangesPastEnd adds a range that runs past *)
(* the end of the file.                                                    *)
EXTENDS IO61Locks

MCSpans == {<<0, 1>>, <<1, 2>>, <<2, 2>>, <<3, 0>>}
MCRanges == {[start |-> s[1], len |-> s[2], type |-> ty] :
                s \in MCSpans, ty \in {"LOCK_SH", "LOCK_EX"}}
MCRangesPastEnd == MCRanges \cup {[start |-> 3, len |-> 2, type |-> "LOCK_EX"]}
=============================================================================
