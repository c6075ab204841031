----------------------------- MODULE MCIO61Cache -----------------------------
(* A two-byte slot stands for the 4096-byte one: a three-byte file then   *)
(* needs two fills, the last one short, and a three-byte write crosses a  *)
(* flush.  The reader seeks anywhere in the file, its end and past it.       *)
EXTENDS IO61Cache

MCFile == <<1, 2, 3>>
MCReadOffsets == 0 .. 5
MCWriteOffsets == {0, 1, 5}
=============================================================================
