-------------------------------- MODULE MCM61 --------------------------------
(* A 12-byte buffer with 4-byte alignment: three minimal blocks.  Sizes 1  *)
(* and 2 share a 4-byte block (a realloc between them moves nothing), 5    *)
(* needs 8 bytes (realloc grows and shrinks across blocks), 0 is the      *)
(* smallest request and 12 is too large for the buffer.                   *)
EXTENDS M61

MCSizes == {0, 1, 2, 5, 12}
MCCounts == {0, 2}
=============================================================================
