---------------------------- MODULE MCIO61Threads ----------------------------
(* A four-byte file in two regions of two bytes and a two-byte cache, so  *)
(* a round may refill the cache and write back another thread's dirty     *)
(* byte.  Threads lock byte 0, bytes 1-2 across both regions, or bytes    *)
(* 2-3 exclusively, and bytes 1-2 shared.                                 *)
EXTENDS IO61Threads

MCThreadRanges ==
    {[start |-> s[1], len |-> s[2], type |-> "LOCK_EX"] : s \in {<<0, 1>>, <<1, 2>>, <<2, 2>>}}
    \cup {[start |-> 1, len |-> 2, type |-> "LOCK_SH"]}
=============================================================================
