--------------------------- MODULE MCWeensyKernel ---------------------------
(* Small machines for TLC.  The program is the allocator programs' shape:  *)
(* a read-only code page, a writable data page, a page left for            *)
(* sys_page_alloc and the stack page.  With MCRegion, user pages 1..2      *)
(* share the kernel's last-level table (region 0) and pages 3..4 need a    *)
(* second one, as 0x100000.. and 0x2FF000 do in WeensyOS, so try_map       *)
(* allocates page-table pages during setup, fork and page_alloc.  With     *)
(* MCRegion1 every user page is in region 0, so a process costs fewer      *)
(* pages and memory runs out later.                                        *)
EXTENDS WeensyKernel

MCRegion == <<0, 0, 1, 1>>
MCRegion1 == <<0, 0, 0, 0>>
MCImage == <<[va |-> 1, writable |-> FALSE], [va |-> 2, writable |-> TRUE]>>
=============================================================================
