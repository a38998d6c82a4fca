------------------------------- MODULE MCMm -------------------------------
(* Bounds for Mm: two tasks of one code and two data pages over a memory   *)
(* with five frames alloc_frame can reach, one fewer than two tasks need,  *)
(* so that frames are reused, leaked and exhausted.  Pages of 16 entries   *)
(* of 4 bytes; the kernel's pages are 0 (absent), two for task, two for    *)
(* dir_pages and two for pagusr_table, in the linker's order.              *)
EXTENDS Mm
MCTempPages == {10}
===========================================================================
