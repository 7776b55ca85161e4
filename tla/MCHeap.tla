------------------------------- MODULE MCHeap -------------------------------
(***************************************************************************)
(* The allocator on a small machine: two pages of 8 bytes (page 0 is never *)
(* mapped), headers of 2 bytes and a 5-bit size_t.  Of the sizes, 1 splits *)
(* a page in two, 6 fills it, calloc(2, 6) needs both pages, 17 exceeds    *)
(* memory and overflows calloc(2, 17), 28 overflows the length of the      *)
(* mapping, and 30 leaves no room for the header.                          *)
(***************************************************************************)
EXTENDS Heap, TLC

\* Threads differ in nothing but their names.
Symmetry == Permutations(Threads)
=============================================================================
