------------------------------ MODULE Allocator ------------------------------
(***************************************************************************)
(* What an allocator promises: intervals of memory that are handed out,    *)
(* resized and taken back one at a time, and that never share a byte.      *)
(***************************************************************************)
EXTENDS Integers

CONSTANT MemTop

Addr == 0 .. MemTop

VARIABLE alloc   \* alloc[p]: the bytes the program owns at p, 0 if none

Init == alloc = [p \in Addr |-> 0]

\* n bytes at p would not touch what is allocated elsewhere.
Free(p, n) ==
  \A q \in Addr : q # p /\ alloc[q] # 0 => p + n <= q \/ q + alloc[q] <= p

\* malloc, and realloc in place, with 0 bytes before a malloc.
Grant(p, n) ==
  /\ alloc' = [alloc EXCEPT ![p] = n]
  /\ p + n <= MemTop + 1
  /\ Free(p, n)

Release(p) ==
  /\ alloc' = [alloc EXCEPT ![p] = 0]
  /\ alloc[p] # 0

Next ==
  \E p \in Addr :
    \/ \E n \in 1 .. (MemTop + 1) : Grant(p, n)
    \/ Release(p)

Spec == Init /\ [][Next]_alloc
=============================================================================
