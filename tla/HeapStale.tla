------------------------------ MODULE HeapStale ------------------------------
(***************************************************************************)
(* The allocator under a program that also hands back pointers it no       *)
(* longer owns, or pointers into the middle of its memory: free.c:10-20    *)
(* and realloc.c:18-34 promise to ignore them as long as the old header    *)
(* has not been overwritten.                                               *)
(***************************************************************************)
EXTENDS Heap

VARIABLE freed   \* pointers given back whose old header is still intact

allvars == <<vars, freed>>

StaleInit == Init /\ freed = {}

\* The header in front of p lies in memory that the headers h give away.
Overwritten(h, p) ==
  \E b \in Blocks(h) : /\ h[b].magic = USED
                       /\ Payload(b) <= get_block_ptr(p)
                       /\ get_block_ptr(p) < End(h, b)

\* What every step does to freed: add what was live and no longer is,
\* drop what is live again or overwritten.
Track ==
  freed' = {p \in freed \cup {q \in Addr : need[q] # 0} :
              need'[p] = 0 /\ ~Overwritten(hdr', p)}

\* Pointers a correct program would not pass.
Foreign == freed \cup {p \in Addr : p - 1 \in Owned}

StaleCall(t) ==
  \E p \in Foreign :
    Free(t, p) \/ \E n \in Sizes : Realloc(t, p, n)

StaleNext ==
  /\ \E t \in Threads :
       Step(t) \/ StaleCall(t) \/ FreeIgnore(t) \/ ReallocRefuse(t)
  /\ Track

StaleSpec == StaleInit /\ [][StaleNext]_allvars

\* A thread that holds the lock, or is copying, is eventually scheduled (it
\* never blocks there).  Nothing is promised to a thread that spins.
StaleInside(t) ==
  /\ Inside(t) \/ ReallocCopy(t) \/ FreeIgnore(t) \/ ReallocRefuse(t)
  /\ Track

StaleFairSpec ==
  StaleSpec /\ \A t \in Threads : WF_allvars(StaleInside(t))

\* A block that is freed twice, reallocated after it was freed, or whose
\* pointer is misaligned is left alone, wherever coalescing and splitting
\* have moved the headers since: only live memory is ever released.
OnlyLiveReleased ==
  [][\A t \in Threads :
       FreeMark(t) \/ ReallocInPlace(t) \/ ReallocMove(t)
         => need[loc[t].ptr] # 0]_allvars
=============================================================================
