-------------------------------- MODULE Heap --------------------------------
(***************************************************************************)
(* The memory allocator of Small-LibC: malloc, calloc, realloc and free    *)
(* (src/c/stdlib).  Every block of memory starts with a header (struct     *)
(* block_meta); the headers form one doubly linked list from heap_base,    *)
(* searched first-fit.  One spin lock, malloc_lock, guards the list.       *)
(*                                                                         *)
(* An address is a number of bytes, NULL is address 0.  The constants      *)
(* scale the code's sizes down and keep their relations.  A call is a      *)
(* sequence of steps of its thread: the accesses of a critical section     *)
(* that change the list are steps of their own, so the model shows what    *)
(* the lock is for.                                                        *)
(*                                                                         *)
(* A definition named after another one with an ending (Remainder_used,    *)
(* Calloc_wraps, ...) is  a variant of it with a plausible bug.  Nothing   *)
(* uses the variants here: they show that each property can be violated.   *)
(***************************************************************************)
EXTENDS Integers, FiniteSets

CONSTANTS
  Threads,          \* threads that call the allocator
  Sizes,            \* the request sizes the program uses
  Counts,           \* the first argument of calloc
  ALIGNMENT,        \* 16 in malloc.h
  BLOCK_META_SIZE,  \* 32: the header, rounded up to ALIGNMENT
  PAGE_SIZE,        \* 4096
  SIZE_MAX,         \* the largest size_t: arithmetic wraps beyond it
  MemTop            \* the last address of the process

ASSUME HeapAssumption ==
  /\ ALIGNMENT \in Nat /\ BLOCK_META_SIZE \in Nat /\ PAGE_SIZE \in Nat
  /\ SIZE_MAX \in Nat /\ MemTop \in Nat
  /\ 0 < ALIGNMENT /\ ALIGNMENT <= BLOCK_META_SIZE
  /\ BLOCK_META_SIZE < PAGE_SIZE /\ PAGE_SIZE <= SIZE_MAX
  /\ MemTop <= SIZE_MAX
  /\ Sizes \subseteq Nat /\ Counts \subseteq Nat

Null == 0
Addr == 0 .. MemTop

FREE == "MAGIC_FREE"
USED == "MAGIC_USED"
NONE == "no header"

NoHeader == [size |-> 0, next |-> Null, prev |-> Null, magic |-> NONE]

VARIABLES
  heap_base,    \* the first block of the list
  malloc_lock,  \* 1 while a thread is inside a critical section
  hdr,          \* hdr[a]: the block header that starts at address a
  need,         \* need[p]: bytes the program was promised at p, 0 if none
  pc,           \* where each thread is in its call
  loc           \* each thread's arguments and local variables

vars == <<heap_base, malloc_lock, hdr, need, pc, loc>>

Header == [size : Nat, next : Addr, prev : Addr, magic : {FREE, USED, NONE}]

\* op says which public call a thread is in; "move" is the malloc that
\* realloc makes and "drop" the free it ends with.
Ops == {"none", "malloc", "free", "realloc", "move", "drop"}

\* want is what the program asked for, size what the call computes from it.
Local == [op : Ops, ptr : Addr, size : Nat, want : Nat,
          block : Addr, last : Addr, new : Addr]

NoCall == [op |-> "none", ptr |-> Null, size |-> 0, want |-> 0,
           block |-> Null, last |-> Null, new |-> Null]

\* The places between taking the lock and releasing it.
Critical == {"scan", "split", "mark", "coalesce", "resize"}
Places == Critical \cup {"idle", "lock", "copy"}

-----------------------------------------------------------------------------
(* Sizes.                                                                  *)

Wrap(n) == n % (SIZE_MAX + 1)

\* ALIGN(size)
Align(n) == (Wrap(n + (ALIGNMENT - 1)) \div ALIGNMENT) * ALIGNMENT

\* The guard malloc and realloc share: a size the header still fits on.
TooLarge(n) == n > SIZE_MAX - BLOCK_META_SIZE

\* The length request_space asks mmap for; it may have wrapped.
MapLength(total) ==
  (Wrap(total + (PAGE_SIZE - 1)) \div PAGE_SIZE) * PAGE_SIZE

-----------------------------------------------------------------------------
(* The block list: pure functions of the headers h.                        *)

Blocks(h) == {a \in Addr : h[a].magic # NONE}

End(h, b) == b + BLOCK_META_SIZE + h[b].size

Payload(b) == b + BLOCK_META_SIZE
get_block_ptr(p) == p - BLOCK_META_SIZE

\* Make prev of block a, unless a is NULL, point to b.
SetPrev(h, a, b) == IF a = Null THEN h ELSE [h EXCEPT ![a].prev = b]

\* A block is split when a header and ALIGNMENT bytes are left over.
Splits(h, b, size) == h[b].size >= size + BLOCK_META_SIZE + ALIGNMENT

\* The block made of what is left over.
Remainder(h, b, size) ==
  [size |-> h[b].size - size - BLOCK_META_SIZE,
   next |-> h[b].next, prev |-> b, magic |-> FREE]

split_block(h, b, size) ==
  LET new == Payload(b) + size IN
  IF Splits(h, b, size)
  THEN [SetPrev(h, h[b].next, new) EXCEPT
          ![new] = Remainder(h, b, size),
          ![b].size = size,
          ![b].next = new]
  ELSE h

\* Block b takes over its successor n, whose header is no longer one.
Absorb(h, b, n) ==
  [SetPrev(h, h[n].next, b) EXCEPT
     ![n] = NoHeader,
     ![b].size = h[b].size + BLOCK_META_SIZE + h[n].size,
     ![b].next = h[n].next]

\* b's successor in the list is free and starts where b ends.
CanAbsorb(h, b, n) == n # Null /\ b # Null /\ End(h, b) = n

\* Bug: the magic of the neighbour is not tested.
MergeNext_any(h, b) ==
  IF CanAbsorb(h, b, h[b].next) THEN Absorb(h, b, h[b].next) ELSE h

MergeNext(h, b) ==
  IF /\ CanAbsorb(h, b, h[b].next)
     /\ h[h[b].next].magic = FREE
  THEN Absorb(h, b, h[b].next)
  ELSE h

MergePrev(h, b) ==
  IF /\ CanAbsorb(h, h[b].prev, b)
     /\ h[h[b].prev].magic = FREE
  THEN Absorb(h, h[b].prev, b)
  ELSE h

coalesce(h, b) == MergePrev(MergeNext(h, b), b)

\* A block b of size bytes, USED, at the end of the list.
Append(h, b, size, last) ==
  [(IF last = Null THEN h ELSE [h EXCEPT ![last].next = b]) EXCEPT
     ![b] = [size |-> size, next |-> Null, prev |-> last, magic |-> USED]]

\* What mmap promises (external): page-aligned fresh memory.
MapFree(h, a, len) ==
  /\ a # Null /\ a % PAGE_SIZE = 0
  /\ a + len <= MemTop + 1
  /\ \A b \in Blocks(h) : a + len <= b \/ End(h, b) <= a

-----------------------------------------------------------------------------
(* Calls.                                                                  *)

Init ==
  /\ heap_base = Null
  /\ malloc_lock = 0
  /\ hdr = [a \in Addr |-> NoHeader]
  /\ need = [a \in Addr |-> 0]
  /\ pc = [t \in Threads |-> "idle"]
  /\ loc = [t \in Threads |-> NoCall]

Goto(t, place) == pc' = [pc EXCEPT ![t] = place]

\* A call of t begins and will first take the lock.
Begin(t, call) ==
  /\ loc' = [loc EXCEPT ![t] = call]
  /\ Goto(t, "lock")
  /\ UNCHANGED <<heap_base, malloc_lock, hdr, need>>

\* A call of t that returns before it takes the lock.
Return(t) == pc[t] = "idle" /\ UNCHANGED vars

\* A call of t ends and releases the lock.
Leave(t) ==
  /\ malloc_lock' = 0
  /\ loc' = [loc EXCEPT ![t] = NoCall]
  /\ Goto(t, "idle")

\* The pointers t's unfinished call works on: the program may not pass
\* them to another call.
Holds(t) == {loc[t].ptr, loc[t].new} \ {Null}

Busy(p) == \E t \in Threads : pc[t] # "idle" /\ p \in Holds(t)

Owned == {p \in Addr : need[p] # 0 /\ ~Busy(p)}

Malloc(t, n) ==
  /\ pc[t] = "idle"
  /\ IF n = 0 \/ TooLarge(n)
     THEN Return(t)
     ELSE Begin(t, [NoCall EXCEPT !.op = "malloc", !.size = n, !.want = n])

\* Bug: the product may wrap.
Calloc_wraps(t, m, n) ==
  /\ pc[t] = "idle"
  /\ IF m = 0 \/ n = 0 \/ TooLarge(Wrap(m * n))
     THEN Return(t)
     ELSE Begin(t, [NoCall EXCEPT !.op = "malloc",
                                  !.size = Wrap(m * n), !.want = m * n])

\* The memset of calloc writes the n * m bytes the block was taken for.
Calloc(t, m, n) ==
  /\ pc[t] = "idle"
  /\ IF m = 0 \/ n = 0 \/ m * n > SIZE_MAX \/ TooLarge(m * n)
     THEN Return(t)
     ELSE Begin(t, [NoCall EXCEPT !.op = "malloc",
                                 !.size = m * n, !.want = m * n])

\* free and realloc turn away a pointer malloc cannot have returned.
Misaligned(p) == p % ALIGNMENT # 0

Free(t, p) ==
  /\ pc[t] = "idle"
  /\ IF Misaligned(p)
     THEN Return(t)
     ELSE Begin(t, [NoCall EXCEPT !.op = "free", !.ptr = p])

\* free(NULL) does nothing; realloc(NULL, n) is malloc(n).
FreeNull(t) == Return(t)

Realloc(t, p, n) ==
  /\ pc[t] = "idle"
  /\ \/ n = 0 /\ Free(t, p)
     \/ n # 0 /\ (Misaligned(p) \/ TooLarge(n)) /\ Return(t)
     \/ /\ n # 0 /\ ~Misaligned(p) /\ ~TooLarge(n)
        /\ Begin(t, [NoCall EXCEPT !.op = "realloc", !.ptr = p,
                               !.size = n, !.want = n])

-----------------------------------------------------------------------------
(* The steps of a call.                                                    *)

\* The spin of __malloc_spin_lock ends.
Acquired == malloc_lock = 0

\* __malloc_spin_lock, and the first reads under it.
Lock(t) ==
  /\ pc[t] = "lock"
  /\ Acquired
  /\ malloc_lock' = 1
  /\ \/ /\ loc[t].op \in {"malloc", "move"}
        /\ loc' = [loc EXCEPT ![t].block = heap_base, ![t].last = Null]
        /\ Goto(t, "scan")
     \/ /\ loc[t].op \in {"free", "drop"}
        /\ loc' = [loc EXCEPT ![t].block = get_block_ptr(loc[t].ptr)]
        /\ Goto(t, "mark")
     \/ /\ loc[t].op = "realloc"
        /\ loc' = [loc EXCEPT ![t].block = get_block_ptr(loc[t].ptr)]
        /\ Goto(t, "resize")
  /\ UNCHANGED <<heap_base, hdr, need>>

\* Bug: a block of exactly the right size is passed over.
Fits_strict(t) == /\ hdr[loc[t].block].magic = FREE
                  /\ hdr[loc[t].block].size > Align(loc[t].size)

Fits(t) == /\ hdr[loc[t].block].magic = FREE
           /\ hdr[loc[t].block].size >= Align(loc[t].size)

\* The search loop of malloc: step over a block, or take it.
ScanNext(t) ==
  /\ pc[t] = "scan" /\ loc[t].block # Null /\ ~Fits(t)
  /\ loc' = [loc EXCEPT ![t].last = loc[t].block,
                        ![t].block = hdr[loc[t].block].next]
  /\ UNCHANGED <<heap_base, malloc_lock, hdr, need, pc>>

ScanTake(t) ==
  /\ pc[t] = "scan" /\ loc[t].block # Null /\ Fits(t)
  /\ hdr' = [hdr EXCEPT ![loc[t].block].magic = USED]
  /\ Goto(t, "split")
  /\ UNCHANGED <<heap_base, malloc_lock, need, loc>>

\* request_space appends a fresh region behind the last block.
Grow(t) ==
  LET total == Align(loc[t].size) + BLOCK_META_SIZE
      len == MapLength(total)
  IN
  /\ pc[t] = "scan" /\ loc[t].block = Null
  /\ total <= SIZE_MAX /\ len >= total
  /\ \E a \in Addr :
       /\ MapFree(hdr, a, len)
       /\ hdr' = Append(hdr, a, len - BLOCK_META_SIZE, loc[t].last)
       /\ heap_base' = IF heap_base = Null THEN a ELSE heap_base
       /\ loc' = [loc EXCEPT ![t].block = a]
  /\ Goto(t, "split")
  /\ UNCHANGED <<malloc_lock, need>>

\* Bug: malloc returns NULL with the lock held.
GrowFails_locked(t) ==
  /\ pc[t] = "scan" /\ loc[t].block = Null
  /\ loc' = [loc EXCEPT ![t] = NoCall]
  /\ Goto(t, "idle")
  /\ UNCHANGED <<heap_base, malloc_lock, hdr, need>>

\* request_space fails: a size overflows, or mmap has no memory (it may
\* refuse at any time).  realloc's old block stays as it was.
GrowFails(t) ==
  /\ pc[t] = "scan" /\ loc[t].block = Null
  /\ Leave(t)
  /\ UNCHANGED <<heap_base, hdr, need>>

\* The end of malloc: split, unlock, return the payload.  realloc goes on
\* to copy into it.
MallocSplit(t) ==
  LET p == Payload(loc[t].block) IN
  /\ pc[t] = "split"
  /\ hdr' = split_block(hdr, loc[t].block, Align(loc[t].size))
  /\ need' = [need EXCEPT ![p] = loc[t].want]
  /\ \/ loc[t].op = "malloc" /\ Leave(t)
     \/ /\ loc[t].op = "move"
        /\ malloc_lock' = 0
        /\ Goto(t, "copy")
        /\ loc' = [loc EXCEPT ![t].new = p]
  /\ UNCHANGED heap_base

\* Bug: the block is freed whatever its magic.
FreeMark_untested(t) ==
  /\ pc[t] = "mark"
  /\ hdr' = [hdr EXCEPT ![loc[t].block].magic = FREE]
  /\ need' = [need EXCEPT ![loc[t].ptr] = 0]
  /\ Goto(t, "coalesce")
  /\ UNCHANGED <<heap_base, malloc_lock, loc>>

\* free: from here on the bytes are not the program's.
FreeMark(t) ==
  /\ pc[t] = "mark"
  /\ hdr[loc[t].block].magic = USED
  /\ hdr' = [hdr EXCEPT ![loc[t].block].magic = FREE]
  /\ need' = [need EXCEPT ![loc[t].ptr] = 0]
  /\ Goto(t, "coalesce")
  /\ UNCHANGED <<heap_base, malloc_lock, loc>>

\* free ignores a pointer whose block is not in use.
FreeIgnore(t) ==
  /\ pc[t] = "mark"
  /\ hdr[loc[t].block].magic # USED
  /\ Leave(t)
  /\ UNCHANGED <<heap_base, hdr, need>>

FreeCoalesce(t) ==
  /\ pc[t] = "coalesce"
  /\ hdr' = coalesce(hdr, loc[t].block)
  /\ Leave(t)
  /\ UNCHANGED <<heap_base, need>>

\* realloc finds room in place: the block is large enough, or the free
\* block behind it makes it so.
Roomy(h, t) == h[loc[t].block].size >= Align(loc[t].size)

\* Bug: a block in use is absorbed as well.
Extended_over_used(h, b) ==
  IF CanAbsorb(h, b, h[b].next) THEN Absorb(h, b, h[b].next) ELSE h

Extended(h, b) == MergeNext(h, b)

ReallocInPlace(t) ==
  LET b == loc[t].block
      h == IF Roomy(hdr, t) THEN hdr ELSE Extended(hdr, b)
  IN
  /\ pc[t] = "resize"
  /\ hdr[b].magic = USED
  /\ Roomy(h, t)
  /\ hdr' = split_block(h, b, Align(loc[t].size))
  /\ need' = [need EXCEPT ![loc[t].ptr] = loc[t].want]
  /\ Leave(t)
  /\ UNCHANGED heap_base

\* realloc does not find room: it unlocks and calls malloc.
ReallocMove(t) ==
  /\ pc[t] = "resize"
  /\ hdr[loc[t].block].magic = USED
  /\ ~Roomy(hdr, t) /\ ~Roomy(Extended(hdr, loc[t].block), t)
  /\ malloc_lock' = 0
  /\ loc' = [loc EXCEPT ![t].op = "move"]
  /\ Goto(t, "lock")
  /\ UNCHANGED <<heap_base, hdr, need>>

ReallocRefuse(t) ==
  /\ pc[t] = "resize"
  /\ hdr[loc[t].block].magic # USED
  /\ Leave(t)
  /\ UNCHANGED <<heap_base, hdr, need>>

\* Bug: the copy takes the new size.
copy_size_of_new(t) == loc[t].size

\* memcpy into the new block, with the lock free; then free(ptr).
copy_size(t) ==
  LET old == hdr[get_block_ptr(loc[t].ptr)].size IN
  IF old < loc[t].size THEN old ELSE loc[t].size

ReallocCopy(t) ==
  /\ pc[t] = "copy"
  /\ loc' = [loc EXCEPT ![t].op = "drop"]
  /\ Goto(t, "lock")
  /\ UNCHANGED <<heap_base, malloc_lock, hdr, need>>

-----------------------------------------------------------------------------

Call(t) ==
  \/ \E n \in Sizes : Malloc(t, n)
  \/ \E m \in Counts, n \in Sizes : Calloc(t, m, n)
  \/ FreeNull(t)
  \/ \E p \in Owned : Free(t, p)
  \/ \E p \in Owned, n \in Sizes : Realloc(t, p, n)

Inside(t) ==
  \/ ScanNext(t) \/ ScanTake(t) \/ Grow(t) \/ GrowFails(t) \/ MallocSplit(t)
  \/ FreeMark(t) \/ FreeCoalesce(t)
  \/ ReallocInPlace(t) \/ ReallocMove(t)

Step(t) == Call(t) \/ Lock(t) \/ Inside(t) \/ ReallocCopy(t)

Next == \E t \in Threads : Step(t)

Spec == Init /\ [][Next]_vars

-----------------------------------------------------------------------------
(* Correctness.                                                            *)

\* Every variable has its type.
TypeOK ==
  /\ heap_base \in Addr
  /\ malloc_lock \in {0, 1}
  /\ hdr \in [Addr -> Header]
  /\ need \in [Addr -> Nat]
  /\ pc \in [Threads -> Places]
  /\ loc \in [Threads -> Local]

\* The spin lock works: one thread at a time is in a critical section, and
\* the lock is taken exactly while one is.
MutualExclusion ==
  /\ \A s, t \in Threads :
       pc[s] \in Critical /\ pc[t] \in Critical => s = t
  /\ (malloc_lock = 1) <=> \E t \in Threads : pc[t] \in Critical

\* The extents of two blocks, headers included, never overlap.
Disjoint(h) ==
  \A a, b \in Blocks(h) : a # b => End(h, a) <= b \/ End(h, b) <= a

\* next and prev are each other's inverse, and every block but the first
\* has a predecessor.
Linked(h) ==
  \A b \in Blocks(h) :
    /\ h[b].next # Null => /\ h[b].next \in Blocks(h)
                           /\ h[h[b].next].prev = b
    /\ h[b].prev # Null => /\ h[b].prev \in Blocks(h)
                           /\ h[h[b].prev].next = b

\* No split, coalesce, realloc or request_space, whoever interleaves,
\* leaves the heap with overlapping blocks or a list that is not one.
HeapWellFormed ==
  /\ Disjoint(hdr)
  /\ Linked(hdr)
  /\ \A b \in Blocks(hdr) : hdr[b].prev = Null <=> b = heap_base
  /\ IF heap_base = Null THEN Blocks(hdr) = {}
     ELSE heap_base \in Blocks(hdr)

\* The blocks a walk from block b along next comes to: those of every set
\* that holds b, if it is one, and the successors of its members.
Follows(h, S) == \A a \in S : h[a].next \in S \cup {Null}

Reached(h, b) ==
  LET Walks == {S \in SUBSET Blocks(h) : b \in S \cup {Null} /\ Follows(h, S)}
  IN {a \in Blocks(h) : \A S \in Walks : a \in S}

\* What the program was promised, it has: the block of every live pointer
\* is in use and no smaller than the request (for calloc: than the true
\* product of its arguments).
PromisesKept ==
  \A p \in Addr : need[p] # 0 =>
    /\ get_block_ptr(p) \in Blocks(hdr)
    /\ hdr[get_block_ptr(p)].magic = USED
    /\ hdr[get_block_ptr(p)].size >= need[p]

\* No byte is given to the program twice.
NoOverlap ==
  \A p, q \in Addr : need[p] # 0 /\ need[q] # 0 /\ p # q =>
    p + need[p] <= q \/ q + need[q] <= p

\* The blocks a call in progress has marked USED and not yet handed over.
InFlight == {loc[t].block : t \in {u \in Threads : pc[u] = "split"}}

\* The bytes of the blocks: mmap gives whole pages.
Covered(h) == UNION {b .. (End(h, b) - 1) : b \in Blocks(h)}
PageOf(a) == {p \in Addr : p \div PAGE_SIZE = a \div PAGE_SIZE}

\* No memory is lost.  Splits, merges and realloc leave every byte of a
\* page that mmap gave in some block; the search loop of malloc comes to
\* every block; none stays in use that nobody can free; and malloc asks
\* for new memory only when no free block of the list fits, although the
\* list changed hands before its search.
NoLeak ==
  /\ LET all == Covered(hdr) IN \A a \in all : PageOf(a) \subseteq all
  /\ Reached(hdr, heap_base) = Blocks(hdr)
  /\ \A b \in Blocks(hdr) : hdr[b].magic = USED =>
       b \in InFlight \/ need[Payload(b)] # 0
  /\ \A t \in Threads : pc[t] = "scan" /\ loc[t].block = Null =>
       \A b \in Blocks(hdr) :
         hdr[b].magic = FREE => hdr[b].size < Align(loc[t].size)

\* While realloc moves a block, with the lock free, nobody may take the
\* old one from it, and the copy stays within both blocks.
ReallocCopySafe ==
  \A t \in Threads :
    /\ loc[t].op = "move" => need[loc[t].ptr] # 0
    /\ pc[t] = "copy" =>
         /\ need[loc[t].new] # 0 /\ loc[t].new # loc[t].ptr
         /\ copy_size(t) <= hdr[get_block_ptr(loc[t].ptr)].size
         /\ copy_size(t) <= hdr[get_block_ptr(loc[t].new)].size

\* A thread inside a critical section leaves it: its search of the list
\* ends, and no path returns with the lock held.
LockReleased ==
  \A t \in Threads : pc[t] \in Critical ~> malloc_lock = 0

\* What the allocator is for, without blocks and lists.
Abstract == INSTANCE Allocator WITH alloc <- need
ImplementsAllocator == Abstract!Spec

-----------------------------------------------------------------------------
(* The inductive invariant behind HeapWellFormed, PromisesKept and the     *)
(* safety of realloc's copy: what is true of the headers, and what each    *)
(* thread may rely on at its place in its call.                            *)

Sound(h, base) ==
  /\ h \in [Addr -> Header] /\ base \in Addr
  /\ \A b \in Blocks(h) : b # Null /\ End(h, b) <= MemTop + 1
  /\ Disjoint(h)
  /\ Linked(h)
  /\ \A b \in Blocks(h) : h[b].prev = Null <=> b = base
  /\ IF base = Null THEN Blocks(h) = {} ELSE base \in Blocks(h)

\* A search stands at block, has passed last.
ScanOK(h, base, block, last) ==
  /\ block # Null => block \in Blocks(h)
  /\ IF last = Null THEN block = base
     ELSE last \in Blocks(h) /\ h[last].next = block

Asking(t) ==
  loc[t].op \in {"malloc", "realloc", "move"} =>
    /\ 0 < loc[t].size /\ ~TooLarge(loc[t].size)
    /\ loc[t].want = loc[t].size

Owning(t) ==
  /\ loc[t].op = "malloc" => loc[t].ptr = Null
  /\ loc[t].op \in {"free", "realloc", "move", "drop"} /\ pc[t] # "coalesce"
       => need[loc[t].ptr] # 0
  /\ IF pc[t] = "copy" \/ (loc[t].op = "drop")
     THEN need[loc[t].new] # 0 /\ loc[t].new # loc[t].ptr
     ELSE loc[t].new = Null

AtPlace(t) ==
  LET b == loc[t].block IN
  /\ pc[t] = "idle" <=> loc[t].op = "none"
  /\ pc[t] = "idle" => loc[t] = NoCall
  /\ pc[t] = "scan" => /\ loc[t].op \in {"malloc", "move"}
                       /\ ScanOK(hdr, heap_base, b, loc[t].last)
  /\ pc[t] = "split" => /\ loc[t].op \in {"malloc", "move"}
                        /\ b \in Blocks(hdr) /\ hdr[b].magic = USED
                        /\ hdr[b].size >= Align(loc[t].size)
                        /\ need[Payload(b)] = 0
  /\ pc[t] = "mark" => /\ loc[t].op \in {"free", "drop"}
                       /\ b = get_block_ptr(loc[t].ptr)
  /\ pc[t] = "resize" => /\ loc[t].op = "realloc"
                         /\ b = get_block_ptr(loc[t].ptr)
  /\ pc[t] = "coalesce" => /\ loc[t].op \in {"free", "drop"}
                           /\ b \in Blocks(hdr) /\ hdr[b].magic = FREE
  /\ pc[t] = "copy" => /\ loc[t].op = "move"
                       /\ need[loc[t].new] = loc[t].size

\* No two calls in progress work on one pointer.
Exclusive ==
  \A s, t \in Threads : s # t => Holds(s) \cap Holds(t) = {}

HeapInv ==
  /\ TypeOK
  /\ MutualExclusion
  /\ Sound(hdr, heap_base)
  /\ PromisesKept
  /\ \A t \in Threads : Asking(t) /\ Owning(t) /\ AtPlace(t)
  /\ Exclusive
=============================================================================
