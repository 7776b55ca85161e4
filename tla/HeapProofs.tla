----------------------------- MODULE HeapProofs -----------------------------
(***************************************************************************)
(* Proofs about the allocator of module Heap, and of HeapStale at the end, *)
(* for every number of threads, every size of memory and all request       *)
(* sizes.                                                                  *)
(***************************************************************************)
EXTENDS HeapStale, TLAPS

-----------------------------------------------------------------------------
(* The operations on the block list.                                       *)

USE DEF Null, FREE, USED, NONE

LEMMA Naturals ==
  /\ \A a \in Addr : a \in Nat /\ a <= MemTop
  /\ MemTop \in Nat /\ BLOCK_META_SIZE \in Nat /\ ALIGNMENT \in Nat
  /\ 0 < BLOCK_META_SIZE /\ 0 < ALIGNMENT
BY HeapAssumption DEF Addr

LEMMA BlocksType ==
  ASSUME NEW h, NEW base, Sound(h, base), NEW b \in Blocks(h)
  PROVE  /\ b \in Addr /\ h[b] \in Header
         /\ b # Null /\ End(h, b) <= MemTop + 1
         /\ h[b].size \in Nat /\ h[b].next \in Addr /\ h[b].prev \in Addr
         /\ h[b].magic \in {FREE, USED}
BY DEF Sound, Blocks, Header

\* The block that split_block makes lies inside b, so it is none of the
\* others.
LEMMA SplitPlace ==
  ASSUME NEW h, NEW base, Sound(h, base), NEW b \in Blocks(h),
         NEW size \in Nat,
         h[b].size >= size + BLOCK_META_SIZE + ALIGNMENT
  PROVE  LET new == Payload(b) + size IN
         new \in Addr /\ new # Null /\ new # b /\ new \notin Blocks(h)
<1> DEFINE new == Payload(b) + size
<1>1. b \in Addr /\ h[b].size \in Nat /\ End(h, b) <= MemTop + 1
  BY BlocksType
<1>2. b < new /\ new + BLOCK_META_SIZE + ALIGNMENT <= End(h, b)
  BY <1>1, HeapAssumption DEF Payload, End, Addr
<1>3. new \in Addr
  BY <1>1, <1>2, HeapAssumption DEF Payload, End, Addr
<1>4. new \notin Blocks(h)
  <2>1. SUFFICES ASSUME new \in Blocks(h) PROVE FALSE
    OBVIOUS
  <2>2. h[new].size \in Nat
    BY <2>1, BlocksType
  <2>3. End(h, b) <= new \/ End(h, new) <= b
    BY <1>2, <2>1, <1>1, <1>3 DEF Sound, Disjoint, Addr
  <2>4. QED
    BY <1>1, <1>2, <1>3, <2>2, <2>3, HeapAssumption DEF End, Addr
<1>5. QED
  BY <1>1, <1>2, <1>3, <1>4 DEF Addr

\* A successor or predecessor in the list is a block.
LEMMA Neighbours ==
  ASSUME NEW h, NEW base, Sound(h, base), NEW b \in Blocks(h)
  PROVE  /\ h[b].next # Null => /\ h[b].next \in Blocks(h)
                                /\ h[h[b].next].prev = b
         /\ h[b].prev # Null => /\ h[b].prev \in Blocks(h)
                                /\ h[h[b].prev].next = b
BY DEF Sound, Linked

\* SetPrev changes one field of one header.
LEMMA SetPrevFields ==
  ASSUME NEW h \in [Addr -> Header], NEW x \in Addr, NEW n \in Addr
  PROVE  /\ SetPrev(h, x, n) \in [Addr -> Header]
         /\ \A a \in Addr :
              /\ SetPrev(h, x, n)[a].size = h[a].size
              /\ SetPrev(h, x, n)[a].next = h[a].next
              /\ SetPrev(h, x, n)[a].magic = h[a].magic
              /\ SetPrev(h, x, n)[a].prev =
                   IF x # Null /\ a = x THEN n ELSE h[a].prev
<1>1. CASE x = Null
  BY <1>1 DEF SetPrev
<1>2. CASE x # Null
  <2> DEFINE e == [h[x] EXCEPT !.prev = n]
  <2>1. h[x] \in Header
    OBVIOUS
  <2>2. /\ e \in Header /\ e.size = h[x].size /\ e.next = h[x].next
        /\ e.magic = h[x].magic /\ e.prev = n
    BY <2>1 DEF Header
  <2>3. SetPrev(h, x, n) = [h EXCEPT ![x] = e]
    BY <1>2 DEF SetPrev
  <2> HIDE DEF e
  <2>4. QED
    BY <1>2, <2>2, <2>3
<1>3. QED
  BY <1>1, <1>2

\* The headers after a split that takes place, field by field.
LEMMA SplitFields ==
  ASSUME NEW h, NEW base, Sound(h, base), NEW b \in Blocks(h),
         NEW size \in Nat,
         h[b].size >= size + BLOCK_META_SIZE + ALIGNMENT,
         NEW new, new = Payload(b) + size,
         NEW r, r = split_block(h, b, size)
  PROVE  /\ r \in [Addr -> Header]
         /\ \A a \in Addr :
              /\ r[a].size = IF a = new
                             THEN h[b].size - size - BLOCK_META_SIZE
                             ELSE IF a = b THEN size ELSE h[a].size
              /\ r[a].next = IF a = new THEN h[b].next
                             ELSE IF a = b THEN new ELSE h[a].next
              /\ a # Null =>
                   r[a].prev = IF a = new THEN b
                               ELSE IF a = h[b].next THEN new ELSE h[a].prev
              /\ r[a].magic = IF a = new THEN FREE ELSE h[a].magic
<1> DEFINE x == h[b].next
           g == SetPrev(h, x, new)
<1>1. /\ b \in Addr /\ h[b].size \in Nat /\ x \in Addr
      /\ h \in [Addr -> Header]
  BY BlocksType DEF Sound
<1>2. new \in Addr /\ new # Null /\ new # b /\ new \notin Blocks(h)
  BY SplitPlace
<1>3. /\ g \in [Addr -> Header]
      /\ \A a \in Addr :
           /\ g[a].size = h[a].size
           /\ g[a].next = h[a].next
           /\ g[a].magic = h[a].magic
           /\ g[a].prev = IF x # Null /\ a = x THEN new ELSE h[a].prev
  <2>1. x \in Addr /\ new \in Addr /\ h \in [Addr -> Header]
    BY <1>1, <1>2
  <2> HIDE DEF x
  <2>2. QED
    BY <2>1, SetPrevFields
<1>4. h[b].size - size - BLOCK_META_SIZE \in Nat
  BY <1>1, HeapAssumption
<1> DEFINE fresh == [size |-> h[b].size - size - BLOCK_META_SIZE,
                     next |-> x, prev |-> b, magic |-> FREE]
<1>5. fresh \in Header
  BY <1>1, <1>4 DEF Header
<1> DEFINE old == [g[b] EXCEPT !.size = size, !.next = new]
<1>6. g[b] \in Header /\ old \in Header
  <2> HIDE DEF g
  <2>1. g[b] \in Header
    BY <1>1, <1>3
  <2>2. QED
    BY <2>1, <1>2 DEF Header
<1>7. old.size = size /\ old.next = new /\ old.magic = h[b].magic
      /\ old.prev = g[b].prev
  <2> HIDE DEF g
  <2>1. QED
    BY <1>1, <1>3, <1>6 DEF Header
<1>8. r = [[g EXCEPT ![new] = fresh] EXCEPT ![b] = old]
  <2>1. r = [g EXCEPT ![new] = fresh, ![b].size = size, ![b].next = new]
    BY DEF split_block, Splits, Remainder
  <2> HIDE DEF g, fresh
  <2>2. QED
    BY <2>1, <1>1, <1>2, <1>3
<1>9. /\ r \in [Addr -> Header]
      /\ r[new] = fresh /\ r[b] = old
      /\ \A a \in Addr \ {new, b} : r[a] = g[a]
  <2> HIDE DEF g, fresh, old
  <2>1. QED
    BY <1>1, <1>2, <1>3, <1>5, <1>6, <1>8
<1>10. ASSUME NEW a \in Addr
       PROVE  /\ r[a].size = IF a = new
                             THEN h[b].size - size - BLOCK_META_SIZE
                             ELSE IF a = b THEN size ELSE h[a].size
              /\ r[a].next = IF a = new THEN h[b].next
                             ELSE IF a = b THEN new ELSE h[a].next
              /\ r[a].magic = IF a = new THEN FREE ELSE h[a].magic
              /\ a # Null =>
                   r[a].prev = IF a = new THEN b
                               ELSE IF a = h[b].next THEN new ELSE h[a].prev
  <2>2. CASE a = new
    BY <2>2, <1>9, <1>2
  <2>3. CASE a = b
    <3> HIDE DEF g, old
    <3>1. QED
      BY <2>3, <1>7, <1>9, <1>2, <1>3, <1>1
  <2>4. CASE a # new /\ a # b
    <3> HIDE DEF g
    <3>1. QED
      BY <2>4, <1>9, <1>3
  <2>5. QED
    BY <2>2, <2>3, <2>4
<1>11. QED
  BY <1>9, <1>10

\* Splitting a block leaves a sound list, with one more block or none.
LEMMA SplitSound ==
  ASSUME NEW h, NEW base, Sound(h, base), NEW b \in Blocks(h),
         NEW size \in Nat, h[b].size >= size,
         NEW r, r = split_block(h, b, size)
  PROVE  /\ Sound(r, base)
         /\ Blocks(h) \subseteq Blocks(r)
         /\ r[b].size >= size
         /\ \A a \in Blocks(h) : /\ r[a].magic = h[a].magic
                                 /\ a # b => r[a].size = h[a].size
         /\ \A a \in Blocks(r) \ Blocks(h) : r[a].magic = FREE
<1>1. CASE ~(h[b].size >= size + BLOCK_META_SIZE + ALIGNMENT)
  BY <1>1 DEF split_block, Splits
<1>2. CASE h[b].size >= size + BLOCK_META_SIZE + ALIGNMENT
  <2> DEFINE new == Payload(b) + size
             x == h[b].next
  <2>1. new \in Addr /\ new # Null /\ new # b /\ new \notin Blocks(h)
    BY <1>2, SplitPlace
  <2>2. /\ r \in [Addr -> Header]
        /\ \A a \in Addr :
             /\ r[a].size = IF a = new
                            THEN h[b].size - size - BLOCK_META_SIZE
                            ELSE IF a = b THEN size ELSE h[a].size
             /\ r[a].next = IF a = new THEN x
                            ELSE IF a = b THEN new ELSE h[a].next
             /\ a # Null =>
                  r[a].prev = IF a = new THEN b
                              ELSE IF a = x THEN new ELSE h[a].prev
             /\ r[a].magic = IF a = new THEN FREE ELSE h[a].magic
    BY <1>2, SplitFields
  <2>14. new = b + BLOCK_META_SIZE + size /\ x = h[b].next
    BY BlocksType, HeapAssumption DEF Payload, Addr
  <2> HIDE DEF new, x
  <2>3. Blocks(r) = Blocks(h) \cup {new}
    <3>1. \A a \in Addr : r[a].magic # NONE <=> a = new \/ h[a].magic # NONE
      BY <2>1, <2>2
    <3>2. QED
      BY <2>1, <3>1 DEF Blocks
  <2>4. /\ b \in Addr /\ b # Null /\ h[b].size \in Nat /\ x \in Addr
        /\ End(h, b) <= MemTop + 1
        /\ x # Null => x \in Blocks(h) /\ h[x].prev = b
    BY <2>14, BlocksType, Neighbours
  <2>5. \A a \in Blocks(h) : a \in Addr /\ a # Null /\ h[a].size \in Nat
                             /\ End(h, a) <= MemTop + 1
    BY BlocksType
  <2>6. /\ b < new /\ r[b].size = size
        /\ r[new].size = h[b].size - size - BLOCK_META_SIZE
        /\ \A a \in Blocks(h) : a # b => r[a].size = h[a].size
    BY <2>14, <2>1, <2>2, <2>4, <2>5, Naturals
  <2>7. /\ End(r, new) = End(h, b) /\ End(r, b) = new
        /\ \A a \in Blocks(h) : a # b => End(r, a) = End(h, a)
    <3>1. End(r, b) = new
      BY <2>14, <2>4, <2>6, Naturals DEF End
    <3>2. End(r, new) = End(h, b)
      <4>1. /\ End(r, new) = new + BLOCK_META_SIZE + r[new].size
            /\ End(h, b) = b + BLOCK_META_SIZE + h[b].size
        BY DEF End
      <4>2. BLOCK_META_SIZE \in Nat /\ b \in Nat
        BY <2>4, HeapAssumption DEF Addr
      <4>3. QED
        BY <4>1, <4>2, <2>14, <2>4, <2>6
    <3>3. \A a \in Blocks(h) : a # b => End(r, a) = End(h, a)
      BY <2>6 DEF End
    <3>4. QED
      BY <3>1, <3>2, <3>3
  <2>8. Disjoint(r) /\ \A a \in Blocks(r) : a # Null /\ End(r, a) <= MemTop + 1
    <3>1. /\ new \in Nat /\ new <= MemTop /\ MemTop \in Nat
          /\ \A d \in Blocks(h) : /\ d \in Nat /\ End(h, d) \in Nat
                                  /\ End(h, d) <= MemTop + 1 /\ d # Null
      BY <2>1, <2>5, Naturals DEF End
    <3>2. \A d, e \in Blocks(h) : d # e => End(h, d) <= e \/ End(h, e) <= d
      BY DEF Sound, Disjoint
    <3>3. ASSUME NEW a \in Blocks(h), NEW c \in Blocks(h), a # c
          PROVE  End(r, a) <= c \/ End(r, c) <= a
      <4>1. End(h, a) <= c \/ End(h, c) <= a
        BY <3>2, <3>3
      <4>2. new <= End(h, b)
        BY <2>14, <1>2, Naturals, <2>4 DEF End
      <4>3. End(r, a) <= End(h, a) /\ End(r, c) <= End(h, c)
            /\ End(r, a) \in Nat /\ End(r, c) \in Nat
        BY <2>7, <3>1, <4>2
      <4>4. QED
        BY <4>1, <4>3, <3>1
    <3>4. ASSUME NEW a \in Blocks(h)
          PROVE  End(r, a) <= new \/ End(r, new) <= a
      <4>1. CASE a = b
        BY <4>1, <2>7, <3>1
      <4>2. CASE a # b
        <5>1. End(h, a) <= b \/ End(h, b) <= a
          BY <3>2, <4>2
        <5>2. QED
          BY <5>1, <4>2, <2>6, <2>7, <3>1
      <4>3. QED
        BY <4>1, <4>2
    <3>5. \A a \in Blocks(r) : a # Null /\ End(r, a) <= MemTop + 1
      BY <2>1, <2>3, <2>7, <3>1
    <3>6. QED
      BY <3>3, <3>4, <3>5, <2>3 DEF Disjoint
  <2>9. Linked(r)
    <3>1. SUFFICES ASSUME NEW a \in Blocks(r)
                   PROVE  /\ r[a].next # Null =>
                               /\ r[a].next \in Blocks(r)
                               /\ r[r[a].next].prev = a
                          /\ r[a].prev # Null =>
                               /\ r[a].prev \in Blocks(r)
                               /\ r[r[a].prev].next = a
      BY DEF Linked
    <3>2. \A d \in Blocks(h) :
            /\ h[d].next # Null => h[d].next \in Blocks(h)
                                   /\ h[h[d].next].prev = d
            /\ h[d].prev # Null => h[d].prev \in Blocks(h)
                                   /\ h[h[d].prev].next = d
      BY DEF Sound, Linked
    <3>3. CASE a = new
      BY <3>3, <2>1, <2>2, <2>3, <2>4, <2>5
    <3>4. CASE a = b
      <4>1. r[a].next = new /\ r[new].prev = b
        BY <3>4, <2>1, <2>2, <2>4
      <4>2. CASE x = b
        BY <3>4, <4>1, <4>2, <2>1, <2>2, <2>3, <2>4
      <4>3. CASE x # b
        <5>1. r[b].prev = h[b].prev
          BY <4>3, <2>1, <2>2, <2>4
        <5>2. h[b].prev # b
          BY <4>3, <3>2, <2>14, <2>4
        <5>3. h[b].prev # Null => r[h[b].prev].next = b
          BY <5>2, <3>2, <2>1, <2>2, <2>5
        <5>4. QED
          BY <3>4, <4>1, <5>1, <5>3, <3>2, <2>1, <2>3
      <4>4. QED
        BY <4>2, <4>3
    <3>5. CASE a # new /\ a # b
      <4>1. a \in Blocks(h) /\ a \in Addr /\ a # Null
        BY <3>5, <2>3, <2>5
      <4>2. r[a].next = h[a].next
        BY <3>5, <4>1, <2>2
      <4>3. h[a].next # Null => h[a].next # x /\ r[h[a].next].prev = a
        BY <4>1, <3>2, <3>5, <2>1, <2>2, <2>4, <2>5
      <4>4. CASE a = x
        BY <4>4, <4>1, <4>2, <4>3, <3>2, <2>1, <2>2, <2>3
      <4>5. CASE a # x
        <5>1. r[a].prev = h[a].prev /\ h[a].prev # b
          BY <4>5, <4>1, <3>2, <3>5, <2>2, <2>4, <2>14
        <5>2. h[a].prev # Null => r[h[a].prev].next = a
          BY <5>1, <4>1, <3>2, <2>1, <2>2, <2>5
        <5>3. QED
          BY <5>1, <5>2, <4>1, <4>2, <4>3, <3>2, <2>3
      <4>6. QED
        BY <4>4, <4>5
    <3>6. QED
      BY <3>3, <3>4, <3>5
  <2>10. \A a \in Blocks(r) : r[a].prev = Null <=> a = base
    <3>1. base # new /\ base # Null
      BY <2>1 DEF Sound
    <3>2. \A a \in Blocks(h) : h[a].prev = Null <=> a = base
      BY DEF Sound
    <3>3. QED
      BY <3>1, <3>2, <2>1, <2>2, <2>3, <2>4, <2>5
  <2>11. base \in Addr /\ base # Null
    BY DEF Sound
  <2>12. Sound(r, base)
    BY <2>2, <2>3, <2>8, <2>9, <2>10, <2>11 DEF Sound
  <2>13. QED
    BY <2>1, <2>2, <2>3, <2>4, <2>5, <2>12
<1>3. QED
  BY <1>1, <1>2

\* r is what h becomes when block b takes over its successor n, field by
\* field.
Absorbed(h, b, n, r) ==
  /\ r \in [Addr -> Header]
  /\ \A a \in Addr :
       /\ a # n => r[a].size = IF a = b
                               THEN h[b].size + BLOCK_META_SIZE + h[n].size
                               ELSE h[a].size
       /\ a # n => r[a].next = IF a = b THEN h[n].next ELSE h[a].next
       /\ a # Null /\ a # n =>
            r[a].prev = IF a = h[n].next THEN b ELSE h[a].prev
       /\ r[a].magic = IF a = n THEN NONE ELSE h[a].magic

LEMMA AbsorbFields ==
  ASSUME NEW h, NEW base, Sound(h, base), NEW b \in Blocks(h),
         NEW n \in Blocks(h), n # b
  PROVE  Absorbed(h, b, n, Absorb(h, b, n))
<1> DEFINE r == Absorb(h, b, n)
<1> DEFINE y == h[n].next
           g == SetPrev(h, y, b)
           total == h[b].size + BLOCK_META_SIZE + h[n].size
<1>1. /\ b \in Addr /\ n \in Addr /\ y \in Addr /\ h \in [Addr -> Header]
      /\ total \in Nat
  BY BlocksType, Naturals DEF Sound
<1>2. /\ g \in [Addr -> Header]
      /\ \A a \in Addr :
           /\ g[a].size = h[a].size
           /\ g[a].next = h[a].next
           /\ g[a].magic = h[a].magic
           /\ g[a].prev = IF y # Null /\ a = y THEN b ELSE h[a].prev
  <2> HIDE DEF y
  <2>1. QED
    BY <1>1, SetPrevFields
<1> DEFINE old == [g[b] EXCEPT !.size = total, !.next = y]
<1>3. NoHeader \in Header
  BY HeapAssumption DEF NoHeader, Header, Addr
<1>4. g[b] \in Header /\ old \in Header
  <2> HIDE DEF g, total, y
  <2>1. g[b] \in Header
    BY <1>1, <1>2
  <2>2. QED
    BY <2>1, <1>1 DEF Header
<1>5. old.size = total /\ old.next = y /\ old.magic = h[b].magic
      /\ old.prev = g[b].prev
  <2> HIDE DEF g, total, y
  <2>1. QED
    BY <1>1, <1>2, <1>4 DEF Header
<1>6. r = [[g EXCEPT ![n] = NoHeader] EXCEPT ![b] = old]
  <2>1. r = [g EXCEPT ![n] = NoHeader, ![b].size = total, ![b].next = y]
    BY DEF Absorb
  <2> HIDE DEF g, total, y
  <2>2. QED
    BY <2>1, <1>1, <1>2
<1>7. /\ r \in [Addr -> Header]
      /\ r[n] = NoHeader /\ r[b] = old
      /\ \A a \in Addr \ {n, b} : r[a] = g[a]
  <2> HIDE DEF g, old
  <2>1. QED
    BY <1>1, <1>2, <1>3, <1>4, <1>6
<1> HIDE DEF g, old, total, y, r
<1>8. r[n].magic = NONE
  <2>1. NoHeader.magic = NONE
    BY DEF NoHeader
  <2>2. QED
    BY <2>1, <1>7
<1>9. ASSUME NEW a \in Addr
      PROVE  /\ a # n => r[a].size = IF a = b THEN total ELSE h[a].size
             /\ a # n => r[a].next = IF a = b THEN y ELSE h[a].next
             /\ a # Null /\ a # n => r[a].prev = IF a = y THEN b ELSE h[a].prev
             /\ r[a].magic = IF a = n THEN NONE ELSE h[a].magic
  <2>1. CASE a = n
    BY <2>1, <1>8
  <2>2. CASE a = b
    <3>1. r[a] = old /\ a # n
      BY <2>2, <1>7
    <3>2. a # Null => old.prev = IF a = y THEN b ELSE h[a].prev
      BY <2>2, <1>1, <1>2, <1>5
    <3>3. QED
      BY <2>2, <3>1, <3>2, <1>5
  <2>3. CASE a # n /\ a # b
    BY <2>3, <1>2, <1>7
  <2>4. QED
    BY <2>1, <2>2, <2>3
<1>10. QED
  BY <1>7, <1>9 DEF y, total, Absorbed, r

\* A block that takes over its successor, which starts where it ends, is
\* as large as both, and the list stays sound.
LEMMA AbsorbSound ==
  ASSUME NEW h, NEW base, Sound(h, base), NEW b \in Blocks(h),
         NEW n \in Blocks(h), h[b].next = n, End(h, b) = n,
         NEW r, r = Absorb(h, b, n)
  PROVE  /\ Sound(r, base)
         /\ n # b
         /\ Blocks(r) = Blocks(h) \ {n}
         /\ r[b].size = h[b].size + BLOCK_META_SIZE + h[n].size
         /\ \A a \in Blocks(h) \ {n} :
              r[a].magic = h[a].magic /\ (a # b => r[a].size = h[a].size)
<1> DEFINE y == h[n].next
<1>1. \A d \in Blocks(h) :
        /\ d \in Addr /\ d \in Nat /\ d # Null /\ h[d].size \in Nat
        /\ End(h, d) \in Nat /\ d < End(h, d) /\ End(h, d) <= MemTop + 1
  BY BlocksType, Naturals DEF End
<1>2. n \in Blocks(h) /\ h[n].prev = b /\ n # b
  BY <1>1, Neighbours
<1>3. y \in Addr /\ (y # Null => y \in Blocks(h) /\ h[y].prev = n)
  BY <1>2, BlocksType, Neighbours
<1>16. Absorbed(h, b, n, r)
  BY <1>2, AbsorbFields
<1>4. /\ r \in [Addr -> Header]
      /\ \A a \in Addr :
           /\ a # n => r[a].size = IF a = b
                                   THEN h[b].size + BLOCK_META_SIZE + h[n].size
                                   ELSE h[a].size
           /\ a # n => r[a].next = IF a = b THEN y ELSE h[a].next
           /\ a # Null /\ a # n =>
                r[a].prev = IF a = y THEN b ELSE h[a].prev
           /\ r[a].magic = IF a = n THEN NONE ELSE h[a].magic
  BY <1>16 DEF Absorbed
<1>5. \A d \in Blocks(h) :
        /\ h[d].next # Null => h[d].next \in Blocks(h)
                               /\ h[h[d].next].prev = d
        /\ h[d].prev # Null => h[d].prev \in Blocks(h)
                               /\ h[h[d].prev].next = d
  BY DEF Sound, Linked
<1>6. y # n
  BY <1>1, <1>2, <1>3
<1>7. y = h[n].next
  OBVIOUS
<1> HIDE DEF y
<1>8. Blocks(r) = Blocks(h) \ {n}
  <2>1. \A a \in Addr : r[a].magic # NONE <=> a # n /\ h[a].magic # NONE
    BY <1>4
  <2>2. QED
    BY <2>1 DEF Blocks
<1>9. /\ End(r, b) = End(h, n)
      /\ \A a \in Blocks(h) \ {n, b} : End(r, a) = End(h, a)
  <2>1. /\ r[b].size = h[b].size + BLOCK_META_SIZE + h[n].size
        /\ \A a \in Blocks(h) \ {n, b} : r[a].size = h[a].size
    BY <1>1, <1>2, <1>4
  <2>2. n = b + BLOCK_META_SIZE + h[b].size
    BY DEF End
  <2>3. \A a \in Blocks(h) \ {n, b} : End(r, a) = End(h, a)
    BY <2>1 DEF End
  <2>4. End(r, b) = b + BLOCK_META_SIZE + (h[b].size + BLOCK_META_SIZE + h[n].size)
    BY <2>1 DEF End
  <2>5. End(h, n) = n + BLOCK_META_SIZE + h[n].size
    BY DEF End
  <2>6. /\ b \in Nat /\ n \in Nat /\ BLOCK_META_SIZE \in Nat
        /\ h[b].size \in Nat /\ h[n].size \in Nat
    BY <1>1, Naturals
  <2>7. End(r, b) = End(h, n)
    BY <2>2, <2>4, <2>5, <2>6
  <2>8. QED
    BY <2>3, <2>7
<1>10. \A a \in Blocks(r) : a # Null /\ End(r, a) <= MemTop + 1
  BY <1>1, <1>2, <1>8, <1>9
<1>11. Disjoint(r)
  <2>1. \A d, e \in Blocks(h) : d # e => End(h, d) <= e \/ End(h, e) <= d
    BY DEF Sound, Disjoint
  <2>2. ASSUME NEW a \in Blocks(h), a # b, a # n
        PROVE  End(r, a) <= b \/ End(r, b) <= a
    <3>1. End(h, a) <= b \/ n <= a
      BY <2>1, <2>2
    <3>2. End(h, a) <= n \/ End(h, n) <= a
      BY <2>1, <2>2, <1>2
    <3>3. QED
      BY <3>1, <3>2, <2>2, <1>1, <1>2, <1>9
  <2>3. QED
    BY <2>1, <2>2, <1>8, <1>9 DEF Disjoint
<1>12. Linked(r)
  <2>1. SUFFICES ASSUME NEW a \in Blocks(r)
                 PROVE  /\ r[a].next # Null =>
                             /\ r[a].next \in Blocks(r)
                             /\ r[r[a].next].prev = a
                        /\ r[a].prev # Null =>
                             /\ r[a].prev \in Blocks(r)
                             /\ r[r[a].prev].next = a
    BY DEF Linked
  <2>2. a \in Blocks(h) /\ a # n /\ a \in Addr /\ a # Null
    BY <1>1, <1>8
  <2>3. r[a].next # Null => /\ r[a].next \in Blocks(r)
                            /\ r[r[a].next].prev = a
    <3>1. CASE a = b
      BY <3>1, <2>2, <1>1, <1>3, <1>4, <1>6, <1>8
    <3>2. CASE a # b
      <4>1. r[a].next = h[a].next
        BY <3>2, <2>2, <1>4
      <4>2. h[a].next # Null => h[a].next # n /\ h[a].next # y
        BY <3>2, <2>2, <1>2, <1>3, <1>5
      <4>3. h[a].next # Null => r[h[a].next].prev = a
        BY <4>2, <2>2, <1>1, <1>4, <1>5
      <4>4. QED
        BY <4>1, <4>2, <4>3, <2>2, <1>5, <1>8
    <3>3. QED
      BY <3>1, <3>2
  <2>4. r[a].prev # Null => /\ r[a].prev \in Blocks(r)
                            /\ r[r[a].prev].next = a
    <3>1. CASE a = y
      BY <3>1, <2>2, <1>1, <1>2, <1>3, <1>4, <1>8
    <3>2. CASE a # y
      <4>1. r[a].prev = h[a].prev
        BY <3>2, <2>2, <1>4
      <4>2. h[a].prev # Null => h[a].prev # n /\ h[a].prev # b
        BY <3>2, <2>2, <1>2, <1>5, <1>7
      <4>3. h[a].prev # Null => r[h[a].prev].next = a
        BY <4>2, <2>2, <1>1, <1>4, <1>5
      <4>4. QED
        BY <4>1, <4>2, <4>3, <2>2, <1>5, <1>8
    <3>3. QED
      BY <3>1, <3>2
  <2>5. QED
    BY <2>3, <2>4
<1>13. base \in Blocks(r) /\ \A a \in Blocks(r) : r[a].prev = Null <=> a = base
  <2>1. base \in Blocks(h) /\ \A a \in Blocks(h) : h[a].prev = Null <=> a = base
    BY DEF Sound
  <2>2. base # n /\ base # y
    BY <2>1, <1>1, <1>2, <1>3
  <2>3. \A a \in Blocks(r) :
          a # Null /\ a # n /\ a \in Addr /\ a \in Blocks(h)
    BY <1>1, <1>8
  <2>4. \A a \in Blocks(r) : r[a].prev = IF a = y THEN b ELSE h[a].prev
    BY <2>3, <1>4
  <2>5. b # Null
    BY <1>1
  <2>6. QED
    BY <2>1, <2>2, <2>3, <2>4, <2>5, <1>8
<1>14. Sound(r, base)
  BY <1>1, <1>4, <1>8, <1>10, <1>11, <1>12, <1>13 DEF Sound
<1>15. QED
  BY <1>1, <1>2, <1>4, <1>8, <1>14

\* The blocks in use, b apart, are the same in r as in h.
KeepsUsed(h, r, b) ==
  \A a \in Blocks(h) : h[a].magic = USED /\ a # b =>
    a \in Blocks(r) /\ r[a].magic = USED /\ r[a].size = h[a].size

LEMMA KeepsUsedTransitive ==
  ASSUME NEW h, NEW g, NEW r, NEW b, KeepsUsed(h, g, b), KeepsUsed(g, r, b)
  PROVE  KeepsUsed(h, r, b)
BY DEF KeepsUsed

LEMMA MergeNextSound ==
  ASSUME NEW h, NEW base, Sound(h, base), NEW b \in Blocks(h)
  PROVE  LET r == MergeNext(h, b) IN
         /\ Sound(r, base)
         /\ b \in Blocks(r) /\ r[b].magic = h[b].magic
         /\ r[b].size >= h[b].size
         /\ KeepsUsed(h, r, b)
<1> DEFINE n == h[b].next
           r == MergeNext(h, b)
<1>1. h[b].size \in Nat
  BY BlocksType
<1>2. CASE ~(CanAbsorb(h, b, n) /\ h[n].magic = FREE)
  <2>1. r = h
    BY <1>2 DEF MergeNext
  <2>2. QED
    BY <2>1, <1>1 DEF KeepsUsed
<1>3. CASE CanAbsorb(h, b, n) /\ h[n].magic = FREE
  <2>1. r = Absorb(h, b, n)
    BY <1>3 DEF MergeNext
  <2>2. n \in Blocks(h) /\ End(h, b) = n
    BY <1>3, Neighbours DEF CanAbsorb
  <2>3. n = h[b].next
    OBVIOUS
  <2> HIDE DEF n, r
  <2>4. /\ Sound(r, base)
        /\ n # b /\ Blocks(r) = Blocks(h) \ {n}
        /\ r[b].size = h[b].size + BLOCK_META_SIZE + h[n].size
        /\ \A a \in Blocks(h) \ {n} :
             r[a].magic = h[a].magic /\ (a # b => r[a].size = h[a].size)
    BY <2>1, <2>2, <2>3, AbsorbSound
  <2>5. h[n].size \in Nat
    BY <2>2, BlocksType
  <2>6. r[b].size >= h[b].size
    BY <2>4, <2>5, <1>1, Naturals
  <2>7. KeepsUsed(h, r, b)
    BY <2>4, <1>3 DEF KeepsUsed
  <2>8. QED
    BY <2>4, <2>6, <2>7 DEF r
<1>4. QED
  BY <1>2, <1>3

LEMMA MergePrevSound ==
  ASSUME NEW h, NEW base, Sound(h, base), NEW b \in Blocks(h),
         h[b].magic = FREE
  PROVE  LET r == MergePrev(h, b) IN Sound(r, base) /\ KeepsUsed(h, r, b)
<1> DEFINE p == h[b].prev
           r == MergePrev(h, b)
<1>1. CASE ~(CanAbsorb(h, p, b) /\ h[p].magic = FREE)
  <2>1. r = h
    BY <1>1 DEF MergePrev
  <2>2. QED
    BY <2>1 DEF KeepsUsed
<1>2. CASE CanAbsorb(h, p, b) /\ h[p].magic = FREE
  <2>1. r = Absorb(h, p, b)
    BY <1>2 DEF MergePrev
  <2>2. p \in Blocks(h) /\ End(h, p) = b /\ h[p].next = b
    BY <1>2, Neighbours DEF CanAbsorb
  <2> HIDE DEF p, r
  <2>3. /\ Sound(r, base)
        /\ p # b /\ Blocks(r) = Blocks(h) \ {b}
        /\ \A a \in Blocks(h) \ {b} :
             r[a].magic = h[a].magic /\ (a # p => r[a].size = h[a].size)
    BY <2>1, <2>2, AbsorbSound
  <2>4. KeepsUsed(h, r, b)
    BY <2>3, <1>2 DEF KeepsUsed
  <2>5. QED
    BY <2>3, <2>4 DEF r
<1>3. QED
  BY <1>1, <1>2

\* free's merging keeps the list sound and every block in use as it was.
LEMMA CoalesceSound ==
  ASSUME NEW h, NEW base, Sound(h, base), NEW b \in Blocks(h),
         h[b].magic = FREE
  PROVE  LET r == coalesce(h, b) IN Sound(r, base) /\ KeepsUsed(h, r, b)
<1> DEFINE g == MergeNext(h, b)
           r == coalesce(h, b)
<1>1. Sound(g, base) /\ b \in Blocks(g) /\ g[b].magic = FREE
      /\ KeepsUsed(h, g, b)
  BY MergeNextSound
<1>2. r = MergePrev(g, b)
  BY DEF coalesce
<1> HIDE DEF g, r
<1>3. Sound(r, base) /\ KeepsUsed(g, r, b)
  BY <1>1, <1>2, MergePrevSound
<1>4. QED
  BY <1>1, <1>3, KeepsUsedTransitive DEF r

\* Changing the magic of one block changes nothing else.
Marked(h, b, m, r) ==
  /\ Blocks(r) = Blocks(h)
  /\ \A a \in Addr : /\ r[a].size = h[a].size
                     /\ r[a].next = h[a].next
                     /\ r[a].magic = IF a = b THEN m ELSE h[a].magic

LEMMA MarkSound ==
  ASSUME NEW h, NEW base, Sound(h, base), NEW b \in Blocks(h),
         NEW m \in {FREE, USED}, NEW r, r = [h EXCEPT ![b].magic = m]
  PROVE  Sound(r, base) /\ Marked(h, b, m, r)
<1> DEFINE e == [h[b] EXCEPT !.magic = m]
<1>1. b \in Addr /\ h[b] \in Header /\ h \in [Addr -> Header]
  BY BlocksType DEF Sound
<1>2. /\ e \in Header /\ e.size = h[b].size /\ e.next = h[b].next
      /\ e.prev = h[b].prev /\ e.magic = m
  BY <1>1 DEF Header
<1>3. r = [h EXCEPT ![b] = e]
  OBVIOUS
<1> HIDE DEF e
<1>4. /\ r \in [Addr -> Header]
      /\ \A a \in Addr : /\ r[a].size = h[a].size
                         /\ r[a].next = h[a].next
                         /\ r[a].prev = h[a].prev
                         /\ r[a].magic = IF a = b THEN m ELSE h[a].magic
  BY <1>1, <1>2, <1>3
<1>5. Blocks(r) = Blocks(h)
  <2>1. \A a \in Addr : r[a].magic # NONE <=> h[a].magic # NONE
    BY <1>4 DEF Blocks
  <2>2. QED
    BY <2>1 DEF Blocks
<1>6. \A a \in Blocks(h) : a \in Addr /\ End(r, a) = End(h, a)
  BY <1>4 DEF End, Blocks
<1>7. \A a \in Blocks(h) : a # Null /\ End(h, a) <= MemTop + 1
  BY BlocksType
<1>8. Disjoint(r)
  BY <1>5, <1>6 DEF Disjoint, Sound
<1>9. Linked(r)
  BY <1>4, <1>5, <1>6 DEF Linked, Sound
<1>10. Sound(r, base)
  BY <1>4, <1>5, <1>6, <1>7, <1>8, <1>9 DEF Sound
<1>11. QED
  BY <1>4, <1>5, <1>10 DEF Marked

\* A mapping that mmap may return extends the list.
LEMMA AppendSound ==
  ASSUME NEW h, NEW base, Sound(h, base), NEW a \in Addr, NEW len \in Nat,
         BLOCK_META_SIZE <= len, MapFree(h, a, len),
         NEW last \in Addr, ScanOK(h, base, Null, last),
         NEW r, r = Append(h, a, len - BLOCK_META_SIZE, last)
  PROVE  /\ Sound(r, IF base = Null THEN a ELSE base)
         /\ a \notin Blocks(h)
         /\ Blocks(r) = Blocks(h) \cup {a}
         /\ r[a].size = len - BLOCK_META_SIZE /\ r[a].magic = USED
         /\ r[a].next = Null
         /\ \A d \in Blocks(h) : /\ r[d].size = h[d].size
                                 /\ r[d].magic = h[d].magic
                                 /\ r[d].next = IF d = last THEN a ELSE h[d].next
<1> DEFINE size == len - BLOCK_META_SIZE
           fresh == [size |-> size, next |-> Null, prev |-> last, magic |-> USED]
           g == IF last = Null THEN h ELSE [h EXCEPT ![last].next = a]
<1>1. size \in Nat /\ h \in [Addr -> Header] /\ a # Null
      /\ a + len <= MemTop + 1
  BY Naturals DEF Sound, MapFree
<1>2. \A d \in Blocks(h) :
        /\ d \in Addr /\ d \in Nat /\ d # Null /\ h[d].size \in Nat
        /\ End(h, d) \in Nat /\ d < End(h, d) /\ End(h, d) <= MemTop + 1
        /\ a + len <= d \/ End(h, d) <= a
  BY BlocksType, Naturals DEF End, MapFree
<1>3. a \notin Blocks(h)
  BY <1>2, Naturals
<1>4. /\ g \in [Addr -> Header]
      /\ \A d \in Addr :
           /\ g[d].size = h[d].size /\ g[d].prev = h[d].prev
           /\ g[d].magic = h[d].magic
           /\ d # Null => g[d].next = IF d = last THEN a ELSE h[d].next
  <2>1. CASE last = Null
    BY <2>1, <1>1
  <2>2. CASE last # Null
    <3> DEFINE e == [h[last] EXCEPT !.next = a]
    <3>1. h[last] \in Header
      BY <1>1
    <3>2. /\ e \in Header /\ e.size = h[last].size /\ e.prev = h[last].prev
          /\ e.magic = h[last].magic /\ e.next = a
      BY <3>1 DEF Header
    <3>3. g = [h EXCEPT ![last] = e]
      BY <2>2
    <3> HIDE DEF e, g
    <3>4. QED
      BY <3>2, <3>3, <1>1
  <2>3. QED
    BY <2>1, <2>2
<1>5. fresh \in Header /\ fresh.size = size /\ fresh.next = Null
      /\ fresh.prev = last /\ fresh.magic = USED
  <2> HIDE DEF size
  <2>1. Null \in Addr
    BY HeapAssumption DEF Addr
  <2>2. QED
    BY <1>1, <2>1 DEF Header
<1>6. r = [g EXCEPT ![a] = fresh]
  BY DEF Append
<1>7. size + BLOCK_META_SIZE = len
  BY Naturals
<1> HIDE DEF size, fresh, g
<1>8. /\ r \in [Addr -> Header]
      /\ \A d \in Addr :
           /\ r[d].size = IF d = a THEN size ELSE h[d].size
           /\ d # Null => r[d].next = IF d = a THEN Null
                                      ELSE IF d = last THEN a ELSE h[d].next
           /\ r[d].prev = IF d = a THEN last ELSE h[d].prev
           /\ r[d].magic = IF d = a THEN USED ELSE h[d].magic
  BY <1>4, <1>5, <1>6
<1>9. Blocks(r) = Blocks(h) \cup {a}
  <2>1. \A d \in Addr : r[d].magic # NONE <=> d = a \/ h[d].magic # NONE
    BY <1>8
  <2>2. QED
    BY <2>1 DEF Blocks
<1>10. End(r, a) = a + len /\ \A d \in Blocks(h) : End(r, d) = End(h, d)
  <2>1. r[a].size = size /\ \A d \in Blocks(h) : r[d].size = h[d].size
    BY <1>2, <1>3, <1>8
  <2>2. End(r, a) = a + BLOCK_META_SIZE + size
    BY <2>1 DEF End
  <2>3. QED
    BY <2>1, <2>2, <1>1, <1>7, Naturals DEF End
<1>11. \A d \in Blocks(r) : d # Null /\ End(r, d) <= MemTop + 1
  BY <1>1, <1>2, <1>9, <1>10
<1>12. Disjoint(r)
  <2>1. \A d, e \in Blocks(h) : d # e => End(h, d) <= e \/ End(h, e) <= d
    BY DEF Sound, Disjoint
  <2>2. QED
    BY <2>1, <1>2, <1>9, <1>10 DEF Disjoint
<1>13. /\ last # Null => last \in Blocks(h) /\ h[last].next = Null
       /\ last = Null => base = Null /\ Blocks(h) = {}
       /\ base # Null => base \in Blocks(h)
  BY DEF ScanOK, Sound
<1>14. \A d \in Blocks(h) :
         /\ h[d].next # Null => h[d].next \in Blocks(h)
                                /\ h[h[d].next].prev = d
         /\ h[d].prev # Null => h[d].prev \in Blocks(h)
                                /\ h[h[d].prev].next = d
         /\ h[d].prev = Null <=> d = base
  BY DEF Sound, Linked
<1>15. Linked(r)
  <2>1. ASSUME NEW d \in Blocks(h)
        PROVE  /\ r[d].next # Null => /\ r[d].next \in Blocks(r)
                                      /\ r[r[d].next].prev = d
               /\ r[d].prev # Null => /\ r[d].prev \in Blocks(r)
                                      /\ r[r[d].prev].next = d
    <3>1. d # a /\ d \in Addr /\ d # Null
      BY <1>2, <1>3
    <3>2. r[d].next # Null => r[d].next \in Blocks(r) /\ r[r[d].next].prev = d
      BY <3>1, <1>2, <1>3, <1>8, <1>9, <1>14
    <3>3. r[d].prev = h[d].prev
      BY <3>1, <1>8
    <3>4. h[d].prev # Null => h[d].prev # last /\ r[h[d].prev].next = d
      BY <3>1, <1>2, <1>3, <1>8, <1>13, <1>14
    <3>5. QED
      BY <3>2, <3>3, <3>4, <1>9, <1>14
  <2>2. r[a].next = Null
    BY <1>1, <1>8
  <2>3. r[a].prev = last
    BY <1>8
  <2>4. last # Null => last \in Blocks(r) /\ r[last].next = a
    BY <1>2, <1>3, <1>8, <1>9, <1>13
  <2>5. QED
    BY <2>1, <2>2, <2>3, <2>4, <1>9 DEF Linked
<1>16. ASSUME NEW nb, nb = IF base = Null THEN a ELSE base
       PROVE  Sound(r, nb)
  <2>1. nb \in Blocks(r) /\ nb # Null /\ nb \in Addr
    BY <1>1, <1>2, <1>9, <1>13, <1>16
  <2>2. \A d \in Blocks(r) : r[d].prev = Null <=> d = nb
    <3>1. \A d \in Blocks(h) : r[d].prev = h[d].prev /\ d # a
      BY <1>2, <1>3, <1>8
    <3>2. r[a].prev = last
      BY <1>8
    <3>3. CASE base = Null
      <4>1. last = Null
        BY <3>3, <1>13, <1>14 DEF Sound
      <4>2. Blocks(h) = {}
        BY <3>3 DEF Sound
      <4>3. QED
        BY <3>2, <3>3, <4>1, <4>2, <1>9, <1>16
    <3>4. CASE base # Null
      BY <3>1, <3>2, <3>4, <1>3, <1>9, <1>13, <1>14, <1>16
    <3>5. QED
      BY <3>3, <3>4
  <2>3. QED
    BY <2>1, <2>2, <1>8, <1>11, <1>12, <1>15 DEF Sound
<1>17. QED
  BY <1>1, <1>2, <1>3, <1>8, <1>9, <1>16 DEF size

-----------------------------------------------------------------------------
(* Sizes.                                                                  *)

\* Rounding up never loses bytes, whatever the alignment.
LEMMA RoundUp ==
  ASSUME NEW n \in Nat, NEW k \in Nat, 0 < k
  PROVE  /\ ((n + (k - 1)) \div k) * k \in Nat
         /\ n <= ((n + (k - 1)) \div k) * k
<1> DEFINE q == (n + (k - 1)) \div k
           m == (n + (k - 1)) % k
<1>1. q \in Nat
  OBVIOUS
<1>2. m \in Nat /\ m < k
  OBVIOUS
<1>3. n + (k - 1) = k * q + m
  OBVIOUS
<1> HIDE DEF q, m
<1>4. q * k \in Nat /\ q * k = k * q
  BY <1>1
<1>5. QED
  BY <1>1, <1>2, <1>3, <1>4 DEF q

LEMMA SmallMod ==
  ASSUME NEW x \in Nat, NEW m \in Nat, x < m
  PROVE  x % m = x
<1> DEFINE q == x \div m
           r == x % m
<1>1. q \in Nat /\ r \in Nat /\ r < m /\ x = m * q + r
  OBVIOUS
<1> HIDE DEF q, r
<1>2. q = 0
  <2>1. SUFFICES ASSUME q >= 1 PROVE FALSE
    BY <1>1
  <2>2. m * q >= m
    BY <2>1, <1>1
  <2>3. QED
    BY <2>2, <1>1
<1>3. QED
  BY <1>1, <1>2 DEF r

\* A size that is not too large is rounded up without wrapping.
LEMMA AlignFits ==
  ASSUME NEW n \in Nat, ~TooLarge(n)
  PROVE  Align(n) \in Nat /\ n <= Align(n)
<1> DEFINE x == n + (ALIGNMENT - 1)
<1>1. x \in Nat /\ x < SIZE_MAX + 1
  BY HeapAssumption DEF TooLarge
<1>2. Wrap(x) = x
  <2>1. SIZE_MAX + 1 \in Nat
    BY HeapAssumption
  <2> HIDE DEF x
  <2>2. QED
    BY <1>1, <2>1, SmallMod DEF Wrap
<1>3. Align(n) = (x \div ALIGNMENT) * ALIGNMENT
  BY <1>2 DEF Align
<1>4. QED
  BY <1>3, HeapAssumption, RoundUp

-----------------------------------------------------------------------------
(* The invariant.                                                          *)

USE DEF Critical, Places

\* A live pointer has a block behind it, in use and large enough.
LEMMA LiveBlock ==
  ASSUME HeapInv, NEW p \in Addr, need[p] # 0
  PROVE  /\ get_block_ptr(p) \in Blocks(hdr)
         /\ hdr[get_block_ptr(p)].magic = USED
         /\ hdr[get_block_ptr(p)].size >= need[p]
         /\ p # Null /\ Payload(get_block_ptr(p)) = p
<1>1. /\ get_block_ptr(p) \in Blocks(hdr)
      /\ hdr[get_block_ptr(p)].magic = USED
      /\ hdr[get_block_ptr(p)].size >= need[p]
  BY DEF HeapInv, PromisesKept
<1>2. get_block_ptr(p) \in Nat
  BY <1>1, Naturals DEF Blocks
<1>3. QED
  BY <1>1, <1>2, Naturals DEF get_block_ptr, Payload

\* Where t's step does not reach, the other threads find everything as
\* they left it.
LEMMA OthersKeep ==
  ASSUME HeapInv, NEW u \in Threads,
         pc'[u] = pc[u], loc'[u] = loc[u],
         pc[u] \in Critical => UNCHANGED <<hdr, heap_base, need>>,
         \A p \in Holds(u) : need[p] # 0 => need'[p] = need[p]
  PROVE  Asking(u)' /\ Owning(u)' /\ AtPlace(u)'
<1>1. /\ loc[u].ptr \in Addr /\ loc[u].new \in Addr
      /\ pc[u] \in Places
      /\ Asking(u) /\ Owning(u) /\ AtPlace(u)
  BY DEF HeapInv, TypeOK, Local
<1>2. need[loc[u].ptr] # 0 => need'[loc[u].ptr] = need[loc[u].ptr]
  <2>1. need[loc[u].ptr] # 0 => loc[u].ptr # Null
    BY <1>1, LiveBlock
  <2>2. QED
    BY <2>1 DEF Holds
<1>3. need[loc[u].new] # 0 => need'[loc[u].new] = need[loc[u].new]
  <2>1. need[loc[u].new] # 0 => loc[u].new # Null
    BY <1>1, LiveBlock
  <2>2. QED
    BY <2>1 DEF Holds
<1>4. Asking(u)'
  BY <1>1 DEF Asking, TooLarge
<1>5. Owning(u)'
  BY <1>1, <1>2, <1>3 DEF Owning
<1>6. AtPlace(u)'
  <2>1. CASE pc[u] \in Critical
    <3>1. hdr' = hdr /\ heap_base' = heap_base /\ need' = need
      BY <2>1
    <3>2. QED
      BY <3>1, <1>1 DEF AtPlace
  <2>2. CASE pc[u] \notin Critical
    <3>1. pc[u] = "copy" => need[loc[u].new] # 0
      BY <1>1 DEF Owning
    <3>2. QED
      BY <2>2, <3>1, <1>1, <1>3 DEF AtPlace
  <2>3. QED
    BY <2>1, <2>2
<1>7. QED
  BY <1>4, <1>5, <1>6

\* What a step of t must show to preserve the invariant: t is now at place
\* pl with the locals e, enters a critical section only when the lock is
\* free, changes the heap only inside one, and leaves the pointers of the
\* other threads alone.
LEMMA StepKeeps ==
  ASSUME HeapInv, NEW t \in Threads, NEW e \in Local, NEW pl \in Places,
         loc' = [loc EXCEPT ![t] = e], pc' = [pc EXCEPT ![t] = pl],
         malloc_lock' = IF pl \in Critical THEN 1
                        ELSE IF pc[t] \in Critical THEN 0 ELSE malloc_lock,
         pl \in Critical /\ pc[t] \notin Critical => malloc_lock = 0,
         pc[t] \notin Critical => UNCHANGED <<hdr, heap_base, need>>,
         Sound(hdr', heap_base'),
         need' \in [Addr -> Nat],
         PromisesKept',
         \A u \in Threads \ {t} : \A p \in Holds(u) :
           /\ need[p] # 0 => need'[p] = need[p]
           /\ p # e.ptr /\ p # e.new,
         Asking(t)', Owning(t)', AtPlace(t)'
  PROVE  HeapInv'
<1>1. TypeOK /\ MutualExclusion /\ Exclusive
  BY DEF HeapInv
<1>2. pc'[t] = pl /\ loc'[t] = e
  BY <1>1 DEF TypeOK
<1>3. \A u \in Threads \ {t} : pc'[u] = pc[u] /\ loc'[u] = loc[u]
  BY <1>1 DEF TypeOK
<1>4. TypeOK'
  BY <1>1 DEF TypeOK, Sound
<1>5. MutualExclusion'
  <2>1. CASE pl \in Critical
    <3>1. \A u \in Threads \ {t} : pc[u] \notin Critical
      BY <2>1, <1>1 DEF MutualExclusion
    <3>2. QED
      BY <2>1, <3>1, <1>2, <1>3 DEF MutualExclusion
  <2>2. CASE pl \notin Critical /\ pc[t] \in Critical
    <3>1. \A u \in Threads \ {t} : pc[u] \notin Critical
      BY <2>2, <1>1 DEF MutualExclusion
    <3>2. QED
      BY <2>2, <3>1, <1>2, <1>3 DEF MutualExclusion
  <2>3. CASE pl \notin Critical /\ pc[t] \notin Critical
    <3>1. malloc_lock' = malloc_lock
      BY <2>3
    <3>2. \A u \in Threads : pc'[u] \in Critical <=> pc[u] \in Critical
      BY <2>3, <1>2, <1>3
    <3>3. QED
      BY <3>1, <3>2, <1>1 DEF MutualExclusion
  <2>4. QED
    BY <2>1, <2>2, <2>3
<1>6. ASSUME NEW u \in Threads PROVE Asking(u)' /\ Owning(u)' /\ AtPlace(u)'
  <2>1. CASE u = t
    BY <2>1
  <2>2. CASE u # t
    <3>1. pc[u] \in Critical => UNCHANGED <<hdr, heap_base, need>>
      BY <2>2, <1>1 DEF MutualExclusion
    <3>2. QED
      BY <2>2, <3>1, <1>3, OthersKeep
  <2>3. QED
    BY <2>1, <2>2
<1>7. Exclusive'
  <2>1. \A u \in Threads \ {t} : Holds(u)' = Holds(u)
    BY <1>3 DEF Holds
  <2>2. Holds(t)' = {e.ptr, e.new} \ {Null}
    BY <1>2 DEF Holds
  <2>3. \A u \in Threads \ {t} : Holds(u) \cap Holds(t)' = {}
    BY <2>2
  <2>4. QED
    BY <2>1, <2>3, <1>1 DEF Exclusive
<1>8. QED
  BY <1>4, <1>5, <1>6, <1>7 DEF HeapInv

\* Outside the merging of free, the pointers of a call are live.
LEMMA HoldsLive ==
  ASSUME HeapInv, NEW u \in Threads, pc[u] # "coalesce", NEW p \in Holds(u)
  PROVE  p \in Addr /\ need[p] # 0
<1>1. loc[u].op \in Ops /\ loc[u] \in Local /\ Owning(u) /\ AtPlace(u)
  BY DEF HeapInv, TypeOK, Local
<1>2. p \in Addr /\ p # Null /\ (p = loc[u].ptr \/ p = loc[u].new)
  BY <1>1 DEF Holds, Local
<1>3. loc[u].op = "none" => loc[u].ptr = Null /\ loc[u].new = Null
  BY <1>1 DEF AtPlace, NoCall
<1>4. QED
  BY <1>1, <1>2, <1>3 DEF Owning, Ops

\* The same for the other threads, when t is in a critical section.
LEMMA OthersLive ==
  ASSUME HeapInv, NEW t \in Threads, pc[t] \in Critical,
         NEW u \in Threads \ {t}, NEW p \in Holds(u)
  PROVE  p \in Addr /\ need[p] # 0 /\ p \notin Holds(t)
<1>1. pc[u] # "coalesce"
  BY DEF HeapInv, MutualExclusion
<1>2. p \notin Holds(t)
  BY DEF HeapInv, Exclusive
<1>3. QED
  BY <1>1, <1>2, HoldsLive

-----------------------------------------------------------------------------
(* The invariant is preserved: first the calls, then the steps.            *)

LEMMA BeginInv ==
  ASSUME HeapInv, NEW t \in Threads, pc[t] = "idle", NEW c \in Local,
         Begin(t, c), c.new = Null, c.op \in {"malloc", "free", "realloc"},
         IF c.op = "malloc" THEN c.ptr = Null ELSE c.ptr \in Owned,
         c.op \in {"malloc", "realloc"} =>
           /\ 0 < c.size /\ ~TooLarge(c.size) /\ c.want = c.size
  PROVE  HeapInv'
<1>1. /\ loc' = [loc EXCEPT ![t] = c] /\ pc' = [pc EXCEPT ![t] = "lock"]
      /\ UNCHANGED <<heap_base, malloc_lock, hdr, need>>
  BY DEF Begin, Goto
<1>2. Sound(hdr', heap_base') /\ need' \in [Addr -> Nat] /\ PromisesKept'
  BY <1>1 DEF HeapInv, TypeOK, PromisesKept
<1>3. pc'[t] = "lock" /\ loc'[t] = c
  BY <1>1 DEF HeapInv, TypeOK
<1>4. \A u \in Threads \ {t} : \A p \in Holds(u) : p # c.ptr /\ p # c.new
  <2>1. SUFFICES ASSUME NEW u \in Threads \ {t}, NEW p \in Holds(u), p = c.ptr
                 PROVE  FALSE
    BY DEF Holds
  <2>2. p # Null
    BY DEF Holds
  <2>3. ~Busy(p)
    BY <2>1, <2>2 DEF Owned
  <2>4. pc[u] = "idle"
    BY <2>1, <2>3 DEF Busy
  <2>5. loc[u] = NoCall
    BY <2>4 DEF HeapInv, AtPlace
  <2>6. QED
    BY <2>5 DEF Holds, NoCall
<1>5. Asking(t)' /\ Owning(t)' /\ AtPlace(t)'
  BY <1>1, <1>3 DEF Asking, Owning, AtPlace, TooLarge, Owned
<1>6. QED
  BY <1>1, <1>2, <1>4, <1>5, StepKeeps

LEMMA StutterInv ==
  ASSUME HeapInv, UNCHANGED vars
  PROVE  HeapInv'
<1>1. /\ heap_base' = heap_base /\ malloc_lock' = malloc_lock /\ hdr' = hdr
      /\ need' = need /\ pc' = pc /\ loc' = loc
  BY DEF vars
<1>2. TypeOK' /\ MutualExclusion' /\ Sound(hdr', heap_base') /\ PromisesKept'
  BY <1>1 DEF HeapInv, TypeOK, MutualExclusion, PromisesKept
<1>3. \A t \in Threads : Asking(t)' /\ Owning(t)' /\ AtPlace(t)'
  BY <1>1 DEF HeapInv, Asking, Owning, AtPlace, TooLarge
<1>4. Exclusive'
  BY <1>1 DEF HeapInv, Exclusive, Holds
<1>5. QED
  BY <1>2, <1>3, <1>4 DEF HeapInv

LEMMA ReturnInv ==
  ASSUME HeapInv, NEW t \in Threads, Return(t)
  PROVE  HeapInv'
BY StutterInv DEF Return

LEMMA NoCallType == NoCall \in Local
BY HeapAssumption DEF NoCall, Local, Ops, Addr

\* A record of a call's arguments, as Malloc, Free and Realloc make it.
LEMMA CallType ==
  ASSUME NEW op \in Ops, NEW p \in Addr, NEW n \in Nat
  PROVE  /\ [NoCall EXCEPT !.op = op, !.size = n, !.want = n] \in Local
         /\ [NoCall EXCEPT !.op = op, !.ptr = p] \in Local
         /\ [NoCall EXCEPT !.op = op, !.ptr = p, !.size = n, !.want = n] \in Local
<1>1. [NoCall EXCEPT !.op = op, !.size = n, !.want = n] \in Local
  BY NoCallType DEF Local
<1>2. [NoCall EXCEPT !.op = op, !.ptr = p] \in Local
  BY NoCallType DEF Local
<1>3. [NoCall EXCEPT !.op = op, !.ptr = p, !.size = n, !.want = n] \in Local
  BY NoCallType DEF Local
<1>4. QED
  BY <1>1, <1>2, <1>3

LEMMA MallocInv ==
  ASSUME HeapInv, NEW t \in Threads, NEW n \in Nat, Malloc(t, n)
  PROVE  HeapInv'
<1> DEFINE c == [NoCall EXCEPT !.op = "malloc", !.size = n, !.want = n]
<1>1. CASE n = 0 \/ TooLarge(n)
  BY <1>1, ReturnInv DEF Malloc
<1>2. CASE ~(n = 0 \/ TooLarge(n))
  <2>1. c \in Local
    BY NoCallType DEF Local, Ops
  <2>2. c.op = "malloc" /\ c.ptr = Null /\ c.new = Null
        /\ c.size = n /\ c.want = n
    BY DEF NoCall
  <2>3. Begin(t, c) /\ pc[t] = "idle"
    BY <1>2 DEF Malloc
  <2> HIDE DEF c
  <2>4. QED
    BY <1>2, <2>1, <2>2, <2>3, BeginInv
<1>3. QED
  BY <1>1, <1>2

LEMMA CallocInv ==
  ASSUME HeapInv, NEW t \in Threads, NEW m \in Nat, NEW n \in Nat,
         Calloc(t, m, n)
  PROVE  HeapInv'
<1>1. m * n \in Nat
  OBVIOUS
<1>2. m = 0 \/ n = 0 \/ m * n > SIZE_MAX \/ TooLarge(m * n) => Return(t)
  BY DEF Calloc, Return
<1>3. ~(m = 0 \/ n = 0 \/ m * n > SIZE_MAX \/ TooLarge(m * n))
        => Malloc(t, m * n)
  <2>1. m # 0 /\ n # 0 => m * n # 0
    OBVIOUS
  <2>2. QED
    BY <2>1 DEF Calloc, Malloc
<1>4. QED
  BY <1>1, <1>2, <1>3, ReturnInv, MallocInv

LEMMA FreeInv ==
  ASSUME HeapInv, NEW t \in Threads, NEW p \in Owned, Free(t, p)
  PROVE  HeapInv'
<1> DEFINE c == [NoCall EXCEPT !.op = "free", !.ptr = p]
<1>1. CASE Misaligned(p)
  BY <1>1, ReturnInv DEF Free
<1>2. CASE ~Misaligned(p)
  <2>1. c \in Local
    BY CallType DEF Ops, Owned
  <2>2. c.op = "free" /\ c.ptr = p /\ c.new = Null
    BY DEF NoCall
  <2>3. Begin(t, c) /\ pc[t] = "idle"
    BY <1>2 DEF Free
  <2> HIDE DEF c
  <2>4. QED
    BY <2>1, <2>2, <2>3, BeginInv
<1>3. QED
  BY <1>1, <1>2

LEMMA ReallocInv ==
  ASSUME HeapInv, NEW t \in Threads, NEW p \in Owned, NEW n \in Nat,
         Realloc(t, p, n)
  PROVE  HeapInv'
<1> DEFINE c == [NoCall EXCEPT !.op = "realloc", !.ptr = p,
                               !.size = n, !.want = n]
<1>1. CASE Free(t, p)
  BY <1>1, FreeInv
<1>2. CASE Return(t)
  BY <1>2, ReturnInv
<1>3. CASE n # 0 /\ ~TooLarge(n) /\ Begin(t, c) /\ pc[t] = "idle"
  <2>1. c \in Local
    BY CallType DEF Ops, Owned
  <2>2. c.op = "realloc" /\ c.ptr = p /\ c.new = Null
        /\ c.size = n /\ c.want = n
    BY DEF NoCall
  <2> HIDE DEF c
  <2>3. QED
    BY <1>3, <2>1, <2>2, BeginInv
<1>4. QED
  BY <1>1, <1>2, <1>3 DEF Realloc

\* What the invariant says of the thread that takes a step.
LEMMA Self ==
  ASSUME HeapInv, NEW t \in Threads
  PROVE  /\ Sound(hdr, heap_base) /\ heap_base \in Addr
         /\ hdr \in [Addr -> Header] /\ need \in [Addr -> Nat]
         /\ pc \in [Threads -> Places] /\ loc \in [Threads -> Local]
         /\ loc[t] \in Local /\ pc[t] \in Places
         /\ loc[t].op \in Ops /\ loc[t].ptr \in Addr /\ loc[t].new \in Addr
         /\ loc[t].block \in Addr /\ loc[t].last \in Addr
         /\ loc[t].size \in Nat /\ loc[t].want \in Nat
         /\ Asking(t) /\ Owning(t) /\ AtPlace(t) /\ PromisesKept
BY DEF HeapInv, TypeOK, Sound, Local

LEMMA SameHeap ==
  ASSUME HeapInv, UNCHANGED <<heap_base, hdr, need>>
  PROVE  Sound(hdr', heap_base') /\ need' \in [Addr -> Nat] /\ PromisesKept'
BY DEF HeapInv, TypeOK, PromisesKept

LEMMA OwnPointers ==
  ASSUME HeapInv, NEW t \in Threads, NEW u \in Threads \ {t},
         NEW p \in Holds(u), NEW x \in {Null, loc[t].ptr, loc[t].new}
  PROVE  p # x
BY DEF HeapInv, Exclusive, Holds

\* The mutex admits t.
LEMMA LockInv ==
  ASSUME HeapInv, NEW t \in Threads, Lock(t)
  PROVE  HeapInv'
<1>1. pc[t] = "lock" /\ malloc_lock = 0 /\ malloc_lock' = 1
      /\ UNCHANGED <<heap_base, hdr, need>>
  BY DEF Lock, Acquired
<1>2. Sound(hdr', heap_base') /\ need' \in [Addr -> Nat] /\ PromisesKept'
  BY <1>1, SameHeap
<1>3. CASE /\ loc[t].op \in {"malloc", "move"}
           /\ loc' = [loc EXCEPT ![t].block = heap_base, ![t].last = Null]
           /\ Goto(t, "scan")
  <2> DEFINE e == [loc[t] EXCEPT !.block = heap_base, !.last = Null]
  <2>1. e \in Local
    BY Self, NoCallType DEF Local, NoCall
  <2>2. /\ e.op = loc[t].op /\ e.ptr = loc[t].ptr /\ e.new = loc[t].new
        /\ e.size = loc[t].size /\ e.want = loc[t].want
        /\ e.block = heap_base /\ e.last = Null
    BY Self DEF Local
  <2>3. loc' = [loc EXCEPT ![t] = e] /\ pc' = [pc EXCEPT ![t] = "scan"]
    BY <1>3, Self DEF Goto
  <2> HIDE DEF e
  <2>4. loc'[t] = e /\ pc'[t] = "scan"
    BY <2>3, Self
  <2>5. ScanOK(hdr, heap_base, heap_base, Null)
    BY Self DEF ScanOK, Sound
  <2>6. Asking(t)' /\ Owning(t)'
    BY <1>1, <1>3, <2>2, <2>4, Self DEF Asking, Owning, TooLarge
  <2>7. AtPlace(t)'
    BY <1>1, <1>3, <2>2, <2>4, <2>5 DEF AtPlace
  <2>8. QED
    BY <1>1, <1>2, <2>1, <2>2, <2>3, <2>6, <2>7, OwnPointers, StepKeeps
<1>4. ASSUME NEW op, NEW pl \in {"mark", "resize"},
             loc[t].op = op,
             IF pl = "mark" THEN op \in {"free", "drop"} ELSE op = "realloc",
             loc' = [loc EXCEPT ![t].block = get_block_ptr(loc[t].ptr)],
             Goto(t, pl)
      PROVE  HeapInv'
  <2> DEFINE e == [loc[t] EXCEPT !.block = get_block_ptr(loc[t].ptr)]
  <2>1. need[loc[t].ptr] # 0
    BY <1>1, <1>4, Self DEF Owning
  <2>2. get_block_ptr(loc[t].ptr) \in Addr
    BY <2>1, Self, LiveBlock DEF Blocks
  <2>3. e \in Local
    BY <2>2, Self DEF Local
  <2>4. /\ e.op = loc[t].op /\ e.ptr = loc[t].ptr /\ e.new = loc[t].new
        /\ e.size = loc[t].size /\ e.want = loc[t].want
        /\ e.block = get_block_ptr(loc[t].ptr)
    BY Self DEF Local
  <2>5. loc' = [loc EXCEPT ![t] = e] /\ pc' = [pc EXCEPT ![t] = pl]
    BY <1>4, Self DEF Goto
  <2> HIDE DEF e
  <2>6. loc'[t] = e /\ pc'[t] = pl
    BY <2>5, Self
  <2>7. Asking(t)' /\ Owning(t)'
    BY <1>1, <1>4, <2>4, <2>6, Self DEF Asking, Owning, TooLarge
  <2>8. AtPlace(t)'
    BY <1>1, <1>4, <2>4, <2>6 DEF AtPlace
  <2>9. \A u \in Threads \ {t} : \A p \in Holds(u) :
          p # e.ptr /\ p # e.new
    BY <2>4, OwnPointers
  <2>10. /\ malloc_lock' = IF pl \in Critical THEN 1
                           ELSE IF pc[t] \in Critical THEN 0 ELSE malloc_lock
         /\ pl \in Places
    BY <1>1, <1>4
  <2>11. QED
    BY <1>1, <1>2, <2>3, <2>5, <2>7, <2>8, <2>9, <2>10, StepKeeps
<1>5. QED
  BY <1>3, <1>4 DEF Lock

\* A thread that releases the lock and is idle has kept the invariant if
\* the heap it leaves is sound and keeps its promises.
LEMMA LeaveKeeps ==
  ASSUME HeapInv, NEW t \in Threads, pc[t] \in Critical, Leave(t),
         Sound(hdr', heap_base'), need' \in [Addr -> Nat], PromisesKept',
         \A u \in Threads \ {t} : \A p \in Holds(u) :
           need[p] # 0 => need'[p] = need[p]
  PROVE  HeapInv'
<1>1. /\ loc' = [loc EXCEPT ![t] = NoCall] /\ pc' = [pc EXCEPT ![t] = "idle"]
      /\ malloc_lock' = 0
  BY DEF Leave, Goto
<1>2. loc'[t] = NoCall /\ pc'[t] = "idle"
  BY <1>1, Self
<1>3. Asking(t)' /\ Owning(t)' /\ AtPlace(t)'
  BY <1>2 DEF Asking, Owning, AtPlace, NoCall
<1>4. NoCall.ptr = Null /\ NoCall.new = Null /\ NoCall \in Local
  BY NoCallType DEF NoCall
<1>5. \A u \in Threads \ {t} : \A p \in Holds(u) :
        p # NoCall.ptr /\ p # NoCall.new
  BY <1>4 DEF Holds
<1>6. QED
  BY <1>1, <1>3, <1>4, <1>5, StepKeeps

LEMMA ScanNextInv ==
  ASSUME HeapInv, NEW t \in Threads, ScanNext(t)
  PROVE  HeapInv'
<1> DEFINE b == loc[t].block
           e == [loc[t] EXCEPT !.last = b, !.block = hdr[b].next]
<1>1. pc[t] = "scan" /\ b # Null
      /\ UNCHANGED <<heap_base, malloc_lock, hdr, need, pc>>
  BY DEF ScanNext
<1>2. loc[t].op \in {"malloc", "move"} /\ b \in Blocks(hdr)
  BY <1>1, Self DEF AtPlace, ScanOK
<1>3. hdr[b].next \in Addr
  BY <1>2, Self, BlocksType
<1>4. e \in Local
  BY <1>3, Self DEF Local
<1>5. /\ e.op = loc[t].op /\ e.ptr = loc[t].ptr /\ e.new = loc[t].new
      /\ e.size = loc[t].size /\ e.want = loc[t].want
      /\ e.block = hdr[b].next /\ e.last = b
  BY Self DEF Local
<1>6. loc' = [loc EXCEPT ![t] = e] /\ pc' = [pc EXCEPT ![t] = "scan"]
  BY <1>1, Self DEF ScanNext
<1>7. ScanOK(hdr, heap_base, hdr[b].next, b)
  BY <1>1, <1>2, Self, Neighbours DEF ScanOK
<1> HIDE DEF e
<1>8. loc'[t] = e /\ pc'[t] = "scan"
  BY <1>1, <1>6, Self
<1>9. Asking(t)' /\ Owning(t)'
  BY <1>1, <1>5, <1>8, Self DEF Asking, Owning, TooLarge
<1>10. AtPlace(t)'
  BY <1>1, <1>2, <1>5, <1>7, <1>8 DEF AtPlace
<1>11. Sound(hdr', heap_base') /\ need' \in [Addr -> Nat] /\ PromisesKept'
  BY <1>1, SameHeap
<1>12. \A u \in Threads \ {t} : \A p \in Holds(u) : p # e.ptr /\ p # e.new
  BY <1>5, OwnPointers
<1>13. malloc_lock' = 1
  BY <1>1 DEF HeapInv, MutualExclusion
<1>14. QED
  BY <1>1, <1>4, <1>6, <1>9, <1>10, <1>11, <1>12, <1>13, StepKeeps

LEMMA ScanTakeInv ==
  ASSUME HeapInv, NEW t \in Threads, ScanTake(t)
  PROVE  HeapInv'
<1> DEFINE b == loc[t].block
           e == loc[t]
<1>1. /\ pc[t] = "scan" /\ b # Null /\ Fits(t)
      /\ hdr' = [hdr EXCEPT ![b].magic = USED]
      /\ pc' = [pc EXCEPT ![t] = "split"]
      /\ UNCHANGED <<heap_base, malloc_lock, need, loc>>
  BY DEF ScanTake, Goto
<1>2. loc[t].op \in {"malloc", "move"} /\ b \in Blocks(hdr)
  BY <1>1, Self DEF AtPlace, ScanOK
<1>3. hdr[b].magic = FREE /\ hdr[b].size >= Align(loc[t].size) /\ b \in Addr
  BY <1>1, Self DEF Fits
<1>4. /\ Sound(hdr', heap_base) /\ Blocks(hdr') = Blocks(hdr)
      /\ \A a \in Addr : /\ hdr'[a].size = hdr[a].size
                         /\ hdr'[a].magic = IF a = b THEN USED ELSE hdr[a].magic
  <2>1. USED \in {FREE, USED}
    OBVIOUS
  <2>2. QED
    <3>1. Sound(hdr', heap_base) /\ Marked(hdr, b, USED, hdr')
      BY <1>1, <1>2, <2>1, Self, MarkSound
    <3>2. QED
      BY <3>1 DEF Marked
<1>5. need[Payload(b)] = 0
  <2>1. SUFFICES ASSUME need[Payload(b)] # 0 PROVE FALSE
    OBVIOUS
  <2>2. get_block_ptr(Payload(b)) = b
    BY <1>3, Naturals DEF get_block_ptr, Payload
  <2>3. Payload(b) \in Addr
    <3>1. End(hdr, b) <= MemTop + 1 /\ hdr[b].size \in Nat
      BY <1>2, Self, BlocksType
    <3>2. 0 < Align(loc[t].size) /\ Align(loc[t].size) \in Nat
      <4>1. 0 < loc[t].size /\ ~TooLarge(loc[t].size) /\ loc[t].size \in Nat
        BY <1>2, Self DEF Asking
      <4>2. QED
        BY <4>1, AlignFits
    <3>3. b \in Nat
      BY <1>3, Naturals
    <3>4. QED
      BY <1>3, <3>1, <3>2, <3>3, Naturals DEF End, Payload, Addr
  <2>4. QED
    BY <2>1, <2>2, <2>3, <1>3, LiveBlock
<1>6. PromisesKept'
  BY <1>1, <1>4, Self DEF PromisesKept, Blocks
<1>7. Asking(t)' /\ Owning(t)'
  BY <1>1, <1>2, Self DEF Asking, Owning, TooLarge
<1>8. pc'[t] = "split"
  BY <1>1, Self
<1>9. AtPlace(t)'
  BY <1>1, <1>2, <1>3, <1>4, <1>5, <1>8, Self DEF AtPlace, Align, Wrap
<1>10. \A u \in Threads \ {t} : \A p \in Holds(u) : p # e.ptr /\ p # e.new
  BY OwnPointers
<1>11. malloc_lock' = 1
  BY <1>1 DEF HeapInv, MutualExclusion
<1>12. loc' = [loc EXCEPT ![t] = e] /\ e \in Local
  BY <1>1, Self
<1>13. Sound(hdr', heap_base') /\ need' \in [Addr -> Nat]
  BY <1>1, <1>4, Self
<1>14. QED
  BY <1>1, <1>6, <1>7, <1>9, <1>10, <1>11, <1>12, <1>13, StepKeeps

\* A block that is not in use has not been promised to the program.
LEMMA UnusedBlock ==
  ASSUME HeapInv, NEW b \in Addr, Payload(b) \in Addr,
         b \in Blocks(hdr) => hdr[b].magic = FREE
  PROVE  need[Payload(b)] = 0
<1>1. get_block_ptr(Payload(b)) = b
  BY Naturals DEF get_block_ptr, Payload
<1>2. QED
  BY <1>1, LiveBlock

LEMMA GrowInv ==
  ASSUME HeapInv, NEW t \in Threads, Grow(t)
  PROVE  HeapInv'
<1> DEFINE n == Align(loc[t].size)
           len == MapLength(n + BLOCK_META_SIZE)
           last == loc[t].last
<1>1. PICK a \in Addr :
        /\ pc[t] = "scan" /\ loc[t].block = Null
        /\ len >= n + BLOCK_META_SIZE
        /\ MapFree(hdr, a, len)
        /\ hdr' = Append(hdr, a, len - BLOCK_META_SIZE, last)
        /\ heap_base' = IF heap_base = Null THEN a ELSE heap_base
        /\ loc' = [loc EXCEPT ![t].block = a]
        /\ pc' = [pc EXCEPT ![t] = "split"]
        /\ malloc_lock' = malloc_lock /\ need' = need
  BY DEF Grow, Goto
<1> DEFINE e == [loc[t] EXCEPT !.block = a]
<1>2. loc[t].op \in {"malloc", "move"} /\ ScanOK(hdr, heap_base, Null, last)
  BY <1>1, Self DEF AtPlace
<1>3. n \in Nat /\ 0 < n
  <2>1. 0 < loc[t].size /\ ~TooLarge(loc[t].size) /\ loc[t].size \in Nat
    BY <1>2, Self DEF Asking
  <2>2. QED
    BY <2>1, AlignFits
<1>4. len \in Nat /\ BLOCK_META_SIZE <= len /\ len - BLOCK_META_SIZE >= n
  <2>1. len \in Nat
    <3> DEFINE q == Wrap(n + BLOCK_META_SIZE + (PAGE_SIZE - 1)) \div PAGE_SIZE
    <3>1. Wrap(n + BLOCK_META_SIZE + (PAGE_SIZE - 1)) \in Nat
      BY <1>3, HeapAssumption DEF Wrap
    <3>2. q \in Nat
      BY <3>1, HeapAssumption
    <3>3. len = q * PAGE_SIZE
      BY DEF MapLength
    <3> HIDE DEF q, len
    <3>4. QED
      BY <3>2, <3>3, HeapAssumption
  <2> HIDE DEF len, n
  <2>2. QED
    BY <1>1, <1>3, <2>1, Naturals
<1> HIDE DEF len, n
<1>5. /\ Sound(hdr', heap_base')
      /\ a \notin Blocks(hdr) /\ Blocks(hdr') = Blocks(hdr) \cup {a}
      /\ hdr'[a].size = len - BLOCK_META_SIZE /\ hdr'[a].magic = USED
      /\ \A d \in Blocks(hdr) : /\ hdr'[d].size = hdr[d].size
                                /\ hdr'[d].magic = hdr[d].magic
  BY <1>1, <1>2, <1>4, Self, AppendSound
<1>6. need[Payload(a)] = 0
  <2>1. Payload(a) \in Addr
    BY <1>1, <1>3, <1>4, Naturals DEF Payload, MapFree, Addr
  <2>2. QED
    BY <2>1, <1>5, UnusedBlock
<1>7. PromisesKept'
  BY <1>1, <1>5, Self DEF PromisesKept
<1>8. e \in Local
  BY Self DEF Local
<1>9. /\ e.op = loc[t].op /\ e.ptr = loc[t].ptr /\ e.new = loc[t].new
      /\ e.size = loc[t].size /\ e.want = loc[t].want /\ e.block = a
  BY Self DEF Local
<1>10. loc' = [loc EXCEPT ![t] = e]
  BY <1>1
<1> HIDE DEF e
<1>11. loc'[t] = e /\ pc'[t] = "split"
  BY <1>1, <1>10, Self
<1>12. Asking(t)' /\ Owning(t)'
  BY <1>1, <1>9, <1>11, Self DEF Asking, Owning, TooLarge
<1>13. hdr'[a].size >= Align(loc[t].size)
  BY <1>4, <1>5 DEF n
<1>14. AtPlace(t)'
  BY <1>1, <1>2, <1>5, <1>6, <1>9, <1>11, <1>13 DEF AtPlace, Align, Wrap
<1>15. \A u \in Threads \ {t} : \A p \in Holds(u) :
         /\ need[p] # 0 => need'[p] = need[p]
         /\ p # e.ptr /\ p # e.new
  BY <1>1, <1>9, OwnPointers
<1>16. malloc_lock' = 1
  BY <1>1 DEF HeapInv, MutualExclusion
<1>17. need' \in [Addr -> Nat]
  BY <1>1, Self
<1>18. pc' = [pc EXCEPT ![t] = "split"] /\ pc[t] \in Critical
  BY <1>1
<1>19. Sound(hdr', heap_base')
  BY <1>5
<1>20. QED
  BY <1>7, <1>8, <1>10, <1>12, <1>14, <1>15, <1>16, <1>17, <1>18, <1>19, StepKeeps

LEMMA GrowFailsInv ==
  ASSUME HeapInv, NEW t \in Threads, GrowFails(t)
  PROVE  HeapInv'
BY SameHeap, LeaveKeeps DEF GrowFails

\* The end of malloc keeps its promise and those of the other calls.
LEMMA MallocSplitInv ==
  ASSUME HeapInv, NEW t \in Threads, MallocSplit(t)
  PROVE  HeapInv'
<1> DEFINE b == loc[t].block
           p == Payload(b)
           n == Align(loc[t].size)
<1>1. /\ pc[t] = "split" /\ hdr' = split_block(hdr, b, n)
      /\ need' = [need EXCEPT ![p] = loc[t].want]
      /\ heap_base' = heap_base
  BY DEF MallocSplit
<1>2. /\ loc[t].op \in {"malloc", "move"} /\ b \in Blocks(hdr)
      /\ hdr[b].magic = USED /\ hdr[b].size >= n /\ need[p] = 0
  BY <1>1, Self DEF AtPlace
<1>3. n \in Nat /\ 0 < n /\ loc[t].want <= n /\ 0 < loc[t].want
      /\ loc[t].want = loc[t].size
  <2>1. 0 < loc[t].size /\ ~TooLarge(loc[t].size) /\ loc[t].size \in Nat
        /\ loc[t].want = loc[t].size
    BY <1>2, Self DEF Asking
  <2>2. QED
    BY <2>1, AlignFits
<1>4. p \in Addr /\ get_block_ptr(p) = b /\ b \in Addr
  <2>1. b \in Nat /\ b \in Addr /\ End(hdr, b) <= MemTop + 1 /\ hdr[b].size \in Nat
    BY <1>2, Self, BlocksType, Naturals
  <2> HIDE DEF n
  <2>2. QED
    BY <2>1, <1>2, <1>3, Naturals DEF End, Payload, Addr, get_block_ptr
<1> HIDE DEF n, p
<1>5. /\ Sound(hdr', heap_base)
      /\ Blocks(hdr) \subseteq Blocks(hdr')
      /\ hdr'[b].size >= n
      /\ \A a \in Blocks(hdr) : /\ hdr'[a].magic = hdr[a].magic
                                /\ a # b => hdr'[a].size = hdr[a].size
  BY <1>1, <1>2, <1>3, Self, SplitSound
<1>6. hdr'[b].size \in Nat
  BY <1>2, <1>5, BlocksType
<1>7. need' \in [Addr -> Nat] /\ need'[p] = loc[t].want
      /\ \A q \in Addr : q # p => need'[q] = need[q]
  BY <1>1, <1>4, Self
<1>8. PromisesKept'
  <2>1. SUFFICES ASSUME NEW q \in Addr, need'[q] # 0
                 PROVE  /\ get_block_ptr(q) \in Blocks(hdr')
                        /\ hdr'[get_block_ptr(q)].magic = USED
                        /\ hdr'[get_block_ptr(q)].size >= need'[q]
    BY DEF PromisesKept
  <2>2. CASE q = p
    BY <2>2, <1>2, <1>3, <1>4, <1>5, <1>6, <1>7, Self
  <2>3. CASE q # p
    <3>1. need[q] # 0 /\ need'[q] = need[q]
      BY <2>1, <2>3, <1>7
    <3>2. get_block_ptr(q) # b
      BY <2>3, <3>1, LiveBlock DEF p
    <3>3. QED
      BY <3>1, <3>2, <1>5, LiveBlock
  <2>4. QED
    BY <2>2, <2>3
<1>9. \A u \in Threads \ {t} : \A q \in Holds(u) :
        need[q] # 0 /\ q # p /\ need'[q] = need[q]
  BY <1>1, <1>2, <1>7, OthersLive
<1>10. CASE loc[t].op = "malloc" /\ Leave(t)
  BY <1>1, <1>5, <1>7, <1>8, <1>9, <1>10, LeaveKeeps
<1>11. CASE /\ loc[t].op = "move" /\ malloc_lock' = 0 /\ Goto(t, "copy")
            /\ loc' = [loc EXCEPT ![t].new = p]
  <2> DEFINE e == [loc[t] EXCEPT !.new = p]
  <2>1. e \in Local
    BY <1>4, Self DEF Local
  <2>2. /\ e.op = loc[t].op /\ e.ptr = loc[t].ptr /\ e.new = p
        /\ e.size = loc[t].size /\ e.want = loc[t].want
    BY Self DEF Local
  <2>3. loc' = [loc EXCEPT ![t] = e] /\ pc' = [pc EXCEPT ![t] = "copy"]
    BY <1>11 DEF Goto
  <2> HIDE DEF e
  <2>4. loc'[t] = e /\ pc'[t] = "copy"
    BY <2>3, Self
  <2>5. need[loc[t].ptr] # 0 /\ loc[t].ptr # p /\ need'[loc[t].ptr] # 0
    BY <1>1, <1>2, <1>7, <1>11, Self DEF Owning
  <2>6. Asking(t)'
    BY <1>11, <2>2, <2>4, Self DEF Asking, TooLarge
  <2>7. Owning(t)'
    BY <1>3, <1>7, <1>11, <2>2, <2>4, <2>5 DEF Owning
  <2>8. AtPlace(t)'
    BY <1>3, <1>7, <1>11, <2>2, <2>4 DEF AtPlace
  <2>9. \A u \in Threads \ {t} : \A q \in Holds(u) :
          /\ need[q] # 0 => need'[q] = need[q]
          /\ q # e.ptr /\ q # e.new
    BY <2>2, <1>9, OwnPointers
  <2>10. Sound(hdr', heap_base') /\ need' \in [Addr -> Nat]
    BY <1>1, <1>5, <1>7
  <2>11. pc[t] \in Critical /\ malloc_lock' = 0
    BY <1>1, <1>11
  <2>12. QED
    BY <1>8, <2>1, <2>3, <2>6, <2>7, <2>8, <2>9, <2>10, <2>11, StepKeeps
<1>12. QED
  BY <1>10, <1>11 DEF MallocSplit, p

LEMMA FreeMarkInv ==
  ASSUME HeapInv, NEW t \in Threads, FreeMark(t)
  PROVE  HeapInv'
<1> DEFINE b == loc[t].block
           p == loc[t].ptr
           e == loc[t]
<1>1. /\ pc[t] = "mark" /\ hdr[b].magic = USED
      /\ hdr' = [hdr EXCEPT ![b].magic = FREE]
      /\ need' = [need EXCEPT ![p] = 0]
      /\ pc' = [pc EXCEPT ![t] = "coalesce"]
      /\ heap_base' = heap_base /\ malloc_lock' = malloc_lock /\ loc' = loc
  BY DEF FreeMark, Goto
<1>2. /\ loc[t].op \in {"free", "drop"} /\ b = get_block_ptr(p)
      /\ need[p] # 0 /\ b \in Blocks(hdr) /\ p \in Addr
  BY <1>1, Self, LiveBlock DEF AtPlace, Owning
<1>3. Sound(hdr', heap_base) /\ Marked(hdr, b, FREE, hdr')
  <2>1. FREE \in {FREE, USED}
    OBVIOUS
  <2>2. QED
    BY <1>1, <1>2, <2>1, Self, MarkSound
<1>4. /\ Blocks(hdr') = Blocks(hdr)
      /\ \A a \in Addr : /\ hdr'[a].size = hdr[a].size
                         /\ hdr'[a].magic = IF a = b THEN FREE ELSE hdr[a].magic
  BY <1>3 DEF Marked
<1>5. need' \in [Addr -> Nat] /\ need'[p] = 0
      /\ \A q \in Addr : q # p => need'[q] = need[q]
  BY <1>1, <1>2, Self
<1>6. PromisesKept'
  <2>1. SUFFICES ASSUME NEW q \in Addr, need'[q] # 0
                 PROVE  /\ get_block_ptr(q) \in Blocks(hdr')
                        /\ hdr'[get_block_ptr(q)].magic = USED
                        /\ hdr'[get_block_ptr(q)].size >= need'[q]
    BY DEF PromisesKept
  <2>2. q # p /\ need'[q] = need[q]
    BY <2>1, <1>5
  <2>3. get_block_ptr(q) # b
    BY <2>1, <2>2, <1>2, LiveBlock
  <2>4. QED
    BY <2>1, <2>2, <2>3, <1>4, LiveBlock DEF Blocks
<1>7. pc'[t] = "coalesce"
  BY <1>1, Self
<1>8. Asking(t)' /\ Owning(t)'
  <2>1. loc[t].new # p /\ (loc[t].op = "drop" => need[loc[t].new] # 0)
    BY <1>1, <1>2, Self, LiveBlock DEF Owning
  <2>2. loc[t].op = "drop" => need'[loc[t].new] # 0
    BY <2>1, <1>5, Self
  <2>3. QED
    BY <1>1, <1>2, <1>7, <2>1, <2>2, Self DEF Asking, Owning, TooLarge
<1>9. AtPlace(t)'
  <2>1. loc'[t] = loc[t] /\ loc[t].op # "none"
    BY <1>1, <1>2
  <2>2. b \in Blocks(hdr') /\ hdr'[b].magic = FREE
    BY <1>2, <1>4 DEF Blocks
  <2>3. QED
    BY <1>2, <1>7, <2>1, <2>2 DEF AtPlace
<1>10. \A u \in Threads \ {t} : \A q \in Holds(u) :
         /\ need[q] # 0 => need'[q] = need[q]
         /\ q # e.ptr /\ q # e.new
  BY <1>1, <1>5, OwnPointers, OthersLive
<1>11. malloc_lock' = 1
  BY <1>1 DEF HeapInv, MutualExclusion
<1>12. /\ loc' = [loc EXCEPT ![t] = e] /\ e \in Local
       /\ Sound(hdr', heap_base') /\ pc[t] \in Critical
  BY <1>1, <1>3, Self
<1>13. QED
  BY <1>1, <1>5, <1>6, <1>8, <1>9, <1>10, <1>11, <1>12, StepKeeps

\* A list that keeps the blocks in use keeps the promises, if those of b
\* are kept too.
LEMMA PromisesStay ==
  ASSUME HeapInv, NEW b \in Addr, KeepsUsed(hdr, hdr', b), need' = need,
         hdr[b].magic = FREE
  PROVE  PromisesKept'
<1>1. SUFFICES ASSUME NEW q \in Addr, need'[q] # 0
               PROVE  /\ get_block_ptr(q) \in Blocks(hdr')
                      /\ hdr'[get_block_ptr(q)].magic = USED
                      /\ hdr'[get_block_ptr(q)].size >= need'[q]
  BY DEF PromisesKept
<1>2. QED
  BY <1>1, LiveBlock DEF KeepsUsed

LEMMA FreeCoalesceInv ==
  ASSUME HeapInv, NEW t \in Threads, FreeCoalesce(t)
  PROVE  HeapInv'
<1> DEFINE b == loc[t].block
<1>1. /\ pc[t] = "coalesce" /\ hdr' = coalesce(hdr, b) /\ Leave(t)
      /\ heap_base' = heap_base /\ need' = need
  BY DEF FreeCoalesce
<1>2. b \in Blocks(hdr) /\ hdr[b].magic = FREE /\ b \in Addr
  BY <1>1, Self DEF AtPlace
<1>3. Sound(hdr', heap_base) /\ KeepsUsed(hdr, hdr', b)
  BY <1>1, <1>2, Self, CoalesceSound
<1>4. PromisesKept' /\ need' \in [Addr -> Nat]
  BY <1>1, <1>2, <1>3, Self, PromisesStay
<1>5. QED
  BY <1>1, <1>3, <1>4, LeaveKeeps

\* A resize in place leaves every other block in use as it was.
LEMMA ReallocInPlaceInv ==
  ASSUME HeapInv, NEW t \in Threads, ReallocInPlace(t)
  PROVE  HeapInv'
<1> DEFINE b == loc[t].block
           p == loc[t].ptr
           n == Align(loc[t].size)
           h == IF Roomy(hdr, t) THEN hdr ELSE Extended(hdr, b)
<1>1. /\ pc[t] = "resize" /\ hdr[b].magic = USED /\ h[b].size >= n
      /\ hdr' = split_block(h, b, n)
      /\ need' = [need EXCEPT ![p] = loc[t].want]
      /\ Leave(t) /\ heap_base' = heap_base
  BY DEF ReallocInPlace, Roomy
<1>2. /\ loc[t].op = "realloc" /\ b = get_block_ptr(p)
      /\ need[p] # 0 /\ p \in Addr /\ b \in Blocks(hdr)
  BY <1>1, Self, LiveBlock DEF AtPlace, Owning
<1>3. n \in Nat /\ loc[t].want <= n /\ loc[t].want \in Nat
  <2>1. ~TooLarge(loc[t].size) /\ loc[t].size \in Nat
        /\ loc[t].want = loc[t].size
    BY <1>2, Self DEF Asking
  <2>2. QED
    BY <2>1, AlignFits
<1>4. /\ Sound(h, heap_base) /\ b \in Blocks(h)
      /\ h[b].magic = USED /\ KeepsUsed(hdr, h, b)
  <2>1. CASE h = hdr
    <3>1. KeepsUsed(hdr, hdr, b)
      BY DEF KeepsUsed
    <3>2. QED
      BY <2>1, <3>1, <1>1, <1>2, Self
  <2>2. CASE h = MergeNext(hdr, b)
    BY <2>2, <1>1, <1>2, Self, MergeNextSound
  <2>3. QED
    BY <2>1, <2>2 DEF Extended
<1> HIDE DEF n, h
<1>5. /\ Sound(hdr', heap_base)
      /\ Blocks(h) \subseteq Blocks(hdr')
      /\ hdr'[b].size >= n
      /\ \A a \in Blocks(h) : /\ hdr'[a].magic = h[a].magic
                              /\ a # b => hdr'[a].size = h[a].size
  BY <1>1, <1>3, <1>4, SplitSound
<1>6. hdr'[b].size \in Nat
  BY <1>4, <1>5, BlocksType
<1>7. need' \in [Addr -> Nat] /\ need'[p] = loc[t].want
      /\ \A q \in Addr : q # p => need'[q] = need[q]
  BY <1>1, <1>2, <1>3, Self
<1>8. PromisesKept'
  <2>1. SUFFICES ASSUME NEW q \in Addr, need'[q] # 0
                 PROVE  /\ get_block_ptr(q) \in Blocks(hdr')
                        /\ hdr'[get_block_ptr(q)].magic = USED
                        /\ hdr'[get_block_ptr(q)].size >= need'[q]
    BY DEF PromisesKept
  <2>2. CASE q = p
    BY <2>2, <1>2, <1>3, <1>4, <1>5, <1>6, <1>7
  <2>3. CASE q # p
    <3>1. need[q] # 0 /\ need'[q] = need[q]
      BY <2>1, <2>3, <1>7
    <3>2. get_block_ptr(q) # b
      BY <2>3, <3>1, <1>2, LiveBlock
    <3>3. QED
      BY <3>1, <3>2, <1>4, <1>5, LiveBlock DEF KeepsUsed
  <2>4. QED
    BY <2>2, <2>3
<1>9. \A u \in Threads \ {t} : \A q \in Holds(u) : need'[q] = need[q]
  BY <1>1, <1>7, OwnPointers, OthersLive
<1>10. Sound(hdr', heap_base') /\ pc[t] \in Critical
  BY <1>1, <1>5
<1>11. QED
  BY <1>1, <1>7, <1>8, <1>9, <1>10, LeaveKeeps

\* The steps of realloc that leave the heap alone.
LEMMA ReallocMoveInv ==
  ASSUME HeapInv, NEW t \in Threads, ReallocMove(t) \/ ReallocCopy(t)
  PROVE  HeapInv'
<1>1. \E op \in {"move", "drop"} :
        /\ \/ pc[t] = "resize" /\ op = "move" /\ malloc_lock' = 0
           \/ pc[t] = "copy" /\ op = "drop" /\ malloc_lock' = malloc_lock
        /\ loc' = [loc EXCEPT ![t].op = op]
        /\ pc' = [pc EXCEPT ![t] = "lock"]
        /\ UNCHANGED <<heap_base, hdr, need>>
  BY DEF ReallocMove, ReallocCopy, Goto
<1>2. PICK op \in {"move", "drop"} :
        /\ \/ pc[t] = "resize" /\ op = "move" /\ malloc_lock' = 0
           \/ pc[t] = "copy" /\ op = "drop" /\ malloc_lock' = malloc_lock
        /\ loc' = [loc EXCEPT ![t].op = op]
        /\ pc' = [pc EXCEPT ![t] = "lock"]
        /\ UNCHANGED <<heap_base, hdr, need>>
  BY <1>1
<1> DEFINE e == [loc[t] EXCEPT !.op = op]
<1>3. e \in Local
  BY Self DEF Local, Ops
<1>4. /\ e.op = op /\ e.ptr = loc[t].ptr /\ e.new = loc[t].new
      /\ e.size = loc[t].size /\ e.want = loc[t].want
  BY Self DEF Local
<1>5. loc' = [loc EXCEPT ![t] = e]
  BY <1>2
<1> HIDE DEF e
<1>6. loc'[t] = e /\ pc'[t] = "lock"
  BY <1>2, <1>5, Self
<1>7. IF op = "move" THEN loc[t].op = "realloc" ELSE loc[t].op = "move"
  BY <1>2, Self DEF AtPlace
<1>8. Asking(t)'
  BY <1>4, <1>6, <1>7, Self DEF Asking, TooLarge
<1>9. Owning(t)'
  BY <1>2, <1>4, <1>6, <1>7, Self DEF Owning
<1>10. AtPlace(t)'
  BY <1>4, <1>6, <1>7 DEF AtPlace
<1>11. Sound(hdr', heap_base') /\ need' \in [Addr -> Nat] /\ PromisesKept'
  BY <1>2, SameHeap
<1>12. \A u \in Threads \ {t} : \A p \in Holds(u) :
         /\ need[p] # 0 => need'[p] = need[p]
         /\ p # e.ptr /\ p # e.new
  BY <1>2, <1>4, OwnPointers
<1>13. malloc_lock' = IF pc[t] \in Critical THEN 0 ELSE malloc_lock
  BY <1>2
<1>14. UNCHANGED <<hdr, heap_base, need>>
  BY <1>2
<1>15. QED
  BY <1>2, <1>3, <1>5, <1>8, <1>9, <1>10, <1>11, <1>12, <1>13, <1>14, StepKeeps

LEMMA InitInv == Init => HeapInv
<1> SUFFICES ASSUME Init PROVE HeapInv
  OBVIOUS
<1>1. Blocks(hdr) = {}
  BY DEF Init, Blocks, NoHeader
<1>2. Null \in Addr /\ NoHeader \in Header
  BY HeapAssumption DEF Addr, NoHeader, Header
<1>3. TypeOK
  BY <1>2, NoCallType DEF Init, TypeOK
<1>4. MutualExclusion
  BY DEF Init, MutualExclusion
<1>5. Sound(hdr, heap_base)
  BY <1>1, <1>2 DEF Init, Sound, Disjoint, Linked
<1>6. PromisesKept
  BY DEF Init, PromisesKept
<1>7. \A t \in Threads : Asking(t) /\ Owning(t) /\ AtPlace(t)
  BY DEF Init, NoCall, Asking, Owning, AtPlace
<1>8. Exclusive
  BY DEF Init, NoCall, Exclusive, Holds
<1>9. QED
  BY <1>3, <1>4, <1>5, <1>6, <1>7, <1>8 DEF HeapInv

LEMMA StepInv ==
  ASSUME HeapInv, NEW t \in Threads, Step(t)
  PROVE  HeapInv'
<1>1. ASSUME NEW n \in Sizes, Malloc(t, n) PROVE HeapInv'
  BY <1>1, HeapAssumption, MallocInv
<1>2. ASSUME NEW m \in Counts, NEW n \in Sizes, Calloc(t, m, n) PROVE HeapInv'
  <2>1. m \in Nat /\ n \in Nat
    BY HeapAssumption
  <2>2. QED
    BY <1>2, <2>1, CallocInv
<1>3. CASE FreeNull(t)
  BY <1>3, ReturnInv DEF FreeNull
<1>4. ASSUME NEW p \in Owned, Free(t, p) PROVE HeapInv'
  BY <1>4, FreeInv
<1>5. ASSUME NEW p \in Owned, NEW n \in Sizes, Realloc(t, p, n) PROVE HeapInv'
  BY <1>5, HeapAssumption, ReallocInv
<1>6. CASE Lock(t)
  BY <1>6, LockInv
<1>7. CASE ScanNext(t)
  BY <1>7, ScanNextInv
<1>8. CASE ScanTake(t)
  BY <1>8, ScanTakeInv
<1>9. CASE Grow(t)
  BY <1>9, GrowInv
<1>10. CASE GrowFails(t)
  BY <1>10, GrowFailsInv
<1>11. CASE MallocSplit(t)
  BY <1>11, MallocSplitInv
<1>12. CASE FreeMark(t)
  BY <1>12, FreeMarkInv
<1>13. CASE FreeCoalesce(t)
  BY <1>13, FreeCoalesceInv
<1>14. CASE ReallocInPlace(t)
  BY <1>14, ReallocInPlaceInv
<1>15. CASE ReallocMove(t) \/ ReallocCopy(t)
  BY <1>15, ReallocMoveInv
<1>16. QED
  BY <1>1, <1>2, <1>3, <1>4, <1>5, <1>6, <1>7, <1>8, <1>9, <1>10, <1>11,
     <1>12, <1>13, <1>14, <1>15 DEF Step, Call, Inside

\* The inductive invariant: in every reachable state the headers form a
\* sound list and every call in progress finds what it relies on.
THEOREM HeapInvariant == Spec => []HeapInv
<1>1. HeapInv /\ [Next]_vars => HeapInv'
  BY StutterInv, StepInv DEF Next
<1>2. QED
  BY InitInv, <1>1, PTL DEF Spec

\* Every variable keeps its type: in particular no header, no pointer and
\* no thread's local variable ever leaves the memory of the process.
THEOREM HeapTypes == Spec => []TypeOK
<1>1. HeapInv => TypeOK
  BY DEF HeapInv
<1>2. QED
  BY <1>1, HeapInvariant, PTL

\* malloc_lock keeps the threads out of each other's critical sections.
THEOREM HeapMutex == Spec => []MutualExclusion
<1>1. HeapInv => MutualExclusion
  BY DEF HeapInv
<1>2. QED
  BY <1>1, HeapInvariant, PTL

\* Blocks never overlap and their links agree, whatever split, coalesced
\* or appended them.
THEOREM HeapIsWellFormed == Spec => []HeapWellFormed
<1>1. HeapInv => HeapWellFormed
  BY DEF HeapInv, Sound, HeapWellFormed
<1>2. QED
  BY <1>1, HeapInvariant, PTL

\* malloc, calloc and realloc give at least what was asked for, and it
\* stays given until it is freed.
THEOREM HeapKeepsPromises == Spec => []PromisesKept
<1>1. HeapInv => PromisesKept
  BY DEF HeapInv
<1>2. QED
  BY <1>1, HeapInvariant, PTL

\* What the program owns lies in memory.
InMemory == \A p \in Addr : p + need[p] <= MemTop + 1

\* Blocks that do not overlap, one behind every promise, keep the promises
\* apart.
LEMMA PromisesApart ==
  ASSUME Sound(hdr, heap_base), need \in [Addr -> Nat], PromisesKept
  PROVE  NoOverlap /\ InMemory
<1>1. ASSUME NEW p \in Addr, need[p] # 0
      PROVE  LET b == get_block_ptr(p) IN
             /\ b \in Blocks(hdr) /\ b \in Nat /\ p = b + BLOCK_META_SIZE
             /\ need[p] \in Nat /\ p \in Nat
             /\ p + need[p] <= End(hdr, b) /\ End(hdr, b) \in Nat
             /\ End(hdr, b) <= MemTop + 1
  <2> DEFINE b == get_block_ptr(p)
  <2>1. b \in Blocks(hdr) /\ hdr[b].size >= need[p]
    BY <1>1 DEF PromisesKept
  <2>2. /\ b \in Nat /\ hdr[b].size \in Nat /\ End(hdr, b) <= MemTop + 1
        /\ need[p] \in Nat /\ p \in Nat
    BY <2>1, BlocksType, Naturals
  <2>3. p = b + BLOCK_META_SIZE
    BY <2>2, Naturals DEF get_block_ptr
  <2> HIDE DEF b
  <2>4. QED
    BY <2>1, <2>2, <2>3, Naturals DEF End, b
<1>2. NoOverlap
  <2>1. SUFFICES ASSUME NEW p \in Addr, NEW q \in Addr,
                        need[p] # 0, need[q] # 0, p # q
                 PROVE  p + need[p] <= q \/ q + need[q] <= p
    BY DEF NoOverlap
  <2> DEFINE a == get_block_ptr(p)
             b == get_block_ptr(q)
  <2>2. /\ a \in Blocks(hdr) /\ a \in Nat /\ p = a + BLOCK_META_SIZE
        /\ need[p] \in Nat /\ p + need[p] <= End(hdr, a) /\ End(hdr, a) \in Nat
    BY <1>1, <2>1
  <2>3. /\ b \in Blocks(hdr) /\ b \in Nat /\ q = b + BLOCK_META_SIZE
        /\ need[q] \in Nat /\ q + need[q] <= End(hdr, b) /\ End(hdr, b) \in Nat
    BY <1>1, <2>1
  <2> HIDE DEF a, b
  <2>4. End(hdr, a) <= b \/ End(hdr, b) <= a
    BY <2>1, <2>2, <2>3 DEF Sound, Disjoint
  <2>5. QED
    BY <2>2, <2>3, <2>4, Naturals
<1>3. ASSUME NEW p \in Addr PROVE p + need[p] <= MemTop + 1
  <2>1. CASE need[p] = 0
    BY <2>1, Naturals
  <2>2. CASE need[p] # 0
    BY <2>2, <1>1, Naturals
  <2>3. QED
    BY <2>1, <2>2
<1>4. QED
  BY <1>2, <1>3 DEF InMemory

LEMMA Apart == HeapInv => NoOverlap /\ InMemory
BY PromisesApart DEF HeapInv, TypeOK

\* No byte is promised to the program twice.
THEOREM HeapNoOverlap == Spec => []NoOverlap
BY Apart, HeapInvariant, PTL

\* While realloc copies, without the lock, both blocks are its own and
\* large enough for the bytes it copies.
THEOREM ReallocIsSafe == Spec => []ReallocCopySafe
<1>1. HeapInv => ReallocCopySafe
  <2>1. SUFFICES ASSUME HeapInv, NEW t \in Threads
                 PROVE  /\ loc[t].op = "move" => need[loc[t].ptr] # 0
                        /\ pc[t] = "copy" =>
                             /\ need[loc[t].new] # 0 /\ loc[t].new # loc[t].ptr
                             /\ copy_size(t) <= hdr[get_block_ptr(loc[t].ptr)].size
                             /\ copy_size(t) <= hdr[get_block_ptr(loc[t].new)].size
    BY DEF ReallocCopySafe
  <2>2. loc[t].op = "move" => need[loc[t].ptr] # 0
    BY <2>1, Self DEF Owning, AtPlace
  <2>3. ASSUME pc[t] = "copy"
        PROVE  /\ need[loc[t].new] # 0 /\ loc[t].new # loc[t].ptr
               /\ copy_size(t) <= hdr[get_block_ptr(loc[t].ptr)].size
               /\ copy_size(t) <= hdr[get_block_ptr(loc[t].new)].size
    <3> DEFINE old == hdr[get_block_ptr(loc[t].ptr)].size
               new == hdr[get_block_ptr(loc[t].new)].size
    <3>1. loc[t].op = "move" /\ need[loc[t].new] = loc[t].size
          /\ need[loc[t].new] # 0 /\ loc[t].new # loc[t].ptr
          /\ loc[t].size \in Nat
      BY <2>1, <2>3, Self DEF AtPlace, Owning
    <3>2. need[loc[t].ptr] # 0
      BY <2>2, <3>1
    <3>3. old \in Nat /\ new \in Nat /\ new >= loc[t].size
      BY <2>1, <3>1, <3>2, Self, LiveBlock, BlocksType
    <3>4. copy_size(t) = IF old < loc[t].size THEN old ELSE loc[t].size
      BY DEF copy_size
    <3> HIDE DEF old, new
    <3>5. copy_size(t) <= old /\ copy_size(t) <= new
      BY <3>1, <3>3, <3>4
    <3>6. QED
      BY <3>1, <3>5 DEF old, new
  <2>4. QED
    BY <2>2, <2>3
<1>2. QED
  BY <1>1, HeapInvariant, PTL

-----------------------------------------------------------------------------
(* The allocator implements its abstract specification.                    *)

\* What the program owns changes at one address at most: bytes are handed
\* out, resized, or taken back.
OneChange ==
  \/ need' = need
  \/ \E p \in Addr : need[p] # 0 /\ need' = [need EXCEPT ![p] = 0]
  \/ \E p \in Addr, n \in Nat \ {0} : need' = [need EXCEPT ![p] = n]

LEMMA OneAddress ==
  ASSUME HeapInv, NEW t \in Threads, Step(t)
  PROVE  OneChange
<1> USE DEF OneChange
<1>1. CASE Call(t) \/ Lock(t) \/ ReallocCopy(t)
  BY <1>1 DEF Call, Lock, ReallocCopy, Malloc, Calloc, Free, FreeNull, Realloc,
              Return, Begin, vars
<1>2. CASE ScanNext(t) \/ ScanTake(t) \/ Grow(t) \/ GrowFails(t)
           \/ FreeCoalesce(t) \/ ReallocMove(t)
  BY <1>2 DEF ScanNext, ScanTake, Grow, GrowFails, FreeCoalesce, ReallocMove
<1>3. CASE MallocSplit(t)
  <2>1. pc[t] = "split" /\ loc[t].op \in {"malloc", "move"}
    BY <1>3, Self DEF MallocSplit, AtPlace
  <2>2. loc[t].want \in Nat \ {0} /\ loc[t].block \in Blocks(hdr)
        /\ hdr[loc[t].block].size >= Align(loc[t].size)
        /\ ~TooLarge(loc[t].size) /\ 0 < loc[t].size /\ loc[t].size \in Nat
    BY <2>1, Self DEF Asking, AtPlace
  <2>3. Payload(loc[t].block) \in Addr
    <3> DEFINE b == loc[t].block
               n == Align(loc[t].size)
    <3>1. b \in Nat /\ b \in Addr /\ End(hdr, b) <= MemTop + 1
          /\ hdr[b].size \in Nat
      BY <2>2, Self, BlocksType, Naturals
    <3>2. n \in Nat /\ 0 < n /\ hdr[b].size >= n
      BY <2>2, AlignFits
    <3> HIDE DEF n, b
    <3>3. QED
      BY <3>1, <3>2, Naturals DEF End, Payload, Addr, b
  <2>4. need' = [need EXCEPT ![Payload(loc[t].block)] = loc[t].want]
    BY <1>3 DEF MallocSplit
  <2>5. QED
    BY <2>2, <2>3, <2>4
<1>4. CASE FreeMark(t)
  <2>1. need[loc[t].ptr] # 0 /\ loc[t].ptr \in Addr
    BY <1>4, Self DEF FreeMark, AtPlace, Owning
  <2>2. need' = [need EXCEPT ![loc[t].ptr] = 0]
    BY <1>4 DEF FreeMark
  <2>3. QED
    BY <2>1, <2>2
<1>5. CASE ReallocInPlace(t)
  <2>1. loc[t].op = "realloc" /\ loc[t].ptr \in Addr
    BY <1>5, Self DEF ReallocInPlace, AtPlace
  <2>2. loc[t].want \in Nat \ {0}
    BY <2>1, Self DEF Asking
  <2>3. need' = [need EXCEPT ![loc[t].ptr] = loc[t].want]
    BY <1>5 DEF ReallocInPlace
  <2>4. QED
    BY <2>1, <2>2, <2>3
<1>6. QED
  BY <1>1, <1>2, <1>3, <1>4, <1>5 DEF Step, Inside

\* Bytes that are promised and overlap no other promise can be granted.
LEMMA GrantAllowed ==
  ASSUME need \in [Addr -> Nat], NEW p \in Addr, NEW n \in Nat \ {0},
         need' = [need EXCEPT ![p] = n],
         NoOverlap', InMemory'
  PROVE  Abstract!Next
<1>1. need \in [Addr -> Nat] /\ need'[p] = n
      /\ \A q \in Addr : q # p => need'[q] = need[q]
  OBVIOUS
<1>2. p + n <= MemTop + 1 /\ p \in Nat
  BY <1>1, Naturals DEF InMemory
<1>3. n \in 1 .. (MemTop + 1)
  BY <1>2, Naturals
<1>4. Abstract!Free(p, n)
  <2>1. SUFFICES ASSUME NEW q \in Addr, q # p, need[q] # 0
                 PROVE  p + n <= q \/ q + need[q] <= p
    BY DEF Abstract!Free, Abstract!Addr, Addr
  <2>2. need'[p] # 0 /\ need'[q] # 0 /\ need'[q] = need[q]
    BY <1>1, <2>1
  <2>3. p + need'[p] <= q \/ q + need'[q] <= p
    BY <2>1, <2>2 DEF NoOverlap
  <2>4. QED
    BY <1>1, <2>2, <2>3
<1>5. Abstract!Grant(p, n)
  BY <1>2, <1>4 DEF Abstract!Grant
<1>6. QED
  BY <1>3, <1>5 DEF Abstract!Next, Abstract!Addr, Addr

\* A change at one address is a step of the abstract allocator if the
\* promises are apart after it.
LEMMA AllowedStep ==
  ASSUME need \in [Addr -> Nat], OneChange, NoOverlap', InMemory'
  PROVE  [Abstract!Next]_need
<1>1. CASE need' = need
  BY <1>1
<1>2. ASSUME NEW p \in Addr, need[p] # 0, need' = [need EXCEPT ![p] = 0]
      PROVE  Abstract!Next
  BY <1>2 DEF Abstract!Next, Abstract!Release, Abstract!Addr, Addr
<1>3. ASSUME NEW p \in Addr, NEW n \in Nat \ {0},
             need' = [need EXCEPT ![p] = n]
      PROVE  Abstract!Next
  BY <1>3, GrantAllowed
<1>4. QED
  BY <1>1, <1>2, <1>3 DEF OneChange

\* Every behaviour of the allocator, seen as the bytes its callers own, is
\* one of the abstract allocator.
THEOREM HeapImplementsAllocator == Spec => ImplementsAllocator
<1>1. Init => Abstract!Init
  BY DEF Init, Abstract!Init, Abstract!Addr, Addr
<1>2. HeapInv /\ [Next]_vars /\ NoOverlap' /\ InMemory'
      => [Abstract!Next]_need
  <2>1. SUFFICES ASSUME HeapInv, [Next]_vars, NoOverlap', InMemory'
                 PROVE  [Abstract!Next]_need
    OBVIOUS
  <2>2. need \in [Addr -> Nat]
    BY <2>1 DEF HeapInv, TypeOK
  <2>3. CASE UNCHANGED vars
    BY <2>3 DEF vars
  <2>4. CASE Next
    BY <2>1, <2>2, <2>4, OneAddress, AllowedStep DEF Next
  <2>5. QED
    BY <2>1, <2>3, <2>4
<1>3. QED
  BY <1>1, <1>2, Apart, HeapInvariant, PTL
     DEF Spec, ImplementsAllocator, Abstract!Spec

-----------------------------------------------------------------------------
(* No memory is lost.                                                      *)

USE DEF Null, FREE, USED, NONE, Critical, Places

-----------------------------------------------------------------------------
(* The walk along the list.                                                *)

\* A walk from block b passes the blocks of X.
Passes(h, b, X) ==
  \A S \in SUBSET Blocks(h) : b \in S \cup {Null} /\ Follows(h, S) => X \subseteq S

Whole(h, base) == Passes(h, base, Blocks(h))

LEMMA WholeReached ==
  ASSUME NEW h, NEW base, Whole(h, base)
  PROVE  Reached(h, base) = Blocks(h)
BY DEF Whole, Passes, Reached

\* What a change of the list leaves: the bytes that are in blocks, the walk
\* to every block, and no block in use that was not.
Rearranged(h, r, base) ==
  /\ Covered(r) = Covered(h)
  /\ Whole(h, base) => Whole(r, base)
  /\ \A a \in Blocks(r) : r[a].magic = USED => a \in Blocks(h) /\ h[a].magic = USED

LEMMA RearrangedTwice ==
  ASSUME NEW h, NEW g, NEW r, NEW base, Rearranged(h, g, base), Rearranged(g, r, base)
  PROVE  Rearranged(h, r, base)
BY DEF Rearranged

LEMMA RearrangedSame ==
  ASSUME NEW h, NEW base
  PROVE  Rearranged(h, h, base)
BY DEF Rearranged

\* The bytes of a block.
Extent(h, b) == b .. (End(h, b) - 1)

LEMMA CoveredIs ==
  ASSUME NEW h, NEW x
  PROVE  x \in Covered(h) <=> \E b \in Blocks(h) : x \in Extent(h, b)
BY DEF Covered, Extent

LEMMA SplitRearranges ==
  ASSUME NEW h, NEW base, Sound(h, base), NEW b \in Blocks(h), NEW size \in Nat
  PROVE  Rearranged(h, split_block(h, b, size), base)
<1> DEFINE new == Payload(b) + size
<1>1. CASE ~Splits(h, b, size)
  BY <1>1, RearrangedSame DEF split_block
<1>2. CASE Splits(h, b, size)
  <2>1. h[b].size >= size + BLOCK_META_SIZE + ALIGNMENT
    BY <1>2 DEF Splits
  <2>2. new \in Addr /\ new # Null /\ new # b /\ new \notin Blocks(h)
    BY <2>1, SplitPlace
  <2>3. PICK r : r = split_block(h, b, size)
    OBVIOUS
  <2>4. \A a \in Addr :
          /\ r[a].size = IF a = new THEN h[b].size - size - BLOCK_META_SIZE
                         ELSE IF a = b THEN size ELSE h[a].size
          /\ r[a].next = IF a = new THEN h[b].next
                         ELSE IF a = b THEN new ELSE h[a].next
          /\ r[a].magic = IF a = new THEN FREE ELSE h[a].magic
    BY <2>1, <2>3, SplitFields
  <2>5. b \in Addr /\ b \in Nat /\ h[b].size \in Nat /\ new = b + BLOCK_META_SIZE + size
    BY BlocksType, Naturals DEF Payload
  <2>6. PICK n \in Addr : n = new
    BY <2>2
  <2> HIDE DEF new
  <2>7. Blocks(r) = Blocks(h) \cup {n}
    BY <2>2, <2>4, <2>6 DEF Blocks
  <2>8. \A a \in Blocks(r) : r[a].magic = USED => a \in Blocks(h) /\ h[a].magic = USED
    BY <2>4, <2>6, <2>7 DEF Blocks
  <2>9. ASSUME Whole(h, base) PROVE Whole(r, base)
    <3> SUFFICES ASSUME NEW S \in SUBSET Blocks(r), base \in S \cup {Null}, Follows(r, S)
                 PROVE  Blocks(r) \subseteq S
      BY DEF Whole, Passes
    <3>1. \A a \in Blocks(h) : h[a].next # n /\ a # n
      BY <2>2, <2>6, Neighbours
    <3>2. ASSUME NEW a \in S \ {n} PROVE h[a].next \in (S \ {n}) \cup {Null}
      <4>1. a \in Blocks(h) /\ a \in Addr
        BY <2>7 DEF Blocks
      <4>2. CASE a = b
        <5>1. n \in S
          BY <2>2, <2>4, <2>6, <4>1, <4>2 DEF Follows
        <5>2. h[b].next \in S \cup {Null}
          BY <2>4, <2>6, <5>1 DEF Follows
        <5>3. QED
          BY <3>1, <4>1, <4>2, <5>2
      <4>3. CASE a # b
        BY <2>4, <2>6, <3>1, <4>1, <4>3 DEF Follows
      <4>4. QED
        BY <4>2, <4>3
    <3>3. base # n
      BY <2>2, <2>6 DEF Sound
    <3>4. Blocks(h) \subseteq S \ {n}
      <4>1. PICK T : T = S \ {n}
        OBVIOUS
      <4>2. T \in SUBSET Blocks(h) /\ base \in T \cup {Null} /\ Follows(h, T)
        BY <2>7, <3>2, <3>3, <4>1 DEF Follows
      <4>3. QED
        BY <2>9, <4>1, <4>2 DEF Whole, Passes
    <3>5. n \in S
      BY <2>2, <2>4, <2>5, <2>6, <3>4 DEF Follows
    <3>6. QED
      BY <2>7, <3>4, <3>5
  <2>10. /\ End(r, b) = n /\ End(r, n) = End(h, b) /\ b < n /\ n < End(h, b)
         /\ n \in Nat /\ End(h, b) \in Nat
    <3>1. r[b].size = size /\ r[n].size = h[b].size - size - BLOCK_META_SIZE
      BY <2>2, <2>4, <2>5, <2>6
    <3>2. PICK s \in Nat : s = h[b].size
      BY <2>5
    <3>3. n = b + BLOCK_META_SIZE + size /\ s >= size + BLOCK_META_SIZE + ALIGNMENT
      BY <2>1, <2>5, <2>6, <3>2
    <3>4. End(r, b) = n
      BY <3>1, <3>3 DEF End
    <3>5. End(r, n) = n + BLOCK_META_SIZE + (s - size - BLOCK_META_SIZE)
      BY <3>1, <3>2 DEF End
    <3>6. End(h, b) = b + BLOCK_META_SIZE + s
      BY <3>2 DEF End
    <3>7. QED
      BY <2>5, <3>2, <3>3, <3>4, <3>5, <3>6, Naturals
  <2>11. \A x : x \in Extent(h, b) <=> x \in Extent(r, b) \/ x \in Extent(r, n)
    BY <2>5, <2>10 DEF Extent
  <2>12. \A a \in Blocks(h) : a # b => Extent(r, a) = Extent(h, a)
    BY <2>2, <2>4 DEF Extent, End, Blocks
  <2>13. Covered(r) = Covered(h)
    <3>1. ASSUME NEW x PROVE x \in Covered(r) <=> x \in Covered(h)
      <4>1. x \in Covered(h) <=> \E a \in Blocks(h) : x \in Extent(h, a)
        BY CoveredIs
      <4>2. x \in Covered(r) <=> \E a \in Blocks(r) : x \in Extent(r, a)
        BY CoveredIs
      <4>3. QED
        BY <2>2, <2>6, <2>7, <2>11, <2>12, <4>1, <4>2
    <3>2. QED
      BY <3>1
  <2>14. QED
    BY <2>3, <2>8, <2>9, <2>13 DEF Rearranged
<1>3. QED
  BY <1>1, <1>2

LEMMA AbsorbRearranges ==
  ASSUME NEW h, NEW base, Sound(h, base), NEW b \in Blocks(h), NEW n \in Blocks(h),
         h[b].next = n, End(h, b) = n
  PROVE  Rearranged(h, Absorb(h, b, n), base)
<1>1. PICK r : r = Absorb(h, b, n)
  OBVIOUS
<1>2. /\ n # b /\ Blocks(r) = Blocks(h) \ {n}
      /\ r[b].size = h[b].size + BLOCK_META_SIZE + h[n].size
      /\ \A a \in Blocks(h) \ {n} :
           r[a].magic = h[a].magic /\ (a # b => r[a].size = h[a].size)
  BY <1>1, AbsorbSound
<1>3. \A a \in Addr : a # n => r[a].next = IF a = b THEN h[n].next ELSE h[a].next
  <2>1. Absorbed(h, b, n, r)
    BY <1>1, <1>2, AbsorbFields
  <2>2. QED
    BY <2>1 DEF Absorbed
<1>4. \A a \in Blocks(h) : a \in Addr /\ (h[a].next = n => a = b) /\ a # Null
  <2>1. \A a \in Blocks(h) : h[a].next = n => h[n].prev = a
    BY BlocksType, Neighbours
  <2>2. QED
    BY <2>1, BlocksType
<1>5. \A a \in Blocks(r) : r[a].magic = USED => a \in Blocks(h) /\ h[a].magic = USED
  BY <1>2
<1>6. ASSUME Whole(h, base) PROVE Whole(r, base)
  <2> SUFFICES ASSUME NEW S \in SUBSET Blocks(r), base \in S \cup {Null}, Follows(r, S)
               PROVE  Blocks(r) \subseteq S
    BY DEF Whole, Passes
  <2>1. PICK T : T = S \cup (IF b \in S THEN {n} ELSE {})
    OBVIOUS
  <2>2. T \in SUBSET Blocks(h) /\ base \in T \cup {Null} /\ n \notin S
    BY <1>2, <2>1
  <2>3. ASSUME NEW a \in T PROVE h[a].next \in T \cup {Null}
    <3>1. CASE a = n
      <4>1. b \in S
        BY <2>1, <2>2, <3>1
      <4>2. r[b].next = h[n].next
        BY <1>2, <1>3, <1>4
      <4>3. QED
        BY <2>1, <3>1, <4>1, <4>2 DEF Follows
    <3>2. CASE a = b
      BY <1>2, <2>1, <2>2, <3>2
    <3>3. CASE a # n /\ a # b
      <4>1. a \in S /\ a \in Addr
        BY <1>4, <2>1, <2>2, <3>3
      <4>2. r[a].next = h[a].next
        BY <1>3, <3>3, <4>1
      <4>3. QED
        BY <2>1, <4>1, <4>2 DEF Follows
    <3>4. QED
      BY <3>1, <3>2, <3>3
  <2>4. Blocks(h) \subseteq T
    BY <1>6, <2>2, <2>3 DEF Whole, Passes, Follows
  <2>5. QED
    BY <1>2, <2>1, <2>4
<1>7. /\ End(r, b) = End(h, n) /\ n = End(h, b) /\ b < n /\ n < End(h, n)
      /\ b \in Nat /\ n \in Nat /\ End(h, n) \in Nat
  <2>1. b \in Nat /\ n \in Nat /\ h[b].size \in Nat /\ h[n].size \in Nat
    BY BlocksType, Naturals
  <2>2. PICK s \in Nat, m \in Nat : s = h[b].size /\ m = h[n].size
    BY <2>1
  <2>3. n = b + BLOCK_META_SIZE + s
    BY <2>2 DEF End
  <2>4. End(h, n) = n + BLOCK_META_SIZE + m
    BY <2>2 DEF End
  <2>5. End(r, b) = b + BLOCK_META_SIZE + (s + BLOCK_META_SIZE + m)
    BY <1>2, <2>2 DEF End
  <2>6. QED
    BY <2>1, <2>2, <2>3, <2>4, <2>5, Naturals
<1>8. \A x : x \in Extent(r, b) <=> x \in Extent(h, b) \/ x \in Extent(h, n)
  BY <1>7 DEF Extent
<1>9. \A a \in Blocks(r) : a # b => Extent(r, a) = Extent(h, a)
  BY <1>2 DEF Extent, End
<1>10. Covered(r) = Covered(h)
  <2>1. ASSUME NEW x PROVE x \in Covered(r) <=> x \in Covered(h)
    <3>1. x \in Covered(h) <=> \E a \in Blocks(h) : x \in Extent(h, a)
      BY CoveredIs
    <3>2. x \in Covered(r) <=> \E a \in Blocks(r) : x \in Extent(r, a)
      BY CoveredIs
    <3>3. QED
      BY <1>2, <1>8, <1>9, <3>1, <3>2
  <2>2. QED
    BY <2>1
<1>11. QED
  BY <1>1, <1>5, <1>6, <1>10 DEF Rearranged

LEMMA MergeNextRearranges ==
  ASSUME NEW h, NEW base, Sound(h, base), NEW b \in Blocks(h)
  PROVE  Rearranged(h, MergeNext(h, b), base)
<1>1. PICK n : n = h[b].next
  OBVIOUS
<1>2. CASE CanAbsorb(h, b, n) /\ h[n].magic = FREE
  <2>1. n \in Blocks(h) /\ End(h, b) = n
    BY <1>1, <1>2, Neighbours DEF CanAbsorb
  <2>2. QED
    BY <1>1, <1>2, <2>1, AbsorbRearranges DEF MergeNext
<1>3. CASE ~(CanAbsorb(h, b, n) /\ h[n].magic = FREE)
  BY <1>1, <1>3, RearrangedSame DEF MergeNext
<1>4. QED
  BY <1>2, <1>3

LEMMA MergePrevRearranges ==
  ASSUME NEW h, NEW base, Sound(h, base), NEW b \in Blocks(h)
  PROVE  Rearranged(h, MergePrev(h, b), base)
<1>1. PICK p : p = h[b].prev
  OBVIOUS
<1>2. CASE CanAbsorb(h, p, b) /\ h[p].magic = FREE
  <2>1. p \in Blocks(h) /\ End(h, p) = b /\ h[p].next = b
    BY <1>1, <1>2, Neighbours DEF CanAbsorb
  <2>2. QED
    BY <1>1, <1>2, <2>1, AbsorbRearranges DEF MergePrev
<1>3. CASE ~(CanAbsorb(h, p, b) /\ h[p].magic = FREE)
  BY <1>1, <1>3, RearrangedSame DEF MergePrev
<1>4. QED
  BY <1>2, <1>3

LEMMA CoalesceRearranges ==
  ASSUME NEW h, NEW base, Sound(h, base), NEW b \in Blocks(h)
  PROVE  Rearranged(h, coalesce(h, b), base)
<1>1. PICK g : g = MergeNext(h, b)
  OBVIOUS
<1>2. Rearranged(h, g, base) /\ Sound(g, base) /\ b \in Blocks(g)
  BY <1>1, MergeNextRearranges, MergeNextSound
<1>3. Rearranged(g, MergePrev(g, b), base)
  BY <1>2, MergePrevRearranges
<1>4. QED
  BY <1>1, <1>2, <1>3, RearrangedTwice DEF coalesce

LEMMA AppendWhole ==
  ASSUME NEW h, NEW base, Sound(h, base), Whole(h, base),
         NEW a \in Addr, NEW len \in Nat,
         BLOCK_META_SIZE <= len, MapFree(h, a, len),
         NEW last \in Addr, ScanOK(h, base, Null, last),
         NEW r, r = Append(h, a, len - BLOCK_META_SIZE, last)
  PROVE  /\ Whole(r, IF base = Null THEN a ELSE base)
         /\ Blocks(r) = Blocks(h) \cup {a}
         /\ \A d \in Blocks(h) : r[d].magic = h[d].magic
         /\ \A x : x \in Covered(r) <=> x \in Covered(h) \/ x \in a .. (a + len - 1)
<1>1. /\ a \notin Blocks(h) /\ Blocks(r) = Blocks(h) \cup {a}
      /\ r[a].size = len - BLOCK_META_SIZE /\ r[a].next = Null
      /\ \A d \in Blocks(h) : /\ r[d].size = h[d].size
                              /\ r[d].magic = h[d].magic
                              /\ r[d].next = IF d = last THEN a ELSE h[d].next
  BY AppendSound
<1>2. a # Null
  BY DEF MapFree
<1>3. /\ last # Null => last \in Blocks(h) /\ h[last].next = Null
      /\ last = Null => base = Null /\ Blocks(h) = {}
      /\ base # Null => base \in Blocks(h)
  BY DEF ScanOK, Sound
<1>4. PICK first : first = IF base = Null THEN a ELSE base
  OBVIOUS
<1>5. Whole(r, first)
  <2> SUFFICES ASSUME NEW S \in SUBSET Blocks(r), first \in S \cup {Null}, Follows(r, S)
               PROVE  Blocks(r) \subseteq S
    BY DEF Whole, Passes
  <2>1. PICK T : T = S \ {a}
    OBVIOUS
  <2>2. \A d \in T : h[d].next \in T \cup {Null}
    <3>1. ASSUME NEW d \in T PROVE h[d].next \in T \cup {Null}
      <4>1. d \in Blocks(h) /\ d \in S
        BY <1>1, <2>1
      <4>2. h[d].next # a
        BY <1>1, <1>2, <4>1, Neighbours
      <4>3. CASE d = last
        <5>1. last # Null
          BY <4>1, <4>3, BlocksType
        <5>2. QED
          BY <1>3, <4>3, <5>1
      <4>4. CASE d # last
        BY <1>1, <2>1, <4>1, <4>2, <4>4 DEF Follows
      <4>5. QED
        BY <4>3, <4>4
    <3>2. QED
      BY <3>1
  <2>3. T \in SUBSET Blocks(h) /\ base \in T \cup {Null}
    BY <1>1, <1>3, <1>4, <2>1
  <2>4. Blocks(h) \subseteq T
    BY <2>2, <2>3 DEF Whole, Passes, Follows
  <2>5. a \in S
    <3>1. CASE last = Null
      BY <1>2, <1>3, <1>4, <3>1
    <3>2. CASE last # Null
      BY <1>1, <1>2, <1>3, <2>1, <2>4, <3>2 DEF Follows
    <3>3. QED
      BY <3>1, <3>2
  <2>6. QED
    BY <1>1, <2>1, <2>4, <2>5
<1>6. End(r, a) = a + len
  <2>1. a \in Nat
    BY Naturals
  <2>2. End(r, a) = a + BLOCK_META_SIZE + (len - BLOCK_META_SIZE)
    BY <1>1 DEF End
  <2>3. QED
    BY <2>1, <2>2, Naturals
<1>7. \A d \in Blocks(h) : Extent(r, d) = Extent(h, d)
  BY <1>1 DEF Extent, End
<1>8. ASSUME NEW x PROVE x \in Covered(r) <=> x \in Covered(h) \/ x \in a .. (a + len - 1)
  <2>1. x \in Covered(h) <=> \E d \in Blocks(h) : x \in Extent(h, d)
    BY CoveredIs
  <2>2. x \in Covered(r) <=> \E d \in Blocks(r) : x \in Extent(r, d)
    BY CoveredIs
  <2>3. Extent(r, a) = a .. (a + len - 1)
    <3>1. End(r, a) - 1 = a + len - 1
      BY <1>6, Naturals
    <3>2. QED
      BY <3>1 DEF Extent
  <2>4. QED
    BY <1>1, <1>7, <2>1, <2>2, <2>3
<1>9. QED
  BY <1>1, <1>4, <1>5, <1>8

LEMMA MarkRearranges ==
  ASSUME NEW h, NEW b, NEW m, NEW r, NEW base, Marked(h, b, m, r)
  PROVE  Covered(r) = Covered(h) /\ (Whole(h, base) => Whole(r, base))
<1>1. /\ Blocks(r) = Blocks(h) /\ Blocks(h) \subseteq Addr
      /\ \A a \in Addr : r[a].size = h[a].size /\ r[a].next = h[a].next
  BY DEF Marked, Blocks
<1>2. \A a \in Blocks(h) : Extent(r, a) = Extent(h, a)
  BY <1>1 DEF Extent, End
<1>3. Covered(r) = Covered(h)
  <2>1. ASSUME NEW x PROVE x \in Covered(r) <=> x \in Covered(h)
    <3>1. x \in Covered(h) <=> \E a \in Blocks(h) : x \in Extent(h, a)
      BY CoveredIs
    <3>2. x \in Covered(r) <=> \E a \in Blocks(r) : x \in Extent(r, a)
      BY CoveredIs
    <3>3. QED
      BY <1>1, <1>2, <3>1, <3>2
  <2>2. QED
    BY <2>1
<1>4. \A S \in SUBSET Blocks(h) : Follows(r, S) <=> Follows(h, S)
  BY <1>1 DEF Follows
<1>5. QED
  BY <1>1, <1>3, <1>4 DEF Whole, Passes

LEMMA Times ==
  ASSUME NEW m \in Nat, NEW n \in Nat, NEW k \in Nat, m <= n
  PROVE  k * m <= k * n
<1>1. PICK d \in Nat : n = m + d
  <2>1. n - m \in Nat /\ n = m + (n - m)
    OBVIOUS
  <2>2. QED
    BY <2>1
<1>2. k * n = k * m + k * d
  BY <1>1
<1>3. k * d \in Nat /\ k * m \in Nat
  OBVIOUS
<1>4. QED
  BY <1>2, <1>3

\* A region of whole pages holds the page of each of its bytes.
LEMMA WholePages ==
  ASSUME NEW a \in Nat, NEW P \in Nat, 0 < P, a % P = 0, NEW k \in Nat,
         NEW x \in a .. (a + k * P - 1), NEW y \in Nat, y \div P = x \div P
  PROVE  y \in a .. (a + k * P - 1)
<1>1. PICK q \in Nat : a = P * q
  <2>1. a \div P \in Nat /\ a = P * (a \div P) + (a % P)
    OBVIOUS
  <2>2. a = P * (a \div P)
    BY <2>1
  <2>3. QED
    BY <2>1, <2>2
<1>2. PICK e \in Nat : e = a + k * P
  BY k * P \in Nat
<1>3. x \in Nat /\ a <= x /\ x < e
  BY <1>2
<1>4. PICK j \in Nat : j = x \div P
  BY <1>3
<1>5. P * j <= x /\ x < P * j + P
  BY <1>3, <1>4
<1>6. P * j <= y /\ y < P * j + P
  BY <1>4
<1>7. e = P * (q + k)
  BY <1>1, <1>2
<1>8. P * j + P = P * (j + 1) /\ P * j \in Nat /\ P * (j + 1) \in Nat
  OBVIOUS
<1>9. q <= j
  <2>1. SUFFICES ASSUME j + 1 <= q PROVE FALSE
    OBVIOUS
  <2>2. P * (j + 1) <= P * q
    BY <2>1, Times
  <2>3. QED
    BY <1>1, <1>3, <1>5, <1>8, <2>2
<1>10. j + 1 <= q + k
  <2>1. SUFFICES ASSUME q + k <= j PROVE FALSE
    OBVIOUS
  <2>2. P * (q + k) <= P * j
    BY <2>1, Times
  <2>3. QED
    BY <1>3, <1>5, <1>7, <1>8, <2>2
<1>11. P * q <= P * j /\ P * (j + 1) <= P * (q + k)
  BY <1>9, <1>10, Times
<1>12. a <= y /\ y < e
  BY <1>1, <1>3, <1>6, <1>7, <1>8, <1>11
<1>13. QED
  BY <1>2, <1>12

-----------------------------------------------------------------------------
(* The invariant.                                                          *)

\* mmap gives whole pages, and every byte of them stays in some block.
PagesKept(h) == \A a \in Covered(h) : PageOf(a) \subseteq Covered(h)

\* Somebody can free block b: a call that is about to return it, or the
\* program.
Kept(b) == \/ b \in InFlight
           \/ Payload(b) \in Addr /\ need[Payload(b)] # 0

\* The free blocks a request of n bytes can be served from.
Fitting(h, n) == {b \in Blocks(h) : h[b].magic = FREE /\ h[b].size >= n}

\* The search of t still has every block that fits before it.
Searching(t) ==
  pc[t] = "scan" =>
    Passes(hdr, loc[t].block, Fitting(hdr, Align(loc[t].size)))

LeakInv ==
  /\ PagesKept(hdr)
  /\ Whole(hdr, heap_base)
  /\ \A b \in Blocks(hdr) : hdr[b].magic = USED => Kept(b)
  /\ \A t \in Threads : Searching(t)

\* A step that leaves the heap alone.
LEMMA QuietKeeps ==
  ASSUME HeapInv, LeakInv, NEW t \in Threads, NEW e \in Local, NEW pl \in Places,
         UNCHANGED <<heap_base, hdr, need>>,
         loc' = [loc EXCEPT ![t] = e], pc' = [pc EXCEPT ![t] = pl],
         pc[t] # "split",
         pl = "scan" => Passes(hdr, e.block, Fitting(hdr, Align(e.size)))
  PROVE  LeakInv'
<1>1. /\ pc'[t] = pl /\ loc'[t] = e
      /\ \A u \in Threads \ {t} : pc'[u] = pc[u] /\ loc'[u] = loc[u]
  BY DEF HeapInv, TypeOK
<1>2. InFlight \subseteq InFlight'
  <2>1. ASSUME NEW u \in Threads, pc[u] = "split"
        PROVE  pc'[u] = "split" /\ loc'[u].block = loc[u].block
    BY <1>1, <2>1
  <2>2. QED
    BY <2>1 DEF InFlight
<1>3. \A b \in Blocks(hdr') : hdr'[b].magic = USED => Kept(b)'
  BY <1>2 DEF LeakInv, Kept
<1>4. ASSUME NEW u \in Threads PROVE Searching(u)'
  <2>1. CASE u = t
    BY <1>1, <2>1 DEF Searching, Align, Wrap
  <2>2. CASE u # t
    BY <1>1, <2>2 DEF LeakInv, Searching, Align, Wrap
  <2>3. QED
    BY <2>1, <2>2
<1>5. PagesKept(hdr') /\ Whole(hdr', heap_base')
  BY DEF LeakInv
<1>6. QED
  BY <1>3, <1>4, <1>5 DEF LeakInv

\* A step inside a critical section: nobody else is in one.
LEMMA ChangeKeeps ==
  ASSUME HeapInv, NEW t \in Threads, NEW e \in Local, NEW pl \in Places,
         pc[t] \in Critical,
         loc' = [loc EXCEPT ![t] = e], pc' = [pc EXCEPT ![t] = pl],
         pl # "scan",
         PagesKept(hdr'), Whole(hdr', heap_base'),
         \A b \in Blocks(hdr') : hdr'[b].magic = USED =>
           \/ pl = "split" /\ e.block = b
           \/ Payload(b) \in Addr /\ need'[Payload(b)] # 0
  PROVE  LeakInv'
<1>1. /\ pc'[t] = pl /\ loc'[t] = e
      /\ \A u \in Threads \ {t} : pc'[u] = pc[u]
  BY DEF HeapInv, TypeOK
<1>2. \A u \in Threads : pc'[u] # "scan"
  BY <1>1 DEF HeapInv, MutualExclusion
<1>3. pl = "split" => e.block \in InFlight'
  BY <1>1 DEF InFlight
<1>4. \A b \in Blocks(hdr') : hdr'[b].magic = USED => Kept(b)'
  BY <1>3 DEF Kept
<1>5. QED
  BY <1>2, <1>4 DEF LeakInv, Searching

\* Inside a critical section, the blocks in use are live but the one t is
\* about to return.
LEMMA KeptAlone ==
  ASSUME HeapInv, LeakInv, NEW t \in Threads, pc[t] \in Critical,
         NEW b \in Blocks(hdr), hdr[b].magic = USED
  PROVE  \/ pc[t] = "split" /\ b = loc[t].block
         \/ Payload(b) \in Addr /\ need[Payload(b)] # 0
<1>1. \A u \in Threads : pc[u] = "split" => u = t
  BY DEF HeapInv, MutualExclusion
<1>2. b \in InFlight => pc[t] = "split" /\ b = loc[t].block
  BY <1>1 DEF InFlight
<1>3. QED
  BY <1>2 DEF LeakInv, Kept

LEMMA PayloadApart ==
  ASSUME NEW a \in Addr, NEW b \in Addr, a # b
  PROVE  Payload(a) # Payload(b)
BY Naturals DEF Payload

-----------------------------------------------------------------------------
(* Every step keeps it.                                                    *)

LEMMA BeginKeeps ==
  ASSUME HeapInv, LeakInv, NEW t \in Threads, NEW c \in Local, pc[t] = "idle",
         Begin(t, c)
  PROVE  LeakInv'
<1>1. /\ loc' = [loc EXCEPT ![t] = c] /\ pc' = [pc EXCEPT ![t] = "lock"]
      /\ UNCHANGED <<heap_base, hdr, need>>
  BY DEF Begin, Goto
<1>2. QED
  BY <1>1, QuietKeeps

LEMMA StutterKeeps ==
  ASSUME LeakInv, UNCHANGED vars
  PROVE  LeakInv'
<1>1. /\ heap_base' = heap_base /\ hdr' = hdr
      /\ need' = need /\ pc' = pc /\ loc' = loc
  BY DEF vars
<1>2. InFlight' = InFlight
  BY <1>1 DEF InFlight
<1>3. QED
  BY <1>1, <1>2 DEF LeakInv, Kept, Searching, Align, Wrap

LEMMA CallKeeps ==
  ASSUME HeapInv, LeakInv, NEW t \in Threads, Call(t)
  PROVE  LeakInv'
<1>1. CASE Return(t)
  BY <1>1, StutterKeeps DEF Return
<1>2. ASSUME NEW c \in Local, pc[t] = "idle", Begin(t, c) PROVE LeakInv'
  BY <1>2, BeginKeeps
<1>3. ASSUME NEW n \in Sizes, Malloc(t, n) PROVE LeakInv'
  <2>1. [NoCall EXCEPT !.op = "malloc", !.size = n, !.want = n] \in Local
    BY HeapAssumption, NoCallType DEF Local, Ops
  <2>2. QED
    BY <1>1, <1>2, <1>3, <2>1 DEF Malloc
<1>4. ASSUME NEW m \in Counts, NEW n \in Sizes, Calloc(t, m, n) PROVE LeakInv'
  <2>1. m * n \in Nat
    BY HeapAssumption
  <2>2. [NoCall EXCEPT !.op = "malloc", !.size = m * n, !.want = m * n] \in Local
    BY <2>1, NoCallType DEF Local, Ops
  <2>3. QED
    BY <1>1, <1>2, <1>4, <2>2 DEF Calloc
<1>5. ASSUME NEW p \in Addr, Free(t, p) PROVE LeakInv'
  <2>1. [NoCall EXCEPT !.op = "free", !.ptr = p] \in Local
    BY CallType DEF Ops
  <2>2. QED
    BY <1>1, <1>2, <1>5, <2>1 DEF Free
<1>6. ASSUME NEW p \in Addr, NEW n \in Sizes, Realloc(t, p, n) PROVE LeakInv'
  <2>1. [NoCall EXCEPT !.op = "realloc", !.ptr = p, !.size = n, !.want = n] \in Local
    BY HeapAssumption, NoCallType DEF Local, Ops
  <2>2. QED
    BY <1>1, <1>2, <1>5, <1>6, <2>1 DEF Realloc
<1>7. Owned \subseteq Addr
  BY DEF Owned
<1>8. QED
  BY <1>1, <1>3, <1>4, <1>5, <1>6, <1>7 DEF Call, FreeNull

LEMMA LockKeeps ==
  ASSUME HeapInv, LeakInv, NEW t \in Threads, Lock(t)
  PROVE  LeakInv'
<1>1. pc[t] = "lock" /\ UNCHANGED <<heap_base, hdr, need>>
  BY DEF Lock
<1>2. CASE /\ loc[t].op \in {"malloc", "move"}
           /\ loc' = [loc EXCEPT ![t].block = heap_base, ![t].last = Null]
           /\ Goto(t, "scan")
  <2>1. PICK e : e = [loc[t] EXCEPT !.block = heap_base, !.last = Null]
    OBVIOUS
  <2>2. e \in Local /\ e.block = heap_base /\ e.size = loc[t].size
    BY <2>1, Self, NoCallType, ZenonT(30) DEF Local, NoCall
  <2>3. loc' = [loc EXCEPT ![t] = e] /\ pc' = [pc EXCEPT ![t] = "scan"]
    BY <1>2, <2>1, Self DEF Goto
  <2>4. Passes(hdr, e.block, Fitting(hdr, Align(e.size)))
    BY <2>2 DEF LeakInv, Whole, Passes, Fitting
  <2>5. QED
    BY <1>1, <2>2, <2>3, <2>4, QuietKeeps
<1>3. ASSUME NEW pl \in {"mark", "resize"}, loc[t].op \in {"free", "drop", "realloc"},
             loc' = [loc EXCEPT ![t].block = get_block_ptr(loc[t].ptr)],
             Goto(t, pl)
      PROVE  LeakInv'
  <2>1. PICK e : e = [loc[t] EXCEPT !.block = get_block_ptr(loc[t].ptr)]
    OBVIOUS
  <2>2. get_block_ptr(loc[t].ptr) \in Addr
    BY <1>1, <1>3, Self, LiveBlock DEF Owning, Blocks
  <2>3. e \in Local
    BY <2>1, <2>2, Self DEF Local
  <2>4. loc' = [loc EXCEPT ![t] = e] /\ pc' = [pc EXCEPT ![t] = pl]
    BY <1>3, <2>1, Self DEF Goto
  <2>5. QED
    BY <1>1, <1>3, <2>3, <2>4, QuietKeeps
<1>4. QED
  BY <1>2, <1>3 DEF Lock

\* The search steps over a block that does not fit.
LEMMA PassesNext ==
  ASSUME NEW h, NEW b \in Blocks(h), NEW X, Passes(h, b, X), b \notin X
  PROVE  Passes(h, h[b].next, X)
<1>1. SUFFICES ASSUME NEW S \in SUBSET Blocks(h), h[b].next \in S \cup {Null},
                      Follows(h, S)
               PROVE  X \subseteq S
  BY DEF Passes
<1>2. PICK T : T = S \cup {b}
  OBVIOUS
<1>3. T \in SUBSET Blocks(h) /\ Follows(h, T)
  BY <1>1, <1>2 DEF Follows
<1>4. X \subseteq T
  BY <1>2, <1>3 DEF Passes
<1>5. QED
  BY <1>2, <1>4

LEMMA ScanNextKeeps ==
  ASSUME HeapInv, LeakInv, NEW t \in Threads, ScanNext(t)
  PROVE  LeakInv'
<1>1. PICK b : b = loc[t].block
  OBVIOUS
<1>2. /\ pc[t] = "scan" /\ b # Null /\ ~Fits(t)
      /\ UNCHANGED <<heap_base, hdr, need, pc>>
      /\ loc' = [loc EXCEPT ![t].last = b, ![t].block = hdr[b].next]
  BY <1>1 DEF ScanNext
<1>3. b \in Blocks(hdr)
  BY <1>1, <1>2, Self DEF AtPlace, ScanOK
<1>4. b \in Addr /\ hdr[b].next \in Addr
  BY <1>3, Self, BlocksType
<1>5. PICK e : e = [loc[t] EXCEPT !.last = b, !.block = hdr[b].next]
  OBVIOUS
<1>6. e \in Local /\ e.block = hdr[b].next /\ e.size = loc[t].size
  BY <1>4, <1>5, Self DEF Local
<1>7. loc' = [loc EXCEPT ![t] = e] /\ pc' = [pc EXCEPT ![t] = "scan"]
  BY <1>2, <1>5, Self
<1>8. PICK X : X = Fitting(hdr, Align(loc[t].size))
  OBVIOUS
<1>9. b \notin X
  BY <1>1, <1>2, <1>8 DEF Fits, Fitting
<1>10. Passes(hdr, b, X)
  BY <1>1, <1>2, <1>8 DEF LeakInv, Searching
<1>11. Passes(hdr, e.block, Fitting(hdr, Align(e.size)))
  BY <1>3, <1>6, <1>8, <1>9, <1>10, PassesNext
<1>12. QED
  BY <1>2, <1>6, <1>7, <1>11, QuietKeeps, ZenonT(30)

LEMMA ScanTakeKeeps ==
  ASSUME HeapInv, LeakInv, NEW t \in Threads, ScanTake(t)
  PROVE  LeakInv'
<1>1. PICK b : b = loc[t].block
  OBVIOUS
<1>2. /\ pc[t] = "scan" /\ b # Null
      /\ hdr' = [hdr EXCEPT ![b].magic = USED]
      /\ pc' = [pc EXCEPT ![t] = "split"]
      /\ UNCHANGED <<heap_base, need, loc>>
  BY <1>1 DEF ScanTake, Goto
<1>3. b \in Blocks(hdr)
  BY <1>1, <1>2, Self DEF AtPlace, ScanOK
<1>4. Marked(hdr, b, USED, hdr')
  BY <1>2, <1>3, Self, MarkSound
<1>5. PagesKept(hdr') /\ Whole(hdr', heap_base')
  <2>1. Covered(hdr') = Covered(hdr)
        /\ (Whole(hdr, heap_base) => Whole(hdr', heap_base))
    BY <1>4, MarkRearranges
  <2>2. QED
    BY <1>2, <2>1 DEF LeakInv, PagesKept
<1>6. loc' = [loc EXCEPT ![t] = loc[t]] /\ loc[t] \in Local
  BY <1>2, Self
<1>7. ASSUME NEW d \in Blocks(hdr'), hdr'[d].magic = USED
      PROVE  \/ loc[t].block = d
             \/ Payload(d) \in Addr /\ need'[Payload(d)] # 0
  <2>1. d \in Blocks(hdr) /\ (d # b => hdr[d].magic = USED)
    BY <1>4, <1>7 DEF Marked, Blocks
  <2>2. QED
    BY <1>1, <1>2, <2>1, KeptAlone
<1>8. QED
  <2>1. PICK pl : pl = "split"
    OBVIOUS
  <2>2. \A d \in Blocks(hdr') : hdr'[d].magic = USED =>
          \/ pl = "split" /\ loc[t].block = d
          \/ Payload(d) \in Addr /\ need'[Payload(d)] # 0
    BY <1>7, <2>1
  <2>3. /\ pc[t] \in Critical /\ pl \in Places /\ pl # "scan"
        /\ pc' = [pc EXCEPT ![t] = pl]
    BY <1>2, <2>1
  <2>4. QED
    BY <1>5, <1>6, <2>2, <2>3, ChangeKeeps

LEMMA GrowKeeps ==
  ASSUME HeapInv, LeakInv, NEW t \in Threads, Grow(t)
  PROVE  LeakInv'
<1>1. PICK n : n = Align(loc[t].size)
  OBVIOUS
<1>2. PICK len : len = MapLength(n + BLOCK_META_SIZE)
  OBVIOUS
<1>3. PICK last : last = loc[t].last
  OBVIOUS
<1>4. PICK a \in Addr :
        /\ pc[t] = "scan" /\ loc[t].block = Null
        /\ len >= n + BLOCK_META_SIZE
        /\ MapFree(hdr, a, len)
        /\ hdr' = Append(hdr, a, len - BLOCK_META_SIZE, last)
        /\ heap_base' = IF heap_base = Null THEN a ELSE heap_base
        /\ loc' = [loc EXCEPT ![t].block = a]
        /\ pc' = [pc EXCEPT ![t] = "split"]
        /\ need' = need
  BY <1>1, <1>2, <1>3 DEF Grow, Goto
<1>5. loc[t].op \in {"malloc", "move"} /\ ScanOK(hdr, heap_base, Null, last)
      /\ last \in Addr
  BY <1>3, <1>4, Self DEF AtPlace
<1>6. n \in Nat
  <2>1. ~TooLarge(loc[t].size) /\ loc[t].size \in Nat
    BY <1>5, Self DEF Asking
  <2>2. QED
    BY <1>1, <2>1, AlignFits
<1>7. PICK k \in Nat : len = k * PAGE_SIZE
  <2>1. Wrap(n + BLOCK_META_SIZE + (PAGE_SIZE - 1)) \in Nat
    BY <1>6, HeapAssumption DEF Wrap
  <2>2. Wrap(n + BLOCK_META_SIZE + (PAGE_SIZE - 1)) \div PAGE_SIZE \in Nat
    BY <2>1, HeapAssumption
  <2>3. QED
    BY <1>2, <2>2 DEF MapLength
<1>8. len \in Nat /\ BLOCK_META_SIZE <= len
  <2>1. len \in Nat
    BY <1>7, HeapAssumption
  <2>2. QED
    BY <1>4, <1>6, <2>1, Naturals
<1>9. /\ Whole(hdr', heap_base')
      /\ Blocks(hdr') = Blocks(hdr) \cup {a}
      /\ \A d \in Blocks(hdr) : hdr'[d].magic = hdr[d].magic
      /\ \A x : x \in Covered(hdr') <=> x \in Covered(hdr) \/ x \in a .. (a + len - 1)
  <2>1. Whole(hdr, heap_base)
    BY DEF LeakInv
  <2>2. QED
    BY <1>4, <1>5, <1>8, <2>1, Self, AppendWhole
<1>10. PagesKept(hdr')
  <2>1. SUFFICES ASSUME NEW x \in Covered(hdr'), NEW y \in PageOf(x)
                 PROVE  y \in Covered(hdr')
    BY DEF PagesKept
  <2>2. CASE x \in Covered(hdr)
    BY <1>9, <2>1, <2>2 DEF LeakInv, PagesKept
  <2>3. CASE x \in a .. (a + len - 1)
    <3>1. a \in Nat /\ a % PAGE_SIZE = 0 /\ PAGE_SIZE \in Nat /\ 0 < PAGE_SIZE
      BY <1>4, Naturals, HeapAssumption DEF MapFree
    <3>2. y \in Nat /\ y \div PAGE_SIZE = x \div PAGE_SIZE
      BY <2>1, Naturals DEF PageOf
    <3>3. y \in a .. (a + k * PAGE_SIZE - 1)
      BY <1>7, <2>3, <3>1, <3>2, WholePages
    <3>4. QED
      BY <1>7, <1>9, <3>3
  <2>4. QED
    BY <1>9, <2>1, <2>2, <2>3
<1>11. PICK e : e = [loc[t] EXCEPT !.block = a]
  OBVIOUS
<1>12. e \in Local /\ e.block = a /\ loc' = [loc EXCEPT ![t] = e]
  BY <1>4, <1>11, Self DEF Local
<1>13. ASSUME NEW d \in Blocks(hdr'), hdr'[d].magic = USED
       PROVE  \/ e.block = d
              \/ Payload(d) \in Addr /\ need'[Payload(d)] # 0
  BY <1>4, <1>9, <1>12, <1>13, KeptAlone
<1>14. QED
  <2>1. PICK pl : pl = "split"
    OBVIOUS
  <2>2. \A d \in Blocks(hdr') : hdr'[d].magic = USED =>
          \/ pl = "split" /\ e.block = d
          \/ Payload(d) \in Addr /\ need'[Payload(d)] # 0
    BY <1>13, <2>1
  <2>3. /\ pc[t] \in Critical /\ pl \in Places /\ pl # "scan"
        /\ pc' = [pc EXCEPT ![t] = pl]
    BY <1>4, <2>1
  <2>4. QED
    BY <1>9, <1>10, <1>12, <2>2, <2>3, ChangeKeeps

LEMMA GrowFailsKeeps ==
  ASSUME HeapInv, LeakInv, NEW t \in Threads, GrowFails(t)
  PROVE  LeakInv'
<1>1. /\ pc[t] = "scan" /\ UNCHANGED <<heap_base, hdr, need>>
      /\ loc' = [loc EXCEPT ![t] = NoCall] /\ pc' = [pc EXCEPT ![t] = "idle"]
  BY DEF GrowFails, Leave, Goto
<1>2. QED
  BY <1>1, NoCallType, QuietKeeps

\* The bytes and the walk of a list that was only rearranged.
LEMMA RearrangedKeeps ==
  ASSUME LeakInv, NEW r, Rearranged(hdr, r, heap_base)
  PROVE  PagesKept(r) /\ Whole(r, heap_base)
BY DEF LeakInv, Rearranged, PagesKept

LEMMA MallocSplitKeeps ==
  ASSUME HeapInv, LeakInv, NEW t \in Threads, MallocSplit(t)
  PROVE  LeakInv'
<1>1. PICK b : b = loc[t].block
  OBVIOUS
<1>2. PICK p : p = Payload(b)
  OBVIOUS
<1>3. PICK n : n = Align(loc[t].size)
  OBVIOUS
<1>4. /\ pc[t] = "split" /\ hdr' = split_block(hdr, b, n)
      /\ need' = [need EXCEPT ![p] = loc[t].want]
      /\ heap_base' = heap_base
  BY <1>1, <1>2, <1>3 DEF MallocSplit
<1>5. /\ loc[t].op \in {"malloc", "move"} /\ b \in Blocks(hdr)
      /\ hdr[b].magic = USED /\ hdr[b].size >= n
  BY <1>1, <1>3, <1>4, Self DEF AtPlace
<1>6. n \in Nat /\ 0 < n /\ 0 < loc[t].want
  <2>1. 0 < loc[t].size /\ ~TooLarge(loc[t].size) /\ loc[t].size \in Nat
        /\ loc[t].want = loc[t].size
    BY <1>5, Self DEF Asking
  <2>2. QED
    BY <1>3, <2>1, AlignFits
<1>7. p \in Addr /\ b \in Addr
  <2>1. b \in Nat /\ b \in Addr /\ End(hdr, b) <= MemTop + 1 /\ hdr[b].size \in Nat
    BY <1>5, Self, BlocksType, Naturals
  <2>2. QED
    BY <1>2, <1>5, <1>6, <2>1, Naturals DEF End, Payload, Addr
<1>8. Rearranged(hdr, hdr', heap_base)
  BY <1>4, <1>5, <1>6, Self, SplitRearranges
<1>9. ASSUME NEW d \in Blocks(hdr'), hdr'[d].magic = USED
      PROVE  Payload(d) \in Addr /\ need'[Payload(d)] # 0
  <2>1. d \in Blocks(hdr) /\ hdr[d].magic = USED
    BY <1>8, <1>9 DEF Rearranged
  <2>2. CASE d = b
    BY <1>2, <1>4, <1>6, <1>7, <2>2, Self
  <2>3. CASE d # b
    <3>1. Payload(d) \in Addr /\ need[Payload(d)] # 0
      BY <1>1, <1>4, <2>1, <2>3, KeptAlone
    <3>2. Payload(d) # p
      BY <1>2, <1>7, <2>1, <2>3, PayloadApart DEF Blocks
    <3>3. QED
      BY <1>4, <1>7, <3>1, <3>2, Self
  <2>4. QED
    BY <2>2, <2>3
<1>10. \E e \in Local, pl \in {"idle", "copy"} :
         loc' = [loc EXCEPT ![t] = e] /\ pc' = [pc EXCEPT ![t] = pl]
  <2>1. CASE Leave(t)
    BY <2>1, NoCallType DEF Leave, Goto
  <2>2. CASE Goto(t, "copy") /\ loc' = [loc EXCEPT ![t].new = p]
    <3>1. [loc[t] EXCEPT !.new = p] \in Local
      BY <1>7, Self DEF Local
    <3>2. loc' = [loc EXCEPT ![t] = [loc[t] EXCEPT !.new = p]]
      BY <2>2, Self
    <3>3. QED
      BY <2>2, <3>1, <3>2 DEF Goto
  <2>3. QED
    BY <1>1, <1>2, <2>1, <2>2 DEF MallocSplit
<1>11. PICK e \in Local, pl \in {"idle", "copy"} :
         loc' = [loc EXCEPT ![t] = e] /\ pc' = [pc EXCEPT ![t] = pl]
  BY <1>10
<1>12. QED
  BY <1>4, <1>8, <1>9, <1>11, RearrangedKeeps, ChangeKeeps

LEMMA FreeMarkKeeps ==
  ASSUME HeapInv, LeakInv, NEW t \in Threads, FreeMark(t)
  PROVE  LeakInv'
<1>1. PICK b : b = loc[t].block
  OBVIOUS
<1>2. PICK p : p = loc[t].ptr
  OBVIOUS
<1>3. /\ pc[t] = "mark"
      /\ hdr' = [hdr EXCEPT ![b].magic = FREE]
      /\ need' = [need EXCEPT ![p] = 0]
      /\ pc' = [pc EXCEPT ![t] = "coalesce"]
      /\ heap_base' = heap_base /\ loc' = loc
  BY <1>1, <1>2 DEF FreeMark, Goto
<1>4. b \in Blocks(hdr) /\ p \in Addr /\ Payload(b) = p /\ b \in Addr
  <2>1. loc[t].op \in {"free", "drop"} /\ b = get_block_ptr(p) /\ need[p] # 0 /\ p \in Addr
    BY <1>1, <1>2, <1>3, Self DEF AtPlace, Owning
  <2>2. QED
    BY <2>1, LiveBlock DEF Blocks
<1>5. Marked(hdr, b, FREE, hdr')
  BY <1>3, <1>4, Self, MarkSound
<1>6. PagesKept(hdr') /\ Whole(hdr', heap_base')
  <2>1. Covered(hdr') = Covered(hdr)
        /\ (Whole(hdr, heap_base) => Whole(hdr', heap_base))
    BY <1>5, MarkRearranges
  <2>2. QED
    BY <1>3, <2>1 DEF LeakInv, PagesKept
<1>7. loc' = [loc EXCEPT ![t] = loc[t]] /\ loc[t] \in Local
  BY <1>3, Self
<1>8. ASSUME NEW d \in Blocks(hdr'), hdr'[d].magic = USED
      PROVE  Payload(d) \in Addr /\ need'[Payload(d)] # 0
  <2>1. d \in Blocks(hdr) /\ d \in Addr /\ d # b /\ hdr[d].magic = USED
    BY <1>5, <1>8 DEF Marked, Blocks
  <2>2. Payload(d) \in Addr /\ need[Payload(d)] # 0
    BY <1>3, <2>1, KeptAlone
  <2>3. Payload(d) # p
    BY <1>4, <2>1, PayloadApart
  <2>4. QED
    BY <1>3, <1>4, <2>2, <2>3, Self
<1>9. QED
  BY <1>3, <1>6, <1>7, <1>8, ChangeKeeps

LEMMA FreeCoalesceKeeps ==
  ASSUME HeapInv, LeakInv, NEW t \in Threads, FreeCoalesce(t)
  PROVE  LeakInv'
<1>1. PICK b : b = loc[t].block
  OBVIOUS
<1>2. /\ pc[t] = "coalesce" /\ hdr' = coalesce(hdr, b)
      /\ loc' = [loc EXCEPT ![t] = NoCall] /\ pc' = [pc EXCEPT ![t] = "idle"]
      /\ heap_base' = heap_base /\ need' = need
  BY <1>1 DEF FreeCoalesce, Leave, Goto
<1>3. b \in Blocks(hdr)
  BY <1>1, <1>2, Self DEF AtPlace
<1>4. Rearranged(hdr, hdr', heap_base)
  BY <1>2, <1>3, Self, CoalesceRearranges
<1>5. ASSUME NEW d \in Blocks(hdr'), hdr'[d].magic = USED
      PROVE  Payload(d) \in Addr /\ need'[Payload(d)] # 0
  <2>1. d \in Blocks(hdr) /\ hdr[d].magic = USED
    BY <1>4, <1>5 DEF Rearranged
  <2>2. QED
    BY <1>2, <2>1, KeptAlone
<1>6. QED
  BY <1>2, <1>4, <1>5, NoCallType, RearrangedKeeps, ChangeKeeps

LEMMA ReallocInPlaceKeeps ==
  ASSUME HeapInv, LeakInv, NEW t \in Threads, ReallocInPlace(t)
  PROVE  LeakInv'
<1>1. PICK b : b = loc[t].block
  OBVIOUS
<1>2. PICK p : p = loc[t].ptr
  OBVIOUS
<1>3. PICK n : n = Align(loc[t].size)
  OBVIOUS
<1>4. PICK h : h = IF Roomy(hdr, t) THEN hdr ELSE Extended(hdr, b)
  OBVIOUS
<1>5. /\ pc[t] = "resize" /\ hdr' = split_block(h, b, n)
      /\ need' = [need EXCEPT ![p] = loc[t].want]
      /\ loc' = [loc EXCEPT ![t] = NoCall] /\ pc' = [pc EXCEPT ![t] = "idle"]
      /\ heap_base' = heap_base
  BY <1>1, <1>2, <1>3, <1>4 DEF ReallocInPlace, Leave, Goto
<1>6. /\ loc[t].op = "realloc" /\ b \in Blocks(hdr) /\ p \in Addr
      /\ n \in Nat /\ 0 < loc[t].want
  <2>1. loc[t].op = "realloc" /\ b = get_block_ptr(p) /\ p \in Addr /\ need[p] # 0
    BY <1>1, <1>2, <1>5, Self DEF AtPlace, Owning
  <2>2. 0 < loc[t].size /\ ~TooLarge(loc[t].size) /\ loc[t].size \in Nat
        /\ loc[t].want = loc[t].size
    BY <2>1, Self DEF Asking
  <2>3. QED
    BY <1>3, <2>1, <2>2, LiveBlock, AlignFits
<1>7. Rearranged(hdr, h, heap_base) /\ Sound(h, heap_base) /\ b \in Blocks(h)
  <2>1. CASE h = hdr
    BY <1>6, <2>1, Self, RearrangedSame
  <2>2. CASE h = MergeNext(hdr, b)
    BY <1>6, <2>2, Self, MergeNextRearranges, MergeNextSound
  <2>3. QED
    BY <1>4, <2>1, <2>2 DEF Extended
<1>8. Rearranged(hdr, hdr', heap_base)
  <2>1. Rearranged(h, split_block(h, b, n), heap_base)
    BY <1>6, <1>7, SplitRearranges
  <2>2. QED
    BY <1>5, <1>7, <2>1, RearrangedTwice
<1>9. ASSUME NEW d \in Blocks(hdr'), hdr'[d].magic = USED
      PROVE  Payload(d) \in Addr /\ need'[Payload(d)] # 0
  <2>1. d \in Blocks(hdr) /\ hdr[d].magic = USED
    BY <1>8, <1>9 DEF Rearranged
  <2>2. Payload(d) \in Addr /\ need[Payload(d)] # 0
    BY <1>5, <2>1, KeptAlone
  <2>3. QED
    BY <1>5, <1>6, <2>2, Self
<1>10. QED
  BY <1>5, <1>8, <1>9, NoCallType, RearrangedKeeps, ChangeKeeps

LEMMA ReallocMoveKeeps ==
  ASSUME HeapInv, LeakInv, NEW t \in Threads, ReallocMove(t) \/ ReallocCopy(t)
  PROVE  LeakInv'
<1>1. \E op \in {"move", "drop"} :
        /\ pc[t] # "split" /\ loc' = [loc EXCEPT ![t].op = op]
        /\ pc' = [pc EXCEPT ![t] = "lock"]
        /\ UNCHANGED <<heap_base, hdr, need>>
  BY DEF ReallocMove, ReallocCopy, Goto
<1>2. PICK op \in {"move", "drop"} :
        /\ pc[t] # "split" /\ loc' = [loc EXCEPT ![t].op = op]
        /\ pc' = [pc EXCEPT ![t] = "lock"]
        /\ UNCHANGED <<heap_base, hdr, need>>
  BY <1>1
<1>3. PICK e : e = [loc[t] EXCEPT !.op = op]
  OBVIOUS
<1>4. e \in Local /\ loc' = [loc EXCEPT ![t] = e]
  BY <1>2, <1>3, Self DEF Local, Ops
<1>5. QED
  BY <1>2, <1>4, QuietKeeps

-----------------------------------------------------------------------------
(* The theorem.                                                            *)

LEMMA LeakInit == Init => LeakInv
<1>1. SUFFICES ASSUME Init PROVE LeakInv
  OBVIOUS
<1>2. Blocks(hdr) = {}
  BY <1>1 DEF Init, Blocks, NoHeader
<1>3. Covered(hdr) = {}
  <2>1. \A x : x \notin Covered(hdr)
    BY <1>2, CoveredIs
  <2>2. QED
    BY <2>1
<1>4. \A t \in Threads : pc[t] # "scan"
  BY <1>1 DEF Init
<1>5. QED
  BY <1>2, <1>3, <1>4 DEF LeakInv, PagesKept, Whole, Passes, Searching

LEMMA LeakStep == HeapInv /\ LeakInv /\ [Next]_vars => LeakInv'
<1>1. SUFFICES ASSUME HeapInv, LeakInv, [Next]_vars PROVE LeakInv'
  OBVIOUS
<1>2. CASE UNCHANGED vars
  BY <1>1, <1>2, StutterKeeps
<1>3. ASSUME NEW t \in Threads, Step(t) PROVE LeakInv'
  <2>1. CASE Call(t)
    BY <1>1, <2>1, CallKeeps
  <2>2. CASE Lock(t)
    BY <1>1, <2>2, LockKeeps
  <2>3. CASE ReallocCopy(t) \/ ReallocMove(t)
    BY <1>1, <2>3, ReallocMoveKeeps
  <2>4. CASE ScanNext(t)
    BY <1>1, <2>4, ScanNextKeeps
  <2>5. CASE ScanTake(t)
    BY <1>1, <2>5, ScanTakeKeeps
  <2>6. CASE Grow(t)
    BY <1>1, <2>6, GrowKeeps
  <2>7. CASE GrowFails(t)
    BY <1>1, <2>7, GrowFailsKeeps
  <2>8. CASE MallocSplit(t)
    BY <1>1, <2>8, MallocSplitKeeps
  <2>9. CASE FreeMark(t)
    BY <1>1, <2>9, FreeMarkKeeps
  <2>10. CASE FreeCoalesce(t)
    BY <1>1, <2>10, FreeCoalesceKeeps
  <2>11. CASE ReallocInPlace(t)
    BY <1>1, <2>11, ReallocInPlaceKeeps
  <2>12. QED
    BY <1>3, <2>1, <2>2, <2>3, <2>4, <2>5, <2>6, <2>7, <2>8, <2>9, <2>10,
       <2>11 DEF Step, Inside
<1>4. QED
  BY <1>1, <1>2, <1>3 DEF Next

\* The bytes of the pages, the walk, the blocks in use and every search in
\* progress are as LeakInv says, always.
THEOREM LeakInvariant == Spec => []LeakInv
<1>1. Init => LeakInv
  BY LeakInit
<1>2. HeapInv /\ LeakInv /\ [Next]_vars => LeakInv'
  BY LeakStep
<1>3. QED
  BY <1>1, <1>2, HeapInvariant, PTL DEF Spec

LEMMA LeakInvGives == HeapInv /\ LeakInv => NoLeak
<1>1. SUFFICES ASSUME HeapInv, LeakInv PROVE NoLeak
  OBVIOUS
<1>2. \A a \in Covered(hdr) : PageOf(a) \subseteq Covered(hdr)
  BY <1>1 DEF LeakInv, PagesKept
<1>3. Reached(hdr, heap_base) = Blocks(hdr)
  BY <1>1, WholeReached DEF LeakInv
<1>4. \A b \in Blocks(hdr) : hdr[b].magic = USED =>
        b \in InFlight \/ need[Payload(b)] # 0
  BY <1>1 DEF LeakInv, Kept
<1>5. ASSUME NEW t \in Threads, pc[t] = "scan", loc[t].block = Null,
             NEW b \in Blocks(hdr), hdr[b].magic = FREE
      PROVE  hdr[b].size < Align(loc[t].size)
  <2>1. PICK n : n = Align(loc[t].size)
    OBVIOUS
  <2>2. n \in Nat
    <3>1. ~TooLarge(loc[t].size) /\ loc[t].size \in Nat
      BY <1>1, <1>5, Self DEF AtPlace, Asking
    <3>2. QED
      BY <2>1, <3>1, AlignFits
  <2>3. Fitting(hdr, n) \subseteq {}
    <3>1. Passes(hdr, Null, Fitting(hdr, n))
      BY <1>1, <1>5, <2>1 DEF LeakInv, Searching
    <3>2. {} \in SUBSET Blocks(hdr) /\ Follows(hdr, {}) /\ Null \in {} \cup {Null}
      BY DEF Follows
    <3>3. QED
      BY <3>1, <3>2 DEF Passes
  <2>4. ~(hdr[b].size >= n)
    BY <1>5, <2>3 DEF Fitting
  <2>5. hdr[b].size \in Nat
    BY <1>1, Self, BlocksType
  <2>6. QED
    BY <2>1, <2>2, <2>4, <2>5
<1>6. QED
  BY <1>2, <1>3, <1>4, <1>5 DEF NoLeak

\* However splits, merges, growth and realloc interleave, no byte of a
\* page that mmap gave leaves the list, the search of malloc comes to every
\* block, every block in use is somebody's to free, and malloc asks for
\* memory only when no free block fits.
THEOREM NothingLeaks == Spec => []NoLeak
<1>1. HeapInv /\ LeakInv => NoLeak
  BY LeakInvGives
<1>2. QED
  BY <1>1, HeapInvariant, LeakInvariant, PTL

-----------------------------------------------------------------------------
(* Programs that hand back pointers they do not own (HeapStale).           *)
(*                                                                         *)
(* Owning and Exclusive are lost: the pointer of a call may be nobody's,   *)
(* or become another thread's while the call waits for the lock.  What     *)
(* takes their place is that every block in use is live or about to be     *)
(* handed over, so a header that says USED is that of a live pointer.      *)

\* What t finds at its place in a call whose pointer may be stale.
Finds(t) ==
  LET b == loc[t].block IN
  /\ loc[t].op \in {"free", "realloc", "move", "drop"} =>
       get_block_ptr(loc[t].ptr) \in Addr
  /\ pc[t] = "scan" => /\ loc[t].op \in {"malloc", "move"}
                       /\ ScanOK(hdr, heap_base, b, loc[t].last)
  /\ pc[t] = "split" => /\ loc[t].op \in {"malloc", "move"}
                        /\ b \in Blocks(hdr) /\ hdr[b].magic = USED
                        /\ hdr[b].size >= Align(loc[t].size)
  /\ pc[t] = "mark" => /\ loc[t].op \in {"free", "drop"}
                       /\ b = get_block_ptr(loc[t].ptr)
  /\ pc[t] = "resize" => /\ loc[t].op = "realloc"
                         /\ b = get_block_ptr(loc[t].ptr)
  /\ pc[t] = "coalesce" => b \in Blocks(hdr) /\ hdr[b].magic = FREE
  /\ pc[t] = "copy" => loc[t].op = "move"

LooseInv ==
  /\ TypeOK
  /\ MutualExclusion
  /\ Sound(hdr, heap_base)
  /\ PromisesKept
  /\ \A b \in Blocks(hdr) : hdr[b].magic = USED => Kept(b)
  /\ \A t \in Threads : Asking(t) /\ Finds(t)

\* A pointer that was given back has room for a header before it.
FreedOK == \A p \in freed : p \in Addr /\ get_block_ptr(p) \in Addr

StaleInv == LooseInv /\ FreedOK

LEMMA LooseSelf ==
  ASSUME LooseInv, NEW t \in Threads
  PROVE  /\ Sound(hdr, heap_base) /\ heap_base \in Addr
         /\ hdr \in [Addr -> Header] /\ need \in [Addr -> Nat]
         /\ pc \in [Threads -> Places] /\ loc \in [Threads -> Local]
         /\ loc[t] \in Local /\ pc[t] \in Places
         /\ loc[t].op \in Ops /\ loc[t].ptr \in Addr /\ loc[t].new \in Addr
         /\ loc[t].block \in Addr /\ loc[t].last \in Addr
         /\ loc[t].size \in Nat /\ loc[t].want \in Nat
         /\ Asking(t) /\ Finds(t) /\ PromisesKept
BY DEF LooseInv, TypeOK, Sound, Local

\* The block behind a live pointer, as LiveBlock says it of HeapInv.
LEMMA LooseLive ==
  ASSUME LooseInv, NEW p \in Addr, need[p] # 0
  PROVE  /\ get_block_ptr(p) \in Blocks(hdr)
         /\ hdr[get_block_ptr(p)].magic = USED
         /\ hdr[get_block_ptr(p)].size >= need[p]
         /\ p # Null /\ Payload(get_block_ptr(p)) = p
<1>1. /\ get_block_ptr(p) \in Blocks(hdr)
      /\ hdr[get_block_ptr(p)].magic = USED
      /\ hdr[get_block_ptr(p)].size >= need[p]
  BY DEF LooseInv, PromisesKept
<1>2. get_block_ptr(p) \in Nat
  BY <1>1, Naturals DEF Blocks
<1>3. QED
  BY <1>1, <1>2, Naturals DEF get_block_ptr, Payload

\* Inside a critical section, the blocks in use are live but the one t is
\* about to return.
LEMMA LooseAlone ==
  ASSUME LooseInv, NEW t \in Threads, pc[t] \in Critical,
         NEW b \in Blocks(hdr), hdr[b].magic = USED
  PROVE  \/ pc[t] = "split" /\ b = loc[t].block
         \/ Payload(b) \in Addr /\ need[Payload(b)] # 0
<1>1. \A u \in Threads : pc[u] = "split" => u = t
  BY DEF LooseInv, MutualExclusion
<1>2. b \in InFlight => pc[t] = "split" /\ b = loc[t].block
  BY <1>1 DEF InFlight
<1>3. QED
  BY <1>2 DEF LooseInv, Kept

\* A call that finds the header in front of its pointer in use has a
\* pointer that is live, stale as it may have been when the call began.
LEMMA UsedIsLive ==
  ASSUME LooseInv, NEW t \in Threads, pc[t] \in {"mark", "resize"},
         hdr[loc[t].block].magic = USED
  PROVE  /\ loc[t].block = get_block_ptr(loc[t].ptr)
         /\ loc[t].block \in Blocks(hdr) /\ loc[t].ptr \in Addr
         /\ Payload(loc[t].block) = loc[t].ptr
         /\ need[loc[t].ptr] # 0
<1>1. PICK b : b = loc[t].block
  OBVIOUS
<1>2. PICK p : p = loc[t].ptr
  OBVIOUS
<1>3. b = get_block_ptr(p) /\ b \in Addr /\ p \in Addr
  BY <1>1, <1>2, LooseSelf DEF Finds
<1>4. b \in Blocks(hdr)
  BY <1>1, <1>3 DEF Blocks
<1>5. Payload(b) = p
  BY <1>3, Naturals DEF get_block_ptr, Payload
<1>6. need[Payload(b)] # 0
  BY <1>1, <1>4, LooseAlone
<1>7. QED
  BY <1>1, <1>2, <1>3, <1>4, <1>5, <1>6

\* What a step of t must show to preserve the invariant.
LEMMA LooseStep ==
  ASSUME LooseInv, NEW t \in Threads, NEW e \in Local, NEW pl \in Places,
         loc' = [loc EXCEPT ![t] = e], pc' = [pc EXCEPT ![t] = pl],
         malloc_lock' = IF pl \in Critical THEN 1
                        ELSE IF pc[t] \in Critical THEN 0 ELSE malloc_lock,
         pl \in Critical /\ pc[t] \notin Critical => malloc_lock = 0,
         pc[t] \notin Critical => UNCHANGED <<hdr, heap_base, need>>,
         Sound(hdr', heap_base'),
         need' \in [Addr -> Nat],
         PromisesKept',
         pc[t] \in Critical =>
           \A b \in Blocks(hdr') : hdr'[b].magic = USED =>
             \/ pl = "split" /\ e.block = b
             \/ Payload(b) \in Addr /\ need'[Payload(b)] # 0,
         Asking(t)', Finds(t)'
  PROVE  LooseInv'
<1>1. TypeOK /\ MutualExclusion
  BY DEF LooseInv
<1>2. pc'[t] = pl /\ loc'[t] = e
  BY <1>1 DEF TypeOK
<1>3. \A u \in Threads \ {t} : pc'[u] = pc[u] /\ loc'[u] = loc[u]
  BY <1>1 DEF TypeOK
<1>4. TypeOK'
  BY <1>1 DEF TypeOK, Sound
<1>5. MutualExclusion'
  <2>1. CASE pl \in Critical
    <3>1. \A u \in Threads \ {t} : pc[u] \notin Critical
      BY <2>1, <1>1 DEF MutualExclusion
    <3>2. QED
      BY <2>1, <3>1, <1>2, <1>3 DEF MutualExclusion
  <2>2. CASE pl \notin Critical /\ pc[t] \in Critical
    <3>1. \A u \in Threads \ {t} : pc[u] \notin Critical
      BY <2>2, <1>1 DEF MutualExclusion
    <3>2. QED
      BY <2>2, <3>1, <1>2, <1>3 DEF MutualExclusion
  <2>3. CASE pl \notin Critical /\ pc[t] \notin Critical
    <3>1. malloc_lock' = malloc_lock
      BY <2>3
    <3>2. \A u \in Threads : pc'[u] \in Critical <=> pc[u] \in Critical
      BY <2>3, <1>2, <1>3
    <3>3. QED
      BY <3>1, <3>2, <1>1 DEF MutualExclusion
  <2>4. QED
    BY <2>1, <2>2, <2>3
<1>6. ASSUME NEW u \in Threads PROVE Asking(u)' /\ Finds(u)'
  <2>1. CASE u = t
    BY <2>1
  <2>2. CASE u # t
    <3>1. Asking(u) /\ Finds(u) /\ pc'[u] = pc[u] /\ loc'[u] = loc[u]
          /\ pc[u] \in Places
      BY <2>2, <1>1, <1>3 DEF LooseInv, TypeOK
    <3>2. Asking(u)'
      BY <3>1 DEF Asking, TooLarge
    <3>3. CASE pc[u] \in Critical
      <4>1. hdr' = hdr /\ heap_base' = heap_base
        BY <2>2, <3>3, <1>1 DEF MutualExclusion
      <4>2. QED
        BY <3>1, <3>2, <4>1 DEF Finds, Align, Wrap
    <3>4. CASE pc[u] \notin Critical
      BY <3>1, <3>2, <3>4 DEF Finds
    <3>5. QED
      BY <3>3, <3>4
  <2>3. QED
    BY <2>1, <2>2
<1>7. ASSUME NEW b \in Blocks(hdr'), hdr'[b].magic = USED PROVE Kept(b)'
  <2>1. CASE pc[t] \in Critical
    <3>1. \/ pl = "split" /\ e.block = b
          \/ Payload(b) \in Addr /\ need'[Payload(b)] # 0
      BY <1>7, <2>1
    <3>2. pl = "split" => e.block \in InFlight'
      BY <1>2 DEF InFlight
    <3>3. QED
      BY <3>1, <3>2 DEF Kept
  <2>2. CASE pc[t] \notin Critical
    <3>1. hdr' = hdr /\ need' = need
      BY <2>2
    <3>2. InFlight \subseteq InFlight'
      <4>1. ASSUME NEW u \in Threads, pc[u] = "split"
            PROVE  pc'[u] = "split" /\ loc'[u].block = loc[u].block
        BY <2>2, <1>3, <4>1
      <4>2. QED
        BY <4>1 DEF InFlight
    <3>3. Kept(b)
      BY <1>7, <3>1 DEF LooseInv
    <3>4. QED
      BY <3>1, <3>2, <3>3 DEF Kept
  <2>3. QED
    BY <2>1, <2>2
<1>8. QED
  BY <1>4, <1>5, <1>6, <1>7 DEF LooseInv

\* A call that releases the lock and ends.
LEMMA LooseLeave ==
  ASSUME LooseInv, NEW t \in Threads, pc[t] \in Critical, Leave(t),
         Sound(hdr', heap_base'), need' \in [Addr -> Nat], PromisesKept',
         \A b \in Blocks(hdr') : hdr'[b].magic = USED =>
           Payload(b) \in Addr /\ need'[Payload(b)] # 0
  PROVE  LooseInv'
<1>1. /\ loc' = [loc EXCEPT ![t] = NoCall] /\ pc' = [pc EXCEPT ![t] = "idle"]
      /\ malloc_lock' = 0
  BY DEF Leave, Goto
<1>2. loc'[t] = NoCall /\ pc'[t] = "idle"
  BY <1>1, LooseSelf
<1>3. Asking(t)' /\ Finds(t)'
  BY <1>2 DEF Asking, Finds, NoCall
<1>4. QED
  BY <1>1, <1>3, NoCallType, LooseStep

\* A call that ends with the heap as it found it.
LEMMA LooseQuit ==
  ASSUME LooseInv, NEW t \in Threads, pc[t] \in Critical, pc[t] # "split",
         Leave(t), UNCHANGED <<heap_base, hdr, need>>
  PROVE  LooseInv'
<1>1. Sound(hdr', heap_base') /\ need' \in [Addr -> Nat] /\ PromisesKept'
  BY DEF LooseInv, TypeOK, PromisesKept
<1>2. \A b \in Blocks(hdr') : hdr'[b].magic = USED =>
        Payload(b) \in Addr /\ need'[Payload(b)] # 0
  BY LooseAlone
<1>3. QED
  BY <1>1, <1>2, LooseLeave

LEMMA LooseSame ==
  ASSUME LooseInv, UNCHANGED <<heap_base, hdr, need>>
  PROVE  Sound(hdr', heap_base') /\ need' \in [Addr -> Nat] /\ PromisesKept'
BY DEF LooseInv, TypeOK, PromisesKept

LEMMA LooseStutter ==
  ASSUME LooseInv, UNCHANGED vars
  PROVE  LooseInv'
<1>1. /\ heap_base' = heap_base /\ malloc_lock' = malloc_lock /\ hdr' = hdr
      /\ need' = need /\ pc' = pc /\ loc' = loc
  BY DEF vars
<1>2. TypeOK' /\ MutualExclusion' /\ Sound(hdr', heap_base') /\ PromisesKept'
  BY <1>1 DEF LooseInv, TypeOK, MutualExclusion, PromisesKept
<1>3. \A t \in Threads : Asking(t)' /\ Finds(t)'
  BY <1>1 DEF LooseInv, Asking, Finds, TooLarge, Align, Wrap
<1>4. InFlight' = InFlight
  BY <1>1 DEF InFlight
<1>5. \A b \in Blocks(hdr') : hdr'[b].magic = USED => Kept(b)'
  BY <1>1, <1>4 DEF LooseInv, Kept
<1>6. QED
  BY <1>2, <1>3, <1>5 DEF LooseInv

-----------------------------------------------------------------------------
(* The calls and the steps keep it.                                        *)

LEMMA LooseBegin ==
  ASSUME LooseInv, NEW t \in Threads, pc[t] = "idle", NEW c \in Local,
         Begin(t, c), c.op \in {"malloc", "free", "realloc"},
         c.op \in {"free", "realloc"} => get_block_ptr(c.ptr) \in Addr,
         c.op \in {"malloc", "realloc"} =>
           /\ 0 < c.size /\ ~TooLarge(c.size) /\ c.want = c.size
  PROVE  LooseInv'
<1>1. /\ loc' = [loc EXCEPT ![t] = c] /\ pc' = [pc EXCEPT ![t] = "lock"]
      /\ UNCHANGED <<heap_base, malloc_lock, hdr, need>>
  BY DEF Begin, Goto
<1>2. Sound(hdr', heap_base') /\ need' \in [Addr -> Nat] /\ PromisesKept'
  BY <1>1, LooseSame
<1>3. pc'[t] = "lock" /\ loc'[t] = c
  BY <1>1, LooseSelf
<1>4. Asking(t)' /\ Finds(t)'
  BY <1>1, <1>3 DEF Asking, Finds, TooLarge
<1>5. QED
  BY <1>1, <1>2, <1>4, LooseStep

LEMMA LooseReturn ==
  ASSUME LooseInv, NEW t \in Threads, Return(t)
  PROVE  LooseInv'
BY LooseStutter DEF Return

LEMMA LooseMalloc ==
  ASSUME LooseInv, NEW t \in Threads, NEW n \in Nat, Malloc(t, n)
  PROVE  LooseInv'
<1>1. CASE n = 0 \/ TooLarge(n)
  BY <1>1, LooseReturn DEF Malloc
<1>2. CASE ~(n = 0 \/ TooLarge(n))
  <2>1. PICK c : c = [NoCall EXCEPT !.op = "malloc", !.size = n, !.want = n]
    OBVIOUS
  <2>2. c \in Local
    BY <2>1, NoCallType DEF Local, Ops
  <2>3. c.op = "malloc" /\ c.size = n /\ c.want = n
    BY <2>1 DEF NoCall
  <2>4. Begin(t, c) /\ pc[t] = "idle"
    BY <1>2, <2>1 DEF Malloc
  <2>5. QED
    BY <1>2, <2>2, <2>3, <2>4, LooseBegin
<1>3. QED
  BY <1>1, <1>2

LEMMA LooseCalloc ==
  ASSUME LooseInv, NEW t \in Threads, NEW m \in Nat, NEW n \in Nat,
         Calloc(t, m, n)
  PROVE  LooseInv'
<1>1. m * n \in Nat
  OBVIOUS
<1>2. m = 0 \/ n = 0 \/ m * n > SIZE_MAX \/ TooLarge(m * n) => Return(t)
  BY DEF Calloc, Return
<1>3. ~(m = 0 \/ n = 0 \/ m * n > SIZE_MAX \/ TooLarge(m * n))
        => Malloc(t, m * n)
  <2>1. m # 0 /\ n # 0 => m * n # 0
    OBVIOUS
  <2>2. QED
    BY <2>1 DEF Calloc, Malloc
<1>4. QED
  BY <1>1, <1>2, <1>3, LooseReturn, LooseMalloc

\* free of any pointer that has room for a header before it.
LEMMA LooseFree ==
  ASSUME LooseInv, NEW t \in Threads, NEW p \in Addr,
         get_block_ptr(p) \in Addr, Free(t, p)
  PROVE  LooseInv'
<1>1. CASE Misaligned(p)
  BY <1>1, LooseReturn DEF Free
<1>2. CASE ~Misaligned(p)
  <2>1. PICK c : c = [NoCall EXCEPT !.op = "free", !.ptr = p]
    OBVIOUS
  <2>2. c \in Local
    BY <2>1, CallType DEF Ops
  <2>3. c.op = "free" /\ c.ptr = p
    BY <2>1 DEF NoCall
  <2>4. Begin(t, c) /\ pc[t] = "idle"
    BY <1>2, <2>1 DEF Free
  <2>5. QED
    BY <2>2, <2>3, <2>4, LooseBegin
<1>3. QED
  BY <1>1, <1>2

LEMMA LooseRealloc ==
  ASSUME LooseInv, NEW t \in Threads, NEW p \in Addr, NEW n \in Nat,
         get_block_ptr(p) \in Addr, Realloc(t, p, n)
  PROVE  LooseInv'
<1>1. CASE Free(t, p)
  BY <1>1, LooseFree
<1>2. CASE Return(t)
  BY <1>2, LooseReturn
<1>3. PICK c : c = [NoCall EXCEPT !.op = "realloc", !.ptr = p,
                                  !.size = n, !.want = n]
  OBVIOUS
<1>4. CASE n # 0 /\ ~TooLarge(n) /\ Begin(t, c) /\ pc[t] = "idle"
  <2>1. c \in Local
    BY <1>3, CallType DEF Ops
  <2>2. c.op = "realloc" /\ c.ptr = p /\ c.size = n /\ c.want = n
    BY <1>3 DEF NoCall
  <2>3. QED
    BY <1>4, <2>1, <2>2, LooseBegin
<1>5. QED
  BY <1>1, <1>2, <1>3, <1>4 DEF Realloc

LEMMA LooseLock ==
  ASSUME LooseInv, NEW t \in Threads, Lock(t)
  PROVE  LooseInv'
<1>1. pc[t] = "lock" /\ malloc_lock = 0 /\ malloc_lock' = 1
      /\ UNCHANGED <<heap_base, hdr, need>>
  BY DEF Lock, Acquired
<1>2. Sound(hdr', heap_base') /\ need' \in [Addr -> Nat] /\ PromisesKept'
  BY <1>1, LooseSame
<1>3. CASE /\ loc[t].op \in {"malloc", "move"}
           /\ loc' = [loc EXCEPT ![t].block = heap_base, ![t].last = Null]
           /\ Goto(t, "scan")
  <2>1. PICK e : e = [loc[t] EXCEPT !.block = heap_base, !.last = Null]
    OBVIOUS
  <2>2. e \in Local
    BY <2>1, LooseSelf, NoCallType DEF Local, NoCall
  <2>3. /\ e.op = loc[t].op /\ e.ptr = loc[t].ptr
        /\ e.size = loc[t].size /\ e.want = loc[t].want
        /\ e.block = heap_base /\ e.last = Null
    BY <2>1, LooseSelf DEF Local
  <2>4. loc' = [loc EXCEPT ![t] = e] /\ pc' = [pc EXCEPT ![t] = "scan"]
    BY <1>3, <2>1, LooseSelf DEF Goto
  <2>5. loc'[t] = e /\ pc'[t] = "scan"
    BY <2>4, LooseSelf
  <2>6. ScanOK(hdr, heap_base, heap_base, Null)
    BY LooseSelf DEF ScanOK, Sound
  <2>7. Asking(t)'
    BY <1>3, <2>3, <2>5, LooseSelf DEF Asking, TooLarge
  <2>8. Finds(t)'
    BY <1>1, <1>3, <2>3, <2>5, <2>6, LooseSelf DEF Finds
  <2>9. QED
    BY <1>1, <1>2, <2>2, <2>4, <2>7, <2>8, LooseStep
<1>4. ASSUME NEW pl \in {"mark", "resize"},
             IF pl = "mark" THEN loc[t].op \in {"free", "drop"}
                            ELSE loc[t].op = "realloc",
             loc' = [loc EXCEPT ![t].block = get_block_ptr(loc[t].ptr)],
             Goto(t, pl)
      PROVE  LooseInv'
  <2>1. PICK b : b = get_block_ptr(loc[t].ptr)
    OBVIOUS
  <2>2. b \in Addr
    BY <1>4, <2>1, LooseSelf DEF Finds
  <2>3. PICK e : e = [loc[t] EXCEPT !.block = b]
    OBVIOUS
  <2>4. e \in Local
    BY <2>2, <2>3, LooseSelf DEF Local
  <2>5. /\ e.op = loc[t].op /\ e.ptr = loc[t].ptr
        /\ e.size = loc[t].size /\ e.want = loc[t].want
        /\ e.block = get_block_ptr(e.ptr)
    BY <2>1, <2>3, LooseSelf DEF Local
  <2>6. loc' = [loc EXCEPT ![t] = e] /\ pc' = [pc EXCEPT ![t] = pl]
    BY <1>4, <2>1, <2>3, LooseSelf DEF Goto
  <2>7. loc'[t] = e /\ pc'[t] = pl
    BY <2>6, LooseSelf
  <2>8. Asking(t)'
    BY <1>4, <2>5, <2>7, LooseSelf DEF Asking, TooLarge
  <2>9. Finds(t)'
    BY <1>4, <2>1, <2>2, <2>5, <2>7 DEF Finds
  <2>10. /\ malloc_lock' = IF pl \in Critical THEN 1
                           ELSE IF pc[t] \in Critical THEN 0 ELSE malloc_lock
         /\ pl \in Places /\ pc[t] \notin Critical
    BY <1>1, <1>4
  <2>11. QED
    BY <1>1, <1>2, <2>4, <2>6, <2>8, <2>9, <2>10, LooseStep
<1>5. QED
  BY <1>3, <1>4 DEF Lock

LEMMA LooseScanNext ==
  ASSUME LooseInv, NEW t \in Threads, ScanNext(t)
  PROVE  LooseInv'
<1>1. PICK b : b = loc[t].block
  OBVIOUS
<1>2. pc[t] = "scan" /\ b # Null
      /\ UNCHANGED <<heap_base, malloc_lock, hdr, need, pc>>
      /\ loc' = [loc EXCEPT ![t].last = b, ![t].block = hdr[b].next]
  BY <1>1 DEF ScanNext
<1>3. loc[t].op \in {"malloc", "move"} /\ b \in Blocks(hdr)
  BY <1>1, <1>2, LooseSelf DEF Finds, ScanOK
<1>4. b \in Addr /\ hdr[b].next \in Addr
  BY <1>3, LooseSelf, BlocksType
<1>5. PICK e : e = [loc[t] EXCEPT !.last = b, !.block = hdr[b].next]
  OBVIOUS
<1>6. /\ e \in Local
      /\ e.op = loc[t].op /\ e.ptr = loc[t].ptr
      /\ e.size = loc[t].size /\ e.want = loc[t].want
      /\ e.block = hdr[b].next /\ e.last = b
  BY <1>4, <1>5, LooseSelf DEF Local
<1>7. loc' = [loc EXCEPT ![t] = e] /\ pc' = [pc EXCEPT ![t] = "scan"]
  BY <1>2, <1>5, LooseSelf
<1>8. ScanOK(hdr, heap_base, hdr[b].next, b)
  BY <1>2, <1>3, LooseSelf, Neighbours DEF ScanOK
<1>9. loc'[t] = e /\ pc'[t] = "scan"
  BY <1>2, <1>7, LooseSelf
<1>10. Asking(t)'
  BY <1>6, <1>9, LooseSelf DEF Asking, TooLarge
<1>11. Finds(t)'
  BY <1>2, <1>3, <1>6, <1>8, <1>9, LooseSelf DEF Finds
<1>12. Sound(hdr', heap_base') /\ need' \in [Addr -> Nat] /\ PromisesKept'
  BY <1>2, LooseSame
<1>13. malloc_lock' = 1
  BY <1>2 DEF LooseInv, MutualExclusion
<1>14. \A d \in Blocks(hdr') : hdr'[d].magic = USED =>
         Payload(d) \in Addr /\ need'[Payload(d)] # 0
  BY <1>2, LooseAlone
<1>15. QED
  <2>1. PICK pl : pl = "scan"
    OBVIOUS
  <2>2. /\ pc[t] \in Critical /\ pl \in Places /\ pl \in Critical
        /\ pc' = [pc EXCEPT ![t] = pl]
    BY <1>2, <1>7, <2>1
  <2>3. \A d \in Blocks(hdr') : hdr'[d].magic = USED =>
          \/ pl = "split" /\ e.block = d
          \/ Payload(d) \in Addr /\ need'[Payload(d)] # 0
    BY <1>14
  <2>4. QED
    BY <1>6, <1>7, <1>10, <1>11, <1>12, <1>13, <2>2, <2>3, LooseStep

LEMMA LooseScanTake ==
  ASSUME LooseInv, NEW t \in Threads, ScanTake(t)
  PROVE  LooseInv'
<1>1. PICK b : b = loc[t].block
  OBVIOUS
<1>2. /\ pc[t] = "scan" /\ b # Null /\ Fits(t)
      /\ hdr' = [hdr EXCEPT ![b].magic = USED]
      /\ pc' = [pc EXCEPT ![t] = "split"]
      /\ UNCHANGED <<heap_base, malloc_lock, need, loc>>
  BY <1>1 DEF ScanTake, Goto
<1>3. loc[t].op \in {"malloc", "move"} /\ b \in Blocks(hdr)
  BY <1>1, <1>2, LooseSelf DEF Finds, ScanOK
<1>4. hdr[b].size >= Align(loc[t].size)
  BY <1>1, <1>2 DEF Fits
<1>5. Sound(hdr', heap_base) /\ Marked(hdr, b, USED, hdr')
  <2>1. USED \in {FREE, USED}
    OBVIOUS
  <2>2. QED
    BY <1>2, <1>3, <2>1, LooseSelf, MarkSound
<1>6. /\ Blocks(hdr') = Blocks(hdr)
      /\ \A a \in Addr : /\ hdr'[a].size = hdr[a].size
                         /\ hdr'[a].magic = IF a = b THEN USED ELSE hdr[a].magic
  BY <1>5 DEF Marked
<1>7. PromisesKept'
  BY <1>2, <1>6, LooseSelf DEF PromisesKept, Blocks
<1>8. Asking(t)'
  BY <1>2, LooseSelf DEF Asking, TooLarge
<1>9. pc'[t] = "split"
  BY <1>2, LooseSelf
<1>10. Finds(t)'
  BY <1>1, <1>2, <1>3, <1>4, <1>6, <1>9, LooseSelf, ZenonT(30)
     DEF Finds, Align, Wrap, Blocks
<1>11. \A d \in Blocks(hdr') : hdr'[d].magic = USED =>
         \/ loc[t].block = d
         \/ Payload(d) \in Addr /\ need'[Payload(d)] # 0
  <2>1. SUFFICES ASSUME NEW d \in Blocks(hdr'), hdr'[d].magic = USED, d # b
                 PROVE  Payload(d) \in Addr /\ need'[Payload(d)] # 0
    BY <1>1
  <2>2. d \in Blocks(hdr) /\ hdr[d].magic = USED
    BY <1>6, <2>1 DEF Blocks
  <2>3. QED
    BY <1>2, <2>2, LooseAlone
<1>12. malloc_lock' = 1
  BY <1>2 DEF LooseInv, MutualExclusion
<1>13. loc' = [loc EXCEPT ![t] = loc[t]] /\ loc[t] \in Local
  BY <1>2, LooseSelf
<1>14. Sound(hdr', heap_base') /\ need' \in [Addr -> Nat]
  BY <1>2, <1>5, LooseSelf
<1>15. QED
  <2>1. PICK pl : pl = "split"
    OBVIOUS
  <2>2. \A d \in Blocks(hdr') : hdr'[d].magic = USED =>
          \/ pl = "split" /\ loc[t].block = d
          \/ Payload(d) \in Addr /\ need'[Payload(d)] # 0
    BY <1>11, <2>1
  <2>3. /\ pc[t] \in Critical /\ pl \in Places /\ pl \in Critical
        /\ pc' = [pc EXCEPT ![t] = pl]
    BY <1>2, <2>1
  <2>4. QED
    BY <1>7, <1>8, <1>10, <1>12, <1>13, <1>14, <2>2, <2>3, LooseStep

LEMMA LooseGrow ==
  ASSUME LooseInv, NEW t \in Threads, Grow(t)
  PROVE  LooseInv'
<1>1. PICK n : n = Align(loc[t].size)
  OBVIOUS
<1>2. PICK len : len = MapLength(n + BLOCK_META_SIZE)
  OBVIOUS
<1>3. PICK last : last = loc[t].last
  OBVIOUS
<1>4. PICK a \in Addr :
        /\ pc[t] = "scan" /\ loc[t].block = Null
        /\ len >= n + BLOCK_META_SIZE
        /\ MapFree(hdr, a, len)
        /\ hdr' = Append(hdr, a, len - BLOCK_META_SIZE, last)
        /\ heap_base' = IF heap_base = Null THEN a ELSE heap_base
        /\ loc' = [loc EXCEPT ![t].block = a]
        /\ pc' = [pc EXCEPT ![t] = "split"]
        /\ malloc_lock' = malloc_lock /\ need' = need
  BY <1>1, <1>2, <1>3 DEF Grow, Goto
<1>5. loc[t].op \in {"malloc", "move"} /\ ScanOK(hdr, heap_base, Null, last)
      /\ last \in Addr
  BY <1>3, <1>4, LooseSelf DEF Finds
<1>6. n \in Nat
  <2>1. ~TooLarge(loc[t].size) /\ loc[t].size \in Nat
    BY <1>5, LooseSelf DEF Asking
  <2>2. QED
    BY <1>1, <2>1, AlignFits
<1>7. len \in Nat
  <2>1. Wrap(n + BLOCK_META_SIZE + (PAGE_SIZE - 1)) \in Nat
    BY <1>6, HeapAssumption DEF Wrap
  <2>2. PICK q \in Nat :
          q = Wrap(n + BLOCK_META_SIZE + (PAGE_SIZE - 1)) \div PAGE_SIZE
    BY <2>1, HeapAssumption
  <2>3. len = q * PAGE_SIZE
    BY <1>2, <2>2 DEF MapLength
  <2>4. QED
    BY <2>2, <2>3, HeapAssumption
<1>8. BLOCK_META_SIZE <= len /\ len - BLOCK_META_SIZE >= n
  BY <1>4, <1>6, <1>7, Naturals
<1>9. /\ Sound(hdr', heap_base')
      /\ a \notin Blocks(hdr) /\ Blocks(hdr') = Blocks(hdr) \cup {a}
      /\ hdr'[a].size = len - BLOCK_META_SIZE /\ hdr'[a].magic = USED
      /\ \A d \in Blocks(hdr) : /\ hdr'[d].size = hdr[d].size
                                /\ hdr'[d].magic = hdr[d].magic
  BY <1>4, <1>5, <1>7, <1>8, LooseSelf, AppendSound
<1>10. PromisesKept'
  BY <1>4, <1>9, LooseSelf DEF PromisesKept
<1>11. PICK e : e = [loc[t] EXCEPT !.block = a]
  OBVIOUS
<1>12. /\ e \in Local
       /\ e.op = loc[t].op /\ e.ptr = loc[t].ptr
       /\ e.size = loc[t].size /\ e.want = loc[t].want /\ e.block = a
  BY <1>11, LooseSelf DEF Local
<1>13. loc' = [loc EXCEPT ![t] = e]
  BY <1>4, <1>11, LooseSelf
<1>14. loc'[t] = e /\ pc'[t] = "split"
  BY <1>4, <1>13, LooseSelf
<1>15. Asking(t)'
  BY <1>12, <1>14, LooseSelf DEF Asking, TooLarge
<1>16. hdr'[a].size >= Align(loc[t].size)
  BY <1>1, <1>8, <1>9
<1>17. Finds(t)'
  BY <1>5, <1>9, <1>12, <1>14, <1>16, LooseSelf DEF Finds, Align, Wrap
<1>18. \A d \in Blocks(hdr') : hdr'[d].magic = USED =>
         \/ e.block = d
         \/ Payload(d) \in Addr /\ need'[Payload(d)] # 0
  BY <1>4, <1>9, <1>12, LooseAlone
<1>19. malloc_lock' = 1
  BY <1>4 DEF LooseInv, MutualExclusion
<1>20. need' \in [Addr -> Nat]
  BY <1>4, LooseSelf
<1>21. QED
  <2>1. PICK pl : pl = "split"
    OBVIOUS
  <2>2. \A d \in Blocks(hdr') : hdr'[d].magic = USED =>
          \/ pl = "split" /\ e.block = d
          \/ Payload(d) \in Addr /\ need'[Payload(d)] # 0
    BY <1>18, <2>1
  <2>3. /\ pc[t] \in Critical /\ pl \in Places /\ pl \in Critical
        /\ pc' = [pc EXCEPT ![t] = pl]
    BY <1>4, <2>1
  <2>4. Sound(hdr', heap_base')
    BY <1>9
  <2>5. QED
    BY <1>10, <1>12, <1>13, <1>15, <1>17, <1>19, <1>20, <2>2, <2>3, <2>4,
       LooseStep

\* A list r in which the blocks in use are those of the heap, b's no
\* smaller than n, keeps the promises when the program is promised at most
\* n bytes behind b.
LEMMA PromiseAt ==
  ASSUME LooseInv, NEW b \in Addr, NEW n \in Nat, NEW w \in Nat, w <= n,
         Payload(b) \in Addr,
         need' = [need EXCEPT ![Payload(b)] = w],
         Sound(hdr', heap_base'),
         KeepsUsed(hdr, hdr', b),
         b \in Blocks(hdr'), hdr'[b].magic = USED, hdr'[b].size >= n
  PROVE  PromisesKept' /\ need' \in [Addr -> Nat] /\ need'[Payload(b)] = w
         /\ \A q \in Addr : q # Payload(b) => need'[q] = need[q]
<1>1. PICK p : p = Payload(b)
  OBVIOUS
<1>2. need \in [Addr -> Nat]
  BY DEF LooseInv, TypeOK
<1>3. need' \in [Addr -> Nat] /\ need'[p] = w
      /\ \A q \in Addr : q # p => need'[q] = need[q]
  BY <1>1, <1>2
<1>4. get_block_ptr(p) = b /\ p \in Addr
  BY <1>1, Naturals DEF get_block_ptr, Payload
<1>5. hdr'[b].size \in Nat
  BY BlocksType
<1>6. ASSUME NEW q \in Addr, need'[q] # 0
      PROVE  /\ get_block_ptr(q) \in Blocks(hdr')
             /\ hdr'[get_block_ptr(q)].magic = USED
             /\ hdr'[get_block_ptr(q)].size >= need'[q]
  <2>1. CASE q = p
    BY <1>3, <1>4, <1>5, <2>1
  <2>2. CASE q # p
    <3>1. need[q] # 0 /\ need'[q] = need[q]
      BY <1>3, <1>6, <2>2
    <3>2. get_block_ptr(q) # b
      BY <1>1, <2>2, <3>1, LooseLive
    <3>3. QED
      BY <3>1, <3>2, LooseLive DEF KeepsUsed
  <2>3. QED
    BY <2>1, <2>2
<1>7. PromisesKept'
  BY <1>6 DEF PromisesKept
<1>8. QED
  BY <1>1, <1>3, <1>7

LEMMA LooseMallocSplit ==
  ASSUME LooseInv, NEW t \in Threads, MallocSplit(t)
  PROVE  LooseInv'
<1>1. PICK b : b = loc[t].block
  OBVIOUS
<1>2. PICK p : p = Payload(b)
  OBVIOUS
<1>3. PICK n : n = Align(loc[t].size)
  OBVIOUS
<1>4. /\ pc[t] = "split" /\ hdr' = split_block(hdr, b, n)
      /\ need' = [need EXCEPT ![p] = loc[t].want]
      /\ heap_base' = heap_base
  BY <1>1, <1>2, <1>3 DEF MallocSplit
<1>5. /\ loc[t].op \in {"malloc", "move"} /\ b \in Blocks(hdr)
      /\ hdr[b].magic = USED /\ hdr[b].size >= n
  BY <1>1, <1>3, <1>4, LooseSelf DEF Finds
<1>6. n \in Nat /\ 0 < n /\ loc[t].want <= n /\ 0 < loc[t].want
      /\ loc[t].want \in Nat
  <2>1. 0 < loc[t].size /\ ~TooLarge(loc[t].size) /\ loc[t].size \in Nat
        /\ loc[t].want = loc[t].size
    BY <1>5, LooseSelf DEF Asking
  <2>2. QED
    BY <1>3, <2>1, AlignFits
<1>7. p \in Addr /\ b \in Addr
  <2>1. b \in Nat /\ b \in Addr /\ End(hdr, b) <= MemTop + 1
        /\ hdr[b].size \in Nat
    BY <1>5, LooseSelf, BlocksType, Naturals
  <2>2. QED
    BY <1>2, <1>5, <1>6, <2>1, Naturals DEF End, Payload, Addr
<1>8. Rearranged(hdr, hdr', heap_base)
  BY <1>4, <1>5, <1>6, LooseSelf, SplitRearranges
<1>9. /\ Sound(hdr', heap_base)
      /\ Blocks(hdr) \subseteq Blocks(hdr')
      /\ hdr'[b].size >= n
      /\ \A a \in Blocks(hdr) : /\ hdr'[a].magic = hdr[a].magic
                                /\ a # b => hdr'[a].size = hdr[a].size
  BY <1>4, <1>5, <1>6, LooseSelf, SplitSound
<1>10. /\ PromisesKept' /\ need' \in [Addr -> Nat]
       /\ need'[p] = loc[t].want
       /\ \A q \in Addr : q # p => need'[q] = need[q]
  <2>1. KeepsUsed(hdr, hdr', b) /\ b \in Blocks(hdr') /\ hdr'[b].magic = USED
    BY <1>5, <1>9 DEF KeepsUsed
  <2>2. PICK w : w = loc[t].want
    OBVIOUS
  <2>3. /\ need' = [need EXCEPT ![Payload(b)] = w] /\ w \in Nat /\ w <= n
        /\ Payload(b) \in Addr /\ Sound(hdr', heap_base')
    BY <1>2, <1>4, <1>6, <1>7, <1>9, <2>2
  <2>4. QED
    BY <1>2, <1>6, <1>7, <1>9, <2>1, <2>2, <2>3, PromiseAt
<1>11. \A d \in Blocks(hdr') : hdr'[d].magic = USED =>
         Payload(d) \in Addr /\ need'[Payload(d)] # 0
  <2>1. SUFFICES ASSUME NEW d \in Blocks(hdr'), hdr'[d].magic = USED
                 PROVE  Payload(d) \in Addr /\ need'[Payload(d)] # 0
    OBVIOUS
  <2>2. d \in Blocks(hdr) /\ hdr[d].magic = USED
    BY <1>8, <2>1 DEF Rearranged
  <2>3. CASE d = b
    BY <1>2, <1>6, <1>7, <1>10, <2>3
  <2>4. CASE d # b
    <3>1. Payload(d) \in Addr /\ need[Payload(d)] # 0
      BY <1>1, <1>4, <2>2, <2>4, LooseAlone
    <3>2. Payload(d) # p
      BY <1>2, <1>7, <2>2, <2>4, PayloadApart DEF Blocks
    <3>3. QED
      BY <1>10, <3>1, <3>2
  <2>5. QED
    BY <2>3, <2>4
<1>12. CASE loc[t].op = "malloc" /\ Leave(t)
  BY <1>4, <1>9, <1>10, <1>11, <1>12, LooseLeave
<1>13. CASE /\ loc[t].op = "move" /\ malloc_lock' = 0 /\ Goto(t, "copy")
            /\ loc' = [loc EXCEPT ![t].new = p]
  <2>1. PICK e : e = [loc[t] EXCEPT !.new = p]
    OBVIOUS
  <2>2. /\ e \in Local
        /\ e.op = loc[t].op /\ e.ptr = loc[t].ptr
        /\ e.size = loc[t].size /\ e.want = loc[t].want
    BY <1>7, <2>1, LooseSelf DEF Local
  <2>3. loc' = [loc EXCEPT ![t] = e] /\ pc' = [pc EXCEPT ![t] = "copy"]
    BY <1>13, <2>1, LooseSelf DEF Goto
  <2>4. loc'[t] = e /\ pc'[t] = "copy"
    BY <2>3, LooseSelf
  <2>5. Asking(t)'
    BY <1>13, <2>2, <2>4, LooseSelf DEF Asking, TooLarge
  <2>6. Finds(t)'
    BY <1>13, <2>2, <2>4, LooseSelf DEF Finds
  <2>7. Sound(hdr', heap_base')
    BY <1>4, <1>9
  <2>8. QED
    BY <1>4, <1>10, <1>11, <1>13, <2>2, <2>3, <2>5, <2>6, <2>7, LooseStep
<1>14. QED
  BY <1>1, <1>2, <1>12, <1>13 DEF MallocSplit

LEMMA LooseFreeMark ==
  ASSUME LooseInv, NEW t \in Threads, FreeMark(t)
  PROVE  LooseInv'
<1>1. PICK b : b = loc[t].block
  OBVIOUS
<1>2. PICK p : p = loc[t].ptr
  OBVIOUS
<1>3. /\ pc[t] = "mark" /\ hdr[b].magic = USED
      /\ hdr' = [hdr EXCEPT ![b].magic = FREE]
      /\ need' = [need EXCEPT ![p] = 0]
      /\ pc' = [pc EXCEPT ![t] = "coalesce"]
      /\ heap_base' = heap_base /\ malloc_lock' = malloc_lock /\ loc' = loc
  BY <1>1, <1>2 DEF FreeMark, Goto
<1>4. /\ b = get_block_ptr(p) /\ b \in Blocks(hdr) /\ p \in Addr
      /\ Payload(b) = p /\ b \in Addr
  BY <1>1, <1>2, <1>3, UsedIsLive DEF Blocks
<1>5. Sound(hdr', heap_base) /\ Marked(hdr, b, FREE, hdr')
  <2>1. FREE \in {FREE, USED}
    OBVIOUS
  <2>2. QED
    BY <1>3, <1>4, <2>1, LooseSelf, MarkSound
<1>6. /\ Blocks(hdr') = Blocks(hdr)
      /\ \A a \in Addr : /\ hdr'[a].size = hdr[a].size
                         /\ hdr'[a].magic = IF a = b THEN FREE ELSE hdr[a].magic
  BY <1>5 DEF Marked
<1>7. need' \in [Addr -> Nat] /\ need'[p] = 0
      /\ \A q \in Addr : q # p => need'[q] = need[q]
  BY <1>3, <1>4, LooseSelf
<1>8. PromisesKept'
  <2>1. SUFFICES ASSUME NEW q \in Addr, need'[q] # 0
                 PROVE  /\ get_block_ptr(q) \in Blocks(hdr')
                        /\ hdr'[get_block_ptr(q)].magic = USED
                        /\ hdr'[get_block_ptr(q)].size >= need'[q]
    BY DEF PromisesKept
  <2>2. q # p /\ need'[q] = need[q]
    BY <2>1, <1>7
  <2>3. get_block_ptr(q) # b
    BY <2>1, <2>2, <1>4, LooseLive
  <2>4. QED
    BY <2>1, <2>2, <2>3, <1>6, LooseLive DEF Blocks
<1>9. pc'[t] = "coalesce"
  BY <1>3, LooseSelf
<1>10. Asking(t)'
  BY <1>3, LooseSelf DEF Asking, TooLarge
<1>11. Finds(t)'
  <2>1. b \in Blocks(hdr') /\ hdr'[b].magic = FREE
    BY <1>4, <1>6
  <2>2. QED
    BY <1>1, <1>3, <1>9, <2>1, LooseSelf DEF Finds
<1>12. \A d \in Blocks(hdr') : hdr'[d].magic = USED =>
         Payload(d) \in Addr /\ need'[Payload(d)] # 0
  <2>1. SUFFICES ASSUME NEW d \in Blocks(hdr'), hdr'[d].magic = USED
                 PROVE  Payload(d) \in Addr /\ need'[Payload(d)] # 0
    OBVIOUS
  <2>2. d \in Blocks(hdr) /\ d \in Addr /\ d # b /\ hdr[d].magic = USED
    BY <1>6, <2>1 DEF Blocks
  <2>3. Payload(d) \in Addr /\ need[Payload(d)] # 0
    BY <1>3, <2>2, LooseAlone
  <2>4. Payload(d) # p
    BY <1>4, <2>2, PayloadApart
  <2>5. QED
    BY <1>7, <2>3, <2>4
<1>13. malloc_lock' = 1
  BY <1>3 DEF LooseInv, MutualExclusion
<1>14. loc' = [loc EXCEPT ![t] = loc[t]] /\ loc[t] \in Local
  BY <1>3, LooseSelf
<1>15. QED
  <2>1. PICK pl : pl = "coalesce"
    OBVIOUS
  <2>2. /\ pc[t] \in Critical /\ pl \in Places /\ pl \in Critical
        /\ pc' = [pc EXCEPT ![t] = pl] /\ Sound(hdr', heap_base')
    BY <1>3, <1>5, <2>1
  <2>3. \A d \in Blocks(hdr') : hdr'[d].magic = USED =>
          \/ pl = "split" /\ loc[t].block = d
          \/ Payload(d) \in Addr /\ need'[Payload(d)] # 0
    BY <1>12
  <2>4. QED
    BY <1>7, <1>8, <1>10, <1>11, <1>13, <1>14, <2>2, <2>3, LooseStep

LEMMA LooseFreeCoalesce ==
  ASSUME LooseInv, NEW t \in Threads, FreeCoalesce(t)
  PROVE  LooseInv'
<1>1. PICK b : b = loc[t].block
  OBVIOUS
<1>2. /\ pc[t] = "coalesce" /\ hdr' = coalesce(hdr, b) /\ Leave(t)
      /\ heap_base' = heap_base /\ need' = need
  BY <1>1 DEF FreeCoalesce
<1>3. b \in Blocks(hdr) /\ hdr[b].magic = FREE
  BY <1>1, <1>2, LooseSelf DEF Finds
<1>4. Sound(hdr', heap_base) /\ KeepsUsed(hdr, hdr', b)
  BY <1>2, <1>3, LooseSelf, CoalesceSound
<1>5. Rearranged(hdr, hdr', heap_base)
  BY <1>2, <1>3, LooseSelf, CoalesceRearranges
<1>6. PromisesKept' /\ need' \in [Addr -> Nat]
  <2>1. ASSUME NEW q \in Addr, need'[q] # 0
        PROVE  /\ get_block_ptr(q) \in Blocks(hdr')
               /\ hdr'[get_block_ptr(q)].magic = USED
               /\ hdr'[get_block_ptr(q)].size >= need'[q]
    BY <1>2, <1>3, <1>4, <2>1, LooseLive DEF KeepsUsed
  <2>2. QED
    BY <1>2, <2>1, LooseSelf DEF PromisesKept
<1>7. \A d \in Blocks(hdr') : hdr'[d].magic = USED =>
        Payload(d) \in Addr /\ need'[Payload(d)] # 0
  <2>1. SUFFICES ASSUME NEW d \in Blocks(hdr'), hdr'[d].magic = USED
                 PROVE  Payload(d) \in Addr /\ need'[Payload(d)] # 0
    OBVIOUS
  <2>2. d \in Blocks(hdr) /\ hdr[d].magic = USED
    BY <1>5, <2>1 DEF Rearranged
  <2>3. QED
    BY <1>2, <2>2, LooseAlone
<1>8. QED
  BY <1>2, <1>4, <1>6, <1>7, LooseLeave

LEMMA LooseReallocInPlace ==
  ASSUME LooseInv, NEW t \in Threads, ReallocInPlace(t)
  PROVE  LooseInv'
<1>1. PICK b : b = loc[t].block
  OBVIOUS
<1>2. PICK p : p = loc[t].ptr
  OBVIOUS
<1>3. PICK n : n = Align(loc[t].size)
  OBVIOUS
<1>4. PICK h : h = IF Roomy(hdr, t) THEN hdr ELSE Extended(hdr, b)
  OBVIOUS
<1>5. /\ pc[t] = "resize" /\ hdr[b].magic = USED /\ h[b].size >= n
      /\ hdr' = split_block(h, b, n)
      /\ need' = [need EXCEPT ![p] = loc[t].want]
      /\ Leave(t) /\ heap_base' = heap_base
  BY <1>1, <1>2, <1>3, <1>4 DEF ReallocInPlace, Roomy
<1>6. /\ b \in Blocks(hdr) /\ p \in Addr /\ Payload(b) = p /\ b \in Addr
  BY <1>1, <1>2, <1>5, UsedIsLive DEF Blocks
<1>7. /\ n \in Nat /\ loc[t].want <= n /\ loc[t].want \in Nat
      /\ 0 < loc[t].want
  <2>1. 0 < loc[t].size /\ ~TooLarge(loc[t].size) /\ loc[t].size \in Nat
        /\ loc[t].want = loc[t].size
    BY <1>5, LooseSelf DEF Asking, Finds
  <2>2. QED
    BY <1>3, <2>1, AlignFits
<1>8. /\ Sound(h, heap_base) /\ b \in Blocks(h) /\ h[b].magic = USED
      /\ KeepsUsed(hdr, h, b) /\ Rearranged(hdr, h, heap_base)
  <2>1. CASE h = hdr
    <3>1. KeepsUsed(hdr, hdr, b)
      BY DEF KeepsUsed
    <3>2. QED
      BY <2>1, <3>1, <1>5, <1>6, LooseSelf, RearrangedSame
  <2>2. CASE h = MergeNext(hdr, b)
    BY <2>2, <1>5, <1>6, LooseSelf, MergeNextSound, MergeNextRearranges
  <2>3. QED
    BY <1>4, <2>1, <2>2 DEF Extended
<1>9. /\ Sound(hdr', heap_base)
      /\ Blocks(h) \subseteq Blocks(hdr')
      /\ hdr'[b].size >= n
      /\ \A a \in Blocks(h) : /\ hdr'[a].magic = h[a].magic
                              /\ a # b => hdr'[a].size = h[a].size
  BY <1>5, <1>7, <1>8, SplitSound
<1>10. Rearranged(hdr, hdr', heap_base)
  <2>1. Rearranged(h, split_block(h, b, n), heap_base)
    BY <1>5, <1>7, <1>8, SplitRearranges
  <2>2. QED
    BY <1>5, <1>8, <2>1, RearrangedTwice
<1>11. /\ PromisesKept' /\ need' \in [Addr -> Nat]
       /\ need'[p] = loc[t].want
       /\ \A q \in Addr : q # p => need'[q] = need[q]
  <2>1. b \in Blocks(hdr') /\ hdr'[b].magic = USED
    BY <1>8, <1>9
  <2>2. KeepsUsed(hdr, hdr', b)
    BY <1>8, <1>9 DEF KeepsUsed
  <2>3. PICK w : w = loc[t].want
    OBVIOUS
  <2>4. /\ need' = [need EXCEPT ![Payload(b)] = w] /\ w \in Nat /\ w <= n
        /\ Payload(b) \in Addr /\ Sound(hdr', heap_base')
    BY <1>5, <1>6, <1>7, <1>9, <2>3
  <2>5. QED
    BY <1>6, <1>7, <1>9, <2>1, <2>2, <2>3, <2>4, PromiseAt
<1>12. \A d \in Blocks(hdr') : hdr'[d].magic = USED =>
         Payload(d) \in Addr /\ need'[Payload(d)] # 0
  <2>1. SUFFICES ASSUME NEW d \in Blocks(hdr'), hdr'[d].magic = USED
                 PROVE  Payload(d) \in Addr /\ need'[Payload(d)] # 0
    OBVIOUS
  <2>2. d \in Blocks(hdr) /\ hdr[d].magic = USED
    BY <1>10, <2>1 DEF Rearranged
  <2>3. Payload(d) \in Addr /\ need[Payload(d)] # 0
    BY <1>5, <2>2, LooseAlone
  <2>4. QED
    BY <1>7, <1>11, <2>3
<1>13. Sound(hdr', heap_base')
  BY <1>5, <1>9
<1>14. QED
  BY <1>5, <1>11, <1>12, <1>13, LooseLeave

LEMMA LooseReallocMove ==
  ASSUME LooseInv, NEW t \in Threads, ReallocMove(t) \/ ReallocCopy(t)
  PROVE  LooseInv'
<1>1. \E op \in {"move", "drop"} :
        /\ \/ pc[t] = "resize" /\ op = "move" /\ malloc_lock' = 0
           \/ pc[t] = "copy" /\ op = "drop" /\ malloc_lock' = malloc_lock
        /\ loc' = [loc EXCEPT ![t].op = op]
        /\ pc' = [pc EXCEPT ![t] = "lock"]
        /\ UNCHANGED <<heap_base, hdr, need>>
  BY DEF ReallocMove, ReallocCopy, Goto
<1>2. PICK op \in {"move", "drop"} :
        /\ \/ pc[t] = "resize" /\ op = "move" /\ malloc_lock' = 0
           \/ pc[t] = "copy" /\ op = "drop" /\ malloc_lock' = malloc_lock
        /\ loc' = [loc EXCEPT ![t].op = op]
        /\ pc' = [pc EXCEPT ![t] = "lock"]
        /\ UNCHANGED <<heap_base, hdr, need>>
  BY <1>1
<1>3. PICK e : e = [loc[t] EXCEPT !.op = op]
  OBVIOUS
<1>4. /\ e \in Local
      /\ e.op = op /\ e.ptr = loc[t].ptr
      /\ e.size = loc[t].size /\ e.want = loc[t].want
  BY <1>3, LooseSelf DEF Local, Ops
<1>5. loc' = [loc EXCEPT ![t] = e]
  BY <1>2, <1>3, LooseSelf
<1>6. loc'[t] = e /\ pc'[t] = "lock"
  BY <1>2, <1>5, LooseSelf
<1>7. IF op = "move" THEN loc[t].op = "realloc" ELSE loc[t].op = "move"
  BY <1>2, LooseSelf DEF Finds
<1>8. Asking(t)'
  BY <1>4, <1>6, <1>7, LooseSelf DEF Asking, TooLarge
<1>9. Finds(t)'
  BY <1>4, <1>6, <1>7, LooseSelf DEF Finds
<1>10. Sound(hdr', heap_base') /\ need' \in [Addr -> Nat] /\ PromisesKept'
  BY <1>2, LooseSame
<1>11. pc[t] \in Critical =>
         \A d \in Blocks(hdr') : hdr'[d].magic = USED =>
           Payload(d) \in Addr /\ need'[Payload(d)] # 0
  BY <1>2, LooseAlone
<1>12. malloc_lock' = IF pc[t] \in Critical THEN 0 ELSE malloc_lock
  BY <1>2
<1>13. UNCHANGED <<hdr, heap_base, need>>
  BY <1>2
<1>14. QED
  <2>1. PICK pl : pl = "lock"
    OBVIOUS
  <2>2. pc' = [pc EXCEPT ![t] = pl] /\ pl \in Places /\ pl \notin Critical
    BY <1>2, <2>1
  <2>3. pc[t] \in Critical =>
          \A d \in Blocks(hdr') : hdr'[d].magic = USED =>
            \/ pl = "split" /\ e.block = d
            \/ Payload(d) \in Addr /\ need'[Payload(d)] # 0
    BY <1>11
  <2>4. QED
    BY <1>4, <1>5, <1>8, <1>9, <1>10, <1>12, <1>13, <2>2, <2>3, LooseStep

\* free and realloc turn a block away that is not in use; request_space
\* finds no memory.
LEMMA LooseRefuse ==
  ASSUME LooseInv, NEW t \in Threads,
         FreeIgnore(t) \/ ReallocRefuse(t) \/ GrowFails(t)
  PROVE  LooseInv'
<1>1. pc[t] \in {"mark", "resize", "scan"} /\ Leave(t)
      /\ UNCHANGED <<heap_base, hdr, need>>
  BY DEF FreeIgnore, ReallocRefuse, GrowFails
<1>2. QED
  BY <1>1, LooseQuit

-----------------------------------------------------------------------------
(* The theorems.                                                           *)

\* The pointers a program passes, its own and the stale ones, have room
\* for a header before them.
LEMMA PassedPointers ==
  ASSUME StaleInv, NEW p \in Owned \cup Foreign
  PROVE  p \in Addr /\ get_block_ptr(p) \in Addr
<1>1. ASSUME NEW q \in Owned
      PROVE  /\ q \in Addr /\ get_block_ptr(q) \in Addr
             /\ get_block_ptr(q) + BLOCK_META_SIZE = q
  <2>1. q \in Addr /\ need[q] # 0
    BY DEF Owned
  <2>2. get_block_ptr(q) \in Blocks(hdr) /\ Payload(get_block_ptr(q)) = q
    BY <2>1, LooseLive DEF StaleInv
  <2>3. QED
    BY <2>1, <2>2 DEF Blocks, Payload
<1>2. CASE p \in freed
  BY <1>2 DEF StaleInv, FreedOK
<1>3. CASE p \in Addr /\ p - 1 \in Owned
  <2>1. PICK q \in Owned : q = p - 1
    BY <1>3
  <2>2. p \in Nat /\ q \in Nat /\ p <= MemTop /\ get_block_ptr(q) \in Nat
        /\ get_block_ptr(q) + BLOCK_META_SIZE = q
    BY <1>1, <1>3, Naturals
  <2>3. get_block_ptr(p) = get_block_ptr(q) + 1
    BY <2>1, <2>2, Naturals DEF get_block_ptr
  <2>4. get_block_ptr(p) \in Nat /\ get_block_ptr(p) <= MemTop
    BY <2>1, <2>2, <2>3, Naturals
  <2>5. QED
    BY <1>3, <2>4, Naturals DEF Addr
<1>4. QED
  BY <1>1, <1>2, <1>3 DEF Foreign

LEMMA StaleStepLoose ==
  ASSUME StaleInv, NEW t \in Threads,
         Step(t) \/ StaleCall(t) \/ FreeIgnore(t) \/ ReallocRefuse(t)
  PROVE  LooseInv'
<1>1. LooseInv
  BY DEF StaleInv
<1>2. ASSUME NEW n \in Sizes, Malloc(t, n) PROVE LooseInv'
  BY <1>1, <1>2, HeapAssumption, LooseMalloc
<1>3. ASSUME NEW m \in Counts, NEW n \in Sizes, Calloc(t, m, n)
      PROVE  LooseInv'
  <2>1. m \in Nat /\ n \in Nat
    BY HeapAssumption
  <2>2. QED
    BY <1>1, <1>3, <2>1, LooseCalloc
<1>4. CASE FreeNull(t)
  BY <1>1, <1>4, LooseReturn DEF FreeNull
<1>5. ASSUME NEW p \in Owned \cup Foreign, Free(t, p) PROVE LooseInv'
  BY <1>1, <1>5, PassedPointers, LooseFree
<1>6. ASSUME NEW p \in Owned \cup Foreign, NEW n \in Sizes, Realloc(t, p, n)
      PROVE  LooseInv'
  BY <1>1, <1>6, HeapAssumption, PassedPointers, LooseRealloc
<1>7. CASE Call(t)
  BY <1>2, <1>3, <1>4, <1>5, <1>6, <1>7 DEF Call
<1>8. CASE StaleCall(t)
  BY <1>5, <1>6, <1>8 DEF StaleCall
<1>9. CASE Lock(t)
  BY <1>1, <1>9, LooseLock
<1>10. CASE ScanNext(t)
  BY <1>1, <1>10, LooseScanNext
<1>11. CASE ScanTake(t)
  BY <1>1, <1>11, LooseScanTake
<1>12. CASE Grow(t)
  BY <1>1, <1>12, LooseGrow
<1>13. CASE MallocSplit(t)
  BY <1>1, <1>13, LooseMallocSplit
<1>14. CASE FreeMark(t)
  BY <1>1, <1>14, LooseFreeMark
<1>15. CASE FreeCoalesce(t)
  BY <1>1, <1>15, LooseFreeCoalesce
<1>16. CASE ReallocInPlace(t)
  BY <1>1, <1>16, LooseReallocInPlace
<1>17. CASE ReallocMove(t) \/ ReallocCopy(t)
  BY <1>1, <1>17, LooseReallocMove
<1>18. CASE FreeIgnore(t) \/ ReallocRefuse(t) \/ GrowFails(t)
  BY <1>1, <1>18, LooseRefuse
<1>19. QED
  BY <1>7, <1>8, <1>9, <1>10, <1>11, <1>12, <1>13, <1>14, <1>15, <1>16,
     <1>17, <1>18 DEF Step, Inside

LEMMA StaleStep == StaleInv /\ [StaleNext]_allvars => StaleInv'
<1> SUFFICES ASSUME StaleInv, [StaleNext]_allvars PROVE StaleInv'
  OBVIOUS
<1>1. CASE UNCHANGED allvars
  BY <1>1, LooseStutter DEF allvars, StaleInv, FreedOK
<1>2. CASE StaleNext
  <2>1. LooseInv'
    BY <1>2, StaleStepLoose DEF StaleNext
  <2>2. ASSUME NEW p \in freed' PROVE p \in Addr /\ get_block_ptr(p) \in Addr
    <3>1. p \in freed \/ (p \in Addr /\ need[p] # 0)
      BY <1>2 DEF StaleNext, Track
    <3>2. ASSUME p \in Addr, need[p] # 0 PROVE get_block_ptr(p) \in Addr
      BY <3>2, LooseLive DEF StaleInv, Blocks
    <3>3. QED
      BY <3>1, <3>2 DEF StaleInv, FreedOK
  <2>3. QED
    BY <2>1, <2>2 DEF StaleInv, FreedOK
<1>3. QED
  BY <1>1, <1>2

LEMMA StaleStart == StaleInit => StaleInv
<1> SUFFICES ASSUME StaleInit PROVE StaleInv
  OBVIOUS
<1>1. HeapInv
  BY InitInv DEF StaleInit
<1>2. Blocks(hdr) = {}
  BY DEF StaleInit, Init, Blocks, NoHeader
<1>3. \A t \in Threads : Asking(t) /\ Finds(t)
  BY DEF StaleInit, Init, NoCall, Asking, Finds
<1>4. LooseInv
  BY <1>1, <1>2, <1>3 DEF HeapInv, LooseInv
<1>5. QED
  BY <1>4 DEF StaleInit, StaleInv, FreedOK

\* Whatever stale pointers the program passes to free and realloc, the
\* headers form a sound list, every promise has its block, and every block
\* in use is live or about to be handed over.
THEOREM StaleInvariant == StaleSpec => []StaleInv
BY StaleStart, StaleStep, PTL DEF StaleSpec

\* The lock and the block list survive such a program.
THEOREM StaleHeapIsWellFormed ==
  StaleSpec => [](MutualExclusion /\ HeapWellFormed /\ PromisesKept /\ NoOverlap)
<1>1. StaleInv => MutualExclusion /\ HeapWellFormed /\ PromisesKept /\ NoOverlap
  BY PromisesApart DEF StaleInv, LooseInv, TypeOK, Sound, HeapWellFormed
<1>2. QED
  BY <1>1, StaleInvariant, PTL

\* free and realloc release a block only while its pointer is live: a
\* second free, a realloc of what was freed and a misaligned pointer are
\* ignored, wherever splits and merges have moved the headers since, and
\* however many threads are at it.
THEOREM OnlyLiveIsReleased == StaleSpec => OnlyLiveReleased
<1>1. StaleInv =>
        [\A t \in Threads :
           FreeMark(t) \/ ReallocInPlace(t) \/ ReallocMove(t)
             => need[loc[t].ptr] # 0]_allvars
  <2>1. SUFFICES ASSUME StaleInv, NEW t \in Threads,
                        FreeMark(t) \/ ReallocInPlace(t) \/ ReallocMove(t)
                 PROVE  need[loc[t].ptr] # 0
    OBVIOUS
  <2>2. pc[t] \in {"mark", "resize"} /\ hdr[loc[t].block].magic = USED
    BY <2>1 DEF FreeMark, ReallocInPlace, ReallocMove
  <2>3. QED
    BY <2>1, <2>2, UsedIsLive DEF StaleInv
<1>2. QED
  BY <1>1, StaleInvariant, PTL DEF OnlyLiveReleased

\* A step changes what the program owns at one address at most.
LEMMA StaleOneAddress ==
  ASSUME StaleInv, NEW t \in Threads,
         Step(t) \/ StaleCall(t) \/ FreeIgnore(t) \/ ReallocRefuse(t)
  PROVE  OneChange
<1> USE DEF OneChange
<1>1. LooseInv
  BY DEF StaleInv
<1>2. CASE Call(t) \/ StaleCall(t) \/ Lock(t) \/ ReallocCopy(t)
  BY <1>2 DEF Call, StaleCall, Lock, ReallocCopy, Malloc, Calloc, Free,
              FreeNull, Realloc, Return, Begin, vars
<1>3. CASE ScanNext(t) \/ ScanTake(t) \/ Grow(t) \/ GrowFails(t)
           \/ FreeCoalesce(t) \/ ReallocMove(t)
           \/ FreeIgnore(t) \/ ReallocRefuse(t)
  BY <1>3 DEF ScanNext, ScanTake, Grow, GrowFails, FreeCoalesce, ReallocMove,
              FreeIgnore, ReallocRefuse
<1>4. CASE MallocSplit(t)
  <2>1. PICK b : b = loc[t].block
    OBVIOUS
  <2>2. PICK n : n = Align(loc[t].size)
    OBVIOUS
  <2>3. pc[t] = "split" /\ need' = [need EXCEPT ![Payload(b)] = loc[t].want]
    BY <1>4, <2>1 DEF MallocSplit
  <2>4. /\ loc[t].op \in {"malloc", "move"} /\ b \in Blocks(hdr)
        /\ hdr[b].size >= n
    BY <1>1, <2>1, <2>2, <2>3, LooseSelf DEF Finds
  <2>5. n \in Nat /\ 0 < n /\ loc[t].want \in Nat \ {0}
    <3>1. 0 < loc[t].size /\ ~TooLarge(loc[t].size) /\ loc[t].size \in Nat
          /\ loc[t].want = loc[t].size
      BY <1>1, <2>4, LooseSelf DEF Asking
    <3>2. QED
      BY <2>2, <3>1, AlignFits
  <2>6. b \in Nat /\ End(hdr, b) <= MemTop + 1 /\ hdr[b].size \in Nat
    BY <1>1, <2>4, LooseSelf, BlocksType, Naturals
  <2>7. Payload(b) \in Addr
    BY <2>4, <2>5, <2>6, Naturals DEF End, Payload, Addr
  <2>8. QED
    BY <2>3, <2>5, <2>7
<1>5. CASE FreeMark(t)
  <2>1. need[loc[t].ptr] # 0 /\ loc[t].ptr \in Addr
    BY <1>1, <1>5, UsedIsLive DEF FreeMark
  <2>2. need' = [need EXCEPT ![loc[t].ptr] = 0]
    BY <1>5 DEF FreeMark
  <2>3. QED
    BY <2>1, <2>2
<1>6. CASE ReallocInPlace(t)
  <2>1. loc[t].op = "realloc" /\ loc[t].ptr \in Addr
    BY <1>1, <1>6, LooseSelf DEF ReallocInPlace, Finds
  <2>2. loc[t].want \in Nat \ {0}
    BY <1>1, <2>1, LooseSelf DEF Asking
  <2>3. need' = [need EXCEPT ![loc[t].ptr] = loc[t].want]
    BY <1>6 DEF ReallocInPlace
  <2>4. QED
    BY <2>1, <2>2, <2>3
<1>7. QED
  BY <1>2, <1>3, <1>4, <1>5, <1>6 DEF Step, Inside

\* Under such a program, too, what the allocator hands out, resizes and
\* takes back is what the abstract allocator allows.
THEOREM StaleImplementsAllocator == StaleSpec => ImplementsAllocator
<1>1. StaleInit => Abstract!Init
  BY DEF StaleInit, Init, Abstract!Init, Abstract!Addr, Addr
<1>2. StaleInv /\ [StaleNext]_allvars /\ NoOverlap' /\ InMemory'
      => [Abstract!Next]_need
  <2>1. SUFFICES ASSUME StaleInv, [StaleNext]_allvars, NoOverlap', InMemory'
                 PROVE  [Abstract!Next]_need
    OBVIOUS
  <2>2. need \in [Addr -> Nat]
    BY <2>1 DEF StaleInv, LooseInv, TypeOK
  <2>3. CASE UNCHANGED allvars
    BY <2>3 DEF allvars, vars
  <2>4. CASE StaleNext
    BY <2>1, <2>2, <2>4, StaleOneAddress, AllowedStep DEF StaleNext
  <2>5. QED
    BY <2>1, <2>3, <2>4
<1>3. StaleInv => NoOverlap /\ InMemory
  BY PromisesApart DEF StaleInv, LooseInv, TypeOK
<1>4. QED
  BY <1>1, <1>2, <1>3, StaleInvariant, PTL
     DEF StaleSpec, ImplementsAllocator, Abstract!Spec
=============================================================================
