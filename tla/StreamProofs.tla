----------------------------- MODULE StreamProofs -----------------------------
(***************************************************************************)
(* Proofs about one stdio stream, module Stream: for every size of buffer, *)
(* every mode, every failure of a system call, and a program that keeps    *)
(* the rules of C89 and is Careful.                                        *)
(***************************************************************************)
EXTENDS Stream, SequenceTheorems, TLAPS

-----------------------------------------------------------------------------
(* Sequences of bytes.                                                     *)

LEMMA FunctionIsSeq ==
  ASSUME NEW S, NEW n \in Nat, NEW s \in [1 .. n -> S]
  PROVE  s \in Seq(S) /\ Len(s) = n
OBVIOUS

LEMMA BytesAreInts ==
  ASSUME NEW s \in Seq(Byte)
  PROVE  s \in Seq(Int)
<1>1. PICK n \in Nat : n = Len(s)
  BY LenProperties
<1>2. s \in [1 .. n -> Byte]
  BY <1>1, LenProperties
<1>3. s \in [1 .. n -> Int]
  <2>1. \A b \in Byte : b \in Int
    BY StreamAssumption
  <2>2. \A i \in 1 .. n : s[i] \in Int
    BY <1>2, <2>1
  <2>3. QED
    BY <1>2, <2>2
<1>4. QED
  BY <1>3, FunctionIsSeq

LEMMA PartIsSeq ==
  ASSUME NEW S, NEW s \in Seq(S), NEW m \in Nat, NEW n \in Nat, 0 < m, n <= Len(s)
  PROVE  /\ SubSeq(s, m, n) \in Seq(S)
         /\ Len(SubSeq(s, m, n)) = IF m <= n THEN n - m + 1 ELSE 0
<1>1. \A i \in m .. n : s[i] \in S
  <2>1. SUFFICES ASSUME NEW i \in m .. n PROVE s[i] \in S
    OBVIOUS
  <2>2. i \in 1 .. Len(s)
    BY LenProperties
  <2>3. QED
    BY <2>2, ElementOfSeq
<1>2. QED
  BY <1>1, SubSeqProperties

\* What is written at a place that is not beyond the end extends the file
\* to at least the end of what is written.
LEMMA OverlayIsSeq ==
  ASSUME NEW S, NEW d \in Seq(S), NEW bs \in Seq(S), NEW at \in Nat,
         at <= Len(d)
  PROVE  /\ Overlay(d, at, bs) \in Seq(S)
         /\ Len(Overlay(d, at, bs)) =
              IF at + Len(bs) <= Len(d) THEN Len(d) ELSE at + Len(bs)
<1>1. PICK n \in Nat, k \in Nat : n = Len(d) /\ k = Len(bs)
  BY LenProperties
<1>2. PICK a : a = SubSeq(d, 1, at)
  OBVIOUS
<1>3. a \in Seq(S) /\ Len(a) = at
  BY <1>1, <1>2, PartIsSeq
<1>4. PICK c : c = SubSeq(d, at + k + 1, n)
  OBVIOUS
<1>5. c \in Seq(S) /\ Len(c) = IF at + k < n THEN n - (at + k) ELSE 0
  <2>1. PICK m \in Nat : m = at + k + 1
    BY <1>1
  <2>2. c \in Seq(S) /\ Len(c) = IF m <= n THEN n - m + 1 ELSE 0
    BY <1>1, <1>4, <2>1, PartIsSeq
  <2>3. QED
    BY <1>1, <2>1, <2>2
<1>6. a \o bs \in Seq(S) /\ Len(a \o bs) = at + k
  BY <1>1, <1>3, ConcatProperties
<1>7. (a \o bs) \o c \in Seq(S) /\ Len((a \o bs) \o c) = at + k + Len(c)
  BY <1>5, <1>6, ConcatProperties
<1>8. Overlay(d, at, bs) = (a \o bs) \o c
  BY <1>1, <1>2, <1>4 DEF Overlay
<1>9. PICK m \in Nat : m = Len(c)
  BY <1>5, LenProperties
<1>10. m = IF at + k < n THEN n - (at + k) ELSE 0
  BY <1>5, <1>9
<1>11. Len(Overlay(d, at, bs)) = at + k + m
  BY <1>7, <1>8, <1>9
<1>12. at + k + m = IF at + k <= n THEN n ELSE at + k
  BY <1>10
<1>13. QED
  BY <1>1, <1>7, <1>8, <1>11, <1>12

-----------------------------------------------------------------------------
(* The FILE, field by field.                                               *)

StreamType ==
  [base : BOOLEAN, buf : [-1 .. BUFSIZ - 1 -> Byte \cup {Junk}], ptr : Int,
   cnt : Int, bsize : 0 .. BUFSIZ, flags : SUBSET Flags]

\* g differs from fl in its flags, its place and its count only.
SameBuffer(fl, g) == g.base = fl.base /\ g.buf = fl.buf /\ g.bsize = fl.bsize

LEMMA OnFields ==
  ASSUME NEW fl \in StreamType, NEW S \in SUBSET Flags
  PROVE  /\ On(fl, S) \in StreamType /\ SameBuffer(fl, On(fl, S))
         /\ On(fl, S).ptr = fl.ptr /\ On(fl, S).cnt = fl.cnt
         /\ On(fl, S).flags = fl.flags \cup S
BY DEF On, StreamType, SameBuffer

LEMMA OffFields ==
  ASSUME NEW fl \in StreamType, NEW S
  PROVE  /\ Off(fl, S) \in StreamType /\ SameBuffer(fl, Off(fl, S))
         /\ Off(fl, S).ptr = fl.ptr /\ Off(fl, S).cnt = fl.cnt
         /\ Off(fl, S).flags = fl.flags \ S
BY DEF Off, StreamType, SameBuffer

\* The place and the count change.
LEMMA MoveFields ==
  ASSUME NEW fl \in StreamType, NEW p \in Int, NEW c \in Int,
         NEW g, g = [fl EXCEPT !.ptr = p, !.cnt = c]
  PROVE  /\ g \in StreamType /\ SameBuffer(fl, g)
         /\ g.ptr = p /\ g.cnt = c /\ g.flags = fl.flags
BY DEF StreamType, SameBuffer

LEMMA MoveBackFields ==
  ASSUME NEW fl \in StreamType, NEW p \in Int, NEW c \in Int,
         NEW g, g = [fl EXCEPT !.cnt = c, !.ptr = p]
  PROVE  /\ g \in StreamType /\ SameBuffer(fl, g)
         /\ g.ptr = p /\ g.cnt = c /\ g.flags = fl.flags
BY DEF StreamType, SameBuffer

LEMMA CountFields ==
  ASSUME NEW fl \in StreamType, NEW c \in Int,
         NEW g, g = [fl EXCEPT !.cnt = c]
  PROVE  /\ g \in StreamType /\ SameBuffer(fl, g)
         /\ g.ptr = fl.ptr /\ g.cnt = c /\ g.flags = fl.flags
BY DEF StreamType, SameBuffer

\* Bytes are put at _ptr.
LEMMA PlaceFields ==
  ASSUME NEW fl \in StreamType, NEW bs \in Seq(Byte)
  PROVE  LET g == Place(fl, bs) IN
         /\ g \in StreamType /\ g.base = fl.base /\ g.bsize = fl.bsize
         /\ g.ptr = fl.ptr + Len(bs) /\ g.cnt = fl.cnt - Len(bs)
         /\ g.flags = fl.flags
         /\ \A i \in -1 .. BUFSIZ - 1 :
              IF i \in fl.ptr .. fl.ptr + Len(bs) - 1
              THEN g.buf[i] \in Byte ELSE g.buf[i] = fl.buf[i]
<1>1. PICK n \in Nat : n = Len(bs)
  BY LenProperties
<1>2. PICK p \in Int, c \in Int : p = fl.ptr /\ c = fl.cnt
  BY DEF StreamType
<1>3. \A i \in p .. p + n - 1 : bs[i - p + 1] \in Byte
  <2>1. SUFFICES ASSUME NEW i \in p .. p + n - 1 PROVE bs[i - p + 1] \in Byte
    OBVIOUS
  <2>2. i - p + 1 \in 1 .. Len(bs)
    BY <1>1, <1>2
  <2>3. QED
    BY <2>2, ElementOfSeq
<1>4. PICK b : b = [i \in DOMAIN fl.buf |->
                      IF i \in p .. p + n - 1 THEN bs[i - p + 1] ELSE fl.buf[i]]
  OBVIOUS
<1>5. b \in [-1 .. BUFSIZ - 1 -> Byte \cup {Junk}]
  BY <1>3, <1>4 DEF StreamType
<1>6. PICK q \in Int, e \in Int : q = p + n /\ e = c - n
  BY p + n \in Int /\ c - n \in Int
<1>7. PICK g : g = [fl EXCEPT !.buf = b, !.ptr = q, !.cnt = e]
  OBVIOUS
<1>8. g = Place(fl, bs)
  BY <1>1, <1>2, <1>4, <1>6, <1>7 DEF Place, StreamType
<1>9. /\ g \in StreamType /\ g.base = fl.base /\ g.bsize = fl.bsize
      /\ g.ptr = p + n /\ g.cnt = c - n /\ g.flags = fl.flags /\ g.buf = b
  <2>1. /\ g \in StreamType /\ g.base = fl.base /\ g.bsize = fl.bsize
        /\ g.ptr = q /\ g.cnt = e /\ g.flags = fl.flags /\ g.buf = b
    BY <1>5, <1>7 DEF StreamType
  <2>2. QED
    BY <1>6, <2>1
<1>10. \A i \in -1 .. BUFSIZ - 1 :
        IF i \in p .. p + n - 1 THEN b[i] \in Byte ELSE b[i] = fl.buf[i]
  BY <1>3, <1>4 DEF StreamType
<1>11. QED
  BY <1>1, <1>2, <1>8, <1>9, <1>10

-----------------------------------------------------------------------------
(* A stream whose buffer is sound.                                         *)

Defined(fl, a, b) == \A i \in a .. b : fl.buf[i] \in Byte

\* The first place a byte may be at.
Lowest(fl) == IF "RESERVE" \in fl.flags THEN -1 ELSE 0

Buffered(fl) ==
  /\ fl \in StreamType
  /\ 0 <= fl.cnt /\ Lowest(fl) <= fl.ptr /\ fl.ptr + fl.cnt <= fl.bsize
  /\ fl.base <=> 0 < fl.bsize
  /\ "RESERVE" \in fl.flags => "FREEBUF" \in fl.flags /\ fl.base
  /\ "DIRTY" \in fl.flags => "WR" \in fl.flags /\ fl.base
  /\ "RD" \in fl.flags => /\ "WR" \notin fl.flags
                          /\ Defined(fl, fl.ptr, fl.ptr + fl.cnt - 1)
  /\ "WR" \in fl.flags => /\ 0 <= fl.ptr /\ fl.ptr + fl.cnt = fl.bsize
                          /\ "DIRTY" \in fl.flags \/ fl.ptr = 0
                          /\ Defined(fl, 0, fl.ptr - 1)
  /\ {"RD", "WR"} \cap fl.flags = {} => fl.ptr = 0 /\ fl.cnt \in {0, fl.bsize}

FileType == [data : Seq(Byte), off : Nat, read : BOOLEAN, write : BOOLEAN,
             append : BOOLEAN]

FileOK(fi) == fi \in FileType /\ fi.off <= Len(fi.data)

SameAccess(fi, gi) ==
  gi.read = fi.read /\ gi.write = fi.write /\ gi.append = fi.append

LEMMA WhereOK ==
  ASSUME NEW fi, FileOK(fi)
  PROVE  Where(fi) \in Nat /\ Where(fi) <= Len(fi.data)
<1>1. Len(fi.data) \in Nat /\ fi.off \in Nat
  BY LenProperties DEF FileOK, FileType
<1>2. QED
  BY <1>1 DEF Where, FileOK

\* A write at the end of the file leaves the position there.
LEMMA StoreOK ==
  ASSUME NEW fi, FileOK(fi), NEW bs \in Seq(Byte)
  PROVE  /\ FileOK(Store(fi, bs)) /\ SameAccess(fi, Store(fi, bs))
         /\ fi.off = Len(fi.data) =>
              Store(fi, bs).off = Len(Store(fi, bs).data)
<1>1. CASE bs = <<>>
  BY <1>1 DEF Store, SameAccess
<1>2. CASE bs # <<>>
  <2>1. PICK w \in Nat, k \in Nat, n \in Nat :
          w = Where(fi) /\ k = Len(bs) /\ n = Len(fi.data)
    BY WhereOK, LenProperties DEF FileOK, FileType
  <2>2. PICK d : d = Overlay(fi.data, w, bs)
    OBVIOUS
  <2>3. d \in Seq(Byte) /\ Len(d) = IF w + k <= n THEN n ELSE w + k
    BY <2>1, <2>2, WhereOK, OverlayIsSeq DEF FileOK, FileType
  <2>4. PICK q \in Nat : q = w + k
    BY <2>1
  <2>5. PICK gi : gi = [fi EXCEPT !.data = d, !.off = q]
    OBVIOUS
  <2>6. gi = Store(fi, bs)
    BY <1>2, <2>1, <2>2, <2>4, <2>5 DEF Store, FileOK, FileType
  <2>7. gi \in FileType /\ gi.data = d /\ gi.off = q /\ SameAccess(fi, gi)
    BY <2>3, <2>5 DEF FileOK, FileType, SameAccess
  <2>8. q <= Len(d)
    BY <2>1, <2>3, <2>4
  <2>9. fi.off = n => q = Len(d)
    BY <2>1, <2>3, <2>4 DEF Where
  <2>10. QED
    BY <2>1, <2>6, <2>7, <2>8, <2>9 DEF FileOK
<1>3. QED
  BY <1>1, <1>2

LEMMA PendingBytes ==
  ASSUME NEW fl, Buffered(fl)
  PROVE  /\ MustFlush(fl) <=> "DIRTY" \in fl.flags
         /\ Pending(fl) \in Seq(Byte)
         /\ "DIRTY" \notin fl.flags => Pending(fl) = <<>>
         /\ Len(Pending(fl)) = IF "DIRTY" \in fl.flags THEN fl.ptr ELSE 0
         /\ "DIRTY" \in fl.flags => fl.ptr \in Nat
<1>1. MustFlush(fl) <=> "DIRTY" \in fl.flags
  BY DEF MustFlush, Buffered
<1>2. CASE "DIRTY" \in fl.flags
  <2>1. PICK p \in Nat : p = fl.ptr
    BY <1>2 DEF Buffered, StreamType
  <2>2. Pending(fl) = [i \in 1 .. p |-> fl.buf[i - 1]]
    BY <1>1, <1>2, <2>1 DEF Pending
  <2>3. \A i \in 1 .. p : fl.buf[i - 1] \in Byte
    BY <1>2, <2>1 DEF Buffered, Defined
  <2>4. Pending(fl) \in [1 .. p -> Byte]
    BY <2>2, <2>3
  <2>5. Pending(fl) \in Seq(Byte) /\ Len(Pending(fl)) = p
    BY <2>4, FunctionIsSeq
  <2>6. QED
    BY <1>1, <1>2, <2>1, <2>5
<1>3. CASE "DIRTY" \notin fl.flags
  BY <1>1, <1>3 DEF Pending
<1>4. QED
  BY <1>2, <1>3

\* What a flush leaves.
Flushed(fl, fi, o) ==
  /\ Buffered(o.f) /\ FileOK(o.file) /\ SameBuffer(fl, o.f)
  /\ SameAccess(fi, o.file)
  /\ fi.off = Len(fi.data) => o.file.off = Len(o.file.data)
  /\ o.ok \in BOOLEAN
  /\ IF o.ok
     THEN /\ o.f.flags = fl.flags \ {"DIRTY"}
          /\ o.file = Store(fi, Pending(fl))
          /\ IF "DIRTY" \in fl.flags THEN o.f.ptr = 0 /\ o.f.cnt = fl.bsize
             ELSE o.f = fl
     ELSE /\ o.f.flags = fl.flags \cup {"ERR"}
          /\ o.f.ptr = fl.ptr /\ o.f.cnt = fl.cnt

LEMMA EmptiedOK ==
  ASSUME NEW fl, Buffered(fl), "DIRTY" \in fl.flags
  PROVE  /\ Buffered(Emptied(fl)) /\ SameBuffer(fl, Emptied(fl))
         /\ Emptied(fl).flags = fl.flags \ {"DIRTY"}
         /\ Emptied(fl).ptr = 0 /\ Emptied(fl).cnt = fl.bsize
<1>1. PICK h : h = Off(fl, {"DIRTY"})
  OBVIOUS
<1>2. h \in StreamType /\ SameBuffer(fl, h) /\ h.flags = fl.flags \ {"DIRTY"}
  BY <1>1, OffFields DEF Buffered
<1>3. PICK z \in Int, n \in Nat : z = 0 /\ n = fl.bsize
  BY StreamAssumption DEF Buffered, StreamType
<1>4. PICK g : g = [h EXCEPT !.ptr = z, !.cnt = n]
  OBVIOUS
<1>5. g = Emptied(fl)
  BY <1>1, <1>3, <1>4 DEF Emptied
<1>6. /\ g \in StreamType /\ SameBuffer(h, g) /\ g.ptr = 0 /\ g.cnt = n
      /\ g.flags = fl.flags \ {"DIRTY"}
  <2>1. n \in Int /\ h \in StreamType
    BY <1>2, <1>3
  <2>2. /\ g \in StreamType /\ SameBuffer(h, g) /\ g.ptr = z /\ g.cnt = n
        /\ g.flags = h.flags
    BY <1>3, <1>4, <2>1 DEF StreamType, SameBuffer
  <2>3. QED
    BY <1>2, <1>3, <2>2
<1>7. "WR" \in fl.flags /\ "RD" \notin fl.flags
  BY DEF Buffered
<1>8. g.base = fl.base /\ g.buf = fl.buf /\ g.bsize = fl.bsize
  BY <1>2, <1>6 DEF SameBuffer
<1>9. Buffered(g)
  BY <1>3, <1>6, <1>7, <1>8 DEF Buffered, Lowest, Defined
<1>10. QED
  BY <1>3, <1>5, <1>6, <1>8, <1>9 DEF SameBuffer

\* A flag that says nothing about the buffer.
LEMMA NotedOK ==
  ASSUME NEW fl, Buffered(fl), NEW S \in SUBSET {"ERR", "EOF", "NBF", "LBF"}
  PROVE  /\ Buffered(On(fl, S)) /\ SameBuffer(fl, On(fl, S))
         /\ On(fl, S).flags = fl.flags \cup S
         /\ On(fl, S).ptr = fl.ptr /\ On(fl, S).cnt = fl.cnt
<1>1. PICK g : g = On(fl, S)
  OBVIOUS
<1>2. /\ g \in StreamType /\ SameBuffer(fl, g) /\ g.flags = fl.flags \cup S
      /\ g.ptr = fl.ptr /\ g.cnt = fl.cnt
  BY <1>1, OnFields DEF Buffered, Flags
<1>3. Buffered(g)
  BY <1>2 DEF Buffered, Lowest, Defined, SameBuffer
<1>4. QED
  BY <1>1, <1>2, <1>3

LEMMA UnnotedOK ==
  ASSUME NEW fl, Buffered(fl), NEW S \in SUBSET {"ERR", "EOF", "NBF", "LBF"}
  PROVE  /\ Buffered(Off(fl, S)) /\ SameBuffer(fl, Off(fl, S))
         /\ Off(fl, S).flags = fl.flags \ S
         /\ Off(fl, S).ptr = fl.ptr /\ Off(fl, S).cnt = fl.cnt
<1>1. PICK g : g = Off(fl, S)
  OBVIOUS
<1>2. /\ g \in StreamType /\ SameBuffer(fl, g) /\ g.flags = fl.flags \ S
      /\ g.ptr = fl.ptr /\ g.cnt = fl.cnt
  BY <1>1, OffFields DEF Buffered
<1>3. Buffered(g)
  BY <1>2 DEF Buffered, Lowest, Defined, SameBuffer
<1>4. QED
  BY <1>1, <1>2, <1>3

LEMMA FlushOK ==
  ASSUME NEW fl, Buffered(fl), NEW fi, FileOK(fi), NEW o \in flush_impl(fl, fi)
  PROVE  Flushed(fl, fi, o)
<1>1. CASE ~MustFlush(fl)
  <2>1. "DIRTY" \notin fl.flags /\ Pending(fl) = <<>>
    BY <1>1, PendingBytes
  <2>2. o.f = fl /\ o.file = fi /\ o.ok = TRUE
    BY <1>1 DEF flush_impl, Outcome
  <2>3. o.file = Store(fi, Pending(fl))
    BY <2>1, <2>2 DEF Store
  <2>4. QED
    BY <2>1, <2>2, <2>3 DEF Flushed, SameBuffer, SameAccess
<1>2. CASE MustFlush(fl)
  <2>1. PICK bs \in Seq(Byte) : bs = Pending(fl)
    BY PendingBytes
  <2>2. PICK k \in Nat : k = Len(bs)
    BY LenProperties
  <2>3. \A n \in LoopCounts(fi, k) : n \in 0 .. k
    BY <2>2 DEF LoopCounts
  <2>4. PICK n \in 0 .. k :
          /\ o.f = IF n = k THEN Emptied(fl) ELSE On(fl, {"ERR"})
          /\ o.file = Store(fi, SubSeq(bs, 1, n))
          /\ o.ok = (n = k)
    BY <1>2, <2>1, <2>2, <2>3 DEF flush_impl, Outcome
  <2>5. PICK part : part = SubSeq(bs, 1, n)
    OBVIOUS
  <2>6. part \in Seq(Byte)
    BY <2>2, <2>5, PartIsSeq
  <2>7. /\ FileOK(o.file) /\ SameAccess(fi, o.file)
        /\ fi.off = Len(fi.data) => o.file.off = Len(o.file.data)
    BY <2>4, <2>5, <2>6, StoreOK
  <2>8. "DIRTY" \in fl.flags
    BY <1>2, PendingBytes
  <2>9. CASE n = k
    <3>1. part = bs
      BY <2>2, <2>5, <2>9, SubSeqFull
    <3>2. o.file = Store(fi, Pending(fl)) /\ o.ok = TRUE /\ o.f = Emptied(fl)
      BY <2>1, <2>4, <2>5, <2>9, <3>1
    <3>3. QED
      BY <2>7, <2>8, <3>2, EmptiedOK DEF Flushed
  <2>10. CASE n # k
    <3>1. o.ok = FALSE /\ o.f = On(fl, {"ERR"})
      BY <2>4, <2>10
    <3>2. PICK S \in SUBSET {"ERR", "EOF", "NBF", "LBF"} : S = {"ERR"}
      OBVIOUS
    <3>3. /\ Buffered(o.f) /\ SameBuffer(fl, o.f)
          /\ o.f.flags = fl.flags \cup {"ERR"}
          /\ o.f.ptr = fl.ptr /\ o.f.cnt = fl.cnt
      BY <3>1, <3>2, NotedOK
    <3>4. QED
      BY <2>7, <3>1, <3>3 DEF Flushed
  <2>11. QED
    BY <2>9, <2>10
<1>3. QED
  BY <1>1, <1>2

LEMMA FlushIfOK ==
  ASSUME NEW fl, Buffered(fl), NEW fi, FileOK(fi), NEW test,
         NEW o \in flush_if(test, fl, fi)
  PROVE  \/ test /\ Flushed(fl, fi, o)
         \/ ~test /\ o.f = fl /\ o.file = fi /\ o.ok = TRUE
BY FlushOK DEF flush_if, Outcome

\* fflush and its like flush a stream that is being written.
LEMMA FlushWriterOK ==
  ASSUME NEW fl, Buffered(fl), NEW fi, FileOK(fi),
         NEW o \in flush_if(Has(fl, "WR"), fl, fi)
  PROVE  Flushed(fl, fi, o)
<1>1. CASE Has(fl, "WR")
  BY <1>1, FlushOK DEF flush_if
<1>2. CASE ~Has(fl, "WR")
  <2>1. "DIRTY" \notin fl.flags /\ Pending(fl) = <<>>
    BY <1>2, PendingBytes DEF Buffered, Has
  <2>2. o.f = fl /\ o.file = fi /\ o.ok = TRUE
    BY <1>2 DEF flush_if, Outcome
  <2>3. o.file = Store(fi, Pending(fl))
    BY <2>1, <2>2 DEF Store
  <2>4. QED
    BY <2>1, <2>2, <2>3 DEF Flushed, SameBuffer, SameAccess
<1>3. QED
  BY <1>1, <1>2

-----------------------------------------------------------------------------
(* Writing.                                                                *)

LEMMA ToWriteOK ==
  ASSUME NEW fl, Buffered(fl)
  PROVE  /\ Buffered(ToWrite(fl)) /\ SameBuffer(fl, ToWrite(fl))
         /\ ToWrite(fl).flags = (fl.flags \ {"RD"}) \cup {"WR"}
<1>1. fl \in StreamType /\ fl.flags \in SUBSET Flags
  BY DEF Buffered, StreamType
<1>2. PICK S \in SUBSET Flags : S = {"WR"}
  BY DEF Flags
<1>7. PICK m \in Nat, z \in Int : m = fl.bsize /\ z = 0
  BY StreamAssumption DEF Buffered, StreamType
<1>3. CASE Has(fl, "RD")
  <2>1. PICK h : h = Off(fl, {"RD"})
    OBVIOUS
  <2>2. /\ h \in StreamType /\ SameBuffer(fl, h)
        /\ h.flags = fl.flags \ {"RD"}
    BY <1>1, <2>1, OffFields
  <2>3. PICK k : k = On(h, S)
    OBVIOUS
  <2>4. k \in StreamType /\ SameBuffer(h, k) /\ k.flags = h.flags \cup {"WR"}
    BY <1>2, <2>2, <2>3, OnFields
  <2>5. PICK g : g = [k EXCEPT !.cnt = m, !.ptr = z]
    OBVIOUS
  <2>6. /\ g \in StreamType /\ SameBuffer(k, g) /\ g.ptr = 0
        /\ g.cnt = fl.bsize /\ g.flags = k.flags
    <3>1. m \in Int
      BY <1>7
    <3>2. /\ g \in StreamType /\ SameBuffer(k, g) /\ g.ptr = z
          /\ g.cnt = m /\ g.flags = k.flags
      BY <1>7, <2>4, <2>5, <3>1 DEF StreamType, SameBuffer
    <3>3. QED
      BY <1>7, <3>2
  <2>7. g = ToWrite(fl)
    BY <1>2, <1>3, <1>7, <2>1, <2>3, <2>5 DEF ToWrite
  <2>8. SameBuffer(fl, g) /\ g.flags = (fl.flags \ {"RD"}) \cup {"WR"}
    BY <2>2, <2>4, <2>6 DEF SameBuffer
  <2>9. "DIRTY" \notin fl.flags
    BY <1>3 DEF Buffered, Has
  <2>10. Buffered(g)
    BY <2>6, <2>8, <2>9 DEF Buffered, SameBuffer, Lowest, Defined, StreamType
  <2>11. QED
    BY <2>7, <2>8, <2>10
<1>4. CASE ~Has(fl, "RD") /\ ~Has(fl, "WR") /\ fl.cnt = 0 /\ fl.ptr = 0
  <2>1. PICK h : h = On(fl, S)
    OBVIOUS
  <2>2. /\ h \in StreamType /\ SameBuffer(fl, h) /\ h.ptr = 0
        /\ h.flags = fl.flags \cup {"WR"}
    BY <1>1, <1>2, <1>4, <2>1, OnFields
  <2>3. PICK g : g = [h EXCEPT !.cnt = m]
    OBVIOUS
  <2>4. /\ g \in StreamType /\ SameBuffer(h, g) /\ g.ptr = 0
        /\ g.cnt = m /\ g.flags = h.flags
    BY <1>7, <2>2, <2>3 DEF StreamType, SameBuffer
  <2>5. g = ToWrite(fl)
    BY <1>2, <1>4, <1>7, <2>1, <2>3 DEF ToWrite
  <2>6. /\ SameBuffer(fl, g) /\ g.flags = fl.flags \cup {"WR"}
        /\ fl.flags = fl.flags \ {"RD"}
    BY <1>4, <2>2, <2>4 DEF SameBuffer, Has
  <2>7. "DIRTY" \notin fl.flags /\ "RD" \notin fl.flags
    BY <1>4 DEF Buffered, Has
  <2>8. Buffered(g)
    <3>1. /\ g.base = fl.base /\ g.buf = fl.buf /\ g.bsize = m
          /\ "RD" \notin g.flags /\ "WR" \in g.flags
          /\ "DIRTY" \notin g.flags
          /\ "RESERVE" \in g.flags => "FREEBUF" \in g.flags /\ g.base
          /\ Lowest(g) <= 0 /\ (g.base <=> 0 < m)
      BY <1>7, <2>6, <2>7 DEF SameBuffer, Buffered, Lowest
    <3>2. Defined(g, 0, g.ptr - 1)
      BY <2>4 DEF Defined
    <3>3. QED
      BY <1>7, <2>4, <3>1, <3>2 DEF Buffered
  <2>9. QED
    BY <2>5, <2>6, <2>8
<1>5. CASE /\ ~Has(fl, "RD")
           /\ ~(~Has(fl, "WR") /\ fl.cnt = 0 /\ fl.ptr = 0)
  <2>1. PICK g : g = On(fl, S)
    OBVIOUS
  <2>2. /\ g \in StreamType /\ SameBuffer(fl, g) /\ g.ptr = fl.ptr
        /\ g.cnt = fl.cnt /\ g.flags = fl.flags \cup {"WR"}
    BY <1>1, <1>2, <2>1, OnFields
  <2>3. g = ToWrite(fl)
    BY <1>2, <1>5, <2>1 DEF ToWrite
  <2>4. "RD" \notin fl.flags /\ fl.flags = fl.flags \ {"RD"}
    BY <1>5 DEF Has
  <2>5. /\ 0 <= fl.ptr /\ fl.ptr + fl.cnt = fl.bsize
        /\ "DIRTY" \in fl.flags \/ fl.ptr = 0
        /\ Defined(fl, 0, fl.ptr - 1)
    <3>1. CASE "WR" \in fl.flags
      BY <3>1 DEF Buffered
    <3>2. CASE "WR" \notin fl.flags
      BY <1>5, <3>2 DEF Buffered, Has, Defined, StreamType
    <3>3. QED
      BY <3>1, <3>2
  <2>6. Buffered(g)
    BY <2>2, <2>4, <2>5 DEF Buffered, SameBuffer, Lowest, Defined
  <2>7. QED
    BY <2>2, <2>3, <2>4, <2>6
<1>6. QED
  BY <1>3, <1>4, <1>5

LEMMA PutCounts ==
  ASSUME NEW n \in Nat, NEW p \in Int, NEW c \in Int, NEW m \in Nat,
         NEW l \in Int, NEW q \in Int, NEW e \in Int,
         0 <= p, p + c = m, n <= c, l <= 0, q = p + n, e = c - n
  PROVE  0 <= e /\ l <= q /\ q + e <= m /\ 0 <= q /\ q + e = m
OBVIOUS

\* Bytes are put where there is room for them.
LEMMA PlaceOK ==
  ASSUME NEW fl, Buffered(fl), "WR" \in fl.flags, fl.base,
         NEW bs \in Seq(Byte), Len(bs) <= fl.cnt,
         NEW g \in StreamType, g.base = fl.base, g.bsize = fl.bsize,
         g.buf = Place(fl, bs).buf, g.ptr = Place(fl, bs).ptr,
         g.cnt = Place(fl, bs).cnt, g.flags = fl.flags \cup {"DIRTY"}
  PROVE  Buffered(g) /\ g.ptr = fl.ptr + Len(bs) /\ g.cnt = fl.cnt - Len(bs)
<1>1. PICK n \in Nat, p \in Int, c \in Int :
        n = Len(bs) /\ p = fl.ptr /\ c = fl.cnt
  BY LenProperties DEF Buffered, StreamType
<1>2. PICK h : h = Place(fl, bs)
  OBVIOUS
<1>3. /\ h.ptr = p + n /\ h.cnt = c - n
      /\ \A i \in -1 .. BUFSIZ - 1 :
           IF i \in p .. p + n - 1 THEN h.buf[i] \in Byte
           ELSE h.buf[i] = fl.buf[i]
  BY <1>1, <1>2, PlaceFields, SMTT(20) DEF Buffered
<1>4. g.ptr = p + n /\ g.cnt = c - n /\ g.buf = h.buf
  BY <1>2, <1>3
<1>5. PICK m \in Nat : m = fl.bsize /\ m <= BUFSIZ
  BY StreamAssumption DEF Buffered, StreamType
<1>6. 0 <= p /\ p + c = m /\ n <= c
  BY <1>1, <1>5 DEF Buffered
<1>7. Defined(g, 0, p + n - 1)
  <2>1. SUFFICES ASSUME NEW i \in 0 .. p + n - 1 PROVE g.buf[i] \in Byte
    BY DEF Defined
  <2>2. i \in -1 .. BUFSIZ - 1
    BY <1>5, <1>6, StreamAssumption
  <2>3. CASE i \in p .. p + n - 1
    BY <1>3, <1>4, <2>2, <2>3
  <2>4. CASE i \notin p .. p + n - 1
    <3>1. i \in 0 .. p - 1
      BY <1>1, <2>4
    <3>2. fl.buf[i] \in Byte
      BY <1>1, <3>1 DEF Buffered, Defined
    <3>3. QED
      BY <1>3, <1>4, <2>2, <2>4, <3>2
  <2>5. QED
    BY <2>3, <2>4
<1>8. "RD" \notin g.flags /\ "WR" \in g.flags /\ "DIRTY" \in g.flags
  BY DEF Buffered
<1>9. Lowest(g) \in {-1, 0}
  BY DEF Lowest
<1>14. g.bsize = m
  BY <1>5
<1>10. /\ 0 <= g.cnt /\ Lowest(g) <= g.ptr /\ g.ptr + g.cnt <= g.bsize
       /\ 0 <= g.ptr /\ g.ptr + g.cnt = g.bsize
       /\ Defined(g, 0, g.ptr - 1)
  <2>1. PICK l \in Int : l = Lowest(g) /\ l <= 0
    BY <1>9
  <2>2. PICK q \in Int, e \in Int : q = p + n /\ e = c - n
    BY p + n \in Int /\ c - n \in Int
  <2>3. 0 <= e /\ l <= q /\ q + e <= m /\ 0 <= q /\ q + e = m
    BY <1>6, <2>1, <2>2, PutCounts
  <2>4. QED
    BY <1>4, <1>7, <1>14, <2>1, <2>2, <2>3
<1>11. /\ g.base <=> 0 < g.bsize
       /\ "RESERVE" \in g.flags => "FREEBUF" \in g.flags /\ g.base
  BY DEF Buffered
<1>12. Buffered(g)
  BY <1>8, <1>10, <1>11 DEF Buffered
<1>13. QED
  BY <1>1, <1>4, <1>12

LEMMA PutOK ==
  ASSUME NEW fl, Buffered(fl), "WR" \in fl.flags, fl.base,
         NEW bs \in Seq(Byte), Len(bs) <= fl.cnt
  PROVE  /\ Buffered(Put(fl, bs)) /\ Put(fl, bs).base = fl.base
         /\ Put(fl, bs).bsize = fl.bsize
         /\ Put(fl, bs).flags = fl.flags \cup {"DIRTY"}
<1>1. PICK h : h = Place(fl, bs)
  OBVIOUS
<1>2. /\ h \in StreamType /\ h.base = fl.base /\ h.bsize = fl.bsize
      /\ h.flags = fl.flags
  BY <1>1, PlaceFields DEF Buffered
<1>3. PICK S \in SUBSET Flags : S = {"DIRTY"}
  BY DEF Flags
<1>4. PICK g : g = On(h, S)
  OBVIOUS
<1>5. g = Put(fl, bs)
  BY <1>1, <1>3, <1>4 DEF Put
<1>6. /\ g \in StreamType /\ g.base = fl.base /\ g.bsize = fl.bsize
      /\ g.buf = h.buf /\ g.ptr = h.ptr /\ g.cnt = h.cnt
      /\ g.flags = fl.flags \cup {"DIRTY"}
  <2>1. /\ g \in StreamType /\ SameBuffer(h, g) /\ g.ptr = h.ptr
        /\ g.cnt = h.cnt /\ g.flags = h.flags \cup S
    BY <1>2, <1>3, <1>4, OnFields
  <2>2. QED
    BY <1>2, <1>3, <2>1 DEF SameBuffer
<1>7. Buffered(g)
  BY <1>1, <1>6, PlaceOK
<1>8. QED
  BY <1>5, <1>6, <1>7

\* What a part of a writing call may do: a stream that writes stays sound,
\* and a position at the end of the file stays there.
WritesOn(fl, fi, g, gi) ==
  /\ Buffered(g) /\ FileOK(gi) /\ SameAccess(fi, gi)
  /\ "WR" \in g.flags
  /\ fl.base => g.base
  /\ "NBF" \in fl.flags => "NBF" \in g.flags
  /\ "EOF" \in g.flags => "EOF" \in fl.flags
  /\ fi.off = Len(fi.data) => gi.off = Len(gi.data)

LEMMA WritesOnTwice ==
  ASSUME NEW fl, NEW fi, NEW g, NEW gi, NEW h, NEW hi,
         WritesOn(fl, fi, g, gi), WritesOn(g, gi, h, hi)
  PROVE  WritesOn(fl, fi, h, hi)
BY DEF WritesOn, SameAccess

LEMMA FlushWrites ==
  ASSUME NEW fl, NEW fi, NEW o, Flushed(fl, fi, o), "WR" \in fl.flags
  PROVE  WritesOn(fl, fi, o.f, o.file)
BY DEF Flushed, WritesOn, SameBuffer

LEMMA ToWriteWrites ==
  ASSUME NEW fl, Buffered(fl), NEW fi, FileOK(fi)
  PROVE  WritesOn(fl, fi, ToWrite(fl), fi)
<1>1. PICK g : g = ToWrite(fl)
  OBVIOUS
<1>2. /\ Buffered(g) /\ SameBuffer(fl, g)
      /\ g.flags = (fl.flags \ {"RD"}) \cup {"WR"}
  BY <1>1, ToWriteOK
<1>3. WritesOn(fl, fi, g, fi)
  BY <1>2 DEF WritesOn, SameBuffer, SameAccess
<1>4. QED
  BY <1>1, <1>3

LEMMA PutWrites ==
  ASSUME NEW fl, Buffered(fl), "WR" \in fl.flags, fl.base,
         NEW fi, FileOK(fi), NEW bs \in Seq(Byte), Len(bs) <= fl.cnt
  PROVE  WritesOn(fl, fi, Put(fl, bs), fi)
<1>1. PICK g : g = Put(fl, bs)
  OBVIOUS
<1>2. Buffered(g) /\ g.base = fl.base /\ g.flags = fl.flags \cup {"DIRTY"}
  BY <1>1, PutOK
<1>3. WritesOn(fl, fi, g, fi)
  BY <1>2 DEF WritesOn, SameAccess
<1>4. QED
  BY <1>1, <1>3

LEMMA NoteWrites ==
  ASSUME NEW fl, Buffered(fl), "WR" \in fl.flags, NEW fi, FileOK(fi)
  PROVE  WritesOn(fl, fi, On(fl, {"ERR"}), fi)
<1>1. PICK S \in SUBSET {"ERR", "EOF", "NBF", "LBF"} : S = {"ERR"}
  OBVIOUS
<1>2. PICK g : g = On(fl, S)
  OBVIOUS
<1>3. Buffered(g) /\ SameBuffer(fl, g) /\ g.flags = fl.flags \cup {"ERR"}
  BY <1>1, <1>2, NotedOK
<1>4. WritesOn(fl, fi, g, fi)
  BY <1>3 DEF WritesOn, SameBuffer, SameAccess
<1>5. QED
  BY <1>1, <1>2, <1>4

LEMMA StoreWrites ==
  ASSUME NEW fl, Buffered(fl), "WR" \in fl.flags, NEW fi, FileOK(fi),
         NEW bs \in Seq(Byte)
  PROVE  WritesOn(fl, fi, fl, Store(fi, bs))
BY StoreOK DEF WritesOn

\* A buffer that is flushed when it is full has room.
LEMMA FlushedHasRoom ==
  ASSUME NEW fl, Buffered(fl), "WR" \in fl.flags, fl.base,
         NEW fi, FileOK(fi), NEW o \in flush_if(fl.cnt = 0, fl, fi)
  PROVE  /\ WritesOn(fl, fi, o.f, o.file) /\ o.f.base
         /\ o.ok => 0 < o.f.cnt
<1>1. CASE fl.cnt = 0
  <2>1. Flushed(fl, fi, o)
    BY <1>1, FlushOK DEF flush_if
  <2>2. PICK p \in Int, m \in Nat : p = fl.ptr /\ m = fl.bsize
    BY StreamAssumption DEF Buffered, StreamType
  <2>3. p + 0 = m /\ 0 < m
    BY <1>1, <2>2 DEF Buffered
  <2>7. p # 0
    BY <2>3
  <2>4. "DIRTY" \in fl.flags
    BY <2>2, <2>7 DEF Buffered
  <2>5. o.ok => o.f.cnt = m
    BY <2>1, <2>2, <2>4 DEF Flushed
  <2>6. QED
    BY <2>1, <2>3, <2>5, FlushWrites DEF WritesOn
<1>2. CASE fl.cnt # 0
  <2>1. o.f = fl /\ o.file = fi
    BY <1>2 DEF flush_if, Outcome
  <2>2. 0 < fl.cnt
    BY <1>2 DEF Buffered, StreamType
  <2>3. QED
    BY <2>1, <2>2 DEF WritesOn, SameAccess
<1>3. QED
  BY <1>1, <1>2

\* A flush in a writing call, under whatever condition.
LEMMA FlushIfWrites ==
  ASSUME NEW fl, Buffered(fl), "WR" \in fl.flags, NEW fi, FileOK(fi),
         NEW test, NEW o \in flush_if(test, fl, fi)
  PROVE  WritesOn(fl, fi, o.f, o.file)
<1>1. CASE test
  <2>1. Flushed(fl, fi, o)
    BY <1>1, FlushOK DEF flush_if
  <2>2. QED
    BY <2>1, FlushWrites
<1>2. CASE ~test
  <2>1. o.f = fl /\ o.file = fi
    BY <1>2 DEF flush_if, Outcome
  <2>2. QED
    BY <2>1 DEF WritesOn, SameAccess
<1>3. QED
  BY <1>1, <1>2

-----------------------------------------------------------------------------
(* The invariant.                                                          *)

\* What the program may do of HABITS.  Each of the other six ends in a byte
\* outside the buffer, one that nobody wrote, or a place outside the file.
Careful == Habits \subseteq {"read_unbuffered", "fwrite_policy"}

\* What the rules of C89 and the way a stream was opened say about it.
Rules(fl, fi, m, l, np) ==
  /\ {"RD", "WR"} \cap fl.flags = {} /\ fl.cnt # 0 => l = "open"
  /\ "WR" \in fl.flags /\ fi.read => l \in {"write", "flush"}
  /\ l = "open" => "DIRTY" \notin fl.flags /\ np = 0
  /\ ~fl.base => "NBF" \in fl.flags \/ m = "closed"
  /\ ~fl.base /\ fi.read => "read_unbuffered" \in Habits

\* What the buffer of a stream that reads has to do with the file.
ReadsAt(fl, fi, np) ==
  /\ np \in Nat /\ np <= fl.cnt
  /\ np # 0 => "RD" \in fl.flags
  /\ "RD" \in fl.flags =>
       \A i \in np + 1 .. fl.cnt : At(fl, i) = fi.data[fi.off - fl.cnt + i]
  /\ "EOF" \in fl.flags /\ "read_unbuffered" \notin Habits =>
       /\ fi.off = Len(fi.data)
       /\ "RD" \in fl.flags => fl.cnt = 0

CallType ==
  [op : {"none", "fgets", "fread", "fputs", "puts", "fwrite"},
   rest : Seq(Byte), want : 0 .. MaxCall]

\* What a call in progress relies on.
Calls(fl, c, l) ==
  /\ c \in CallType
  /\ c.op \in {"fgets", "fread"} =>
       "WR" \notin fl.flags /\ l = "read" /\ c.want \in 1 .. MaxCall
  /\ c.op \in {"fputs", "puts", "fwrite"} => "WR" \in fl.flags /\ l = "write"
  /\ c.op \in {"fputs", "puts"} => fl.base
  /\ c.op = "puts" => "DIRTY" \in fl.flags /\ Len(c.rest) <= fl.cnt
  /\ c.op = "fwrite" => c.rest # <<>>

StreamInv ==
  /\ Buffered(f) /\ FileOK(file)
  /\ mode \in Modes \cup {"closed"}
  /\ last \in {"open", "read", "write", "flush", "seek"}
  /\ Rules(f, file, mode, last, npush)
  /\ ReadsAt(f, file, npush)
  /\ Calls(f, call, last)
  /\ out \in Seq(Int) /\ ret \in {"ok", "fail"}

LEMMA NoCallOK ==
  ASSUME NEW fl, NEW l
  PROVE  Calls(fl, NoCall, l)
BY StreamAssumption DEF Calls, NoCall, CallType

LEMMA EndOK ==
  ASSUME NEW bytes \in Seq(Int), NEW ok, End(bytes, ok)
  PROVE  /\ \A fl, l : Calls(fl, call', l)
         /\ out' \in Seq(Int) /\ ret' \in {"ok", "fail"}
BY NoCallOK DEF End

LEMMA EndsEmpty ==
  ASSUME \E ok : End(<<>>, ok)
  PROVE  /\ \A fl, l : Calls(fl, call', l)
         /\ out' \in Seq(Int) /\ ret' \in {"ok", "fail"}
<1>1. <<>> \in Seq(Int)
  OBVIOUS
<1>2. PICK ok : End(<<>>, ok)
  OBVIOUS
<1>3. QED
  BY <1>1, <1>2, EndOK

\* A writing call begins, goes on or ends.
LEMMA WriteStep ==
  ASSUME StreamInv, WritesOn(f, file, f', file'), mode' = mode,
         last' = "write", npush' = 0,
         Calls(f', call', last'), out' \in Seq(Int), ret' \in {"ok", "fail"}
  PROVE  StreamInv'
<1>1. Buffered(f') /\ FileOK(file') /\ "WR" \in f'.flags
  BY DEF WritesOn
<1>2. "RD" \notin f'.flags /\ 0 <= f'.cnt
  BY <1>1 DEF Buffered
<1>3. Rules(f', file', mode', last', npush')
  BY <1>1 DEF StreamInv, Rules, WritesOn, SameAccess
<1>4. ReadsAt(f', file', npush')
  BY <1>2 DEF StreamInv, ReadsAt, WritesOn
<1>5. QED
  BY <1>1, <1>3, <1>4 DEF StreamInv

\* The same for a step of a call in progress.
LEMMA WriteTurn ==
  ASSUME StreamInv, call.op \in {"fputs", "puts", "fwrite"},
         WritesOn(f, file, f', file'), UNCHANGED <<mode, last, npush>>,
         Calls(f', call', last'), out' \in Seq(Int), ret' \in {"ok", "fail"}
  PROVE  StreamInv'
<1>1. "WR" \in f.flags /\ last = "write"
  BY DEF StreamInv, Calls
<1>2. npush = 0
  BY <1>1 DEF StreamInv, ReadsAt, Buffered
<1>3. QED
  BY <1>1, <1>2, WriteStep

-----------------------------------------------------------------------------
(* The writing calls.                                                      *)

LEMMA StringIsSeq ==
  ASSUME NEW s \in Strings
  PROVE  s \in Seq(Byte) /\ s # <<>> /\ Len(s) \in 1 .. MaxCall
<1>1. PICK n \in 1 .. MaxCall : s \in [1 .. n -> Byte]
  BY DEF Strings
<1>2. n \in Nat /\ n # 0
  BY <1>1, StreamAssumption
<1>3. s \in Seq(Byte) /\ Len(s) = n
  BY <1>1, <1>2, FunctionIsSeq
<1>4. s # <<>>
  BY <1>2, <1>3, EmptySeq
<1>5. QED
  BY <1>1, <1>3, <1>4

\* What one write returns.
LEMMA WriteCountsOK ==
  ASSUME NEW fi, NEW n \in Nat, NEW k \in WriteCounts(fi, n)
  PROVE  k \in 0 .. n
BY DEF WriteCounts

\* Bytes written directly.
LEMMA DirectWrites ==
  ASSUME NEW fl, Buffered(fl), "WR" \in fl.flags, NEW fi, FileOK(fi),
         NEW bs \in Seq(Byte), NEW k \in WriteCounts(fi, Len(bs)),
         NEW g \in {fl, On(fl, {"ERR"})}
  PROVE  WritesOn(fl, fi, g, Store(fi, SubSeq(bs, 1, k)))
<1>1. PICK n \in Nat : n = Len(bs)
  BY LenProperties
<1>2. k \in 0 .. n
  BY <1>1, WriteCountsOK
<1>3. PICK part : part = SubSeq(bs, 1, k)
  OBVIOUS
<1>4. part \in Seq(Byte)
  BY <1>1, <1>2, <1>3, PartIsSeq
<1>5. PICK gi : gi = Store(fi, part)
  OBVIOUS
<1>6. WritesOn(fl, fi, fl, gi)
  BY <1>4, <1>5, StoreWrites
<1>7. FileOK(gi)
  BY <1>6 DEF WritesOn
<1>8. WritesOn(fl, gi, On(fl, {"ERR"}), gi)
  BY <1>7, NoteWrites
<1>9. WritesOn(fl, fi, On(fl, {"ERR"}), gi)
  BY <1>6, <1>8, WritesOnTwice
<1>10. QED
  BY <1>3, <1>5, <1>6, <1>9

LEMMA FputcStep ==
  ASSUME Careful, StreamInv, NEW c \in Byte, Fputc(c)
  PROVE  StreamInv'
<1>1. PICK g : g = ToWrite(f)
  OBVIOUS
<1>2. /\ MayWrite(1) /\ last' = "write" /\ npush' = 0 /\ mode' = mode
  BY DEF Fputc
<1>3. Buffered(f) /\ FileOK(file) /\ mode # "closed"
  BY <1>2 DEF StreamInv, MayWrite, Idle
<1>4. WritesOn(f, file, g, file)
  BY <1>1, <1>3, ToWriteWrites
<1>5. Buffered(g) /\ "WR" \in g.flags
  BY <1>4 DEF WritesOn
<1>6. <<c>> \in Seq(Byte) /\ Len(<<c>>) = 1
  OBVIOUS
<1>7. /\ WritesOn(f, file, f', file')
      /\ \E ok : End(<<>>, ok)
  <2>1. CASE Has(f, "NBF")
    <3>1. PICK n \in WriteCounts(file, 1) :
            /\ f' = IF n = 1 THEN g ELSE On(g, {"ERR"})
            /\ file' = Store(file, SubSeq(<<c>>, 1, n))
            /\ End(<<>>, n = 1)
      BY <1>1, <2>1 DEF Fputc
    <3>2. WritesOn(g, file, f', file')
      BY <1>3, <1>5, <1>6, <3>1, DirectWrites
    <3>3. WritesOn(f, file, f', file')
      BY <1>4, <3>2, WritesOnTwice
    <3>4. QED
      BY <3>1, <3>3
  <2>2. CASE ~Has(f, "NBF")
    <3>1. PICK o \in flush_if(g.cnt = 0, g, file) :
            IF ~o.ok THEN Becomes(o) /\ End(<<>>, FALSE)
            ELSE LET h == Put(o.f, <<c>>)
                 IN \E p \in flush_if(Full(h, c), h, o.file) :
                      Becomes(p) /\ End(<<>>, p.ok)
      BY <1>1, <2>2 DEF Fputc
    <3>2. f.base /\ g.base
      BY <1>3, <1>4, <2>2 DEF StreamInv, Rules, WritesOn, Has
    <3>3. /\ WritesOn(g, file, o.f, o.file) /\ o.f.base
          /\ o.ok => 0 < o.f.cnt
      BY <1>3, <1>5, <3>2, FlushedHasRoom
    <3>4. CASE ~o.ok
      <4>1. f' = o.f /\ file' = o.file /\ End(<<>>, FALSE)
        BY <3>1, <3>4 DEF Becomes
      <4>2. WritesOn(f, file, o.f, o.file)
        BY <1>4, <3>3, WritesOnTwice
      <4>3. QED
        BY <4>1, <4>2
    <3>5. CASE o.ok
      <4>1. /\ Buffered(o.f) /\ FileOK(o.file) /\ "WR" \in o.f.flags
            /\ 1 <= o.f.cnt
        BY <3>3, <3>5 DEF WritesOn, Buffered, StreamType
      <4>2. PICK h : h = Put(o.f, <<c>>)
        OBVIOUS
      <4>3. WritesOn(o.f, o.file, h, o.file)
        BY <1>6, <3>3, <4>1, <4>2, PutWrites
      <4>4. Buffered(h) /\ "WR" \in h.flags
        BY <4>3 DEF WritesOn
      <4>5. PICK p \in flush_if(Full(h, c), h, o.file) :
              Becomes(p) /\ End(<<>>, p.ok)
        BY <3>1, <3>5, <4>2
      <4>6. WritesOn(h, o.file, p.f, p.file)
        BY <4>1, <4>4, FlushIfWrites
      <4>7. WritesOn(f, file, p.f, p.file)
        BY <1>4, <3>3, <4>3, <4>6, WritesOnTwice
      <4>8. QED
        BY <4>5, <4>7 DEF Becomes
    <3>6. QED
      BY <3>4, <3>5
  <2>3. QED
    BY <2>1, <2>2
<1>8. /\ Calls(f', call', last')
      /\ out' \in Seq(Int) /\ ret' \in {"ok", "fail"}
  BY <1>7, EndsEmpty
<1>9. QED
  BY <1>2, <1>7, <1>8, WriteStep

LEMMA GoesOK ==
  ASSUME StreamInv, NEW op \in {"fputs", "puts", "fwrite"}, NEW rest \in Seq(Byte),
         Goes(op, rest), NEW fl, "WR" \in fl.flags, NEW l, l = "write",
         op \in {"fputs", "puts"} => fl.base,
         op = "puts" => "DIRTY" \in fl.flags /\ Len(rest) <= fl.cnt,
         op = "fwrite" => rest # <<>>
  PROVE  /\ Calls(fl, call', l)
         /\ out' \in Seq(Int) /\ ret' \in {"ok", "fail"}
<1>1. /\ call' \in CallType /\ call'.op = op /\ call'.rest = rest
      /\ call'.want = 0
  BY StreamAssumption DEF Goes, CallType
<1>2. Calls(fl, call', l)
  BY <1>1 DEF Calls
<1>3. out' = <<>> /\ ret' = ret
  BY DEF Goes
<1>4. <<>> \in Seq(Int)
  OBVIOUS
<1>5. QED
  BY <1>2, <1>3, <1>4 DEF StreamInv

LEMMA FputsStep ==
  ASSUME Careful, StreamInv, NEW s \in Strings, Fputs(s)
  PROVE  StreamInv'
<1>1. PICK g : g = ToWrite(f)
  OBVIOUS
<1>2. /\ MayWrite(Len(s)) /\ last' = "write" /\ npush' = 0 /\ mode' = mode
  BY DEF Fputs
<1>3. Buffered(f) /\ FileOK(file) /\ mode # "closed"
  BY <1>2 DEF StreamInv, MayWrite, Idle
<1>4. WritesOn(f, file, g, file)
  BY <1>1, <1>3, ToWriteWrites
<1>5. Buffered(g) /\ "WR" \in g.flags
  BY <1>4 DEF WritesOn
<1>6. s \in Seq(Byte)
  BY StringIsSeq
<1>7. CASE Has(f, "NBF")
  <2>1. PICK n \in WriteCounts(file, Len(s)) :
          /\ f' = IF n = Len(s) THEN g ELSE On(g, {"ERR"})
          /\ file' = Store(file, SubSeq(s, 1, n))
          /\ End(<<>>, n = Len(s))
    BY <1>1, <1>7 DEF Fputs
  <2>2. WritesOn(g, file, f', file')
    BY <1>3, <1>5, <1>6, <2>1, DirectWrites
  <2>3. WritesOn(f, file, f', file')
    BY <1>4, <2>2, WritesOnTwice
  <2>4. /\ Calls(f', call', last')
        /\ out' \in Seq(Int) /\ ret' \in {"ok", "fail"}
    BY <2>1, EndsEmpty
  <2>5. QED
    BY <1>2, <2>3, <2>4, WriteStep
<1>8. CASE ~Has(f, "NBF")
  <2>1. f' = g /\ file' = file /\ Goes("fputs", s)
    BY <1>1, <1>8 DEF Fputs
  <2>2. g.base
    BY <1>3, <1>4, <1>8 DEF StreamInv, Rules, WritesOn, Has
  <2>3. /\ Calls(f', call', last')
        /\ out' \in Seq(Int) /\ ret' \in {"ok", "fail"}
    BY <1>2, <1>5, <1>6, <2>1, <2>2, GoesOK
  <2>4. QED
    BY <1>2, <1>4, <2>1, <2>3, WriteStep
<1>9. QED
  BY <1>7, <1>8

\* What a writing call in progress can rely on.
LEMMA InWrite ==
  ASSUME StreamInv, call.op \in {"fputs", "puts", "fwrite"}
  PROVE  /\ Buffered(f) /\ FileOK(file) /\ "WR" \in f.flags
         /\ last = "write" /\ call.rest \in Seq(Byte)
         /\ call.op \in {"fputs", "puts"} => f.base
BY DEF StreamInv, Calls, CallType

LEMMA FputsTurnStep ==
  ASSUME StreamInv, FputsTurn
  PROVE  StreamInv'
<1>1. /\ call.op = "fputs" /\ call.rest # <<>>
      /\ UNCHANGED <<mode, last, npush>>
  BY DEF FputsTurn
<1>2. /\ Buffered(f) /\ FileOK(file) /\ "WR" \in f.flags /\ f.base
      /\ last = "write" /\ call.rest \in Seq(Byte)
  BY <1>1, InWrite
<1>3. PICK o \in flush_if(f.cnt = 0, f, file) :
        IF ~o.ok THEN Becomes(o) /\ End(<<>>, FALSE)
        ELSE LET n == Least(Len(call.rest), o.f.cnt)
                 bs == SubSeq(call.rest, 1, n)
                 g == Put(o.f, bs)
             IN \E p \in flush_if(Has(g, "LBF") /\ Contains(bs, Newline),
                                  g, o.file) :
                  /\ Becomes(p)
                  /\ IF p.ok THEN Goes("fputs", SubSeq(call.rest, n + 1,
                                                       Len(call.rest)))
                     ELSE End(<<>>, FALSE)
  BY DEF FputsTurn
<1>4. /\ WritesOn(f, file, o.f, o.file) /\ o.f.base
      /\ o.ok => 0 < o.f.cnt
  BY <1>2, FlushedHasRoom
<1>5. CASE ~o.ok
  <2>1. f' = o.f /\ file' = o.file /\ End(<<>>, FALSE)
    BY <1>3, <1>5 DEF Becomes
  <2>2. /\ Calls(f', call', last')
        /\ out' \in Seq(Int) /\ ret' \in {"ok", "fail"}
    BY <2>1, EndsEmpty
  <2>3. QED
    BY <1>1, <1>4, <2>1, <2>2, WriteTurn
<1>6. CASE o.ok
  <2>1. PICK n : n = Least(Len(call.rest), o.f.cnt)
    OBVIOUS
  <2>2. PICK bs : bs = SubSeq(call.rest, 1, n)
    OBVIOUS
  <2>3. PICK g : g = Put(o.f, bs)
    OBVIOUS
  <2>4. PICK test : test = (Has(g, "LBF") /\ Contains(bs, Newline))
    OBVIOUS
  <2>5. PICK rest : rest = SubSeq(call.rest, n + 1, Len(call.rest))
    OBVIOUS
  <2>6. PICK p \in flush_if(test, g, o.file) :
          /\ Becomes(p)
          /\ IF p.ok THEN Goes("fputs", rest) ELSE End(<<>>, FALSE)
    BY <1>3, <1>6, <2>1, <2>2, <2>3, <2>4, <2>5
  <2>7. Buffered(o.f) /\ FileOK(o.file) /\ "WR" \in o.f.flags
    BY <1>4 DEF WritesOn
  <2>8. PICK k \in Nat, c \in Nat : k = Len(call.rest) /\ c = o.f.cnt
    <3>1. Len(call.rest) \in Nat
      BY <1>2, LenProperties
    <3>2. o.f.cnt \in Nat
      BY <2>7 DEF Buffered, StreamType
    <3>3. QED
      BY <3>1, <3>2
  <2>9. n \in Nat /\ n <= k /\ n <= c
    BY <2>1, <2>8 DEF Least
  <2>10. bs \in Seq(Byte) /\ Len(bs) = n
    <3>1. Len(SubSeq(call.rest, 1, n)) = IF 1 <= n THEN n - 1 + 1 ELSE 0
      BY <1>2, <2>8, <2>9, PartIsSeq
    <3>2. SubSeq(call.rest, 1, n) \in Seq(Byte)
      BY <1>2, <2>8, <2>9, PartIsSeq
    <3>3. QED
      BY <2>2, <2>9, <3>1, <3>2
  <2>11. rest \in Seq(Byte)
    <3>1. PICK m \in Nat : m = n + 1
      BY <2>9
    <3>2. 0 < m
      BY <2>9, <3>1
    <3>3. QED
      BY <1>2, <2>5, <2>8, <3>1, <3>2, PartIsSeq
  <2>12. Len(bs) <= o.f.cnt
    BY <2>8, <2>9, <2>10
  <2>13. WritesOn(o.f, o.file, g, o.file)
    BY <1>4, <2>3, <2>7, <2>10, <2>12, PutWrites
  <2>14. Buffered(g) /\ "WR" \in g.flags
    BY <2>13 DEF WritesOn
  <2>15. WritesOn(g, o.file, p.f, p.file)
    BY <2>7, <2>14, FlushIfWrites
  <2>16. WritesOn(f, file, p.f, p.file)
    BY <1>4, <2>13, <2>15, WritesOnTwice
  <2>17. f' = p.f /\ file' = p.file
    BY <2>6 DEF Becomes
  <2>18. /\ Calls(f', call', last')
         /\ out' \in Seq(Int) /\ ret' \in {"ok", "fail"}
    <3>1. CASE p.ok
      <4>1. Goes("fputs", rest)
        BY <2>6, <3>1
      <4>2. p.f.base /\ "WR" \in p.f.flags /\ last' = "write"
        BY <1>1, <1>2, <2>16 DEF WritesOn
      <4>3. QED
        BY <2>11, <2>17, <4>1, <4>2, GoesOK
    <3>2. CASE ~p.ok
      BY <2>6, <3>2, EndsEmpty
    <3>3. QED
      BY <3>1, <3>2
  <2>19. QED
    BY <1>1, <2>16, <2>17, <2>18, WriteTurn
<1>7. QED
  BY <1>5, <1>6

LEMMA FputsEndStep ==
  ASSUME StreamInv, FputsEnd
  PROVE  StreamInv'
<1>1. /\ call.op = "fputs" /\ UNCHANGED <<mode, last, npush>>
  BY DEF FputsEnd
<1>2. PICK o \in flush_if(f.cnt = 0, f, file) : Becomes(o) /\ End(<<>>, o.ok)
  BY DEF FputsEnd
<1>3. WritesOn(f, file, o.f, o.file)
  BY <1>1, InWrite, FlushIfWrites
<1>4. f' = o.f /\ file' = o.file
  BY <1>2 DEF Becomes
<1>5. /\ Calls(f', call', last')
      /\ out' \in Seq(Int) /\ ret' \in {"ok", "fail"}
  BY <1>2, EndsEmpty
<1>6. QED
  BY <1>1, <1>3, <1>4, <1>5, WriteTurn


LEMMA DirtyWrites ==
  ASSUME NEW fl, Buffered(fl), "WR" \in fl.flags, fl.base,
         NEW fi, FileOK(fi)
  PROVE  /\ WritesOn(fl, fi, On(fl, {"DIRTY"}), fi)
         /\ On(fl, {"DIRTY"}).cnt = fl.cnt
         /\ "DIRTY" \in On(fl, {"DIRTY"}).flags
<1>1. PICK S \in SUBSET Flags : S = {"DIRTY"}
  BY DEF Flags
<1>2. PICK g : g = On(fl, S)
  OBVIOUS
<1>3. /\ g \in StreamType /\ SameBuffer(fl, g) /\ g.ptr = fl.ptr
      /\ g.cnt = fl.cnt /\ g.flags = fl.flags \cup {"DIRTY"}
  <2>1. /\ g \in StreamType /\ SameBuffer(fl, g) /\ g.ptr = fl.ptr
        /\ g.cnt = fl.cnt /\ g.flags = fl.flags \cup S
    BY <1>2, OnFields DEF Buffered
  <2>2. QED
    BY <1>1, <2>1
<1>4. Buffered(g)
  BY <1>3 DEF Buffered, Lowest, Defined, SameBuffer
<1>5. WritesOn(fl, fi, g, fi)
  BY <1>3, <1>4 DEF WritesOn, SameBuffer, SameAccess
<1>6. QED
  BY <1>1, <1>2, <1>3, <1>5

\* puts gives an unbuffered stdout a buffer.
LEMMA PutsBuffer ==
  ASSUME NEW fl, Buffered(fl), ~fl.base, NEW size \in 1 .. BUFSIZ,
         NEW fi, FileOK(fi),
         NEW g, g = [On(fl, {"FREEBUF"}) EXCEPT !.base = TRUE, !.ptr = 0,
                                                !.bsize = size, !.cnt = size]
  PROVE  WritesOn(fl, fi, ToWrite(g), fi) /\ ToWrite(g).base
<1>1. PICK S \in SUBSET Flags : S = {"FREEBUF"}
  BY DEF Flags
<1>2. PICK m \in Nat, z \in Int : m = size /\ z = 0
  BY StreamAssumption
<1>3. 0 < m /\ m \in 0 .. BUFSIZ /\ m \in Int
  BY <1>2, StreamAssumption
<1>4. PICK h : h = On(fl, S)
  OBVIOUS
<1>5. h \in StreamType /\ h.flags = fl.flags \cup {"FREEBUF"}
  <2>1. h \in StreamType /\ h.flags = fl.flags \cup S
    BY <1>4, OnFields DEF Buffered
  <2>2. QED
    BY <1>1, <2>1
<1>6. g = [h EXCEPT !.base = TRUE, !.ptr = z, !.bsize = m, !.cnt = m]
  BY <1>1, <1>2, <1>4
<1>7. /\ g \in StreamType /\ g.base = TRUE /\ g.ptr = z /\ g.bsize = m
      /\ g.cnt = m /\ g.flags = fl.flags \cup {"FREEBUF"}
  BY <1>2, <1>3, <1>5, <1>6 DEF StreamType
<1>8. "RESERVE" \notin fl.flags /\ "DIRTY" \notin fl.flags
  BY DEF Buffered
<1>9. CASE "RD" \notin fl.flags
  <2>1. Buffered(g)
    BY <1>2, <1>3, <1>7, <1>8, <1>9 DEF Buffered, Lowest, Defined
  <2>2. PICK k : k = ToWrite(g)
    OBVIOUS
  <2>3. /\ Buffered(k) /\ SameBuffer(g, k)
        /\ k.flags = (g.flags \ {"RD"}) \cup {"WR"}
    BY <2>1, <2>2, ToWriteOK
  <2>4. WritesOn(fl, fi, k, fi) /\ k.base
    BY <1>7, <2>3 DEF WritesOn, SameBuffer, SameAccess
  <2>5. QED
    BY <2>2, <2>4
<1>10. CASE "RD" \in fl.flags
  <2>1. PICK d : d = Off(g, {"RD"})
    OBVIOUS
  <2>2. /\ d \in StreamType /\ d.base = TRUE /\ d.bsize = m
        /\ d.flags = g.flags \ {"RD"}
    BY <1>7, <2>1, OffFields DEF SameBuffer
  <2>3. PICK W \in SUBSET Flags : W = {"WR"}
    BY DEF Flags
  <2>4. PICK e : e = On(d, W)
    OBVIOUS
  <2>5. /\ e \in StreamType /\ e.base = TRUE /\ e.bsize = m
        /\ e.flags = d.flags \cup W
    BY <2>2, <2>4, OnFields DEF SameBuffer
  <2>6. PICK k : k = [e EXCEPT !.cnt = m, !.ptr = z]
    OBVIOUS
  <2>7. /\ k \in StreamType /\ k.base = TRUE /\ k.bsize = m /\ k.ptr = z
        /\ k.cnt = m /\ k.flags = e.flags
    BY <1>2, <1>3, <2>5, <2>6 DEF StreamType
  <2>8. k = ToWrite(g)
    BY <1>2, <1>7, <1>10, <2>1, <2>3, <2>4, <2>6 DEF ToWrite, Has
  <2>9. k.flags = ((fl.flags \cup {"FREEBUF"}) \ {"RD"}) \cup {"WR"}
    BY <1>7, <2>2, <2>3, <2>5, <2>7
  <2>10. Buffered(k)
    BY <1>2, <1>3, <1>8, <2>7, <2>9 DEF Buffered, Lowest, Defined
  <2>11. WritesOn(fl, fi, k, fi)
    BY <2>7, <2>9, <2>10 DEF WritesOn, SameAccess
  <2>12. QED
    BY <2>7, <2>8, <2>11
<1>11. QED
  BY <1>9, <1>10

LEMMA PutsStep ==
  ASSUME Careful, StreamInv, NEW s \in Strings, Puts(s)
  PROVE  StreamInv'
<1>1. PICK size : size = IF Has(f, "NBF") THEN 1 ELSE BUFSIZ
  OBVIOUS
<1>2. PICK g : g = IF f.base THEN f
                   ELSE [On(f, {"FREEBUF"}) EXCEPT !.base = TRUE, !.ptr = 0,
                                                   !.bsize = size, !.cnt = size]
  OBVIOUS
<1>3. /\ MayWrite(Len(s) + 1) /\ last' = "write" /\ npush' = 0
      /\ UNCHANGED <<file, mode>>
  BY DEF Puts
<1>4. Buffered(f) /\ FileOK(file)
  BY DEF StreamInv
<1>5. \/ /\ Len(s) + 1 <= ToWrite(g).cnt
         /\ f' = On(ToWrite(g), {"DIRTY"})
         /\ Goes("puts", Append(s, Newline))
      \/ /\ ~f.base
         /\ f' = f /\ End(<<>>, FALSE)
  BY <1>1, <1>2 DEF Puts, Careful
<1>6. CASE /\ Len(s) + 1 <= ToWrite(g).cnt
           /\ f' = On(ToWrite(g), {"DIRTY"})
           /\ Goes("puts", Append(s, Newline))
  <2>1. WritesOn(f, file, ToWrite(g), file) /\ ToWrite(g).base
    <3>1. CASE f.base
      <4>1. g = f
        BY <1>2, <3>1
      <4>2. WritesOn(f, file, ToWrite(f), file)
        BY <1>4, ToWriteWrites
      <4>3. QED
        BY <3>1, <4>1, <4>2 DEF WritesOn
    <3>2. CASE ~f.base
      <4>1. size \in 1 .. BUFSIZ
        BY <1>1, StreamAssumption
      <4>2. g = [On(f, {"FREEBUF"}) EXCEPT !.base = TRUE, !.ptr = 0,
                                           !.bsize = size, !.cnt = size]
        BY <1>2, <3>2
      <4>3. QED
        BY <1>4, <3>2, <4>1, <4>2, PutsBuffer
    <3>3. QED
      BY <3>1, <3>2
  <2>2. PICK k : k = ToWrite(g)
    OBVIOUS
  <2>3. Buffered(k) /\ "WR" \in k.flags /\ k.base
    BY <2>1, <2>2 DEF WritesOn
  <2>4. /\ WritesOn(k, file, f', file) /\ f'.cnt = k.cnt
        /\ "DIRTY" \in f'.flags
    BY <1>4, <1>6, <2>2, <2>3, DirtyWrites
  <2>5. WritesOn(f, file, f', file')
    BY <1>3, <2>1, <2>2, <2>4, WritesOnTwice
  <2>6. PICK rest : rest = Append(s, Newline)
    OBVIOUS
  <2>7. rest \in Seq(Byte) /\ Len(rest) = Len(s) + 1
    BY <2>6, StringIsSeq, StreamAssumption, AppendProperties
  <2>8. f'.base /\ "WR" \in f'.flags /\ Len(rest) <= f'.cnt
    BY <1>6, <2>2, <2>3, <2>4, <2>7 DEF WritesOn
  <2>9. /\ Calls(f', call', last')
        /\ out' \in Seq(Int) /\ ret' \in {"ok", "fail"}
    BY <1>3, <1>6, <2>4, <2>6, <2>7, <2>8, GoesOK
  <2>10. QED
    BY <1>3, <2>5, <2>9, WriteStep
<1>7. CASE ~f.base /\ f' = f /\ End(<<>>, FALSE)
  <2>1. f.cnt = 0
    BY <1>4, <1>7, StreamAssumption DEF Buffered, Lowest, StreamType
  <2>2. Rules(f', file', mode', last', npush')
    BY <1>3, <1>7, <2>1 DEF StreamInv, Rules
  <2>3. ReadsAt(f', file', npush')
    BY <1>3, <1>7, <2>1 DEF StreamInv, ReadsAt
  <2>4. /\ Calls(f', call', last')
        /\ out' \in Seq(Int) /\ ret' \in {"ok", "fail"}
    BY <1>7, EndsEmpty
  <2>5. QED
    BY <1>3, <1>7, <2>2, <2>3, <2>4 DEF StreamInv
<1>8. QED
  BY <1>5, <1>6, <1>7


LEMMA PutsTurnStep ==
  ASSUME StreamInv, PutsTurn
  PROVE  StreamInv'
<1>1. /\ call.op = "puts" /\ call.rest # <<>>
      /\ UNCHANGED <<mode, last, npush>>
  BY DEF PutsTurn
<1>2. /\ Buffered(f) /\ FileOK(file) /\ "WR" \in f.flags /\ f.base
      /\ last = "write" /\ call.rest \in Seq(Byte)
  BY <1>1, InWrite
<1>3. "DIRTY" \in f.flags /\ Len(call.rest) <= f.cnt
  BY <1>1 DEF StreamInv, Calls
<1>4. PICK k \in Nat, c \in Int : k = Len(call.rest) /\ c = f.cnt
  BY <1>2, LenProperties DEF Buffered, StreamType
<1>5. 0 < k /\ 0 < c
  <2>1. k # 0
    BY <1>1, <1>2, <1>4, EmptySeq
  <2>2. k <= c
    BY <1>3, <1>4
  <2>3. QED
    BY <2>1, <2>2
<1>6. ~(f.cnt <= 0)
  BY <1>4, <1>5
<1>7. PICK bs : bs = <<Head(call.rest)>>
  OBVIOUS
<1>8. PICK rest : rest = Tail(call.rest)
  OBVIOUS
<1>9. f' = Place(f, bs) /\ file' = file /\ Goes("puts", rest)
  BY <1>6, <1>7, <1>8 DEF PutsTurn, flush_if, Outcome
<1>10. /\ bs \in Seq(Byte) /\ Len(bs) = 1
       /\ rest \in Seq(Byte) /\ Len(rest) = k - 1
  BY <1>1, <1>2, <1>4, <1>7, <1>8, HeadTailProperties
<1>11. /\ f' \in StreamType /\ f'.base = f.base /\ f'.bsize = f.bsize
       /\ f'.flags = f.flags
  BY <1>2, <1>9, <1>10, PlaceFields DEF Buffered
<1>12. f'.flags = f.flags \cup {"DIRTY"}
  BY <1>3, <1>11
<1>13. Len(bs) <= f.cnt
  BY <1>4, <1>5, <1>10
<1>14. Buffered(f') /\ f'.cnt = f.cnt - Len(bs)
  BY <1>2, <1>9, <1>10, <1>11, <1>12, <1>13, PlaceOK
<1>15. WritesOn(f, file, f', file')
  BY <1>2, <1>9, <1>11, <1>14 DEF WritesOn, SameAccess
<1>16. Len(rest) <= f'.cnt
  BY <1>3, <1>4, <1>10, <1>14
<1>17. /\ Calls(f', call', last')
       /\ out' \in Seq(Int) /\ ret' \in {"ok", "fail"}
  BY <1>1, <1>2, <1>3, <1>9, <1>10, <1>11, <1>16, GoesOK
<1>18. QED
  BY <1>1, <1>15, <1>17, WriteTurn

LEMMA PutsEndStep ==
  ASSUME StreamInv, PutsEnd
  PROVE  StreamInv'
<1>1. /\ call.op = "puts" /\ UNCHANGED <<mode, last, npush>>
  BY DEF PutsEnd
<1>2. PICK test : test = (Has(f, "LBF") \/ Has(f, "NBF"))
  OBVIOUS
<1>3. PICK o \in flush_if(test, f, file) : Becomes(o) /\ End(<<>>, o.ok)
  BY <1>2 DEF PutsEnd
<1>4. WritesOn(f, file, o.f, o.file)
  BY <1>1, InWrite, FlushIfWrites
<1>5. f' = o.f /\ file' = o.file
  BY <1>3 DEF Becomes
<1>6. /\ Calls(f', call', last')
      /\ out' \in Seq(Int) /\ ret' \in {"ok", "fail"}
  BY <1>3, EndsEmpty
<1>7. QED
  BY <1>1, <1>4, <1>5, <1>6, WriteTurn

LEMMA FwriteStep ==
  ASSUME StreamInv, NEW s \in Strings, Fwrite(s)
  PROVE  StreamInv'
<1>1. /\ f' = ToWrite(f) /\ Goes("fwrite", s)
      /\ last' = "write" /\ npush' = 0 /\ UNCHANGED <<file, mode>>
  BY DEF Fwrite
<1>2. Buffered(f) /\ FileOK(file)
  BY DEF StreamInv
<1>3. WritesOn(f, file, f', file')
  BY <1>1, <1>2, ToWriteWrites
<1>4. "WR" \in f'.flags
  BY <1>3 DEF WritesOn
<1>5. /\ Calls(f', call', last')
      /\ out' \in Seq(Int) /\ ret' \in {"ok", "fail"}
  BY <1>1, <1>4, StringIsSeq, GoesOK
<1>6. QED
  BY <1>1, <1>3, <1>5, WriteStep

\* A stream without a buffer has no room for what fwrite has left.
LEMMA RoomHasBase ==
  ASSUME NEW fl, Buffered(fl), "WR" \in fl.flags, fl.cnt # 0
  PROVE  fl.base
<1>1. PICK p \in Int, c \in Int, m \in Nat :
        p = fl.ptr /\ c = fl.cnt /\ m = fl.bsize
  BY StreamAssumption DEF Buffered, StreamType
<1>2. 0 <= p /\ p + c = m /\ 0 <= c /\ c # 0
  BY <1>1 DEF Buffered
<1>3. 0 < m
  BY <1>2
<1>4. QED
  BY <1>1, <1>3 DEF Buffered

LEMMA FwriteLastStep ==
  ASSUME StreamInv, FwriteLast
  PROVE  StreamInv'
<1>1. /\ call.op = "fwrite" /\ Len(call.rest) <= f.cnt
      /\ f' = Put(f, call.rest) /\ End(<<>>, TRUE)
      /\ UNCHANGED <<file, mode, last, npush>>
  BY DEF FwriteLast
<1>2. /\ Buffered(f) /\ FileOK(file) /\ "WR" \in f.flags
      /\ call.rest \in Seq(Byte)
  BY <1>1, InWrite
<1>3. call.rest # <<>>
  BY <1>1 DEF StreamInv, Calls
<1>4. PICK k \in Nat, c \in Int : k = Len(call.rest) /\ c = f.cnt
  BY <1>2, LenProperties DEF Buffered, StreamType
<1>5. k # 0 /\ k <= c
  BY <1>1, <1>2, <1>3, <1>4, EmptySeq
<1>6. c # 0
  BY <1>5
<1>7. f.base
  BY <1>2, <1>4, <1>6, RoomHasBase
<1>8. WritesOn(f, file, f', file')
  BY <1>1, <1>2, <1>7, PutWrites
<1>9. /\ Calls(f', call', last')
      /\ out' \in Seq(Int) /\ ret' \in {"ok", "fail"}
  BY <1>1, EndsEmpty
<1>10. QED
  BY <1>1, <1>8, <1>9, WriteTurn

LEMMA FwriteTurnStep ==
  ASSUME StreamInv, FwriteTurn
  PROVE  StreamInv'
<1>1. /\ call.op = "fwrite" /\ Len(call.rest) > f.cnt
      /\ UNCHANGED <<mode, last, npush>>
  BY DEF FwriteTurn
<1>2. /\ Buffered(f) /\ FileOK(file) /\ "WR" \in f.flags
      /\ last = "write" /\ call.rest \in Seq(Byte)
  BY <1>1, InWrite
<1>3. PICK k \in Nat, c \in Nat : k = Len(call.rest) /\ c = f.cnt
  <2>1. Len(call.rest) \in Nat
    BY <1>2, LenProperties
  <2>2. f.cnt \in Nat
    BY <1>2 DEF Buffered, StreamType
  <2>3. QED
    BY <2>1, <2>2
<1>4. c < k
  BY <1>1, <1>3
<1>5. PICK g : g = IF f.cnt > 0 THEN Put(f, SubSeq(call.rest, 1, f.cnt)) ELSE f
  OBVIOUS
<1>6. PICK rest : rest = SubSeq(call.rest, f.cnt + 1, Len(call.rest))
  OBVIOUS
<1>7. PICK o \in flush_impl(g, file) :
        IF ~o.ok THEN Becomes(o) /\ End(<<>>, FALSE)
        ELSE IF Len(rest) < o.f.bsize
        THEN /\ Becomes(o)
             /\ IF SubSeq(rest, 0 + 1, Len(rest)) = <<>> THEN End(<<>>, TRUE)
                ELSE Goes("fwrite", SubSeq(rest, 0 + 1, Len(rest)))
        ELSE \E n \in WriteCounts(o.file, Len(rest)) :
               /\ f' = IF n = 0 THEN On(o.f, {"ERR"}) ELSE o.f
               /\ file' = Store(o.file, SubSeq(rest, 1, n))
               /\ IF n = 0 THEN End(<<>>, FALSE)
                  ELSE IF SubSeq(rest, n + 1, Len(rest)) = <<>>
                  THEN End(<<>>, TRUE)
                  ELSE Goes("fwrite", SubSeq(rest, n + 1, Len(rest)))
  BY <1>5, <1>6 DEF FwriteTurn
<1>8. rest \in Seq(Byte)
  <2>1. PICK m \in Nat : m = c + 1 /\ 0 < m
    BY <1>3
  <2>2. QED
    BY <1>2, <1>3, <1>6, <2>1, PartIsSeq
<1>9. WritesOn(f, file, g, file)
  <2>1. CASE c > 0
    <3>1. PICK bs : bs = SubSeq(call.rest, 1, c)
      OBVIOUS
    <3>2. bs \in Seq(Byte) /\ Len(bs) = c
      <4>1. /\ SubSeq(call.rest, 1, c) \in Seq(Byte)
            /\ Len(SubSeq(call.rest, 1, c)) = IF 1 <= c THEN c - 1 + 1 ELSE 0
        BY <1>2, <1>3, <1>4, PartIsSeq
      <4>2. QED
        BY <2>1, <3>1, <4>1
    <3>3. f.base
      BY <1>2, <1>3, <2>1, RoomHasBase
    <3>4. g = Put(f, bs)
      BY <1>3, <1>5, <2>1, <3>1
    <3>5. Len(bs) <= f.cnt
      BY <1>3, <3>2
    <3>6. QED
      BY <1>2, <3>2, <3>3, <3>4, <3>5, PutWrites
  <2>2. CASE ~(c > 0)
    <3>1. g = f
      BY <1>3, <1>5, <2>2
    <3>2. QED
      BY <1>2, <3>1 DEF WritesOn, SameAccess
  <2>3. QED
    BY <2>1, <2>2
<1>10. Buffered(g) /\ "WR" \in g.flags
  BY <1>9 DEF WritesOn
<1>11. WritesOn(g, file, o.f, o.file)
  BY <1>2, <1>10, FlushOK, FlushWrites
<1>12. WritesOn(f, file, o.f, o.file)
  BY <1>9, <1>11, WritesOnTwice
<1>13. Buffered(o.f) /\ FileOK(o.file) /\ "WR" \in o.f.flags
  BY <1>12 DEF WritesOn
<1>14. /\ WritesOn(f, file, f', file')
       /\ \/ \E ok : End(<<>>, ok)
          \/ \E n \in 0 .. Len(rest) :
               /\ SubSeq(rest, n + 1, Len(rest)) # <<>>
               /\ Goes("fwrite", SubSeq(rest, n + 1, Len(rest)))
  <2>1. CASE ~o.ok
    <3>1. f' = o.f /\ file' = o.file /\ End(<<>>, FALSE)
      BY <1>7, <2>1 DEF Becomes
    <3>2. QED
      BY <1>12, <3>1
  <2>2. CASE o.ok /\ Len(rest) < o.f.bsize
    <3>1. f' = o.f /\ file' = o.file
      BY <1>7, <2>2 DEF Becomes
    <3>2. 0 \in 0 .. Len(rest)
      BY <1>8, LenProperties
    <3>3. QED
      BY <1>7, <1>12, <2>2, <3>1, <3>2
  <2>3. CASE o.ok /\ ~(Len(rest) < o.f.bsize)
    <3>1. PICK n \in WriteCounts(o.file, Len(rest)) :
            /\ f' = IF n = 0 THEN On(o.f, {"ERR"}) ELSE o.f
            /\ file' = Store(o.file, SubSeq(rest, 1, n))
            /\ IF n = 0 THEN End(<<>>, FALSE)
               ELSE IF SubSeq(rest, n + 1, Len(rest)) = <<>>
               THEN End(<<>>, TRUE)
               ELSE Goes("fwrite", SubSeq(rest, n + 1, Len(rest)))
      BY <1>7, <2>3
    <3>2. WritesOn(o.f, o.file, f', file')
      BY <1>8, <1>13, <3>1, DirectWrites
    <3>3. n \in 0 .. Len(rest)
      BY <1>8, <3>1, WriteCountsOK, LenProperties
    <3>4. WritesOn(f, file, f', file')
      BY <1>12, <3>2, WritesOnTwice
    <3>5. QED
      BY <3>1, <3>3, <3>4
  <2>4. QED
    BY <2>1, <2>2, <2>3
<1>15. /\ Calls(f', call', last')
       /\ out' \in Seq(Int) /\ ret' \in {"ok", "fail"}
  <2>1. CASE \E ok : End(<<>>, ok)
    BY <2>1, EndsEmpty
  <2>2. CASE \E n \in 0 .. Len(rest) :
               /\ SubSeq(rest, n + 1, Len(rest)) # <<>>
               /\ Goes("fwrite", SubSeq(rest, n + 1, Len(rest)))
    <3>1. PICK n \in 0 .. Len(rest) :
            /\ SubSeq(rest, n + 1, Len(rest)) # <<>>
            /\ Goes("fwrite", SubSeq(rest, n + 1, Len(rest)))
      BY <2>2
    <3>2. PICK q \in Nat, m \in Nat : q = Len(rest) /\ m = n + 1 /\ 0 < m
      BY <1>8, LenProperties
    <3>3. PICK left : left = SubSeq(rest, m, q)
      OBVIOUS
    <3>4. left \in Seq(Byte)
      BY <1>8, <3>2, <3>3, PartIsSeq
    <3>5. left # <<>> /\ Goes("fwrite", left)
      BY <3>1, <3>2, <3>3
    <3>6. "WR" \in f'.flags /\ last' = "write"
      BY <1>1, <1>2, <1>14 DEF WritesOn
    <3>7. QED
      BY <3>4, <3>5, <3>6, GoesOK
  <2>3. QED
    BY <1>14, <2>1, <2>2
<1>16. QED
  BY <1>1, <1>14, <1>15, WriteTurn


-----------------------------------------------------------------------------
(* The reading calls.                                                      *)

\* A stream that reads or may begin to.
Readable(fl, fi, np) ==
  /\ Buffered(fl) /\ FileOK(fi) /\ ReadsAt(fl, fi, np)
  /\ "WR" \notin fl.flags
  /\ "RD" \notin fl.flags => fl.cnt = 0
  /\ ~fl.base /\ fi.read => "read_unbuffered" \in Habits

\* What reading leaves as it was.
ReadsOn(fl, fi, g, gi) ==
  /\ SameAccess(fi, gi) /\ g.base = fl.base
  /\ "NBF" \in fl.flags => "NBF" \in g.flags

LEMMA ReadCountsOK ==
  ASSUME NEW fl, Buffered(fl), NEW fi, FileOK(fi),
         NEW n \in ReadCounts(fl, fi)
  PROVE  \/ n = -1
         \/ n = 0 /\ fi.read /\ (fi.off = Len(fi.data) \/ fl.bsize = 0)
         \/ n \in Nat /\ 0 < n /\ n <= fl.bsize /\ fi.off + n <= Len(fi.data)
<1>1. PICK m \in Nat, q \in Nat, k \in Nat :
        m = fl.bsize /\ q = fi.off /\ k = Len(fi.data) /\ q <= k
  BY StreamAssumption, LenProperties DEF Buffered, StreamType, FileOK, FileType
<1>2. PICK left : left = Least(m, k - q)
  OBVIOUS
<1>3. /\ left \in Int /\ left <= m /\ left <= k - q
      /\ left = m \/ left = k - q
  BY <1>2 DEF Least
<1>4. \/ n = -1
      \/ n = 0 /\ fi.read /\ left <= 0
      \/ n \in 1 .. left
  BY <1>1, <1>2 DEF ReadCounts
<1>5. CASE n = 0 /\ fi.read /\ left <= 0
  <2>1. q = k \/ m = 0
    BY <1>1, <1>3, <1>5
  <2>2. QED
    BY <1>1, <1>5, <2>1
<1>6. CASE n \in 1 .. left
  <2>1. n \in Nat /\ 0 < n /\ n <= m /\ q + n <= k
    BY <1>1, <1>3, <1>6
  <2>2. QED
    BY <1>1, <2>1
<1>7. QED
  BY <1>4, <1>5, <1>6

\* The read that failed, or came to the end.
LEMMA NothingRead ==
  ASSUME NEW fl, NEW fi, NEW np, Readable(fl, fi, np), "RD" \in fl.flags,
         fl.cnt = 0, NEW flag \in {"EOF", "ERR"},
         flag = "EOF" /\ "read_unbuffered" \notin Habits
           => fi.off = Len(fi.data),
         NEW g, g = [On(fl, {flag}) EXCEPT !.cnt = 0]
  PROVE  Readable(g, fi, np) /\ ReadsOn(fl, fi, g, fi)
<1>1. PICK S \in SUBSET Flags : S = {flag}
  BY DEF Flags
<1>2. PICK h : h = On(fl, S)
  OBVIOUS
<1>3. /\ h \in StreamType /\ SameBuffer(fl, h) /\ h.ptr = fl.ptr
      /\ h.flags = fl.flags \cup {flag}
  <2>1. /\ h \in StreamType /\ SameBuffer(fl, h) /\ h.ptr = fl.ptr
        /\ h.flags = fl.flags \cup S
    BY <1>2, OnFields DEF Readable, Buffered
  <2>2. QED
    BY <1>1, <2>1
<1>10. PICK z \in Int : z = 0
  OBVIOUS
<1>4. g = [h EXCEPT !.cnt = z]
  BY <1>1, <1>2, <1>10
<1>5. /\ g \in StreamType /\ SameBuffer(h, g) /\ g.ptr = h.ptr
      /\ g.cnt = 0 /\ g.flags = h.flags
  <2>1. /\ g \in StreamType /\ SameBuffer(h, g) /\ g.ptr = h.ptr
        /\ g.cnt = z /\ g.flags = h.flags
    BY <1>3, <1>4 DEF StreamType, SameBuffer
  <2>2. QED
    BY <1>10, <2>1
<1>6. /\ SameBuffer(fl, g) /\ g.ptr = fl.ptr /\ g.cnt = fl.cnt
      /\ g.flags = fl.flags \cup {flag}
  BY <1>3, <1>5 DEF SameBuffer
<1>7. Buffered(g)
  BY <1>5, <1>6 DEF Readable, Buffered, Lowest, Defined, SameBuffer
<1>8. ReadsAt(g, fi, np)
  BY <1>6 DEF Readable, ReadsAt, At, SameBuffer
<1>9. QED
  BY <1>6, <1>7, <1>8 DEF Readable, ReadsOn, SameBuffer, SameAccess

LEMMA LoadedFields ==
  ASSUME NEW fl \in StreamType, NEW fi, FileOK(fi), NEW n \in Nat,
         fi.off + n <= Len(fi.data)
  PROVE  /\ Loaded(fl, fi, n) \in [-1 .. BUFSIZ - 1 -> Byte \cup {Junk}]
         /\ \A i \in 0 .. n - 1 : i <= BUFSIZ - 1 =>
              /\ Loaded(fl, fi, n)[i] = fi.data[fi.off + i + 1]
              /\ fi.data[fi.off + i + 1] \in Byte
<1>1. PICK q \in Nat, k \in Nat : q = fi.off /\ k = Len(fi.data)
  BY LenProperties DEF FileOK, FileType
<1>2. ASSUME NEW i \in 0 .. n - 1 PROVE fi.data[q + i + 1] \in Byte
  <2>1. q + i + 1 \in 1 .. Len(fi.data)
    BY <1>1
  <2>2. QED
    BY <2>1, ElementOfSeq DEF FileOK, FileType
<1>3. Loaded(fl, fi, n) = [i \in -1 .. BUFSIZ - 1 |->
        IF i \in 0 .. n - 1 THEN fi.data[q + i + 1] ELSE fl.buf[i]]
  BY <1>1 DEF Loaded, StreamType
<1>4. \A i \in -1 .. BUFSIZ - 1 : fl.buf[i] \in Byte \cup {Junk}
  BY DEF StreamType
<1>5. QED
  BY <1>1, <1>2, <1>3, <1>4, SMTT(20)

\* The read that gave n bytes.
LEMMA BytesRead ==
  ASSUME NEW fl, NEW fi, Readable(fl, fi, 0), "RD" \in fl.flags,
         "EOF" \notin fl.flags,
         NEW n \in Nat, 0 < n, n <= fl.bsize, fi.off + n <= Len(fi.data)
  PROVE  LET g == [fl EXCEPT !.buf = Loaded(fl, fi, n), !.ptr = 0, !.cnt = n]
             gi == [fi EXCEPT !.off = @ + n]
         IN /\ Readable(g, gi, 0) /\ ReadsOn(fl, fi, g, gi)
            /\ "RD" \in g.flags /\ g.cnt = n
<1>16. PICK g :
         g = [fl EXCEPT !.buf = Loaded(fl, fi, n), !.ptr = 0, !.cnt = n]
  OBVIOUS
<1>17. PICK gi : gi = [fi EXCEPT !.off = @ + n]
  OBVIOUS
<1>1. PICK q \in Nat, k \in Nat, m \in Nat :
        /\ q = fi.off /\ k = Len(fi.data) /\ m = fl.bsize
        /\ m <= BUFSIZ
  BY StreamAssumption, LenProperties
     DEF Readable, FileOK, FileType, Buffered, StreamType
<1>2. PICK b : b = Loaded(fl, fi, n)
  OBVIOUS
<1>3. fl \in StreamType /\ FileOK(fi) /\ fi \in FileType
  BY DEF Readable, Buffered, FileOK
<1>4. /\ b \in [-1 .. BUFSIZ - 1 -> Byte \cup {Junk}]
      /\ \A i \in 0 .. n - 1 : /\ b[i] = fi.data[q + i + 1]
                               /\ b[i] \in Byte
  <2>1. /\ b \in [-1 .. BUFSIZ - 1 -> Byte \cup {Junk}]
        /\ \A i \in 0 .. n - 1 : i <= BUFSIZ - 1 =>
             /\ b[i] = fi.data[q + i + 1]
             /\ fi.data[q + i + 1] \in Byte
    BY <1>1, <1>2, <1>3, LoadedFields
  <2>2. \A i \in 0 .. n - 1 : i <= BUFSIZ - 1
    BY <1>1, StreamAssumption
  <2>3. QED
    BY <2>1, <2>2
<1>5. PICK z \in Int, e \in Int : z = 0 /\ e = n
  OBVIOUS
<1>6. g = [fl EXCEPT !.buf = b, !.ptr = z, !.cnt = e]
  BY <1>2, <1>5, <1>16
<1>7. /\ g \in StreamType /\ g.base = fl.base /\ g.buf = b /\ g.ptr = z
      /\ g.cnt = e /\ g.bsize = fl.bsize /\ g.flags = fl.flags
  BY <1>3, <1>4, <1>6 DEF StreamType
<1>8. PICK w \in Nat : w = q + n
  OBVIOUS
<1>9. /\ gi \in FileType /\ gi.data = fi.data /\ gi.off = w
      /\ SameAccess(fi, gi)
  <2>1. gi = [fi EXCEPT !.off = w]
    BY <1>1, <1>3, <1>8, <1>17 DEF FileType
  <2>2. QED
    BY <1>3, <2>1 DEF FileType, SameAccess
<1>10. FileOK(gi)
  BY <1>1, <1>8, <1>9 DEF FileOK
<1>11. /\ "WR" \notin fl.flags /\ "DIRTY" \notin fl.flags
       /\ "RESERVE" \in fl.flags => "FREEBUF" \in fl.flags /\ fl.base
       /\ fl.base <=> 0 < fl.bsize
  BY DEF Readable, Buffered
<1>12. Defined(g, g.ptr, g.ptr + g.cnt - 1)
  <2>1. \A i \in 0 .. n - 1 : g.buf[i] \in Byte
    BY <1>4, <1>7
  <2>2. g.ptr = 0 /\ g.ptr + g.cnt - 1 = n - 1
    BY <1>5, <1>7
  <2>3. QED
    BY <2>1, <2>2 DEF Defined
<1>13. Buffered(g)
  <2>1. /\ 0 <= g.cnt /\ Lowest(g) <= g.ptr /\ g.ptr + g.cnt <= g.bsize
    BY <1>1, <1>5, <1>7 DEF Lowest
  <2>2. QED
    BY <1>7, <1>11, <1>12, <2>1 DEF Buffered
<1>14. ReadsAt(g, gi, 0)
  <2>1. ASSUME NEW i \in 1 .. n
        PROVE  At(g, i) = gi.data[gi.off - g.cnt + i]
    <3>1. PICK j \in 0 .. n - 1 : j = i - 1
      BY i - 1 \in 0 .. n - 1
    <3>2. b[j] = fi.data[q + j + 1]
      BY <1>4
    <3>3. g.ptr + i - 1 = j /\ gi.off - g.cnt + i = q + j + 1
      BY <1>5, <1>7, <1>8, <1>9, <3>1
    <3>4. QED
      BY <1>7, <1>9, <3>2, <3>3 DEF At
  <2>2. \A i \in 0 + 1 .. g.cnt : At(g, i) = gi.data[gi.off - g.cnt + i]
    BY <1>5, <1>7, <2>1
  <2>3. QED
    BY <1>5, <1>7, <2>2 DEF ReadsAt
<1>15. /\ Readable(g, gi, 0) /\ ReadsOn(fl, fi, g, gi)
       /\ "RD" \in g.flags /\ g.cnt = n
  BY <1>5, <1>7, <1>9, <1>10, <1>11, <1>13, <1>14 DEF Readable, ReadsOn, SameAccess
<1>18. QED
  BY <1>15, <1>16, <1>17


LEMMA ReadsOnTwice ==
  ASSUME NEW fl, NEW fi, NEW g, NEW gi, NEW h, NEW hi,
         ReadsOn(fl, fi, g, gi), ReadsOn(g, gi, h, hi)
  PROVE  ReadsOn(fl, fi, h, hi)
BY DEF ReadsOn, SameAccess

LEMMA RefillOK ==
  ASSUME NEW fl, NEW fi, Readable(fl, fi, 0), "RD" \in fl.flags,
         fl.cnt = 0, "EOF" \notin fl.flags, NEW o \in Refill(fl, fi)
  PROVE  /\ Readable(o.f, o.file, 0) /\ ReadsOn(fl, fi, o.f, o.file)
         /\ o.ok \in BOOLEAN
         /\ o.ok => "RD" \in o.f.flags /\ 0 < o.f.cnt
<1>1. PICK n \in ReadCounts(fl, fi) :
        o = IF n <= 0
            THEN Outcome([On(fl, {IF n = 0 THEN "EOF" ELSE "ERR"})
                            EXCEPT !.cnt = 0], fi, FALSE)
            ELSE Outcome([fl EXCEPT !.buf = Loaded(fl, fi, n), !.ptr = 0,
                                    !.cnt = n],
                         [fi EXCEPT !.off = @ + n], TRUE)
  BY DEF Refill
<1>2. Buffered(fl) /\ FileOK(fi)
  BY DEF Readable
<1>3. \/ n = -1
      \/ n = 0 /\ fi.read /\ (fi.off = Len(fi.data) \/ fl.bsize = 0)
      \/ n \in Nat /\ 0 < n /\ n <= fl.bsize /\ fi.off + n <= Len(fi.data)
  BY <1>2, ReadCountsOK
<1>4. CASE n = -1 \/ n = 0
  <2>1. PICK flag \in {"EOF", "ERR"} : flag = IF n = 0 THEN "EOF" ELSE "ERR"
    OBVIOUS
  <2>2. flag = "EOF" /\ "read_unbuffered" \notin Habits
          => fi.off = Len(fi.data)
    <3>1. SUFFICES ASSUME flag = "EOF", "read_unbuffered" \notin Habits
                   PROVE  fi.off = Len(fi.data)
      OBVIOUS
    <3>2. n = 0
      BY <2>1, <3>1
    <3>3. fi.read /\ (fi.off = Len(fi.data) \/ fl.bsize = 0)
      BY <1>3, <3>2
    <3>4. fl.base
      BY <3>1, <3>3 DEF Readable
    <3>5. fl.bsize # 0
      BY <1>2, <3>4 DEF Buffered
    <3>6. QED
      BY <3>3, <3>5
  <2>3. PICK g : g = [On(fl, {flag}) EXCEPT !.cnt = 0]
    OBVIOUS
  <2>4. o.f = g /\ o.file = fi /\ o.ok = FALSE
    BY <1>1, <1>4, <2>1, <2>3 DEF Outcome
  <2>5. Readable(g, fi, 0) /\ ReadsOn(fl, fi, g, fi)
    BY <2>2, <2>3, NothingRead
  <2>6. QED
    BY <2>4, <2>5
<1>5. CASE n \in Nat /\ 0 < n /\ n <= fl.bsize /\ fi.off + n <= Len(fi.data)
  <2>1. PICK g : g = [fl EXCEPT !.buf = Loaded(fl, fi, n), !.ptr = 0, !.cnt = n]
    OBVIOUS
  <2>2. PICK gi : gi = [fi EXCEPT !.off = @ + n]
    OBVIOUS
  <2>3. ~(n <= 0)
    BY <1>5
  <2>4. o.f = g /\ o.file = gi /\ o.ok = TRUE
    BY <1>1, <2>1, <2>2, <2>3 DEF Outcome
  <2>5. /\ Readable(g, gi, 0) /\ ReadsOn(fl, fi, g, gi)
        /\ "RD" \in g.flags /\ g.cnt = n
    <3>1. PICK k \in Nat : k = n
      BY <1>5
    <3>2. 0 < k /\ k <= fl.bsize /\ fi.off + k <= Len(fi.data)
      BY <1>5, <3>1
    <3>3. /\ g = [fl EXCEPT !.buf = Loaded(fl, fi, k), !.ptr = 0, !.cnt = k]
          /\ gi = [fi EXCEPT !.off = @ + k]
      BY <2>1, <2>2, <3>1
    <3>4. /\ Readable(g, gi, 0) /\ ReadsOn(fl, fi, g, gi)
          /\ "RD" \in g.flags /\ g.cnt = k
      BY <3>2, <3>3, BytesRead
    <3>5. QED
      BY <3>1, <3>4
  <2>6. QED
    BY <1>5, <2>4, <2>5
<1>6. QED
  BY <1>3, <1>4, <1>5

\* fill_impl, for a buffer with nothing left.
LEMMA FillOK ==
  ASSUME NEW fl, NEW fi, Readable(fl, fi, 0), fl.cnt = 0,
         NEW o \in fill_impl(fl, fi)
  PROVE  /\ Readable(o.f, o.file, 0) /\ ReadsOn(fl, fi, o.f, o.file)
         /\ o.ok \in BOOLEAN
         /\ o.ok => "RD" \in o.f.flags /\ 0 < o.f.cnt
<1>1. CASE fl.flags \cap {"EOF", "ERR"} # {}
  <2>1. o.f = fl /\ o.file = fi /\ o.ok = FALSE
    BY <1>1 DEF fill_impl, Outcome
  <2>2. QED
    BY <2>1 DEF ReadsOn, SameAccess
<1>2. CASE fl.flags \cap {"EOF", "ERR"} = {}
  <2>1. PICK e \in flush_impl(fl, fi) :
          o \in IF e.ok THEN Refill(On(Off(e.f, {"WR"}), {"RD"}), e.file)
                ELSE {e}
    BY <1>2 DEF fill_impl
  <2>2. ~MustFlush(fl)
    BY DEF MustFlush, Readable
  <2>3. e.f = fl /\ e.file = fi /\ e.ok = TRUE
    BY <2>1, <2>2 DEF flush_impl, Outcome
  <2>4. PICK d : d = Off(fl, {"WR"})
    OBVIOUS
  <2>5. /\ d \in StreamType /\ SameBuffer(fl, d) /\ d.ptr = fl.ptr
        /\ d.cnt = fl.cnt /\ d.flags = fl.flags \ {"WR"}
    BY <2>4, OffFields DEF Readable, Buffered
  <2>6. PICK S \in SUBSET Flags : S = {"RD"}
    BY DEF Flags
  <2>7. PICK h : h = On(d, S)
    OBVIOUS
  <2>8. /\ h \in StreamType /\ SameBuffer(d, h) /\ h.ptr = d.ptr
        /\ h.cnt = d.cnt /\ h.flags = d.flags \cup S
    BY <2>5, <2>7, OnFields
  <2>9. /\ SameBuffer(fl, h) /\ h.ptr = fl.ptr /\ h.cnt = 0
        /\ h.flags = fl.flags \cup {"RD"}
    BY <2>5, <2>6, <2>8 DEF SameBuffer, Readable
  <2>10. "DIRTY" \notin fl.flags /\ fl.ptr \in Int
    BY DEF Readable, Buffered, StreamType
  <2>11. Defined(h, h.ptr, h.ptr + h.cnt - 1)
    BY <2>9, <2>10 DEF Defined
  <2>12. Buffered(h)
    BY <2>8, <2>9, <2>10, <2>11 DEF Readable, Buffered, Lowest, SameBuffer
  <2>13. "EOF" \notin h.flags
    BY <1>2, <2>9
  <2>14. ReadsAt(h, fi, 0)
    BY <2>9, <2>13 DEF ReadsAt
  <2>15. Readable(h, fi, 0) /\ ReadsOn(fl, fi, h, fi)
    BY <2>9, <2>12, <2>14 DEF Readable, ReadsOn, SameBuffer, SameAccess
  <2>16. o \in Refill(h, fi)
    BY <2>1, <2>3, <2>4, <2>6, <2>7
  <2>17. /\ Readable(o.f, o.file, 0) /\ ReadsOn(h, fi, o.f, o.file)
         /\ o.ok \in BOOLEAN
         /\ o.ok => "RD" \in o.f.flags /\ 0 < o.f.cnt
    BY <2>9, <2>13, <2>15, <2>16, RefillOK
  <2>18. QED
    BY <2>15, <2>17, ReadsOnTwice
<1>3. QED
  BY <1>1, <1>2

\* Before a byte is taken.
LEMMA FilledOK ==
  ASSUME Readable(f, file, npush), NEW o \in Filled
  PROVE  /\ Readable(o.f, o.file, npush) /\ ReadsOn(f, file, o.f, o.file)
         /\ o.ok \in BOOLEAN
         /\ o.ok => "RD" \in o.f.flags /\ 0 < o.f.cnt
<1>1. f.cnt \in Int /\ 0 <= f.cnt /\ npush \in Nat /\ npush <= f.cnt
  BY DEF Readable, Buffered, StreamType, ReadsAt
<1>2. CASE f.cnt > 0
  <2>1. o.f = f /\ o.file = file /\ o.ok = TRUE
    BY <1>2 DEF Filled, Same, Outcome
  <2>2. QED
    <3>1. "RD" \in f.flags /\ 0 < f.cnt
      BY <1>2 DEF Readable
    <3>2. ReadsOn(f, file, f, file)
      BY DEF ReadsOn, SameAccess
    <3>3. QED
      BY <2>1, <3>1, <3>2
<1>3. CASE ~(f.cnt > 0)
  <2>1. f.cnt = 0 /\ npush = 0
    BY <1>1, <1>3
  <2>2. o \in fill_impl(f, file)
    BY <1>3 DEF Filled
  <2>3. QED
    BY <2>1, <2>2, FillOK
<1>4. QED
  BY <1>2, <1>3


\* n bytes are taken: they are bytes, and the rest is what is next in the
\* file.
LEMMA TakeOK ==
  ASSUME NEW fl, NEW fi, NEW np, Readable(fl, fi, np), "RD" \in fl.flags,
         NEW n \in Nat, 0 < n, n <= fl.cnt
  PROVE  /\ Readable(Take(fl, n), fi, IF np > n THEN np - n ELSE 0)
         /\ ReadsOn(fl, fi, Take(fl, n), fi)
         /\ "RD" \in Take(fl, n).flags
         /\ Next_n(fl, n) \in Seq(Byte) /\ At(fl, 1) \in Byte
<1>1. PICK p \in Int, c \in Nat, m \in Nat, q \in Nat :
        p = fl.ptr /\ c = fl.cnt /\ m = np /\ q = fi.off
  <2>1. fl.cnt \in Nat /\ fl.ptr \in Int
    BY DEF Readable, Buffered, StreamType
  <2>2. np \in Nat /\ fi.off \in Nat
    BY DEF Readable, ReadsAt, FileOK, FileType
  <2>3. QED
    BY <2>1, <2>2
<1>2. PICK a \in Int, d \in Nat : a = p + n /\ d = c - n
  <2>1. p + n \in Int /\ c - n \in Nat
    BY <1>1
  <2>2. QED
    BY <2>1
<1>3. PICK k \in Nat : k = IF m > n THEN m - n ELSE 0
  <2>1. (IF m > n THEN m - n ELSE 0) \in Nat
    OBVIOUS
  <2>2. QED
    BY <2>1
<1>4. PICK g : g = Take(fl, n)
  OBVIOUS
<1>5. /\ g \in StreamType /\ SameBuffer(fl, g) /\ g.ptr = a /\ g.cnt = d
      /\ g.flags = fl.flags
  <2>1. g = [fl EXCEPT !.ptr = a, !.cnt = d]
    BY <1>1, <1>2, <1>4 DEF Take, Readable, Buffered, StreamType
  <2>2. a \in Int /\ d \in Int /\ fl \in StreamType
    BY <1>2 DEF Readable, Buffered
  <2>3. QED
    BY <2>1, <2>2 DEF StreamType, SameBuffer
<1>6. \A i \in p .. p + c - 1 : fl.buf[i] \in Byte
  BY <1>1 DEF Readable, Buffered, Defined
<1>7. /\ "WR" \notin fl.flags /\ "DIRTY" \notin fl.flags
      /\ "RESERVE" \in fl.flags => "FREEBUF" \in fl.flags /\ fl.base
      /\ fl.base <=> 0 < fl.bsize
  BY DEF Readable, Buffered
<1>8. Defined(g, g.ptr, g.ptr + g.cnt - 1)
  <2>1. \A i \in a .. a + d - 1 : i \in p .. p + c - 1
    BY <1>2
  <2>2. g.buf = fl.buf
    BY <1>5 DEF SameBuffer
  <2>3. QED
    BY <1>5, <1>6, <2>1, <2>2 DEF Defined
<1>9. 0 <= d /\ Lowest(g) <= a /\ a + d <= g.bsize
  <2>1. PICK l \in Int, s \in Nat : l = Lowest(fl) /\ s = fl.bsize
    BY StreamAssumption DEF Lowest, Readable, Buffered, StreamType
  <2>2. l <= p /\ p + c <= s
    BY <1>1, <2>1 DEF Readable, Buffered
  <2>3. l <= a /\ a + d <= s
    BY <1>2, <2>2
  <2>4. Lowest(g) = l /\ g.bsize = s
    BY <1>5, <2>1 DEF Lowest, SameBuffer
  <2>5. QED
    BY <2>3, <2>4
<1>10. Buffered(g)
  BY <1>5, <1>7, <1>8, <1>9 DEF Buffered, SameBuffer
<1>11. ReadsAt(g, fi, k)
  <2>1. m <= c
    BY <1>1 DEF Readable, ReadsAt
  <2>2. k <= d
    BY <1>2, <1>3, <2>1
  <2>3. ASSUME NEW i \in k + 1 .. d
        PROVE  At(g, i) = fi.data[q - d + i]
    <3>1. PICK j \in Int : j = n + i
      BY n + i \in Int
    <3>2. j \in m + 1 .. c
      BY <1>2, <1>3, <3>1
    <3>3. fl.buf[p + j - 1] = fi.data[q - c + j]
      BY <1>1, <3>2 DEF Readable, ReadsAt, At
    <3>4. p + j - 1 = a + i - 1 /\ q - c + j = q - d + i
      BY <1>2, <3>1
    <3>5. At(g, i) = fl.buf[a + i - 1]
      BY <1>5 DEF At, SameBuffer
    <3>6. QED
      BY <3>3, <3>4, <3>5
  <2>4. "EOF" \in fl.flags => "read_unbuffered" \in Habits
    <3>1. c # 0
      BY <1>1
    <3>2. QED
      BY <1>1, <3>1 DEF Readable, ReadsAt
  <2>5. QED
    BY <1>1, <1>5, <2>2, <2>3, <2>4 DEF ReadsAt
<1>12. /\ Readable(g, fi, k) /\ ReadsOn(fl, fi, g, fi) /\ "RD" \in g.flags
  BY <1>5, <1>7, <1>10, <1>11 DEF Readable, ReadsOn, SameBuffer, SameAccess
<1>13. \A i \in 1 .. n : At(fl, i) \in Byte
  <2>1. SUFFICES ASSUME NEW i \in 1 .. n PROVE At(fl, i) \in Byte
    OBVIOUS
  <2>2. p + i - 1 \in p .. p + c - 1
    BY <1>1
  <2>3. QED
    BY <1>1, <1>6, <2>2 DEF At
<1>14. Next_n(fl, n) \in Seq(Byte)
  <2>1. Next_n(fl, n) \in [1 .. n -> Byte]
    BY <1>13 DEF Next_n
  <2>2. QED
    BY <2>1, FunctionIsSeq
<1>15. QED
  BY <1>1, <1>3, <1>4, <1>12, <1>13, <1>14

LEMMA ReadStep ==
  ASSUME StreamInv, Readable(f', file', npush'), ReadsOn(f, file, f', file'),
         mode' = mode, last' = "read",
         Calls(f', call', last'), out' \in Seq(Int), ret' \in {"ok", "fail"}
  PROVE  StreamInv'
<1>1. /\ Buffered(f') /\ FileOK(file') /\ ReadsAt(f', file', npush')
      /\ "WR" \notin f'.flags
      /\ "RD" \notin f'.flags => f'.cnt = 0
      /\ ~f'.base /\ file'.read => "read_unbuffered" \in Habits
  BY DEF Readable
<1>2. Rules(f', file', mode', last', npush')
  BY <1>1 DEF StreamInv, Rules, ReadsOn
<1>3. QED
  BY <1>1, <1>2 DEF StreamInv

\* The program is allowed to read: it does not write, and what is buffered
\* is to be read.
LEMMA MayReadOK ==
  ASSUME Careful, StreamInv, MayRead
  PROVE  /\ "WR" \notin f.flags
         /\ ~(last = "open" /\ Neutral /\ f.cnt > 0)
              => Readable(f, file, npush)
<1>1. /\ file.read /\ last # "write" /\ last # "flush"
  BY DEF MayRead, Careful
<1>2. "WR" \notin f.flags
  BY <1>1 DEF StreamInv, Rules
<1>3. ASSUME ~(last = "open" /\ Neutral /\ f.cnt > 0), "RD" \notin f.flags
      PROVE  f.cnt = 0
  <2>1. f.cnt # 0 => last = "open"
    BY <1>2, <1>3 DEF StreamInv, Rules
  <2>2. f.cnt # 0 => f.cnt > 0
    BY DEF StreamInv, Buffered, StreamType
  <2>3. QED
    BY <1>2, <1>3, <2>1, <2>2 DEF Neutral, Has
<1>4. QED
  BY <1>2, <1>3 DEF StreamInv, Rules, Readable

LEMMA FgetcStep ==
  ASSUME Careful, StreamInv, Fgetc
  PROVE  StreamInv'
<1>1. PICK o \in Filled :
        /\ file' = o.file
        /\ IF o.ok THEN Deliver(o.f, 1) /\ End(<<At(o.f, 1)>>, TRUE)
           ELSE f' = o.f /\ npush' = npush /\ End(<<>>, FALSE)
  BY DEF Fgetc
<1>2. MayGet /\ last' = "read" /\ mode' = mode
  BY DEF Fgetc
<1>3. Readable(f, file, npush)
  BY <1>2, MayReadOK DEF MayGet, Careful
<1>4. /\ Readable(o.f, o.file, npush) /\ ReadsOn(f, file, o.f, o.file)
      /\ o.ok => "RD" \in o.f.flags /\ 0 < o.f.cnt
  BY <1>3, FilledOK
<1>5. CASE ~o.ok
  <2>1. f' = o.f /\ npush' = npush /\ End(<<>>, FALSE)
    BY <1>1, <1>5
  <2>2. /\ Calls(f', call', last')
        /\ out' \in Seq(Int) /\ ret' \in {"ok", "fail"}
    BY <2>1, EndsEmpty
  <2>3. QED
    BY <1>1, <1>2, <1>4, <2>1, <2>2, ReadStep
<1>6. CASE o.ok
  <2>1. f' = Take(o.f, 1) /\ npush' = IF npush > 1 THEN npush - 1 ELSE 0
    BY <1>1, <1>6 DEF Deliver
  <2>2. 1 <= o.f.cnt
    BY <1>4, <1>6 DEF Readable, Buffered, StreamType
  <2>3. /\ Readable(f', file', npush') /\ ReadsOn(o.f, o.file, f', file')
        /\ At(o.f, 1) \in Byte
    BY <1>1, <1>4, <1>6, <2>1, <2>2, TakeOK
  <2>4. ReadsOn(f, file, f', file')
    BY <1>4, <2>3, ReadsOnTwice
  <2>5. <<At(o.f, 1)>> \in Seq(Int)
    <3>1. PICK b \in Byte : b = At(o.f, 1)
      BY <2>3
    <3>2. <<b>> \in Seq(Int)
      <4>1. b \in Int
        BY <3>1, StreamAssumption
      <4>2. QED
        BY <4>1
    <3>3. QED
      BY <3>1, <3>2
  <2>6. /\ Calls(f', call', last')
        /\ out' \in Seq(Int) /\ ret' \in {"ok", "fail"}
    BY <1>1, <1>6, <2>5, EndOK
  <2>7. QED
    BY <1>2, <2>3, <2>4, <2>6, ReadStep
<1>7. QED
  BY <1>5, <1>6

LEMMA FgetsStep ==
  ASSUME Careful, StreamInv, NEW n \in 1 .. MaxCall, Fgets(n)
  PROVE  StreamInv'
<1>1. /\ MayGet /\ call' = [op |-> "fgets", rest |-> <<>>, want |-> n]
      /\ out' = <<>> /\ last' = "read"
      /\ UNCHANGED <<f, file, mode, npush, ret>>
  BY DEF Fgets
<1>2. Readable(f, file, npush)
  BY <1>1, MayReadOK DEF MayGet, Careful
<1>3. ReadsOn(f, file, f, file)
  BY DEF ReadsOn, SameAccess
<1>4. call' \in CallType
  BY <1>1, StreamAssumption DEF CallType
<1>5. Calls(f', call', last')
  BY <1>1, <1>2, <1>4 DEF Calls, Readable
<1>6. out' \in Seq(Int) /\ ret' \in {"ok", "fail"}
  BY <1>1 DEF StreamInv
<1>7. QED
  BY <1>1, <1>2, <1>3, <1>5, <1>6, ReadStep


LEMMA ToReadOK ==
  ASSUME NEW fl, Buffered(fl), NEW fi, NEW np, ReadsAt(fl, fi, np),
         "WR" \notin fl.flags, "RD" \notin fl.flags, FileOK(fi),
         ~fl.base /\ fi.read => "read_unbuffered" \in Habits
  PROVE  Readable(ToRead(fl), fi, 0) /\ ReadsOn(fl, fi, ToRead(fl), fi)
<1>1. PICK S \in SUBSET Flags : S = {"RD"}
  BY DEF Flags
<1>2. PICK z \in Int : z = 0
  OBVIOUS
<1>3. PICK h : h = On(fl, S)
  OBVIOUS
<1>4. h \in StreamType /\ SameBuffer(fl, h) /\ h.flags = fl.flags \cup S
  BY <1>3, OnFields DEF Buffered
<1>5. PICK g : g = [h EXCEPT !.cnt = z, !.ptr = z]
  OBVIOUS
<1>6. g = ToRead(fl)
  BY <1>1, <1>2, <1>3, <1>5 DEF ToRead
<1>7. /\ g \in StreamType /\ SameBuffer(h, g) /\ g.cnt = z /\ g.ptr = z
      /\ g.flags = h.flags
  BY <1>4, <1>5 DEF StreamType, SameBuffer
<1>8. /\ SameBuffer(fl, g) /\ g.cnt = 0 /\ g.ptr = 0
      /\ g.flags = fl.flags \cup {"RD"}
  BY <1>1, <1>2, <1>4, <1>7 DEF SameBuffer
<1>9. Defined(g, g.ptr, g.ptr + g.cnt - 1)
  BY <1>8 DEF Defined
<1>10. PICK m \in Nat : m = fl.bsize
  BY StreamAssumption DEF Buffered, StreamType
<1>11. /\ "DIRTY" \notin fl.flags /\ (fl.base <=> 0 < fl.bsize)
       /\ "RESERVE" \in fl.flags => "FREEBUF" \in fl.flags /\ fl.base
  BY DEF Buffered
<1>12. Buffered(g)
  <2>1. 0 <= g.cnt /\ Lowest(g) <= g.ptr /\ g.ptr + g.cnt <= g.bsize
    BY <1>8, <1>10 DEF Lowest, SameBuffer
  <2>2. QED
    BY <1>7, <1>8, <1>9, <1>11, <2>1 DEF Buffered, SameBuffer
<1>13. ReadsAt(g, fi, 0)
  BY <1>8 DEF ReadsAt
<1>14. Readable(g, fi, 0) /\ ReadsOn(fl, fi, g, fi)
  BY <1>8, <1>12, <1>13 DEF Readable, ReadsOn, SameBuffer, SameAccess
<1>15. QED
  BY <1>6, <1>14

LEMMA FreadStep ==
  ASSUME Careful, StreamInv, NEW n \in 1 .. MaxCall, Fread(n)
  PROVE  StreamInv'
<1>1. MayRead /\ last' = "read" /\ UNCHANGED <<file, mode>>
  BY DEF Fread
<1>2. "WR" \notin f.flags
  BY <1>1, MayReadOK
<1>3. /\ IF Has(f, "RD") THEN f' = f /\ npush' = npush
         ELSE f' = ToRead(f) /\ npush' = 0
      /\ call' = [op |-> "fread", rest |-> <<>>, want |-> n]
      /\ out' = <<>> /\ ret' = ret
  BY <1>2 DEF Fread, Has
<1>4. Readable(f', file', npush') /\ ReadsOn(f, file, f', file')
  <2>1. CASE Has(f, "RD")
    <3>1. Readable(f, file, npush)
      BY <1>1, <2>1, MayReadOK DEF Neutral
    <3>2. QED
      BY <1>1, <1>3, <2>1, <3>1 DEF ReadsOn, SameAccess
  <2>2. CASE ~Has(f, "RD")
    <3>1. ~f.base /\ file.read => "read_unbuffered" \in Habits
      BY DEF StreamInv, Rules
    <3>2. Readable(ToRead(f), file, 0) /\ ReadsOn(f, file, ToRead(f), file)
      BY <1>2, <2>2, <3>1, ToReadOK DEF StreamInv, Has
    <3>3. QED
      BY <1>1, <1>3, <2>2, <3>2
  <2>3. QED
    BY <2>1, <2>2
<1>5. call' \in CallType
  BY <1>3, StreamAssumption DEF CallType
<1>6. Calls(f', call', last')
  BY <1>1, <1>3, <1>4, <1>5 DEF Calls, Readable
<1>7. out' \in Seq(Int) /\ ret' \in {"ok", "fail"}
  BY <1>3 DEF StreamInv
<1>8. QED
  BY <1>1, <1>4, <1>6, <1>7, ReadStep

LEMMA ReadTurnStep ==
  ASSUME StreamInv, ReadTurn
  PROVE  StreamInv'
<1>1. /\ call.op \in {"fgets", "fread"} /\ UNCHANGED <<mode, last>>
  BY DEF ReadTurn
<1>2. PICK o \in Filled :
        /\ file' = o.file
        /\ \/ /\ ~o.ok
              /\ f' = o.f /\ npush' = npush
              /\ End(out, FALSE)
           \/ /\ o.ok
              /\ LET n == IF call.op = "fgets" THEN 1
                          ELSE Least(call.want, o.f.cnt)
                     bytes == Next_n(o.f, n)
                 IN
                 /\ Deliver(o.f, n)
                 /\ out' = out \o bytes /\ ret' = "ok"
                 /\ call' = IF \/ call.want = n
                               \/ call.op = "fgets" /\ bytes[1] = Newline
                            THEN NoCall ELSE [call EXCEPT !.want = @ - n]
  BY DEF ReadTurn
<1>3. /\ "WR" \notin f.flags /\ last = "read" /\ call.want \in 1 .. MaxCall
      /\ call \in CallType
  BY <1>1 DEF StreamInv, Calls
<1>4. Readable(f, file, npush)
  BY <1>3 DEF StreamInv, Rules, Readable
<1>5. /\ Readable(o.f, o.file, npush) /\ ReadsOn(f, file, o.f, o.file)
      /\ o.ok => "RD" \in o.f.flags /\ 0 < o.f.cnt
  BY <1>4, FilledOK
<1>6. CASE ~o.ok
  <2>1. f' = o.f /\ npush' = npush /\ End(out, FALSE)
    BY <1>2, <1>6
  <2>2. /\ Calls(f', call', last')
        /\ out' \in Seq(Int) /\ ret' \in {"ok", "fail"}
    BY <2>1, EndOK DEF StreamInv
  <2>3. QED
    BY <1>1, <1>2, <1>3, <1>5, <2>1, <2>2, ReadStep
<1>7. CASE o.ok
  <2>1. PICK n : n = IF call.op = "fgets" THEN 1 ELSE Least(call.want, o.f.cnt)
    OBVIOUS
  <2>2. PICK bytes : bytes = Next_n(o.f, n)
    OBVIOUS
  <2>3. /\ Deliver(o.f, n)
        /\ out' = out \o bytes /\ ret' = "ok"
        /\ call' = IF \/ call.want = n
                      \/ call.op = "fgets" /\ bytes[1] = Newline
                   THEN NoCall ELSE [call EXCEPT !.want = @ - n]
    BY <1>2, <1>7, <2>1, <2>2
  <2>4. PICK w \in Nat, c \in Nat : w = call.want /\ c = o.f.cnt
    <3>1. o.f.cnt \in Nat
      BY <1>5 DEF Readable, Buffered, StreamType
    <3>2. call.want \in Nat
      BY <1>3
    <3>3. QED
      BY <3>1, <3>2
  <2>5. 0 < w /\ 0 < c /\ w <= MaxCall
    BY <1>3, <1>5, <1>7, <2>4, StreamAssumption
  <2>6. n \in Nat /\ 0 < n /\ n <= c /\ n <= w
    BY <2>1, <2>4, <2>5 DEF Least
  <2>7. f' = Take(o.f, n) /\ npush' = IF npush > n THEN npush - n ELSE 0
    BY <2>3 DEF Deliver
  <2>8. /\ Readable(f', file', npush') /\ ReadsOn(o.f, o.file, f', file')
        /\ bytes \in Seq(Byte)
    BY <1>2, <1>5, <1>7, <2>2, <2>4, <2>6, <2>7, TakeOK
  <2>9. ReadsOn(f, file, f', file')
    BY <1>5, <2>8, ReadsOnTwice
  <2>10. out' \in Seq(Int)
    <3>1. bytes \in Seq(Int)
      BY <2>8, BytesAreInts
    <3>2. out \in Seq(Int)
      BY DEF StreamInv
    <3>3. QED
      BY <2>3, <3>1, <3>2, ConcatProperties
  <2>11. Calls(f', call', last')
    <3>1. CASE call' = NoCall
      BY <3>1, NoCallOK
    <3>2. CASE call' # NoCall
      <4>1. call' = [call EXCEPT !.want = @ - n] /\ w # n
        BY <2>3, <2>4, <3>2
      <4>2. PICK v \in 1 .. MaxCall : v = w - n
        <5>1. w - n \in 1 .. MaxCall
          BY <2>5, <2>6, <4>1, StreamAssumption
        <5>2. QED
          BY <5>1
      <4>3. call' = [call EXCEPT !.want = v]
        BY <1>3, <2>4, <4>1, <4>2 DEF CallType
      <4>4. v \in 0 .. MaxCall
        BY <4>2, StreamAssumption
      <4>5. call' \in CallType /\ call'.op = call.op /\ call'.want = v
        BY <1>3, <4>3, <4>4 DEF CallType
      <4>6. QED
        BY <1>1, <1>3, <2>8, <4>5 DEF Calls, Readable
    <3>3. QED
      BY <3>1, <3>2
  <2>12. QED
    BY <1>1, <1>3, <2>3, <2>8, <2>9, <2>10, <2>11, ReadStep
<1>8. QED
  BY <1>6, <1>7


\* A byte is pushed back: what follows it is still what is next in the file.
LEMMA PushOK ==
  ASSUME NEW fl, NEW fi, NEW np, Readable(fl, fi, np), "RD" \in fl.flags,
         CanPush(fl), NEW b \in Byte
  PROVE  LET g == [Off(fl, {"EOF"}) EXCEPT !.ptr = @ - 1, !.cnt = @ + 1,
                                           !.buf[fl.ptr - 1] = b]
         IN Readable(g, fi, np + 1) /\ ReadsOn(fl, fi, g, fi)
<1>1. PICK p \in Int, c \in Nat, m \in Nat, q \in Nat, s \in Nat :
        p = fl.ptr /\ c = fl.cnt /\ m = np /\ q = fi.off /\ s = fl.bsize
  <2>1. fl.cnt \in Nat /\ fl.ptr \in Int
    BY DEF Readable, Buffered, StreamType
  <2>2. np \in Nat /\ fi.off \in Nat
    BY DEF Readable, ReadsAt, FileOK, FileType
  <2>3. fl.bsize \in Nat
    BY StreamAssumption DEF Readable, Buffered, StreamType
  <2>4. QED
    BY <2>1, <2>2, <2>3
<1>2. PICK a \in Int, d \in Nat : a = p - 1 /\ d = c + 1
  <2>1. p - 1 \in Int /\ c + 1 \in Nat
    BY <1>1
  <2>2. QED
    BY <2>1
<1>3. PICK h : h = Off(fl, {"EOF"})
  OBVIOUS
<1>4. /\ h \in StreamType /\ SameBuffer(fl, h) /\ h.ptr = p /\ h.cnt = c
      /\ h.flags = fl.flags \ {"EOF"}
  BY <1>1, <1>3, OffFields DEF Readable, Buffered
<1>5. PICK g : g = [h EXCEPT !.ptr = @ - 1, !.cnt = @ + 1, !.buf[fl.ptr - 1] = b]
  OBVIOUS
<1>6. PICK l \in Int : l = Lowest(fl)
  BY DEF Lowest
<1>7. l < p /\ -1 <= l /\ l <= 0 /\ fl.base
  BY <1>1, <1>6 DEF CanPush, Has, Lowest
<1>8. p + c <= s /\ s <= BUFSIZ
  BY <1>1, StreamAssumption DEF Readable, Buffered, StreamType
<1>9. a \in -1 .. BUFSIZ - 1
  BY <1>2, <1>7, <1>8, StreamAssumption
<1>10. PICK e : e = [fl.buf EXCEPT ![a] = b]
  OBVIOUS
<1>11. /\ e \in [-1 .. BUFSIZ - 1 -> Byte \cup {Junk}]
       /\ e[a] = b
       /\ \A i \in -1 .. BUFSIZ - 1 : i # a => e[i] = fl.buf[i]
  BY <1>9, <1>10 DEF Readable, Buffered, StreamType
<1>12. /\ g \in StreamType /\ g.base = fl.base /\ g.bsize = fl.bsize
       /\ g.buf = e /\ g.ptr = a /\ g.cnt = d
       /\ g.flags = fl.flags \ {"EOF"}
  <2>1. h.buf = fl.buf
    BY <1>4 DEF SameBuffer
  <2>2. g = [h EXCEPT !.ptr = a, !.cnt = d, !.buf = e]
    BY <1>1, <1>2, <1>4, <1>5, <1>10, <2>1 DEF StreamType
  <2>3. d \in Int
    BY <1>2
  <2>4. QED
    BY <1>4, <1>11, <2>2, <2>3 DEF StreamType, SameBuffer
<1>13. /\ "WR" \notin fl.flags /\ "DIRTY" \notin fl.flags
       /\ "RESERVE" \in fl.flags => "FREEBUF" \in fl.flags /\ fl.base
       /\ fl.base <=> 0 < fl.bsize
  BY DEF Readable, Buffered
<1>14. Defined(g, g.ptr, g.ptr + g.cnt - 1)
  <2>1. SUFFICES ASSUME NEW i \in a .. a + d - 1 PROVE e[i] \in Byte
    BY <1>12 DEF Defined
  <2>2. CASE i = a
    BY <1>11, <2>2
  <2>3. CASE i # a
    <3>1. i \in p .. p + c - 1 /\ i \in -1 .. BUFSIZ - 1
      BY <1>2, <1>7, <1>8, <2>3, StreamAssumption
    <3>2. fl.buf[i] \in Byte
      BY <1>1, <3>1 DEF Readable, Buffered, Defined
    <3>3. QED
      BY <1>11, <2>3, <3>1, <3>2
  <2>4. QED
    BY <2>2, <2>3
<1>15. 0 <= g.cnt /\ Lowest(g) <= g.ptr /\ g.ptr + g.cnt <= g.bsize
  <2>1. Lowest(g) = l
    BY <1>6, <1>12 DEF Lowest
  <2>2. 0 <= d /\ l <= a /\ a + d <= s
    BY <1>2, <1>7, <1>8
  <2>3. QED
    BY <1>1, <1>12, <2>1, <2>2
<1>16. Buffered(g)
  BY <1>12, <1>13, <1>14, <1>15 DEF Buffered
<1>17. ReadsAt(g, fi, m + 1)
  <2>1. m <= c
    BY <1>1 DEF Readable, ReadsAt
  <2>2. ASSUME NEW i \in m + 1 + 1 .. d
        PROVE  At(g, i) = fi.data[q - d + i]
    <3>1. PICK j \in Int : j = i - 1
      BY i - 1 \in Int
    <3>2. j \in m + 1 .. c
      BY <1>2, <3>1
    <3>3. fl.buf[p + j - 1] = fi.data[q - c + j]
      BY <1>1, <3>2 DEF Readable, ReadsAt, At
    <3>4. p + j - 1 = a + i - 1 /\ q - c + j = q - d + i
      BY <1>2, <3>1
    <3>5. a + i - 1 \in -1 .. BUFSIZ - 1 /\ a + i - 1 # a
      BY <1>2, <1>7, <1>8, <2>1, <3>1, <3>2, StreamAssumption
    <3>6. At(g, i) = e[a + i - 1]
      BY <1>12 DEF At
    <3>7. QED
      BY <1>11, <3>3, <3>4, <3>5, <3>6
  <2>3. m + 1 \in Nat /\ m + 1 <= d
    BY <1>2, <2>1
  <2>4. "EOF" \notin g.flags /\ "RD" \in g.flags
    BY <1>12
  <2>5. QED
    BY <1>1, <1>12, <2>2, <2>3, <2>4 DEF ReadsAt
<1>18. Readable(g, fi, m + 1) /\ ReadsOn(fl, fi, g, fi)
  BY <1>12, <1>13, <1>16, <1>17 DEF Readable, ReadsOn, SameAccess
<1>19. QED
  BY <1>1, <1>3, <1>5, <1>18

LEMMA UngetcStep ==
  ASSUME StreamInv, NEW c \in Byte, Ungetc(c)
  PROVE  StreamInv'
<1>1. /\ Has(f, "RD") /\ last' = "read" /\ UNCHANGED <<file, mode>>
  BY DEF Ungetc
<1>2. Readable(f, file, npush)
  BY <1>1 DEF StreamInv, Rules, Readable, Buffered, Has
<1>3. /\ Readable(f', file', npush') /\ ReadsOn(f, file, f', file')
      /\ \E ok : End(<<>>, ok)
  <2>1. CASE CanPush(f)
    <3>1. PICK g : g = [Off(f, {"EOF"}) EXCEPT !.ptr = @ - 1, !.cnt = @ + 1,
                                               !.buf[f.ptr - 1] = c]
      OBVIOUS
    <3>2. f' = g /\ npush' = npush + 1 /\ End(<<>>, TRUE)
      BY <2>1, <3>1 DEF Ungetc
    <3>3. Readable(g, file, npush + 1) /\ ReadsOn(f, file, g, file)
      BY <1>1, <1>2, <2>1, <3>1, PushOK DEF Has
    <3>4. QED
      BY <1>1, <3>2, <3>3
  <2>2. CASE ~CanPush(f)
    <3>1. UNCHANGED <<f, npush>> /\ End(<<>>, FALSE)
      BY <2>2 DEF Ungetc
    <3>2. QED
      BY <1>1, <1>2, <3>1 DEF ReadsOn, SameAccess
  <2>3. QED
    BY <2>1, <2>2
<1>4. /\ Calls(f', call', last')
      /\ out' \in Seq(Int) /\ ret' \in {"ok", "fail"}
  BY <1>3, EndsEmpty
<1>5. QED
  BY <1>1, <1>3, <1>4, ReadStep

-----------------------------------------------------------------------------
(* Opening and closing.                                                    *)

LEMMA ClosedOK ==
  /\ Buffered(Closed) /\ Closed.flags = {} /\ Closed.cnt = 0
  /\ Closed.base = FALSE
<1>1. NoBuffer \in [-1 .. BUFSIZ - 1 -> Byte \cup {Junk}]
  BY DEF NoBuffer
<1>2. 0 \in 0 .. BUFSIZ
  BY StreamAssumption
<1>3. Closed \in StreamType
  BY <1>1, <1>2 DEF Closed, StreamType
<1>4. QED
  BY <1>3 DEF Buffered, Closed, Lowest

LEMMA ClosedFileOK ==
  ASSUME NEW fi, FileOK(fi)
  PROVE  FileOK(ClosedFile(fi)) /\ ClosedFile(fi).read = FALSE
BY LenProperties DEF FileOK, FileType, ClosedFile

LEMMA OpenFileOK ==
  ASSUME NEW fi, FileOK(fi), NEW m
  PROVE  /\ FileOK(OpenFile(m, fi.data))
         /\ OpenFile(m, fi.data).read = Reads(m)
<1>1. PICK d : d = IF m \in {"w", "w+", "tmpfile"} THEN <<>> ELSE fi.data
  OBVIOUS
<1>2. d \in Seq(Byte) /\ 0 <= Len(d)
  BY <1>1, LenProperties DEF FileOK, FileType
<1>3. Reads(m) \in BOOLEAN /\ Writes(m) \in BOOLEAN
  BY DEF Reads, Writes, Update
<1>4. OpenFile(m, fi.data) = [data |-> d, off |-> 0, read |-> Reads(m),
        write |-> Writes(m), append |-> m \in {"a", "a+", "stdout", "stderr"}]
  BY <1>1 DEF OpenFile
<1>5. (m \in {"a", "a+", "stdout", "stderr"}) \in BOOLEAN
  OBVIOUS
<1>6. QED
  BY <1>2, <1>3, <1>4, <1>5 DEF FileOK, FileType

\* Init, fclose and a freopen that fails.
LEMMA ShutOK ==
  ASSUME NEW fi, FileOK(fi), fi.read = FALSE
  PROVE  /\ Rules(Closed, fi, "closed", "open", 0)
         /\ ReadsAt(Closed, fi, 0)
BY ClosedOK DEF Rules, ReadsAt

\* Whatever a stream does when it was just opened.
LEMMA FreshOK ==
  ASSUME NEW fl, Buffered(fl), fl.base, NEW fi, NEW m,
         "WR" \in fl.flags => ~fi.read, "RD" \in fl.flags => fl.cnt = 0,
         {"DIRTY", "EOF"} \cap fl.flags = {}
  PROVE  Rules(fl, fi, m, "open", 0) /\ ReadsAt(fl, fi, 0)
BY DEF Rules, ReadsAt, Buffered

LEMMA OpenedOK ==
  ASSUME NEW m
  PROVE  /\ Buffered(Opened(m)) /\ Opened(m).base
         /\ "WR" \in Opened(m).flags => ~Reads(m)
         /\ "RD" \in Opened(m).flags => Opened(m).cnt = 0
         /\ {"DIRTY", "EOF"} \cap Opened(m).flags = {}
<1>1. PICK S : S = CASE m = "stderr" -> {"NBF"}
                     [] m \in {"stdin", "stdout"} -> {}
                     [] OTHER -> {"FREEBUF", "RESERVE"}
  OBVIOUS
<1>2. /\ S \in SUBSET {"NBF", "FREEBUF", "RESERVE"}
      /\ "RESERVE" \in S => "FREEBUF" \in S
  BY <1>1
<1>3. PICK D : D = Direction(m)
  OBVIOUS
<1>4. \/ D = {"RW"} /\ Update(m)
      \/ D = {"RD"} /\ ~Update(m) /\ Reads(m)
      \/ D = {"WR"} /\ ~Update(m) /\ ~Reads(m)
  BY <1>3 DEF Direction
<1>5. PICK s \in 1 .. BUFSIZ : s = IF m = "stderr" THEN 1 ELSE BUFSIZ
  <2>1. (IF m = "stderr" THEN 1 ELSE BUFSIZ) \in 1 .. BUFSIZ
    BY StreamAssumption
  <2>2. QED
    BY <2>1
<1>6. s \in Nat /\ 0 < s /\ s \in 0 .. BUFSIZ
  BY StreamAssumption
<1>7. PICK c \in {0, s} :
        c = IF Reads(m) /\ m \notin {"r+", "w+", "a+"} THEN 0 ELSE s
  OBVIOUS
<1>8. PICK g : g = Opened(m)
  OBVIOUS
<1>9. g = [base |-> TRUE, buf |-> NoBuffer, ptr |-> 0, bsize |-> s,
           cnt |-> c, flags |-> D \cup S]
  BY <1>1, <1>3, <1>5, <1>7, <1>8 DEF Opened
<1>10. g \in StreamType
  <2>1. NoBuffer \in [-1 .. BUFSIZ - 1 -> Byte \cup {Junk}]
    BY DEF NoBuffer
  <2>2. D \cup S \in SUBSET Flags
    BY <1>2, <1>4 DEF Flags
  <2>3. c \in Int
    BY <1>6
  <2>4. QED
    BY <1>6, <1>9, <2>1, <2>2, <2>3 DEF StreamType
<1>11. /\ g.base = TRUE /\ g.ptr = 0 /\ g.bsize = s /\ g.cnt = c
       /\ g.flags = D \cup S
  BY <1>9
<1>12. "RD" \in g.flags => c = 0
  <2>1. "RD" \in g.flags => ~Update(m) /\ Reads(m)
    BY <1>2, <1>4, <1>11
  <2>2. QED
    BY <1>7, <2>1 DEF Update
<1>13. "WR" \in g.flags => ~Reads(m) /\ c = s
  <2>1. "WR" \in g.flags => ~Reads(m)
    BY <1>2, <1>4, <1>11
  <2>2. QED
    BY <1>7, <2>1
<1>14. {"DIRTY", "EOF"} \cap g.flags = {} /\ ~({"RD", "WR"} \subseteq g.flags)
  BY <1>2, <1>4, <1>11
<1>15. Buffered(g)
  <2>1. 0 <= c /\ Lowest(g) <= 0 /\ 0 + c <= s
    BY <1>6 DEF Lowest
  <2>2. /\ Defined(g, 0, 0 - 1)
        /\ "RD" \in g.flags => Defined(g, 0, 0 + c - 1)
    BY <1>12 DEF Defined
  <2>3. "RESERVE" \in g.flags => "FREEBUF" \in g.flags
    BY <1>2, <1>4, <1>11
  <2>4. QED
    BY <1>6, <1>10, <1>11, <1>13, <1>14, <2>1, <2>2, <2>3 DEF Buffered
<1>16. QED
  BY <1>8, <1>11, <1>12, <1>13, <1>14, <1>15


LEMMA InitInv ==
  ASSUME Init
  PROVE  StreamInv
<1>1. /\ f = Closed /\ mode = "closed" /\ call = NoCall /\ last = "open"
      /\ npush = 0 /\ out = <<>> /\ ret = "ok"
  BY DEF Init
<1>2. PICK d \in BoundedSeq(Byte, MaxFile) :
        file = [data |-> d, off |-> 0, read |-> FALSE, write |-> FALSE,
                append |-> FALSE]
  BY DEF Init
<1>3. d \in Seq(Byte)
  <2>1. PICK n \in 0 .. MaxFile : d \in [1 .. n -> Byte]
    BY DEF BoundedSeq, SeqOf
  <2>2. n \in Nat
    BY <2>1, StreamAssumption
  <2>3. QED
    BY <2>1, <2>2, FunctionIsSeq
<1>4. FileOK(file) /\ file.read = FALSE
  BY <1>2, <1>3, LenProperties DEF FileOK, FileType
<1>5. Rules(f, file, mode, last, npush) /\ ReadsAt(f, file, npush)
  BY <1>1, <1>4, ShutOK
<1>6. Calls(f, call, last)
  BY <1>1, NoCallOK
<1>7. out \in Seq(Int)
  BY <1>1
<1>8. QED
  BY <1>1, <1>4, <1>5, <1>6, <1>7, ClosedOK DEF StreamInv

LEMMA FopenStep ==
  ASSUME StreamInv, NEW m \in Modes, Fopen(m)
  PROVE  StreamInv'
<1>1. /\ mode' = m /\ f' = Opened(m) /\ file' = OpenFile(m, file.data)
      /\ last' = "open" /\ npush' = 0
      /\ End(<<>>, TRUE)
  BY DEF Fopen
<1>2. FileOK(file') /\ file'.read = Reads(m)
  BY <1>1, OpenFileOK DEF StreamInv
<1>3. /\ Buffered(f') /\ f'.base
      /\ "WR" \in f'.flags => ~file'.read
      /\ "RD" \in f'.flags => f'.cnt = 0
      /\ {"DIRTY", "EOF"} \cap f'.flags = {}
  BY <1>1, <1>2, OpenedOK
<1>4. Rules(f', file', mode', last', npush') /\ ReadsAt(f', file', npush')
  BY <1>1, <1>3, FreshOK
<1>5. /\ Calls(f', call', last')
      /\ out' \in Seq(Int) /\ ret' \in {"ok", "fail"}
  BY <1>1, EndsEmpty
<1>6. QED
  BY <1>1, <1>2, <1>3, <1>4, <1>5 DEF StreamInv

\* fclose, and freopen when the open fails.
LEMMA ShutStep ==
  ASSUME StreamInv, NEW fi, FileOK(fi), file' = ClosedFile(fi),
         f' = Closed, mode' = "closed", last' = "open", npush' = 0,
         \E ok : End(<<>>, ok)
  PROVE  StreamInv'
<1>1. FileOK(file') /\ file'.read = FALSE
  BY ClosedFileOK
<1>2. Rules(f', file', mode', last', npush') /\ ReadsAt(f', file', npush')
  BY <1>1, ShutOK
<1>3. /\ Calls(f', call', last')
      /\ out' \in Seq(Int) /\ ret' \in {"ok", "fail"}
  BY EndsEmpty
<1>4. QED
  BY <1>1, <1>2, <1>3, ClosedOK DEF StreamInv

LEMMA FcloseStep ==
  ASSUME StreamInv, Fclose
  PROVE  StreamInv'
<1>1. PICK o \in flush_if(Has(f, "WR"), f, file) :
        file' = ClosedFile(o.file) /\ \E ok : End(<<>>, ok)
  BY DEF Fclose
<1>2. f' = Closed /\ mode' = "closed" /\ last' = "open" /\ npush' = 0
  BY DEF Fclose
<1>3. FileOK(o.file)
  BY <1>1, FlushWriterOK DEF StreamInv, Flushed
<1>4. QED
  BY <1>1, <1>2, <1>3, ShutStep

LEMMA ReopenedOK ==
  ASSUME NEW fl, Buffered(fl), fl.base, NEW m
  PROVE  /\ Buffered(Reopened(fl, m)) /\ Reopened(fl, m).base
         /\ "WR" \in Reopened(fl, m).flags => ~Reads(m)
         /\ "RD" \in Reopened(fl, m).flags => Reopened(fl, m).cnt = 0
         /\ {"DIRTY", "EOF"} \cap Reopened(fl, m).flags = {}
<1>1. PICK D : D = Direction(m)
  OBVIOUS
<1>2. \/ D = {"RW"}
      \/ D = {"RD"}
      \/ D = {"WR"} /\ ~Reads(m)
  BY <1>1 DEF Direction
<1>3. PICK F : F = D \cup (fl.flags \cap {"FREEBUF", "RESERVE"})
  OBVIOUS
<1>4. /\ F \in SUBSET Flags
      /\ {"DIRTY", "EOF"} \cap F = {} /\ ~({"RD", "WR"} \subseteq F)
      /\ "RD" \in F <=> D = {"RD"}
      /\ "WR" \in F <=> D = {"WR"}
      /\ "RESERVE" \in F => "FREEBUF" \in F
  <2>1. "RESERVE" \in fl.flags => "FREEBUF" \in fl.flags
    BY DEF Buffered
  <2>2. QED
    BY <1>2, <1>3, <2>1 DEF Flags
<1>5. PICK s \in Nat : s = fl.bsize /\ 0 < s
  BY StreamAssumption DEF Buffered, StreamType
<1>6. PICK c \in Int, z \in Int :
        z = 0 /\ c = IF Direction(m) = {"RD"} THEN 0 ELSE fl.bsize
  <2>1. (IF Direction(m) = {"RD"} THEN 0 ELSE fl.bsize) \in Int
    BY <1>5
  <2>2. QED
    BY <2>1
<1>7. PICK g : g = [fl EXCEPT !.flags = F, !.ptr = z, !.cnt = c]
  OBVIOUS
<1>8. g = Reopened(fl, m)
  BY <1>1, <1>3, <1>6, <1>7 DEF Reopened, Buffered, StreamType
<1>9. /\ g \in StreamType /\ g.base = fl.base /\ g.buf = fl.buf
      /\ g.bsize = fl.bsize /\ g.flags = F /\ g.ptr = z /\ g.cnt = c
  BY <1>4, <1>7 DEF Buffered, StreamType
<1>10. "RD" \in F => c = 0
  BY <1>1, <1>4, <1>6
<1>11. "RD" \notin F => c = s
  BY <1>1, <1>4, <1>5, <1>6
<1>12. c \in {0, s}
  BY <1>10, <1>11
<1>13. Buffered(g)
  <2>1. 0 <= c /\ Lowest(g) <= 0 /\ 0 + c <= s
    BY <1>5, <1>12 DEF Lowest
  <2>2. /\ Defined(g, 0, 0 - 1)
        /\ "RD" \in F => Defined(g, 0, 0 + c - 1)
    BY <1>10 DEF Defined
  <2>3. g.base /\ 0 < g.bsize
    BY <1>5, <1>9
  <2>4. g.ptr = 0 /\ g.cnt = c /\ g.bsize = s
    BY <1>5, <1>6, <1>9
  <2>5. QED
    BY <1>4, <1>9, <1>11, <1>12, <2>1, <2>2, <2>3, <2>4 DEF Buffered
<1>14. QED
  BY <1>2, <1>4, <1>8, <1>9, <1>10, <1>13

LEMMA FreopenStep ==
  ASSUME Careful, StreamInv, NEW m \in Modes, Freopen(m)
  PROVE  StreamInv'
<1>1. /\ ~f.base => "reopen_unbuffered" \in Habits
      /\ last' = "open" /\ npush' = 0
  BY DEF Freopen
<1>2. PICK o \in flush_impl(f, file) :
       \/ /\ f' = Reopened(o.f, m)
          /\ file' = OpenFile(m, o.file.data)
          /\ mode' = m
          /\ End(<<>>, TRUE)
       \/ /\ f' = Closed /\ file' = ClosedFile(o.file) /\ mode' = "closed"
          /\ End(<<>>, FALSE)
  BY DEF Freopen
<1>3. f.base
  BY <1>1 DEF Careful
<1>4. Flushed(f, file, o)
  BY <1>2, FlushOK DEF StreamInv
<1>5. Buffered(o.f) /\ FileOK(o.file) /\ o.f.base
  BY <1>3, <1>4 DEF Flushed, SameBuffer
<1>6. CASE /\ f' = Reopened(o.f, m)
           /\ file' = OpenFile(m, o.file.data)
           /\ mode' = m
           /\ End(<<>>, TRUE)
  <2>1. FileOK(file') /\ file'.read = Reads(m)
    BY <1>5, <1>6, OpenFileOK
  <2>2. /\ Buffered(f') /\ f'.base
        /\ "WR" \in f'.flags => ~file'.read
        /\ "RD" \in f'.flags => f'.cnt = 0
        /\ {"DIRTY", "EOF"} \cap f'.flags = {}
    BY <1>5, <1>6, <2>1, ReopenedOK
  <2>3. Rules(f', file', mode', last', npush') /\ ReadsAt(f', file', npush')
    BY <1>1, <2>2, FreshOK
  <2>4. /\ Calls(f', call', last')
        /\ out' \in Seq(Int) /\ ret' \in {"ok", "fail"}
    BY <1>6, EndsEmpty
  <2>5. QED
    BY <1>1, <1>6, <2>1, <2>2, <2>3, <2>4 DEF StreamInv
<1>7. CASE /\ f' = Closed /\ file' = ClosedFile(o.file) /\ mode' = "closed"
           /\ End(<<>>, FALSE)
  BY <1>1, <1>5, <1>7, ShutStep
<1>8. QED
  BY <1>2, <1>6, <1>7


LEMMA FreedFields ==
  ASSUME NEW fl, Buffered(fl)
  PROVE  /\ free_buffer(fl) \in StreamType
         /\ free_buffer(fl).flags = fl.flags \ {"FREEBUF", "RESERVE"}
         /\ free_buffer(fl).base => free_buffer(fl) = fl
<1>1. CASE Has(fl, "FREEBUF")
  <2>1. PICK h : h = Off(fl, {"FREEBUF", "RESERVE"})
    OBVIOUS
  <2>2. h \in StreamType /\ h.flags = fl.flags \ {"FREEBUF", "RESERVE"}
    BY <2>1, OffFields DEF Buffered
  <2>3. PICK g : g = [h EXCEPT !.base = FALSE, !.buf = NoBuffer]
    OBVIOUS
  <2>4. NoBuffer \in [-1 .. BUFSIZ - 1 -> Byte \cup {Junk}]
    BY DEF NoBuffer
  <2>5. g \in StreamType /\ g.base = FALSE /\ g.flags = h.flags
    BY <2>2, <2>3, <2>4 DEF StreamType
  <2>6. free_buffer(fl) = g
    BY <1>1, <2>1, <2>3 DEF free_buffer
  <2>7. QED
    BY <2>2, <2>5, <2>6
<1>2. CASE ~Has(fl, "FREEBUF")
  <2>1. free_buffer(fl) = fl
    BY <1>2 DEF free_buffer
  <2>2. {"FREEBUF", "RESERVE"} \cap fl.flags = {}
    BY <1>2 DEF Has, Buffered
  <2>3. QED
    BY <2>1, <2>2 DEF Buffered
<1>3. QED
  BY <1>1, <1>2

\* setvbuf on a stream that has nothing to write.
LEMMA RebufferedOK ==
  ASSUME NEW fl \in StreamType, {"RESERVE", "DIRTY"} \cap fl.flags = {},
         ~({"RD", "WR"} \subseteq fl.flags), NEW policy \in Policies,
         NEW size \in {0, 1, BUFSIZ}, NEW own \in BOOLEAN,
         policy = "NBF" \/ size # 0
  PROVE  LET g == Rebuffered(fl, policy, size, own) IN
         /\ Buffered(g)
         /\ g.flags \cap {"RD", "WR", "EOF", "DIRTY"} =
              fl.flags \cap {"RD", "WR", "EOF", "DIRTY"}
         /\ "RD" \in g.flags => g.cnt = 0
         /\ ~g.base => policy = "NBF" /\ "NBF" \in g.flags
<1>1. PICK d : d = Off(fl, {"NBF", "LBF"})
  OBVIOUS
<1>2. d \in StreamType /\ d.flags = fl.flags \ {"NBF", "LBF"}
  BY <1>1, OffFields
<1>3. PICK S \in SUBSET Flags : S = {policy} \cap {"NBF", "LBF"}
  BY DEF Flags, Policies
<1>4. PICK h : h = On(d, S)
  OBVIOUS
<1>5. h \in StreamType /\ h.flags = d.flags \cup S
  BY <1>2, <1>4, OnFields
<1>6. PICK F \in SUBSET Flags : F = IF own THEN {} ELSE {"FREEBUF"}
  BY DEF Flags
<1>7. PICK e : e = On(h, F)
  OBVIOUS
<1>8. e \in StreamType /\ e.flags = h.flags \cup F
  BY <1>5, <1>7, OnFields
<1>9. PICK z \in Int, s \in 0 .. BUFSIZ :
        z = 0 /\ s = IF policy = "NBF" THEN 0 ELSE size
  <2>1. (IF policy = "NBF" THEN 0 ELSE size) \in 0 .. BUFSIZ
    BY StreamAssumption
  <2>2. QED
    BY <2>1
<1>10. s \in Nat /\ (policy # "NBF" => 0 < s)
  BY <1>9, StreamAssumption
<1>11. NoBuffer \in [-1 .. BUFSIZ - 1 -> Byte \cup {Junk}]
  BY DEF NoBuffer
<1>12. PICK g : g = Rebuffered(fl, policy, size, own)
  OBVIOUS
<1>13. {"NBF"} \cap S = IF policy = "NBF" THEN {"NBF"} ELSE {}
  BY <1>3 DEF Policies
<1>14. S \subseteq {"NBF", "LBF"} /\ F \subseteq {"FREEBUF"}
  BY <1>3, <1>6 DEF Policies
<1>15. CASE policy = "NBF"
  <2>1. g = [h EXCEPT !.base = FALSE, !.buf = NoBuffer, !.bsize = s, !.ptr = z,
                      !.cnt = z]
    BY <1>1, <1>3, <1>4, <1>9, <1>12, <1>15 DEF Rebuffered
  <2>2. /\ g \in StreamType /\ g.base = FALSE /\ g.bsize = s /\ g.ptr = z
        /\ g.cnt = z /\ g.flags = h.flags
    BY <1>5, <1>9, <1>11, <2>1 DEF StreamType
  <2>3. /\ g.base = FALSE /\ g.bsize = 0 /\ g.ptr = 0 /\ g.cnt = 0
        /\ g.flags = (fl.flags \ {"NBF", "LBF"}) \cup S
    BY <1>2, <1>5, <1>9, <1>15, <2>2
  <2>4. /\ {"RESERVE", "DIRTY"} \cap g.flags = {}
        /\ ~({"RD", "WR"} \subseteq g.flags)
        /\ "NBF" \in g.flags
        /\ g.flags \cap {"RD", "WR", "EOF", "DIRTY"} =
             fl.flags \cap {"RD", "WR", "EOF", "DIRTY"}
    BY <1>13, <1>14, <1>15, <2>3
  <2>5. Defined(g, 0, 0 - 1) /\ Defined(g, 0, 0 + 0 - 1)
    BY DEF Defined
  <2>6. Buffered(g)
    BY <2>2, <2>3, <2>4, <2>5 DEF Buffered, Lowest
  <2>7. QED
    BY <1>12, <1>15, <2>3, <2>4, <2>6
<1>16. CASE policy # "NBF"
  <2>1. PICK c \in {0, s} : c = IF Has(fl, "RD") THEN 0 ELSE s
    OBVIOUS
  <2>2. c \in Int /\ s = size
    BY <1>9, <1>10, <1>16
  <2>3. g = [e EXCEPT !.base = TRUE, !.buf = NoBuffer, !.bsize = s, !.ptr = z,
                      !.cnt = c]
    BY <1>1, <1>3, <1>4, <1>6, <1>7, <1>9, <1>12, <1>16, <2>1, <2>2
       DEF Rebuffered
  <2>4. /\ g \in StreamType /\ g.base = TRUE /\ g.bsize = s /\ g.ptr = z
        /\ g.cnt = c /\ g.flags = e.flags
    BY <1>8, <1>9, <1>11, <2>2, <2>3 DEF StreamType
  <2>5. g.flags = ((fl.flags \ {"NBF", "LBF"}) \cup S) \cup F
    BY <1>2, <1>5, <1>8, <2>4
  <2>6. /\ {"RESERVE", "DIRTY"} \cap g.flags = {}
        /\ ~({"RD", "WR"} \subseteq g.flags)
        /\ g.flags \cap {"RD", "WR", "EOF", "DIRTY"} =
             fl.flags \cap {"RD", "WR", "EOF", "DIRTY"}
    BY <1>14, <2>5
  <2>7. "RD" \in g.flags <=> Has(fl, "RD")
    BY <1>14, <2>5 DEF Has
  <2>8. /\ "RD" \in g.flags => c = 0
        /\ "RD" \notin g.flags => c = s
    BY <2>1, <2>7
  <2>9. /\ Defined(g, 0, 0 - 1)
        /\ "RD" \in g.flags => Defined(g, 0, 0 + c - 1)
    BY <2>8 DEF Defined
  <2>10. g.base = TRUE /\ g.bsize = s /\ g.ptr = 0 /\ g.cnt = c /\ 0 < s
    BY <1>9, <1>10, <1>16, <2>4
  <2>11. 0 <= c /\ Lowest(g) <= 0 /\ 0 + c <= s /\ ("RD" \notin g.flags => 0 + c = s)
    BY <1>10, <2>1, <2>6, <2>8 DEF Lowest
  <2>12. Buffered(g)
    BY <2>1, <2>4, <2>6, <2>8, <2>9, <2>10, <2>11 DEF Buffered
  <2>13. QED
    BY <1>12, <2>6, <2>8, <2>10, <2>12
<1>17. QED
  BY <1>15, <1>16

LEMMA SetvbufStep ==
  ASSUME Careful, StreamInv, NEW policy \in Policies,
         NEW size \in {0, 1, BUFSIZ}, NEW own \in BOOLEAN,
         Setvbuf(policy, size, own)
  PROVE  StreamInv'
<1>1. /\ last = "open" /\ UNCHANGED <<mode, last, npush>>
      /\ policy = "NBF" => ~file.read \/ "read_unbuffered" \in Habits
  BY DEF Setvbuf
<1>2. Buffered(f) /\ FileOK(file) /\ "DIRTY" \notin f.flags /\ npush = 0
  BY <1>1 DEF StreamInv, Rules
<1>3. PICK o \in flush_if(Has(f, "WR"), f, file) :
        /\ file' = o.file
        /\ \/ /\ policy = "NBF" \/ (policy # "other" /\ size # 0)
              /\ f' = Rebuffered(free_buffer(o.f), policy, size, own)
              /\ End(<<>>, TRUE)
           \/ /\ policy # "NBF" /\ (policy = "other" \/ size = 0 \/ ~own)
              /\ free_buffer(o.f).base \/ "setvbuf_failed" \in Habits
              /\ f' = On(Off(free_buffer(o.f), {"NBF", "LBF"}),
                         {policy} \cap {"LBF"})
              /\ End(<<>>, FALSE)
  BY DEF Setvbuf
<1>4. o.f = f /\ o.file = file
  BY <1>2, <1>3 DEF flush_if, flush_impl, MustFlush, Outcome
<1>5. PICK g : g = free_buffer(f)
  OBVIOUS
<1>6. /\ g \in StreamType /\ g.flags = f.flags \ {"FREEBUF", "RESERVE"}
      /\ g.base => g = f
  BY <1>2, <1>5, FreedFields
<1>7. /\ Calls(f', call', last')
      /\ out' \in Seq(Int) /\ ret' \in {"ok", "fail"}
  BY <1>3, EndsEmpty
<1>8. /\ Buffered(f') /\ Rules(f', file, mode, last, npush)
      /\ ReadsAt(f', file, npush)
  <2>1. CASE /\ policy = "NBF" \/ (policy # "other" /\ size # 0)
             /\ f' = Rebuffered(g, policy, size, own)
    <3>1. /\ {"RESERVE", "DIRTY"} \cap g.flags = {}
          /\ ~({"RD", "WR"} \subseteq g.flags)
      BY <1>2, <1>6 DEF Buffered
    <3>2. /\ Buffered(f')
          /\ f'.flags \cap {"RD", "WR", "EOF", "DIRTY"} =
               g.flags \cap {"RD", "WR", "EOF", "DIRTY"}
          /\ "RD" \in f'.flags => f'.cnt = 0
          /\ ~f'.base => policy = "NBF" /\ "NBF" \in f'.flags
      BY <1>6, <2>1, <3>1, RebufferedOK
    <3>3. /\ "WR" \in f'.flags => "WR" \in f.flags
          /\ "EOF" \in f'.flags => "EOF" \in f.flags
          /\ "DIRTY" \notin f'.flags
      BY <1>2, <1>6, <3>2
    <3>4. Rules(f', file, mode, last, npush)
      BY <1>1, <1>2, <3>2, <3>3 DEF StreamInv, Rules
    <3>5. ReadsAt(f', file, npush)
      BY <1>2, <3>2, <3>3 DEF StreamInv, ReadsAt, Buffered
    <3>6. QED
      BY <3>2, <3>4, <3>5
  <2>2. CASE /\ g.base
             /\ f' = On(Off(g, {"NBF", "LBF"}), {policy} \cap {"LBF"})
    <3>1. PICK S \in SUBSET {"ERR", "EOF", "NBF", "LBF"} : S = {policy} \cap {"LBF"}
      BY DEF Policies
    <3>2. PICK N \in SUBSET {"ERR", "EOF", "NBF", "LBF"} : N = {"NBF", "LBF"}
      OBVIOUS
    <3>3. PICK d : d = Off(f, N)
      OBVIOUS
    <3>4. /\ Buffered(d) /\ SameBuffer(f, d) /\ d.flags = f.flags \ N
          /\ d.ptr = f.ptr /\ d.cnt = f.cnt
      BY <1>2, <3>3, UnnotedOK
    <3>5. PICK h : h = On(d, S)
      OBVIOUS
    <3>6. /\ Buffered(h) /\ SameBuffer(d, h) /\ h.flags = d.flags \cup S
          /\ h.ptr = d.ptr /\ h.cnt = d.cnt
      BY <3>4, <3>5, NotedOK
    <3>7. f' = h /\ f.base
      BY <1>6, <2>2, <3>1, <3>2, <3>3, <3>5
    <3>8. /\ f'.base = f.base /\ f'.buf = f.buf /\ f'.ptr = f.ptr
          /\ f'.cnt = f.cnt
          /\ f'.flags = (f.flags \ {"NBF", "LBF"}) \cup S
      BY <3>2, <3>4, <3>6, <3>7 DEF SameBuffer
    <3>9. S \subseteq {"NBF", "LBF"}
      BY <3>1 DEF Policies
    <3>10. Rules(f', file, mode, last, npush)
      BY <1>1, <1>2, <3>7, <3>8, <3>9 DEF StreamInv, Rules
    <3>11. ReadsAt(f', file, npush)
      BY <3>8, <3>9 DEF StreamInv, ReadsAt, At
    <3>12. QED
      BY <3>6, <3>7, <3>10, <3>11
  <2>3. QED
    BY <1>3, <1>4, <1>5, <2>1, <2>2 DEF Careful
<1>9. QED
  BY <1>1, <1>2, <1>3, <1>4, <1>7, <1>8 DEF StreamInv


-----------------------------------------------------------------------------
(* Flushing and positioning.                                               *)

\* A flush of a stream that writes; any other is left alone.
LEMMA WriterFlush ==
  ASSUME StreamInv, NEW o \in flush_if(Has(f, "WR"), f, file),
         NEW l, l = last \/ (last = "write" /\ l = "flush")
  PROVE  /\ Buffered(o.f) /\ FileOK(o.file)
         /\ Rules(o.f, o.file, mode, l, npush)
         /\ ReadsAt(o.f, o.file, npush)
         /\ "RD" \in f.flags => o.f = f
<1>1. Flushed(f, file, o)
  BY FlushWriterOK DEF StreamInv
<1>2. Buffered(o.f) /\ FileOK(o.file)
  BY <1>1 DEF Flushed
<1>3. CASE ~Has(f, "WR")
  <2>1. o.f = f /\ o.file = file
    BY <1>3 DEF flush_if, Outcome
  <2>2. QED
    BY <1>2, <1>3, <2>1 DEF StreamInv, Rules, Has
<1>4. CASE Has(f, "WR")
  <2>1. /\ "WR" \in f.flags /\ "RD" \notin f.flags /\ npush = 0
    BY <1>4 DEF StreamInv, Buffered, ReadsAt, Has
  <2>2. WritesOn(f, file, o.f, o.file)
    BY <1>1, <2>1, FlushWrites
  <2>3. "DIRTY" \in o.f.flags => "DIRTY" \in f.flags
    BY <1>1 DEF Flushed
  <2>4. "WR" \in o.f.flags /\ "RD" \notin o.f.flags /\ 0 <= o.f.cnt
    BY <2>2 DEF WritesOn, Buffered
  <2>5. Rules(o.f, o.file, mode, l, npush)
    BY <2>1, <2>2, <2>3, <2>4 DEF StreamInv, Rules, WritesOn, SameAccess
  <2>6. ReadsAt(o.f, o.file, npush)
    BY <2>1, <2>2, <2>4 DEF StreamInv, ReadsAt, WritesOn
  <2>7. QED
    BY <1>2, <2>1, <2>5, <2>6
<1>5. QED
  BY <1>3, <1>4

LEMMA FflushStep ==
  ASSUME StreamInv, Fflush
  PROVE  StreamInv'
<1>1. PICK o \in flush_if(Has(f, "WR"), f, file) :
        Becomes(o) /\ End(<<>>, o.ok)
  BY DEF Fflush
<1>2. /\ last' = IF last = "write" THEN "flush" ELSE last
      /\ UNCHANGED <<mode, npush>>
  BY DEF Fflush
<1>3. last' = last \/ (last = "write" /\ last' = "flush")
  BY <1>2
<1>4. f' = o.f /\ file' = o.file
  BY <1>1 DEF Becomes
<1>5. /\ Buffered(o.f) /\ FileOK(o.file)
      /\ Rules(o.f, o.file, mode, last', npush)
      /\ ReadsAt(o.f, o.file, npush)
  BY <1>1, <1>3, WriterFlush
<1>6. /\ Calls(f', call', last')
      /\ out' \in Seq(Int) /\ ret' \in {"ok", "fail"}
  BY <1>1, EndsEmpty
<1>7. last' \in {"open", "read", "write", "flush", "seek"}
  BY <1>3 DEF StreamInv
<1>8. QED
  BY <1>2, <1>4, <1>5, <1>6, <1>7 DEF StreamInv

LEMMA FtelloStep ==
  ASSUME StreamInv, Ftello
  PROVE  StreamInv'
<1>1. PICK o \in flush_if(Has(f, "WR"), f, file) :
        /\ Becomes(o)
        /\ \/ End(<<Told(o.f, o.file)>>, TRUE)
           \/ End(<<>>, FALSE)
  BY DEF Ftello
<1>2. UNCHANGED <<mode, last, npush>>
  BY DEF Ftello
<1>3. f' = o.f /\ file' = o.file
  BY <1>1 DEF Becomes
<1>4. /\ Buffered(o.f) /\ FileOK(o.file)
      /\ Rules(o.f, o.file, mode, last, npush)
      /\ ReadsAt(o.f, o.file, npush)
  BY <1>1, WriterFlush
<1>5. /\ Calls(f', call', last')
      /\ out' \in Seq(Int) /\ ret' \in {"ok", "fail"}
  <2>1. CASE End(<<Told(o.f, o.file)>>, TRUE)
    <3>1. o.f.cnt \in Int /\ o.file.off \in Int
      BY <1>4 DEF Buffered, StreamType, FileOK, FileType
    <3>2. PICK t \in Int : t = Told(o.f, o.file)
      <4>1. Told(o.f, o.file) \in Int
        BY <3>1 DEF Told
      <4>2. QED
        BY <4>1
    <3>3. End(<<t>>, TRUE)
      BY <2>1, <3>2
    <3>4. <<t>> \in Seq(Int)
      OBVIOUS
    <3>5. QED
      BY <3>3, <3>4, EndOK
  <2>2. CASE End(<<>>, FALSE)
    BY <2>2, EndsEmpty
  <2>3. QED
    BY <1>1, <2>1, <2>2
<1>6. QED
  BY <1>2, <1>3, <1>4, <1>5 DEF StreamInv

LEMMA ClearerrStep ==
  ASSUME StreamInv, Clearerr
  PROVE  StreamInv'
<1>1. /\ f' = Off(f, {"ERR", "EOF"}) /\ End(<<>>, TRUE)
      /\ UNCHANGED <<file, mode, last, npush>>
  BY DEF Clearerr
<1>2. PICK S \in SUBSET {"ERR", "EOF", "NBF", "LBF"} : S = {"ERR", "EOF"}
  OBVIOUS
<1>3. /\ Buffered(f') /\ SameBuffer(f, f') /\ f'.flags = f.flags \ S
      /\ f'.ptr = f.ptr /\ f'.cnt = f.cnt
  BY <1>1, <1>2, UnnotedOK DEF StreamInv
<1>4. Rules(f', file, mode, last, npush)
  BY <1>2, <1>3 DEF StreamInv, Rules, SameBuffer
<1>5. ReadsAt(f', file, npush)
  BY <1>2, <1>3 DEF StreamInv, ReadsAt, At, SameBuffer
<1>6. /\ Calls(f', call', last')
      /\ out' \in Seq(Int) /\ ret' \in {"ok", "fail"}
  BY <1>1, EndsEmpty
<1>7. QED
  BY <1>1, <1>3, <1>4, <1>5, <1>6 DEF StreamInv

\* Once the buffer is written the file is what the program sees, and its
\* position is the program's, unless bytes were read ahead.
LEMMA FlushedIsSeen ==
  ASSUME StreamInv, NEW fi, fi = Store(file, Pending(f))
  PROVE  /\ fi.data = View
         /\ ~ReadsAhead => fi.off = Pos
<1>1. PICK bs \in Seq(Byte) : bs = Pending(f)
  BY PendingBytes DEF StreamInv
<1>2. file \in FileType
  BY DEF StreamInv, FileOK
<1>3. CASE bs = <<>>
  <2>1. fi = file /\ View = file.data
    BY <1>1, <1>3 DEF Store, View
  <2>2. file.off \in Nat /\ 0 <= f.cnt /\ f.cnt \in Int
    BY <1>2 DEF FileType, StreamInv, Buffered, StreamType
  <2>3. Pos = IF Has(f, "RD") THEN file.off - f.cnt ELSE file.off
    BY <1>1, <1>3 DEF Pos
  <2>4. ~ReadsAhead => (Has(f, "RD") => f.cnt = 0)
    BY <2>2 DEF ReadsAhead
  <2>5. QED
    BY <2>1, <2>2, <2>3, <2>4
<1>4. CASE bs # <<>>
  <2>1. View = Overlay(file.data, Where(file), bs)
        /\ Pos = Where(file) + Len(bs)
    BY <1>1, <1>4 DEF View, Pos
  <2>2. fi = [file EXCEPT !.data = Overlay(file.data, Where(file), bs),
                          !.off = Where(file) + Len(bs)]
    BY <1>1, <1>2, <1>4 DEF Store, FileType
  <2>3. QED
    BY <1>2, <2>1, <2>2 DEF FileType
<1>5. QED
  BY <1>3, <1>4

LEMMA DiscardedFields ==
  ASSUME NEW fl, Buffered(fl), "DIRTY" \notin fl.flags,
         NEW S \in SUBSET {"EOF"}
  PROVE  LET g == Off(Discarded(fl), S) IN
         /\ Buffered(g) /\ SameBuffer(fl, g) /\ g.cnt = 0
         /\ g.flags = (fl.flags \ {"WR", "RD"}) \ S
<1>1. PICK h : h = Off(fl, {"WR", "RD"})
  OBVIOUS
<1>2. h \in StreamType /\ SameBuffer(fl, h) /\ h.flags = fl.flags \ {"WR", "RD"}
  BY <1>1, OffFields DEF Buffered
<1>3. PICK z \in Int : z = 0
  OBVIOUS
<1>4. PICK e : e = [h EXCEPT !.cnt = z, !.ptr = z]
  OBVIOUS
<1>5. /\ e \in StreamType /\ SameBuffer(h, e) /\ e.cnt = z /\ e.ptr = z
      /\ e.flags = h.flags
  BY <1>2, <1>3, <1>4 DEF StreamType, SameBuffer
<1>6. e = Discarded(fl)
  BY <1>1, <1>3, <1>4 DEF Discarded
<1>7. PICK g : g = Off(e, S)
  OBVIOUS
<1>8. /\ g \in StreamType /\ SameBuffer(e, g) /\ g.cnt = e.cnt
      /\ g.ptr = e.ptr /\ g.flags = e.flags \ S
  BY <1>5, <1>7, OffFields
<1>9. /\ SameBuffer(fl, g) /\ g.cnt = 0 /\ g.ptr = 0
      /\ g.flags = (fl.flags \ {"WR", "RD"}) \ S
  BY <1>2, <1>3, <1>5, <1>8 DEF SameBuffer
<1>10. {"WR", "RD", "DIRTY"} \cap g.flags = {}
  BY <1>9
<1>11. "RESERVE" \in g.flags => "FREEBUF" \in g.flags /\ g.base
  BY <1>9 DEF Buffered, SameBuffer
<1>12. 0 <= g.bsize /\ (g.base <=> 0 < g.bsize) /\ Lowest(g) <= 0
  <2>1. PICK m \in Nat : m = fl.bsize
    BY StreamAssumption DEF Buffered, StreamType
  <2>2. QED
    BY <1>9, <2>1 DEF Buffered, SameBuffer, Lowest
<1>13. Buffered(g)
  BY <1>8, <1>9, <1>10, <1>11, <1>12 DEF Buffered
<1>14. QED
  BY <1>6, <1>7, <1>9, <1>13


\* After a seek, whether it succeeded or not, but for what Repositions sets.
SeekLeaves(o) ==
  LET l == IF Has(o.f, "WR") THEN last ELSE "seek" IN
  /\ Buffered(o.f) /\ FileOK(o.file)
  /\ Rules(o.f, o.file, mode, l, 0)
  /\ ReadsAt(o.f, o.file, 0)

LEMMA TargetOK ==
  ASSUME Careful, StreamInv, NEW whence \in {"SET", "CUR", "END"}, NEW d \in Int,
         MaySeek(whence, d), NEW fi, fi = Store(file, Pending(f)), FileOK(fi)
  PROVE  Target(fi, whence, d) \in 0 .. Len(fi.data)
<1>1. fi.data = View /\ (~ReadsAhead => fi.off = Pos)
  BY FlushedIsSeen
<1>2. PICK v : v = View
  OBVIOUS
<1>3. Wanted(whence, d) \in 0 .. Len(v)
  BY <1>2 DEF MaySeek
<1>4. CASE whence = "SET"
  <2>1. Target(fi, whence, d) = d + 0 /\ Wanted(whence, d) = d + 0
    BY <1>4 DEF Target, Wanted
  <2>2. QED
    BY <1>1, <1>2, <1>3, <2>1
<1>5. CASE whence = "CUR"
  <2>1. fi.off = Pos
    BY <1>1, <1>5 DEF MaySeek, Careful
  <2>2. Target(fi, whence, d) = d + fi.off /\ Wanted(whence, d) = d + Pos
    BY <1>5 DEF Target, Wanted
  <2>3. QED
    BY <1>1, <1>2, <1>3, <2>1, <2>2
<1>6. CASE whence = "END"
  <2>1. Target(fi, whence, d) = d + Len(fi.data) /\ Wanted(whence, d) = d + Len(v)
    BY <1>2, <1>6 DEF Target, Wanted
  <2>2. QED
    BY <1>1, <1>2, <1>3, <2>1
<1>7. QED
  BY <1>4, <1>5, <1>6

LEMMA SoughtOK ==
  ASSUME Careful, StreamInv, NEW whence \in {"SET", "CUR", "END"}, NEW d \in Int,
         MaySeek(whence, d), NEW o \in Sought(whence, d)
  PROVE  SeekLeaves(o)
<1>1. PICK e \in flush_if(Has(f, "WR"), f, file) :
        o \in IF ~e.ok THEN {e} ELSE Moved(e.f, e.file, whence, d)
  BY DEF Sought
<1>2. Flushed(f, file, e)
  BY <1>1, FlushWriterOK DEF StreamInv
<1>3. CASE ~e.ok
  <2>1. o = e
    BY <1>1, <1>3
  <2>2. Has(f, "WR")
    BY <1>1, <1>3 DEF flush_if, Outcome
  <2>3. Has(e.f, "WR")
    BY <1>2, <1>3, <2>2 DEF Flushed, Has
  <2>4. /\ Buffered(e.f) /\ FileOK(e.file)
        /\ Rules(e.f, e.file, mode, last, npush)
        /\ ReadsAt(e.f, e.file, npush)
    BY <1>1, WriterFlush
  <2>5. npush = 0
    BY <2>2 DEF StreamInv, ReadsAt, Buffered, Has
  <2>6. QED
    BY <2>1, <2>3, <2>4, <2>5 DEF SeekLeaves
<1>4. CASE e.ok
  <2>1. /\ Buffered(e.f) /\ FileOK(e.file) /\ SameBuffer(f, e.f)
        /\ SameAccess(file, e.file)
        /\ e.f.flags = f.flags \ {"DIRTY"}
        /\ e.file = Store(file, Pending(f))
        /\ file.off = Len(file.data) => e.file.off = Len(e.file.data)
    BY <1>2, <1>4 DEF Flushed
  <2>2. PICK to : to = Target(e.file, whence, d)
    OBVIOUS
  <2>3. to \in 0 .. Len(e.file.data)
    BY <2>1, <2>2, TargetOK
  <2>4. o \in Moved(e.f, e.file, whence, d)
    BY <1>1, <1>4
  <2>5. \/ /\ o.f = Off(Discarded(e.f), {"EOF"})
           /\ o.file = [e.file EXCEPT !.off = to]
        \/ o.f = Discarded(e.f) /\ o.file = e.file
    BY <2>2, <2>4 DEF Moved, Outcome
  <2>6. "DIRTY" \notin e.f.flags
    BY <2>1
  <2>7. \E S \in SUBSET {"EOF"} :
          /\ Buffered(o.f) /\ SameBuffer(f, o.f) /\ o.f.cnt = 0
          /\ o.f.flags = (e.f.flags \ {"WR", "RD"}) \ S
          /\ FileOK(o.file) /\ SameAccess(file, o.file)
          /\ S = {"EOF"} \/ (S = {} /\ o.file = e.file)
    <3>1. CASE /\ o.f = Off(Discarded(e.f), {"EOF"})
               /\ o.file = [e.file EXCEPT !.off = to]
      <4>1. PICK S \in SUBSET {"EOF"} : S = {"EOF"}
        OBVIOUS
      <4>2. /\ Buffered(o.f) /\ SameBuffer(e.f, o.f) /\ o.f.cnt = 0
            /\ o.f.flags = (e.f.flags \ {"WR", "RD"}) \ S
        BY <2>1, <2>6, <3>1, <4>1, DiscardedFields
      <4>3. to \in Nat /\ to <= Len(e.file.data)
        BY <2>1, <2>3, LenProperties DEF FileOK, FileType
      <4>4. /\ o.file \in FileType /\ o.file.data = e.file.data
            /\ o.file.off = to /\ SameAccess(e.file, o.file)
        BY <2>1, <3>1, <4>3 DEF FileOK, FileType, SameAccess
      <4>5. FileOK(o.file)
        BY <4>3, <4>4 DEF FileOK
      <4>6. QED
        BY <2>1, <4>1, <4>2, <4>4, <4>5 DEF SameBuffer, SameAccess
    <3>2. CASE o.f = Discarded(e.f) /\ o.file = e.file
      <4>1. PICK S \in SUBSET {"EOF"} : S = {}
        OBVIOUS
      <4>2. PICK h : h = Off(Discarded(e.f), S)
        OBVIOUS
      <4>3. /\ Buffered(h) /\ SameBuffer(e.f, h) /\ h.cnt = 0
            /\ h.flags = (e.f.flags \ {"WR", "RD"}) \ S
        BY <2>1, <2>6, <4>2, DiscardedFields
      <4>4. h = o.f
        <5>1. Discarded(e.f).flags \ S = Discarded(e.f).flags
          BY <4>1
        <5>2. PICK k : k = Discarded(e.f)
          OBVIOUS
        <5>3. k = [Off(e.f, {"WR", "RD"}) EXCEPT !.cnt = 0, !.ptr = 0]
          BY <5>2 DEF Discarded
        <5>4. k \in StreamType
          <6>1. PICK b : b = Off(e.f, {"WR", "RD"})
            OBVIOUS
          <6>2. b \in StreamType
            BY <2>1, <6>1, OffFields DEF Buffered
          <6>3. k = [b EXCEPT !.cnt = 0, !.ptr = 0]
            BY <5>3, <6>1
          <6>4. PICK z \in Int : z = 0
            OBVIOUS
          <6>5. k = [b EXCEPT !.cnt = z, !.ptr = z]
            BY <6>3, <6>4
          <6>6. QED
            BY <6>2, <6>5 DEF StreamType
        <5>5. h = [k EXCEPT !.flags = k.flags \ S]
          BY <4>2, <5>2 DEF Off
        <5>6. k.flags \ S = k.flags
          BY <5>1, <5>2
        <5>7. h = k
          BY <5>4, <5>5, <5>6 DEF StreamType
        <5>8. QED
          BY <3>2, <5>2, <5>7
      <4>5. QED
        BY <2>1, <3>2, <4>1, <4>3, <4>4 DEF SameBuffer
    <3>3. QED
      BY <2>5, <3>1, <3>2
  <2>8. PICK S \in SUBSET {"EOF"} :
          /\ Buffered(o.f) /\ SameBuffer(f, o.f) /\ o.f.cnt = 0
          /\ o.f.flags = (e.f.flags \ {"WR", "RD"}) \ S
          /\ FileOK(o.file) /\ SameAccess(file, o.file)
          /\ S = {"EOF"} \/ (S = {} /\ o.file = e.file)
    BY <2>7
  <2>9. o.f.flags = ((f.flags \ {"DIRTY"}) \ {"WR", "RD"}) \ S
    BY <2>1, <2>8
  <2>10. ~Has(o.f, "WR") /\ "RD" \notin o.f.flags
    BY <2>9 DEF Has
  <2>11. Rules(o.f, o.file, mode, "seek", 0)
    <3>1. ~o.f.base => "NBF" \in o.f.flags \/ mode = "closed"
      BY <2>8, <2>9 DEF StreamInv, Rules, SameBuffer
    <3>2. ~o.f.base /\ o.file.read => "read_unbuffered" \in Habits
      BY <2>8 DEF StreamInv, Rules, SameBuffer, SameAccess
    <3>3. QED
      BY <2>8, <2>10, <3>1, <3>2 DEF Rules, Has
  <2>12. ReadsAt(o.f, o.file, 0)
    <3>1. "EOF" \in o.f.flags => "EOF" \in f.flags /\ o.file = e.file
      BY <2>8, <2>9
    <3>2. "EOF" \in o.f.flags /\ "read_unbuffered" \notin Habits
            => o.file.off = Len(o.file.data)
      BY <2>1, <3>1 DEF StreamInv, ReadsAt
    <3>3. QED
      BY <2>8, <2>10, <3>2 DEF ReadsAt
  <2>13. QED
    BY <2>8, <2>10, <2>11, <2>12 DEF SeekLeaves
<1>5. QED
  BY <1>3, <1>4

LEMMA FseekoStep ==
  ASSUME Careful, StreamInv, NEW whence \in {"SET", "CUR", "END"}, NEW d \in Int,
         Fseeko(whence, d)
  PROVE  StreamInv'
<1>1. PICK o \in Sought(whence, d) :
        f' = o.f /\ Repositions(o) /\ End(<<>>, o.ok)
  BY DEF Fseeko
<1>2. SeekLeaves(o)
  BY <1>1, SoughtOK DEF Fseeko
<1>3. /\ file' = o.file /\ npush' = 0 /\ mode' = mode
      /\ last' = IF Has(o.f, "WR") THEN last ELSE "seek"
  BY <1>1 DEF Repositions
<1>4. /\ Calls(f', call', last')
      /\ out' \in Seq(Int) /\ ret' \in {"ok", "fail"}
  BY <1>1, EndsEmpty
<1>5. QED
  BY <1>1, <1>2, <1>3, <1>4 DEF StreamInv, SeekLeaves

LEMMA RewindStep ==
  ASSUME Careful, StreamInv, Rewind
  PROVE  StreamInv'
<1>1. PICK o \in Sought("SET", 0) :
        f' = Off(o.f, {"ERR"}) /\ Repositions(o) /\ End(<<>>, o.ok)
  BY DEF Rewind
<1>2. SeekLeaves(o)
  BY <1>1, SoughtOK DEF Rewind
<1>3. PICK l : l = IF Has(o.f, "WR") THEN last ELSE "seek"
  OBVIOUS
<1>4. /\ file' = o.file /\ npush' = 0 /\ mode' = mode /\ last' = l
  BY <1>1, <1>3 DEF Repositions
<1>5. /\ Buffered(o.f) /\ FileOK(o.file) /\ Rules(o.f, o.file, mode, l, 0)
      /\ ReadsAt(o.f, o.file, 0)
  BY <1>2, <1>3 DEF SeekLeaves
<1>6. PICK S \in SUBSET {"ERR", "EOF", "NBF", "LBF"} : S = {"ERR"}
  OBVIOUS
<1>7. /\ Buffered(f') /\ SameBuffer(o.f, f') /\ f'.flags = o.f.flags \ S
      /\ f'.ptr = o.f.ptr /\ f'.cnt = o.f.cnt
  BY <1>1, <1>5, <1>6, UnnotedOK
<1>8. Rules(f', file', mode', last', npush')
  BY <1>4, <1>5, <1>6, <1>7 DEF Rules, SameBuffer
<1>9. ReadsAt(f', file', npush')
  BY <1>4, <1>5, <1>6, <1>7 DEF ReadsAt, At, SameBuffer
<1>10. /\ Calls(f', call', last')
       /\ out' \in Seq(Int) /\ ret' \in {"ok", "fail"}
  BY <1>1, EndsEmpty
<1>11. QED
  BY <1>3, <1>4, <1>5, <1>7, <1>8, <1>9, <1>10 DEF StreamInv

-----------------------------------------------------------------------------
(* The theorems.                                                           *)

LEMMA StreamStep ==
  ASSUME Careful, StreamInv, [Next]_vars
  PROVE  StreamInv'
<1>1. CASE Manage
  <2>1. ASSUME NEW m \in Modes, Fopen(m) PROVE StreamInv'
    BY <2>1, FopenStep
  <2>2. ASSUME NEW m \in Modes, Freopen(m) PROVE StreamInv'
    BY <2>2, FreopenStep
  <2>3. ASSUME NEW p \in Policies, NEW size \in {0, 1, BUFSIZ},
               NEW own \in BOOLEAN, Setvbuf(p, size, own)
        PROVE  StreamInv'
    BY <2>3, SetvbufStep
  <2>4. QED
    BY <1>1, <2>1, <2>2, <2>3, FcloseStep DEF Manage
<1>2. CASE Input
  <2>1. ASSUME NEW n \in 1 .. MaxCall, Fgets(n) \/ Fread(n) PROVE StreamInv'
    BY <2>1, FgetsStep, FreadStep
  <2>2. ASSUME NEW c \in Byte, Ungetc(c) PROVE StreamInv'
    BY <2>2, UngetcStep
  <2>3. QED
    BY <1>2, <2>1, <2>2, FgetcStep, ReadTurnStep DEF Input
<1>3. CASE Output
  <2>1. ASSUME NEW c \in Byte, Fputc(c) PROVE StreamInv'
    BY <2>1, FputcStep
  <2>2. ASSUME NEW s \in Strings, Fputs(s) \/ Puts(s) \/ Fwrite(s)
        PROVE  StreamInv'
    BY <2>2, FputsStep, PutsStep, FwriteStep
  <2>3. QED
    BY <1>3, <2>1, <2>2, FputsTurnStep, FputsEndStep, PutsTurnStep,
       PutsEndStep, FwriteLastStep, FwriteTurnStep DEF Output
<1>4. CASE Position
  <2>1. ASSUME NEW whence \in {"SET", "CUR", "END"}, NEW d \in {-1, 0, 1},
               Fseeko(whence, d)
        PROVE  StreamInv'
    BY <2>1, FseekoStep
  <2>2. QED
    BY <1>4, <2>1, FflushStep, RewindStep, FtelloStep, ClearerrStep
       DEF Position
<1>5. CASE UNCHANGED vars
  BY <1>5 DEF vars, StreamInv, Buffered, Rules, ReadsAt, Calls, FileOK,
              Lowest, Defined, At
<1>6. QED
  BY <1>1, <1>2, <1>3, <1>4, <1>5 DEF Next


\* The fields of the FILE fit together, the rules of C89 are kept, and a
\* buffer that is read holds what the file has next, whatever fails.
THEOREM StreamInvariant == ASSUME Careful PROVE Spec => []StreamInv
<1>1. Init => StreamInv
  BY InitInv
<1>2. StreamInv /\ [Next]_vars => StreamInv'
  BY StreamStep
<1>3. QED
  BY <1>1, <1>2, PTL DEF Spec

LEMMA StreamInBounds ==
  ASSUME StreamInv
  PROVE  BufferInBounds
<1>1. PICK p \in Int, c \in Int, s \in 0 .. BUFSIZ, l \in {-1, 0} :
        p = f.ptr /\ c = f.cnt /\ s = f.bsize /\ l = Lowest(f)
  BY DEF StreamInv, Buffered, StreamType, Lowest
<1>2. s \in Nat /\ s <= BUFSIZ /\ BUFSIZ \in Nat
  BY StreamAssumption
<1>3. 0 <= c /\ l <= p /\ p + c <= s
  BY <1>1 DEF StreamInv, Buffered
<1>4. f.ptr \in -1 .. BUFSIZ /\ f.cnt \in 0 .. BUFSIZ + 1
  <2>1. p \in -1 .. BUFSIZ /\ c \in 0 .. BUFSIZ + 1
    BY <1>2, <1>3
  <2>2. QED
    BY <1>1, <2>1
<1>5. npush \in 0 .. BUFSIZ + 1
  <2>1. PICK n \in Nat : n = npush /\ n <= c
    BY <1>1 DEF StreamInv, ReadsAt
  <2>2. n \in 0 .. BUFSIZ + 1
    BY <1>2, <1>3, <2>1
  <2>3. QED
    BY <2>1, <2>2
<1>6. f \in [base : BOOLEAN, buf : [-1 .. BUFSIZ - 1 -> Byte \cup {Junk}],
             ptr : -1 .. BUFSIZ, cnt : 0 .. BUFSIZ + 1, bsize : 0 .. BUFSIZ,
             flags : SUBSET Flags]
  BY <1>4 DEF StreamInv, Buffered, StreamType
<1>7. ~({"RD", "WR"} \subseteq f.flags)
  BY DEF StreamInv, Buffered
<1>8. out \in Seq(Int \cup {Junk})
  <2>1. PICK n \in Nat : n = Len(out)
    BY LenProperties DEF StreamInv
  <2>2. out \in [1 .. n -> Int]
    BY <2>1, LenProperties DEF StreamInv
  <2>3. out \in [1 .. n -> Int \cup {Junk}]
    BY <2>2
  <2>4. QED
    BY <2>3, FunctionIsSeq
<1>9. TypeOK
  BY <1>5, <1>6, <1>7, <1>8
     DEF TypeOK, StreamInv, FileOK, FileType, Calls, CallType
<1>10. ASSUME f.cnt # 0
       PROVE  /\ f.base
              /\ f.ptr >= IF Has(f, "RESERVE") THEN -1 ELSE 0
              /\ f.ptr + f.cnt <= f.bsize
  <2>1. f.ptr + f.cnt <= f.bsize /\ f.ptr >= Lowest(f)
    BY <1>1, <1>3 DEF StreamInv, Buffered
  <2>2. f.base
    <3>1. CASE "RESERVE" \in f.flags
      BY <3>1 DEF StreamInv, Buffered
    <3>2. CASE "RESERVE" \notin f.flags
      <4>1. l = 0
        BY <1>1, <3>2 DEF Lowest
      <4>2. c # 0
        BY <1>1, <1>10
      <4>3. 0 < s
        BY <1>2, <1>3, <4>1, <4>2
      <4>4. QED
        BY <1>1, <4>3 DEF StreamInv, Buffered
    <3>3. QED
      BY <3>1, <3>2
  <2>3. QED
    BY <2>1, <2>2 DEF Lowest, Has
<1>11. QED
  BY <1>9, <1>10 DEF BufferInBounds

\* _ptr and _cnt never leave the buffer, through every change of direction,
\* buffer and mode, whatever fails.
THEOREM StaysInBounds == ASSUME Careful PROVE Spec => []BufferInBounds
BY StreamInvariant, StreamInBounds, PTL

LEMMA StreamReadsFile ==
  ASSUME "read_unbuffered" \notin Habits, StreamInv
  PROVE  ReadsTheFile
<1>1. ASSUME Has(f, "EOF")
      PROVE  Pos >= Len(View)
  <2>1. /\ file.off = Len(file.data)
        /\ "RD" \in f.flags => f.cnt = 0
    BY <1>1 DEF StreamInv, ReadsAt, Has
  <2>2. PICK bs \in Seq(Byte) : bs = Pending(f)
    BY PendingBytes DEF StreamInv
  <2>3. PICK n \in Nat, k \in Nat : n = Len(file.data) /\ k = Len(bs)
    BY <2>2, LenProperties DEF StreamInv, FileOK, FileType
  <2>4. CASE bs = <<>>
    <3>1. Len(View) = n
      BY <2>2, <2>3, <2>4 DEF View
    <3>2. Pos = n
      BY <2>1, <2>2, <2>3, <2>4 DEF Pos, Has
    <3>3. QED
      BY <3>1, <3>2
  <2>5. CASE bs # <<>>
    <3>1. Where(file) = n
      BY <2>1, <2>3 DEF Where
    <3>2. Pos = n + k
      BY <2>2, <2>3, <2>5, <3>1 DEF Pos
    <3>3. View = Overlay(file.data, n, bs)
      BY <2>2, <2>5, <3>1 DEF View
    <3>4. k # 0
      BY <2>2, <2>3, <2>5, EmptySeq
    <3>5. Len(Overlay(file.data, n, bs)) = IF n + k <= n THEN n ELSE n + k
      BY <2>2, <2>3, OverlayIsSeq DEF StreamInv, FileOK, FileType
    <3>6. ~(n + k <= n)
      BY <3>4
    <3>7. Len(View) = n + k
      BY <3>3, <3>5, <3>6
    <3>8. QED
      BY <3>2, <3>7
  <2>6. QED
    BY <2>4, <2>5
<1>2. QED
  BY <1>1 DEF ReadsTheFile, StreamInv, ReadsAt, Has

\* What is buffered for reading is what the file holds at the position of the
\* program, and the end of the file is reported at its end only, when no
\* stream that is read is made unbuffered.
THEOREM AlwaysReadsTheFile ==
  ASSUME Careful, "read_unbuffered" \notin Habits
  PROVE  Spec => []ReadsTheFile
BY StreamInvariant, StreamReadsFile, PTL

\* No byte of a buffer that was never filled reaches the program, whatever
\* the buffer was used for before and whatever fails.
THEOREM NeverReadsJunk == ASSUME Careful PROVE Spec => []NoJunkRead
<1>1. ASSUME StreamInv PROVE NoJunkRead
  <2>1. \A i \in 1 .. Len(out) : out[i] \in Int
    BY <1>1, ElementOfSeq DEF StreamInv
  <2>2. DOMAIN out = 1 .. Len(out)
    BY <1>1, LenProperties DEF StreamInv
  <2>3. QED
    BY <2>1, <2>2, StreamAssumption DEF NoJunkRead, ToSet
<1>2. QED
  BY <1>1, StreamInvariant, PTL

=============================================================================
