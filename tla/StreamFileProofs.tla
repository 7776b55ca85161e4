--------------------------- MODULE StreamFileProofs ---------------------------
(***************************************************************************)
(* Proofs about what the program sees of a stdio stream (Stream): that the *)
(* stream implements a file without a buffer (ByteFile), that its writing  *)
(* functions write their bytes, and where seeks lead, for every size of    *)
(* buffer, every mode and every sequence of calls.                         *)
(***************************************************************************)
EXTENDS StreamProofs

-----------------------------------------------------------------------------
(* What bytes written over a file do to each other.                        *)

LEMMA PartElements ==
  ASSUME NEW S, NEW s \in Seq(S), NEW m \in Nat, NEW n \in Nat, 0 < m, n <= Len(s),
         NEW i \in Nat, 0 < i, m + i <= n + 1
  PROVE  SubSeq(s, m, n)[i] = s[m + i - 1]
<1>1. \A j \in m .. n : s[j] \in S
  <2>1. SUFFICES ASSUME NEW j \in m .. n PROVE s[j] \in S
    OBVIOUS
  <2>2. j \in 1 .. Len(s)
    BY LenProperties
  <2>3. QED
    BY <2>2, ElementOfSeq
<1>2. i \in 1 .. n - m + 1
  OBVIOUS
<1>3. m \in Int /\ n \in Int
  OBVIOUS
<1>4. \A j \in 1 .. n - m + 1 : SubSeq(s, m, n)[j] = s[m + j - 1]
  BY <1>1, <1>3, SubSeqProperties
<1>5. QED
  BY <1>2, <1>4

\* The bytes of the file after a write, one by one.
LEMMA OverlayElements ==
  ASSUME NEW S, NEW d \in Seq(S), NEW bs \in Seq(S), NEW at \in Nat,
         at <= Len(d)
  PROVE  \A i \in 1 .. Len(Overlay(d, at, bs)) :
           Overlay(d, at, bs)[i] =
             IF at < i /\ i <= at + Len(bs) THEN bs[i - at] ELSE d[i]
<1>1. PICK n \in Nat, k \in Nat : n = Len(d) /\ k = Len(bs)
  BY LenProperties
<1>2. PICK a : a = SubSeq(d, 1, at)
  OBVIOUS
<1>3. a \in Seq(S) /\ Len(a) = at
  BY <1>1, <1>2, PartIsSeq
<1>4. PICK c : c = SubSeq(d, at + k + 1, n)
  OBVIOUS
<1>5. PICK m \in Nat : m = at + k + 1 /\ 0 < m
  BY <1>1
<1>6. c \in Seq(S) /\ Len(c) = IF m <= n THEN n - m + 1 ELSE 0
  BY <1>1, <1>4, <1>5, PartIsSeq
<1>7. /\ a \o bs \in Seq(S) /\ Len(a \o bs) = at + k
      /\ \A i \in 1 .. at + k :
           (a \o bs)[i] = IF i <= at THEN a[i] ELSE bs[i - at]
  BY <1>1, <1>3, ConcatProperties
<1>8. PICK e : e = a \o bs
  OBVIOUS
<1>9. PICK l \in Nat : l = Len(c)
  BY <1>6, LenProperties
<1>10. /\ Len(e \o c) = at + k + l
       /\ \A i \in 1 .. at + k + l :
            (e \o c)[i] = IF i <= at + k THEN e[i] ELSE c[i - (at + k)]
  <2>1. e \in Seq(S) /\ Len(e) = at + k
    BY <1>7, <1>8
  <2>2. /\ Len(e \o c) = Len(e) + Len(c)
        /\ \A i \in 1 .. Len(e) + Len(c) :
             (e \o c)[i] = IF i <= Len(e) THEN e[i] ELSE c[i - Len(e)]
    BY <1>6, <2>1, ConcatProperties
  <2>3. QED
    BY <1>9, <2>1, <2>2
<1>11. Overlay(d, at, bs) = e \o c
  BY <1>1, <1>2, <1>4, <1>8 DEF Overlay
<1>12. ASSUME NEW i \in 1 .. at + k + l
       PROVE  (e \o c)[i] = IF at < i /\ i <= at + k THEN bs[i - at] ELSE d[i]
  <2>1. CASE i <= at
    <3>1. a[i] = d[i]
      <4>1. PICK u \in Nat : u = 1
        OBVIOUS
      <4>2. SubSeq(d, u, at)[i] = d[u + i - 1]
        BY <1>1, <2>1, <4>1, PartElements
      <4>3. u + i - 1 = i
        BY <4>1, <1>12
      <4>4. QED
        BY <1>2, <4>1, <4>2, <4>3
    <3>2. i \in 1 .. at + k /\ i <= at + k /\ ~(at < i)
      BY <2>1
    <3>3. e[i] = a[i]
      BY <1>7, <1>8, <2>1, <3>2
    <3>4. QED
      BY <1>10, <3>1, <3>2, <3>3
  <2>2. CASE at < i /\ i <= at + k
    <3>1. i \in 1 .. at + k /\ ~(i <= at)
      BY <2>2
    <3>2. e[i] = bs[i - at]
      BY <1>7, <1>8, <3>1
    <3>3. QED
      BY <1>10, <2>2, <3>2
  <2>3. CASE at + k < i
    <3>1. PICK j \in Nat : j = i - (at + k) /\ 0 < j /\ j <= l
      BY <2>3
    <3>2. l # 0
      BY <3>1
    <3>3. m <= n /\ l = n - m + 1
      BY <1>6, <1>9, <3>2
    <3>4. m + j <= n + 1 /\ m + j - 1 = i
      BY <1>5, <3>1, <3>3
    <3>5. SubSeq(d, m, n)[j] = d[m + j - 1]
      BY <1>1, <1>5, <3>1, <3>4, PartElements
    <3>6. c[j] = d[i]
      BY <1>4, <1>5, <3>4, <3>5
    <3>7. (e \o c)[i] = c[i - (at + k)]
      BY <1>10, <2>3
    <3>8. QED
      BY <2>3, <3>1, <3>6, <3>7
  <2>4. i \in Nat
    BY <1>1
  <2>5. i <= at \/ (at < i /\ i <= at + k) \/ at + k < i
    BY <1>1, <2>4
  <2>6. QED
    BY <2>1, <2>2, <2>3, <2>5
<1>13. QED
  BY <1>1, <1>10, <1>11, <1>12

LEMMA OverlayNothing ==
  ASSUME NEW S, NEW d \in Seq(S), NEW at \in Nat, at <= Len(d)
  PROVE  Overlay(d, at, <<>>) = d
<1>1. PICK bs \in Seq(S) : bs = <<>> /\ Len(bs) = 0
  BY EmptySeq
<1>2. PICK n \in Nat : n = Len(d)
  BY LenProperties
<1>3. PICK e : e = Overlay(d, at, bs)
  OBVIOUS
<1>4. e \in Seq(S) /\ Len(e) = n
  <2>1. /\ e \in Seq(S)
        /\ Len(e) = IF at + Len(bs) <= Len(d) THEN Len(d) ELSE at + Len(bs)
    BY <1>1, <1>3, OverlayIsSeq
  <2>2. at + Len(bs) = at
    BY <1>1
  <2>3. QED
    BY <1>2, <2>1, <2>2
<1>5. \A i \in 1 .. Len(e) :
        e[i] = IF at < i /\ i <= at + Len(bs) THEN bs[i - at] ELSE d[i]
  BY <1>3, OverlayElements
<1>6. \A i \in 1 .. Len(e) : e[i] = d[i]
  BY <1>1, <1>4, <1>5
<1>7. e = d
  BY <1>2, <1>4, <1>6, SeqEqual
<1>8. QED
  BY <1>1, <1>3, <1>7

\* What was written is there.
LEMMA OverlayGives ==
  ASSUME NEW S, NEW d \in Seq(S), NEW bs \in Seq(S), NEW at \in Nat,
         at <= Len(d)
  PROVE  SubSeq(Overlay(d, at, bs), at + 1, at + Len(bs)) = bs
<1>1. PICK n \in Nat, k \in Nat : n = Len(d) /\ k = Len(bs)
  BY LenProperties
<1>2. PICK e : e = Overlay(d, at, bs)
  OBVIOUS
<1>3. e \in Seq(S) /\ Len(e) = IF at + k <= n THEN n ELSE at + k
  BY <1>1, <1>2, OverlayIsSeq
<1>4. \A i \in 1 .. Len(e) :
        e[i] = IF at < i /\ i <= at + Len(bs) THEN bs[i - at] ELSE d[i]
  BY <1>2, OverlayElements
<1>5. PICK m \in Nat, q \in Nat : m = at + 1 /\ q = at + k /\ 0 < m
  BY <1>1
<1>6. q <= Len(e)
  BY <1>1, <1>3, <1>5
<1>7. PICK p : p = SubSeq(e, m, q)
  OBVIOUS
<1>8. p \in Seq(S) /\ Len(p) = IF m <= q THEN q - m + 1 ELSE 0
  BY <1>3, <1>5, <1>6, <1>7, PartIsSeq
<1>9. Len(p) = k
  BY <1>5, <1>8
<1>10. ASSUME NEW i \in 1 .. k PROVE p[i] = bs[i]
  <2>1. i \in Nat /\ 0 < i /\ m + i <= q + 1
    BY <1>5
  <2>2. SubSeq(e, m, q)[i] = e[m + i - 1]
    BY <1>3, <1>5, <1>6, <2>1, PartElements
  <2>3. PICK j \in Nat : j = at + i
    OBVIOUS
  <2>4. m + i - 1 = j /\ j \in 1 .. Len(e) /\ at < j /\ j <= at + k /\ j - at = i
    BY <1>1, <1>3, <1>5, <2>3
  <2>5. QED
    BY <1>1, <1>4, <1>7, <2>2, <2>4
<1>11. p = bs
  BY <1>1, <1>8, <1>9, <1>10, SeqEqual
<1>12. QED
  BY <1>1, <1>2, <1>5, <1>7, <1>11

\* Two writes in a row are one.
LEMMA OverlayTwice ==
  ASSUME NEW S, NEW d \in Seq(S), NEW a \in Seq(S), NEW b \in Seq(S),
         NEW at \in Nat, at <= Len(d)
  PROVE  Overlay(Overlay(d, at, a), at + Len(a), b) = Overlay(d, at, a \o b)
<1>1. PICK n \in Nat, k \in Nat, l \in Nat :
        n = Len(d) /\ k = Len(a) /\ l = Len(b)
  BY LenProperties
<1>2. PICK e : e = Overlay(d, at, a)
  OBVIOUS
<1>3. e \in Seq(S) /\ Len(e) = IF at + k <= n THEN n ELSE at + k
  BY <1>1, <1>2, OverlayIsSeq
<1>4. \A i \in 1 .. Len(e) :
        e[i] = IF at < i /\ i <= at + k THEN a[i - at] ELSE d[i]
  BY <1>1, <1>2, OverlayElements
<1>5. PICK q \in Nat : q = at + k /\ q <= Len(e)
  BY <1>1, <1>3
<1>6. PICK g : g = Overlay(e, q, b)
  OBVIOUS
<1>7. g \in Seq(S) /\ Len(g) = IF q + l <= Len(e) THEN Len(e) ELSE q + l
  BY <1>1, <1>3, <1>5, <1>6, OverlayIsSeq
<1>8. \A i \in 1 .. Len(g) :
        g[i] = IF q < i /\ i <= q + l THEN b[i - q] ELSE e[i]
  BY <1>1, <1>3, <1>5, <1>6, OverlayElements, SMTT(20)
<1>9. PICK c : c = a \o b
  OBVIOUS
<1>10. /\ c \in Seq(S) /\ Len(c) = k + l
       /\ \A i \in 1 .. k + l : c[i] = IF i <= k THEN a[i] ELSE b[i - k]
  BY <1>1, <1>9, ConcatProperties
<1>11. PICK h : h = Overlay(d, at, c)
  OBVIOUS
<1>12. /\ h \in Seq(S)
       /\ Len(h) = IF at + (k + l) <= n THEN n ELSE at + (k + l)
  BY <1>1, <1>10, <1>11, OverlayIsSeq
<1>13. \A i \in 1 .. Len(h) :
         h[i] = IF at < i /\ i <= at + (k + l) THEN c[i - at] ELSE d[i]
  <2>1. \A i \in 1 .. Len(h) :
          h[i] = IF at < i /\ i <= at + Len(c) THEN c[i - at] ELSE d[i]
    BY <1>10, <1>11, OverlayElements
  <2>2. QED
    BY <1>10, <2>1
<1>14. PICK r \in Nat : r = Len(e)
  BY <1>3, LenProperties
<1>15. r = IF at + k <= n THEN n ELSE at + k
  BY <1>3, <1>14
<1>16. Len(g) = Len(h)
  BY <1>5, <1>7, <1>12, <1>14, <1>15
<1>17. ASSUME NEW i \in 1 .. Len(h) PROVE g[i] = h[i]
  <2>1. i \in Nat /\ 0 < i /\ i \in 1 .. Len(g)
    BY <1>12, <1>16, LenProperties
  <2>2. CASE i <= at
    <3>1. g[i] = e[i] /\ h[i] = d[i]
      BY <1>5, <1>8, <1>13, <2>1, <2>2
    <3>2. i \in 1 .. Len(e)
      BY <1>5, <1>14, <2>1, <2>2
    <3>3. ~(at < i)
      BY <2>1, <2>2
    <3>4. e[i] = d[i]
      BY <1>4, <3>2, <3>3
    <3>5. QED
      BY <3>1, <3>4
  <2>3. CASE at < i /\ i <= q
    <3>1. g[i] = e[i] /\ h[i] = c[i - at]
      BY <1>5, <1>8, <1>13, <2>1, <2>3
    <3>2. i \in 1 .. Len(e)
      BY <1>5, <1>14, <2>1, <2>3
    <3>3. e[i] = a[i - at]
      BY <1>4, <1>5, <2>3, <3>2
    <3>4. PICK j \in Nat : j = i - at /\ 0 < j /\ j <= k
      BY <1>5, <2>1, <2>3
    <3>5. j \in 1 .. k + l
      BY <3>4
    <3>6. c[j] = a[j]
      BY <1>10, <3>4, <3>5
    <3>7. QED
      BY <3>1, <3>3, <3>4, <3>6
  <2>4. CASE q < i /\ i <= q + l
    <3>1. g[i] = b[i - q] /\ h[i] = c[i - at]
      BY <1>5, <1>8, <1>13, <2>1, <2>4
    <3>2. PICK j \in Nat : j = i - at /\ k < j /\ j <= k + l /\ j - k = i - q
      BY <1>5, <2>1, <2>4
    <3>3. j \in 1 .. k + l /\ ~(j <= k)
      BY <3>2
    <3>4. c[j] = b[j - k]
      BY <1>10, <3>3
    <3>5. QED
      BY <3>1, <3>2, <3>4
  <2>5. CASE q + l < i
    <3>1. g[i] = e[i] /\ h[i] = d[i]
      BY <1>5, <1>8, <1>13, <2>1, <2>5
    <3>2. i \in 1 .. Len(e)
      BY <1>7, <1>14, <2>1, <2>5
    <3>3. ~(i <= at + k)
      BY <1>5, <2>1, <2>5
    <3>4. QED
      BY <1>4, <3>1, <3>2, <3>3
  <2>6. QED
    BY <1>5, <2>1, <2>2, <2>3, <2>4, <2>5
<1>18. g = h
  <2>1. \A i \in 1 .. Len(g) : g[i] = h[i]
    BY <1>16, <1>17
  <2>2. QED
    BY <1>7, <1>12, <1>16, <2>1, SeqEqual
<1>19. QED
  BY <1>1, <1>2, <1>5, <1>6, <1>9, <1>11, <1>18

-----------------------------------------------------------------------------
(* The file as it will be when the buffer has gone out.                    *)

Settled(fl, fi) == Store(fi, Pending(fl))

LEMMA StoreFields ==
  ASSUME NEW fi, FileOK(fi), NEW bs \in Seq(Byte)
  PROVE  /\ Store(fi, bs).data = Overlay(fi.data, Where(fi), bs)
         /\ Store(fi, bs).off = IF bs = <<>> THEN fi.off
                                ELSE Where(fi) + Len(bs)
         /\ Where(Store(fi, bs)) = Where(fi) + Len(bs)
<1>1. PICK w \in Nat, k \in Nat, n \in Nat :
        w = Where(fi) /\ k = Len(bs) /\ n = Len(fi.data) /\ w <= n
  BY WhereOK, LenProperties DEF FileOK, FileType
<1>2. fi.data \in Seq(Byte)
  BY DEF FileOK, FileType
<1>3. PICK d : d = Overlay(fi.data, w, bs)
  OBVIOUS
<1>4. d \in Seq(Byte) /\ Len(d) = IF w + k <= n THEN n ELSE w + k
  BY <1>1, <1>2, <1>3, OverlayIsSeq
<1>5. CASE bs = <<>>
  <2>1. k = 0 /\ d = fi.data
    BY <1>1, <1>2, <1>3, <1>5, OverlayNothing, EmptySeq
  <2>2. Store(fi, bs) = fi
    BY <1>5 DEF Store
  <2>3. QED
    BY <1>1, <1>3, <1>5, <2>1, <2>2
<1>6. CASE bs # <<>>
  <2>1. PICK q \in Nat : q = w + k
    BY <1>1
  <2>2. PICK gi : gi = [fi EXCEPT !.data = d, !.off = q]
    OBVIOUS
  <2>3. gi = Store(fi, bs)
    BY <1>1, <1>3, <1>6, <2>1, <2>2 DEF Store, FileOK, FileType
  <2>4. gi.data = d /\ gi.off = q /\ gi.append = fi.append
    BY <1>4, <2>2 DEF FileOK, FileType
  <2>5. Where(gi) = q
    <3>1. CASE fi.append
      <4>1. w = n
        BY <1>1, <3>1 DEF Where
      <4>2. Len(d) = q
        BY <1>1, <1>4, <2>1, <4>1
      <4>3. QED
        BY <2>4, <3>1, <4>2 DEF Where
    <3>2. CASE ~fi.append
      BY <2>4, <3>2 DEF Where
    <3>3. QED
      BY <3>1, <3>2
  <2>6. QED
    BY <1>1, <1>3, <1>6, <2>1, <2>3, <2>4, <2>5
<1>7. QED
  BY <1>5, <1>6

LEMMA SameFile ==
  ASSUME NEW fi \in FileType, NEW gi \in FileType, SameAccess(fi, gi),
         fi.data = gi.data, fi.off = gi.off
  PROVE  fi = gi
BY DEF FileType, SameAccess

LEMMA StoreTwice ==
  ASSUME NEW fi, FileOK(fi), NEW a \in Seq(Byte), NEW b \in Seq(Byte)
  PROVE  Store(Store(fi, a), b) = Store(fi, a \o b)
<1>1. PICK gi : gi = Store(fi, a)
  OBVIOUS
<1>2. PICK hi : hi = Store(gi, b)
  OBVIOUS
<1>3. PICK c : c = a \o b
  OBVIOUS
<1>4. PICK ei : ei = Store(fi, c)
  OBVIOUS
<1>5. PICK w \in Nat, k \in Nat, l \in Nat :
        w = Where(fi) /\ k = Len(a) /\ l = Len(b) /\ w <= Len(fi.data)
  BY WhereOK, LenProperties
<1>6. c \in Seq(Byte) /\ Len(c) = k + l
  BY <1>3, <1>5, ConcatProperties
<1>7. FileOK(gi) /\ SameAccess(fi, gi)
  BY <1>1, StoreOK
<1>8. FileOK(hi) /\ SameAccess(gi, hi)
  BY <1>2, <1>7, StoreOK
<1>9. FileOK(ei) /\ SameAccess(fi, ei)
  BY <1>4, <1>6, StoreOK
<1>10. /\ gi.data = Overlay(fi.data, w, a) /\ Where(gi) = w + k
       /\ gi.off = IF a = <<>> THEN fi.off ELSE w + k
  BY <1>1, <1>5, StoreFields
<1>11. /\ hi.data = Overlay(gi.data, w + k, b)
       /\ hi.off = IF b = <<>> THEN gi.off ELSE (w + k) + l
  BY <1>2, <1>5, <1>7, <1>10, StoreFields
<1>12. /\ ei.data = Overlay(fi.data, w, c)
       /\ ei.off = IF c = <<>> THEN fi.off ELSE w + (k + l)
  BY <1>4, <1>5, <1>6, StoreFields
<1>13. hi.data = ei.data
  <2>1. fi.data \in Seq(Byte)
    BY DEF FileOK, FileType
  <2>2. Overlay(Overlay(fi.data, w, a), w + Len(a), b) = Overlay(fi.data, w, a \o b)
    BY <1>5, <2>1, OverlayTwice
  <2>3. QED
    BY <1>3, <1>5, <1>10, <1>11, <1>12, <2>2
<1>14. hi.off = ei.off
  <2>1. CASE b = <<>>
    <3>1. c = a /\ l = 0
      BY <1>3, <1>5, <2>1, ConcatEmptySeq, EmptySeq
    <3>2. QED
      BY <1>10, <1>11, <1>12, <2>1, <3>1
  <2>2. CASE b # <<>>
    <3>1. l # 0
      BY <1>5, <2>2, EmptySeq
    <3>2. k + l # 0
      BY <3>1
    <3>3. c # <<>>
      BY <1>6, <3>2, EmptySeq
    <3>4. (w + k) + l = w + (k + l)
      OBVIOUS
    <3>5. QED
      BY <1>11, <1>12, <2>2, <3>3, <3>4
  <2>3. QED
    BY <2>1, <2>2
<1>15. SameAccess(hi, ei)
  BY <1>7, <1>8, <1>9 DEF SameAccess
<1>16. hi = ei
  BY <1>8, <1>9, <1>13, <1>14, <1>15, SameFile DEF FileOK
<1>17. QED
  BY <1>1, <1>2, <1>3, <1>4, <1>16

\* The file as the program sees it and where the program is, of any stream.
ViewOf(fl, fi) ==
  IF Pending(fl) = <<>> THEN fi.data
  ELSE Overlay(fi.data, Where(fi), Pending(fl))

PosOf(fl, fi) ==
  IF Pending(fl) # <<>> THEN Where(fi) + Len(Pending(fl))
  ELSE IF Has(fl, "RD") THEN fi.off - fl.cnt ELSE fi.off

LEMMA SeenNow == View = ViewOf(f, file) /\ Pos = PosOf(f, file)
BY DEF View, Pos, ViewOf, PosOf

LEMMA SeenNext == View' = ViewOf(f', file') /\ Pos' = PosOf(f', file')
BY DEF View, Pos, ViewOf, PosOf

LEMMA SettledIsSeen ==
  ASSUME NEW fl, Buffered(fl), NEW fi, FileOK(fi)
  PROVE  /\ FileOK(Settled(fl, fi)) /\ SameAccess(fi, Settled(fl, fi))
         /\ ViewOf(fl, fi) = Settled(fl, fi).data
         /\ PosOf(fl, fi) = Settled(fl, fi).off -
                              (IF "RD" \in fl.flags THEN fl.cnt ELSE 0)
<1>1. PICK bs \in Seq(Byte) : bs = Pending(fl)
  BY PendingBytes
<1>2. PICK s : s = Store(fi, bs)
  OBVIOUS
<1>3. FileOK(s) /\ SameAccess(fi, s)
  BY <1>2, StoreOK
<1>4. /\ s.data = Overlay(fi.data, Where(fi), bs)
      /\ s.off = IF bs = <<>> THEN fi.off ELSE Where(fi) + Len(bs)
  BY <1>2, StoreFields
<1>5. fi.data \in Seq(Byte) /\ Where(fi) \in Nat /\ Where(fi) <= Len(fi.data)
  BY WhereOK DEF FileOK, FileType
<1>6. ViewOf(fl, fi) = s.data
  BY <1>1, <1>4, <1>5, OverlayNothing DEF ViewOf
<1>7. PosOf(fl, fi) = s.off - (IF "RD" \in fl.flags THEN fl.cnt ELSE 0)
  <2>1. CASE bs = <<>>
    BY <1>1, <1>4, <2>1 DEF PosOf, Has, FileOK, FileType
  <2>2. CASE bs # <<>>
    <3>1. "RD" \notin fl.flags
      BY <1>1, <2>2, PendingBytes DEF Buffered
    <3>2. Len(bs) \in Nat
      BY LenProperties
    <3>3. QED
      BY <1>1, <1>4, <1>5, <2>2, <3>1, <3>2 DEF PosOf
  <2>3. QED
    BY <2>1, <2>2
<1>8. QED
  BY <1>1, <1>2, <1>3, <1>6, <1>7 DEF Settled

\* What of a stream says which bytes are pending.
LEMMA SamePending ==
  ASSUME NEW fl, Buffered(fl), NEW g, Buffered(g),
         "DIRTY" \in fl.flags <=> "DIRTY" \in g.flags,
         "DIRTY" \in fl.flags => fl.ptr = g.ptr /\ fl.buf = g.buf
  PROVE  Pending(fl) = Pending(g)
<1>1. MustFlush(fl) <=> "DIRTY" \in fl.flags
  BY PendingBytes
<1>2. MustFlush(g) <=> "DIRTY" \in g.flags
  BY PendingBytes
<1>3. QED
  BY <1>1, <1>2 DEF Pending

\* Bytes that are put become pending after those that are.
LEMMA PendingPlaced ==
  ASSUME NEW fl, Buffered(fl), "WR" \in fl.flags, fl.base,
         NEW bs \in Seq(Byte), Len(bs) <= fl.cnt,
         NEW g, Buffered(g), "DIRTY" \in g.flags,
         g.buf = Place(fl, bs).buf, g.ptr = fl.ptr + Len(bs)
  PROVE  Pending(g) = Pending(fl) \o bs
<1>1. PICK a : a = Pending(fl)
  OBVIOUS
<1>2. PICK n \in Nat : n = Len(bs)
  BY LenProperties
<1>3. PICK p \in Int, c \in Int, m \in Nat :
        p = fl.ptr /\ c = fl.cnt /\ m = fl.bsize /\ m <= BUFSIZ
  BY StreamAssumption DEF Buffered, StreamType
<1>4. 0 <= p /\ p + c = m /\ n <= c
  BY <1>2, <1>3 DEF Buffered
<1>5. p \in Nat /\ p + n <= BUFSIZ
  <2>1. PICK b \in Nat : b = BUFSIZ
    BY StreamAssumption
  <2>2. m <= b
    BY <1>3, <2>1
  <2>3. p \in Nat /\ p + n <= b
    BY <1>4, <2>2
  <2>4. QED
    BY <2>1, <2>3
<1>6. a \in Seq(Byte) /\ Len(a) = p
  <2>1. CASE "DIRTY" \in fl.flags
    BY <1>1, <1>3, <2>1, PendingBytes
  <2>2. CASE "DIRTY" \notin fl.flags
    <3>1. p = 0
      BY <1>3, <2>2 DEF Buffered
    <3>2. QED
      BY <1>1, <2>2, <3>1, PendingBytes
  <2>3. QED
    BY <2>1, <2>2
<1>7. \A i \in 1 .. p : a[i] = fl.buf[i - 1]
  <2>1. CASE "DIRTY" \in fl.flags
    BY <1>1, <1>3, <2>1, PendingBytes DEF Pending
  <2>2. CASE "DIRTY" \notin fl.flags
    <3>1. p = 0
      BY <1>3, <2>2 DEF Buffered
    <3>2. QED
      BY <3>1
  <2>3. QED
    BY <2>1, <2>2
<1>8. PICK z : z = Pending(g)
  OBVIOUS
<1>9. z \in Seq(Byte) /\ Len(z) = p + n
  BY <1>2, <1>3, <1>8, PendingBytes
<1>10. \A i \in 1 .. p + n : z[i] = g.buf[i - 1]
  BY <1>2, <1>3, <1>8, PendingBytes DEF Pending
<1>11. \A i \in -1 .. BUFSIZ - 1 :
         g.buf[i] = IF i \in p .. p + n - 1 THEN bs[i - p + 1] ELSE fl.buf[i]
  <2>1. fl.buf \in [-1 .. BUFSIZ - 1 -> Byte \cup {Junk}]
    BY DEF Buffered, StreamType
  <2>2. PICK b : b = [i \in DOMAIN fl.buf |->
                        IF i \in p .. p + n - 1 THEN bs[i - p + 1] ELSE fl.buf[i]]
    OBVIOUS
  <2>3. Place(fl, bs).buf = b
    BY <1>2, <1>3, <2>2 DEF Place, Buffered, StreamType
  <2>4. g.buf = b
    BY <2>3
  <2>5. DOMAIN fl.buf = -1 .. BUFSIZ - 1
    BY <2>1
  <2>6. QED
    BY <2>2, <2>4, <2>5
<1>12. /\ a \o bs \in Seq(Byte) /\ Len(a \o bs) = p + n
       /\ \A i \in 1 .. p + n :
            (a \o bs)[i] = IF i <= p THEN a[i] ELSE bs[i - p]
  <2>1. /\ a \o bs \in Seq(Byte) /\ Len(a \o bs) = Len(a) + Len(bs)
        /\ \A i \in 1 .. Len(a) + Len(bs) :
             (a \o bs)[i] = IF i <= Len(a) THEN a[i] ELSE bs[i - Len(a)]
    BY <1>6, ConcatProperties
  <2>2. QED
    BY <1>2, <1>6, <2>1
<1>13. ASSUME NEW i \in 1 .. p + n PROVE z[i] = (a \o bs)[i]
  <2>1. PICK j \in Int : j = i - 1
    BY <1>5
  <2>2. j \in -1 .. BUFSIZ - 1 /\ z[i] = g.buf[j]
    BY <1>5, <1>10, <2>1, StreamAssumption
  <2>3. CASE i <= p
    <3>1. j \notin p .. p + n - 1 /\ i \in 1 .. p
      BY <1>5, <2>1, <2>3
    <3>2. g.buf[j] = fl.buf[j] /\ a[i] = fl.buf[j]
      BY <1>7, <1>11, <2>1, <2>2, <3>1
    <3>3. QED
      BY <1>12, <2>2, <2>3, <3>2
  <2>4. CASE ~(i <= p)
    <3>1. j \in p .. p + n - 1 /\ j - p + 1 = i - p
      BY <1>5, <2>1, <2>4
    <3>2. g.buf[j] = bs[j - p + 1]
      BY <1>11, <2>2, <3>1
    <3>3. (a \o bs)[i] = bs[i - p]
      BY <1>12, <2>4
    <3>4. QED
      BY <2>2, <3>1, <3>2, <3>3
  <2>5. QED
    BY <2>3, <2>4
<1>14. z = a \o bs
  BY <1>9, <1>12, <1>13, SeqEqual
<1>15. QED
  BY <1>1, <1>8, <1>14

\* From fl and fi to g and gi the bytes bs were written, as the program
\* sees it; the kernel has what it had, or all that was pending before or
\* after.
Wrote(fl, fi, g, gi, bs) ==
  /\ Settled(g, gi) = Store(Settled(fl, fi), bs)
  /\ gi.data \in {fi.data, Settled(fl, fi).data, Settled(g, gi).data}
  /\ "EOF" \in g.flags <=> "EOF" \in fl.flags

LEMMA WroteTwice ==
  ASSUME NEW fl, Buffered(fl), NEW fi, FileOK(fi), NEW g, NEW gi, NEW h, NEW hi,
         NEW a \in Seq(Byte), NEW b \in Seq(Byte),
         Wrote(fl, fi, g, gi, a), Wrote(g, gi, h, hi, b),
         a = <<>> \/ b = <<>> \/ hi.data = Settled(h, hi).data
  PROVE  Wrote(fl, fi, h, hi, a \o b)
<1>1. PICK s : s = Settled(fl, fi)
  OBVIOUS
<1>2. FileOK(s)
  BY <1>1, SettledIsSeen
<1>3. Settled(g, gi) = Store(s, a)
  BY <1>1 DEF Wrote
<1>4. Settled(h, hi) = Store(Store(s, a), b)
  BY <1>3 DEF Wrote
<1>5. Settled(h, hi) = Store(s, a \o b)
  BY <1>2, <1>4, StoreTwice
<1>6. hi.data \in {fi.data, s.data, Settled(h, hi).data}
  <2>1. CASE a = <<>>
    <3>1. Settled(g, gi) = s
      BY <1>3, <2>1 DEF Store
    <3>2. QED
      BY <1>1, <3>1 DEF Wrote
  <2>2. CASE b = <<>>
    <3>1. Settled(h, hi) = Settled(g, gi)
      BY <1>3, <1>4, <2>2 DEF Store
    <3>2. QED
      BY <1>1, <3>1 DEF Wrote
  <2>3. CASE hi.data = Settled(h, hi).data
    BY <2>3
  <2>4. QED
    BY <2>1, <2>2, <2>3
<1>7. QED
  BY <1>1, <1>5, <1>6 DEF Wrote

\* The same when one of the two writes nothing.
LEMMA WroteThen ==
  ASSUME NEW fl, Buffered(fl), NEW fi, FileOK(fi), NEW g, NEW gi, NEW h, NEW hi,
         NEW a \in Seq(Byte), Wrote(fl, fi, g, gi, a), Wrote(g, gi, h, hi, <<>>)
  PROVE  Wrote(fl, fi, h, hi, a)
<1>1. PICK e \in Seq(Byte) : e = <<>>
  BY EmptySeq
<1>2. a \o e = a
  BY <1>1, ConcatEmptySeq
<1>3. Wrote(g, gi, h, hi, e)
  BY <1>1
<1>4. e = <<>>
  BY <1>1
<1>5. Wrote(fl, fi, h, hi, a \o e)
  BY <1>3, <1>4, WroteTwice
<1>6. QED
  BY <1>2, <1>5

LEMMA ThenWrote ==
  ASSUME NEW fl, Buffered(fl), NEW fi, FileOK(fi), NEW g, NEW gi, NEW h, NEW hi,
         NEW b \in Seq(Byte), Wrote(fl, fi, g, gi, <<>>), Wrote(g, gi, h, hi, b)
  PROVE  Wrote(fl, fi, h, hi, b)
<1>1. PICK e \in Seq(Byte) : e = <<>>
  BY EmptySeq
<1>2. e \o b = b
  BY <1>1, ConcatEmptySeq
<1>3. Wrote(fl, fi, g, gi, e)
  BY <1>1
<1>4. e = <<>>
  BY <1>1
<1>5. Wrote(fl, fi, h, hi, e \o b)
  BY <1>3, <1>4, WroteTwice
<1>6. QED
  BY <1>2, <1>5

\* A stream that changes in what the program does not see.
LEMMA SameWrote ==
  ASSUME NEW fl, Buffered(fl), NEW fi, NEW g, Buffered(g),
         "DIRTY" \in fl.flags <=> "DIRTY" \in g.flags,
         "EOF" \in fl.flags <=> "EOF" \in g.flags,
         "DIRTY" \in fl.flags => fl.ptr = g.ptr /\ fl.buf = g.buf
  PROVE  Wrote(fl, fi, g, fi, <<>>)
<1>1. Pending(fl) = Pending(g)
  BY SamePending
<1>2. Settled(g, fi) = Settled(fl, fi)
  BY <1>1 DEF Settled
<1>3. Store(Settled(fl, fi), <<>>) = Settled(fl, fi)
  BY DEF Store
<1>4. QED
  BY <1>2, <1>3 DEF Wrote

LEMMA NoteWrote ==
  ASSUME NEW fl, Buffered(fl), NEW fi
  PROVE  Wrote(fl, fi, On(fl, {"ERR"}), fi, <<>>)
<1>1. PICK S \in SUBSET {"ERR", "EOF", "NBF", "LBF"} : S = {"ERR"}
  OBVIOUS
<1>2. PICK g : g = On(fl, S)
  OBVIOUS
<1>3. /\ Buffered(g) /\ SameBuffer(fl, g) /\ g.ptr = fl.ptr
      /\ g.flags = fl.flags \cup {"ERR"}
  <2>1. /\ Buffered(g) /\ SameBuffer(fl, g) /\ g.ptr = fl.ptr
        /\ g.flags = fl.flags \cup S
    BY <1>2, NotedOK
  <2>2. QED
    BY <1>1, <2>1
<1>4. Wrote(fl, fi, g, fi, <<>>)
  BY <1>3, SameWrote DEF SameBuffer
<1>5. QED
  BY <1>1, <1>2, <1>4

\* A flush that succeeds, or that fails without having written a part.
LEMMA FlushWrote ==
  ASSUME NEW fl, Buffered(fl), NEW fi, FileOK(fi), NEW o \in flush_impl(fl, fi),
         o.ok \/ "partial" \notin Faults
  PROVE  Wrote(fl, fi, o.f, o.file, <<>>)
<1>1. Flushed(fl, fi, o)
  BY FlushOK
<1>2. Store(Settled(fl, fi), <<>>) = Settled(fl, fi)
  BY DEF Store
<1>3. CASE o.ok
  <2>1. Buffered(o.f) /\ "DIRTY" \notin o.f.flags
    BY <1>1, <1>3 DEF Flushed
  <2>2. Pending(o.f) = <<>>
    BY <2>1, PendingBytes
  <2>3. o.file = Settled(fl, fi)
    BY <1>1, <1>3 DEF Flushed, Settled
  <2>4. Settled(o.f, o.file) = o.file
    BY <2>2 DEF Settled, Store
  <2>5. "EOF" \in o.f.flags <=> "EOF" \in fl.flags
    BY <1>1, <1>3 DEF Flushed
  <2>6. QED
    BY <1>2, <2>3, <2>4, <2>5 DEF Wrote
<1>4. CASE ~o.ok
  <2>1. MustFlush(fl)
    BY <1>4 DEF flush_impl, Outcome
  <2>2. PICK bs \in Seq(Byte) : bs = Pending(fl)
    BY PendingBytes
  <2>3. PICK k \in Nat : k = Len(bs)
    BY LenProperties
  <2>4. PICK n \in LoopCounts(fi, k) :
          /\ o.f = IF n = k THEN Emptied(fl) ELSE On(fl, {"ERR"})
          /\ o.file = Store(fi, SubSeq(bs, 1, n))
          /\ o.ok = (n = k)
    BY <2>1, <2>2, <2>3 DEF flush_impl, Outcome
  <2>5. n # k /\ n = 0
    BY <1>4, <2>4 DEF LoopCounts
  <2>6. SubSeq(bs, 1, n) = <<>>
    BY <2>5, SubSeqEmpty
  <2>7. o.file = fi
    BY <2>4, <2>6 DEF Store
  <2>8. o.f = On(fl, {"ERR"})
    BY <2>4, <2>5
  <2>9. QED
    BY <2>7, <2>8, NoteWrote
<1>5. QED
  BY <1>1, <1>3, <1>4 DEF Flushed

LEMMA FlushIfWrote ==
  ASSUME NEW fl, Buffered(fl), NEW fi, FileOK(fi), NEW test,
         NEW o \in flush_if(test, fl, fi), o.ok \/ "partial" \notin Faults
  PROVE  Wrote(fl, fi, o.f, o.file, <<>>)
<1>1. CASE test
  BY <1>1, FlushWrote DEF flush_if
<1>2. CASE ~test
  <2>1. o.f = fl /\ o.file = fi
    BY <1>2 DEF flush_if, Outcome
  <2>2. QED
    BY <2>1, SameWrote
<1>3. QED
  BY <1>1, <1>2

\* Bytes that are put into the buffer.
LEMMA PlaceWrote ==
  ASSUME NEW fl, Buffered(fl), "WR" \in fl.flags, fl.base, NEW fi, FileOK(fi),
         NEW bs \in Seq(Byte), Len(bs) <= fl.cnt,
         NEW g, Buffered(g), "DIRTY" \in g.flags,
         "EOF" \in g.flags <=> "EOF" \in fl.flags,
         g.buf = Place(fl, bs).buf, g.ptr = fl.ptr + Len(bs)
  PROVE  Wrote(fl, fi, g, fi, bs)
<1>1. PICK a \in Seq(Byte) : a = Pending(fl)
  BY PendingBytes
<1>2. Pending(g) = a \o bs
  BY <1>1, PendingPlaced
<1>3. Settled(g, fi) = Store(fi, a \o bs)
  BY <1>2 DEF Settled
<1>4. Settled(fl, fi) = Store(fi, a)
  BY <1>1 DEF Settled
<1>5. Store(Store(fi, a), bs) = Store(fi, a \o bs)
  BY StoreTwice
<1>6. QED
  BY <1>3, <1>4, <1>5 DEF Wrote

LEMMA PutWrote ==
  ASSUME NEW fl, Buffered(fl), "WR" \in fl.flags, fl.base, NEW fi, FileOK(fi),
         NEW bs \in Seq(Byte), Len(bs) <= fl.cnt
  PROVE  Wrote(fl, fi, Put(fl, bs), fi, bs)
<1>1. PICK h : h = Place(fl, bs)
  OBVIOUS
<1>2. h \in StreamType /\ h.ptr = fl.ptr + Len(bs)
  BY <1>1, PlaceFields DEF Buffered
<1>3. PICK S \in SUBSET Flags : S = {"DIRTY"}
  BY DEF Flags
<1>4. PICK g : g = On(h, S)
  OBVIOUS
<1>5. g = Put(fl, bs)
  BY <1>1, <1>3, <1>4 DEF Put
<1>6. SameBuffer(h, g) /\ g.ptr = h.ptr
  BY <1>2, <1>4, OnFields
<1>7. Buffered(g) /\ g.flags = fl.flags \cup {"DIRTY"}
  BY <1>5, PutOK
<1>8. g.buf = Place(fl, bs).buf /\ g.ptr = fl.ptr + Len(bs)
  BY <1>1, <1>2, <1>6 DEF SameBuffer
<1>9. Wrote(fl, fi, g, fi, bs)
  BY <1>7, <1>8, PlaceWrote
<1>10. QED
  BY <1>5, <1>9

LEMMA ToWriteWrote ==
  ASSUME NEW fl, Buffered(fl), NEW fi
  PROVE  Wrote(fl, fi, ToWrite(fl), fi, <<>>)
<1>1. PICK g : g = ToWrite(fl)
  OBVIOUS
<1>2. /\ Buffered(g) /\ SameBuffer(fl, g)
      /\ g.flags = (fl.flags \ {"RD"}) \cup {"WR"}
  BY <1>1, ToWriteOK
<1>3. "DIRTY" \in fl.flags => fl.ptr = g.ptr
  <2>1. SUFFICES ASSUME "DIRTY" \in fl.flags PROVE fl.ptr = g.ptr
    OBVIOUS
  <2>2. "WR" \in fl.flags /\ "RD" \notin fl.flags
    BY <2>1 DEF Buffered
  <2>3. g = On(fl, {"WR"})
    BY <1>1, <2>2 DEF ToWrite, Has
  <2>4. QED
    BY <2>3 DEF On, Buffered, StreamType
<1>4. Wrote(fl, fi, g, fi, <<>>)
  BY <1>2, <1>3, SameWrote DEF SameBuffer
<1>5. QED
  BY <1>1, <1>4

\* Bytes that are written directly, when nothing is pending.
LEMMA DirectWrote ==
  ASSUME NEW fl, Buffered(fl), "DIRTY" \notin fl.flags, NEW fi, FileOK(fi),
         NEW bs \in Seq(Byte), NEW g \in {fl, On(fl, {"ERR"})}
  PROVE  /\ Wrote(fl, fi, g, Store(fi, bs), bs)
         /\ Store(fi, bs).data = Settled(g, Store(fi, bs)).data
<1>1. PICK S \in SUBSET {"ERR", "EOF", "NBF", "LBF"} : S = {"ERR"}
  OBVIOUS
<1>2. PICK e : e = On(fl, S)
  OBVIOUS
<1>3. Buffered(e) /\ e.flags = fl.flags \cup {"ERR"}
  <2>1. Buffered(e) /\ e.flags = fl.flags \cup S
    BY <1>2, NotedOK
  <2>2. QED
    BY <1>1, <2>1
<1>4. g = fl \/ g = e
  BY <1>1, <1>2
<1>5. /\ Buffered(g) /\ "DIRTY" \notin g.flags
      /\ "EOF" \in g.flags <=> "EOF" \in fl.flags
  BY <1>3, <1>4
<1>6. Pending(g) = <<>> /\ Pending(fl) = <<>>
  BY <1>5, PendingBytes
<1>7. PICK gi : gi = Store(fi, bs)
  OBVIOUS
<1>8. Settled(g, gi) = gi /\ Settled(fl, fi) = fi
  BY <1>6 DEF Settled, Store
<1>9. QED
  BY <1>5, <1>7, <1>8 DEF Wrote

-----------------------------------------------------------------------------
(* The steps of the file without a buffer.                                 *)

LEMMA IsReport ==
  ASSUME View' = View, Pos' = Pos, Pushed' = Pushed,
         file'.data \in {file.data, View}, file'.append = file.append,
         "EOF" \in f'.flags => "EOF" \in f.flags,
         out' \in {out, <<>>}
  PROVE  Unbuffered!Next
<1>1. Has(f, "EOF")' \in {Has(f, "EOF"), FALSE}
  <2>1. CASE "EOF" \in f'.flags
    <3>1. Has(f, "EOF")' = Has(f, "EOF")
      BY <2>1 DEF Has
    <3>2. QED
      BY <3>1
  <2>2. CASE "EOF" \notin f'.flags
    <3>1. Has(f, "EOF")' = FALSE
      BY <2>2 DEF Has
    <3>2. QED
      BY <3>1
  <2>3. QED
    BY <2>1, <2>2
<1>2. Unbuffered!Report
  BY <1>1 DEF Unbuffered!Report
<1>3. QED
  BY <1>2 DEF Unbuffered!Next

LEMMA NothingPushed == Next_n(f, 0) = <<>> /\ (npush' = 0 => Pushed' = <<>>)
BY DEF Pushed, Next_n

\* A part of a writing call: the bytes bs are written, which may be none.
LEMMA IsWrite ==
  ASSUME StreamInv, StreamInv', NEW bs \in Seq(Byte),
         Wrote(f, file, f', file', bs), WritesOn(f, file, f', file'),
         "RD" \in f.flags => f.cnt = 0, npush = 0, npush' = 0, out' = <<>>
  PROVE  Unbuffered!Next /\ View' = Written(bs)
<1>1. Buffered(f) /\ FileOK(file) /\ Buffered(f') /\ FileOK(file')
  BY DEF StreamInv
<1>2. PICK s, t : s = Settled(f, file) /\ t = Settled(f', file')
  OBVIOUS
<1>3. /\ FileOK(s) /\ SameAccess(file, s) /\ View = s.data /\ Pos = s.off
  BY <1>1, <1>2, SettledIsSeen, SeenNow DEF FileOK, FileType
<1>4. "RD" \notin f'.flags
  BY <1>1 DEF WritesOn, Buffered
<1>5. FileOK(t) /\ SameAccess(file', t) /\ View' = t.data /\ Pos' = t.off
  BY <1>1, <1>2, <1>4, SettledIsSeen, SeenNext DEF FileOK, FileType
<1>6. t = Store(s, bs)
  BY <1>2 DEF Wrote
<1>7. PICK at \in Nat, k \in Nat :
        at = Where(s) /\ k = Len(bs) /\ at <= Len(s.data)
  BY <1>3, WhereOK, LenProperties
<1>8. /\ View' = Overlay(View, at, bs)
      /\ Pos' = IF bs = <<>> THEN Pos ELSE at + k
  BY <1>3, <1>5, <1>6, <1>7, StoreFields
<1>9. at = IF file.append THEN Len(View) ELSE Pos
  BY <1>3, <1>7 DEF Where, SameAccess
<1>10. View' = Written(bs)
  BY <1>8, <1>9 DEF Written
<1>11. Pushed = <<>> /\ Pushed' = <<>>
  BY NothingPushed DEF Pushed
<1>12. /\ file'.data \in {file.data, View, View'}
       /\ file'.append = file.append
       /\ Has(f, "EOF")' = Has(f, "EOF")
  <2>1. file'.data \in {file.data, View, View'}
    BY <1>2, <1>3, <1>5 DEF Wrote
  <2>2. file'.append = file.append
    BY DEF WritesOn, SameAccess
  <2>3. QED
    BY <2>1, <2>2 DEF Has, Wrote
<1>13. CASE bs = <<>>
  <2>1. View' = View
    BY <1>3, <1>5, <1>6, <1>13 DEF Store
  <2>2. QED
    BY <1>8, <1>10, <1>11, <1>12, <1>13, <2>1, IsReport DEF Has
<1>14. CASE bs # <<>>
  <2>1. k # 0
    BY <1>7, <1>14, EmptySeq
  <2>2. View \in Seq(Byte)
    BY <1>3 DEF FileOK, FileType
  <2>3. /\ Len(View') = IF at + k <= Len(View) THEN Len(View) ELSE at + k
        /\ SubSeq(View', at + 1, at + k) = bs
    BY <1>3, <1>7, <1>8, <2>2, OverlayIsSeq, OverlayGives
  <2>4. Len(View) \in Nat
    BY <2>2, LenProperties
  <2>5. Pos' = at + k /\ at < Pos' /\ Pos' <= Len(View')
    BY <1>8, <1>14, <2>1, <2>3, <2>4
  <2>6. View' = Overlay(View, at, SubSeq(View', at + 1, Pos'))
    BY <1>8, <2>3, <2>5
  <2>7. Unbuffered!Write
    BY <1>9, <1>11, <1>12, <2>5, <2>6
       DEF Unbuffered!Write, Overlay, Unbuffered!Overlay
  <2>8. QED
    BY <1>10, <2>7 DEF Unbuffered!Next
<1>15. QED
  BY <1>13, <1>14

-----------------------------------------------------------------------------
(* What a writing call does to the file the program sees.                  *)

\* A call in progress and the way the stream is buffered.
CallSeen(fl, c) ==
  /\ c.op \in {"fputs", "puts"} => "NBF" \notin fl.flags
  /\ c.op = "fwrite" /\ "NBF" \in fl.flags => ~fl.base
  /\ c.op = "fwrite" /\ fl.base /\ "LBF" \in fl.flags =>
       ~Contains(c.rest, Newline)

\* What holds besides StreamInv of a program with no habits: the way of the
\* last call, and that an unbuffered stream holds nothing back.
SeenInv ==
  /\ mode # "closed" => (file.read <=> Reads(mode))
  /\ mode = "closed" => call.op = "none"
  /\ call.op \in {"fgets", "fread"} => file.read
  /\ "RD" \in f.flags => file.read /\ last \in {"open", "read"}
  /\ "RD" \in f.flags /\ last = "open" => f.cnt = 0
  /\ "RD" \in f.flags => f.cnt - npush <= file.off
  /\ "NBF" \in f.flags => f.bsize <= 1 /\ "DIRTY" \notin f.flags
  /\ CallSeen(f, call)

\* The buffer and how the stream is buffered stay.
Kept(fl, g) ==
  /\ g.base = fl.base /\ g.bsize = fl.bsize
  /\ "NBF" \in g.flags <=> "NBF" \in fl.flags
  /\ "LBF" \in g.flags <=> "LBF" \in fl.flags

\* A part of a writing call, that surely writes bs if sure.
Part(fl, fi, g, gi, bs, sure) ==
  /\ WritesOn(fl, fi, g, gi)
  /\ Kept(fl, g)
  /\ sure => Wrote(fl, fi, g, gi, bs)

\* A line-buffered stream holds no line, or did so before.
NoLine(fl, g) ==
  "LBF" \in g.flags /\ Contains(Pending(g), Newline)
    => Contains(Pending(fl), Newline)

LEMMA PartThen ==
  ASSUME NEW fl, Buffered(fl), NEW fi, FileOK(fi), NEW g, NEW gi, NEW h, NEW hi,
         NEW a \in Seq(Byte), NEW sure,
         Part(fl, fi, g, gi, a, sure), Part(g, gi, h, hi, <<>>, sure)
  PROVE  Part(fl, fi, h, hi, a, sure)
<1>1. WritesOn(fl, fi, h, hi)
  BY WritesOnTwice DEF Part
<1>2. Kept(fl, h)
  BY DEF Part, Kept
<1>3. ASSUME sure PROVE Wrote(fl, fi, h, hi, a)
  <2>1. Wrote(fl, fi, g, gi, a)
    BY <1>3 DEF Part
  <2>2. Wrote(g, gi, h, hi, <<>>)
    BY <1>3 DEF Part
  <2>3. QED
    BY <2>1, <2>2, WroteThen
<1>4. QED
  BY <1>1, <1>2, <1>3 DEF Part

LEMMA ThenPart ==
  ASSUME NEW fl, Buffered(fl), NEW fi, FileOK(fi), NEW g, NEW gi, NEW h, NEW hi,
         NEW b \in Seq(Byte), NEW sure,
         Part(fl, fi, g, gi, <<>>, sure), Part(g, gi, h, hi, b, sure)
  PROVE  Part(fl, fi, h, hi, b, sure)
<1>1. WritesOn(fl, fi, h, hi)
  BY WritesOnTwice DEF Part
<1>2. Kept(fl, h)
  BY DEF Part, Kept
<1>3. ASSUME sure PROVE Wrote(fl, fi, h, hi, b)
  <2>1. Wrote(fl, fi, g, gi, <<>>)
    BY <1>3 DEF Part
  <2>2. Wrote(g, gi, h, hi, b)
    BY <1>3 DEF Part
  <2>3. QED
    BY <2>1, <2>2, ThenWrote
<1>4. QED
  BY <1>1, <1>2, <1>3 DEF Part

\* When nothing more is written than the flush has.
Sure(o) == o.ok \/ "partial" \notin Faults

LEMMA FlushPart ==
  ASSUME NEW fl, Buffered(fl), "WR" \in fl.flags, NEW fi, FileOK(fi), NEW test,
         NEW o \in flush_if(test, fl, fi)
  PROVE  /\ \A sure : (sure => Sure(o)) => Part(fl, fi, o.f, o.file, <<>>, sure)
         /\ o.ok => NoLine(fl, o.f)
         /\ o.ok /\ test => "DIRTY" \notin o.f.flags
<1>1. WritesOn(fl, fi, o.f, o.file)
  BY FlushIfWrites
<1>2. Sure(o) => Wrote(fl, fi, o.f, o.file, <<>>)
  BY FlushIfWrote DEF Sure
<1>3. CASE test
  <2>1. Flushed(fl, fi, o)
    BY <1>3, FlushOK DEF flush_if
  <2>2. Kept(fl, o.f)
    BY <2>1 DEF Flushed, Kept, SameBuffer
  <2>3. o.ok => "DIRTY" \notin o.f.flags /\ Buffered(o.f)
    BY <2>1 DEF Flushed
  <2>4. o.ok => Pending(o.f) = <<>>
    BY <2>3, PendingBytes
  <2>5. ~Contains(<<>>, Newline)
    BY DEF Contains
  <2>6. QED
    BY <1>1, <1>2, <2>2, <2>3, <2>4, <2>5 DEF Part, NoLine
<1>4. CASE ~test
  <2>1. o.f = fl
    BY <1>4 DEF flush_if, Outcome
  <2>2. QED
    BY <1>1, <1>2, <1>4, <2>1 DEF Part, NoLine, Kept
<1>5. QED
  BY <1>3, <1>4

LEMMA ToWritePart ==
  ASSUME NEW fl, Buffered(fl), NEW fi, FileOK(fi)
  PROVE  /\ \A sure : Part(fl, fi, ToWrite(fl), fi, <<>>, sure)
         /\ NoLine(fl, ToWrite(fl))
         /\ "DIRTY" \in ToWrite(fl).flags <=> "DIRTY" \in fl.flags
<1>1. PICK g : g = ToWrite(fl)
  OBVIOUS
<1>2. /\ Buffered(g) /\ SameBuffer(fl, g)
      /\ g.flags = (fl.flags \ {"RD"}) \cup {"WR"}
  BY <1>1, ToWriteOK
<1>3. WritesOn(fl, fi, g, fi) /\ Wrote(fl, fi, g, fi, <<>>)
  BY <1>1, ToWriteWrites, ToWriteWrote
<1>4. Kept(fl, g)
  BY <1>2 DEF Kept, SameBuffer
<1>5. Pending(g) = Pending(fl)
  <2>1. CASE "DIRTY" \in fl.flags
    <3>1. "WR" \in fl.flags /\ "RD" \notin fl.flags
      BY <2>1 DEF Buffered
    <3>2. g = On(fl, {"WR"})
      BY <1>1, <3>1 DEF ToWrite, Has
    <3>3. g.ptr = fl.ptr
      BY <3>2 DEF On, Buffered, StreamType
    <3>4. QED
      BY <1>2, <2>1, <3>3, SamePending DEF SameBuffer
  <2>2. CASE "DIRTY" \notin fl.flags
    BY <1>2, <2>2, PendingBytes
  <2>3. QED
    BY <2>1, <2>2
<1>6. QED
  BY <1>1, <1>2, <1>3, <1>4, <1>5 DEF Part, NoLine

\* Bytes are put; a line is held only if one of them ends it.
LEMMA PutPart ==
  ASSUME NEW fl, Buffered(fl), "WR" \in fl.flags, fl.base, NEW fi, FileOK(fi),
         NEW bs \in Seq(Byte), Len(bs) <= fl.cnt
  PROVE  /\ \A sure : Part(fl, fi, Put(fl, bs), fi, bs, sure)
         /\ ~Contains(bs, Newline) => NoLine(fl, Put(fl, bs))
         /\ Put(fl, bs).cnt = fl.cnt - Len(bs)
<1>1. PICK g : g = Put(fl, bs)
  OBVIOUS
<1>2. /\ Buffered(g) /\ g.base = fl.base /\ g.bsize = fl.bsize
      /\ g.flags = fl.flags \cup {"DIRTY"}
  BY <1>1, PutOK
<1>3. WritesOn(fl, fi, g, fi) /\ Wrote(fl, fi, g, fi, bs)
  BY <1>1, PutWrites, PutWrote
<1>4. Kept(fl, g)
  BY <1>2 DEF Kept
<1>5. PICK h : h = Place(fl, bs)
  OBVIOUS
<1>6. /\ h \in StreamType /\ h.ptr = fl.ptr + Len(bs)
      /\ h.cnt = fl.cnt - Len(bs)
  BY <1>5, PlaceFields DEF Buffered
<1>7. PICK S \in SUBSET Flags : S = {"DIRTY"}
  BY DEF Flags
<1>8. g = On(h, S)
  BY <1>1, <1>5, <1>7 DEF Put
<1>9. g.buf = h.buf /\ g.ptr = h.ptr /\ g.cnt = h.cnt
  BY <1>6, <1>8, OnFields DEF SameBuffer
<1>10. PICK a \in Seq(Byte) : a = Pending(fl)
  BY PendingBytes
<1>11. Pending(g) = a \o bs
  BY <1>2, <1>5, <1>6, <1>9, <1>10, PendingPlaced
<1>12. ASSUME ~Contains(bs, Newline), Contains(Pending(g), Newline)
       PROVE  Contains(Pending(fl), Newline)
  <2>1. PICK m \in Nat, n \in Nat : m = Len(a) /\ n = Len(bs)
    BY LenProperties
  <2>2. /\ Len(a \o bs) = m + n
        /\ \A i \in 1 .. m + n :
             (a \o bs)[i] = IF i <= m THEN a[i] ELSE bs[i - m]
    BY <2>1, ConcatProperties
  <2>3. PICK i \in 1 .. m + n : (a \o bs)[i] = Newline
    BY <1>11, <1>12, <2>2 DEF Contains
  <2>4. CASE i <= m
    BY <1>10, <2>1, <2>2, <2>3, <2>4 DEF Contains
  <2>5. CASE ~(i <= m)
    <3>1. PICK j \in 1 .. n : j = i - m
      <4>1. i - m \in 1 .. n
        BY <2>1, <2>5
      <4>2. QED
        BY <4>1
    <3>2. bs[j] = Newline
      BY <2>2, <2>3, <2>5, <3>1
    <3>3. QED
      BY <1>12, <2>1, <3>2 DEF Contains
  <2>6. QED
    BY <2>4, <2>5
<1>13. QED
  BY <1>1, <1>3, <1>4, <1>6, <1>9, <1>12 DEF Part, NoLine

LEMMA NoLineTwice ==
  ASSUME NEW fl, NEW g, NEW h, NoLine(fl, g), NoLine(g, h), Kept(g, h)
  PROVE  NoLine(fl, h)
BY DEF NoLine, Kept

\* Bytes that are written directly.
LEMMA DirectPart ==
  ASSUME NEW fl, Buffered(fl), "WR" \in fl.flags, "DIRTY" \notin fl.flags,
         NEW fi, FileOK(fi), NEW bs \in Seq(Byte), NEW g \in {fl, On(fl, {"ERR"})}
  PROVE  /\ \A sure : Part(fl, fi, g, Store(fi, bs), bs, sure)
         /\ NoLine(fl, g) /\ "DIRTY" \notin g.flags
<1>1. PICK gi : gi = Store(fi, bs)
  OBVIOUS
<1>2. Wrote(fl, fi, g, gi, bs)
  BY <1>1, DirectWrote
<1>3. WritesOn(fl, fi, fl, gi)
  BY <1>1, StoreWrites
<1>4. FileOK(gi)
  BY <1>3 DEF WritesOn
<1>5. WritesOn(fl, gi, On(fl, {"ERR"}), gi)
  BY <1>4, NoteWrites
<1>6. WritesOn(fl, fi, g, gi)
  BY <1>3, <1>5, WritesOnTwice
<1>7. /\ g.base = fl.base /\ g.bsize = fl.bsize
      /\ g.flags = fl.flags \/ g.flags = fl.flags \cup {"ERR"}
  BY DEF On, Buffered, StreamType
<1>8. Kept(fl, g)
  BY <1>7 DEF Kept
<1>9. "DIRTY" \notin g.flags /\ Buffered(g)
  BY <1>6, <1>7 DEF WritesOn
<1>10. Pending(g) = <<>>
  BY <1>9, PendingBytes
<1>11. NoLine(fl, g)
  BY <1>10 DEF NoLine, Contains
<1>12. QED
  BY <1>1, <1>2, <1>6, <1>8, <1>9, <1>11 DEF Part

\* Two writes, the second of which has reached the kernel.
LEMMA PartTwice ==
  ASSUME NEW fl, Buffered(fl), NEW fi, FileOK(fi), NEW g, NEW gi, NEW h, NEW hi,
         NEW a \in Seq(Byte), NEW b \in Seq(Byte), NEW sure,
         Part(fl, fi, g, gi, a, sure), Part(g, gi, h, hi, b, sure),
         hi.data = Settled(h, hi).data
  PROVE  Part(fl, fi, h, hi, a \o b, sure)
<1>1. WritesOn(fl, fi, h, hi)
  BY WritesOnTwice DEF Part
<1>2. Kept(fl, h)
  BY DEF Part, Kept
<1>3. ASSUME sure PROVE Wrote(fl, fi, h, hi, a \o b)
  <2>1. Wrote(fl, fi, g, gi, a)
    BY <1>3 DEF Part
  <2>2. Wrote(g, gi, h, hi, b)
    BY <1>3 DEF Part
  <2>3. QED
    BY <2>1, <2>2, WroteTwice
<1>4. QED
  BY <1>1, <1>2, <1>3 DEF Part

LEMMA SamePart ==
  ASSUME NEW fl, Buffered(fl), "WR" \in fl.flags, NEW fi, FileOK(fi)
  PROVE  \A sure : Part(fl, fi, fl, fi, <<>>, sure)
BY SameWrote DEF Part, WritesOn, SameAccess, Kept

LEMMA CleanNoLine ==
  ASSUME NEW fl, NEW g, Buffered(g), "DIRTY" \notin g.flags
  PROVE  NoLine(fl, g)
BY PendingBytes DEF NoLine, Contains

\* puts marks the buffer before it has put anything into it.
LEMMA DirtyPart ==
  ASSUME NEW fl, Buffered(fl), "WR" \in fl.flags, fl.base, NEW fi, FileOK(fi)
  PROVE  \A sure : Part(fl, fi, On(fl, {"DIRTY"}), fi, <<>>, sure)
<1>1. PICK S \in SUBSET Flags : S = {"DIRTY"}
  BY DEF Flags
<1>2. PICK g : g = On(fl, S)
  OBVIOUS
<1>3. WritesOn(fl, fi, g, fi)
  BY <1>1, <1>2, DirtyWrites
<1>4. /\ SameBuffer(fl, g) /\ g.ptr = fl.ptr
      /\ g.flags = fl.flags \cup {"DIRTY"}
  BY <1>1, <1>2, OnFields DEF Buffered
<1>5. Pending(g) = Pending(fl)
  <2>1. CASE "DIRTY" \in fl.flags
    BY <1>3, <1>4, <2>1, SamePending DEF SameBuffer, WritesOn
  <2>2. CASE "DIRTY" \notin fl.flags
    <3>1. fl.ptr = 0
      BY <2>2 DEF Buffered
    <3>2. Len(Pending(g)) = 0 /\ Pending(g) \in Seq(Byte)
      BY <1>3, <1>4, <3>1, PendingBytes DEF WritesOn
    <3>3. QED
      BY <2>2, <3>2, PendingBytes, EmptySeq
  <2>3. QED
    BY <2>1, <2>2
<1>6. Wrote(fl, fi, g, fi, <<>>)
  <2>1. Settled(g, fi) = Settled(fl, fi)
    BY <1>5 DEF Settled
  <2>2. Store(Settled(fl, fi), <<>>) = Settled(fl, fi)
    BY DEF Store
  <2>3. "EOF" \in g.flags <=> "EOF" \in fl.flags
    BY <1>4
  <2>4. QED
    BY <2>1, <2>2, <2>3 DEF Wrote
<1>7. Kept(fl, g)
  BY <1>4 DEF Kept, SameBuffer
<1>8. QED
  BY <1>1, <1>2, <1>3, <1>6, <1>7 DEF Part

-----------------------------------------------------------------------------
(* The steps of the writing calls, as the program sees them.               *)

\* All that was written counts, or nothing of it.
Done == ret' = "ok" \/ "partial" \notin Faults

\* A step of a writing call writes bs.
StepWrites(bs) ==
  /\ Part(f, file, f', file', bs, Done)
  /\ "NBF" \in f'.flags => "DIRTY" \notin f'.flags
  /\ ret' = "ok" /\ call'.op # "puts" => NoLine(f, f')
  /\ out' = <<>> /\ npush' = 0

\* The invariant is kept, the step is one of the file without a buffer, and
\* the policy stays honoured.
Sees ==
  /\ SeenInv'
  /\ "partial" \notin Faults => Unbuffered!Next
  /\ ret' = "ok" /\ Honoured /\ call'.op # "puts" => Honoured'

LEMMA WriteSeen ==
  ASSUME StreamInv, StreamInv', SeenInv, NEW bs \in Seq(Byte), StepWrites(bs),
         "RD" \in f.flags => f.cnt = 0, npush = 0,
         mode' = mode, mode # "closed", last' = "write", CallSeen(f', call')
  PROVE  Sees /\ (ret' = "ok" => View' = Written(bs))
<1>1. /\ WritesOn(f, file, f', file') /\ Kept(f, f')
      /\ (ret' = "ok" \/ "partial" \notin Faults) =>
           Wrote(f, file, f', file', bs)
  BY DEF StepWrites, Part, Done
<1>2. "RD" \notin f'.flags /\ file'.read = file.read
  BY <1>1 DEF WritesOn, Buffered, SameAccess
<1>3. SeenInv'
  <2>1. "NBF" \in f'.flags => f'.bsize <= 1 /\ "DIRTY" \notin f'.flags
    BY <1>1 DEF SeenInv, Kept, StepWrites
  <2>2. ~(call'.op \in {"fgets", "fread"})
    BY <1>1 DEF WritesOn, StreamInv, Calls
  <2>3. QED
    BY <1>2, <2>1, <2>2 DEF SeenInv
<1>4. ASSUME ret' = "ok" \/ "partial" \notin Faults
      PROVE  Unbuffered!Next /\ View' = Written(bs)
  <2>1. Wrote(f, file, f', file', bs)
    BY <1>1, <1>4
  <2>2. npush' = 0 /\ out' = <<>>
    BY DEF StepWrites
  <2>3. QED
    BY <1>1, <2>1, <2>2, IsWrite
<1>5. ASSUME ret' = "ok", Honoured, call'.op # "puts"
      PROVE  Honoured'
  <2>1. Has(f', "NBF") => Pending(f') = <<>>
    BY PendingBytes DEF StepWrites, Has, StreamInv
  <2>2. NoLine(f, f')
    BY <1>5 DEF StepWrites
  <2>3. Has(f', "LBF") => ~Contains(Pending(f'), Newline)
    BY <1>1, <1>5, <2>2 DEF Kept, NoLine, Honoured, Has
  <2>4. QED
    BY <2>1, <2>3 DEF Honoured
<1>6. QED
  BY <1>3, <1>4, <1>5 DEF Sees

\* Before the program writes, nothing read ahead is left.
LEMMA MayWriteSeen ==
  ASSUME Habits = {}, StreamInv, SeenInv, NEW n, MayWrite(n)
  PROVE  /\ npush = 0 /\ ("RD" \in f.flags => f.cnt = 0)
         /\ mode # "closed" /\ call.op = "none"
<1>1. /\ mode # "closed" /\ call.op = "none"
      /\ last = "read" => "EOF" \in f.flags
  BY DEF MayWrite, Idle, Has
<1>2. "RD" \in f.flags => f.cnt = 0
  BY <1>1 DEF SeenInv, StreamInv, ReadsAt
<1>3. npush = 0
  <2>1. npush \in Nat /\ npush <= f.cnt /\ (npush # 0 => "RD" \in f.flags)
    BY DEF StreamInv, ReadsAt
  <2>2. QED
    BY <1>2, <2>1
<1>4. QED
  BY <1>1, <1>2, <1>3

\* What a writing call in progress can rely on.
LEMMA InWriteSeen ==
  ASSUME StreamInv, SeenInv, call.op \in {"fputs", "puts", "fwrite"}
  PROVE  /\ npush = 0 /\ "RD" \notin f.flags /\ mode # "closed"
         /\ \A g : Buffered(g) /\ Kept(f, g) /\ "NBF" \in g.flags
                     => "DIRTY" \notin g.flags
<1>1. "WR" \in f.flags /\ Buffered(f)
  BY InWrite
<1>2. "RD" \notin f.flags
  BY <1>1 DEF Buffered
<1>3. npush = 0 /\ mode # "closed"
  BY <1>2 DEF StreamInv, ReadsAt, SeenInv
<1>4. "NBF" \in f.flags => ~f.base
  BY DEF SeenInv, CallSeen
<1>5. ASSUME NEW g, Buffered(g), Kept(f, g), "NBF" \in g.flags
      PROVE  "DIRTY" \notin g.flags
  <2>1. "NBF" \in f.flags /\ g.base = f.base
    BY <1>5 DEF Kept
  <2>2. ~g.base
    BY <1>4, <2>1
  <2>3. QED
    BY <1>5, <2>2 DEF Buffered
<1>6. QED
  BY <1>2, <1>3, <1>5

\* An unbuffered stream is written directly.
LEMMA DirectStep ==
  ASSUME StreamInv, SeenInv, "NBF" \in f.flags, NEW bs \in Seq(Byte),
         NEW n \in WriteCounts(file, Len(bs)),
         f' = IF n = Len(bs) THEN ToWrite(f) ELSE On(ToWrite(f), {"ERR"}),
         file' = Store(file, SubSeq(bs, 1, n)), End(<<>>, n = Len(bs)),
         npush' = 0
  PROVE  \E w \in Seq(Byte) : StepWrites(w) /\ (ret' = "ok" => w = bs)
<1>1. PICK k \in Nat : k = Len(bs)
  BY LenProperties
<1>2. n \in 0 .. k
  BY <1>1, WriteCountsOK
<1>3. PICK w : w = SubSeq(bs, 1, n)
  OBVIOUS
<1>4. w \in Seq(Byte)
  BY <1>1, <1>2, <1>3, PartIsSeq
<1>5. Buffered(f) /\ FileOK(file)
  BY DEF StreamInv
<1>6. PICK g : g = ToWrite(f)
  OBVIOUS
<1>7. /\ Part(f, file, g, file, <<>>, Done) /\ NoLine(f, g)
      /\ "DIRTY" \notin g.flags
  BY <1>5, <1>6, ToWritePart DEF SeenInv
<1>8. Buffered(g) /\ "WR" \in g.flags
  BY <1>7 DEF Part, WritesOn
<1>9. f' \in {g, On(g, {"ERR"})} /\ file' = Store(file, w)
  BY <1>3, <1>6
<1>10. /\ Part(g, file, f', file', w, Done) /\ NoLine(g, f')
       /\ "DIRTY" \notin f'.flags
  <2>1. PICK h \in {g, On(g, {"ERR"})} : h = f'
    BY <1>9
  <2>2. /\ Part(g, file, h, Store(file, w), w, Done) /\ NoLine(g, h)
        /\ "DIRTY" \notin h.flags
    BY <1>4, <1>5, <1>7, <1>8, DirectPart
  <2>3. QED
    BY <1>9, <2>1, <2>2
<1>11. Part(f, file, f', file', w, Done)
  <2>1. PICK h, hi : h = f' /\ hi = file'
    OBVIOUS
  <2>2. Part(g, file, h, hi, w, Done)
    BY <1>10, <2>1
  <2>3. Part(f, file, h, hi, w, Done)
    BY <1>4, <1>5, <1>7, <2>2, ThenPart
  <2>4. QED
    BY <2>1, <2>3
<1>13. Kept(g, f')
  BY <1>10 DEF Part
<1>14. NoLine(f, f')
  BY <1>7, <1>10, <1>13, NoLineTwice
<1>15. out' = <<>> /\ (ret' = "ok" => n = k)
  BY <1>1 DEF End
<1>16. ret' = "ok" => w = bs
  <2>1. SubSeq(bs, 1, Len(bs)) = bs
    BY SubSeqFull
  <2>2. QED
    BY <1>1, <1>3, <1>15, <2>1
<1>17. StepWrites(w)
  BY <1>10, <1>11, <1>14, <1>15 DEF StepWrites
<1>18. QED
  BY <1>4, <1>16, <1>17

LEMMA FputcWrites ==
  ASSUME Habits = {}, StreamInv, SeenInv, NEW c \in Byte, Fputc(c)
  PROVE  \E bs \in Seq(Byte) : StepWrites(bs) /\ (ret' = "ok" => bs = <<c>>)
<1>1. PICK bs \in Seq(Byte) : bs = <<c>> /\ Len(bs) = 1
  <2>1. <<c>> \in Seq(Byte) /\ Len(<<c>>) = 1
    OBVIOUS
  <2>2. QED
    BY <2>1
<1>2. PICK e \in Seq(Byte) : e = <<>>
  BY EmptySeq
<1>3. PICK g : g = ToWrite(f)
  OBVIOUS
<1>4. mode # "closed" /\ npush' = 0
  BY DEF Fputc, MayWrite, Idle
<1>5. Buffered(f) /\ FileOK(file)
  BY DEF StreamInv
<1>6. CASE Has(f, "NBF")
  <2>1. PICK n \in WriteCounts(file, 1) :
          /\ f' = IF n = 1 THEN g ELSE On(g, {"ERR"})
          /\ file' = Store(file, SubSeq(bs, 1, n))
          /\ End(<<>>, n = 1)
    BY <1>1, <1>3, <1>6 DEF Fputc
  <2>2. \E w \in Seq(Byte) : StepWrites(w) /\ (ret' = "ok" => w = bs)
    BY <1>1, <1>3, <1>4, <1>6, <2>1, DirectStep DEF Has
  <2>3. QED
    BY <1>1, <2>2
<1>7. CASE ~Has(f, "NBF")
  <2>1. PICK o \in flush_if(g.cnt = 0, g, file) :
          IF ~o.ok THEN Becomes(o) /\ End(<<>>, FALSE)
          ELSE LET h == Put(o.f, bs)
               IN \E p \in flush_if(Full(h, c), h, o.file) :
                    Becomes(p) /\ End(<<>>, p.ok)
    BY <1>1, <1>3, <1>7 DEF Fputc
  <2>2. Part(f, file, g, file, e, Done) /\ NoLine(f, g)
    BY <1>2, <1>3, <1>5, ToWritePart
  <2>3. Buffered(g) /\ "WR" \in g.flags /\ g.base
    BY <1>4, <1>5, <1>7, <2>2 DEF Part, WritesOn, StreamInv, Rules, Has
  <2>4. Done => Sure(o)
    BY <2>1 DEF Done, Sure, End
  <2>5. Part(f, file, o.f, o.file, e, Done) /\ (o.ok => NoLine(f, o.f))
    <3>1. Part(g, file, o.f, o.file, <<>>, Done) /\ (o.ok => NoLine(g, o.f))
      BY <1>5, <2>1, <2>3, <2>4, FlushPart
    <3>2. Part(f, file, o.f, o.file, e, Done)
      BY <1>5, <2>2, <3>1, PartThen
    <3>3. o.ok => NoLine(f, o.f)
      BY <2>2, <3>1, NoLineTwice DEF Part
    <3>4. QED
      BY <3>2, <3>3
  <2>6. ASSUME NEW w \in Seq(Byte), Part(f, file, f', file', w, Done),
               ret' = "ok" => NoLine(f, f'), out' = <<>>
        PROVE  StepWrites(w)
    <3>1. "NBF" \notin f'.flags
      BY <1>7, <2>6 DEF Part, Kept, Has
    <3>2. QED
      BY <1>4, <2>6, <3>1 DEF StepWrites
  <2>7. CASE ~o.ok
    <3>1. f' = o.f /\ file' = o.file /\ out' = <<>> /\ ret' = "fail"
      BY <2>1, <2>7 DEF Becomes, End
    <3>2. StepWrites(e)
      BY <2>5, <2>6, <3>1
    <3>3. QED
      BY <3>1, <3>2
  <2>8. CASE o.ok
    <3>1. /\ Buffered(o.f) /\ FileOK(o.file) /\ "WR" \in o.f.flags
          /\ o.f.base /\ 1 <= o.f.cnt
      <4>1. WritesOn(g, file, o.f, o.file) /\ o.f.base /\ 0 < o.f.cnt
        BY <1>5, <2>1, <2>3, <2>8, FlushedHasRoom
      <4>2. QED
        BY <4>1 DEF WritesOn, Buffered, StreamType
    <3>2. PICK h : h = Put(o.f, bs)
      OBVIOUS
    <3>3. /\ Part(o.f, o.file, h, o.file, bs, Done)
          /\ ~Contains(bs, Newline) => NoLine(o.f, h)
      BY <1>1, <3>1, <3>2, PutPart
    <3>4. Buffered(h) /\ "WR" \in h.flags
      BY <3>3 DEF Part, WritesOn
    <3>5. PICK p \in flush_if(Full(h, c), h, o.file) :
            Becomes(p) /\ End(<<>>, p.ok)
      BY <2>1, <2>8, <3>2
    <3>6. /\ Part(h, o.file, p.f, p.file, <<>>, Done)
          /\ p.ok => NoLine(h, p.f)
          /\ p.ok /\ Full(h, c) => "DIRTY" \notin p.f.flags
      <4>1. Done => Sure(p)
        BY <3>5 DEF Done, Sure, End
      <4>2. QED
        BY <3>1, <3>4, <3>5, <4>1, FlushPart
    <3>7. Part(f, file, h, o.file, bs, Done)
      BY <1>2, <1>5, <2>5, <3>3, ThenPart
    <3>8. Part(f, file, p.f, p.file, bs, Done)
      BY <1>5, <3>6, <3>7, PartThen
    <3>9. f' = p.f /\ file' = p.file /\ out' = <<>> /\ (ret' = "ok" => p.ok)
      BY <3>5 DEF Becomes, End
    <3>10. ASSUME p.ok PROVE NoLine(f, p.f)
      <4>1. CASE Full(h, c)
        BY <3>6, <3>10, <4>1, CleanNoLine DEF Part, WritesOn
      <4>2. CASE ~Full(h, c) /\ "LBF" \in h.flags
        <5>1. c # Newline
          BY <4>2 DEF Full, Has
        <5>2. ~Contains(bs, Newline)
          <6>1. \A i \in 1 .. Len(bs) : bs[i] = c
            BY <1>1
          <6>2. QED
            BY <5>1, <6>1 DEF Contains
        <5>3. NoLine(f, o.f)
          BY <2>5, <2>8
        <5>4. NoLine(f, h)
          BY <3>3, <5>2, <5>3, NoLineTwice DEF Part
        <5>5. QED
          BY <3>6, <3>10, <5>4, NoLineTwice DEF Part
      <4>3. CASE "LBF" \notin h.flags
        BY <3>6, <4>3 DEF Part, Kept, NoLine
      <4>4. QED
        BY <4>1, <4>2, <4>3
    <3>11. StepWrites(bs)
      <4>1. ret' = "ok" => NoLine(f, f')
        BY <3>9, <3>10
      <4>2. Part(f, file, f', file', bs, Done)
        BY <3>8, <3>9
      <4>3. QED
        BY <2>6, <3>9, <4>1, <4>2
    <3>12. QED
      BY <1>1, <3>11
  <2>9. QED
    BY <2>7, <2>8
<1>8. QED
  BY <1>6, <1>7

LEMMA ConsumedIs ==
  ASSUME call.rest \in Seq(Byte), NEW n \in Nat, n <= Len(call.rest),
         Len(call'.rest) = Len(call.rest) - n
  PROVE  Consumed = SubSeq(call.rest, 1, n)
<1>1. PICK k \in Nat : k = Len(call.rest)
  BY LenProperties
<1>2. k - (k - n) = n
  BY <1>1
<1>3. QED
  BY <1>1, <1>2 DEF Consumed

LEMMA ConsumedAll ==
  ASSUME call.rest \in Seq(Byte), call' = NoCall
  PROVE  Consumed = call.rest
<1>1. PICK k \in Nat : k = Len(call.rest)
  BY LenProperties
<1>2. PICK e \in Seq(Byte) : e = <<>> /\ Len(e) = 0
  BY EmptySeq
<1>3. Len(call'.rest) = Len(call.rest) - k
  BY <1>1, <1>2 DEF NoCall
<1>4. Consumed = SubSeq(call.rest, 1, k)
  BY <1>1, <1>3, ConsumedIs
<1>5. QED
  BY <1>1, <1>4, SubSeqFull

\* What is left when n bytes of it are gone.
LEMMA RestIsSeq ==
  ASSUME NEW s \in Seq(Byte), NEW n \in Nat, n <= Len(s)
  PROVE  /\ SubSeq(s, 1, n) \in Seq(Byte) /\ Len(SubSeq(s, 1, n)) = n
         /\ SubSeq(s, n + 1, Len(s)) \in Seq(Byte)
         /\ Len(SubSeq(s, n + 1, Len(s))) = Len(s) - n
<1>1. PICK k \in Nat : k = Len(s)
  BY LenProperties
<1>2. PICK m \in Nat : m = n + 1 /\ 0 < m
  OBVIOUS
<1>3. /\ SubSeq(s, 1, n) \in Seq(Byte)
      /\ Len(SubSeq(s, 1, n)) = IF 1 <= n THEN n - 1 + 1 ELSE 0
  BY PartIsSeq
<1>4. /\ SubSeq(s, m, k) \in Seq(Byte)
      /\ Len(SubSeq(s, m, k)) = IF m <= k THEN k - m + 1 ELSE 0
  BY <1>1, <1>2, PartIsSeq
<1>5. QED
  BY <1>1, <1>2, <1>3, <1>4

LEMMA FputsTurnWrites ==
  ASSUME StreamInv, SeenInv, FputsTurn
  PROVE  \E bs \in Seq(Byte) : StepWrites(bs) /\ (ret' = "ok" => bs = Consumed)
<1>1. /\ call.op = "fputs" /\ call.rest # <<>>
      /\ UNCHANGED <<mode, last, npush>>
  BY DEF FputsTurn
<1>2. /\ Buffered(f) /\ FileOK(file) /\ "WR" \in f.flags /\ f.base
      /\ call.rest \in Seq(Byte)
  BY <1>1, InWrite
<1>3. npush' = 0 /\ "NBF" \notin f.flags
  BY <1>1, InWriteSeen DEF SeenInv, CallSeen
<1>4. PICK e \in Seq(Byte) : e = <<>>
  BY EmptySeq
<1>5. PICK o \in flush_if(f.cnt = 0, f, file) :
        IF ~o.ok THEN Becomes(o) /\ End(<<>>, FALSE)
        ELSE LET n == Least(Len(call.rest), o.f.cnt)
                 bs == SubSeq(call.rest, 1, n)
                 g == Put(o.f, bs)
             IN \E p \in flush_if(Has(g, "LBF") /\ Contains(bs, Newline),
                                  g, o.file) :
                  /\ Becomes(p)
                  /\ IF p.ok THEN Goes("fputs", SubSeq(call.rest, n + 1,
                                                       Len(call.rest)))
                     ELSE End(<<>>, FALSE)
  BY DEF FputsTurn
<1>6. Part(f, file, o.f, o.file, e, Done) /\ (o.ok => NoLine(f, o.f))
  <2>1. Done => Sure(o)
    BY <1>5 DEF Done, Sure, End
  <2>2. QED
    BY <1>2, <1>4, <1>5, <2>1, FlushPart
<1>7. ASSUME NEW w \in Seq(Byte), Part(f, file, f', file', w, Done),
             ret' = "ok" => NoLine(f, f'), out' = <<>>
      PROVE  StepWrites(w)
  <2>1. "NBF" \notin f'.flags
    BY <1>3, <1>7 DEF Part, Kept
  <2>2. QED
    BY <1>3, <1>7, <2>1 DEF StepWrites
<1>8. CASE ~o.ok
  <2>1. f' = o.f /\ file' = o.file /\ out' = <<>> /\ ret' = "fail"
    BY <1>5, <1>8 DEF Becomes, End
  <2>2. StepWrites(e)
    BY <1>6, <1>7, <2>1
  <2>3. QED
    BY <2>1, <2>2
<1>9. CASE o.ok
  <2>1. PICK n : n = Least(Len(call.rest), o.f.cnt)
    OBVIOUS
  <2>2. PICK bs : bs = SubSeq(call.rest, 1, n)
    OBVIOUS
  <2>3. PICK g : g = Put(o.f, bs)
    OBVIOUS
  <2>4. PICK test : test = (Has(g, "LBF") /\ Contains(bs, Newline))
    OBVIOUS
  <2>5. PICK rest : rest = SubSeq(call.rest, n + 1, Len(call.rest))
    OBVIOUS
  <2>6. PICK p \in flush_if(test, g, o.file) :
          /\ Becomes(p)
          /\ IF p.ok THEN Goes("fputs", rest) ELSE End(<<>>, FALSE)
    BY <1>5, <1>9, <2>1, <2>2, <2>3, <2>4, <2>5
  <2>7. /\ Buffered(o.f) /\ FileOK(o.file) /\ "WR" \in o.f.flags
        /\ o.f.base
    BY <1>2, <1>6 DEF Part, WritesOn
  <2>8. PICK k \in Nat, c \in Nat : k = Len(call.rest) /\ c = o.f.cnt
    <3>1. Len(call.rest) \in Nat
      BY <1>2, LenProperties
    <3>2. o.f.cnt \in Nat
      BY <2>7 DEF Buffered, StreamType
    <3>3. QED
      BY <3>1, <3>2
  <2>9. n \in Nat /\ n <= k /\ n <= c
    BY <2>1, <2>8 DEF Least
  <2>10. /\ bs \in Seq(Byte) /\ Len(bs) = n
         /\ rest \in Seq(Byte) /\ Len(rest) = k - n
    BY <1>2, <2>2, <2>5, <2>8, <2>9, RestIsSeq
  <2>11. Len(bs) <= o.f.cnt
    BY <2>8, <2>9, <2>10
  <2>12. /\ Part(o.f, o.file, g, o.file, bs, Done)
         /\ ~Contains(bs, Newline) => NoLine(o.f, g)
    BY <2>3, <2>7, <2>10, <2>11, PutPart
  <2>13. Buffered(g) /\ "WR" \in g.flags
    BY <2>12 DEF Part, WritesOn
  <2>14. /\ Part(g, o.file, p.f, p.file, <<>>, Done)
         /\ p.ok => NoLine(g, p.f)
         /\ p.ok /\ test => "DIRTY" \notin p.f.flags
    <3>1. Done => Sure(p)
      BY <2>6 DEF Done, Sure, End
    <3>2. QED
      BY <2>6, <2>7, <2>13, <3>1, FlushPart
  <2>15. Part(f, file, g, o.file, bs, Done)
    BY <1>2, <1>4, <1>6, <2>10, <2>12, ThenPart
  <2>16. Part(f, file, p.f, p.file, bs, Done)
    BY <1>2, <2>10, <2>14, <2>15, PartThen
  <2>17. f' = p.f /\ file' = p.file /\ out' = <<>> /\ (ret' = "ok" => p.ok)
    BY <2>6 DEF Becomes, End, Goes
  <2>18. ASSUME p.ok PROVE NoLine(f, p.f)
    <3>1. CASE test
      BY <2>14, <2>18, <3>1, CleanNoLine DEF Part, WritesOn
    <3>2. CASE ~Contains(bs, Newline)
      <4>1. NoLine(f, g)
        BY <1>6, <1>9, <2>12, <3>2, NoLineTwice DEF Part
      <4>2. QED
        BY <2>14, <2>18, <4>1, NoLineTwice DEF Part
    <3>3. CASE "LBF" \notin g.flags
      BY <2>14, <3>3 DEF Part, Kept, NoLine
    <3>4. QED
      BY <2>4, <3>1, <3>2, <3>3 DEF Has
  <2>19. StepWrites(bs)
    <3>1. ret' = "ok" => NoLine(f, f')
      BY <2>17, <2>18
    <3>2. Part(f, file, f', file', bs, Done)
      BY <2>16, <2>17
    <3>3. QED
      BY <1>7, <2>10, <2>17, <3>1, <3>2
  <2>20. ASSUME p.ok PROVE bs = Consumed
    <3>1. call'.rest = rest
      BY <2>6, <2>20 DEF Goes
    <3>2. QED
      BY <1>2, <2>2, <2>8, <2>9, <2>10, <3>1, ConsumedIs
  <2>21. QED
    BY <2>10, <2>17, <2>19, <2>20
<1>10. QED
  BY <1>8, <1>9

\* A call that puts bytes ends with a flush.
LEMMA EndWrites ==
  ASSUME StreamInv, SeenInv, call.op \in {"fputs", "puts"}, call.rest = <<>>,
         npush' = npush, NEW test, NEW o \in flush_if(test, f, file),
         Becomes(o), End(<<>>, o.ok)
  PROVE  /\ \E bs \in Seq(Byte) : StepWrites(bs) /\ bs = Consumed
         /\ ret' = "ok" /\ test => "DIRTY" \notin f'.flags
<1>1. /\ Buffered(f) /\ FileOK(file) /\ "WR" \in f.flags /\ f.base
      /\ call.rest \in Seq(Byte)
  BY InWrite
<1>2. npush' = 0 /\ "NBF" \notin f.flags
  BY InWriteSeen DEF SeenInv, CallSeen
<1>3. PICK e \in Seq(Byte) : e = <<>>
  BY EmptySeq
<1>4. /\ f' = o.f /\ file' = o.file /\ out' = <<>> /\ (ret' = "ok" => o.ok)
      /\ call' = NoCall
  BY DEF Becomes, End
<1>5. Done => Sure(o)
  BY <1>4 DEF Done, Sure
<1>6. /\ Part(f, file, o.f, o.file, e, Done)
      /\ o.ok => NoLine(f, o.f)
      /\ o.ok /\ test => "DIRTY" \notin o.f.flags
  BY <1>1, <1>3, <1>5, FlushPart
<1>7. "NBF" \notin f'.flags
  BY <1>2, <1>4, <1>6 DEF Part, Kept
<1>8. StepWrites(e)
  <2>1. Part(f, file, f', file', e, Done)
    BY <1>4, <1>6
  <2>2. ret' = "ok" => NoLine(f, f')
    BY <1>4, <1>6
  <2>3. QED
    BY <1>2, <1>4, <1>7, <2>1, <2>2 DEF StepWrites
<1>9. e = Consumed
  BY <1>1, <1>3, <1>4, ConsumedAll
<1>10. QED
  BY <1>4, <1>6, <1>8, <1>9

\* puts only begins on a stream that is buffered, or fails at once.
LEMMA PutsWrites ==
  ASSUME Habits = {}, StreamInv, SeenInv, NEW s \in Strings, Puts(s)
  PROVE  \/ /\ \E bs \in Seq(Byte) : StepWrites(bs)
            /\ call'.op = "puts" /\ "NBF" \notin f'.flags
         \/ f' = f /\ file' = file /\ ~f.base /\ End(<<>>, FALSE)
<1>1. PICK size : size = IF Has(f, "NBF") THEN 1 ELSE BUFSIZ
  OBVIOUS
<1>2. PICK g : g = IF f.base THEN f
                   ELSE [On(f, {"FREEBUF"}) EXCEPT !.base = TRUE, !.ptr = 0,
                                                   !.bsize = size, !.cnt = size]
  OBVIOUS
<1>3. mode # "closed" /\ npush' = 0 /\ file' = file
  BY DEF Puts, MayWrite, Idle
<1>4. Buffered(f) /\ FileOK(file)
  BY DEF StreamInv
<1>5. \/ /\ Len(s) + 1 <= ToWrite(g).cnt
         /\ f' = On(ToWrite(g), {"DIRTY"})
         /\ Goes("puts", Append(s, Newline))
      \/ /\ ~f.base
         /\ f' = f /\ End(<<>>, FALSE)
  BY <1>1, <1>2 DEF Puts
<1>6. CASE /\ Len(s) + 1 <= ToWrite(g).cnt
           /\ f' = On(ToWrite(g), {"DIRTY"})
           /\ Goes("puts", Append(s, Newline))
  <2>1. PICK k : k = ToWrite(g)
    OBVIOUS
  <2>2. PICK n \in Nat : n = Len(s) /\ 1 <= n
    BY StringIsSeq, StreamAssumption
  <2>3. n + 1 <= k.cnt
    BY <1>6, <2>1, <2>2
  <2>4. ASSUME Buffered(k), "WR" \in k.flags
        PROVE  2 <= k.bsize
    <3>1. PICK p \in Int, c \in Int, b \in Int :
            p = k.ptr /\ c = k.cnt /\ b = k.bsize
      BY <2>4, StreamAssumption DEF Buffered, StreamType
    <3>2. 0 <= p /\ p + c = b
      BY <2>4, <3>1 DEF Buffered
    <3>3. QED
      BY <2>2, <2>3, <3>1, <3>2
  <2>5. ASSUME ~f.base PROVE FALSE
    <3>1. size = 1
      BY <1>1, <1>3, <2>5 DEF StreamInv, Rules, Has
    <3>2. size \in 1 .. BUFSIZ
      BY <3>1, StreamAssumption
    <3>3. g = [On(f, {"FREEBUF"}) EXCEPT !.base = TRUE, !.ptr = 0,
                                         !.bsize = size, !.cnt = size]
      BY <1>2, <2>5
    <3>4. WritesOn(f, file, k, file)
      BY <1>4, <2>1, <2>5, <3>2, <3>3, PutsBuffer
    <3>5. g.bsize = 1
      <4>1. PICK S \in SUBSET Flags : S = {"FREEBUF"}
        BY DEF Flags
      <4>2. On(f, S) \in StreamType
        BY <1>4, OnFields DEF Buffered
      <4>3. QED
        BY <3>1, <3>3, <4>1, <4>2 DEF StreamType
    <3>6. k.bsize = g.bsize
      <4>1. PICK S \in SUBSET Flags : S = {"FREEBUF"}
        BY DEF Flags
      <4>2. On(f, S) \in StreamType
        BY <1>4, OnFields DEF Buffered
      <4>3. PICK z \in Int, sz \in 0 .. BUFSIZ, t \in BOOLEAN :
              z = 0 /\ sz = size /\ t = TRUE
        <5>1. size \in 0 .. BUFSIZ /\ 0 \in Int /\ TRUE \in BOOLEAN
          BY <3>2, StreamAssumption
        <5>2. QED
          BY <5>1
      <4>4. g = [On(f, S) EXCEPT !.base = t, !.ptr = z, !.bsize = sz,
                                 !.cnt = sz]
        BY <3>3, <4>1, <4>3
      <4>5. g \in StreamType
        <5>1. sz \in Int
          BY <4>3, StreamAssumption
        <5>2. QED
          BY <4>2, <4>3, <4>4, <5>1 DEF StreamType
      <4>6. QED
        BY <2>1, <4>5 DEF ToWrite, On, Off, StreamType
    <3>7. 2 <= k.bsize
      BY <2>4, <3>4 DEF WritesOn
    <3>8. QED
      BY <3>5, <3>6, <3>7
  <2>6. f.base /\ g = f
    BY <1>2, <2>5
  <2>7. PICK e \in Seq(Byte) : e = <<>>
    BY EmptySeq
  <2>8. Part(f, file, k, file, e, Done)
    BY <1>4, <2>1, <2>6, <2>7, ToWritePart
  <2>9. Buffered(k) /\ "WR" \in k.flags /\ k.base /\ k.bsize = f.bsize
    BY <2>6, <2>8 DEF Part, WritesOn, Kept
  <2>10. "NBF" \notin f.flags
    <3>1. PICK b \in Int : b = k.bsize /\ 2 <= b
      BY <2>4, <2>9, StreamAssumption DEF Buffered, StreamType
    <3>2. ~(f.bsize <= 1)
      BY <2>9, <3>1
    <3>3. QED
      BY <3>2 DEF SeenInv
  <2>11. f' = On(k, {"DIRTY"})
    BY <1>6, <2>1
  <2>12. Part(k, file, f', file, <<>>, Done)
    BY <1>4, <2>9, <2>11, DirtyPart
  <2>13. Part(f, file, f', file', e, Done)
    <3>1. PICK h : h = f'
      OBVIOUS
    <3>2. Part(k, file, h, file, <<>>, Done)
      BY <2>12, <3>1
    <3>3. Part(f, file, h, file, e, Done)
      BY <1>4, <2>8, <3>2, PartThen
    <3>4. QED
      BY <1>3, <3>1, <3>3
  <2>14. "NBF" \notin f'.flags
    BY <2>10, <2>13 DEF Part, Kept
  <2>15. out' = <<>> /\ call'.op = "puts"
    BY <1>6 DEF Goes
  <2>16. StepWrites(e)
    BY <1>3, <2>13, <2>14, <2>15 DEF StepWrites
  <2>17. QED
    BY <2>14, <2>15, <2>16
<1>7. CASE ~f.base /\ f' = f /\ End(<<>>, FALSE)
  BY <1>3, <1>7
<1>8. QED
  BY <1>5, <1>6, <1>7

\* puts has room for all it puts.
LEMMA PutsTurnWrites ==
  ASSUME StreamInv, SeenInv, PutsTurn
  PROVE  /\ \E bs \in Seq(Byte) : StepWrites(bs) /\ bs = Consumed
         /\ call'.op = "puts" /\ "NBF" \notin f'.flags
<1>1. /\ call.op = "puts" /\ call.rest # <<>>
      /\ UNCHANGED <<mode, last, npush>>
  BY DEF PutsTurn
<1>2. /\ Buffered(f) /\ FileOK(file) /\ "WR" \in f.flags /\ f.base
      /\ last = "write" /\ call.rest \in Seq(Byte)
  BY <1>1, InWrite
<1>3. "DIRTY" \in f.flags /\ Len(call.rest) <= f.cnt
  BY <1>1 DEF StreamInv, Calls
<1>4. PICK k \in Nat, c \in Int : k = Len(call.rest) /\ c = f.cnt
  BY <1>2, LenProperties DEF Buffered, StreamType
<1>5. 0 < k /\ 0 < c
  <2>1. k # 0
    BY <1>1, <1>2, <1>4, EmptySeq
  <2>2. k <= c
    BY <1>3, <1>4
  <2>3. QED
    BY <2>1, <2>2
<1>6. ~(f.cnt <= 0)
  BY <1>4, <1>5
<1>7. PICK bs : bs = <<Head(call.rest)>>
  OBVIOUS
<1>8. PICK rest : rest = Tail(call.rest)
  OBVIOUS
<1>9. f' = Place(f, bs) /\ file' = file /\ Goes("puts", rest)
  BY <1>6, <1>7, <1>8 DEF PutsTurn, flush_if, Outcome
<1>10. /\ bs \in Seq(Byte) /\ Len(bs) = 1
       /\ rest \in Seq(Byte) /\ Len(rest) = k - 1
  BY <1>1, <1>2, <1>4, <1>7, <1>8, HeadTailProperties
<1>11. /\ f' \in StreamType /\ f'.base = f.base /\ f'.bsize = f.bsize
       /\ f'.flags = f.flags
  BY <1>2, <1>9, <1>10, PlaceFields DEF Buffered
<1>12. f'.flags = f.flags \cup {"DIRTY"}
  BY <1>3, <1>11
<1>13. Len(bs) <= f.cnt
  BY <1>4, <1>5, <1>10
<1>14. Buffered(f') /\ f'.ptr = f.ptr + Len(bs)
  BY <1>2, <1>9, <1>10, <1>11, <1>12, <1>13, PlaceOK
<1>15. WritesOn(f, file, f', file')
  BY <1>2, <1>9, <1>11, <1>14 DEF WritesOn, SameAccess
<1>16. Wrote(f, file, f', file', bs)
  <2>1. PICK h : h = f'
    OBVIOUS
  <2>2. Wrote(f, file, h, file, bs)
    BY <1>2, <1>3, <1>9, <1>10, <1>11, <1>13, <1>14, <2>1, PlaceWrote
  <2>3. QED
    BY <1>9, <2>1, <2>2
<1>17. Part(f, file, f', file', bs, Done)
  BY <1>11, <1>15, <1>16 DEF Part, Kept
<1>18. "NBF" \notin f'.flags /\ npush' = 0
  BY <1>1, <1>11, InWriteSeen DEF SeenInv, CallSeen
<1>19. out' = <<>> /\ call'.op = "puts" /\ call'.rest = rest
  BY <1>9 DEF Goes
<1>20. StepWrites(bs)
  BY <1>17, <1>18, <1>19 DEF StepWrites
<1>21. bs = Consumed
  <2>1. Consumed = SubSeq(call.rest, 1, 1)
    <3>1. PICK n \in Nat : n = 1
      OBVIOUS
    <3>2. n <= Len(call.rest) /\ Len(call'.rest) = Len(call.rest) - n
      BY <1>4, <1>5, <1>10, <1>19, <3>1
    <3>3. QED
      BY <1>2, <3>1, <3>2, ConsumedIs
  <2>2. PICK a : a = SubSeq(call.rest, 1, 1)
    OBVIOUS
  <2>3. a \in Seq(Byte) /\ Len(a) = 1
    <3>1. /\ SubSeq(call.rest, 1, 1) \in Seq(Byte)
          /\ Len(SubSeq(call.rest, 1, 1)) = IF 1 <= 1 THEN 1 - 1 + 1 ELSE 0
      BY <1>2, <1>4, <1>5, PartIsSeq
    <3>2. QED
      BY <2>2, <3>1
  <2>4. a[1] = call.rest[1]
    <3>1. PICK m \in Nat : m = 1
      OBVIOUS
    <3>2. SubSeq(call.rest, m, m)[m] = call.rest[m + m - 1]
      BY <1>2, <1>4, <1>5, <3>1, PartElements
    <3>3. QED
      BY <2>2, <3>1, <3>2
  <2>5. bs[1] = call.rest[1]
    BY <1>1, <1>2, <1>7, HeadTailProperties
  <2>6. a = bs
    BY <1>10, <2>3, <2>4, <2>5, SeqEqual
  <2>7. QED
    BY <2>1, <2>2, <2>6
<1>22. QED
  BY <1>10, <1>18, <1>19, <1>20, <1>21

\* fwrite begins.
LEMMA FwriteWrites ==
  ASSUME Habits = {}, StreamInv, SeenInv, NEW s \in Strings, Fwrite(s)
  PROVE  /\ \E bs \in Seq(Byte) : StepWrites(bs)
         /\ CallSeen(f', call') /\ call'.op = "fwrite"
<1>1. /\ f' = ToWrite(f) /\ Goes("fwrite", s) /\ Policy(s)
      /\ npush' = 0 /\ file' = file
  BY DEF Fwrite
<1>2. Buffered(f) /\ FileOK(file)
  BY DEF StreamInv
<1>3. PICK e \in Seq(Byte) : e = <<>>
  BY EmptySeq
<1>4. /\ Part(f, file, f', file', e, Done) /\ NoLine(f, f')
      /\ "DIRTY" \in f'.flags <=> "DIRTY" \in f.flags
  BY <1>1, <1>2, <1>3, ToWritePart
<1>5. "NBF" \in f'.flags => "DIRTY" \notin f'.flags
  BY <1>4 DEF Part, Kept, SeenInv
<1>6. out' = <<>> /\ call'.op = "fwrite" /\ call'.rest = s
  BY <1>1 DEF Goes
<1>7. StepWrites(e)
  BY <1>1, <1>4, <1>5, <1>6 DEF StepWrites
<1>8. CallSeen(f', call')
  <2>1. f.base => ~Has(f, "NBF") /\ ~(Has(f, "LBF") /\ Contains(s, Newline))
    BY <1>1 DEF Policy
  <2>2. Kept(f, f')
    BY <1>4 DEF Part
  <2>3. QED
    BY <1>6, <2>1, <2>2 DEF CallSeen, Kept, Has
<1>9. QED
  BY <1>6, <1>7, <1>8

LEMMA FwriteLastWrites ==
  ASSUME StreamInv, SeenInv, FwriteLast
  PROVE  \E bs \in Seq(Byte) : StepWrites(bs) /\ bs = Consumed
<1>1. /\ call.op = "fwrite" /\ Len(call.rest) <= f.cnt
      /\ f' = Put(f, call.rest) /\ End(<<>>, TRUE)
      /\ UNCHANGED <<file, mode, last, npush>>
  BY DEF FwriteLast
<1>2. /\ Buffered(f) /\ FileOK(file) /\ "WR" \in f.flags
      /\ call.rest \in Seq(Byte)
  BY <1>1, InWrite
<1>3. PICK bs \in Seq(Byte) : bs = call.rest
  BY <1>2
<1>4. f.base
  <2>1. Len(call.rest) # 0
    BY <1>1, <1>2, EmptySeq DEF StreamInv, Calls
  <2>2. PICK k \in Nat, c \in Int : k = Len(call.rest) /\ c = f.cnt
    BY <1>2, LenProperties DEF Buffered, StreamType
  <2>3. c # 0
    BY <1>1, <2>1, <2>2
  <2>4. QED
    BY <1>2, <2>2, <2>3, RoomHasBase
<1>5. /\ Part(f, file, f', file', bs, Done)
      /\ ~Contains(bs, Newline) => NoLine(f, f')
  BY <1>1, <1>2, <1>3, <1>4, PutPart
<1>6. NoLine(f, f')
  <2>1. CASE "LBF" \in f.flags
    <3>1. ~Contains(bs, Newline)
      BY <1>1, <1>3, <1>4, <2>1 DEF SeenInv, CallSeen
    <3>2. QED
      BY <1>5, <3>1
  <2>2. CASE "LBF" \notin f.flags
    BY <1>5, <2>2 DEF Part, Kept, NoLine
  <2>3. QED
    BY <2>1, <2>2
<1>7. "NBF" \notin f'.flags /\ npush' = 0
  BY <1>1, <1>4, <1>5, InWriteSeen DEF SeenInv, CallSeen, Part, Kept
<1>8. out' = <<>> /\ call' = NoCall
  BY <1>1 DEF End
<1>9. StepWrites(bs)
  BY <1>5, <1>6, <1>7, <1>8 DEF StepWrites
<1>10. bs = Consumed
  BY <1>2, <1>3, <1>8, ConsumedAll
<1>11. QED
  BY <1>9, <1>10

\* What is left of bytes among which a byte is not.
LEMMA NotInRest ==
  ASSUME NEW s \in Seq(Byte), NEW n \in Nat, n <= Len(s), NEW c, ~Contains(s, c)
  PROVE  ~Contains(SubSeq(s, n + 1, Len(s)), c)
<1>1. PICK k \in Nat, m \in Nat : k = Len(s) /\ m = n + 1 /\ 0 < m
  BY LenProperties
<1>2. PICK a : a = SubSeq(s, m, k)
  OBVIOUS
<1>3. Len(a) = k - n
  BY <1>1, <1>2, RestIsSeq
<1>4. ASSUME NEW i \in 1 .. Len(a) PROVE a[i] # c
  <2>1. i \in Nat /\ 0 < i /\ m + i <= k + 1
    BY <1>1, <1>3
  <2>2. a[i] = s[m + i - 1]
    BY <1>1, <1>2, <2>1, PartElements
  <2>3. PICK j \in 1 .. k : j = m + i - 1
    <3>1. m + i - 1 \in 1 .. k
      BY <1>1, <2>1
    <3>2. QED
      BY <3>1
  <2>4. s[j] # c
    BY <1>1 DEF Contains
  <2>5. QED
    BY <2>2, <2>3, <2>4
<1>5. QED
  BY <1>1, <1>2, <1>4 DEF Contains

\* The first c bytes and n of those after them.
LEMMA FirstTwice ==
  ASSUME NEW s \in Seq(Byte), NEW c \in Nat, c <= Len(s),
         NEW rest, rest = SubSeq(s, c + 1, Len(s)),
         NEW n \in Nat, n <= Len(rest)
  PROVE  /\ c + n <= Len(s)
         /\ SubSeq(s, 1, c) \o SubSeq(rest, 1, n) = SubSeq(s, 1, c + n)
<1>1. PICK k \in Nat, m \in Nat : k = Len(s) /\ m = c + 1 /\ 0 < m
  BY LenProperties
<1>2. rest \in Seq(Byte) /\ Len(rest) = k - c
  BY <1>1, RestIsSeq
<1>3. PICK q \in Nat : q = c + n /\ q <= k
  <2>1. c + n \in Nat /\ c + n <= k
    BY <1>1, <1>2
  <2>2. QED
    BY <2>1
<1>4. PICK a, b, d : a = SubSeq(s, 1, c) /\ b = SubSeq(rest, 1, n)
                     /\ d = SubSeq(s, 1, q)
  OBVIOUS
<1>5. a \in Seq(Byte) /\ Len(a) = c /\ b \in Seq(Byte) /\ Len(b) = n
  BY <1>2, <1>4, RestIsSeq
<1>6. d \in Seq(Byte) /\ Len(d) = q
  BY <1>1, <1>3, <1>4, RestIsSeq
<1>7. /\ a \o b \in Seq(Byte) /\ Len(a \o b) = c + n
      /\ \A i \in 1 .. c + n : (a \o b)[i] = IF i <= c THEN a[i] ELSE b[i - c]
  <2>1. /\ a \o b \in Seq(Byte) /\ Len(a \o b) = Len(a) + Len(b)
        /\ \A i \in 1 .. Len(a) + Len(b) :
             (a \o b)[i] = IF i <= Len(a) THEN a[i] ELSE b[i - Len(a)]
    BY <1>5, ConcatProperties
  <2>2. QED
    BY <1>5, <2>1
<1>8. ASSUME NEW i \in 1 .. q PROVE (a \o b)[i] = d[i]
  <2>1. PICK o \in Nat : o = 1
    OBVIOUS
  <2>2. i \in Nat /\ 0 < i /\ i <= k
    BY <1>3
  <2>3. d[i] = s[i]
    <3>1. SubSeq(s, o, q)[i] = s[o + i - 1]
      BY <1>1, <1>3, <2>1, <2>2, PartElements
    <3>2. QED
      BY <1>4, <2>1, <2>2, <3>1
  <2>4. CASE i <= c
    <3>1. SubSeq(s, o, c)[i] = s[o + i - 1]
      BY <1>1, <2>1, <2>2, <2>4, PartElements
    <3>2. a[i] = s[i]
      <4>1. o + i - 1 = i
        BY <2>1, <2>2
      <4>2. QED
        BY <1>4, <2>1, <3>1, <4>1
    <3>3. QED
      BY <1>3, <1>7, <2>3, <2>4, <3>2
  <2>5. CASE ~(i <= c)
    <3>1. PICK j \in Nat : j = i - c /\ 0 < j /\ j <= n
      <4>1. i - c \in Nat /\ 0 < i - c /\ i - c <= n
        BY <1>3, <2>2, <2>5
      <4>2. QED
        BY <4>1
    <3>2. SubSeq(rest, o, n)[j] = rest[o + j - 1]
      BY <1>2, <2>1, <3>1, PartElements
    <3>3. b[j] = rest[j]
      BY <1>4, <2>1, <3>1, <3>2
    <3>4. SubSeq(s, m, k)[j] = s[m + j - 1]
      BY <1>1, <1>3, <3>1, PartElements
    <3>5. m + j - 1 = i
      BY <1>1, <2>2, <3>1
    <3>6. rest[j] = s[i]
      BY <1>1, <3>4, <3>5
    <3>7. (a \o b)[i] = b[j]
      BY <1>3, <1>7, <2>5, <3>1
    <3>8. QED
      BY <2>3, <3>3, <3>6, <3>7
  <2>6. QED
    BY <2>4, <2>5
<1>9. a \o b = d
  BY <1>3, <1>6, <1>7, <1>8, SeqEqual
<1>10. QED
  BY <1>1, <1>3, <1>4, <1>9

LEMMA FwriteTurnWrites ==
  ASSUME StreamInv, SeenInv, FwriteTurn
  PROVE  /\ \E bs \in Seq(Byte) : StepWrites(bs) /\ (ret' = "ok" => bs = Consumed)
         /\ CallSeen(f', call') /\ call'.op # "puts"
<1>1. /\ call.op = "fwrite" /\ Len(call.rest) > f.cnt
      /\ UNCHANGED <<mode, last, npush>>
  BY DEF FwriteTurn
<1>2. /\ Buffered(f) /\ FileOK(file) /\ "WR" \in f.flags
      /\ call.rest \in Seq(Byte)
  BY <1>1, InWrite
<1>3. PICK k \in Nat, c \in Nat : k = Len(call.rest) /\ c = f.cnt
  <2>1. Len(call.rest) \in Nat
    BY <1>2, LenProperties
  <2>2. f.cnt \in Nat
    BY <1>2 DEF Buffered, StreamType
  <2>3. QED
    BY <2>1, <2>2
<1>4. c < k
  BY <1>1, <1>3
<1>5. PICK g : g = IF f.cnt > 0 THEN Put(f, SubSeq(call.rest, 1, f.cnt)) ELSE f
  OBVIOUS
<1>6. PICK rest : rest = SubSeq(call.rest, f.cnt + 1, Len(call.rest))
  OBVIOUS
<1>7. PICK o \in flush_impl(g, file) :
        IF ~o.ok THEN Becomes(o) /\ End(<<>>, FALSE)
        ELSE IF Len(rest) < o.f.bsize
        THEN /\ Becomes(o)
             /\ IF SubSeq(rest, 0 + 1, Len(rest)) = <<>> THEN End(<<>>, TRUE)
                ELSE Goes("fwrite", SubSeq(rest, 0 + 1, Len(rest)))
        ELSE \E n \in WriteCounts(o.file, Len(rest)) :
               /\ f' = IF n = 0 THEN On(o.f, {"ERR"}) ELSE o.f
               /\ file' = Store(o.file, SubSeq(rest, 1, n))
               /\ IF n = 0 THEN End(<<>>, FALSE)
                  ELSE IF SubSeq(rest, n + 1, Len(rest)) = <<>>
                  THEN End(<<>>, TRUE)
                  ELSE Goes("fwrite", SubSeq(rest, n + 1, Len(rest)))
  BY <1>5, <1>6 DEF FwriteTurn
<1>8. PICK a : a = SubSeq(call.rest, 1, c)
  OBVIOUS
<1>9. /\ a \in Seq(Byte) /\ Len(a) = c
      /\ rest \in Seq(Byte) /\ Len(rest) = k - c
  BY <1>2, <1>3, <1>4, <1>6, <1>8, RestIsSeq, SMTT(20)
<1>10. Part(f, file, g, file, a, Done)
  <2>1. CASE c > 0
    <3>1. f.base
      BY <1>2, <1>3, <2>1, RoomHasBase
    <3>2. g = Put(f, a)
      BY <1>3, <1>5, <1>8, <2>1
    <3>3. Len(a) <= f.cnt
      BY <1>3, <1>9
    <3>4. QED
      BY <1>2, <1>9, <3>1, <3>2, <3>3, PutPart
  <2>2. CASE ~(c > 0)
    <3>1. g = f
      BY <1>3, <1>5, <2>2
    <3>2. a = <<>>
      BY <1>3, <1>9, <2>2, EmptySeq
    <3>3. QED
      BY <1>2, <3>1, <3>2, SamePart
  <2>3. QED
    BY <2>1, <2>2
<1>11. Buffered(g) /\ "WR" \in g.flags
  BY <1>10 DEF Part, WritesOn
<1>12. Done => Sure(o)
  BY <1>7 DEF Done, Sure, End
<1>13. /\ Part(g, file, o.f, o.file, <<>>, Done)
       /\ o.ok => "DIRTY" \notin o.f.flags
  <2>1. PICK test : test = TRUE
    OBVIOUS
  <2>2. o \in flush_if(test, g, file)
    BY <2>1 DEF flush_if
  <2>3. QED
    BY <1>2, <1>11, <1>12, <2>1, <2>2, FlushPart
<1>14. Part(f, file, o.f, o.file, a, Done)
  BY <1>2, <1>9, <1>10, <1>13, PartThen
<1>15. Buffered(o.f) /\ FileOK(o.file) /\ "WR" \in o.f.flags
  BY <1>14 DEF Part, WritesOn
<1>16. npush' = 0
  BY <1>1, InWriteSeen
<1>17. ASSUME NEW w \in Seq(Byte), Part(f, file, f', file', w, Done),
              ret' = "ok" => "DIRTY" \notin f'.flags, out' = <<>>
       PROVE  StepWrites(w)
  <2>1. Buffered(f') /\ Kept(f, f')
    BY <1>17 DEF Part, WritesOn
  <2>2. "NBF" \in f'.flags => "DIRTY" \notin f'.flags
    BY <1>1, <2>1, InWriteSeen
  <2>3. ret' = "ok" => NoLine(f, f')
    BY <1>17, <2>1, CleanNoLine
  <2>4. QED
    BY <1>16, <1>17, <2>2, <2>3 DEF StepWrites
\* What goes on or ends once n bytes of the rest are written.
<1>18. ASSUME NEW n \in Nat, n <= Len(rest), Kept(f, f'),
              IF SubSeq(rest, n + 1, Len(rest)) = <<>> THEN End(<<>>, TRUE)
              ELSE Goes("fwrite", SubSeq(rest, n + 1, Len(rest)))
       PROVE  /\ Consumed = a \o SubSeq(rest, 1, n) /\ out' = <<>>
              /\ CallSeen(f', call') /\ call'.op # "puts"
  <2>1. PICK left : left = SubSeq(rest, n + 1, Len(rest))
    OBVIOUS
  <2>2. left \in Seq(Byte) /\ Len(left) = (k - c) - n
    BY <1>9, <1>18, <2>1, RestIsSeq
  <2>3. /\ call'.rest = left /\ out' = <<>>
        /\ call'.op = "none" \/ call'.op = "fwrite"
    <3>1. CASE left = <<>>
      <4>1. End(<<>>, TRUE)
        BY <1>18, <2>1, <3>1
      <4>2. QED
        BY <3>1, <4>1 DEF End, NoCall
    <3>2. CASE left # <<>>
      <4>1. Goes("fwrite", left)
        BY <1>18, <2>1, <3>2
      <4>2. QED
        BY <4>1 DEF Goes
    <3>3. QED
      BY <3>1, <3>2
  <2>4. /\ c + n <= Len(call.rest)
        /\ a \o SubSeq(rest, 1, n) = SubSeq(call.rest, 1, c + n)
    <3>1. c <= Len(call.rest) /\ rest = SubSeq(call.rest, c + 1, Len(call.rest))
      BY <1>3, <1>4, <1>6
    <3>2. QED
      BY <1>2, <1>8, <1>18, <3>1, FirstTwice
  <2>5. Consumed = SubSeq(call.rest, 1, c + n)
    <3>1. PICK q \in Nat : q = c + n
      BY c + n \in Nat
    <3>2. q <= Len(call.rest)
      BY <2>4, <3>1
    <3>3. Len(call'.rest) = (k - c) - n
      BY <2>2, <2>3
    <3>4. (k - c) - n = k - q
      <4>1. c \in Int /\ k \in Int
        BY <1>3
      <4>2. QED
        BY <3>1, <4>1
    <3>5. Len(call'.rest) = Len(call.rest) - q
      BY <1>3, <3>3, <3>4
    <3>6. QED
      BY <1>2, <3>1, <3>2, <3>5, ConsumedIs
  <2>6. f.base /\ "LBF" \in f.flags => ~Contains(left, Newline)
    <3>1. SUFFICES ASSUME f.base, "LBF" \in f.flags
                   PROVE  ~Contains(left, Newline)
      OBVIOUS
    <3>2. ~Contains(call.rest, Newline)
      BY <1>1, <3>1 DEF SeenInv, CallSeen
    <3>3. ~Contains(rest, Newline)
      <4>1. c \in Nat /\ c <= Len(call.rest)
        BY <1>3, <1>4, <1>6
      <4>2. rest = SubSeq(call.rest, c + 1, Len(call.rest))
        BY <1>3, <1>4, <1>6
      <4>3. QED
        BY <1>2, <3>2, <4>1, <4>2, NotInRest
    <3>4. QED
      BY <1>9, <1>18, <2>1, <3>3, NotInRest
  <2>7. "NBF" \in f.flags => ~f.base
    BY <1>1 DEF SeenInv, CallSeen
  <2>8. CallSeen(f', call')
    BY <1>18, <2>3, <2>6, <2>7 DEF CallSeen, Kept
  <2>9. QED
    BY <2>3, <2>4, <2>5, <2>8
<1>19. CASE ~o.ok
  <2>1. /\ f' = o.f /\ file' = o.file /\ out' = <<>> /\ ret' = "fail"
        /\ call' = NoCall
    BY <1>7, <1>19 DEF Becomes, End
  <2>2. Part(f, file, f', file', a, Done)
    BY <1>14, <2>1
  <2>3. StepWrites(a)
    BY <1>9, <1>17, <2>1, <2>2
  <2>4. CallSeen(f', call') /\ call'.op # "puts"
    BY <2>1 DEF CallSeen, NoCall
  <2>5. QED
    BY <1>9, <2>1, <2>3, <2>4
<1>20. CASE o.ok /\ Len(rest) < o.f.bsize
  <2>1. f' = o.f /\ file' = o.file
    BY <1>7, <1>20 DEF Becomes
  <2>2. Part(f, file, f', file', a, Done)
    BY <1>14, <2>1
  <2>3. PICK n \in Nat : n = 0 /\ n <= Len(rest)
    BY <1>3, <1>4, <1>9
  <2>4. /\ Consumed = a \o SubSeq(rest, 1, n) /\ out' = <<>>
        /\ CallSeen(f', call') /\ call'.op # "puts"
    <3>1. Kept(f, f')
      BY <2>2 DEF Part
    <3>2. IF SubSeq(rest, n + 1, Len(rest)) = <<>> THEN End(<<>>, TRUE)
          ELSE Goes("fwrite", SubSeq(rest, n + 1, Len(rest)))
      BY <1>7, <1>20, <2>3
    <3>3. QED
      BY <1>18, <2>3, <3>1, <3>2
  <2>5. Consumed = a
    <3>1. PICK b : b = SubSeq(rest, 1, n)
      OBVIOUS
    <3>2. b \in Seq(Byte) /\ Len(b) = 0
      BY <1>9, <2>3, <3>1, RestIsSeq
    <3>3. b = <<>>
      BY <3>2, EmptySeq
    <3>4. a \o <<>> = a
      BY <1>9, ConcatEmptySeq
    <3>5. QED
      BY <2>4, <3>1, <3>3, <3>4
  <2>6. StepWrites(a)
    BY <1>9, <1>13, <1>17, <1>20, <2>1, <2>2, <2>4
  <2>7. QED
    BY <1>9, <2>4, <2>5, <2>6
<1>21. CASE o.ok /\ ~(Len(rest) < o.f.bsize)
  <2>1. PICK n \in WriteCounts(o.file, Len(rest)) :
          /\ f' = IF n = 0 THEN On(o.f, {"ERR"}) ELSE o.f
          /\ file' = Store(o.file, SubSeq(rest, 1, n))
          /\ IF n = 0 THEN End(<<>>, FALSE)
             ELSE IF SubSeq(rest, n + 1, Len(rest)) = <<>>
             THEN End(<<>>, TRUE)
             ELSE Goes("fwrite", SubSeq(rest, n + 1, Len(rest)))
    BY <1>7, <1>21
  <2>2. n \in Nat /\ n <= Len(rest)
    <3>1. PICK q \in Nat : q = Len(rest)
      BY <1>9, LenProperties
    <3>2. n \in 0 .. q
      BY <2>1, <3>1, WriteCountsOK
    <3>3. QED
      BY <3>1, <3>2
  <2>3. PICK b : b = SubSeq(rest, 1, n)
    OBVIOUS
  <2>4. b \in Seq(Byte)
    BY <1>9, <2>2, <2>3, RestIsSeq
  <2>5. PICK h, hi : h = f' /\ hi = file'
    OBVIOUS
  <2>6. h \in {o.f, On(o.f, {"ERR"})} /\ hi = Store(o.file, b)
    BY <2>1, <2>3, <2>5
  <2>7. "DIRTY" \notin o.f.flags
    BY <1>13, <1>21
  <2>8. /\ Part(o.f, o.file, h, hi, b, Done)
        /\ "DIRTY" \notin h.flags
    BY <1>15, <2>4, <2>6, <2>7, DirectPart
  <2>9. hi.data = Settled(h, hi).data
    BY <1>15, <2>4, <2>6, <2>7, DirectWrote
  <2>10. Part(f, file, h, hi, a \o b, Done)
    BY <1>2, <1>9, <1>14, <2>4, <2>8, <2>9, PartTwice
  <2>11. Part(f, file, f', file', a \o b, Done) /\ "DIRTY" \notin f'.flags
    BY <2>5, <2>8, <2>10
  <2>12. a \o b \in Seq(Byte)
    BY <1>9, <2>4, ConcatProperties
  <2>13. CASE n = 0
    <3>1. out' = <<>> /\ ret' = "fail" /\ call' = NoCall
      BY <2>1, <2>13 DEF End
    <3>2. StepWrites(a \o b)
      BY <1>17, <2>11, <2>12, <3>1
    <3>3. CallSeen(f', call') /\ call'.op # "puts"
      BY <3>1 DEF CallSeen, NoCall
    <3>4. QED
      BY <2>12, <3>1, <3>2, <3>3
  <2>14. CASE n # 0
    <3>1. /\ Consumed = a \o b /\ out' = <<>>
          /\ CallSeen(f', call') /\ call'.op # "puts"
      <4>1. Kept(f, f')
        BY <2>11 DEF Part
      <4>2. IF SubSeq(rest, n + 1, Len(rest)) = <<>> THEN End(<<>>, TRUE)
            ELSE Goes("fwrite", SubSeq(rest, n + 1, Len(rest)))
        BY <2>1, <2>14
      <4>3. QED
        BY <1>18, <2>2, <2>3, <4>1, <4>2
    <3>2. StepWrites(a \o b)
      BY <1>17, <2>11, <2>12, <3>1
    <3>3. QED
      BY <2>12, <3>1, <3>2
  <2>15. QED
    BY <2>13, <2>14
<1>22. QED
  BY <1>19, <1>20, <1>21

LEMMA NothingCalled ==
  ASSUME NEW fl
  PROVE  CallSeen(fl, NoCall) /\ NoCall.op = "none"
BY DEF CallSeen, NoCall

\* A writing call begins.
LEMMA BeginsSeen ==
  ASSUME Habits = {}, StreamInv, StreamInv', SeenInv, NEW n, MayWrite(n),
         NEW bs \in Seq(Byte), StepWrites(bs),
         mode' = mode, last' = "write", CallSeen(f', call')
  PROVE  Sees /\ (ret' = "ok" => View' = Written(bs))
BY MayWriteSeen, WriteSeen

\* A writing call goes on.
LEMMA GoesOnSeen ==
  ASSUME StreamInv, StreamInv', SeenInv, call.op \in {"fputs", "puts", "fwrite"},
         UNCHANGED <<mode, last, npush>>,
         NEW bs \in Seq(Byte), StepWrites(bs), CallSeen(f', call')
  PROVE  Sees /\ (ret' = "ok" => View' = Written(bs))
<1>1. npush = 0 /\ "RD" \notin f.flags /\ mode # "closed"
  BY InWriteSeen
<1>2. last' = "write" /\ mode' = mode
  BY InWrite
<1>3. QED
  BY <1>1, <1>2, WriteSeen

LEMMA FputcSeen ==
  ASSUME Habits = {}, StreamInv, StreamInv', SeenInv, NEW c \in Byte, Fputc(c)
  PROVE  Sees /\ (ret' = "ok" => View' = Written(<<c>>))
<1>1. PICK bs \in Seq(Byte) : StepWrites(bs) /\ (ret' = "ok" => bs = <<c>>)
  BY FputcWrites
<1>2. MayWrite(1) /\ last' = "write" /\ mode' = mode
  BY DEF Fputc
<1>3. call' = NoCall
  BY DEF Fputc, End
<1>4. CallSeen(f', call')
  BY <1>3, NothingCalled
<1>5. QED
  BY <1>1, <1>2, <1>4, BeginsSeen

LEMMA FputsSeen ==
  ASSUME Habits = {}, StreamInv, StreamInv', SeenInv, NEW s \in Strings, Fputs(s)
  PROVE  Sees
<1>1. MayWrite(Len(s)) /\ last' = "write" /\ mode' = mode /\ npush' = 0
  BY DEF Fputs
<1>2. Buffered(f) /\ FileOK(file) /\ s \in Seq(Byte)
  BY StringIsSeq DEF StreamInv
<1>3. CASE Has(f, "NBF")
  <2>1. PICK n \in WriteCounts(file, Len(s)) :
          /\ f' = IF n = Len(s) THEN ToWrite(f) ELSE On(ToWrite(f), {"ERR"})
          /\ file' = Store(file, SubSeq(s, 1, n))
          /\ End(<<>>, n = Len(s))
    BY <1>3 DEF Fputs
  <2>2. PICK bs \in Seq(Byte) : StepWrites(bs)
    BY <1>1, <1>2, <1>3, <2>1, DirectStep DEF Has
  <2>3. CallSeen(f', call')
    BY <2>1, NothingCalled DEF End
  <2>4. QED
    BY <1>1, <2>2, <2>3, BeginsSeen
<1>4. CASE ~Has(f, "NBF")
  <2>1. f' = ToWrite(f) /\ file' = file /\ Goes("fputs", s)
    BY <1>4 DEF Fputs
  <2>2. PICK e \in Seq(Byte) : e = <<>>
    BY EmptySeq
  <2>3. Part(f, file, f', file', e, Done) /\ NoLine(f, f')
    BY <1>2, <2>1, <2>2, ToWritePart
  <2>4. "NBF" \notin f'.flags
    BY <1>4, <2>3 DEF Part, Kept, Has
  <2>5. out' = <<>> /\ call'.op = "fputs"
    BY <2>1 DEF Goes
  <2>6. StepWrites(e)
    BY <1>1, <2>3, <2>4, <2>5 DEF StepWrites
  <2>7. CallSeen(f', call')
    BY <2>4, <2>5 DEF CallSeen
  <2>8. QED
    BY <1>1, <2>6, <2>7, BeginsSeen
<1>5. QED
  BY <1>3, <1>4

LEMMA FputsTurnSeen ==
  ASSUME StreamInv, StreamInv', SeenInv, FputsTurn
  PROVE  Sees /\ (ret' = "ok" => View' = Written(Consumed))
<1>1. PICK bs \in Seq(Byte) : StepWrites(bs) /\ (ret' = "ok" => bs = Consumed)
  BY FputsTurnWrites
<1>2. call.op = "fputs" /\ UNCHANGED <<mode, last, npush>>
  BY DEF FputsTurn
<1>3. call'.op \in {"none", "fputs"}
  <2>1. \/ \E rest : Goes("fputs", rest)
        \/ End(<<>>, FALSE)
    BY DEF FputsTurn
  <2>2. QED
    BY <2>1 DEF Goes, End, NoCall
<1>4. "NBF" \notin f'.flags
  BY <1>1, <1>2 DEF StepWrites, Part, Kept, SeenInv, CallSeen
<1>5. CallSeen(f', call')
  BY <1>3, <1>4 DEF CallSeen
<1>6. QED
  BY <1>1, <1>2, <1>5, GoesOnSeen

LEMMA FputsEndSeen ==
  ASSUME StreamInv, StreamInv', SeenInv, FputsEnd
  PROVE  Sees /\ (ret' = "ok" => View' = Written(Consumed))
<1>1. /\ call.op = "fputs" /\ call.rest = <<>>
      /\ UNCHANGED <<mode, last, npush>>
  BY DEF FputsEnd
<1>2. PICK o \in flush_if(f.cnt = 0, f, file) : Becomes(o) /\ End(<<>>, o.ok)
  BY DEF FputsEnd
<1>3. PICK bs \in Seq(Byte) : StepWrites(bs) /\ bs = Consumed
  BY <1>1, <1>2, EndWrites
<1>4. CallSeen(f', call')
  BY <1>2, NothingCalled DEF End
<1>5. QED
  BY <1>1, <1>3, <1>4, GoesOnSeen

LEMMA PutsTurnSeen ==
  ASSUME StreamInv, StreamInv', SeenInv, PutsTurn
  PROVE  Sees /\ (ret' = "ok" => View' = Written(Consumed))
<1>1. /\ \E bs \in Seq(Byte) : StepWrites(bs) /\ bs = Consumed
      /\ call'.op = "puts" /\ "NBF" \notin f'.flags
  BY PutsTurnWrites
<1>2. call.op = "puts" /\ UNCHANGED <<mode, last, npush>>
  BY DEF PutsTurn
<1>3. CallSeen(f', call')
  BY <1>1 DEF CallSeen
<1>4. QED
  BY <1>1, <1>2, <1>3, GoesOnSeen

\* puts leaves the stream as its policy wants it.
LEMMA PutsEndSeen ==
  ASSUME StreamInv, StreamInv', SeenInv, PutsEnd
  PROVE  /\ Sees /\ (ret' = "ok" => View' = Written(Consumed))
         /\ ret' = "ok" => Honoured'
<1>1. /\ call.op = "puts" /\ call.rest = <<>>
      /\ UNCHANGED <<mode, last, npush>>
  BY DEF PutsEnd
<1>2. PICK test : test = (Has(f, "LBF") \/ Has(f, "NBF"))
  OBVIOUS
<1>3. PICK o \in flush_if(test, f, file) : Becomes(o) /\ End(<<>>, o.ok)
  BY <1>2 DEF PutsEnd
<1>4. PICK bs \in Seq(Byte) : StepWrites(bs) /\ bs = Consumed
  BY <1>1, <1>3, EndWrites
<1>5. ret' = "ok" /\ test => "DIRTY" \notin f'.flags
  BY <1>1, <1>3, EndWrites
<1>6. CallSeen(f', call')
  BY <1>3, NothingCalled DEF End
<1>7. Sees /\ (ret' = "ok" => View' = Written(Consumed))
  BY <1>1, <1>4, <1>6, GoesOnSeen
<1>8. ASSUME ret' = "ok" PROVE Honoured'
  <2>1. Has(f', "NBF") \/ Has(f', "LBF") => "DIRTY" \notin f'.flags
    BY <1>2, <1>4, <1>5, <1>8 DEF StepWrites, Part, Kept, Has
  <2>2. Has(f', "NBF") \/ Has(f', "LBF") => Pending(f') = <<>>
    BY <2>1, PendingBytes DEF StreamInv
  <2>3. ~Contains(<<>>, Newline)
    BY DEF Contains
  <2>4. QED
    BY <2>2, <2>3 DEF Honoured
<1>9. QED
  BY <1>7, <1>8

LEMMA FwriteSeen ==
  ASSUME Habits = {}, StreamInv, StreamInv', SeenInv, NEW s \in Strings, Fwrite(s)
  PROVE  Sees
<1>1. PICK bs \in Seq(Byte) : StepWrites(bs)
  BY FwriteWrites
<1>2. CallSeen(f', call')
  BY FwriteWrites
<1>3. MayWrite(Len(s)) /\ last' = "write" /\ mode' = mode
  BY DEF Fwrite
<1>4. QED
  BY <1>1, <1>2, <1>3, BeginsSeen

LEMMA FwriteLastSeen ==
  ASSUME StreamInv, StreamInv', SeenInv, FwriteLast
  PROVE  Sees /\ (ret' = "ok" => View' = Written(Consumed))
<1>1. PICK bs \in Seq(Byte) : StepWrites(bs) /\ bs = Consumed
  BY FwriteLastWrites
<1>2. call.op = "fwrite" /\ UNCHANGED <<mode, last, npush>> /\ call' = NoCall
  BY DEF FwriteLast, End
<1>3. CallSeen(f', call')
  BY <1>2, NothingCalled
<1>4. QED
  BY <1>1, <1>2, <1>3, GoesOnSeen

LEMMA FwriteTurnSeen ==
  ASSUME StreamInv, StreamInv', SeenInv, FwriteTurn
  PROVE  Sees /\ (ret' = "ok" => View' = Written(Consumed))
<1>1. /\ \E bs \in Seq(Byte) : StepWrites(bs) /\ (ret' = "ok" => bs = Consumed)
      /\ CallSeen(f', call')
  BY FwriteTurnWrites
<1>2. PICK bs \in Seq(Byte) : StepWrites(bs) /\ (ret' = "ok" => bs = Consumed)
  BY <1>1
<1>3. call.op = "fwrite" /\ UNCHANGED <<mode, last, npush>>
  BY DEF FwriteTurn
<1>4. QED
  BY <1>1, <1>2, <1>3, GoesOnSeen

-----------------------------------------------------------------------------
(* The other steps.                                                        *)

\* A step that leaves the pending bytes, or empties the buffer, keeps the
\* policy honoured.
LEMMA StillHonoured ==
  ASSUME StreamInv',
         \/ "DIRTY" \notin f'.flags
         \/ /\ Pending(f') = Pending(f)
            /\ "NBF" \in f'.flags => "NBF" \in f.flags
            /\ "LBF" \in f'.flags => "LBF" \in f.flags
  PROVE  Honoured => Honoured'
<1>1. CASE "DIRTY" \notin f'.flags
  <2>1. Pending(f') = <<>>
    BY <1>1, PendingBytes DEF StreamInv
  <2>2. QED
    BY <2>1 DEF Honoured, Contains
<1>2. CASE /\ Pending(f') = Pending(f)
           /\ "NBF" \in f'.flags => "NBF" \in f.flags
           /\ "LBF" \in f'.flags => "LBF" \in f.flags
  BY <1>2 DEF Honoured, Has
<1>3. QED
  BY <1>1, <1>2

LEMMA PutsSeen ==
  ASSUME Habits = {}, StreamInv, StreamInv', SeenInv, NEW s \in Strings, Puts(s)
  PROVE  Sees
<1>1. MayWrite(Len(s) + 1) /\ last' = "write" /\ mode' = mode /\ npush' = 0
  BY DEF Puts
<1>2. CASE /\ \E bs \in Seq(Byte) : StepWrites(bs)
           /\ call'.op = "puts" /\ "NBF" \notin f'.flags
  <2>1. CallSeen(f', call')
    BY <1>2 DEF CallSeen
  <2>2. QED
    BY <1>1, <1>2, <2>1, BeginsSeen
<1>3. CASE f' = f /\ file' = file /\ ~f.base /\ End(<<>>, FALSE)
  <2>1. npush = 0 /\ mode # "closed"
    BY <1>1, MayWriteSeen
  <2>2. "RD" \notin f.flags
    BY <1>3 DEF SeenInv, StreamInv, Rules
  <2>3. CallSeen(f', call') /\ call'.op = "none"
    BY <1>3, NothingCalled DEF End
  <2>4. SeenInv'
    BY <1>1, <1>3, <2>1, <2>2, <2>3 DEF SeenInv
  <2>5. View' = View /\ Pos' = Pos
    BY <1>3, SeenNow, SeenNext
  <2>6. Pushed' = Pushed
    BY <1>1, <2>1, NothingPushed DEF Pushed
  <2>7. Unbuffered!Next
    BY <1>3, <2>5, <2>6, IsReport DEF End
  <2>8. Honoured => Honoured'
    BY <1>3, StillHonoured
  <2>9. QED
    BY <2>4, <2>7, <2>8 DEF Sees
<1>4. QED
  BY <1>2, <1>3, PutsWrites

LEMMA OutputSeen ==
  ASSUME Habits = {}, StreamInv, StreamInv', SeenInv, Output
  PROVE  /\ Sees
         /\ call.op \in {"fputs", "puts", "fwrite"} /\ ret' = "ok"
              => View' = Written(Consumed)
<1>1. ASSUME NEW c \in Byte, Fputc(c)
      PROVE  Sees /\ call.op = "none"
  BY <1>1, FputcSeen DEF Fputc, MayWrite, Idle
<1>2. ASSUME NEW s \in Strings, Fputs(s) \/ Puts(s) \/ Fwrite(s)
      PROVE  Sees /\ call.op = "none"
  <2>1. call.op = "none"
    BY <1>2 DEF Fputs, Puts, Fwrite, MayWrite, Idle
  <2>2. QED
    BY <1>2, <2>1, FputsSeen, PutsSeen, FwriteSeen
<1>3. CASE \E c \in Byte : Fputc(c)
  BY <1>1, <1>3
<1>4. CASE \E s \in Strings : Fputs(s) \/ Puts(s) \/ Fwrite(s)
  BY <1>2, <1>4
<1>5. CASE FputsTurn
  BY <1>5, FputsTurnSeen
<1>6. CASE FputsEnd
  BY <1>6, FputsEndSeen
<1>7. CASE PutsTurn
  BY <1>7, PutsTurnSeen
<1>8. CASE PutsEnd
  BY <1>8, PutsEndSeen
<1>9. CASE FwriteLast
  BY <1>9, FwriteLastSeen
<1>10. CASE FwriteTurn
  BY <1>10, FwriteTurnSeen
<1>11. QED
  BY <1>3, <1>4, <1>5, <1>6, <1>7, <1>8, <1>9, <1>10 DEF Output

-----------------------------------------------------------------------------
(* Reading, as the program sees it.                                        *)

LEMMA ReaderSeen ==
  ASSUME NEW fl, NEW fi, NEW np, Readable(fl, fi, np)
  PROVE  /\ Pending(fl) = <<>> /\ ViewOf(fl, fi) = fi.data
         /\ PosOf(fl, fi) = IF "RD" \in fl.flags THEN fi.off - fl.cnt
                            ELSE fi.off
<1>1. "DIRTY" \notin fl.flags /\ Buffered(fl)
  BY DEF Readable, Buffered
<1>2. Pending(fl) = <<>>
  BY <1>1, PendingBytes
<1>3. QED
  BY <1>2 DEF ViewOf, PosOf, Has

LEMMA NextBytes ==
  ASSUME NEW fl, NEW fi, NEW np, Readable(fl, fi, np), "RD" \in fl.flags,
         NEW n \in Nat, n <= fl.cnt
  PROVE  Next_n(fl, n) \in Seq(Byte) /\ Len(Next_n(fl, n)) = n
<1>1. PICK p \in Int, c \in Int : p = fl.ptr /\ c = fl.cnt
  BY DEF Readable, Buffered, StreamType
<1>2. \A i \in p .. p + c - 1 : fl.buf[i] \in Byte
  BY <1>1 DEF Readable, Buffered, Defined
<1>3. \A i \in 1 .. n : At(fl, i) \in Byte
  <2>1. SUFFICES ASSUME NEW i \in 1 .. n PROVE At(fl, i) \in Byte
    OBVIOUS
  <2>2. p + i - 1 \in p .. p + c - 1
    BY <1>1
  <2>3. QED
    BY <1>1, <1>2, <2>2 DEF At
<1>4. Next_n(fl, n) \in [1 .. n -> Byte]
  BY <1>3 DEF Next_n
<1>5. QED
  BY <1>4, FunctionIsSeq

\* What the program has to read.
AheadOf(fl, fi, np) ==
  Next_n(fl, np) \o SubSeq(fi.data, fi.off - fl.cnt + np + 1, Len(fi.data))

LEMMA AheadIs ==
  ASSUME NEW fl, NEW fi, NEW np, Readable(fl, fi, np), "RD" \in fl.flags,
         fl.cnt - np <= fi.off
  PROVE  /\ AheadOf(fl, fi, np) \in Seq(Byte)
         /\ fl.cnt <= Len(AheadOf(fl, fi, np))
         /\ \A i \in 1 .. fl.cnt : AheadOf(fl, fi, np)[i] = At(fl, i)
<1>1. PICK c \in Nat, m \in Nat, q \in Nat, k \in Nat :
        c = fl.cnt /\ m = np /\ q = fi.off /\ k = Len(fi.data)
  <2>1. fl.cnt \in Nat
    BY DEF Readable, Buffered, StreamType
  <2>2. np \in Nat /\ fi.off \in Nat /\ Len(fi.data) \in Nat
    BY LenProperties DEF Readable, ReadsAt, FileOK, FileType
  <2>3. QED
    BY <2>1, <2>2
<1>2. m <= c /\ q <= k /\ c - m <= q
  BY <1>1 DEF Readable, ReadsAt, FileOK
<1>3. fi.data \in Seq(Byte)
  BY DEF Readable, FileOK, FileType
<1>4. PICK a : a = Next_n(fl, np)
  OBVIOUS
<1>5. a \in Seq(Byte) /\ Len(a) = m
  BY <1>1, <1>2, <1>4, NextBytes
<1>6. PICK s \in Nat : s = q - c + m + 1 /\ 0 < s
  <2>1. q - c + m + 1 \in Nat /\ 0 < q - c + m + 1
    BY <1>2
  <2>2. QED
    BY <2>1
<1>7. PICK b : b = SubSeq(fi.data, s, k)
  OBVIOUS
<1>8. b \in Seq(Byte) /\ Len(b) = IF s <= k THEN k - s + 1 ELSE 0
  BY <1>1, <1>3, <1>6, <1>7, PartIsSeq
<1>9. PICK l \in Nat : l = Len(b)
  BY <1>8, LenProperties
<1>10. c - m <= l
  BY <1>2, <1>6, <1>8, <1>9
<1>11. PICK e : e = a \o b
  OBVIOUS
<1>12. e = AheadOf(fl, fi, np)
  BY <1>1, <1>4, <1>6, <1>7, <1>11 DEF AheadOf
<1>13. /\ e \in Seq(Byte) /\ Len(e) = m + l
       /\ \A i \in 1 .. m + l : e[i] = IF i <= m THEN a[i] ELSE b[i - m]
  <2>1. /\ a \o b \in Seq(Byte) /\ Len(a \o b) = Len(a) + Len(b)
        /\ \A i \in 1 .. Len(a) + Len(b) :
             (a \o b)[i] = IF i <= Len(a) THEN a[i] ELSE b[i - Len(a)]
    BY <1>5, <1>8, ConcatProperties
  <2>2. QED
    BY <1>5, <1>9, <1>11, <2>1
<1>14. c <= m + l
  BY <1>10
<1>15. ASSUME NEW i \in 1 .. c
       PROVE  e[i] = At(fl, i)
  <2>1. i \in Nat /\ 0 < i /\ i \in 1 .. m + l
    BY <1>14
  <2>2. CASE i <= m
    <3>1. i \in 1 .. m
      BY <2>1, <2>2
    <3>2. a[i] = At(fl, i)
      BY <1>1, <1>4, <3>1 DEF Next_n
    <3>3. QED
      BY <1>13, <2>1, <2>2, <3>2
  <2>3. CASE ~(i <= m)
    <3>1. PICK j \in Nat : j = i - m /\ 0 < j /\ j <= l
      <4>1. i - m \in Nat /\ 0 < i - m /\ i - m <= l
        BY <1>14, <2>1, <2>3
      <4>2. QED
        BY <4>1
    <3>2. s + j <= k + 1
      BY <1>8, <1>9, <3>1
    <3>3. SubSeq(fi.data, s, k)[j] = fi.data[s + j - 1]
      <4>1. PICK d \in Seq(Byte) : d = fi.data
        BY <1>3
      <4>2. k = Len(d)
        BY <1>1, <4>1
      <4>3. 0 < j /\ 0 < s /\ k <= Len(d)
        BY <1>6, <3>1, <4>2
      <4>4. SubSeq(d, s, k)[j] = d[s + j - 1]
        BY <3>2, <4>3, PartElements
      <4>5. QED
        BY <4>1, <4>4
    <3>4. s + j - 1 = q - c + i
      BY <1>6, <2>1, <3>1
    <3>5. i \in m + 1 .. c
      BY <2>1, <2>3
    <3>6. At(fl, i) = fi.data[q - c + i]
      BY <1>1, <3>5 DEF Readable, ReadsAt
    <3>7. e[i] = b[j]
      BY <1>13, <2>1, <2>3, <3>1
    <3>8. QED
      BY <1>7, <3>3, <3>4, <3>6, <3>7
  <2>4. QED
    BY <2>2, <2>3
<1>16. QED
  BY <1>1, <1>12, <1>13, <1>14, <1>15

\* What is taken from the buffer is what the program has to read.
LEMMA NextIsAhead ==
  ASSUME NEW fl, NEW fi, NEW np, Readable(fl, fi, np), "RD" \in fl.flags,
         fl.cnt - np <= fi.off, NEW n \in Nat, n <= fl.cnt
  PROVE  /\ n <= Len(AheadOf(fl, fi, np)) /\ Len(AheadOf(fl, fi, np)) \in Nat
         /\ SubSeq(AheadOf(fl, fi, np), 1, n) = Next_n(fl, n)
<1>1. PICK e : e = AheadOf(fl, fi, np)
  OBVIOUS
<1>2. PICK c \in Nat : c = fl.cnt
  BY DEF Readable, Buffered, StreamType
<1>3. /\ e \in Seq(Byte) /\ c <= Len(e)
      /\ \A i \in 1 .. c : e[i] = At(fl, i)
  BY <1>1, <1>2, AheadIs
<1>4. PICK k \in Nat : k = Len(e) /\ n <= k
  BY <1>2, <1>3, LenProperties
<1>5. PICK a, b : a = SubSeq(e, 1, n) /\ b = Next_n(fl, n)
  OBVIOUS
<1>6. a \in Seq(Byte) /\ Len(a) = n
  BY <1>3, <1>4, <1>5, RestIsSeq
<1>7. b \in Seq(Byte) /\ Len(b) = n
  BY <1>5, NextBytes
<1>8. ASSUME NEW i \in 1 .. n PROVE a[i] = b[i]
  <2>1. PICK o \in Nat : o = 1
    OBVIOUS
  <2>2. i \in Nat /\ 0 < i /\ o + i <= n + 1 /\ o + i - 1 = i
    BY <2>1
  <2>3. SubSeq(e, o, n)[i] = e[o + i - 1]
    BY <1>3, <1>4, <2>1, <2>2, PartElements
  <2>4. a[i] = e[i]
    BY <1>5, <2>1, <2>2, <2>3
  <2>5. e[i] = At(fl, i)
    BY <1>2, <1>3
  <2>6. b[i] = At(fl, i)
    BY <1>5 DEF Next_n
  <2>7. QED
    BY <2>4, <2>5, <2>6
<1>9. a = b
  BY <1>6, <1>7, <1>8, SeqEqual
<1>10. QED
  BY <1>1, <1>4, <1>5, <1>9

\* What remains pushed back.
LEMMA TakenPushed ==
  ASSUME NEW fl, NEW fi, NEW np, Readable(fl, fi, np), "RD" \in fl.flags,
         NEW n \in Nat, 0 < n, n <= fl.cnt,
         NEW k \in Nat, k = IF np > n THEN np - n ELSE 0
  PROVE  Next_n(Take(fl, n), k) = SubSeq(Next_n(fl, np), n + 1, np)
<1>1. PICK p \in Int, c \in Nat, m \in Nat :
        p = fl.ptr /\ c = fl.cnt /\ m = np /\ m <= c
  <2>1. fl.cnt \in Nat /\ fl.ptr \in Int
    BY DEF Readable, Buffered, StreamType
  <2>2. np \in Nat /\ np <= fl.cnt
    BY DEF Readable, ReadsAt
  <2>3. QED
    BY <2>1, <2>2
<1>2. PICK g : g = Take(fl, n)
  OBVIOUS
<1>3. PICK a, b : a = Next_n(g, k) /\ b = Next_n(fl, m)
  OBVIOUS
<1>4. b \in Seq(Byte) /\ Len(b) = m
  BY <1>1, <1>3, NextBytes
<1>5. PICK s \in Nat : s = n + 1 /\ 0 < s
  BY n + 1 \in Nat
<1>6. PICK d : d = SubSeq(b, s, m)
  OBVIOUS
<1>7. d \in Seq(Byte) /\ Len(d) = k
  <2>1. d \in Seq(Byte) /\ Len(d) = IF s <= m THEN m - s + 1 ELSE 0
    BY <1>4, <1>5, <1>6, PartIsSeq
  <2>2. (IF s <= m THEN m - s + 1 ELSE 0) = k
    BY <1>1, <1>5
  <2>3. QED
    BY <2>1, <2>2
<1>8. g.buf = fl.buf /\ g.ptr = p + n
  <2>1. PICK r \in Int, t \in Int : r = p + n /\ t = c - n
    BY p + n \in Int, c - n \in Int
  <2>2. g = [fl EXCEPT !.ptr = r, !.cnt = t]
    BY <1>1, <1>2, <2>1 DEF Take, Readable, Buffered, StreamType
  <2>3. g.buf = fl.buf /\ g.ptr = r
    BY <2>1, <2>2 DEF Readable, Buffered, StreamType
  <2>4. QED
    BY <2>1, <2>3
<1>9. ASSUME NEW i \in 1 .. k PROVE a[i] = d[i] /\ a[i] \in Byte
  <2>1. /\ i \in Nat /\ 0 < i /\ s + i <= m + 1
        /\ s + i - 1 \in 1 .. m
    BY <1>1, <1>5
  <2>2. d[i] = b[s + i - 1]
    BY <1>4, <1>5, <1>6, <2>1, PartElements
  <2>3. PICK j \in 1 .. m : j = s + i - 1
    BY <2>1
  <2>4. b[j] = fl.buf[p + j - 1]
    BY <1>1, <1>3 DEF Next_n, At
  <2>5. a[i] = g.buf[(p + n) + i - 1]
    BY <1>3, <1>8 DEF Next_n, At
  <2>6. p + j - 1 = (p + n) + i - 1
    BY <1>5, <2>1, <2>3
  <2>7. a[i] = d[i]
    BY <1>8, <2>2, <2>3, <2>4, <2>5, <2>6
  <2>8. b[j] \in Byte
    BY <1>4, ElementOfSeq
  <2>9. QED
    BY <2>2, <2>3, <2>7, <2>8
<1>10. a \in Seq(Byte) /\ Len(a) = k
  <2>1. a = [i \in 1 .. k |-> At(g, i)]
    BY <1>3 DEF Next_n
  <2>2. a \in [1 .. k -> Byte]
    BY <1>9, <2>1
  <2>3. QED
    BY <2>2, FunctionIsSeq
<1>11. a = d
  BY <1>7, <1>9, <1>10, SeqEqual
<1>12. QED
  BY <1>1, <1>2, <1>3, <1>5, <1>6, <1>11

\* What a fill of an empty buffer leaves of what the program sees.
FillSees(fl, fi, o) ==
  /\ o.file.data = fi.data /\ o.f.bsize = fl.bsize
  /\ "NBF" \in o.f.flags <=> "NBF" \in fl.flags
  /\ o.f.cnt <= o.file.off
  /\ IF o.ok THEN /\ o.file.off - o.f.cnt = fi.off
                  /\ "EOF" \in o.f.flags <=> "EOF" \in fl.flags
     ELSE o.file = fi /\ o.f.cnt = 0

LEMMA RefillSeen ==
  ASSUME NEW fl, NEW fi, Readable(fl, fi, 0), NEW o \in Refill(fl, fi)
  PROVE  FillSees(fl, fi, o)
<1>1. PICK n \in ReadCounts(fl, fi) :
        o = IF n <= 0
            THEN Outcome([On(fl, {IF n = 0 THEN "EOF" ELSE "ERR"})
                            EXCEPT !.cnt = 0], fi, FALSE)
            ELSE Outcome([fl EXCEPT !.buf = Loaded(fl, fi, n), !.ptr = 0,
                                    !.cnt = n],
                         [fi EXCEPT !.off = @ + n], TRUE)
  BY DEF Refill
<1>2. Buffered(fl) /\ FileOK(fi) /\ fi \in FileType /\ fl \in StreamType
  BY DEF Readable, Buffered, FileOK
<1>3. \/ n = -1 \/ n = 0
      \/ n \in Nat /\ 0 < n /\ n <= fl.bsize /\ fi.off + n <= Len(fi.data)
  BY <1>2, ReadCountsOK
<1>4. PICK q \in Nat : q = fi.off
  BY <1>2 DEF FileType
<1>5. CASE n = -1 \/ n = 0
  <2>1. PICK S \in SUBSET {"ERR", "EOF", "NBF", "LBF"} :
          S = {IF n = 0 THEN "EOF" ELSE "ERR"}
    OBVIOUS
  <2>2. PICK h : h = On(fl, S)
    OBVIOUS
  <2>3. h \in StreamType /\ h.bsize = fl.bsize /\ h.flags = fl.flags \cup S
    BY <1>2, <2>2, NotedOK DEF SameBuffer, Buffered
  <2>4. PICK z \in Nat : z = 0
    OBVIOUS
  <2>5. PICK g : g = [h EXCEPT !.cnt = z]
    OBVIOUS
  <2>6. g.cnt = z /\ g.bsize = h.bsize /\ g.flags = h.flags
    BY <2>3, <2>5 DEF StreamType
  <2>7. o.f = g /\ o.file = fi /\ o.ok = FALSE
    BY <1>1, <1>5, <2>1, <2>2, <2>4, <2>5 DEF Outcome
  <2>8. "NBF" \notin S
    BY <2>1
  <2>9. o.f.cnt <= o.file.off
    BY <1>4, <2>4, <2>6, <2>7
  <2>10. QED
    BY <2>3, <2>4, <2>6, <2>7, <2>8, <2>9 DEF FillSees
<1>6. CASE n \in Nat /\ 0 < n
  <2>1. PICK k \in Nat, w \in Nat : k = n /\ w = q + k
    BY <1>6
  <2>2. PICK b, z : b = Loaded(fl, fi, n) /\ z = 0
    OBVIOUS
  <2>3. PICK g : g = [fl EXCEPT !.buf = b, !.ptr = z, !.cnt = k]
    OBVIOUS
  <2>4. PICK gi : gi = [fi EXCEPT !.off = w]
    OBVIOUS
  <2>5. g.cnt = k /\ g.bsize = fl.bsize /\ g.flags = fl.flags
    BY <1>2, <2>3 DEF StreamType
  <2>6. gi.data = fi.data /\ gi.off = w
    BY <1>2, <2>4 DEF FileType
  <2>7. gi = [fi EXCEPT !.off = @ + n]
    BY <1>2, <1>4, <2>1, <2>4 DEF FileType
  <2>8. o.f = g /\ o.file = gi /\ o.ok = TRUE
    BY <1>1, <1>6, <2>1, <2>2, <2>3, <2>7 DEF Outcome
  <2>9. k <= w /\ w - k = q
    BY <2>1
  <2>10. QED
    BY <1>4, <2>5, <2>6, <2>8, <2>9 DEF FillSees
<1>7. QED
  BY <1>3, <1>5, <1>6

LEMMA FillSeen ==
  ASSUME NEW fl, NEW fi, Readable(fl, fi, 0), fl.cnt = 0,
         NEW o \in fill_impl(fl, fi)
  PROVE  FillSees(fl, fi, o)
<1>1. PICK q \in Nat : q = fi.off
  BY DEF Readable, FileOK, FileType
<1>2. CASE fl.flags \cap {"EOF", "ERR"} # {}
  <2>1. o.f = fl /\ o.file = fi /\ o.ok = FALSE
    BY <1>2 DEF fill_impl, Outcome
  <2>2. o.f.cnt <= o.file.off
    BY <1>1, <2>1
  <2>3. QED
    BY <2>1, <2>2 DEF FillSees
<1>3. CASE fl.flags \cap {"EOF", "ERR"} = {}
  <2>1. PICK e \in flush_impl(fl, fi) :
          o \in IF e.ok THEN Refill(On(Off(e.f, {"WR"}), {"RD"}), e.file)
                ELSE {e}
    BY <1>3 DEF fill_impl
  <2>2. ~MustFlush(fl)
    BY DEF MustFlush, Readable
  <2>3. e.f = fl /\ e.file = fi /\ e.ok = TRUE
    BY <2>1, <2>2 DEF flush_impl, Outcome
  <2>4. PICK d : d = Off(fl, {"WR"})
    OBVIOUS
  <2>5. /\ d \in StreamType /\ SameBuffer(fl, d) /\ d.ptr = fl.ptr
        /\ d.cnt = fl.cnt /\ d.flags = fl.flags \ {"WR"}
    BY <2>4, OffFields DEF Readable, Buffered
  <2>6. PICK S \in SUBSET Flags : S = {"RD"}
    BY DEF Flags
  <2>7. PICK h : h = On(d, S)
    OBVIOUS
  <2>8. /\ h \in StreamType /\ SameBuffer(d, h) /\ h.ptr = d.ptr
        /\ h.cnt = d.cnt /\ h.flags = d.flags \cup S
    BY <2>5, <2>7, OnFields
  <2>9. /\ SameBuffer(fl, h) /\ h.ptr = fl.ptr /\ h.cnt = 0
        /\ h.flags = fl.flags \cup {"RD"}
    BY <2>5, <2>6, <2>8 DEF SameBuffer, Readable
  <2>10. "DIRTY" \notin fl.flags /\ fl.ptr \in Int
    BY DEF Readable, Buffered, StreamType
  <2>11. Defined(h, h.ptr, h.ptr + h.cnt - 1)
    BY <2>9, <2>10 DEF Defined
  <2>12. Buffered(h)
    BY <2>8, <2>9, <2>10, <2>11 DEF Readable, Buffered, Lowest, SameBuffer
  <2>13. ReadsAt(h, fi, 0)
    BY <1>3, <2>9 DEF ReadsAt
  <2>14. Readable(h, fi, 0)
    BY <2>9, <2>12, <2>13 DEF Readable, SameBuffer
  <2>15. o \in Refill(h, fi)
    BY <2>1, <2>3, <2>4, <2>6, <2>7
  <2>16. FillSees(h, fi, o)
    BY <2>14, <2>15, RefillSeen
  <2>17. QED
    BY <2>9, <2>16 DEF FillSees, SameBuffer
<1>4. QED
  BY <1>2, <1>3

\* Before bytes are taken: nothing the program sees has changed.
LEMMA FilledSeen ==
  ASSUME Readable(f, file, npush), "RD" \in f.flags => f.cnt - npush <= file.off,
         NEW o \in Filled
  PROVE  /\ o.file.data = file.data /\ o.f.bsize = f.bsize
         /\ "NBF" \in o.f.flags <=> "NBF" \in f.flags
         /\ o.f.cnt - npush <= o.file.off
         /\ Next_n(o.f, npush) = Pushed
         /\ o.ok => /\ o.file.off - o.f.cnt = Pos
                    /\ "EOF" \in o.f.flags <=> "EOF" \in f.flags
         /\ ~o.ok => /\ o.file = file /\ npush = 0 /\ f.cnt = 0
                     /\ o.f.cnt = 0
<1>1. f.cnt \in Int /\ 0 <= f.cnt /\ npush \in Nat /\ npush <= f.cnt
  BY DEF Readable, Buffered, StreamType, ReadsAt
<1>2. Pos = IF "RD" \in f.flags THEN file.off - f.cnt ELSE file.off
  BY ReaderSeen, SeenNow
<1>3. CASE f.cnt > 0
  <2>1. o.f = f /\ o.file = file /\ o.ok = TRUE
    BY <1>3 DEF Filled, Same, Outcome
  <2>2. "RD" \in f.flags
    BY <1>3 DEF Readable
  <2>3. QED
    BY <1>2, <2>1, <2>2 DEF Pushed
<1>4. CASE ~(f.cnt > 0)
  <2>1. f.cnt = 0 /\ npush = 0
    BY <1>1, <1>4
  <2>2. o \in fill_impl(f, file)
    BY <1>4 DEF Filled
  <2>3. FillSees(f, file, o)
    BY <2>1, <2>2, FillSeen
  <2>4. Next_n(o.f, npush) = Pushed
    BY <2>1 DEF Next_n, Pushed
  <2>5. PICK q \in Nat : q = file.off
    BY DEF Readable, FileOK, FileType
  <2>6. Pos = file.off
    BY <1>2, <2>1, <2>5
  <2>7. o.f.cnt \in Int
    <3>1. Readable(o.f, o.file, npush)
      BY FilledOK
    <3>2. QED
      BY <3>1 DEF Readable, Buffered, StreamType
  <2>8. o.f.cnt - npush = o.f.cnt
    BY <2>1, <2>7
  <2>9. QED
    BY <2>1, <2>3, <2>4, <2>6, <2>8 DEF FillSees
<1>5. QED
  BY <1>3, <1>4

\* The bytes that are pushed back.
LEMMA PushedBytes ==
  ASSUME NEW fl, NEW fi, NEW np, Readable(fl, fi, np)
  PROVE  /\ np \in Nat
         /\ Next_n(fl, np) \in Seq(Byte) /\ Len(Next_n(fl, np)) = np
<1>1. np \in Nat /\ np <= fl.cnt /\ (np # 0 => "RD" \in fl.flags)
  BY DEF Readable, ReadsAt
<1>2. CASE "RD" \in fl.flags
  BY <1>1, <1>2, NextBytes
<1>3. CASE "RD" \notin fl.flags
  <2>1. np = 0
    BY <1>1, <1>3
  <2>2. Next_n(fl, 0) = <<>>
    BY DEF Next_n
  <2>3. QED
    BY <2>1, <2>2, EmptySeq
<1>4. QED
  BY <1>2, <1>3

\* n bytes are taken from the stream fl and the file fi that a fill left.
LEMMA TakeIsRead ==
  ASSUME NEW fl, NEW fi, Readable(fl, fi, npush), "RD" \in fl.flags,
         fl.cnt - npush <= fi.off, Next_n(fl, npush) = Pushed,
         fi.data = file.data, View = file.data, fi.off - fl.cnt = Pos,
         fi.append = file.append, "EOF" \in fl.flags <=> "EOF" \in f.flags,
         NEW n \in Nat, 0 < n, n <= fl.cnt,
         f' = Take(fl, n), file' = fi,
         npush' = IF npush > n THEN npush - n ELSE 0,
         out' \in {Next_n(fl, n), out \o Next_n(fl, n)}
  PROVE  Unbuffered!Next
<1>1. PICK p \in Int, c \in Nat, m \in Nat, q \in Nat :
        p = fl.ptr /\ c = fl.cnt /\ m = npush /\ q = fi.off
  <2>1. fl.cnt \in Nat /\ fl.ptr \in Int
    BY DEF Readable, Buffered, StreamType
  <2>2. npush \in Nat /\ fi.off \in Nat
    BY DEF Readable, ReadsAt, FileOK, FileType
  <2>3. QED
    BY <2>1, <2>2
<1>2. Len(Pushed) = m
  BY <1>1, PushedBytes
<1>3. PICK a : a = AheadOf(fl, fi, npush)
  OBVIOUS
<1>4. Unbuffered!Ahead = a
  <2>1. Unbuffered!Ahead = Pushed \o SubSeq(View, Pos + Len(Pushed) + 1,
                                            Len(View))
    BY DEF Unbuffered!Ahead
  <2>2. Pos + Len(Pushed) + 1 = fi.off - fl.cnt + npush + 1
    BY <1>1, <1>2
  <2>3. QED
    BY <1>3, <2>1, <2>2 DEF AheadOf
<1>5. n <= Len(a) /\ Len(a) \in Nat /\ SubSeq(a, 1, n) = Next_n(fl, n)
  BY <1>3, NextIsAhead
<1>6. n \in 1 .. Len(a)
  BY <1>5
<1>7. PICK k \in Nat : k = IF m > n THEN m - n ELSE 0
  <2>1. (IF m > n THEN m - n ELSE 0) \in Nat
    OBVIOUS
  <2>2. QED
    BY <2>1
<1>8. npush' = k
  BY <1>1, <1>7
<1>9. PICK g : g = Take(fl, n)
  OBVIOUS
<1>10. Readable(g, fi, k) /\ "RD" \in g.flags
  BY <1>1, <1>7, <1>9, TakeOK
<1>11. g.cnt = c - n /\ g.flags = fl.flags
  <2>1. PICK r \in Int, t \in Int : r = p + n /\ t = c - n
    BY p + n \in Int, c - n \in Int
  <2>2. g = [fl EXCEPT !.ptr = r, !.cnt = t]
    BY <1>1, <1>9, <2>1 DEF Take, Readable, Buffered, StreamType
  <2>3. g.cnt = t /\ g.flags = fl.flags
    BY <2>2 DEF Readable, Buffered, StreamType
  <2>4. QED
    BY <2>1, <2>3
<1>12. View' = View /\ Pos' = Pos + n
  <2>1. ViewOf(g, fi) = fi.data /\ PosOf(g, fi) = fi.off - g.cnt
    BY <1>10, ReaderSeen
  <2>2. View' = fi.data /\ Pos' = fi.off - g.cnt
    BY <1>9, <2>1, SeenNext
  <2>3. fi.off - g.cnt = Pos + n
    <3>1. Pos = q - c /\ fi.off - g.cnt = q - (c - n)
      BY <1>1, <1>11
    <3>2. q - (c - n) = (q - c) + n
      OBVIOUS
    <3>3. QED
      BY <3>1, <3>2
  <2>4. QED
    BY <2>2, <2>3
<1>13. Pushed' = SubSeq(Pushed, n + 1, Len(Pushed))
  <2>1. k = IF npush > n THEN npush - n ELSE 0
    BY <1>1, <1>7
  <2>2. Next_n(g, k) = SubSeq(Pushed, n + 1, m)
    <3>1. Next_n(Take(fl, n), k) = SubSeq(Next_n(fl, npush), n + 1, npush)
      BY <2>1, TakenPushed
    <3>2. QED
      BY <1>1, <1>9, <3>1
  <2>3. Pushed' = Next_n(g, k)
    BY <1>8, <1>9 DEF Pushed
  <2>4. QED
    BY <1>2, <2>2, <2>3
<1>14. /\ file'.data = file.data /\ file'.append = file.append
       /\ Has(f, "EOF")' = Has(f, "EOF")
  BY <1>9, <1>11 DEF Has
<1>15. out' \in {SubSeq(a, 1, n), out \o SubSeq(a, 1, n)}
  BY <1>5
<1>16. Unbuffered!Read
  BY <1>4, <1>6, <1>12, <1>13, <1>14, <1>15 DEF Unbuffered!Read
<1>17. QED
  BY <1>16 DEF Unbuffered!Next

\* Nothing could be read: an error, or the end of the file.
LEMMA NothingIsRead ==
  ASSUME "read_unbuffered" \notin Habits,
         Readable(f, file, npush), Readable(f', file, 0),
         file' = file, npush = 0, npush' = 0, f.cnt = 0, f'.cnt = 0,
         out' \in {out, <<>>}
  PROVE  Unbuffered!Next
<1>1. PICK q \in Nat : q = file.off
  BY DEF Readable, FileOK, FileType
<1>2. PICK g : g = f'
  OBVIOUS
<1>3. View = file.data /\ Pos = q
  BY <1>1, ReaderSeen, SeenNow
<1>4. View' = file.data /\ Pos' = q
  <2>1. ViewOf(g, file) = file.data /\ PosOf(g, file) = q
    BY <1>1, <1>2, ReaderSeen
  <2>2. QED
    BY <1>2, <2>1, SeenNext
<1>5. Pushed = <<>> /\ Pushed' = <<>>
  BY NothingPushed DEF Pushed
<1>6. CASE "EOF" \notin g.flags
  BY <1>2, <1>3, <1>4, <1>5, <1>6, IsReport
<1>7. CASE "EOF" \in g.flags
  <2>1. q = Len(file.data)
    BY <1>1, <1>2, <1>7 DEF Readable, ReadsAt
  <2>2. Unbuffered!Ahead = <<>>
    <3>1. Unbuffered!Ahead = Pushed \o SubSeq(View, Pos + Len(Pushed) + 1,
                                              Len(View))
      BY DEF Unbuffered!Ahead
    <3>2. PICK d \in Seq(Byte) : d = file.data
      BY DEF Readable, FileOK, FileType
    <3>3. Pos + Len(Pushed) + 1 = q + 1
      BY <1>3, <1>5, EmptySeq
    <3>4. PICK s \in Nat : s = q + 1 /\ 0 < s
      BY q + 1 \in Nat
    <3>5. SubSeq(d, s, q) \in Seq(Byte) /\ Len(SubSeq(d, s, q)) = 0
      <4>1. q <= Len(d) /\ ~(s <= q)
        BY <2>1, <3>2, <3>4
      <4>2. QED
        BY <3>4, <4>1, PartIsSeq
    <3>6. SubSeq(d, s, q) = <<>>
      BY <3>5, EmptySeq
    <3>7. QED
      BY <1>3, <1>5, <2>1, <3>1, <3>2, <3>3, <3>4, <3>6, ConcatEmptySeq
  <2>3. Unbuffered!ReadEnd
    BY <1>2, <1>3, <1>4, <1>5, <1>7, <2>2 DEF Unbuffered!ReadEnd, Has
  <2>4. QED
    BY <2>3 DEF Unbuffered!Next
<1>8. QED
  BY <1>6, <1>7

\* What a step of reading leaves.
LEMMA ReadSeen ==
  ASSUME StreamInv', SeenInv, Readable(f', file', npush'), SameAccess(file, file'),
         mode' = mode, mode # "closed", last' = "read", file.read,
         f'.bsize = f.bsize, "NBF" \in f'.flags <=> "NBF" \in f.flags,
         "RD" \in f'.flags => f'.cnt - npush' <= file'.off,
         call'.op \in {"none", "fgets", "fread"}, Unbuffered!Next
  PROVE  Sees
<1>1. "DIRTY" \notin f'.flags
  BY DEF Readable, Buffered
<1>2. CallSeen(f', call')
  BY DEF CallSeen
<1>3. SeenInv'
  BY <1>1, <1>2 DEF SeenInv, SameAccess
<1>4. Honoured => Honoured'
  BY <1>1, StillHonoured
<1>5. QED
  BY <1>3, <1>4 DEF Sees

\* One read of a filled buffer, or none.
LEMMA TurnSeen ==
  ASSUME "read_unbuffered" \notin Habits, StreamInv, StreamInv', SeenInv,
         Readable(f, file, npush), mode # "closed", file.read,
         NEW o \in Filled, file' = o.file,
         mode' = mode, last' = "read",
         call'.op \in {"none", "fgets", "fread"},
         \/ /\ ~o.ok
            /\ f' = o.f /\ npush' = npush /\ out' \in {out, <<>>}
         \/ /\ o.ok
            /\ \E n \in Nat : /\ 0 < n /\ n <= o.f.cnt /\ Deliver(o.f, n)
                              /\ out' \in {Next_n(o.f, n),
                                           out \o Next_n(o.f, n)}
  PROVE  Sees
<1>1. /\ Readable(o.f, o.file, npush) /\ ReadsOn(f, file, o.f, o.file)
      /\ o.ok => "RD" \in o.f.flags /\ 0 < o.f.cnt
  BY FilledOK
<1>2. /\ o.file.data = file.data /\ o.f.bsize = f.bsize
      /\ "NBF" \in o.f.flags <=> "NBF" \in f.flags
      /\ o.f.cnt - npush <= o.file.off
      /\ Next_n(o.f, npush) = Pushed
      /\ o.ok => /\ o.file.off - o.f.cnt = Pos
                 /\ "EOF" \in o.f.flags <=> "EOF" \in f.flags
      /\ ~o.ok => /\ o.file = file /\ npush = 0 /\ f.cnt = 0
                  /\ o.f.cnt = 0
  BY FilledSeen DEF SeenInv
<1>3. SameAccess(file, o.file)
  BY <1>1 DEF ReadsOn
<1>4. CASE ~o.ok
  <2>1. f' = o.f /\ npush' = npush /\ out' \in {out, <<>>}
    BY <1>4
  <2>2. Unbuffered!Next
    BY <1>1, <1>2, <1>4, <2>1, NothingIsRead
  <2>3. QED
    BY <1>1, <1>2, <1>3, <1>4, <2>1, <2>2, ReadSeen
<1>5. CASE o.ok
  <2>1. PICK n \in Nat : /\ 0 < n /\ n <= o.f.cnt /\ Deliver(o.f, n)
                         /\ out' \in {Next_n(o.f, n), out \o Next_n(o.f, n)}
    BY <1>5
  <2>2. f' = Take(o.f, n) /\ npush' = IF npush > n THEN npush - n ELSE 0
    BY <2>1 DEF Deliver
  <2>3. View = file.data
    BY ReaderSeen, SeenNow
  <2>4. "RD" \in o.f.flags
    BY <1>1, <1>5
  <2>5. Unbuffered!Next
    BY <1>1, <1>2, <1>3, <1>5, <2>1, <2>2, <2>3, <2>4, TakeIsRead
       DEF SameAccess
  <2>6. Readable(f', file', npush')
    BY <1>1, <2>1, <2>2, <2>4, TakeOK
  <2>7. /\ f'.cnt = o.f.cnt - n /\ f'.flags = o.f.flags
        /\ f'.bsize = o.f.bsize
    BY <1>1, <2>2 DEF Take, Readable, Buffered, StreamType
  <2>8. f'.cnt - npush' <= file'.off
    <3>1. PICK c \in Nat, m \in Nat, q \in Nat :
            c = o.f.cnt /\ m = npush /\ q = o.file.off
      <4>1. o.f.cnt \in Nat
        BY <1>1 DEF Readable, Buffered, StreamType
      <4>2. npush \in Nat /\ o.file.off \in Nat
        BY <1>1 DEF Readable, ReadsAt, FileOK, FileType
      <4>3. QED
        BY <4>1, <4>2
    <3>2. c - m <= q /\ n <= c
      BY <1>2, <2>1, <3>1
    <3>3. (c - n) - (IF m > n THEN m - n ELSE 0) <= q
      BY <3>2
    <3>4. QED
      BY <2>2, <2>7, <3>1, <3>3
  <2>9. QED
    BY <1>2, <1>3, <2>5, <2>6, <2>7, <2>8, ReadSeen
<1>6. QED
  BY <1>4, <1>5

\* A step that leaves the stream and the file as they are.
LEMMA SameIsReport ==
  ASSUME UNCHANGED <<f, file, npush>>, out' \in {out, <<>>}
  PROVE  Unbuffered!Next /\ View' = View
<1>1. View' = View /\ Pos' = Pos
  BY SeenNow, SeenNext
<1>2. Pushed' = Pushed
  BY DEF Pushed
<1>3. QED
  BY <1>1, <1>2, IsReport

LEMMA FgetcSeen ==
  ASSUME Habits = {}, StreamInv, StreamInv', SeenInv, Fgetc
  PROVE  Sees
<1>1. PICK o \in Filled :
        /\ file' = o.file
        /\ IF o.ok THEN Deliver(o.f, 1) /\ End(<<At(o.f, 1)>>, TRUE)
           ELSE f' = o.f /\ npush' = npush /\ End(<<>>, FALSE)
  BY DEF Fgetc
<1>2. MayGet /\ last' = "read" /\ mode' = mode
  BY DEF Fgetc
<1>3. Readable(f, file, npush)
  BY <1>2, MayReadOK DEF MayGet, Careful
<1>4. mode # "closed" /\ file.read
  BY <1>2 DEF MayGet, MayRead, Idle
<1>5. CASE ~o.ok
  <2>1. f' = o.f /\ npush' = npush /\ End(<<>>, FALSE)
    BY <1>1, <1>5
  <2>2. call'.op = "none" /\ out' = <<>>
    BY <2>1 DEF End, NoCall
  <2>3. QED
    BY <1>1, <1>2, <1>3, <1>4, <1>5, <2>1, <2>2, TurnSeen
<1>6. CASE o.ok
  <2>1. Deliver(o.f, 1) /\ End(<<At(o.f, 1)>>, TRUE)
    BY <1>1, <1>6
  <2>2. call'.op = "none" /\ out' = <<At(o.f, 1)>>
    BY <2>1 DEF End, NoCall
  <2>3. PICK n \in Nat : n = 1
    OBVIOUS
  <2>4. PICK c \in Nat : c = o.f.cnt /\ 0 < c
    <3>1. Readable(o.f, o.file, npush) /\ (o.ok => 0 < o.f.cnt)
      BY <1>3, FilledOK
    <3>2. o.f.cnt \in Nat
      BY <3>1 DEF Readable, Buffered, StreamType
    <3>3. QED
      BY <1>6, <3>1, <3>2
  <2>5. 0 < n /\ n <= o.f.cnt
    BY <2>3, <2>4
  <2>6. Next_n(o.f, 1) = <<At(o.f, 1)>>
    BY DEF Next_n
  <2>7. Deliver(o.f, n) /\ out' = Next_n(o.f, n)
    BY <2>1, <2>2, <2>3, <2>6
  <2>8. QED
    BY <1>1, <1>2, <1>3, <1>4, <1>6, <2>2, <2>5, <2>7, TurnSeen
<1>7. QED
  BY <1>5, <1>6

LEMMA FgetsSeen ==
  ASSUME Habits = {}, StreamInv, StreamInv', SeenInv, NEW n \in 1 .. MaxCall,
         Fgets(n)
  PROVE  Sees
<1>1. /\ MayGet /\ call' = [op |-> "fgets", rest |-> <<>>, want |-> n]
      /\ out' = <<>> /\ last' = "read"
      /\ UNCHANGED <<f, file, mode, npush, ret>>
  BY DEF Fgets
<1>2. Readable(f, file, npush)
  BY <1>1, MayReadOK DEF MayGet, Careful
<1>3. mode # "closed" /\ file.read
  BY <1>1 DEF MayGet, MayRead, Idle
<1>4. Unbuffered!Next
  BY <1>1, SameIsReport
<1>5. "RD" \in f.flags => f.cnt - npush <= file.off
  BY DEF SeenInv
<1>6. call'.op = "fgets"
  BY <1>1
<1>7. SameAccess(file, file')
  BY <1>1 DEF SameAccess
<1>8. QED
  BY <1>1, <1>2, <1>3, <1>4, <1>5, <1>6, <1>7, ReadSeen

LEMMA FreadSeen ==
  ASSUME Habits = {}, StreamInv, StreamInv', SeenInv, NEW n \in 1 .. MaxCall,
         Fread(n)
  PROVE  Sees
<1>1. MayRead /\ last' = "read" /\ UNCHANGED <<file, mode>>
  BY DEF Fread
<1>2. "WR" \notin f.flags
  BY <1>1, MayReadOK DEF Careful
<1>3. /\ IF Has(f, "RD") THEN f' = f /\ npush' = npush
         ELSE f' = ToRead(f) /\ npush' = 0
      /\ call' = [op |-> "fread", rest |-> <<>>, want |-> n]
      /\ out' = <<>>
  BY <1>2 DEF Fread, Has
<1>4. mode # "closed" /\ file.read
  BY <1>1 DEF MayRead, Idle
<1>5. call'.op = "fread" /\ SameAccess(file, file')
  BY <1>1, <1>3 DEF SameAccess
<1>6. CASE Has(f, "RD")
  <2>1. f' = f /\ npush' = npush
    BY <1>3, <1>6
  <2>2. Readable(f, file, npush)
    BY <1>1, <1>6, MayReadOK DEF Neutral, Careful
  <2>3. Unbuffered!Next
    BY <1>1, <1>3, <2>1, SameIsReport
  <2>4. "RD" \in f.flags => f.cnt - npush <= file.off
    BY DEF SeenInv
  <2>5. QED
    BY <1>1, <1>4, <1>5, <2>1, <2>2, <2>3, <2>4, ReadSeen
<1>7. CASE ~Has(f, "RD")
  <2>1. f' = ToRead(f) /\ npush' = 0
    BY <1>3, <1>7
  <2>2. ~f.base /\ file.read => "read_unbuffered" \in Habits
    BY DEF StreamInv, Rules
  <2>3. Readable(f', file', npush')
    BY <1>1, <1>2, <1>7, <2>1, <2>2, ToReadOK DEF StreamInv, Has
  <2>4. npush = 0
    BY <1>7 DEF StreamInv, ReadsAt, Has
  <2>5. PICK h : h = f'
    OBVIOUS
  <2>6. /\ h.cnt = 0 /\ h.bsize = f.bsize
        /\ h.flags = f.flags \cup {"RD"}
    BY <2>1, <2>5 DEF ToRead, On, StreamInv, Buffered, StreamType
  <2>7. PICK q \in Nat : q = file.off
    BY DEF StreamInv, FileOK, FileType
  <2>8. View' = View /\ Pos' = Pos
    <3>1. "DIRTY" \notin f.flags /\ Buffered(f)
      BY <1>2 DEF StreamInv, Buffered
    <3>2. Pending(f) = <<>>
      BY <3>1, PendingBytes
    <3>3. View = file.data /\ Pos = q
      BY <1>7, <2>7, <3>2 DEF View, Pos
    <3>4. ViewOf(h, file) = file.data /\ PosOf(h, file) = q
      BY <1>1, <2>1, <2>3, <2>5, <2>6, <2>7, ReaderSeen
    <3>5. View' = file.data /\ Pos' = q
      BY <1>1, <2>5, <3>4, SeenNext
    <3>6. QED
      BY <3>3, <3>5
  <2>9. Pushed' = Pushed
    BY <2>1, <2>4, NothingPushed DEF Pushed
  <2>10. Unbuffered!Next
    BY <1>1, <1>3, <2>5, <2>6, <2>8, <2>9, IsReport
  <2>11. f'.cnt - npush' <= file'.off
    BY <1>1, <2>1, <2>5, <2>6, <2>7
  <2>12. QED
    BY <1>1, <1>4, <1>5, <2>3, <2>5, <2>6, <2>10, <2>11, ReadSeen
<1>8. QED
  BY <1>6, <1>7

LEMMA ReadTurnSeen ==
  ASSUME "read_unbuffered" \notin Habits, StreamInv, StreamInv', SeenInv,
         ReadTurn
  PROVE  Sees
<1>1. /\ call.op \in {"fgets", "fread"} /\ UNCHANGED <<mode, last>>
  BY DEF ReadTurn
<1>2. PICK o \in Filled :
        /\ file' = o.file
        /\ \/ /\ ~o.ok
              /\ f' = o.f /\ npush' = npush
              /\ End(out, FALSE)
           \/ /\ o.ok
              /\ LET n == IF call.op = "fgets" THEN 1
                          ELSE Least(call.want, o.f.cnt)
                     bytes == Next_n(o.f, n)
                 IN
                 /\ Deliver(o.f, n)
                 /\ out' = out \o bytes /\ ret' = "ok"
                 /\ call' = IF \/ call.want = n
                               \/ call.op = "fgets" /\ bytes[1] = Newline
                            THEN NoCall ELSE [call EXCEPT !.want = @ - n]
  BY DEF ReadTurn
<1>3. /\ "WR" \notin f.flags /\ last = "read" /\ call.want \in 1 .. MaxCall
      /\ call \in CallType
  BY <1>1 DEF StreamInv, Calls
<1>4. Readable(f, file, npush)
  BY <1>3 DEF StreamInv, Rules, Readable
<1>5. mode # "closed" /\ file.read
  BY <1>1 DEF SeenInv
<1>6. CASE ~o.ok
  <2>1. f' = o.f /\ npush' = npush /\ End(out, FALSE)
    BY <1>2, <1>6
  <2>2. call'.op = "none" /\ out' = out
    BY <2>1 DEF End, NoCall
  <2>3. QED
    BY <1>1, <1>2, <1>3, <1>4, <1>5, <1>6, <2>1, <2>2, TurnSeen
<1>7. CASE o.ok
  <2>1. PICK n : n = IF call.op = "fgets" THEN 1 ELSE Least(call.want, o.f.cnt)
    OBVIOUS
  <2>2. /\ Deliver(o.f, n)
        /\ out' = out \o Next_n(o.f, n)
        /\ call' \in {NoCall, [call EXCEPT !.want = @ - n]}
    BY <1>2, <1>7, <2>1
  <2>3. PICK w \in Nat, c \in Nat : w = call.want /\ c = o.f.cnt /\ 0 < c
    <3>1. Readable(o.f, o.file, npush) /\ (o.ok => 0 < o.f.cnt)
      BY <1>4, FilledOK
    <3>2. o.f.cnt \in Nat
      BY <3>1 DEF Readable, Buffered, StreamType
    <3>3. call.want \in Nat
      BY <1>3
    <3>4. QED
      BY <1>7, <3>1, <3>2, <3>3
  <2>4. 0 < w
    BY <1>3, <2>3, StreamAssumption
  <2>5. n \in Nat /\ 0 < n /\ n <= c
    BY <2>1, <2>3, <2>4 DEF Least
  <2>6. call'.op \in {"none", "fgets", "fread"}
    BY <1>1, <1>3, <2>2 DEF NoCall, CallType
  <2>7. n <= o.f.cnt /\ out' \in {Next_n(o.f, n), out \o Next_n(o.f, n)}
    BY <2>2, <2>3, <2>5
  <2>8. QED
    BY <1>1, <1>2, <1>3, <1>4, <1>5, <1>7, <2>2, <2>5, <2>6, <2>7, TurnSeen
<1>8. QED
  BY <1>6, <1>7

\* fl with b pushed back.
PushedOn(fl, b) ==
  [Off(fl, {"EOF"}) EXCEPT !.ptr = @ - 1, !.cnt = @ + 1, !.buf[fl.ptr - 1] = b]

\* The byte that is pushed back comes before those that were.
LEMMA PushSeen ==
  ASSUME NEW fl, NEW fi, NEW np, Readable(fl, fi, np), "RD" \in fl.flags,
         CanPush(fl), NEW b \in Byte
  PROVE  /\ Readable(PushedOn(fl, b), fi, np + 1)
         /\ PushedOn(fl, b).cnt = fl.cnt + 1
         /\ PushedOn(fl, b).bsize = fl.bsize
         /\ PushedOn(fl, b).flags = fl.flags \ {"EOF"}
         /\ Len(Next_n(PushedOn(fl, b), np + 1)) = Len(Next_n(fl, np)) + 1
         /\ Tail(Next_n(PushedOn(fl, b), np + 1)) = Next_n(fl, np)
<1>17. PICK g : g = [Off(fl, {"EOF"}) EXCEPT !.ptr = @ - 1, !.cnt = @ + 1,
                                             !.buf[fl.ptr - 1] = b]
  OBVIOUS
<1>1. Readable(g, fi, np + 1)
  BY <1>17, PushOK
<1>2. PICK p \in Int, c \in Nat, m \in Nat : p = fl.ptr /\ c = fl.cnt /\ m = np
  <2>1. fl.cnt \in Nat /\ fl.ptr \in Int
    BY DEF Readable, Buffered, StreamType
  <2>2. np \in Nat
    BY DEF Readable, ReadsAt
  <2>3. QED
    BY <2>1, <2>2
<1>3. PICK h : h = Off(fl, {"EOF"})
  OBVIOUS
<1>4. /\ h \in StreamType /\ SameBuffer(fl, h) /\ h.ptr = p /\ h.cnt = c
      /\ h.flags = fl.flags \ {"EOF"}
  BY <1>2, <1>3, OffFields DEF Readable, Buffered
<1>5. PICK a \in Int, d \in Nat : a = p - 1 /\ d = c + 1
  BY p - 1 \in Int /\ c + 1 \in Nat
<1>6. PICK e : e = [h.buf EXCEPT ![a] = b]
  OBVIOUS
<1>7. g = [h EXCEPT !.ptr = a, !.cnt = d, !.buf = e]
  BY <1>2, <1>3, <1>4, <1>5, <1>6, <1>17 DEF StreamType
<1>8. /\ g.ptr = a /\ g.cnt = d /\ g.buf = e /\ g.bsize = fl.bsize
      /\ g.flags = fl.flags \ {"EOF"}
  BY <1>4, <1>7 DEF StreamType, SameBuffer
<1>9. ASSUME NEW i \in 1 .. m
      PROVE  At(g, i + 1) = At(fl, i)
  <2>1. PICK j \in Int : j = p + i - 1 /\ j # a
    <3>1. p + i - 1 \in Int /\ p + i - 1 # p - 1
      OBVIOUS
    <3>2. QED
      BY <1>5, <3>1
  <2>2. e[j] = h.buf[j]
    <3>1. j \in -1 .. BUFSIZ - 1
      <4>1. PICK l \in Int, s \in Nat : l = Lowest(fl) /\ s = fl.bsize
        <5>1. Lowest(fl) \in Int
          BY DEF Lowest
        <5>2. fl.bsize \in Nat
          BY StreamAssumption DEF Readable, Buffered, StreamType
        <5>3. QED
          BY <5>1, <5>2
      <4>2. -1 <= l /\ l <= p /\ p + c <= s /\ s <= BUFSIZ /\ m <= c
        BY <1>2, <4>1, StreamAssumption
           DEF Lowest, Readable, ReadsAt, Buffered, StreamType
      <4>3. QED
        BY <2>1, <4>2, StreamAssumption
    <3>2. QED
      BY <1>4, <1>6, <2>1, <3>1 DEF StreamType
  <2>3. At(g, i + 1) = e[j]
    <3>1. a + (i + 1) - 1 = j
      BY <1>5, <2>1
    <3>2. QED
      BY <1>8, <3>1 DEF At
  <2>4. At(fl, i) = fl.buf[j]
    BY <1>2, <2>1 DEF At
  <2>5. QED
    BY <1>4, <2>2, <2>3, <2>4 DEF SameBuffer
<1>10. PICK r, s : r = Next_n(g, np + 1) /\ s = Next_n(fl, np)
  OBVIOUS
<1>11. r \in Seq(Byte) /\ Len(r) = m + 1 /\ s \in Seq(Byte) /\ Len(s) = m
  BY <1>1, <1>2, <1>10, PushedBytes
<1>12. PICK t : t = Tail(r)
  OBVIOUS
<1>13. /\ t \in Seq(Byte) /\ Len(t) = m
       /\ \A i \in 1 .. m : t[i] = r[i + 1]
  <2>1. r # <<>>
    BY <1>11, EmptySeq
  <2>2. /\ Tail(r) \in Seq(Byte) /\ Len(Tail(r)) = Len(r) - 1
        /\ \A i \in 1 .. Len(Tail(r)) : Tail(r)[i] = r[i + 1]
    BY <1>11, <2>1, HeadTailProperties
  <2>3. Len(t) = m
    BY <1>11, <1>12, <2>2
  <2>4. QED
    BY <1>12, <2>2, <2>3
<1>14. \A i \in 1 .. m : t[i] = s[i]
  <2>1. SUFFICES ASSUME NEW i \in 1 .. m PROVE t[i] = s[i]
    OBVIOUS
  <2>2. i + 1 \in 1 .. m + 1
    OBVIOUS
  <2>3. r[i + 1] = At(g, i + 1)
    BY <1>2, <1>10, <2>2 DEF Next_n
  <2>4. s[i] = At(fl, i)
    BY <1>2, <1>10 DEF Next_n
  <2>5. QED
    BY <1>9, <1>13, <2>3, <2>4
<1>15. t = s
  BY <1>11, <1>13, <1>14, SeqEqual
<1>16. QED
  BY <1>1, <1>2, <1>5, <1>8, <1>10, <1>11, <1>12, <1>15, <1>17
     DEF PushedOn

LEMMA UngetcSeen ==
  ASSUME StreamInv, StreamInv', SeenInv, NEW c \in Byte, Ungetc(c)
  PROVE  Sees
<1>1. /\ Has(f, "RD") /\ last' = "read" /\ UNCHANGED <<file, mode>>
      /\ mode # "closed"
  BY DEF Ungetc, Idle
<1>2. Readable(f, file, npush)
  BY <1>1 DEF StreamInv, Rules, Readable, Buffered, Has
<1>3. "RD" \in f.flags /\ file.read /\ f.cnt - npush <= file.off
  BY <1>1 DEF SeenInv, Has
<1>4. SameAccess(file, file')
  BY <1>1 DEF SameAccess
<1>5. CASE CanPush(f)
  <2>1. PICK g : g = PushedOn(f, c)
    OBVIOUS
  <2>2. f' = g /\ npush' = npush + 1 /\ End(<<>>, TRUE)
    BY <1>5, <2>1 DEF Ungetc, PushedOn
  <2>3. call'.op = "none" /\ out' = <<>>
    BY <2>2 DEF End, NoCall
  <2>4. /\ Readable(g, file, npush + 1)
        /\ g.cnt = f.cnt + 1 /\ g.bsize = f.bsize
        /\ g.flags = f.flags \ {"EOF"}
        /\ Len(Next_n(g, npush + 1)) = Len(Pushed) + 1
        /\ Tail(Next_n(g, npush + 1)) = Pushed
    BY <1>2, <1>3, <1>5, <2>1, PushSeen DEF Pushed
  <2>5. Pushed' = Next_n(g, npush + 1)
    BY <2>2 DEF Pushed
  <2>6. PICK k \in Nat, m \in Nat, q \in Nat :
          k = f.cnt /\ m = npush /\ q = file.off
    <3>1. f.cnt \in Nat
      BY <1>2 DEF Readable, Buffered, StreamType
    <3>2. npush \in Nat /\ file.off \in Nat
      BY <1>2 DEF Readable, ReadsAt, FileOK, FileType
    <3>3. QED
      BY <3>1, <3>2
  <2>7. View' = View /\ Pos' = Pos - 1
    <3>1. View = file.data /\ Pos = q - k
      BY <1>2, <1>3, <2>6, ReaderSeen, SeenNow
    <3>2. ViewOf(g, file) = file.data /\ PosOf(g, file) = q - (k + 1)
      BY <1>3, <2>4, <2>6, ReaderSeen
    <3>3. View' = file.data /\ Pos' = q - (k + 1)
      BY <1>1, <2>2, <3>2, SeenNext
    <3>4. q - (k + 1) = (q - k) - 1
      OBVIOUS
    <3>5. QED
      BY <3>1, <3>3, <3>4
  <2>8. ~Has(f, "EOF")'
    BY <2>2, <2>4 DEF Has
  <2>9. Unbuffered!Push
    BY <1>1, <2>3, <2>4, <2>5, <2>7, <2>8 DEF Unbuffered!Push
  <2>10. Unbuffered!Next
    BY <2>9 DEF Unbuffered!Next
  <2>11. f'.cnt - npush' <= file'.off
    <3>1. (k + 1) - (m + 1) <= q
      BY <1>3, <2>6
    <3>2. QED
      BY <1>1, <2>2, <2>4, <2>6, <3>1
  <2>12. QED
    BY <1>1, <1>3, <1>4, <2>2, <2>3, <2>4, <2>10, <2>11, ReadSeen
<1>6. CASE ~CanPush(f)
  <2>1. UNCHANGED <<f, npush>> /\ End(<<>>, FALSE)
    BY <1>6 DEF Ungetc
  <2>2. call'.op = "none" /\ out' = <<>>
    BY <2>1 DEF End, NoCall
  <2>3. Unbuffered!Next
    BY <1>1, <2>1, <2>2, SameIsReport
  <2>4. QED
    BY <1>1, <1>2, <1>3, <1>4, <2>1, <2>2, <2>3, ReadSeen
<1>7. QED
  BY <1>5, <1>6

LEMMA InputSeen ==
  ASSUME Habits = {}, StreamInv, StreamInv', SeenInv, Input
  PROVE  Sees
<1>1. ASSUME NEW n \in 1 .. MaxCall, Fgets(n) \/ Fread(n) PROVE Sees
  BY <1>1, FgetsSeen, FreadSeen
<1>2. ASSUME NEW c \in Byte, Ungetc(c) PROVE Sees
  BY <1>2, UngetcSeen
<1>3. QED
  BY <1>1, <1>2, FgetcSeen, ReadTurnSeen DEF Input

\* The stream is opened, closed or reopened.
LEMMA SwitchSeen ==
  ASSUME StreamInv', {"DIRTY", "EOF"} \cap f'.flags = {},
         "RD" \in f'.flags => f'.cnt = 0 /\ file'.read,
         "NBF" \in f'.flags => f'.bsize <= 1,
         file'.off = 0, npush' = 0, last' = "open",
         mode' # "closed" => (file'.read <=> Reads(mode')),
         call' = NoCall, out' = <<>>,
         "partial" \notin Faults => file'.data \in {file.data, View, <<>>}
  PROVE  Sees
<1>1. PICK g, gi : g = f' /\ gi = file'
  OBVIOUS
<1>2. Buffered(g) /\ Pending(g) = <<>>
  <2>1. Buffered(g)
    BY <1>1 DEF StreamInv
  <2>2. QED
    BY <1>1, <2>1, PendingBytes
<1>3. View' = gi.data /\ Pos' = 0
  <2>1. ViewOf(g, gi) = gi.data
    BY <1>2 DEF ViewOf
  <2>2. PosOf(g, gi) = IF "RD" \in g.flags THEN gi.off - g.cnt ELSE gi.off
    BY <1>2 DEF PosOf, Has
  <2>3. PosOf(g, gi) = 0
    BY <1>1, <2>2
  <2>4. QED
    BY <1>1, <2>1, <2>3, SeenNext
<1>4. Pushed' = <<>> /\ ~Has(f, "EOF")'
  BY NothingPushed DEF Has
<1>5. "partial" \notin Faults => Unbuffered!Switch
  BY <1>1, <1>3, <1>4 DEF Unbuffered!Switch
<1>6. "partial" \notin Faults => Unbuffered!Next
  BY <1>5 DEF Unbuffered!Next
<1>7. CallSeen(f', call') /\ call'.op = "none"
  BY NothingCalled
<1>8. "RD" \in f'.flags => f'.cnt - npush' <= file'.off
  OBVIOUS
<1>9. "DIRTY" \notin f'.flags
  OBVIOUS
<1>10. SeenInv'
  BY <1>7, <1>8, <1>9 DEF SeenInv
<1>11. Honoured => Honoured'
  BY <1>9, StillHonoured
<1>12. QED
  BY <1>6, <1>10, <1>11 DEF Sees

LEMMA DirectionReads ==
  ASSUME NEW m
  PROVE  /\ "RD" \in Direction(m) => Reads(m)
         /\ Direction(m) \subseteq {"RD", "WR", "RW"}
BY DEF Direction

LEMMA FopenSeen ==
  ASSUME StreamInv, StreamInv', SeenInv, NEW m \in Modes, Fopen(m)
  PROVE  Sees
<1>1. /\ mode' = m /\ f' = Opened(m) /\ file' = OpenFile(m, file.data)
      /\ last' = "open" /\ npush' = 0
      /\ End(<<>>, TRUE)
  BY DEF Fopen
<1>2. file'.read = Reads(m)
  BY <1>1, OpenFileOK DEF StreamInv
<1>3. /\ "RD" \in f'.flags => f'.cnt = 0
      /\ {"DIRTY", "EOF"} \cap f'.flags = {}
  BY <1>1, OpenedOK
<1>4. "RD" \in f'.flags => file'.read
  <2>1. "RD" \in f'.flags => "RD" \in Direction(m)
    BY <1>1 DEF Opened
  <2>2. QED
    BY <1>2, <2>1, DirectionReads
<1>5. "NBF" \in f'.flags => f'.bsize <= 1
  <2>1. "NBF" \notin Direction(m)
    BY DirectionReads
  <2>2. CASE m = "stderr"
    <3>1. f'.bsize = 1
      BY <1>1, <2>2 DEF Opened
    <3>2. QED
      BY <3>1
  <2>3. CASE m # "stderr"
    BY <1>1, <2>1, <2>3 DEF Opened
  <2>4. QED
    BY <2>2, <2>3
<1>6. file'.off = 0 /\ file'.data \in {file.data, <<>>}
  BY <1>1 DEF OpenFile
<1>7. call' = NoCall /\ out' = <<>>
  BY <1>1 DEF End
<1>8. QED
  BY <1>1, <1>2, <1>3, <1>4, <1>5, <1>6, <1>7, SwitchSeen

\* A flush of the stream: what the kernel has of it, and what of it the
\* program sees.
LEMMA FlushSeen ==
  ASSUME StreamInv, NEW test, test \/ "WR" \notin f.flags,
         NEW o \in flush_if(test, f, file)
  PROVE  /\ Flushed(f, file, o)
         /\ o.ok => o.file.data = View
         /\ Sure(o) => /\ o.file.data \in {file.data, View}
                       /\ ViewOf(o.f, o.file) = View
                       /\ PosOf(o.f, o.file) = Pos
<1>1. Buffered(f) /\ FileOK(file)
  BY DEF StreamInv
<1>2. PICK s : s = Settled(f, file)
  OBVIOUS
<1>3. /\ FileOK(s) /\ View = s.data
      /\ Pos = s.off - (IF "RD" \in f.flags THEN f.cnt ELSE 0)
  BY <1>1, <1>2, SettledIsSeen, SeenNow
<1>4. Flushed(f, file, o)
  <2>1. CASE test
    BY <1>1, <2>1, FlushOK DEF flush_if
  <2>2. CASE ~test
    <3>1. "WR" \notin f.flags
      BY <2>2
    <3>2. o.f = f /\ o.file = file /\ o.ok = TRUE
      BY <2>2 DEF flush_if, Outcome
    <3>3. "DIRTY" \notin f.flags
      BY <1>1, <3>1 DEF Buffered
    <3>4. Pending(f) = <<>>
      BY <1>1, <3>3, PendingBytes
    <3>5. o.file = Store(file, Pending(f))
      BY <3>2, <3>4 DEF Store
    <3>6. f.flags \ {"DIRTY"} = f.flags
      BY <3>3
    <3>7. QED
      BY <1>1, <3>2, <3>3, <3>5, <3>6 DEF Flushed, SameBuffer, SameAccess
  <2>3. QED
    BY <2>1, <2>2
<1>5. o.ok => o.file.data = View
  BY <1>2, <1>3, <1>4 DEF Flushed, Settled
<1>6. ASSUME Sure(o)
      PROVE  /\ o.file.data \in {file.data, View}
             /\ ViewOf(o.f, o.file) = View
             /\ PosOf(o.f, o.file) = Pos
  <2>1. Wrote(f, file, o.f, o.file, <<>>)
    BY <1>1, <1>6, FlushIfWrote DEF Sure
  <2>2. Settled(o.f, o.file) = s
    BY <1>2, <2>1 DEF Wrote, Store
  <2>3. o.file.data \in {file.data, s.data}
    BY <1>2, <2>1, <2>2 DEF Wrote
  <2>4. /\ ViewOf(o.f, o.file) = s.data
        /\ PosOf(o.f, o.file) = s.off - (IF "RD" \in o.f.flags THEN o.f.cnt ELSE 0)
    BY <1>4, <2>2, SettledIsSeen DEF Flushed
  <2>5. "RD" \in o.f.flags <=> "RD" \in f.flags
    BY <1>4 DEF Flushed
  <2>6. "RD" \in f.flags => o.f.cnt = f.cnt
    BY <1>1, <1>4 DEF Flushed, Buffered
  <2>7. QED
    BY <1>3, <2>3, <2>4, <2>5, <2>6
<1>7. QED
  BY <1>4, <1>5, <1>6

LEMMA ShutSeen ==
  ASSUME StreamInv, StreamInv', NEW fi, file' = ClosedFile(fi),
         f' = Closed, mode' = "closed", last' = "open", npush' = 0,
         \E ok : End(<<>>, ok),
         "partial" \notin Faults => fi.data \in {file.data, View}
  PROVE  Sees
<1>1. Closed.flags = {}
  BY ClosedOK
<1>2. call' = NoCall /\ out' = <<>>
  BY DEF End
<1>3. file'.data = fi.data /\ file'.off = 0
  BY DEF ClosedFile
<1>4. QED
  BY <1>1, <1>2, <1>3, SwitchSeen

LEMMA FcloseSeen ==
  ASSUME StreamInv, StreamInv', SeenInv, Fclose
  PROVE  Sees /\ (ret' = "ok" => file'.data = View)
<1>1. PICK o \in flush_if(Has(f, "WR"), f, file) :
        file' = ClosedFile(o.file) /\ (End(<<>>, o.ok) \/ End(<<>>, FALSE))
  BY DEF Fclose
<1>2. f' = Closed /\ mode' = "closed" /\ last' = "open" /\ npush' = 0
  BY DEF Fclose
<1>3. PICK test : test = Has(f, "WR")
  OBVIOUS
<1>4. test \/ "WR" \notin f.flags
  BY <1>3 DEF Has
<1>5. /\ o.ok => o.file.data = View
      /\ Sure(o) => o.file.data \in {file.data, View}
  BY <1>1, <1>3, <1>4, FlushSeen
<1>6. Sees
  BY <1>1, <1>2, <1>5, ShutSeen DEF Sure
<1>7. ret' = "ok" => o.ok
  BY <1>1 DEF End
<1>8. file'.data = o.file.data
  BY <1>1 DEF ClosedFile
<1>9. QED
  BY <1>5, <1>6, <1>7, <1>8

LEMMA FreopenSeen ==
  ASSUME Habits = {}, StreamInv, StreamInv', SeenInv, NEW m \in Modes,
         Freopen(m)
  PROVE  Sees
<1>1. f.base /\ last' = "open" /\ npush' = 0
  BY DEF Freopen
<1>2. PICK o \in flush_impl(f, file) :
       \/ /\ f' = Reopened(o.f, m)
          /\ file' = OpenFile(m, o.file.data)
          /\ mode' = m
          /\ End(<<>>, TRUE)
       \/ /\ f' = Closed /\ file' = ClosedFile(o.file) /\ mode' = "closed"
          /\ End(<<>>, FALSE)
  BY DEF Freopen
<1>3. /\ Flushed(f, file, o)
      /\ "partial" \notin Faults => o.file.data \in {file.data, View}
  <2>1. PICK test \in BOOLEAN : test = TRUE
    <3>1. TRUE \in BOOLEAN
      OBVIOUS
    <3>2. QED
      BY <3>1
  <2>2. o \in flush_if(test, f, file) /\ (test \/ "WR" \notin f.flags)
    BY <1>2, <2>1 DEF flush_if
  <2>3. QED
    BY <2>2, FlushSeen DEF Sure
<1>4. Buffered(o.f) /\ FileOK(o.file) /\ o.f.base
  BY <1>1, <1>3 DEF Flushed, SameBuffer
<1>5. CASE /\ f' = Reopened(o.f, m)
           /\ file' = OpenFile(m, o.file.data)
           /\ mode' = m
           /\ End(<<>>, TRUE)
  <2>1. file'.read = Reads(m)
    BY <1>4, <1>5, OpenFileOK
  <2>2. /\ "RD" \in f'.flags => f'.cnt = 0
        /\ {"DIRTY", "EOF"} \cap f'.flags = {}
    BY <1>4, <1>5, ReopenedOK
  <2>3. PICK F : F = Direction(m) \cup (o.f.flags \cap {"FREEBUF", "RESERVE"})
    OBVIOUS
  <2>4. f'.flags = F
    BY <1>4, <1>5, <2>3 DEF Reopened, Buffered, StreamType
  <2>5. ("RD" \in F => Reads(m)) /\ "NBF" \notin F
    BY <2>3, DirectionReads
  <2>6. file'.off = 0 /\ file'.data \in {o.file.data, <<>>}
    BY <1>5 DEF OpenFile
  <2>7. call' = NoCall /\ out' = <<>>
    BY <1>5 DEF End
  <2>8. QED
    BY <1>1, <1>3, <1>5, <2>1, <2>2, <2>4, <2>5, <2>6, <2>7, SwitchSeen
<1>6. CASE /\ f' = Closed /\ file' = ClosedFile(o.file) /\ mode' = "closed"
           /\ End(<<>>, FALSE)
  BY <1>1, <1>3, <1>6, ShutSeen
<1>7. QED
  BY <1>2, <1>5, <1>6

\* A stream that setvbuf makes unbuffered has no buffer.
LEMMA RebufferedPolicy ==
  ASSUME NEW fl \in StreamType, NEW policy \in Policies,
         NEW size \in {0, 1, BUFSIZ}, NEW own \in BOOLEAN
  PROVE  LET g == Rebuffered(fl, policy, size, own) IN
         "NBF" \in g.flags => g.bsize = 0
<1>1. PICK d : d = Off(fl, {"NBF", "LBF"})
  OBVIOUS
<1>2. d \in StreamType /\ d.flags = fl.flags \ {"NBF", "LBF"}
  BY <1>1, OffFields
<1>3. PICK S \in SUBSET Flags : S = {policy} \cap {"NBF", "LBF"}
  BY DEF Flags, Policies
<1>4. PICK h : h = On(d, S)
  OBVIOUS
<1>5. h \in StreamType /\ h.flags = d.flags \cup S
  BY <1>2, <1>4, OnFields
<1>6. PICK g : g = Rebuffered(fl, policy, size, own)
  OBVIOUS
<1>7. CASE policy = "NBF"
  <2>1. g = [h EXCEPT !.base = FALSE, !.buf = NoBuffer, !.bsize = 0, !.ptr = 0,
                      !.cnt = 0]
    BY <1>1, <1>3, <1>4, <1>6, <1>7 DEF Rebuffered
  <2>2. g.bsize = 0
    BY <1>5, <2>1 DEF StreamType
  <2>3. QED
    BY <1>6, <2>2
<1>8. CASE policy # "NBF"
  <2>1. PICK F \in SUBSET Flags : F = IF own THEN {} ELSE {"FREEBUF"}
    BY DEF Flags
  <2>2. PICK e : e = On(h, F)
    OBVIOUS
  <2>3. e \in StreamType /\ e.flags = h.flags \cup F
    BY <1>5, <2>2, OnFields
  <2>4. g = [e EXCEPT !.base = TRUE, !.buf = NoBuffer, !.bsize = size, !.ptr = 0,
                      !.cnt = IF Has(fl, "RD") THEN 0 ELSE size]
    BY <1>1, <1>3, <1>4, <1>6, <1>8, <2>1, <2>2 DEF Rebuffered
  <2>5. g.flags = e.flags
    BY <2>3, <2>4 DEF StreamType
  <2>6. "NBF" \notin g.flags
    BY <1>2, <1>3, <1>5, <1>8, <2>1, <2>3, <2>5
  <2>7. QED
    BY <1>6, <2>6
<1>9. QED
  BY <1>7, <1>8

LEMMA SetvbufSeen ==
  ASSUME Careful, StreamInv, StreamInv', SeenInv, NEW policy \in Policies,
         NEW size \in {0, 1, BUFSIZ}, NEW own \in BOOLEAN,
         Setvbuf(policy, size, own)
  PROVE  Sees
<1>1. last = "open" /\ UNCHANGED <<mode, last, npush>> /\ mode # "closed"
  BY DEF Setvbuf, Idle
<1>2. Buffered(f) /\ FileOK(file) /\ "DIRTY" \notin f.flags /\ npush = 0
  BY <1>1 DEF StreamInv, Rules
<1>3. PICK o \in flush_if(Has(f, "WR"), f, file) :
        /\ file' = o.file
        /\ \/ /\ policy = "NBF" \/ (policy # "other" /\ size # 0)
              /\ f' = Rebuffered(free_buffer(o.f), policy, size, own)
              /\ End(<<>>, TRUE)
           \/ /\ policy # "NBF" /\ (policy = "other" \/ size = 0 \/ ~own)
              /\ free_buffer(o.f).base \/ "setvbuf_failed" \in Habits
              /\ f' = On(Off(free_buffer(o.f), {"NBF", "LBF"}),
                         {policy} \cap {"LBF"})
              /\ End(<<>>, FALSE)
  BY DEF Setvbuf
<1>4. o.f = f /\ o.file = file
  BY <1>2, <1>3 DEF flush_if, flush_impl, MustFlush, Outcome
<1>5. PICK g : g = free_buffer(f)
  OBVIOUS
<1>6. /\ g \in StreamType /\ g.flags = f.flags \ {"FREEBUF", "RESERVE"}
      /\ g.base => g = f
  BY <1>2, <1>5, FreedFields
<1>7. call' = NoCall /\ out' = <<>>
  BY <1>3 DEF End
<1>8. file' = file
  BY <1>3, <1>4
<1>9. "RD" \in f.flags => file.read /\ f.cnt = 0
  BY <1>1 DEF SeenInv
<1>10. PICK h : h = f'
  OBVIOUS
<1>11. /\ "RD" \in h.flags => h.cnt = 0 /\ file.read
       /\ "EOF" \in h.flags => "EOF" \in f.flags
       /\ "DIRTY" \notin h.flags
       /\ "NBF" \in h.flags => h.bsize <= 1
  <2>1. CASE /\ policy = "NBF" \/ (policy # "other" /\ size # 0)
             /\ f' = Rebuffered(g, policy, size, own)
    <3>1. /\ {"RESERVE", "DIRTY"} \cap g.flags = {}
          /\ ~({"RD", "WR"} \subseteq g.flags)
      BY <1>2, <1>6 DEF Buffered
    <3>2. /\ h.flags \cap {"RD", "WR", "EOF", "DIRTY"} =
               g.flags \cap {"RD", "WR", "EOF", "DIRTY"}
          /\ "RD" \in h.flags => h.cnt = 0
      BY <1>6, <1>10, <2>1, <3>1, RebufferedOK
    <3>3. "NBF" \in h.flags => h.bsize = 0
      BY <1>6, <1>10, <2>1, RebufferedPolicy
    <3>4. /\ "RD" \in h.flags => "RD" \in f.flags
          /\ "EOF" \in h.flags => "EOF" \in f.flags
          /\ "DIRTY" \notin h.flags
      BY <1>2, <1>6, <3>2
    <3>5. QED
      BY <1>9, <3>2, <3>3, <3>4
  <2>2. CASE /\ policy # "NBF" /\ g.base
             /\ f' = On(Off(g, {"NBF", "LBF"}), {policy} \cap {"LBF"})
    <3>1. PICK S \in SUBSET {"ERR", "EOF", "NBF", "LBF"} : S = {policy} \cap {"LBF"}
      BY DEF Policies
    <3>2. PICK N \in SUBSET {"ERR", "EOF", "NBF", "LBF"} : N = {"NBF", "LBF"}
      OBVIOUS
    <3>3. PICK d : d = Off(f, N)
      OBVIOUS
    <3>4. Buffered(d) /\ d.flags = f.flags \ N /\ d.cnt = f.cnt
      BY <1>2, <3>3, UnnotedOK
    <3>5. PICK e : e = On(d, S)
      OBVIOUS
    <3>6. e.flags = d.flags \cup S /\ e.cnt = d.cnt
      BY <3>4, <3>5, NotedOK
    <3>7. h = e
      BY <1>6, <1>10, <2>2, <3>1, <3>2, <3>3, <3>5
    <3>8. S \subseteq {"LBF"}
      BY <2>2, <3>1 DEF Policies
    <3>9. QED
      BY <1>2, <1>9, <3>2, <3>4, <3>6, <3>7, <3>8
  <2>3. QED
    BY <1>3, <1>4, <1>5, <2>1, <2>2 DEF Careful
<1>12. PICK q \in Nat : q = file.off
  BY <1>2 DEF FileOK, FileType
<1>13. View = file.data /\ Pos = q
  <2>1. Pending(f) = <<>>
    BY <1>2, PendingBytes
  <2>2. QED
    BY <1>9, <1>12, <2>1 DEF View, Pos, Has
<1>14. View' = file.data /\ Pos' = q
  <2>1. Buffered(h)
    BY <1>10 DEF StreamInv
  <2>2. Pending(h) = <<>>
    BY <1>11, <2>1, PendingBytes
  <2>3. ViewOf(h, file) = file.data /\ PosOf(h, file) = q
    BY <1>11, <1>12, <2>2 DEF ViewOf, PosOf, Has
  <2>4. QED
    BY <1>8, <1>10, <2>3, SeenNext
<1>15. Pushed' = Pushed
  BY <1>1, <1>2, NothingPushed DEF Pushed
<1>16. Unbuffered!Next
  BY <1>7, <1>8, <1>10, <1>11, <1>13, <1>14, <1>15, IsReport
<1>17. CallSeen(f', call') /\ call'.op = "none"
  BY <1>7, NothingCalled
<1>18. "RD" \in h.flags => h.cnt - npush <= file.off
  BY <1>2, <1>11, <1>12
<1>19. SeenInv'
  BY <1>1, <1>8, <1>10, <1>11, <1>17, <1>18 DEF SeenInv
<1>20. Honoured => Honoured'
  BY <1>10, <1>11, StillHonoured
<1>21. QED
  BY <1>16, <1>19, <1>20 DEF Sees

LEMMA ManageSeen ==
  ASSUME Habits = {}, StreamInv, StreamInv', SeenInv, Manage
  PROVE  Sees
<1>1. ASSUME NEW m \in Modes, Fopen(m) \/ Freopen(m) PROVE Sees
  BY <1>1, FopenSeen, FreopenSeen
<1>2. ASSUME NEW p \in Policies, NEW size \in {0, 1, BUFSIZ},
             NEW own \in BOOLEAN, Setvbuf(p, size, own)
      PROVE  Sees
  BY <1>2, SetvbufSeen DEF Careful
<1>3. CASE \E m \in Modes : Fopen(m) \/ Freopen(m)
  BY <1>1, <1>3
<1>4. CASE \E p \in Policies, size \in {0, 1, BUFSIZ}, own \in BOOLEAN :
             Setvbuf(p, size, own)
  BY <1>2, <1>4
<1>5. QED
  BY <1>3, <1>4, FcloseSeen DEF Manage

\* A call of Position that flushes a stream that writes and does nothing else
\* to it.
LEMMA FlushedSeen ==
  ASSUME StreamInv, StreamInv', SeenInv, NEW o \in flush_if(Has(f, "WR"), f, file),
         f' = o.f, file' = o.file, mode' = mode, npush' = npush, call' = NoCall,
         last' = last \/ (last = "write" /\ last' = "flush"),
         ret' = "ok" => o.ok
  PROVE  /\ SeenInv' /\ (ret' = "ok" /\ Honoured => Honoured')
         /\ Pushed' = Pushed /\ file'.append = file.append
         /\ "EOF" \in f'.flags <=> "EOF" \in f.flags
         /\ Sure(o) => /\ View' = View /\ Pos' = Pos
                       /\ file'.data \in {file.data, View}
         /\ o.ok => file'.data = View
<1>1. PICK test : test = Has(f, "WR")
  OBVIOUS
<1>2. test \/ "WR" \notin f.flags
  BY <1>1 DEF Has
<1>3. /\ Flushed(f, file, o)
      /\ o.ok => o.file.data = View
      /\ Sure(o) => /\ o.file.data \in {file.data, View}
                    /\ ViewOf(o.f, o.file) = View
                    /\ PosOf(o.f, o.file) = Pos
  BY <1>1, <1>2, FlushSeen
<1>4. "RD" \in f.flags => o.f = f /\ o.file = file
  <2>1. "RD" \in f.flags => ~Has(f, "WR")
    BY DEF StreamInv, Buffered, Has
  <2>2. QED
    BY <2>1 DEF flush_if, Outcome
<1>5. Pushed' = Pushed
  <2>1. CASE npush = 0
    BY <2>1, NothingPushed DEF Pushed
  <2>2. CASE npush # 0
    <3>1. "RD" \in f.flags
      BY <2>2 DEF StreamInv, ReadsAt
    <3>2. QED
      BY <1>4, <3>1 DEF Pushed
  <2>3. QED
    BY <2>1, <2>2
<1>6. /\ SameAccess(file, o.file) /\ o.f.bsize = f.bsize
      /\ o.f.flags \ {"DIRTY", "ERR"} = f.flags \ {"DIRTY", "ERR"}
      /\ "DIRTY" \in o.f.flags => "DIRTY" \in f.flags
      /\ o.ok => "DIRTY" \notin o.f.flags
  BY <1>3 DEF Flushed, SameBuffer
<1>7. /\ "RD" \in o.f.flags <=> "RD" \in f.flags
      /\ "NBF" \in o.f.flags <=> "NBF" \in f.flags
      /\ "EOF" \in o.f.flags <=> "EOF" \in f.flags
  BY <1>6
<1>8. CallSeen(f', call') /\ call'.op = "none"
  BY NothingCalled
<1>9. SeenInv'
  <2>1. "RD" \in f'.flags => /\ file'.read /\ last' \in {"open", "read"}
                             /\ f'.cnt - npush' <= file'.off
                             /\ last' = "open" => f'.cnt = 0
    BY <1>4, <1>7 DEF SeenInv
  <2>2. QED
    BY <1>6, <1>7, <1>8, <2>1 DEF SeenInv, SameAccess
<1>10. ret' = "ok" /\ Honoured => Honoured'
  BY <1>6, StillHonoured
<1>11. Sure(o) => View' = View /\ Pos' = Pos
  <2>1. PICK g, gi : g = f' /\ gi = file'
    OBVIOUS
  <2>2. View' = ViewOf(g, gi) /\ Pos' = PosOf(g, gi)
    BY <2>1, SeenNext
  <2>3. QED
    BY <1>3, <2>1, <2>2
<1>12. QED
  BY <1>3, <1>5, <1>6, <1>7, <1>9, <1>10, <1>11 DEF SameAccess

LEMMA FflushSeen ==
  ASSUME StreamInv, StreamInv', SeenInv, Fflush
  PROVE  Sees /\ (ret' = "ok" => file'.data = View)
<1>1. PICK o \in flush_if(Has(f, "WR"), f, file) :
        Becomes(o) /\ End(<<>>, o.ok)
  BY DEF Fflush
<1>2. /\ last' = last \/ (last = "write" /\ last' = "flush")
      /\ mode' = mode /\ npush' = npush
  BY DEF Fflush
<1>3. f' = o.f /\ file' = o.file
  BY <1>1 DEF Becomes
<1>4. call' = NoCall /\ out' = <<>> /\ (ret' = "ok" => o.ok)
  BY <1>1 DEF End
<1>5. /\ SeenInv' /\ (ret' = "ok" /\ Honoured => Honoured')
      /\ Pushed' = Pushed /\ file'.append = file.append
      /\ "EOF" \in f'.flags <=> "EOF" \in f.flags
      /\ Sure(o) => /\ View' = View /\ Pos' = Pos
                    /\ file'.data \in {file.data, View}
      /\ o.ok => file'.data = View
  BY <1>1, <1>2, <1>3, <1>4, FlushedSeen
<1>6. "partial" \notin Faults => Unbuffered!Next
  BY <1>4, <1>5, IsReport DEF Sure
<1>7. QED
  BY <1>4, <1>5, <1>6 DEF Sees

LEMMA FtelloSeen ==
  ASSUME StreamInv, StreamInv', SeenInv, Ftello
  PROVE  Sees
<1>1. PICK o \in flush_if(Has(f, "WR"), f, file) :
        /\ Becomes(o)
        /\ \/ o.ok /\ End(<<Told(o.f, o.file)>>, TRUE)
           \/ End(<<>>, FALSE)
  BY DEF Ftello
<1>2. mode' = mode /\ npush' = npush /\ last' = last
  BY DEF Ftello
<1>3. f' = o.f /\ file' = o.file
  BY <1>1 DEF Becomes
<1>4. /\ call' = NoCall /\ (ret' = "ok" => o.ok)
      /\ out' = IF ret' = "ok" THEN <<Told(o.f, o.file)>> ELSE <<>>
  BY <1>1 DEF End
<1>5. /\ SeenInv' /\ (ret' = "ok" /\ Honoured => Honoured')
      /\ Pushed' = Pushed /\ file'.append = file.append
      /\ "EOF" \in f'.flags <=> "EOF" \in f.flags
      /\ Sure(o) => /\ View' = View /\ Pos' = Pos
                    /\ file'.data \in {file.data, View}
      /\ o.ok => file'.data = View
  BY <1>1, <1>2, <1>3, <1>4, FlushedSeen
<1>6. CASE ret' # "ok"
  <2>1. "partial" \notin Faults => Unbuffered!Next
    BY <1>4, <1>5, <1>6, IsReport DEF Sure
  <2>2. QED
    BY <1>5, <2>1 DEF Sees
<1>7. CASE ret' = "ok"
  <2>1. /\ View' = View /\ Pos' = Pos /\ file'.data \in {file.data, View}
        /\ o.ok
    BY <1>4, <1>5, <1>7 DEF Sure
  <2>2. PICK g, gi : g = f' /\ gi = file'
    OBVIOUS
  <2>3. Buffered(g) /\ "DIRTY" \notin g.flags /\ FileOK(gi)
    <3>1. Flushed(f, file, o)
      BY <1>1, FlushWriterOK DEF StreamInv
    <3>2. QED
      BY <1>3, <2>1, <2>2, <3>1 DEF Flushed
  <2>4. Pending(g) = <<>>
    BY <2>3, PendingBytes
  <2>5. Told(g, gi) = PosOf(g, gi)
    <3>1. PICK q \in Nat : q = gi.off
      BY <2>3 DEF FileOK, FileType
    <3>2. q - 0 = q
      OBVIOUS
    <3>3. QED
      BY <2>4, <3>1, <3>2 DEF Told, PosOf
  <2>6. out' = <<Pos>>
    BY <1>3, <1>4, <1>7, <2>1, <2>2, <2>5, SeenNext
  <2>7. Has(f, "EOF")' = Has(f, "EOF")
    BY <1>5 DEF Has
  <2>8. Unbuffered!Tell
    BY <1>5, <2>1, <2>6, <2>7 DEF Unbuffered!Tell
  <2>9. Unbuffered!Next
    BY <2>8 DEF Unbuffered!Next
  <2>10. QED
    BY <1>5, <2>9 DEF Sees
<1>8. QED
  BY <1>6, <1>7

\* A flag that says nothing about the pending bytes.
LEMMA UnnotedSeen ==
  ASSUME NEW fl, Buffered(fl), NEW fi, NEW S \in SUBSET {"ERR", "EOF"}
  PROVE  /\ Pending(Off(fl, S)) = Pending(fl)
         /\ ViewOf(Off(fl, S), fi) = ViewOf(fl, fi)
         /\ PosOf(Off(fl, S), fi) = PosOf(fl, fi)
<1>1. PICK N \in SUBSET {"ERR", "EOF", "NBF", "LBF"} : N = S
  OBVIOUS
<1>2. PICK g : g = Off(fl, N)
  OBVIOUS
<1>3. /\ Buffered(g) /\ SameBuffer(fl, g) /\ g.flags = fl.flags \ N
      /\ g.ptr = fl.ptr /\ g.cnt = fl.cnt
  BY <1>2, UnnotedOK
<1>4. /\ "DIRTY" \in fl.flags <=> "DIRTY" \in g.flags
      /\ "RD" \in fl.flags <=> "RD" \in g.flags
  BY <1>1, <1>3
<1>5. Pending(g) = Pending(fl)
  BY <1>3, <1>4, SamePending DEF SameBuffer
<1>6. QED
  BY <1>1, <1>2, <1>3, <1>4, <1>5 DEF ViewOf, PosOf, Has

LEMMA ClearerrSeen ==
  ASSUME StreamInv, StreamInv', SeenInv, Clearerr
  PROVE  Sees
<1>1. /\ f' = Off(f, {"ERR", "EOF"}) /\ End(<<>>, TRUE)
      /\ UNCHANGED <<file, mode, last, npush>>
  BY DEF Clearerr
<1>2. PICK S \in SUBSET {"ERR", "EOF", "NBF", "LBF"} : S = {"ERR", "EOF"}
  OBVIOUS
<1>3. PICK g : g = f'
  OBVIOUS
<1>4. /\ SameBuffer(f, g) /\ g.flags = f.flags \ S
      /\ g.ptr = f.ptr /\ g.cnt = f.cnt
  BY <1>1, <1>2, <1>3, UnnotedOK DEF StreamInv
<1>5. PICK T \in SUBSET {"ERR", "EOF"} : T = {"ERR", "EOF"}
  OBVIOUS
<1>6. g = Off(f, T)
  BY <1>1, <1>3, <1>5
<1>7. /\ Pending(g) = Pending(f)
      /\ ViewOf(g, file) = ViewOf(f, file) /\ PosOf(g, file) = PosOf(f, file)
  BY <1>6, UnnotedSeen DEF StreamInv
<1>8. View' = View /\ Pos' = Pos
  BY <1>1, <1>3, <1>7, SeenNow, SeenNext
<1>9. Pushed' = Pushed
  <2>1. Pushed' = Next_n(g, npush)
    BY <1>1, <1>3 DEF Pushed
  <2>2. QED
    BY <1>4, <2>1 DEF Pushed, Next_n, At, SameBuffer
<1>10. call' = NoCall /\ out' = <<>>
  BY <1>1 DEF End
<1>11. \A flag : flag \in g.flags => flag \in f.flags
  BY <1>4
<1>12. Unbuffered!Next
  BY <1>1, <1>3, <1>8, <1>9, <1>10, <1>11, IsReport
<1>13. CallSeen(f', call') /\ call'.op = "none"
  BY <1>10, NothingCalled
<1>14. SeenInv'
  BY <1>1, <1>3, <1>4, <1>11, <1>13 DEF SeenInv, SameBuffer
<1>15. Pending(f') = Pending(f)
  BY <1>3, <1>7
<1>16. Honoured => Honoured'
  BY <1>3, <1>11, <1>15, StillHonoured
<1>17. QED
  BY <1>12, <1>14, <1>16 DEF Sees

LEMMA DiscardedSeen ==
  ASSUME NEW fl \in StreamType
  PROVE  /\ Discarded(fl).flags = fl.flags \ {"WR", "RD"}
         /\ Discarded(fl).bsize = fl.bsize
         /\ Off(Discarded(fl), {"EOF"}).flags = fl.flags \ {"WR", "RD", "EOF"}
         /\ Off(Discarded(fl), {"EOF"}).bsize = fl.bsize
<1>1. PICK h : h = Off(fl, {"WR", "RD"})
  OBVIOUS
<1>2. h \in StreamType /\ h.bsize = fl.bsize /\ h.flags = fl.flags \ {"WR", "RD"}
  BY <1>1, OffFields DEF SameBuffer
<1>3. PICK z \in Int : z = 0
  OBVIOUS
<1>4. PICK e : e = [h EXCEPT !.cnt = z, !.ptr = z]
  OBVIOUS
<1>5. e \in StreamType /\ e.flags = h.flags /\ e.bsize = h.bsize
  BY <1>2, <1>4 DEF StreamType
<1>6. e = Discarded(fl)
  BY <1>1, <1>3, <1>4 DEF Discarded
<1>7. PICK g : g = Off(e, {"EOF"})
  OBVIOUS
<1>8. g.flags = e.flags \ {"EOF"} /\ g.bsize = e.bsize
  BY <1>5, <1>7, OffFields DEF SameBuffer
<1>9. QED
  BY <1>2, <1>5, <1>6, <1>7, <1>8

\* What a seek leaves of what the program sees: a new position when it
\* succeeds, and everything when it fails.
SeekSees(o) ==
  /\ SameAccess(file, o.file) /\ o.f.bsize = f.bsize
  /\ "RD" \notin o.f.flags
  /\ o.f.flags \subseteq f.flags \cup {"ERR"}
  /\ IF o.ok
     THEN /\ {"DIRTY", "EOF"} \cap o.f.flags = {}
          /\ o.file.data = View
          /\ ViewOf(o.f, o.file) = View
          /\ PosOf(o.f, o.file) \in 0 .. Len(View)
     ELSE "partial" \notin Faults =>
            /\ o.file.data \in {file.data, View} /\ npush = 0
            /\ ViewOf(o.f, o.file) = View /\ PosOf(o.f, o.file) = Pos

LEMMA SoughtSeen ==
  ASSUME Careful, StreamInv, NEW whence \in {"SET", "CUR", "END"}, NEW d \in Int,
         MaySeek(whence, d), NEW o \in Sought(whence, d)
  PROVE  /\ SeekSees(o)
         /\ o.ok => PosOf(o.f, o.file) = Wanted(whence, d)
<1>1. PICK e \in flush_if(Has(f, "WR"), f, file) :
        o \in IF ~e.ok THEN {e} ELSE Moved(e.f, e.file, whence, d)
  BY DEF Sought
<1>2. PICK test : test = Has(f, "WR")
  OBVIOUS
<1>3. test \/ "WR" \notin f.flags
  BY <1>2 DEF Has
<1>4. /\ Flushed(f, file, e)
      /\ e.ok => e.file.data = View
      /\ Sure(e) => /\ e.file.data \in {file.data, View}
                    /\ ViewOf(e.f, e.file) = View
                    /\ PosOf(e.f, e.file) = Pos
  BY <1>1, <1>2, <1>3, FlushSeen
<1>5. /\ SameAccess(file, e.file) /\ e.f.bsize = f.bsize
      /\ e.f.flags \subseteq f.flags \cup {"ERR"}
      /\ Buffered(e.f) /\ FileOK(e.file)
  BY <1>4 DEF Flushed, SameBuffer
<1>6. CASE ~e.ok
  <2>1. o = e
    BY <1>1, <1>6
  <2>2. Has(f, "WR")
    BY <1>1, <1>6 DEF flush_if, Outcome
  <2>3. "RD" \notin f.flags /\ npush = 0
    BY <2>2 DEF StreamInv, Buffered, ReadsAt, Has
  <2>4. "RD" \notin e.f.flags
    BY <1>5, <2>3
  <2>5. QED
    BY <1>4, <1>5, <1>6, <2>1, <2>3, <2>4 DEF SeekSees, Sure
<1>7. CASE e.ok
  <2>1. /\ e.f.flags = f.flags \ {"DIRTY"}
        /\ e.file = Store(file, Pending(f))
        /\ e.file.data = View
    BY <1>4, <1>7 DEF Flushed
  <2>2. ~ReadsAhead => e.file.off = Pos
    BY <2>1, FlushedIsSeen
  <2>3. PICK to : to = Target(e.file, whence, d)
    OBVIOUS
  <2>4. to \in 0 .. Len(e.file.data)
    BY <1>5, <2>1, <2>3, TargetOK
  <2>5. o \in Moved(e.f, e.file, whence, d)
    BY <1>1, <1>7
  <2>6. \/ /\ o.f = Off(Discarded(e.f), {"EOF"})
           /\ o.file = [e.file EXCEPT !.off = to] /\ o.ok = TRUE
        \/ /\ o.f = Discarded(e.f) /\ o.file = e.file /\ o.ok = FALSE
           /\ to < 0 \/ "lseek" \in Faults
    BY <2>3, <2>5 DEF Moved, Outcome
  <2>7. Buffered(o.f) /\ FileOK(o.file)
    BY SoughtOK DEF SeekLeaves
  <2>8. /\ o.f.flags \subseteq e.f.flags \ {"WR", "RD"}
        /\ o.f.bsize = f.bsize
        /\ o.ok => "EOF" \notin o.f.flags
    BY <1>5, <2>6, DiscardedSeen DEF Buffered
  <2>9. "DIRTY" \notin o.f.flags /\ "RD" \notin o.f.flags
    BY <2>1, <2>8
  <2>10. Pending(o.f) = <<>>
    BY <2>7, <2>9, PendingBytes
  <2>11. /\ ViewOf(o.f, o.file) = o.file.data
         /\ PosOf(o.f, o.file) = o.file.off
    BY <2>9, <2>10 DEF ViewOf, PosOf, Has
  <2>12. CASE /\ o.file = [e.file EXCEPT !.off = to] /\ o.ok = TRUE
    <3>1. /\ o.file.data = View /\ o.file.off = to
          /\ SameAccess(file, o.file)
      BY <1>5, <2>1, <2>12 DEF SameAccess, FileOK, FileType
    <3>2. to = Wanted(whence, d)
      <4>1. whence = "CUR" => e.file.off = Pos
        BY <2>2 DEF MaySeek, Careful
      <4>2. QED
        BY <2>1, <2>3, <4>1 DEF Target, Wanted
    <3>3. QED
      BY <1>5, <2>1, <2>4, <2>8, <2>9, <2>11, <2>12, <3>1, <3>2 DEF SeekSees
  <2>13. CASE /\ o.file = e.file /\ o.ok = FALSE
              /\ to < 0 \/ "lseek" \in Faults
    <3>1. "lseek" \in Faults
      <4>1. ~(to < 0)
        BY <2>4
      <4>2. QED
        BY <2>13, <4>1
    <3>2. ~ReadsAhead
      BY <3>1 DEF MaySeek, Careful
    <3>3. npush = 0
      <4>1. f.cnt \in Int /\ 0 <= f.cnt
        BY DEF StreamInv, Buffered, StreamType
      <4>2. "RD" \in f.flags => f.cnt = 0
        BY <3>2, <4>1 DEF ReadsAhead, Has
      <4>3. QED
        BY <4>2 DEF StreamInv, ReadsAt
    <3>4. QED
      BY <1>5, <2>1, <2>2, <2>8, <2>9, <2>11, <2>13, <3>2, <3>3 DEF SeekSees
  <2>14. QED
    BY <2>6, <2>12, <2>13
<1>8. QED
  BY <1>6, <1>7

\* A seek, and a rewind, which also forgets errors.
LEMMA RepositionSeen ==
  ASSUME StreamInv, StreamInv', SeenInv, mode # "closed",
         NEW o, SeekSees(o), Buffered(o.f), Repositions(o), End(<<>>, o.ok),
         f' = o.f \/ f' = Off(o.f, {"ERR"})
  PROVE  Sees
<1>1. file' = o.file /\ npush' = 0 /\ mode' = mode
  BY DEF Repositions
<1>2. call' = NoCall /\ out' = <<>> /\ (ret' = "ok" <=> o.ok)
  BY DEF End
<1>3. PICK g, gi : g = f' /\ gi = file'
  OBVIOUS
<1>4. /\ ViewOf(g, gi) = ViewOf(o.f, o.file)
      /\ PosOf(g, gi) = PosOf(o.f, o.file)
      /\ g.bsize = o.f.bsize
      /\ g.flags \subseteq o.f.flags
  <2>1. CASE f' = o.f
    BY <1>1, <1>3, <2>1
  <2>2. CASE f' = Off(o.f, {"ERR"})
    <3>1. PICK S \in SUBSET {"ERR", "EOF"} : S = {"ERR"}
      OBVIOUS
    <3>2. g = Off(o.f, S)
      BY <1>3, <2>2, <3>1
    <3>3. /\ ViewOf(g, gi) = ViewOf(o.f, gi) /\ PosOf(g, gi) = PosOf(o.f, gi)
      BY <3>2, UnnotedSeen
    <3>4. PICK N \in SUBSET {"ERR", "EOF", "NBF", "LBF"} : N = {"ERR"}
      OBVIOUS
    <3>5. g = Off(o.f, N)
      BY <1>3, <2>2, <3>4
    <3>6. SameBuffer(o.f, g) /\ g.flags = o.f.flags \ N
      BY <3>5, UnnotedOK
    <3>7. QED
      BY <1>1, <1>3, <3>3, <3>6 DEF SameBuffer
  <2>3. QED
    BY <2>1, <2>2
<1>5. View' = ViewOf(o.f, o.file) /\ Pos' = PosOf(o.f, o.file)
  BY <1>3, <1>4, SeenNext
<1>6. /\ SameAccess(file, gi) /\ g.bsize = f.bsize
      /\ "RD" \notin g.flags
      /\ \A flag : flag \in g.flags => flag \in f.flags \/ flag = "ERR"
      /\ o.ok => {"DIRTY", "EOF"} \cap g.flags = {}
  BY <1>1, <1>3, <1>4 DEF SeekSees
<1>7. Pushed' = <<>>
  BY <1>1, NothingPushed
<1>8. CallSeen(f', call') /\ call'.op = "none"
  BY <1>2, NothingCalled
<1>9. SeenInv'
  BY <1>1, <1>3, <1>6, <1>8 DEF SeenInv, SameAccess
<1>10. ret' = "ok" /\ Honoured => Honoured'
  BY <1>2, <1>3, <1>6, StillHonoured
<1>11. CASE o.ok
  <2>1. /\ file'.data = View /\ View' = View /\ Pos' \in 0 .. Len(View)
    BY <1>1, <1>5, <1>11 DEF SeekSees
  <2>2. ~Has(f, "EOF")' /\ file'.append = file.append
    BY <1>3, <1>6, <1>11 DEF Has, SameAccess
  <2>3. Unbuffered!Seek
    BY <1>2, <1>7, <2>1, <2>2 DEF Unbuffered!Seek
  <2>4. Unbuffered!Next
    BY <2>3 DEF Unbuffered!Next
  <2>5. QED
    BY <1>9, <1>10, <2>4 DEF Sees
<1>12. CASE ~o.ok
  <2>1. ASSUME "partial" \notin Faults
        PROVE  Unbuffered!Next
    <3>1. /\ file'.data \in {file.data, View} /\ npush = 0
          /\ View' = View /\ Pos' = Pos
      BY <1>1, <1>5, <1>12, <2>1 DEF SeekSees
    <3>2. Pushed' = Pushed
      BY <1>7, <3>1, NothingPushed DEF Pushed
    <3>3. file'.append = file.append /\ ("EOF" \in f'.flags => "EOF" \in f.flags)
      BY <1>3, <1>6 DEF SameAccess
    <3>4. QED
      BY <1>2, <3>1, <3>2, <3>3, IsReport
  <2>2. QED
    BY <1>9, <1>10, <2>1 DEF Sees
<1>13. QED
  BY <1>11, <1>12

LEMMA FseekoSeen ==
  ASSUME Careful, StreamInv, StreamInv', SeenInv,
         NEW whence \in {"SET", "CUR", "END"}, NEW d \in Int, Fseeko(whence, d)
  PROVE  Sees
<1>1. PICK o \in Sought(whence, d) :
        f' = o.f /\ Repositions(o) /\ End(<<>>, o.ok)
  BY DEF Fseeko
<1>2. MaySeek(whence, d) /\ mode # "closed"
  BY DEF Fseeko, MaySeek, Idle
<1>3. SeekSees(o) /\ Buffered(o.f)
  BY <1>1, <1>2, SoughtSeen, SoughtOK DEF SeekLeaves
<1>4. QED
  BY <1>1, <1>2, <1>3, RepositionSeen

LEMMA RewindSeen ==
  ASSUME Careful, StreamInv, StreamInv', SeenInv, Rewind
  PROVE  Sees
<1>1. PICK o \in Sought("SET", 0) :
        f' = Off(o.f, {"ERR"}) /\ Repositions(o) /\ End(<<>>, o.ok)
  BY DEF Rewind
<1>2. MaySeek("SET", 0) /\ mode # "closed"
  BY DEF Rewind, MaySeek, Idle
<1>3. SeekSees(o) /\ Buffered(o.f)
  BY <1>1, <1>2, SoughtSeen, SoughtOK DEF SeekLeaves
<1>4. QED
  BY <1>1, <1>2, <1>3, RepositionSeen

LEMMA PositionSeen ==
  ASSUME Habits = {}, StreamInv, StreamInv', SeenInv, Position
  PROVE  Sees
<1>1. Careful
  BY DEF Careful
<1>2. ASSUME NEW whence \in {"SET", "CUR", "END"}, NEW d \in {-1, 0, 1},
             Fseeko(whence, d)
      PROVE  Sees
  BY <1>1, <1>2, FseekoSeen
<1>3. QED
  BY <1>1, <1>2, FflushSeen, RewindSeen, FtelloSeen, ClearerrSeen DEF Position

-----------------------------------------------------------------------------
(* The theorems about what the program sees.                               *)

LEMMA InitSeen ==
  ASSUME Init
  PROVE  SeenInv /\ Unbuffered!Init
<1>1. /\ f = Closed /\ mode = "closed" /\ call = NoCall /\ last = "open"
      /\ npush = 0 /\ out = <<>>
      /\ file.append = FALSE /\ file.off = 0
  BY DEF Init
<1>2. f.flags = {} /\ f.cnt = 0
  BY <1>1, ClosedOK
<1>3. CallSeen(f, call) /\ call.op = "none"
  BY <1>1, NothingCalled
<1>4. SeenInv
  BY <1>1, <1>2, <1>3 DEF SeenInv
<1>5. Pending(f) = <<>>
  BY <1>2 DEF Pending, MustFlush
<1>6. View = file.data /\ Pos = 0 /\ Pushed = <<>>
  BY <1>1, <1>2, <1>5, NothingPushed DEF View, Pos, Pushed, Has
<1>7. Has(f, "EOF") = FALSE
  BY <1>2 DEF Has
<1>8. Unbuffered!Init
  BY <1>1, <1>6, <1>7 DEF Unbuffered!Init
<1>9. QED
  BY <1>4, <1>8

LEMMA NextSeen ==
  ASSUME Habits = {}, StreamInv, SeenInv, Next
  PROVE  Sees
<1>1. Careful
  BY DEF Careful
<1>2. StreamInv'
  BY <1>1, StreamStep
<1>3. QED
  BY <1>2, ManageSeen, InputSeen, OutputSeen, PositionSeen DEF Next

LEMMA StutterSeen ==
  ASSUME UNCHANGED vars, SeenInv
  PROVE  SeenInv' /\ UNCHANGED Unbuffered!vars
<1>1. UNCHANGED <<f, file, mode, call, last, npush, out, ret>>
  BY DEF vars
<1>2. SeenInv'
  BY <1>1 DEF SeenInv, CallSeen
<1>3. View' = View /\ Pos' = Pos
  BY <1>1, SeenNow, SeenNext
<1>4. Pushed' = Pushed /\ Has(f, "EOF")' = Has(f, "EOF")
  BY <1>1 DEF Pushed, Has
<1>5. QED
  BY <1>1, <1>2, <1>3, <1>4 DEF Unbuffered!vars

LEMMA AlwaysSeen ==
  ASSUME Habits = {}
  PROVE  Spec => [](StreamInv /\ SeenInv)
<1>1. Init => SeenInv
  BY InitSeen
<1>2. StreamInv /\ SeenInv /\ [Next]_vars => SeenInv'
  BY NextSeen, StutterSeen DEF Sees
<1>3. Careful
  BY DEF Careful
<1>4. Spec => []StreamInv
  BY <1>3, StreamInvariant
<1>5. QED
  BY <1>1, <1>2, <1>4, PTL DEF Spec

\* The stream is the file without a buffer: every step of every call, with
\* all it leaves in the buffer, is one step of ByteFile or none, for a
\* program with no habits and writes that fail whole.
THEOREM StreamIsByteFile ==
  ASSUME Habits = {}, "partial" \notin Faults
  PROVE  Spec => ImplementsByteFile
<1>1. Init => Unbuffered!Init
  BY InitSeen
<1>2. StreamInv /\ SeenInv /\ [Next]_vars => [Unbuffered!Next]_(Unbuffered!vars)
  BY NextSeen, StutterSeen DEF Sees
<1>3. Spec => [](StreamInv /\ SeenInv)
  BY AlwaysSeen
<1>4. QED
  BY <1>1, <1>2, <1>3, PTL DEF Spec, ImplementsByteFile, Unbuffered!Spec

\* A writing function that does not fail writes its bytes, all of them and in
\* order; what fflush and fclose report as written is in the file; and the
\* policy of an unbuffered or line-buffered stream stays honoured: for a
\* program with no habits, whatever fails.
THEOREM AlwaysWritesItsBytes ==
  ASSUME Habits = {}
  PROVE  Spec => WritesItsBytes
<1>1. ASSUME StreamInv, SeenInv, Next
      PROVE  /\ \A c \in Byte : Fputc(c) /\ ret' = "ok" => View' = Written(<<c>>)
             /\ call.op \in {"fputs", "puts", "fwrite"} /\ ret' = "ok"
                  => View' = Written(Consumed)
             /\ (Fflush \/ Fclose) /\ ret' = "ok" => file'.data = View
             /\ ret' = "ok" /\ ((Honoured /\ call'.op # "puts") \/ PutsEnd)
                  => Honoured'
  <2>1. Careful
    BY DEF Careful
  <2>2. StreamInv'
    BY <1>1, <2>1, StreamStep
  <2>3. ASSUME NEW c \in Byte, Fputc(c), ret' = "ok"
        PROVE  View' = Written(<<c>>)
    BY <1>1, <2>2, <2>3, FputcSeen
  <2>4. ASSUME call.op \in {"fputs", "puts", "fwrite"}, ret' = "ok"
        PROVE  View' = Written(Consumed)
    <3>1. ~Manage
      BY <1>1, <2>4 DEF Manage, Fopen, Freopen, Fclose, Setvbuf, Idle, SeenInv
    <3>2. ~Input
      <4>1. ~Fgetc /\ ~ReadTurn
        BY <2>4 DEF Fgetc, ReadTurn, MayGet, MayRead, Idle
      <4>2. \A n \in 1 .. MaxCall : ~Fgets(n) /\ ~Fread(n)
        BY <2>4 DEF Fgets, Fread, MayGet, MayRead, Idle
      <4>3. \A c \in Byte : ~Ungetc(c)
        BY <2>4 DEF Ungetc, MayGet, MayRead, Idle
      <4>4. QED
        BY <4>1, <4>2, <4>3 DEF Input
    <3>3. ~Position
      BY <2>4 DEF Position, Fflush, Rewind, Ftello, Clearerr, Fseeko,
                  MaySeek, Idle
    <3>4. Output
      BY <1>1, <3>1, <3>2, <3>3 DEF Next
    <3>5. QED
      BY <1>1, <2>2, <2>4, <3>4, OutputSeen
  <2>5. ASSUME Fflush \/ Fclose, ret' = "ok"
        PROVE  file'.data = View
    BY <1>1, <2>2, <2>5, FflushSeen, FcloseSeen
  <2>6. ASSUME ret' = "ok", (Honoured /\ call'.op # "puts") \/ PutsEnd
        PROVE  Honoured'
    <3>1. CASE Honoured /\ call'.op # "puts"
      BY <1>1, <2>6, <3>1, NextSeen DEF Sees
    <3>2. CASE PutsEnd
      BY <1>1, <2>2, <2>6, <3>2, PutsEndSeen
    <3>3. QED
      BY <2>6, <3>1, <3>2
  <2>7. QED
    BY <2>3, <2>4, <2>5, <2>6
<1>2. Spec => [](StreamInv /\ SeenInv)
  BY AlwaysSeen
<1>3. QED
  BY <1>1, <1>2, PTL DEF Spec, WritesItsBytes

\* What a call of fseek does to the position of the program.
LEMMA FseekoMoves ==
  ASSUME Careful, StreamInv,
         NEW whence \in {"SET", "CUR", "END"}, NEW d \in Int, Fseeko(whence, d)
  PROVE  /\ ret' = "ok" => Pos' = Wanted(whence, d)
         /\ ret' = "fail" /\ "partial" \notin Faults => Pos' = Pos
<1>1. PICK o \in Sought(whence, d) :
        f' = o.f /\ Repositions(o) /\ End(<<>>, o.ok)
  BY DEF Fseeko
<1>2. MaySeek(whence, d)
  BY DEF Fseeko
<1>3. SeekSees(o) /\ (o.ok => PosOf(o.f, o.file) = Wanted(whence, d))
  BY <1>1, <1>2, SoughtSeen
<1>4. file' = o.file /\ (ret' = "ok" <=> o.ok)
  BY <1>1 DEF Repositions, End
<1>5. Pos' = PosOf(o.f, o.file)
  BY <1>1, <1>4, SeenNext
<1>6. QED
  BY <1>3, <1>4, <1>5 DEF SeekSees

LEMMA PosIsInt == ASSUME StreamInv PROVE Pos \in Int
<1>1. Buffered(f) /\ FileOK(file) /\ f.cnt \in Int
  BY DEF StreamInv, Buffered, StreamType
<1>2. PICK fi : fi = Settled(f, file)
  OBVIOUS
<1>3. FileOK(fi) /\ Pos = fi.off - (IF "RD" \in f.flags THEN f.cnt ELSE 0)
  BY <1>1, <1>2, SettledIsSeen, SeenNow
<1>4. fi.off \in Nat
  BY <1>3 DEF FileOK, FileType
<1>5. QED
  BY <1>1, <1>3, <1>4

\* fseek(stream, d, SEEK_CUR) moves d bytes from where the program is,
\* unless bytes are read ahead: the one habit of a program that breaks it.
THEOREM CarefulSeekIsRelative == ASSUME Careful PROVE Spec => SeekIsRelative
<1>1. ASSUME StreamInv, Next, NEW d \in {-1, 0, 1}, npush = 0,
             Fseeko("CUR", d), ret' = "ok"
      PROVE  Pos' = Pos + d
  <2>1. Pos' = Wanted("CUR", d)
    BY <1>1, FseekoMoves
  <2>2. Wanted("CUR", d) = d + Pos
    BY DEF Wanted
  <2>3. Pos \in Int
    BY <1>1, PosIsInt
  <2>4. QED
    BY <2>1, <2>2, <2>3
<1>2. StreamInv /\ [Next]_vars =>
        [\A d \in {-1, 0, 1} :
           npush = 0 /\ Fseeko("CUR", d) /\ ret' = "ok" => Pos' = Pos + d]_vars
  BY <1>1
<1>3. Spec => []StreamInv
  BY StreamInvariant
<1>4. QED
  BY <1>2, <1>3, PTL DEF Spec, SeekIsRelative

\* A seek that fails leaves the program where it is, whether the flush or
\* lseek failed, when a write that fails writes nothing.
THEOREM AlwaysSeekFailsCleanly ==
  ASSUME Careful, "partial" \notin Faults
  PROVE  Spec => SeekFailsCleanly
<1>1. ASSUME StreamInv, Next, NEW whence \in {"SET", "CUR", "END"},
             NEW d \in {-1, 0, 1}, npush = 0, Fseeko(whence, d), ret' = "fail"
      PROVE  Pos' = Pos
  BY <1>1, FseekoMoves
<1>2. StreamInv /\ [Next]_vars =>
        [\A whence \in {"SET", "CUR", "END"}, d \in {-1, 0, 1} :
           npush = 0 /\ Fseeko(whence, d) /\ ret' = "fail" => Pos' = Pos]_vars
  BY <1>1
<1>3. Spec => []StreamInv
  BY StreamInvariant
<1>4. QED
  BY <1>2, <1>3, PTL DEF Spec, SeekFailsCleanly
=============================================================================
