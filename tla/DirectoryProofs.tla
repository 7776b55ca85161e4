--------------------------- MODULE DirectoryProofs ---------------------------
(***************************************************************************)
(* Proofs about directory streams and getcwd (Directory): for every tree,  *)
(* every listing with whatever was deleted in it, every size of the blocks *)
(* the system returns, and failures at every call.                         *)
(***************************************************************************)
EXTENDS Directory, SequenceTheorems, FiniteSetTheorems, TLAPS

Stock(d) == Listing[d.name]

\* The records that readdir has passed.
Passed(d) == d.seek - d.len + d.loc

DirType == [open : BOOLEAN, name : Dirs, seek : Nat, buf : Seq(Records),
            len : Nat, loc : Nat]

\* The first dd_len records of the buffer are the last the system returned.
Buffers(d) ==
  /\ d \in DirType
  /\ d.loc <= d.len /\ d.len <= Len(d.buf)
  /\ d.len <= d.seek /\ d.seek <= Len(Stock(d))
  /\ \A i \in 1 .. d.len : d.buf[i] = Stock(d)[d.seek - d.len + i]

\* What readdir gave is what it has passed, until it returned NULL; what it had
\* given then was all if that was the end.
ListedInv ==
  /\ Buffers(dir) /\ reading \in BOOLEAN /\ atend \in {"no", "end", "failed"}
  /\ listed \in Seq(Names)
  /\ dir.open =>
       \E k \in 0 .. Len(Stock(dir)) : /\ Lists(listed, Stock(dir), k)
                                       /\ atend = "no" => k = Passed(dir)
                                       /\ atend = "end" => k = Len(Stock(dir))

Places == {"idle", "climbing", "searching", "done"}

Errnos == {"none", "EINVAL", "stat", "chdir", "malloc", "open", "ENOENT", "ERANGE"}

WalkType == [at : Places, from : Dirs, found : Seq(Names), child : Names \cup {"none"},
             missed : BOOLEAN, dir : DirType, size : Nat, ok : BOOLEAN,
             ret : Seq(Names), errno : Errnos]

\* The search has the record of the directory that was left before it.
Ahead(w) ==
  \E i \in 1 .. Len(Stock(w.dir)) :
    Passed(w.dir) < i /\ Stock(w.dir)[i] = Record(w.child, 1)

\* Where the process is, what was found and what is sought make up the name.
OnTheWay(w, here) ==
  /\ w.at = "climbing" => w.from = here \o w.found
  /\ w.at = "searching" =>
       /\ w.from = here \o (<<w.child>> \o w.found)
       /\ Buffers(w.dir) /\ w.dir.name = here
       /\ w.child \in Names /\ w.child \notin {".", ".."}
       /\ w.missed \/ Ahead(w)

\* How getcwd has ended.
Ended(w, here) ==
  w.at = "done" =>
    /\ IsPrefix(here, w.from)
    /\ IF w.ok THEN w.ret = w.from /\ here = w.from
       ELSE \/ here = w.from
            \/ w.errno \in {"stat", "chdir", "malloc", "open"}
            \/ w.errno = "ENOENT" /\ w.missed
            \/ w.errno = "ERANGE" /\ Len(w.from) > PathMax

WalkInv == /\ walk \in WalkType /\ cwd \in Dirs
           /\ OnTheWay(walk, cwd) /\ Ended(walk, cwd)

\* Two blocks and a descriptor for the DIR of the program and for getcwd's
\* while it searches; and what opendir lost.
Streams == (IF dir.open THEN 1 ELSE 0) + (IF walk.at = "searching" THEN 1 ELSE 0)

HeldIsUsed ==
  /\ held \in [blocks : Int, fds : Int, lost : Nat]
  /\ held.fds = Streams
  /\ held.blocks = 2 * Streams + held.lost

-----------------------------------------------------------------------------
(* Records that are there.                                                 *)

LEMMA StockOK ==
  ASSUME NEW name \in Dirs
  PROVE  Listing[name] \in Seq(Records) /\ Len(Listing[name]) \in Nat
BY DirectoryAssumption, LenProperties

LEMMA RecordType ==
  ASSUME NEW records \in Seq(Records), NEW i \in 1 .. Len(records)
  PROVE  records[i].name \in Names /\ records[i].ino \in {0, 1}
<1>1. records[i] \in Records
  BY ElementOfSeq
<1>2. QED
  BY <1>1 DEF Records

\* Among the first records those of a prefix are counted.
LEMMA PresentFinite ==
  ASSUME NEW records, NEW k \in Nat
  PROVE  IsFiniteSet(Present(records, k)) /\ Cardinality(Present(records, k)) \in Nat
<1>1. IsFiniteSet(1 .. k)
  BY FS_Interval
<1>2. Present(records, k) \in SUBSET (1 .. k)
  BY DEF Present
<1>3. IsFiniteSet(Present(records, k))
  BY <1>1, <1>2, FS_Subset
<1>4. QED
  BY <1>3, FS_CardinalityType

LEMMA PresentNone ==
  ASSUME NEW records
  PROVE  Present(records, 0) = {} /\ Cardinality(Present(records, 0)) = 0
<1>1. Present(records, 0) = {}
  BY DEF Present
<1>2. QED
  BY <1>1, FS_EmptySet

LEMMA PresentNext ==
  ASSUME NEW records, NEW k \in Nat
  PROVE  /\ records[k + 1].ino = 0 => Present(records, k + 1) = Present(records, k)
         /\ records[k + 1].ino # 0 =>
              /\ Present(records, k + 1) = Present(records, k) \cup {k + 1}
              /\ Cardinality(Present(records, k + 1)) =
                   Cardinality(Present(records, k)) + 1
<1>1. PICK n \in Nat : n = k + 1 /\ n \notin 1 .. k /\ 1 .. n = (1 .. k) \cup {n}
  BY k + 1 \in Nat
<1>2. n \notin Present(records, k)
  BY <1>1 DEF Present
<1>3. ASSUME records[n].ino = 0
      PROVE  Present(records, n) = Present(records, k)
  BY <1>1, <1>3 DEF Present
<1>4. ASSUME records[n].ino # 0
      PROVE  Present(records, n) = Present(records, k) \cup {n}
  BY <1>1, <1>4 DEF Present
<1>5. Cardinality(Present(records, k) \cup {n}) = Cardinality(Present(records, k)) + 1
  BY <1>2, PresentFinite, FS_AddElement
<1>6. QED
  BY <1>1, <1>3, <1>4, <1>5

LEMMA PresentPlace ==
  ASSUME NEW records, NEW k \in Nat, NEW i \in Present(records, k)
  PROVE  Cardinality(Present(records, i)) \in 1 .. Cardinality(Present(records, k))
<1>1. i \in Nat /\ 0 < i /\ i <= k /\ records[i].ino # 0
  BY DEF Present
<1>2. Present(records, i) \in SUBSET Present(records, k) /\ i \in Present(records, i)
  BY <1>1 DEF Present
<1>3. PICK n \in Nat, m \in Nat : /\ n = Cardinality(Present(records, i))
                                  /\ m = Cardinality(Present(records, k))
  BY <1>1, PresentFinite
<1>4. n <= m
  BY <1>2, <1>3, PresentFinite, FS_Subset
<1>5. n # 0
  BY <1>1, <1>2, <1>3, PresentFinite, FS_EmptySet
<1>6. QED
  BY <1>3, <1>4, <1>5

\* A record that was deleted gives nothing, and another its name.
LEMMA ListsDeleted ==
  ASSUME NEW records, NEW k \in Nat, NEW names, Lists(names, records, k),
         records[k + 1].ino = 0
  PROVE  Lists(names, records, k + 1)
BY PresentNext DEF Lists

LEMMA ListsEntry ==
  ASSUME NEW records, NEW k \in Nat, NEW names \in Seq(Names), Lists(names, records, k),
         records[k + 1].ino # 0, records[k + 1].name \in Names
  PROVE  Lists(Append(names, records[k + 1].name), records, k + 1)
<1>1. PICK n \in Nat, m \in Nat : n = k + 1 /\ m = Cardinality(Present(records, k))
  BY k + 1 \in Nat, PresentFinite
<1>2. PICK more : more = Append(names, records[n].name)
  OBVIOUS
<1>3. Len(names) = m
  BY <1>1 DEF Lists
<1>4. /\ Len(more) = m + 1 /\ more[m + 1] = records[n].name
      /\ \A i \in 1 .. m : more[i] = names[i]
  BY <1>1, <1>2, <1>3, AppendProperties
<1>5. /\ Present(records, n) = Present(records, k) \cup {n}
      /\ Cardinality(Present(records, n)) = m + 1
  BY <1>1, PresentNext
<1>6. ASSUME NEW i \in Present(records, n)
      PROVE  more[Cardinality(Present(records, i))] = records[i].name
  <2>1. CASE i = n
    BY <1>4, <1>5, <2>1
  <2>2. CASE i # n
    <3>1. i \in Present(records, k)
      BY <1>5, <2>2
    <3>2. Cardinality(Present(records, i)) \in 1 .. m
      BY <1>1, <3>1, PresentPlace
    <3>3. names[Cardinality(Present(records, i))] = records[i].name
      BY <3>1 DEF Lists
    <3>4. QED
      BY <1>4, <3>2, <3>3
  <2>3. QED
    BY <2>1, <2>2
<1>7. QED
  BY <1>1, <1>2, <1>4, <1>5, <1>6 DEF Lists

LEMMA ListsNothing == ASSUME NEW records PROVE Lists(<<>>, records, 0)
BY PresentNone DEF Lists

-----------------------------------------------------------------------------
(* A turn of readdir.                                                      *)

LEMMA LeastOf ==
  ASSUME NEW a \in Nat, NEW b \in Nat
  PROVE  Min({a, b}) \in Nat /\ Min({a, b}) <= a /\ Min({a, b}) <= b
         /\ Min({a, b}) \in {a, b}
<1>1. PICK x \in {a, b} : \A y \in {a, b} : x <= y
  BY a <= b \/ b <= a
<1>2. Min({a, b}) \in {a, b} /\ \A y \in {a, b} : Min({a, b}) <= y
  BY <1>1 DEF Min
<1>3. QED
  BY <1>2

\* The system returns the next records, and none only at the end.
LEMMA BlockOK ==
  ASSUME NEW d, Buffers(d)
  PROVE  /\ getdirentries(d) \in Seq(Records)
         /\ d.seek + Len(getdirentries(d)) <= Len(Stock(d))
         /\ \A i \in 1 .. Len(getdirentries(d)) :
              getdirentries(d)[i] = Stock(d)[d.seek + i]
         /\ getdirentries(d) = <<>> => d.seek = Len(Stock(d))
<1>1. PICK s \in Nat, n \in Nat : s = d.seek /\ n = Len(Stock(d)) /\ s <= n
  BY StockOK DEF Buffers, DirType, Stock
<1>2. PICK b \in Nat : b = Block /\ b # 0
  BY DirectoryAssumption
<1>3. PICK left \in Nat : left = n - s
  BY <1>1
<1>4. PICK c : c = Min({b, left})
  OBVIOUS
<1>5. c \in Nat /\ c <= left /\ c \in {b, left}
  BY <1>4, LeastOf
<1>6. PICK from \in Int, to \in Int : from = s + 1 /\ to = s + c
  BY <1>5
<1>7. PICK g : g = SubSeq(Stock(d), from, to)
  OBVIOUS
<1>8. g = getdirentries(d)
  BY <1>1, <1>2, <1>3, <1>4, <1>6, <1>7 DEF getdirentries, Stock
<1>9. Stock(d) \in Seq(Records)
  BY StockOK DEF Buffers, DirType, Stock
<1>10. \A i \in from .. to : Stock(d)[i] \in Records
  <2>1. SUFFICES ASSUME NEW i \in from .. to PROVE Stock(d)[i] \in Records
    OBVIOUS
  <2>2. i \in 1 .. Len(Stock(d))
    <3>1. i \in Nat /\ s + 1 <= i /\ i <= s + c
      BY <1>6
    <3>2. 1 <= i /\ i <= n
      BY <1>3, <1>5, <3>1
    <3>3. QED
      BY <1>1, <3>1, <3>2
  <2>3. QED
    BY <1>9, <2>2, ElementOfSeq
<1>11. /\ g \in Seq(Records)
       /\ Len(g) = IF from <= to THEN to - from + 1 ELSE 0
       /\ \A i \in 1 .. to - from + 1 : g[i] = Stock(d)[from + i - 1]
  BY <1>7, <1>10, SubSeqProperties
<1>12. Len(g) = c /\ to - from + 1 = c
  BY <1>5, <1>6, <1>11
<1>13. \A i \in 1 .. c : g[i] = Stock(d)[s + i]
  <2>1. \A i \in 1 .. c : from + i - 1 = s + i
    BY <1>5, <1>6
  <2>2. QED
    BY <1>11, <1>12, <2>1
<1>14. s + c <= n
  BY <1>1, <1>3, <1>5
<1>15. ASSUME g = <<>> PROVE s = n
  <2>1. c = 0
    BY <1>12, <1>15, EmptySeq
  <2>2. QED
    BY <1>1, <1>2, <1>3, <1>5, <2>1
<1>16. QED
  BY <1>1, <1>8, <1>11, <1>12, <1>13, <1>14, <1>15

\* What a turn of readdir makes of a DIR: it passes one record and gives its
\* name unless it was deleted, or it is at the end, or the system failed.
Turned(d, x) ==
  /\ Buffers(x.dir) /\ x.dir.open = d.open /\ x.dir.name = d.name
  /\ \/ /\ x.got = "end" /\ Passed(d) = Len(Stock(d))
     \/ x.got = "failed"
     \/ /\ x.got \in {"entry", "deleted"}
        /\ Passed(d) < Len(Stock(d)) /\ Passed(x.dir) = Passed(d) + 1
        /\ x.got = "entry" <=> Stock(d)[Passed(d) + 1].ino # 0
        /\ x.name = Stock(d)[Passed(d) + 1].name /\ x.name \in Names

LEMMA PassedOK ==
  ASSUME NEW d, Buffers(d)
  PROVE  Passed(d) \in Nat /\ Passed(d) <= d.seek /\ Passed(d) <= Len(Stock(d))
<1>1. PICK s \in Nat, l \in Nat, o \in Nat, n \in Nat :
        s = d.seek /\ l = d.len /\ o = d.loc /\ n = Len(Stock(d))
  BY StockOK DEF Buffers, DirType, Stock
<1>2. o <= l /\ l <= s /\ s <= n
  BY <1>1 DEF Buffers
<1>3. s - l + o \in Nat /\ s - l + o <= s
  BY <1>2
<1>4. QED
  BY <1>1, <1>2, <1>3 DEF Passed

\* The next record of a buffer that has one.
LEMMA NextOK ==
  ASSUME NEW d, Buffers(d), d.loc < d.len, NEW e, e = [d EXCEPT !.loc = @ + 1]
  PROVE  /\ Buffers(e) /\ e.open = d.open /\ e.name = d.name
         /\ Passed(d) < Len(Stock(d)) /\ Passed(e) = Passed(d) + 1
         /\ d.buf[d.loc + 1] = Stock(d)[Passed(d) + 1]
<1>1. PICK s \in Nat, l \in Nat, o \in Nat, n \in Nat :
        s = d.seek /\ l = d.len /\ o = d.loc /\ n = Len(Stock(d))
  BY StockOK DEF Buffers, DirType, Stock
<1>2. o < l /\ l <= s /\ s <= n
  BY <1>1 DEF Buffers
<1>3. PICK q \in Nat : q = o + 1
  BY o + 1 \in Nat
<1>4. e = [d EXCEPT !.loc = q]
  BY <1>1, <1>3
<1>5. /\ e \in DirType /\ e.loc = q
      /\ e.open = d.open /\ e.name = d.name /\ e.seek = d.seek
      /\ e.buf = d.buf /\ e.len = d.len
  BY <1>4 DEF Buffers, DirType
<1>6. q <= l
  BY <1>2, <1>3
<1>7. Buffers(e)
  BY <1>1, <1>5, <1>6 DEF Buffers, Stock
<1>8. Passed(d) = s - l + o /\ Passed(e) = s - l + q
  BY <1>1, <1>5 DEF Passed
<1>9. s - l + q = (s - l + o) + 1 /\ s - l + o < n
  BY <1>2, <1>3
<1>10. q \in 1 .. l
  BY <1>3, <1>6
<1>11. d.buf[q] = Stock(d)[s - l + q]
  BY <1>1, <1>10 DEF Buffers
<1>12. QED
  BY <1>1, <1>3, <1>5, <1>7, <1>8, <1>9, <1>11

LEMMA TurnOK ==
  ASSUME NEW d, Buffers(d), NEW fails \in BOOLEAN
  PROVE  Turned(d, Turn(d, fails))
<1>1. PICK g : g = getdirentries(d)
  OBVIOUS
<1>2. PICK x : x = Turn(d, fails)
  OBVIOUS
<1>3. Stock(d) \in Seq(Records) /\ Len(Stock(d)) \in Nat
  BY StockOK DEF Buffers, DirType, Stock
<1>4. Passed(d) \in Nat /\ Passed(d) <= Len(Stock(d))
  BY PassedOK
<1>5. d.loc \in Nat /\ d.len \in Nat
  BY DEF Buffers, DirType
<1>6. ASSUME NEW f, Buffers(f), f.loc < f.len, f.open = d.open, f.name = d.name,
             Passed(f) = Passed(d),
             x = [dir |-> [f EXCEPT !.loc = @ + 1],
                  got |-> IF f.buf[f.loc + 1].ino # 0 THEN "entry" ELSE "deleted",
                  name |-> f.buf[f.loc + 1].name]
      PROVE  Turned(d, x)
  <2>1. PICK e : e = [f EXCEPT !.loc = @ + 1]
    OBVIOUS
  <2>2. Stock(f) = Stock(d)
    BY <1>6 DEF Stock
  <2>3. /\ Buffers(e) /\ e.open = d.open /\ e.name = d.name
        /\ Passed(d) < Len(Stock(d)) /\ Passed(e) = Passed(d) + 1
        /\ f.buf[f.loc + 1] = Stock(d)[Passed(d) + 1]
    BY <1>6, <2>1, <2>2, NextOK
  <2>4. Passed(d) + 1 \in 1 .. Len(Stock(d))
    BY <1>3, <1>4, <2>3
  <2>5. Stock(d)[Passed(d) + 1].name \in Names
    BY <1>3, <2>4, RecordType
  <2>6. /\ x.dir = e
        /\ x.got = IF f.buf[f.loc + 1].ino # 0 THEN "entry" ELSE "deleted"
        /\ x.name = f.buf[f.loc + 1].name
    BY <1>6, <2>1
  <2>7. QED
    BY <2>3, <2>5, <2>6 DEF Turned
<1>7. CASE d.loc < d.len
  <2>1. ~(d.loc >= d.len)
    BY <1>5, <1>7
  <2>2. x = [dir |-> [d EXCEPT !.loc = @ + 1],
             got |-> IF d.buf[d.loc + 1].ino # 0 THEN "entry" ELSE "deleted",
             name |-> d.buf[d.loc + 1].name]
    BY <1>2, <2>1 DEF Turn
  <2>3. QED
    BY <1>2, <1>6, <1>7, <2>2
<1>8. CASE ~(d.loc < d.len)
  <2>1. d.loc >= d.len /\ d.loc = d.len
    BY <1>5, <1>8 DEF Buffers
  <2>2. PICK s \in Nat, l \in Nat : s = d.seek /\ l = d.len /\ l <= s
    BY DEF Buffers, DirType
  <2>3. Passed(d) = s
    <3>1. Passed(d) = s - l + l
      BY <2>1, <2>2 DEF Passed
    <3>2. QED
      BY <3>1
  <2>4. /\ g \in Seq(Records) /\ s + Len(g) <= Len(Stock(d))
        /\ \A i \in 1 .. Len(g) : g[i] = Stock(d)[s + i]
        /\ g = <<>> => s = Len(Stock(d))
    BY <1>1, <2>2, BlockOK
  <2>5. CASE fails \/ g = <<>>
    <3>1. PICK z \in Nat : z = 0
      OBVIOUS
    <3>2. PICK e : e = [d EXCEPT !.loc = z]
      OBVIOUS
    <3>3. x = [dir |-> e, got |-> IF fails THEN "failed" ELSE "end", name |-> "none"]
      BY <1>1, <1>2, <2>1, <2>5, <3>1, <3>2 DEF Turn
    <3>4. /\ e \in DirType /\ e.loc = z
          /\ e.open = d.open /\ e.name = d.name /\ e.seek = d.seek
          /\ e.buf = d.buf /\ e.len = d.len
      BY <3>2 DEF Buffers, DirType
    <3>5. Buffers(e)
      BY <1>5, <3>1, <3>4 DEF Buffers, Stock
    <3>6. x.dir = e /\ x.got = IF fails THEN "failed" ELSE "end"
      BY <3>3
    <3>7. fails \/ Passed(d) = Len(Stock(d))
      BY <2>2, <2>3, <2>4, <2>5
    <3>8. QED
      BY <1>2, <3>4, <3>5, <3>6, <3>7 DEF Turned
  <2>6. CASE ~(fails \/ g = <<>>)
    <3>1. PICK c \in Nat : c = Len(g) /\ c # 0
      BY <2>4, <2>6, EmptySeq
    <3>2. PICK t \in Nat, z \in Nat : t = s + c /\ z = 0
      BY s + c \in Nat
    <3>3. PICK e : e = [d EXCEPT !.buf = g, !.len = c, !.loc = z, !.seek = t]
      OBVIOUS
    <3>4. /\ e \in DirType /\ e.loc = z /\ e.len = c /\ e.buf = g /\ e.seek = t
          /\ e.open = d.open /\ e.name = d.name
      BY <2>4, <3>3 DEF Buffers, DirType
    <3>5. Buffers(e)
      <4>1. t - c = s /\ c <= t /\ z <= c
        BY <3>2
      <4>2. QED
        BY <2>4, <3>1, <3>2, <3>4, <4>1 DEF Buffers, Stock
    <3>6. Passed(e) = Passed(d) /\ e.loc < e.len
      <4>1. t - c + z = s /\ z < c
        BY <3>1, <3>2
      <4>2. QED
        BY <2>3, <3>4, <4>1 DEF Passed
    <3>7. e = [d EXCEPT !.buf = g, !.len = Len(g), !.loc = 0, !.seek = @ + Len(g)]
      BY <2>2, <3>1, <3>2, <3>3
    <3>8. x = [dir |-> [e EXCEPT !.loc = @ + 1],
               got |-> IF e.buf[e.loc + 1].ino # 0 THEN "entry" ELSE "deleted",
               name |-> e.buf[e.loc + 1].name]
      BY <1>1, <1>2, <2>1, <2>6, <3>7 DEF Turn
    <3>9. QED
      BY <1>2, <1>6, <3>4, <3>5, <3>6, <3>8
  <2>7. QED
    BY <2>5, <2>6
<1>9. QED
  BY <1>7, <1>8

LEMMA NewDirOK ==
  ASSUME NEW name \in Dirs
  PROVE  /\ Buffers(NewDir(name)) /\ NewDir(name).open /\ NewDir(name).name = name
         /\ Passed(NewDir(name)) = 0
<1>1. PICK d : d = NewDir(name)
  OBVIOUS
<1>2. PICK b \in Seq(Records) : b = <<>> /\ Len(b) = 0
  BY EmptySeq
<1>3. d = [open |-> TRUE, name |-> name, seek |-> 0, buf |-> b, len |-> 0, loc |-> 0]
  BY <1>1, <1>2 DEF NewDir
<1>4. /\ d \in DirType /\ d.open /\ d.name = name
      /\ d.seek = 0 /\ d.buf = b /\ d.len = 0 /\ d.loc = 0
  BY <1>3 DEF DirType
<1>5. Len(Stock(d)) \in Nat
  BY <1>4, StockOK DEF Stock
<1>6. QED
  BY <1>1, <1>2, <1>4, <1>5 DEF Buffers, Passed

LEMMA NoDirOK == Buffers(NoDir) /\ ~NoDir.open
<1>1. PICK root \in Dirs : root = <<>>
  BY DirectoryAssumption
<1>2. PICK b \in Seq(Records) : b = <<>> /\ Len(b) = 0
  BY EmptySeq
<1>3. NoDir = [open |-> FALSE, name |-> root, seek |-> 0, buf |-> b, len |-> 0, loc |-> 0]
  <2>1. PICK d : d = NewDir(root)
    OBVIOUS
  <2>2. d = [open |-> TRUE, name |-> root, seek |-> 0, buf |-> b, len |-> 0, loc |-> 0]
    BY <1>2, <2>1 DEF NewDir
  <2>3. NoDir = [d EXCEPT !.open = FALSE]
    BY <1>1, <2>1 DEF NoDir
  <2>4. QED
    BY <2>2, <2>3
<1>4. /\ NoDir \in DirType /\ ~NoDir.open
      /\ NoDir.name = root
      /\ NoDir.seek = 0 /\ NoDir.buf = b /\ NoDir.len = 0 /\ NoDir.loc = 0
  BY <1>3 DEF DirType
<1>5. Len(Stock(NoDir)) \in Nat
  BY <1>4, StockOK DEF Stock
<1>6. QED
  BY <1>2, <1>4, <1>5 DEF Buffers

LEMMA RewindOK ==
  ASSUME NEW d, Buffers(d)
  PROVE  /\ Buffers(rewinddir(d)) /\ rewinddir(d).open = d.open
         /\ rewinddir(d).name = d.name /\ Passed(rewinddir(d)) = 0
<1>1. PICK z \in Nat : z = 0
  OBVIOUS
<1>2. PICK e : e = [d EXCEPT !.seek = z, !.loc = z, !.len = z]
  OBVIOUS
<1>3. /\ e \in DirType /\ e.open = d.open /\ e.name = d.name
      /\ e.seek = z /\ e.loc = z /\ e.len = z /\ e.buf = d.buf
  BY <1>2 DEF Buffers, DirType
<1>4. Len(Stock(e)) \in Nat /\ Len(e.buf) \in Nat
  BY <1>3, StockOK, LenProperties DEF Stock, DirType
<1>5. Buffers(e) /\ Passed(e) = 0
  BY <1>1, <1>3, <1>4 DEF Buffers, Passed
<1>6. e = rewinddir(d)
  BY <1>1, <1>2 DEF rewinddir
<1>7. QED
  BY <1>3, <1>5, <1>6

-----------------------------------------------------------------------------
(* What readdir lists.                                                     *)

LEMMA ListedInit == ASSUME DirectoryInit PROVE ListedInv
<1>1. <<>> \in Seq(Names)
  BY EmptySeq
<1>2. QED
  BY <1>1, NoDirOK DEF DirectoryInit, ListedInv

\* A DIR is opened, rewound or closed.
LEMMA StartsListed ==
  ASSUME ListedInv, Buffers(dir'), dir'.open => Passed(dir') = 0,
         listed' = <<>>, atend' = "no", reading' = reading
  PROVE  ListedInv'
<1>1. <<>> \in Seq(Names)
  BY EmptySeq
<1>2. 0 \in 0 .. Len(Stock(dir'))
  BY StockOK DEF Buffers, DirType, Stock
<1>3. dir'.open => Lists(listed', Stock(dir'), 0) /\ Passed(dir') = 0
  BY ListsNothing
<1>4. QED
  BY <1>1, <1>2, <1>3 DEF ListedInv, Stock, Passed, Buffers

LEMMA ReaddirListed ==
  ASSUME ListedInv, NEW fails \in BOOLEAN, Readdir(fails)
  PROVE  ListedInv'
<1>1. PICK x : x = Turn(dir, fails)
  OBVIOUS
<1>2. PICK records : records = Stock(dir)
  OBVIOUS
<1>3. Turned(dir, x)
  BY <1>1, TurnOK DEF ListedInv
<1>4. PICK next, names, last : next = dir' /\ names = listed' /\ last = atend'
  OBVIOUS
<1>5. /\ dir.open /\ next = x.dir
      /\ reading' = (x.got = "deleted")
      /\ names = IF x.got = "entry" /\ atend = "no" THEN Append(listed, x.name) ELSE listed
      /\ last = IF x.got \in {"end", "failed"} /\ atend = "no" THEN x.got ELSE atend
  BY <1>1, <1>4 DEF Readdir
<1>6. Buffers(next) /\ Stock(next) = records
  BY <1>2, <1>3, <1>5 DEF Turned, Stock
<1>7. listed \in Seq(Names) /\ (x.got = "entry" => x.name \in Names)
  BY <1>3 DEF ListedInv, Turned
<1>8. /\ reading' \in BOOLEAN /\ last \in {"no", "end", "failed"}
      /\ names \in Seq(Names)
  BY <1>5, <1>7, AppendProperties DEF ListedInv
<1>9. PICK k \in 0 .. Len(records) : /\ Lists(listed, records, k)
                                     /\ atend = "no" => k = Passed(dir)
                                     /\ atend = "end" => k = Len(records)
  BY <1>2, <1>5 DEF ListedInv
<1>10. Len(records) \in Nat
  BY <1>2, StockOK DEF ListedInv, Buffers, DirType, Stock
<1>11. \E j \in 0 .. Len(records) : /\ Lists(names, records, j)
                                    /\ last = "no" => j = Passed(next)
                                    /\ last = "end" => j = Len(records)
  <2>1. CASE atend # "no"
    <3>1. last = atend /\ names = listed
      BY <1>5, <2>1
    <3>2. QED
      BY <1>9, <2>1, <3>1
  <2>2. CASE atend = "no" /\ x.got \in {"end", "failed"}
    <3>1. last = x.got /\ names = listed
      BY <1>5, <2>2
    <3>2. x.got = "end" => k = Len(records)
      BY <1>2, <1>3, <1>9, <2>2 DEF Turned
    <3>3. QED
      BY <1>9, <2>2, <3>1, <3>2
  <2>3. CASE atend = "no" /\ x.got \notin {"end", "failed"}
    <3>1. k \in Nat /\ k = Passed(dir)
      BY <1>9, <1>10, <2>3
    <3>2. /\ x.got \in {"entry", "deleted"} /\ k < Len(records)
          /\ Passed(x.dir) = k + 1
          /\ x.got = "entry" <=> records[k + 1].ino # 0
          /\ x.name = records[k + 1].name
      BY <1>2, <1>3, <2>3, <3>1 DEF Turned
    <3>3. last = "no" /\ Passed(next) = k + 1
      BY <1>5, <2>3, <3>2
    <3>4. k + 1 \in 0 .. Len(records)
      BY <1>10, <3>1, <3>2
    <3>5. Lists(names, records, k + 1)
      <4>1. CASE x.got = "entry"
        <5>1. names = Append(listed, records[k + 1].name)
          BY <1>5, <2>3, <3>2, <4>1
        <5>2. QED
          BY <1>7, <1>9, <3>1, <3>2, <4>1, <5>1, ListsEntry
      <4>2. CASE x.got # "entry"
        <5>1. names = listed /\ records[k + 1].ino = 0
          BY <1>5, <3>2, <4>2
        <5>2. QED
          BY <1>9, <3>1, <5>1, ListsDeleted
      <4>3. QED
        BY <4>1, <4>2
    <3>6. QED
      BY <3>3, <3>4, <3>5
  <2>4. QED
    BY <2>1, <2>2, <2>3
<1>12. Buffers(next) = Buffers(dir)' /\ Stock(next) = Stock(dir)' /\ Passed(next) = Passed(dir)'
  BY <1>4 DEF Buffers, Stock, Passed
<1>13. QED
  BY <1>4, <1>6, <1>8, <1>11, <1>12 DEF ListedInv

LEMMA ListedStep ==
  ASSUME ListedInv, [DirectoryNext]_directoryVars
  PROVE  ListedInv'
<1>1. ASSUME NEW name \in Dirs, NEW opens \in BOOLEAN, NEW memory \in 0 .. 2,
             Opendir(name, opens, memory)
      PROVE  ListedInv'
  <2>1. dir' = NewDir(name) \/ dir' = NoDir
    BY <1>1 DEF Opendir
  <2>2. Buffers(dir') /\ (dir'.open => Passed(dir') = 0)
    BY <2>1, NewDirOK, NoDirOK
  <2>3. QED
    BY <1>1, <2>2, StartsListed DEF Opendir
<1>2. ASSUME NEW fails \in BOOLEAN, Readdir(fails)
      PROVE  ListedInv'
  BY <1>2, ReaddirListed
<1>3. CASE Rewinddir
  <2>1. Buffers(dir') /\ (dir'.open => Passed(dir') = 0)
    BY <1>3, RewindOK DEF Rewinddir, ListedInv
  <2>2. QED
    BY <1>3, <2>1, StartsListed DEF Rewinddir
<1>4. CASE Closedir
  <2>1. Buffers(dir') /\ ~dir'.open
    BY <1>4, NoDirOK DEF Closedir
  <2>2. QED
    BY <1>4, <2>1, StartsListed DEF Closedir
<1>5. ASSUME UNCHANGED <<dir, reading, listed, atend>>
      PROVE  ListedInv'
  BY <1>5 DEF ListedInv, Stock, Passed, Buffers
<1>6. ASSUME NEW size, NEW stats, GetcwdStart(size, stats)
      PROVE  ListedInv'
  BY <1>5, <1>6 DEF GetcwdStart
<1>7. ASSUME NEW failure, GetcwdUp(failure)
      PROVE  ListedInv'
  BY <1>5, <1>7 DEF GetcwdUp
<1>8. ASSUME NEW seen, NEW fails, GetcwdSearch(seen, fails)
      PROVE  ListedInv'
  BY <1>5, <1>8 DEF GetcwdSearch
<1>9. ASSUME NEW back, GetcwdEnd(back)
      PROVE  ListedInv'
  BY <1>5, <1>9 DEF GetcwdEnd
<1>10. ASSUME NEW d, Chdir(d)
       PROVE  ListedInv'
  BY <1>5, <1>10 DEF Chdir
<1>11. CASE UNCHANGED directoryVars
  BY <1>5, <1>11 DEF directoryVars
<1>12. QED
  BY <1>1, <1>2, <1>3, <1>4, <1>6, <1>7, <1>8, <1>9, <1>10, <1>11 DEF DirectoryNext

-----------------------------------------------------------------------------
(* Where getcwd is.                                                        *)

LEMMA PathOK ==
  ASSUME NEW d \in Dirs
  PROVE  d \in Seq(Names) /\ Len(d) \in Nat
BY DirectoryAssumption, LenProperties

LEMMA IsPrefixOfConcat ==
  ASSUME NEW s \in Seq(Names), NEW t \in Seq(Names)
  PROVE  IsPrefix(s, s \o t)
<1>1. PICK n \in Nat, m \in Nat : n = Len(s) /\ m = Len(t)
  BY LenProperties
<1>2. PICK c : c = s \o t
  OBVIOUS
<1>3. /\ c \in Seq(Names) /\ Len(c) = n + m
      /\ \A i \in 1 .. n + m : c[i] = IF i <= n THEN s[i] ELSE t[i - n]
  BY <1>1, <1>2, ConcatProperties
<1>4. \A i \in 1 .. n : c[i] = s[i]
  BY <1>3
<1>5. \A i \in 1 .. n : s[i] \in Names
  BY <1>1, ElementOfSeq
<1>6. PICK a, b : a = SubSeq(s, 1, n) /\ b = SubSeq(c, 1, n)
  OBVIOUS
<1>7. a = s
  BY <1>1, <1>6, SubSeqFull
<1>8. /\ b \in Seq(Names) /\ Len(b) = n
      /\ \A i \in 1 .. n : b[i] = c[i]
  <2>1. PICK one \in Int : one = 1
    OBVIOUS
  <2>2. \A i \in one .. n : c[i] \in Names
    BY <1>4, <1>5, <2>1
  <2>3. /\ SubSeq(c, one, n) \in Seq(Names)
        /\ Len(SubSeq(c, one, n)) = IF one <= n THEN n - one + 1 ELSE 0
        /\ \A i \in 1 .. n - one + 1 : SubSeq(c, one, n)[i] = c[one + i - 1]
    BY <2>2, SubSeqProperties
  <2>4. n - one + 1 = n /\ (IF one <= n THEN n - one + 1 ELSE 0) = n
    BY <2>1
  <2>5. \A i \in 1 .. n : one + i - 1 = i
    BY <2>1
  <2>6. QED
    BY <1>6, <2>1, <2>3, <2>4, <2>5
<1>9. b = s
  BY <1>1, <1>4, <1>8, SeqEqual
<1>10. QED
  BY <1>1, <1>2, <1>3, <1>6, <1>7, <1>9 DEF IsPrefix

LEMMA IsPrefixOfItself ==
  ASSUME NEW s \in Seq(Names)
  PROVE  IsPrefix(s, s)
BY IsPrefixOfConcat, EmptySeq, ConcatEmptySeq

\* The way up from a directory, which the one above lists.
LEMMA WayUp ==
  ASSUME NEW d \in Dirs, d # <<>>
  PROVE  /\ Front(d) \in Dirs /\ Last(d) \in Names /\ Last(d) \notin {".", ".."}
         /\ d = Front(d) \o <<Last(d)>>
         /\ \E i \in 1 .. Len(Listing[Front(d)]) :
              Listing[Front(d)][i] = Record(Last(d), 1)
<1>1. PICK n \in Nat : n = Len(d) /\ n # 0
  BY PathOK, EmptySeq
<1>2. Front(d) \in Dirs /\ Last(d) \notin {".", ".."}
  BY DirectoryAssumption
<1>3. Last(d) \in Names
  BY <1>1, PathOK, ElementOfSeq DEF Last
<1>4. d = Front(d) \o <<Last(d)>>
  <2>1. PICK one \in 1 .. n : one = 1
    BY <1>1
  <2>2. n \in one .. n
    BY <2>1
  <2>3. SubSeq(d, one, n) = SubSeq(d, one, n - 1) \o <<d[n]>>
    BY <1>1, <2>1, <2>2, PathOK, SubSeqRecursiveSecond
  <2>4. SubSeq(d, 1, n) = d
    BY <1>1, PathOK, SubSeqFull
  <2>5. QED
    BY <1>1, <2>1, <2>3, <2>4 DEF Front, Last
<1>5. DOMAIN Listing[Front(d)] = 1 .. Len(Listing[Front(d)])
  BY <1>2, StockOK, LenProperties
<1>6. QED
  BY <1>2, <1>3, <1>4, <1>5, DirectoryAssumption

LEMMA WayDown ==
  ASSUME NEW up \in Seq(Names), NEW name \in Names, NEW rest \in Seq(Names)
  PROVE  /\ (up \o <<name>>) \o rest = up \o (<<name>> \o rest)
         /\ <<name>> \o rest \in Seq(Names)
         /\ Len(up \o (<<name>> \o rest)) = Len(up) + (1 + Len(rest))
<1>1. PICK a \in Seq(Names) : a = <<name>> /\ Len(a) = 1
  <2>1. <<name>> \in Seq(Names) /\ Len(<<name>>) = 1
    OBVIOUS
  <2>2. QED
    BY <2>1
<1>2. (up \o a) \o rest = up \o (a \o rest)
  BY ConcatAssociative
<1>3. a \o rest \in Seq(Names) /\ Len(a \o rest) = 1 + Len(rest)
  BY <1>1, ConcatProperties
<1>4. Len(up \o (a \o rest)) = Len(up) + Len(a \o rest)
  BY <1>3, ConcatProperties
<1>5. QED
  BY <1>1, <1>2, <1>3, <1>4

LEMMA NoWalkOK == NoWalk \in WalkType /\ NoWalk.at = "idle"
<1>1. PICK e : e = <<>> /\ e \in Dirs /\ e \in Seq(Names)
  BY DirectoryAssumption, EmptySeq
<1>2. PICK d \in DirType : d = NoDir
  BY NoDirOK DEF Buffers
<1>3. NoWalk = [at |-> "idle", from |-> e, found |-> e, child |-> "none", missed |-> FALSE,
                dir |-> d, size |-> 0, ok |-> FALSE, ret |-> e, errno |-> "none"]
  BY <1>1, <1>2 DEF NoWalk
<1>4. QED
  BY <1>1, <1>2, <1>3 DEF WalkType, Places, Errnos

LEMMA WalkNext ==
  ASSUME walk' \in WalkType, cwd' \in Dirs, OnTheWay(walk', cwd'), Ended(walk', cwd')
  PROVE  WalkInv'
BY DEF WalkInv, OnTheWay, Ended, Ahead, Buffers, Stock, Passed

\* getcwd returns.
LEMMA ReturnOK ==
  ASSUME walk \in WalkType, NEW ok \in BOOLEAN, NEW ret \in Seq(Names),
         NEW errno \in Errnos, NEW where \in Dirs, Return(ok, ret, errno, where),
         IsPrefix(where, walk.from),
         IF ok THEN ret = walk.from /\ where = walk.from
         ELSE \/ where = walk.from
              \/ errno \in {"stat", "chdir", "malloc", "open"}
              \/ errno = "ENOENT" /\ walk.missed
              \/ errno = "ERANGE" /\ Len(walk.from) > PathMax
  PROVE  WalkInv'
<1>1. PICK d \in DirType : d = NoDir
  BY NoDirOK DEF Buffers
<1>2. PICK w : w = [walk EXCEPT !.at = "done", !.dir = d, !.ok = ok, !.ret = ret,
                                !.errno = errno]
  OBVIOUS
<1>3. /\ w \in WalkType /\ w.at = "done" /\ w.ok = ok /\ w.ret = ret
      /\ w.errno = errno /\ w.from = walk.from /\ w.missed = walk.missed
  BY <1>2 DEF WalkType, Places
<1>4. walk' = w /\ cwd' = where
  BY <1>1, <1>2 DEF Return, Returned
<1>5. OnTheWay(w, where)
  BY <1>3 DEF OnTheWay
<1>6. Ended(w, where)
  BY <1>3 DEF Ended
<1>7. QED
  BY <1>3, <1>4, <1>5, <1>6, WalkNext

LEMMA FailOK ==
  ASSUME walk \in WalkType, NEW errno \in Errnos, NEW where \in Dirs, Fail(errno, where),
         IsPrefix(where, walk.from),
         \/ where = walk.from
         \/ errno \in {"stat", "chdir", "malloc", "open"}
         \/ errno = "ENOENT" /\ walk.missed
         \/ errno = "ERANGE" /\ Len(walk.from) > PathMax
  PROVE  WalkInv'
<1>1. PICK no \in BOOLEAN : no = FALSE
  OBVIOUS
<1>2. PICK e \in Seq(Names) : e = <<>>
  BY EmptySeq
<1>3. Return(no, e, errno, where)
  BY <1>1, <1>2 DEF Fail
<1>4. QED
  BY <1>1, <1>3, ReturnOK

LEMMA WalkInit == ASSUME DirectoryInit PROVE WalkInv
BY NoWalkOK, DirectoryAssumption DEF DirectoryInit, WalkInv, OnTheWay, Ended

LEMMA StartWalk ==
  ASSUME WalkInv, NEW size \in Nat, NEW stats \in BOOLEAN, GetcwdStart(size, stats)
  PROVE  WalkInv'
<1>1. PICK errno \in Errnos :
        errno = IF size = 0 THEN "EINVAL" ELSE IF ~stats THEN "stat" ELSE "none"
  BY DEF Errnos
<1>2. PICK at \in Places : at = IF errno = "none" THEN "climbing" ELSE "done"
  BY DEF Places
<1>3. PICK w : w = [NoWalk EXCEPT !.at = at, !.from = cwd, !.size = size,
                                  !.errno = errno]
  OBVIOUS
<1>4. walk' = w /\ cwd' = cwd
  BY <1>1, <1>2, <1>3 DEF GetcwdStart
<1>5. cwd \in Dirs /\ cwd \in Seq(Names)
  BY PathOK DEF WalkInv
<1>6. /\ w \in WalkType /\ w.at = at /\ w.from = cwd
      /\ w.found = NoWalk.found /\ w.ok = NoWalk.ok
  BY <1>3, <1>5, NoWalkOK DEF WalkType
<1>7. w.found = <<>> /\ w.ok = FALSE
  BY <1>6 DEF NoWalk
<1>8. at # "searching" /\ cwd \o <<>> = cwd /\ IsPrefix(cwd, cwd)
  BY <1>2, <1>5, ConcatEmptySeq, IsPrefixOfItself
<1>9. OnTheWay(w, cwd)
  BY <1>6, <1>7, <1>8 DEF OnTheWay
<1>10. Ended(w, cwd)
  BY <1>6, <1>7, <1>8 DEF Ended
<1>11. QED
  BY <1>4, <1>5, <1>6, <1>9, <1>10, WalkNext

LEMMA UpWalk ==
  ASSUME WalkInv, NEW failure \in Failures, GetcwdUp(failure)
  PROVE  WalkInv'
<1>1. /\ walk \in WalkType /\ cwd \in Dirs /\ cwd # <<>> /\ walk.at = "climbing"
      /\ walk.from = cwd \o walk.found
  BY DEF GetcwdUp, WalkInv, OnTheWay
<1>2. PICK up, name, found : up = Front(cwd) /\ name = Last(cwd) /\ found = walk.found
  OBVIOUS
<1>3. /\ up \in Dirs /\ name \in Names /\ name \notin {".", ".."}
      /\ cwd = up \o <<name>>
      /\ \E i \in 1 .. Len(Listing[up]) : Listing[up][i] = Record(name, 1)
  BY <1>1, <1>2, WayUp
<1>4. found \in Seq(Names) /\ up \in Seq(Names) /\ cwd \in Seq(Names)
  BY <1>1, <1>2, <1>3, PathOK DEF WalkType
<1>5. /\ walk.from = up \o (<<name>> \o found)
      /\ <<name>> \o found \in Seq(Names)
  <2>1. walk.from = (up \o <<name>>) \o found
    BY <1>1, <1>2, <1>3
  <2>2. /\ (up \o <<name>>) \o found = up \o (<<name>> \o found)
        /\ <<name>> \o found \in Seq(Names)
    BY <1>3, <1>4, WayDown
  <2>3. QED
    BY <2>1, <2>2
<1>6. IsPrefix(cwd, walk.from) /\ IsPrefix(up, walk.from)
  BY <1>1, <1>2, <1>4, <1>5, IsPrefixOfConcat
<1>7. CASE failure \in {"stat", "chdir"}
  <2>1. Fail(failure, cwd) /\ failure \in Errnos
    BY <1>7 DEF GetcwdUp, Errnos
  <2>2. QED
    BY <1>1, <1>6, <1>7, <2>1, FailOK
<1>8. CASE failure \in {"malloc", "open"}
  <2>1. Fail(failure, up) /\ failure \in Errnos
    BY <1>2, <1>8 DEF GetcwdUp, Errnos
  <2>2. QED
    BY <1>1, <1>3, <1>6, <1>8, <2>1, FailOK
<1>9. CASE failure = "none"
  <2>1. PICK d : d = NewDir(up)
    OBVIOUS
  <2>2. Buffers(d) /\ d.name = up /\ Passed(d) = 0
    BY <1>3, <2>1, NewDirOK
  <2>3. PICK w : w = [walk EXCEPT !.at = "searching", !.child = name, !.missed = FALSE,
                                  !.dir = d]
    OBVIOUS
  <2>4. walk' = w /\ cwd' = up
    BY <1>2, <1>9, <2>1, <2>3 DEF GetcwdUp
  <2>5. /\ w \in WalkType /\ w.at = "searching" /\ w.child = name /\ w.dir = d
        /\ w.from = walk.from /\ w.found = found
    BY <1>1, <1>2, <1>3, <2>2, <2>3 DEF WalkType, Places, Buffers
  <2>6. Ahead(w)
    <3>1. PICK i \in 1 .. Len(Listing[up]) : Listing[up][i] = Record(name, 1)
      BY <1>3
    <3>2. Stock(w.dir) = Listing[up] /\ Passed(w.dir) = 0 /\ 0 < i
      BY <2>2, <2>5 DEF Stock
    <3>3. QED
      BY <2>5, <3>1, <3>2 DEF Ahead
  <2>7. OnTheWay(w, up)
    BY <1>3, <1>5, <2>2, <2>5, <2>6 DEF OnTheWay
  <2>8. Ended(w, up)
    BY <2>5 DEF Ended
  <2>9. QED
    BY <1>3, <2>4, <2>5, <2>7, <2>8, WalkNext
<1>10. QED
  BY <1>7, <1>8, <1>9 DEF Failures

\* A turn of the search.
LEMMA SearchWalk ==
  ASSUME WalkInv, NEW seen \in BOOLEAN, NEW fails \in BOOLEAN, GetcwdSearch(seen, fails)
  PROVE  WalkInv'
<1>1. PICK d, child, found : d = walk.dir /\ child = walk.child /\ found = walk.found
  OBVIOUS
<1>2. /\ walk \in WalkType /\ cwd \in Dirs /\ walk.at = "searching"
      /\ walk.from = cwd \o (<<child>> \o found)
      /\ Buffers(d) /\ d.name = cwd
      /\ child \in Names /\ child \notin {".", ".."}
      /\ walk.missed \/ Ahead(walk)
  BY <1>1 DEF GetcwdSearch, WalkInv, OnTheWay
<1>3. found \in Seq(Names) /\ cwd \in Seq(Names)
  BY <1>1, <1>2, PathOK DEF WalkType
<1>4. PICK x : x = Turn(d, fails)
  OBVIOUS
<1>5. Turned(d, x)
  BY <1>2, <1>4, TurnOK
<1>6. PICK sought \in BOOLEAN :
        sought = (x.got = "entry" /\ x.name \notin {".", ".."} /\ x.name = child)
  OBVIOUS
<1>7. PICK n \in Nat, k \in Nat : n = Len(Stock(d)) /\ k = Passed(d) /\ k <= n
  BY <1>2, PassedOK, StockOK DEF Stock
<1>8. /\ <<child>> \o found \in Seq(Names)
      /\ (cwd \o <<child>>) \o found = cwd \o (<<child>> \o found)
      /\ Len(cwd \o (<<child>> \o found)) = Len(cwd) + (1 + Len(found))
  BY <1>2, <1>3, WayDown
<1>9. IsPrefix(cwd, walk.from)
  BY <1>2, <1>3, <1>8, IsPrefixOfConcat
<1>10. CASE /\ x.got \in {"end", "failed"}
            /\ walk' = Returned([walk EXCEPT !.missed = @ \/ x.got = "failed"],
                                FALSE, <<>>, "ENOENT")
            /\ cwd' = cwd
  <2>1. x.got = "end" => ~Ahead(walk)
    <3>1. x.got = "end" => Passed(d) = Len(Stock(d))
      BY <1>5 DEF Turned
    <3>2. \A i \in 1 .. n : ~(n < i)
      OBVIOUS
    <3>3. QED
      BY <1>1, <1>7, <3>1, <3>2 DEF Ahead
  <2>2. PICK e \in DirType, ret \in Seq(Names), errno \in Errnos :
          e = NoDir /\ ret = <<>> /\ errno = "ENOENT"
    BY NoDirOK, EmptySeq DEF Buffers, Errnos
  <2>3. PICK missed \in BOOLEAN : missed = (walk.missed \/ x.got = "failed")
    OBVIOUS
  <2>4. missed
    BY <1>2, <1>10, <2>1, <2>3
  <2>5. PICK w : w = [walk EXCEPT !.missed = missed, !.at = "done", !.dir = e, !.ok = FALSE,
                                  !.ret = ret, !.errno = errno]
    OBVIOUS
  <2>6. walk' = w
    BY <1>10, <2>2, <2>3, <2>5 DEF Returned
  <2>7. /\ w \in WalkType /\ w.at = "done" /\ w.ok = FALSE /\ w.errno = "ENOENT"
        /\ w.missed /\ w.from = walk.from
    BY <1>2, <2>2, <2>4, <2>5 DEF WalkType, Places
  <2>8. OnTheWay(w, cwd) /\ Ended(w, cwd)
    BY <1>9, <2>7 DEF OnTheWay, Ended
  <2>9. QED
    BY <1>2, <1>10, <2>6, <2>7, <2>8, WalkNext
<1>11. CASE /\ x.got \in {"entry", "deleted"} /\ ~(sought /\ seen)
            /\ walk' = [walk EXCEPT !.dir = x.dir, !.missed = @ \/ sought]
            /\ cwd' = cwd
  <2>1. PICK e : e = x.dir
    OBVIOUS
  <2>2. /\ Buffers(e) /\ e.name = cwd /\ Stock(e) = Stock(d)
        /\ Passed(e) = k + 1 /\ k < n
        /\ x.got = "entry" <=> Stock(d)[k + 1].ino # 0
        /\ x.name = Stock(d)[k + 1].name
    BY <1>2, <1>5, <1>7, <1>11, <2>1 DEF Turned, Stock
  <2>3. PICK missed \in BOOLEAN : missed = (walk.missed \/ sought)
    OBVIOUS
  <2>4. PICK w : w = [walk EXCEPT !.dir = e, !.missed = missed]
    OBVIOUS
  <2>5. walk' = w
    BY <1>11, <2>1, <2>3, <2>4
  <2>6. /\ w \in WalkType /\ w.at = "searching" /\ w.child = child /\ w.dir = e
        /\ w.from = walk.from /\ w.found = found /\ w.missed = missed
    BY <1>1, <1>2, <2>2, <2>4 DEF WalkType, Buffers
  <2>7. missed \/ Ahead(w)
    <3>1. SUFFICES ASSUME ~missed
                   PROVE  Ahead(w)
      OBVIOUS
    <3>2. PICK i \in 1 .. n : k < i /\ Stock(d)[i] = Record(child, 1)
      BY <1>1, <1>2, <1>7, <2>3, <3>1 DEF Ahead
    <3>3. i # k + 1
      <4>1. SUFFICES ASSUME i = k + 1
                     PROVE  FALSE
        OBVIOUS
      <4>2. Stock(d)[k + 1].ino = 1 /\ Stock(d)[k + 1].name = child
        BY <3>2, <4>1 DEF Record
      <4>3. x.got = "entry" /\ x.name = child
        BY <2>2, <4>2
      <4>4. sought
        BY <1>2, <1>6, <4>3
      <4>5. QED
        BY <2>3, <3>1, <4>4
    <3>4. k + 1 < i
      BY <3>2, <3>3
    <3>5. QED
      BY <1>7, <2>2, <2>6, <3>2, <3>4 DEF Ahead
  <2>8. OnTheWay(w, cwd)
    BY <1>2, <2>2, <2>6, <2>7 DEF OnTheWay
  <2>9. Ended(w, cwd)
    BY <2>6 DEF Ended
  <2>10. QED
    BY <1>2, <1>11, <2>5, <2>6, <2>8, <2>9, WalkNext
<1>12. CASE Len(found) + 1 > PathMax /\ Fail("ERANGE", cwd)
  <2>1. PICK m \in Nat, c \in Nat : m = Len(found) /\ c = Len(cwd)
    BY <1>2, <1>3, PathOK, LenProperties
  <2>2. Len(walk.from) = c + (1 + m) /\ m + 1 > PathMax /\ PathMax \in Nat
    BY <1>2, <1>8, <1>12, <2>1, DirectoryAssumption
  <2>3. Len(walk.from) > PathMax
    BY <2>2
  <2>4. "ERANGE" \in Errnos
    BY DEF Errnos
  <2>5. QED
    BY <1>2, <1>9, <1>12, <2>3, <2>4, FailOK
<1>13. CASE /\ walk' = [walk EXCEPT !.at = "climbing", !.found = <<child>> \o @, !.dir = NoDir]
            /\ cwd' = cwd
  <2>1. PICK e \in DirType : e = NoDir
    BY NoDirOK DEF Buffers
  <2>2. PICK rest \in Seq(Names) : rest = <<child>> \o found
    BY <1>8
  <2>3. PICK w : w = [walk EXCEPT !.at = "climbing", !.found = rest, !.dir = e]
    OBVIOUS
  <2>4. walk' = w
    BY <1>1, <1>13, <2>1, <2>2, <2>3
  <2>5. /\ w \in WalkType /\ w.at = "climbing"
        /\ w.from = walk.from /\ w.found = rest
    BY <1>2, <2>3 DEF WalkType, Places
  <2>6. OnTheWay(w, cwd)
    BY <1>2, <2>2, <2>5 DEF OnTheWay
  <2>7. Ended(w, cwd)
    BY <2>5 DEF Ended
  <2>8. QED
    BY <1>2, <1>13, <2>4, <2>5, <2>6, <2>7, WalkNext
<1>14. \/ /\ x.got \in {"end", "failed"}
          /\ walk' = Returned([walk EXCEPT !.missed = @ \/ x.got = "failed"],
                              FALSE, <<>>, "ENOENT")
          /\ cwd' = cwd
       \/ /\ x.got \in {"entry", "deleted"} /\ ~(sought /\ seen)
          /\ walk' = [walk EXCEPT !.dir = x.dir, !.missed = @ \/ sought]
          /\ cwd' = cwd
       \/ Len(found) + 1 > PathMax /\ Fail("ERANGE", cwd)
       \/ /\ walk' = [walk EXCEPT !.at = "climbing", !.found = <<child>> \o @, !.dir = NoDir]
          /\ cwd' = cwd
  BY <1>1, <1>4, <1>6 DEF GetcwdSearch
<1>15. QED
  BY <1>10, <1>11, <1>12, <1>13, <1>14

\* At the root the way that was found is the whole name.
LEMMA EndWalk ==
  ASSUME WalkInv, NEW back \in BOOLEAN, GetcwdEnd(back)
  PROVE  WalkInv'
<1>1. /\ walk \in WalkType /\ cwd \in Dirs /\ cwd = <<>> /\ walk.at = "climbing"
      /\ walk.from = cwd \o walk.found
  BY DEF GetcwdEnd, WalkInv, OnTheWay
<1>2. PICK found \in Seq(Names) : found = walk.found
  BY <1>1 DEF WalkType
<1>3. found = walk.from /\ found \in Dirs
  BY <1>1, <1>2, ConcatEmptySeq DEF WalkType
<1>4. IsPrefix(cwd, walk.from) /\ IsPrefix(found, walk.from)
  <2>1. <<>> \o found = found /\ <<>> \in Seq(Names)
    BY EmptySeq, ConcatEmptySeq
  <2>2. IsPrefix(<<>>, found)
    BY <2>1, IsPrefixOfConcat
  <2>3. QED
    BY <1>1, <1>3, <2>2, IsPrefixOfItself
<1>5. {"ERANGE", "chdir", "none"} \subseteq Errnos
  BY DEF Errnos
<1>6. CASE TooSmall /\ back
  <2>1. Fail("ERANGE", found)
    BY <1>2, <1>6 DEF GetcwdEnd
  <2>2. QED
    BY <1>1, <1>3, <1>4, <1>5, <2>1, FailOK
<1>7. CASE ~back
  <2>1. Fail("chdir", cwd)
    BY <1>7 DEF GetcwdEnd
  <2>2. QED
    BY <1>1, <1>4, <1>5, <2>1, FailOK
<1>8. CASE ~TooSmall /\ back
  <2>1. PICK ok \in BOOLEAN : ok = TRUE
    OBVIOUS
  <2>2. Return(ok, found, "none", found)
    BY <1>2, <1>8, <2>1 DEF GetcwdEnd
  <2>3. QED
    BY <1>1, <1>3, <1>4, <1>5, <2>1, <2>2, ReturnOK
<1>9. QED
  BY <1>6, <1>7, <1>8

LEMMA WalkStep ==
  ASSUME WalkInv, [DirectoryNext]_directoryVars
  PROVE  WalkInv'
<1>1. ASSUME UNCHANGED <<cwd, walk>>
      PROVE  WalkInv'
  BY <1>1 DEF WalkInv, OnTheWay, Ended, Ahead, Buffers, Stock, Passed
<1>2. ASSUME NEW name, NEW opens, NEW memory, Opendir(name, opens, memory)
      PROVE  WalkInv'
  BY <1>1, <1>2 DEF Opendir
<1>3. ASSUME NEW fails, Readdir(fails)
      PROVE  WalkInv'
  BY <1>1, <1>3 DEF Readdir
<1>4. CASE Rewinddir
  BY <1>1, <1>4 DEF Rewinddir
<1>5. CASE Closedir
  BY <1>1, <1>5 DEF Closedir
<1>6. ASSUME NEW size \in 0 .. PathMax + 2, NEW stats \in BOOLEAN, GetcwdStart(size, stats)
      PROVE  WalkInv'
  <2>1. size \in Nat
    BY DirectoryAssumption
  <2>2. QED
    BY <1>6, <2>1, StartWalk
<1>7. ASSUME NEW failure \in Failures, GetcwdUp(failure)
      PROVE  WalkInv'
  BY <1>7, UpWalk
<1>8. ASSUME NEW seen \in BOOLEAN, NEW fails \in BOOLEAN, GetcwdSearch(seen, fails)
      PROVE  WalkInv'
  BY <1>8, SearchWalk
<1>9. ASSUME NEW back \in BOOLEAN, GetcwdEnd(back)
      PROVE  WalkInv'
  BY <1>9, EndWalk
<1>10. ASSUME NEW d \in Dirs, Chdir(d)
       PROVE  WalkInv'
  <2>1. PICK w : w = NoWalk
    OBVIOUS
  <2>2. w \in WalkType /\ w.at = "idle" /\ walk' = w /\ cwd' = d
    BY <1>10, <2>1, NoWalkOK DEF Chdir
  <2>3. OnTheWay(w, d) /\ Ended(w, d)
    BY <2>2 DEF OnTheWay, Ended
  <2>4. QED
    BY <2>2, <2>3, WalkNext
<1>11. CASE UNCHANGED directoryVars
  BY <1>1, <1>11 DEF directoryVars
<1>12. QED
  BY <1>2, <1>3, <1>4, <1>5, <1>6, <1>7, <1>8, <1>9, <1>10, <1>11 DEF DirectoryNext

-----------------------------------------------------------------------------
(* What is held.                                                           *)

LEMMA HeldInit == ASSUME DirectoryInit PROVE HeldIsUsed
BY DEF DirectoryInit, HeldIsUsed, Streams, NoDir, NewDir, NoWalk

\* Blocks and descriptors follow the number of DIRs.
LEMMA HeldAfter ==
  ASSUME HeldIsUsed, NEW streams \in Nat, Streams' = streams,
         \/ held' = held /\ streams = Streams
         \/ held' = Opened(held) /\ streams = Streams + 1
         \/ held' = Closed(held) /\ streams + 1 = Streams
         \/ held' = Lost(held) /\ streams = Streams
  PROVE  HeldIsUsed'
<1>1. PICK b \in Int, f \in Int, l \in Nat :
        held = [blocks |-> b, fds |-> f, lost |-> l]
  BY DEF HeldIsUsed
<1>2. PICK n : n = Streams
  OBVIOUS
<1>3. n \in Nat
  BY <1>2 DEF Streams
<1>4. f = n /\ b = 2 * n + l
  BY <1>1, <1>2 DEF HeldIsUsed
<1>5. PICK h : h = held'
  OBVIOUS
<1>6. CASE h = held /\ streams = n
  BY <1>1, <1>3, <1>4, <1>5, <1>6 DEF HeldIsUsed
<1>7. CASE h = Opened(held) /\ streams = n + 1
  <2>1. h = [blocks |-> b + 2, fds |-> f + 1, lost |-> l]
    BY <1>1, <1>7 DEF Opened
  <2>2. f + 1 = streams /\ b + 2 = 2 * streams + l
    BY <1>3, <1>4, <1>7
  <2>3. QED
    BY <1>5, <2>1, <2>2 DEF HeldIsUsed
<1>8. CASE h = Closed(held) /\ streams + 1 = n
  <2>1. h = [blocks |-> b - 2, fds |-> f - 1, lost |-> l]
    BY <1>1, <1>8 DEF Closed
  <2>2. f - 1 = streams /\ b - 2 = 2 * streams + l
    BY <1>3, <1>4, <1>8
  <2>3. QED
    BY <1>5, <2>1, <2>2 DEF HeldIsUsed
<1>9. CASE h = Lost(held) /\ streams = n
  <2>1. h = [blocks |-> b + 1, fds |-> f, lost |-> l + 1]
    BY <1>1, <1>9 DEF Lost
  <2>2. f = streams /\ b + 1 = 2 * streams + (l + 1)
    BY <1>3, <1>4, <1>9
  <2>3. QED
    BY <1>5, <2>1, <2>2 DEF HeldIsUsed
<1>10. QED
  BY <1>2, <1>5, <1>6, <1>7, <1>8, <1>9

LEMMA HeldStep ==
  ASSUME ListedInv, WalkInv, HeldIsUsed, [DirectoryNext]_directoryVars
  PROVE  HeldIsUsed'
<1>1. PICK n \in Nat : n = Streams'
  <2>1. Streams' \in Nat
    BY DEF Streams
  <2>2. QED
    BY <2>1
<1>2. ~NoDir.open /\ \A name : NewDir(name).open
  BY DEF NoDir, NewDir
<1>3. ASSUME NEW name, NEW opens \in BOOLEAN, NEW memory, Opendir(name, opens, memory)
      PROVE  HeldIsUsed'
  <2>1. CASE dir' = NewDir(name) /\ held' = Opened(held)
    <3>1. n = Streams + 1
      BY <1>1, <1>2, <1>3, <2>1 DEF Opendir, Streams
    <3>2. QED
      BY <1>1, <2>1, <3>1, HeldAfter
  <2>2. CASE dir' = NoDir /\ (held' = Lost(held) \/ held' = held)
    <3>1. n = Streams
      BY <1>1, <1>2, <1>3, <2>2 DEF Opendir, Streams
    <3>2. QED
      BY <1>1, <2>2, <3>1, HeldAfter
  <2>3. QED
    BY <1>3, <2>1, <2>2 DEF Opendir
<1>4. ASSUME dir'.open = dir.open, walk'.at = "searching" <=> walk.at = "searching",
             held' = held
      PROVE  HeldIsUsed'
  <2>1. n = Streams
    BY <1>1, <1>4 DEF Streams
  <2>2. QED
    BY <1>1, <1>4, <2>1, HeldAfter
<1>5. walk \in WalkType
  BY DEF WalkInv
<1>6. ASSUME NEW fails \in BOOLEAN, Readdir(fails)
      PROVE  HeldIsUsed'
  <2>1. Turned(dir, Turn(dir, fails))
    BY TurnOK DEF ListedInv
  <2>2. dir'.open = dir.open
    BY <1>6, <2>1 DEF Readdir, Turned
  <2>3. QED
    BY <1>4, <1>6, <2>2 DEF Readdir
<1>7. CASE Rewinddir
  <2>1. dir \in DirType
    BY DEF ListedInv, Buffers
  <2>2. dir'.open = dir.open
    BY <1>7, <2>1 DEF Rewinddir, rewinddir, DirType
  <2>3. QED
    BY <1>4, <1>7, <2>2 DEF Rewinddir
<1>8. CASE Closedir
  <2>1. n + 1 = Streams /\ held' = Closed(held)
    BY <1>1, <1>2, <1>8 DEF Closedir, Streams
  <2>2. QED
    BY <1>1, <2>1, HeldAfter
<1>9. ASSUME NEW size, NEW stats, GetcwdStart(size, stats)
      PROVE  HeldIsUsed'
  <2>1. walk'.at # "searching" /\ walk.at # "searching"
    BY <1>9 DEF GetcwdStart, NoWalk
  <2>2. QED
    BY <1>4, <1>9, <2>1 DEF GetcwdStart
<1>10. ASSUME NEW failure \in Failures, GetcwdUp(failure)
       PROVE  HeldIsUsed'
  <2>1. walk.at = "climbing" /\ dir' = dir
    BY <1>10 DEF GetcwdUp
  <2>2. CASE failure = "none"
    <3>1. walk'.at = "searching" /\ held' = Opened(held)
      BY <1>5, <1>10, <2>2 DEF GetcwdUp, WalkType
    <3>2. n = Streams + 1
      BY <1>1, <2>1, <3>1 DEF Streams
    <3>3. QED
      BY <1>1, <3>1, <3>2, HeldAfter
  <2>3. CASE failure # "none"
    <3>1. walk'.at = "done"
      BY <1>5, <1>10, <2>3 DEF GetcwdUp, Failures, Fail, Return, Returned, WalkType
    <3>2. held' = Lost(held) \/ held' = held
      BY <1>10, <2>3 DEF GetcwdUp
    <3>3. n = Streams
      BY <1>1, <2>1, <3>1 DEF Streams
    <3>4. QED
      BY <1>1, <3>2, <3>3, HeldAfter
  <2>4. QED
    BY <2>2, <2>3
<1>11. ASSUME NEW seen \in BOOLEAN, NEW fails \in BOOLEAN, GetcwdSearch(seen, fails)
       PROVE  HeldIsUsed'
  <2>1. walk.at = "searching" /\ dir' = dir
    BY <1>11 DEF GetcwdSearch
  <2>2. \/ walk'.at = "searching" /\ held' = held
        \/ walk'.at \in {"climbing", "done"} /\ held' = Closed(held)
    <3>1. PICK x : x = Turn(walk.dir, fails)
      OBVIOUS
    <3>2. \/ (\E errno : Fail(errno, cwd)) /\ held' = Closed(held)
          \/ /\ \E missed : walk' = Returned([walk EXCEPT !.missed = missed],
                                              FALSE, <<>>, "ENOENT")
             /\ held' = Closed(held)
          \/ /\ \E missed : walk' = [walk EXCEPT !.dir = x.dir, !.missed = missed]
             /\ held' = held
          \/ /\ \E found : walk' = [walk EXCEPT !.at = "climbing", !.found = found,
                                                !.dir = NoDir]
             /\ held' = Closed(held)
      BY <1>11, <3>1 DEF GetcwdSearch
    <3>3. QED
      BY <1>5, <2>1, <3>2 DEF Fail, Return, Returned, WalkType
  <2>3. CASE walk'.at = "searching" /\ held' = held
    BY <1>4, <2>1, <2>3
  <2>4. CASE walk'.at \in {"climbing", "done"} /\ held' = Closed(held)
    <3>1. n + 1 = Streams
      BY <1>1, <2>1, <2>4 DEF Streams
    <3>2. QED
      BY <1>1, <2>4, <3>1, HeldAfter
  <2>5. QED
    BY <2>2, <2>3, <2>4
<1>12. ASSUME NEW back \in BOOLEAN, GetcwdEnd(back)
       PROVE  HeldIsUsed'
  <2>1. walk.at = "climbing" /\ walk'.at = "done"
    BY <1>5, <1>12 DEF GetcwdEnd, Fail, Return, Returned, WalkType
  <2>2. QED
    BY <1>4, <1>12, <2>1 DEF GetcwdEnd
<1>13. ASSUME NEW d, Chdir(d)
       PROVE  HeldIsUsed'
  <2>1. walk'.at # "searching" /\ walk.at # "searching"
    BY <1>13 DEF Chdir, NoWalk
  <2>2. QED
    BY <1>4, <1>13, <2>1 DEF Chdir
<1>14. CASE UNCHANGED directoryVars
  BY <1>4, <1>14 DEF directoryVars
<1>15. QED
  BY <1>3, <1>6, <1>7, <1>8, <1>9, <1>10, <1>11, <1>12, <1>13, <1>14 DEF DirectoryNext

-----------------------------------------------------------------------------
(* The theorems.                                                           *)

\* The invariants hold in every state: of opendir and readdir, of getcwd on
\* its way, and of what both hold.
DirectoryInv == ListedInv /\ WalkInv /\ HeldIsUsed

THEOREM DirectoryInvariant == DirectorySpec => []DirectoryInv
<1>1. DirectoryInit => DirectoryInv
  BY ListedInit, WalkInit, HeldInit DEF DirectoryInv
<1>2. DirectoryInv /\ [DirectoryNext]_directoryVars => DirectoryInv'
  BY ListedStep, WalkStep, HeldStep DEF DirectoryInv
<1>3. QED
  BY <1>1, <1>2, PTL DEF DirectorySpec

\* From opendir or rewinddir to the end of the directory readdir gives each
\* entry that is there once and in order, for every size of the blocks the
\* system returns and whatever was deleted (readdir.c).
THEOREM EachOnceAlways == DirectorySpec => []EachOnce
<1>1. DirectoryInv => EachOnce
  <2>1. SUFFICES ASSUME DirectoryInv, dir.open
                 PROVE  \E k \in 0 .. Len(Listing[dir.name]) :
                          /\ Lists(listed, Listing[dir.name], k)
                          /\ atend = "end" => k = Len(Listing[dir.name])
    BY DEF EachOnce
  <2>2. QED
    BY <2>1 DEF DirectoryInv, ListedInv, Stock
<1>2. QED
  BY <1>1, DirectoryInvariant, PTL

\* getcwd names the directory it was called in and leaves the process there,
\* in every tree; it is left elsewhere only as CwdIsNamed says (getcwd.c).
THEOREM CwdIsNamedAlways == DirectorySpec => []CwdIsNamed
<1>1. DirectoryInv => CwdIsNamed
  <2>1. SUFFICES ASSUME DirectoryInv, walk.at # "idle"
                 PROVE  CwdIsNamed
    BY DEF CwdIsNamed
  <2>2. /\ walk \in WalkType /\ cwd \in Dirs
        /\ OnTheWay(walk, cwd) /\ Ended(walk, cwd)
    BY <2>1 DEF DirectoryInv, WalkInv
  <2>3. cwd \in Seq(Names) /\ walk.found \in Seq(Names)
    BY <2>2, PathOK DEF WalkType
  <2>4. CASE walk.at = "climbing"
    <3>1. IsPrefix(cwd, walk.from)
      BY <2>2, <2>3, <2>4, IsPrefixOfConcat DEF OnTheWay
    <3>2. QED
      BY <2>4, <3>1 DEF CwdIsNamed
  <2>5. CASE walk.at = "searching"
    <3>1. walk.from = cwd \o (<<walk.child>> \o walk.found) /\ walk.child \in Names
      BY <2>2, <2>5 DEF OnTheWay
    <3>2. <<walk.child>> \o walk.found \in Seq(Names)
      BY <2>3, <3>1, WayDown
    <3>3. IsPrefix(cwd, walk.from)
      BY <2>3, <3>1, <3>2, IsPrefixOfConcat
    <3>4. QED
      BY <2>5, <3>3 DEF CwdIsNamed
  <2>6. CASE walk.at = "done"
    BY <2>2, <2>6 DEF Ended, CwdIsNamed
  <2>7. QED
    BY <2>1, <2>2, <2>4, <2>5, <2>6 DEF WalkType, Places
<1>2. QED
  BY <1>1, DirectoryInvariant, PTL

\* Two blocks and a descriptor for each DIR that is open, getcwd's with the
\* rest, and one block for each opendir whose open failed (opendir.c).
THEOREM HeldIsUsedAlways == DirectorySpec => []HeldIsUsed
BY DirectoryInvariant, PTL DEF DirectoryInv
=============================================================================
