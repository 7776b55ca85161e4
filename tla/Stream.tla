------------------------------- MODULE Stream -------------------------------
(***************************************************************************)
(* One stdio stream of Small-LibC (src/c/stdio): struct __sFILE with its   *)
(* buffer, the functions that read and write through it, and the open      *)
(* file of the kernel behind it.                                           *)
(*                                                                         *)
(* Every call holds the stream's lock from its start to its end, so a call *)
(* is one step, and a call with a loop one step per turn of the loop.  The *)
(* system calls of a step have every outcome the kernel may choose: an     *)
(* operator named for one yields the set of its outcomes.                  *)
(*                                                                         *)
(* The program keeps the rules of C89 (a stream is positioned between      *)
(* writing and reading, setvbuf comes first, ...).  Habits are things C89  *)
(* allows and this code gets wrong; Faults are the system calls that fail. *)
(***************************************************************************)
EXTENDS Integers, Sequences, FiniteSetsExt, SequencesExt, Bytes

CONSTANTS
  Byte,      \* bytes of the files, as numbers
  Newline,   \* the byte '\n'
  Junk,      \* an uninitialised byte of a buffer, told from all others
  BUFSIZ,    \* 1024
  MaxFile,   \* bound: the longest file
  MaxCall,   \* bound: the most bytes one call asks for
  Modes,     \* the ways a stream is opened in
  Habits,    \* what the program does that C89 allows (see HABITS)
  Faults     \* what fails: subset of {"write", "partial", "read", "lseek",
             \* "close"}

HABITS == {"get_fresh", "read_flushed", "seek_ahead", "read_unbuffered",
           "setvbuf_failed", "reopen_unbuffered", "fwrite_policy", "puts_long"}

ASSUME StreamAssumption ==
  /\ BUFSIZ \in Nat /\ 0 < BUFSIZ /\ MaxFile \in Nat /\ MaxCall \in Nat
  /\ Byte \subseteq Nat /\ Newline \in Byte /\ Junk \notin Int
  /\ Habits \subseteq HABITS

VARIABLES
  f,      \* the FILE
  file,   \* the open file of the kernel
  mode,   \* how the stream was opened; "closed"
  call,   \* the call in progress, what it has left to do
  last,   \* what the program did last: the rules of C89 depend on it
  npush,  \* how many pushed-back bytes are still to be read
  out,    \* what the last call delivered
  ret     \* how it ended: "ok" or "fail"

vars == <<f, file, mode, call, last, npush, out, ret>>

Flags == {"RD", "WR", "RW", "ERR", "EOF", "DIRTY", "FREEBUF", "NBF", "LBF",
          "RESERVE"}

\* _ptr is an offset from _base; base says whether _base is not NULL.  The
\* byte at -1 is the one fopen reserves for ungetc.
NoBuffer == [i \in -1 .. BUFSIZ - 1 |-> Junk]

Closed == [base |-> FALSE, buf |-> NoBuffer, ptr |-> 0, cnt |-> 0,
           bsize |-> 0, flags |-> {}]

NoCall == [op |-> "none", rest |-> <<>>, want |-> 0]

Least(m, n) == IF m < n THEN m ELSE n

-----------------------------------------------------------------------------
(* The buffer.                                                             *)

Has(fl, flag) == flag \in fl.flags
On(fl, S) == [fl EXCEPT !.flags = @ \cup S]
Off(fl, S) == [fl EXCEPT !.flags = @ \ S]

\* The byte _ptr points to, and the n bytes from there.
At(fl, i) == fl.buf[fl.ptr + i - 1]
Next_n(fl, n) == [i \in 1 .. n |-> At(fl, i)]

Take(fl, n) == [fl EXCEPT !.ptr = @ + n, !.cnt = @ - n]

Place(fl, bs) ==
  [fl EXCEPT !.buf = [i \in DOMAIN @ |->
                        IF i \in fl.ptr .. fl.ptr + Len(bs) - 1
                        THEN bs[i - fl.ptr + 1] ELSE @[i]],
             !.ptr = @ + Len(bs), !.cnt = @ - Len(bs)]

Put(fl, bs) == On(Place(fl, bs), {"DIRTY"})

MustFlush(fl) == fl.base /\ {"DIRTY", "WR"} \subseteq fl.flags

\* The bytes flush_impl writes: those between _base and _ptr.
Pending(fl) ==
  IF MustFlush(fl) THEN [i \in 1 .. fl.ptr |-> fl.buf[i - 1]] ELSE <<>>

-----------------------------------------------------------------------------
(* System calls (external) and the functions on top of them.  An outcome   *)
(* is the stream and the file after it, and whether it succeeded.          *)

Outcome(fl, fi, ok) == [f |-> fl, file |-> fi, ok |-> ok]
Same(ok) == Outcome(f, file, ok)

Where(fi) == IF fi.append THEN Len(fi.data) ELSE fi.off

Store(fi, bs) ==
  IF bs = <<>> THEN fi
  ELSE [fi EXCEPT !.data = Overlay(@, Where(fi), bs),
                  !.off = Where(fi) + Len(bs)]

\* What one write of n bytes returns, an error counting as 0.
WriteCounts(fi, n) ==
  IF fi.write THEN 1 .. n \cup IF "write" \in Faults THEN {0} ELSE {}
  ELSE {0}

\* How many of n bytes the loop of flush_impl writes before it ends, having
\* written them all or with an error.  EINTR and short writes only go round
\* the loop.
LoopCounts(fi, n) ==
  IF ~fi.write THEN {0}
  ELSE {n} \cup (IF "write" \in Faults THEN {0} ELSE {})
           \cup (IF "partial" \in Faults THEN 0 .. n ELSE {})

Emptied(fl) ==
  [Off(fl, {"DIRTY"}) EXCEPT !.ptr = 0, !.cnt = fl.bsize]

\* Bug: an error is noted and not reported.
flush_impl_silent(fl, fi) ==
  IF ~MustFlush(fl) THEN {Outcome(fl, fi, TRUE)}
  ELSE LET bs == Pending(fl) IN
    {Outcome(IF n = Len(bs) THEN Emptied(fl) ELSE On(fl, {"ERR"}),
             Store(fi, SubSeq(bs, 1, n)), TRUE) :
     n \in LoopCounts(fi, Len(bs))}

flush_impl(fl, fi) ==
  IF ~MustFlush(fl) THEN {Outcome(fl, fi, TRUE)}
  ELSE LET bs == Pending(fl) IN
    {Outcome(IF n = Len(bs) THEN Emptied(fl) ELSE On(fl, {"ERR"}),
             Store(fi, SubSeq(bs, 1, n)), n = Len(bs)) :
     n \in LoopCounts(fi, Len(bs))}

\* What a read of the buffer's size returns, an error counting as -1.
ReadCounts(fl, fi) ==
  LET left == Least(fl.bsize, Len(fi.data) - fi.off) IN
  (IF "read" \in Faults \/ ~fi.read THEN {-1} ELSE {}) \cup
  (IF ~fi.read THEN {} ELSE IF left <= 0 THEN {0} ELSE 1 .. left)

\* The first n bytes of the buffer, from the file.
Loaded(fl, fi, n) ==
  [i \in DOMAIN fl.buf |->
     IF i \in 0 .. n - 1 THEN fi.data[fi.off + i + 1] ELSE fl.buf[i]]

\* Bug: a short read is taken for a full one.
Refill_full(fl, fi) ==
  {IF n <= 0
   THEN Outcome([On(fl, {IF n = 0 THEN "EOF" ELSE "ERR"}) EXCEPT !.cnt = 0],
                fi, FALSE)
   ELSE Outcome([fl EXCEPT !.buf = Loaded(fl, fi, n), !.ptr = 0,
                           !.cnt = fl.bsize],
                [fi EXCEPT !.off = @ + n], TRUE) :
   n \in ReadCounts(fl, fi)}

\* The read at the end of fill_impl.
Refill(fl, fi) ==
  {IF n <= 0
   THEN Outcome([On(fl, {IF n = 0 THEN "EOF" ELSE "ERR"}) EXCEPT !.cnt = 0],
                fi, FALSE)
   ELSE Outcome([fl EXCEPT !.buf = Loaded(fl, fi, n), !.ptr = 0, !.cnt = n],
                [fi EXCEPT !.off = @ + n], TRUE) :
   n \in ReadCounts(fl, fi)}

fill_impl(fl, fi) ==
  IF fl.flags \cap {"EOF", "ERR"} # {} THEN {Outcome(fl, fi, FALSE)}
  ELSE UNION {IF o.ok THEN Refill(On(Off(o.f, {"WR"}), {"RD"}), o.file)
              ELSE {o} : o \in flush_impl(fl, fi)}

\* The start of every writing function.
ToWrite(fl) ==
  IF Has(fl, "RD")
  THEN [On(Off(fl, {"RD"}), {"WR"}) EXCEPT !.cnt = fl.bsize, !.ptr = 0]
  ELSE IF ~Has(fl, "WR") /\ fl.cnt = 0 /\ fl.ptr = 0
  THEN [On(fl, {"WR"}) EXCEPT !.cnt = fl.bsize]
  ELSE On(fl, {"WR"})

flush_if(test, fl, fi) ==
  IF test THEN flush_impl(fl, fi) ELSE {Outcome(fl, fi, TRUE)}

\* What setvbuf and fclose do with the buffer malloc gave.
free_buffer(fl) ==
  IF Has(fl, "FREEBUF")
  THEN [Off(fl, {"FREEBUF", "RESERVE"}) EXCEPT !.base = FALSE,
                                               !.buf = NoBuffer]
  ELSE fl

-----------------------------------------------------------------------------
(* Opening and closing.                                                    *)

Update(m) == m \in {"r+", "w+", "a+", "tmpfile"}
Reads(m) == m \in {"r", "stdin"} \/ Update(m)
Writes(m) == m \notin {"r", "stdin"}

Direction(m) ==
  IF Update(m) THEN {"RW"} ELSE IF Reads(m) THEN {"RD"} ELSE {"WR"}

\* fopen, fdopen, tmpfile; the standard streams start as stdio_init sets
\* them up.
Opened(m) ==
  [base |-> TRUE, buf |-> NoBuffer, ptr |-> 0,
   bsize |-> IF m = "stderr" THEN 1 ELSE BUFSIZ,
   cnt |-> IF Reads(m) /\ m \notin {"r+", "w+", "a+"} THEN 0
           ELSE IF m = "stderr" THEN 1 ELSE BUFSIZ,
   flags |-> Direction(m) \cup
             CASE m = "stderr" -> {"NBF"}
               [] m \in {"stdin", "stdout"} -> {}
               [] OTHER -> {"FREEBUF", "RESERVE"}]

\* open(2); the standard streams are redirected to append.
OpenFile(m, data) ==
  [data |-> IF m \in {"w", "w+", "tmpfile"} THEN <<>> ELSE data, off |-> 0,
   read |-> Reads(m), write |-> Writes(m),
   append |-> m \in {"a", "a+", "stdout", "stderr"}]

ClosedFile(fi) ==
  [data |-> fi.data, off |-> 0, read |-> FALSE, write |-> FALSE,
   append |-> FALSE]

Init ==
  /\ f = Closed
  /\ \E d \in BoundedSeq(Byte, MaxFile) :
       file = [data |-> d, off |-> 0, read |-> FALSE, write |-> FALSE,
               append |-> FALSE]
  /\ mode = "closed" /\ call = NoCall /\ last = "open"
  /\ npush = 0 /\ out = <<>> /\ ret = "ok"

Idle == call.op = "none" /\ mode # "closed"

\* A step leaves the stream and the file as outcome o says.
Becomes(o) == f' = o.f /\ file' = o.file

\* A call ends: what it delivered and whether it succeeded.
End(bytes, ok) ==
  /\ call' = NoCall /\ out' = bytes
  /\ ret' = IF ok THEN "ok" ELSE "fail"

Fopen(m) ==
  /\ mode = "closed"
  /\ mode' = m /\ f' = Opened(m) /\ file' = OpenFile(m, file.data)
  /\ last' = "open" /\ npush' = 0
  /\ End(<<>>, TRUE)

Fclose ==
  /\ Idle
  /\ \E o \in flush_if(Has(f, "WR"), f, file) :
       /\ file' = ClosedFile(o.file)
       /\ \/ End(<<>>, o.ok)
          \/ "close" \in Faults /\ End(<<>>, FALSE)
  /\ f' = Closed /\ mode' = "closed" /\ last' = "open" /\ npush' = 0

\* freopen keeps the buffer and forgets how it was used.
Reopened(fl, m) ==
  [fl EXCEPT !.flags = Direction(m) \cup (@ \cap {"FREEBUF", "RESERVE"}),
             !.ptr = 0,
             !.cnt = IF Direction(m) = {"RD"} THEN 0 ELSE fl.bsize]

Freopen(m) ==
  /\ Idle
  /\ ~f.base => "reopen_unbuffered" \in Habits
  /\ \E o \in flush_impl(f, file) :
       \/ /\ f' = Reopened(o.f, m)
          /\ file' = OpenFile(m, o.file.data)
          /\ mode' = m
          /\ End(<<>>, TRUE)
       \/ /\ f' = Closed /\ file' = ClosedFile(o.file) /\ mode' = "closed"
          /\ End(<<>>, FALSE)
  /\ last' = "open" /\ npush' = 0

\* setvbuf(stream, own ? buffer : NULL, policy, size), on a fresh stream.
\* Which the policy is, it finds out after it has given up the buffer.
Rebuffered(fl, policy, size, own) ==
  LET g == On(Off(fl, {"NBF", "LBF"}), {policy} \cap {"NBF", "LBF"}) IN
  IF policy = "NBF"
  THEN [g EXCEPT !.base = FALSE, !.buf = NoBuffer, !.bsize = 0, !.ptr = 0,
                 !.cnt = 0]
  ELSE [On(g, IF own THEN {} ELSE {"FREEBUF"}) EXCEPT
          !.base = TRUE, !.buf = NoBuffer, !.bsize = size, !.ptr = 0,
          !.cnt = IF Has(fl, "RD") THEN 0 ELSE size]

Setvbuf(policy, size, own) ==
  /\ Idle /\ last = "open"
  /\ policy = "NBF" => ~file.read \/ "read_unbuffered" \in Habits
  /\ \E o \in flush_if(Has(f, "WR"), f, file) :
       LET g == free_buffer(o.f) IN
       /\ file' = o.file
       /\ \/ /\ policy = "NBF" \/ (policy # "other" /\ size # 0)
             /\ f' = Rebuffered(g, policy, size, own)
             /\ End(<<>>, TRUE)
          \/ /\ policy # "NBF" /\ (policy = "other" \/ size = 0 \/ ~own)
             /\ g.base \/ "setvbuf_failed" \in Habits
             /\ f' = On(Off(g, {"NBF", "LBF"}), {policy} \cap {"LBF"})
             /\ End(<<>>, FALSE)
  /\ UNCHANGED <<mode, last, npush>>

-----------------------------------------------------------------------------
(* Reading.                                                                *)

Neutral == ~Has(f, "RD") /\ ~Has(f, "WR")

MayRead ==
  /\ Idle /\ file.read
  /\ last # "write"
  /\ last = "flush" => "read_flushed" \in Habits

\* fgetc and fgets on an update stream nobody has positioned yet.
MayGet ==
  /\ MayRead
  /\ last = "open" /\ Neutral /\ f.cnt > 0 => "get_fresh" \in Habits

\* n bytes are delivered from the buffer of fl.
Deliver(fl, n) ==
  /\ f' = Take(fl, n)
  /\ npush' = IF npush > n THEN npush - n ELSE 0

\* _cnt bytes are buffered, or fill_impl is called.
Filled == IF f.cnt > 0 THEN {Same(TRUE)} ELSE fill_impl(f, file)

Fgetc ==
  /\ MayGet
  /\ \E o \in Filled :
       /\ file' = o.file
       /\ IF o.ok THEN Deliver(o.f, 1) /\ End(<<At(o.f, 1)>>, TRUE)
          ELSE f' = o.f /\ npush' = npush /\ End(<<>>, FALSE)
  /\ last' = "read" /\ UNCHANGED mode

\* fgets for at most n bytes; fread of n bytes.
Fgets(n) ==
  /\ MayGet
  /\ call' = [op |-> "fgets", rest |-> <<>>, want |-> n]
  /\ out' = <<>> /\ last' = "read"
  /\ UNCHANGED <<f, file, mode, npush, ret>>

\* Bug: the room for writing counts as bytes to read.
ToRead_room(fl) == On(fl, {"RD"})

\* Neutral to reading.
ToRead(fl) == [On(fl, {"RD"}) EXCEPT !.cnt = 0, !.ptr = 0]

Fread(n) ==
  /\ MayRead
  /\ IF Has(f, "WR")
     THEN /\ f' = On(f, {"ERR"}) /\ npush' = npush
          /\ End(<<>>, FALSE)
     ELSE /\ IF Has(f, "RD") THEN f' = f /\ npush' = npush
             ELSE f' = ToRead(f) /\ npush' = 0
          /\ call' = [op |-> "fread", rest |-> <<>>, want |-> n]
          /\ out' = <<>> /\ ret' = ret
  /\ last' = "read" /\ UNCHANGED <<file, mode>>

\* One turn of the loop of fgets (a byte) or fread (what the buffer has).
ReadTurn ==
  /\ call.op \in {"fgets", "fread"} /\ call.want > 0
  /\ \E o \in Filled :
       /\ file' = o.file
       /\ \/ /\ ~o.ok
             /\ f' = o.f /\ npush' = npush
             /\ End(out, FALSE)
          \/ /\ o.ok
             /\ LET n == IF call.op = "fgets" THEN 1
                         ELSE Least(call.want, o.f.cnt)
                    bytes == Next_n(o.f, n)
                IN
                /\ Deliver(o.f, n)
                /\ out' = out \o bytes /\ ret' = "ok"
                /\ call' = IF \/ call.want = n
                              \/ call.op = "fgets" /\ bytes[1] = Newline
                           THEN NoCall ELSE [call EXCEPT !.want = @ - n]
  /\ UNCHANGED <<mode, last>>

\* Bug: every buffer is taken to have the byte fopen reserves.
CanPush_reserve(fl) == fl.base /\ fl.ptr > -1

CanPush(fl) == fl.base /\ fl.ptr > IF Has(fl, "RESERVE") THEN -1 ELSE 0

Ungetc(c) ==
  /\ Idle /\ Has(f, "RD") /\ last \in {"open", "read"}
  /\ IF CanPush(f)
     THEN /\ f' = [Off(f, {"EOF"}) EXCEPT !.ptr = @ - 1, !.cnt = @ + 1,
                                          !.buf[f.ptr - 1] = c]
          /\ npush' = npush + 1
          /\ End(<<>>, TRUE)
     ELSE /\ UNCHANGED <<f, npush>>
          /\ End(<<>>, FALSE)
  /\ last' = "read" /\ UNCHANGED <<file, mode>>

-----------------------------------------------------------------------------
(* The stream as the program sees it: what it would read and where it is.  *)

View == IF Pending(f) = <<>> THEN file.data
        ELSE Overlay(file.data, Where(file), Pending(f))

Pos == IF Pending(f) # <<>> THEN Where(file) + Len(Pending(f))
       ELSE IF Has(f, "RD") THEN file.off - f.cnt ELSE file.off

\* What was pushed back and not read again lies at _ptr.
Pushed == Next_n(f, npush)

-----------------------------------------------------------------------------
(* Writing.                                                                *)

MayWrite(n) ==
  /\ Idle /\ file.write
  /\ last = "read" => Has(f, "EOF")
  /\ n + (IF file.append THEN Len(View) ELSE Pos) <= MaxFile

\* fwrite does not look at the buffering policy.
Policy(bs) ==
  f.base /\ (Has(f, "NBF") \/ (Has(f, "LBF") /\ Contains(bs, Newline)))
    => "fwrite_policy" \in Habits

\* A write call ends, or goes on with the bytes in rest.
Goes(op, rest) ==
  /\ out' = <<>> /\ ret' = ret
  /\ call' = [op |-> op, rest |-> rest, want |-> 0]

\* The buffer must go out now that c has been put.
Full(fl, c) == fl.cnt = 0 \/ (Has(fl, "LBF") /\ c = Newline)

Fputc(c) ==
  LET g == ToWrite(f) IN
  /\ MayWrite(1)
  /\ IF Has(f, "NBF")
     THEN \E n \in WriteCounts(file, 1) :
            /\ f' = IF n = 1 THEN g ELSE On(g, {"ERR"})
            /\ file' = Store(file, SubSeq(<<c>>, 1, n))
            /\ End(<<>>, n = 1)
     ELSE \E o \in flush_if(g.cnt = 0, g, file) :
            IF ~o.ok THEN Becomes(o) /\ End(<<>>, FALSE)
            ELSE LET h == Put(o.f, <<c>>)
                 IN \E p \in flush_if(Full(h, c), h, o.file) :
                      Becomes(p) /\ End(<<>>, p.ok)
  /\ last' = "write" /\ npush' = 0 /\ UNCHANGED mode

Fputs(s) ==
  /\ MayWrite(Len(s))
  /\ IF Has(f, "NBF")
     THEN \E n \in WriteCounts(file, Len(s)) :
            /\ f' = IF n = Len(s) THEN ToWrite(f)
                    ELSE On(ToWrite(f), {"ERR"})
            /\ file' = Store(file, SubSeq(s, 1, n))
            /\ End(<<>>, n = Len(s))
     ELSE f' = ToWrite(f) /\ file' = file /\ Goes("fputs", s)
  /\ last' = "write" /\ npush' = 0 /\ UNCHANGED mode

FputsTurn ==
  /\ call.op = "fputs" /\ call.rest # <<>>
  /\ \E o \in flush_if(f.cnt = 0, f, file) :
       IF ~o.ok THEN Becomes(o) /\ End(<<>>, FALSE)
       ELSE LET n == Least(Len(call.rest), o.f.cnt)
                bs == SubSeq(call.rest, 1, n)
                g == Put(o.f, bs)
            IN \E p \in flush_if(Has(g, "LBF") /\ Contains(bs, Newline),
                                 g, o.file) :
                 /\ Becomes(p)
                 /\ IF p.ok THEN Goes("fputs", SubSeq(call.rest, n + 1,
                                                      Len(call.rest)))
                    ELSE End(<<>>, FALSE)
  /\ UNCHANGED <<mode, last, npush>>

FputsEnd ==
  /\ call.op = "fputs" /\ call.rest = <<>>
  /\ \E o \in flush_if(f.cnt = 0, f, file) : Becomes(o) /\ End(<<>>, o.ok)
  /\ UNCHANGED <<mode, last, npush>>

\* puts(s) on stdout; it gives an unbuffered stdout a buffer.
Puts(s) ==
  /\ MayWrite(Len(s) + 1) /\ mode = "stdout"
  /\ LET size == IF Has(f, "NBF") THEN 1 ELSE BUFSIZ
         g == IF f.base THEN f
              ELSE [On(f, {"FREEBUF"}) EXCEPT !.base = TRUE, !.ptr = 0,
                                              !.bsize = size, !.cnt = size]
     IN \/ /\ Len(s) + 1 <= ToWrite(g).cnt \/ "puts_long" \in Habits
           /\ f' = On(ToWrite(g), {"DIRTY"})
           /\ Goes("puts", Append(s, Newline))
        \/ /\ ~f.base               \* malloc fails
           /\ f' = f /\ End(<<>>, FALSE)
  /\ last' = "write" /\ npush' = 0 /\ UNCHANGED <<file, mode>>

PutsTurn ==
  /\ call.op = "puts" /\ call.rest # <<>>
  /\ \E o \in flush_if(f.cnt <= 0, f, file) :
       IF ~o.ok THEN Becomes(o) /\ End(<<>>, FALSE)
       ELSE LET g == IF f.cnt <= 0
                     THEN [o.f EXCEPT !.cnt = o.f.bsize, !.ptr = 0] ELSE f
            IN /\ f' = Place(g, <<Head(call.rest)>>) /\ file' = o.file
               /\ Goes("puts", Tail(call.rest))
  /\ UNCHANGED <<mode, last, npush>>

PutsEnd ==
  /\ call.op = "puts" /\ call.rest = <<>>
  /\ \E o \in flush_if(Has(f, "LBF") \/ Has(f, "NBF"), f, file) :
       Becomes(o) /\ End(<<>>, o.ok)
  /\ UNCHANGED <<mode, last, npush>>

Fwrite(s) ==
  /\ MayWrite(Len(s)) /\ Policy(s)
  /\ f' = ToWrite(f) /\ Goes("fwrite", s)
  /\ last' = "write" /\ npush' = 0 /\ UNCHANGED <<file, mode>>

\* The rest fits into the buffer.
FwriteLast ==
  /\ call.op = "fwrite" /\ Len(call.rest) <= f.cnt
  /\ f' = Put(f, call.rest)
  /\ End(<<>>, TRUE)
  /\ UNCHANGED <<file, mode, last, npush>>

\* The buffer is filled and flushed; what is left and would fill it again
\* is written directly.
FwriteTurn ==
  LET space == f.cnt
      g == IF space > 0 THEN Put(f, SubSeq(call.rest, 1, space)) ELSE f
      rest == SubSeq(call.rest, space + 1, Len(call.rest))
      Left(n) == SubSeq(rest, n + 1, Len(rest))
      Go(n) == IF Left(n) = <<>> THEN End(<<>>, TRUE)
               ELSE Goes("fwrite", Left(n))
  IN
  /\ call.op = "fwrite" /\ Len(call.rest) > space
  /\ \E o \in flush_impl(g, file) :
       IF ~o.ok THEN Becomes(o) /\ End(<<>>, FALSE)
       ELSE IF Len(rest) < o.f.bsize THEN Becomes(o) /\ Go(0)
       ELSE \E n \in WriteCounts(o.file, Len(rest)) :
              /\ f' = IF n = 0 THEN On(o.f, {"ERR"}) ELSE o.f
              /\ file' = Store(o.file, SubSeq(rest, 1, n))
              /\ IF n = 0 THEN End(<<>>, FALSE) ELSE Go(n)
  /\ UNCHANGED <<mode, last, npush>>

-----------------------------------------------------------------------------
(* Flushing and positioning.                                               *)

\* fflush is not for a stream that was read last.
Fflush ==
  /\ Idle /\ last # "read"
  /\ \E o \in flush_if(Has(f, "WR"), f, file) :
       Becomes(o) /\ End(<<>>, o.ok)
  /\ last' = IF last = "write" THEN "flush" ELSE last
  /\ UNCHANGED <<mode, npush>>

\* Where lseek would go, and where the program wants to be.
Target(fi, whence, d) ==
  d + CASE whence = "SET" -> 0 [] whence = "CUR" -> fi.off
        [] whence = "END" -> Len(fi.data)

Wanted(whence, d) ==
  d + CASE whence = "SET" -> 0 [] whence = "CUR" -> Pos
        [] whence = "END" -> Len(View)

Discarded(fl) == [Off(fl, {"WR", "RD"}) EXCEPT !.cnt = 0, !.ptr = 0]

\* The buffer is given up before it is known whether lseek succeeds.
Moved(fl, fi, whence, d) ==
  LET to == Target(fi, whence, d) IN
  (IF to < 0 THEN {}
   ELSE {Outcome(Off(Discarded(fl), {"EOF"}), [fi EXCEPT !.off = to],
                 TRUE)}) \cup
  (IF to < 0 \/ "lseek" \in Faults
   THEN {Outcome(Discarded(fl), fi, FALSE)} ELSE {})

\* Bug: the buffer is given up although its bytes could not be written.
Sought_anyway(whence, d) ==
  UNION {IF ~o.ok THEN {Outcome(Discarded(o.f), o.file, FALSE)}
         ELSE Moved(o.f, o.file, whence, d) :
         o \in flush_if(Has(f, "WR"), f, file)}

Sought(whence, d) ==
  UNION {IF ~o.ok THEN {o} ELSE Moved(o.f, o.file, whence, d) :
         o \in flush_if(Has(f, "WR"), f, file)}

ReadsAhead == Has(f, "RD") /\ f.cnt > 0

MaySeek(whence, d) ==
  /\ Idle /\ mode \notin {"stdout", "stderr"}
  /\ Wanted(whence, d) \in 0 .. Len(View)
  /\ ReadsAhead /\ (whence = "CUR" \/ "lseek" \in Faults)
       => "seek_ahead" \in Habits

Repositions(o) ==
  /\ file' = o.file
  /\ last' = IF Has(o.f, "WR") THEN last ELSE "seek"
  /\ npush' = 0
  /\ UNCHANGED mode

Fseeko(whence, d) ==
  /\ MaySeek(whence, d)
  /\ \E o \in Sought(whence, d) :
       f' = o.f /\ Repositions(o) /\ End(<<>>, o.ok)

\* rewind does not tell whether it succeeded.
Rewind ==
  /\ MaySeek("SET", 0)
  /\ \E o \in Sought("SET", 0) :
       f' = Off(o.f, {"ERR"}) /\ Repositions(o) /\ End(<<>>, o.ok)

\* Bug: bytes read ahead count as read.
Told_ahead(fl, fi) == fi.off

Told(fl, fi) == fi.off - (IF Has(fl, "RD") THEN fl.cnt ELSE 0)

Ftello ==
  /\ Idle
  /\ \E o \in flush_if(Has(f, "WR"), f, file) :
       /\ Becomes(o)
       /\ \/ o.ok /\ End(<<Told(o.f, o.file)>>, TRUE)
          \/ (o.ok => "lseek" \in Faults) /\ End(<<>>, FALSE)
  /\ UNCHANGED <<mode, last, npush>>

Clearerr ==
  /\ Idle
  /\ f' = Off(f, {"ERR", "EOF"})
  /\ End(<<>>, TRUE)
  /\ UNCHANGED <<file, mode, last, npush>>

-----------------------------------------------------------------------------

Strings == UNION {[1 .. n -> Byte] : n \in 1 .. MaxCall}

\* "other" is none that setvbuf knows.
Policies == {"NBF", "LBF", "FBF", "other"}

Manage ==
  \/ \E m \in Modes : Fopen(m) \/ Freopen(m)
  \/ Fclose
  \/ \E p \in Policies, size \in {0, 1, BUFSIZ}, own \in BOOLEAN :
       Setvbuf(p, size, own)

Input ==
  \/ Fgetc \/ ReadTurn
  \/ \E n \in 1 .. MaxCall : Fgets(n) \/ Fread(n)
  \/ \E c \in Byte : Ungetc(c)

Output ==
  \/ \E c \in Byte : Fputc(c)
  \/ \E s \in Strings : Fputs(s) \/ Puts(s) \/ Fwrite(s)
  \/ FputsTurn \/ FputsEnd \/ PutsTurn \/ PutsEnd \/ FwriteLast \/ FwriteTurn

Position ==
  \/ Fflush \/ Rewind \/ Ftello \/ Clearerr
  \/ \E whence \in {"SET", "CUR", "END"}, d \in {-1, 0, 1} :
       Fseeko(whence, d)

Next == Manage \/ Input \/ Output \/ Position

Spec == Init /\ [][Next]_vars

-----------------------------------------------------------------------------
(* Correctness.                                                            *)

\* Every variable has its type, and a stream has one direction.
TypeOK ==
  /\ f \in [base : BOOLEAN, buf : [-1 .. BUFSIZ - 1 -> Byte \cup {Junk}],
            ptr : -1 .. BUFSIZ, cnt : 0 .. BUFSIZ + 1, bsize : 0 .. BUFSIZ,
            flags : SUBSET Flags]
  /\ ~({"RD", "WR"} \subseteq f.flags)
  /\ file \in [data : Seq(Byte), off : Nat, read : BOOLEAN,
               write : BOOLEAN, append : BOOLEAN]
  /\ mode \in Modes \cup {"closed"}
  /\ call.op \in {"none", "fgets", "fread", "fputs", "puts", "fwrite"}
  /\ call.rest \in Seq(Byte) /\ call.want \in 0 .. MaxCall
  /\ last \in {"open", "read", "write", "flush", "seek"}
  /\ npush \in 0 .. BUFSIZ + 1
  /\ out \in Seq(Int \cup {Junk}) /\ ret \in {"ok", "fail"}

\* Whatever mixture of calls, failures and buffer changes came before, the
\* types hold and the next _cnt bytes at _ptr are bytes of a buffer the
\* stream has.
BufferInBounds ==
  /\ TypeOK
  /\ f.cnt # 0 => /\ f.base
                  /\ f.ptr >= IF Has(f, "RESERVE") THEN -1 ELSE 0
                  /\ f.ptr + f.cnt <= f.bsize

\* What a program that reads will be given next is what the file holds at
\* its position, except for what it pushed back itself, and the end of the
\* file is only reported there.
ReadsTheFile ==
  /\ Has(f, "RD") => \A i \in npush + 1 .. f.cnt :
                       At(f, i) = file.data[file.off - f.cnt + i]
  /\ Has(f, "EOF") => Pos >= Len(View)

\* No byte of a buffer that was never filled is given to the program.
NoJunkRead == Junk \notin ToSet(out)

\* An unbuffered stream holds nothing back, a line-buffered one no line.
Honoured == /\ Has(f, "NBF") => Pending(f) = <<>>
            /\ Has(f, "LBF") => ~Contains(Pending(f), Newline)

\* The bytes of the call in progress that this step dealt with.
Consumed == SubSeq(call.rest, 1, Len(call.rest) - Len(call'.rest))

Written(bs) ==
  Overlay(View, IF file.append THEN Len(View) ELSE Pos, bs)

\* A writing function that does not fail writes its bytes, all of them and
\* in order, however often the buffer fills up on the way; what fflush and
\* fclose report as written has reached the kernel; and unless a write
\* fails the policy that was honoured stays so, and puts makes it so.
WritesItsBytes ==
  [][/\ \A c \in Byte : Fputc(c) /\ ret' = "ok" => View' = Written(<<c>>)
     /\ call.op \in {"fputs", "puts", "fwrite"} /\ ret' = "ok"
          => View' = Written(Consumed)
     /\ (Fflush \/ Fclose) /\ ret' = "ok" => file'.data = View
     /\ ret' = "ok" /\ ((Honoured /\ call'.op # "puts") \/ PutsEnd)
          => Honoured']_vars

\* fseek(stream, d, SEEK_CUR) moves d bytes from where the program is.
SeekIsRelative ==
  [][\A d \in {-1, 0, 1} :
       npush = 0 /\ Fseeko("CUR", d) /\ ret' = "ok" => Pos' = Pos + d]_vars

\* A seek that fails leaves the program where it is.
SeekFailsCleanly ==
  [][\A whence \in {"SET", "CUR", "END"}, d \in {-1, 0, 1} :
       npush = 0 /\ Fseeko(whence, d) /\ ret' = "fail" => Pos' = Pos]_vars

\* The stream is a file without a buffer.
Unbuffered == INSTANCE ByteFile WITH
  data <- View, stored <- file.data, appending <- file.append, pos <- Pos,
  pushed <- Pushed, eof <- Has(f, "EOF")

ImplementsByteFile == Unbuffered!Spec
=============================================================================
