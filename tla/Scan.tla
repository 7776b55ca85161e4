-------------------------------- MODULE Scan --------------------------------
(***************************************************************************)
(* vfscanf and vsscanf (src/src/c/stdio).  Bytes come from a string, from  *)
(* a stream with a buffer or from one without, and are put back one at a   *)
(* time; chars_consumed must always say how many are gone.                 *)
(***************************************************************************)
EXTENDS Format

CONSTANT MaxScanWidth           \* MAX_SCAN_WIDTH, 256

ASSUME ScanAssumption == MaxScanWidth \in Nat \ {0}

EndOfFile == "EOF"

(***************************************************************************)
(* The file: buf with pos bytes of it read (_ptr - _base), and left, what  *)
(* read will give, at most bsize bytes at a time.  nomem: the byte that an *)
(* unbuffered stream needs to put one back cannot be had.  A stream that   *)
(* was written to last has its bytes in mem until they are sent.           *)
(***************************************************************************)
Source(kind, bytes, bsize, nomem) ==
    [kind |-> kind, buf |-> IF kind = "str" THEN bytes ELSE <<>>, pos |-> 0,
     left |-> IF kind = "str" THEN <<>> ELSE bytes, bsize |-> bsize, eof |-> FALSE,
     nomem |-> nomem, mode |-> "n", mem |-> <<>>, cnt |-> 0, sent |-> <<>>, disk |-> 0,
     err |-> FALSE]
Written(f, bytes, disk) == [f EXCEPT !.mode = "w", !.mem = bytes, !.disk = disk,
                                     !.cnt = f.bsize - Len(bytes)]

Unread(f) == Drop(f.buf, f.pos) \o f.left

(* What vfscanf knows: the file, the byte in hand, the count of bytes gone, *)
(* matches, the values stored and how it ended.                            *)
Took(r, f, c) == [r EXCEPT !.f = f, !.c = c]
in_char(r) ==
    LET f == r.f
        n == MinOf(f.bsize, Len(f.left))
    IN  IF f.pos < Len(f.buf) THEN Took(r, [f EXCEPT !.pos = @ + 1], f.buf[f.pos + 1])
        ELSE IF f.kind = "str" THEN Took(r, f, EndOfFile)
        ELSE IF f.kind = "nbf"
             THEN IF f.left = <<>> THEN Took(r, f, EndOfFile)
                  ELSE Took(r, [f EXCEPT !.left = Tail(@)], Head(f.left))
        ELSE IF f.eof \/ n = 0 THEN Took(r, [f EXCEPT !.eof = TRUE], EndOfFile)
        ELSE Took(r, [f EXCEPT !.buf = SubSeq(f.left, 1, n), !.pos = 1,
                               !.left = Drop(@, n)], Head(f.left))

unget(f, c) ==
    LET Room == [f EXCEPT !.buf = <<c>>, !.pos = 0]
    IN  CASE c = EndOfFile -> f
          [] c # EndOfFile /\ f.kind = "nbf" /\ f.pos = Len(f.buf) ->
                IF f.nomem /\ f.buf = <<>> THEN f ELSE Room
          [] c # EndOfFile /\ ~(f.kind = "nbf" /\ f.pos = Len(f.buf)) /\ f.pos > 0 ->
                [f EXCEPT !.pos = @ - 1, !.buf[f.pos] = c,
                          !.eof = IF f.kind = "str" THEN @ ELSE FALSE]
          [] OTHER -> f

(* The two idioms of the code: read and count, put back and uncount. *)
Counted(g) == IF g.c = EndOfFile THEN g ELSE [g EXCEPT !.consumed = @ + 1]
Get(r) == Counted(in_char(r))
\* Bug: a byte that is put back stays counted.
Back_counted(r) == [r EXCEPT !.f = unget(@, r.c)]


Back(r) == IF r.c = EndOfFile THEN r
           ELSE [r EXCEPT !.f = unget(@, r.c), !.consumed = @ - 1]

Ends(r, how) == [r EXCEPT !.end = how]
Store(r, x) == [r EXCEPT !.out = Append(@, x), !.nmatch = @ + 1]

RECURSIVE skip_whitespace(_)
BehindSpace(g) == IF IsSpace(g.c) THEN skip_whitespace(g) ELSE g
skip_whitespace(r) == BehindSpace(Get(r))

(* One character of UTF-8, as its code in wc, or -1.  The bytes of a       *)
(* character that breaks off are gone, but counted.                        *)
RECURSIVE Continued(_, _, _)
Continuation(g, more, code) ==
    CASE g.c = EndOfFile -> [g EXCEPT !.wc = -1]
      [] g.c # EndOfFile /\ ~IsCont(Code(g.c)) -> [g EXCEPT !.f = unget(@, g.c), !.wc = -1]
      [] OTHER -> Continued([g EXCEPT !.consumed = @ + 1], more - 1,
                            code * 64 + (Code(g.c) % 64))
Continued(r, more, code) == IF more = 0 THEN [r EXCEPT !.wc = code]
                            ELSE Continuation(in_char(r), more, code)
Led(g) ==
    LET lead == Follow(Code(g.c))
    IN  IF g.c = EndOfFile THEN [g EXCEPT !.wc = -1]
        ELSE IF lead.more = -1 THEN [Back(g) EXCEPT !.wc = -1]
        ELSE Continued(g, lead.more, lead.bits)
in_char_utf8(r) == Led(Get(r))

-----------------------------------------------------------------------------
(* A specification: * and a width (-1 for none), a length, a type. *)

ScanSpec(p, i) ==
    LET splat == At(p, i) = "*"
        j == IF splat THEN i + 1 ELSE i
        n == Number(p, j)
        m == IF At(p, n.pos) = "j" THEN "j" ELSE Modifier(p, n.pos)
    IN  [splat |-> splat, mod |-> m, type |-> At(p, n.pos + Len(m)),
         next |-> n.pos + Len(m) + 1,
         width |-> IF n.pos = j THEN -1 ELSE IF n.value = 0 THEN 1 ELSE n.value]

Less(width, n) == IF width > 0 THEN width - n ELSE width

(* The integers: [r, text, base, digit], text what strtoull will see. *)
RECURSIVE IntegerDigits(_, _, _)
IntegerDigits(x, width, base) ==
    LET c == x.r.c
    IN  IF c = EndOfFile THEN x
        ELSE IF \/ width = 0
                \/ ~(IsDigit(c) \/ IsAlpha(c))
                \/ DigitValue(c) >= base THEN [x EXCEPT !.r = Back(@)]
        ELSE IntegerDigits([r |-> Get(x.r), digit |-> TRUE,
                            text |-> IF Len(x.text) < MaxScanWidth THEN x.text \o c
                                     ELSE x.text],
                           Less(width, 1), base)

BaseFor(type) == CASE type = "i" -> 0
                   [] type \in {"x", "X", "p"} -> 16
                   [] type = "o" -> 8
                   [] OTHER -> 10

StoreInteger(x, s, base) ==
    LET res == strtoull(x.text, IF s.type = "p" THEN 16 ELSE base).value
        bits == IF s.type = "p" THEN Long
                ELSE IF s.mod \in {"z", "t", "j"} THEN Bits["l"]
                ELSE IF s.mod = "L" THEN Bits[""] ELSE Bits[s.mod]
    IN  CASE ~x.digit -> Ends(x.r, "match")
          [] x.digit /\ s.splat -> x.r
          [] OTHER -> Store(x.r, IF s.type \in {"d", "i"} THEN Signed(res, bits)
                                                          ELSE Unsigned(res, bits))
DigitsFrom(x, s, width, base) == StoreInteger(IntegerDigits(x, width, base), s, base)

(* Behind a 0 that may begin 0x: what comes next is read and put back. *)
AfterZero(peek, s, width, minus) ==
    IF peek.c \in {"x", "X"}
    THEN DigitsFrom([r |-> Get(peek), digit |-> TRUE, text |-> minus \o "0" \o peek.c],
                    s, Less(width, 2), 16)
    ELSE DigitsFrom([r |-> [Back(peek) EXCEPT !.c = "0"], digit |-> TRUE, text |-> minus],
                    s, width, IF BaseFor(s.type) = 0 THEN 8 ELSE 16)
AfterMinus(r, s, width, minus) ==
    LET base == BaseFor(s.type)
        zero == r.c = "0"
    IN  IF zero /\ width # 0 /\ base \in {0, 16} THEN AfterZero(Get(r), s, width, minus)
        ELSE DigitsFrom([r |-> r, digit |-> zero, text |-> minus], s, width,
                        IF base # 0 THEN base ELSE IF zero THEN 8 ELSE 10)
FirstOfInteger(first, s) ==
    CASE first.c = EndOfFile -> Ends(first, "input")
      [] first.c \in {"-", "+"} -> AfterMinus(Get(first), s, Less(s.width, 1),
                                             IF first.c = "-" THEN "-" ELSE "")
      [] OTHER -> AfterMinus(first, s, s.width, "")
ScanInteger(r, s) == FirstOfInteger(Get(r), s)

(* The floats: what may be a part of one is taken, strtod sees to the rest. *)
RECURSIVE FloatText(_, _)
FloatText(x, width) ==
    LET c == x.r.c
    IN  IF c = EndOfFile \/ Len(x.text) >= MaxScanWidth THEN x
        ELSE IF width = 0 \/ ~(IsDigit(c) \/ c \in CharsOf(".eE+-"))
             THEN [x EXCEPT !.r = Back(@)]
        ELSE FloatText([r |-> Get(x.r), text |-> x.text \o c,
                        digit |-> x.digit \/ IsDigit(c)], Less(width, 1))

Texted(r, s, text) == IF s.splat THEN r ELSE Store(r, text)

StoreFloat(x, s) == IF x.digit THEN Texted(x.r, s, x.text) ELSE Ends(x.r, "match")
FirstOfFloat(first, s) ==
    LET From(r, text, width) ==
            StoreFloat(FloatText([r |-> r, text |-> text, digit |-> FALSE], width), s)
    IN  CASE first.c = EndOfFile -> Ends(first, "input")
          [] first.c \in {"-", "+"} -> From(Get(first), first.c, Less(s.width, 1))
          [] OTHER -> From(first, "", s.width)
ScanFloat(r, s) == FirstOfFloat(Get(r), s)

(* Bytes up to white space, as long as the width lasts. *)

RECURSIVE StringBytes(_, _)
NextByte(x, g, width) ==
    IF g.c = EndOfFile \/ IsSpace(g.c) THEN [x EXCEPT !.r = Back(g)]
    ELSE StringBytes([r |-> g, text |-> Append(x.text, g.c)], Less(width, 1))
StringBytes(x, width) == IF width = 0 THEN x ELSE NextByte(x, Get(x.r), width)

StoreText(x, s) == Texted(x.r, s, x.text)
FirstOfString(first, s) ==
    IF first.c = EndOfFile THEN Ends(first, "input")
    ELSE StoreText(StringBytes([r |-> first, text |-> <<first.c>>], Less(s.width, 1)), s)
ScanString(r, s) == FirstOfString(skip_whitespace(r), s)

(* Wide: [r, text], at most width characters (-1: any number), up to white *)
(* space when spaces end them.                                             *)
RECURSIVE WideChars(_, _, _)
NextWide(x, g, width, spaces) ==
    IF g.wc = -1 THEN [x EXCEPT !.r = g]
    ELSE WideChars([r |-> g, text |-> Append(x.text, g.wc)], Less(width, 1), spaces)
UnlessSpace(x, peek, width) ==
    IF peek.c = EndOfFile \/ IsSpace(peek.c) THEN [x EXCEPT !.r = Back(peek)]
    ELSE NextWide(x, in_char_utf8(Back(peek)), width, TRUE)
WideChars(x, width, spaces) ==
    CASE width = 0 -> x
      [] width # 0 /\ spaces -> UnlessSpace(x, Get(x.r), width)
      [] OTHER -> NextWide(x, in_char_utf8(x.r), width, FALSE)

StoreWide(x, s) == IF x.text = <<>> THEN Ends(x.r, "input") ELSE Texted(x.r, s, x.text)
FirstOfWide(first, s) ==
    IF first.c = EndOfFile THEN Ends(first, "input")
    ELSE StoreWide(WideChars([r |-> Back(first), text |-> <<>>], s.width, TRUE), s)
ScanWideString(r, s) == FirstOfWide(skip_whitespace(r), s)

ScanWideChar(r, s) ==
    StoreWide(WideChars([r |-> r, text |-> <<>>], IF s.width = -1 THEN 1 ELSE s.width, FALSE), s)

(* %c: at the end of the input it counts as matched once something was. *)
RECURSIVE CharBytes(_, _)
NextChar(x, g, width) ==
    IF g.c = EndOfFile THEN [x EXCEPT !.r = IF g.nmatch = 0 THEN Ends(g, "input") ELSE g]
    ELSE CharBytes([r |-> g, text |-> Append(x.text, g.c)], width - 1)
CharBytes(x, width) == IF width = 0 THEN x ELSE NextChar(x, Get(x.r), width)

StoreChars(x, s) == IF x.r.end # "" THEN x.r ELSE Texted(x.r, s, x.text)
ScanChar(r, s) ==
    StoreChars(CharBytes([r |-> r, text |-> <<>>], IF s.width = -1 THEN 1 ELSE s.width), s)

(* %[: the set's text runs from i to the bracket that ends it; behind the *)
(* character that opens it a - is itself.                                  *)
RECURSIVE SetItems(_, _, _, _)
SetItems(p, i, opener, set) ==
    LET c == At(p, i)
        nx == At(p, i + 1)
        range == c = "-" /\ nx \notin {NUL, "]"} /\ At(p, i - 1) # opener
        Span == {x \in DOMAIN CharCode : Between(At(p, i - 1), x, nx)}
    IN  IF c = NUL THEN [set |-> set, next |-> i]
        ELSE IF c = "]" THEN [set |-> set, next |-> i + 1]
        ELSE IF range THEN SetItems(p, i + 2, opener, set \cup Span)
        ELSE SetItems(p, i + 1, opener, set \cup {c})

RECURSIVE SetBytes(_, _, _, _)
SetBytes(x, width, set, invert) ==
    LET c == x.r.c
    IN  IF c = EndOfFile THEN x
        ELSE IF width = 0 \/ (c \in set) = invert THEN [x EXCEPT !.r = Back(@)]
        ELSE SetBytes([r |-> Get(x.r), text |-> Append(x.text, c)], Less(width, 1), set, invert)

ScanSet(p, i) ==
    LET invert == At(p, i) = "^"
        from == IF invert THEN i + 1 ELSE i
        bare == At(p, from) = "]"
    IN  SetItems(p, IF bare THEN from + 1 ELSE from, IF invert THEN "^" ELSE "[",
                 IF bare THEN {"]"} ELSE {})

StoreSet(x, s) == IF x.text = <<>> THEN Ends(x.r, "match") ELSE Texted(x.r, s, x.text)
ScanMembers(first, s, p) ==
    IF first.c = EndOfFile THEN Ends(first, "input")
    ELSE StoreSet(SetBytes([r |-> first, text |-> <<>>], s.width, ScanSet(p, s.next).set,
                           At(p, s.next) = "^"), s)

-----------------------------------------------------------------------------
IsWide(s) == s.mod = "l" \/ s.type \in {"S", "C"}

ConvertNumber(skipped, s) ==
    CASE skipped.c = EndOfFile -> Ends(skipped, "input")
      [] skipped.c # EndOfFile /\ s.type \in {"d", "i", "u", "x", "X", "o", "p"} ->
            ScanInteger(Back(skipped), s)
      [] skipped.c # EndOfFile /\ s.type \in {"f", "e", "E", "g", "G"} ->
            ScanFloat(Back(skipped), s)
      [] OTHER -> Back(skipped)
Convert(r, s, p) ==
    CASE s.type = "n" -> IF s.splat THEN r ELSE [r EXCEPT !.out = Append(@, r.consumed)]
      [] s.type \in {"s", "S"} -> IF IsWide(s) THEN ScanWideString(r, s) ELSE ScanString(r, s)
      [] s.type \in {"c", "C"} -> IF IsWide(s) THEN ScanWideChar(r, s) ELSE ScanChar(r, s)
      [] s.type = "[" -> ScanMembers(Get(r), s, p)
      [] OTHER -> ConvertNumber(skip_whitespace(r), s)

(* A byte of the format that the input must have next. *)
Expect(g, c) == CASE g.c = EndOfFile -> Ends(g, "input")
                  [] g.c \notin {EndOfFile, c} -> Ends(Back(g), "match")
                  [] OTHER -> g
Literal(r, c) == Expect(Get(r), c)

RECURSIVE Scanned(_, _, _)
Directive(r, p, s) ==
    Scanned(Convert(r, s, p), p, IF s.type = "[" THEN ScanSet(p, s.next).next ELSE s.next)
Scanned(r, p, i) ==
    LET c == At(p, i)
    IN  CASE r.end # "" \/ c = NUL -> r
          [] r.end = "" /\ IsSpace(c) -> Scanned(IF IsSpace(At(p, i + 1)) THEN r
                                                ELSE Back(skip_whitespace(r)), p, i + 1)
          [] r.end = "" /\ c = "%" /\ At(p, i + 1) = "%" -> Scanned(Literal(r, "%"), p, i + 2)
          [] r.end = "" /\ c = "%" /\ At(p, i + 1) # "%" -> Directive(r, p, ScanSpec(p, i + 1))
          [] OTHER -> Scanned(Literal(r, c), p, i + 1)

ScanResult(r) == [ret |-> IF r.end = "input" /\ r.nmatch = 0 THEN -1 ELSE r.nmatch,
                  out |-> r.out, consumed |-> r.consumed, f |-> r.f]
(* What was written is sent, over what the file had there, and the buffer   *)
(* is then for reading.  A byte put back to an unbuffered stream stays.     *)
Sent(f) == LET g == stdio_flush(f)
           IN  IF f.mem = <<>> THEN f ELSE [g EXCEPT !.left = Drop(@, Len(g.sent) - Len(f.sent))]
ToRead(f) == IF f.kind = "str" \/ f.mode = "r" THEN f
             ELSE IF f.kind = "nbf" /\ f.mode = "n" THEN [f EXCEPT !.mode = "r"]
             ELSE [f EXCEPT !.mode = "r", !.buf = <<>>, !.pos = 0, !.cnt = 0]

\* Bug: the bytes that were written are left to the next flush.
Readied_unsent(f) == ToRead(f)

Readied(f) == LET g == Sent(f) IN IF g.mem = <<>> THEN ToRead(g) ELSE g
Scanning(f, p) ==
    IF f.mode = "w" THEN [ret |-> -1, out |-> <<>>, consumed |-> 0, f |-> f]
    ELSE ScanResult(Scanned([f |-> f, c |-> EndOfFile, wc |-> -1, consumed |-> 0,
                             nmatch |-> 0, out |-> <<>>, end |-> ""], p, 1))
vfscanf(f, p) == Scanning(Readied(f), p)

vsscanf(bytes, p) == vfscanf(Source("str", bytes, 0, FALSE), p)
=============================================================================
