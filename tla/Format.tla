------------------------------- MODULE Format -------------------------------
(***************************************************************************)
(* vfprintf and the calls around it (src/src/c/stdio).  A format is read   *)
(* conversion by conversion; each lays its field out and sends it byte by  *)
(* byte into a FILE, which is a string's buffer or a stream.               *)
(*                                                                         *)
(* Doubles are exact fractions [neg, num, den]: the error of the code's    *)
(* additions, multiplications and divisions by ten is left out, but not    *)
(* the limits: the cast to uintmax_t and what is too small to be scaled.   *)
(***************************************************************************)
EXTENDS Numbers, Utf8

CONSTANTS
    Bits,               \* the width of each integer type, by length modifier
    MaxWidth,           \* MAX_WIDTH and MAX_PRECISION, 256
    MaxPrecision,
    Tiny                \* what is below 10^-Tiny is not scaled, 15

Modifiers == {"hh", "h", "", "l", "ll", "L", "z", "t"}

ASSUME FormatAssumption == /\ Bits \in [Modifiers -> 2..LongLong]
                           /\ MaxWidth \in Nat /\ MaxPrecision \in Nat
                           /\ Tiny \in Nat

-----------------------------------------------------------------------------
(***************************************************************************)
(* Where the bytes go.  A string has kind "str": cnt is what may still be  *)
(* stored in mem, which is only counted when base is FALSE (NULL).  A      *)
(* stream is "nbf", or "buf" with cnt bytes left of bsize, and lines when  *)
(* it is line buffered.  External: the file takes disk bytes, then errors. *)
(***************************************************************************)
StringFile(cnt, base) == [kind |-> "str", cnt |-> cnt, base |-> base, mem |-> <<>>]
Stream(kind, bsize, lines, mode, cnt, disk) ==
    [kind |-> kind, bsize |-> bsize, lines |-> lines, mode |-> mode, cnt |-> cnt,
     base |-> kind = "buf", mem |-> <<>>, sent |-> <<>>, disk |-> disk, err |-> FALSE]

MinOf(a, b) == IF a <= b THEN a ELSE b
Write(f, bytes) == LET n == MinOf(Len(bytes), f.disk)
                   IN  [f EXCEPT !.sent = @ \o SubSeq(bytes, 1, n), !.disk = @ - n]


stdio_flush(f) == LET w == Write(f, f.mem)
                  IN  IF Len(f.mem) > f.disk THEN [w EXCEPT !.err = TRUE]
                      ELSE [w EXCEPT !.mem = <<>>, !.cnt = f.bsize]

Keep(f, c) == [f EXCEPT !.mem = Append(@, c), !.cnt = @ - 1]
Lined(f, c) == IF f.lines /\ c = "\n" THEN stdio_flush(f) ELSE f

(* r is the file and the count so far; c is one byte more. *)
out_char(r, c) ==
    LET f == r.f
        g == stdio_flush(f)
        To(file, n) == [r EXCEPT !.f = file, !.total = @ + n]
    IN  CASE f.kind = "str" /\ f.cnt > 0 ->
                To(IF f.base THEN Keep(f, c) ELSE [f EXCEPT !.cnt = @ - 1], 1)
          [] f.kind = "str" /\ f.cnt = 0 -> To(f, 1)
          [] f.kind = "nbf" -> To(Write(f, <<c>>), MinOf(1, f.disk))
          [] f.kind = "buf" /\ f.cnt > 0 -> To(Lined(Keep(f, c), c), 1)
          [] f.kind = "buf" /\ f.cnt = 0 ->
                IF Len(f.mem) > f.disk THEN To(g, 0) ELSE To(Lined(Keep(g, c), c), 1)

Put(r, bytes) == FoldLeft(out_char, r, bytes)
Times(n, c) == [i \in 1..n |-> c]

-----------------------------------------------------------------------------
(* A conversion specification: flags, width, precision, length modifier    *)
(* and type, read from place i with the arguments left.                    *)

FlagsEnd(p, i) == CHOOSE j \in i..Len(p) + 1 :
                     /\ At(p, j) \notin CharsOf("-+ #0")
                     /\ \A k \in i..j - 1 : At(p, k) \in CharsOf("-+ #0")
Flags(p, i) == {At(p, k) : k \in i..FlagsEnd(p, i) - 1}

ReadWidth(p, i, args) ==
    LET n == Number(p, i)
        star == At(p, i) = "*"
        w == IF star THEN Head(args) ELSE n.value
    IN  [value |-> MinOf(IF w < 0 THEN -w ELSE w, MaxWidth), left |-> w < 0,
         pos |-> IF star THEN i + 1 ELSE n.pos,
         args |-> IF star THEN Tail(args) ELSE args]

ReadPrecision(p, i, args) ==
    LET n == Number(p, i + 1)
        star == At(p, i + 1) = "*"
        v == IF star THEN Head(args) ELSE n.value
    IN  IF At(p, i) # "." THEN [value |-> -1, pos |-> i, args |-> args]
        ELSE [value |-> IF v < 0 THEN -1 ELSE MinOf(v, MaxPrecision),
              pos |-> IF star THEN i + 2 ELSE n.pos,
              args |-> IF star THEN Tail(args) ELSE args]

Modifier(p, i) ==
    CASE StartsWith(p, i, "hh") -> "hh"
      [] StartsWith(p, i, "ll") -> "ll"
      [] At(p, i) \in {"h", "l"} /\ At(p, i + 1) # At(p, i) -> At(p, i)
      [] At(p, i) \in {"L", "z", "t"} -> At(p, i)
      [] OTHER -> ""

ReadType(p, flags, width, prec) ==
    LET m == Modifier(p, prec.pos)
        t == prec.pos + Len(m)
    IN  [flags |-> flags, width |-> width, prec |-> prec.value, mod |-> m,
         type |-> At(p, t), next |-> t + 1, args |-> prec.args]
ReadRest(p, flags, w) == ReadType(p, flags \cup IF w.left THEN {"-"} ELSE {}, w.value,
                                  ReadPrecision(p, w.pos, w.args))
ReadSpec(p, i, args) == ReadRest(p, Flags(p, i), ReadWidth(p, FlagsEnd(p, i), args))

-----------------------------------------------------------------------------
(* _fmt_float.  q is the value, scaled so that its digits are all in front *)
(* of the point, rounded half up; e is the exponent it was scaled by.      *)

Float(neg, num, den) == [neg |-> neg, num |-> num, den |-> den]

RECURSIVE Scale(_, _)
Scale(num, den) == CASE num >= 10 * den -> 1 + Scale(num, 10 * den)
                     [] num < den -> Scale(10 * num, den) - 1
                     [] OTHER -> 0
Exponent(num, den) == IF num * 10^Tiny < den THEN 0 ELSE Scale(num, den)

Rounded(x, prec, e) ==
    LET num == x.num * 10^prec * (IF e < 0 THEN 10^(-e) ELSE 1)
        den == x.den * (IF e > 0 THEN 10^e ELSE 1)
    IN  (2 * num + den) \div (2 * den)

Padded(n, digits) == LET d == DigitsOf(n, 10)
                     IN  Times(digits - Len(d), "0") \o Chars(d)

(* %g drops the zeros behind the point, and the point. *)
RECURSIVE Trimmed(_)
Trimmed(d) == CASE Len(d) > 1 /\ Last(d) = "0" -> Trimmed(Front(d))
                [] Len(d) > 1 /\ Last(d) = "." -> Front(d)
                [] OTHER -> d

(* Behind %e's sign a short exponent is one 0, a longer one is missing:    *)
(* the digits are written and not counted.                                 *)
ExponentText(e) == IF e \in -9..9 THEN <<"0">> ELSE <<>>

Style(type, precision, e) ==
    LET general == type \in {"g", "G"}
        p == IF precision < 0 THEN 6 ELSE precision
        sig == IF p = 0 THEN 1 ELSE p
        fixed == IF general THEN sig > e /\ e >= -4 ELSE type \in {"f", "F"}
    IN  [fixed |-> fixed, general |-> general,
         prec |-> IF ~general THEN p ELSE IF fixed THEN sig - 1 - e ELSE sig - 1]

(* Rounding may give one digit more in front of the point. *)
Carried(st, q, e) == IF ~st.fixed /\ q >= 10^(st.prec + 1) THEN [q |-> q \div 10, e |-> e + 1]
                                                          ELSE [q |-> q, e |-> e]
(* The cast of what is in front of the point, which no uintmax_t may hold:  *)
(* the text, digits or not, is then undefined.                             *)
Undefined == <<"undefined">>

FloatDigits(st, q, flags) ==
    LET point == st.prec > 0 \/ "#" \in flags
        digits == Chars(DigitsOf(q \div 10^st.prec, 10))
                    \o (IF point THEN <<".">> ELSE <<>>)
                    \o IF st.prec > 0 THEN Padded(q % 10^st.prec, st.prec) ELSE <<>>
    IN  CASE q \div 10^st.prec >= 2^LongLong -> Undefined
          [] q \div 10^st.prec < 2^LongLong /\ st.general /\ point /\ "#" \notin flags ->
                Trimmed(digits)
          [] OTHER -> digits
WithExponent(st, n, flags, type) ==
    FloatDigits(st, n.q, flags)
        \o IF st.fixed THEN <<>>
           ELSE <<IF type \in {"e", "g"} THEN "e" ELSE "E", IF n.e >= 0 THEN "+" ELSE "-">>
                    \o ExponentText(n.e)

fmt_float(x, precision, flags, type) ==
    LET e == Exponent(x.num, x.den)
        st == Style(type, precision, e)
    IN  WithExponent(st, Carried(st, Rounded(x, st.prec, IF st.fixed THEN 0 ELSE e), e),
                     flags, type)
-----------------------------------------------------------------------------
(* The fields.  body is the text itself; value is what decides the prefix. *)

Field(s, sign, prefix, zeros, body, flags) ==
    [width |-> s.width, flags |-> flags, sign |-> sign, prefix |-> prefix,
     zeros |-> zeros, body |-> body]

SignOf(negative, flags) == IF negative THEN <<"-">>
                           ELSE IF "+" \in flags THEN <<"+">>
                           ELSE IF " " \in flags THEN <<" ">> ELSE <<>>

BaseOf(type) == CASE type = "o" -> 8
                  [] type \in {"x", "X", "p"} -> 16
                  [] type = "b" -> 2
                  [] OTHER -> 10

IntegerField(s, arg) ==
    LET signed == s.type \in {"d", "i"}
        bits == IF s.type = "p" THEN Long ELSE Bits[s.mod]
        n == IF signed THEN Signed(arg, bits) ELSE Unsigned(arg, bits)
        uval == IF n < 0 THEN -n ELSE n
        base == BaseOf(s.type)
        alt == "#" \in s.flags \/ s.type = "p"
        text == Chars(DigitsOf(uval, base))
        digits == IF s.type = "X" THEN [i \in DOMAIN text |-> ToUpper(text[i])] ELSE text
        prefix == CASE ~alt \/ (uval = 0 /\ s.type # "p") -> <<>>
                    [] alt /\ uval # 0 /\ base = 8 -> <<"0">>
                    [] alt /\ base = 16 -> <<"0", IF s.type = "X" THEN "X" ELSE "x">>
                    [] OTHER -> <<>>
        bare == s.prec = 0 /\ uval = 0 /\ ~(alt /\ base = 8)
    IN  Field(s, IF signed THEN SignOf(n < 0, s.flags) ELSE <<>>, prefix,
              IF s.prec > Len(digits) THEN s.prec - Len(digits) ELSE 0,
              IF bare THEN <<>> ELSE digits,
              IF s.prec >= 0 THEN s.flags \ {"0"} ELSE s.flags)

BytesOf(u) == [i \in DOMAIN u |-> ByteOf(u[i])]
Body(s, arg) ==
    CASE s.type \in {"c", "C"} ->
            IF s.type = "C" \/ s.mod = "l"
            THEN BytesOf(encode_utf8(arg))
            ELSE <<arg>>
      [] s.type = "s" -> LET t == Chars(IF arg = "NULL" THEN "(null)" ELSE arg)
                         IN  IF s.prec >= 0 THEN SubSeq(t, 1, MinOf(s.prec, Len(t))) ELSE t
      [] OTHER -> <<s.type>>          \* %% and what is no conversion

Layout(x) ==
    LET len == Len(x.sign) + Len(x.prefix) + x.zeros + Len(x.body)
        pad == IF x.width > len THEN x.width - len ELSE 0
        left == "-" \in x.flags
        zero == ~left /\ "0" \in x.flags
    IN  Times(IF left \/ zero THEN 0 ELSE pad, " ")
            \o x.sign \o x.prefix
            \o Times(IF zero THEN pad ELSE 0, "0")
            \o Times(x.zeros, "0") \o x.body
            \o Times(IF left THEN pad ELSE 0, " ")

(* Wide strings: whole characters, as many as the precision holds. *)
RECURSIVE WideBody(_, _, _)
OneMore(w, prec, sofar, u) == IF prec >= 0 /\ Len(sofar) + Len(u) > prec THEN sofar
                              ELSE WideBody(Tail(w), prec, sofar \o u)
WideBody(w, prec, sofar) ==
    IF w = <<>> THEN sofar ELSE OneMore(w, prec, sofar, BytesOf(encode_utf8(Head(w))))

WideField(s, arg) == Layout(Field(s, <<>>, <<>>, 0, WideBody(arg, s.prec, <<>>),
                                  s.flags \ {"0"}))

(* Types of which the next argument is read. *)
Integers8 == {"d", "i", "u", "o", "x", "X", "b", "p"}
Floats == {"f", "F", "e", "E", "g", "G"}
TakesArg == Integers8 \cup Floats \cup {"c", "C", "s", "S", "n"}

FieldText(s, arg) ==
    CASE s.type \in Integers8 -> Layout(IntegerField(s, arg))
      [] s.type \in Floats ->
            Layout(Field(s, SignOf(arg.neg, s.flags), <<>>, 0,
                         fmt_float(arg, s.prec, s.flags, s.type), s.flags))
      [] s.type = "S" \/ (s.type = "s" /\ s.mod = "l") -> WideField(s, arg)
      [] OTHER -> Layout(Field(s, <<>>, <<>>, 0, Body(s, arg), s.flags))

(* A stream that was read, or neutral and empty, becomes one to write. *)
Directed(f) ==
    IF f.kind = "str" THEN f
    ELSE [f EXCEPT !.mode = "w",
                   !.cnt = IF f.mode = "r" \/ (f.mode = "n" /\ @ = 0) THEN f.bsize ELSE @]

(* r also collects in ns what %n stores. *)
RECURSIVE Printed(_, _, _, _)
PrintField(r, p, s) ==
    LET takes == s.type \in TakesArg
        arg == IF takes THEN Head(s.args) ELSE ""
    IN  Printed(IF s.type = "n" THEN [r EXCEPT !.ns = Append(@, r.total)]
                ELSE Put(r, FieldText(s, arg)),
                p, s.next, IF takes THEN Tail(s.args) ELSE s.args)
Printed(r, p, i, args) ==
    CASE At(p, i) = NUL -> r
      [] At(p, i) = "%" -> PrintField(r, p, ReadSpec(p, i + 1, args))
      [] OTHER -> Printed(out_char(r, At(p, i)), p, i + 1, args)

vfprintf(f, p, args) == Printed([f |-> Directed(f), total |-> 0, ns |-> <<>>], p, 1, args)

-----------------------------------------------------------------------------
(* The calls that print into memory: what they return and what str holds,  *)
(* with the terminator at its place.                                       *)
Unlimited == 2147483647

InMemory(r) == [ret |-> r.total, str |-> IF r.f.base THEN Append(r.f.mem, NUL) ELSE <<>>]

vsnprintf(size, p, args) ==
    InMemory(vfprintf(IF size > 0 THEN StringFile(size - 1, TRUE)
                      ELSE StringFile(Unlimited, FALSE), p, args))

snprintf(size, p, args) == IF size = 0 THEN [ret |-> 0, str |-> <<>>]
                           ELSE InMemory(vfprintf(StringFile(size - 1, TRUE), p, args))

vsprintf(p, args) == InMemory(vfprintf(StringFile(Unlimited, TRUE), p, args))

(* In two passes: the first counts, for the memory. *)
Allocated(len, p, args) == [ret |-> len, str |-> vsnprintf(len + 1, p, args).str]
vasprintf(p, args, memory) == IF ~memory THEN [ret |-> -1, str |-> <<>>]
                              ELSE Allocated(vsnprintf(0, p, args).ret, p, args)

(* One write: what the descriptor takes of it. *)
Delivered(x, disk) ==
    LET f == Write(Stream("nbf", 0, FALSE, "w", 0, disk), Front(x.str))
    IN  IF x.ret = -1 THEN [ret |-> -1, sent |-> <<>>]
        ELSE [ret |-> IF x.ret > 0 /\ disk = 0 THEN -1 ELSE Len(f.sent), sent |-> f.sent]
dprintf(p, args, memory, disk) == Delivered(vasprintf(p, args, memory), disk)
-----------------------------------------------------------------------------
(***************************************************************************)
(* What the standard says of an integer's field t for the value v: blanks  *)
(* on one side up to the width, or zeros, a sign, a prefix, and as many    *)
(* digits as the value and the precision ask for.  ("#" with %o and a      *)
(* precision is left out: see the README.)                                 *)
(***************************************************************************)
Joined(t) == FoldLeft(LAMBDA a, b : a \o b, "", t)
MaxOf(a, b) == IF a > b THEN a ELSE b

SignFor(s, v) == CASE s.type \notin {"d", "i"} -> ""
                   [] s.type \in {"d", "i"} /\ v < 0 -> "-"
                   [] s.type \in {"d", "i"} /\ v >= 0 /\ "+" \in s.flags -> "+"
                   [] OTHER -> IF " " \in s.flags THEN " " ELSE ""
PrefixFor(s, v) == CASE s.type = "p" -> "0x"
                     [] s.type # "p" /\ ("#" \notin s.flags \/ v = 0) -> ""
                     [] s.type = "o" /\ "#" \in s.flags /\ v # 0 -> "0"
                     [] s.type \in {"x", "X"} /\ "#" \in s.flags /\ v # 0 -> "0" \o s.type
                     [] OTHER -> ""

IsIntField(t, s, v) ==
    LET base == BaseOf(s.type)
        mag == IF v < 0 THEN -v ELSE v
        left == "-" \in s.flags
        zero == "0" \in s.flags /\ ~left /\ s.prec < 0
        head == SignFor(s, v) \o PrefixFor(s, v)
        least == IF mag # 0 THEN Len(DigitsOf(mag, base))
                 ELSE IF s.prec # 0 \/ ("#" \in s.flags /\ base = 8) THEN 1 ELSE 0
    IN  \E l, r \in 0..Len(t) :
          LET text == Joined(SubSeq(t, l + 1, Len(t) - r))
              d == Drop(text, Len(head))
          IN  /\ l + r <= Len(t)
              /\ l > 0 => ~left /\ ~zero
              /\ r > 0 => left
              /\ \A i \in (1..l) \cup (Len(t) - r + 1..Len(t)) : t[i] = " "
              /\ StartsWith(text, 1, head)
              /\ \A i \in 1..Len(d) : IsDigit(At(d, i)) \/ IsAlpha(At(d, i))
              /\ NumberOf(d, base) = mag
              /\ Len(t) = MaxOf(s.width, Len(text))
              /\ Len(d) >= MaxOf(least, s.prec)
              /\ ~zero => Len(d) = MaxOf(least, s.prec)

(* The value of an argument in the type that the specification names. *)
ValueOf(s, arg) ==
    LET bits == IF s.type = "p" THEN Long ELSE Bits[s.mod]
    IN  IF s.type \in {"d", "i"} THEN Signed(arg, bits) ELSE Unsigned(arg, bits)

(* text is x to the precision of %f: off by half a unit of the last digit   *)
(* at most, and with as many digits behind the point.                       *)
IsFixed(text, x, prec) ==
    LET p == Number(text, 1)
        frac == Number(text, p.pos + 1)
    IN  /\ IF prec = 0 THEN p.pos = Len(text) + 1
           ELSE /\ At(text, p.pos) = "." /\ frac.pos = Len(text) + 1
                /\ frac.pos - p.pos - 1 = prec
        /\ LET n == p.value * 10^prec + IF prec = 0 THEN 0 ELSE frac.value
               off == 2 * (x.num * 10^prec - n * x.den)
           IN  off \in -x.den..x.den

(* text is x to as many significant digits as %g asks for: off by half a    *)
(* unit of the last of them at most, and without a zero at its end.        *)
IsGeneral(text, x, sig) ==
    LET p == Number(text, 1)
        frac == Number(text, p.pos + 1)
        places == IF p.pos > Len(text) THEN 0 ELSE Len(text) - p.pos
        n == p.value * 10^places + IF places = 0 THEN 0 ELSE frac.value
        off == 2 * (x.num * 10^places - n * x.den)
        Within(e) == LET unit == e + 1 - sig + places
                     IN  IF unit >= 0 THEN off \in -x.den * 10^unit..x.den * 10^unit
                         ELSE off * 10^(-unit) \in -x.den..x.den
        AtMost(e) == IF e < 0 THEN x.den <= x.num * 10^(-e) ELSE 10^e * x.den <= x.num
    IN  /\ places > 0 => /\ At(text, p.pos) = "." /\ frac.pos = Len(text) + 1
                         /\ At(text, Len(text)) # "0"
        /\ \E e \in -4..sig - 1 : AtMost(e) /\ ~AtMost(e + 1) /\ Within(e)

(* The sinks hold what fits of full, tell its whole length, and end it.     *)
Sinks(p, args, full) ==
    LET len == Len(full)
        Cut(n) == Append(SubSeq(full, 1, MinOf(n, len)), NUL)
    IN  /\ vsprintf(p, args) = [ret |-> len, str |-> Cut(len)]
        /\ vsnprintf(0, p, args).ret = len
        /\ \A n \in 1..len + 2 :
              /\ vsnprintf(n, p, args) = [ret |-> len, str |-> Cut(n - 1)]
              /\ snprintf(n, p, args) = vsnprintf(n, p, args)
        /\ vasprintf(p, args, TRUE) = [ret |-> len, str |-> Cut(len)]
        /\ \A disk \in 0..len + 1 :
              dprintf(p, args, TRUE, disk) =
                 [ret |-> IF len > 0 /\ disk = 0 THEN -1 ELSE MinOf(disk, len),
                  sent |-> SubSeq(full, 1, MinOf(disk, len))]

(* A stream's bytes arrive in order; when the file takes them all none is   *)
(* missing and the call returns their number.                               *)
StreamKeeps(f, r, full) ==
    /\ IsPrefix(r.f.sent, full)
    /\ f.disk >= Len(full) =>
          /\ r.f.sent \o r.f.mem = full /\ r.total = Len(full) /\ ~r.f.err
          /\ Len(r.f.mem) + r.f.cnt = r.f.bsize
          /\ r.f.lines => "\n" \notin ToSet(r.f.mem)
    /\ r.f.kind = "nbf" => r.total = Len(r.f.sent)
    /\ r.total < Len(full) => r.f.err \/ r.f.kind = "nbf"
PrintsTo(f, p, args, full) == StreamKeeps(f, vfprintf(f, p, args), full)
=============================================================================
