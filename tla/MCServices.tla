----------------------------- MODULE MCServices -----------------------------
(***************************************************************************)
(* Instances of the modules about conversions, time, directories and exit. *)
(* A behaviour picks one of them and stays with it; input is what it       *)
(* passes.  What has no state is asked in the properties.                  *)
(***************************************************************************)
EXTENDS Scan, Decimals, Runtime, MultibyteStrings, Strftime, Directory, Exit, TLC

VARIABLE input
vars == <<input, mbVars, strftimeVars, directoryVars, exitVars>>

Only(lib) == /\ IF lib = "pieces" THEN TRUE ELSE UNCHANGED mbVars
             /\ IF lib = "time" THEN TRUE ELSE UNCHANGED strftimeVars
             /\ IF lib = "dir" THEN TRUE ELSE UNCHANGED directoryVars
             /\ IF lib = "exit" THEN TRUE ELSE UNCHANGED exitVars

Untouched == input.lib = "none" /\ Only("none")

-----------------------------------------------------------------------------
(* Narrow types, so that every width overflows in the instance.            *)
MCBits == [m \in Modifiers |-> CASE m = "hh" -> 4 [] m = "h" -> 5 [] m = "ll" -> 8 [] OTHER -> 6]

FlagSets == {{}, {"-"}, {"+"}, {" ", "0"}, {"#"}, {"#", "0"}, {"-", "0"}, {"+", "0", "#"}, {"-", "+", " "}}
PickPrint ==
    /\ Untouched
    /\ \E fl \in FlagSets, w \in {"", "4", "*"}, p \in {"", ".", ".3", ".*"}, m \in {"hh", "", "ll"} :
          input' = [lib |-> "print", mod |-> m, width |-> w, prec |-> p,
                    head |-> "%" \o Joined(SetToSeq(fl)) \o w \o p \o m]
PickType == /\ input.lib = "print" /\ "type" \notin DOMAIN input
            /\ \E t \in Integers8, star \in {-5, 2} :
                  /\ star = 2 \/ input.width = "*" \/ input.prec = ".*"
                  /\ input' = input @@ [type |-> t, star |-> star]
            /\ Only("none")
PrintedValues == {-129, -128, -9, -1, 0, 1, 7, 8, 16, 31, 127, 255}
StarsOf(x) == (IF x.width = "*" THEN <<x.star>> ELSE <<>>)
                \o IF x.prec = ".*" THEN <<x.star>> ELSE <<>>

(* What is printed into sinks and streams, with its arguments.             *)
Prints == {[p |-> "a%%", args |-> <<>>], [p |-> "%d\nb", args |-> <<-7>>],
           [p |-> "%5s|", args |-> <<"ab">>], [p |-> "%-4c", args |-> <<"x">>],
           [p |-> "%.2s%x", args |-> <<"abc", 42>>], [p |-> "%s", args |-> <<"NULL">>],
           [p |-> "%ls", args |-> <<<<97, 233>>>>], [p |-> "%.2S", args |-> <<<<233, 233>>>>],
           [p |-> "%q", args |-> <<>>],
           [p |-> "\n%.1f\n", args |-> <<Float(TRUE, 5, 2)>>], [p |-> "", args |-> <<>>]}
PickSink == /\ Untouched
            /\ \E x \in Prints, len \in 0..3, lines \in BOOLEAN :
                  input' = [lib |-> "sink", print |-> x, bsize |-> len, lines |-> lines]

PickFloat == /\ Untouched
             /\ \E n \in {0, 1, 3, 5, 99, 95, 996, 1234, 2549, 2551},
                   d \in {1, 2, 3, 8, 10, 100, 1000000}, p \in 0..3 :
                   input' = [lib |-> "float", x |-> Float(FALSE, n, d), prec |-> p]

FloatField(type) ==
    Joined(FieldText(ReadSpec("%." \o DigitsOf(input.prec, 10) \o type, 2, <<input.x>>), input.x))
(* What %g prints without an exponent. *)
Positional(x, sig) == x.num * 10^4 >= x.den /\ x.num < 10^sig * x.den

PrintsInt(s, v) == \/ s.type = "o" /\ "#" \in s.flags /\ s.prec > 0
                   \/ IsIntField(FieldText(s, v), s, ValueOf(s, v))


-----------------------------------------------------------------------------
(* Formats of two conversions and what is given to them.                   *)
Convs == {"%d", "%2d", "%i", "%3x", "%*d", "%s", "%2s", "%c", "%2c", "%[a-c]", "%2[^ ]", "%n",
          "%ls", "%lc", "%f", "%2f", "%%", "x", " ", "%1i", "%hhu"}
Given8 == {Chars("12 0x1f"), Chars("-5"), Chars("- 5"), Chars("0x"), Chars("08a"), Chars(" \tab c"),
           <<>>, Chars("%1"), Chars("x1x-"), Chars("1.5e3 2"), <<"c3", "a9", "a">>,
           <<"e2", "82", "ac", " ", "a">>, <<"c3">>, <<"c3", "a">>, <<"80", "1">>, Chars("abc-]d")}
PickScan == /\ Untouched
            /\ \E a \in Convs : input' = [lib |-> "scan", format |-> a, full |-> FALSE]
ScanMore == /\ input.lib = "scan" /\ ~input.full
            /\ \E b \in Convs, c \in {"", "%n", "%d"} :
                  input' = [lib |-> "scan", format |-> input.format \o b \o c, full |-> TRUE]
            /\ Only("none")

ReadsBack(s, v) == vsscanf(FieldText(s, v), "%" \o s.mod \o s.type).out = <<ValueOf(s, v)>>
(* What is read from: the bytes in a string and in streams, and behind what  *)
(* was written, on a disk that takes as many bytes of it.                    *)
Given(b) == {Source("str", b, 0, FALSE), Source("nbf", b, 0, FALSE),
             Source("buf", b, 1, FALSE), Source("buf", b, 2, FALSE)}
Rewritten(b, disk) == Written(Source("buf", <<"1", "2">> \o b, 2, FALSE), <<"x", "y">>, disk)
ScanAgrees(q, r, b) == /\ q.ret = r.ret /\ q.out = r.out /\ q.consumed = r.consumed
                       /\ Unread(q.f) = Drop(b, q.consumed)
ReadsNothing(q, b) == /\ q.ret = -1 /\ q.out = <<>> /\ q.f.err
                      /\ q.f.mem = <<"x", "y">> /\ Unread(q.f) = <<"2">> \o b

(* The same input gives the same matches, values and count of bytes from a  *)
(* string and from a stream with any buffer or none, and the stream is left *)
(* at the first byte that was not consumed.  A stream that was written to   *)
(* first sends what it holds, and reads behind it; when it cannot, it reads *)
(* nothing and keeps it.  What %d, %i, %u, %x, %o and %p print they read    *)
(* back as the same value.                                                  *)
ScansAlike ==
    /\ input.lib = "scan" =>
          \A b \in Given8 :
              LET sends == Rewritten(b, 2)
                  cannot == Rewritten(b, 1)
                  read == [f \in Given(b) \cup {sends, cannot} |-> vfscanf(f, input.format)]
                  r == read[Source("str", b, 0, FALSE)]
              IN  /\ \A f \in Given(b) \cup {sends} : ScanAgrees(read[f], r, b)
                  /\ read[sends].f.sent = <<"x", "y">> /\ read[sends].f.mem = <<>>
                  /\ ReadsNothing(read[cannot], b)
    /\ input.lib = "print" /\ "type" \in DOMAIN input /\ input.type \in {"d", "i", "u", "x", "o", "p"}
          /\ input.head \in {"%", "%hh", "%ll", "%4ll", "%+"} =>
             \A v \in PrintedValues :
                ReadsBack(ReadSpec(input.head \o input.type, 2, <<v>>), v)

-----------------------------------------------------------------------------
(* Numerals: space, sign, prefix, digits and what follows; decimals; what   *)
(* is sorted.                                                               *)
DigitRuns == {"", "0", "7", "1", "00", "07", "17", "10", "31", "32", "33", "127", "128", "129",
              "255", "256", "8", "9", "F", "1f", "20", "7F", "80", "ff", "100", "377", "400"}
PickNumeral == /\ Untouched
               /\ \E space \in {"", " ", "\n\t"}, sign \in {"", "-", "+"}, pre \in {"", "0x", "0X"} :
                     input' = [lib |-> "numeral", space |-> space, sign |-> sign, prefix |-> pre]
PickDecimal == /\ Untouched
               /\ \E neg \in BOOLEAN, int \in {"0", "5", "12", "007"}, frac \in {NUL, "0", "25", "5"} :
                     input' = [lib |-> "decimal", neg |-> neg, int |-> int, frac |-> frac]
PickArray == /\ Untouched
             /\ \E n \in 0..4 : \E a \in [1..n -> 1..3] : input' = [lib |-> "array", keys |-> a]

ConvertsNumeral(x, d, rest) ==
    LET num == Numeral(x.space, x.sign, x.prefix, d, rest)
        fits == /\ \A c \in CharsOf(d) : DigitValue(c) < num.base
                /\ x.prefix # "" => d # ""
                /\ rest = "9" => num.base = 8
    IN  fits => \A told \in {0, num.base} :
            /\ ConvertsTo(strtoll(num.text, told), num, -(2^(LongLong - 1)), SignedMax(LongLong))
            /\ ConvertsTo(strtol(num.text, told), num, -(2^(Long - 1)), SignedMax(Long))
            /\ IF x.sign = "-" THEN NegatesTo(strtoull(num.text, told), num, 2^LongLong - 1)
               ELSE /\ ConvertsTo(strtoull(num.text, told), num, 0, 2^LongLong - 1)
                    /\ ConvertsTo(strtoul(num.text, told), num, 0, 2^Long - 1)

ConvertsDecimal(x, exp, rest) ==
    LET num == Written10(x.neg, x.int, x.frac, exp)
        s == num.text \o rest
    IN  \A r \in {strtod(s), strtold(s)} : r.value = num.value /\ r.end = Len(num.text) + 1

Tagged(a) == [i \in DOMAIN a |-> [key |-> a[i], tag |-> i]]

(* A numeral in its own base, or told it, is its value in the width of the  *)
(* type, or the bound it passed and ERANGE, and ends behind its digits;     *)
(* strtod and strtold agree on decimals; qsort orders what it is given, and *)
(* bsearch finds in it a key that is there and no other; strings of         *)
(* characters and of bytes convert into each other, whole or as far as the  *)
(* memory goes, and never a part of a character.                            *)
StdlibConverts ==
    /\ input.lib = "numeral" =>
          \A d \in DigitRuns, rest \in {"", " ", "g", "9"} : ConvertsNumeral(input, d, rest)
    /\ input.lib = "decimal" =>
          \A exp \in {-12, -1, 0, 1, 3, 10}, rest \in {"", " 1", "x", "."} :
             (rest = "." => input.frac # NUL \/ exp # 0) =>
                ConvertsDecimal(input, exp, rest)
    /\ input.lib = "array" =>
          LET a == Tagged(input.keys)
              b == qsort(a)
          IN  /\ IsSortOf(b, a)
              /\ \A k \in 0..4 :
                    LET f == bsearch([key |-> k, tag |-> 0], b)
                    IN  IF f = <<>> THEN \A i \in DOMAIN b : b[i].key # k
                                    ELSE b[f[1]].key = k
    /\ input.lib = "wide" => StringsConvert(input.w)

-----------------------------------------------------------------------------
(* All integers of the width, against all others and all doubles.          *)
PickHigh == Untouched /\ \E h \in 0..15 : input' = [lib |-> "integers", high |-> h]
PickLow == /\ input.lib = "integers"
           /\ \E l \in 0..(Modulus \div 16) - 1 :
                 input' = [lib |-> "integer", n |-> input.high * (Modulus \div 16) + l]
           /\ Only("none")

(* The division functions truncate like C's operators, LLONG_MIN by -1      *)
(* included; an integer becomes the nearest double, ties to even; and a     *)
(* double within range becomes the integer that is left of its value.       *)
RuntimeExact ==
    input.lib = "integer" =>
        LET n == input.n
            s == AsSigned(n)
        IN  /\ \A d \in 1..Modulus - 1 : Truncates(n, d, udiv(n, d), umod(n, d))
            /\ \A d \in (LLONG_MIN..LLONG_MAX) \ {0} :
                  IF s = LLONG_MIN /\ d = -1 THEN div(s, d) = s /\ mod(s, d) = 0
                  ELSE Truncates(s, d, div(s, d), mod(s, d))
            /\ Nearest(s, floatdidf(s)) /\ Nearest(n, floatundidf(n))
            /\ \A a \in {x \in Doubles : Abs(Worth(x)) \div 2^Fraction = n} :
                  /\ a.exp < Wide - 1 => fixdfdi(a) = IF a.sign = 1 THEN -n ELSE n
                  /\ a.exp < Wide /\ a.sign = 0 => fixunsdfdi(a) = n

-----------------------------------------------------------------------------
(* Bytes around every bound of UTF-8, in pieces; strings of characters.    *)
SomeBytes == {0, 65, 128, 159, 160, 191, 193, 194, 224, 237, 240, 244, 245}
ByteTexts == UNION {[1..n -> SomeBytes] : n \in 1..2}
               \cup {<<a, b, c>> : a \in {65, 194, 224, 237}, b \in SomeBytes, c \in SomeBytes}
               \cup {<<a, b, c, d>> : a \in {240, 244, 224}, b \in SomeBytes,
                                      c \in {128, 65}, d \in {191, 65, 0}}
Codes == {65, 128, 2047, 2048, 65535, 65536, 1114111, 55295}
WideTexts == {<<>>} \cup {<<a>> : a \in Codes \cup {55296, 1114112}}
               \cup {<<a, b>> : a \in Codes, b \in Codes \cup {55296}}
               \cup {<<a, b, c>> : a \in {65, 65536}, b \in {128, 2048}, c \in Codes}
PickText == /\ input.lib = "none"
            /\ text' \in ByteTexts /\ UNCHANGED <<fed, ps, got, mbret>>
            /\ input' = [lib |-> "pieces"] /\ Only("pieces")
Feed == input.lib = "pieces" /\ MultibyteNext /\ UNCHANGED input /\ Only("pieces")
PickWide == Untouched /\ \E w \in WideTexts : input' = [lib |-> "wide", w |-> w]

-----------------------------------------------------------------------------
(* Zones: with and without daylight saving time, with one type only, cut    *)
(* short, with a bad second header, without transitions, and no file.       *)
Type(gmtoff, isdst, abbr) == [gmtoff |-> gmtoff, isdst |-> isdst, abbr |-> abbr]
East == Zone(<<-100 * 12 * 365, 40, 100, 160, 220>>, <<1, 0, 1, 2, 0>>,
             <<Type(4, 1, "S"), Type(2, 0, "N"), Type(-7, 0, "M")>>)
West == Zone(<<50, 90>>, <<1, 0>>, <<Type(-3, 0, "E"), Type(-2, 1, "D")>>)
Summer == Zone(<<7>>, <<0>>, <<Type(5, 1, "X")>>)
Broken == Zone(<<40>>, <<2>>, <<Type(2, 0, "S"), Type(5, 1, "D")>>)
Fixed == Zone(<<>>, <<>>, <<Type(5, 0, "X")>>)
MCFiles == ("none" :> NoFile) @@ ("east" :> ZoneFile(2, West, East, 6, 0))
            @@ ("west" :> ZoneFile(1, West, NoZone, 5, 0))
            @@ ("summer" :> ZoneFile(2, West, Summer, 6, 0))
            @@ ("broken" :> ZoneFile(2, West, Broken, 6, 0))
            @@ ("cut" :> ZoneFile(2, West, Summer, 4, 0))
            @@ ("bad" :> ZoneFile(2, West, Summer, 6, 2))
            @@ ("fixed" :> ZoneFile(2, Fixed, Fixed, 6, 0))
MCUnset == {0, 7}
Instants == {-13, -12, -1, 0, 3, 6, 7, 8, 39, 40, 41, 49, 50, 51, 89, 90, 99, 100, 159, 160, 219, 220, 221}
              \cup {d * 12 + x : d \in {-36501, -36500, -25567, -25568, -25509, -25508, 365, 789,
                                        790, 10956, 11015, 11016, 11017, 47540, 47541, 47542}, x \in {0, 11}}
(* Fields out of range, and every local time around the transitions.        *)
Odd == {[sec |-> -1, min |-> 5, hour |-> h, mday |-> d, mon |-> m, year |-> y] :
            h \in {-1, 3}, d \in {-40, 0, 31, 400}, m \in {-25, -24, -12, -1, 0, 1, 2, 11, 12, 24},
            y \in {-1, 0, 1, 70, 100, 200}}
Near == {[sec |-> s, min |-> mi, hour |-> h, mday |-> d, mon |-> 0, year |-> 70] :
            s \in 0..1, mi \in 0..1, h \in 0..2, d \in 1..21}

PickTime == input.lib = "none" /\ input' = [lib |-> "time"] /\ Only("none")
AskTime ==
    /\ input.lib = "time"
    /\ \/ tz.gen < 2 /\ call = NoCall /\ shown = NoTm /\ \E name \in DOMAIN MCFiles : Setenv(name)
       \/ tz.gen < 2 /\ \E memory \in {0, 3, 5} : Tzset(memory)
       \/ call = NoCall /\ shown = NoTm /\ \E t \in Instants, memory \in {3, 5} : Localtime(t, memory)
       \/ call = NoCall /\ shown = NoTm /\ \E tm \in Near \cup Odd : Mktime(tm, 5)
    /\ UNCHANGED <<input, first, written>> /\ Only("time")

Formats == {"%Y-%m-%d", "a%b", "%a %d", "%A", "%c", "%e:%n", "%G-W%V", "%Es|", "%Z", "", "abc", "%", "a%",
            "%%", "%z%Z", "%I%p", "%T", "%q", "%Oy", "%x%X", "%r", "%j", "%s%%"}
Shown == {-30000 * 12, 41, 150}
FormatTime ==
    /\ input.lib = "time" /\ env = "east" /\ tz.gen = 1
    /\ call.op = "localtime" /\ call.time \in {-25568 * 12, 41}
    /\ \E n \in {0, 1, 2, 3, 4, 5, 6, 8, 9, 11, 12, 24, 25, 26}, f \in Formats : Strftime(n, f, shown, 5)
    /\ input' = [lib |-> "formatted"] /\ Only("time")

PickYear == /\ Untouched
            /\ \E y \in 1898..1904 \cup 1968..2001 : input' = [lib |-> "year", year |-> y]

(* strftime gives the whole text or 0 (Strftime), its weeks are those of    *)
(* the calendar on every day of a year, and asctime writes what the same    *)
(* conversions of strftime do.                                              *)
TextOfTime(f, tm) == strftime(100, f, tm, 5).s
TimeIsWritten ==
    /\ FitsOrNothing
    /\ input.lib = "year" =>
          \A d \in 0..YearLength(input.year) - 1 :
             LET tm == gmtime((CivilDays(input.year, 0, 1) + d) * Day + (d % Day))
             IN  /\ RightWeeks(tm)
                 /\ d % 20 = 0 => asctime(tm) = TextOfTime("%a %b %e %H:%M:%S %Y%n", tm)

-----------------------------------------------------------------------------
(* A small tree with deleted entries and a directory without any.          *)
MCNames == {".", "..", "a", "b", "c", "e", "w", "x", "y", "z"}
MCDirs == {<<>>, <<"a">>, <<"a", "b">>, <<"a", "b", "c">>, <<"a", "e">>}
MCListing ==
    (<<>> :> <<Record(".", 1), Record("..", 1), Record("a", 1), Record("z", 0)>>)
    @@ (<<"a">> :> <<Record(".", 1), Record("..", 1), Record("z", 0), Record("y", 0),
                     Record("x", 1), Record("b", 1), Record("e", 1)>>)
    @@ (<<"a", "b">> :> <<Record(".", 1), Record("..", 1), Record("c", 1)>>)
    @@ (<<"a", "b", "c">> :> <<Record(".", 1), Record("..", 1), Record("x", 0), Record("x", 0),
                               Record("w", 0)>>)
    @@ (<<"a", "e">> :> <<>>)
UseDirectories == /\ input.lib \in {"none", "dir"} /\ DirectoryNext
                  /\ input' = [lib |-> "dir"] /\ Only("dir")

UseExit == /\ input.lib \in {"none", "exit"} /\ ExitNext
           /\ input' = [lib |-> "exit"] /\ Only("exit")

-----------------------------------------------------------------------------
Init == /\ input = [lib |-> "none"]
        /\ text = <<>> /\ MultibyteInit /\ StrftimeInit("none") /\ DirectoryInit /\ ExitInit

Next == \/ PickPrint \/ PickType \/ PickSink \/ PickFloat
        \/ PickScan \/ ScanMore \/ PickNumeral \/ PickDecimal \/ PickArray
        \/ PickHigh \/ PickLow \/ PickText \/ Feed \/ PickWide
        \/ PickTime \/ AskTime \/ FormatTime \/ PickYear
        \/ UseDirectories \/ UseExit

Spec == Init /\ [][Next]_vars
=============================================================================
