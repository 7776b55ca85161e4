------------------------------ MODULE Numbers ------------------------------
(***************************************************************************)
(* Texts to integers (strtoull and its kin, src/src/c/stdlib), and sorting *)
(* and searching (qsort, bsearch).                                         *)
(***************************************************************************)
EXTENDS Text, FiniteSets, SequencesExt

CONSTANTS LongLong, Long        \* bits of long long and of long, 64 and 32

ASSUME NumbersAssumption == LongLong \in Nat /\ Long \in 2..LongLong

Unsigned(n, bits) == n % 2^bits
Signed(n, bits) == LET u == n % 2^bits
                   IN  IF u >= 2^(bits - 1) THEN u - 2^bits ELSE u
SignedMax(bits) == 2^(bits - 1) - 1

(* White space, a sign and a prefix: where the digits begin, and the base. *)
Prelude(s, base) ==
    LET i == CHOOSE k \in 1..Len(s) + 1 :
                /\ ~IsSpace(At(s, k))
                /\ \A m \in 1..k - 1 : IsSpace(At(s, m))
        j == IF At(s, i) \in {"-", "+"} THEN i + 1 ELSE i
        hex == /\ base \in {0, 16} /\ At(s, j) = "0"
               /\ At(s, j + 1) \in {"x", "X"}
    IN  [neg |-> At(s, i) = "-",
         from |-> IF hex THEN j + 2 ELSE j,
         base |-> IF hex THEN 16
                  ELSE IF base # 0 THEN base
                  ELSE IF At(s, j) = "0" THEN 8 ELSE 10]

(* The loop over the digits: any is 1 after the first and -1 once the       *)
(* number is beyond max.                                                    *)
RECURSIVE Accumulated(_, _, _, _, _, _)
Accumulated(s, i, base, max, acc, any) ==
    LET c == At(s, i)
        d == DigitValue(c)
        cutoff == max \div base
        cutlim == max % base
        over == any < 0 \/ acc > cutoff \/ (acc = cutoff /\ d > cutlim)
    IN  IF ~(IsDigit(c) \/ IsAlpha(c)) THEN [acc |-> acc, any |-> any, end |-> i]
        ELSE IF d >= base THEN [acc |-> acc, any |-> any, end |-> i]
        ELSE IF over THEN Accumulated(s, i + 1, base, max, acc, -1)
        ELSE Accumulated(s, i + 1, base, max, acc * base + d, 1)

Result(x, value) == [value |-> value, erange |-> x.any < 0,
                     end |-> IF x.any = 0 THEN 1 ELSE x.end]

(* b is the prelude, max what may be stored. *)
AllDigits(s, b, max) == Accumulated(s, b.from, b.base, max, 0, 0)

UnsignedResult(neg, x, max) == Result(x, IF x.any < 0 THEN max
                                         ELSE IF neg THEN Unsigned(-x.acc, LongLong) ELSE x.acc)
UnsignedOf(s, b, max) == UnsignedResult(b.neg, AllDigits(s, b, max), max)
strtoull(s, base) == UnsignedOf(s, Prelude(s, base), 2^LongLong - 1)

SignedResult(neg, x, max) == Result(x, IF x.any < 0 THEN IF neg THEN -max ELSE max
                                       ELSE IF neg THEN -x.acc ELSE x.acc)
SignedOf(s, b) ==
    LET max == IF b.neg THEN 2^(LongLong - 1) ELSE SignedMax(LongLong)
    IN  SignedResult(b.neg, AllDigits(s, b, max), max)
strtoll(s, base) == SignedOf(s, Prelude(s, base))

\* Bug: a value cut to the width of long is not reported.
Clamped_silent(r, low, high) ==
    [r EXCEPT !.value = IF r.value > high THEN high ELSE IF r.value < low THEN low ELSE @]

Clamped(r, low, high) ==
    IF r.value > high THEN [r EXCEPT !.value = high, !.erange = TRUE]
    ELSE IF r.value < low THEN [r EXCEPT !.value = low, !.erange = TRUE]
    ELSE r

strtol(s, base) ==
    Clamped(strtoll(s, base), -(2^(Long - 1)), SignedMax(Long))
strtoul(s, base) == Clamped(strtoull(s, base), 0, 2^Long - 1)

(* A number as programs write it, and what the standard says of it.  On    *)
(* 0x without a digit behind, strtoull takes nothing, not even the 0       *)
(* (README); prefixed numbers have digits.                                 *)
Numeral(space, sign, prefix, digits, rest) ==
    [text |-> space \o sign \o prefix \o digits \o rest,
     base |-> IF prefix \in {"0x", "0X"} THEN 16
              ELSE IF StartsWith(digits, 1, "0") THEN 8 ELSE 10,
     sign |-> IF sign = "-" THEN -1 ELSE 1, digits |-> digits,
     taken |-> Len(space) + Len(sign) + Len(prefix) + Len(digits) + 1]

(* The result of a conversion to low..high of the numeral with its own     *)
(* base (base 0) or the same base told: the value, or the bound it is      *)
(* beyond and ERANGE, and the end of the digits.                           *)
ConvertsTo(r, num, low, high) ==
    LET v == num.sign * NumberOf(num.digits, num.base)
    IN  IF num.digits = "" THEN r = [value |-> 0, erange |-> FALSE, end |-> 1]
        ELSE /\ r.end = num.taken
             /\ r.erange = (v \notin low..high)
             /\ r.value = IF v > high THEN high ELSE IF v < low THEN low ELSE v

(* Unsigned conversions negate in their width, and -1 is their maximum. *)
NegatesTo(r, num, high) ==
    LET v == NumberOf(num.digits, num.base)
    IN  /\ r.erange = (v > high)
        /\ r.value = IF v > high THEN high ELSE Unsigned(-v, LongLong)
-----------------------------------------------------------------------------
(* qsort and bsearch over elements [key, tag] that are compared by key. *)
compar(x, y) == x.key - y.key

Swapped(a, i, j) == [a EXCEPT ![i] = a[j], ![j] = a[i]]

(* The elements below the pivot move to the front: i is their number. *)
RECURSIVE Partition(_, _, _, _, _)
Partition(a, lo, n, i, j) ==
    IF j = n - 1 THEN [a |-> Swapped(a, lo + i, lo + n - 1), i |-> i]
    ELSE IF compar(a[lo + j], a[lo + n - 1]) < 0
         THEN Partition(Swapped(a, lo + i, lo + j), lo, n, i + 1, j + 1)
         ELSE Partition(a, lo, n, i, j + 1)

RECURSIVE qsort_recursive(_, _, _)
Halves(p, lo, n) ==
    qsort_recursive(qsort_recursive(p.a, lo, p.i), lo + p.i + 1, n - p.i - 1)
qsort_recursive(a, lo, n) == IF n <= 1 THEN a ELSE Halves(Partition(a, lo, n, 0, 0), lo, n)

qsort(a) == qsort_recursive(a, 1, Len(a))

RECURSIVE Halved(_, _, _, _)
Halved(key, a, l, u) ==
    LET idx == (l + u) \div 2
        comparison == compar(key, a[idx + 1])
    IN  IF l >= u THEN <<>>
        ELSE IF comparison < 0 THEN Halved(key, a, l, idx)
        ELSE IF comparison > 0 THEN Halved(key, a, idx + 1, u)
        ELSE <<idx + 1>>
bsearch(key, a) == Halved(key, a, 0, Len(a))

(* b is a, ordered: no element is lost or doubled. *)
IsSortOf(b, a) == /\ \A i \in 1..Len(b) - 1 : compar(b[i], b[i + 1]) <= 0
                  /\ Len(b) = Len(a) /\ ToSet(b) = ToSet(a)
=============================================================================
