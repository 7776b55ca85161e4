-------------------------------- MODULE Text --------------------------------
(***************************************************************************)
(* C strings as TLA+ strings: At(s, i) is the i-th character, counted from *)
(* one, and NUL behind the last, where the code finds its '\0'.  The       *)
(* character classes are the ranges of src/src/c/ctype.  A byte is a       *)
(* character of ASCII or, from 128 on, its two digits in base 16; Code(b)  *)
(* is its value, by which strcoll orders in the "C" locale.                *)
(***************************************************************************)
EXTENDS Integers, Sequences

NUL == ""

At(s, i) == IF i \in 1..Len(s) THEN SubSeq(s, i, i) ELSE NUL

Chars(s) == [i \in 1..Len(s) |-> At(s, i)]
CharsOf(s) == {At(s, i) : i \in 1..Len(s)}

Drop(s, n) == SubSeq(s, n + 1, Len(s))

StartsWith(s, i, w) == /\ i + Len(w) - 1 <= Len(s)
                       /\ SubSeq(s, i, i + Len(w) - 1) = w

(* A TLA+ string holds no back quote: the form feed stands for it. *)
Backquote == "\f"
Lowers == "abcdefghijklmnopqrstuvwxyz"
Uppers == "ABCDEFGHIJKLMNOPQRSTUVWXYZ"
Digits == "0123456789"
Printable == " !\"#$%&'()*+,-./" \o Digits \o ":;<=>?@" \o Uppers
                \o "[\\]^_\f" \o Lowers \o "{|}~"

IndexIn(s, c) == CHOOSE i \in 1..Len(s) : At(s, i) = c
CharCode == [c \in CharsOf(Printable) \cup {NUL, "\t", "\n"} |->
                CASE c = NUL -> 0
                  [] c = "\t" -> 9
                  [] c = "\n" -> 10
                  [] OTHER -> 31 + IndexIn(Printable, c)]

IsDigit(c) == c \in CharsOf(Digits)
IsLower(c) == c \in CharsOf(Lowers)
IsUpper(c) == c \in CharsOf(Uppers)
IsAlpha(c) == IsLower(c) \/ IsUpper(c)
IsBlank(c) == c \in {" ", "\t"}
IsSpace(c) == IsBlank(c) \/ c = "\n"

ToLower(c) == IF IsUpper(c) THEN At(Lowers, IndexIn(Uppers, c)) ELSE c
ToUpper(c) == IF IsLower(c) THEN At(Uppers, IndexIn(Lowers, c)) ELSE c

(* What a digit is worth, letters included. *)
DigitValue(c) == IF IsDigit(c) THEN CharCode[c] - CharCode["0"]
                               ELSE CharCode[ToLower(c)] - CharCode["a"] + 10

(* The number that the digits of s write in a base. *)
RECURSIVE NumberOf(_, _)
NumberOf(s, base) ==
    IF s = "" THEN 0
    ELSE NumberOf(SubSeq(s, 1, Len(s) - 1), base) * base + DigitValue(At(s, Len(s)))

(* And back: the digits of n in a base, "0" for 0. *)
RECURSIVE DigitsOf(_, _)
DigitsOf(n, base) ==
    LET d == At(Digits \o Lowers, (n % base) + 1)
    IN  IF n < base THEN d ELSE DigitsOf(n \div base, base) \o d

(* The digits at i and the place behind them. *)
Number(p, i) ==
    LET e == CHOOSE j \in i..Len(p) + 1 :
                /\ ~IsDigit(At(p, j))
                /\ \A k \in i..j - 1 : IsDigit(At(p, k))
    IN  [value |-> NumberOf(SubSeq(p, i, e - 1), 10), pos |-> e]

Code(b) == IF Len(b) = 2 THEN NumberOf(b, 16) ELSE CharCode[b]
ByteOf(n) == IF n >= 128 THEN DigitsOf(n, 16)
             ELSE CHOOSE c \in DOMAIN CharCode : CharCode[c] = n

Below(a, b) == Code(a) < Code(b)
Between(a, c, b) == Code(a) <= Code(c) /\ Code(c) <= Code(b)
IsGraph(c) == c # NUL /\ Between("!", c, "~")

ClassNames == {"alnum", "alpha", "blank", "cntrl", "digit", "graph",
               "lower", "print", "punct", "space", "upper", "xdigit"}
InClass(name, c) ==
    CASE name = "alnum"  -> IsAlpha(c) \/ IsDigit(c)
      [] name = "alpha"  -> IsAlpha(c)
      [] name = "blank"  -> IsBlank(c)
      [] name = "cntrl"  -> c \in {"\t", "\n"}
      [] name = "digit"  -> IsDigit(c)
      [] name = "graph"  -> IsGraph(c)
      [] name = "lower"  -> IsLower(c)
      [] name = "print"  -> IsGraph(c) \/ c = " "
      [] name = "punct"  -> IsGraph(c) /\ ~IsAlpha(c) /\ ~IsDigit(c)
      [] name = "space"  -> IsSpace(c)
      [] name = "upper"  -> IsUpper(c)
      [] name = "xdigit" -> IsDigit(c) \/ c \in CharsOf("abcdefABCDEF")
      [] OTHER           -> FALSE
=============================================================================
