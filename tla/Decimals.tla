------------------------------ MODULE Decimals ------------------------------
(***************************************************************************)
(* strtod and strtold (src/src/c/stdlib).  A double is the decimal number  *)
(* [neg, num, exp], worth num * 10^exp and exact: the rounding of the      *)
(* arithmetic, the limits of a double and errno are left out.              *)
(***************************************************************************)
EXTENDS Text

Decimal(neg, num, exp) == [neg |-> neg, num |-> num, exp |-> exp]
Answer(neg, num, exp, end) == [value |-> Decimal(neg, num, exp), end |-> end]

NonSpace(s) == CHOOSE i \in 1..Len(s) + 1 : ~IsSpace(At(s, i))
                                         /\ \A k \in 1..i - 1 : IsSpace(At(s, k))
Signs == {"-", "+"}
AfterSign(s, i) == IF At(s, i) \in Signs THEN i + 1 ELSE i
NonZero(s, i) == CHOOSE j \in i..Len(s) + 1 : At(s, j) # "0"
                                           /\ \A k \in i..j - 1 : At(s, k) = "0"

(* The digits from p on and behind a point: their number, how many are     *)
(* behind it, and the place after them.                                    *)
Mantissa(s, p) ==
    LET int == Number(s, p)
        frac == Number(s, int.pos + 1)
        places == frac.pos - int.pos - 1
    IN  IF At(s, int.pos) # "." THEN [num |-> int.value, places |-> 0, pos |-> int.pos,
                                      digits |-> int.pos > p]
        ELSE [num |-> int.value * 10^places + frac.value, places |-> places,
              pos |-> frac.pos, digits |-> int.pos > p \/ places > 0]

(* The exponent of strtod: its zeros are skipped, and what comes next is   *)
(* taken for a digit, whatever it is, unless the text ends.                *)
Exponent10(s, p) ==
    LET z == IF At(s, NonZero(s, p)) = NUL THEN NonZero(s, p) - 1 ELSE NonZero(s, p)
        more == Number(s, z + 1)
    IN  [value |-> (Code(At(s, z)) - Code("0")) * 10^(more.pos - z - 1) + more.value,
         pos |-> more.pos]

strtod(s) ==
    LET i == NonSpace(s)
        neg == At(s, i) = "-"
        p == AfterSign(s, i)
        m == Mantissa(s, p)
        e == AfterSign(s, m.pos + 1)
        x == Exponent10(s, e)
        down == At(s, m.pos + 1) = "-"
        digit == IsDigit(At(s, m.pos - 1))
        Plain(end) == Answer(neg, m.num, -m.places, end)
    IN  IF ~IsDigit(At(s, p)) /\ At(s, p) # "." THEN Answer(FALSE, 0, 0, 1)
        ELSE IF At(s, m.pos) \in {"e", "E"}
             THEN IF IsDigit(At(s, e))
                  THEN Answer(neg, m.num,
                              (IF x.value < 0 THEN 0 ELSE IF down THEN -x.value ELSE x.value)
                                 - m.places, x.pos)
                  ELSE IF ~digit THEN Plain(1)
                  ELSE IF At(s, e) = NUL THEN Plain(m.pos)
                  ELSE Plain(e)
        ELSE IF m.pos > 1 /\ ~digit THEN Plain(1) ELSE Plain(m.pos)

(* strtold also reads infinities and NaNs; behind an e without digits it   *)
(* goes back by one character.                                             *)
Reads3(s, i, w) == \A k \in 1..Len(w) : ToLower(At(s, i + k - 1)) = At(w, k)

strtold(s) ==
    LET i == NonSpace(s)
        neg == At(s, i) = "-"
        p == AfterSign(s, i)
        m == Mantissa(s, p)
        e == AfterSign(s, m.pos + 1)
        x == Number(s, e)
        exp == IF At(s, m.pos + 1) = "-" THEN -x.value ELSE x.value
    IN  IF Reads3(s, p, "inf")
        THEN Answer(neg, "inf", 0, p + IF Reads3(s, p + 3, "inity") THEN 8 ELSE 3)
        ELSE IF Reads3(s, p, "nan") THEN Answer(FALSE, "nan", 0, p + 3)
        ELSE IF ~m.digits THEN Answer(FALSE, 0, 0, 1)
        ELSE IF At(s, m.pos) \notin {"e", "E"} THEN Answer(neg, m.num, -m.places, m.pos)
        ELSE IF x.pos = e THEN Answer(neg, m.num, -m.places, e - 1)
        ELSE Answer(neg, m.num, exp - m.places, x.pos)

-----------------------------------------------------------------------------
(* Numbers as the standard writes them: an optional sign, digits, perhaps  *)
(* a point and more, perhaps an exponent.                                  *)
Written10(neg, int, frac, exp) ==
    [text |-> (IF neg THEN "-" ELSE "") \o int \o (IF frac = NUL THEN "" ELSE "." \o frac)
                \o (IF exp = 0 THEN ""
                    ELSE IF exp < 0 THEN "e-" \o DigitsOf(-exp, 10) ELSE "E+" \o DigitsOf(exp, 10)),
     value |-> Decimal(neg, NumberOf(int \o frac, 10), exp - Len(frac))]
=============================================================================
