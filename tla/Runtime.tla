------------------------------- MODULE Runtime -------------------------------
(***************************************************************************)
(* The functions the compiler calls for arithmetic the processor lacks     *)
(* (src/src/runtime/c): division, see Division, and conversions between    *)
(* doubles and 64 bit integers.                                            *)
(***************************************************************************)
EXTENDS Division

CONSTANT
    Fraction            \* bits of a double behind the point, 52

ASSUME RuntimeAssumption == /\ Wide \in {4, 8, 16, 32, 64}
                            /\ Fraction \in 1..Wide - 3

-----------------------------------------------------------------------------
(* A double: its sign, exponent and fraction, worth                         *)
(* (1 + fraction / 2^Fraction) * 2^exp.  Below 1 only the exponent matters, *)
(* and infinity is an exponent beyond all.                                  *)
Double(sign, exp, fraction) == [sign |-> sign, exp |-> exp, fraction |-> fraction]
NaN == Double(0, 2 * Wide, 1)
Zero == Double(0, -1, 0)
Infinity(sign) == Double(sign, 2 * Wide, 0)

Integral(a) ==
    LET m == a.fraction + 2^Fraction
    IN  IF a.exp > Fraction THEN (m * 2^(a.exp - Fraction)) % Modulus
                            ELSE m \div 2^(Fraction - a.exp)

fixdfdi(a) ==
    IF a = NaN \/ a.exp < 0 THEN 0
    ELSE IF a.exp >= Wide - 1 THEN IF a.sign = 0 THEN LLONG_MAX ELSE LLONG_MIN
    ELSE IF a.sign = 1 THEN -Integral(a) ELSE Integral(a)

fixunsdfdi(a) ==
    IF a = NaN \/ a.sign = 1 \/ a = Zero \/ a.exp < 0 THEN 0
    ELSE IF a.exp >= Wide THEN Modulus - 1
    ELSE Integral(a)

(* Leading zeros, by halves: half the bits, then half of what is left. *)
RECURSIVE ClearHalves(_, _)
ClearHalves(x, half) ==
    LET clear == x \div 2^(Wide - half) = 0
    IN  CASE half = 0 -> 0
          [] half > 0 /\ clear -> half + ClearHalves((x * 2^half) % Modulus, half \div 2)
          [] OTHER -> ClearHalves(x, half \div 2)
clz64(x) == IF x = 0 THEN Wide ELSE ClearHalves(x, Wide \div 2)

\* Bug: ties are rounded up.
RoundsUp_ties(u, shift) == Bit(u, shift - 1) = 1

(* Round to nearest, ties to even: up when the first bit that goes is set, *)
(* and one behind it or the last that stays.                               *)
RoundsUp(u, shift) == /\ Bit(u, shift - 1) = 1
                      /\ u % 2^(shift - 1) # 0 \/ Bit(u, shift) = 1
Converted(sign, u) ==
    LET exp == Wide - 1 - clz64(u)
        shift == exp - Fraction
        m == u \div 2^shift + IF RoundsUp(u, shift) THEN 1 ELSE 0
    IN  CASE u = 0 -> Zero
          [] u # 0 /\ shift <= 0 ->
                Double(sign, exp, (u * 2^(-shift)) % 2^Fraction)
          [] OTHER -> IF m >= 2^(Fraction + 1)
                      THEN Double(sign, exp + 1, (m \div 2) % 2^Fraction)
                      ELSE Double(sign, exp, m % 2^Fraction)

floatdidf(a) == Converted(IF a < 0 THEN 1 ELSE 0, Magnitude(a))
floatundidf(u) == Converted(0, u)
-----------------------------------------------------------------------------
(***************************************************************************)
(* What C promises.  Worth(a) is 2^Fraction times the value of a double, a *)
(* whole number.                                                           *)
(***************************************************************************)
Worth(a) == LET w == (2^Fraction + a.fraction) * 2^a.exp
            IN  IF a = Zero THEN 0 ELSE IF a.sign = 1 THEN -w ELSE w
Doubles == {Double(s, e, f) : s \in {0, 1}, e \in 0..Wide, f \in 0..2^Fraction - 1}

(* No double is nearer to n than a, and of two as near a is the even one. *)
Nearest(n, a) ==
    LET Off(b) == Abs(Worth(b) - n * 2^Fraction)
    IN  \A b \in Doubles \cup {Zero} :
            /\ Off(b) >= Off(a)
            /\ Off(b) = Off(a) /\ b # a => a.fraction % 2 = 0
=============================================================================
