------------------------------ MODULE Division ------------------------------
(***************************************************************************)
(* Division of 64 bit integers by shift and subtract, which the compiler   *)
(* calls where the processor has none (src/src/runtime/c).                 *)
(***************************************************************************)
EXTENDS Integers

CONSTANT Wide               \* bits of long long, 64

ASSUME DivisionAssumption == Wide \in Nat \ {0}

TwoTo[i \in 0..Wide] == IF i = 0 THEN 1 ELSE 2 * TwoTo[i - 1]

Modulus == TwoTo[Wide]
LLONG_MIN == -TwoTo[Wide - 1]
LLONG_MAX == TwoTo[Wide - 1] - 1
AsUnsigned(n) == n % Modulus
AsSigned(u) == IF u > LLONG_MAX THEN u - Modulus ELSE u
Bit(n, i) == (n \div TwoTo[i]) % 2

\* Bug: a remainder equal to d stays.
DivisionTurn_strict(n, d, x, i) ==
    LET r == (2 * x.rem + Bit(n, i)) % Modulus
    IN  IF r > d THEN [rem |-> r - d, quot |-> x.quot + TwoTo[i]]
                 ELSE [rem |-> r, quot |-> x.quot]

(* A turn of the loop of all eight: bit i of n enters the remainder, which *)
(* is as wide as n.  d is not 0.                                           *)
DivisionTurn(n, d, x, i) ==
    LET r == (2 * x.rem + Bit(n, i)) % Modulus
    IN  IF r >= d THEN [rem |-> r - d, quot |-> x.quot + TwoTo[i]]
                  ELSE [rem |-> r, quot |-> x.quot]

(* The loop, from the highest bit down. *)
Divided(n, d) ==
    LET after[k \in 0..Wide] == IF k = 0 THEN [rem |-> 0, quot |-> 0]
                                ELSE DivisionTurn(n, d, after[k - 1], Wide - k)
    IN  after[Wide]

udiv(n, d) == IF d = 0 THEN 0 ELSE Divided(n, d).quot
umod(n, d) == IF d = 0 THEN 0 ELSE Divided(n, d).rem

Magnitude(n) == IF n < 0 THEN AsUnsigned(-n) ELSE n
Negated(n) == AsSigned(AsUnsigned(-n))

div(n, d) ==
    LET q == AsSigned(Divided(Magnitude(n), Magnitude(d)).quot)
    IN  IF d = 0 THEN 0
        ELSE IF n = LLONG_MIN /\ d = -1 THEN LLONG_MIN
        ELSE IF (n < 0) # (d < 0) THEN Negated(q) ELSE q

mod(n, d) ==
    LET r == Divided(Magnitude(n), Magnitude(d)).rem
    IN  IF d = 0 \/ (n = LLONG_MIN /\ d = -1) THEN 0
        ELSE IF n < 0 THEN -r ELSE r
-----------------------------------------------------------------------------
(* Quotient and remainder of C: the remainder is smaller than the divisor  *)
(* and has the sign of n, so the quotient is rounded towards 0.            *)
Abs(n) == IF n < 0 THEN -n ELSE n
Truncates(n, d, q, r) == /\ n = q * d + r
                         /\ Abs(r) < Abs(d)
                         /\ r = 0 \/ (r < 0) = (n < 0)
=============================================================================
