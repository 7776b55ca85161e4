----------------------------- MODULE NatMinimum -----------------------------
(***************************************************************************)
(* Induction over the natural numbers, as the least element of a set: the  *)
(* set of the counterexamples has one, and what is below it is none.  And  *)
(* recursion up to a number, which is how loops are written here.          *)
(***************************************************************************)
EXTENDS Integers, WellFoundedInduction, TLAPS

LEMMA LeastNat ==
  ASSUME NEW T, T \subseteq Nat, T # {}
  PROVE  \E n \in T : \A m \in T : n <= m
<1> DEFINE R == OpToRel(<, Nat)
<1>1. IsWellFoundedOn(R, Nat)
  BY NatLessThanWellFounded
<1>2. \A x, y \in Nat : x < y => <<x, y>> \in R
  BY DEF OpToRel
<1> HIDE DEF R
<1>3. PICK n \in T : \A m \in T : ~(<<m, n>> \in R)
  BY <1>1, WFMin
<1>4. \A m \in T : n <= m
  <2>1. TAKE m \in T
  <2>2. ~(m < n) /\ m \in Nat /\ n \in Nat
    BY <1>2, <1>3
  <2>3. QED
    BY <2>2
<1>5. QED
  BY <1>4

\* A step for each number up to w, and what they make of z.
StepsIn(Step, X, w) == Step \in [1 .. w -> [X -> X]]
RunOf(f, Step, z, X, w) ==
  /\ f \in [0 .. w -> X]
  /\ f[0] = z
  /\ \A k \in 1 .. w : f[k] = Step[k][f[k - 1]]

(* Recursion on a number up to w defines a function. *)
LEMMA StepsDefine ==
  ASSUME NEW X, NEW z \in X, NEW w \in Nat,
         NEW Step, StepsIn(Step, X, w)
  PROVE  \E f : RunOf(f, Step, z, X, w)
<1> USE DEF StepsIn, RunOf
<1> DEFINE Upto(m, f) == RunOf(f, Step, z, X, m)
           Short == {m \in 0 .. w : ~ \E f : Upto(m, f)}
<1>1. Short = {}
  <2>1. SUFFICES ASSUME Short # {} PROVE FALSE
    OBVIOUS
  <2>2. PICK m \in Short : \A j \in Short : m <= j
    <3>1. Short \subseteq Nat
      OBVIOUS
    <3> HIDE DEF Short
    <3>2. QED
      BY <2>1, <3>1, LeastNat
  <2>3. m \in 0 .. w /\ ~ \E f : Upto(m, f)
    BY <2>2
  <2>4. m # 0
    <3>1. Upto(0, [k \in 0 .. 0 |-> z])
      OBVIOUS
    <3>2. QED
      BY <2>3, <3>1
  <2>5. m - 1 \in 0 .. w /\ ~ (m - 1 \in Short)
    <3>1. m - 1 \in 0 .. w /\ m \in Nat
      BY <2>3, <2>4
    <3>2. m - 1 \notin Short
      <4> HIDE DEF Short
      <4>1. QED
        BY <2>2, <3>1
    <3>3. QED
      BY <3>1, <3>2
  <2>6. PICK f : Upto(m - 1, f)
    BY <2>5
  <2> DEFINE g == [k \in 0 .. m |-> IF k = m THEN Step[m][f[m - 1]] ELSE f[k]]
  <2>7. f[m - 1] \in X /\ Step[m][f[m - 1]] \in X
    BY <2>3, <2>4, <2>6
  <2>8. g \in [0 .. m -> X]
    BY <2>3, <2>6, <2>7
  <2>9. g[0] = z
    BY <2>3, <2>4, <2>6
  <2>10. ASSUME NEW k \in 1 .. m PROVE g[k] = Step[k][g[k - 1]]
    <3>1. g[k - 1] = f[k - 1]
      BY <2>3
    <3>2. CASE k = m
      BY <2>3, <3>1, <3>2
    <3>3. CASE k # m
      BY <2>3, <2>6, <3>1, <3>3
    <3>4. QED
      BY <3>2, <3>3
  <2>11. QED
    BY <2>3, <2>8, <2>9, <2>10
<1>2. w \in 0 .. w
  OBVIOUS
<1>3. PICK f : Upto(w, f)
  BY <1>1, <1>2
<1>4. QED
  BY <1>3

(* A property of the first value that every step keeps is one of them all. *)
LEMMA UpTo ==
  ASSUME NEW w \in Nat, NEW S, S \subseteq 0 .. w, 0 \in S,
         \A k \in 1 .. w : k - 1 \in S => k \in S
  PROVE  \A k \in 0 .. w : k \in S
<1> DEFINE Bad == {k \in 0 .. w : k \notin S}
<1>1. SUFFICES ASSUME Bad # {} PROVE FALSE
  OBVIOUS
<1>2. PICK k \in Bad : \A j \in Bad : k <= j
  <2>1. Bad \subseteq Nat
    OBVIOUS
  <2> HIDE DEF Bad
  <2>2. QED
    BY <1>1, <2>1, LeastNat
<1>3. k \in 1 .. w /\ k - 1 \in 0 .. w /\ ~ (k - 1 \in Bad)
  BY <1>2
<1>4. QED
  BY <1>2, <1>3

\* A function that is defined by recursion up to w takes those steps.
LEMMA StepsRun ==
  ASSUME NEW X, NEW z \in X, NEW w \in Nat, NEW Step, StepsIn(Step, X, w),
         NEW f, f = [k \in 0 .. w |-> IF k = 0 THEN z ELSE Step[k][f[k - 1]]]
  PROVE  RunOf(f, Step, z, X, w)
<1>1. \A k \in 1 .. w : k \in 0 .. w /\ k # 0 /\ k - 1 \in 0 .. w
  OBVIOUS
<1>2. f[0] = z
  <2>1. 0 \in 0 .. w
    OBVIOUS
  <2>2. QED
    BY <2>1
<1>3. \A k \in 1 .. w : f[k] = Step[k][f[k - 1]]
  BY <1>1
<1> DEFINE In == {k \in 0 .. w : f[k] \in X}
<1>4. \A k \in 0 .. w : k \in In
  <2>1. 0 \in In /\ In \subseteq 0 .. w
    BY <1>2
  <2>2. \A k \in 1 .. w : k - 1 \in In => k \in In
    BY <1>1, <1>3 DEF StepsIn
  <2> HIDE DEF In
  <2>3. QED
    BY <2>1, <2>2, UpTo
<1>5. f \in [0 .. w -> X]
  BY <1>4
<1>6. QED
  BY <1>2, <1>3, <1>5 DEF RunOf
=============================================================================
