---------------------------- MODULE ServiceProofs ----------------------------
(***************************************************************************)
(* Seven services.  The handlers atexit accepts (Exit), for every length   *)
(* of the table and every number of registrations; the texts mbrtowc is    *)
(* given in pieces (Multibyte), for every text and all pieces; the vector  *)
(* of wordexp (Wordexp), for every number of calls and of words; division  *)
(* by shift and subtract (Division), for every width; the offset of local  *)
(* time (Zones), for every zone; local time itself and its inverse         *)
(* (Calendar), for every instant and all fields; and getopt (Options), for *)
(* every command line and all letters.                                     *)
(***************************************************************************)
EXTENDS Exit, Multibyte, Wordexp, Division, Calendar, Options, NatMinimum,
        FiniteSetTheorems, SequenceTheorems, TLAPS

-----------------------------------------------------------------------------
(* The table of atexit.                                                    *)

Stages == {"running", "exiting", "flushed", "ended"}

Types ==
  /\ table \in Seq(Nat) /\ ran \in Seq([id : Nat, known : Nat])
  /\ accepted \in Nat /\ stage \in Stages

\* The table holds the registrations that were not called, in their order.
Ascends ==
  /\ \A i, j \in 1 .. Len(table) : i < j => table[i] < table[j]
  /\ \A i \in 1 .. Len(table) : 1 <= table[i] /\ table[i] <= accepted

\* A handler was on the table's end when it was called: what is there was
\* before it, or was not known.
CalledLast ==
  \A i \in 1 .. Len(ran) :
    /\ 1 <= ran[i].id /\ ran[i].id <= ran[i].known /\ ran[i].known <= accepted
    /\ \A k \in 1 .. Len(table) :
         table[k] < ran[i].id \/ ran[i].known < table[k]

\* No registration is lost.
Accounted ==
  \A r \in 1 .. accepted : \/ \E k \in 1 .. Len(table) : table[k] = r
                           \/ \E i \in 1 .. Len(ran) : ran[i].id = r

InOrder ==
  \A i, j \in 1 .. Len(ran) : i < j =>
    /\ ran[i].id # ran[j].id
    /\ ran[i].id > ran[j].id \/ ran[j].id > ran[i].known

Flushed == stage \in {"flushed", "ended"} => table = <<>> /\ inside = <<>>

ExitInv == /\ Types /\ Ascends /\ CalledLast /\ Accounted /\ InOrder /\ Flushed

-----------------------------------------------------------------------------

LEMMA RanType ==
  ASSUME ExitInv, NEW i \in 1 .. Len(ran)
  PROVE  ran[i].id \in Nat /\ ran[i].known \in Nat
<1>1. ran[i] \in [id : Nat, known : Nat]
  BY ElementOfSeq DEF ExitInv, Types
<1>2. QED
  BY <1>1

LEMMA ExitInvInit == ExitInit => ExitInv
BY DEF ExitInit, ExitInv, Types, Stages, Ascends, CalledLast, Accounted, InOrder, Flushed

LEMMA AtexitStep == ASSUME ExitInv, Atexit PROVE ExitInv'
<1>1. /\ table \in Seq(Nat) /\ accepted \in Nat /\ accepted' = accepted + 1
      /\ table' = Append(table, accepted + 1) /\ UNCHANGED <<inside, stage, ran>>
      /\ stage \in Stages
  BY DEF ExitInv, Types, Atexit
<1>2. PICK n \in Nat : n = Len(table)
  BY <1>1
<1>3. /\ table' \in Seq(Nat) /\ Len(table') = n + 1 /\ table'[n + 1] = accepted + 1
      /\ \A k \in 1 .. n : table'[k] = table[k] /\ table[k] \in Nat
  BY <1>1, <1>2
<1>4. \A k \in 1 .. n + 1 : k \in 1 .. n \/ k = n + 1
  OBVIOUS
<1>5. Types'
  BY <1>1, <1>3 DEF ExitInv, Types
<1>6. Ascends'
  BY <1>1, <1>2, <1>3, <1>4 DEF ExitInv, Ascends
<1>7. CalledLast'
  <2> SUFFICES ASSUME NEW i \in 1 .. Len(ran)
               PROVE  /\ 1 <= ran[i].id /\ ran[i].id <= ran[i].known
                      /\ ran[i].known <= accepted + 1
                      /\ \A k \in 1 .. n + 1 :
                           table'[k] < ran[i].id \/ ran[i].known < table'[k]
    BY <1>1, <1>3 DEF CalledLast
  <2>1. ran[i].id \in Nat /\ ran[i].known \in Nat
    BY RanType
  <2>2. /\ 1 <= ran[i].id /\ ran[i].id <= ran[i].known /\ ran[i].known <= accepted
        /\ \A k \in 1 .. n : table[k] < ran[i].id \/ ran[i].known < table[k]
    BY <1>2 DEF ExitInv, CalledLast
  <2>3. ran[i].known <= accepted + 1 /\ ran[i].known < accepted + 1
    <3>1. PICK k \in Nat : k = ran[i].known
      BY <2>1
    <3>2. k <= accepted
      BY <2>2, <3>1
    <3>3. k <= accepted + 1 /\ k < accepted + 1
      BY <1>1, <3>2
    <3>4. QED
      BY <3>1, <3>3
  <2>4. QED
    BY <1>3, <1>4, <2>2, <2>3
<1>8. Accounted'
  <2> SUFFICES ASSUME NEW r \in 1 .. accepted + 1
               PROVE  \/ \E k \in 1 .. n + 1 : table'[k] = r
                      \/ \E i \in 1 .. Len(ran) : ran[i].id = r
    BY <1>1, <1>3 DEF Accounted
  <2>1. CASE r = accepted + 1
    BY <1>3, <2>1
  <2>2. CASE r \in 1 .. accepted
    <3>1. \/ \E k \in 1 .. n : table[k] = r
          \/ \E i \in 1 .. Len(ran) : ran[i].id = r
      BY <1>2, <2>2 DEF ExitInv, Accounted
    <3>2. QED
      BY <1>3, <3>1
  <2>3. r = accepted + 1 \/ r \in 1 .. accepted
    <3>1. accepted \in Nat
      BY <1>1
    <3>2. QED
      BY <3>1
  <2>4. QED
    BY <2>1, <2>2, <2>3
<1>9. InOrder' /\ Flushed'
  BY <1>1 DEF ExitInv, InOrder, Flushed, Atexit
<1>10. QED
  BY <1>5, <1>6, <1>7, <1>8, <1>9 DEF ExitInv

LEMMA CallStep == ASSUME ExitInv, Call PROVE ExitInv'
<1>1. /\ table \in Seq(Nat) /\ accepted \in Nat /\ table # <<>>
      /\ ran \in Seq([id : Nat, known : Nat]) /\ UNCHANGED <<stage, accepted>>
      /\ stage = "exiting" /\ stage \in Stages
  BY DEF ExitInv, Types, Call
<1>2. PICK n \in Nat : n + 1 = Len(table)
  <2>1. Len(table) \in Nat /\ Len(table) # 0
    BY <1>1
  <2>2. QED
    <3>1. PICK l \in Nat : l = Len(table) /\ l # 0
      BY <2>1
    <3>2. l - 1 \in Nat /\ (l - 1) + 1 = l
      BY <3>1
    <3>3. QED
      BY <3>1, <3>2
<1>3. PICK m \in Nat : m = Len(ran)
  BY <1>1
<1>4. PICK r \in Nat : r = table[n + 1]
  BY <1>1, <1>2
<1>5. table' = SubSeq(table, 1, n)
  BY <1>2 DEF Call, Front
<1>6. ran' = Append(ran, [id |-> r, known |-> accepted])
  BY <1>2, <1>4 DEF Call, Last
<1>7. /\ table' \in Seq(Nat) /\ Len(table') = n
      /\ \A k \in 1 .. n : table'[k] = table[k] /\ table[k] \in Nat
  BY <1>1, <1>2, <1>5
<1>8. /\ ran' \in Seq([id : Nat, known : Nat]) /\ Len(ran') = m + 1
      /\ ran'[m + 1].id = r /\ ran'[m + 1].known = accepted
      /\ \A i \in 1 .. m : ran'[i] = ran[i]
  <2>1. [id |-> r, known |-> accepted] \in [id : Nat, known : Nat]
    BY <1>1
  <2>2. /\ ran' \in Seq([id : Nat, known : Nat]) /\ Len(ran') = m + 1
        /\ ran'[m + 1] = [id |-> r, known |-> accepted]
        /\ \A i \in 1 .. m : ran'[i] = ran[i]
    BY <1>1, <1>3, <1>6, <2>1
  <2>3. QED
    BY <2>2
<1>9. \A i \in 1 .. m + 1 : i \in 1 .. m \/ i = m + 1
  OBVIOUS
<1>10. \A k \in 1 .. n + 1 : k \in 1 .. n \/ k = n + 1
  OBVIOUS
<1>11. Types'
  BY <1>1, <1>7, <1>8 DEF Types
<1>12. /\ \A i, j \in 1 .. n + 1 : i < j => table[i] < table[j]
       /\ \A i \in 1 .. n + 1 : 1 <= table[i] /\ table[i] <= accepted
  BY <1>2 DEF ExitInv, Ascends
<1>13. Ascends'
  <2>1. /\ \A i, j \in 1 .. n : i < j => table'[i] < table'[j]
        /\ \A i \in 1 .. n : 1 <= table'[i] /\ table'[i] <= accepted
    <3>1. \A i \in 1 .. n : i \in 1 .. n + 1 /\ table'[i] = table[i]
      BY <1>7
    <3>2. QED
      BY <1>12, <3>1
  <2>2. QED
    BY <1>1, <1>7, <2>1 DEF Ascends
<1>14. \A i \in 1 .. m :
         /\ ran[i].id \in Nat /\ ran[i].known \in Nat
         /\ 1 <= ran[i].id /\ ran[i].id <= ran[i].known /\ ran[i].known <= accepted
         /\ \A k \in 1 .. n + 1 : table[k] < ran[i].id \/ ran[i].known < table[k]
  <2>1. \A i \in 1 .. m : ran[i].id \in Nat /\ ran[i].known \in Nat
    BY <1>3, RanType
  <2>2. QED
    BY <1>2, <1>3, <2>1 DEF ExitInv, CalledLast
<1>15. CalledLast'
  <2> SUFFICES ASSUME NEW i \in 1 .. m + 1
               PROVE  /\ 1 <= ran'[i].id /\ ran'[i].id <= ran'[i].known
                      /\ ran'[i].known <= accepted
                      /\ \A k \in 1 .. n : table'[k] < ran'[i].id \/ ran'[i].known < table'[k]
    BY <1>1, <1>7, <1>8 DEF CalledLast
  <2>1. CASE i \in 1 .. m
    <3>1. ran'[i] = ran[i]
      BY <1>8, <2>1
    <3>2. \A k \in 1 .. n : table[k] < ran[i].id \/ ran[i].known < table[k]
      BY <1>14, <2>1
    <3>3. QED
      BY <1>7, <1>14, <2>1, <3>1, <3>2
  <2>2. CASE i = m + 1
    <3>1. 1 <= r /\ r <= accepted /\ \A k \in 1 .. n : table[k] < r
      BY <1>4, <1>12
    <3>2. ran'[i].id = r /\ ran'[i].known = accepted /\ accepted <= accepted
      BY <1>1, <1>8, <2>2
    <3>3. QED
      BY <1>7, <3>1, <3>2
  <2>3. QED
    BY <1>9, <2>1, <2>2
<1>16. Accounted'
  <2> SUFFICES ASSUME NEW x \in 1 .. accepted
               PROVE  \/ \E k \in 1 .. n : table'[k] = x
                      \/ \E i \in 1 .. m + 1 : ran'[i].id = x
    BY <1>1, <1>7, <1>8 DEF Accounted
  <2>1. \/ \E k \in 1 .. n + 1 : table[k] = x
        \/ \E i \in 1 .. m : ran[i].id = x
    BY <1>2, <1>3 DEF ExitInv, Accounted
  <2>2. QED
    <3>1. CASE \E i \in 1 .. m : ran[i].id = x
      <4>1. PICK i \in 1 .. m : ran[i].id = x
        BY <3>1
      <4>2. i \in 1 .. m + 1 /\ ran'[i].id = x
        BY <1>8, <4>1
      <4>3. QED
        BY <4>2
    <3>2. CASE \E k \in 1 .. n + 1 : table[k] = x
      <4>1. PICK k \in 1 .. n + 1 : table[k] = x
        BY <3>2
      <4>2. CASE k \in 1 .. n
        BY <1>7, <4>1, <4>2
      <4>3. CASE k = n + 1
        <5>1. m + 1 \in 1 .. m + 1 /\ ran'[m + 1].id = x
          BY <1>4, <1>8, <4>1, <4>3
        <5>2. QED
          BY <5>1
      <4>4. QED
        BY <1>10, <4>2, <4>3
    <3>3. QED
      BY <2>1, <3>1, <3>2
<1>17. InOrder'
  <2> SUFFICES ASSUME NEW i \in 1 .. m + 1, NEW j \in 1 .. m + 1, i < j
               PROVE  /\ ran'[i].id # ran'[j].id
                      /\ ran'[i].id > ran'[j].id \/ ran'[j].id > ran'[i].known
    BY <1>8 DEF InOrder
  <2>1. i \in 1 .. m /\ ran'[i] = ran[i]
    <3>1. i \in 1 .. m
      OBVIOUS
    <3>2. QED
      BY <1>8, <3>1
  <2>2. CASE j \in 1 .. m
    <3>1. /\ ran[i].id # ran[j].id
          /\ ran[i].id > ran[j].id \/ ran[j].id > ran[i].known
      BY <1>3, <2>1, <2>2 DEF ExitInv, InOrder
    <3>2. ran'[j] = ran[j] /\ ran'[i] = ran[i]
      BY <1>8, <2>1, <2>2
    <3>3. QED
      BY <3>1, <3>2
  <2>3. CASE j = m + 1
    <3>1. r < ran[i].id \/ ran[i].known < r
      BY <1>4, <1>14, <2>1
    <3>2. ran[i].id \in Nat /\ ran[i].known \in Nat /\ ran[i].id <= ran[i].known
      BY <1>14, <2>1
    <3>3. QED
      <4>1. PICK p \in Nat, q \in Nat : p = ran[i].id /\ q = ran[i].known
        BY <3>2
      <4>2. p <= q /\ (r < p \/ q < r)
        BY <3>1, <3>2, <4>1
      <4>3. p # r /\ (p > r \/ r > q)
        BY <4>2
      <4>4. ran'[i].id = p /\ ran'[i].known = q /\ ran'[j].id = r
        BY <1>8, <2>1, <2>3, <4>1
      <4>5. QED
        BY <4>3, <4>4
  <2>4. QED
    BY <1>9, <2>2, <2>3
<1>18. Flushed'
  BY <1>1 DEF Flushed
<1>19. QED
  BY <1>11, <1>13, <1>15, <1>16, <1>17, <1>18 DEF ExitInv

LEMMA ExitInvStep == ExitInv /\ [ExitNext]_exitVars => ExitInv'
<1> SUFFICES ASSUME ExitInv, [ExitNext]_exitVars PROVE ExitInv'
  OBVIOUS
<1>1. ASSUME UNCHANGED <<table, accepted, ran>>, stage' \in Stages, Flushed'
      PROVE  ExitInv'
  BY <1>1 DEF ExitInv, Types, Ascends, CalledLast, Accounted, InOrder
<1>2. CASE Exit
  BY <1>1, <1>2 DEF Exit, Stages, Flushed
<1>3. CASE Return1
  BY <1>1, <1>3 DEF Return1, Stages, Flushed, ExitInv, Types
<1>4. CASE Flush
  BY <1>1, <1>4 DEF Flush, Stages, Flushed
<1>5. CASE End
  BY <1>1, <1>5 DEF End, Stages, Flushed, ExitInv
<1>6. CASE UNCHANGED exitVars
  BY <1>1, <1>6 DEF exitVars, Flushed, ExitInv, Types
<1>7. QED
  BY <1>2, <1>3, <1>4, <1>5, <1>6, AtexitStep, CallStep DEF ExitNext

\* What the table and the calls have in common, whatever the handlers do.
THEOREM ExitInvariant == ExitSpec => []ExitInv
BY ExitInvInit, ExitInvStep, PTL DEF ExitSpec

\* Every handler that atexit accepted has run once when the streams are
\* flushed, the last registered first, also when handlers register others
\* or call exit themselves.
THEOREM HandlersRunOnceAlways == ExitSpec => []HandlersRunOnce
<1>1. ExitInv => HandlersRunOnce
  <2> SUFFICES ASSUME ExitInv PROVE HandlersRunOnce
    OBVIOUS
  <2>1. DOMAIN ran = 1 .. Len(ran) /\ DOMAIN table = 1 .. Len(table)
    BY DEF ExitInv, Types
  <2>2. \A i \in 1 .. Len(ran) : ran[i].id \in Nat /\ ran[i].known \in Nat
    BY RanType
  <2>3. ASSUME NEW i \in DOMAIN ran PROVE ran[i].id \notin ToSet(table)
    <3>1. \A k \in 1 .. Len(table) : table[k] \in Nat
      BY DEF ExitInv, Types
    <3>2. \A k \in 1 .. Len(table) : table[k] # ran[i].id
      BY <2>1, <2>2, <2>3, <3>1 DEF ExitInv, CalledLast
    <3>3. QED
      BY <2>1, <3>2 DEF ToSet
  <2>4. ASSUME stage \in {"flushed", "ended"}
        PROVE  {ran[i].id : i \in DOMAIN ran} = 1 .. accepted
    <3>1. Len(table) = 0
      BY <2>4 DEF ExitInv, Flushed
    <3>2. \A r \in 1 .. accepted : \E i \in DOMAIN ran : ran[i].id = r
      BY <2>1, <3>1 DEF ExitInv, Accounted
    <3>3. accepted \in Nat
      BY DEF ExitInv, Types
    <3>4. \A i \in DOMAIN ran : ran[i].id \in 1 .. accepted
      BY <2>1, <2>2, <3>3 DEF ExitInv, CalledLast
    <3>5. QED
      BY <3>2, <3>4
  <2>5. QED
    BY <2>1, <2>3, <2>4 DEF HandlersRunOnce, ExitInv, InOrder
<1>2. QED
  BY <1>1, ExitInvariant, PTL

-----------------------------------------------------------------------------
(* Texts, as the encodings of their characters one after another.          *)

\* The functions FlattenSeq is defined by: the first i sequences, joined.
Joins(g, n, ss) ==
  g = [i \in 1 .. n |-> IF i = 1 THEN ss[i] ELSE g[i-1] \o ss[i]]

LEMMA JoinsFrom ==
  ASSUME NEW n \in Nat, NEW ss
  PROVE  \E g : Joins(g, n, ss)
<1> DEFINE T == {k \in Nat : ~ \E g : Joins(g, k, ss)}
<1> SUFFICES ASSUME T # {} PROVE FALSE
  OBVIOUS
<1>1. T \subseteq Nat
  OBVIOUS
<1>2. PICK k \in T : \A m \in T : k <= m
  BY <1>1, LeastNat
<1>3. k \in Nat /\ ~ \E g : Joins(g, k, ss)
  BY <1>2
<1>4. CASE k = 0
  <2> DEFINE g == [i \in 1 .. 0 |-> ss[i]]
  <2>1. Joins(g, 0, ss)
    BY DEF Joins
  <2>2. QED
    BY <1>3, <1>4, <2>1
<1>5. CASE k # 0
  <2>1. PICK l \in Nat : k = l + 1
    BY <1>3, <1>5
  <2>2. l \notin T
    BY <1>2, <2>1
  <2>3. PICK h : Joins(h, l, ss)
    BY <2>2
  <2> DEFINE g == [i \in 1 .. k |-> IF i = 1 THEN ss[1] ELSE
                                    IF i = k THEN h[l] \o ss[k] ELSE h[i]]
  <2>4. \A i \in 1 .. k : g[i] = IF i = 1 THEN ss[i] ELSE g[i-1] \o ss[i]
    <3>1. TAKE i \in 1 .. k
    <3>2. CASE i = 1
      BY <3>2
    <3>3. CASE i # 1
      <4>1. i - 1 \in 1 .. k /\ i - 1 \in 1 .. l /\ i - 1 # k
        BY <2>1, <3>3
      <4>2. h[i-1] = g[i-1]
        <5>1. i - 1 = 1 => h[i-1] = ss[1]
          BY <2>3, <4>1 DEF Joins
        <5>2. QED
          BY <4>1, <5>1
      <4>3. CASE i = k
        <5>1. g[i] = h[l] \o ss[k]
          BY <3>1, <3>3, <4>3
        <5>a. i - 1 = l
          BY <2>1, <4>3
        <5>2. QED
          BY <3>3, <4>2, <4>3, <5>1, <5>a
      <4>4. CASE i # k
        <5>1. i \in 1 .. l
          BY <2>1, <4>4
        <5>2. h[i] = h[i-1] \o ss[i]
          BY <2>3, <3>3, <5>1 DEF Joins
        <5>3. QED
          BY <3>3, <4>2, <4>4, <5>2
      <4>5. QED
        BY <4>3, <4>4
    <3>4. QED
      BY <3>2, <3>3
  <2>5. DOMAIN g = 1 .. k /\ g = [i \in 1 .. k |-> g[i]]
    OBVIOUS
  <2> HIDE DEF g
  <2>6. Joins(g, k, ss)
    BY <2>4, <2>5 DEF Joins
  <2>7. QED
    BY <1>3, <2>6
<1>6. QED
  BY <1>4, <1>5

LEMMA JoinsAgree ==
  ASSUME NEW m \in Nat, NEW n \in Nat, m <= n, NEW ss, NEW tt, NEW g, NEW h,
         \A i \in 1 .. m : ss[i] = tt[i], Joins(g, m, ss), Joins(h, n, tt)
  PROVE  \A i \in 1 .. m : g[i] = h[i]
<1> DEFINE T == {k \in 1 .. m : g[k] # h[k]}
<1> SUFFICES ASSUME T # {} PROVE FALSE
  OBVIOUS
<1>1. T \subseteq Nat
  OBVIOUS
<1>2. PICK k \in T : \A j \in T : k <= j
  BY <1>1, LeastNat
<1>3. k \in 1 .. m /\ k \in 1 .. n /\ g[k] # h[k]
  BY <1>2
<1>4. k # 1
  BY <1>3 DEF Joins
<1>5. k - 1 \in 1 .. m /\ k - 1 \notin T
  BY <1>2, <1>3, <1>4
<1>6. g[k-1] = h[k-1]
  BY <1>5
<1>7. g[k] = g[k-1] \o ss[k] /\ h[k] = h[k-1] \o tt[k]
  BY <1>3, <1>4 DEF Joins
<1>8. QED
  BY <1>3, <1>6, <1>7

\* FlattenSeq joins one sequence after another.
LEMMA FlattenAppend ==
  ASSUME NEW S, NEW ss \in Seq(Seq(S)), NEW s \in Seq(S)
  PROVE  FlattenSeq(Append(ss, s)) = FlattenSeq(ss) \o s
<1>1. PICK n \in Nat : n = Len(ss)
  OBVIOUS
<1>2. PICK tt : tt = Append(ss, s)
  OBVIOUS
<1>3. /\ Len(tt) = n + 1 /\ tt[n + 1] = s /\ n + 1 # 0
      /\ \A i \in 1 .. n : ss[i] = tt[i]
  BY <1>1, <1>2
<1>4. PICK g : /\ g = CHOOSE f : f = [i \in 1 .. n + 1 |-> IF i = 1 THEN tt[i] ELSE f[i-1] \o tt[i]]
               /\ Joins(g, n + 1, tt)
  <2>1. \E f : f = [i \in 1 .. n + 1 |-> IF i = 1 THEN tt[i] ELSE f[i-1] \o tt[i]]
    <3>1. PICK m \in Nat : m = n + 1
      OBVIOUS
    <3>2. \E f : Joins(f, m, tt)
      BY JoinsFrom
    <3>3. QED
      BY <3>1, <3>2 DEF Joins
  <2>2. QED
    BY <2>1 DEF Joins
<1>5. FlattenSeq(tt) = g[n + 1]
  BY <1>3, <1>4 DEF FlattenSeq
<1>6. CASE n = 0
  <2>1. ss = <<>>
    <3>1. ss \in Seq(Seq(S)) /\ Len(ss) = 0
      BY <1>1, <1>6
    <3>2. QED
      BY <3>1, EmptySeq
  <2>a. Len(ss) = 0 /\ FlattenSeq(ss) = ss
    BY <1>1, <1>6 DEF FlattenSeq
  <2>2. g[1] = s
    BY <1>3, <1>4, <1>6 DEF Joins
  <2>3. QED
    BY <1>2, <1>5, <1>6, <2>1, <2>a, <2>2
<1>7. CASE n # 0
  <2>1. PICK h : /\ h = CHOOSE f : f = [i \in 1 .. n |-> IF i = 1 THEN ss[i] ELSE f[i-1] \o ss[i]]
                 /\ Joins(h, n, ss)
    <3>1. \E f : f = [i \in 1 .. n |-> IF i = 1 THEN ss[i] ELSE f[i-1] \o ss[i]]
      BY JoinsFrom DEF Joins
    <3>2. QED
      BY <3>1 DEF Joins
  <2>2. FlattenSeq(ss) = h[n]
    BY <1>1, <1>7, <2>1 DEF FlattenSeq
  <2>3. n <= n + 1 /\ n \in 1 .. n /\ n + 1 \in 1 .. n + 1 /\ n + 1 # 1 /\ n + 1 \in Nat
    BY <1>7
  <2>4. h[n] = g[n]
    <3>1. PICK m \in Nat : m = n + 1
      OBVIOUS
    <3>2. n <= m /\ n \in 1 .. n
      BY <2>3, <3>1
    <3>3. \A i \in 1 .. n : ss[i] = tt[i]
      BY <1>3
    <3>4. Joins(h, n, ss) /\ Joins(g, m, tt)
      BY <1>4, <2>1, <3>1
    <3>5. \A i \in 1 .. n : h[i] = g[i]
      BY ONLY n \in Nat, <3>1, <3>2, <3>3, <3>4, JoinsAgree
    <3>6. QED
      BY <3>2, <3>5
  <2>5. g[n + 1] = g[n] \o s
    <3>1. PICK m : m = n + 1
      OBVIOUS
    <3>2. m \in 1 .. m /\ m # 1 /\ m - 1 = n /\ tt[m] = s
      BY <1>3, <2>3, <3>1
    <3>3. g[m] = g[m - 1] \o tt[m]
      BY <1>4, <3>1, <3>2 DEF Joins
    <3>4. QED
      BY <3>1, <3>2, <3>3
  <2>6. QED
    BY <1>2, <1>5, <2>2, <2>4, <2>5
<1>8. QED
  BY <1>6, <1>7

Byte == 0 .. 255
Code == {c \in Nat : c <= 1114111}

\* The prover would take 0 .. 255 apart number by number.
LEMMA Bytes8 == ASSUME NEW b PROVE b \in Byte <=> b \in Nat /\ b <= 255
<1>1. PICK top : top = 255
  OBVIOUS
<1>2. b \in 0 .. top <=> b \in Nat /\ b <= top
  BY <1>1
<1>3. QED
  BY <1>1, <1>2 DEF Byte

LEMMA ContIsByte ==
  ASSUME NEW c \in Nat, NEW unit \in {1, 64, 4096}
  PROVE  Cont(c, unit) \in Byte
<1>1. Cont(c, unit) \in Nat /\ Cont(c, unit) <= 255
  <2>1. PICK q \in Nat : q = c \div unit
    OBVIOUS
  <2>2. q % 64 \in Nat /\ q % 64 <= 63
    OBVIOUS
  <2>3. QED
    BY <2>1, <2>2 DEF Cont
<1>2. QED
  BY <1>1, Bytes8

LEMMA EncodedType ==
  ASSUME NEW c \in Code
  PROVE  encode_utf8(c) \in Seq(Byte) /\ encode_utf8(c) # <<>>
<1>1. c \in Nat /\ c <= 1114111
  BY SMT DEF Code
<1>2. Cont(c, 1) \in Byte /\ Cont(c, 64) \in Byte /\ Cont(c, 4096) \in Byte
  BY <1>1, ContIsByte
<1>3. CASE c < 128
  <2>1. c \in Byte
    BY <1>1, <1>3, Bytes8
  <2>2. encode_utf8(c) = <<c>>
    BY SMT, <1>1, <1>3 DEF encode_utf8
  <2>3. QED
    BY <2>1, <2>2
<1>4. CASE 128 <= c /\ c < 2048
  <2>1. 192 + c \div 64 \in Nat /\ 192 + c \div 64 <= 255
    BY SMT, <1>1, <1>4
  <2>2. encode_utf8(c) = <<192 + c \div 64, Cont(c, 1)>>
    BY SMT, <1>1, <1>4 DEF encode_utf8
  <2>3. QED
    BY <1>2, <2>1, <2>2, Bytes8
<1>5. CASE 2048 <= c /\ c < 65536
  <2>1. 224 + c \div 4096 \in Nat /\ 224 + c \div 4096 <= 255
    BY SMT, <1>1, <1>5
  <2>2. encode_utf8(c) = <<224 + c \div 4096, Cont(c, 64), Cont(c, 1)>>
    BY SMT, <1>1, <1>5 DEF encode_utf8
  <2>3. QED
    BY SMT, <1>2, <2>1, <2>2, Bytes8
<1>6. CASE 65536 <= c
  <2>1. 240 + c \div 262144 \in Nat /\ 240 + c \div 262144 <= 255
    BY SMT, <1>1, <1>6
  <2>2. encode_utf8(c) = <<240 + c \div 262144, Cont(c, 4096), Cont(c, 64), Cont(c, 1)>>
    BY SMT, <1>1, <1>6 DEF encode_utf8
  <2>3. QED
    BY SMT, <1>2, <2>1, <2>2, Bytes8
<1>7. QED
  BY SMT, <1>1, <1>3, <1>4, <1>5, <1>6

\* The text of one character more is longer by its encoding.
LEMMA EncodingsAppend ==
  ASSUME NEW w \in Seq(Code), NEW c \in Code
  PROVE  Encodings(Append(w, c)) = Encodings(w) \o encode_utf8(c)
<1>1. PICK n \in Nat : n = Len(w) /\ DOMAIN w = 1 .. n
  OBVIOUS
<1>2. PICK v : v = Append(w, c)
  OBVIOUS
<1>3. /\ DOMAIN v = 1 .. n + 1 /\ v[n + 1] = c
      /\ \A i \in 1 .. n : v[i] = w[i] /\ w[i] \in Code
  BY <1>1, <1>2
<1>4. PICK e : e = encode_utf8(c) /\ e \in Seq(Byte)
  BY EncodedType
<1>5. PICK ss : ss = [i \in DOMAIN w |-> encode_utf8(w[i])]
  OBVIOUS
<1>6. ss \in [1 .. n -> Seq(Byte)]
  BY <1>1, <1>3, <1>5, EncodedType
<1>7. ss \in Seq(Seq(Byte)) /\ Len(ss) = n
  <2>1. ss \in Seq(Seq(Byte))
    BY <1>6, SeqDef
  <2>2. QED
    BY <1>6, <2>1
<1>8. PICK tt : tt = [i \in DOMAIN v |-> encode_utf8(v[i])]
  OBVIOUS
<1>9. tt = Append(ss, e)
  <2>1. PICK uu : uu = Append(ss, e)
    OBVIOUS
  <2>2. /\ uu \in Seq(Seq(Byte)) /\ Len(uu) = n + 1 /\ uu[n + 1] = e
        /\ \A i \in 1 .. n : uu[i] = ss[i]
    BY <1>4, <1>7, <2>1
  <2>3. DOMAIN uu = 1 .. n + 1 /\ uu = [i \in 1 .. n + 1 |-> uu[i]]
    BY <2>2
  <2>4. \A i \in 1 .. n + 1 : tt[i] = uu[i]
    <3>1. TAKE i \in 1 .. n + 1
    <3>2. tt[i] = encode_utf8(v[i])
      BY <1>3, <1>8
    <3>3. CASE i = n + 1
      BY <1>3, <1>4, <2>2, <3>2, <3>3
    <3>4. CASE i \in 1 .. n
      BY <1>1, <1>3, <1>5, <2>2, <3>2, <3>4
    <3>5. QED
      BY <3>3, <3>4
  <2>5. QED
    BY <1>3, <1>8, <2>1, <2>3, <2>4
<1>10. QED
  BY <1>2, <1>4, <1>5, <1>7, <1>8, <1>9, FlattenAppend DEF Encodings

LEMMA EncodingsNone == Encodings(<<>>) = <<>>
<1>1. PICK ss : ss = [i \in DOMAIN <<>> |-> encode_utf8(<<>>[i])]
  OBVIOUS
<1>2. ss = <<>> /\ Len(ss) = 0
  BY <1>1
<1>3. QED
  BY <1>1, <1>2 DEF Encodings, FlattenSeq

-----------------------------------------------------------------------------
(* The bytes of one character and its value.                               *)

\* Six bits more; and the values of two to four bytes.
Shifted(a, r) == a * 64 + r
Value2(x, y) == (x % 32) * 64 + (y % 64)
Value3(x, y, z) == (x % 16) * 4096 + (y % 64) * 64 + (z % 64)
Value4(x, y, z, w) == (x % 8) * 262144 + (y % 64) * 4096 + (z % 64) * 64 + (w % 64)

LEMMA Sixes ==
  ASSUME NEW a \in Nat, NEW r \in Nat, r < 64
  PROVE  /\ Shifted(a, r) \in Nat /\ Shifted(a, r) \div 64 = a /\ Shifted(a, r) % 64 = r
         /\ Shifted(a, r) \div 4096 = a \div 64
BY SMT DEF Shifted

LEMMA Low ==
  ASSUME NEW y \in Nat, 128 <= y, y <= 191
  PROVE  y % 64 \in Nat /\ y % 64 = y - 128 /\ y % 64 < 64
BY SMT

LEMMA ContAt ==
  ASSUME NEW a \in Nat, NEW r \in Nat, r < 64
  PROVE  /\ Cont(Shifted(a, r), 1) = 128 + r
         /\ Cont(Shifted(a, r), 64) = Cont(a, 1)
         /\ Cont(Shifted(a, r), 4096) = Cont(a, 64)
<1>1. PICK v \in Nat : v = Shifted(a, r)
  BY SMT, Sixes
<1>2. v \div 64 = a /\ v % 64 = r /\ v \div 4096 = a \div 64
  BY SMT, <1>1, Sixes
<1>3. v \div 1 = v /\ a \div 1 = a
  BY SMT
<1>4. QED
  BY SMT, <1>1, <1>2, <1>3 DEF Cont

LEMMA TwoBytes ==
  ASSUME NEW x \in Nat, NEW y \in Nat, 194 <= x, x <= 223, 128 <= y, y <= 191,
         NEW v, v = Value2(x, y)
  PROVE  v \in Nat /\ 128 <= v /\ v < 2048 /\ encode_utf8(v) = <<x, y>>
<1>1. PICK a \in Nat : a = x % 32 /\ a = x - 192
  BY SMT
<1>2. PICK r \in Nat : r = y % 64 /\ r = y - 128 /\ r < 64
  BY SMT, Low
<1>3. v = Shifted(a, r) /\ v \in Nat /\ 128 <= v /\ v < 2048 /\ ~(v < 128)
  BY SMT, <1>1, <1>2 DEF Shifted, Value2
<1>4. v \div 64 = a /\ Cont(v, 1) = y /\ 192 + a = x
  BY SMT, <1>1, <1>2, <1>3, Sixes, ContAt
<1>5. QED
  BY SMT, <1>3, <1>4 DEF encode_utf8

LEMMA ThreeBytes ==
  ASSUME NEW x \in Nat, NEW y \in Nat, NEW z \in Nat, 224 <= x, x <= 239,
         128 <= y, y <= 191, 128 <= z, z <= 191
  PROVE  LET v == Value3(x, y, z)
         IN  /\ v \in Nat /\ v < 65536
             /\ v >= 2048 => encode_utf8(v) = <<x, y, z>>
             /\ 2048 <= v <=> x # 224 \/ 160 <= y
             /\ IsSurrogate(v) <=> x = 237 /\ 160 <= y
<1>0. PICK v : v = Value3(x, y, z)
  BY SMT
<1>1. PICK a \in Nat : a = x % 16 /\ a = x - 224
  BY SMT
<1>2. PICK q \in Nat : q = y % 64 /\ q = y - 128 /\ q < 64
  BY SMT, Low
<1>3. PICK r \in Nat : r = z % 64 /\ r = z - 128 /\ r < 64
  BY SMT, Low
<1>4. PICK b \in Nat : b = a * 64 + q
  BY SMT, <1>1, <1>2
<1>a. b = Shifted(a, q) /\ v = Shifted(b, r)
  BY SMT, <1>0, <1>1, <1>2, <1>3, <1>4 DEF Shifted, Value3
<1>5. v = b * 64 + r /\ v \in Nat /\ v < 65536
  BY SMT, <1>1, <1>2, <1>3, <1>4, <1>a DEF Shifted
<1>6. Cont(v, 1) = z /\ Cont(v, 64) = y
  BY SMT, <1>2, <1>3, <1>a, ContAt
<1>7. v \div 4096 = a /\ 224 + a = x
  BY SMT, <1>1, <1>2, <1>3, <1>4, <1>5
<1>8. v >= 2048 => encode_utf8(v) = <<x, y, z>>
  BY SMT, <1>5, <1>6, <1>7 DEF encode_utf8
<1>9. 2048 <= v <=> x # 224 \/ 160 <= y
  BY SMT, <1>1, <1>2, <1>3, <1>4, <1>5
<1>10. IsSurrogate(v) <=> x = 237 /\ 160 <= y
  BY SMT, <1>1, <1>2, <1>3, <1>4, <1>5 DEF IsSurrogate
<1>11. QED
  BY SMT, <1>0, <1>5, <1>8, <1>9, <1>10

LEMMA FourBytes ==
  ASSUME NEW x \in Nat, NEW y \in Nat, NEW z \in Nat, NEW w \in Nat,
         240 <= x, x <= 244, 128 <= y, y <= 191, 128 <= z, z <= 191,
         128 <= w, w <= 191
  PROVE  LET v == Value4(x, y, z, w)
         IN  /\ v \in Nat
             /\ 65536 <= v /\ v <= 1114111 => encode_utf8(v) = <<x, y, z, w>>
             /\ 65536 <= v <=> x # 240 \/ 144 <= y
             /\ v <= 1114111 <=> x # 244 \/ y <= 143
<1>0. PICK v : v = Value4(x, y, z, w)
  BY SMT
<1>1. PICK a \in Nat : a = x % 8 /\ a = x - 240
  BY SMT
<1>2. PICK p \in Nat : p = y % 64 /\ p = y - 128 /\ p < 64
  BY SMT, Low
<1>3. PICK q \in Nat : q = z % 64 /\ q = z - 128 /\ q < 64
  BY SMT, Low
<1>4. PICK r \in Nat : r = w % 64 /\ r = w - 128 /\ r < 64
  BY SMT, Low
<1>5. PICK b \in Nat : b = a * 64 + p
  BY SMT, <1>1, <1>2
<1>6. PICK c \in Nat : c = b * 64 + q
  BY SMT, <1>3, <1>5
<1>a. b = Shifted(a, p) /\ c = Shifted(b, q) /\ v = Shifted(c, r)
  BY SMT, <1>1, <1>2, <1>3, <1>4, <1>5, <1>6, <1>0 DEF Shifted, Value4
<1>7. v = c * 64 + r /\ v \in Nat
  BY SMT, <1>4, <1>6, <1>a DEF Shifted
<1>8. Cont(v, 1) = w /\ Cont(v, 64) = z
  BY SMT, <1>3, <1>4, <1>a, ContAt
<1>9. Cont(v, 4096) = y
  <2>1. Cont(v, 4096) = Cont(c, 64) /\ Cont(c, 64) = Cont(b, 1) /\ Cont(b, 1) = 128 + p
    BY SMT, <1>2, <1>3, <1>4, <1>a, ContAt
  <2>2. QED
    BY SMT, <1>2, <2>1
<1>10. v \div 262144 = a /\ 240 + a = x
  BY SMT, <1>1, <1>2, <1>3, <1>4, <1>5, <1>6, <1>7
<1>11. 65536 <= v /\ v <= 1114111 => encode_utf8(v) = <<x, y, z, w>>
  BY SMT, <1>7, <1>8, <1>9, <1>10 DEF encode_utf8
<1>12. 65536 <= v <=> x # 240 \/ 144 <= y
  BY SMT, <1>1, <1>2, <1>3, <1>4, <1>5, <1>6, <1>7
<1>13. v <= 1114111 <=> x # 244 \/ y <= 143
  BY SMT, <1>1, <1>2, <1>3, <1>4, <1>5, <1>6, <1>7
<1>14. QED
  BY SMT, <1>0, <1>7, <1>11, <1>12, <1>13

LEMMA ContRange == ASSUME NEW b \in Nat PROVE IsCont(b) <=> 128 <= b /\ b <= 191
BY SMT DEF IsCont

\* A lead byte and as many continuation bytes as it announces.
Complete(s) ==
  /\ s \in Seq(Byte) /\ s # <<>> /\ s[1] \in Nat /\ 194 <= s[1] /\ s[1] <= 244
  /\ Len(s) = Expected(s[1])
  /\ \A k \in 2 .. Len(s) : IsCont(s[k])

\* What the second byte must be like for a character to come out.
Suits(b, c) ==
  /\ b = 224 => 160 <= c
  /\ b = 237 => c < 160
  /\ b = 240 => 144 <= c
  /\ b = 244 => c <= 143
Proper(s) == Suits(s[1], s[2])

LEMMA ExpectedOf ==
  ASSUME NEW b \in Nat, 194 <= b
  PROVE  /\ b < 224 => Expected(b) = 2
         /\ 224 <= b /\ b < 240 => Expected(b) = 3
         /\ 240 <= b /\ b < 245 => Expected(b) = 4
         /\ 245 <= b => Expected(b) = 0
BY SMT DEF Expected

\* mbrtowc refuses what is complete only for its second byte, and else the
\* bytes are the encoding of the character.
LEMMA CompleteValue ==
  ASSUME NEW s, Complete(s)
  PROVE  /\ Refused(Value(s), Expected(s[1])) <=> ~Proper(s)
         /\ Proper(s) => /\ Value(s) \in Nat /\ 128 <= Value(s) /\ IsScalar(Value(s))
                         /\ encode_utf8(Value(s)) = s
<1>1. PICK n \in Nat : n = Len(s) /\ n = Expected(s[1])
  BY SMT DEF Complete
<1>2. s[1] \in Nat /\ 194 <= s[1] /\ s[1] <= 244
  BY SMT DEF Complete
<1>3. \A k \in 2 .. n : s[k] \in Nat /\ 128 <= s[k] /\ s[k] <= 191
  <2>1. TAKE k \in 2 .. n
  <2>2. s[k] \in Byte /\ IsCont(s[k])
    BY SMT, <1>1 DEF Complete
  <2>3. QED
    BY SMT, <2>2, Bytes8, ContRange
<1>4. PICK v : v = Value(s)
  BY SMT
<1>5. CASE s[1] < 224
  <2>1. n = 2
    BY SMT, <1>1, <1>2, <1>5, ExpectedOf
  <2>2. PICK x \in Nat : x = s[1] /\ 194 <= x /\ x <= 223
    BY SMT, <1>2, <1>5
  <2>3. PICK y \in Nat : y = s[2] /\ 128 <= y /\ y <= 191
    BY SMT, <1>3, <2>1
  <2>4. v = Value2(x, y)
    <3>1. Len(s) = 2
      BY SMT, <1>1, <2>1
    <3>2. v = (s[1] % 32) * 64 + (s[2] % 64)
      BY SMT, <1>4, <3>1 DEF Value
    <3>3. QED
      BY SMT, <2>2, <2>3, <3>2 DEF Value2
  <2>5. v \in Nat /\ 128 <= v /\ v < 2048 /\ encode_utf8(v) = <<x, y>>
    BY SMT, <2>2, <2>3, <2>4, TwoBytes
  <2>6. s = <<x, y>>
    BY SMT, <1>1, <2>1, <2>2, <2>3 DEF Complete
  <2>7. Proper(s)
    BY SMT, <2>2 DEF Proper, Suits
  <2>8. ~Refused(v, 2) /\ IsScalar(v)
    BY SMT, <2>5 DEF Refused, IsScalar, IsSurrogate
  <2>9. QED
    BY SMT, <1>1, <1>4, <2>1, <2>5, <2>6, <2>7, <2>8
<1>6. CASE 224 <= s[1] /\ s[1] < 240
  <2>1. n = 3
    BY SMT, <1>1, <1>2, <1>6, ExpectedOf
  <2>2. PICK x \in Nat : x = s[1] /\ 224 <= x /\ x <= 239
    BY SMT, <1>2, <1>6
  <2>3. PICK y \in Nat : y = s[2] /\ 128 <= y /\ y <= 191
    BY SMT, <1>3, <2>1
  <2>4. PICK z \in Nat : z = s[3] /\ 128 <= z /\ z <= 191
    BY SMT, <1>3, <2>1
  <2>5. v = Value3(x, y, z)
    <3>1. Len(s) = 3
      BY SMT, <1>1, <2>1
    <3>2. v = (s[1] % 16) * 4096 + (s[2] % 64) * 64 + (s[3] % 64)
      BY SMT, <1>4, <3>1 DEF Value
    <3>3. QED
      BY SMT, <2>2, <2>3, <2>4, <3>2 DEF Value3
  <2>6. /\ v \in Nat /\ v < 65536
        /\ v >= 2048 => encode_utf8(v) = <<x, y, z>>
        /\ 2048 <= v <=> x # 224 \/ 160 <= y
        /\ IsSurrogate(v) <=> x = 237 /\ 160 <= y
    <3>1. 224 <= x /\ x <= 239 /\ 128 <= y /\ y <= 191 /\ 128 <= z /\ z <= 191
      BY SMT, <2>2, <2>3, <2>4
    <3>2. LET u == Value3(x, y, z)
          IN  /\ u \in Nat /\ u < 65536
              /\ u >= 2048 => encode_utf8(u) = <<x, y, z>>
              /\ 2048 <= u <=> x # 224 \/ 160 <= y
              /\ IsSurrogate(u) <=> x = 237 /\ 160 <= y
      BY SMT, <3>1, ThreeBytes
    <3>3. QED
      BY SMT, <2>5, <3>2
  <2>7. s = <<x, y, z>>
    BY SMT, <1>1, <2>1, <2>2, <2>3, <2>4 DEF Complete
  <2>8. Proper(s) <=> (x = 224 => 160 <= y) /\ (x = 237 => y < 160)
    BY SMT, <2>2, <2>3 DEF Proper, Suits
  <2>9. Refused(v, 3) <=> v < 2048 \/ IsSurrogate(v)
    BY SMT, <2>6 DEF Refused
  <2>10. Refused(v, 3) <=> ~Proper(s)
    BY SMT, <2>3, <2>6, <2>8, <2>9
  <2>11. Proper(s) => 128 <= v /\ 2048 <= v /\ IsScalar(v)
    BY SMT, <2>3, <2>6, <2>8 DEF IsScalar
  <2>12. QED
    BY SMT, <1>1, <1>4, <2>1, <2>6, <2>7, <2>10, <2>11
<1>7. CASE 240 <= s[1]
  <2>1. n = 4
    BY SMT, <1>1, <1>2, <1>7, ExpectedOf
  <2>2. PICK x \in Nat : x = s[1] /\ 240 <= x /\ x <= 244
    BY SMT, <1>2, <1>7
  <2>3. PICK y \in Nat : y = s[2] /\ 128 <= y /\ y <= 191
    BY SMT, <1>3, <2>1
  <2>4. PICK z \in Nat : z = s[3] /\ 128 <= z /\ z <= 191
    BY SMT, <1>3, <2>1
  <2>5. PICK w \in Nat : w = s[4] /\ 128 <= w /\ w <= 191
    BY SMT, <1>3, <2>1
  <2>6. v = Value4(x, y, z, w)
    <3>1. Len(s) = 4
      BY SMT, <1>1, <2>1
    <3>2. v = (s[1] % 8) * 262144 + (s[2] % 64) * 4096 + (s[3] % 64) * 64 + (s[4] % 64)
      BY SMT, <1>4, <3>1 DEF Value
    <3>3. QED
      BY SMT, <2>2, <2>3, <2>4, <2>5, <3>2 DEF Value4
  <2>7. /\ v \in Nat
        /\ 65536 <= v /\ v <= 1114111 => encode_utf8(v) = <<x, y, z, w>>
        /\ 65536 <= v <=> x # 240 \/ 144 <= y
        /\ v <= 1114111 <=> x # 244 \/ y <= 143
    <3>1. /\ 240 <= x /\ x <= 244 /\ 128 <= y /\ y <= 191
          /\ 128 <= z /\ z <= 191 /\ 128 <= w /\ w <= 191
      BY SMT, <2>2, <2>3, <2>4, <2>5
    <3>2. LET u == Value4(x, y, z, w)
          IN  /\ u \in Nat
              /\ 65536 <= u /\ u <= 1114111 => encode_utf8(u) = <<x, y, z, w>>
              /\ 65536 <= u <=> x # 240 \/ 144 <= y
              /\ u <= 1114111 <=> x # 244 \/ y <= 143
      BY SMT, <3>1, FourBytes
    <3>3. QED
      BY SMT, <2>6, <3>2
  <2>8. s = <<x, y, z, w>>
    BY SMT, <1>1, <2>1, <2>2, <2>3, <2>4, <2>5 DEF Complete
  <2>9. Proper(s) <=> (x = 240 => 144 <= y) /\ (x = 244 => y <= 143)
    BY SMT, <2>2, <2>3 DEF Proper, Suits
  <2>10. Refused(v, 4) <=> v < 65536 \/ ~(v <= 1114111)
    BY SMT, <2>7 DEF Refused, IsSurrogate
  <2>11. Refused(v, 4) <=> ~Proper(s)
    BY SMT, <2>7, <2>9, <2>10
  <2>12. Proper(s) => 128 <= v /\ 65536 <= v /\ v <= 1114111 /\ IsScalar(v)
    BY SMT, <2>7, <2>9 DEF IsScalar, IsSurrogate
  <2>13. QED
    BY SMT, <1>1, <1>4, <2>1, <2>7, <2>8, <2>11, <2>12
<1>8. QED
  BY SMT, <1>2, <1>5, <1>6, <1>7

-----------------------------------------------------------------------------
(* The characters of the standard, and what one call makes of a text.      *)

LEMMA SecondByteOf ==
  ASSUME NEW b \in Nat, NEW c \in Nat
  PROVE  c \in Second(b) <=> /\ 128 <= c /\ c <= 191
                             /\ b = 224 => 160 <= c
                             /\ b = 237 => c < 160
                             /\ b = 240 => 144 <= c
                             /\ b = 244 => c <= 143
BY SMT DEF Second

LEMMA FollowOf ==
  ASSUME NEW b \in Nat
  PROVE  /\ b < 128 => Follow(b).more = 0
         /\ 194 <= b /\ b < 224 => Follow(b).more = 1
         /\ 224 <= b /\ b < 240 => Follow(b).more = 2
         /\ 240 <= b /\ b < 245 => Follow(b).more = 3
BY SMT DEF Follow

\* WellFormed, which the standard's table gives, in terms of the decoder.
LEMMA WellFormedIs ==
  ASSUME NEW s \in Seq(Byte), s # <<>>
  PROVE  WellFormed(s) <=> \/ Len(s) = 1 /\ s[1] < 128
                           \/ Complete(s) /\ Proper(s)
<1>1. PICK n \in Nat : n = Len(s) /\ n # 0
  BY EmptySeq
<1>2. \A k \in 1 .. n : s[k] \in Nat /\ s[k] <= 255
  BY <1>1, Bytes8
<1>3. PICK b \in Nat : b = s[1]
  BY <1>1, <1>2
<1>4. b \in 0 .. 127 \cup 194 .. 244 <=> b < 128 \/ (194 <= b /\ b <= 244)
  BY SMT
<1>5. CASE b < 128
  <2>1. WellFormed(s) => Len(s) = 1
    BY SMT, <1>3, <1>5, FollowOf DEF WellFormed
  <2>2. Len(s) = 1 => WellFormed(s)
    <3>1. Len(s) = 1 => Len(s) = 1 + Follow(s[1]).more
      BY SMT, <1>3, <1>5, FollowOf
    <3>2. Len(s) = 1 => ~(Len(s) > 1) /\ 3 .. Len(s) = {}
      BY SMT
    <3>3. s[1] \in 0 .. 127 \cup 194 .. 244
      <4>1. b \in 0 .. 127 \cup 194 .. 244
        BY SMT, <1>4, <1>5
      <4>2. QED
        BY Zenon, <1>3, <4>1
    <3>4. QED
      BY <3>1, <3>2, <3>3 DEF WellFormed
  <2>3. ~Complete(s)
    BY SMT, <1>3, <1>5 DEF Complete
  <2>4. s[1] < 128
    BY <1>3, <1>5
  <2>5. QED
    BY <2>1, <2>2, <2>3, <2>4
<1>6. CASE 194 <= b /\ b <= 244
  <2>1. PICK e \in Nat : e = Expected(b) /\ e = 1 + Follow(b).more /\ e >= 2
    BY SMT, <1>6, FollowOf, ExpectedOf
  <2>2. b \in 0 .. 127 \cup 194 .. 244 /\ ~(b < 128)
    BY SMT, <1>4, <1>6
  <2>3. ASSUME n = e
        PROVE  WellFormed(s) <=> Complete(s) /\ Proper(s)
    <3>1. 2 \in 1 .. n /\ Len(s) > 1
      BY SMT, <1>1, <2>1, <2>3
    <3>2. PICK c \in Nat : c = s[2]
      BY <1>2, <3>1
    <3>3. c \in Second(b) <=> IsCont(c) /\ Proper(s)
      BY SMT, <1>3, <3>2, SecondByteOf, ContRange DEF Proper, Suits
    <3>4. WellFormed(s) <=> c \in Second(b) /\ \A k \in 3 .. n : IsCont(s[k])
      BY <1>1, <1>3, <2>1, <2>2, <2>3, <3>1, <3>2 DEF WellFormed
    <3>5. (\A k \in 2 .. n : IsCont(s[k])) <=> IsCont(c) /\ \A k \in 3 .. n : IsCont(s[k])
      <4>1. \A k \in 2 .. n : k = 2 \/ k \in 3 .. n
        BY SMT, <3>1
      <4>2. 2 \in 2 .. n /\ \A k \in 3 .. n : k \in 2 .. n
        BY SMT, <3>1
      <4>3. QED
        BY <3>2, <4>1, <4>2
    <3>6. Complete(s) <=> \A k \in 2 .. n : IsCont(s[k])
      BY <1>1, <1>3, <1>6, <2>1, <2>3 DEF Complete
    <3>7. QED
      BY <3>3, <3>4, <3>5, <3>6
  <2>4. n # e => ~WellFormed(s) /\ ~Complete(s)
    BY <1>1, <1>3, <2>1 DEF WellFormed, Complete
  <2>5. ~(s[1] < 128)
    BY <1>3, <2>2
  <2>6. QED
    BY <2>3, <2>4, <2>5
<1>7. CASE ~(b < 128) /\ ~(194 <= b /\ b <= 244)
  <2>1. ~WellFormed(s)
    BY <1>3, <1>4, <1>7 DEF WellFormed
  <2>2. ~Complete(s) /\ ~(s[1] < 128)
    BY <1>3, <1>7 DEF Complete
  <2>3. QED
    BY <2>1, <2>2
<1>8. QED
  BY <1>5, <1>6, <1>7

\* No text that begins with z begins with a character.
NoCharacter(z) ==
  \A y \in Seq(Byte) :
    Len(z) <= Len(y) /\ (\A i \in 1 .. Len(z) : y[i] = z[i]) =>
      \A k \in 1 .. Len(y) : ~WellFormed(SubSeq(y, 1, k))

LEMMA BeginsNone ==
  ASSUME NEW z \in Seq(Byte), z # <<>>, 128 <= z[1],
         \/ z[1] < 194
         \/ 245 <= z[1]
         \/ \E j \in 2 .. Expected(z[1]) : j <= Len(z) /\ ~IsCont(z[j])
         \/ 2 <= Len(z) /\ ~Proper(z)
  PROVE  NoCharacter(z)
<1> SUFFICES ASSUME NEW y \in Seq(Byte), Len(z) <= Len(y),
                    \A i \in 1 .. Len(z) : y[i] = z[i],
                    NEW k \in 1 .. Len(y), WellFormed(SubSeq(y, 1, k))
             PROVE  FALSE
  BY DEF NoCharacter
<1>1. PICK n \in Nat : n = Len(z) /\ n >= 1
  BY EmptySeq
<1>2. PICK w : w = SubSeq(y, 1, k)
  OBVIOUS
<1>3. w \in Seq(Byte) /\ Len(w) = k /\ \A i \in 1 .. k : w[i] = y[i]
  BY <1>2
<1>4. w # <<>> /\ k \in Nat /\ k >= 1
  BY <1>3
<1>5. \A i \in 1 .. k : i <= n => w[i] = z[i]
  BY <1>1, <1>3
<1>6. z[1] \in Byte /\ w[1] = z[1]
  BY <1>1, <1>4, <1>5
<1>7. PICK b \in Nat : b = z[1] /\ 128 <= b
  BY <1>6, Bytes8
<1>8. Complete(w) /\ Proper(w)
  <2>1. ~(w[1] < 128)
    BY SMT, <1>6, <1>7
  <2>2. QED
    BY <1>2, <1>3, <1>4, <2>1, WellFormedIs
<1>9. 194 <= b /\ b <= 244 /\ k = Expected(b) /\ \A j \in 2 .. k : IsCont(w[j])
  BY <1>3, <1>6, <1>7, <1>8 DEF Complete
<1>10. ~(\E j \in 2 .. Expected(z[1]) : j <= Len(z) /\ ~IsCont(z[j]))
  <2>1. \A j \in 2 .. k : j <= n => w[j] = z[j]
    BY <1>4, <1>5
  <2>2. QED
    BY <1>1, <1>7, <1>9, <2>1
<1>11. ~(2 <= Len(z) /\ ~Proper(z))
  <2>1. k >= 2
    BY SMT, <1>9, ExpectedOf
  <2>2. 2 <= n => w[2] = z[2]
    BY <1>4, <1>5, <2>1
  <2>3. QED
    BY <1>1, <1>6, <1>8, <2>2 DEF Proper, Suits
<1>12. ~(b < 194) /\ ~(245 <= b)
  BY SMT, <1>9
<1>13. QED
  BY <1>7, <1>10, <1>11, <1>12

\* The bytes of a character that is not complete.
Waiting(b) ==
  /\ b \in Seq(Byte) /\ b # <<>> /\ 194 <= b[1] /\ Len(b) < Expected(b[1])
  /\ \A k \in 2 .. Len(b) : IsCont(b[k])

\* What x, returned for the text z of which had bytes were waiting, says:
\* all waits, no character begins there, or the first m bytes are one.
TextReads(z, had, x) ==
  \/ x.ret = Incomplete /\ x.bytes = z /\ (z = <<>> \/ Waiting(z))
  \/ x.ret = Invalid /\ x.bytes = <<>> /\ NoCharacter(z)
  \/ /\ x.bytes = <<>> /\ IsScalar(x.wc)
     /\ \E m \in 1 .. Len(z) :
          /\ m > had /\ encode_utf8(x.wc) = SubSeq(z, 1, m)
          /\ IF x.wc = 0 THEN x.ret = 0 /\ m = had + 1 ELSE x.ret = m - had

Joined(s, t, z) == z = s \o t

LEMMA JoinedBytes ==
  ASSUME NEW s \in Seq(Byte), NEW t \in Seq(Byte), NEW z, Joined(s, t, z)
  PROVE  /\ z \in Seq(Byte) /\ Len(z) = Len(s) + Len(t)
         /\ \A k \in 1 .. Len(s) : z[k] = s[k]
         /\ \A k \in 1 .. Len(t) : z[Len(s) + k] = t[k]
<1>1. PICK u : u = s \o t /\ z = u
  BY DEF Joined
<1>2. /\ u \in Seq(Byte) /\ Len(u) = Len(s) + Len(t)
      /\ \A k \in 1 .. Len(s) : u[k] = s[k]
      /\ \A k \in 1 .. Len(t) : u[Len(s) + k] = t[k]
  <2>1. u \in Seq(Byte) /\ Len(u) = Len(s) + Len(t)
    BY <1>1, ConcatProperties
  <2>2. \A k \in 1 .. Len(s) : u[k] = s[k]
    BY <1>1, ConcatProperties
  <2>3. \A k \in 1 .. Len(t) : u[Len(s) + k] = t[k]
    <3>1. TAKE k \in 1 .. Len(t)
    <3>2. PICK m \in Nat, n \in Nat : m = Len(s) /\ n = Len(t)
      OBVIOUS
    <3>3. m + k \in 1 .. m + n /\ ~(m + k <= m) /\ (m + k) - m = k
      BY <3>2
    <3>4. QED
      BY <1>1, <3>2, <3>3, ConcatProperties
  <2>4. QED
    BY <2>1, <2>2, <2>3
<1>3. QED
  BY <1>1, <1>2, Zenon

LEMMA FirstBytes ==
  ASSUME NEW z \in Seq(Byte), NEW e \in Nat, e <= Len(z), NEW w, w = SubSeq(z, 1, e)
  PROVE  w \in Seq(Byte) /\ Len(w) = e /\ \A k \in 1 .. e : w[k] = z[k]
<1>1. PICK l \in Nat : l = Len(z)
  OBVIOUS
<1>2. \A k \in 1 .. e : k \in 1 .. l /\ z[k] \in Byte
  BY <1>1
<1>3. QED
  BY <1>1, <1>2

LEMMA ProperAlike ==
  ASSUME NEW s, NEW t, s[1] = t[1], s[2] = t[2], Proper(s)
  PROVE  Proper(t)
BY DEF Proper

LEMMA CollectedReads ==
  ASSUME NEW bytes \in Seq(Byte), bytes # <<>>, 194 <= bytes[1],
         \A k \in 2 .. Len(bytes) : IsCont(bytes[k]),
         Len(bytes) < Expected(bytes[1]) \/ Expected(bytes[1]) = 0,
         NEW s \in Seq(Byte), NEW i \in Nat, i <= Len(s),
         NEW z, z = bytes \o SubSeq(s, i + 1, Len(s)),
         NEW x, x = Collected(bytes, s, i)
  PROVE  TextReads(z, Len(bytes) - i, x)
<1>1. PICK b \in Nat : b = Len(bytes) /\ b >= 1
  BY EmptySeq
<1>2. PICK n \in Nat : n = Len(s) /\ i <= n
  OBVIOUS
<1>3. PICK rest : rest = SubSeq(s, i + 1, n)
  OBVIOUS
<1>4. /\ rest \in Seq(Byte) /\ Len(rest) = n - i
      /\ \A k \in 1 .. n - i : rest[k] = s[i + k]
  BY <1>2, <1>3
<1>5. z = bytes \o rest
  BY <1>2, <1>3
<1>a. PICK l \in Nat : l = n - i
  <2>1. n - i \in Nat
    BY <1>2
  <2>2. QED
    BY <2>1
<1>b. /\ z \in Seq(Byte) /\ Len(z) = b + l
      /\ \A k \in 1 .. b : z[k] = bytes[k]
      /\ \A k \in 1 .. l : z[b + k] = rest[k]
  <2>1. bytes \in Seq(Byte) /\ rest \in Seq(Byte)
    BY <1>4
  <2>2. PICK y : y = bytes \o rest
    OBVIOUS
  <2>a. Joined(bytes, rest, y)
    BY <2>2 DEF Joined
  <2>j1. y \in Seq(Byte)
    BY <2>1, <2>a, JoinedBytes
  <2>j2. Len(y) = Len(bytes) + Len(rest)
    BY <2>1, <2>a, JoinedBytes
  <2>j3. \A k \in 1 .. Len(bytes) : y[k] = bytes[k]
    BY <2>1, <2>a, JoinedBytes
  <2>j4. \A k \in 1 .. Len(rest) : y[Len(bytes) + k] = rest[k]
    BY <2>1, <2>a, JoinedBytes
  <2>3. Len(rest) = l /\ Len(bytes) = b
    BY <1>1, <1>4, <1>a
  <2>4. QED
    BY <1>5, <2>2, <2>j1, <2>j2, <2>j3, <2>j4, <2>3
<1>6. /\ z \in Seq(Byte) /\ Len(z) = b + (n - i)
      /\ \A k \in 1 .. b : z[k] = bytes[k]
      /\ \A k \in 1 .. n - i : z[b + k] = s[i + k]
  BY <1>4, <1>a, <1>b
<1>7. PICK lead \in Nat : lead = bytes[1] /\ 194 <= lead /\ z[1] = lead
  <2>1. bytes[1] \in Byte /\ z[1] = bytes[1]
    BY <1>1, <1>6
  <2>2. QED
    BY <2>1, Bytes8
<1>8. z # <<>> /\ 128 <= z[1]
  BY <1>1, <1>2, <1>6, <1>7
<1>9. PICK e \in Nat : e = Expected(lead) /\ (e = 0 <=> 245 <= lead)
  BY SMT, <1>7, ExpectedOf
<1>10. CASE e = 0
  <2>1. x = Decoded(Invalid, <<>>, 0)
    BY <1>7, <1>9, <1>10 DEF Collected
  <2>a. 245 <= z[1]
    BY <1>7, <1>9, <1>10
  <2>2. NoCharacter(z)
    BY <1>6, <1>8, <2>a, BeginsNone
  <2>3. QED
    BY <2>1, <2>2 DEF TextReads, Decoded
<1>11. CASE e # 0
  <2>1. b < e /\ lead <= 244
    <3>1. Expected(bytes[1]) = e
      BY <1>7, <1>9
    <3>2. b < e
      BY <1>1, <1>11, <3>1
    <3>3. lead <= 244
      BY <1>9, <1>11
    <3>4. QED
      BY <3>2, <3>3
  <2>2. PICK last \in Nat : last = i + e - b /\ last > i
    <3>1. i + e - b \in Nat /\ i + e - b > i
      BY <2>1
    <3>2. QED
      BY <3>1
  <2>3. PICK m \in Nat : m = (IF last < n THEN last ELSE n) /\ i <= m /\ m <= n /\ m <= last
    BY <1>2, <2>2
  <2>4. PICK next : next = SubSeq(s, i + 1, m)
    OBVIOUS
  <2>5. /\ next \in Seq(Byte) /\ Len(next) = m - i /\ DOMAIN next = 1 .. m - i
        /\ \A k \in 1 .. m - i : next[k] = s[i + k]
    <3>1. \A k \in i + 1 .. m : k \in 1 .. n /\ s[k] \in Byte
      BY <1>2, <2>3
    <3>2. next \in Seq(Byte) /\ Len(next) = m - i
      BY <1>2, <2>3, <2>4, <3>1
    <3>3. \A k \in 1 .. m - i : next[k] = s[i + k]
      BY <1>2, <2>3, <2>4
    <3>4. QED
      BY <3>2, <3>3
  <2>6. PICK all : all = bytes \o next
    OBVIOUS
  <2>7. /\ all \in Seq(Byte) /\ Len(all) = b + (m - i)
        /\ \A k \in 1 .. b : all[k] = bytes[k]
        /\ \A k \in 1 .. m - i : all[b + k] = next[k]
    <3>1. PICK h \in Nat : h = m - i
      BY <2>3
    <3>2. /\ all \in Seq(Byte) /\ Len(all) = b + h
          /\ \A k \in 1 .. b : all[k] = bytes[k]
          /\ \A k \in 1 .. h : all[b + k] = next[k]
      <4>1. bytes \in Seq(Byte) /\ next \in Seq(Byte)
        BY <2>5
      <4>2. Joined(bytes, next, all)
        BY <2>6 DEF Joined
      <4>j1. all \in Seq(Byte)
        BY <4>1, <4>2, JoinedBytes
      <4>j2. Len(all) = Len(bytes) + Len(next)
        BY <4>1, <4>2, JoinedBytes
      <4>j3. \A k \in 1 .. Len(bytes) : all[k] = bytes[k]
        BY <4>1, <4>2, JoinedBytes
      <4>j4. \A k \in 1 .. Len(next) : all[Len(bytes) + k] = next[k]
        BY <4>1, <4>2, JoinedBytes
      <4>3. Len(next) = h /\ Len(bytes) = b
        BY <1>1, <2>5, <3>1
      <4>4. QED
        BY <4>j1, <4>j2, <4>j3, <4>j4, <4>3
    <3>3. QED
      BY <3>1, <3>2
  <2>c. /\ b >= 1 /\ i <= n /\ b < e /\ last = i + e - b /\ i <= m /\ m <= n /\ m <= last
        /\ last > n => m = n
        /\ ~(last > n) => m = last
    BY <1>1, <1>2, <2>1, <2>2, <2>3
  <2>d. PICK lz \in Nat : lz = Len(z) /\ lz = b + (n - i)
    <3>1. b + (n - i) \in Nat
      BY <2>c
    <3>2. QED
      BY <1>6, <3>1
  <2>8. \A k \in 1 .. b + (m - i) : all[k] = z[k]
    <3>1. TAKE k \in 1 .. b + (m - i)
    <3>2. CASE k \in 1 .. b
      BY <1>6, <2>7, <3>2
    <3>3. CASE ~(k \in 1 .. b)
      <4>1. PICK j \in 1 .. m - i : k = b + j
        <5>1. k - b \in 1 .. m - i /\ k = b + (k - b)
          BY <1>1, <2>3, <3>3
        <5>2. QED
          BY <5>1
      <4>2. j \in 1 .. n - i
        BY <1>2, <2>3
      <4>3. QED
        BY <1>6, <2>5, <2>7, <4>1, <4>2
    <3>4. QED
      BY <3>2, <3>3
  <2>9. x = IF e = 0 \/ \E k \in DOMAIN next : ~IsCont(next[k])
            THEN Decoded(Invalid, <<>>, 0)
            ELSE IF last > n THEN Decoded(Incomplete, all, 0)
            ELSE IF Refused(Value(all), e) THEN Decoded(Invalid, <<>>, 0)
            ELSE Decoded(IF Value(all) = 0 THEN 0 ELSE last, <<>>, Value(all))
    BY <1>1, <1>2, <1>7, <1>9, <2>2, <2>3, <2>4, <2>6 DEF Collected
  <2>10. CASE \E k \in DOMAIN next : ~IsCont(next[k])
    <3>1. x = Decoded(Invalid, <<>>, 0)
      BY <2>9, <2>10
    <3>2. PICK k \in 1 .. m - i : ~IsCont(next[k])
      BY <2>5, <2>10
    <3>3. PICK j \in Nat : j = b + k
      BY <1>1, <3>2
    <3>a. k \in Nat /\ 1 <= k /\ k <= m - i
      OBVIOUS
    <3>b. 2 <= j /\ j <= e /\ j <= lz /\ j <= b + (m - i)
      BY <2>c, <2>d, <3>3, <3>a
    <3>4. j \in 2 .. e /\ j <= Len(z) /\ j \in 1 .. b + (m - i)
      BY <2>c, <2>d, <3>b
    <3>5. ~IsCont(z[j])
      BY <2>7, <2>8, <3>2, <3>3, <3>4
    <3>6. NoCharacter(z)
      <4>1. e = Expected(z[1])
        BY <1>7, <1>9
      <4>2. \E q \in 2 .. Expected(z[1]) : q <= Len(z) /\ ~IsCont(z[q])
        BY <3>4, <3>5, <4>1
      <4>3. QED
          <5>1. z \in Seq(Byte)
            BY <1>6
          <5>2. QED
            BY ONLY <5>1, <1>8, <4>2, BeginsNone
    <3>7. QED
      BY <3>1, <3>6 DEF TextReads, Decoded
  <2>11. CASE \A k \in DOMAIN next : IsCont(next[k])
    <3>1. \A k \in 2 .. b + (m - i) : IsCont(all[k])
      <4>1. TAKE k \in 2 .. b + (m - i)
      <4>2. CASE k \in 2 .. b
        BY <1>1, <2>7, <4>2
      <4>3. CASE ~(k \in 2 .. b)
        <5>1. k - b \in 1 .. m - i /\ k = b + (k - b)
          BY <1>1, <2>3, <4>3
        <5>2. QED
          <6>1. PICK v \in 1 .. m - i : k = b + v
            BY <5>1
          <6>2. IsCont(next[v])
            BY <2>5, <2>11
          <6>3. all[b + v] = next[v]
            BY <2>7
          <6>4. QED
            BY <6>1, <6>2, <6>3
      <4>4. QED
        BY <4>2, <4>3
    <3>2. CASE last > n
      <4>1. m = n /\ b + (n - i) < e
        BY <2>c, <3>2
      <4>2. all = z
        BY <1>5, <1>3, <2>4, <2>6, <4>1
      <4>3. x = Decoded(Incomplete, z, 0)
        BY <1>11, <2>9, <2>11, <3>2, <4>2
      <4>4. Waiting(z)
        <5>1. 194 <= z[1] /\ Expected(z[1]) = e
          BY <1>7, <1>9
        <5>2. Len(z) < Expected(z[1])
          BY <2>d, <4>1, <5>1
        <5>3. \A k \in 2 .. Len(z) : IsCont(z[k])
          BY <2>d, <3>1, <4>1, <4>2
        <5>4. QED
          BY <1>6, <1>8, <5>1, <5>2, <5>3 DEF Waiting
      <4>5. x.ret = Incomplete /\ x.bytes = z
        <5>1. x = [ret |-> Incomplete, bytes |-> z, wc |-> 0]
          BY <4>3 DEF Decoded
        <5>2. QED
          BY ONLY <5>1
      <4>6. QED
        BY <4>4, <4>5 DEF TextReads
    <3>3. CASE ~(last > n)
      <4>0. m = last /\ b + (m - i) = e /\ e <= lz /\ e >= 2
        BY <2>c, <2>d, <3>3
      <4>1. m = last /\ b + (m - i) = e /\ e <= Len(z) /\ e >= 2
        BY <2>d, <4>0
      <4>2. all[1] = lead /\ all # <<>>
        BY <1>1, <1>7, <2>3, <2>7, <4>1
      <4>3. Complete(all)
        BY <1>7, <1>9, <2>1, <2>7, <3>1, <4>1, <4>2 DEF Complete
      <4>4. PICK v : v = Value(all)
        OBVIOUS
      <4>5. /\ Refused(v, e) <=> ~Proper(all)
            /\ Proper(all) => /\ v \in Nat /\ 128 <= v /\ IsScalar(v)
                              /\ encode_utf8(v) = all
        BY <1>9, <4>2, <4>3, <4>4, CompleteValue
      <4>6. CASE Refused(v, e)
        <5>1. x = Decoded(Invalid, <<>>, 0)
          BY <1>11, <2>9, <2>11, <3>3, <4>4, <4>6
        <5>2. all[1] = z[1] /\ all[2] = z[2]
          <6>1. 1 \in 1 .. b + (m - i) /\ 2 \in 1 .. b + (m - i)
            BY <4>0
          <6>2. QED
            BY <2>8, <6>1
        <5>3. ~Proper(z) /\ 2 <= Len(z)
          <6>1. Proper(all) => Proper(z)
            BY <5>2, ProperAlike
          <6>2. Proper(z) => Proper(all)
            BY <5>2, ProperAlike
          <6>3. 2 <= Len(z)
            BY <4>0, <2>d
          <6>4. QED
            BY <4>5, <4>6, <6>1, <6>2, <6>3, Zenon
        <5>4. NoCharacter(z)
          BY <1>6, <1>8, <5>3, BeginsNone
        <5>5. QED
          BY <5>1, <5>4 DEF TextReads, Decoded
      <4>7. CASE ~Refused(v, e)
        <5>1. v \in Nat /\ 128 <= v /\ IsScalar(v) /\ encode_utf8(v) = all /\ v # 0
          BY <4>5, <4>7
        <5>2. x = Decoded(last, <<>>, v)
          BY <1>11, <2>9, <2>11, <3>3, <4>4, <4>7, <5>1
        <5>3. x.ret = last /\ x.bytes = <<>> /\ x.wc = v
          BY <5>2 DEF Decoded
        <5>4. all = SubSeq(z, 1, e)
          <6>1. PICK w : w = SubSeq(z, 1, e)
            OBVIOUS
          <6>2. w \in Seq(Byte) /\ Len(w) = e /\ \A k \in 1 .. e : w[k] = z[k]
            <7>1. e <= Len(z) /\ z \in Seq(Byte) /\ e \in Nat
              BY <2>d, <4>0, <1>6
            <7>2. w \in Seq(Byte) /\ Len(w) = e
              BY <6>1, <7>1, FirstBytes
            <7>3. \A k \in 1 .. e : w[k] = z[k]
              BY ONLY <6>1, <7>1, FirstBytes
            <7>4. QED
              BY <7>2, <7>3
          <6>3. \A k \in 1 .. Len(all) : all[k] = w[k]
            BY <2>7, <2>8, <4>1, <6>2
          <6>4. QED
            BY <2>7, <4>1, <6>1, <6>2, <6>3, SeqEqual
        <5>5. e \in 1 .. Len(z) /\ e > b - i /\ last = e - (b - i)
          BY <1>1, <2>1, <2>2, <4>1
        <5>6. QED
          BY <1>1, <5>1, <5>3, <5>4, <5>5 DEF TextReads
      <4>8. QED
        BY <4>6, <4>7
    <3>4. QED
      BY <3>2, <3>3
  <2>12. QED
    BY <2>10, <2>11
<1>12. QED
  BY <1>10, <1>11

\* Every call of mbrtowc, in whatever state the ones before have left ps.
LEMMA MbrtowcReads ==
  ASSUME NEW s \in Seq(Byte), NEW w, w = <<>> \/ Waiting(w),
         NEW x, x = mbrtowc(s, w)
  PROVE  TextReads(w \o s, Len(w), x)
<1>0. w \in Seq(Byte)
  <2>1. <<>> \in Seq(Byte)
    OBVIOUS
  <2>2. QED
    BY <2>1 DEF Waiting
<1>1. w \in Seq(Byte) /\ Len(w) \in Nat /\ w \o s \in Seq(Byte)
  BY <1>0
<1>2. CASE s = <<>>
  <2>1. x = Decoded(Incomplete, w, 0)
    BY <1>2 DEF mbrtowc
  <2>2. w \o s = w
    BY <1>1, <1>2
  <2>3. QED
    BY <2>1, <2>2 DEF TextReads, Decoded
<1>3. CASE s # <<>> /\ w # <<>>
  <2>1. x = Collected(w, s, 0)
    BY <1>3 DEF mbrtowc
  <2>2. SubSeq(s, 0 + 1, Len(s)) = s /\ 0 <= Len(s) /\ 0 \in Nat
    BY SubSeqFull
  <2>3. PICK z : z = w \o SubSeq(s, 0 + 1, Len(s)) /\ z = w \o s
    BY <2>2
  <2>4. TextReads(z, Len(w) - 0, x)
    BY <1>1, <1>3, <2>1, <2>2, <2>3, CollectedReads DEF Waiting
  <2>5. Len(w) - 0 = Len(w)
    BY <1>1
  <2>6. QED
    BY <2>3, <2>4, <2>5
<1>4. CASE s # <<>> /\ w = <<>>
  <2>1. PICK n \in Nat : n = Len(s) /\ n >= 1
    BY <1>4, EmptySeq
  <2>2. w \o s = s /\ Len(w) = 0
    BY <1>4
  <2>3. PICK b \in Nat : b = s[1] /\ b \in Byte /\ b <= 255
    BY <2>1, Bytes8
  <2>4. CASE b < 128
    <3>1. x = Decoded(IF b = 0 THEN 0 ELSE 1, <<>>, b)
      BY <1>4, <2>3, <2>4 DEF mbrtowc
    <3>2. x.ret = (IF b = 0 THEN 0 ELSE 1) /\ x.bytes = <<>> /\ x.wc = b
      BY <3>1 DEF Decoded
    <3>3. encode_utf8(b) = <<b>> /\ IsScalar(b)
      BY SMT, <2>4 DEF encode_utf8, IsScalar, IsSurrogate
    <3>4. SubSeq(s, 1, 1) = <<b>>
      <4>1. PICK t : t = SubSeq(s, 1, 1)
        OBVIOUS
      <4>2. t \in Seq(Byte) /\ Len(t) = 1 /\ t[1] = s[1]
        BY <2>1, <4>1
      <4>3. t = <<s[1]>>
        BY <4>2
      <4>4. QED
        BY <2>3, <4>1, <4>3
    <3>5. 1 \in 1 .. n /\ 1 > 0 /\ 1 - 0 = 1 /\ 0 + 1 = 1
      BY <2>1
    <3>6. \E m \in 1 .. n : /\ m > 0 /\ encode_utf8(b) = SubSeq(s, 1, m)
                            /\ IF b = 0 THEN x.ret = 0 /\ m = 0 + 1 ELSE x.ret = m - 0
      BY <3>2, <3>3, <3>4, <3>5
    <3>7. QED
      BY <2>1, <2>2, <3>2, <3>3, <3>6 DEF TextReads
  <2>5. CASE 128 <= b /\ b < 194
    <3>1. x = Decoded(Invalid, <<>>, 0)
      BY <1>4, <2>3, <2>5 DEF mbrtowc
    <3>2. NoCharacter(s)
      BY <1>4, <2>3, <2>5, BeginsNone
    <3>3. QED
      BY <2>2, <3>1, <3>2 DEF TextReads, Decoded
  <2>6. CASE 194 <= b
    <3>1. PICK one : one = <<b>>
      OBVIOUS
    <3>2. one \in Seq(Byte) /\ Len(one) = 1 /\ one[1] = b /\ one # <<>>
      BY <2>3, <3>1
    <3>3. x = Collected(one, s, 1)
      BY <1>4, <2>3, <2>6, <3>1 DEF mbrtowc
    <3>4. PICK z : z = one \o SubSeq(s, 1 + 1, Len(s))
      OBVIOUS
    <3>5. z = s
      <4>1. PICK t : t = SubSeq(s, 2, n)
        OBVIOUS
      <4>2. /\ t \in Seq(Byte) /\ Len(t) = n - 1
            /\ \A k \in 1 .. n - 1 : t[k] = s[k + 1]
        BY <2>1, <4>1
      <4>3. z = one \o t
        BY <2>1, <3>4, <4>1
      <4>4. z \in Seq(Byte) /\ Len(z) = n /\ z[1] = b /\ \A k \in 1 .. n - 1 : z[1 + k] = t[k]
        <5>1. PICK l \in Nat : l = n - 1
          BY <2>1
        <5>2. /\ z \in Seq(Byte) /\ Len(z) = 1 + l /\ \A k \in 1 .. 1 : z[k] = one[k]
              /\ \A k \in 1 .. l : z[1 + k] = t[k]
          <6>1. Joined(one, t, z)
            BY <4>3 DEF Joined
          <6>2. one \in Seq(Byte) /\ t \in Seq(Byte)
            BY <3>2, <4>2, <5>1
          <6>j1. z \in Seq(Byte)
            BY <6>1, <6>2, JoinedBytes
          <6>j2. Len(z) = Len(one) + Len(t)
            BY <6>1, <6>2, JoinedBytes
          <6>j3. \A k \in 1 .. Len(one) : z[k] = one[k]
            BY <6>1, <6>2, JoinedBytes
          <6>j4. \A k \in 1 .. Len(t) : z[Len(one) + k] = t[k]
            BY <6>1, <6>2, JoinedBytes
          <6>3. Len(one) = 1 /\ Len(t) = l
            BY <3>2, <4>2, <5>1
          <6>4. QED
            BY <6>j1, <6>j2, <6>j3, <6>j4, <6>3
        <5>3. QED
          BY <2>1, <3>2, <5>1, <5>2
      <4>5. \A k \in 1 .. n : z[k] = s[k]
        <5>1. TAKE k \in 1 .. n
        <5>2. CASE k = 1
          BY <2>3, <4>4, <5>2
        <5>3. CASE k # 1
          <6>1. PICK j \in 1 .. n - 1 : k = 1 + j /\ k = j + 1
            <7>1. k - 1 \in 1 .. n - 1 /\ k = 1 + (k - 1) /\ k = (k - 1) + 1
              BY <2>1, <5>3
            <7>2. QED
              BY <7>1
          <6>2. z[1 + j] = t[j] /\ t[j] = s[j + 1]
            BY <4>2, <4>4
          <6>3. QED
            BY <6>1, <6>2
        <5>4. QED
          BY <5>2, <5>3
      <4>6. QED
        BY <2>1, <4>4, <4>5, SeqEqual
    <3>6. 1 < Expected(b) \/ Expected(b) = 0
      BY SMT, <2>6, ExpectedOf
    <3>7. \A k \in 2 .. Len(one) : IsCont(one[k])
      BY <3>2
    <3>8. TextReads(z, Len(one) - 1, x)
      BY <2>1, <2>6, <3>2, <3>3, <3>4, <3>6, <3>7, CollectedReads
    <3>9. Len(one) - 1 = 0
      BY <3>2
    <3>10. QED
      BY <2>2, <3>5, <3>8, <3>9
  <2>7. QED
    BY <2>4, <2>5, <2>6
<1>5. QED
  BY <1>2, <1>3, <1>4

-----------------------------------------------------------------------------
(* The text a program feeds, piece by piece.                               *)

\* The text t begins with w.
Begins(t, w) ==
  /\ w \in Seq(Byte) /\ Len(w) <= Len(t)
  /\ \A i \in 1 .. Len(w) : t[i] = w[i]

LEMMA BeginsIs ==
  ASSUME NEW t \in Seq(Byte), NEW w \in Seq(Byte), NEW k \in Nat, k <= Len(t)
  PROVE  SubSeq(t, 1, k) = w <=> Begins(t, w) /\ Len(w) = k
<1>1. PICK v : v = SubSeq(t, 1, k)
  OBVIOUS
<1>2. v \in Seq(Byte) /\ Len(v) = k
  BY <1>1, FirstBytes
<1>3. \A i \in 1 .. k : v[i] = t[i]
  BY <1>1, FirstBytes
<1>4. ASSUME v = w PROVE Begins(t, w) /\ Len(w) = k
  BY <1>2, <1>3, <1>4 DEF Begins
<1>5. ASSUME Begins(t, w), Len(w) = k PROVE v = w
  <2>1. \A i \in 1 .. Len(v) : v[i] = w[i]
    BY <1>2, <1>3, <1>5 DEF Begins
  <2>2. QED
    BY <1>2, <1>5, <2>1, SeqEqual
<1>6. QED
  BY <1>1, <1>4, <1>5

\* What begins with a and goes on with b begins with both, and vice versa.
LEMMA BeginsBoth ==
  ASSUME NEW t \in Seq(Byte), NEW a \in Seq(Byte), NEW b \in Seq(Byte),
         NEW c, Joined(a, b, c)
  PROVE  Begins(t, c) <=> /\ Begins(t, a) /\ Len(a) + Len(b) <= Len(t)
                          /\ \A i \in 1 .. Len(b) : t[Len(a) + i] = b[i]
<1>1. c \in Seq(Byte)
  BY JoinedBytes
<1>2. Len(c) = Len(a) + Len(b)
  BY JoinedBytes
<1>3. \A i \in 1 .. Len(a) : c[i] = a[i]
  BY JoinedBytes
<1>4. \A i \in 1 .. Len(b) : c[Len(a) + i] = b[i]
  BY JoinedBytes
<1>5. PICK m \in Nat, n \in Nat, l \in Nat : m = Len(a) /\ n = Len(b) /\ l = Len(t)
  OBVIOUS
<1>6. ASSUME Begins(t, c)
      PROVE  /\ Begins(t, a) /\ m + n <= l
             /\ \A i \in 1 .. n : t[m + i] = b[i]
  <2>1. m + n <= l /\ \A i \in 1 .. m + n : t[i] = c[i]
    BY <1>2, <1>5, <1>6 DEF Begins
  <2>2. \A i \in 1 .. m : i \in 1 .. m + n
    OBVIOUS
  <2>3. \A i \in 1 .. n : m + i \in 1 .. m + n
    OBVIOUS
  <2>4. m <= l /\ \A i \in 1 .. m : t[i] = a[i]
    BY <1>3, <1>5, <2>1, <2>2
  <2>5. \A i \in 1 .. n : t[m + i] = b[i]
    BY <1>4, <1>5, <2>1, <2>3
  <2>6. QED
    BY <1>5, <2>1, <2>4, <2>5 DEF Begins
<1>7. ASSUME Begins(t, a), m + n <= l, \A i \in 1 .. n : t[m + i] = b[i]
      PROVE  Begins(t, c)
  <2>1. \A i \in 1 .. m + n : t[i] = c[i]
    <3>1. TAKE i \in 1 .. m + n
    <3>2. CASE i \in 1 .. m
      BY <1>3, <1>5, <1>7, <3>2 DEF Begins
    <3>3. CASE ~(i \in 1 .. m)
      <4>1. PICK j \in 1 .. n : i = m + j
        <5>1. i - m \in 1 .. n /\ i = m + (i - m)
          BY <3>3
        <5>2. QED
          BY <5>1
      <4>2. QED
        BY <1>4, <1>5, <1>7, <4>1
    <3>4. QED
      BY <3>2, <3>3
  <2>2. QED
    BY <1>1, <1>2, <1>5, <1>7, <2>1 DEF Begins
<1>8. QED
  BY <1>5, <1>6, <1>7

\* The first f bytes of t are those that became e and those, p, that wait.
Fed(t, f, e, p) == SubSeq(t, 1, f) = e \o p
Piece(t, f, n, p, s, z) == s = SubSeq(t, f + 1, f + n) /\ z = p \o s

NextIs(t, f, n, e, p, s, z) ==
  /\ s \in Seq(Byte) /\ Len(s) = n
  /\ z \in Seq(Byte) /\ Len(z) = Len(p) + n
  /\ Begins(t, e) /\ f = Len(e) + Len(p)
  /\ \A i \in 1 .. Len(z) : t[Len(e) + i] = z[i]

\* The n bytes after them, s, and what is waiting before, z.
LEMMA NextPiece ==
  ASSUME NEW t \in Seq(Byte), NEW f \in Nat, NEW n \in Nat, f + n <= Len(t),
         NEW e \in Seq(Byte), NEW p \in Seq(Byte), Fed(t, f, e, p),
         NEW s, NEW z, Piece(t, f, n, p, s, z)
  PROVE  NextIs(t, f, n, e, p, s, z)
<1> USE DEF NextIs
<1>1. s = SubSeq(t, f + 1, f + n)
  BY DEF Piece
<1>2. z = p \o s
  BY DEF Piece
<1>3. PICK w : w = e \o p
  OBVIOUS
<1>4. Joined(e, p, w) /\ Joined(p, s, z)
  BY <1>2, <1>3 DEF Joined
<1>5. w \in Seq(Byte)
  BY <1>4, JoinedBytes
<1>6. Begins(t, w) /\ Len(w) = f
  <2>1. SubSeq(t, 1, f) = w /\ f <= Len(t)
    <3>1. SubSeq(t, 1, f) = e \o p
      BY DEF Fed
    <3>2. SubSeq(t, 1, f) = w
      BY <3>1, <1>3
    <3>3. \A l \in Nat : f + n <= l => f <= l
      OBVIOUS
    <3>4. Len(t) \in Nat /\ f + n <= Len(t)
      OBVIOUS
    <3>5. QED
      BY ONLY <3>2, <3>3, <3>4
  <2>2. QED
    BY <1>5, <2>1, BeginsIs
<1>7. PICK q \in Nat, m \in Nat, l \in Nat : q = Len(e) /\ m = Len(p) /\ l = Len(t)
  OBVIOUS
<1>8. f = q + m /\ f + n <= l
  <2>1. Len(w) = Len(e) + Len(p)
    BY <1>4, JoinedBytes
  <2>2. QED
    BY <1>6, <1>7, <2>1
<1>9. Begins(t, e)
  BY <1>4, <1>6, BeginsBoth
<1>10. \A i \in 1 .. Len(p) : t[Len(e) + i] = p[i]
  BY <1>4, <1>6, BeginsBoth
<1>11. s \in Seq(Byte) /\ Len(s) = n /\ \A i \in 1 .. n : s[i] = t[f + i]
  <2>1. PICK a \in Nat, c \in Nat : a = f + 1 /\ c = f + n
    OBVIOUS
  <2>2. \A i \in a .. c : i \in 1 .. l
    BY <1>8, <2>1
  <2>3. a \in Int /\ c \in Int /\ \A i \in a .. c : t[i] \in Byte
    BY <1>7, <2>2
  <2>4. /\ SubSeq(t, a, c) \in Seq(Byte)
        /\ Len(SubSeq(t, a, c)) = IF a <= c THEN c - a + 1 ELSE 0
        /\ \A i \in 1 .. c - a + 1 : SubSeq(t, a, c)[i] = t[a + i - 1]
    BY <2>3, SubSeqProperties
  <2>5. s = SubSeq(t, a, c)
    BY <1>1, <2>1
  <2>6. c - a + 1 = n /\ (a <= c <=> n > 0) /\ \A i \in 1 .. n : a + i - 1 = f + i
    BY <2>1
  <2>7. Len(s) = n
    BY <2>4, <2>5, <2>6
  <2>8. \A i \in 1 .. n : s[i] = t[f + i]
    BY <2>4, <2>5, <2>6
  <2>9. QED
    BY <2>4, <2>5, <2>7, <2>8
<1>a. s \in Seq(Byte)
  BY <1>11
<1>12. z \in Seq(Byte)
  BY <1>4, <1>a, JoinedBytes
<1>13. Len(z) = Len(p) + Len(s)
  BY <1>4, <1>a, JoinedBytes
<1>14. \A i \in 1 .. Len(p) : z[i] = p[i]
  BY <1>4, <1>a, JoinedBytes
<1>15. \A i \in 1 .. Len(s) : z[Len(p) + i] = s[i]
  BY <1>4, <1>a, JoinedBytes
<1>16. \A i \in 1 .. m + n : t[q + i] = z[i]
  <2>1. TAKE i \in 1 .. m + n
  <2>2. CASE i \in 1 .. m
    BY <1>7, <1>10, <1>14, <2>2
  <2>3. CASE ~(i \in 1 .. m)
    <3>1. PICK j \in 1 .. n : i = m + j
      <4>1. i - m \in 1 .. n /\ i = m + (i - m)
        BY <2>3
      <4>2. QED
        BY <4>1
    <3>2. q + (m + j) = f + j
      BY <1>8, <3>1
    <3>3. z[m + j] = s[j] /\ s[j] = t[f + j]
      BY <1>7, <1>11, <1>15
    <3>4. QED
      BY <3>1, <3>2, <3>3
  <2>4. QED
    BY <2>2, <2>3
<1>17. Len(z) = m + n /\ f = Len(e) + Len(p)
  BY <1>7, <1>8, <1>11, <1>13
<1>18. \A i \in 1 .. Len(z) : t[Len(e) + i] = z[i]
  BY <1>7, <1>16, <1>17
<1>b. Len(s) = n /\ Len(z) = Len(p) + n
  BY <1>7, <1>11, <1>17
<1>19. QED
  BY <1>9, <1>a, <1>b, <1>12, <1>17, <1>18, Zenon

-----------------------------------------------------------------------------
(* PiecesKept with the types, and what may wait: no call loses a byte only *)
(* because what waits is always the beginning of a character.              *)
PiecesInv ==
  /\ text \in Seq(Byte) /\ fed \in Nat /\ fed <= Len(text)
  /\ got \in Seq(Code) /\ Encodings(got) \in Seq(Byte)
  /\ ps = <<>> \/ Waiting(ps)
  /\ PiecesKept

LEMMA WaitingBytes ==
  ASSUME NEW b, b = <<>> \/ Waiting(b)
  PROVE  b \in Seq(Byte)
<1>1. <<>> \in Seq(Byte)
  OBVIOUS
<1>2. QED
  BY <1>1 DEF Waiting

LEMMA PiecesInit ==
  ASSUME text \in Seq(Byte), MultibyteInit
  PROVE  PiecesInv
<1>1. fed = 0 /\ ps = <<>> /\ got = <<>> /\ mbret = 0
  BY DEF MultibyteInit
<1>2. got \in Seq(Code) /\ DOMAIN got = {}
  BY <1>1
<1>3. Encodings(got) = <<>> /\ <<>> \in Seq(Byte) /\ <<>> \o <<>> = <<>>
  BY <1>1, EncodingsNone
<1>4. SubSeq(text, 1, fed) = <<>>
  BY <1>1
<1>5. 0 # Invalid
  BY DEF Invalid
<1>6. PiecesKept
  BY <1>1, <1>2, <1>3, <1>4, <1>5 DEF PiecesKept, Scalars
<1>7. fed \in Nat /\ fed <= Len(text)
  BY <1>1
<1>8. QED
  BY <1>1, <1>2, <1>3, <1>6, <1>7 DEF PiecesInv

\* A call of mbrtowc that had been given some of the text before.
LEMMA MbrtowcKeeps ==
  ASSUME PiecesInv, NEW n \in 0 .. Len(text) - fed, Mbrtowc(n)
  PROVE  PiecesInv'
<1> DEFINE s == SubSeq(text, fed + 1, fed + n)
           z == ps \o s
           x == mbrtowc(s, ps)
           e == Encodings(got)
           had == Len(ps)
<1>1. /\ text \in Seq(Byte) /\ fed \in Nat /\ fed <= Len(text) /\ got \in Seq(Code)
      /\ e \in Seq(Byte) /\ (ps = <<>> \/ Waiting(ps)) /\ Scalars(got)
  BY DEF PiecesInv, PiecesKept
<1>2. ps \in Seq(Byte) /\ had \in Nat /\ Len(e) \in Nat
  <2>1. ps \in Seq(Byte)
    BY <1>1, WaitingBytes
  <2>2. QED
    BY <1>1, <2>1
<1>3. n \in Nat /\ fed + n <= Len(text) /\ Len(text) \in Nat
  BY <1>1
<1>4. mbret # Invalid /\ SubSeq(text, 1, fed) = e \o ps
  BY DEF Mbrtowc, PiecesInv, PiecesKept
<1>5. /\ s \in Seq(Byte) /\ Len(s) = n
      /\ z \in Seq(Byte) /\ Len(z) = had + n
      /\ Begins(text, e) /\ fed = Len(e) + had
      /\ \A i \in 1 .. Len(z) : text[Len(e) + i] = z[i]
  <2>1. Fed(text, fed, e, ps)
    BY <1>4 DEF Fed
  <2>2. Piece(text, fed, n, ps, s, z)
    BY DEF Piece
  <2> HIDE DEF e, s, z
  <2>3. NextIs(text, fed, n, e, ps, s, z)
    BY <1>1, <1>2, <1>3, <2>1, <2>2, NextPiece
  <2>4. QED
    BY <1>1, <2>3 DEF NextIs
<1>6. TextReads(z, had, x)
  BY <1>1, <1>5, MbrtowcReads
<1>7. /\ mbret' = x.ret /\ ps' = x.bytes /\ text' = text
      /\ fed' = CASE x.ret = Invalid -> fed
                  [] x.ret = Incomplete -> fed + n
                  [] x.ret = 0 -> fed + 1
                  [] OTHER -> fed + x.ret
      /\ got' = IF x.ret >= 0 THEN Append(got, x.wc) ELSE got
  <2>1. (IF fed + n > Len(text) THEN Len(text) ELSE fed + n) = fed + n
    BY <1>1, <1>3
  <2>2. QED
    BY <1>5, <2>1 DEF Mbrtowc
<1> HIDE DEF s, z, x, e, had
<1>8. CASE x.ret = Incomplete /\ x.bytes = z /\ (z = <<>> \/ Waiting(z))
  <2>1. fed' = fed + n /\ got' = got /\ ps' = z /\ text' = text /\ mbret' # Invalid
    BY <1>7, <1>8 DEF Incomplete, Invalid
  <2>2. PICK w : w = e \o z
    OBVIOUS
  <2>3. Joined(e, z, w)
    BY <2>2 DEF Joined
  <2>4. w \in Seq(Byte)
    BY <1>1, <1>5, <2>3, JoinedBytes
  <2>5. Len(w) = Len(e) + Len(z)
    BY <1>1, <1>5, <2>3, JoinedBytes
  <2>6. Len(e) + Len(z) = fed + n
    BY <1>2, <1>3, <1>5
  <2>7. Begins(text, w)
    BY <1>1, <1>3, <1>5, <2>3, <2>6, BeginsBoth
  <2>8. SubSeq(text, 1, fed + n) = w
    BY <1>1, <1>3, <2>4, <2>5, <2>6, <2>7, BeginsIs
  <2>9. Encodings(got') = e /\ Scalars(got')
    BY <1>1, <2>1 DEF e
  <2>10. PiecesKept'
    BY <2>1, <2>2, <2>8, <2>9 DEF PiecesKept
  <2>11. fed' \in Nat /\ fed' <= Len(text')
    BY <1>1, <1>3, <2>1
  <2>12. QED
    BY <1>1, <1>8, <2>1, <2>9, <2>10, <2>11 DEF PiecesInv
<1>9. CASE x.ret = Invalid /\ x.bytes = <<>> /\ NoCharacter(z)
  <2>1. fed' = fed /\ got' = got /\ ps' = <<>> /\ text' = text /\ mbret' = Invalid
    BY <1>7, <1>9 DEF Incomplete, Invalid
  <2>2. PICK rest : rest = SubSeq(text, Len(e) + 1, Len(text))
    OBVIOUS
  <2>3. PICK q \in Nat, l \in Nat : q = Len(e) /\ l = Len(text) /\ q <= l
    <3>1. fed = Len(e) + had
      BY <1>5
    <3>2. Len(e) \in Nat /\ Len(text) \in Nat /\ Len(e) <= Len(text)
      BY <1>1, <1>2, <1>3, <3>1
    <3>3. QED
      BY <3>2
  <2>4. rest \in Seq(Byte) /\ Len(rest) = l - q
    BY <1>1, <2>2, <2>3
  <2>5. \A i \in 1 .. l - q : rest[i] = text[q + i]
    BY <1>1, <2>2, <2>3
  <2>6. PICK m \in Nat : m = Len(z) /\ m <= l - q
    <3>1. had + n \in Nat /\ had + n <= l - q
      BY <1>2, <1>3, <1>5, <2>3
    <3>2. QED
      BY <1>5, <3>1
  <2>7. \A i \in 1 .. m : rest[i] = z[i]
    <3>1. \A i \in 1 .. m : i \in 1 .. l - q
      BY <2>3, <2>6
    <3>2. QED
      BY <1>5, <2>3, <2>5, <2>6, <3>1
  <2>8. \A k \in 1 .. Len(rest) : ~WellFormed(SubSeq(rest, 1, k))
    BY <1>9, <2>4, <2>6, <2>7 DEF NoCharacter
  <2>9. Encodings(got') = e /\ Scalars(got')
    BY <1>1, <2>1 DEF e
  <2>10. PiecesKept'
    BY <2>1, <2>2, <2>8, <2>9 DEF PiecesKept
  <2>11. QED
    BY <1>1, <2>1, <2>9, <2>10 DEF PiecesInv
<1>10. CASE /\ x.bytes = <<>> /\ IsScalar(x.wc)
            /\ \E m \in 1 .. Len(z) :
                 /\ m > had /\ encode_utf8(x.wc) = SubSeq(z, 1, m)
                 /\ IF x.wc = 0 THEN x.ret = 0 /\ m = had + 1 ELSE x.ret = m - had
  <2>1. PICK m \in 1 .. Len(z) :
           /\ m > had /\ encode_utf8(x.wc) = SubSeq(z, 1, m)
           /\ IF x.wc = 0 THEN x.ret = 0 /\ m = had + 1 ELSE x.ret = m - had
    BY <1>10
  <2>2. m \in Nat /\ m <= had + n /\ m - had \in Nat /\ m - had > 0
    <3>1. Len(z) = had + n /\ m \in 1 .. Len(z) /\ m > had
      BY <1>5, <2>1
    <3>2. QED
      BY <1>2, <1>3, <3>1
  <2>3. PICK c : c = x.wc /\ c \in Code /\ IsScalar(c)
    BY SMT, <1>10 DEF IsScalar, Code
  <2>4. x.ret >= 0 /\ x.ret # Invalid /\ x.ret # Incomplete
        /\ (x.ret = 0 => m - had = 1) /\ (x.ret # 0 => x.ret = m - had)
    BY <1>2, <2>1, <2>2 DEF Invalid, Incomplete
  <2>5. fed' = fed + (m - had) /\ got' = Append(got, c) /\ ps' = <<>> /\ text' = text
        /\ mbret' # Invalid
    BY <1>7, <1>10, <2>3, <2>4
  <2>6. PICK v : v = SubSeq(z, 1, m) /\ v = encode_utf8(c)
    BY <2>1, <2>3
  <2>7. v \in Seq(Byte) /\ Len(v) = m
    BY <1>5, <2>1, <2>2, <2>6, FirstBytes
  <2>8. \A i \in 1 .. m : v[i] = z[i]
    BY <1>5, <2>1, <2>2, <2>6, FirstBytes
  <2>9. PICK w : w = e \o v
    OBVIOUS
  <2>10. Joined(e, v, w)
    BY <2>9 DEF Joined
  <2>11. w \in Seq(Byte)
    BY <1>1, <2>7, <2>10, JoinedBytes
  <2>12. Len(w) = Len(e) + Len(v)
    BY <1>1, <2>7, <2>10, JoinedBytes
  <2>13. Len(e) + Len(v) = fed + (m - had) /\ fed + (m - had) <= Len(text)
         /\ fed + (m - had) \in Nat
    BY <1>2, <1>3, <1>5, <2>2, <2>7
  <2>14. \A i \in 1 .. Len(v) : text[Len(e) + i] = v[i]
    BY <1>5, <2>1, <2>7, <2>8
  <2>15. Len(e) + Len(v) <= Len(text)
    BY <2>13
  <2>16. Begins(text, w)
    BY <1>1, <1>5, <2>7, <2>10, <2>14, <2>15, BeginsBoth
  <2>17. SubSeq(text, 1, fed + (m - had)) = w
    BY <1>1, <2>11, <2>12, <2>13, <2>16, BeginsIs
  <2>18. Encodings(got') = w
    BY <1>1, <2>3, <2>5, <2>6, <2>9, EncodingsAppend DEF e
  <2>19. got' \in Seq(Code) /\ Scalars(got')
    <3>1. PICK k \in Nat : k = Len(got) /\ DOMAIN got = 1 .. k
      BY <1>1
    <3>2. PICK g : g = Append(got, c)
      OBVIOUS
    <3>3. g \in Seq(Code) /\ DOMAIN g = 1 .. k + 1 /\ g[k + 1] = c
          /\ \A i \in 1 .. k : g[i] = got[i]
      BY <1>1, <2>3, <3>1, <3>2
    <3>4. \A i \in 1 .. k + 1 : i = k + 1 \/ i \in 1 .. k
      OBVIOUS
    <3>5. \A i \in DOMAIN g : IsScalar(g[i])
      BY <1>1, <2>3, <3>1, <3>3, <3>4 DEF Scalars
    <3>6. QED
      BY <2>5, <3>2, <3>3, <3>5 DEF Scalars
  <2>20. w \o <<>> = w
    BY <2>11
  <2>21. PiecesKept'
    BY <2>5, <2>17, <2>18, <2>19, <2>20 DEF PiecesKept
  <2>22. QED
    BY <1>1, <2>5, <2>11, <2>13, <2>18, <2>19, <2>21 DEF PiecesInv
<1>11. QED
  BY <1>6, <1>8, <1>9, <1>10 DEF TextReads

LEMMA PiecesStep ==
  ASSUME PiecesInv, [MultibyteNext]_mbVars
  PROVE  PiecesInv'
<1>1. ASSUME NEW n \in 0 .. Len(text) - fed, Mbrtowc(n) PROVE PiecesInv'
  BY <1>1, MbrtowcKeeps
<1>2. CASE Mbreset
  <2>1. /\ text' \in Seq(Byte) /\ fed' = 0 /\ ps' = <<>> /\ got' = <<>> /\ mbret' = 0
    BY <1>2 DEF Mbreset, PiecesInv
  <2>2. got' \in Seq(Code) /\ DOMAIN got' = {}
    BY <2>1
  <2>3. Encodings(got') = <<>> /\ <<>> \in Seq(Byte) /\ <<>> \o <<>> = <<>>
    BY <2>1, EncodingsNone
  <2>4. SubSeq(text', 1, fed') = <<>>
    BY <2>1
  <2>5. mbret' # Invalid
    BY <2>1 DEF Invalid
  <2>6. PiecesKept'
    BY <2>1, <2>2, <2>3, <2>4, <2>5 DEF PiecesKept, Scalars
  <2>7. fed' \in Nat /\ fed' <= Len(text')
    BY <2>1
  <2>8. QED
    BY <2>1, <2>2, <2>3, <2>6, <2>7 DEF PiecesInv
<1>3. CASE UNCHANGED mbVars
  BY <1>3 DEF mbVars, PiecesInv, PiecesKept
<1>4. QED
  BY <1>1, <1>2, <1>3 DEF MultibyteNext

THEOREM PiecesInvariant == MultibyteSpec => []PiecesInv
<1>1. ASSUME text \in Seq(0..255), MultibyteInit PROVE PiecesInv
  BY <1>1, PiecesInit DEF Byte
<1>2. PiecesInv /\ [MultibyteNext]_mbVars => PiecesInv'
  BY PiecesStep
<1>3. QED
  BY <1>1, <1>2, PTL DEF MultibyteSpec

THEOREM PiecesAlwaysKept == MultibyteSpec => []PiecesKept
<1>1. PiecesInv => PiecesKept
  BY DEF PiecesInv
<1>2. QED
  BY <1>1, PiecesInvariant, PTL

-----------------------------------------------------------------------------
(* The encoder and the decoder are each other's inverse.                   *)

Parted(c) == \E a \in Nat, r \in Nat : r < 64 /\ c = a * 64 + r

LEMMA BySixes ==
  ASSUME NEW c \in Nat
  PROVE  Parted(c)
<1>1. PICK a \in Nat : a = c \div 64
  <2>1. c \div 64 \in Nat
    BY SMT
  <2>2. QED
    BY <2>1
<1>2. PICK r \in Nat : r = c % 64 /\ r < 64
  <2>1. c % 64 \in Nat /\ c % 64 < 64
    BY SMT
  <2>2. QED
    BY <2>1
<1>3. c = a * 64 + r
  BY SMT, <1>1, <1>2
<1>4. QED
  BY <1>2, <1>3 DEF Parted

LEMMA ContByte ==
  ASSUME NEW r \in Nat, r < 64, NEW y, y = 128 + r
  PROVE  y \in Byte /\ IsCont(y) /\ y \in Nat /\ y % 64 = r
<1>1. y \in Nat /\ 128 <= y /\ y <= 191 /\ y % 64 = r /\ y <= 255
  BY SMT
<1>2. QED
  BY SMT, <1>1, Bytes8, ContRange

\* The bytes that are made of a character of more than seven bits.
LEMMA BytesOfCode ==
  ASSUME NEW c \in Nat, 128 <= c, c <= 1114111
  PROVE  \E s : /\ Complete(s) /\ Value(s) = c
                /\ Expected(s[1]) = 3 => 2048 <= c
                /\ Expected(s[1]) = 4 => 65536 <= c
<1>0. Parted(c)
  BY SMT, BySixes
<1>1. PICK a \in Nat, r \in Nat : r < 64 /\ c = a * 64 + r
  BY SMT, <1>0 DEF Parted
<1>2. PICK last : last = 128 + r /\ last \in Byte /\ IsCont(last) /\ last % 64 = r
  BY SMT, <1>1, ContByte
<1>3. CASE c < 2048
  <2>1. PICK lead \in Nat : lead = 192 + a /\ 194 <= lead /\ lead < 224 /\ lead % 32 = a
    <3>1. 192 + a \in Nat /\ 194 <= 192 + a /\ 192 + a < 224 /\ (192 + a) % 32 = a
      BY SMT, <1>1, <1>3
    <3>2. QED
      BY SMT, <3>1
  <2>2. lead \in Byte /\ Expected(lead) = 2
    BY SMT, <2>1, Bytes8, ExpectedOf
  <2> DEFINE s == <<lead, last>>
  <2>4. s \in Seq(Byte) /\ Len(s) = 2 /\ s[1] = lead /\ s[2] = last /\ s # <<>>
    BY SMT, <1>2, <2>2
  <2> HIDE DEF s
  <2>5. \A k \in 2 .. 2 : IsCont(s[k])
    BY SMT, <1>2, <2>4
  <2>6. Complete(s)
    BY SMT, <2>1, <2>2, <2>4, <2>5 DEF Complete
  <2>7. Value(s) = (s[1] % 32) * 64 + (s[2] % 64)
    BY SMT, <2>4 DEF Value
  <2>8. Value(s) = c
    BY SMT, <1>1, <1>2, <2>1, <2>4, <2>7
  <2>9. QED
    BY SMT, <2>2, <2>4, <2>6, <2>8
<1>4. CASE ~(c < 2048)
  <2>0. Parted(a)
    BY SMT, BySixes
  <2>1. PICK b \in Nat, q \in Nat : q < 64 /\ a = b * 64 + q
    BY SMT, <2>0 DEF Parted
  <2>2. PICK mid : mid = 128 + q /\ mid \in Byte /\ IsCont(mid) /\ mid % 64 = q
    BY SMT, <2>1, ContByte
  <2>3. CASE c < 65536
    <3>1. PICK lead \in Nat : lead = 224 + b /\ 224 <= lead /\ lead < 240 /\ lead % 16 = b
      <4>1. 224 + b \in Nat /\ 224 <= 224 + b /\ 224 + b < 240 /\ (224 + b) % 16 = b
        BY SMT, <1>1, <2>1, <2>3
      <4>2. QED
        BY SMT, <4>1
    <3>2. lead \in Byte /\ Expected(lead) = 3
      BY SMT, <3>1, Bytes8, ExpectedOf
    <3> DEFINE s == <<lead, mid, last>>
    <3>4. /\ s \in Seq(Byte) /\ Len(s) = 3 /\ s # <<>>
          /\ s[1] = lead /\ s[2] = mid /\ s[3] = last
      BY SMT, <1>2, <2>2, <3>2
    <3> HIDE DEF s
    <3>5. \A k \in 2 .. 3 : IsCont(s[k])
      BY SMT, <1>2, <2>2, <3>4
    <3>6. Complete(s)
      BY SMT, <3>1, <3>2, <3>4, <3>5 DEF Complete
    <3>7. Value(s) = (s[1] % 16) * 4096 + (s[2] % 64) * 64 + (s[3] % 64)
      BY SMT, <3>4 DEF Value
    <3>8. Value(s) = c
      BY SMT, <1>1, <1>2, <2>1, <2>2, <3>1, <3>4, <3>7
    <3>9. QED
      BY SMT, <1>4, <3>2, <3>4, <3>6, <3>8
  <2>4. CASE ~(c < 65536)
    <3>0. Parted(b)
      BY SMT, BySixes
    <3>1. PICK d \in Nat, p \in Nat : p < 64 /\ b = d * 64 + p
      BY SMT, <3>0 DEF Parted
    <3>2. PICK one : one = 128 + p /\ one \in Byte /\ IsCont(one) /\ one % 64 = p
      BY SMT, <3>1, ContByte
    <3>3. PICK lead \in Nat : lead = 240 + d /\ 240 <= lead /\ lead < 245 /\ lead % 8 = d
      <4>1. d <= 4
        BY SMT, <1>1, <2>1, <3>1
      <4>2. 240 + d \in Nat /\ 240 <= 240 + d /\ 240 + d < 245 /\ (240 + d) % 8 = d
        BY SMT, <4>1
      <4>3. QED
        BY SMT, <4>2
    <3>4. lead \in Byte /\ Expected(lead) = 4
      BY SMT, <3>3, Bytes8, ExpectedOf
    <3> DEFINE s == <<lead, one, mid, last>>
    <3>6. /\ s \in Seq(Byte) /\ Len(s) = 4 /\ s # <<>>
          /\ s[1] = lead /\ s[2] = one /\ s[3] = mid /\ s[4] = last
      BY SMT, <1>2, <2>2, <3>2, <3>4
    <3> HIDE DEF s
    <3>7. \A k \in 2 .. 4 : IsCont(s[k])
      BY SMT, <1>2, <2>2, <3>2, <3>6
    <3>8. Complete(s)
      BY SMT, <3>3, <3>4, <3>6, <3>7 DEF Complete
    <3>9. Value(s) = (s[1] % 8) * 262144 + (s[2] % 64) * 4096 + (s[3] % 64) * 64 + (s[4] % 64)
      BY SMT, <3>6 DEF Value
    <3>10. Value(s) = c
      BY SMT, <1>1, <1>2, <2>1, <2>2, <3>1, <3>2, <3>3, <3>6, <3>9
    <3>11. QED
      BY SMT, <2>4, <3>4, <3>6, <3>8, <3>10
  <2>5. QED
    BY SMT, <2>3, <2>4
<1>5. QED
  BY SMT, <1>3, <1>4

LEMMA EncodedComplete ==
  ASSUME NEW c, IsScalar(c), 128 <= c, NEW s, s = encode_utf8(c)
  PROVE  Complete(s) /\ Proper(s) /\ Value(s) = c
<1>1. c \in Nat /\ c <= 1114111 /\ ~IsSurrogate(c)
  BY SMT DEF IsScalar
<1>2. PICK t : /\ Complete(t) /\ Value(t) = c
               /\ Expected(t[1]) = 3 => 2048 <= c
               /\ Expected(t[1]) = 4 => 65536 <= c
  BY SMT, <1>1, BytesOfCode
<1>3. ~Refused(c, Expected(t[1]))
  BY SMT, <1>1, <1>2 DEF Refused
<1>4. Proper(t)
  BY SMT, <1>2, <1>3, CompleteValue
<1>5. encode_utf8(c) = t
  BY SMT, <1>2, <1>4, CompleteValue
<1>6. QED
  BY SMT, <1>2, <1>4, <1>5

\* The encodings of the characters are the byte sequences of the standard's
\* table, all of them and no other.
THEOREM WellFormedIsEncoded ==
  ASSUME NEW s \in Seq(Byte), s # <<>>
  PROVE  WellFormed(s) <=> \E c : IsScalar(c) /\ s = encode_utf8(c)
<1>1. PICK n \in Nat : n = Len(s) /\ n >= 1
  BY EmptySeq
<1>2. PICK b \in Nat : b = s[1]
  <2>1. s[1] \in Byte
    BY <1>1
  <2>2. QED
    BY <2>1, Bytes8
<1>3. CASE n = 1 /\ b < 128
  <2>1. encode_utf8(b) = <<b>> /\ IsScalar(b)
    BY SMT, <1>3 DEF encode_utf8, IsScalar, IsSurrogate
  <2>2. s = <<b>>
    <3>1. s = <<s[1]>>
      <4>1. Len(s) = 1
        BY <1>1, <1>3
      <4>2. QED
        BY <4>1
    <3>2. QED
      BY <1>2, <3>1
  <2>3. WellFormed(s)
    BY <1>1, <1>2, <1>3, WellFormedIs
  <2>4. QED
    BY <2>1, <2>2, <2>3
<1>4. CASE Complete(s) /\ Proper(s)
  <2>1. IsScalar(Value(s)) /\ encode_utf8(Value(s)) = s
    BY SMT, <1>4, CompleteValue
  <2>2. WellFormed(s)
    BY <1>4, WellFormedIs
  <2>3. QED
    BY <2>1, <2>2
<1>5. ASSUME ~(n = 1 /\ b < 128), ~(Complete(s) /\ Proper(s)),
             NEW c, IsScalar(c), s = encode_utf8(c)
      PROVE  FALSE
  <2>1. c \in Nat
    BY SMT, <1>5 DEF IsScalar
  <2>2. CASE c < 128
    <3>1. s = <<c>>
      BY SMT, <1>5, <2>1, <2>2 DEF encode_utf8
    <3>2. n = 1 /\ b = c
      BY <1>1, <1>2, <3>1
    <3>3. QED
      BY <1>5, <2>2, <3>2
  <2>3. CASE 128 <= c
    BY SMT, <1>5, <2>3, EncodedComplete
  <2>4. QED
    BY SMT, <2>1, <2>2, <2>3
<1>6. QED
  <2>1. ~(n = 1 /\ b < 128) /\ ~(Complete(s) /\ Proper(s)) => ~WellFormed(s)
    BY <1>1, <1>2, WellFormedIs
  <2>2. QED
    BY <1>3, <1>4, <1>5, <2>1, Zenon

\* The character c is written with the bytes s.
Writes(c, s) == IsScalar(c) /\ s = encode_utf8(c)

LEMMA WritesBytes ==
  ASSUME NEW c, NEW s, Writes(c, s)
  PROVE  /\ c \in Nat
         /\ c < 128 => s = <<c>> /\ ~Complete(s)
         /\ 128 <= c => Complete(s) /\ Value(s) = c
<1>1. IsScalar(c) /\ s = encode_utf8(c)
  BY DEF Writes
<1>2. c \in Nat
  BY SMT, <1>1 DEF IsScalar
<1>3. ASSUME c < 128 PROVE s = <<c>> /\ ~Complete(s)
  <2>1. s = <<c>>
    BY SMT, <1>1, <1>2, <1>3 DEF encode_utf8
  <2>2. s[1] = c
    BY SMT, <2>1
  <2>3. QED
    BY SMT, <1>2, <1>3, <2>1, <2>2 DEF Complete
<1>4. 128 <= c => Complete(s) /\ Value(s) = c
  BY SMT, <1>1, EncodedComplete
<1>5. QED
  BY <1>2, <1>3, <1>4

LEMMA WritesOnce ==
  ASSUME NEW c, NEW d, NEW s, Writes(c, s), Writes(d, s)
  PROVE  c = d
<1>1. /\ c \in Nat
      /\ c < 128 => s = <<c>> /\ ~Complete(s)
      /\ 128 <= c => Complete(s) /\ Value(s) = c
  BY WritesBytes
<1>2. /\ d \in Nat
      /\ d < 128 => s = <<d>> /\ ~Complete(s)
      /\ 128 <= d => Complete(s) /\ Value(s) = d
  BY WritesBytes
<1>3. CASE c < 128 /\ d < 128
  <2>1. s[1] = c /\ s[1] = d
    BY <1>1, <1>2, <1>3
  <2>2. QED
    BY <2>1
<1>4. CASE 128 <= c /\ 128 <= d
  BY <1>1, <1>2, <1>4
<1>5. CASE c < 128 /\ 128 <= d
  BY <1>1, <1>2, <1>5
<1>6. CASE 128 <= c /\ d < 128
  BY <1>1, <1>2, <1>6
<1>7. QED
  BY <1>1, <1>2, <1>3, <1>4, <1>5, <1>6

\* What wcrtomb writes for a character mbrtowc reads as that character, and
\* nothing waits.
THEOREM DecodesWhatIsEncoded ==
  ASSUME NEW c, IsScalar(c)
  PROVE  mbrtowc(wcrtomb(c), <<>>) =
           Decoded(IF c = 0 THEN 0 ELSE Len(wcrtomb(c)), <<>>, c)
<1>1. PICK s : s = encode_utf8(c) /\ Writes(c, s)
  BY DEF Writes
<1>2. wcrtomb(c) = s
  BY <1>1 DEF Writes, IsScalar, wcrtomb
<1>3. /\ c \in Nat
      /\ c < 128 => s = <<c>> /\ ~Complete(s)
      /\ 128 <= c => Complete(s) /\ Value(s) = c
  BY <1>1, WritesBytes
<1>4. CASE c < 128
  <2>1. s = <<c>> /\ s # <<>> /\ s[1] = c /\ Len(s) = 1
    BY <1>3, <1>4
  <2>2. mbrtowc(s, <<>>) = Decoded(IF c = 0 THEN 0 ELSE 1, <<>>, c)
    BY <1>4, <2>1 DEF mbrtowc
  <2>3. QED
    BY <1>2, <2>1, <2>2
<1>5. CASE 128 <= c
  <2>1. Complete(s) /\ Value(s) = c
    BY <1>3, <1>5
  <2>2. /\ s \in Seq(Byte) /\ s # <<>> /\ s[1] \in Nat /\ 194 <= s[1] /\ s[1] <= 244
        /\ Len(s) = Expected(s[1]) /\ \A k \in 2 .. Len(s) : IsCont(s[k])
    BY <2>1 DEF Complete
  <2>3. PICK b \in Nat : b = s[1] /\ 194 <= b /\ b <= 244 /\ ~(b < 128) /\ ~(b < 194)
    BY <2>2
  <2>4. PICK e \in Nat : e = Expected(b) /\ e = Len(s) /\ e >= 2 /\ e # 0
    <3>1. Expected(b) \in Nat /\ Expected(b) >= 2
      BY SMT, <2>3, ExpectedOf
    <3>2. QED
      BY <2>2, <2>3, <3>1
  <2>5. PICK one : one = <<b>> /\ one[1] = b /\ Len(one) = 1
    <3>1. <<b>>[1] = b /\ Len(<<b>>) = 1
      BY SMT
    <3>2. QED
      BY <3>1, Zenon
  <2>6. mbrtowc(s, <<>>) = Collected(one, s, 1)
    BY <2>2, <2>3, <2>5 DEF mbrtowc
  <2>7. PICK next : next = SubSeq(s, 2, e)
    OBVIOUS
  <2>8. /\ one \o next = s /\ DOMAIN next = 1 .. e - 1
        /\ \A k \in 1 .. e - 1 : next[k] = s[k + 1]
    <3>1. next = Tail(s)
      BY <2>2, <2>4, <2>7
    <3>2. DOMAIN next = 1 .. e - 1 /\ \A k \in 1 .. e - 1 : next[k] = s[k + 1]
      BY <2>2, <2>4, <3>1
    <3>3. one \o Tail(s) = s
      BY <2>2, <2>3, <2>5
    <3>4. QED
      BY <3>1, <3>2, <3>3
  <2>9. \A k \in DOMAIN next : IsCont(next[k])
    <3>1. TAKE k \in DOMAIN next
    <3>2. k \in 1 .. e - 1 /\ k + 1 \in 2 .. e
      BY <2>8
    <3>3. QED
      BY <2>2, <2>4, <2>8, <3>2
  <2>10. 1 + e - 1 = e /\ 1 + 1 = 2 /\ (IF e < Len(s) THEN e ELSE Len(s)) = e /\ ~(e > Len(s))
    BY <2>4
  <2>11. ~Refused(c, e) /\ c # 0
    <3>1. Proper(s)
      BY SMT, <1>1, <1>5, EncodedComplete DEF Writes
    <3>2. ~Refused(Value(s), Expected(s[1]))
      BY <2>1, <3>1, CompleteValue
    <3>3. QED
      BY <1>5, <2>1, <2>3, <2>4, <3>2
  <2>12. Collected(one, s, 1) = Decoded(e, <<>>, c)
    BY <2>1, <2>4, <2>5, <2>7, <2>8, <2>9, <2>10, <2>11 DEF Collected
  <2>13. QED
    BY <1>2, <2>4, <2>6, <2>11, <2>12
<1>6. QED
  BY <1>3, <1>4, <1>5

-----------------------------------------------------------------------------
(* The vector of wordexp.                                                  *)

Entries == {"w", "cut", "x", "NULL", "junk"}
Vectors == UNION {[room : {r}, slot : [1 .. r -> Entries]] : r \in Nat}
MaybeVector == {NoVector} \cup {<<v>> : v \in Vectors}
Places == {"idle", "pipe", "fork", "fdopen", "skip", "token", "done"}

Returned == Refusals \cup {"", "NOSPACE"}
FlagSets == SUBSET Flags
Texts == Seq(WordParts)
Printed == Seq({"w", "cut", "x"})
CallRecords ==
  [at : Places, flags : FlagSets, words : Texts, base : Nat, alloc : Nat,
   vec : MaybeVector, out : Printed, ret : Returned, calls : Nat, spilt : {FALSE}]
ProgramRecords == [wordc : Nat, wordv : MaybeVector, offs : {0, Offs}]

WordexpTypes ==
  /\ we \in ProgramRecords
  /\ wx \in CallRecords

\* The words in front of n and the NULL behind them are in the vector.
Filled(v, offs, n) ==
  v # NoVector => /\ n + 1 <= v[1].room
                  /\ \A k \in offs + 1 .. n : v[1].slot[k] \in Expanded
                  /\ v[1].slot[n + 1] = "NULL"

\* The program's vector is whole, in a call too.
Kept == VectorSound(we) /\ (we.wordv = NoVector => we.wordc = 0)

\* The call's vector is filled up to base.
Growing ==
  wx.at # "idle" => /\ we.offs <= wx.base
                    /\ wx.vec = NoVector => wx.base = we.offs
                    /\ Filled(wx.vec, we.offs, wx.base)

\* alloc is not more than there is, and not less than is needed.
Allocated ==
  wx.at \in {"skip", "token"} =>
    IF wx.vec = NoVector THEN wx.alloc = 0
    ELSE wx.base + 1 <= wx.alloc /\ wx.alloc <= wx.vec[1].room

\* Behind the "x" are words, and it is read first.
OnlyWords ==
  /\ wx.at \in {"fdopen", "skip"} => \A k \in 2 .. Len(wx.out) : wx.out[k] \in Expanded
  /\ wx.at = "token" => short \/ \A k \in 1 .. Len(wx.out) : wx.out[k] \in Expanded

Held == /\ wx.at \in {"idle", "pipe"} => kids = {} /\ fds = {}
        /\ wx.at = "fork" => kids = {}

WordexpInv == WordexpTypes /\ Kept /\ Growing /\ Allocated /\ OnlyWords /\ Held

LEMMA WordexpInvSound == WordexpInv => WordexpSound
BY DEF WordexpInv, WordexpTypes, CallRecords, ProgramRecords, Kept, Held, WordexpSound

LEMMA VectorIs ==
  ASSUME NEW v, v \in MaybeVector, v # NoVector
  PROVE  \E r \in Nat : \E f \in [1 .. r -> Entries] :
           v = <<[room |-> r, slot |-> f]>>
<1>1. PICK u \in Vectors : v = <<u>>
  BY DEF MaybeVector
<1>2. PICK r \in Nat : u \in [room : {r}, slot : [1 .. r -> Entries]]
  BY DEF Vectors
<1>3. u = [room |-> r, slot |-> u.slot] /\ u.slot \in [1 .. r -> Entries]
  BY <1>2
<1>4. QED
  BY <1>1, <1>3

LEMMA IsVector ==
  ASSUME NEW r \in Nat, NEW f \in [1 .. r -> Entries]
  PROVE  /\ <<[room |-> r, slot |-> f]>> \in MaybeVector
         /\ <<[room |-> r, slot |-> f]>> # NoVector
<1>1. [room |-> r, slot |-> f] \in [room : {r}, slot : [1 .. r -> Entries]]
  OBVIOUS
<1>2. [room |-> r, slot |-> f] \in Vectors
  BY <1>1 DEF Vectors
<1>3. QED
  BY <1>2 DEF NoVector, MaybeVector

LEMMA Constants == Offs \in Nat /\ NoVector \in MaybeVector /\ {0, Offs} \subseteq Nat
BY WordexpAssumption DEF MaybeVector

\* The slots after Stored and after HandOver.
LEMMA SlotsReplaced ==
  ASSUME NEW r \in Nat, NEW f \in [1 .. r -> Entries], NEW g \in [1 .. r -> Entries],
         NEW v, v = <<[room |-> r, slot |-> f]>>
  PROVE  [v EXCEPT ![1].slot = g] = <<[room |-> r, slot |-> g]>>
OBVIOUS

StoredIn(v, r, f, base, w) ==
  \E g \in [1 .. r -> Entries] :
    /\ Stored(v, base, w) = <<[room |-> r, slot |-> g]>>
    /\ \A k \in 1 .. r : g[k] = IF k = base + 1 THEN w
                                ELSE IF k = base + 2 THEN "NULL" ELSE f[k]

LEMMA StoredIs ==
  ASSUME NEW r \in Nat, NEW f \in [1 .. r -> Entries], NEW base \in Nat,
         NEW v, v = <<[room |-> r, slot |-> f]>>, NEW w \in Entries
  PROVE  StoredIn(v, r, f, base, w)
<1> DEFINE g == [k \in 1 .. r |-> CASE k = base + 1 -> w
                                    [] k = base + 2 -> "NULL"
                                    [] OTHER -> f[k]]
<1>1. \A k \in 1 .. r : g[k] = IF k = base + 1 THEN w
                               ELSE IF k = base + 2 THEN "NULL" ELSE f[k]
  BY base + 1 # base + 2
<1>2. g \in [1 .. r -> Entries]
  BY <1>1 DEF Entries
<1>3. v[1].slot = f /\ DOMAIN f = 1 .. r
  OBVIOUS
<1>4. Stored(v, base, w) = [v EXCEPT ![1].slot = g]
  <2>1. Stored(v, base, w) = [v EXCEPT ![1].slot =
           [k \in DOMAIN v[1].slot |-> CASE k = base + 1 -> w
                                         [] k = base + 2 -> "NULL"
                                         [] OTHER -> v[1].slot[k]]]
    BY DEF Stored
  <2>2. [k \in DOMAIN v[1].slot |-> CASE k = base + 1 -> w
                                     [] k = base + 2 -> "NULL"
                                     [] OTHER -> v[1].slot[k]] = g
    BY <1>3
  <2>3. QED
    BY <2>1, <2>2
<1> HIDE DEF g
<1>5. Stored(v, base, w) = <<[room |-> r, slot |-> g]>>
  BY <1>2, <1>4, SlotsReplaced
<1>6. QED
  BY <1>1, <1>2, <1>5 DEF StoredIn

LEMMA EnlargedIs ==
  ASSUME NEW v, v \in MaybeVector, NEW room \in Nat
  PROVE  \E g \in [1 .. room -> Entries] :
           /\ Enlarged(v, room) = <<[room |-> room, slot |-> g]>>
           /\ v # NoVector => \A k \in 1 .. room : k <= v[1].room => g[k] = v[1].slot[k]
<1> DEFINE g == [k \in 1 .. room |-> IF v # NoVector /\ k <= v[1].room THEN v[1].slot[k]
                                     ELSE "junk"]
<1>1. Enlarged(v, room) = <<[room |-> room, slot |-> g]>>
  BY DEF Enlarged
<1>2. g \in [1 .. room -> Entries]
  <2>1. CASE v = NoVector
    BY <2>1 DEF Entries
  <2>2. CASE v # NoVector
    <3>0. PICK r \in Nat : \E f \in [1 .. r -> Entries] : v = <<[room |-> r, slot |-> f]>>
      BY <2>2, VectorIs
    <3>1. PICK f \in [1 .. r -> Entries] : v = <<[room |-> r, slot |-> f]>>
      BY <3>0
    <3>2. v[1].room = r /\ v[1].slot = f
      BY <3>1
    <3>3. \A k \in 1 .. room : g[k] \in Entries
      BY <3>2 DEF Entries
    <3>4. QED
      BY <3>3
  <2>3. QED
    BY <2>1, <2>2
<1>3. v # NoVector => \A k \in 1 .. room : k <= v[1].room => g[k] = v[1].slot[k]
  OBVIOUS
<1> HIDE DEF g
<1>4. QED
  BY <1>1, <1>2, <1>3

LEMMA WordexpInvInit == WordexpInit => WordexpInv
<1> SUFFICES ASSUME WordexpInit PROVE WordexpInv
  OBVIOUS
<1>1. WordexpTypes
  <2>1. we \in ProgramRecords
    BY Constants DEF WordexpInit, ProgramRecords
  <2>2. wx = Idle
    BY DEF WordexpInit
  <2>3. /\ "idle" \in Places /\ {} \in SUBSET Flags /\ <<>> \in Seq(WordParts)
        /\ <<>> \in Seq({"w", "cut", "x"})
    BY DEF Places
  <2>4. Idle \in CallRecords
    BY <2>3, Constants DEF CallRecords, Idle, Returned, FlagSets, Texts, Printed
  <2>5. QED
    BY <2>1, <2>2, <2>4 DEF WordexpTypes
<1>2. Kept /\ Growing /\ Allocated /\ OnlyWords /\ Held
  BY DEF WordexpInit, Kept, Growing, Allocated, OnlyWords, Held, Idle, VectorSound
<1>3. QED
  BY <1>1, <1>2 DEF WordexpInv

\* What frees the program's vector keeps the rest.
LEMMA FreedKeeps ==
  ASSUME WordexpTypes, Kept, NEW w, w = Freed(we) \/ w = we
  PROVE  /\ w \in ProgramRecords
         /\ VectorSound(w) /\ (w.wordv = NoVector => w.wordc = 0)
         /\ w.offs = we.offs
<1>1. CASE w = we
  BY <1>1 DEF WordexpTypes, CallRecords, ProgramRecords, Kept
<1>2. CASE w = Freed(we)
  <2>1. w \in ProgramRecords
    BY <1>2, Constants DEF Freed, WordexpTypes, CallRecords, ProgramRecords
  <2>2. w.wordv = NoVector /\ w.wordc = 0 /\ w.offs = we.offs
    BY <1>2 DEF Freed, WordexpTypes, CallRecords, ProgramRecords
  <2>3. QED
    BY <2>1, <2>2 DEF VectorSound
<1>3. QED
  BY <1>1, <1>2

Arguments(words, flags, bad) ==
  words \in Seq(WordParts) /\ flags \in SUBSET Flags /\ bad \in Refusals \cup {""}

LEMMA BeginsStep ==
  ASSUME WordexpInv, NEW words, NEW flags, NEW bad, Arguments(words, flags, bad),
         WordexpBegins(words, flags, bad)
  PROVE  WordexpInv'
<1>1. WordexpTypes /\ Kept /\ Held
  BY DEF WordexpInv
<1>2. PICK w : w = IF "REUSE" \in flags THEN Freed(we) ELSE we
  OBVIOUS
<1>b. PICK o \in Nat : o = we.offs /\ o \in {0, Offs}
  BY <1>1, Constants DEF WordexpTypes, ProgramRecords
<1>3. PICK offs \in Nat : offs = IF "DOOFFS" \in flags THEN IF we.offs = 0 THEN Offs ELSE we.offs ELSE 0
  BY <1>b, Constants
<1>4. /\ w \in ProgramRecords
      /\ VectorSound(w) /\ (w.wordv = NoVector => w.wordc = 0)
      /\ w.offs = we.offs
  BY <1>1, <1>2, FreedKeeps
<1>a. w.wordc \in Nat /\ w.wordv \in MaybeVector /\ w.offs \in {0, Offs}
  BY <1>4 DEF ProgramRecords
<1>5. offs \in {0, Offs}
  BY <1>b, <1>3
<1>c. PICK n \in Nat : n = w.wordc
  BY <1>a
<1>6. /\ wx.at = "idle" /\ kids' = {} /\ fds' = {}
      /\ we.wordv # NoVector => \/ "REUSE" \in flags
                                \/ "APPEND" \in flags /\ (we.offs > 0) = ("DOOFFS" \in flags)
  BY <1>1 DEF WordexpBegins, Held
<1>d. words \in Texts /\ flags \in FlagSets
  BY DEF Arguments, Texts, FlagSets
<1>e. PICK c \in Nat : c = wx.calls + 1
  BY <1>1 DEF WordexpTypes, CallRecords
<1>7. CASE bad # ""
  <2>1. we' = w /\ wx' = [wx EXCEPT !.calls = c, !.ret = bad, !.flags = flags, !.words = words]
    BY <1>2, <1>7, <1>e DEF WordexpBegins
  <2>2. wx'.at = "idle"
    BY <1>1, <1>6, <2>1 DEF WordexpTypes, CallRecords, ProgramRecords
  <2>3. WordexpTypes'
    <3>1. bad \in Returned
      BY DEF Arguments, Returned
    <3>2. wx' \in CallRecords
      BY <1>1, <1>d, <2>1, <3>1 DEF WordexpTypes, CallRecords
    <3>3. QED
      BY <1>4, <2>1, <3>2 DEF WordexpTypes
  <2>4. QED
    BY <1>4, <1>6, <2>1, <2>2, <2>3
       DEF WordexpInv, Kept, Growing, Allocated, OnlyWords, Held, VectorSound
<1>8. CASE bad = ""
  <2>1. PICK base \in Nat : base = offs + (IF "APPEND" \in flags THEN w.wordc ELSE 0)
    BY <1>c
  <2>2. PICK vec : vec = IF "APPEND" \in flags THEN w.wordv ELSE NoVector
    OBVIOUS
  <2>3. /\ we' = [w EXCEPT !.offs = offs]
        /\ wx' = [wx EXCEPT !.at = "pipe", !.flags = flags, !.words = words,
                            !.calls = c, !.alloc = 0, !.base = base, !.vec = vec]
    BY <1>e, <1>2, <1>3, <1>8, <2>1, <2>2 DEF WordexpBegins
  <2>4. vec \in MaybeVector
    BY <1>a, <2>2, Constants
  <2>5. WordexpTypes'
    <3>1. "pipe" \in Places
      BY DEF Places
    <3>2. wx' \in CallRecords
      BY <1>1, <1>d, <2>3, <2>4, <3>1 DEF WordexpTypes, CallRecords
    <3>3. we' \in ProgramRecords
      BY <1>4, <1>5, <2>3 DEF ProgramRecords
    <3>4. QED
      BY <3>2, <3>3 DEF WordexpTypes
  <2>6. /\ wx'.at = "pipe" /\ wx'.base = base /\ wx'.vec = vec
        /\ we'.offs = offs /\ we'.wordc = w.wordc /\ we'.wordv = w.wordv
    BY <1>1, <1>4, <2>3 DEF WordexpTypes, CallRecords, ProgramRecords
  <2>7. w.wordv # NoVector => offs = w.offs
    <3>1. SUFFICES ASSUME w.wordv # NoVector PROVE offs = w.offs
      OBVIOUS
    <3>2. w = we
      BY <1>1, <1>2, <3>1 DEF Freed, WordexpTypes, CallRecords, ProgramRecords
    <3>3. "REUSE" \notin flags
      BY <1>1, <1>2, <3>1 DEF Freed, WordexpTypes, CallRecords, ProgramRecords
    <3>4. (we.offs > 0) = ("DOOFFS" \in flags)
      BY <1>6, <3>1, <3>2, <3>3
    <3>5. w.offs = we.offs /\ we.offs \in Nat
      BY <1>a, <1>4, Constants
    <3>6. QED
      BY <1>3, <3>4, <3>5
  <2>8. Kept'
    BY <1>4, <2>6, <2>7 DEF Kept, VectorSound
  <2>9. Growing'
    <3>1. offs <= base
      BY <1>c, <2>1
    <3>2. vec = NoVector => base = offs
      <4>1. CASE "APPEND" \in flags
        BY <1>4, <1>c, <2>1, <2>2, <4>1
      <4>2. CASE "APPEND" \notin flags
        BY <2>1, <4>2
      <4>3. QED
        BY <4>1, <4>2
    <3>3. Filled(vec, offs, base)
      <4>1. SUFFICES ASSUME vec # NoVector PROVE Filled(vec, offs, base)
        BY DEF Filled
      <4>2. vec = w.wordv /\ w.wordv # NoVector /\ base = offs + w.wordc /\ offs = w.offs
        BY <2>1, <2>2, <2>7, <4>1
      <4>3. QED
        BY <1>4, <4>2 DEF Filled, VectorSound
    <3>4. QED
      BY <2>6, <3>1, <3>2, <3>3 DEF Growing
  <2>10. Allocated' /\ OnlyWords' /\ Held'
    BY <1>6, <2>6 DEF Allocated, OnlyWords, Held
  <2>11. QED
    BY <2>5, <2>8, <2>9, <2>10 DEF WordexpInv
<1>9. QED
  BY <1>7, <1>8

\* A call that gives up before the shell's words frees nothing it must keep.
LEMMA ErrMemKeeps ==
  ASSUME WordexpInv, err_mem
  PROVE  WordexpTypes' /\ Kept' /\ wx'.at = "idle"
<1>1. WordexpTypes /\ Kept
  BY DEF WordexpInv
<1>2. we' = Freed(we) \/ we' = we
  BY DEF err_mem
<1>3. wx' = [wx EXCEPT !.at = "idle", !.ret = "NOSPACE", !.vec = NoVector]
  BY DEF err_mem, Returns
<1>4. /\ we' \in ProgramRecords
      /\ VectorSound(we') /\ (we'.wordv = NoVector => we'.wordc = 0)
  BY <1>1, <1>2, FreedKeeps
<1>5. WordexpTypes'
  BY <1>1, <1>3, <1>4, Constants DEF WordexpTypes, CallRecords, Places, Returned
<1>6. QED
  BY <1>1, <1>3, <1>4, <1>5 DEF Kept, VectorSound, WordexpTypes, CallRecords, ProgramRecords

LEMMA IdleKeeps ==
  ASSUME WordexpTypes', Kept', wx'.at = "idle", kids' = {}, fds' = {}
  PROVE  WordexpInv'
BY DEF WordexpInv, Growing, Allocated, OnlyWords, Held

\* A step of the call that leaves the vectors as they are.
LEMMA MovesOn ==
  ASSUME WordexpInv, UNCHANGED we, wx.at # "idle", wx'.base = wx.base, wx'.vec = wx.vec
  PROVE  Kept' /\ Growing'
BY DEF WordexpInv, Kept, Growing, VectorSound, Filled

LEMMA MakePipeStep == ASSUME WordexpInv, MakePipe PROVE WordexpInv'
<1>1. WordexpTypes /\ Held /\ wx.at = "pipe" /\ kids' = {}
  BY DEF WordexpInv, MakePipe, Held
<1>2. CASE err_mem /\ UNCHANGED fds
  <2>1. fds' = {}
    BY <1>1, <1>2 DEF Held
  <2>2. QED
    BY <1>1, <1>2, <2>1, ErrMemKeeps, IdleKeeps
<1>3. CASE Go("fork") /\ UNCHANGED we
  <2>1. wx' = [wx EXCEPT !.at = "fork"]
    BY <1>3 DEF Go
  <2>2. wx'.at = "fork" /\ wx'.base = wx.base /\ wx'.vec = wx.vec
    BY <1>1, <2>1 DEF WordexpTypes, CallRecords, ProgramRecords
  <2>3. WordexpTypes'
    BY <1>1, <1>3, <2>1 DEF WordexpTypes, CallRecords, ProgramRecords, Places
  <2>4. Allocated' /\ OnlyWords' /\ Held'
    BY <1>1, <2>2 DEF Allocated, OnlyWords, Held
  <2>5. QED
    BY <1>1, <1>3, <2>2, <2>3, <2>4, MovesOn DEF WordexpInv
<1>4. QED
  BY <1>2, <1>3 DEF MakePipe

LEMMA OutputsAre ==
  ASSUME NEW out \in Outputs
  PROVE  out \in Printed /\ \A k \in 2 .. Len(out) : out[k] \in Expanded
<1>1. CASE out \in {<<>>, <<"cut">>}
  <2>1. CASE out = <<>>
    BY <2>1, EmptySeq DEF Printed
  <2>2. CASE out = <<"cut">>
    <3>1. PICK c \in {"w", "cut", "x"} : c = "cut"
      OBVIOUS
    <3>2. out = <<c>>
      BY <2>2, <3>1
    <3>3. out \in Seq({"w", "cut", "x"}) /\ Len(out) = 1
      BY <3>2
    <3>4. QED
      BY <3>3 DEF Printed
  <2>3. QED
    BY <1>1, <2>1, <2>2
<1>2. CASE out \notin {<<>>, <<"cut">>}
  <2>1. PICK n \in 0 .. MaxExpanded : out \in Prints(n)
    BY <1>2 DEF Outputs
  <2>2. n \in Nat
    BY WordexpAssumption
  <2>3. PICK t \in [1 .. n -> Expanded] : out = <<"x">> \o t
    BY <2>1 DEF Prints
  <2>4. t \in Seq({"w", "cut", "x"}) /\ Len(t) = n /\ \A k \in 1 .. n : t[k] \in Expanded
    BY <2>2, <2>3 DEF Expanded
  <2>5. out \in Seq({"w", "cut", "x"}) /\ Len(out) = n + 1
    BY <2>2, <2>3, <2>4
  <2>6. \A k \in 2 .. n + 1 : out[k] = t[k - 1]
    BY <2>2, <2>3, <2>4
  <2>7. \A k \in 2 .. n + 1 : k - 1 \in 1 .. n
    BY <2>2
  <2>8. QED
    BY <2>4, <2>5, <2>6, <2>7 DEF Printed
<1>3. QED
  BY <1>1, <1>2

LEMMA ForkShellStep == ASSUME WordexpInv, ForkShell PROVE WordexpInv'
<1>1. WordexpTypes /\ Held /\ wx.at = "fork" /\ kids = {}
  BY DEF WordexpInv, ForkShell, Held
<1>2. CASE err_mem /\ fds' = {} /\ UNCHANGED kids
  BY <1>1, <1>2, ErrMemKeeps, IdleKeeps
<1>3. ASSUME NEW out \in Outputs, wx' = [wx EXCEPT !.at = "fdopen", !.out = out], UNCHANGED we
      PROVE  WordexpInv'
  <2>1. out \in Printed /\ \A k \in 2 .. Len(out) : out[k] \in Expanded
    BY OutputsAre
  <2>2. wx'.at = "fdopen" /\ wx'.base = wx.base /\ wx'.vec = wx.vec /\ wx'.out = out
    BY <1>1, <1>3 DEF WordexpTypes, CallRecords, ProgramRecords
  <2>3. WordexpTypes'
    BY <1>1, <1>3, <2>1 DEF WordexpTypes, CallRecords, ProgramRecords, Places
  <2>4. Allocated' /\ OnlyWords' /\ Held'
    BY <2>1, <2>2 DEF Allocated, OnlyWords, Held
  <2>5. QED
    BY <1>1, <1>3, <2>2, <2>3, <2>4, MovesOn DEF WordexpInv
<1>4. QED
  BY <1>2, <1>3 DEF ForkShell

LEMMA OpenStreamStep == ASSUME WordexpInv, OpenStream PROVE WordexpInv'
<1>1. WordexpTypes /\ Growing /\ OnlyWords /\ wx.at = "fdopen"
  BY DEF WordexpInv, OpenStream
<1>2. CASE err_mem /\ fds' = {} /\ kids' = {}
  BY <1>2, ErrMemKeeps, IdleKeeps
<1>3. CASE /\ wx' = [wx EXCEPT !.at = "skip",
                               !.alloc = IF wx.vec = NoVector THEN 0 ELSE wx.base + 1]
           /\ UNCHANGED we
  <2>1. PICK alloc \in Nat : alloc = IF wx.vec = NoVector THEN 0 ELSE wx.base + 1
    BY <1>1 DEF WordexpTypes, CallRecords, ProgramRecords
  <2>2. /\ wx'.at = "skip" /\ wx'.base = wx.base /\ wx'.vec = wx.vec
        /\ wx'.out = wx.out /\ wx'.alloc = alloc
    BY <1>1, <1>3, <2>1 DEF WordexpTypes, CallRecords, ProgramRecords
  <2>3. WordexpTypes'
    BY <1>1, <1>3, <2>1 DEF WordexpTypes, CallRecords, ProgramRecords, Places
  <2>4. Allocated'
    <3>1. wx.vec # NoVector => wx.base + 1 <= wx.vec[1].room
      BY <1>1 DEF Growing, Filled
    <3>2. wx.base \in Nat
      BY <1>1 DEF WordexpTypes, CallRecords, ProgramRecords
    <3>3. QED
      BY <2>1, <2>2, <3>1, <3>2 DEF Allocated
  <2>5. OnlyWords' /\ Held'
    BY <1>1, <2>2 DEF OnlyWords, Held
  <2>6. QED
    BY <1>1, <1>3, <2>2, <2>3, <2>4, <2>5, MovesOn DEF WordexpInv
<1>4. QED
  BY <1>2, <1>3 DEF OpenStream

LEMMA TokenIs ==
  ASSUME NEW x \in extract_string
  PROVE  /\ x.short \in BOOLEAN /\ x.eof \in BOOLEAN
         /\ x.short => x.token = <<>> /\ x.rest = wx.out /\ ~x.eof
         /\ ~x.short => ~short
         /\ ~x.short /\ wx.out = <<>> => x.token = <<>> /\ x.rest = <<>> /\ x.eof
         /\ ~x.short /\ wx.out # <<>> => x.token = <<Head(wx.out)>>
                                         /\ x.rest = Tail(wx.out)
<1>1. CASE x = [token |-> <<>>, eof |-> FALSE, rest |-> wx.out, short |-> TRUE]
  BY <1>1
<1>2. CASE ~short /\ wx.out = <<>>
           /\ x = [token |-> <<>>, eof |-> TRUE, rest |-> <<>>, short |-> FALSE]
  BY <1>2
<1>3. CASE ~short /\ wx.out # <<>>
           /\ x = [token |-> <<Head(wx.out)>>, eof |-> Head(wx.out) = "cut", rest |-> Tail(wx.out),
                   short |-> FALSE]
  BY <1>3
<1>4. QED
  BY <1>1, <1>2, <1>3 DEF extract_string

\* What is left of the output, and that it is words if what was behind the
\* first entry was.
LEMMA RestIs ==
  ASSUME NEW out \in Printed, out # <<>>, NEW rest, rest = Tail(out)
  PROVE  /\ rest \in Printed /\ out[1] = Head(out)
         /\ (\A k \in 2 .. Len(out) : out[k] \in Expanded) => \A k \in 1 .. Len(rest) : rest[k] \in Expanded
<1>1. PICK n \in Nat : n = Len(out) /\ n >= 1
  BY DEF Printed
<1>2. rest \in Printed /\ Len(rest) = n - 1 /\ \A k \in 1 .. n - 1 : rest[k] = out[k + 1]
  BY <1>1 DEF Printed
<1>3. \A k \in 1 .. n - 1 : k + 1 \in 2 .. n
  BY <1>1
<1>4. out[1] = Head(out)
  BY DEF Printed
<1>5. QED
  BY <1>1, <1>2, <1>3, <1>4

LEMMA SkipXStep == ASSUME WordexpInv, SkipX PROVE WordexpInv'
<1>1. /\ WordexpTypes /\ Kept /\ Allocated /\ OnlyWords /\ wx.at = "skip" /\ UNCHANGED we
      /\ wx.out \in Printed
  BY DEF WordexpInv, SkipX, WordexpTypes, CallRecords
<1>2. PICK x \in extract_string :
        /\ short' = x.short
        /\ IF x.eof THEN Returns("SYNTAX") /\ fds' = {} /\ kids' = {}
           ELSE wx' = [wx EXCEPT !.at = "token", !.out = x.rest]
  BY DEF SkipX
<1>3. CASE x.eof
  <2>1. wx' = [wx EXCEPT !.at = "idle", !.ret = "SYNTAX", !.vec = NoVector]
    BY <1>2, <1>3 DEF Returns
  <2>2. "SYNTAX" \in Returned /\ "idle" \in Places
    BY DEF Returned, Refusals, Places
  <2>3. WordexpTypes' /\ wx'.at = "idle"
    BY <1>1, <2>1, <2>2, Constants DEF WordexpTypes, CallRecords
  <2>4. Kept'
    BY <1>1 DEF Kept, VectorSound
  <2>5. QED
    BY <1>2, <1>3, <2>3, <2>4, IdleKeeps
<1>4. CASE ~x.eof
  <2>1. wx' = [wx EXCEPT !.at = "token", !.out = x.rest]
    BY <1>2, <1>4
  <2>2. x.rest \in Printed /\ (x.short \/ \A k \in 1 .. Len(x.rest) : x.rest[k] \in Expanded)
    <3>1. CASE x.short
      BY <1>1, <3>1, TokenIs
    <3>2. CASE ~x.short
      <4>1. wx.out # <<>> /\ x.rest = Tail(wx.out)
        BY <1>4, <3>2, TokenIs
      <4>2. \A k \in 2 .. Len(wx.out) : wx.out[k] \in Expanded
        BY <1>1 DEF OnlyWords
      <4>3. QED
        BY <1>1, <4>1, <4>2, RestIs
    <3>3. QED
      BY <3>1, <3>2
  <2>3. /\ wx'.at = "token" /\ wx'.base = wx.base /\ wx'.vec = wx.vec
        /\ wx'.out = x.rest /\ wx'.alloc = wx.alloc
    BY <1>1, <2>1 DEF WordexpTypes, CallRecords
  <2>4. "token" \in Places
    BY DEF Places
  <2>5. WordexpTypes'
    BY <1>1, <2>1, <2>2, <2>4 DEF WordexpTypes, CallRecords
  <2>6. Allocated'
    BY <1>1, <2>3 DEF Allocated
  <2>7. OnlyWords' /\ Held'
    BY <1>2, <2>2, <2>3 DEF OnlyWords, Held
  <2>8. QED
    BY <1>1, <2>3, <2>5, <2>6, <2>7, MovesOn DEF WordexpInv
<1>5. QED
  BY <1>3, <1>4

RoomTaken(alloc, v) ==
  IF wx.base + 1 >= wx.alloc THEN alloc = NewRoom(wx.alloc) /\ v = Enlarged(wx.vec, alloc)
                             ELSE alloc = wx.alloc /\ v = wx.vec

\* The vector the next word goes into has room for it and for the NULL.
LEMMA RoomForOne ==
  ASSUME WordexpInv, wx.at = "token", NEW alloc, NEW v, RoomTaken(alloc, v)
  PROVE  /\ alloc \in Nat
         /\ \E r \in Nat : \E f \in [1 .. r -> Entries] :
              /\ v = <<[room |-> r, slot |-> f]>>
              /\ wx.base + 2 <= alloc /\ alloc <= r
              /\ \A k \in we.offs + 1 .. wx.base : f[k] \in Expanded
<1>1. /\ we.offs \in Nat /\ we.offs \in {0, Offs} /\ wx.vec \in MaybeVector
  BY Constants DEF WordexpInv, WordexpTypes, ProgramRecords, CallRecords
<1>2. PICK b \in Nat, a \in Nat, o \in Nat : b = wx.base /\ a = wx.alloc /\ o = we.offs
  BY <1>1 DEF WordexpInv, WordexpTypes, CallRecords
<1>3. o <= Offs /\ Offs \in Nat /\ FirstRoom \in Nat /\ Offs + 2 <= FirstRoom
  BY <1>1, <1>2, WordexpAssumption
<1>4. o <= b /\ (wx.vec = NoVector => b = o /\ a = 0)
  BY <1>2 DEF WordexpInv, Growing, Allocated
<1>a. /\ b + 1 >= a => alloc = NewRoom(a) /\ v = Enlarged(wx.vec, alloc)
      /\ ~(b + 1 >= a) => alloc = a /\ v = wx.vec
  BY <1>2 DEF RoomTaken
<1>5. CASE wx.vec # NoVector
  <2>0. PICK q \in Nat : \E h \in [1 .. q -> Entries] : wx.vec = <<[room |-> q, slot |-> h]>>
    BY <1>1, <1>5, VectorIs
  <2>1. PICK h \in [1 .. q -> Entries] : wx.vec = <<[room |-> q, slot |-> h]>>
    BY <2>0
  <2>2. wx.vec[1].room = q /\ wx.vec[1].slot = h
    BY <2>1
  <2>3. b + 1 <= a /\ a <= q
    BY <1>2, <1>5, <2>2 DEF WordexpInv, Allocated
  <2>4. \A k \in o + 1 .. b : h[k] \in Expanded
    BY <1>2, <1>5, <2>2 DEF WordexpInv, Growing, Filled
  <2>5. CASE b + 1 >= a
    <3>1. alloc = IF a < FirstRoom THEN FirstRoom ELSE a * 2
      BY <1>a, <2>5 DEF NewRoom
    <3>3. alloc \in Nat /\ b + 2 <= alloc
      BY <1>3, <2>3, <2>5, <3>1
    <3>4. v = Enlarged(wx.vec, alloc)
      BY <1>a, <2>5
    <3>e. PICK g \in [1 .. alloc -> Entries] :
            /\ Enlarged(wx.vec, alloc) = <<[room |-> alloc, slot |-> g]>>
            /\ wx.vec # NoVector =>
                 \A k \in 1 .. alloc : k <= wx.vec[1].room => g[k] = wx.vec[1].slot[k]
      BY <1>1, <3>3, EnlargedIs
    <3>5. /\ v = <<[room |-> alloc, slot |-> g]>>
          /\ \A k \in 1 .. alloc : k <= q => g[k] = h[k]
      BY <1>5, <2>2, <3>4, <3>e
    <3>6. \A k \in o + 1 .. b : k \in 1 .. alloc /\ k <= q
      BY <2>3, <3>3
    <3>7. \A k \in o + 1 .. b : g[k] \in Expanded
      BY <2>4, <3>5, <3>6
    <3>8. wx.base + 2 <= alloc /\ alloc <= alloc
          /\ \A k \in we.offs + 1 .. wx.base : g[k] \in Expanded
      BY <1>2, <3>3, <3>7
    <3>9. QED
      BY <3>3, <3>5, <3>8
  <2>6. CASE ~(b + 1 >= a)
    <3>1. alloc = a /\ v = wx.vec /\ b + 2 <= a
      BY <1>a, <2>6
    <3>2. QED
      BY <1>2, <2>1, <2>3, <2>4, <3>1
  <2>7. QED
    BY <2>5, <2>6
<1>6. CASE wx.vec = NoVector
  <2>1. alloc = NewRoom(a) /\ v = Enlarged(wx.vec, alloc)
    BY <1>4, <1>6, <1>a
  <2>2. alloc = FirstRoom /\ alloc \in Nat
    BY <1>3, <1>4, <1>6, <2>1 DEF NewRoom
  <2>e. PICK g \in [1 .. alloc -> Entries] :
          Enlarged(wx.vec, alloc) = <<[room |-> alloc, slot |-> g]>>
    BY <1>1, <2>2, EnlargedIs
  <2>3. v = <<[room |-> alloc, slot |-> g]>>
    BY <2>1, <2>e
  <2>4. b + 2 <= alloc /\ alloc \in Nat /\ alloc <= alloc
    BY <1>3, <1>4, <1>6, <2>2
  <2>5. \A k \in o + 1 .. b : g[k] \in Expanded
    BY <1>4, <1>6
  <2>6. QED
    BY <1>2, <2>3, <2>4, <2>5
<1>7. QED
  BY <1>5, <1>6

\* A word in the vector.
LEMMA StoreStep ==
  ASSUME WordexpInv, wx.at = "token", UNCHANGED <<we, kids, fds>>,
         NEW x \in extract_string, x.token # <<>>, short' = x.short,
         NEW alloc, NEW v, RoomTaken(alloc, v),
         wx' = [wx EXCEPT !.out = x.rest, !.alloc = alloc, !.base = @ + 1,
                          !.vec = Stored(v, wx.base, x.token[1]),
                          !.spilt = @ \/ wx.base + 2 > Room(v)]
  PROVE  WordexpInv'
<1>1. /\ WordexpTypes /\ Kept /\ Growing /\ OnlyWords
      /\ wx.out \in Printed /\ wx.spilt = FALSE
      /\ we.offs \in Nat
  BY Constants DEF WordexpInv, WordexpTypes, CallRecords, ProgramRecords
<1>2. PICK b \in Nat, o \in Nat : b = wx.base /\ o = we.offs /\ o <= b
  BY <1>1 DEF Growing, WordexpTypes, CallRecords
<1>3. alloc \in Nat
  BY RoomForOne
<1>4. PICK r \in Nat : \E f \in [1 .. r -> Entries] :
        /\ v = <<[room |-> r, slot |-> f]>> /\ b + 2 <= alloc /\ alloc <= r
        /\ \A k \in o + 1 .. b : f[k] \in Expanded
  BY <1>2, RoomForOne
<1>5. PICK f \in [1 .. r -> Entries] :
        /\ v = <<[room |-> r, slot |-> f]>> /\ b + 2 <= alloc /\ alloc <= r
        /\ \A k \in o + 1 .. b : f[k] \in Expanded
  BY <1>4
<1>6. ~x.short /\ ~short /\ wx.out # <<>> /\ x.token = <<Head(wx.out)>> /\ x.rest = Tail(wx.out)
  BY TokenIs
<1>7. \A k \in 1 .. Len(wx.out) : wx.out[k] \in Expanded
  BY <1>1, <1>6 DEF OnlyWords
<1>8. /\ x.rest \in Printed /\ x.token[1] \in Expanded
      /\ \A k \in 1 .. Len(x.rest) : x.rest[k] \in Expanded
  <2>1. 1 \in 1 .. Len(wx.out)
    BY <1>1, <1>6 DEF Printed
  <2>2. \A k \in 2 .. Len(wx.out) : k \in 1 .. Len(wx.out)
    OBVIOUS
  <2>3. Head(wx.out) = wx.out[1]
    BY <1>1, <1>6, RestIs
  <2>4. x.token[1] = Head(wx.out)
    BY <1>6
  <2>5. QED
    BY <1>1, <1>6, <1>7, <2>1, <2>2, <2>3, <2>4, RestIs
<1>9. PICK w \in Expanded : w = x.token[1]
  BY <1>8
<1>10. PICK g \in [1 .. r -> Entries] :
         /\ Stored(v, b, w) = <<[room |-> r, slot |-> g]>>
         /\ \A k \in 1 .. r : g[k] = IF k = b + 1 THEN w
                                     ELSE IF k = b + 2 THEN "NULL" ELSE f[k]
  <2>1. v = <<[room |-> r, slot |-> f]>>
    BY <1>5
  <2>2. w \in Entries
    BY DEF Entries, Expanded
  <2>2a. StoredIn(v, r, f, b, w)
    BY <2>1, <2>2, StoredIs
  <2>3. QED
    BY <2>2a DEF StoredIn
<1>11. PICK u : u = <<[room |-> r, slot |-> g]>>
  OBVIOUS
<1>12. u \in MaybeVector /\ u # NoVector /\ u[1].room = r /\ u[1].slot = g
  BY <1>11, IsVector
<1>13. ~(wx.base + 2 > Room(v))
  <2>1. v # NoVector /\ v[1].room = r
    BY <1>5, IsVector
  <2>2. Room(v) = r
    BY <2>1 DEF Room
  <2>3. QED
    BY <1>2, <1>3, <1>5, <2>2
<1>14. PICK n \in Nat : n = b + 1
  OBVIOUS
<1>15. wx' = [wx EXCEPT !.out = x.rest, !.alloc = alloc, !.base = n, !.vec = u,
                        !.spilt = FALSE]
  BY <1>1, <1>2, <1>8, <1>9, <1>10, <1>11, <1>13, <1>14
<1>16. WordexpTypes'
  <2>1. wx' \in CallRecords
    <3>1. wx \in CallRecords
      BY <1>1 DEF WordexpTypes
    <3>2. x.rest \in Printed /\ u \in MaybeVector
      BY <1>8, <1>12
    <3>3. QED
      BY ONLY <1>3, <1>15, n \in Nat, <3>1, <3>2 DEF CallRecords
  <2>2. QED
    BY <1>1, <2>1 DEF WordexpTypes
<1>17. /\ wx'.at = "token" /\ wx'.base = n /\ wx'.vec = u /\ wx'.out = x.rest
       /\ wx'.alloc = alloc
  BY <1>1, <1>15 DEF WordexpTypes, CallRecords
<1>18. Kept'
  BY <1>1 DEF Kept, VectorSound
<1>19. Filled(u, o, n)
  <2>1. n + 1 <= r /\ n + 1 \in 1 .. r /\ n + 1 = b + 2 /\ n + 1 # b + 1
    BY <1>3, <1>5, <1>14
  <2>2. g[n + 1] = "NULL"
    BY <1>10, <2>1
  <2>3. \A k \in o + 1 .. n : g[k] \in Expanded
    <3>1. TAKE k \in o + 1 .. n
    <3>2. k \in 1 .. r /\ k # b + 2
      BY <1>14, <2>1
    <3>3. CASE k = b + 1
      BY <1>10, <3>2, <3>3
    <3>4. CASE k # b + 1
      <4>1. k \in o + 1 .. b
        BY <1>14, <3>4
      <4>2. f[k] \in Expanded
        BY <1>5, <4>1
      <4>3. QED
        BY <1>10, <3>2, <3>4, <4>2
    <3>5. QED
      BY <3>3, <3>4
  <2>4. QED
    BY <1>12, <2>1, <2>2, <2>3 DEF Filled
<1>20. Growing'
  BY <1>2, <1>12, <1>14, <1>17, <1>19 DEF Growing
<1>21. Allocated'
  <2>1. n + 1 <= alloc /\ alloc <= r
    BY <1>3, <1>5, <1>14
  <2>2. QED
    BY <1>12, <1>17, <2>1 DEF Allocated
<1>22. OnlyWords' /\ Held'
  BY <1>8, <1>17 DEF OnlyWords, Held
<1>23. QED
  BY <1>16, <1>18, <1>20, <1>21, <1>22 DEF WordexpInv

LEMMA EndsStep ==
  ASSUME WordexpInv, wx.at = "token", UNCHANGED we,
         NEW out \in Printed, NEW ret \in Returned,
         wx' = [wx EXCEPT !.at = "done", !.out = out, !.ret = ret]
  PROVE  WordexpInv'
<1>1. WordexpTypes
  BY DEF WordexpInv
<1>2. "done" \in Places
  BY DEF Places
<1>3. WordexpTypes'
  BY <1>1, <1>2 DEF WordexpTypes, CallRecords
<1>4. wx'.at = "done" /\ wx'.base = wx.base /\ wx'.vec = wx.vec
  BY <1>1 DEF WordexpTypes, CallRecords
<1>5. Allocated' /\ OnlyWords' /\ Held'
  BY <1>4 DEF Allocated, OnlyWords, Held
<1>6. QED
  BY <1>3, <1>4, <1>5, MovesOn DEF WordexpInv

LEMMA TakeTokenStep == ASSUME WordexpInv, TakeToken PROVE WordexpInv'
<1>1. wx.at = "token" /\ UNCHANGED <<we, kids, fds>>
  BY DEF TakeToken
<1>2. WordexpTypes /\ wx.out \in Printed
  BY DEF WordexpInv, WordexpTypes, CallRecords
<1>3. PICK x \in extract_string :
        LET grow == wx.base + 1 >= wx.alloc
            alloc == IF grow THEN NewRoom(wx.alloc) ELSE wx.alloc
            v == IF grow THEN Enlarged(wx.vec, alloc) ELSE wx.vec
        IN  /\ short' = x.short
            /\ \/ /\ x.token # <<>>
                  /\ wx' = [wx EXCEPT !.out = x.rest, !.alloc = alloc, !.base = @ + 1,
                                      !.vec = Stored(v, wx.base, x.token[1]),
                                      !.spilt = @ \/ wx.base + 2 > Room(v)]
               \/ /\ x.token # <<>> /\ grow
                  /\ wx' = [wx EXCEPT !.at = "done", !.out = x.rest,
                                      !.ret = IF x.eof THEN "" ELSE "NOSPACE"]
               \/ /\ x.token = <<>>
                  /\ wx' = [wx EXCEPT !.at = "done", !.ret = IF x.eof THEN "" ELSE "NOSPACE"]
  BY DEF TakeToken
<1>4. PICK alloc : alloc = IF wx.base + 1 >= wx.alloc THEN NewRoom(wx.alloc) ELSE wx.alloc
  OBVIOUS
<1>5. PICK v : v = IF wx.base + 1 >= wx.alloc THEN Enlarged(wx.vec, alloc) ELSE wx.vec
  OBVIOUS
<1>6. RoomTaken(alloc, v)
  BY <1>4, <1>5 DEF RoomTaken
<1>7. CASE /\ x.token # <<>>
           /\ wx' = [wx EXCEPT !.out = x.rest, !.alloc = alloc, !.base = @ + 1,
                               !.vec = Stored(v, wx.base, x.token[1]),
                               !.spilt = @ \/ wx.base + 2 > Room(v)]
  <2>1. short' = x.short
    BY <1>3
  <2>2. QED
    BY <1>1, <1>6, <1>7, <2>1, StoreStep
<1>8. "NOSPACE" \in Returned /\ "" \in Returned
  BY DEF Returned
<1>9. CASE /\ x.token # <<>>
           /\ wx' = [wx EXCEPT !.at = "done", !.out = x.rest,
                               !.ret = IF x.eof THEN "" ELSE "NOSPACE"]
  <2>1. x.rest \in Printed
    BY <1>2, <1>9, TokenIs, RestIs
  <2>2. PICK ret \in Returned : ret = IF x.eof THEN "" ELSE "NOSPACE"
    BY <1>8
  <2>3. wx' = [wx EXCEPT !.at = "done", !.out = x.rest, !.ret = ret]
    BY <1>9, <2>2
  <2>4. QED
    BY <1>1, <2>1, <2>3, EndsStep
<1>10. CASE wx' = [wx EXCEPT !.at = "done", !.ret = IF x.eof THEN "" ELSE "NOSPACE"]
  <2>1. PICK ret \in Returned : ret = IF x.eof THEN "" ELSE "NOSPACE"
    BY <1>8
  <2>2. wx' = [wx EXCEPT !.at = "done", !.out = wx.out, !.ret = ret]
    BY <1>2, <1>10, <2>1 DEF WordexpTypes, CallRecords
  <2>3. QED
    BY <1>1, <1>2, <2>2, EndsStep
<1>11. QED
  BY <1>3, <1>4, <1>5, <1>7, <1>9, <1>10

\* What HandOver gives the program.
Given(v, ret) ==
  /\ we' = [we EXCEPT !.wordc = wx.base - we.offs,
              !.wordv = IF v = NoVector THEN v
                        ELSE [v EXCEPT ![1].slot =
                                [k \in DOMAIN @ |-> IF k <= we.offs THEN "NULL" ELSE @[k]]]]
  /\ Returns(ret)

LEMMA GivenKeeps ==
  ASSUME WordexpInv, wx.at = "done", NEW v \in MaybeVector, NEW ret \in Returned,
         Given(v, ret), Filled(v, we.offs, wx.base), v = NoVector => wx.base = we.offs
  PROVE  WordexpTypes' /\ Kept' /\ wx'.at = "idle"
<1>1. /\ WordexpTypes /\ Growing /\ we.offs \in {0, Offs} /\ we.offs \in Nat
  BY Constants DEF WordexpInv, WordexpTypes, ProgramRecords
<1>2. PICK b \in Nat, o \in Nat : b = wx.base /\ o = we.offs /\ o <= b
  BY <1>1 DEF Growing, WordexpTypes, CallRecords
<1>3. PICK c \in Nat : c = b - o
  BY <1>2
<1>4. PICK u : u = IF v = NoVector THEN v
                   ELSE [v EXCEPT ![1].slot =
                           [k \in DOMAIN @ |-> IF k <= we.offs THEN "NULL" ELSE @[k]]]
  OBVIOUS
<1>5. we' = [we EXCEPT !.wordc = c, !.wordv = u]
  BY <1>2, <1>3, <1>4 DEF Given
<1>6. wx' = [wx EXCEPT !.at = "idle", !.ret = ret, !.vec = NoVector]
  BY DEF Given, Returns
<1>7. CASE v = NoVector
  <2>1. u = NoVector /\ c = 0
    BY <1>2, <1>3, <1>4, <1>7
  <2>2. we' \in ProgramRecords /\ we'.wordv = NoVector /\ we'.wordc = 0
    BY <1>1, <1>5, <2>1, Constants DEF WordexpTypes, ProgramRecords
  <2>3. wx' \in CallRecords /\ wx'.at = "idle"
    <3>1. "idle" \in Places
      BY DEF Places
    <3>2. QED
      BY <1>1, <1>6, <3>1, Constants DEF WordexpTypes, CallRecords
  <2>4. QED
    BY <2>2, <2>3 DEF WordexpTypes, Kept, VectorSound
<1>8. CASE v # NoVector
  <2>0. PICK r \in Nat : \E f \in [1 .. r -> Entries] : v = <<[room |-> r, slot |-> f]>>
    BY <1>8, VectorIs
  <2>1. PICK f \in [1 .. r -> Entries] : v = <<[room |-> r, slot |-> f]>>
    BY <2>0
  <2>2. v[1].room = r /\ v[1].slot = f /\ DOMAIN v[1].slot = 1 .. r
    BY <2>1
  <2>3. PICK g : g = [k \in 1 .. r |-> IF k <= o THEN "NULL" ELSE f[k]]
    OBVIOUS
  <2>4. /\ g \in [1 .. r -> Entries]
        /\ \A k \in 1 .. r : g[k] = IF k <= o THEN "NULL" ELSE f[k]
    BY <2>3 DEF Entries
  <2>5. u = [v EXCEPT ![1].slot = g]
    <3>1. u = [v EXCEPT ![1].slot = [k \in DOMAIN v[1].slot |->
                                       IF k <= we.offs THEN "NULL" ELSE v[1].slot[k]]]
      BY <1>4, <1>8
    <3>2. [k \in DOMAIN v[1].slot |-> IF k <= we.offs THEN "NULL" ELSE v[1].slot[k]] = g
      BY <1>2, <2>2, <2>3
    <3>3. QED
      BY <3>1, <3>2
  <2>6. u = <<[room |-> r, slot |-> g]>>
    BY <2>1, <2>4, <2>5, SlotsReplaced
  <2>7. u \in MaybeVector /\ u # NoVector /\ u[1].room = r /\ u[1].slot = g
    BY <2>4, <2>6, IsVector
  <2>8. /\ b + 1 <= r /\ (\A k \in o + 1 .. b : f[k] \in Expanded) /\ f[b + 1] = "NULL"
    BY <1>2, <1>8, <2>2 DEF Filled
  <2>9. /\ \A k \in 1 .. o : g[k] = "NULL"
        /\ \A k \in o + 1 .. b : g[k] \in Expanded
        /\ g[b + 1] = "NULL"
    <3>1. \A k \in 1 .. o : k \in 1 .. r /\ k <= o
      BY <1>2, <2>8
    <3>2. \A k \in o + 1 .. b : k \in 1 .. r /\ ~(k <= o)
      BY <1>2, <2>8
    <3>3. b + 1 \in 1 .. r /\ ~(b + 1 <= o)
      BY <1>2, <2>8
    <3>4. QED
      BY <2>4, <2>8, <3>1, <3>2, <3>3
  <2>10. o + c = b /\ o + c + 1 = b + 1
    BY <1>2, <1>3
  <2>11. /\ we' \in ProgramRecords /\ we'.offs = o /\ we'.wordc = c /\ we'.wordv = u
    BY <1>1, <1>2, <1>5, <2>7 DEF WordexpTypes, ProgramRecords
  <2>12. wx' \in CallRecords /\ wx'.at = "idle"
    <3>1. "idle" \in Places
      BY DEF Places
    <3>2. QED
      BY <1>1, <1>6, <3>1, Constants DEF WordexpTypes, CallRecords
  <2>13. VectorSound(we')
    BY <2>7, <2>8, <2>9, <2>10, <2>11 DEF VectorSound
  <2>14. QED
    BY <2>7, <2>11, <2>12, <2>13 DEF WordexpTypes, Kept
<1>9. QED
  BY <1>7, <1>8

LEMMA HandOverStep == ASSUME WordexpInv, HandOver PROVE WordexpInv'
<1>1. /\ wx.at = "done" /\ kids' = {} /\ fds' = {}
      /\ WordexpTypes /\ Growing
  BY DEF HandOver, WordexpInv
<1>2. /\ wx.vec \in MaybeVector /\ wx.ret \in Returned /\ "NOSPACE" \in Returned
      /\ Filled(wx.vec, we.offs, wx.base) /\ (wx.vec = NoVector => wx.base = we.offs)
      /\ wx.base \in Nat
  BY <1>1 DEF WordexpTypes, CallRecords, Growing, Returned
<1>3. PICK room \in Nat : room = wx.base + 1
  BY <1>2
<1>4. PICK slot : slot = [k \in 1 .. room |-> "NULL"]
  OBVIOUS
<1>5. PICK empty : empty = <<[room |-> room, slot |-> slot]>>
  OBVIOUS
<1>6. \/ wx.vec # NoVector /\ Given(wx.vec, wx.ret)
      \/ wx.vec = NoVector /\ Given(empty, wx.ret)
      \/ wx.vec = NoVector /\ Given(NoVector, "NOSPACE")
  <2>1. CASE wx.vec # NoVector
    <3>1. Given(wx.vec, wx.ret)
      BY <2>1 DEF HandOver, Given
    <3>2. QED
      BY <2>1, <3>1
  <2>2. CASE wx.vec = NoVector
    <3>1. empty = <<[room |-> wx.base + 1, slot |-> [k \in 1 .. wx.base + 1 |-> "NULL"]]>>
      BY <1>3, <1>4, <1>5
    <3>2. Given(empty, wx.ret) \/ Given(NoVector, "NOSPACE")
      BY <2>2, <3>1 DEF HandOver, Given
    <3>3. QED
      BY <2>2, <3>2
  <2>3. QED
    BY <2>1, <2>2
<1>7. CASE wx.vec # NoVector /\ Given(wx.vec, wx.ret)
  BY <1>1, <1>2, <1>7, GivenKeeps, IdleKeeps
<1>8. CASE wx.vec = NoVector /\ Given(NoVector, "NOSPACE")
  <2>1. Filled(NoVector, we.offs, wx.base)
    BY DEF Filled
  <2>2. QED
    BY <1>1, <1>2, <1>8, <2>1, Constants, GivenKeeps, IdleKeeps
<1>9. CASE wx.vec = NoVector /\ Given(empty, wx.ret)
  <2>1. slot \in [1 .. room -> Entries] /\ \A k \in 1 .. room : slot[k] = "NULL"
    BY <1>4 DEF Entries
  <2>2. empty \in MaybeVector /\ empty # NoVector /\ empty[1].room = room /\ empty[1].slot = slot
    BY <1>5, <2>1, IsVector
  <2>3. wx.base = we.offs
    BY <1>2, <1>9
  <2>4. room \in 1 .. room
    BY <1>2, <1>3
  <2>5. slot[room] = "NULL"
    BY <2>1, <2>4
  <2>6. wx.base + 1 <= room /\ \A k \in we.offs + 1 .. wx.base : FALSE
    BY <1>2, <1>3, <2>3
  <2>7. Filled(empty, we.offs, wx.base)
    BY <1>3, <2>2, <2>5, <2>6 DEF Filled
  <2>8. QED
    BY <1>1, <1>2, <1>9, <2>2, <2>7, GivenKeeps, IdleKeeps
<1>10. QED
  BY <1>6, <1>7, <1>8, <1>9

LEMMA WordfreeStep == ASSUME WordexpInv, Wordfree PROVE WordexpInv'
<1>1. /\ WordexpTypes /\ Kept /\ Held /\ wx.at = "idle" /\ UNCHANGED <<kids, fds, short>>
      /\ we' = Freed(we) /\ wx' = [wx EXCEPT !.ret = ""]
  BY DEF WordexpInv, Wordfree
<1>2. /\ we' \in ProgramRecords /\ VectorSound(we') /\ (we'.wordv = NoVector => we'.wordc = 0)
  BY <1>1, FreedKeeps
<1>3. "" \in Returned
  BY DEF Returned
<1>4. WordexpTypes' /\ wx'.at = "idle"
  BY <1>1, <1>2, <1>3 DEF WordexpTypes, CallRecords
<1>5. Kept'
  BY <1>2 DEF Kept, VectorSound
<1>6. kids' = {} /\ fds' = {}
  BY <1>1 DEF Held
<1>7. QED
  BY <1>4, <1>5, <1>6, IdleKeeps

LEMMA WordexpStep == ASSUME WordexpInv, [WordexpNext]_wordexpVars PROVE WordexpInv'
<1>1. CASE UNCHANGED wordexpVars
  BY <1>1 DEF wordexpVars, WordexpInv, WordexpTypes, Kept, Growing, Allocated, OnlyWords,
              Held, VectorSound, Filled
<1>2. CASE \E words \in Seq(WordParts), flags \in SUBSET Flags, bad \in Refusals \cup {""} :
             WordexpBegins(words, flags, bad)
  <2>1. PICK words, flags, bad : Arguments(words, flags, bad) /\ WordexpBegins(words, flags, bad)
    BY <1>2 DEF Arguments
  <2>2. QED
    BY <2>1, BeginsStep
<1>3. CASE WordexpSteps
  BY <1>3, MakePipeStep, ForkShellStep, OpenStreamStep, SkipXStep, TakeTokenStep,
     HandOverStep, WordfreeStep DEF WordexpSteps
<1>4. QED
  BY <1>1, <1>2, <1>3 DEF WordexpNext

\* The vector a program gets from wordexp, and the one it is made in, and
\* what of the child and of its pipe is left.
THEOREM WordexpInvariant == WordexpSpec => []WordexpInv
<1>1. WordexpInv /\ [WordexpNext]_wordexpVars => WordexpInv'
  BY WordexpStep
<1>2. QED
  BY <1>1, WordexpInvInit, PTL DEF WordexpSpec

\* However many words come and however the vector grows with them, appended
\* to or not, it is never written past its room, and what wordexp leaves has
\* we_offs NULLs, the words, and a NULL behind them; no way out leaves the
\* shell unwaited for or its pipe open (wordexp.c:128-260, wordfree.c).
THEOREM WordexpAlwaysSound == WordexpSpec => []WordexpSound
BY WordexpInvariant, WordexpInvSound, PTL

-----------------------------------------------------------------------------
(* Division.  What the loop has done after the bits from the highest down  *)
(* to one is a division of what those bits are worth.                      *)

LEMMA TwoToIs ==
  /\ TwoTo \in [0 .. Wide -> Nat]
  /\ TwoTo[0] = 1
  /\ \A i \in 1 .. Wide : TwoTo[i] = 2 * TwoTo[i - 1]
<1> DEFINE Is(f) == f = [i \in 0 .. Wide |-> IF i = 0 THEN 1 ELSE 2 * f[i - 1]]
<1>1. Wide \in Nat
  BY DivisionAssumption
<1>2. PICK Step \in [1 .. Wide -> [Nat -> Nat]] :
        \A k \in 1 .. Wide, x \in Nat : Step[k][x] = 2 * x
  <2> DEFINE S == [k \in 1 .. Wide |-> [x \in Nat |-> 2 * x]]
  <2>1. S \in [1 .. Wide -> [Nat -> Nat]]
    OBVIOUS
  <2>2. \A k \in 1 .. Wide, x \in Nat : S[k][x] = 2 * x
    OBVIOUS
  <2> HIDE DEF S
  <2>3. QED
    BY <2>1, <2>2
<1>3. PICK f : RunOf(f, Step, 1, Nat, Wide)
  <2> DEFINE N == Nat
             one == 1
  <2>1. one \in N /\ StepsIn(Step, N, Wide)
    BY <1>2 DEF StepsIn
  <2>2. \E f : RunOf(f, Step, one, N, Wide)
    <3> HIDE DEF N, one
    <3>1. QED
      BY <1>1, <2>1, StepsDefine
  <2>3. QED
    BY <2>2
<1>4. Is(f)
  <2>1. \A k \in 0 .. Wide : f[k] = IF k = 0 THEN 1 ELSE 2 * f[k - 1]
    <3>1. TAKE k \in 0 .. Wide
    <3>2. CASE k = 0
      BY <1>3, <3>2 DEF RunOf
    <3>3. CASE k # 0
      <4>1. k \in 1 .. Wide /\ k - 1 \in 0 .. Wide
        BY <1>1, <3>3
      <4>2. f[k - 1] \in Nat
        BY <1>3, <4>1 DEF RunOf
      <4>3. f[k] = Step[k][f[k - 1]]
        BY <1>3, <4>1 DEF RunOf
      <4>4. QED
        BY <1>2, <3>3, <4>1, <4>2, <4>3
    <3>4. QED
      BY <3>2, <3>3
  <2>2. QED
    BY <1>3, <2>1 DEF RunOf
<1>5. TwoTo = CHOOSE g : Is(g)
  BY DEF TwoTo
<1>6. Is(TwoTo)
  BY <1>4, <1>5
<1>7. TwoTo[0] = 1 /\ \A i \in 1 .. Wide : TwoTo[i] = 2 * TwoTo[i - 1]
  <2> DEFINE g == TwoTo
  <2>1. Is(g)
    BY <1>6
  <2> HIDE DEF g
  <2>2. 0 \in 0 .. Wide /\ \A i \in 1 .. Wide : i \in 0 .. Wide /\ i # 0
    BY <1>1
  <2>3. g[0] = 1 /\ \A i \in 1 .. Wide : g[i] = 2 * g[i - 1]
    BY <2>1, <2>2
  <2>4. QED
    BY <2>3 DEF g
<1>8. \A i \in 0 .. Wide : TwoTo[i] \in Nat
  <2> DEFINE S == {i \in 0 .. Wide : TwoTo[i] \in Nat}
  <2>1. 0 \in S /\ S \subseteq 0 .. Wide
    BY <1>1, <1>7
  <2>2. \A k \in 1 .. Wide : k - 1 \in S => k \in S
    <3>1. TAKE k \in 1 .. Wide
    <3>2. TwoTo[k] = 2 * TwoTo[k - 1] /\ k \in 0 .. Wide
      BY <1>1, <1>7
    <3>3. QED
      BY <3>2
  <2>3. QED
    BY <1>1, <2>1, <2>2, UpTo
<1>9. QED
  BY <1>6, <1>7, <1>8

-----------------------------------------------------------------------------
LEMMA TimesAtLeast ==
  ASSUME NEW a \in Nat, NEW b \in Nat, NEW m \in Nat, a < b
  PROVE  a * m + m <= b * m /\ a * m \in Nat /\ b * m \in Nat
<1>1. PICK t \in Nat : b = a + 1 + t
  <2>1. b - a - 1 \in Nat /\ b = a + 1 + (b - a - 1)
    OBVIOUS
  <2>2. QED
    BY <2>1
<1>2. t * m \in Nat /\ a * m \in Nat /\ b * m \in Nat
  OBVIOUS
<1>3. b * m = a * m + m + t * m
  BY <1>1
<1>4. QED
  BY <1>2, <1>3

LEMMA QuotientIs ==
  ASSUME NEW n \in Nat, NEW m \in Nat \ {0}
  PROVE  \E q \in Nat, r \in 0 .. m - 1 : q = n \div m /\ r = n % m /\ n = q * m + r
<1>1. PICK q \in Nat : q = n \div m
  OBVIOUS
<1>2. PICK r \in 0 .. m - 1 : r = n % m
  OBVIOUS
<1>3. n = q * m + r
  BY <1>1, <1>2
<1>4. QED
  BY <1>1, <1>2, <1>3

LEMMA QuotientOnly ==
  ASSUME NEW n \in Nat, NEW m \in Nat \ {0}, NEW q \in Nat, NEW r \in 0 .. m - 1,
         n = q * m + r
  PROVE  n \div m = q
<1>1. PICK p \in Nat, s \in 0 .. m - 1 : p = n \div m /\ n = p * m + s
  BY QuotientIs
<1>2. m \in Nat /\ p * m + s = q * m + r
  BY <1>1
<1>3. ~(p < q)
  <2>1. SUFFICES ASSUME p < q PROVE FALSE
    OBVIOUS
  <2>2. p * m + m <= q * m /\ p * m \in Nat /\ q * m \in Nat
    BY <1>2, <2>1, TimesAtLeast
  <2>3. QED
    BY <1>2, <2>2
<1>4. ~(q < p)
  <2>1. SUFFICES ASSUME q < p PROVE FALSE
    OBVIOUS
  <2>2. q * m + m <= p * m /\ p * m \in Nat /\ q * m \in Nat
    BY <1>2, <2>1, TimesAtLeast
  <2>3. QED
    BY <1>2, <2>2
<1>5. p = q
  BY <1>3, <1>4
<1>6. QED
  BY <1>1, <1>5

\* One bit more of n: half as much is cut off.
LEMMA BitMore ==
  ASSUME NEW n \in Nat, NEW m \in Nat \ {0}
  PROVE  \E h \in Nat, b \in 0 .. 1 :
           n \div (2 * m) = h /\ (n \div m) % 2 = b /\ n \div m = 2 * h + b
<1>1. PICK p \in Nat, s \in 0 .. m - 1 : p = n \div m /\ n = p * m + s
  BY QuotientIs
<1>2. PICK h \in Nat, b \in 0 .. 1 : h = p \div 2 /\ b = p % 2 /\ p = h * 2 + b
  BY QuotientIs
<1>3. 2 * m \in Nat \ {0} /\ b * m + s \in 0 .. 2 * m - 1
  <2>1. CASE b = 0
    BY <2>1
  <2>2. CASE b = 1
    BY <2>2
  <2>3. QED
    BY <2>1, <2>2
<1>4. n = h * (2 * m) + (b * m + s)
  <2>1. p * m = h * (2 * m) + b * m
    BY <1>2
  <2>2. h * (2 * m) \in Nat /\ b * m \in Nat
    OBVIOUS
  <2>3. QED
    BY <1>1, <2>1, <2>2
<1>5. n \div (2 * m) = h
  BY <1>3, <1>4, QuotientOnly
<1>6. (n \div m) % 2 = b /\ n \div m = 2 * h + b
  <2>1. p % 2 = b /\ p = 2 * h + b
    BY <1>2
  <2>2. n \div m = p
    BY <1>1
  <2>3. (n \div m) % 2 = p % 2
    BY ONLY <2>2, Zenon
  <2>4. QED
    BY ONLY <2>1, <2>2, <2>3, Zenon
<1>7. QED
  BY <1>5, <1>6

-----------------------------------------------------------------------------
LoopStates == [rem : Nat, quot : Nat]

\* x is what n without the bits below m leaves, divided by d; the quotient
\* stands where those bits were.
LeftBy(x, n, d, m) ==
  \E q \in Nat : /\ x.rem < d
                 /\ x.quot = q * m
                 /\ n \div m = q * d + x.rem

LEMMA ModulusIs == /\ Modulus \in Nat \ {0}
                   /\ \A i \in 0 .. Wide : TwoTo[i] \in Nat \ {0}
<1>1. Wide \in Nat
  BY DivisionAssumption
<1> DEFINE S == {i \in 0 .. Wide : TwoTo[i] # 0}
<1>2. 0 \in S /\ S \subseteq 0 .. Wide
  BY <1>1, TwoToIs
<1>3. \A k \in 1 .. Wide : k - 1 \in S => k \in S
  <2>1. TAKE k \in 1 .. Wide
  <2>2. TwoTo[k] = 2 * TwoTo[k - 1] /\ k \in 0 .. Wide /\ k - 1 \in 0 .. Wide
    BY <1>1, TwoToIs
  <2>3. TwoTo[k - 1] \in Nat
    BY <2>2, TwoToIs
  <2>4. QED
    BY <2>2, <2>3
<1>4. \A i \in 0 .. Wide : i \in S
  <2> HIDE DEF S
  <2>1. QED
    BY <1>1, <1>2, <1>3, UpTo
<1>5. QED
  BY <1>1, <1>4, TwoToIs DEF Modulus

LEMMA TurnInLoopStates ==
  ASSUME NEW n \in Nat, NEW d \in Nat, NEW x \in LoopStates, NEW i \in 0 .. Wide
  PROVE  DivisionTurn(n, d, x, i) \in LoopStates
<1>1. PICK m \in Nat \ {0} : m = TwoTo[i]
  BY ModulusIs
<1>2. PICK b \in 0 .. 1 : b = Bit(n, i)
  <2>1. PICK h \in Nat, b \in 0 .. 1 : (n \div m) % 2 = b
    BY BitMore
  <2>2. QED
    BY <1>1, <2>1 DEF Bit
<1>3. PICK all \in Nat \ {0} : all = Modulus
  BY ModulusIs
<1>4. PICK sum \in Nat : sum = 2 * x.rem + b
  BY DEF LoopStates
<1>5. PICK r \in Nat : r = (2 * x.rem + Bit(n, i)) % Modulus
  <2>1. sum % all \in Nat
    OBVIOUS
  <2>2. QED
    BY <1>2, <1>3, <1>4, <2>1
<1>6. DivisionTurn(n, d, x, i) = IF r >= d THEN [rem |-> r - d, quot |-> x.quot + m]
                                   ELSE [rem |-> r, quot |-> x.quot]
  BY <1>1, <1>5 DEF DivisionTurn
<1>7. x.quot \in Nat
  BY DEF LoopStates
<1>8. QED
  BY <1>6, <1>7 DEF LoopStates

LEMMA TurnKeeps ==
  ASSUME NEW n \in 0 .. Modulus - 1, NEW d \in Nat \ {0}, NEW x \in LoopStates,
         NEW i \in 0 .. Wide - 1, LeftBy(x, n, d, TwoTo[i + 1])
  PROVE  LeftBy(DivisionTurn(n, d, x, i), n, d, TwoTo[i])
<1>0. Wide \in Nat /\ n \in Nat /\ i \in 0 .. Wide /\ i + 1 \in 1 .. Wide /\ i + 1 \in 0 .. Wide
  BY DivisionAssumption, ModulusIs
<1>1. PICK m \in Nat \ {0} : m = TwoTo[i]
  BY <1>0, ModulusIs
<1>2. TwoTo[i + 1] = 2 * m
  <2>1. i + 1 - 1 = i
    BY <1>0
  <2>2. QED
    BY <1>0, <1>1, <2>1, TwoToIs
<1>3. PICK h \in Nat, b \in 0 .. 1 :
        n \div (2 * m) = h /\ (n \div m) % 2 = b /\ n \div m = 2 * h + b
  BY <1>0, BitMore
<1>4. Bit(n, i) = b
  BY <1>1, <1>3 DEF Bit
<1>5. PICK q \in Nat : x.rem < d /\ x.quot = q * (2 * m) /\ h = q * d + x.rem
  BY <1>2, <1>3 DEF LeftBy
<1>6. PICK rem \in Nat : rem = x.rem /\ rem < d
  BY <1>5 DEF LoopStates
<1>7. PICK r \in Nat : r = 2 * rem + b /\ r < 2 * d /\ n \div m = 2 * (q * d) + r
  <2>1. q * d \in Nat
    OBVIOUS
  <2>2. QED
    BY <1>3, <1>5, <1>6, <2>1
<1>8. PICK all \in Nat : all = Modulus /\ n < all /\ r < all
  <2>1. PICK p \in Nat, s \in 0 .. m - 1 : p = n \div m /\ n = p * m + s
    BY <1>0, QuotientIs
  <2>2. p <= p * m /\ p * m \in Nat
    <3>1. PICK t \in Nat : m = 1 + t
      <4>1. m - 1 \in Nat /\ m = 1 + (m - 1)
        OBVIOUS
      <4>2. QED
        BY <4>1
    <3>2. p * m = p + p * t /\ p * t \in Nat
      BY <3>1
    <3>3. QED
      BY <3>2
  <2>3. q * d \in Nat
    OBVIOUS
  <2>4. r <= p /\ p <= n
    BY <1>0, <1>7, <2>1, <2>2, <2>3
  <2>5. Modulus \in Nat /\ n < Modulus
    BY ModulusIs
  <2>6. QED
    BY <1>0, <2>4, <2>5
<1>9. (2 * x.rem + Bit(n, i)) % Modulus = r
  <2>1. r % all = r
    BY <1>8
  <2>2. QED
    BY <1>4, <1>6, <1>7, <1>8, <2>1
<1>10. CASE r >= d
  <2>1. DivisionTurn(n, d, x, i) = [rem |-> r - d, quot |-> x.quot + m]
    BY <1>1, <1>9, <1>10 DEF DivisionTurn
  <2>2. PICK o \in Nat : o = 2 * q + 1
    OBVIOUS
  <2>3. r - d < d /\ x.quot + m = o * m /\ n \div m = o * d + (r - d)
    <3>1. o * m = q * (2 * m) + m
      BY <2>2
    <3>2. o * d = 2 * (q * d) + d /\ q * d \in Nat
      BY <2>2
    <3>3. QED
      BY <1>5, <1>7, <3>1, <3>2
  <2>4. QED
    BY <1>1, <2>1, <2>3 DEF LeftBy
<1>11. CASE ~(r >= d)
  <2>1. DivisionTurn(n, d, x, i) = [rem |-> r, quot |-> x.quot]
    BY <1>1, <1>9, <1>11 DEF DivisionTurn
  <2>2. PICK e \in Nat : e = 2 * q
    OBVIOUS
  <2>3. r < d /\ x.quot = e * m /\ n \div m = e * d + r
    <3>1. e * m = q * (2 * m)
      BY <2>2
    <3>2. e * d = 2 * (q * d) /\ q * d \in Nat
      BY <2>2
    <3>3. QED
      BY <1>5, <1>7, <1>11, <3>1, <3>2
  <2>4. QED
    BY <1>1, <2>1, <2>3 DEF LeftBy
<1>12. QED
  BY <1>10, <1>11

(* Shift and subtract divides: the loop ends with quotient and remainder.  *)
LEMMA DividedIs ==
  ASSUME NEW n \in 0 .. Modulus - 1, NEW d \in Nat \ {0}
  PROVE  /\ Divided(n, d) \in LoopStates
         /\ Divided(n, d).rem < d
         /\ n = Divided(n, d).quot * d + Divided(n, d).rem
<1> DEFINE zero == [rem |-> 0, quot |-> 0]
           Is(f) == f = [k \in 0 .. Wide |-> IF k = 0 THEN zero
                                             ELSE DivisionTurn(n, d, f[k - 1], Wide - k)]
<1>1. Wide \in Nat /\ n \in Nat /\ zero \in LoopStates
  BY DivisionAssumption, ModulusIs DEF LoopStates
<1>2. PICK Step : /\ StepsIn(Step, LoopStates, Wide)
                  /\ \A k \in 1 .. Wide, x \in LoopStates :
                       Step[k][x] = DivisionTurn(n, d, x, Wide - k)
  <2> DEFINE S == [k \in 1 .. Wide |-> [x \in LoopStates |-> DivisionTurn(n, d, x, Wide - k)]]
  <2>1. \A k \in 1 .. Wide, x \in LoopStates :
          DivisionTurn(n, d, x, Wide - k) \in LoopStates
    <3>1. TAKE k \in 1 .. Wide, x \in LoopStates
    <3>2. Wide - k \in 0 .. Wide
      BY <1>1
    <3>3. QED
      BY <1>1, <3>2, TurnInLoopStates
  <2>2. S \in [1 .. Wide -> [LoopStates -> LoopStates]]
    BY <2>1
  <2>3. \A k \in 1 .. Wide, x \in LoopStates : S[k][x] = DivisionTurn(n, d, x, Wide - k)
    OBVIOUS
  <2> HIDE DEF S
  <2>4. QED
    BY <2>2, <2>3 DEF StepsIn
<1> HIDE DEF zero
<1>3. PICK f : RunOf(f, Step, zero, LoopStates, Wide)
  BY <1>1, <1>2, StepsDefine
<1>4. Is(f)
  <2>1. \A k \in 0 .. Wide :
          f[k] = IF k = 0 THEN zero ELSE DivisionTurn(n, d, f[k - 1], Wide - k)
    <3>1. TAKE k \in 0 .. Wide
    <3>2. CASE k = 0
      BY <1>3, <3>2 DEF RunOf
    <3>3. CASE k # 0
      <4>1. k \in 1 .. Wide /\ k - 1 \in 0 .. Wide
        BY <1>1, <3>3
      <4>2. f[k - 1] \in LoopStates /\ f[k] = Step[k][f[k - 1]]
        BY <1>3, <4>1 DEF RunOf
      <4>3. QED
        BY <1>2, <3>3, <4>1, <4>2
    <3>4. QED
      BY <3>2, <3>3
  <2>2. QED
    BY <1>3, <2>1 DEF RunOf
<1> DEFINE after == CHOOSE g : Is(g)
<1>5. Divided(n, d) = after[Wide]
  BY DEF Divided, zero
<1>6. Is(after)
  BY <1>4
<1> HIDE DEF after
<1>7. /\ after[0] = zero
      /\ \A k \in 1 .. Wide : after[k] = DivisionTurn(n, d, after[k - 1], Wide - k)
  <2>1. 0 \in 0 .. Wide /\ \A k \in 1 .. Wide : k \in 0 .. Wide /\ k # 0
    BY <1>1
  <2>2. QED
    BY <1>6, <2>1
<1> DEFINE S == {k \in 0 .. Wide : /\ after[k] \in LoopStates
                                   /\ LeftBy(after[k], n, d, TwoTo[Wide - k])}
<1>8. 0 \in S
  <2>1. LeftBy(zero, n, d, Modulus)
    <3>1. PICK all \in Nat \ {0} : all = Modulus
      BY ModulusIs
    <3>2. n = 0 * all + n /\ n \in 0 .. all - 1
      BY <1>1, <3>1
    <3>3. n \div all = 0
      BY <1>1, <3>2, QuotientOnly
    <3>4. 0 < d /\ 0 * all = 0 /\ 0 * d + 0 = 0
      OBVIOUS
    <3>5. QED
      BY <3>1, <3>3, <3>4 DEF LeftBy, zero
  <2>2. 0 \in 0 .. Wide /\ Wide - 0 = Wide
    BY <1>1
  <2>3. QED
    BY <1>1, <1>7, <2>1, <2>2 DEF Modulus
<1>9. \A k \in 1 .. Wide : k - 1 \in S => k \in S
  <2>1. SUFFICES ASSUME NEW k \in 1 .. Wide, k - 1 \in S PROVE k \in S
    OBVIOUS
  <2>2. PICK i \in 0 .. Wide - 1 : i = Wide - k
    BY <1>1
  <2>3. PICK x \in LoopStates : x = after[k - 1]
    BY <2>1
  <2>4. Wide - (k - 1) = i + 1 /\ i \in 0 .. Wide /\ k \in 0 .. Wide
    BY <1>1, <2>2
  <2>5. after[k] = DivisionTurn(n, d, x, i)
    BY <1>7, <2>2, <2>3
  <2>6. LeftBy(x, n, d, TwoTo[i + 1])
    BY <2>1, <2>3, <2>4
  <2>7. LeftBy(DivisionTurn(n, d, x, i), n, d, TwoTo[i])
    BY <2>6, TurnKeeps
  <2>8. DivisionTurn(n, d, x, i) \in LoopStates
    BY <1>1, <2>4, TurnInLoopStates
  <2>9. QED
    BY <2>2, <2>4, <2>5, <2>7, <2>8
<1>10. Wide \in S
  <2>1. S \subseteq 0 .. Wide
    OBVIOUS
  <2> HIDE DEF S
  <2>2. \A k \in 0 .. Wide : k \in S
    BY <1>1, <1>8, <1>9, <2>1, UpTo
  <2>3. QED
    BY <1>1, <2>2
<1>11. PICK x \in LoopStates : x = Divided(n, d) /\ LeftBy(x, n, d, 1)
  <2>1. Wide - Wide = 0 /\ TwoTo[0] = 1
    BY <1>1, TwoToIs
  <2>2. QED
    BY <1>5, <1>10, <2>1
<1>12. PICK q \in Nat : x.rem < d /\ x.quot = q * 1 /\ n \div 1 = q * d + x.rem
  BY <1>11 DEF LeftBy
<1>13. n \div 1 = n /\ q * 1 = q
  BY <1>1
<1>14. QED
  BY <1>11, <1>12, <1>13

(* For every width and every two numbers: __udivdi3 and __umoddi3 give the *)
(* quotient and the remainder of C.                                        *)
THEOREM UnsignedDivision ==
  \A n \in 0 .. Modulus - 1, d \in 1 .. Modulus - 1 :
    Truncates(n, d, udiv(n, d), umod(n, d))
<1>1. TAKE n \in 0 .. Modulus - 1, d \in 1 .. Modulus - 1
<1>2. Modulus \in Nat
  BY ModulusIs
<1>3. n \in Nat /\ d \in Nat \ {0}
  BY <1>2
<1>4. PICK q \in Nat, r \in Nat : /\ q = Divided(n, d).quot /\ r = Divided(n, d).rem
                                  /\ r < d /\ n = q * d + r
  BY <1>3, DividedIs DEF LoopStates
<1>5. udiv(n, d) = q /\ umod(n, d) = r
  BY <1>3, <1>4 DEF udiv, umod
<1>6. QED
  BY <1>3, <1>4, <1>5 DEF Truncates, Abs

-----------------------------------------------------------------------------
Signed == LLONG_MIN .. LLONG_MAX

LEMMA HalfIs == \E h \in Nat \ {0} : /\ h = TwoTo[Wide - 1] /\ Modulus = 2 * h
                                     /\ LLONG_MIN = -h /\ LLONG_MAX = h - 1
<1>1. Wide - 1 \in 0 .. Wide /\ Wide \in 1 .. Wide
  BY DivisionAssumption
<1>2. PICK h \in Nat \ {0} : h = TwoTo[Wide - 1]
  BY <1>1, ModulusIs
<1>3. TwoTo[Wide] = 2 * h
  BY <1>1, <1>2, TwoToIs
<1>4. QED
  BY <1>2, <1>3 DEF Modulus, LLONG_MIN, LLONG_MAX

LEMMA MagnitudeIs ==
  ASSUME NEW n \in Signed
  PROVE  /\ n \in Int /\ Magnitude(n) = Abs(n)
         /\ Magnitude(n) \in 0 .. Modulus - 1 /\ Magnitude(n) <= TwoTo[Wide - 1]
         /\ Magnitude(n) = TwoTo[Wide - 1] => n = LLONG_MIN
<1>1. PICK h \in Nat \ {0} : /\ h = TwoTo[Wide - 1] /\ Modulus = 2 * h
                             /\ LLONG_MIN = -h /\ LLONG_MAX = h - 1
  BY HalfIs
<1>2. n \in -h .. h - 1
  BY <1>1 DEF Signed
<1>3. CASE n < 0
  <2>1. PICK p \in 1 .. h : p = -n
    BY <1>2, <1>3
  <2>2. PICK all \in Nat \ {0} : all = 2 * h
    OBVIOUS
  <2>3. p % all = p
    BY <2>1, <2>2
  <2>4. Magnitude(n) = p /\ Abs(n) = p
    BY <1>1, <1>3, <2>1, <2>2, <2>3 DEF Magnitude, Abs, AsUnsigned
  <2>5. QED
    BY <1>1, <1>2, <2>1, <2>4
<1>4. CASE ~(n < 0)
  BY <1>1, <1>2, <1>4 DEF Magnitude, Abs
<1>5. QED
  BY <1>3, <1>4

(* For every width and every two numbers of it but LLONG_MIN and -1, whose *)
(* quotient does not fit: __divdi3 and __moddi3 give the quotient and the  *)
(* remainder of C, and both fit.                                           *)
THEOREM SignedDivision ==
  \A n \in Signed, d \in Signed \ {0} :
    IF n = LLONG_MIN /\ d = -1
    THEN div(n, d) = LLONG_MIN /\ mod(n, d) = 0
    ELSE /\ Truncates(n, d, div(n, d), mod(n, d))
         /\ div(n, d) \in Signed /\ mod(n, d) \in Signed
<1>1. TAKE n \in Signed, d \in Signed \ {0}
<1>2. CASE n = LLONG_MIN /\ d = -1
  BY <1>2 DEF div, mod
<1>3. CASE ~(n = LLONG_MIN /\ d = -1)
  <2>1. PICK h \in Nat \ {0} : /\ h = TwoTo[Wide - 1] /\ Modulus = 2 * h
                               /\ LLONG_MIN = -h /\ LLONG_MAX = h - 1
    BY HalfIs
  <2>2. PICK a \in 0 .. h : /\ a = Magnitude(n) /\ n \in Int
                            /\ a = IF n < 0 THEN -n ELSE n
    BY <2>1, MagnitudeIs DEF Abs
  <2>3. PICK b \in 1 .. h : /\ b = Magnitude(d) /\ d \in Int
                            /\ b = IF d < 0 THEN -d ELSE d
    BY <2>1, MagnitudeIs DEF Abs
  <2>4. PICK q \in Nat, r \in Nat : /\ q = Divided(a, b).quot /\ r = Divided(a, b).rem
                                    /\ r < b /\ a = q * b + r
    <3>1. a \in 0 .. Modulus - 1 /\ b \in Nat \ {0}
      BY <2>1
    <3>2. QED
      BY <3>1, DividedIs DEF LoopStates
  <2>5. q <= a /\ q * b \in Nat
    <3>1. PICK t \in Nat : b = 1 + t
      <4>1. b - 1 \in Nat /\ b = 1 + (b - 1)
        OBVIOUS
      <4>2. QED
        BY <4>1
    <3>2. q * b = q + q * t /\ q * t \in Nat
      BY <3>1
    <3>3. QED
      BY <2>4, <3>2
  <2>6. q = h => n = -h /\ b = 1
    <3>1. ASSUME q = h PROVE n = -h /\ b = 1
      <4>1. a = h
        BY <2>5, <3>1
      <4>2. n = -h
        BY <2>1, <2>2, <4>1, MagnitudeIs
      <4>3. ~(1 < b)
        <5>1. SUFFICES ASSUME 1 < b PROVE FALSE
          OBVIOUS
        <5>2. 1 * h + h <= b * h
          BY <5>1, TimesAtLeast
        <5>3. b * h = q * b
          BY <3>1
        <5>4. QED
          BY <2>4, <4>1, <5>2, <5>3
      <4>4. QED
        BY <4>2, <4>3
    <3>2. QED
      BY <3>1
  <2>7. AsSigned(q) = IF q = h THEN -h ELSE q
    BY <2>1, <2>5 DEF AsSigned
  <2>8. \A p \in 0 .. h : p # h => Negated(p) = -p
    <3>1. TAKE p \in 0 .. h
    <3>2. HAVE p # h
    <3>3. PICK all \in Nat \ {0} : all = 2 * h
      OBVIOUS
    <3>4. (-p) % all = IF p = 0 THEN 0 ELSE all - p
      BY <3>2, <3>3
    <3>5. QED
      BY <2>1, <3>2, <3>3, <3>4 DEF Negated, AsSigned, AsUnsigned
  <2>9. Negated(-h) = -h
    <3>1. PICK all \in Nat \ {0} : all = 2 * h
      OBVIOUS
    <3>2. h % all = h /\ -(-h) = h
      BY <3>1
    <3>3. QED
      BY <2>1, <3>1, <3>2 DEF Negated, AsSigned, AsUnsigned
  <2>10. div(n, d) = IF (n < 0) # (d < 0) THEN -q ELSE q
    <3>1. div(n, d) = IF (n < 0) # (d < 0) THEN Negated(AsSigned(q)) ELSE AsSigned(q)
      BY <1>3, <2>2, <2>3, <2>4 DEF div
    <3>2. CASE q = h
      <4>1. n < 0 /\ ~(d < 0)
        BY <1>3, <2>1, <2>3, <2>6, <3>2
      <4>2. QED
        BY <2>7, <2>9, <3>1, <3>2, <4>1
    <3>3. CASE q # h
      BY <2>5, <2>7, <2>8, <3>1, <3>3
    <3>4. QED
      BY <3>2, <3>3
  <2>11. mod(n, d) = IF n < 0 THEN -r ELSE r
    BY <1>3, <2>2, <2>3, <2>4 DEF mod
  <2>12. n = div(n, d) * d + mod(n, d)
    <3>1. (-q) * d = -(q * d) /\ q * (-d) = -(q * d)
      BY <2>3
    <3>2. QED
      BY <2>2, <2>3, <2>4, <2>10, <2>11, <3>1
  <2>13. Truncates(n, d, div(n, d), mod(n, d))
    BY <2>2, <2>3, <2>4, <2>11, <2>12 DEF Truncates, Abs
  <2>14. div(n, d) \in -h .. h - 1 /\ mod(n, d) \in -h .. h - 1
    <3>1. q = h => n < 0 /\ ~(d < 0)
      BY <1>3, <2>1, <2>3, <2>6
    <3>2. div(n, d) \in -h .. h - 1
      BY <2>2, <2>5, <2>10, <3>1
    <3>3. r < h
      BY <2>4
    <3>4. QED
      BY <2>11, <3>2, <3>3
  <2>15. QED
    BY <1>3, <2>1, <2>13, <2>14 DEF Signed
<1>4. QED
  BY <1>2, <1>3

-----------------------------------------------------------------------------
(* Zones: the search, and mktime's way back.                               *)

\* A zone as a file holds it: changes in order, each to a type there is.
IsZone(db) ==
  /\ db.trans \in Seq(Int)
  /\ \A i, j \in 1 .. Len(db.trans) : i < j => db.trans[i] <= db.trans[j]
  /\ db.types # <<>>
  /\ db.types \in Seq([gmtoff : Int, isdst : Int, abbr : STRING])
  /\ db.idxs \in [1 .. Len(db.trans) -> 0 .. Len(db.types) - 1]

Past(db, time) == {i \in 1 .. Len(db.trans) : db.trans[i] <= time}

SearchStates(n) == [low : 0 .. n, high : -1 .. n - 1, idx : -1 .. n - 1]

\* All below low is past and all above high is not; k turns are done.
Narrowed(trans, time, x, k) ==
  LET n == Len(trans)
  IN  /\ x.low <= x.high + 1
      /\ x.idx = x.low - 1
      /\ \A i \in 1 .. x.low : trans[i] <= time
      /\ \A i \in x.high + 2 .. n : trans[i] > time
      /\ x.high - x.low + 1 <= n - k

\* A turn looks at an entry from l to h.
TurnLooks(trans, time, l, h, e) ==
  \E m \in Int :
    /\ l <= m /\ m <= h
    /\ SearchTurn(trans, time, [low |-> l, high |-> h, idx |-> e])
         = IF trans[m + 1] <= time THEN [low |-> m + 1, high |-> h, idx |-> m]
                                   ELSE [low |-> l, high |-> m - 1, idx |-> e]

LEMMA SearchTurnIs ==
  ASSUME NEW trans, NEW time, NEW l \in Int, NEW h \in Int, NEW e \in Int, l <= h
  PROVE  TurnLooks(trans, time, l, h, e)
<1>1. PICK w \in Nat : w = (h - l) \div 2 /\ w <= h - l
  <2>1. h - l \in Nat
    OBVIOUS
  <2>2. QED
    BY <2>1
<1>2. PICK m \in Int : m = l + w /\ l <= m /\ m <= h
  BY <1>1
<1> DEFINE x == [low |-> l, high |-> h, idx |-> e]
<1>3. x.low = l /\ x.high = h /\ x.idx = e
  OBVIOUS
<1> HIDE DEF x
<1>4. x.low + (x.high - x.low) \div 2 = m /\ ~(x.low > x.high)
  BY <1>1, <1>2, <1>3
<1>5. SearchTurn(trans, time, x) =
        IF trans[m + 1] <= time THEN [low |-> m + 1, high |-> x.high, idx |-> m]
                                ELSE [low |-> x.low, high |-> m - 1, idx |-> x.idx]
  BY <1>4, Zenon DEF SearchTurn
<1>6. SearchTurn(trans, time, x) =
        IF trans[m + 1] <= time THEN [low |-> m + 1, high |-> h, idx |-> m]
                                ELSE [low |-> l, high |-> m - 1, idx |-> e]
  BY <1>3, <1>5, Zenon
<1>7. QED
  BY <1>2, <1>6 DEF x, TurnLooks

LEMMA SearchTurnIn ==
  ASSUME NEW n \in Nat, NEW trans \in [1 .. n -> Int], NEW time \in Int,
         NEW x \in SearchStates(n)
  PROVE  SearchTurn(trans, time, x) \in SearchStates(n)
<1>1. CASE x.low > x.high
  BY <1>1 DEF SearchTurn
<1>2. CASE ~(x.low > x.high)
  <2>1. PICK l \in 0 .. n, h \in -1 .. n - 1, e \in -1 .. n - 1 :
          x = [low |-> l, high |-> h, idx |-> e]
    BY DEF SearchStates
  <2>2. l \in Int /\ h \in Int /\ e \in Int /\ l <= h
    BY <1>2, <2>1
  <2>3. PICK m \in Int :
          /\ l <= m /\ m <= h
          /\ SearchTurn(trans, time, x)
               = IF trans[m + 1] <= time THEN [low |-> m + 1, high |-> h, idx |-> m]
                                         ELSE [low |-> l, high |-> m - 1, idx |-> e]
    <3>1. TurnLooks(trans, time, l, h, e)
      BY <2>2, SearchTurnIs
    <3>2. QED
      BY <2>1, <3>1 DEF TurnLooks
  <2>4. m + 1 \in 0 .. n /\ m \in -1 .. n - 1 /\ m - 1 \in -1 .. n - 1
    BY <2>1, <2>3
  <2>5. QED
    BY <2>1, <2>3, <2>4 DEF SearchStates
<1>3. QED
  BY <1>1, <1>2

LEMMA SearchTurnKeeps ==
  ASSUME NEW trans \in Seq(Int), NEW time \in Int, NEW k \in Nat,
         \A i, j \in 1 .. Len(trans) : i < j => trans[i] <= trans[j],
         NEW x \in SearchStates(Len(trans)), Narrowed(trans, time, x, k),
         k < Len(trans)
  PROVE  Narrowed(trans, time, SearchTurn(trans, time, x), k + 1)
<1>0. PICK n \in Nat : /\ n = Len(trans) /\ k + 1 <= n
                       /\ \A i \in 1 .. n : trans[i] \in Int
                       /\ \A i, j \in 1 .. n : i < j => trans[i] <= trans[j]
  <2>1. PICK n \in Nat : n = Len(trans)
    OBVIOUS
  <2>2. \A i \in 1 .. n : trans[i] \in Int
    BY <2>1
  <2>3. k + 1 <= n
    BY <2>1
  <2>4. QED
    BY <2>1, <2>2, <2>3
<1>1. PICK l \in 0 .. n, h \in -1 .. n - 1, e \in -1 .. n - 1 :
        x = [low |-> l, high |-> h, idx |-> e]
  BY <1>0 DEF SearchStates
<1>2. /\ l <= h + 1 /\ e = l - 1 /\ h - l + 1 <= n - k
      /\ \A i \in 1 .. l : trans[i] <= time
      /\ \A i \in h + 2 .. n : trans[i] > time
  BY <1>0, <1>1 DEF Narrowed
<1> DEFINE K(y) == Narrowed(trans, time, y, k + 1)
<1>3. \A a, b, c \in Int :
        /\ a <= b + 1 /\ c = a - 1 /\ b - a + 1 <= n - (k + 1)
        /\ \A i \in 1 .. a : trans[i] <= time
        /\ \A i \in b + 2 .. n : trans[i] > time
        => K([low |-> a, high |-> b, idx |-> c])
  BY <1>0 DEF Narrowed
<1> HIDE DEF K
<1>4. CASE l > h
  <2>1. SearchTurn(trans, time, x) = x
    BY <1>1, <1>4 DEF SearchTurn
  <2>2. h - l + 1 <= n - (k + 1)
    BY <1>0, <1>4
  <2>3. K(x)
    BY <1>1, <1>2, <1>3, <2>2
  <2>4. QED
    BY <2>1, <2>3 DEF K
<1>5. CASE ~(l > h)
  <2>1. l \in Int /\ h \in Int /\ e \in Int /\ l <= h
    BY <1>5
  <2>2. PICK m \in Int :
          /\ l <= m /\ m <= h
          /\ SearchTurn(trans, time, x)
               = IF trans[m + 1] <= time THEN [low |-> m + 1, high |-> h, idx |-> m]
                                         ELSE [low |-> l, high |-> m - 1, idx |-> e]
    <3>1. TurnLooks(trans, time, l, h, e)
      BY <2>1, SearchTurnIs
    <3>2. QED
      BY <1>1, <3>1 DEF TurnLooks
  <2>3. m + 1 \in 1 .. n /\ trans[m + 1] \in Int
    BY <1>0, <2>2
  <2>4. CASE trans[m + 1] <= time
    <3>1. \A i \in 1 .. m + 1 : trans[i] <= time
      <4>1. TAKE i \in 1 .. m + 1
      <4>2. i \in 1 .. n /\ trans[i] \in Int /\ (i = m + 1 \/ i < m + 1)
        BY <1>0, <2>3
      <4>3. trans[i] <= trans[m + 1]
        BY <1>0, <2>3, <4>2
      <4>4. QED
        BY <2>3, <2>4, <4>2, <4>3
    <3>2. m + 1 <= h + 1 /\ m = (m + 1) - 1 /\ h - (m + 1) + 1 <= n - (k + 1)
      BY <1>0, <1>2, <2>2
    <3>3. K([low |-> m + 1, high |-> h, idx |-> m])
      BY <1>2, <1>3, <3>1, <3>2
    <3>4. QED
      BY <2>2, <2>4, <3>3 DEF K
  <2>5. CASE ~(trans[m + 1] <= time)
    <3>1. \A i \in (m - 1) + 2 .. n : trans[i] > time
      <4>1. TAKE i \in (m - 1) + 2 .. n
      <4>2. i \in 1 .. n /\ trans[i] \in Int /\ (i = m + 1 \/ m + 1 < i)
        BY <1>0, <2>3
      <4>3. trans[m + 1] <= trans[i]
        BY <1>0, <2>3, <4>2
      <4>4. QED
        BY <2>3, <2>5, <4>2, <4>3
    <3>2. l <= (m - 1) + 1 /\ (m - 1) - l + 1 <= n - (k + 1)
      BY <1>0, <1>2, <2>2
    <3>3. K([low |-> l, high |-> m - 1, idx |-> e])
      BY <1>2, <1>3, <3>1, <3>2
    <3>4. QED
      BY <2>2, <2>5, <3>3 DEF K
  <2>6. QED
    BY <2>4, <2>5
<1>6. QED
  BY <1>4, <1>5

(* The search ends behind the last change that is not after time.          *)
LEMMA SearchIs ==
  ASSUME NEW trans \in Seq(Int), NEW time \in Int,
         \A i, j \in 1 .. Len(trans) : i < j => trans[i] <= trans[j]
  PROVE  \E low \in 0 .. Len(trans) :
           /\ Search(trans, time) = low - 1
           /\ \A i \in 1 .. low : trans[i] <= time
           /\ \A i \in low + 1 .. Len(trans) : trans[i] > time
<1>1. PICK n \in Nat : n = Len(trans) /\ trans \in [1 .. n -> Int]
  <2>1. Len(trans) \in Nat /\ trans \in [1 .. Len(trans) -> Int]
    OBVIOUS
  <2>2. QED
    BY <2>1
<1> DEFINE first == [low |-> 0, high |-> n - 1, idx |-> -1]
           Is(f) == f = [k \in 0 .. n |-> IF k = 0 THEN first
                                          ELSE SearchTurn(trans, time, f[k - 1])]
           X == SearchStates(n)
<1>2. first \in X
  BY DEF SearchStates
<1>3. \A x \in X : SearchTurn(trans, time, x) \in X
  BY <1>1, SearchTurnIn
<1>4. Narrowed(trans, time, first, 0)
  <2>1. \A i \in 1 .. 0 : trans[i] <= time
    OBVIOUS
  <2>2. \A i \in (n - 1) + 2 .. n : trans[i] > time
    OBVIOUS
  <2>3. 0 <= (n - 1) + 1 /\ -1 = 0 - 1 /\ (n - 1) - 0 + 1 <= n - 0
    OBVIOUS
  <2>4. QED
    BY <1>1, <2>1, <2>2, <2>3 DEF Narrowed
<1> HIDE DEF first, X
<1>5. PICK Step : /\ StepsIn(Step, X, n)
                  /\ \A k \in 1 .. n, x \in X : Step[k][x] = SearchTurn(trans, time, x)
  <2> DEFINE S == [k \in 1 .. n |-> [x \in X |-> SearchTurn(trans, time, x)]]
  <2>1. S \in [1 .. n -> [X -> X]]
    BY <1>3
  <2>2. \A k \in 1 .. n, x \in X : S[k][x] = SearchTurn(trans, time, x)
    OBVIOUS
  <2> HIDE DEF S
  <2>3. QED
    BY <2>1, <2>2 DEF StepsIn
<1>6. PICK f : RunOf(f, Step, first, X, n)
  BY <1>2, <1>5, StepsDefine
<1>7. Is(f)
  <2>1. \A k \in 0 .. n : f[k] = IF k = 0 THEN first ELSE SearchTurn(trans, time, f[k - 1])
    <3>1. TAKE k \in 0 .. n
    <3>2. CASE k = 0
      BY <1>6, <3>2 DEF RunOf
    <3>3. CASE k # 0
      <4>1. k \in 1 .. n /\ k - 1 \in 0 .. n
        BY <3>3
      <4>2. f[k - 1] \in X /\ f[k] = Step[k][f[k - 1]]
        BY <1>6, <4>1 DEF RunOf
      <4>3. QED
        BY <1>5, <3>3, <4>1, <4>2
    <3>4. QED
      BY <3>2, <3>3
  <2>2. QED
    BY <1>6, <2>1 DEF RunOf
<1> DEFINE after == CHOOSE g : Is(g)
<1>8. Search(trans, time) = after[n].idx
  BY <1>1 DEF Search, first
<1>9. Is(after)
  BY <1>7
<1> HIDE DEF after
<1>10. /\ after[0] = first
       /\ \A k \in 1 .. n : after[k] = SearchTurn(trans, time, after[k - 1])
  <2>1. 0 \in 0 .. n /\ \A k \in 1 .. n : k \in 0 .. n /\ k # 0
    OBVIOUS
  <2>2. QED
    BY <1>9, <2>1
<1> DEFINE S == {k \in 0 .. n : after[k] \in X /\ Narrowed(trans, time, after[k], k)}
<1>11. 0 \in S
  BY <1>2, <1>4, <1>10
<1>12. \A k \in 1 .. n : k - 1 \in S => k \in S
  <2>1. SUFFICES ASSUME NEW k \in 1 .. n, k - 1 \in S PROVE k \in S
    OBVIOUS
  <2>2. PICK x \in X : x = after[k - 1] /\ Narrowed(trans, time, x, k - 1)
    BY <2>1
  <2>3. after[k] = SearchTurn(trans, time, x)
    BY <1>10, <2>2
  <2>4. k - 1 \in Nat /\ k - 1 < Len(trans) /\ (k - 1) + 1 = k /\ x \in SearchStates(Len(trans))
    BY <1>1, <2>2 DEF X
  <2>5. Narrowed(trans, time, SearchTurn(trans, time, x), k)
    <3>1. Narrowed(trans, time, SearchTurn(trans, time, x), (k - 1) + 1)
      BY <2>2, <2>4, SearchTurnKeeps
    <3>2. QED
      BY <2>4, <3>1
  <2>6. QED
    BY <1>3, <2>3, <2>5
<1>13. n \in S
  <2>1. S \subseteq 0 .. n
    OBVIOUS
  <2> HIDE DEF S
  <2>2. \A k \in 0 .. n : k \in S
    BY <1>11, <1>12, <2>1, UpTo
  <2>3. QED
    BY <2>2
<1>14. PICK x \in X : x = after[n] /\ Narrowed(trans, time, x, n)
  BY <1>13
<1>15. PICK low \in 0 .. n, high \in -1 .. n - 1 : low = x.low /\ high = x.high
  BY DEF X, SearchStates
<1>16. /\ low <= high + 1 /\ high - low + 1 <= n - n
       /\ x.idx = low - 1
       /\ \A i \in 1 .. low : trans[i] <= time
       /\ \A i \in high + 2 .. n : trans[i] > time
  BY <1>1, <1>14, <1>15 DEF Narrowed
<1>17. high + 1 = low
  BY <1>16
<1>18. \A i \in low + 1 .. n : trans[i] > time
  BY <1>16, <1>17
<1>19. QED
  BY <1>1, <1>8, <1>14, <1>16, <1>18

-----------------------------------------------------------------------------
\* A change of such a zone names a type it has.
LEMMA NamesIts ==
  ASSUME NEW db, IsZone(db), NEW i \in 1 .. Len(db.trans)
  PROVE  db.idxs[i] + 1 \in DOMAIN db.types
<1>1. db.idxs \in [1 .. Len(db.trans) -> 0 .. Len(db.types) - 1]
  BY DEF IsZone
<1>2. PICK m \in Nat : m = Len(db.types) /\ DOMAIN db.types = 1 .. m
  <2>1. Len(db.types) \in Nat /\ DOMAIN db.types = 1 .. Len(db.types)
    BY DEF IsZone
  <2>2. QED
    BY <2>1
<1>3. PICK idx \in 0 .. m - 1 : idx = db.idxs[i]
  BY <1>1, <1>2
<1>4. idx + 1 \in 1 .. m
  BY <1>2, <1>3
<1>5. QED
  BY <1>2, <1>3, <1>4

(* The type an instant has is that of the last change not after it, or the *)
(* first standard type, for every zone: tz_lookup's search and its rule    *)
(* for what is before the first change (parser.c:235-285).                 *)
THEOREM LookupIsInForce ==
  ASSUME NEW db, IsZone(db), db # NoZone, NEW time \in Int
  PROVE  tz_lookup(db, time) = InForce(db, time)
<1>1. PICK n \in Nat : n = Len(db.trans) /\ DOMAIN db.trans = 1 .. n
                       /\ \A i \in 1 .. n : db.trans[i] \in Int
  <2>1. Len(db.trans) \in Nat /\ DOMAIN db.trans = 1 .. Len(db.trans)
        /\ \A i \in 1 .. Len(db.trans) : db.trans[i] \in Int
    BY DEF IsZone
  <2>2. QED
    BY <2>1
<1> DEFINE past == {i \in DOMAIN db.trans : db.trans[i] <= time}
           standard == {i \in DOMAIN db.types : db.types[i].isdst = 0}
           Before == IF standard = {} THEN db.types[1] ELSE db.types[Min(standard)]
<1>2. InForce(db, time) = IF past # {} THEN TypeOfChange(db, Max(past)) ELSE Before
  BY DEF InForce
<1>3. TypeFrom(db, -1) = Before
  BY DEF TypeFrom, Min
<1>4. \A k \in Nat : TypeFrom(db, k) = db.types[db.idxs[k + 1] + 1]
  BY DEF TypeFrom
<1> HIDE DEF Before
<1>5. CASE n = 0 \/ time < db.trans[1]
  <2>1. past = {}
    <3>1. SUFFICES ASSUME NEW i \in 1 .. n, db.trans[i] <= time PROVE FALSE
      BY <1>1
    <3>2. n # 0 /\ 1 \in 1 .. n
      BY <3>1
    <3>3. i = 1 \/ 1 < i
      BY <3>1
    <3>4. db.trans[1] <= db.trans[i]
      BY <1>1, <3>2, <3>3 DEF IsZone
    <3>5. QED
      BY <1>1, <1>5, <3>1, <3>2, <3>4
  <2>2. tz_lookup(db, time) = TypeFrom(db, -1)
    BY <1>1, <1>5 DEF tz_lookup, LastChange
  <2>3. QED
    BY <1>2, <1>3, <2>1, <2>2
<1>6. CASE ~(n = 0 \/ time < db.trans[1])
  <2>1. PICK low \in 0 .. n : /\ Search(db.trans, time) = low - 1
                              /\ \A i \in 1 .. low : db.trans[i] <= time
                              /\ \A i \in low + 1 .. n : db.trans[i] > time
    BY <1>1, SearchIs DEF IsZone
  <2>2. low \in 1 .. n
    <3>1. 1 \in 1 .. n /\ db.trans[1] <= time /\ db.trans[1] \in Int
      BY <1>1, <1>6
    <3>2. QED
      BY <2>1, <3>1
  <2>3. past = 1 .. low
    <3>1. \A i \in 1 .. n : db.trans[i] <= time <=> i <= low
      BY <1>1, <2>1
    <3>2. QED
      BY <1>1, <2>2, <3>1
  <2>4. Max(past) = low
    <3>1. \A x \in 1 .. low : (\A y \in 1 .. low : x >= y) => x = low
      BY <2>2
    <3>2. low \in 1 .. low /\ \A y \in 1 .. low : low >= y
      BY <2>2
    <3>3. QED
      BY <2>3, <3>1, <3>2 DEF Max
  <2>5. tz_lookup(db, time) = TypeFrom(db, low - 1)
    BY <1>1, <1>6, <2>1 DEF tz_lookup, LastChange
  <2>6. TypeFrom(db, low - 1) = db.types[db.idxs[low] + 1]
    <3>1. low - 1 \in Nat /\ (low - 1) + 1 = low
      BY <2>2
    <3>2. QED
      BY <1>4, <3>1
  <2>7. past # {}
    BY <2>2, <2>3
  <2>8. TypeOfChange(db, low) = db.types[db.idxs[low] + 1]
    <3>1. db.idxs[low] + 1 \in DOMAIN db.types
      BY <1>1, <2>2, NamesIts
    <3>2. QED
      BY <3>1 DEF TypeOfChange
  <2>9. QED
    BY <1>2, <2>4, <2>5, <2>6, <2>7, <2>8
<1>7. QED
  BY <1>5, <1>6

\* In a zone that names only types it has, the lookup never fails.
LEMMA FoundIs ==
  ASSUME NEW db, IsZone(db), NEW time \in Int
  PROVE  Found(db, time)
<1>1. PICK n \in Nat : n = Len(db.trans) /\ DOMAIN db.trans = 1 .. n
                       /\ \A i \in 1 .. n : db.trans[i] \in Int
  <2>1. Len(db.trans) \in Nat /\ DOMAIN db.trans = 1 .. Len(db.trans)
        /\ \A i \in 1 .. Len(db.trans) : db.trans[i] \in Int
    BY DEF IsZone
  <2>2. QED
    BY <2>1
<1>2. LastChange(db, time) = -1 \/ LastChange(db, time) \in 0 .. n - 1
  <2>1. CASE n = 0 \/ time < db.trans[1]
    BY <1>1, <2>1 DEF LastChange
  <2>2. CASE ~(n = 0 \/ time < db.trans[1])
    <3>1. PICK low \in 0 .. n : Search(db.trans, time) = low - 1
      BY <1>1, SearchIs DEF IsZone
    <3>2. LastChange(db, time) = low - 1
      BY <1>1, <2>2, <3>1 DEF LastChange
    <3>3. QED
      BY <3>2
  <2>3. QED
    BY <2>1, <2>2
<1>3. \A k \in 0 .. n - 1 : db.idxs[k + 1] + 1 \in DOMAIN db.types
  <2>1. TAKE k \in 0 .. n - 1
  <2>2. k + 1 \in 1 .. Len(db.trans)
    BY <1>1
  <2>3. QED
    BY <2>2, NamesIts
<1>4. PICK idx : idx = LastChange(db, time)
  OBVIOUS
<1>5. idx # -1 => db.idxs[idx + 1] + 1 \in DOMAIN db.types
  BY <1>2, <1>3, <1>4
<1>6. QED
  BY <1>4, <1>5 DEF Found

\* No offset is more than w, and changes are 2 * w apart.
Calm(db, w) ==
  /\ \A i \in 1 .. Len(db.types) : db.types[i].gmtoff \in -w .. w
  /\ \A i, j \in 1 .. Len(db.trans) : i < j => db.trans[i] + 2 * w <= db.trans[j]

LEMMA OffsetIs ==
  ASSUME NEW db, IsZone(db), db # NoZone, NEW w \in Nat, Calm(db, w), NEW time \in Int
  PROVE  InForce(db, time).gmtoff \in -w .. w
<1>1. PICK n \in Nat : n = Len(db.trans) /\ DOMAIN db.trans = 1 .. n
                       /\ \A i \in 1 .. n : db.trans[i] \in Int
  <2>1. Len(db.trans) \in Nat /\ DOMAIN db.trans = 1 .. Len(db.trans)
        /\ \A i \in 1 .. Len(db.trans) : db.trans[i] \in Int
    BY DEF IsZone
  <2>2. QED
    BY <2>1
<1>2. PICK m \in Nat \ {0} : m = Len(db.types) /\ DOMAIN db.types = 1 .. m
  <2>1. Len(db.types) \in Nat /\ DOMAIN db.types = 1 .. Len(db.types) /\ Len(db.types) # 0
    BY DEF IsZone
  <2>2. QED
    BY <2>1
<1>3. PICK i \in 1 .. m : tz_lookup(db, time) = db.types[i]
  <2>1. \A k \in 0 .. n - 1 : TypeFrom(db, k) = db.types[db.idxs[k + 1] + 1]
                              /\ db.idxs[k + 1] + 1 \in 1 .. m
    <3>1. TAKE k \in 0 .. n - 1
    <3>2. k + 1 \in 1 .. n /\ k # -1
      OBVIOUS
    <3>3. db.idxs[k + 1] \in 0 .. m - 1
      BY <1>1, <1>2, <3>2 DEF IsZone
    <3>4. QED
      BY <3>2, <3>3 DEF TypeFrom
  <2>2. \E i \in 1 .. m : TypeFrom(db, -1) = db.types[i]
    <3> DEFINE standard == {i \in DOMAIN db.types : db.types[i].isdst = 0}
               least == CHOOSE i \in standard : \A j \in standard : i <= j
    <3>1. TypeFrom(db, -1) = IF standard = {} THEN db.types[1] ELSE db.types[least]
      BY DEF TypeFrom
    <3>2. standard \subseteq 1 .. m
      BY <1>2
    <3>3. standard # {} => least \in 1 .. m
      <4> HIDE DEF standard
      <4>1. standard \subseteq Nat
        BY <3>2
      <4>2. QED
        BY <3>2, <4>1, LeastNat
    <3> HIDE DEF standard, least
    <3>4. 1 \in 1 .. m
      BY <1>2
    <3>5. CASE standard = {}
      BY <3>1, <3>4, <3>5
    <3>6. CASE standard # {}
      BY <3>1, <3>3, <3>6
    <3>7. QED
      BY <3>5, <3>6
  <2>3. \/ tz_lookup(db, time) = TypeFrom(db, -1)
        \/ \E k \in 0 .. n - 1 : tz_lookup(db, time) = TypeFrom(db, k)
    <3>1. CASE n = 0 \/ time < db.trans[1]
      BY <1>1, <3>1 DEF tz_lookup, LastChange
    <3>2. CASE ~(n = 0 \/ time < db.trans[1])
      <4>1. PICK low \in 0 .. n : Search(db.trans, time) = low - 1
        BY <1>1, SearchIs DEF IsZone
      <4>2. tz_lookup(db, time) = TypeFrom(db, low - 1)
        BY <1>1, <3>2, <4>1 DEF tz_lookup, LastChange
      <4>3. low - 1 = -1 \/ low - 1 \in 0 .. n - 1
        OBVIOUS
      <4>4. QED
        BY <4>2, <4>3
    <3>3. QED
      BY <3>1, <3>2
  <2>4. QED
    BY <2>1, <2>2, <2>3
<1>4. QED
  BY <1>2, <1>3, LookupIsInForce DEF Calm

LEMMA SameType ==
  ASSUME NEW db, NEW x, NEW y, Past(db, x) = Past(db, y), DOMAIN db.trans = 1 .. Len(db.trans)
  PROVE  InForce(db, x) = InForce(db, y)
BY DEF InForce, Past

\* In a window of 2 * w there is one change at most.
LEMMA OneChange ==
  ASSUME NEW db, IsZone(db), db # NoZone, NEW w \in Nat, Calm(db, w), NEW local \in Int
  PROVE  \E at \in Int, a \in -w .. w, b \in -w .. w :
           \A x \in local - w .. local + w :
             InForce(db, x).gmtoff = IF x < at THEN a ELSE b
<1>1. PICK n \in Nat : n = Len(db.trans) /\ DOMAIN db.trans = 1 .. n
                       /\ \A i \in 1 .. n : db.trans[i] \in Int
  <2>1. Len(db.trans) \in Nat /\ DOMAIN db.trans = 1 .. Len(db.trans)
        /\ \A i \in 1 .. Len(db.trans) : db.trans[i] \in Int
    BY DEF IsZone
  <2>2. QED
    BY <2>1
<1> DEFINE Off(x) == InForce(db, x).gmtoff
<1>2. \A x \in Int : Off(x) \in -w .. w
  BY OffsetIs
<1>3. \A x, y \in Int : (\A i \in 1 .. n : db.trans[i] <= x <=> db.trans[i] <= y) => Off(x) = Off(y)
  <2>1. TAKE x, y \in Int
  <2>2. HAVE \A i \in 1 .. n : db.trans[i] <= x <=> db.trans[i] <= y
  <2>3. Past(db, x) = Past(db, y)
    BY <1>1, <2>2 DEF Past
  <2>4. QED
    BY <1>1, <2>3, SameType
<1> HIDE DEF Off
<1>4. CASE \E i \in 1 .. n : local - w < db.trans[i] /\ db.trans[i] <= local + w
  <2>1. PICK i \in 1 .. n : local - w < db.trans[i] /\ db.trans[i] <= local + w
    BY <1>4
  <2>2. PICK at \in Int : at = db.trans[i]
    BY <1>1
  <2>3. ASSUME NEW j \in 1 .. n, j # i
        PROVE  db.trans[j] <= local - w \/ local + w < db.trans[j]
    <3>1. CASE j < i
      <4>1. db.trans[j] + 2 * w <= at /\ db.trans[j] \in Int
        BY <1>1, <2>2, <3>1 DEF Calm
      <4>2. QED
        BY <2>1, <2>2, <4>1
    <3>2. CASE i < j
      <4>1. at + 2 * w <= db.trans[j] /\ db.trans[j] \in Int
        BY <1>1, <2>2, <3>2 DEF Calm
      <4>2. QED
        BY <2>1, <2>2, <4>1
    <3>3. j < i \/ i < j
      BY <2>3
    <3>4. QED
      BY <3>1, <3>2, <3>3, Zenon
  <2>4. \A x, y \in local - w .. local + w : (x < at <=> y < at) => Off(x) = Off(y)
    <3>1. TAKE x, y \in local - w .. local + w
    <3>2. HAVE x < at <=> y < at
    <3>3. ASSUME NEW j \in 1 .. n PROVE db.trans[j] <= x <=> db.trans[j] <= y
      <4>1. db.trans[j] \in Int
        BY <1>1
      <4>2. CASE j = i
        BY <2>2, <3>2, <4>2
      <4>3. CASE j # i
        BY <2>3, <4>1, <4>3
      <4>4. QED
        BY <4>2, <4>3
    <3>4. x \in Int /\ y \in Int
      OBVIOUS
    <3>5. QED
      BY <1>3, <3>3, <3>4
  <2>5. Off(local - w) \in -w .. w /\ Off(local + w) \in -w .. w
    BY <1>2
  <2>6. \A x \in local - w .. local + w :
          Off(x) = IF x < at THEN Off(local - w) ELSE Off(local + w)
    <3>1. TAKE x \in local - w .. local + w
    <3>2. local - w \in local - w .. local + w /\ local + w \in local - w .. local + w
      OBVIOUS
    <3>3. CASE x < at
      <4>1. local - w < at
        BY <2>1, <2>2
      <4>2. QED
        BY <2>4, <3>2, <3>3, <4>1
    <3>4. CASE ~(x < at)
      <4>1. ~(local + w < at)
        BY <2>1, <2>2
      <4>2. QED
        BY <2>4, <3>2, <3>4, <4>1
    <3>5. QED
      BY <3>3, <3>4
  <2>7. QED
    BY <2>5, <2>6 DEF Off
<1>5. CASE ~ \E i \in 1 .. n : local - w < db.trans[i] /\ db.trans[i] <= local + w
  <2>1. \A x \in local - w .. local + w : Off(x) = Off(local)
    <3>1. TAKE x \in local - w .. local + w
    <3>2. ASSUME NEW j \in 1 .. n PROVE db.trans[j] <= x <=> db.trans[j] <= local
      <4>1. db.trans[j] \in Int /\ (db.trans[j] <= local - w \/ local + w < db.trans[j])
        BY <1>1, <1>5
      <4>2. QED
        BY <4>1
    <3>3. QED
      BY <1>3, <3>2
  <2>2. PICK a \in -w .. w : a = Off(local)
    BY <1>2
  <2>3. \A x \in local - w .. local + w : Off(x) = IF x < local THEN a ELSE a
    BY <2>1, <2>2
  <2>4. QED
    BY <2>3 DEF Off
<1>6. QED
  BY <1>4, <1>5

(* mktime looks the offset up twice, and that is enough at every change of *)
(* every calm zone: when there is an instant at which the clock shows the  *)
(* local time, it finds one (mktime.c:61-75).                              *)
THEOREM TwoLookupsAreEnough ==
  ASSUME NEW z, IsZone(z.db), z.db # NoZone, NEW w \in Nat, Calm(z.db, w),
         NEW local \in Int, NEW t \in Int, Clock(z.db, t) = local
  PROVE  \A found \in InstantsOf(z, local) : Clock(z.db, found) = local
<1> DEFINE Off(x) == InForce(z.db, x).gmtoff
<1>1. \A x \in Int : Off(x) \in -w .. w
  BY OffsetIs
<1>2. PICK at \in Int, a \in -w .. w, b \in -w .. w :
        \A x \in local - w .. local + w : Off(x) = IF x < at THEN a ELSE b
  BY OneChange
<1>3. \A x \in Int : Looked(z, x).gmtoff = Off(x)
  <2>1. TAKE x \in Int
  <2>2. Looked(z, x) = OfType(z, InForce(z.db, x))
    BY LookupIsInForce, FoundIs DEF Looked
  <2>3. QED
    BY <2>2 DEF OfType, Zoned
<1>4. t + Off(t) = local
  BY DEF Clock
<1> HIDE DEF Off
<1>5. PICK o1 \in -w .. w : o1 = Off(local)
  BY <1>1
<1>6. PICK o2 \in -w .. w : o2 = Off(local - o1)
  <2>1. local - o1 \in Int
    OBVIOUS
  <2>2. QED
    BY <1>1, <2>1
<1>7. InstantsOf(z, local) = {local - o2}
  <2>1. local - o1 \in Int
    OBVIOUS
  <2>2. Looked(z, local).gmtoff = o1 /\ Looked(z, local - o1).gmtoff = o2
    BY <1>3, <1>5, <1>6, <2>1
  <2>3. SecondOffsets(z, local - o1) = {o2}
    BY <2>1, <2>2, FoundIs DEF SecondOffsets
  <2>4. QED
    BY <2>2, <2>3 DEF InstantsOf
<1>8. PICK o3 \in -w .. w : o3 = Off(t) /\ t = local - o3
  <2>1. Off(t) \in -w .. w
    BY <1>1
  <2>2. QED
    BY <1>4, <2>1
<1>9. \A o \in -w .. w : Off(local - o) = IF local - o < at THEN a ELSE b
  <2>1. TAKE o \in -w .. w
  <2>2. local - o \in local - w .. local + w
    OBVIOUS
  <2>3. QED
    BY <1>2, <2>2
<1>10. o1 = IF local < at THEN a ELSE b
  <2>1. local \in local - w .. local + w
    OBVIOUS
  <2>2. QED
    BY <1>2, <1>5, <2>1
<1>11. o2 = IF local - o1 < at THEN a ELSE b
  BY <1>6, <1>9
<1>12. o3 = IF local - o3 < at THEN a ELSE b
  BY <1>8, <1>9
<1>13. o2 = IF local - o2 < at THEN a ELSE b
  BY <1>10, <1>11, <1>12
<1>14. Off(local - o2) = o2
  BY <1>9, <1>13
<1>15. QED
  <2>1. (local - o2) + o2 = local
    OBVIOUS
  <2>2. QED
    BY <1>7, <1>14, <2>1 DEF Clock, Off

-----------------------------------------------------------------------------
(* Calendar time.                                                          *)

LEMMA UnitsAre == Minute \in Nat \ {0} /\ Hour \in Nat \ {0} /\ Day \in Nat \ {0}
<1>1. Minute \in Nat \ {0} /\ Hour \in {n * Minute : n \in 1 .. Hour}
      /\ Day \in {n * Hour : n \in 1 .. Day}
  BY CalendarAssumption
<1>2. PICK h \in 1 .. Hour : Hour = h * Minute
  BY <1>1
<1>3. Hour \in Nat \ {0}
  BY <1>1, <1>2
<1>4. PICK d \in 1 .. Day : Day = d * Hour
  BY <1>1
<1>5. QED
  BY <1>1, <1>3, <1>4

LEMMA FloorIs ==
  ASSUME NEW n \in Int, NEW m \in Nat \ {0}
  PROVE  \E q \in Int, r \in 0 .. m - 1 : q = n \div m /\ r = n % m /\ n = q * m + r
<1>1. PICK q \in Int : q = n \div m
  OBVIOUS
<1>2. PICK r \in 0 .. m - 1 : r = n % m
  OBVIOUS
<1>3. n = q * m + r
  BY <1>1, <1>2
<1>4. QED
  BY <1>1, <1>2, <1>3

LEMMA FloorOnly ==
  ASSUME NEW m \in Nat \ {0}, NEW p \in Int, NEW s \in 0 .. m - 1,
         NEW q \in Int, NEW r \in 0 .. m - 1, p * m + s = q * m + r
  PROVE  p = q /\ r = s
<1>1. ASSUME NEW a \in Int, NEW b \in Int, NEW u \in 0 .. m - 1, NEW v \in 0 .. m - 1,
             a < b, a * m + u = b * m + v
      PROVE  FALSE
  <2>1. PICK t \in Nat : b = a + 1 + t
    <3>1. b - a - 1 \in Nat /\ b = a + 1 + (b - a - 1)
      BY <1>1
    <3>2. QED
      BY <3>1
  <2>2. t * m \in Nat /\ a * m \in Int /\ b * m \in Int
    OBVIOUS
  <2>3. b * m = a * m + m + t * m
    BY <2>1
  <2>4. QED
    BY <1>1, <2>2, <2>3
<1>2. ~(p < q) /\ ~(q < p)
  BY <1>1
<1>3. p = q /\ p * m \in Int
  BY <1>2
<1>4. QED
  BY <1>3

\* Days and what is left are rounded down.
LEMMA DayIs ==
  ASSUME NEW time \in Int
  PROVE  /\ DayOf(time) \in Int /\ SecondOf(time) \in 0 .. Day - 1
         /\ time = DayOf(time) * Day + SecondOf(time)
<1>1. Day \in Nat \ {0}
  BY UnitsAre
<1>2. PICK d \in Nat \ {0} : d = Day
  BY <1>1
<1>3. PICK q \in Int, r \in 0 .. d - 1 :
        /\ q = (IF time < 0 THEN -time ELSE time) \div d
        /\ (IF time < 0 THEN -time ELSE time) = q * d + r
  <2>1. (IF time < 0 THEN -time ELSE time) \in Int
    OBVIOUS
  <2>2. QED
    BY <2>1, FloorIs
<1>4. q * d \in Int
  OBVIOUS
<1>5. CASE time < 0
  <2>1. Quot(time, d) = -q
    BY <1>3, <1>5 DEF Quot
  <2>2. d * (-q) = -(q * d)
    OBVIOUS
  <2>3. Rem(time, d) = -r
    BY <1>3, <1>4, <1>5, <2>1, <2>2 DEF Rem
  <2>4. CASE r <= 0
    <3>1. ~(Rem(time, d) < 0)
      BY <2>3, <2>4
    <3>2. DayOf(time) = -q /\ SecondOf(time) = -r
      BY <1>2, <2>1, <2>3, <3>1 DEF DayOf, SecondOf
    <3>3. (-q) * d = -(q * d)
      OBVIOUS
    <3>4. QED
      BY <1>2, <1>3, <1>4, <1>5, <2>4, <3>2, <3>3
  <2>5. CASE ~(r <= 0)
    <3>1. DayOf(time) = -q - 1 /\ SecondOf(time) = d - r
      BY <1>2, <2>1, <2>3, <2>5 DEF DayOf, SecondOf
    <3>2. (-q - 1) * d = -(q * d) - d
      OBVIOUS
    <3>3. QED
      BY <1>2, <1>3, <1>4, <1>5, <2>5, <3>1, <3>2
  <2>6. QED
    BY <2>4, <2>5
<1>6. CASE ~(time < 0)
  <2>1. Quot(time, d) = q
    BY <1>3, <1>6 DEF Quot
  <2>2. d * q = q * d
    OBVIOUS
  <2>3. Rem(time, d) = r
    BY <1>3, <1>4, <1>6, <2>1, <2>2 DEF Rem
  <2>4. DayOf(time) = q /\ SecondOf(time) = r
    BY <1>2, <2>1, <2>3 DEF DayOf, SecondOf
  <2>5. QED
    BY <1>2, <1>3, <1>6, <2>4
<1>7. QED
  BY <1>5, <1>6

\* The hour, the minute and the second of a day's second.
LEMMA ClockIs ==
  ASSUME NEW secs \in 0 .. Day - 1
  PROVE  /\ secs \div Hour \in 0 .. (Day \div Hour) - 1
         /\ (secs % Hour) \div Minute \in 0 .. (Hour \div Minute) - 1
         /\ (secs % Hour) % Minute \in 0 .. Minute - 1
         /\ secs = (secs \div Hour) * Hour + ((secs % Hour) \div Minute) * Minute
                     + ((secs % Hour) % Minute)
<1>1. ASSUME NEW c \in Nat \ {0}, NEW n \in Nat \ {0}, NEW x \in 0 .. n * c - 1
      PROVE  /\ x \div c \in 0 .. (n * c) \div c - 1
             /\ x % c \in 0 .. c - 1
             /\ x = (x \div c) * c + (x % c)
  <2>1. PICK q \in Int, r \in 0 .. c - 1 : q = x \div c /\ r = x % c /\ x = q * c + r
    <3>1. n * c \in Int
      OBVIOUS
    <3>2. x \in Int
      BY <3>1
    <3>3. QED
      BY <3>2, FloorIs
  <2>2. PICK p \in Int, s \in 0 .. c - 1 : p = (n * c) \div c /\ n * c = p * c + s
    <3>1. n * c \in Int
      OBVIOUS
    <3>2. QED
      BY <3>1, FloorIs
  <2>3. p = n
    <3>1. p * c + s = n * c + 0 /\ 0 \in 0 .. c - 1 /\ n \in Int
      BY <2>2
    <3>2. QED
      BY <3>1, FloorOnly
  <2>4. q >= 0
    <3>1. SUFFICES ASSUME ~(q >= 0) PROVE FALSE
      OBVIOUS
    <3>2. PICK t \in Nat : q = -1 - t
      <4>1. -1 - q \in Nat /\ q = -1 - (-1 - q)
        BY <3>1
      <4>2. QED
        BY <4>1
    <3>3. q * c = -c - t * c /\ t * c \in Nat
      BY <3>2
    <3>4. n * c \in Int
      OBVIOUS
    <3>5. QED
      BY <2>1, <3>3, <3>4
  <2>5. q < n
    <3>1. SUFFICES ASSUME ~(q < n) PROVE FALSE
      OBVIOUS
    <3>2. PICK t \in Nat : q = n + t
      <4>1. q - n \in Nat /\ q = n + (q - n)
        BY <3>1
      <4>2. QED
        BY <4>1
    <3>3. q * c = n * c + t * c /\ t * c \in Nat /\ n * c \in Int
      BY <3>2
    <3>4. QED
      BY <2>1, <3>3
  <2>6. (n * c) \div c = n /\ q \in 0 .. n - 1
    BY <2>1, <2>2, <2>3, <2>4, <2>5
  <2>7. q \in 0 .. (n * c) \div c - 1
    BY <2>6, Zenon
  <2>8. QED
    BY <2>1, <2>7, Zenon
<1>2. Minute \in Nat \ {0} /\ Hour \in {n * Minute : n \in 1 .. Hour}
      /\ Day \in {n * Hour : n \in 1 .. Day}
  BY CalendarAssumption
<1>3. PICK h \in Nat \ {0} : Hour = h * Minute
  BY <1>2
<1>4. PICK d \in Nat \ {0} : Day = d * Hour
  BY <1>2
<1>5. Hour \in Nat \ {0}
  BY <1>2, <1>3
<1>6. /\ secs \div Hour \in 0 .. (Day \div Hour) - 1
      /\ secs % Hour \in 0 .. Hour - 1
      /\ secs = (secs \div Hour) * Hour + (secs % Hour)
  <2>1. secs \in 0 .. d * Hour - 1
    BY <1>4
  <2>2. QED
    BY <1>1, <1>4, <1>5, <2>1
<1>7. PICK left \in 0 .. Hour - 1 : left = secs % Hour
  BY <1>6
<1>8. /\ left \div Minute \in 0 .. (Hour \div Minute) - 1
      /\ left % Minute \in 0 .. Minute - 1
      /\ left = (left \div Minute) * Minute + (left % Minute)
  <2>1. left \in 0 .. h * Minute - 1
    BY <1>3
  <2>2. QED
    BY <1>1, <1>2, <1>3, <2>1
<1>9. PICK a \in Int, b \in Int, c \in 0 .. Minute - 1 :
        /\ a = (secs \div Hour) * Hour
        /\ b = (left \div Minute) * Minute
        /\ c = left % Minute
  BY <1>2, <1>5, <1>6, <1>8
<1>10. secs = a + left /\ left = b + c
  BY <1>6, <1>7, <1>8, <1>9, Zenon
<1>11. c \in Int
  BY <1>2, <1>9
<1>12. secs = a + b + c
  BY <1>9, <1>10, <1>11
<1>13. QED
  BY <1>6, <1>7, <1>8, <1>9, <1>12, Zenon

LEMMA LengthIs ==
  ASSUME NEW y \in Int
  PROVE  YearLength(y) = (IF is_leap(y) THEN 366 ELSE 365) /\ YearLength(y) \in {365, 366}
<1>1. YearLength(y) = IF is_leap(y) THEN 366 ELSE 365
  BY Zenon DEF YearLength
<1>2. CASE is_leap(y)
  BY <1>1, <1>2, Zenon
<1>3. CASE ~is_leap(y)
  BY <1>1, <1>3, Zenon
<1>4. QED
  BY <1>2, <1>3

LeapYears(from, to) == {y \in from .. to : is_leap(y)}

LEMMA LeapYearsCount ==
  ASSUME NEW a \in Int, NEW b \in Int
  PROVE  /\ IsFiniteSet(LeapYears(a, b)) /\ Cardinality(LeapYears(a, b)) \in Nat
         /\ b < a => Cardinality(LeapYears(a, b)) = 0
<1>1. IsFiniteSet(a .. b)
  BY FS_Interval
<1>2. LeapYears(a, b) \subseteq a .. b
  BY DEF LeapYears
<1>3. IsFiniteSet(LeapYears(a, b))
  BY <1>1, <1>2, FS_Subset
<1>4. b < a => LeapYears(a, b) = {}
  BY DEF LeapYears
<1>5. QED
  BY <1>3, <1>4, FS_CardinalityType, FS_EmptySet

LEMMA LeapYearsMore ==
  ASSUME NEW a \in Int, NEW b \in Int, NEW c \in Int, NEW d \in Int, NEW y \in Int,
         \A x \in Int : x \in c .. d <=> x \in a .. b \/ x = y,
         ~(y \in a .. b)
  PROVE  Cardinality(LeapYears(c, d))
           = Cardinality(LeapYears(a, b)) + IF is_leap(y) THEN 1 ELSE 0
<1>1. IsFiniteSet(LeapYears(a, b)) /\ Cardinality(LeapYears(a, b)) \in Nat
  BY LeapYearsCount
<1>2. y \notin LeapYears(a, b)
  BY DEF LeapYears
<1>3. \A x \in Int : x \in LeapYears(c, d) <=> (x \in a .. b \/ x = y) /\ is_leap(x)
  BY DEF LeapYears
<1>4. LeapYears(c, d) = LeapYears(a, b) \cup (IF is_leap(y) THEN {y} ELSE {})
  <2>1. \A x : x \in LeapYears(c, d) => x \in Int
    BY DEF LeapYears
  <2>2. \A x : x \in LeapYears(a, b) <=> x \in Int /\ x \in a .. b /\ is_leap(x)
    BY DEF LeapYears
  <2>3. QED
    BY <1>3, <2>1, <2>2
<1>5. CASE is_leap(y)
  <2>1. LeapYears(c, d) = LeapYears(a, b) \cup {y}
    BY <1>4, <1>5
  <2>2. Cardinality(LeapYears(c, d)) = Cardinality(LeapYears(a, b)) + 1
    BY <1>1, <1>2, <2>1, FS_AddElement
  <2>3. QED
    BY <1>5, <2>2
<1>6. CASE ~is_leap(y)
  <2>1. LeapYears(c, d) = LeapYears(a, b)
    BY <1>4, <1>6
  <2>2. QED
    BY <1>1, <1>6, <2>1
<1>7. QED
  BY <1>5, <1>6

LEMMA FirstDayIs ==
  ASSUME NEW y \in Int
  PROVE  /\ FirstDay(y) \in Int
         /\ FirstDay(y) = (y - 1970) * 365 + Cardinality(LeapYears(1970, y - 1))
                            - Cardinality(LeapYears(y, 1969))
<1>1. FirstDay(y) = (y - 1970) * 365 + Cardinality(LeapYears(1970, y - 1))
                            - Cardinality(LeapYears(y, 1970 - 1))
  BY DEF FirstDay, LeapYears, EPOCH_YEAR
<1>2. 1970 - 1 = 1969 /\ 1970 \in Int /\ 1969 \in Int /\ y - 1 \in Int
  OBVIOUS
<1>3. Cardinality(LeapYears(1970, y - 1)) \in Nat /\ Cardinality(LeapYears(y, 1969)) \in Nat
  BY <1>2, LeapYearsCount
<1>4. QED
  BY <1>1, <1>2, <1>3

\* A year begins when the one before it is over, and 1970 on day 0.
LEMMA NextYear ==
  ASSUME NEW y \in Int
  PROVE  FirstDay(y + 1) = FirstDay(y) + YearLength(y)
<1> DEFINE leap == IF is_leap(y) THEN 1 ELSE 0
           After(x) == Cardinality(LeapYears(1970, x - 1))
           Ahead(x) == Cardinality(LeapYears(x, 1969))
<1>1. leap \in 0 .. 1 /\ YearLength(y) = 365 + leap
  BY LengthIs
<1>2. y + 1 \in Int /\ (y + 1) - 1 = y /\ y - 1 \in Int
  OBVIOUS
<1>3. /\ FirstDay(y) = (y - 1970) * 365 + After(y) - Ahead(y)
      /\ FirstDay(y + 1) = ((y + 1) - 1970) * 365 + After(y + 1) - Ahead(y + 1)
  BY <1>2, FirstDayIs
<1>4. /\ After(y) \in Nat /\ Ahead(y) \in Nat /\ After(y + 1) \in Nat /\ Ahead(y + 1) \in Nat
  BY <1>2, LeapYearsCount
<1>5. CASE y >= 1970
  <2>1. \A x \in Int : x \in 1970 .. y <=> x \in 1970 .. y - 1 \/ x = y
    BY <1>5
  <2>2. Cardinality(LeapYears(1970, y)) = After(y) + leap
    BY <1>2, <2>1, LeapYearsMore
  <2>3. After(y + 1) = After(y) + leap
    BY <1>2, <2>2
  <2>4. Ahead(y) = 0 /\ Ahead(y + 1) = 0
    BY <1>2, <1>5, LeapYearsCount
  <2> HIDE DEF leap, After, Ahead
  <2>5. QED
    BY <1>1, <1>3, <1>4, <2>3, <2>4
<1>6. CASE ~(y >= 1970)
  <2>1. \A x \in Int : x \in y .. 1969 <=> x \in y + 1 .. 1969 \/ x = y
    BY <1>6
  <2>2. Ahead(y) = Ahead(y + 1) + leap
    BY <1>2, <2>1, LeapYearsMore
  <2>3. After(y) = 0 /\ After(y + 1) = 0
    BY <1>2, <1>6, LeapYearsCount
  <2> HIDE DEF leap, After, Ahead
  <2>4. QED
    BY <1>1, <1>3, <1>4, <2>2, <2>3
<1>7. QED
  BY <1>5, <1>6

LEMMA EpochIs == FirstDay(1970) = 0
<1>1. 1970 - 1 = 1969 /\ 1970 \in Int /\ 1969 \in Int /\ 1969 < 1970
  OBVIOUS
<1>2. Cardinality(LeapYears(1970, 1969)) = 0
  BY <1>1, LeapYearsCount
<1>3. FirstDay(1970) = (1970 - 1970) * 365 + Cardinality(LeapYears(1970, 1969))
                         - Cardinality(LeapYears(1970, 1969))
  BY <1>1, FirstDayIs
<1>4. QED
  BY <1>2, <1>3

-----------------------------------------------------------------------------
(* The loops for the year and for the month.                               *)

YearStates == [year : Int, yday : Int]

LEMMA YearTurnIs ==
  ASSUME NEW y \in Int, NEW d \in Int
  PROVE  YearTurn[[year |-> y, yday |-> d]] =
           IF d < 0 THEN [year |-> y - 1, yday |-> d + YearLength(y - 1)]
           ELSE IF d < YearLength(y) THEN [year |-> y, yday |-> d]
           ELSE [year |-> y + 1, yday |-> d - YearLength(y)]
<1> DEFINE x == [year |-> y, yday |-> d]
<1>1. x \in [year : Int, yday : Int] /\ x.year = y /\ x.yday = d
  OBVIOUS
<1> HIDE DEF x
<1>2. YearTurn[x] = IF x.yday < 0
                    THEN [year |-> x.year - 1, yday |-> x.yday + YearLength(x.year - 1)]
                    ELSE IF x.yday < YearLength(x.year) THEN x
                    ELSE [year |-> x.year + 1, yday |-> x.yday - YearLength(x.year)]
  BY <1>1, Zenon DEF YearTurn
<1>3. QED
  BY <1>1, <1>2, Zenon DEF x

LEMMA YearTurnIn == YearTurn \in [YearStates -> YearStates]
<1>1. ASSUME NEW x \in YearStates PROVE YearTurn[x] \in YearStates
  <2>1. PICK y \in Int, d \in Int : x = [year |-> y, yday |-> d]
    BY DEF YearStates
  <2>2. y - 1 \in Int /\ y + 1 \in Int
    OBVIOUS
  <2>3. YearLength(y) \in Int /\ YearLength(y - 1) \in Int
    <3>1. \A z \in Int : YearLength(z) \in {365, 366}
      BY LengthIs
    <3>2. YearLength(y) \in {365, 366} /\ YearLength(y - 1) \in {365, 366}
      BY <2>2, <3>1
    <3>3. QED
      BY <3>2
  <2>4. d + YearLength(y - 1) \in Int /\ d - YearLength(y) \in Int
    BY <2>3
  <2>5. YearTurn[x] =
           IF d < 0 THEN [year |-> y - 1, yday |-> d + YearLength(y - 1)]
           ELSE IF d < YearLength(y) THEN [year |-> y, yday |-> d]
           ELSE [year |-> y + 1, yday |-> d - YearLength(y)]
    BY <2>1, YearTurnIs
  <2>6. QED
    BY <2>2, <2>4, <2>5 DEF YearStates
<1>2. YearTurn = [x \in YearStates |-> YearTurn[x]]
  BY DEF YearTurn, YearStates
<1>3. QED
  BY <1>1, <1>2, Zenon

\* After k turns from days: the same day, and in its year or 365 * k nearer.
Counted(days, x, k) ==
  /\ FirstDay(x.year) + x.yday = days
  /\ \/ x.yday \in 0 .. YearLength(x.year) - 1
     \/ days >= 0 /\ x.yday >= 0 /\ x.yday <= days - 365 * k
     \/ days < 0 /\ x.yday < 0 /\ x.yday >= days + 365 * k

LEMMA YearTurnCounts ==
  ASSUME NEW days \in Int, NEW k \in Nat, NEW x \in YearStates, Counted(days, x, k)
  PROVE  Counted(days, YearTurn[x], k + 1)
<1>1. PICK y \in Int, d \in Int : x = [year |-> y, yday |-> d]
  BY DEF YearStates
<1>2. /\ FirstDay(y) + d = days
      /\ \/ d \in 0 .. YearLength(y) - 1
         \/ days >= 0 /\ d >= 0 /\ d <= days - 365 * k
         \/ days < 0 /\ d < 0 /\ d >= days + 365 * k
  BY <1>1 DEF Counted
<1>3. y - 1 \in Int /\ y + 1 \in Int /\ (y - 1) + 1 = y
  OBVIOUS
<1>4. PICK l \in {365, 366} : l = YearLength(y)
  BY LengthIs
<1>5. PICK b \in {365, 366} : b = YearLength(y - 1)
  BY <1>3, LengthIs
<1>6. PICK f \in Int, p \in Int, n \in Int :
        f = FirstDay(y) /\ p = FirstDay(y - 1) /\ n = FirstDay(y + 1)
  <2>1. \A z \in Int : FirstDay(z) \in Int
    BY FirstDayIs
  <2>2. FirstDay(y) \in Int /\ FirstDay(y - 1) \in Int /\ FirstDay(y + 1) \in Int
    BY <1>3, <2>1
  <2>3. QED
    BY <2>2
<1>7. n = f + l /\ f = p + b
  BY <1>3, <1>4, <1>5, <1>6, NextYear
<1>8. YearTurn[x] = IF d < 0 THEN [year |-> y - 1, yday |-> d + b]
                    ELSE IF d < l THEN [year |-> y, yday |-> d]
                    ELSE [year |-> y + 1, yday |-> d - l]
  BY <1>1, <1>4, <1>5, YearTurnIs
<1>9. CASE d < 0
  <2>1. YearTurn[x] = [year |-> y - 1, yday |-> d + b]
    BY <1>8, <1>9
  <2>2. days < 0 /\ d >= days + 365 * k
    BY <1>2, <1>9
  <2>3. p + (d + b) = days
    BY <1>2, <1>6, <1>7
  <2>4. \/ d + b \in 0 .. b - 1
        \/ d + b < 0 /\ d + b >= days + 365 * (k + 1)
    BY <1>9, <2>2
  <2>5. QED
    BY <1>5, <1>6, <2>1, <2>2, <2>3, <2>4 DEF Counted
<1>10. CASE ~(d < 0) /\ d < l
  <2>1. YearTurn[x] = [year |-> y, yday |-> d]
    BY <1>8, <1>10
  <2>2. d \in 0 .. l - 1
    BY <1>10
  <2>3. QED
    BY <1>2, <1>4, <2>1, <2>2 DEF Counted
<1>11. CASE ~(d < 0) /\ ~(d < l)
  <2>1. YearTurn[x] = [year |-> y + 1, yday |-> d - l]
    BY <1>8, <1>11
  <2>2. days >= 0 /\ d <= days - 365 * k
    BY <1>2, <1>4, <1>11
  <2>3. n + (d - l) = days
    BY <1>2, <1>6, <1>7
  <2>4. d - l >= 0 /\ d - l <= days - 365 * (k + 1)
    BY <1>11, <2>2
  <2>5. QED
    BY <1>6, <2>1, <2>2, <2>3, <2>4 DEF Counted
<1>12. QED
  BY <1>9, <1>10, <1>11

(* The loop for the year ends in the year of the day.                      *)
LEMMA InYearIs ==
  ASSUME NEW days \in Int
  PROVE  \E y \in Int : \E d \in 0 .. YearLength(y) - 1 :
           /\ InYear(days) = [year |-> y, yday |-> d]
           /\ FirstDay(y) + d = days
<1> DEFINE many == IF days < 0 THEN -days ELSE days
<1>1. many \in Nat /\ days <= many /\ -days <= many
  OBVIOUS
<1>2. PICK q \in Nat : q = many \div 365 /\ many < 365 * (q + 1)
  <2>1. PICK q \in Int, r \in 0 .. 364 : q = many \div 365 /\ many = q * 365 + r
    <3>1. 365 \in Nat \ {0} /\ 365 - 1 = 364
      OBVIOUS
    <3>2. QED
      BY <1>1, <3>1, FloorIs
  <2> HIDE DEF many
  <2>2. q \in Nat /\ many < 365 * (q + 1)
    BY <1>1, <2>1
  <2>3. QED
    BY <2>1, <2>2
<1> DEFINE turns == many \div 365 + 1
           z == [year |-> EPOCH_YEAR, yday |-> days]
           Is(g) == g = [k \in 0 .. turns |-> IF k = 0 THEN z ELSE YearTurn[g[k - 1]]]
           Step == [k \in 1 .. turns |-> YearTurn]
<1>3. PICK w \in Nat : w = turns /\ many < 365 * w
  BY <1>2
<1>4. z \in YearStates
  BY DEF YearStates, EPOCH_YEAR
<1>5. StepsIn(Step, YearStates, turns) /\ \A k \in 1 .. turns : Step[k] = YearTurn
  BY YearTurnIn, Zenon DEF StepsIn
<1> HIDE DEF z, turns, Step
<1>6. \E f : Is(f)
  <2>1. PICK f : RunOf(f, Step, z, YearStates, w)
    BY <1>3, <1>4, <1>5, StepsDefine
  <2>2. \A k \in 0 .. w : f[k] = IF k = 0 THEN z ELSE YearTurn[f[k - 1]]
    <3>1. \A k \in 0 .. w : k = 0 \/ k \in 1 .. w
      OBVIOUS
    <3>2. QED
      BY <1>3, <1>5, <2>1, <3>1 DEF RunOf
  <2>3. Is(f)
    BY <1>3, <2>1, <2>2 DEF RunOf
  <2>4. QED
    BY <2>3
<1> DEFINE f == CHOOSE g : Is(g)
<1>7. InYear(days) = f[turns]
  BY Zenon DEF InYear, z, turns
<1>8. Is(f)
  BY <1>6
<1> HIDE DEF f
<1>9. /\ f \in [0 .. w -> YearStates] /\ f[0] = z
      /\ \A k \in 1 .. w : f[k] = YearTurn[f[k - 1]]
  <2>1. \A k \in 1 .. w : k \in 0 .. w /\ k # 0 /\ k - 1 \in 0 .. w
    OBVIOUS
  <2>2. f = [k \in 0 .. w |-> IF k = 0 THEN z ELSE Step[k][f[k - 1]]]
    BY <1>3, <1>5, <1>8
  <2>3. RunOf(f, Step, z, YearStates, w)
    BY <1>3, <1>4, <1>5, <2>2, StepsRun
  <2>4. QED
    BY <1>3, <1>5, <2>3 DEF RunOf
<1> DEFINE Good == {k \in 0 .. w : Counted(days, f[k], k)}
<1>10. 0 \in Good
  <2>1. z.year = 1970 /\ z.yday = days
    BY DEF z, EPOCH_YEAR
  <2>2. FirstDay(1970) + days = days
    BY EpochIs
  <2>3. Counted(days, z, 0)
    BY <2>1, <2>2 DEF Counted
  <2>4. QED
    BY <1>9, <2>3
<1>11. ASSUME NEW k \in 1 .. w, k - 1 \in Good PROVE k \in Good
  <2>1. k - 1 \in Nat /\ k - 1 \in 0 .. w /\ (k - 1) + 1 = k
    OBVIOUS
  <2>2. f[k - 1] \in YearStates /\ Counted(days, f[k - 1], k - 1)
    BY <1>9, <1>11, <2>1
  <2>3. Counted(days, YearTurn[f[k - 1]], (k - 1) + 1)
    BY <2>1, <2>2, YearTurnCounts
  <2>4. QED
    BY <1>9, <2>1, <2>3
<1>12. w \in 0 .. w /\ Good \subseteq 0 .. w
  OBVIOUS
<1>13. Counted(days, f[w], w)
  <2>1. \A k \in 0 .. w : k \in Good
    <3> HIDE DEF Good
    <3>1. QED
      BY <1>10, <1>11, <1>12, UpTo
  <2>2. QED
    BY <1>12, <2>1
<1>14. PICK y \in Int, d \in Int : f[w] = [year |-> y, yday |-> d]
  BY <1>9, <1>12 DEF YearStates
<1>15. /\ FirstDay(y) + d = days
       /\ \/ d \in 0 .. YearLength(y) - 1
          \/ days >= 0 /\ d >= 0 /\ d <= days - 365 * w
          \/ days < 0 /\ d < 0 /\ d >= days + 365 * w
  BY <1>13, <1>14 DEF Counted
<1>16. d \in 0 .. YearLength(y) - 1
  BY <1>1, <1>3, <1>15
<1>17. QED
  BY <1>3, <1>7, <1>14, <1>15, <1>16

\* The days of a year before a month, read off the table of mktime.
Before(mon, year) == days_before_month[mon + 1] + IF mon > 1 /\ is_leap(year) THEN 1 ELSE 0

LEMMA TablesAre ==
  /\ days_per_month[1] = 31 /\ days_per_month[2] = 28 /\ days_per_month[3] = 31
  /\ days_per_month[4] = 30 /\ days_per_month[5] = 31 /\ days_per_month[6] = 30
  /\ days_per_month[7] = 31 /\ days_per_month[8] = 31 /\ days_per_month[9] = 30
  /\ days_per_month[10] = 31 /\ days_per_month[11] = 30 /\ days_per_month[12] = 31
  /\ days_before_month[1] = 0 /\ days_before_month[2] = 31 /\ days_before_month[3] = 59
  /\ days_before_month[4] = 90 /\ days_before_month[5] = 120 /\ days_before_month[6] = 151
  /\ days_before_month[7] = 181 /\ days_before_month[8] = 212 /\ days_before_month[9] = 243
  /\ days_before_month[10] = 273 /\ days_before_month[11] = 304
  /\ days_before_month[12] = 334 /\ days_before_month[13] = 365
BY DEF days_per_month, days_before_month

LEMMA BeforeIs ==
  ASSUME NEW year \in Int
  PROVE  /\ \A m \in 0 .. 12 : Before(m, year) \in Nat
         /\ Before(0, year) = 0 /\ Before(12, year) = YearLength(year)
         /\ \A m \in 0 .. 11 : /\ MonthLength(m, year) \in Nat
                               /\ Before(m + 1, year) = Before(m, year) + MonthLength(m, year)
<1>1. PICK l \in 0 .. 1 : l = IF is_leap(year) THEN 1 ELSE 0
  OBVIOUS
<1>2. \A m \in 0 .. 12 : Before(m, year) = days_before_month[m + 1] + IF m > 1 THEN l ELSE 0
  BY <1>1, Zenon DEF Before
<1>3. \A m \in 0 .. 11 : MonthLength(m, year) = days_per_month[m + 1] + IF m = 1 THEN l ELSE 0
  BY <1>1, Zenon DEF MonthLength
<1>4. ASSUME NEW m \in 0 .. 12
      PROVE  \/ m = 0 \/ m = 1 \/ m = 2 \/ m = 3 \/ m = 4 \/ m = 5 \/ m = 6
             \/ m = 7 \/ m = 8 \/ m = 9 \/ m = 10 \/ m = 11 \/ m = 12
  OBVIOUS
<1>5. \A m \in 0 .. 12 : Before(m, year) \in Nat
  <2>1. TAKE m \in 0 .. 12
  <2>2. QED
    BY <1>2, <1>4, TablesAre
<1>6. YearLength(year) = 365 + l
  BY <1>1, LengthIs
<1>7. Before(0, year) = 0 /\ Before(12, year) = YearLength(year)
  BY <1>2, <1>6, TablesAre
<1>8. ASSUME NEW m \in 0 .. 11
      PROVE  /\ MonthLength(m, year) \in Nat
             /\ Before(m + 1, year) = Before(m, year) + MonthLength(m, year)
  <2>1. m \in 0 .. 12 /\ m + 1 \in 0 .. 12
    OBVIOUS
  <2>2. /\ Before(m, year) = days_before_month[m + 1] + IF m > 1 THEN l ELSE 0
        /\ Before(m + 1, year) = days_before_month[(m + 1) + 1] + IF m + 1 > 1 THEN l ELSE 0
        /\ MonthLength(m, year) = days_per_month[m + 1] + IF m = 1 THEN l ELSE 0
    BY <1>2, <1>3, <2>1
  <2>3. QED
    BY <1>4, <2>1, <2>2, TablesAre
<1>9. QED
  BY <1>5, <1>7, <1>8

LEMMA FirstOfMonthIs ==
  ASSUME NEW year \in Int, NEW mon \in 0 .. 12
  PROVE  FirstOfMonth(mon, year) = Before(mon, year)
<1> DEFINE Is(g) == g = [m \in 0 .. mon |-> IF m = 0 THEN 0
                                            ELSE g[m - 1] + MonthLength(m - 1, year)]
           Step == [k \in 1 .. mon |-> [n \in Int |-> n + MonthLength(k - 1, year)]]
<1>1. \A k \in 1 .. mon : k - 1 \in 0 .. 11 /\ MonthLength(k - 1, year) \in Int
  <2>1. TAKE k \in 1 .. mon
  <2>2. k - 1 \in 0 .. 11
    OBVIOUS
  <2>3. MonthLength(k - 1, year) \in Nat
    BY <2>2, BeforeIs
  <2>4. QED
    BY <2>2, <2>3
<1>2. StepsIn(Step, Int, mon)
  BY <1>1 DEF StepsIn
<1>3. \A k \in 1 .. mon, n \in Int : Step[k][n] = n + MonthLength(k - 1, year)
  BY Zenon
<1> HIDE DEF Step
<1>4. \E f : Is(f)
  <2>1. PICK f : RunOf(f, Step, 0, Int, mon)
    BY <1>2, StepsDefine
  <2>2. \A k \in 0 .. mon : k = 0 \/ (k \in 1 .. mon /\ k - 1 \in 0 .. mon)
    <3>1. TAKE k \in 0 .. mon
    <3>2. k # 0 => k \in 1 .. mon /\ k - 1 \in 0 .. mon
      OBVIOUS
    <3>3. QED
      BY <3>2
  <2>3. \A k \in 0 .. mon : f[k] = IF k = 0 THEN 0 ELSE f[k - 1] + MonthLength(k - 1, year)
    BY <1>3, <2>1, <2>2 DEF RunOf
  <2>4. Is(f)
    BY <2>1, <2>3 DEF RunOf
  <2>5. QED
    BY <2>4
<1> DEFINE f == CHOOSE g : Is(g)
<1>5. FirstOfMonth(mon, year) = f[mon]
  BY Zenon DEF FirstOfMonth
<1>6. Is(f)
  BY <1>4
<1> HIDE DEF f
<1>7. /\ f[0] = 0
      /\ \A k \in 1 .. mon : f[k] = f[k - 1] + MonthLength(k - 1, year)
  <2>1. 0 \in 0 .. mon /\ \A k \in 1 .. mon : k \in 0 .. mon /\ k # 0
    OBVIOUS
  <2>2. QED
    BY <1>6, <2>1
<1> DEFINE Good == {k \in 0 .. mon : f[k] = Before(k, year)}
<1>8. 0 \in Good
  <2>1. 0 \in 0 .. mon /\ Before(0, year) = 0
    BY BeforeIs
  <2>2. QED
    BY <1>7, <2>1
<1>9. ASSUME NEW k \in 1 .. mon, k - 1 \in Good PROVE k \in Good
  <2>1. (k - 1) + 1 = k
    OBVIOUS
  <2>2. Before((k - 1) + 1, year) = Before(k - 1, year) + MonthLength(k - 1, year)
    BY <1>1, BeforeIs
  <2>3. f[k] = Before(k, year)
    BY <1>7, <1>9, <2>1, <2>2
  <2>4. QED
    BY <2>3
<1>10. \A k \in 0 .. mon : k \in Good
  <2>1. Good \subseteq 0 .. mon /\ mon \in Nat
    OBVIOUS
  <2> HIDE DEF Good
  <2>2. QED
    BY <1>8, <1>9, <2>1, UpTo
<1>11. QED
  BY <1>5, <1>10

MonthStates == [mon : 0 .. 12, mday : Int]

\* After k turns from days: the same day, in its month or k months on.
Months(days, year, x, k) ==
  /\ Before(x.mon, year) + x.mday = days
  /\ x.mday >= 0
  /\ x.mon = k \/ (x.mon < 12 /\ x.mday < MonthLength(x.mon, year))

LEMMA MonthTurnKeeps ==
  ASSUME NEW year \in Int, NEW days \in Int, NEW k \in 0 .. 11, NEW x \in MonthStates
  PROVE  /\ MonthTurn(year, x) \in MonthStates
         /\ Months(days, year, x, k) => Months(days, year, MonthTurn(year, x), k + 1)
<1>1. PICK m \in 0 .. 12, d \in Int : x = [mon |-> m, mday |-> d]
  BY DEF MonthStates
<1>2. x.mon = m /\ x.mday = d
  BY <1>1
<1>3. CASE m = 12
  <2>1. MonthTurn(year, x) = x
    BY <1>2, <1>3 DEF MonthTurn
  <2>2. Months(days, year, x, k) => FALSE
    BY <1>2, <1>3 DEF Months
  <2>3. QED
    BY <2>1, <2>2
<1>4. CASE m # 12
  <2>1. m \in 0 .. 11 /\ m + 1 \in 0 .. 12
    BY <1>4
  <2>2. PICK l \in Nat : l = MonthLength(m, year)
    BY <2>1, BeforeIs
  <2>3. PICK b \in Nat : b = Before(m, year)
    BY BeforeIs
  <2>4. Before(m + 1, year) = b + l
    BY <2>1, <2>2, <2>3, BeforeIs
  <2>5. MonthTurn(year, x) = IF d < l THEN x ELSE [mon |-> m + 1, mday |-> d - l]
    BY <1>2, <1>4, <2>2, Zenon DEF MonthTurn
  <2>6. CASE d < l
    BY <1>1, <1>2, <2>1, <2>2, <2>5, <2>6 DEF Months
  <2>7. CASE ~(d < l)
    <3>1. MonthTurn(year, x) = [mon |-> m + 1, mday |-> d - l]
      BY <2>5, <2>7
    <3>2. MonthTurn(year, x) \in MonthStates
      BY <2>1, <3>1 DEF MonthStates
    <3>3. ASSUME Months(days, year, x, k) PROVE Months(days, year, MonthTurn(year, x), k + 1)
      <4>1. b + d = days /\ m = k
        BY <1>2, <2>2, <2>3, <2>7, <3>3 DEF Months
      <4>2. (b + l) + (d - l) = days /\ d - l >= 0 /\ m + 1 = k + 1
        BY <2>7, <4>1
      <4>3. QED
        BY <2>4, <3>1, <4>2 DEF Months
    <3>4. QED
      BY <3>2, <3>3
  <2>8. QED
    BY <2>6, <2>7
<1>5. QED
  BY <1>3, <1>4

(* The loop for the month ends in the month of the day.                    *)
LEMMA InMonthIs ==
  ASSUME NEW year \in Int, NEW days \in 0 .. YearLength(year) - 1
  PROVE  \E m \in 0 .. 11 : \E d \in 0 .. MonthLength(m, year) - 1 :
           /\ InMonth(days, year) = [mon |-> m, mday |-> d]
           /\ Before(m, year) + d = days
<1> DEFINE z == [mon |-> 0, mday |-> days]
           Is(g) == g = [k \in 0 .. 12 |-> IF k = 0 THEN z ELSE MonthTurn(year, g[k - 1])]
           Step == [k \in 1 .. 12 |-> [x \in MonthStates |-> MonthTurn(year, x)]]
<1>1. days \in Int /\ days >= 0 /\ days < YearLength(year)
  <2>1. YearLength(year) \in {365, 366}
    BY LengthIs
  <2>2. QED
    BY <2>1
<1>2. z \in MonthStates
  BY <1>1 DEF MonthStates
<1>3. StepsIn(Step, MonthStates, 12)
  <2>1. \A x \in MonthStates : MonthTurn(year, x) \in MonthStates
    BY <1>1, MonthTurnKeeps
  <2>2. QED
    BY <2>1, Zenon DEF StepsIn
<1>4. \A k \in 1 .. 12, x \in MonthStates : Step[k][x] = MonthTurn(year, x)
  BY Zenon
<1> HIDE DEF z, Step
<1>5. \E f : Is(f)
  <2>1. PICK f : RunOf(f, Step, z, MonthStates, 12)
    BY <1>2, <1>3, StepsDefine
  <2>2. \A k \in 0 .. 12 : k = 0 \/ (k \in 1 .. 12 /\ k - 1 \in 0 .. 12)
    <3>1. TAKE k \in 0 .. 12
    <3>2. k # 0 => k \in 1 .. 12 /\ k - 1 \in 0 .. 12
      OBVIOUS
    <3>3. QED
      BY <3>2
  <2>3. \A k \in 0 .. 12 : f[k] = IF k = 0 THEN z ELSE MonthTurn(year, f[k - 1])
    BY <1>4, <2>1, <2>2 DEF RunOf
  <2>4. Is(f)
    BY <2>1, <2>3 DEF RunOf
  <2>5. QED
    BY <2>4
<1> DEFINE f == CHOOSE g : Is(g)
<1>6. InMonth(days, year) = f[12]
  BY Zenon DEF InMonth, z
<1>7. Is(f)
  BY <1>5
<1> HIDE DEF f
<1>8. /\ f[0] = z
      /\ \A k \in 1 .. 12 : f[k] = MonthTurn(year, f[k - 1])
  <2>1. 0 \in 0 .. 12 /\ \A k \in 1 .. 12 : k \in 0 .. 12 /\ k # 0
    OBVIOUS
  <2>2. QED
    BY <1>7, <2>1
<1> DEFINE Good == {k \in 0 .. 12 : f[k] \in MonthStates /\ Months(days, year, f[k], k)}
<1>9. 0 \in Good
  <2>1. z.mon = 0 /\ z.mday = days
    BY DEF z
  <2>2. Before(0, year) + days = days
    BY <1>1, BeforeIs
  <2>3. Months(days, year, z, 0)
    BY <1>1, <2>1, <2>2 DEF Months
  <2>4. QED
    BY <1>2, <1>8, <2>3
<1>10. ASSUME NEW k \in 1 .. 12, k - 1 \in Good PROVE k \in Good
  <2>1. k - 1 \in 0 .. 11 /\ (k - 1) + 1 = k
    OBVIOUS
  <2>2. f[k - 1] \in MonthStates /\ Months(days, year, f[k - 1], k - 1)
    BY <1>10
  <2>3. /\ MonthTurn(year, f[k - 1]) \in MonthStates
        /\ Months(days, year, MonthTurn(year, f[k - 1]), (k - 1) + 1)
    BY <1>1, <2>1, <2>2, MonthTurnKeeps
  <2>4. QED
    BY <1>8, <2>1, <2>3
<1>11. f[12] \in MonthStates /\ Months(days, year, f[12], 12)
  <2>1. Good \subseteq 0 .. 12 /\ 12 \in Nat /\ 12 \in 0 .. 12
    OBVIOUS
  <2>2. 12 \in Good
    <3> HIDE DEF Good
    <3>1. QED
      BY <1>9, <1>10, <2>1, UpTo
  <2>3. QED
    BY <2>2
<1>12. PICK m \in 0 .. 12, d \in Int : f[12] = [mon |-> m, mday |-> d]
  BY <1>11 DEF MonthStates
<1>13. /\ Before(m, year) + d = days /\ d >= 0
       /\ m = 12 \/ (m < 12 /\ d < MonthLength(m, year))
  BY <1>11, <1>12 DEF Months
<1>14. m # 12
  <2>1. SUFFICES ASSUME m = 12 PROVE FALSE
    OBVIOUS
  <2>2. YearLength(year) + d = days /\ YearLength(year) \in Int
    <3>1. YearLength(year) \in {365, 366}
      BY LengthIs
    <3>2. QED
      BY <1>13, <2>1, <3>1, BeforeIs
  <2>3. QED
    BY <1>1, <1>13, <2>2
<1>15. m \in 0 .. 11 /\ d \in 0 .. MonthLength(m, year) - 1
  <2>1. m \in 0 .. 11
    BY <1>14
  <2>2. MonthLength(m, year) \in Nat
    BY <2>1, BeforeIs
  <2>3. QED
    BY <1>13, <1>14, <2>1, <2>2
<1>16. QED
  BY <1>6, <1>12, <1>13, <1>15

-----------------------------------------------------------------------------
(* Fields and back.                                                        *)

LEMMA WeekdayIs ==
  ASSUME NEW n \in Int
  PROVE  (IF Rem(n, 7) < 0 THEN Rem(n, 7) + 7 ELSE Rem(n, 7)) = n % 7
BY DEF Rem, Quot

\* The day of a date: where its month begins, and the day there.
LEMMA CivilDaysIs ==
  ASSUME NEW year \in Int, NEW m \in 0 .. 11, NEW d \in Int
  PROVE  /\ CivilDays(year, m, d) \in Int
         /\ CivilDays(year, m, d) = FirstDay(year) + Before(m, year) + d - 1
<1>1. FirstDay(year) \in Int
  BY FirstDayIs
<1>2. Before(m, year) \in Nat
  <2>1. m \in 0 .. 12
    OBVIOUS
  <2>2. QED
    BY <2>1, BeforeIs
<1>3. FirstOfMonth(m, year) = Before(m, year)
  <2>1. m \in 0 .. 12
    OBVIOUS
  <2>2. QED
    BY <2>1, FirstOfMonthIs
<1>4. QED
  BY <1>1, <1>2, <1>3 DEF CivilDays

\* IsDate, of a year.
DateIn(tm, year) ==
  /\ tm.sec \in 0 .. Minute - 1 /\ tm.min \in 0 .. (Hour \div Minute) - 1
  /\ tm.hour \in 0 .. (Day \div Hour) - 1
  /\ tm.mon \in 0 .. 11 /\ tm.mday \in 1 .. MonthLength(tm.mon, year)
  /\ tm.wday = (4 + CivilDays(year, tm.mon, tm.mday)) % 7
  /\ tm.yday = CivilDays(year, tm.mon, tm.mday) - CivilDays(year, 0, 1)

(* A broken-down time is a date, that of the instant it was made from.     *)
LEMMA BrokenDownIs ==
  ASSUME NEW time \in Int, NEW z
  PROVE  /\ IsDate(BrokenDown(time, z)) /\ Reads(BrokenDown(time, z)) = time
         /\ BrokenDown(time, z).gmtoff = z.gmtoff /\ BrokenDown(time, z).isdst = z.isdst
<1>1. PICK secs \in 0 .. Day - 1, days \in Int :
        secs = SecondOf(time) /\ days = DayOf(time) /\ time = days * Day + secs
  BY DayIs
<1>2. PICK Y \in Int : \E D \in 0 .. YearLength(Y) - 1 :
        InYear(days) = [year |-> Y, yday |-> D] /\ FirstDay(Y) + D = days
  BY InYearIs
<1>3. PICK D \in 0 .. YearLength(Y) - 1 :
        InYear(days) = [year |-> Y, yday |-> D] /\ FirstDay(Y) + D = days
  BY <1>2
<1>4. PICK M \in 0 .. 11 : \E E \in 0 .. MonthLength(M, Y) - 1 :
        InMonth(D, Y) = [mon |-> M, mday |-> E] /\ Before(M, Y) + E = D
  BY InMonthIs
<1>5. PICK E \in 0 .. MonthLength(M, Y) - 1 :
        InMonth(D, Y) = [mon |-> M, mday |-> E] /\ Before(M, Y) + E = D
  BY <1>4
<1>6. /\ D \in Int /\ E \in Int /\ E + 1 \in 1 .. MonthLength(M, Y)
      /\ MonthLength(M, Y) \in Nat /\ Before(M, Y) \in Nat /\ Before(0, Y) = 0
      /\ FirstDay(Y) \in Int
  <2>1. YearLength(Y) \in {365, 366}
    BY LengthIs
  <2>2. D \in Int
    BY <2>1
  <2>3. M \in 0 .. 12
    OBVIOUS
  <2>4. MonthLength(M, Y) \in Nat /\ Before(M, Y) \in Nat /\ Before(0, Y) = 0
    BY <2>3, BeforeIs
  <2>5. E \in Int /\ E + 1 \in 1 .. MonthLength(M, Y)
    BY <2>4
  <2>6. QED
    BY <2>2, <2>4, <2>5, FirstDayIs
<1> DEFINE wday == IF Rem(4 + days, 7) < 0 THEN Rem(4 + days, 7) + 7 ELSE Rem(4 + days, 7)
           tm == [sec |-> (secs % Hour) % Minute, min |-> (secs % Hour) \div Minute,
                  hour |-> secs \div Hour, mday |-> E + 1, mon |-> M,
                  year |-> Y - 1900, wday |-> wday,
                  yday |-> D, isdst |-> z.isdst, gmtoff |-> z.gmtoff, zone |-> z.zone]
<1>7. BrokenDown(time, z) = tm
  <2>1. TmOf(secs, days, [year |-> Y, yday |-> D], z)
          = Tm(secs, days, [year |-> Y, yday |-> D], [mon |-> M, mday |-> E], z)
    BY <1>5 DEF TmOf
  <2>2. Tm(secs, days, [year |-> Y, yday |-> D], [mon |-> M, mday |-> E], z) = tm
    BY DEF Tm
  <2>3. BrokenDown(time, z) = TmOf(secs, days, [year |-> Y, yday |-> D], z)
    BY <1>1, <1>3, Zenon DEF BrokenDown
  <2>4. QED
    BY <2>1, <2>2, <2>3
<1>8. wday = (4 + days) % 7
  <2>1. 4 + days \in Int
    OBVIOUS
  <2>2. QED
    BY <2>1, WeekdayIs
<1>9. CivilDays(Y, M, E + 1) = days /\ CivilDays(Y, 0, 1) = FirstDay(Y)
  <2>1. /\ CivilDays(Y, M, E + 1) = FirstDay(Y) + Before(M, Y) + (E + 1) - 1
        /\ CivilDays(Y, 0, 1) = FirstDay(Y) + Before(0, Y) + 1 - 1
    <3>1. E + 1 \in Int /\ 0 \in 0 .. 11 /\ 1 \in Int
      BY <1>6
    <3>2. QED
      BY <3>1, CivilDaysIs
  <2>2. QED
    BY <1>3, <1>5, <1>6, <2>1
<1>10. /\ tm.sec = (secs % Hour) % Minute /\ tm.min = (secs % Hour) \div Minute
       /\ tm.hour = secs \div Hour /\ tm.mday = E + 1 /\ tm.mon = M
       /\ tm.year = Y - 1900 /\ tm.wday = (4 + days) % 7 /\ tm.yday = D
       /\ tm.isdst = z.isdst /\ tm.gmtoff = z.gmtoff
  BY <1>8
<1> HIDE DEF tm, wday
<1>11. tm.year + 1900 = Y
  BY <1>10
<1>12. IsDate(tm)
  <2>1. /\ tm.sec \in 0 .. Minute - 1 /\ tm.min \in 0 .. (Hour \div Minute) - 1
        /\ tm.hour \in 0 .. (Day \div Hour) - 1
    BY <1>10, ClockIs
  <2>2. /\ tm.mon \in 0 .. 11 /\ tm.mday \in 1 .. MonthLength(tm.mon, Y)
        /\ tm.wday = (4 + CivilDays(Y, tm.mon, tm.mday)) % 7
    BY <1>6, <1>9, <1>10
  <2>3. tm.yday = CivilDays(Y, tm.mon, tm.mday) - CivilDays(Y, 0, 1)
    <3>1. D = days - FirstDay(Y)
      BY <1>3, <1>6
    <3>2. QED
      BY <1>9, <1>10, <3>1
  <2>4. QED
    <3>1. DateIn(tm, Y)
      BY <2>1, <2>2, <2>3, Zenon DEF DateIn
    <3>2. DateIn(tm, tm.year + 1900)
      BY <1>11, <3>1
    <3>3. QED
      BY <3>2 DEF IsDate, DateIn
<1>13. Reads(tm) = time
  <2>1. YearNamed(tm) = Y /\ tm.mon % 12 = M /\ tm.mday = E + 1
    <3>1. M \div 12 = 0 /\ M % 12 = M
      OBVIOUS
    <3>2. QED
      BY <1>10, <1>11, <3>1 DEF YearNamed
  <2>2. Reads(tm) = days * Day + tm.hour * Hour + tm.min * Minute + tm.sec
    <3>1. CivilDays(YearNamed(tm), tm.mon % 12, tm.mday) = days
      BY <1>9, <2>1
    <3>2. QED
      BY <3>1, Zenon DEF Reads
  <2>3. PICK a \in Int, b \in Int, c \in Int :
          a = tm.hour * Hour /\ b = tm.min * Minute /\ c = tm.sec
    <3>1. tm.hour \in Int /\ tm.min \in Int /\ tm.sec \in Int
      BY <1>10, ClockIs, UnitsAre
    <3>2. QED
      BY <3>1, UnitsAre
  <2>4. secs = a + b + c
    BY <1>10, <2>3, ClockIs
  <2>5. PICK e \in Int : e = days * Day
    BY UnitsAre
  <2>6. Reads(tm) = e + a + b + c /\ time = e + secs
    BY <1>1, <2>2, <2>3, <2>5, Zenon
  <2>7. QED
    BY <2>4, <2>6
<1>14. QED
  BY <1>7, <1>10, <1>12, <1>13

LEMMA LeapsMore ==
  ASSUME NEW y \in Nat \ {0}
  PROVE  /\ Leaps(y) \in Int
         /\ Leaps(y + 1) = Leaps(y) + IF is_leap(y) THEN 1 ELSE 0
<1>1. /\ Leaps(y) = (y - 1) \div 4 - (y - 1) \div 100 + (y - 1) \div 400
      /\ Leaps(y + 1) = y \div 4 - y \div 100 + y \div 400
  <2>1. /\ ~(y - 1 < 0) /\ ~((y + 1) - 1 < 0) /\ (y + 1) - 1 = y
    OBVIOUS
  <2>2. \A d : Quot(y - 1, d) = (y - 1) \div d /\ Quot((y + 1) - 1, d) = y \div d
    BY <2>1, Zenon DEF Quot
  <2>3. QED
    BY <2>2 DEF Leaps
<1>2. y \div 4 = (y - 1) \div 4 + IF y % 4 = 0 THEN 1 ELSE 0
  OBVIOUS
<1>3. y \div 100 = (y - 1) \div 100 + IF y % 100 = 0 THEN 1 ELSE 0
  OBVIOUS
<1>4. y \div 400 = (y - 1) \div 400 + IF y % 400 = 0 THEN 1 ELSE 0
  OBVIOUS
<1>5. (y % 100 = 0 => y % 4 = 0) /\ (y % 400 = 0 => y % 100 = 0)
  OBVIOUS
<1>6. /\ (y - 1) \div 4 \in Int /\ (y - 1) \div 100 \in Int /\ (y - 1) \div 400 \in Int
  OBVIOUS
<1>7. is_leap(y) <=> y % 4 = 0 /\ (y % 100 # 0 \/ y % 400 = 0)
  BY DEF is_leap
<1>8. QED
  BY <1>1, <1>2, <1>3, <1>4, <1>5, <1>6, <1>7

\* mktime's count of the leap years is right from year 1 on.
LEMMA LeapsCount ==
  ASSUME NEW y \in Nat \ {0}
  PROVE  FirstDay(y) = (y - EPOCH_YEAR) * 365 + Leaps(y) - Leaps(EPOCH_YEAR)
<1> DEFINE G(x) == FirstDay(x) - x * 365 - Leaps(x)
<1>1. ASSUME NEW x \in Nat \ {0} PROVE G(x + 1) = G(x) /\ G(x) \in Int
  <2>1. PICK l \in 0 .. 1 : l = IF is_leap(x) THEN 1 ELSE 0
    OBVIOUS
  <2>2. PICK f \in Int, g \in Int : f = FirstDay(x) /\ g = Leaps(x)
    <3>1. x \in Int
      OBVIOUS
    <3>2. FirstDay(x) \in Int /\ Leaps(x) \in Int
      BY <3>1, FirstDayIs, LeapsMore
    <3>3. QED
      BY <3>2
  <2>3. FirstDay(x + 1) = f + 365 + l
    <3>1. FirstDay(x + 1) = f + YearLength(x)
      BY <2>2, NextYear
    <3>2. YearLength(x) = 365 + l
      BY <2>1, LengthIs
    <3>3. QED
      BY <2>2, <3>1, <3>2
  <2>4. Leaps(x + 1) = g + l
    BY <2>1, <2>2, LeapsMore
  <2>5. QED
    BY <2>2, <2>3, <2>4
<1>2. ASSUME NEW w \in Nat PROVE G(1 + w) = G(1)
  <2> DEFINE Same == {k \in 0 .. w : G(1 + k) = G(1)}
  <2> HIDE DEF G
  <2>1. 0 \in Same /\ Same \subseteq 0 .. w
    <3>1. 1 + 0 = 1 /\ 0 \in 0 .. w
      OBVIOUS
    <3>2. QED
      BY <3>1
  <2>2. \A k \in 1 .. w : k - 1 \in Same => k \in Same
    <3>1. SUFFICES ASSUME NEW k \in 1 .. w, k - 1 \in Same PROVE k \in Same
      OBVIOUS
    <3>2. 1 + (k - 1) = k /\ 1 + k = k + 1 /\ k \in Nat \ {0} /\ k \in 0 .. w
      OBVIOUS
    <3>3. G(k) = G(1)
      BY <3>1, <3>2
    <3>4. G(k + 1) = G(k)
      BY <1>1, <3>2
    <3>5. QED
      BY <3>2, <3>3, <3>4
  <2>3. \A k \in 0 .. w : k \in Same
    <3> HIDE DEF Same
    <3>1. QED
      BY <2>1, <2>2, UpTo
  <2>4. w \in 0 .. w
    OBVIOUS
  <2>5. QED
    BY <2>3, <2>4
<1>3. G(y) = G(1970)
  <2>1. 1 + (y - 1) = y /\ y - 1 \in Nat /\ 1 + 1969 = 1970 /\ 1969 \in Nat
    OBVIOUS
  <2> HIDE DEF G
  <2>2. G(1 + (y - 1)) = G(1) /\ G(1 + 1969) = G(1)
    BY <1>2, <2>1
  <2>3. QED
    BY <2>1, <2>2
<1>4. PICK f \in Int, g \in Int, h \in Int : f = FirstDay(y) /\ g = Leaps(y) /\ h = Leaps(1970)
  <2>1. 1970 \in Nat \ {0} /\ y \in Int
    OBVIOUS
  <2>2. FirstDay(y) \in Int /\ Leaps(y) \in Int /\ Leaps(1970) \in Int
    BY <2>1, FirstDayIs, LeapsMore
  <2>3. QED
    BY <2>2
<1>5. f - y * 365 - g = 0 - 1970 * 365 - h
  BY <1>3, <1>4, EpochIs
<1>6. QED
  BY <1>4, <1>5 DEF EPOCH_YEAR

LEMMA DaysBeforeIs ==
  ASSUME NEW y \in Nat \ {0}, NEW m \in 0 .. 12
  PROVE  /\ DaysBefore(y, m) = FirstDay(y) + Before(m, y)
         /\ FirstDay(y) \in Int /\ Before(m, y) \in Nat
<1>1. PICK c \in Int : c = (y - EPOCH_YEAR) * 365 + Leaps(y) - Leaps(EPOCH_YEAR)
                        /\ c = FirstDay(y)
  <2>1. y \in Int
    OBVIOUS
  <2>2. FirstDay(y) \in Int
    BY <2>1, FirstDayIs
  <2>3. QED
    BY <2>2, LeapsCount
<1>2. PICK l \in 0 .. 1 : l = IF m > 1 /\ is_leap(y) THEN 1 ELSE 0
  OBVIOUS
<1>3. PICK b \in Int : b = days_before_month[m + 1]
  BY TablesAre
<1>4. Before(m, y) = b + l
  BY <1>2, <1>3, Zenon DEF Before
<1>5. DaysBefore(y, m) = c + b + l
  BY <1>1, <1>2, <1>3, Zenon DEF DaysBefore
<1>6. Before(m, y) \in Nat
  <2>1. y \in Int
    OBVIOUS
  <2>2. QED
    BY <2>1, BeforeIs
<1>7. QED
  BY <1>1, <1>4, <1>5, <1>6

LEMMA MonthsRound ==
  ASSUME NEW n \in Int
  PROVE  /\ n \div 12 \in Int /\ n % 12 \in 0 .. 11 /\ Quot(n, 12) \in Int /\ Rem(n, 12) \in Int
         /\ ~(n < 0) => Quot(n, 12) = n \div 12 /\ Rem(n, 12) = n % 12
         /\ n < 0 => \/ /\ Quot(n, 12) = n \div 12 /\ Rem(n, 12) = 0 /\ n % 12 = 0
                     \/ /\ Quot(n, 12) = (n \div 12) + 1 /\ Rem(n, 12) + 12 = n % 12
BY DEF Quot, Rem

\* The day on which mktime begins: that of the month.
FirstNamed(tm, year) ==
  IF tm.mon < 0 THEN DaysBefore(year - 1, Rem(tm.mon, 12) + 12)
  ELSE DaysBefore(year, Rem(tm.mon, 12))

(* mktime reads the fields it is given as they stand, whatever they are.   *)
LEMMA SecondsAre ==
  ASSUME NEW tm \in Fields
  PROVE  SecondsOf(tm) = Reads(tm) /\ Reads(tm) \in Int
<1>1. /\ tm.sec \in Int /\ tm.min \in Int /\ tm.hour \in Int /\ tm.mday \in Int
      /\ tm.mon \in Int /\ tm.year \in Int /\ YearNamed(tm) >= 2
  BY DEF Fields
<1>2. PICK q \in Int, r \in 0 .. 11 : q = tm.mon \div 12 /\ r = tm.mon % 12
  BY <1>1, MonthsRound
<1>3. PICK y \in Int : y = YearNamed(tm) /\ y = tm.year + 1900 + q /\ y >= 2
  BY <1>1, <1>2 DEF YearNamed
<1>4. PICK n \in Int : n = tm.year + 1900 + Quot(tm.mon, 12)
  BY <1>1, MonthsRound
<1> DEFINE first == FirstNamed(tm, n)
<1>5. first = FirstDay(y) + Before(r, y) /\ first \in Int
  <2>1. /\ DaysBefore(y, r) = FirstDay(y) + Before(r, y)
        /\ FirstDay(y) \in Int /\ Before(r, y) \in Nat
    <3>1. y \in Nat \ {0} /\ r \in 0 .. 12
      BY <1>3
    <3>2. QED
      BY <3>1, DaysBeforeIs
  <2>2. CASE ~(tm.mon < 0)
    <3>1. n = y /\ Rem(tm.mon, 12) = r
      BY <1>1, <1>2, <1>3, <1>4, <2>2, MonthsRound
    <3>2. QED
      BY <2>1, <2>2, <3>1 DEF FirstNamed
  <2>3. CASE tm.mon < 0 /\ Quot(tm.mon, 12) = q + 1 /\ Rem(tm.mon, 12) + 12 = r
    <3>1. n - 1 = y
      BY <1>1, <1>3, <1>4, <2>3
    <3>2. QED
      BY <2>1, <2>3, <3>1 DEF FirstNamed
  <2>4. CASE tm.mon < 0 /\ Quot(tm.mon, 12) = q /\ Rem(tm.mon, 12) = 0 /\ r = 0
    <3>1. n - 1 = y - 1 /\ Rem(tm.mon, 12) + 12 = 12
      BY <1>1, <1>3, <1>4, <2>4
    <3>2. y - 1 \in Nat \ {0} /\ 12 \in 0 .. 12 /\ y - 1 \in Int /\ (y - 1) + 1 = y
      BY <1>3
    <3>3. DaysBefore(y - 1, 12) = FirstDay(y - 1) + Before(12, y - 1)
      BY <3>2, DaysBeforeIs
    <3>4. Before(12, y - 1) = YearLength(y - 1) /\ Before(0, y) = 0
      BY <3>2, BeforeIs
    <3>5. FirstDay(y) = FirstDay(y - 1) + YearLength(y - 1)
      <4>1. FirstDay((y - 1) + 1) = FirstDay(y - 1) + YearLength(y - 1)
        BY <3>2, NextYear
      <4>2. QED
        BY <3>2, <4>1
    <3>6. DaysBefore(y - 1, 12) = FirstDay(y) /\ Before(r, y) = 0
      BY <2>4, <3>3, <3>4, <3>5
    <3>7. QED
      BY <2>1, <2>4, <3>1, <3>6 DEF FirstNamed
  <2>5. QED
    <3>1. \/ ~(tm.mon < 0)
          \/ tm.mon < 0 /\ Quot(tm.mon, 12) = q + 1 /\ Rem(tm.mon, 12) + 12 = r
          \/ tm.mon < 0 /\ Quot(tm.mon, 12) = q /\ Rem(tm.mon, 12) = 0 /\ r = 0
      BY <1>1, <1>2, MonthsRound
    <3>2. QED
      BY <2>2, <2>3, <2>4, <3>1, Zenon
<1>6. SecondsOf(tm) = (first + tm.mday - 1) * Day + tm.hour * Hour + tm.min * Minute + tm.sec
  <2>1. SecondsOf(tm) = (FirstNamed(tm, tm.year + 1900 + Quot(tm.mon, 12)) + tm.mday - 1) * Day
                          + tm.hour * Hour + tm.min * Minute + tm.sec
    BY Zenon DEF SecondsOf, FirstNamed
  <2>2. FirstNamed(tm, tm.year + 1900 + Quot(tm.mon, 12)) = first
    BY <1>4
  <2> HIDE DEF first
  <2>3. QED
    BY <2>1, <2>2
<1> HIDE DEF first
<1>7. CivilDays(YearNamed(tm), tm.mon % 12, tm.mday) = first + tm.mday - 1
  <2>1. CivilDays(y, r, tm.mday) = FirstDay(y) + Before(r, y) + tm.mday - 1
    BY <1>1, CivilDaysIs
  <2>2. CivilDays(YearNamed(tm), tm.mon % 12, tm.mday) = CivilDays(y, r, tm.mday)
    BY <1>2, <1>3
  <2>3. FirstDay(y) \in Int /\ Before(r, y) \in Nat
    <3>1. y \in Nat \ {0} /\ r \in 0 .. 12
      BY <1>3
    <3>2. QED
      BY <3>1, DaysBeforeIs
  <2>4. QED
    BY <1>5, <2>1, <2>2
<1>8. Reads(tm) = (first + tm.mday - 1) * Day + tm.hour * Hour + tm.min * Minute + tm.sec
  BY <1>7, Zenon DEF Reads
<1>9. PICK d \in Int, h \in Int, m \in Int :
        d = (first + tm.mday - 1) * Day /\ h = tm.hour * Hour /\ m = tm.min * Minute
  <2>1. first + tm.mday - 1 \in Int /\ Day \in Int /\ Hour \in Int /\ Minute \in Int
    BY <1>1, <1>5, UnitsAre
  <2>2. (first + tm.mday - 1) * Day \in Int /\ tm.hour * Hour \in Int /\ tm.min * Minute \in Int
    BY <1>1, <2>1
  <2>3. QED
    BY <2>2
<1>10. Reads(tm) = d + h + m + tm.sec
  BY <1>8, <1>9, Zenon
<1>11. Reads(tm) \in Int
  BY <1>1, <1>10
<1>12. QED
  BY <1>6, <1>8, <1>11, Zenon

-----------------------------------------------------------------------------
(* The zone that is loaded, and the two conversions.                       *)

HeldBy(file) == IF file.version >= 2 THEN file.zone ELSE file.legacy

(***************************************************************************)
(* Files as they are installed: the zone in each is a zone, and calm.  (No *)
(* clock is more than 15 hours off UTC, and changes are days apart.)       *)
(***************************************************************************)
CalmZone(db) == db # NoZone /\ IsZone(db) /\ \E w \in Nat : Calm(db, w)
CalmFiles == \A name \in DOMAIN ZoneFiles :
               ZoneFiles[name].version # 0 => CalmZone(HeldBy(ZoneFiles[name]))

\* What tz_load gives: nothing, or the zone with all its memory.
LoadGives(x, file) ==
  /\ x.fds = 0
  /\ \/ x.db = NoZone /\ x.blocks = 0
     \/ /\ x.db = HeldBy(file) /\ x.blocks = 5
        /\ file.version # 0 /\ HeldBy(file).trans # <<>>

LEMMA LoadIs ==
  ASSUME NEW file, NEW memory \in Nat
  PROVE  LoadGives(tz_load(file, memory), file)
<1> DEFINE headers == IF file.version >= 2 THEN 2 ELSE 1
           zone == IF headers = 2 THEN file.zone ELSE file.legacy
           read == file.cut >= headers + 4
           headed == file.cut >= headers /\ file.badat \notin 1 .. headers
           wanted == IF zone.trans = <<>> THEN 3 ELSE 5
           held == IF ~headed THEN 1 ELSE IF memory < wanted THEN memory ELSE wanted
<1>1. tz_load(file, memory) =
        IF file.version = 0 THEN [Loading(0) EXCEPT !.fds = 0]
        ELSE IF memory = 0 THEN Close(Loading(0))
        ELSE IF headed /\ held = 5 /\ read THEN Close([Loading(held) EXCEPT !.db = zone])
        ELSE tz_destroy(Close(Loading(held)))
  BY Zenon DEF tz_load
<1>2. zone = HeldBy(file)
  <2>1. CASE file.version >= 2
    BY <2>1 DEF HeldBy
  <2>2. CASE ~(file.version >= 2)
    BY <2>2 DEF HeldBy
  <2>3. QED
    BY <2>1, <2>2
<1>3. held = 5 => zone.trans # <<>>
  <2> HIDE DEF headed, zone
  <2>1. SUFFICES ASSUME held = 5, zone.trans = <<>> PROVE FALSE
    OBVIOUS
  <2>2. wanted = 3
    BY <2>1
  <2>3. held = 1 \/ held = 3 \/ (held = memory /\ memory < 3)
    BY <2>2
  <2> HIDE DEF held, wanted
  <2>4. QED
    BY <2>1, <2>3
<1>4. [Loading(0) EXCEPT !.fds = 0] = [db |-> NoZone, blocks |-> 0, fds |-> 0]
  BY DEF Loading
<1>5. Close(Loading(0)) = [db |-> NoZone, blocks |-> 0, fds |-> 0]
  BY DEF Close, Loading
<1> HIDE DEF headers, zone, read, headed, wanted, held
<1>6. held = 5 =>
        Close([Loading(held) EXCEPT !.db = zone]) = [db |-> zone, blocks |-> 5, fds |-> 0]
  <2>1. SUFFICES ASSUME held = 5
                 PROVE  Close([Loading(held) EXCEPT !.db = zone])
                          = [db |-> zone, blocks |-> 5, fds |-> 0]
    OBVIOUS
  <2>2. [Loading(held) EXCEPT !.db = zone] = [db |-> zone, blocks |-> 5, fds |-> 1]
    BY <2>1 DEF Loading
  <2>3. Close([db |-> zone, blocks |-> 5, fds |-> 1]) = [db |-> zone, blocks |-> 5, fds |-> 0]
    BY DEF Close
  <2>4. QED
    BY <2>2, <2>3
<1>7. tz_destroy(Close(Loading(held))) = [db |-> NoZone, blocks |-> 0, fds |-> 0]
  <2>1. Loading(held) = [db |-> NoZone, blocks |-> held, fds |-> 1]
    BY DEF Loading
  <2>2. Close([db |-> NoZone, blocks |-> held, fds |-> 1])
          = [db |-> NoZone, blocks |-> held, fds |-> 0]
    BY DEF Close
  <2>3. tz_destroy([db |-> NoZone, blocks |-> held, fds |-> 0])
          = [db |-> NoZone, blocks |-> 0, fds |-> 0]
    <3> DEFINE y == [db |-> NoZone, blocks |-> held, fds |-> 0]
    <3>1. tz_destroy(y) = [[y EXCEPT !.db = NoZone] EXCEPT !.blocks = 0]
      BY Zenon DEF tz_destroy
    <3>2. [y EXCEPT !.db = NoZone] = y
      OBVIOUS
    <3>3. [y EXCEPT !.blocks = 0] = [db |-> NoZone, blocks |-> 0, fds |-> 0]
      OBVIOUS
    <3> HIDE DEF y
    <3>4. QED
      BY <3>1, <3>2, <3>3 DEF y
  <2>4. QED
    BY <2>1, <2>2, <2>3
<1>8. \/ tz_load(file, memory) = [db |-> NoZone, blocks |-> 0, fds |-> 0]
      \/ /\ tz_load(file, memory) = [db |-> zone, blocks |-> 5, fds |-> 0]
         /\ file.version # 0 /\ held = 5
  BY <1>1, <1>4, <1>5, <1>6, <1>7, Zenon
<1>9. QED
  BY <1>2, <1>3, <1>8 DEF LoadGives

\* A loaded library: what ZoneIsHeld says, of a calm zone.
IsLibrary(z) ==
  /\ z = [db |-> z.db, blocks |-> z.blocks, fds |-> z.fds, gen |-> z.gen, std |-> z.std,
          dst |-> z.dst, timezone |-> z.timezone, daylight |-> z.daylight]
  /\ z.fds = 0 /\ z.blocks = IF z.db = NoZone THEN 0 ELSE 5
  /\ z.db # NoZone => /\ z.db.trans # <<>> /\ CalmZone(z.db)
                      /\ (z.daylight = 0) <=> (OfKind(z.db, TRUE) = <<>>)

LEMMA NamedKeeps ==
  ASSUME NEW z, IsLibrary(z), NEW file, NEW x, LoadGives(x, file),
         file.version # 0 => CalmZone(HeldBy(file))
  PROVE  IsLibrary(Named(z, x)) /\ Named(z, x).db = x.db
<1> DEFINE std == OfKind(x.db, FALSE)
           dst == OfKind(x.db, TRUE)
<1>1. PICK d, b, f, g, s, t, m, l :
        z = [db |-> d, blocks |-> b, fds |-> f, gen |-> g, std |-> s, dst |-> t,
             timezone |-> m, daylight |-> l]
  BY DEF IsLibrary
<1>2. f = 0 /\ x.fds = 0
  BY <1>1 DEF IsLibrary, LoadGives
<1>3. [z EXCEPT !.db = x.db, !.blocks = x.blocks, !.fds = @ + x.fds]
        = [db |-> x.db, blocks |-> x.blocks, fds |-> 0, gen |-> g, std |-> s, dst |-> t,
           timezone |-> m, daylight |-> l]
  <2>1. f + x.fds = 0
    BY <1>2
  <2>2. [z EXCEPT !.db = x.db, !.blocks = x.blocks, !.fds = @ + x.fds]
          = [db |-> x.db, blocks |-> x.blocks, fds |-> f + x.fds, gen |-> g, std |-> s,
             dst |-> t, timezone |-> m, daylight |-> l]
    <3> DEFINE y1 == [z EXCEPT !.db = x.db]
               y2 == [y1 EXCEPT !.blocks = x.blocks]
               y3 == [y2 EXCEPT !.fds = @ + x.fds]
    <3>1. y1 = [db |-> x.db, blocks |-> b, fds |-> f, gen |-> g, std |-> s, dst |-> t,
                timezone |-> m, daylight |-> l]
      BY <1>1
    <3> HIDE DEF y1
    <3>2. y2 = [db |-> x.db, blocks |-> x.blocks, fds |-> f, gen |-> g, std |-> s, dst |-> t,
                timezone |-> m, daylight |-> l]
      BY <3>1
    <3> HIDE DEF y2
    <3>3. y3 = [db |-> x.db, blocks |-> x.blocks, fds |-> f + x.fds, gen |-> g, std |-> s,
                dst |-> t, timezone |-> m, daylight |-> l]
      BY <3>2
    <3>4. y3 = [z EXCEPT !.db = x.db, !.blocks = x.blocks, !.fds = @ + x.fds]
      BY Zenon DEF y1, y2
    <3>5. QED
      BY <3>3, <3>4, Zenon
  <2>3. QED
    BY <2>1, <2>2
<1> HIDE DEF std, dst
<1>4. CASE x.db = NoZone
  <2>1. Named(z, x) = [db |-> x.db, blocks |-> x.blocks, fds |-> 0, gen |-> g, std |-> "GMT",
                       dst |-> "GMT", timezone |-> 0, daylight |-> 0]
    BY <1>3, <1>4 DEF Named
  <2>2. x.blocks = 0
    BY <1>4 DEF LoadGives, CalmZone
  <2>3. QED
    BY <1>4, <2>1, <2>2 DEF IsLibrary
<1>5. CASE x.db # NoZone
  <2>1. /\ x.db = HeldBy(file) /\ x.blocks = 5
        /\ file.version # 0 /\ x.db.trans # <<>>
    BY <1>5 DEF LoadGives
  <2>2. PICK n, s2, t2, m2 :
          Named(z, x) = [db |-> x.db, blocks |-> x.blocks, fds |-> 0, gen |-> n, std |-> s2,
                         dst |-> t2, timezone |-> m2, daylight |-> IF dst = <<>> THEN 0 ELSE 1]
    BY <1>3, <1>5 DEF Named, dst
  <2>3. /\ Named(z, x).db = x.db /\ Named(z, x).blocks = 5 /\ Named(z, x).fds = 0
        /\ (Named(z, x).daylight = 0) <=> (dst = <<>>)
    BY <2>1, <2>2
  <2>4. QED
    BY <1>5, <2>1, <2>2, <2>3 DEF IsLibrary, dst
<1>6. QED
  BY <1>4, <1>5

LEMMA TzsetKeeps ==
  ASSUME CalmFiles, env \in DOMAIN ZoneFiles, NEW z, IsLibrary(z), NEW memory \in Nat
  PROVE  /\ IsLibrary(tzset(z, ZoneFiles[env], memory))
         /\ tzset(z, ZoneFiles[env], memory).db
               = tz_load(ZoneFiles[env], memory + IF z.db = NoZone THEN 0 ELSE 5).db
<1>1. z.blocks = (IF z.db = NoZone THEN 0 ELSE 5) /\ memory + z.blocks \in Nat
  BY DEF IsLibrary
<1>2. LoadGives(tz_load(ZoneFiles[env], memory + z.blocks), ZoneFiles[env])
  BY <1>1, LoadIs
<1>3. ZoneFiles[env].version # 0 => CalmZone(HeldBy(ZoneFiles[env]))
  BY DEF CalmFiles
<1>4. tzset(z, ZoneFiles[env], memory) = Named(z, tz_load(ZoneFiles[env], memory + z.blocks))
  BY Zenon DEF tzset
<1>5. /\ IsLibrary(Named(z, tz_load(ZoneFiles[env], memory + z.blocks)))
      /\ Named(z, tz_load(ZoneFiles[env], memory + z.blocks)).db
            = tz_load(ZoneFiles[env], memory + z.blocks).db
  BY <1>2, <1>3, NamedKeeps
<1>6. QED
  BY <1>1, <1>4, <1>5

\* Asked twice, the library loads the same zone.
LEMMA LoadedKeeps ==
  ASSUME CalmFiles, env \in DOMAIN ZoneFiles, NEW z, IsLibrary(z), NEW memory \in Nat
  PROVE  /\ IsLibrary(Loaded(z, memory))
         /\ IsLibrary(Loaded(Loaded(z, memory), memory))
         /\ Loaded(Loaded(z, memory), memory).db = Loaded(z, memory).db
<1>1. ASSUME NEW y, IsLibrary(y) PROVE IsLibrary(Loaded(y, memory))
  BY <1>1, TzsetKeeps DEF Loaded
<1>2. IsLibrary(Loaded(z, memory)) /\ IsLibrary(Loaded(Loaded(z, memory), memory))
  BY <1>1
<1>3. CASE Loaded(z, memory).db # NoZone
  <2>1. \A y : y.db # NoZone => Loaded(y, memory) = y
    BY DEF Loaded
  <2>2. QED
    BY <1>2, <1>3, <2>1
<1>4. CASE Loaded(z, memory).db = NoZone
  <2> DEFINE y == Loaded(z, memory)
  <2>1. z.db = NoZone
    BY <1>4 DEF Loaded
  <2>2. y = tzset(z, ZoneFiles[env], memory)
    BY <2>1 DEF Loaded
  <2>3. Loaded(y, memory) = tzset(y, ZoneFiles[env], memory)
    BY <1>4 DEF Loaded
  <2>4. y.db = tz_load(ZoneFiles[env], memory + 0).db
    BY <2>1, <2>2, TzsetKeeps
  <2> HIDE DEF y
  <2>5. IsLibrary(y) /\ y.db = NoZone
    BY <1>2, <1>4 DEF y
  <2>6. Loaded(y, memory).db = tz_load(ZoneFiles[env], memory + 0).db
    BY <2>3, <2>5, TzsetKeeps
  <2>7. QED
    BY <1>2, <2>4, <2>6 DEF y
<1>5. QED
  BY <1>2, <1>3, <1>4

LEMMA OffsetIsInt ==
  ASSUME NEW z, IsLibrary(z), NEW time \in Int
  PROVE  InForce(z.db, time).gmtoff \in Int
<1>1. CASE z.db = NoZone
  <2>1. InForce(z.db, time) = [gmtoff |-> 0, isdst |-> 0, abbr |-> "UTC"]
    BY <1>1 DEF InForce, Utc
  <2>2. QED
    BY <2>1
<1>2. CASE z.db # NoZone
  <2>1. PICK w \in Nat : IsZone(z.db) /\ Calm(z.db, w)
    BY <1>2 DEF IsLibrary, CalmZone
  <2>2. InForce(z.db, time).gmtoff \in -w .. w
    BY <1>2, <2>1, OffsetIs
  <2>3. QED
    BY <2>2
<1>3. QED
  BY <1>1, <1>2

LEMMA LookedIs ==
  ASSUME NEW z, IsLibrary(z), NEW time \in Int
  PROVE  /\ Looked(z, time).gmtoff = InForce(z.db, time).gmtoff
         /\ Looked(z, time).isdst = InForce(z.db, time).isdst
<1>1. CASE z.db = NoZone
  <2>1. InForce(z.db, time) = [gmtoff |-> 0, isdst |-> 0, abbr |-> "UTC"]
    BY <1>1 DEF InForce, Utc
  <2>2. Looked(z, time) = [gmtoff |-> 0, isdst |-> 0, zone |-> "UTC"]
    BY <1>1 DEF Looked, UTC, Zoned
  <2>3. QED
    BY <2>1, <2>2
<1>2. CASE z.db # NoZone
  <2>1. IsZone(z.db)
    BY <1>2 DEF IsLibrary, CalmZone
  <2>2. tz_lookup(z.db, time) = InForce(z.db, time)
    BY <1>2, <2>1, LookupIsInForce
  <2>3. Looked(z, time) = OfType(z, InForce(z.db, time))
    BY <1>2, <2>1, <2>2, FoundIs DEF Looked
  <2>4. QED
    BY <2>3 DEF OfType, Zoned
<1>3. QED
  BY <1>1, <1>2

\* What ShowsTheTime asks of a conversion.
TmShows(z, time, tm) ==
  /\ IsDate(tm) /\ Reads(tm) = time + InForce(z.db, time).gmtoff
  /\ tm.gmtoff = InForce(z.db, time).gmtoff /\ tm.isdst = InForce(z.db, time).isdst

LEMMA LocaltimeIs ==
  ASSUME NEW z, IsLibrary(z), NEW time \in Int
  PROVE  TmShows(z, time, localtime(z, time))
<1> DEFINE t == Looked(z, time)
<1>1. t.gmtoff = InForce(z.db, time).gmtoff /\ t.isdst = InForce(z.db, time).isdst
  BY LookedIs
<1>2. InForce(z.db, time).gmtoff \in Int
  BY OffsetIsInt
<1>3. localtime(z, time) = BrokenDown(time + t.gmtoff, t)
  BY Zenon DEF localtime, InZone
<1> HIDE DEF t
<1>4. time + t.gmtoff \in Int
  BY <1>1, <1>2
<1>5. /\ IsDate(BrokenDown(time + t.gmtoff, t))
      /\ Reads(BrokenDown(time + t.gmtoff, t)) = time + t.gmtoff
      /\ BrokenDown(time + t.gmtoff, t).gmtoff = t.gmtoff
      /\ BrokenDown(time + t.gmtoff, t).isdst = t.isdst
  BY <1>4, BrokenDownIs
<1>6. QED
  BY <1>1, <1>3, <1>5 DEF TmShows

\* What MktimeInverts asks of one.
Inverts(z, tm, time) ==
  (\E t \in Reads(tm) - Day .. Reads(tm) + Day : Clock(z.db, t) = Reads(tm))
    => Clock(z.db, time) = Reads(tm)

LEMMA MktimeIs ==
  ASSUME NEW z, IsLibrary(z), NEW tm \in Fields
  PROVE  \A t \in mktime(z, tm) : t \in Int /\ Inverts(z, tm, t)
<1>1. PICK local \in Int : local = Reads(tm) /\ local = SecondsOf(tm)
  BY SecondsAre
<1>2. mktime(z, tm) = InstantsOf(z, local)
  BY <1>1, Zenon DEF mktime
<1>3. PICK o1 \in Int : o1 = Looked(z, local).gmtoff
  BY LookedIs, OffsetIsInt
<1>4. local - o1 \in Int
  OBVIOUS
<1>5. PICK o2 \in Int : o2 = Looked(z, local - o1).gmtoff
  BY <1>4, LookedIs, OffsetIsInt
<1>6. InstantsOf(z, local) = {local - o2}
  <2>1. SecondOffsets(z, local - o1) = {o2}
    <3>1. z.db # NoZone => Found(z.db, local - o1)
      BY <1>4, FoundIs DEF IsLibrary, CalmZone
    <3>2. QED
      BY <1>5, <3>1 DEF SecondOffsets
  <2>2. QED
    BY <1>3, <2>1 DEF InstantsOf
<1>7. local - o2 \in Int
  OBVIOUS
<1>8. CASE z.db = NoZone
  <2>1. \A x \in Int : InForce(z.db, x) = [gmtoff |-> 0, isdst |-> 0, abbr |-> "UTC"]
    BY <1>8 DEF InForce, Utc
  <2>2. \A x \in Int : InForce(z.db, x).gmtoff = 0
    BY <2>1
  <2>3. o2 = 0
    BY <1>4, <1>5, <2>2, LookedIs
  <2>4. local - o2 = local
    BY <2>3
  <2>5. Clock(z.db, local) = local
    BY <2>2 DEF Clock
  <2>6. QED
    BY <1>1, <1>2, <1>6, <1>7, <2>4, <2>5 DEF Inverts
<1>9. CASE z.db # NoZone
  <2>1. PICK w \in Nat : IsZone(z.db) /\ Calm(z.db, w)
    BY <1>9 DEF IsLibrary, CalmZone
  <2>2. ASSUME NEW t \in Int, Clock(z.db, t) = local
        PROVE  Clock(z.db, local - o2) = local
    <3>1. \A found \in InstantsOf(z, local) : Clock(z.db, found) = local
      BY <1>9, <2>1, <2>2, TwoLookupsAreEnough
    <3>2. QED
      BY <1>6, <3>1
  <2>3. \A t \in local - Day .. local + Day : t \in Int
    BY UnitsAre
  <2>4. Inverts(z, tm, local - o2)
    BY <1>1, <2>2, <2>3 DEF Inverts
  <2>5. QED
    BY <1>2, <1>6, <1>7, <2>4
<1>10. QED
  BY <1>8, <1>9

CalendarInv ==
  /\ env \in DOMAIN ZoneFiles /\ IsLibrary(tz)
  /\ call.op # "none" => TmShows(tz, call.time, call.tm)
  /\ call.op = "mktime" => Inverts(tz, call.given, call.time)

LEMMA CalendarInvInit ==
  ASSUME NEW name \in DOMAIN ZoneFiles, CalendarInit(name)
  PROVE  CalendarInv
<1>1. /\ tz = [db |-> NoZone, blocks |-> 0, fds |-> 0, gen |-> 0, std |-> "GMT",
                dst |-> "GMT", timezone |-> 0, daylight |-> 0]
      /\ env = name /\ call = [op |-> "none"]
  BY DEF CalendarInit, NoCall
<1>2. IsLibrary(tz)
  BY <1>1 DEF IsLibrary
<1>3. call.op = "none"
  BY <1>1
<1>4. QED
  BY <1>1, <1>2, <1>3 DEF CalendarInv

LEMMA CalendarInvStep ==
  ASSUME CalmFiles, CalendarInv, [CalendarNext]_calendarVars
  PROVE  CalendarInv'
<1>1. env \in DOMAIN ZoneFiles /\ IsLibrary(tz)
  BY DEF CalendarInv
<1>2. CASE UNCHANGED calendarVars
  BY <1>2 DEF CalendarInv, calendarVars, IsLibrary, TmShows, Inverts
<1>3. ASSUME NEW name \in DOMAIN ZoneFiles, Setenv(name) PROVE CalendarInv'
  <2>1. env' \in DOMAIN ZoneFiles /\ tz' = tz /\ call' = call
    BY <1>3 DEF Setenv
  <2>2. QED
    BY <2>1 DEF CalendarInv, IsLibrary, TmShows, Inverts
<1>4. ASSUME NEW memory \in Nat, Tzset(memory) PROVE CalendarInv'
  <2>1. tz' = tzset(tz, ZoneFiles[env], memory) /\ env' = env /\ call' = [op |-> "none"]
    BY <1>4 DEF Tzset, NoCall
  <2>2. IsLibrary(tz')
    BY <1>1, <2>1, TzsetKeeps
  <2>3. call'.op = "none"
    BY <2>1
  <2>4. QED
    BY <1>1, <2>1, <2>2, <2>3 DEF CalendarInv
<1>5. ASSUME NEW time \in Int, NEW memory \in Nat, Localtime(time, memory) PROVE CalendarInv'
  <2>1. /\ tz' = Loaded(tz, memory) /\ env' = env
        /\ call' = [op |-> "localtime", time |-> time, tm |-> localtime(tz', time)]
    BY <1>5 DEF Localtime
  <2>2. IsLibrary(tz')
    BY <1>1, <2>1, LoadedKeeps
  <2>3. TmShows(tz', time, localtime(tz', time))
    BY <2>2, LocaltimeIs
  <2>4. call'.op = "localtime" /\ call'.time = time /\ call'.tm = localtime(tz', time)
    BY <2>1
  <2>5. QED
    BY <1>1, <2>1, <2>2, <2>3, <2>4 DEF CalendarInv, TmShows
<1>6. ASSUME NEW tm \in Fields, NEW memory \in Nat, Mktime(tm, memory) PROVE CalendarInv'
  <2> DEFINE z == Loaded(tz, memory)
  <2>1. PICK t \in mktime(z, tm) :
          /\ tz' = Loaded(z, memory) /\ env' = env
          /\ call' = [op |-> "mktime", given |-> tm, time |-> t, tm |-> localtime(tz', t)]
    BY <1>6 DEF Mktime
  <2>2. IsLibrary(z) /\ IsLibrary(tz') /\ tz'.db = z.db
    BY <1>1, <2>1, LoadedKeeps
  <2> HIDE DEF z
  <2>3. t \in Int /\ Inverts(z, tm, t)
    BY <2>1, <2>2, MktimeIs
  <2>4. TmShows(tz', t, localtime(tz', t))
    BY <2>2, <2>3, LocaltimeIs
  <2>5. /\ call'.op = "mktime" /\ call'.given = tm /\ call'.time = t
        /\ call'.tm = localtime(tz', t)
    BY <2>1
  <2>6. Inverts(tz', tm, t)
    BY <2>2, <2>3 DEF Inverts
  <2>7. QED
    BY <1>1, <2>1, <2>2, <2>4, <2>5, <2>6 DEF CalendarInv, TmShows, Inverts
<1>7. QED
  BY <1>2, <1>3, <1>4, <1>5, <1>6 DEF CalendarNext

LEMMA InvGivesLocalTime ==
  ASSUME CalendarInv
  PROVE  LocalTimeHolds
<1>1. ZoneIsHeld
  <2>1. tz.db # NoZone => Len(tz.db.trans) > 0
    <3>1. SUFFICES ASSUME tz.db # NoZone PROVE Len(tz.db.trans) > 0
      OBVIOUS
    <3>2. tz.db.trans \in Seq(Int) /\ tz.db.trans # <<>>
      BY <3>1 DEF CalendarInv, IsLibrary, CalmZone, IsZone
    <3>3. QED
      BY <3>2
  <2>2. QED
    BY <2>1 DEF CalendarInv, IsLibrary, ZoneIsHeld
<1>2. ShowsTheTime
  BY <1>1 DEF CalendarInv, TmShows, ShowsTheTime
<1>3. MktimeInverts
  BY DEF CalendarInv, Inverts, MktimeInverts
<1>4. QED
  BY <1>2, <1>3 DEF LocalTimeHolds

(* Local time is the date in force at the instant, in every zone, at every *)
(* instant, and mktime finds an instant at which the clock shows what the  *)
(* fields say whenever there is one: localtime.c, mktime.c, parser.c.      *)
THEOREM LocalTimeAlwaysHolds ==
  ASSUME CalmFiles
  PROVE  CalendarSpec => []LocalTimeHolds
<1>1. (\E name \in DOMAIN ZoneFiles : CalendarInit(name)) => CalendarInv
  BY CalendarInvInit
<1>2. CalendarInv /\ [CalendarNext]_calendarVars => CalendarInv'
  BY CalendarInvStep
<1>3. CalendarInv => LocalTimeHolds
  BY InvGivesLocalTime
<1>4. QED
  BY <1>1, <1>2, <1>3, PTL DEF CalendarSpec

-----------------------------------------------------------------------------
(* getopt: the command line a word at a time.                              *)

Word == Seq(STRING)
Rets == STRING \cup {"?", ":"}
Opts == [ret : Rets, optopt : STRING, optarg : Seq(Word)]
Readings == [next : Nat, list : Seq(Opts)]

\* Where reading a word at a time is over.
Over(words, x) == ~IsCluster(words, x.next) \/ IsEnd(words, x.next)

LEMMA LastLetterIs ==
  ASSUME NEW word \in Word, Len(word) > 1, NEW letters
  PROVE  /\ LastLetter(word, letters) \in 2 .. Len(word)
         /\ \A k \in 2 .. LastLetter(word, letters) - 1 : ~TakesArgument(letters, word[k])
         /\ LastLetter(word, letters) < Len(word)
              => TakesArgument(letters, word[LastLetter(word, letters)])
<1> DEFINE T == {k \in 2 .. Len(word) : TakesArgument(letters, word[k])} \cup {Len(word)}
<1>1. T \subseteq 2 .. Len(word) /\ Len(word) \in T /\ T \subseteq Nat
  OBVIOUS
<1>2. \A k \in T : k = Len(word) \/ TakesArgument(letters, word[k])
  OBVIOUS
<1>3. \A k \in 2 .. Len(word) : TakesArgument(letters, word[k]) => k \in T
  OBVIOUS
<1>4. LastLetter(word, letters) = Min(T)
  BY Zenon DEF LastLetter
<1> HIDE DEF T
<1>5. PICK n \in T : \A m \in T : n <= m
  BY <1>1, LeastNat
<1>6. Min(T) \in T /\ \A m \in T : Min(T) <= m
  BY <1>5 DEF Min
<1>7. PICK e \in 2 .. Len(word) : e = Min(T) /\ \A m \in T : e <= m
  BY <1>1, <1>6
<1>8. \A k \in 2 .. e - 1 : ~TakesArgument(letters, word[k])
  BY <1>3, <1>7
<1>9. e < Len(word) => TakesArgument(letters, word[e])
  BY <1>2, <1>6, <1>7
<1>10. QED
  BY <1>4, <1>7, <1>8, <1>9

\* A word of options, and what it gives.
LEMMA ClusterIs ==
  ASSUME NEW words \in Seq(Word), NEW i \in Nat, IsCluster(words, i)
  PROVE  /\ i + 1 \in 1 .. Len(words) /\ WordOf(words, i) \in Word
         /\ Len(WordOf(words, i)) > 1
<1>1. i + 1 \in 1 .. Len(words) /\ Len(WordOf(words, i)) > 1
  BY DEF IsCluster
<1>2. WordOf(words, i) \in Word
  BY <1>1, ElementOfSeq DEF WordOf
<1>3. QED
  BY <1>1, <1>2

LEMMA OptionAtIs ==
  ASSUME NEW words \in Seq(Word), NEW letters \in Word, NEW i \in Nat, IsCluster(words, i),
         NEW k \in 2 .. Len(WordOf(words, i))
  PROVE  OptionAt(words, letters, i, k) \in Opts
<1> DEFINE word == WordOf(words, i)
           c == word[k]
<1>1. word \in Word /\ c \in STRING
  <2>1. word \in Seq(STRING) /\ k \in 1 .. Len(word)
    BY ClusterIs DEF Word
  <2>2. QED
    BY <2>1, ElementOfSeq DEF Word
<1>2. To(SubSeq(word, k + 1, Len(word))) \in Seq(Word) /\ Null \in Seq(Word)
  <2>1. SubSeq(word, k + 1, Len(word)) \in Seq(STRING)
    BY <1>1 DEF Word
  <2>2. QED
    BY <2>1 DEF To, Null, Word
<1>3. i + 1 < Len(words) => To(WordOf(words, i + 1)) \in Seq(Word)
  <2>1. SUFFICES ASSUME i + 1 < Len(words) PROVE To(WordOf(words, i + 1)) \in Seq(Word)
    OBVIOUS
  <2>2. i + 1 + 1 \in 1 .. Len(words)
    BY <2>1
  <2>3. words[i + 1 + 1] \in Word
    BY <2>2, ElementOfSeq
  <2>4. QED
    BY <2>3 DEF To, WordOf
<1>4. Missing(letters) \in Rets /\ "?" \in Rets /\ c \in Rets
  <2>1. Missing(letters) = ":" \/ Missing(letters) = "?"
    BY DEF Missing
  <2>2. QED
    BY <1>1, <2>1 DEF Rets
<1> HIDE DEF word, c
<1>5. \A ret \in Rets, arg \in Seq(Word) : Option(ret, c, arg) \in Opts
  BY <1>1 DEF Option, Opts
<1>6. OptionAt(words, letters, i, k) =
        IF ~Known(letters, c) THEN Option("?", c, Null)
        ELSE IF ~NeedsArgument(letters, c) THEN Option(c, c, Null)
        ELSE IF k < Len(word) THEN Option(c, c, To(SubSeq(word, k + 1, Len(word))))
        ELSE IF i + 1 < Len(words) THEN Option(c, c, To(WordOf(words, i + 1)))
        ELSE Option(Missing(letters), c, Null)
  BY Zenon DEF OptionAt, word, c
<1>7. QED
  <2>1. Option("?", c, Null) \in Opts /\ Option(c, c, Null) \in Opts
    BY <1>2, <1>4, <1>5
  <2>2. Option(c, c, To(SubSeq(word, k + 1, Len(word)))) \in Opts
    BY <1>2, <1>4, <1>5
  <2>3. i + 1 < Len(words) => Option(c, c, To(WordOf(words, i + 1))) \in Opts
    BY <1>3, <1>4, <1>5
  <2>4. Option(Missing(letters), c, Null) \in Opts
    BY <1>2, <1>4, <1>5
  <2>5. QED
    BY <1>6, <2>1, <2>2, <2>3, <2>4, Zenon

LEMMA OptionsOfIs ==
  ASSUME NEW words \in Seq(Word), NEW letters \in Word, NEW i \in Nat, IsCluster(words, i)
  PROVE  /\ OptionsOf(words, letters, i) \in Seq(Opts)
         /\ Len(OptionsOf(words, letters, i)) = LastLetter(WordOf(words, i), letters) - 1
         /\ \A k \in 1 .. LastLetter(WordOf(words, i), letters) - 1 :
              OptionsOf(words, letters, i)[k] = OptionAt(words, letters, i, k + 1)
<1>1. WordOf(words, i) \in Word /\ Len(WordOf(words, i)) > 1
  BY ClusterIs
<1>2. PICK e \in 2 .. Len(WordOf(words, i)) : e = LastLetter(WordOf(words, i), letters)
  BY <1>1, LastLetterIs
<1>3. e - 1 \in Nat /\ \A k \in 1 .. e - 1 : k + 1 \in 2 .. Len(WordOf(words, i))
  BY <1>1, <1>2
<1>4. \A k \in 1 .. e - 1 : OptionAt(words, letters, i, k + 1) \in Opts
  BY <1>3, OptionAtIs
<1>5. OptionsOf(words, letters, i) = [k \in 1 .. e - 1 |-> OptionAt(words, letters, i, k + 1)]
  BY <1>2, Zenon DEF OptionsOf
<1>6. QED
  BY <1>2, <1>3, <1>4, <1>5


LEMMA HeadIs ==
  ASSUME NEW S, NEW c \in Seq(S)
  PROVE  (c = <<>> <=> Len(c) = 0) /\ (Len(c) > 0 => Head(c) = c[1])
OBVIOUS

\* A letter of a word: the last one it gives, or one that takes no argument.
LetterPlace(words, letters, i, word, j, cluster) ==
  /\ cluster # <<>> /\ j + 1 \in 2 .. Len(word)
  /\ Head(cluster) = word[j + 1] /\ Tail(cluster) = SubSeq(word, j + 2, Len(word))
  /\ Tail(cluster) = <<>> <=> j + 1 = Len(word)
  /\ TakesArgument(letters, word[j + 1]) =>
       /\ j + 1 = LastLetter(word, letters)
       /\ TakesNext(words, letters, i) <=> j + 1 = Len(word) /\ i + 1 < Len(words)
  /\ ~TakesArgument(letters, word[j + 1]) =>
       IF j + 1 = Len(word)
       THEN j + 1 = LastLetter(word, letters) /\ ~TakesNext(words, letters, i)
       ELSE j + 1 \in 2 .. LastLetter(word, letters) - 1

LEMMA LetterIs ==
  ASSUME NEW words \in Seq(Word), NEW letters \in Word, NEW i \in Nat, IsCluster(words, i),
         NEW word, word = WordOf(words, i),
         NEW j \in 1 .. LastLetter(word, letters) - 1,
         NEW cluster, cluster = SubSeq(word, j + 1, Len(word))
  PROVE  LetterPlace(words, letters, i, word, j, cluster)
<1>1. word \in Seq(STRING) /\ Len(word) > 1 /\ Len(word) \in Nat
  BY ClusterIs DEF Word
<1>2. PICK e \in 2 .. Len(word) :
        /\ e = LastLetter(word, letters)
        /\ \A k \in 2 .. e - 1 : ~TakesArgument(letters, word[k])
        /\ e < Len(word) => TakesArgument(letters, word[e])
  BY <1>1, LastLetterIs DEF Word
<1>3. PICK n \in Nat : n = Len(word) /\ e \in 2 .. n /\ j \in 1 .. e - 1
  BY <1>1, <1>2
<1>4. cluster \in Seq(STRING) /\ Len(cluster) = n - j /\ cluster # <<>>
      /\ Head(cluster) = word[j + 1]
  <2>1. cluster \in Seq(STRING) /\ Len(cluster) = n - j
    BY <1>1, <1>3
  <2>2. n - j > 0 /\ n - j \in Nat
    BY <1>3
  <2>3. cluster[1] = word[j + 1]
    BY <1>1, <1>3, <2>2
  <2>4. cluster # <<>> /\ Head(cluster) = cluster[1]
    <3>1. PICK m \in Nat : m = n - j /\ Len(cluster) = m /\ m > 0
      BY <2>1, <2>2
    <3>2. cluster \in Seq(STRING) /\ Len(cluster) > 0 /\ Len(cluster) # 0
      BY <2>1, <3>1
    <3>3. QED
      BY <3>2, HeadIs
  <2>5. QED
    BY <2>1, <2>3, <2>4
<1>5. Tail(cluster) = SubSeq(word, j + 2, n) /\ Len(Tail(cluster)) = n - (j + 1)
  <2>1. Tail(cluster) \in Seq(STRING) /\ Len(Tail(cluster)) = n - (j + 1)
    BY <1>3, <1>4
  <2>2. SubSeq(word, j + 2, n) \in Seq(STRING) /\ Len(SubSeq(word, j + 2, n)) = n - (j + 1)
    BY <1>1, <1>3
  <2>3. ASSUME NEW k \in 1 .. n - (j + 1) PROVE Tail(cluster)[k] = SubSeq(word, j + 2, n)[k]
    <3>1. k + 1 \in 1 .. n - j
      BY <1>3
    <3>2. Tail(cluster)[k] = cluster[k + 1]
      BY <1>4, <2>1
    <3>3. cluster[k + 1] = word[j + 1 + (k + 1) - 1]
      BY <1>1, <1>3, <3>1
    <3>4. SubSeq(word, j + 2, n)[k] = word[j + 2 + k - 1]
      BY <1>1, <1>3
    <3>5. j + 1 + (k + 1) - 1 = j + 2 + k - 1
      BY <1>3
    <3>6. QED
      BY <3>2, <3>3, <3>4, <3>5
  <2>4. QED
    BY <2>1, <2>2, <2>3, SeqEqual
<1>6. Tail(cluster) = <<>> <=> j + 1 = n
  <2>1. Tail(cluster) \in Seq(STRING)
    BY <1>4
  <2>2. Tail(cluster) = <<>> <=> Len(Tail(cluster)) = 0
    BY <2>1, HeadIs
  <2>3. n - (j + 1) = 0 <=> j + 1 = n
    BY <1>3
  <2>4. QED
    BY <1>5, <2>2, <2>3
<1>7. TakesArgument(letters, word[j + 1]) => j + 1 = e
  <2>1. j + 1 \in 2 .. e - 1 \/ j + 1 = e
    BY <1>3
  <2>2. QED
    BY <1>2, <2>1
<1>8. TakesNext(words, letters, i) <=>
        e = n /\ TakesArgument(letters, word[n]) /\ i + 1 < Len(words)
  BY <1>2, <1>3, Zenon DEF TakesNext
<1>9. ASSUME ~TakesArgument(letters, word[j + 1])
      PROVE  IF j + 1 = n THEN j + 1 = e /\ ~TakesNext(words, letters, i)
             ELSE j + 1 \in 2 .. e - 1
  <2>1. j + 1 = e => e = n
    BY <1>2, <1>3, <1>9
  <2>2. QED
    BY <1>3, <1>8, <1>9, <2>1
<1>10. j + 1 \in 2 .. n
  BY <1>3
<1>11. TakesArgument(letters, word[j + 1]) =>
         /\ j + 1 = e
         /\ TakesNext(words, letters, i) <=> j + 1 = n /\ i + 1 < Len(words)
  <2>1. SUFFICES ASSUME TakesArgument(letters, word[j + 1])
                 PROVE  /\ j + 1 = e
                        /\ TakesNext(words, letters, i) <=> j + 1 = n /\ i + 1 < Len(words)
    OBVIOUS
  <2>2. j + 1 = e
    BY <1>7, <2>1
  <2>3. QED
    BY <1>8, <2>1, <2>2
<1>12. QED
  BY <1>2, <1>3, <1>4, <1>5, <1>6, <1>9, <1>10, <1>11, Zenon DEF LetterPlace

-----------------------------------------------------------------------------
(* Reading from word to word.                                              *)

LEMMA ReadWordIs ==
  ASSUME NEW words \in Seq(Word), NEW letters \in Word, NEW x \in Readings
  PROVE  /\ ReadWord(words, letters, x) \in Readings
         /\ Over(words, x) => ReadWord(words, letters, x) = x
         /\ ~Over(words, x) =>
              /\ IsCluster(words, x.next) /\ ~IsEnd(words, x.next)
              /\ ReadWord(words, letters, x).next
                    = x.next + IF TakesNext(words, letters, x.next) THEN 2 ELSE 1
              /\ ReadWord(words, letters, x).list = x.list \o OptionsOf(words, letters, x.next)
<1>1. x.next \in Nat /\ x.list \in Seq(Opts)
  BY DEF Readings
<1>2. CASE Over(words, x)
  <2>1. ReadWord(words, letters, x) = x
    BY <1>2 DEF ReadWord, Over
  <2>2. QED
    BY <1>2, <2>1
<1>3. CASE ~Over(words, x)
  <2>1. IsCluster(words, x.next) /\ ~IsEnd(words, x.next)
    BY <1>3 DEF Over
  <2>2. PICK d \in {1, 2} : d = IF TakesNext(words, letters, x.next) THEN 2 ELSE 1
    OBVIOUS
  <2>3. PICK o \in Seq(Opts) : o = OptionsOf(words, letters, x.next)
    BY <1>1, <2>1, OptionsOfIs
  <2>4. ReadWord(words, letters, x) = [next |-> x.next + d, list |-> x.list \o o]
    BY <2>1, <2>2, <2>3, Zenon DEF ReadWord
  <2>5. x.next + d \in Nat /\ x.list \o o \in Seq(Opts)
    BY <1>1, <2>2, <2>3
  <2>6. QED
    BY <1>3, <2>1, <2>2, <2>3, <2>4, <2>5 DEF Readings
<1>4. QED
  BY <1>2, <1>3

\* The readings of a command line, one word after another.
IsReading(f, words, letters) ==
  /\ f \in [0 .. Len(words) -> Readings]
  /\ f[0] = [next |-> 1, list |-> <<>>]
  /\ \A k \in 1 .. Len(words) : f[k] = ReadWord(words, letters, f[k - 1])
  /\ ReadAll(words, letters) = f[Len(words)]

LEMMA ReadAllIs ==
  ASSUME NEW words \in Seq(Word), NEW letters \in Word
  PROVE  \E f : IsReading(f, words, letters)
<1> DEFINE z == [next |-> 1, list |-> <<>>]
           w == Len(words)
           Turn == [x \in Readings |-> ReadWord(words, letters, x)]
           Step == [k \in 1 .. w |-> Turn]
           Is(g) == g = [k \in 0 .. w |->
                           IF k = 0 THEN z ELSE ReadWord(words, letters, g[k - 1])]
<1>1. w \in Nat
  OBVIOUS
<1>2. z \in Readings
  BY DEF Readings
<1>3. Turn \in [Readings -> Readings] /\ \A x \in Readings : Turn[x] = ReadWord(words, letters, x)
  BY ReadWordIs
<1> HIDE DEF Turn
<1>4. StepsIn(Step, Readings, w) /\ \A k \in 1 .. w : Step[k] = Turn
  BY <1>3 DEF StepsIn
<1> HIDE DEF Step, z, w
<1>5. \A f : RunOf(f, Step, z, Readings, w) =>
        \A k \in 1 .. w : f[k] = ReadWord(words, letters, f[k - 1])
  <2>1. SUFFICES ASSUME NEW f, RunOf(f, Step, z, Readings, w), NEW k \in 1 .. w
                 PROVE  f[k] = ReadWord(words, letters, f[k - 1])
    OBVIOUS
  <2>2. k - 1 \in 0 .. w
    BY <1>1
  <2>3. f[k - 1] \in Readings /\ f[k] = Turn[f[k - 1]]
    BY <1>4, <2>1, <2>2 DEF RunOf
  <2>4. QED
    BY <1>3, <2>3
<1>6. \E f : Is(f)
  <2>1. PICK f : RunOf(f, Step, z, Readings, w)
    BY <1>1, <1>2, <1>4, StepsDefine
  <2>2. \A k \in 0 .. w : k = 0 \/ k \in 1 .. w
    BY <1>1
  <2>3. f \in [0 .. w -> Readings] /\ f[0] = z
    BY <2>1 DEF RunOf
  <2>4. \A k \in 0 .. w : f[k] = IF k = 0 THEN z ELSE ReadWord(words, letters, f[k - 1])
    BY <1>5, <2>1, <2>2, <2>3
  <2>5. QED
    BY <2>3, <2>4
<1> DEFINE f == CHOOSE g : Is(g)
<1>7. ReadAll(words, letters) = f[w]
  BY Zenon DEF ReadAll, z, w
<1>8. Is(f)
  BY <1>6
<1> HIDE DEF f
<1>9. f[0] = z /\ \A k \in 1 .. w : f[k] = ReadWord(words, letters, f[k - 1])
  <2>1. \A k \in 1 .. w : k \in 0 .. w /\ k # 0
    BY <1>1
  <2>2. 0 \in 0 .. w
    BY <1>1
  <2>3. QED
    BY <1>8, <2>1, <2>2
<1> DEFINE In == {k \in 0 .. w : f[k] \in Readings}
<1>10. \A k \in 0 .. w : k \in In
  <2>1. In \subseteq 0 .. w /\ 0 \in In
    BY <1>1, <1>2, <1>9
  <2>2. ASSUME NEW k \in 1 .. w, k - 1 \in In PROVE k \in In
    <3>1. f[k - 1] \in Readings /\ k \in 0 .. w
      BY <1>1, <2>2
    <3>2. f[k] \in Readings
      BY <1>9, <3>1, ReadWordIs
    <3>3. QED
      BY <3>1, <3>2
  <2> HIDE DEF In
  <2>3. QED
    BY <1>1, <2>1, <2>2, UpTo
<1>11. f \in [0 .. w -> Readings]
  BY <1>8, <1>10
<1>12. QED
  BY <1>7, <1>9, <1>11 DEF IsReading, z, w

LEMMA PrefixIs ==
  ASSUME NEW S, NEW s \in Seq(S), NEW t \in Seq(S)
  PROVE  IsPrefix(s, t) <=> Len(s) <= Len(t) /\ \A i \in 1 .. Len(s) : s[i] = t[i]
<1>1. PICK n \in Nat : n = Len(s)
  OBVIOUS
<1>2. SubSeq(s, 1, n) \in Seq(S) /\ Len(SubSeq(s, 1, n)) = n
      /\ \A i \in 1 .. n : SubSeq(s, 1, n)[i] = s[i]
  BY <1>1
<1>3. n <= Len(t) => /\ SubSeq(t, 1, n) \in Seq(S) /\ Len(SubSeq(t, 1, n)) = n
                     /\ \A i \in 1 .. n : SubSeq(t, 1, n)[i] = t[i]
  BY <1>1
<1>4. ASSUME n <= Len(t)
      PROVE  SubSeq(s, 1, n) = SubSeq(t, 1, n) <=> \A i \in 1 .. n : s[i] = t[i]
  <2>1. PICK a, b : a = SubSeq(s, 1, n) /\ b = SubSeq(t, 1, n)
    OBVIOUS
  <2>2. a \in Seq(S) /\ Len(a) = n /\ \A i \in 1 .. n : a[i] = s[i]
    BY <1>2, <2>1
  <2>3. b \in Seq(S) /\ Len(b) = n /\ \A i \in 1 .. n : b[i] = t[i]
    BY <1>3, <1>4, <2>1
  <2>4. a = b => \A i \in 1 .. n : s[i] = t[i]
    BY <2>2, <2>3
  <2>5. (\A i \in 1 .. n : s[i] = t[i]) => a = b
    <3>1. SUFFICES ASSUME \A i \in 1 .. n : s[i] = t[i] PROVE a = b
      OBVIOUS
    <3>2. \A i \in 1 .. Len(a) : a[i] = b[i]
      BY <2>2, <2>3, <3>1
    <3>3. QED
      BY <2>2, <2>3, <3>2, SeqEqual
  <2>6. QED
    BY <2>1, <2>4, <2>5
<1>5. IsPrefix(s, t) <=> n <= Len(t) /\ SubSeq(s, 1, n) = SubSeq(t, 1, n)
  BY <1>1 DEF IsPrefix
<1>6. QED
  BY <1>1, <1>4, <1>5

\* Reading goes on to the end of the words at most, and adds to what was read.
LEMMA ReadingGoesOn ==
  ASSUME NEW words \in Seq(Word), NEW letters \in Word,
         NEW f, IsReading(f, words, letters), NEW k \in 0 .. Len(words)
  PROVE  /\ f[k] \in Readings /\ f[k].next >= 1
         /\ ~Over(words, f[k]) => k + 1 \in 1 .. Len(words)
         /\ Over(words, f[k]) => f[Len(words)] = f[k]
         /\ IsPrefix(f[k].list, f[Len(words)].list)
<1>1. PICK w \in Nat : w = Len(words)
  OBVIOUS
<1>2. /\ \A m \in 0 .. w : f[m] \in Readings /\ f[m].next \in Nat /\ f[m].list \in Seq(Opts)
      /\ f[0].next = 1
      /\ \A m \in 1 .. w : f[m] = ReadWord(words, letters, f[m - 1])
  <2>1. /\ f \in [0 .. w -> Readings] /\ f[0] = [next |-> 1, list |-> <<>>]
        /\ \A m \in 1 .. w : f[m] = ReadWord(words, letters, f[m - 1])
    BY <1>1 DEF IsReading
  <2>2. \A m \in 0 .. w : f[m] \in Readings
    BY <2>1
  <2>3. \A x \in Readings : x.next \in Nat /\ x.list \in Seq(Opts)
    BY DEF Readings
  <2>4. f[0].next = 1
    BY <2>1
  <2>5. QED
    BY <2>1, <2>2, <2>3, <2>4
<1>3. ASSUME NEW m \in 1 .. w
      PROVE  /\ Over(words, f[m - 1]) => f[m] = f[m - 1]
             /\ ~Over(words, f[m - 1]) =>
                  /\ f[m].next >= f[m - 1].next + 1
                  /\ \E o \in Seq(Opts) : f[m].list = f[m - 1].list \o o
  <2>1. m - 1 \in 0 .. w /\ f[m - 1] \in Readings /\ f[m - 1].next \in Nat
    BY <1>1, <1>2
  <2>2. f[m] = ReadWord(words, letters, f[m - 1])
    BY <1>2
  <2>3. Over(words, f[m - 1]) => f[m] = f[m - 1]
    BY <2>1, <2>2, ReadWordIs
  <2>4. ASSUME ~Over(words, f[m - 1])
        PROVE  /\ f[m].next >= f[m - 1].next + 1
               /\ \E o \in Seq(Opts) : f[m].list = f[m - 1].list \o o
    <3>1. /\ IsCluster(words, f[m - 1].next)
          /\ f[m].next = f[m - 1].next + IF TakesNext(words, letters, f[m - 1].next) THEN 2 ELSE 1
          /\ f[m].list = f[m - 1].list \o OptionsOf(words, letters, f[m - 1].next)
      <4>1. PICK x \in Readings : x = f[m - 1]
        BY <2>1
      <4>2. ~Over(words, x) /\ f[m] = ReadWord(words, letters, x)
        BY <2>2, <2>4, <4>1
      <4>3. /\ IsCluster(words, x.next)
            /\ ReadWord(words, letters, x).next
                  = x.next + IF TakesNext(words, letters, x.next) THEN 2 ELSE 1
            /\ ReadWord(words, letters, x).list
                  = x.list \o OptionsOf(words, letters, x.next)
        BY <4>2, ReadWordIs
      <4>4. QED
        BY <4>1, <4>2, <4>3, Zenon
    <3>2. OptionsOf(words, letters, f[m - 1].next) \in Seq(Opts)
      BY <2>1, <3>1, OptionsOfIs
    <3>3. f[m].next >= f[m - 1].next + 1
      BY <2>1, <3>1
    <3>4. QED
      BY <3>1, <3>2, <3>3
  <2>5. QED
    BY <2>3, <2>4
<1> DEFINE Far == {m \in 0 .. w : f[m].next >= 1 /\ (Over(words, f[m]) \/ f[m].next >= m + 1)}
<1>4. \A m \in 0 .. w : m \in Far
  <2>1. Far \subseteq 0 .. w /\ 0 \in Far
    BY <1>1, <1>2
  <2>2. ASSUME NEW m \in 1 .. w, m - 1 \in Far PROVE m \in Far
    <3>1. m \in 0 .. w /\ m - 1 \in 0 .. w /\ f[m].next \in Nat /\ f[m - 1].next \in Nat
      BY <1>1, <1>2
    <3>2. f[m - 1].next >= 1 /\ (Over(words, f[m - 1]) \/ f[m - 1].next >= m - 1 + 1)
      BY <2>2
    <3>3. CASE Over(words, f[m - 1])
      BY <1>3, <3>1, <3>2, <3>3
    <3>4. CASE ~Over(words, f[m - 1])
      <4>1. f[m].next >= f[m - 1].next + 1
        BY <1>3, <3>4
      <4>2. f[m].next >= 1 /\ f[m].next >= m + 1
        BY <3>1, <3>2, <3>4, <4>1
      <4>3. QED
        BY <3>1, <4>2
    <3>5. QED
      BY <3>3, <3>4
  <2> HIDE DEF Far
  <2>3. QED
    BY <1>1, <2>1, <2>2, UpTo
<1>5. f[k].next >= 1 /\ (Over(words, f[k]) \/ f[k].next >= k + 1)
  BY <1>1, <1>4
<1>6. ~Over(words, f[k]) => k + 1 \in 1 .. w
  <2>1. SUFFICES ASSUME ~Over(words, f[k]) PROVE k + 1 \in 1 .. w
    OBVIOUS
  <2>2. f[k].next < w
    BY <1>1, <2>1 DEF Over, IsCluster
  <2>3. f[k].next \in Nat
    BY <1>1, <1>2
  <2>4. QED
    BY <1>1, <1>5, <2>1, <2>2, <2>3
<1> DEFINE Stays == {m \in 0 .. w : m < k \/ f[m] = f[k]}
<1>7. Over(words, f[k]) => f[w] = f[k]
  <2>1. SUFFICES ASSUME Over(words, f[k]) PROVE f[w] = f[k]
    OBVIOUS
  <2>2. Stays \subseteq 0 .. w /\ 0 \in Stays
    BY <1>1
  <2>3. ASSUME NEW m \in 1 .. w, m - 1 \in Stays PROVE m \in Stays
    <3>1. m \in 0 .. w /\ (m - 1 < k \/ f[m - 1] = f[k])
      BY <1>1, <2>3
    <3>2. CASE m - 1 < k
      BY <1>1, <3>1, <3>2
    <3>3. CASE f[m - 1] = f[k]
      BY <1>3, <2>1, <3>1, <3>3
    <3>4. QED
      BY <3>1, <3>2, <3>3
  <2>4. \A m \in 0 .. w : m \in Stays
    <3> HIDE DEF Stays
    <3>1. QED
      BY <1>1, <2>2, <2>3, UpTo
  <2>5. w \in Stays
    BY <1>1, <2>4
  <2>6. QED
    BY <1>1, <2>5
<1> DEFINE Adds == {m \in 0 .. w : m < k \/ IsPrefix(f[k].list, f[m].list)}
<1>8. IsPrefix(f[k].list, f[w].list)
  <2>1. PICK s \in Seq(Opts) : s = f[k].list
    BY <1>1, <1>2
  <2>2. IsPrefix(s, s)
    BY PrefixIs
  <2>3. Adds \subseteq 0 .. w /\ 0 \in Adds
    BY <1>1, <2>1, <2>2
  <2>4. ASSUME NEW m \in 1 .. w, m - 1 \in Adds PROVE m \in Adds
    <3>1. m \in 0 .. w /\ m - 1 \in 0 .. w /\ (m - 1 < k \/ IsPrefix(s, f[m - 1].list))
      BY <1>1, <2>1, <2>4
    <3>2. CASE m - 1 < k
      BY <1>1, <2>1, <2>2, <3>1, <3>2
    <3>3. CASE IsPrefix(s, f[m - 1].list)
      <4>1. CASE Over(words, f[m - 1])
        BY <1>3, <2>1, <3>1, <3>3, <4>1
      <4>2. CASE ~Over(words, f[m - 1])
        <5>1. PICK o \in Seq(Opts) : f[m].list = f[m - 1].list \o o
          BY <1>3, <4>2
        <5>2. PICK t \in Seq(Opts) : t = f[m - 1].list
          BY <1>2, <3>1
        <5>3. IsPrefix(s, t \o o)
          <6>1. Len(s) <= Len(t) /\ \A i \in 1 .. Len(s) : s[i] = t[i]
            BY <3>3, <5>2, PrefixIs
          <6>2. t \o o \in Seq(Opts) /\ Len(t \o o) = Len(t) + Len(o)
                /\ \A i \in 1 .. Len(t) : (t \o o)[i] = t[i]
            BY ConcatProperties
          <6>3. Len(s) \in Nat /\ Len(t) \in Nat /\ Len(o) \in Nat
            OBVIOUS
          <6>4. Len(s) <= Len(t \o o) /\ \A i \in 1 .. Len(s) : s[i] = (t \o o)[i]
            BY <6>1, <6>2, <6>3
          <6>5. QED
            BY <6>2, <6>4, PrefixIs
        <5>4. QED
          BY <2>1, <3>1, <5>1, <5>2, <5>3
      <4>3. QED
        BY <4>1, <4>2
    <3>4. QED
      BY <3>1, <3>2, <3>3
  <2>5. \A m \in 0 .. w : m \in Adds
    <3> HIDE DEF Adds
    <3>1. QED
      BY <1>1, <2>3, <2>4, UpTo
  <2>6. w \in Adds
    BY <1>1, <2>5
  <2>7. QED
    BY <1>1, <2>6
<1>9. QED
  BY <1>1, <1>2, <1>5, <1>6, <1>7, <1>8

-----------------------------------------------------------------------------
(* In the middle of a word.                                                *)

\* Of the options o of a word, the first m are behind those of the list.
ReadOf(given, list, o, m) ==
  /\ Len(given) = Len(list) + m
  /\ \A i \in 1 .. Len(list) : given[i] = list[i]
  /\ \A i \in 1 .. m : given[Len(list) + i] = o[i]

LEMMA ReadNone ==
  ASSUME NEW S, NEW list \in Seq(S), NEW o \in Seq(S)
  PROVE  ReadOf(list, list, o, 0)
BY DEF ReadOf

LEMMA ReadOneMore ==
  ASSUME NEW S, NEW list \in Seq(S), NEW o \in Seq(S), NEW m \in 1 .. Len(o),
         NEW given \in Seq(S), ReadOf(given, list, o, m - 1),
         NEW next, next = Append(given, o[m])
  PROVE  next \in Seq(S) /\ ReadOf(next, list, o, m)
<1>1. PICK y \in S : y = o[m]
  OBVIOUS
<1>2. PICK n \in Nat : n = Len(list) /\ Len(given) = n + (m - 1) /\ m \in Nat /\ m >= 1
  BY DEF ReadOf
<1>3. /\ next \in Seq(S) /\ Len(next) = n + (m - 1) + 1 /\ next[n + (m - 1) + 1] = y
      /\ \A i \in 1 .. n + (m - 1) : next[i] = given[i]
  BY <1>1, <1>2, AppendProperties
<1>4. n + (m - 1) + 1 = n + m
  BY <1>2
<1>5. \A i \in 1 .. n : next[i] = list[i]
  BY <1>2, <1>3 DEF ReadOf
<1>6. ASSUME NEW i \in 1 .. m PROVE next[n + i] = o[i]
  <2>1. CASE i = m
    BY <1>1, <1>3, <1>4, <2>1
  <2>2. CASE i # m
    <3>1. i \in 1 .. m - 1 /\ n + i \in 1 .. n + (m - 1)
      BY <1>2, <2>2
    <3>2. next[n + i] = given[n + i] /\ given[n + i] = o[i]
      BY <1>2, <1>3, <3>1 DEF ReadOf
    <3>3. QED
      BY <3>2
  <2>3. QED
    BY <2>1, <2>2
<1>7. QED
  BY <1>2, <1>3, <1>4, <1>5, <1>6 DEF ReadOf

LEMMA ReadAllOf ==
  ASSUME NEW S, NEW list \in Seq(S), NEW o \in Seq(S), NEW m \in 0 .. Len(o),
         NEW given \in Seq(S), ReadOf(given, list, o, m)
  PROVE  IsPrefix(given, list \o o) /\ (m = Len(o) => given = list \o o)
<1>1. PICK n \in Nat, l \in Nat : n = Len(list) /\ l = Len(o) /\ m \in 0 .. l
  OBVIOUS
<1>2. PICK u : u = list \o o
  OBVIOUS
<1>3. u \in Seq(S) /\ Len(u) = n + l /\ (\A i \in 1 .. n : u[i] = list[i])
      /\ \A i \in n + 1 .. n + l : u[i] = o[i - n]
  BY <1>1, <1>2, ConcatProperties
<1>4. Len(given) = n + m /\ (\A i \in 1 .. n : given[i] = list[i])
      /\ \A i \in 1 .. m : given[n + i] = o[i]
  BY <1>1 DEF ReadOf
<1>5. ASSUME NEW i \in 1 .. n + m PROVE given[i] = u[i]
  <2>1. CASE i \in 1 .. n
    BY <1>3, <1>4, <2>1
  <2>2. CASE i \notin 1 .. n
    <3>1. i - n \in 1 .. m /\ n + (i - n) = i /\ i \in n + 1 .. n + l
      BY <1>1, <2>2
    <3>2. u[i] = o[i - n]
      BY <1>3, <3>1
    <3>3. given[n + (i - n)] = o[i - n]
      BY <1>4, <3>1
    <3>4. QED
      BY <3>1, <3>2, <3>3
  <2>3. QED
    BY <2>1, <2>2
<1>6. IsPrefix(given, u)
  <2>1. n + m <= n + l
    BY <1>1
  <2>2. QED
    BY <1>3, <1>4, <1>5, <2>1, PrefixIs
<1>7. m = l => given = u
  <2>1. SUFFICES ASSUME m = l PROVE given = u
    OBVIOUS
  <2>2. Len(given) = Len(u) /\ \A i \in 1 .. Len(given) : given[i] = u[i]
    BY <1>3, <1>4, <1>5, <2>1
  <2>3. QED
    BY <1>3, <2>2, SeqEqual
<1>8. QED
  BY <1>1, <1>2, <1>6, <1>7

-----------------------------------------------------------------------------
(* The inductive invariant of getopt.                                      *)

\* Between two words, when x was read.
Between(words, x, ind, rest, given) ==
  /\ rest = <<>> /\ given = x.list
  /\ ind = x.next \/ (ind = 0 /\ x.next = 1)

\* After the last of them.
AtOperands(words, x, ind, rest, given) ==
  /\ rest = <<>> /\ given = x.list /\ Over(words, x)
  /\ ind = x.next + IF IsEnd(words, x.next) THEN 1 ELSE 0

\* In the word behind them, j - 1 of whose options have been given.
InWord(words, letters, x, ind, rest, given) ==
  /\ ~Over(words, x) /\ ind = x.next + 1
  /\ \E j \in 2 .. LastLetter(WordOf(words, x.next), letters) - 1 :
       /\ rest = SubSeq(WordOf(words, x.next), j + 1, Len(WordOf(words, x.next)))
       /\ ReadOf(given, x.list, OptionsOf(words, letters, x.next), j - 1)

AsRead(words, letters, x, ind, rest, given, done) ==
  IF done THEN AtOperands(words, x, ind, rest, given)
  ELSE \/ Between(words, x, ind, rest, given)
       \/ InWord(words, letters, x, ind, rest, given)

OptionsInv ==
  /\ argv \in Seq(Word) /\ optstring \in Word
  /\ options \in Seq(Opts) /\ ended \in BOOLEAN
  /\ \E f : /\ IsReading(f, argv, optstring)
            /\ \E k \in 0 .. Len(argv) :
                 AsRead(argv, optstring, f[k], optind, scan, options, ended)

\* What a letter of the word i does.
LEMMA LetterDoes ==
  ASSUME argv \in Seq(Word), optstring \in Word, NEW i \in Nat, IsCluster(argv, i),
         NEW word, word = WordOf(argv, i),
         NEW j \in 1 .. LastLetter(word, optstring) - 1,
         NEW cluster, cluster = SubSeq(word, j + 1, Len(word)),
         Letter(cluster, i + 1)
  PROVE  /\ argv' = argv /\ optstring' = optstring /\ ended' = ended
         /\ options' = Append(options, OptionAt(argv, optstring, i, j + 1))
         /\ scan' = IF TakesArgument(optstring, word[j + 1]) THEN <<>>
                    ELSE SubSeq(word, j + 2, Len(word))
         /\ optind' = i + IF TakesArgument(optstring, word[j + 1]) /\ TakesNext(argv, optstring, i)
                          THEN 2 ELSE 1
<1> DEFINE c == word[j + 1]
           rest == SubSeq(word, j + 2, Len(word))
<1>1. /\ Head(cluster) = c /\ Tail(cluster) = rest
      /\ rest = <<>> <=> j + 1 = Len(word)
      /\ TakesArgument(optstring, c) =>
           (TakesNext(argv, optstring, i) <=> j + 1 = Len(word) /\ i + 1 < Len(argv))
  <2>1. LetterPlace(argv, optstring, i, word, j, cluster)
    BY LetterIs
  <2>2. QED
    BY <2>1, Zenon DEF LetterPlace
<1>2. TakesArgument(optstring, c) <=> Known(optstring, c) /\ NeedsArgument(optstring, c)
  BY DEF TakesArgument
<1> DEFINE opt == OptionAt(argv, optstring, i, j + 1)
<1>3. /\ ~Known(optstring, c) => opt = Option("?", c, Null)
      /\ Known(optstring, c) /\ ~NeedsArgument(optstring, c) => opt = Option(c, c, Null)
      /\ TakesArgument(optstring, c) =>
           /\ j + 1 < Len(word) => opt = Option(c, c, To(rest))
           /\ ~(j + 1 < Len(word)) =>
                /\ i + 1 < Len(argv) => opt = Option(c, c, To(WordOf(argv, i + 1)))
                /\ ~(i + 1 < Len(argv)) => opt = Option(Missing(optstring), c, Null)
  <2>1. opt = IF ~Known(optstring, c) THEN Option("?", c, Null)
              ELSE IF ~NeedsArgument(optstring, c) THEN Option(c, c, Null)
              ELSE IF j + 1 < Len(word)
                   THEN Option(c, c, To(SubSeq(word, j + 1 + 1, Len(word))))
              ELSE IF i + 1 < Len(argv) THEN Option(c, c, To(WordOf(argv, i + 1)))
              ELSE Option(Missing(optstring), c, Null)
    BY DEF OptionAt
  <2>2. SubSeq(word, j + 1 + 1, Len(word)) = rest
    <3>1. j + 1 + 1 = j + 2
      OBVIOUS
    <3>2. QED
      BY <3>1
  <2> HIDE DEF opt, c, rest
  <2>3. QED
    BY <1>2, <2>1, <2>2
<1>4. j + 1 < Len(word) <=> rest # <<>>
  <2>1. j + 1 \in 2 .. Len(word) /\ Len(word) \in Nat
    <3>1. word \in Seq(STRING)
      BY ClusterIs DEF Word
    <3>2. LetterPlace(argv, optstring, i, word, j, cluster)
      BY LetterIs
    <3>3. j + 1 \in 2 .. Len(word)
      BY <3>2, Zenon DEF LetterPlace
    <3>4. QED
      BY <3>1, <3>3
  <2> HIDE DEF rest
  <2>2. QED
    BY <1>1, <2>1
<1> HIDE DEF opt, c, rest
<1>5. /\ argv' = argv /\ optstring' = optstring /\ ended' = ended
      /\ \/ /\ ~Known(optstring, c)
            /\ options' = Append(options, Option("?", c, Null))
            /\ scan' = rest /\ optind' = i + 1
         \/ /\ Known(optstring, c) /\ ~NeedsArgument(optstring, c)
            /\ options' = Append(options, Option(c, c, Null))
            /\ scan' = rest /\ optind' = i + 1
         \/ /\ TakesArgument(optstring, c) /\ rest # <<>>
            /\ options' = Append(options, Option(c, c, To(rest)))
            /\ scan' = <<>> /\ optind' = i + 1
         \/ /\ TakesArgument(optstring, c) /\ rest = <<>> /\ i + 1 < Len(argv)
            /\ options' = Append(options, Option(c, c, To(WordOf(argv, i + 1))))
            /\ scan' = <<>> /\ optind' = i + 1 + 1
         \/ /\ TakesArgument(optstring, c) /\ rest = <<>> /\ i + 1 >= Len(argv)
            /\ options' = Append(options, Option(Missing(optstring), c, Null))
            /\ scan' = rest /\ optind' = i + 1
  BY <1>1 DEF Letter, Gives, argc
<1>6. i + 1 + 1 = i + 2 /\ (i + 1 >= Len(argv) <=> ~(i + 1 < Len(argv)))
  OBVIOUS
<1>7. /\ options' = Append(options, opt)
      /\ scan' = IF TakesArgument(optstring, c) THEN <<>> ELSE rest
      /\ optind' = i + IF TakesArgument(optstring, c) /\ TakesNext(argv, optstring, i)
                       THEN 2 ELSE 1
  <2>1. CASE ~TakesArgument(optstring, c)
    <3>1. options' = Append(options, opt) /\ scan' = rest /\ optind' = i + 1
      BY <1>2, <1>3, <1>5, <2>1
    <3>2. QED
      BY <2>1, <3>1
  <2>2. CASE TakesArgument(optstring, c) /\ rest # <<>>
    <3>1. options' = Append(options, opt) /\ scan' = <<>> /\ optind' = i + 1
      BY <1>2, <1>3, <1>4, <1>5, <2>2
    <3>2. ~TakesNext(argv, optstring, i)
      BY <1>1, <2>2
    <3>3. QED
      BY <2>2, <3>1, <3>2
  <2>3. CASE TakesArgument(optstring, c) /\ rest = <<>> /\ i + 1 < Len(argv)
    <3>1. options' = Append(options, opt) /\ scan' = <<>> /\ optind' = i + 2
      BY <1>2, <1>3, <1>4, <1>5, <1>6, <2>3
    <3>2. TakesNext(argv, optstring, i)
      BY <1>1, <2>3
    <3>3. QED
      BY <2>3, <3>1, <3>2
  <2>4. CASE TakesArgument(optstring, c) /\ rest = <<>> /\ ~(i + 1 < Len(argv))
    <3>1. options' = Append(options, opt) /\ scan' = <<>> /\ optind' = i + 1
      BY <1>2, <1>3, <1>4, <1>5, <1>6, <2>4
    <3>2. ~TakesNext(argv, optstring, i)
      BY <1>1, <2>4
    <3>3. QED
      BY <2>4, <3>1, <3>2
  <2>5. QED
    BY <2>1, <2>2, <2>3, <2>4
<1>8. QED
  BY <1>5, <1>7 DEF opt, c, rest

\* A letter that is given keeps the place in the command line.
LEMMA LetterKeeps ==
  ASSUME OptionsInv, ~ended,
         NEW f, IsReading(f, argv, optstring), NEW k \in 0 .. Len(argv), ~Over(argv, f[k]),
         NEW word, word = WordOf(argv, f[k].next),
         NEW j \in 1 .. LastLetter(word, optstring) - 1,
         ReadOf(options, f[k].list, OptionsOf(argv, optstring, f[k].next), j - 1),
         Letter(SubSeq(word, j + 1, Len(word)), f[k].next + 1)
  PROVE  OptionsInv'
<1>1. /\ argv \in Seq(Word) /\ optstring \in Word /\ options \in Seq(Opts)
      /\ f[k] \in Readings
  BY ReadingGoesOn DEF OptionsInv
<1>2. PICK i \in Nat : i = f[k].next
  BY <1>1 DEF Readings
<1>3. PICK list \in Seq(Opts) : list = f[k].list
  BY <1>1 DEF Readings
<1>4. IsCluster(argv, i)
  BY <1>2 DEF Over
<1>5. PICK o \in Seq(Opts) :
        /\ o = OptionsOf(argv, optstring, i)
        /\ Len(o) = LastLetter(word, optstring) - 1
        /\ \A m \in 1 .. LastLetter(word, optstring) - 1 :
             o[m] = OptionAt(argv, optstring, i, m + 1)
  BY <1>1, <1>2, <1>4, OptionsOfIs
<1>6. word = WordOf(argv, i) /\ Letter(SubSeq(word, j + 1, Len(word)), i + 1)
      /\ ReadOf(options, list, o, j - 1)
  BY <1>2, <1>3, <1>5
<1>7. PICK cluster : cluster = SubSeq(word, j + 1, Len(word))
  OBVIOUS
<1>8. /\ argv' = argv /\ optstring' = optstring /\ ended' = ended
      /\ options' = Append(options, OptionAt(argv, optstring, i, j + 1))
      /\ scan' = IF TakesArgument(optstring, word[j + 1]) THEN <<>>
                 ELSE SubSeq(word, j + 2, Len(word))
      /\ optind' = i + IF TakesArgument(optstring, word[j + 1]) /\ TakesNext(argv, optstring, i)
                       THEN 2 ELSE 1
  BY <1>1, <1>4, <1>6, <1>7, LetterDoes
<1>9. /\ cluster # <<>> /\ j + 1 \in 2 .. Len(word)
      /\ Tail(cluster) = SubSeq(word, j + 2, Len(word))
      /\ Tail(cluster) = <<>> <=> j + 1 = Len(word)
      /\ TakesArgument(optstring, word[j + 1]) => j + 1 = LastLetter(word, optstring)
      /\ ~TakesArgument(optstring, word[j + 1]) =>
           IF j + 1 = Len(word)
           THEN j + 1 = LastLetter(word, optstring) /\ ~TakesNext(argv, optstring, i)
           ELSE j + 1 \in 2 .. LastLetter(word, optstring) - 1
  <2>1. LetterPlace(argv, optstring, i, word, j, cluster)
    BY <1>1, <1>4, <1>6, <1>7, LetterIs
  <2>2. QED
    BY <2>1, Zenon DEF LetterPlace
<1>10. j \in 1 .. Len(o) /\ options' = Append(options, o[j])
  BY <1>5, <1>8
<1>11. options' \in Seq(Opts) /\ ReadOf(options', list, o, j)
  BY <1>1, <1>6, <1>10, ReadOneMore
<1>12. CASE j + 1 = LastLetter(word, optstring)
  <2>1. j = Len(o)
    BY <1>5, <1>12
  <2>2. options' = list \o o
    <3>1. Len(o) \in Nat /\ j \in 0 .. Len(o)
      BY <1>10
    <3>2. QED
      BY <1>11, <2>1, <3>1, ReadAllOf
  <2>3. k + 1 \in 1 .. Len(argv) /\ k + 1 \in 0 .. Len(argv)
    BY <1>1, ReadingGoesOn
  <2>4. f[k + 1] = ReadWord(argv, optstring, f[k])
    BY <2>3 DEF IsReading
  <2>5. PICK x \in Readings : x = f[k] /\ ~Over(argv, x)
    BY <1>1
  <2>6. /\ ReadWord(argv, optstring, x).next
             = x.next + IF TakesNext(argv, optstring, x.next) THEN 2 ELSE 1
        /\ ReadWord(argv, optstring, x).list = x.list \o OptionsOf(argv, optstring, x.next)
    BY <1>1, <2>5, ReadWordIs
  <2>7. f[k + 1].next = i + (IF TakesNext(argv, optstring, i) THEN 2 ELSE 1)
        /\ f[k + 1].list = list \o o
    BY <1>2, <1>3, <1>5, <2>4, <2>5, <2>6
  <2>8. scan' = <<>>
    <3>1. CASE TakesArgument(optstring, word[j + 1])
      BY <1>8, <3>1
    <3>2. CASE ~TakesArgument(optstring, word[j + 1])
      <4>1. j + 1 = Len(word)
        BY <1>9, <1>12, <3>2
      <4>2. QED
        BY <1>8, <1>9, <3>2, <4>1
    <3>3. QED
      BY <3>1, <3>2
  <2>9. optind' = f[k + 1].next /\ options' = f[k + 1].list
    <3>1. ~TakesArgument(optstring, word[j + 1]) => ~TakesNext(argv, optstring, i)
      BY <1>9, <1>12
    <3>2. QED
      BY <1>8, <2>2, <2>7, <3>1
  <2>10. AsRead(argv, optstring, f[k + 1], optind', scan', options', ended)
    BY <2>8, <2>9 DEF AsRead, Between
  <2>11. IsReading(f, argv', optstring')
         /\ AsRead(argv', optstring', f[k + 1], optind', scan', options', ended')
    BY <1>8, <2>10
  <2>12. QED
    BY <1>1, <1>8, <1>11, <2>3, <2>11 DEF OptionsInv
<1>13. CASE j + 1 # LastLetter(word, optstring)
  <2>1. j + 1 \in 2 .. LastLetter(word, optstring) - 1
    BY <1>9, <1>13
  <2>2. ~TakesArgument(optstring, word[j + 1])
    BY <1>9, <1>13
  <2>3. scan' = SubSeq(word, j + 1 + 1, Len(word)) /\ optind' = i + 1
    <3>1. j + 1 + 1 = j + 2
      OBVIOUS
    <3>2. scan' = SubSeq(word, j + 2, Len(word)) /\ optind' = i + 1
      <4> HIDE DEF Word
      <4>1. QED
        BY <1>8, <2>2, Zenon
    <3>3. QED
      BY <3>1, <3>2
  <2>4. ReadOf(options', list, o, j + 1 - 1)
    BY <1>11
  <2>5. InWord(argv, optstring, f[k], optind', scan', options')
    BY <1>2, <1>3, <1>5, <1>6, <2>1, <2>3, <2>4 DEF InWord
  <2>6. AsRead(argv, optstring, f[k], optind', scan', options', ended)
    BY <2>5 DEF AsRead
  <2>7. IsReading(f, argv', optstring')
        /\ AsRead(argv', optstring', f[k], optind', scan', options', ended')
    BY <1>8, <2>6
  <2>8. QED
    BY <1>1, <1>8, <1>11, <2>7 DEF OptionsInv
<1>14. QED
  BY <1>12, <1>13

LEMMA OptionsInvInit ==
  ASSUME NEW words \in Seq(Seq(STRING)), NEW letters \in Seq(STRING),
         OptionsInit(words, letters)
  PROVE  OptionsInv
<1>1. /\ argv = words /\ optstring = letters /\ optind = 1 /\ scan = <<>>
      /\ ended = FALSE /\ options = <<>>
  BY DEF OptionsInit
<1>2. argv \in Seq(Word) /\ optstring \in Word /\ options \in Seq(Opts)
  BY <1>1 DEF Word
<1>3. PICK f : IsReading(f, argv, optstring)
  BY <1>2, ReadAllIs
<1>4. f[0].next = 1 /\ f[0].list = <<>>
  BY <1>3 DEF IsReading
<1>5. AsRead(argv, optstring, f[0], optind, scan, options, ended)
  BY <1>1, <1>4 DEF AsRead, Between
<1>6. 0 \in 0 .. Len(argv)
  BY <1>2
<1>7. QED
  BY <1>1, <1>2, <1>3, <1>5, <1>6 DEF OptionsInv

LEMMA OptionsInvStep ==
  ASSUME OptionsInv, [OptionsNext]_optionsVars
  PROVE  OptionsInv'
<1>1. /\ argv \in Seq(Word) /\ optstring \in Word /\ options \in Seq(Opts)
  BY DEF OptionsInv
<1> PICK f : /\ IsReading(f, argv, optstring)
             /\ \E k \in 0 .. Len(argv) :
                  AsRead(argv, optstring, f[k], optind, scan, options, ended)
  BY DEF OptionsInv
<1>2. PICK k \in 0 .. Len(argv) :
        /\ IsReading(f, argv, optstring)
        /\ AsRead(argv, optstring, f[k], optind, scan, options, ended)
  OBVIOUS
<1>3. /\ f[k] \in Readings /\ f[k].next >= 1 /\ f[k].next \in Nat /\ f[k].list \in Seq(Opts)
  <2>1. f[k] \in Readings /\ f[k].next >= 1
    BY <1>1, <1>2, ReadingGoesOn
  <2>2. QED
    BY <2>1 DEF Readings
<1>4. PICK ind \in Nat : ind = IF optind = 0 THEN 1 ELSE optind
  <2>1. optind \in Nat
    <3>1. \/ optind = f[k].next \/ optind = 0 \/ optind = f[k].next + 1
          \/ optind = f[k].next + IF IsEnd(argv, f[k].next) THEN 1 ELSE 0
      BY <1>2 DEF AsRead, Between, InWord, AtOperands
    <3>2. QED
      BY <1>3, <3>1
  <2>2. QED
    BY <2>1
<1>5. ASSUME ~ended, scan = <<>>
      PROVE  options = f[k].list /\ ind = f[k].next
  <2>1. CASE Between(argv, f[k], optind, scan, options)
    BY <1>3, <1>4, <2>1 DEF Between
  <2>2. CASE InWord(argv, optstring, f[k], optind, scan, options)
    <3>1. PICK word : word = WordOf(argv, f[k].next)
      OBVIOUS
    <3>2. PICK j \in 2 .. LastLetter(word, optstring) - 1 :
            scan = SubSeq(word, j + 1, Len(word))
      BY <2>2, <3>1 DEF InWord
    <3>3. IsCluster(argv, f[k].next)
      BY <2>2 DEF InWord, Over
    <3>4. j \in 1 .. LastLetter(word, optstring) - 1
      OBVIOUS
    <3>5. LetterPlace(argv, optstring, f[k].next, word, j, scan)
      BY <1>1, <1>3, <3>1, <3>2, <3>3, <3>4, LetterIs
    <3>6. QED
      BY <1>5, <3>5 DEF LetterPlace
  <2>3. QED
    BY <1>2, <1>5, <2>1, <2>2 DEF AsRead
<1>6. CASE ~ended /\ scan # <<>> /\ Letter(scan, optind)
  <2>1. InWord(argv, optstring, f[k], optind, scan, options)
    BY <1>2, <1>6 DEF AsRead, Between
  <2>2. PICK word : word = WordOf(argv, f[k].next)
    OBVIOUS
  <2>3. PICK j \in 2 .. LastLetter(word, optstring) - 1 :
          /\ scan = SubSeq(word, j + 1, Len(word))
          /\ ReadOf(options, f[k].list, OptionsOf(argv, optstring, f[k].next), j - 1)
    BY <2>1, <2>2 DEF InWord
  <2>4. j \in 1 .. LastLetter(word, optstring) - 1
    OBVIOUS
  <2>5. ~Over(argv, f[k]) /\ optind = f[k].next + 1
    BY <2>1 DEF InWord
  <2>6. Letter(SubSeq(word, j + 1, Len(word)), f[k].next + 1)
    BY <1>6, <2>3, <2>5
  <2>7. QED
    BY <1>2, <1>6, <2>2, <2>3, <2>4, <2>5, <2>6, LetterKeeps
<1>7. CASE /\ ~ended /\ scan = <<>> /\ IsCluster(argv, ind) /\ ~IsEnd(argv, ind)
           /\ Letter(Tail(WordOf(argv, ind)), ind + 1)
  <2>1. options = f[k].list /\ ind = f[k].next /\ ~Over(argv, f[k])
    BY <1>5, <1>7 DEF Over
  <2>2. PICK word : word = WordOf(argv, f[k].next)
    OBVIOUS
  <2>3. word \in Seq(STRING) /\ Len(word) > 1
    BY <1>1, <1>3, <1>7, <2>1, <2>2, ClusterIs DEF Word
  <2>4. PICK j : j = 1
    OBVIOUS
  <2>5. j \in 1 .. LastLetter(word, optstring) - 1
    <3>1. LastLetter(word, optstring) \in 2 .. Len(word)
      BY <2>3, LastLetterIs DEF Word
    <3>2. QED
      BY <2>3, <2>4, <3>1
  <2>6. Tail(word) = SubSeq(word, j + 1, Len(word))
    <3>1. word # <<>>
      BY <2>3
    <3>2. Tail(word) = SubSeq(word, 2, Len(word))
      BY <2>3, <3>1, TailIsSubSeq
    <3>3. QED
      BY <2>4, <3>2
  <2>7. Letter(SubSeq(word, j + 1, Len(word)), f[k].next + 1)
    BY <1>7, <2>1, <2>2, <2>6
  <2>8. ReadOf(options, f[k].list, OptionsOf(argv, optstring, f[k].next), j - 1)
    <3>1. OptionsOf(argv, optstring, f[k].next) \in Seq(Opts)
      BY <1>1, <1>3, <1>7, <2>1, OptionsOfIs
    <3>2. j - 1 = 0
      BY <2>4
    <3>3. QED
      BY <1>3, <2>1, <3>1, <3>2, ReadNone
  <2>9. QED
    BY <1>2, <1>7, <2>1, <2>2, <2>5, <2>7, <2>8, LetterKeeps
<1>8. ASSUME ~ended, scan = <<>>, NEW next, Stop(next), Over(argv, f[k]),
             next = f[k].next + IF IsEnd(argv, f[k].next) THEN 1 ELSE 0
      PROVE  OptionsInv'
  <2>1. /\ argv' = argv /\ optstring' = optstring /\ scan' = <<>> /\ options' = options
        /\ ended' = TRUE /\ optind' = next
    BY <1>8 DEF Stop
  <2>2. options = f[k].list
    BY <1>5, <1>8
  <2>3. AtOperands(argv, f[k], optind', scan', options')
    BY <1>8, <2>1, <2>2 DEF AtOperands
  <2>4. AsRead(argv', optstring', f[k], optind', scan', options', ended')
    BY <2>1, <2>3 DEF AsRead
  <2>5. IsReading(f, argv', optstring') /\ k \in 0 .. Len(argv')
    BY <1>2, <2>1
  <2>6. QED
    BY <1>1, <2>1, <2>4, <2>5 DEF OptionsInv
<1>9. CASE Getopt
  <2>1. ~ended /\ \/ scan # <<>> /\ Letter(scan, optind)
                  \/ scan = <<>> /\ ~IsCluster(argv, ind) /\ Stop(ind)
                  \/ scan = <<>> /\ IsEnd(argv, ind) /\ Stop(ind + 1)
                  \/ /\ scan = <<>> /\ IsCluster(argv, ind) /\ ~IsEnd(argv, ind)
                     /\ Letter(Tail(WordOf(argv, ind)), ind + 1)
    BY <1>4, <1>9 DEF Getopt, getopt
  <2>2. CASE scan = <<>> /\ ~IsCluster(argv, ind) /\ Stop(ind)
    <3>1. ind = f[k].next /\ Over(argv, f[k])
      BY <1>5, <2>1, <2>2 DEF Over
    <3>2. ~IsEnd(argv, ind)
      <4>1. SUFFICES ASSUME IsEnd(argv, ind) PROVE FALSE
        OBVIOUS
      <4>2. ind < Len(argv) /\ WordOf(argv, ind) = <<"-", "-">>
        BY <4>1 DEF IsEnd
      <4>3. IsCluster(argv, ind)
        BY <4>2 DEF IsCluster
      <4>4. QED
        BY <2>2, <4>3
    <3>3. ind = f[k].next + IF IsEnd(argv, f[k].next) THEN 1 ELSE 0
      BY <1>3, <3>1, <3>2
    <3>4. QED
      BY <1>8, <2>1, <2>2, <3>1, <3>3
  <2>3. CASE scan = <<>> /\ IsEnd(argv, ind) /\ Stop(ind + 1)
    <3>1. ind = f[k].next /\ Over(argv, f[k])
      BY <1>5, <2>1, <2>3 DEF Over
    <3>2. ind + 1 = f[k].next + IF IsEnd(argv, f[k].next) THEN 1 ELSE 0
      BY <1>3, <2>3, <3>1
    <3>3. QED
      BY <1>8, <2>1, <2>3, <3>1, <3>2
  <2>4. QED
    BY <1>6, <1>7, <2>1, <2>2, <2>3
<1>10. CASE Reset
  <2>1. /\ ended /\ ended' = FALSE /\ optind' = 0 /\ options' = <<>>
        /\ argv' = argv /\ optstring' = optstring /\ scan' = scan
    BY <1>10 DEF Reset
  <2>2. scan = <<>>
    BY <1>2, <2>1 DEF AsRead, AtOperands
  <2>3. f[0].next = 1 /\ f[0].list = <<>>
    BY <1>2 DEF IsReading
  <2>4. Between(argv', f[0], optind', scan', options')
    BY <2>1, <2>2, <2>3 DEF Between
  <2>5. AsRead(argv', optstring', f[0], optind', scan', options', ended')
    BY <2>1, <2>4 DEF AsRead
  <2>6. IsReading(f, argv', optstring') /\ 0 \in 0 .. Len(argv') /\ options' \in Seq(Opts)
    BY <1>1, <1>2, <2>1
  <2>7. QED
    BY <1>1, <2>1, <2>5, <2>6 DEF OptionsInv
<1>11. CASE UNCHANGED optionsVars
  BY <1>11 DEF optionsVars, OptionsInv
<1>12. QED
  BY <1>9, <1>10, <1>11 DEF OptionsNext

LEMMA PrefixGoesOn ==
  ASSUME NEW S, NEW a \in Seq(S), NEW b \in Seq(S), NEW c \in Seq(S),
         IsPrefix(a, b), IsPrefix(b, c)
  PROVE  IsPrefix(a, c)
<1>1. Len(a) <= Len(b) /\ \A i \in 1 .. Len(a) : a[i] = b[i]
  BY PrefixIs
<1>2. Len(b) <= Len(c) /\ \A i \in 1 .. Len(b) : b[i] = c[i]
  BY PrefixIs
<1>3. PICK l \in Nat, m \in Nat, n \in Nat : l = Len(a) /\ m = Len(b) /\ n = Len(c)
  OBVIOUS
<1>4. l <= n /\ \A i \in 1 .. l : a[i] = c[i]
  BY <1>1, <1>2, <1>3
<1>5. QED
  BY <1>3, <1>4, PrefixIs

\* In the middle of a word, what was given is the beginning of what the words give.
LEMMA InWordIsPrefix ==
  ASSUME NEW words \in Seq(Word), NEW letters \in Word, NEW given \in Seq(Opts),
         NEW f, IsReading(f, words, letters), NEW k \in 0 .. Len(words),
         NEW ind, NEW rest, InWord(words, letters, f[k], ind, rest, given)
  PROVE  IsPrefix(given, f[Len(words)].list)
<1>1. f[k] \in Readings /\ ~Over(words, f[k])
  BY ReadingGoesOn DEF InWord
<1>2. k + 1 \in 1 .. Len(words) /\ k + 1 \in 0 .. Len(words)
  BY <1>1, ReadingGoesOn
<1>3. f[k + 1] = ReadWord(words, letters, f[k])
  BY <1>2 DEF IsReading
<1>4. PICK x \in Readings : x = f[k]
  BY <1>1
<1>5. x.next \in Nat /\ x.list \in Seq(Opts) /\ IsCluster(words, x.next)
  BY <1>1, <1>4 DEF Readings, Over
<1>6. PICK o \in Seq(Opts) :
        /\ o = OptionsOf(words, letters, x.next)
        /\ Len(o) = LastLetter(WordOf(words, x.next), letters) - 1
  BY <1>5, OptionsOfIs
<1>7. f[k + 1].list = x.list \o o
  <2>1. ReadWord(words, letters, x).list = x.list \o OptionsOf(words, letters, x.next)
    BY <1>1, <1>4, ReadWordIs
  <2>2. QED
    BY <1>3, <1>4, <1>6, <2>1
<1>8. PICK j \in 2 .. LastLetter(WordOf(words, x.next), letters) - 1 :
        ReadOf(given, x.list, o, j - 1)
  BY <1>4, <1>6 DEF InWord
<1>9. IsPrefix(given, x.list \o o)
  <2>1. LastLetter(WordOf(words, x.next), letters) \in 2 .. Len(WordOf(words, x.next))
    BY <1>5, ClusterIs, LastLetterIs
  <2>2. j - 1 \in 0 .. Len(o)
    BY <1>6, <1>8, <2>1
  <2>3. QED
    BY <1>5, <1>8, <2>2, ReadAllOf
<1>10. f[k + 1].list \in Seq(Opts) /\ IsPrefix(f[k + 1].list, f[Len(words)].list)
  BY <1>2, ReadingGoesOn DEF Readings
<1>11. f[Len(words)].list \in Seq(Opts)
  BY DEF IsReading, Readings
<1>12. QED
  BY <1>7, <1>9, <1>10, <1>11, PrefixGoesOn

LEMMA InvGivesOptions ==
  ASSUME OptionsInv
  PROVE  OptionsInOrder
<1>1. /\ argv \in Seq(Word) /\ optstring \in Word /\ options \in Seq(Opts)
  BY DEF OptionsInv
<1> PICK f : /\ IsReading(f, argv, optstring)
             /\ \E k \in 0 .. Len(argv) :
                  AsRead(argv, optstring, f[k], optind, scan, options, ended)
  BY DEF OptionsInv
<1>2. PICK k \in 0 .. Len(argv) : AsRead(argv, optstring, f[k], optind, scan, options, ended)
  OBVIOUS
<1>3. ReadAll(argv, optstring) = f[Len(argv)]
  BY DEF IsReading
<1>4. IsPrefix(f[k].list, f[Len(argv)].list)
      /\ (Over(argv, f[k]) => f[Len(argv)] = f[k])
  BY <1>1, ReadingGoesOn
<1>5. ended => AtOperands(argv, f[k], optind, scan, options)
  BY <1>2 DEF AsRead
<1>6. ended => /\ options = f[Len(argv)].list
               /\ optind = f[Len(argv)].next
                           + IF IsEnd(argv, f[Len(argv)].next) THEN 1 ELSE 0
  BY <1>4, <1>5 DEF AtOperands
<1>7. IsPrefix(options, f[Len(argv)].list)
  <2>1. CASE AtOperands(argv, f[k], optind, scan, options)
    BY <1>4, <2>1 DEF AtOperands
  <2>2. CASE Between(argv, f[k], optind, scan, options)
    BY <1>4, <2>2 DEF Between
  <2>3. CASE InWord(argv, optstring, f[k], optind, scan, options)
    BY <1>1, <2>3, InWordIsPrefix
  <2>4. QED
    BY <1>2, <2>1, <2>2, <2>3 DEF AsRead
<1>8. QED
  BY <1>3, <1>6, <1>7 DEF OptionsInOrder

(* For every command line and every optstring, the calls of getopt give    *)
(* the options of the words in their order, and end with optind at the     *)
(* first operand, however often it starts again: getopt.c.                 *)
THEOREM OptionsAlwaysInOrder == OptionsSpec => []OptionsInOrder
<1>1. (\E words \in Seq(Seq(STRING)), letters \in Seq(STRING) : OptionsInit(words, letters))
        => OptionsInv
  BY OptionsInvInit
<1>2. OptionsInv /\ [OptionsNext]_optionsVars => OptionsInv'
  BY OptionsInvStep
<1>3. OptionsInv => OptionsInOrder
  BY InvGivesOptions
<1>4. QED
  BY <1>1, <1>2, <1>3, PTL DEF OptionsSpec
=============================================================================
