-------------------------------- MODULE Utf8 --------------------------------
(***************************************************************************)
(* UTF-8 as every converter of the library writes it out: a lead byte, by  *)
(* the size of the code, and continuation bytes of six bits each.  Bytes   *)
(* are numbers here.                                                       *)
(***************************************************************************)
EXTENDS Integers, Sequences

(* The six bits of wc from the one worth unit. *)
Cont(wc, unit) == 128 + ((wc \div unit) % 64)

(* _encode_utf8 of vfprintf.c: nothing for a code beyond 0x10FFFF. *)
encode_utf8(wc) ==
    IF wc < 128 THEN <<wc>>
    ELSE IF wc < 2048 THEN <<192 + wc \div 64, Cont(wc, 1)>>
    ELSE IF wc < 65536 THEN <<224 + wc \div 4096, Cont(wc, 64), Cont(wc, 1)>>
    ELSE IF wc <= 1114111
         THEN <<240 + wc \div 262144, Cont(wc, 4096), Cont(wc, 64), Cont(wc, 1)>>
    ELSE <<>>

(* What a lead byte announces: continuation bytes, and its own bits. *)
Follow(b) == CASE b < 128 -> [more |-> 0, bits |-> b]
               [] b \in 192..223 -> [more |-> 1, bits |-> b % 32]
               [] b \in 224..239 -> [more |-> 2, bits |-> b % 16]
               [] b \in 240..247 -> [more |-> 3, bits |-> b % 8]
               [] OTHER -> [more |-> -1, bits |-> 0]
IsCont(b) == b \in 128..191
=============================================================================
