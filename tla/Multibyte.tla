------------------------------ MODULE Multibyte ------------------------------
(***************************************************************************)
(* mbrtowc, wcrtomb and the older mbtowc and wctomb (src/src/c/wchar,      *)
(* src/src/c/stdlib).  A text arrives in pieces of any size; the bytes of  *)
(* a character that is not complete wait in an mbstate_t.                  *)
(***************************************************************************)
EXTENDS Utf8, SequencesExt

(* The states of a decoder are the bytes it holds; returns as in the code. *)
Invalid == -1
Incomplete == -2

IsSurrogate(c) == 55296 <= c /\ c <= 57343

Expected(b) == CASE b < 224 -> 2
                 [] b \in 224..239 -> 3
                 [] b \in 240..244 -> 4
                 [] OTHER -> 0

Value(b) == CASE Len(b) = 2 -> (b[1] % 32) * 64 + (b[2] % 64)
              [] Len(b) = 3 -> (b[1] % 16) * 4096 + (b[2] % 64) * 64 + (b[3] % 64)
              [] Len(b) = 4 -> (b[1] % 8) * 262144 + (b[2] % 64) * 4096
                                 + (b[3] % 64) * 64 + (b[4] % 64)

\* Bug: the longer forms of what two bytes can write are accepted.
Refused_long(res, n) == \/ res > 1114111 \/ IsSurrogate(res)
                        \/ n = 4 /\ res < 65536

(* A value that the bytes may not write: too long a form, no character. *)
Refused(res, n) == \/ res > 1114111 \/ IsSurrogate(res)
                   \/ n = 3 /\ res < 2048
                   \/ n = 4 /\ res < 65536

Decoded(ret, bytes, wc) == [ret |-> ret, bytes |-> bytes, wc |-> wc]

(* The bytes so far, and as many of s as are missing, or as there are.     *)
Collected(bytes, s, consumed) ==
    LET expected == Expected(bytes[1])
        last == consumed + expected - Len(bytes)
        next == SubSeq(s, consumed + 1, IF last < Len(s) THEN last ELSE Len(s))
        res == Value(bytes \o next)
    IN  IF expected = 0 \/ \E k \in DOMAIN next : ~IsCont(next[k])
        THEN Decoded(Invalid, <<>>, 0)
        ELSE IF last > Len(s) THEN Decoded(Incomplete, bytes \o next, 0)
        ELSE IF Refused(res, expected) THEN Decoded(Invalid, <<>>, 0)
        ELSE Decoded(IF res = 0 THEN 0 ELSE last, <<>>, res)

mbrtowc(s, ps) ==
    IF s = <<>> THEN Decoded(Incomplete, ps, 0)
    ELSE IF ps # <<>> THEN Collected(ps, s, 0)
    ELSE IF s[1] < 128 THEN Decoded(IF s[1] = 0 THEN 0 ELSE 1, <<>>, s[1])
    ELSE IF s[1] < 194 THEN Decoded(Invalid, <<>>, 0)
    ELSE Collected(<<s[1]>>, s, 1)

wcrtomb(wc) == IF IsSurrogate(wc) THEN <<>> ELSE encode_utf8(wc)

(* The older pair takes any lead byte and any value. *)
mbtowc(s) ==
    LET lead == Follow(s[1])
        n == lead.more + 1
        whole == n <= Len(s) /\ \A k \in 2..n : IsCont(s[k])
        rest == SubSeq(s, 2, n)
    IN  IF s = <<>> \/ lead.more = -1 \/ ~whole THEN [len |-> Invalid, wc |-> 0]
        ELSE IF s[1] = 0 THEN [len |-> 0, wc |-> 0]
        ELSE [len |-> n,
              wc |-> CASE n = 1 -> s[1]
                       [] n = 2 -> lead.bits * 64 + (rest[1] % 64)
                       [] n = 3 -> lead.bits * 4096 + (rest[1] % 64) * 64 + (rest[2] % 64)
                       [] n = 4 -> lead.bits * 262144 + (rest[1] % 64) * 4096
                                     + (rest[2] % 64) * 64 + (rest[3] % 64)]
wctomb(wc) == encode_utf8(wc)

-----------------------------------------------------------------------------
(***************************************************************************)
(* A program feeds a text to mbrtowc: fed bytes are gone, ps is the        *)
(* mbstate_t, got the characters, mbret what the last call returned.       *)
(***************************************************************************)
VARIABLES text, fed, ps, got, mbret
mbVars == <<text, fed, ps, got, mbret>>

MultibyteInit == fed = 0 /\ ps = <<>> /\ got = <<>> /\ mbret = 0

(* A piece of at most n bytes; a call takes all of them, or one character. *)
Mbrtowc(n) ==
    LET s == SubSeq(text, fed + 1, IF fed + n > Len(text) THEN Len(text) ELSE fed + n)
        x == mbrtowc(s, ps)
        nul == x.ret = 0
    IN  /\ mbret # Invalid
        /\ mbret' = x.ret
        /\ ps' = x.bytes
        /\ fed' = CASE x.ret = Invalid -> fed
                    [] x.ret = Incomplete -> fed + Len(s)
                    [] x.ret = 0 -> fed + 1
                    [] OTHER -> fed + x.ret
        /\ got' = IF x.ret >= 0 THEN Append(got, x.wc) ELSE got
        /\ UNCHANGED text

(* A null pointer for the text: the program starts over. *)
Mbreset == /\ ps' = <<>> /\ mbret' = 0 /\ fed' = 0 /\ got' = <<>>
           /\ UNCHANGED text

MultibyteNext == (\E n \in 0..Len(text) - fed : Mbrtowc(n)) \/ Mbreset

(* Any text, in any pieces. *)
MultibyteSpec ==
    text \in Seq(0..255) /\ MultibyteInit /\ [][MultibyteNext]_mbVars
-----------------------------------------------------------------------------
(* The well-formed byte sequences of the Unicode standard: by lead byte,   *)
(* the second byte and how many more follow.                               *)
Second(b) == CASE b = 224 -> 160..191
               [] b = 237 -> 128..159
               [] b = 240 -> 144..191
               [] b = 244 -> 128..143
               [] OTHER -> 128..191
WellFormed(s) == /\ s[1] \in 0..127 \cup 194..244
                 /\ Len(s) = 1 + Follow(s[1]).more
                 /\ Len(s) > 1 => s[2] \in Second(s[1])
                 /\ \A k \in 3..Len(s) : IsCont(s[k])

Encodings(w) == FlattenSeq([i \in DOMAIN w |-> encode_utf8(w[i])])
IsScalar(c) == c \in Nat /\ c <= 1114111 /\ ~IsSurrogate(c)
Scalars(w) == \A i \in DOMAIN w : IsScalar(w[i])

(* Whatever the pieces, the characters so far and the bytes that wait are   *)
(* what went in, and a text is refused only where no character begins.      *)
PiecesKept ==
    LET rest == SubSeq(text, Len(Encodings(got)) + 1, Len(text))
    IN  /\ Scalars(got)
        /\ IF mbret # Invalid THEN SubSeq(text, 1, fed) = Encodings(got) \o ps
           ELSE \A k \in 1..Len(rest) : ~WellFormed(SubSeq(rest, 1, k))
=============================================================================
