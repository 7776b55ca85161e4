-------------------------- MODULE MultibyteStrings --------------------------
(***************************************************************************)
(* The conversions of whole strings: mbsrtowcs, wcsrtombs and the older    *)
(* mbstowcs and wcstombs.  Strings end in a 0.  dst says that there is     *)
(* memory for n; left is what *src points at afterwards, <<>> for NULL.    *)
(***************************************************************************)
EXTENDS Multibyte

Converted8(ret, out, left) == [ret |-> ret, out |-> out, left |-> left]

RECURSIVE ToWide(_, _, _, _)
ToWide(s, dst, n, out) ==
    LET x == mbrtowc(SubSeq(s, 1, IF Len(s) < 4 THEN Len(s) ELSE 4), <<>>)
    IN  IF dst /\ Len(out) >= n THEN Converted8(Len(out), out, s)
        ELSE IF x.ret < 0 THEN Converted8(Invalid, out, s)
        ELSE IF x.ret = 0 THEN Converted8(Len(out), Append(out, 0), <<>>)
        ELSE ToWide(SubSeq(s, x.ret + 1, Len(s)), dst, n, Append(out, x.wc))
mbsrtowcs(s, dst, n) == ToWide(s, dst, n, <<>>)

RECURSIVE ToBytes(_, _, _, _)
(* A character that does not fit ends the conversion before it. *)
OneCharacter(w, b, dst, n, out) ==
    LET len == Len(out) + Len(b)
    IN  CASE b = <<>> -> Converted8(Invalid, out, w)
          [] b # <<>> /\ dst /\ len > n -> Converted8(Len(out), out, w)
          [] b # <<>> /\ ~(dst /\ len > n) /\ Head(w) = 0 ->
                Converted8(Len(out), Append(out, 0), <<>>)
          [] dst /\ len = n /\ Head(w) # 0 -> Converted8(n, out \o b, Tail(w))
          [] OTHER -> ToBytes(Tail(w), dst, n, out \o b)
ToBytes(w, dst, n, out) == OneCharacter(w, wcrtomb(Head(w)), dst, n, out)
wcsrtombs(w, dst, n) == ToBytes(w, dst, n, <<>>)

RECURSIVE OldToWide(_, _, _, _)
OldToWide(s, dst, n, out) ==
    LET x == mbtowc(s)
    IN  IF dst /\ Len(out) >= n THEN Converted8(Len(out), out, s)
        ELSE IF x.len = Invalid THEN Converted8(Invalid, out, s)
        ELSE IF x.len = 0 THEN Converted8(Len(out), Append(out, 0), <<>>)
        ELSE OldToWide(SubSeq(s, x.len + 1, Len(s)), dst, n, Append(out, x.wc))
mbstowcs(s, dst, n) == OldToWide(s, dst, n, <<>>)

RECURSIVE OldToBytes(_, _, _, _)
OldCharacter(w, b, dst, n, out) ==
    CASE b = <<>> -> Converted8(Invalid, out, w)
      [] b # <<>> /\ dst /\ Len(out) + Len(b) > n -> Converted8(Len(out), out, w)
      [] OTHER -> OldToBytes(Tail(w), dst, n, out \o b)
OldToBytes(w, dst, n, out) ==
    IF Head(w) = 0
    THEN Converted8(Len(out), IF dst /\ Len(out) >= n THEN out ELSE Append(out, 0), <<>>)
    ELSE OldCharacter(w, wctomb(Head(w)), dst, n, out)
wcstombs(w, dst, n) == OldToBytes(w, dst, n, <<>>)

-----------------------------------------------------------------------------
(* Strings of characters and of bytes convert into each other, whole or as  *)
(* far as n goes, and never a part of a character: x is what the bytes z    *)
(* makes become, y what its characters do.                                  *)
Partly(x, y, z, e, n) ==
    /\ Len(x.out) <= n /\ x.out \o Encodings(x.left) = e
    /\ x.ret = IF x.left = <<>> THEN Len(e) - 1 ELSE Len(x.out)
    /\ x.left # <<>> => Len(x.out) + Len(encode_utf8(Head(x.left))) > n
    /\ Len(y.out) <= n /\ Encodings(y.out) \o y.left = e
    /\ y.ret = IF y.left = <<>> THEN Len(z) - 1 ELSE n
Alike(x, y) == x.out = y.out /\ x.ret = y.ret
BothWays(z, e) ==
    /\ {wcsrtombs(z, FALSE, 0).ret, wcstombs(z, FALSE, 0).ret} = {Len(e) - 1}
    /\ {mbsrtowcs(e, FALSE, 0).ret, mbstowcs(e, FALSE, 0).ret} = {Len(z) - 1}
    /\ \A n \in 0..Len(e) + 1 :
          /\ Partly(wcsrtombs(z, TRUE, n), mbsrtowcs(e, TRUE, n), z, e, n)
          /\ Alike(wcstombs(z, TRUE, n), wcsrtombs(z, TRUE, n))
          /\ Alike(mbstowcs(e, TRUE, n), mbsrtowcs(e, TRUE, n))
StringsConvert(w) ==
    LET z == Append(w, 0)
    IN  IF Scalars(w) THEN BothWays(z, Encodings(z))
        ELSE wcsrtombs(z, TRUE, 20).ret = Invalid /\ wcsrtombs(z, FALSE, 0).ret = Invalid
=============================================================================
