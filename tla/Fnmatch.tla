------------------------------ MODULE Fnmatch ------------------------------
(***************************************************************************)
(* fnmatch (src/src/c/fnmatch/fnmatch.c): the pattern p from place i       *)
(* against the string s from place k.  start says that s[k] begins a name, *)
(* where FNM_PERIOD guards a period.  flags is a set of the FNM_ flags.    *)
(***************************************************************************)
EXTENDS Text

(* The place of w at or behind i, or 0. *)
PlaceOf(p, i, w) ==
    LET At_w == {j \in i..Len(p) : StartsWith(p, j, w)}
    IN  IF At_w = {} THEN 0 ELSE CHOOSE j \in At_w : \A k \in At_w : j <= k

(* [:class:], [.c.] and [=c=] open at i of p. *)
Opens(p, i) == At(p, i) = "[" /\ At(p, i + 1) \in {":", ".", "="}
Closing(p, i) == PlaceOf(p, i + 2, At(p, i + 1) \o "]")

\* Bug: the bracket of a class closes the expression.
ScanEnd_first(p, i) == IF PlaceOf(p, i, "]") = 0 THEN Len(p) + 1 ELSE PlaceOf(p, i, "]")

(* The bracket that closes the expression, or the end of p. *)
RECURSIVE ScanEnd(_, _)
ScanEnd(p, i) ==
    CASE At(p, i) \in {NUL, "]"} -> i
      [] At(p, i) \notin {NUL, "]"} /\ Opens(p, i) ->
            IF Closing(p, i) = 0 THEN Len(p) + 1 ELSE ScanEnd(p, Closing(p, i) + 2)
      [] OTHER -> ScanEnd(p, i + 1)

(* Does one of the items between i and end name the character c? *)
RECURSIVE Found(_, _, _, _)
Found(p, i, end, c) ==
    LET close == Closing(p, i)
    IN  CASE i >= end -> FALSE
          [] i < end /\ Opens(p, i) /\ close # 0 ->
                \/ At(p, i + 1) = ":" /\ InClass(SubSeq(p, i + 2, close - 1), c)
                \/ At(p, i + 1) # ":" /\ SubSeq(p, i + 2, close - 1) = c
                \/ Found(p, close + 2, end, c)
          [] i + 2 < end /\ ~Opens(p, i) /\ At(p, i + 1) = "-" ->
                \/ Between(At(p, i), c, At(p, i + 2))
                \/ Found(p, i + 3, end, c)
          [] OTHER -> c = At(p, i) \/ Found(p, i + 1, end, c)

(* A wildcard may not take a slash of a path or the period of a hidden name. *)
Guarded(c, flags, start) == \/ "PATHNAME" \in flags /\ c = "/"
                            \/ "PERIOD" \in flags /\ start /\ c = "."

RECURSIVE fnmatch_internal(_, _, _, _, _, _)
fnmatch_internal(p, i, s, k, flags, start) ==
    LET c == At(p, i)
        x == At(s, k)
        escape == c = "\\" /\ "NOESCAPE" \notin flags
        Literal(w, n) ==
            /\ w # NUL /\ w = x
            /\ fnmatch_internal(p, i + n, s, k + 1, flags,
                                "PATHNAME" \in flags /\ w = "/")
        neg == At(p, i + 1) \in {"!", "^"}
        first == IF neg THEN i + 2 ELSE i + 1
        bare == At(p, first) \in {"]", "-"}
        from == IF bare THEN first + 1 ELSE first
        end == ScanEnd(p, from)
        stars == {j \in i..Len(p) + 1 : \A m \in i..j - 1 : At(p, m) = "*"}
        rest == CHOOSE j \in stars : \A m \in stars : m <= j
        (* how far a star may reach: to the first slash of a path *)
        Reach == {m \in k..Len(s) + 1 : \A o \in k..m - 1 :
                        ~("PATHNAME" \in flags /\ At(s, o) = "/")}
    IN  CASE c = NUL -> x = NUL
          [] escape -> Literal(At(p, i + 1), 2)
          [] c = "[" ->
                IF At(p, end) = NUL THEN Literal("[", 1)
                ELSE /\ x # NUL
                     /\ ~Guarded(x, flags, start)
                     /\ neg # (\/ bare /\ x = At(p, first)
                               \/ Found(p, from, end, x))
                     /\ fnmatch_internal(p, end + 1, s, k + 1, flags, FALSE)
          [] c = "?" ->
                /\ x # NUL
                /\ ~Guarded(x, flags, start)
                /\ fnmatch_internal(p, i + 1, s, k + 1, flags, FALSE)
          [] c = "*" ->
                CASE "PERIOD" \in flags /\ start /\ x = "." ->
                        /\ At(p, rest) # NUL
                        /\ fnmatch_internal(p, rest, s, k, flags, start)
                  [] OTHER ->
                        \E m \in Reach :
                            fnmatch_internal(p, rest, s, m, flags, start /\ m = k)
          [] OTHER -> Literal(c, 1)

Matches(p, s, flags) == fnmatch_internal(p, 1, s, 1, flags, TRUE)

-----------------------------------------------------------------------------
(***************************************************************************)
(* What a pattern promises.  A pattern is a sequence of parts: a character *)
(* by itself, one of or none of a set of characters, or any string.  The   *)
(* string is cut into as many pieces, and every part takes its piece.      *)
(***************************************************************************)
Self(c) == [kind |-> "self", text |-> c, chars |-> {c}, neg |-> FALSE]
OneOf(text, chars, neg) == [kind |-> "one", text |-> text, chars |-> chars, neg |-> neg]
AnyChars == [kind |-> "any", text |-> "*", chars |-> {}, neg |-> TRUE]

RECURSIVE PatternText(_)
PatternText(parts) == IF parts = <<>> THEN ""
                      ELSE Head(parts).text \o PatternText(Tail(parts))

(* May the part take the character at k of s? *)
TakesAt(part, s, k, flags) ==
    LET begins == k = 1 \/ ("PATHNAME" \in flags /\ At(s, k - 1) = "/")
    IN  /\ part.neg # (At(s, k) \in part.chars)
        /\ part.kind # "self" => ~Guarded(At(s, k), flags, begins)

InLanguage(parts, s, flags) ==
    \E cut \in [0..Len(parts) -> 0..Len(s)] :
        /\ cut[0] = 0 /\ cut[Len(parts)] = Len(s)
        /\ \A n \in 1..Len(parts) :
              /\ cut[n - 1] <= cut[n]
              /\ parts[n].kind # "any" => cut[n] = cut[n - 1] + 1
              /\ \A k \in cut[n - 1] + 1..cut[n] : TakesAt(parts[n], s, k, flags)
=============================================================================
