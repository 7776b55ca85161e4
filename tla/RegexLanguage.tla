---------------------------- MODULE RegexLanguage ----------------------------
(***************************************************************************)
(* What a regular expression promises, for the expressions of POSIX.2      *)
(* written as trees: which parts of a subject an expression matches, with  *)
(* which groups.  Written is the pattern a program passes to regcomp.      *)
(***************************************************************************)
EXTENDS Regex

Lit(c) == [op |-> "lit", c |-> c]
Set(text, chars, neg) == [op |-> "set", text |-> text, chars |-> chars, neg |-> neg]
AnyOne == Set(".", {}, TRUE)
LineBegin == [op |-> "^"]
LineStop == [op |-> "$"]
Cat(l, r) == [op |-> "cat", l |-> l, r |-> r]
Or(l, r) == [op |-> "or", l |-> l, r |-> r]
Grp(e) == [op |-> "grp", l |-> e, id |-> 0]
Ref(g) == [op |-> "ref", id |-> g]
(* e from min to max times (-1: without end), and how that is written. *)
Rep(e, min, max, text) == [op |-> "rep", l |-> e, min |-> min, max |-> max,
                           text |-> text]

(* Groups are numbered by their opening parentheses. *)
RECURSIVE Numbered(_, _)
Numbered(e, n) ==
    CASE e.op \in {"cat", "or"} ->
            LET a == Numbered(e.l, n)
                b == Numbered(e.r, a.n)
            IN  [n |-> b.n, e |-> [e EXCEPT !.l = a.e, !.r = b.e]]
      [] e.op = "rep" ->
            LET a == Numbered(e.l, n) IN [n |-> a.n, e |-> [e EXCEPT !.l = a.e]]
      [] e.op = "grp" ->
            LET a == Numbered(e.l, n + 1)
            IN  [n |-> a.n, e |-> [e EXCEPT !.l = a.e, !.id = n + 1]]
      [] OTHER -> [n |-> n, e |-> e]

RECURSIVE Written(_, _)
Written(e, ext) ==
    LET Esc(w) == IF ext THEN w ELSE "\\" \o w
    IN  CASE e.op = "lit" -> IF e.c \in {"*", "."} THEN "\\" \o e.c ELSE e.c
          [] e.op = "set" -> e.text
          [] e.op \in {"^", "$"} -> e.op
          [] e.op = "cat" -> Written(e.l, ext) \o Written(e.r, ext)
          [] e.op = "or" -> Written(e.l, ext) \o "|" \o Written(e.r, ext)
          [] e.op = "grp" -> Esc("(") \o Written(e.l, ext) \o Esc(")")
          [] e.op = "ref" -> "\\" \o DigitsOf(e.id, 10)
          [] e.op = "rep" -> Written(e.l, ext)
                \o IF e.text \in {"*", "+", "?"} THEN e.text
                   ELSE Esc("{") \o e.text \o Esc("}")

(***************************************************************************)
(* The ways to match e from offset i with groups env: where it ends and    *)
(* the groups then.  f holds the flags of regcomp and regexec.             *)
(***************************************************************************)
OneWay(cond, j, env) == IF cond THEN {<<j, env>>} ELSE {}

RECURSIVE Ways(_, _, _, _, _), Again(_, _, _, _), UpTo(_, _, _, _, _)
Ways(e, s, i, env, f) ==
    LET c == At(s, i + 1)
        Same(a, b) == a # NUL /\ Folded(f, a) = Folded(f, b)
    IN  CASE e.op = "lit" -> OneWay(Same(c, e.c), i + 1, env)
          [] e.op = "set" ->
                OneWay(/\ c # NUL
                       /\ e.neg # (\E x \in e.chars : Same(c, x))
                       /\ ~(e.neg /\ c = "\n" /\ "NEWLINE" \in f), i + 1, env)
          [] e.op = "^" ->
                OneWay(\/ i = 0 /\ "NOTBOL" \notin f
                       \/ i > 0 /\ At(s, i) = "\n" /\ "NEWLINE" \in f, i, env)
          [] e.op = "$" ->
                OneWay(\/ c = NUL /\ "NOTEOL" \notin f
                       \/ c = "\n" /\ "NEWLINE" \in f, i, env)
          [] e.op = "cat" ->
                UNION {Ways(e.r, s, w[1], w[2], f) : w \in Ways(e.l, s, i, env, f)}
          [] e.op = "or" -> Ways(e.l, s, i, env, f) \cup Ways(e.r, s, i, env, f)
          [] e.op = "grp" -> {<<w[1], [w[2] EXCEPT ![e.id] = <<i, w[1]>>]>> :
                                w \in Ways(e.l, s, i, env, f)}
          [] e.op = "ref" ->
                LET g == env[e.id]
                    n == g[2] - g[1]
                IN  OneWay(g[1] # -1 /\ StartsWith(s, i + 1, SubSeq(s, g[1] + 1, g[2])),
                           i + n, env)
          [] e.op = "rep" -> UpTo(e, s, {<<i, env>>}, 0, f)
Again(e, s, W, f) == UNION {Ways(e.l, s, w[1], w[2], f) : w \in W}
UpTo(e, s, W, n, f) ==
    LET on == Again(e, s, W, f)
    IN  CASE n = e.max -> W
          [] n # e.max /\ n < e.min -> UpTo(e, s, on, n + 1, f)
          [] n # e.max /\ n >= e.min /\ on \subseteq W -> W
          [] OTHER -> UpTo(e, s, W \cup on, IF e.max = -1 THEN n ELSE n + 1, f)

(* All matches of e in s, as start, end and groups. *)
AllMatches(e, n, s, f) ==
    UNION {{<<i, w[1], w[2]>> : w \in Ways(e, s, i, [g \in 1..n |-> <<-1, -1>>], f)} :
           i \in 0..Len(s)}
Longest(M) == {m \in M : \A o \in M : m[1] < o[1] \/ (m[1] = o[1] /\ m[2] >= o[2])}

(***************************************************************************)
(* regexec keeps one thread per instruction and offset, whatever groups it *)
(* has matched, and as many threads as there are instructions; a thread    *)
(* that is still comparing a back reference counts among them.  Referred   *)
(* are what stands before each reference, with the group it names.         *)
(***************************************************************************)
RECURSIVE Referred(_)
Referred(e) == IF e.op # "cat" THEN {}
               ELSE Referred(e.l) \cup IF e.r.op = "ref" THEN {<<e.l, e.r.id>>} ELSE {}

Instructions(tree) == build_nfa(<<[op |-> "match"]>>, tree, 1).nfa
Readers(nfa) == {k \in DOMAIN nfa : nfa[k].op \in {"char", "any", "bracket"}}

(* The groups are settled where a reference is reached - no two ways that  *)
(* come to it from one start at one offset differ in them - and there is   *)
(* room for all comparisons at once beside the threads that read.          *)
Settled(e, n, s, f, nfa) ==
    \A x \in Referred(e), i \in 0..Len(s) :
        LET W == Ways(x[1], s, i, [g \in 1..n |-> <<-1, -1>>], f)
            Width(w) == w[2][x[2]][2] - w[2][x[2]][1]
        IN  /\ \A v, w \in W : v[1] = w[1] => v = w
            /\ \A k \in i..Len(s) :
                  Cardinality({w \in W : w[1] <= k /\ k < w[1] + Width(w)})
                     <= Len(nfa) - Cardinality(Readers(nfa))
=============================================================================
