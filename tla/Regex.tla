-------------------------------- MODULE Regex --------------------------------
(***************************************************************************)
(* regcomp and regexec (src/src/c/regex).                                  *)
(*                                                                         *)
(* regcomp is a recursive descent over the pattern that builds a tree;     *)
(* regexec turns the tree into instructions and runs all their threads in  *)
(* step over the subject, from every start until one matches.  The array   *)
(* of AST nodes, whose indices stand for subtrees, is the tree itself; a   *)
(* subtree that copy_ast copies is the same value twice.  Instructions     *)
(* keep their numbers: a thread list holds one thread per instruction.     *)
(* Memory suffices.                                                        *)
(***************************************************************************)
EXTENDS Text, FiniteSets, SequencesExt

CONSTANT GroupRoom          \* entries of group_stack, 256

ASSUME GroupRoomAssumption == GroupRoom \in Nat \ {0}

-----------------------------------------------------------------------------
(* The tree of an expression. *)

Empty == [op |-> "empty"]
Char(c) == [op |-> "char", c |-> c]
AnyChar == [op |-> "any"]
Bol == [op |-> "bol"]
Eol == [op |-> "eol"]
Concat(l, r) == [op |-> "concat", left |-> l, right |-> r]
Alt(l, r) == [op |-> "alt", left |-> l, right |-> r]
Star(n) == [op |-> "star", left |-> n]
Group(g, n) == [op |-> "group", id |-> g, left |-> n]
GroupEnd(g) == [op |-> "end", id |-> g]
BackRef(g) == [op |-> "backref", id |-> g]
Bracket(from, to) == [op |-> "bracket", from |-> from, to |-> to]

-----------------------------------------------------------------------------
(* regcomp.  A parser takes the pattern and the context c and returns the  *)
(* context behind what it has read, with the tree in c.ret or an error.    *)

Start == [pos |-> 1, err |-> "", ret |-> Empty, groups |-> 0, open |-> 0]

Emit(c, node, read) == [c EXCEPT !.ret = node, !.pos = @ + read]
Fail(c, err) == [c EXCEPT !.err = err]
Here(p, c) == At(p, c.pos)
Ahead(p, c) == At(p, c.pos + 1)
Is(p, c, w) == StartsWith(p, c.pos, w)

(* The end of a bracket expression: a class, a collating symbol or an      *)
(* equivalence class is skipped, a range counts when something it can      *)
(* start at came before.                                                   *)
RECURSIVE BracketEnd(_, _, _)
BracketEnd(p, i, last) ==
    LET t == At(p, i + 1)
        Ends == {j \in i + 2..Len(p) : At(p, j) = t /\ At(p, j + 1) = "]"}
        e == CHOOSE j \in Ends : \A k \in Ends : j <= k
        Name == SubSeq(p, i + 2, e - 1)
        Error(err) == [pos |-> i, err |-> err]
    IN  CASE At(p, i) = NUL -> Error("EBRACK")
          [] At(p, i) = "]" -> [pos |-> i, err |-> ""]
          [] At(p, i) = "[" /\ t \in {":", ".", "="} ->
                CASE Ends = {} -> Error("EBRACK")
                  [] t = ":" /\ Name \notin ClassNames -> Error("ECTYPE")
                  [] t # ":" /\ Name = "" -> Error("ECOLLATE")
                  [] OTHER -> BracketEnd(p, e + 2, FALSE)
          [] At(p, i) = "-" /\ t \notin {NUL, "]"} /\ last ->
                BracketEnd(p, i + 2, FALSE)
          [] OTHER -> BracketEnd(p, i + 1, TRUE)

parse_bracket(p, c) ==
    LET i == IF Ahead(p, c) = "^" THEN c.pos + 2 ELSE c.pos + 1
        b == BracketEnd(p, IF At(p, i) = "]" THEN i + 1 ELSE i, FALSE)
    IN  IF b.err # "" THEN Fail(c, b.err)
        ELSE Emit(c, Bracket(c.pos, b.pos), b.pos + 1 - c.pos)

(* The second number, -1 for none, and where it ends; low is the first. *)
Upper(p, low, high) ==
    CASE At(p, low.pos) # "," -> [value |-> low.value, pos |-> low.pos]
      [] At(p, low.pos) = "," /\ high.pos > low.pos + 1 -> high
      [] OTHER -> [value |-> -1, pos |-> low.pos + 1]
Bounds(p, c, low, up, close) ==
    [min |-> low.value, max |-> up.value,
     c |-> IF \/ low.pos = c.pos
              \/ ~StartsWith(p, up.pos, close)
              \/ low.value > 255 \/ up.value > 255
              \/ (up.value # -1 /\ low.value > up.value)
           THEN Fail(c, "BADBR") ELSE [c EXCEPT !.pos = up.pos + Len(close)]]
parse_bounds(p, c, close) ==
    LET low == Number(p, c.pos)
    IN  Bounds(p, c, low, Upper(p, low, Number(p, low.pos + 1)), close)

(* node{min,max}: min copies, then a star or max - min optional copies. *)
apply_bounds(node, min, max) ==
    LET Parts == [i \in 1..min |-> node]
                    \o IF max = -1 THEN <<Star(node)>>
                       ELSE [i \in 1..max - min |-> Alt(node, Empty)]
    IN  IF Parts = <<>> THEN Empty ELSE FoldLeft(Concat, Head(Parts), Tail(Parts))

Repeated(node, b) == IF b.c.err # "" THEN b.c
                     ELSE Emit(b.c, apply_bounds(node, b.min, b.max), 0)
Bounded(p, c, close) == Repeated(c.ret, parse_bounds(p, c, close))

RECURSIVE compile_bre(_, _), compile_ere(_, _)

(* \( ... \) and ( ... ): the group's end is part of its body.  in is the *)
(* context behind the body.                                               *)
Enclosed(p, in, g, close) ==
    CASE in.err # "" -> in
      [] in.err = "" /\ ~Is(p, in, close) -> Fail(in, "EPAREN")
      [] OTHER -> Emit([in EXCEPT !.open = @ - 1],
                       Group(g, Concat(in.ret, GroupEnd(g))), Len(close))
ParseGroup(p, c, ext) ==
    LET n == IF ext THEN 1 ELSE 2
        body == [c EXCEPT !.groups = @ + 1, !.open = @ + 1, !.pos = @ + n]
    IN  IF c.open >= GroupRoom THEN Fail(c, "ESPACE")
        ELSE Enclosed(p, IF ext THEN compile_ere(p, body) ELSE compile_bre(p, body),
                      body.groups, IF ext THEN ")" ELSE "\\)")

parse_bre_escape(p, c) ==
    LET nx == Ahead(p, c)
        n == NumberOf(nx, 10)
    IN  CASE nx = NUL -> Fail(c, "EESCAPE")
          [] nx = "(" -> ParseGroup(p, c, FALSE)
          [] nx = "{" -> Fail(c, "BADRPT")
          [] nx \in CharsOf("123456789") ->
                IF n > c.groups THEN Fail(c, "ESUBREG") ELSE Emit(c, BackRef(n), 2)
          [] OTHER -> Emit(c, Char(nx), 2)

(* ^ and $ are anchors at the ends of a pattern or of a group only. *)
parse_bre_atom(p, c) ==
    LET x == Here(p, c)
        first == c.pos = 1 \/ (c.pos > 2 /\ StartsWith(p, c.pos - 2, "\\("))
        last == Ahead(p, c) = NUL \/ StartsWith(p, c.pos + 1, "\\)")
    IN  CASE x = "^" -> Emit(c, IF first THEN Bol ELSE Char(x), 1)
          [] x = "$" -> Emit(c, IF last THEN Eol ELSE Char(x), 1)
          [] x = "." -> Emit(c, AnyChar, 1)
          [] x = "[" -> parse_bracket(p, c)
          [] x = "\\" -> parse_bre_escape(p, c)
          [] OTHER -> Emit(c, Char(x), 1)

BreCount(p, a) ==
    CASE a.err # "" -> a
      [] a.err = "" /\ Is(p, a, "*") -> Emit(a, Star(a.ret), 1)
      [] a.err = "" /\ Is(p, a, "\\{") -> Bounded(p, [a EXCEPT !.pos = @ + 2], "\\}")
      [] OTHER -> a
parse_bre_piece(p, c) == IF Here(p, c) = "*" THEN Emit(c, Char("*"), 1)
                         ELSE BreCount(p, parse_bre_atom(p, c))

(* A loop over pieces keeps the tree so far as a sequence of at most one.  *)
Joined(op, tree, n) ==
    <<IF tree = <<>> THEN n ELSE [op |-> op, left |-> tree[1], right |-> n]>>
Done(c, tree) == [c EXCEPT !.ret = IF tree = <<>> THEN Empty ELSE tree[1]]

RECURSIVE BrePieces(_, _, _), EreBranch(_, _, _), EreBranches(_, _, _)

MoreBre(p, a, tree) == IF a.err # "" THEN a
                       ELSE BrePieces(p, a, Joined("concat", tree, a.ret))
BrePieces(p, c, tree) ==
    IF Here(p, c) = NUL \/ Is(p, c, "\\)") THEN Done(c, tree)
    ELSE MoreBre(p, parse_bre_piece(p, c), tree)

compile_bre(p, c) == BrePieces(p, c, <<>>)

parse_ere_atom(p, c) ==
    LET x == Here(p, c)
    IN  CASE x \in {"*", "+", "?", "{"} -> Fail(c, "BADRPT")
          [] x = "^" -> Emit(c, Bol, 1)
          [] x = "$" -> Emit(c, Eol, 1)
          [] x = "." -> Emit(c, AnyChar, 1)
          [] x = "[" -> parse_bracket(p, c)
          [] x = "(" -> ParseGroup(p, c, TRUE)
          [] x = "\\" -> IF Ahead(p, c) = NUL THEN Fail(c, "EESCAPE")
                         ELSE Emit(c, Char(Ahead(p, c)), 2)
          [] OTHER -> Emit(c, Char(x), 1)

EreCount(p, a) ==
    LET x == Here(p, a)
    IN  CASE a.err # "" -> a
          [] a.err = "" /\ x = "*" -> Emit(a, Star(a.ret), 1)
          [] a.err = "" /\ x = "+" -> Emit(a, Concat(a.ret, Star(a.ret)), 1)
          [] a.err = "" /\ x = "?" -> Emit(a, Alt(a.ret, Empty), 1)
          [] a.err = "" /\ x = "{" -> Bounded(p, [a EXCEPT !.pos = @ + 1], "}")
          [] OTHER -> a
parse_ere_piece(p, c) == EreCount(p, parse_ere_atom(p, c))

MoreEre(p, a, tree) == IF a.err # "" THEN a
                       ELSE EreBranch(p, a, Joined("concat", tree, a.ret))
EreBranch(p, c, tree) ==
    IF Here(p, c) \in {NUL, "|", ")"} THEN Done(c, tree)
    ELSE MoreEre(p, parse_ere_piece(p, c), tree)

NextBranch(p, a, tree) ==
    IF a.err # "" THEN a
    ELSE EreBranches(p, IF Is(p, a, "|") THEN [a EXCEPT !.pos = @ + 1] ELSE a,
                     Joined("alt", tree, a.ret))
EreBranches(p, c, tree) ==
    IF Here(p, c) \in {NUL, ")"} THEN Done(c, tree)
    ELSE NextBranch(p, EreBranch(p, c, <<>>), tree)

compile_ere(p, c) == EreBranches(p, c, <<>>)

(* Nothing may be left of the pattern, and no group open. *)
Whole(p, c) == IF c.err = "" /\ (Here(p, c) # NUL \/ c.open # 0)
               THEN Fail(c, "EPAREN") ELSE c
Compile(p, cflags) == Whole(p, IF "EXTENDED" \in cflags THEN compile_ere(p, Start)
                                                        ELSE compile_bre(p, Start))
-----------------------------------------------------------------------------
(* regexec.  The instructions, numbered from one; Match is the first. *)

RECURSIVE build_nfa(_, _, _)
new_inst(nfa, inst) == [nfa |-> Append(nfa, inst), pc |-> Len(nfa) + 1]

build_nfa(nfa, node, out) ==
    CASE node.op = "empty" -> [nfa |-> nfa, pc |-> out]
      [] node.op = "concat" ->
            LET r == build_nfa(nfa, node.right, out)
            IN  build_nfa(r.nfa, node.left, r.pc)
      [] node.op = "alt" ->
            LET l == build_nfa(nfa, node.left, out)
                r == build_nfa(l.nfa, node.right, out)
            IN  new_inst(r.nfa, [op |-> "split", out |-> l.pc, out2 |-> r.pc])
      [] node.op = "star" ->
            LET s == new_inst(nfa, [op |-> "split", out |-> 0, out2 |-> out])
                b == build_nfa(s.nfa, node.left, s.pc)
            IN  [nfa |-> [b.nfa EXCEPT ![s.pc].out = b.pc], pc |-> s.pc]
      [] node.op = "group" ->
            LET in == build_nfa(nfa, node.left, out)
            IN  new_inst(in.nfa, [op |-> "save", idx |-> 2 * node.id, out |-> in.pc])
      [] node.op = "end" ->
            new_inst(nfa, [op |-> "save", idx |-> 2 * node.id + 1, out |-> out])
      [] OTHER -> new_inst(nfa, [node |-> node, op |-> node.op, out |-> out])

(* Does a bracket expression of the pattern take the character?  It is     *)
(* read again for every character; last is what a range can start at.      *)
Folded(cflags, c) == IF "ICASE" \in cflags THEN ToLower(c) ELSE c

RECURSIVE Items(_, _, _, _, _, _)
Items(p, i, end, last, cflags, c) ==
    LET t == At(p, i + 1)
        e == CHOOSE j \in i + 2..Len(p) :
                /\ StartsWith(p, j, t \o "]")
                /\ \A k \in i + 2..j - 1 : ~StartsWith(p, k, t \o "]")
        Name == SubSeq(p, i + 2, e - 1)
        F(x) == Folded(cflags, x)
    IN  CASE i >= end -> FALSE
          [] i < end /\ At(p, i) = "[" /\ t \in {":", ".", "="} ->
                \/ t = ":" /\ InClass(Name, c)
                \/ t # ":" /\ Name = c
                \/ Items(p, e + 2, end, NUL, cflags, c)
          [] i < end /\ At(p, i) = "-" /\ i + 1 < end /\ last # NUL ->
                \/ Between(F(last), F(c), F(t))
                \/ Items(p, i + 2, end, NUL, cflags, c)
          [] OTHER ->
                \/ F(c) = F(At(p, i))
                \/ Items(p, i + 1, end, At(p, i), cflags, c)

eval_bracket(p, node, cflags, c) ==
    LET invert == At(p, node.from + 1) = "^"
        i == node.from + IF invert THEN 2 ELSE 1
    IN  IF invert THEN /\ ~(c = "\n" /\ "NEWLINE" \in cflags)
                       /\ ~Items(p, i, node.to, NUL, cflags, c)
                  ELSE Items(p, i, node.to, NUL, cflags, c)

(***************************************************************************)
(* A thread is [pc, saves, ref, off]: ref is the group a back reference is *)
(* comparing, off how far.  r is a run of threads at one offset: their     *)
(* list, the instructions handled there and the best match so far.  ex is  *)
(* what regexec knows: pattern, instructions, flags, subject, start.       *)
(* Offsets count from 0, as in the code.                                   *)
(***************************************************************************)
NoRef == -1

push_thread(ex, r, th) ==
    IF Len(r.list) >= Len(ex.nfa) THEN r ELSE [r EXCEPT !.list = Append(@, th)]

LineStart(ex, sp) == IF sp = 0 THEN "NOTBOL" \notin ex.eflags
                     ELSE "NEWLINE" \in ex.cflags /\ At(ex.str, sp) = "\n"
LineEnd(ex, sp) == IF sp = Len(ex.str) THEN "NOTEOL" \notin ex.eflags
                   ELSE "NEWLINE" \in ex.cflags /\ At(ex.str, sp + 1) = "\n"

\* Bug: the first thread that matches is kept, not the longest match.
Better_first(ex, best, saves, sp) ==
    IF best.len # -1 THEN best
    ELSE [len |-> sp - ex.start,
          m |-> [k \in 0..ex.nsub |-> IF k = 0 THEN <<ex.start, sp>>
                                      ELSE <<saves[2 * k], saves[2 * k + 1]>>]]

Better(ex, best, saves, sp) ==
    IF sp - ex.start <= best.len THEN best
    ELSE [len |-> sp - ex.start,
          m |-> [k \in 0..ex.nsub |-> IF k = 0 THEN <<ex.start, sp>>
                                      ELSE <<saves[2 * k], saves[2 * k + 1]>>]]

RECURSIVE add_thread(_, _, _, _)
add_thread(ex, seen, th, sp) ==
    LET i == ex.nfa[th.pc]
        r == [seen EXCEPT !.handled = @ \cup {th.pc}]
        Follow(q, out, saves) ==
            add_thread(ex, q, [th EXCEPT !.pc = out, !.saves = saves], sp)
        so == th.saves[2 * i.node.id]
        eo == th.saves[2 * i.node.id + 1]
    IN  CASE th.pc \in seen.handled -> seen
          [] th.pc \notin seen.handled /\ i.op = "match" ->
                [r EXCEPT !.best = Better(ex, @, th.saves, sp)]
          [] th.pc \notin seen.handled /\ i.op = "split" ->
                Follow(Follow(r, i.out, th.saves), i.out2, th.saves)
          [] th.pc \notin seen.handled /\ i.op = "save" ->
                Follow(r, i.out, [th.saves EXCEPT ![i.idx] = sp])
          [] th.pc \notin seen.handled /\ i.op = "bol" ->
                IF LineStart(ex, sp) THEN Follow(r, i.out, th.saves) ELSE r
          [] th.pc \notin seen.handled /\ i.op = "eol" ->
                IF LineEnd(ex, sp) THEN Follow(r, i.out, th.saves) ELSE r
          [] th.pc \notin seen.handled /\ i.op = "backref" ->
                CASE so = -1 \/ eo = -1 -> r
                  [] so # -1 /\ eo # -1 /\ so = eo -> Follow(r, i.out, th.saves)
                  [] OTHER -> push_thread(ex, r, [th EXCEPT !.ref = i.node.id, !.off = 0])
          [] OTHER -> push_thread(ex, r, th)

(* One thread reads the character at sp; what it leads to joins the next list. *)
Takes(ex, i, c) ==
    CASE i.op = "char" -> Folded(ex.cflags, c) = Folded(ex.cflags, i.node.c)
      [] i.op = "any" -> ~("NEWLINE" \in ex.cflags /\ c = "\n")
      [] i.op = "bracket" -> eval_bracket(ex.pat, i.node, ex.cflags, c)

Advance(ex, r, th, sp) ==
    LET i == ex.nfa[th.pc]
        c == At(ex.str, sp + 1)
        so == th.saves[2 * th.ref]
        eo == th.saves[2 * th.ref + 1]
        d == At(ex.str, so + th.off + 1)
        On == add_thread(ex, r, [th EXCEPT !.pc = i.out, !.ref = NoRef, !.off = 0], sp + 1)
    IN  CASE c = NUL -> r
          [] c # NUL /\ th.ref = NoRef -> IF Takes(ex, i, c) THEN On ELSE r
          [] c # NUL /\ th.ref # NoRef ->
                CASE Folded(ex.cflags, c) # Folded(ex.cflags, d) -> r
                  [] Folded(ex.cflags, c) = Folded(ex.cflags, d) /\ th.off + 1 = eo - so -> On
                  [] OTHER -> push_thread(ex, r, [th EXCEPT !.off = @ + 1])

RECURSIVE RunThreads(_, _, _)
RunThreads(ex, r, sp) ==
    IF sp > Len(ex.str) \/ r.list = <<>> THEN r.best
    ELSE RunThreads(ex, FoldLeft(LAMBDA q, th : Advance(ex, q, th, sp),
                                 [list |-> <<>>, handled |-> {}, best |-> r.best],
                                 r.list), sp + 1)

NoMatch == [len |-> -1, m |-> <<>>]

RECURSIVE FromStart(_)
OrLater(ex, best) == IF best.len # -1 THEN best
                     ELSE FromStart([ex EXCEPT !.start = @ + 1])
FromStart(ex) ==
    LET th == [pc |-> ex.root, ref |-> NoRef, off |-> 0,
               saves |-> [k \in 0..2 * ex.nsub + 1 |-> -1]]
        first == add_thread(ex, [list |-> <<>>, handled |-> {}, best |-> NoMatch],
                            th, ex.start)
    IN  IF ex.start > Len(ex.str) THEN NoMatch
        ELSE OrLater(ex, RunThreads(ex, first, ex.start))

Execute(re, str, eflags) ==
    LET built == build_nfa(<<[op |-> "match"]>>, re.tree, 1)
    IN  FromStart([pat |-> re.pat, nfa |-> built.nfa, root |-> built.pc, nsub |-> re.nsub,
                   cflags |-> re.cflags, eflags |-> eflags, str |-> str, start |-> 0])
-----------------------------------------------------------------------------
(* The calls.  preg is the program's regex_t: what regcomp leaves in it;   *)
(* reg is what the last call returned, with the matches it stored.         *)

VARIABLES preg, reg
regexVars == <<preg, reg>>

NoPattern == [tree |-> Empty, pat |-> NUL, nsub |-> 0, cflags |-> {}, set |-> FALSE]

RegexInit == preg = NoPattern /\ reg = [ret |-> "", pmatch |-> <<>>]

(* A pattern that regcomp refuses leaves preg as it is. *)
Accept(p, cflags, c) ==
    /\ preg' = IF c.err # "" THEN preg
               ELSE [tree |-> c.ret, pat |-> p, nsub |-> c.groups,
                     cflags |-> cflags, set |-> TRUE]
    /\ reg' = [ret |-> c.err, pmatch |-> <<>>]
Regcomp(p, cflags) == Accept(p, cflags, Compile(p, cflags))

(* pmatch has room for nmatch entries: the match, its groups, then -1. *)
Matched(best, nmatch) ==
    IF best.len = -1 THEN [ret |-> "NOMATCH", pmatch |-> <<>>]
    ELSE [ret |-> "", pmatch |-> IF "NOSUB" \in preg.cflags THEN <<>>
                                 ELSE [k \in 1..nmatch |->
                                         IF k <= preg.nsub + 1 THEN best.m[k - 1]
                                         ELSE <<-1, -1>>]]
Regexec(str, eflags, nmatch) ==
    /\ reg' = IF ~preg.set THEN [ret |-> "BADPAT", pmatch |-> <<>>]
              ELSE Matched(Execute(preg, str, eflags), nmatch)
    /\ UNCHANGED preg

Regfree == /\ preg' = [preg EXCEPT !.set = FALSE]
           /\ reg' = [ret |-> "", pmatch |-> <<>>]
=============================================================================
