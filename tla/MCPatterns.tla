----------------------------- MODULE MCPatterns -----------------------------
(***************************************************************************)
(* Instances of the modules about patterns and words: regular expressions, *)
(* names, word expansion, options and the group database.  A behaviour     *)
(* picks one of them and stays with it; input is what it passes.           *)
(***************************************************************************)
EXTENDS RegexLanguage, Glob, WordexpInspect, Options, Groups, TLC

VARIABLE input
vars == <<input, regexVars, globVars, wordexpVars, optionsVars, groupsVars>>

Only(lib) == /\ IF lib = "regex" THEN TRUE ELSE UNCHANGED regexVars
             /\ IF lib = "glob" THEN TRUE ELSE UNCHANGED globVars
             /\ IF lib = "words" THEN TRUE ELSE UNCHANGED wordexpVars
             /\ IF lib = "options" THEN TRUE ELSE UNCHANGED optionsVars
             /\ IF lib = "groups" THEN TRUE ELSE UNCHANGED groupsVars

-----------------------------------------------------------------------------
(* Regular expressions: two pieces one after the other, or one of two,     *)
(* with counts, groups, sets and anchors; and a group that is repeated.    *)
AB == Set("[[:alpha:]]", {"a", "b", "B"}, FALSE)
NotB == Set("[^b]", {"b"}, TRUE)
StarOf(e) == Rep(e, 0, -1, "*")
Leaves == {Lit("a"), AnyOne, NotB}
Groups2 == {Grp(Cat(x, y)) : x \in {Lit("a"), StarOf(Lit("b"))}, y \in {StarOf(AB), Lit("b")}}
Counted(x, ext) ==
    {StarOf(x), Rep(x, 1, 2, "1,2")} \cup
    IF ext THEN {Rep(x, 0, 1, "?"), Rep(x, 1, -1, "+")} ELSE {Rep(x, 2, 2, "2")}
Pieces(ext) == Leaves \cup Groups2 \cup {LineBegin, LineStop, Set("[a-b]", {"a", "b"}, FALSE)}
                 \cup UNION {Counted(x, ext) : x \in {Lit("a"), NotB, Grp(AB)}}

(* References to groups that can end in one way and in many, right behind   *)
(* them and behind what can take the same characters; and one that is long. *)
Referring == {Cat(Grp(x), Ref(1)) : x \in Leaves \cup {StarOf(Lit("a"))}}
               \cup {Cat(Cat(Grp(x), y), Ref(1)) : x \in {StarOf(Lit("a")), StarOf(AB)},
                                                  y \in {StarOf(Lit("a")), Lit("b")}}
               \cup {Cat(Cat(Grp(StarOf(Lit("a"))), Ref(1)), Lit("b"))}
Exprs(ext) == {Cat(x, y) : x \in Pieces(ext), y \in Pieces(ext)}
                \cup IF ext THEN {Or(x, Cat(Lit("a"), y)) : x \in Groups2, y \in Pieces(ext)}
                     ELSE Referring
(* ^ and $ inside a basic expression are characters, not anchors. *)
Sensible(e, ext) == ext \/ e.op # "cat" \/ (e.l # LineStop /\ e.r # LineBegin /\ e.r.op # "^")

(* What POSIX refuses; the last is deeper than the stack of groups here.  *)
Malformed == {"\\(a", "a\\)", "[a", "\\", "a\\{2", "\\{1\\}", "a\\{2,1\\}", "[[:none:]]",
              "[[==]]", "\\1", "\\(\\(\\(a\\)\\)\\)"}

RegexFlags == {{}, {"NEWLINE"}, {"ICASE"}, {"NOSUB"}}
Subjects == {"", "a", "b", "ab", "aab", "bab", "B\na"}
ManyAs == "aaaaaaaaaaaa"

PickRegex ==
    /\ input.lib = "none"
    /\ \E ext \in BOOLEAN, f \in RegexFlags, x \in {e.l : e \in Exprs(TRUE) \cup Exprs(FALSE)} :
          input' = [lib |-> "regex", ext |-> ext, flags |-> f, first |-> x]
    /\ Only("none")
CompileBad ==
    /\ input.lib = "none"
    /\ \E p \in Malformed : Regcomp(p, {}) /\ input' = [lib |-> "malformed", pattern |-> p]
    /\ Only("regex")
CompileOne ==
    /\ input.lib = "regex" /\ "first" \in DOMAIN input
    /\ \E e \in Exprs(input.ext) :
          /\ e.l = input.first /\ Sensible(e, input.ext)
          /\ LET n == Numbered(e, 0)
             IN  /\ Regcomp(Written(n.e, input.ext),
                            input.flags \cup IF input.ext THEN {"EXTENDED"} ELSE {})
                 /\ input' = [lib |-> "regex", expr |-> n.e, groups |-> n.n]
    /\ Only("regex")
MatchOne ==
    /\ input.lib = "regex" /\ "expr" \in DOMAIN input /\ "subject" \notin DOMAIN input
    /\ \E s \in Subjects \cup IF Referred(input.expr) = {} THEN {} ELSE {"aaa", "abaa", ManyAs},
          ef \in {{}, {"NOTBOL", "NOTEOL"}} :
          /\ Regexec(s, ef, 4)
          /\ input' = input @@ [subject |-> s, eflags |-> ef]
    /\ Only("regex")
FreeRegex == /\ input.lib = "regex" /\ "subject" \in DOMAIN input
             /\ Regfree /\ input' = [lib |-> "freed"] /\ Only("regex")
MatchNone == /\ input.lib = "freed" /\ reg.ret = "" /\ Regexec("a", {}, 1)
             /\ UNCHANGED input /\ Only("regex")

(* What a pattern that regcomp accepts finds in a subject is a match, with  *)
(* groups of one of the ways to match it, and -1 behind them; and it is the *)
(* match that starts first and is longest, and none is missed, unless two   *)
(* ways to a back reference are confused (Settled).  What POSIX refuses     *)
(* regcomp refuses, and nothing matches a pattern that was freed.           *)
FindsLongest ==
    LET f == preg.cflags \cup input.eflags
        A == AllMatches(input.expr, input.groups, input.subject, f)
        settled == Settled(input.expr, input.groups, input.subject, f, Instructions(preg.tree))
        StoredAs(m) == [k \in 1..4 |-> CASE k = 1 -> <<m[1], m[2]>>
                                       [] k \in 2..input.groups + 1 -> m[3][k - 1]
                                       [] OTHER -> <<-1, -1>>]
    IN  /\ input.lib = "malformed" => reg.ret # "" /\ ~preg.set
        /\ input.lib = "freed" => reg.ret \in {"", "BADPAT"}
        /\ "expr" \in DOMAIN input => preg.set /\ preg.nsub = input.groups
        /\ "subject" \in DOMAIN input =>
              IF reg.ret = "NOMATCH" THEN settled => A = {}
              ELSE /\ reg.ret = ""
                   /\ \E m \in IF settled THEN Longest(A) ELSE A :
                         reg.pmatch = IF "NOSUB" \in f THEN <<>> ELSE StoredAs(m)

-----------------------------------------------------------------------------
(* Names.  The tree has hidden names, a file and links at every place a    *)
(* directory could be, and directories that cannot be opened or read.      *)
MCFiles == (<<>> :> "dir") @@ (<<"a">> :> "dir") @@ (<<"a", "b">> :> "file")
            @@ (<<"a", ".c">> :> "file") @@ (<<".d">> :> "dir")
            @@ (<<".d", "b">> :> "dangling") @@ (<<"b">> :> "closed")
            @@ (<<"ab">> :> "broken") @@ (<<"ab", "ac">> :> "file") @@ (<<"c">> :> "file")
(* readdir in the order of the names, or the other way round. *)
Listings == {[q \in {d \in DOMAIN Files : Files[d] \in {"dir", "broken"}} |->
                LET up == SetToSortSeq(Entries(q), compare_paths)
                IN  IF o THEN up ELSE Reverse(up)] : o \in BOOLEAN}
Segs == {<<Self("a")>>, <<AnyChars>>, <<Self("."), AnyChars>>, <<OneOf("?", {}, TRUE)>>,
         <<Self("a"), AnyChars>>, <<OneOf("[!b]", {"b"}, TRUE), Self("b")>>,
         <<[Self("b") EXCEPT !.text = "\\b"]>>, <<Self("."), Self(".")>>, <<Self(".")>>}

GlobFlags == {{}, {"MARK"}, {"ERR"}, {"NOSORT", "MARK"}, {"NOCHECK"}, {"DOOFFS"}}

(* Names for fnmatch: up to three parts against up to three characters.    *)
Parts == {Self("a"), Self("."), Self("/"), [Self("*") EXCEPT !.text = "\\*"], AnyChars,
          OneOf("[!.b]", {".", "b"}, TRUE), OneOf("[[:alpha:]*]", {"a", "b", "*"}, FALSE)}
NameChars == {"a", ".", "/", "*"}
Subjects3 == {""} \cup NameChars \cup {x \o y : x \in NameChars, y \in NameChars}
                \cup {"a" \o x \o y : x \in NameChars, y \in NameChars}
                \cup {x \o "/." : x \in NameChars}

RECURSIVE GlobText(_)
GlobText(segs) == PatternText(segs[1])
                    \o IF Len(segs) > 1 THEN "/" \o GlobText(Tail(segs)) ELSE ""

PickGlob ==
    /\ input.lib = "none"
    /\ \E s \in Segs, fl \in GlobFlags, up \in Listings :
          input' = [lib |-> "glob", flags |-> fl, listing |-> up, first |-> s]
    /\ Only("none")
CallGlob ==
    /\ input.lib = "glob" /\ "first" \in DOMAIN input
    /\ \E more \in {<<>>} \cup {<<s>> : s \in Segs}, slash, stop \in BOOLEAN :
          LET segs == <<input.first>> \o more
              text == GlobText(segs) \o IF slash THEN "/" ELSE ""
          IN  /\ GlobCall(text, input.flags, stop, input.listing)
              /\ input' = [lib |-> "glob", segs |-> segs, slash |-> slash, text |-> text,
                           flags |-> input.flags, calls |-> 1, listing |-> input.listing]
    /\ Only("glob")
(* A second call, for "*", that appends. *)
CallAgain ==
    /\ input.lib = "glob" /\ "segs" \in DOMAIN input /\ input.calls = 1
    /\ globbed.ret # "ABORTED"
    /\ \E fl \in {{"APPEND"} \cup (input.flags \cap {"DOOFFS"})} :
          /\ GlobCall("*", fl, FALSE, input.listing)
          /\ input' = [input EXCEPT !.calls = 2, !.segs = <<<<AnyChars>>>>, !.slash = FALSE,
                                   !.text = "*", !.flags = fl]
    /\ Only("glob")
FreeGlob == /\ input.lib = "glob" /\ "segs" \in DOMAIN input /\ input.calls = 2
            /\ Globfree /\ input' = [lib |-> "freed"] /\ Only("glob")

PickName ==
    /\ input.lib = "none"
    /\ \E fl \in SUBSET {"PATHNAME", "PERIOD"}, x \in Parts :
          input' = [lib |-> "fnmatch", flags |-> fl, first |-> x]
    /\ Only("none")
MatchName ==
    /\ input.lib = "fnmatch" /\ "first" \in DOMAIN input
    /\ \E n \in 0..2 : \E more \in [1..n -> Parts] :
          input' = [lib |-> "fnmatch", flags |-> input.flags, parts |-> <<input.first>> \o more]
    /\ Only("none")

(* fnmatch takes a name exactly when the pattern, read as parts, matches    *)
(* it.  glob gives the existing paths that match, each once and sorted      *)
(* behind those of earlier calls; a search cut short gives only such paths; *)
(* and gl_pathc counts what gl_pathv holds behind gl_offs entries.          *)
GlobPromise ==
    /\ "parts" \in DOMAIN input =>
          \A w \in Subjects3 :
              Matches(PatternText(input.parts), w, input.flags)
                = InLanguage(input.parts, w, input.flags)
    /\ input.lib = "glob" /\ "segs" \in DOMAIN input =>
        LET P == Promised(input.segs, input.slash, input.flags)
            v == pglob.pathv
            new == Drop(v, pglob.offs + Len(globbed.old))
            Sorted == \A i \in 1..Len(new) - 1 : Before(new[i], new[i + 1])
        IN  /\ pglob.pathc = Len(v) - pglob.offs
            /\ SubSeq(v, pglob.offs + 1, pglob.offs + Len(globbed.old)) = globbed.old
            /\ CASE globbed.ret = "" /\ P # {} ->
                       ToSet(new) = P /\ ("NOSORT" \in input.flags \/ Sorted)
                 [] globbed.ret = "" /\ P = {} -> "NOCHECK" \in input.flags /\ new = <<input.text>>
                 [] globbed.ret = "NOMATCH" -> P = {} /\ new = <<>>
                 [] globbed.ret = "ABORTED" -> ToSet(new) \subseteq P

-----------------------------------------------------------------------------
(* Words: one or two, plain and quoted, and behind an escape, with what the *)
(* shell would run or refuse.  The second call is for a plain word.         *)
PlainWords == <<Plain("a")>>
Bare == {Plain("a"), Plain("a@"), Escaped("a"), Escaped("'"), Escaped("\""), Escaped(Backquote),
         Command("a"), Backquoted("a"), Subshell("a"), Arithmetic(Plain("(1)")),
         Arithmetic(Command("a"))}
WordSet == Bare \cup {Plain(")")} \cup {Single(x) : x \in Bare \ {Escaped("'")}}
             \cup {Double(x) : x \in Bare \cup {Plain("'"), Plain("("), Word("\\$(a)", {"escaped start"})}}
MCTexts == {<<x>> : x \in WordSet} \cup {<<x, y>> : x \in WordSet, y \in WordSet}
             \cup {<<Escaped(q), x, y>> : q \in {"'", "\""}, x \in Bare, y \in Bare}

PickWords == /\ input.lib = "none" /\ input' = [lib |-> "words"] /\ Only("none")
ExpandWords ==
    /\ input.lib = "words"
    /\ \/ \E flags \in SUBSET Flags : WordexpCall(PlainWords, flags)
       \/ wx.calls = 0 /\ \E w \in MCTexts, flags \in {{"NOCMD"}, {"NOCMD", "REUSE"}} :
                             WordexpCall(w, flags)
       \/ WordexpSteps
    /\ UNCHANGED input /\ Only("words")

-----------------------------------------------------------------------------
(* Command lines of up to three words.                                      *)
ArgWords == {"-a", "-ab", "-b", "-bx", "-", "--", "x", "-z", "-:a"}
PickOptions ==
    /\ input.lib = "none"
    /\ \E n \in 0..3 : \E w \in [1..n -> ArgWords], letters \in {"ab:", ":ab:", "b:ba"} :
          argv' = <<Chars("p")>> \o [i \in 1..n |-> Chars(w[i])] /\ optstring' = Chars(letters)
    /\ input' = [lib |-> "options"]
    /\ UNCHANGED <<optind, scan, optarg, ended, options>> /\ Only("options")
ReadOption == /\ input.lib = "options" /\ OptionsNext
              /\ UNCHANGED input /\ Only("options")

-----------------------------------------------------------------------------
(* A group file with a comment, a blank and two broken lines, a name and a  *)
(* number that occur twice, and lists of members with holes.                *)
MCLines == <<"# c", "a:x:5:", "bad:x", "b:*:7:u,v,w", "", "a:x:8:u", "no", "c:x:5:,u,,v">>
Searches == {[field |-> "name", wanted |-> w] : w \in {"a", "b", "z"}}
              \cup {[field |-> "gid", wanted |-> w] : w \in {5, 8, 9}}
ReadGroups ==
    /\ input.lib \in {"none", "groups"}
    /\ \E opens \in BOOLEAN :
          \/ /\ Setgrent(opens) \/ Getgrent(opens) \/ Endgrent
             /\ input' = [lib |-> "groups"]
          \/ \E x \in Searches :
                /\ Getgr(x.field, x.wanted, opens)
                /\ input' = IF opens \/ fp >= 0 THEN x @@ [lib |-> "groups"]
                                               ELSE [lib |-> "groups"]
    /\ Only("groups")

(* The walks of the group file are in its order, and a search gives the     *)
(* first entry that has the name or the number, whatever calls it follows.  *)
WalksTheGroups ==
    input.lib = "groups" => /\ WalksInOrder
                            /\ "field" \in DOMAIN input => IsFirst(input.field, input.wanted)

-----------------------------------------------------------------------------
Init == /\ input = [lib |-> "none"]
        /\ RegexInit /\ GlobInit /\ WordexpInit /\ OptionsInit(<<<<"p">>>>, <<"a">>) /\ GroupsInit

Next == \/ PickRegex \/ CompileBad \/ CompileOne \/ MatchOne \/ FreeRegex \/ MatchNone
        \/ PickGlob \/ CallGlob \/ CallAgain \/ FreeGlob \/ PickName \/ MatchName
        \/ PickWords \/ ExpandWords \/ PickOptions \/ ReadOption \/ ReadGroups

Spec == Init /\ [][Next]_vars
=============================================================================
