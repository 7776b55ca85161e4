--------------------------- MODULE WordexpInspect ---------------------------
(***************************************************************************)
(* What wordexp looks for in its text before it calls the shell            *)
(* (inspect_chars), and the call with it.                                  *)
(***************************************************************************)
EXTENDS Wordexp, Text, SequencesExt

(* inspect_chars: does the text hold a command substitution (for            *)
(* WRDE_NOCMD), or a character that may not stand unquoted?  single and     *)
(* double are the quotes open at i, nests the parentheses of $((.           *)
RECURSIVE inspect(_, _, _, _, _)
inspect(w, i, single, double, nests) ==
    LET c == At(w, i)
        s == IF c = "'" /\ ~double THEN ~single ELSE single
        d == IF c = "\"" /\ ~s THEN ~double ELSE double
        dollar == c = "$" /\ At(w, i + 1) = "("
        arith == dollar /\ At(w, i + 2) = "("
        n == CASE arith -> nests + 2
               [] ~arith /\ c = "(" /\ nests > 0 -> nests + 1
               [] ~arith /\ c = ")" /\ nests > 0 -> nests - 1
               [] OTHER -> nests
    IN  IF c = NUL THEN ""
        ELSE IF c = "\\" /\ ~single
             THEN IF At(w, i + 1) = NUL THEN "SYNTAX"
                  ELSE inspect(w, i + 1, single, double, nests)
        ELSE IF s THEN inspect(w, i + 1, s, d, nests)
        ELSE IF c = Backquote \/ (dollar /\ ~arith) THEN "CMDSUB"
        ELSE IF \/ c \in {"(", ")"} /\ nests = 0 /\ ~d
                \/ c \in CharsOf("\n|&;<>{}") /\ n = 0 /\ ~d THEN "BADCHAR"
        ELSE inspect(w, IF arith THEN i + 3 ELSE i + 1, s, d, n)

inspect_chars(w) == inspect(w, 1, FALSE, FALSE, 0)

(***************************************************************************)
(* Words as the shell reads them: what is written, and what it has of      *)
(* these: a command that the shell runs; one of them that is a subshell in *)
(* $(...) and looks like arithmetic; a quote mark, or the start of a       *)
(* command, that a backslash makes a character.                            *)
(***************************************************************************)
Word(text, has) == [text |-> text, has |-> has]
Plain(t) == Word(t, {})
Escaped(c) == Word("\\" \o c, IF c \in {"'", "\""} THEN {"escaped quote"}
                              ELSE IF c \in {"$", Backquote} THEN {"escaped start"} ELSE {})
Command(t) == Word("$(" \o t \o ")", {"command"})
Backquoted(t) == Word(Backquote \o t \o Backquote, {"command"})
Subshell(t) == Word("$((" \o t \o ") )", {"command", "subshell"})
Arithmetic(x) == Word("$((" \o x.text \o "))", x.has)
Single(x) == Word("'" \o x.text \o "'", {})
Double(x) == Word("\"" \o x.text \o "\"", x.has)

WordsText(words) == FoldLeft(LAMBDA t, x : t \o x.text, "", words)
Has(words) == UNION {words[n].has : n \in DOMAIN words}

\* Bug: the text is looked at only when WRDE_NOCMD is the only flag.
WordexpCall_only(words, flags) ==
    WordexpBegins(words, flags,
                  IF flags = {"NOCMD"} THEN inspect_chars(WordsText(words)) ELSE "")

WordexpCall(words, flags) ==
    WordexpBegins(words, flags,
                  IF "NOCMD" \in flags THEN inspect_chars(WordsText(words)) ELSE "")
-----------------------------------------------------------------------------
(* With WRDE_NOCMD the shell gets no text in which it finds a command, and *)
(* a call refused for one held one: wherever quotes, arithmetic and other   *)
(* words put it.  Where a quote mark is escaped neither is so, nor the      *)
(* first where $(( opens a subshell, nor the second where a start is        *)
(* escaped (inspect_chars, wordexp.c:66 and 97, see the README).            *)
NoCommandRuns ==
    "NOCMD" \in wx.flags =>
        LET has == Has(wx.words)
        IN  /\ wx.at # "idle" /\ "command" \in has =>
                  "escaped quote" \in has \/ "subshell" \in has
            /\ wx.at = "idle" /\ wx.ret = "CMDSUB" =>
                  \/ "command" \in has
                  \/ "escaped quote" \in has \/ "escaped start" \in has
=============================================================================
