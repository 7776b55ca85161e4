------------------------------- MODULE Wordexp -------------------------------
(***************************************************************************)
(* wordexp and wordfree (src/src/c/wordexp).  The shell expands the words: *)
(* a child prints "x" and then every word, each with a NUL, into a pipe    *)
(* that wordexp reads into a vector which grows as words arrive.  Every    *)
(* call on the way may fail.  One program, one call at a time.  What the   *)
(* text is refused for is WordexpInspect's.                                *)
(***************************************************************************)
EXTENDS Integers, Sequences

CONSTANTS
    FirstRoom,          \* entries of the first vector, 16 in the code
    Offs,               \* we_offs, as the program sets it for WRDE_DOOFFS
    MaxWordexp,         \* calls of wordexp, for TLC
    MaxExpanded         \* words the shell gives at a call, for TLC

(* A vector that starts behind FirstRoom - 2 reserved entries is written   *)
(* past its end by the first word; the program reserves fewer.             *)
ASSUME WordexpAssumption == /\ FirstRoom \in Nat /\ Offs \in Nat
                            /\ Offs + 2 <= FirstRoom
                            /\ MaxWordexp \in Nat /\ MaxExpanded \in Nat

-----------------------------------------------------------------------------
(***************************************************************************)
(* we is the program's wordexp_t; wordv holds at most one vector, its room *)
(* and its entries.  wx is the call under way: its place, arguments and    *)
(* locals.  kids are the children not waited for, fds the ends of pipes    *)
(* that are open, short says that memory ran out.                          *)
(***************************************************************************)
VARIABLES we, wx, kids, fds, short
wordexpVars == <<we, wx, kids, fds, short>>

NoVector == <<>>

Idle == [at |-> "idle", flags |-> {}, words |-> <<>>, base |-> 0, alloc |-> 0,
         vec |-> NoVector, out |-> <<>>, ret |-> "", calls |-> 0, spilt |-> FALSE]

WordexpInit == /\ we = [wordc |-> 0, wordv |-> NoVector, offs |-> Offs]
               /\ wx = Idle /\ kids = {} /\ fds = {} /\ short = FALSE

Go(place) == wx' = [wx EXCEPT !.at = place]
Returns(ret) == wx' = [wx EXCEPT !.at = "idle", !.ret = ret, !.vec = NoVector]
Freed(w) == [w EXCEPT !.wordv = NoVector, !.wordc = 0]

(* Up to pipe: old words, what the inspection gave, and where the new ones *)
(* go.  The program asks for WRDE_REUSE or WRDE_APPEND when it still has a  *)
(* vector, and uses WRDE_DOOFFS in every call on it or in none.            *)
WordexpBegins(words, flags, bad) ==
    LET w == IF "REUSE" \in flags THEN Freed(we) ELSE we
        append == "APPEND" \in flags
    IN  /\ wx.at = "idle" /\ wx.calls < MaxWordexp
        /\ bad # "" => "NOCMD" \in flags
        /\ we.wordv # NoVector =>
              \/ "REUSE" \in flags
              \/ append /\ (we.offs > 0) = ("DOOFFS" \in flags)
        /\ LET offs == IF "DOOFFS" \in flags THEN IF we.offs = 0 THEN Offs ELSE we.offs
                                             ELSE 0
           IN  IF bad # ""
               THEN /\ wx' = [wx EXCEPT !.calls = @ + 1, !.ret = bad,
                                        !.flags = flags, !.words = words]
                    /\ we' = w
               ELSE /\ wx' = [wx EXCEPT !.at = "pipe", !.flags = flags, !.words = words,
                                        !.calls = @ + 1, !.alloc = 0,
                                        !.base = offs + IF append THEN w.wordc ELSE 0,
                                        !.vec = IF append THEN w.wordv ELSE NoVector]
                    /\ we' = [w EXCEPT !.offs = offs]
        /\ UNCHANGED <<kids, fds, short>>

err_mem == /\ we' = IF "APPEND" \in wx.flags THEN we ELSE Freed(we)
           /\ Returns("NOSPACE")

MakePipe ==
    /\ wx.at = "pipe"
    /\ \/ Go("fork") /\ fds' = {"read", "write"} /\ UNCHANGED we
       \/ err_mem /\ UNCHANGED fds
    /\ UNCHANGED <<kids, short>>

(* What the shell prints for the words: nothing when it cannot parse them.  *)
(* A shell that is killed may cut what it prints, the "x" or a word.        *)
Expanded == {"w", "cut"}
Prints(n) == {<<"x">> \o t : t \in {u \in [1..n -> Expanded] : \A k \in 1..n - 1 : u[k] = "w"}}
Outputs == {<<>>, <<"cut">>} \cup UNION {Prints(n) : n \in 0..MaxExpanded}

ForkShell ==
    /\ wx.at = "fork"
    /\ \/ \E out \in Outputs :
            /\ wx' = [wx EXCEPT !.at = "fdopen", !.out = out]
            /\ kids' = {"sh"} /\ fds' = {"read"}
            /\ UNCHANGED we
       \/ err_mem /\ fds' = {} /\ UNCHANGED kids
    /\ UNCHANGED short

OpenStream ==
    /\ wx.at = "fdopen"
    /\ \/ /\ wx' = [wx EXCEPT !.at = "skip",
                              !.alloc = IF wx.vec = NoVector THEN 0 ELSE wx.base + 1]
          /\ UNCHANGED <<we, kids, fds>>
       \/ err_mem /\ fds' = {} /\ kids' = {}
    /\ UNCHANGED short

(* extract_string: a token of the output, of which it meets the end behind  *)
(* one that is cut, nothing at its end, or nothing for want of memory,      *)
(* which stays short while the stream is open.                              *)
extract_string ==
    {[token |-> <<>>, eof |-> FALSE, rest |-> wx.out, short |-> TRUE]}
        \cup IF short THEN {}
             ELSE {IF wx.out = <<>>
                   THEN [token |-> <<>>, eof |-> TRUE, rest |-> <<>>, short |-> FALSE]
                   ELSE [token |-> <<Head(wx.out)>>, eof |-> Head(wx.out) = "cut",
                         rest |-> Tail(wx.out), short |-> FALSE]}

\* Bug: the child is not waited for when the shell prints nothing.
SkipX_unwaited ==
    /\ wx.at = "skip"
    /\ \E x \in extract_string :
          /\ short' = x.short
          /\ IF x.eof THEN Returns("SYNTAX") /\ fds' = {}
             ELSE wx' = [wx EXCEPT !.at = "token", !.out = x.rest] /\ UNCHANGED fds
    /\ UNCHANGED <<we, kids>>

SkipX ==
    /\ wx.at = "skip"
    /\ \E x \in extract_string :
          /\ short' = x.short
          /\ IF x.eof THEN Returns("SYNTAX") /\ fds' = {} /\ kids' = {}
             ELSE /\ wx' = [wx EXCEPT !.at = "token", !.out = x.rest]
                  /\ UNCHANGED <<fds, kids>>
    /\ UNCHANGED we

(* The loop: room for the word and the NULL behind it, or an end of it all. *)
Enlarged(v, room) == <<[room |-> room,
                        slot |-> [k \in 1..room |->
                                    IF v # NoVector /\ k <= v[1].room THEN v[1].slot[k]
                                    ELSE "junk"]]>>
Stored(v, base, w) == [v EXCEPT ![1].slot =
                         [k \in DOMAIN @ |-> CASE k = base + 1 -> w
                                               [] k = base + 2 -> "NULL"
                                               [] OTHER -> @[k]]]
NewRoom(alloc) == IF alloc < FirstRoom THEN FirstRoom ELSE alloc * 2

Room(v) == IF v = NoVector THEN 0 ELSE v[1].room

TakeToken ==
    /\ wx.at = "token"
    /\ \E x \in extract_string :
          LET grow == wx.base + 1 >= wx.alloc
              alloc == IF grow THEN NewRoom(wx.alloc) ELSE wx.alloc
              v == IF grow THEN Enlarged(wx.vec, alloc) ELSE wx.vec
          IN  /\ short' = x.short
              /\ \/ /\ x.token # <<>>
                    /\ wx' = [wx EXCEPT !.out = x.rest, !.alloc = alloc, !.base = @ + 1,
                                        !.vec = Stored(v, wx.base, x.token[1]),
                                        !.spilt = @ \/ wx.base + 2 > Room(v)]
                 \/ /\ x.token # <<>> /\ grow
                    /\ wx' = [wx EXCEPT !.at = "done", !.out = x.rest,
                                        !.ret = IF x.eof THEN "" ELSE "NOSPACE"]
                 \/ /\ x.token = <<>>
                    /\ wx' = [wx EXCEPT !.at = "done",
                                        !.ret = IF x.eof THEN "" ELSE "NOSPACE"]
    /\ UNCHANGED <<we, kids, fds>>

(* The stream is closed, the child waited for, and the vector handed over. *)
HandOver ==
    /\ wx.at = "done"
    /\ LET empty == <<[room |-> wx.base + 1, slot |-> [k \in 1..wx.base + 1 |-> "NULL"]]>>
           Give(v, ret) ==
              /\ we' = [we EXCEPT !.wordc = wx.base - we.offs,
                          !.wordv = IF v = NoVector THEN v
                                    ELSE [v EXCEPT ![1].slot =
                                            [k \in DOMAIN @ |-> IF k <= we.offs THEN "NULL"
                                                                ELSE @[k]]]]
              /\ Returns(ret)
       IN  IF wx.vec # NoVector THEN Give(wx.vec, wx.ret)
           ELSE Give(empty, wx.ret) \/ Give(NoVector, "NOSPACE")
    /\ fds' = {} /\ kids' = {}
    /\ short' = FALSE

Wordfree == /\ wx.at = "idle" /\ we.wordv # NoVector
            /\ we' = Freed(we) /\ wx' = [wx EXCEPT !.ret = ""]
            /\ UNCHANGED <<kids, fds, short>>

WordexpSteps == \/ MakePipe \/ ForkShell \/ OpenStream \/ SkipX \/ TakeToken
                \/ HandOver \/ Wordfree

Flags == {"APPEND", "DOOFFS", "REUSE", "NOCMD"}
Refusals == {"SYNTAX", "CMDSUB", "BADCHAR"}
WordParts == [text : STRING, has : SUBSET STRING]

WordexpNext == \/ \E words \in Seq(WordParts), flags \in SUBSET Flags,
                     bad \in Refusals \cup {""} : WordexpBegins(words, flags, bad)
               \/ WordexpSteps
WordexpSpec == WordexpInit /\ [][WordexpNext]_wordexpVars
-----------------------------------------------------------------------------
(* NULL up to we_offs, then the words of all calls and a NULL, in its memory. *)
VectorSound(w) ==
    LET v == w.wordv[1].slot
    IN  w.wordv # NoVector =>
            /\ w.offs + w.wordc + 1 <= w.wordv[1].room
            /\ \A k \in 1..w.offs : v[k] = "NULL"
            /\ \A k \in w.offs + 1..w.offs + w.wordc : v[k] \in Expanded
            /\ v[w.offs + w.wordc + 1] = "NULL"

(* Every way out of wordexp has waited for the shell and closed the pipe,  *)
(* and leaves such a vector, without the shell's "x"; and none is ever      *)
(* written past its room.                                                  *)
WordexpSound == /\ wx.at = "idle" => kids = {} /\ fds = {} /\ VectorSound(we)
                /\ ~wx.spilt
=============================================================================
