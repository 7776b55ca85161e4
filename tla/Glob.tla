-------------------------------- MODULE Glob --------------------------------
(***************************************************************************)
(* glob and globfree (src/src/c/glob).  The names of a tree are matched    *)
(* segment by segment; every call appends to the vector of a glob_t, sorts *)
(* its own part, and reports an error of a directory only when errfunc or  *)
(* GLOB_ERR asks for it.  Memory suffices.                                 *)
(***************************************************************************)
EXTENDS Fnmatch, FiniteSets, SequencesExt

(***************************************************************************)
(* External: the file system.  A path is the sequence of its names, and    *)
(* Files gives its kind: "file"; "dir"; "closed", a directory that opendir *)
(* refuses; "broken", one whose readdir fails after its last entry;        *)
(* "dangling", a symbolic link to nothing.  The working directory is <<>>. *)
(***************************************************************************)
CONSTANT Files

ASSUME FilesAssumption == <<>> \in DOMAIN Files /\ Files[<<>>] = "dir"

Directories == {"dir", "closed", "broken"}

RECURSIVE Names(_)
Names(path) ==
    LET s == PlaceOf(path, 1, "/")
        Name(w) == IF w \in {"", "."} THEN <<>> ELSE <<w>>
    IN  IF s = 0 THEN Name(path)
        ELSE Name(SubSeq(path, 1, s - 1)) \o Names(Drop(path, s))
Enter(q, name) == CASE name = ".." -> IF q = <<>> THEN q ELSE Front(q)
                    [] OTHER -> Append(q, name)
Where(path) == FoldLeft(Enter, <<>>, Names(path))
Kind(q) == IF q \in DOMAIN Files THEN Files[q] ELSE "none"

(* stat follows links, lstat does not. *)
Stat(path) == LET k == Kind(Where(path)) IN IF k = "dangling" THEN "none" ELSE k
LStat(path) == Kind(Where(path))

Entries(q) == {".", ".."} \cup {Last(r) : r \in {f \in DOMAIN Files :
                                                   f # <<>> /\ Front(f) = q}}

-----------------------------------------------------------------------------
(* strcoll of the "C" locale. *)
RECURSIVE Before(_, _)
Before(v, w) == CASE v = "" -> w # ""
                  [] v # "" /\ At(v, 1) = At(w, 1) -> Before(Drop(v, 1), Drop(w, 1))
                  [] OTHER -> Below(At(v, 1), At(w, 1))
compare_paths(v, w) == v = w \/ Before(v, w)

append_match(list, match, flags) ==
    Append(list, IF /\ "MARK" \in flags /\ Stat(match) \in Directories
                    /\ match # "" /\ At(match, Len(match)) # "/"
                 THEN match \o "/" ELSE match)

(* The end of a segment and whether it holds a wildcard; an escaped *)
(* character is part of it whatever it is.                          *)
RECURSIVE Segment(_, _, _, _)
Segment(p, i, noescape, wild) ==
    CASE At(p, i) \in {NUL, "/"} -> [end |-> i, wild |-> wild]
      [] ~noescape /\ At(p, i) = "\\" /\ At(p, i + 1) # NUL ->
            Segment(p, i + 2, noescape, wild)
      [] OTHER -> Segment(p, i + 1, noescape, wild \/ At(p, i) \in {"*", "?", "["})

RECURSIVE Unescaped(_, _)
Unescaped(p, noescape) ==
    LET skip == IF ~noescape /\ At(p, 1) = "\\" /\ At(p, 2) # NUL THEN 2 ELSE 1
    IN  IF p = "" THEN "" ELSE At(p, skip) \o Unescaped(Drop(p, skip), noescape)

SlashesAt(p, i) == LET S == {j \in i..Len(p) + 1 : \A k \in i..j - 1 : At(p, k) = "/"}
                   IN  (CHOOSE j \in S : \A k \in S : k <= j) - i

(***************************************************************************)
(* r is the vector so far with the result; listing(q) is the order in      *)
(* which readdir gives the entries of q; stop says that errfunc is there   *)
(* and wants an error to end the search.                                   *)
(***************************************************************************)
RECURSIVE glob_internal(_, _, _, _, _, _)
glob_internal(dir, pattern, flags, stop, listing, r) ==
    LET noescape == "NOESCAPE" \in flags
        seg == Segment(pattern, 1, noescape, FALSE)
        segment == SubSeq(pattern, 1, seg.end - 1)
        n == SlashesAt(pattern, seg.end)
        slashes == SubSeq(pattern, seg.end, seg.end + n - 1)
        next == Drop(pattern, seg.end + n - 1)
        fnm == {"PATHNAME", "PERIOD"} \cup IF noescape THEN {"NOESCAPE"} ELSE {}
        literal == dir \o Unescaped(segment, noescape)
        Failed(q) == IF stop \/ "ERR" \in flags THEN [q EXCEPT !.res = "ABORTED"] ELSE q
        Visit(q, name) ==
            CASE q.res # "" \/ ~Matches(segment, name, fnm) -> q
              [] q.res = "" /\ Matches(segment, name, fnm)
                    /\ n > 0 /\ Stat(dir \o name) \notin Directories -> q
              [] OTHER -> glob_internal(dir \o name \o slashes, next, flags, stop,
                                        listing, q)
        kind == Stat(dir)
        AtEnd(q) == IF q.res = "" /\ kind = "broken" THEN Failed(q) ELSE q
    IN  CASE pattern = "" -> [r EXCEPT !.list = append_match(@, dir, flags)]
          [] pattern # "" /\ ~seg.wild ->
                IF (IF n > 0 THEN Stat(literal) \in Directories
                             ELSE LStat(literal) # "none")
                THEN glob_internal(literal \o slashes, next, flags, stop, listing, r)
                ELSE r
          [] pattern # "" /\ seg.wild /\ kind \in {"dir", "broken"} ->
                AtEnd(FoldLeft(Visit, r, listing[Where(dir)]))
          [] OTHER -> Failed(r)

-----------------------------------------------------------------------------
(* The calls: the program's glob_t, and what the last call returned. *)

VARIABLES pglob, globbed
globVars == <<pglob, globbed>>

(* The program has set gl_offs to 1; GLOB_DOOFFS says whether it counts. *)
GlobInit == /\ pglob = [pathc |-> 0, pathv |-> <<>>, offs |-> 1]
            /\ globbed = [ret |-> "", old |-> <<>>]

(* gl_pathv holds gl_offs null pointers, then the paths. *)
NullName == "NULL"

(* A call that appends has GLOB_DOOFFS as the first call had, a rule of   *)
(* POSIX for the program: the sort below counts on it.                    *)
GlobCall(pattern, flags, stop, listing) ==
    LET append == "APPEND" \in flags
        offs == IF append \/ "DOOFFS" \in flags THEN pglob.offs ELSE 0
        old == IF append THEN Drop(pglob.pathv, offs) ELSE <<>>
        n == SlashesAt(pattern, 1)
        Sorted(list) == old \o SortSeq(Drop(list, Len(old)), compare_paths)
    IN  \E q \in {glob_internal(SubSeq(pattern, 1, n), Drop(pattern, n), flags, stop,
                                listing, [res |-> "", list |-> old])} :
        \E r \in {CASE q.res # "" \/ Len(q.list) # Len(old) -> q
                    [] OTHER -> IF "NOCHECK" \in flags
                                THEN [q EXCEPT !.list = append_match(old, pattern, flags)]
                                ELSE [q EXCEPT !.res = "NOMATCH"]} :
        \E all \in {IF r.res = "" /\ "NOSORT" \notin flags THEN Sorted(r.list) ELSE r.list} :
           /\ pglob' = [pathc |-> Len(all), offs |-> offs,
                        pathv |-> [k \in 1..offs |-> NullName] \o all]
           /\ globbed' = [ret |-> r.res, old |-> old]

Globfree == /\ pglob' = [pglob EXCEPT !.pathc = 0, !.pathv = <<>>]
            /\ globbed' = [ret |-> "", old |-> <<>>]
-----------------------------------------------------------------------------
(***************************************************************************)
(* What glob promises for a pattern of segments, each a sequence of parts  *)
(* (Fnmatch), with or without a slash at the end: the names that exist     *)
(* and match, one for every segment.                                       *)
(***************************************************************************)
Wild(seg) == \E n \in DOMAIN seg : seg[n].kind # "self"
LiteralName(seg) == FoldLeft(LAMBDA w, part : w \o CHOOSE c \in part.chars : TRUE, "", seg)
AllNames == {".", ".."} \cup {Last(q) : q \in DOMAIN Files \ {<<>>}}

Chosen(segs, slash) ==
    {ns \in [1..Len(segs) -> AllNames] :
        \A i \in 1..Len(segs) :
            LET In(j) == FoldLeft(LAMBDA d, name : IF name = "." THEN d ELSE Enter(d, name),
                                  <<>>, SubSeq(ns, 1, j))
            IN  /\ Kind(In(i - 1)) \in IF Wild(segs[i]) THEN {"dir", "broken"}
                                                       ELSE Directories
                /\ ns[i] \in Entries(In(i - 1))
                /\ IF Wild(segs[i])
                   THEN InLanguage(segs[i], ns[i], {"PATHNAME", "PERIOD"})
                   ELSE ns[i] = LiteralName(segs[i])
                /\ i < Len(segs) \/ slash => Kind(In(i)) \in Directories}

PathText(ns, slash, flags) ==
    LET path == FoldLeft(LAMBDA w, name : IF w = "" THEN name ELSE w \o "/" \o name, "", ns)
    IN  IF slash \/ ("MARK" \in flags /\ Stat(path) \in Directories)
        THEN path \o "/" ELSE path

Promised(segs, slash, flags) == {PathText(ns, slash, flags) : ns \in Chosen(segs, slash)}
=============================================================================
