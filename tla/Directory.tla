------------------------------ MODULE Directory ------------------------------
(***************************************************************************)
(* Directory streams (src/src/c/dirent) and getcwd (src/src/c/unistd),     *)
(* which climbs to the root with chdir and finds each name on its way in   *)
(* the directory above.                                                    *)
(***************************************************************************)
EXTENDS Integers, FiniteSets, FiniteSetsExt, SequencesExt

CONSTANTS
    Names,              \* what an entry may be called
    Dirs,               \* the directories: their paths, sequences of names
    Listing,            \* the records of each, in the order of the disk
    Block,              \* how many records one call of the system returns
    PathMax,            \* names that getcwd's own buffer holds
    MaxLost             \* bound: blocks that opendir may lose

(* A record: a name, and inode 0 when it was deleted.  External. *)
Record(name, ino) == [name |-> name, ino |-> ino]
Records == [name : Names, ino : {0, 1}]

ASSUME DirectoryAssumption ==
    /\ <<>> \in Dirs /\ Dirs \subseteq Seq(Names)
    /\ Block \in Nat \ {0} /\ PathMax \in Nat /\ MaxLost \in Nat
    /\ \A d \in Dirs : Listing[d] \in Seq(Records)
    /\ \A d \in Dirs : d # <<>> =>
          /\ Front(d) \in Dirs /\ Last(d) \notin {".", ".."}
          /\ \E i \in DOMAIN Listing[Front(d)] : Listing[Front(d)][i] = Record(Last(d), 1)

VARIABLES
    dir,        \* the DIR: its directory, buffer and places
    reading,    \* a call of readdir is in its loop
    listed,     \* what readdir gave since the directory was opened or rewound
    atend,      \* until it returned NULL, as this tells: at the end or not
    held,       \* blocks and descriptors that are held
    cwd,        \* the current directory of the process
    walk        \* getcwd at work, and what it returned

directoryVars == <<dir, reading, listed, atend, held, cwd, walk>>

NewDir(name) == [open |-> TRUE, name |-> name, seek |-> 0, buf |-> <<>>, len |-> 0, loc |-> 0]
NoDir == [NewDir(<<>>) EXCEPT !.open = FALSE]

NoWalk == [at |-> "idle", from |-> <<>>, found |-> <<>>, child |-> "none", missed |-> FALSE,
           dir |-> NoDir, size |-> 0, ok |-> FALSE, ret |-> <<>>, errno |-> "none"]

DirectoryInit == /\ dir = NoDir /\ reading = FALSE /\ listed = <<>> /\ atend = "no"
                 /\ held = [blocks |-> 0, fds |-> 0, lost |-> 0]
                 /\ cwd = <<>> /\ walk = NoWalk

-----------------------------------------------------------------------------
(* opendir has two blocks and a descriptor, which closedir gives back; it  *)
(* loses the first block when open fails.                                  *)
Opened(h) == [h EXCEPT !.blocks = @ + 2, !.fds = @ + 1]
Closed(h) == [h EXCEPT !.blocks = @ - 2, !.fds = @ - 1]
Lost(h) == [h EXCEPT !.blocks = @ + 1, !.lost = @ + 1]

(* The system call returns what it can from where the descriptor stands. *)
getdirentries(d) == SubSeq(Listing[d.name], d.seek + 1,
                           d.seek + Min({Block, Len(Listing[d.name]) - d.seek}))

(* One turn of readdir's loop.  At the end, and when the system fails, which *)
(* readdir does not tell apart, dd_len is kept, and dd_loc is 0.            *)
Turn(d, fails) ==
    LET nread == getdirentries(d)
        more == d.loc >= d.len
        full == IF more THEN [d EXCEPT !.buf = nread, !.len = Len(nread), !.loc = 0,
                                       !.seek = @ + Len(nread)]
                ELSE d
        rec == full.buf[full.loc + 1]
    IN  IF more /\ (fails \/ nread = <<>>)
        THEN [dir |-> [d EXCEPT !.loc = 0], got |-> IF fails THEN "failed" ELSE "end",
              name |-> "none"]
        ELSE [dir |-> [full EXCEPT !.loc = @ + 1],
              got |-> IF rec.ino # 0 THEN "entry" ELSE "deleted", name |-> rec.name]

\* Bug: what is left of the buffer is served before the new start.
rewinddir_buffered(d) == [d EXCEPT !.seek = 0]

rewinddir(d) == [d EXCEPT !.seek = 0, !.loc = 0, !.len = 0]

(* malloc comes before open: when open fails its block stays.  memory is   *)
(* how many blocks there are.                                              *)
Opendir(name, opens, memory) ==
    /\ ~dir.open
    /\ ~opens /\ memory >= 1 => held.lost < MaxLost
    /\ dir' = IF opens /\ memory >= 2 THEN NewDir(name) ELSE NoDir
    /\ held' = IF opens /\ memory >= 2 THEN Opened(held)
               ELSE IF ~opens /\ memory >= 1 THEN Lost(held)
               ELSE held
    /\ listed' = <<>> /\ atend' = "no"
    /\ UNCHANGED <<reading, cwd, walk>>

(* A call of readdir begins or goes on. *)
Readdir(fails) ==
    LET x == Turn(dir, fails)
    IN  /\ dir.open
        /\ dir' = x.dir
        /\ reading' = (x.got = "deleted")
        /\ listed' = IF x.got = "entry" /\ atend = "no" THEN Append(listed, x.name)
                                                        ELSE listed
        /\ atend' = IF x.got \in {"end", "failed"} /\ atend = "no" THEN x.got ELSE atend
        /\ UNCHANGED <<held, cwd, walk>>

Rewinddir == /\ dir.open /\ ~reading
             /\ dir' = rewinddir(dir)
             /\ listed' = <<>> /\ atend' = "no"
             /\ UNCHANGED <<reading, held, cwd, walk>>

Closedir == /\ dir.open /\ ~reading
            /\ dir' = NoDir
            /\ held' = Closed(held)
            /\ listed' = <<>> /\ atend' = "no"
            /\ UNCHANGED <<reading, cwd, walk>>

-----------------------------------------------------------------------------
(***************************************************************************)
(* getcwd: a level is the way up, where it may fail - stat or chdir of     *)
(* "..", or opendir of ".", for want of memory or because the directory    *)
(* cannot be read - and a search with readdir for the directory it left.   *)
(* size counts names here, the root's "/" as one and the terminator too.   *)
(***************************************************************************)
Failures == {"none", "stat", "chdir", "malloc", "open"}

Returned(w, ok, ret, errno) ==
    [w EXCEPT !.at = "done", !.dir = NoDir, !.ok = ok, !.ret = ret, !.errno = errno]

Return(ok, ret, errno, where) == walk' = Returned(walk, ok, ret, errno) /\ cwd' = where

Fail(errno, where) == Return(FALSE, <<>>, errno, where)

(* The guards of getcwd, and stat of "." and "/". *)
GetcwdStart(size, stats) ==
    LET errno == IF size = 0 THEN "EINVAL" ELSE IF ~stats THEN "stat" ELSE "none"
    IN  /\ walk.at \in {"idle", "done"}
        /\ walk' = [NoWalk EXCEPT !.at = IF errno = "none" THEN "climbing" ELSE "done",
                                  !.from = cwd, !.size = size, !.errno = errno]
        /\ UNCHANGED <<dir, reading, listed, atend, held, cwd>>

GetcwdUp(failure) ==
    LET up == Front(cwd)
    IN  /\ walk.at = "climbing" /\ cwd # <<>>
        /\ failure = "open" => held.lost < MaxLost
        /\ IF failure \in {"stat", "chdir"} THEN Fail(failure, cwd)
           ELSE IF failure \in {"malloc", "open"} THEN Fail(failure, up)
           ELSE /\ walk' = [walk EXCEPT !.at = "searching", !.child = Last(cwd),
                                        !.missed = FALSE, !.dir = NewDir(up)]
                /\ cwd' = up
        /\ held' = IF failure = "none" THEN Opened(held)
                   ELSE IF failure = "open" THEN Lost(held)
                   ELSE held
        /\ UNCHANGED <<dir, reading, listed, atend>>

(* A turn of the search.  The entry sought has the inode of the directory  *)
(* that was left; seen: lstat of it succeeds.  It is missed, too, when the *)
(* directory cannot be read to its end.                                    *)
GetcwdSearch(seen, fails) ==
    LET x == Turn(walk.dir, fails)
        sought == x.got = "entry" /\ x.name \notin {".", ".."} /\ x.name = walk.child
    IN  /\ walk.at = "searching"
        /\ \/ /\ x.got \in {"end", "failed"}
              /\ walk' = Returned([walk EXCEPT !.missed = @ \/ x.got = "failed"],
                                  FALSE, <<>>, "ENOENT")
              /\ UNCHANGED cwd /\ held' = Closed(held)
           \/ /\ x.got \in {"entry", "deleted"} /\ ~(sought /\ seen)
              /\ walk' = [walk EXCEPT !.dir = x.dir, !.missed = @ \/ sought]
              /\ UNCHANGED <<cwd, held>>
           \/ /\ sought /\ seen /\ Len(walk.found) + 1 > PathMax
              /\ Fail("ERANGE", cwd) /\ held' = Closed(held)
           \/ /\ sought /\ seen /\ Len(walk.found) + 1 <= PathMax
              /\ walk' = [walk EXCEPT !.at = "climbing", !.found = <<walk.child>> \o @,
                                      !.dir = NoDir]
              /\ UNCHANGED cwd /\ held' = Closed(held)
        /\ UNCHANGED <<dir, reading, listed, atend>>

TooSmall == Max({Len(walk.found), 1}) >= walk.size

\* Bug: the process stays at the root.
GetcwdEnd_away(back) ==
    /\ walk.at = "climbing" /\ cwd = <<>>
    /\ IF TooSmall THEN Fail("ERANGE", cwd) ELSE Return(TRUE, walk.found, "none", cwd)
    /\ UNCHANGED <<dir, reading, listed, atend, held>>

(* From the root chdir leads back, also when the caller's buffer is small; *)
(* back: it can.                                                           *)
GetcwdEnd(back) ==
    LET where == IF back THEN walk.found ELSE cwd
    IN  /\ walk.at = "climbing" /\ cwd = <<>>
        /\ IF TooSmall THEN Fail(IF back THEN "ERANGE" ELSE "chdir", where)
           ELSE IF back THEN Return(TRUE, walk.found, "none", where)
           ELSE Fail("chdir", where)
        /\ UNCHANGED <<dir, reading, listed, atend, held>>

Chdir(d) == /\ walk.at \in {"idle", "done"}
            /\ cwd' = d /\ walk' = NoWalk
            /\ UNCHANGED <<dir, reading, listed, atend, held>>

-----------------------------------------------------------------------------
DirectoryNext ==
    \/ \E name \in Dirs, opens \in BOOLEAN, memory \in 0 .. 2 : Opendir(name, opens, memory)
    \/ \E fails \in BOOLEAN : Readdir(fails)
    \/ Rewinddir \/ Closedir
    \/ \E size \in 0 .. PathMax + 2, stats \in BOOLEAN : GetcwdStart(size, stats)
    \/ \E failure \in Failures : GetcwdUp(failure)
    \/ \E seen, fails \in BOOLEAN : GetcwdSearch(seen, fails)
    \/ \E back \in BOOLEAN : GetcwdEnd(back)
    \/ \E d \in Dirs : Chdir(d)

DirectorySpec == DirectoryInit /\ [][DirectoryNext]_directoryVars

-----------------------------------------------------------------------------
(* The names are those of the first k records that are not deleted, each   *)
(* once and in their order: the name of record i has the place its record  *)
(* has among those.                                                        *)
Present(records, k) == {i \in 1 .. k : records[i].ino # 0}
Lists(names, records, k) ==
    /\ Len(names) = Cardinality(Present(records, k))
    /\ \A i \in Present(records, k) :
          names[Cardinality(Present(records, i))] = records[i].name

(* From opendir or rewinddir until it returns NULL readdir gives the        *)
(* entries that are there once, in order, whatever the blocks, and all of  *)
(* them unless the system failed; only when it is asked again after that   *)
(* readdir.c serves the last block again.                                  *)
EachOnce ==
    dir.open => \E k \in 0 .. Len(Listing[dir.name]) :
                   /\ Lists(listed, Listing[dir.name], k)
                   /\ atend = "end" => k = Len(Listing[dir.name])

(* getcwd names the directory it was called in and leaves the process      *)
(* there; it is left elsewhere, always above, only when a call fails that  *)
(* getcwd makes on its way, reading a directory among them, or its own     *)
(* buffer is too small.                                                    *)
CwdIsNamed ==
    walk.at # "idle" =>
        /\ IsPrefix(cwd, walk.from)
        /\ walk.at = "done" =>
             IF walk.ok THEN walk.ret = walk.from /\ cwd = walk.from
             ELSE \/ cwd = walk.from
                  \/ walk.errno \in {"stat", "chdir", "malloc", "open"}
                  \/ walk.errno = "ENOENT" /\ walk.missed
                  \/ walk.errno = "ERANGE" /\ Len(walk.from) > PathMax
=============================================================================
