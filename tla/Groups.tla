------------------------------- MODULE Groups -------------------------------
(***************************************************************************)
(* The group database (src/src/c/grp) and strtok (src/src/c/string), with  *)
(* which each line is taken apart.  Both keep one state for the process.   *)
(***************************************************************************)
EXTENDS Text, SequencesExt

CONSTANTS
    GroupLines,         \* /etc/group, a line each, without the line ends
    MaxMembers          \* MAX_MEMBERS - 1, 255

ASSUME GroupsAssumption == MaxMembers \in Nat

VARIABLES
    fp,         \* g_group_fp: how many lines are read, -1 when it is closed
    olds,       \* where strtok goes on: what is left of its string
    entry,      \* what the last call returned, or NoEntry
    fetched     \* what getgrent gave since the file was opened or rewound

groupsVars == <<fp, olds, entry, fetched>>

-----------------------------------------------------------------------------
(* strtok and wcstok: the first run of s without a delimiter, and what is  *)
(* behind the delimiter that ends it.                                      *)
FirstIn(s, i, set) == CHOOSE j \in i..Len(s) + 1 :
                         /\ At(s, j) \in set \cup {NUL}
                         /\ \A k \in i..j - 1 : At(s, k) \notin set
FirstOut(s, set) == CHOOSE j \in 1..Len(s) + 1 :
                       /\ At(s, j) \notin set
                       /\ \A k \in 1..j - 1 : At(s, k) \in set
strtok(s, delim) ==
    LET i == FirstOut(s, delim)
        j == FirstIn(s, i, delim)
    IN  [token |-> SubSeq(s, i, j - 1), rest |-> Drop(s, j)]

(* The next n tokens behind those of list, or fewer, and the rest. *)
RECURSIVE Tokens(_, _, _, _)
Tokens(list, s, delim, n) ==
    LET x == strtok(s, delim)
    IN  CASE n = 0 -> [list |-> list, rest |-> s]
          [] n > 0 /\ x.token = "" -> [list |-> list, rest |-> ""]
          [] OTHER -> Tokens(Append(list, x.token), x.rest, delim, n - 1)

-----------------------------------------------------------------------------
NoEntry == [name |-> "none"]
Entry(name, passwd, gid, members) ==
    [name |-> name, passwd |-> passwd, gid |-> gid, members |-> members]

(* A line by its fields; atol reads the digits that the third begins with. *)
(* o is where strtok would go on: a line that is skipped at once keeps it. *)
(* The loop over the members asks for one more than it has room for.       *)
WithMembers(f, members) ==
    [entry |-> Entry(f[1], f[2], Number(f[3], 1).value,
                     SubSeq(members.list, 1, Min({MaxMembers, Len(members.list)}))),
     olds |-> members.rest]
Fields(f) ==
    IF Len(f.list) < 3 THEN [entry |-> NoEntry, olds |-> ""]
    ELSE WithMembers(f.list, Tokens(<<>>, strtok(f.rest, {"\n"}).token, {","}, MaxMembers + 1))
parse_line(line, o) ==
    IF At(line, 1) \in {"#", "\n"} THEN [entry |-> NoEntry, olds |-> o]
    ELSE Fields(Tokens(<<>>, line, {":", "\n"}, 3))

(* The lines behind the first at, up to the next entry, or to one that is  *)
(* wanted; x is what the last of them gave.                                *)
RECURSIVE Fetch(_, _)
Fetch(at, x) ==
    IF at = Len(GroupLines) \/ x.entry # NoEntry
    THEN [at |-> at, entry |-> x.entry, olds |-> x.olds]
    ELSE Fetch(at + 1, parse_line(GroupLines[at + 1] \o "\n", x.olds))
FetchFrom(at, o) == Fetch(at, [entry |-> NoEntry, olds |-> o])

RECURSIVE Find(_, _, _)
Find(x, field, wanted) ==
    IF x.entry = NoEntry \/ x.entry[field] = wanted THEN x
    ELSE Find(FetchFrom(x.at, x.olds), field, wanted)
FindFrom(o, field, wanted) == Find(FetchFrom(0, o), field, wanted)

GroupsInit == fp = -1 /\ olds = "" /\ entry = NoEntry /\ fetched = <<>>

(* opens: fopen finds the file. *)
Setgrent(opens) == /\ fp' = IF fp >= 0 \/ opens THEN 0 ELSE -1
                   /\ fetched' = <<>>
                   /\ UNCHANGED <<olds, entry>>

Endgrent == fp' = -1 /\ fetched' = <<>> /\ UNCHANGED <<olds, entry>>

Getgrent(opens) ==
    IF fp = -1 /\ ~opens
    THEN entry' = NoEntry /\ UNCHANGED <<fp, olds, fetched>>
    ELSE \E x \in {FetchFrom(IF fp = -1 THEN 0 ELSE fp, olds)} :
            /\ fp' = x.at /\ entry' = x.entry /\ olds' = x.olds
            /\ fetched' = IF x.entry = NoEntry THEN fetched ELSE Append(fetched, x.entry)

\* Bug: the search goes on from where getgrent was.
Getgr_onward(field, wanted, opens) ==
    /\ fp' = -1 /\ fetched' = <<>>
    /\ IF fp = -1 /\ ~opens THEN entry' = NoEntry /\ olds' = olds
       ELSE \E x \in {Find(FetchFrom(IF fp = -1 THEN 0 ELSE fp, olds), field, wanted)} :
               entry' = x.entry /\ olds' = x.olds

(* getgrgid and getgrnam: from the start, and closed behind. *)
Getgr(field, wanted, opens) ==
    /\ fp' = -1 /\ fetched' = <<>>
    /\ IF fp = -1 /\ ~opens THEN entry' = NoEntry /\ olds' = olds
       ELSE \E x \in {FindFrom(olds, field, wanted)} : entry' = x.entry /\ olds' = x.olds

-----------------------------------------------------------------------------
(* What the lines say: name, password, number, members, no field empty but *)
(* the members.                                                            *)
Split(line, c) ==
    LET cuts == {0, Len(line) + 1} \cup {i \in 1..Len(line) : At(line, i) = c}
        cut == SetToSortSeq(cuts, LAMBDA a, b : a < b)
    IN  [i \in 1..Len(cut) - 1 |-> SubSeq(line, cut[i] + 1, cut[i + 1] - 1)]
Wellformed(line) == /\ At(line, 1) # "#"
                    /\ Len(Split(line, ":")) = 4
                    /\ \A i \in 1..3 : Split(line, ":")[i] # ""
Described(line) ==
    LET f == Split(line, ":")
    IN  Entry(f[1], f[2], Number(f[3], 1).value,
              SelectSeq(Split(f[4], ","), LAMBDA m : m # ""))
Database == LET good == SelectSeq(GroupLines, Wellformed)
            IN  [i \in DOMAIN good |-> Described(good[i])]

(* getgrent walks the entries of the file in order, each once; comments and *)
(* broken lines do not end the walk.                                        *)
WalksInOrder ==
    /\ IsPrefix(fetched, Database)
    /\ fp >= 0 /\ entry = NoEntry /\ fetched # <<>> => fetched = Database

(* A search has given the first entry with the name or the number, or none. *)
IsFirst(field, wanted) ==
    LET same == SelectSeq(Database, LAMBDA d : d[field] = wanted)
    IN  entry = IF same = <<>> THEN NoEntry ELSE Head(same)
=============================================================================
