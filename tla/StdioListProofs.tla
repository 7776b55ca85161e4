--------------------------- MODULE StdioListProofs ---------------------------
(***************************************************************************)
(* Proofs about the streams of a process and their locks (StdioList), for  *)
(* every number of threads, FILEs, bytes and calls.                        *)
(***************************************************************************)
EXTENDS StdioList, NatMinimum, FiniteSetTheorems, TLAPS

-----------------------------------------------------------------------------
(* The inductive invariant, in parts.                                      *)

Ops == {"none", "fopen", "fputc", "fflush", "getchar", "fclose", "freopen",
        "flush_all", "exit"}

\* Where each function can be.
FlushPlaces == {"flush", "write", "reset", "unlock"}
MayBeAt(op, pc) ==
  \/ op = "none" /\ pc = "idle"
  \/ op = "fopen" /\ pc \in {"add", "add_next", "add_head"}
  \/ op = "fputc" /\ pc \in {"lock", "put"} \cup FlushPlaces
  \/ op = "fflush" /\ pc \in {"lock"} \cup FlushPlaces
  \/ op = "getchar" /\ \/ pc \in {"lock", "fill", "read", "unlock"}
                       \/ Tty /\ pc \in FlushPlaces
  \/ op = "fclose" /\ pc \in {"remove", "walk", "lock", "free"} \cup FlushPlaces
  \/ op = "freopen" /\ pc \in {"remove", "walk", "lock"} \cup FlushPlaces
  \/ op \in {"flush_all", "exit"} /\ pc \in {"all", "each"} \cup FlushPlaces

Local == [op : Ops, pc : Places, file : Files \cup {Null},
          p : Files \cup {Null}, due : BOOLEAN, size : Nat, rest : Seq(Nat),
          mark : [Files -> Nat], failed : SUBSET Files]

Types ==
  /\ head \in Files \cup {Null} /\ next \in [Files -> Files \cup {Null}]
  /\ list_lock \in {0, 1} /\ lock \in [Files -> {0, 1}]
  /\ Standard \subseteq usable /\ usable \subseteq alive /\ alive \subseteq Files
  /\ buf \in [Files -> Seq(Nat)] /\ put \in [Files -> Nat]
  /\ err \subseteq Files /\ nofd \subseteq Files
  /\ exited \in BOOLEAN /\ calls \in 0 .. MaxCalls
  /\ th \in [Threads -> Local]

Scanning(t) == th[t].op \in {"flush_all", "exit"}

\* What a thread may rely on at its place and about the stream it was given.
AtPlace(t) ==
  /\ MayBeAt(th[t].op, th[t].pc)
  /\ th[t].op \in {"none", "flush_all", "exit"} => th[t].file = Null
  /\ th[t].op \in {"fputc", "fflush"} => th[t].file \in usable
  /\ th[t].op = "getchar" => th[t].file = stdin
  /\ th[t].due => th[t].op = "fputc"
  /\ th[t].op = "fputc" /\ th[t].pc \in {"lock", "put"} => th[t].due
  /\ th[t].op \in {"fopen", "fclose", "freopen"} => th[t].file \in alive \ usable
  /\ th[t].pc # "walk" /\ (Scanning(t) => th[t].pc = "all") => th[t].p = Null
  /\ Scanning(t) /\ th[t].pc \in FlushPlaces => th[t].p # Null

\* Nobody else has a stream that a thread opens or closes.
Exclusive ==
  \A t, u \in Threads :
    th[t].op \in {"fopen", "fclose", "freopen"} /\ th[u].file = th[t].file => u = t

ListLocked ==
  /\ \A t \in Threads : HoldsList(t) => list_lock = 1
  /\ \A t, u \in Threads : HoldsList(t) /\ HoldsList(u) => t = u
  /\ list_lock = 1 => \E t \in Threads : HoldsList(t)

StreamsLocked ==
  \A s \in Files :
    /\ \A t \in Threads : Holds(t, s) => lock[s] = 1
    /\ \A t, u \in Threads : Holds(t, s) /\ Holds(u, s) => t = u
    /\ lock[s] = 1 => \E t \in Threads : Holds(t, s)

\* A FILE is on the list unless its fopen has still to add it or its fclose
\* has removed it.
KeepsListed(t) == /\ th[t].op # "fopen"
                  /\ th[t].op = "fclose" => th[t].pc \in {"remove", "walk"}
Listed(s) == s \in alive /\ \A t \in Threads : th[t].file = s => KeepsListed(t)

\* head and next lead through q, and q is the FILEs on the list, each once.
IsList(n, q) ==
  /\ \A i, j \in 1 .. n : q[i] = q[j] => i = j
  /\ head = IF n = 0 THEN Null ELSE q[1]
  /\ \A i \in 1 .. n : next[q[i]] = IF i = n THEN Null ELSE q[i + 1]
  /\ \A s \in Files : Listed(s) <=> \E i \in 1 .. n : q[i] = s

\* remove_file walks before its stream, flush_all along the list.
WalksAt(t, n, q) ==
  /\ th[t].pc = "walk" =>
       \E i, j \in 1 .. n : /\ th[t].p = q[i] /\ th[t].file = q[j]
                            /\ j = 1 \/ i < j
  /\ Scanning(t) /\ th[t].pc # "all" =>
       th[t].p = Null \/ \E i \in 1 .. n : th[t].p = q[i]

TheList ==
  \E n \in Nat : \E q \in [1 .. n -> Files] :
    IsList(n, q) /\ \A t \in Threads : WalksAt(t, n, q)

\* Between its two steps __stdio_add_file has the list hanging from its FILE.
Linked == \A t \in Threads : th[t].pc = "add_head" => next[th[t].file] = head

ListInv ==
  /\ Types
  /\ (\A t \in Threads : AtPlace(t)) /\ Exclusive /\ Linked
  /\ ListLocked /\ StreamsLocked /\ TheList

-----------------------------------------------------------------------------
(* What the streams' bytes add, when stdout is not a terminal.             *)

\* No write fails after it took a part of what it was given.
Whole == "partial" \notin Faults

InOrder(s) == Whole => \A i \in 1 .. Len(sent[s]) : sent[s][i] = i

\* The buffer has the bytes that were put last.
Newest(s) == \A i \in 1 .. Len(buf[s]) : buf[s][i] = put[s] - Len(buf[s]) + i

\* n bytes still to write are enough, and if no write failed on the way,
\* not one too many.
Enough(s, n) == Len(sent[s]) + n >= put[s] /\ (Whole => Len(sent[s]) + n = put[s])

Putting(s) == {t \in Threads : th[t].due /\ th[t].file = s}

\* Inside write: what is left of the buffer is what comes next, and a write
\* that fails has taken nothing.
Writing(t, s) ==
  /\ th[t].rest \in Seq(1 .. MaxPut)
  /\ Len(sent[s]) + Len(buf[s]) >= put[s]
  /\ Enough(s, Len(th[t].rest)) /\ Len(th[t].rest) <= th[t].size
  /\ Whole => /\ \A i \in 1 .. Len(th[t].rest) : th[t].rest[i] = Len(sent[s]) + i
              /\ Len(th[t].rest) = th[t].size => Enough(s, Len(buf[s]))
              /\ Len(th[t].rest) # th[t].size => s \notin nofd

\* What is sent and what is buffered make up what the program put, outside
\* of write; MaxPut bounds what it puts.
Bytes(s) ==
  /\ InOrder(s) /\ Newest(s)
  /\ (\A t \in Threads : Holds(t, s) => th[t].pc \notin {"write", "reset"})
       => Enough(s, Len(buf[s]))
  /\ \A t \in Threads : Holds(t, s) =>
       /\ th[t].pc = "write" => Writing(t, s)
       /\ th[t].pc = "reset" => Enough(s, 0)
  /\ put[s] + Cardinality(Putting(s)) <= MaxPut

BytesInv == /\ buf \in [Files -> Seq(1 .. MaxPut)]
            /\ sent \in [Files -> Seq(1 .. MaxPut)]
            /\ \A s \in Files : Bytes(s)

\* A stream that flush_all owes bytes is one nobody closes; to those it has
\* passed it owes nothing more, unless a write of theirs failed, and then
\* their error indicator is set.
Wrote(s) == Len(sent[s])
Paid(t, s) == Wrote(s) >= th[t].mark[s] \/ s \in th[t].failed

Owes(t) ==
  /\ \A s \in Files : th[t].mark[s] # 0 =>
       Scanning(t) /\ s \in usable /\ th[t].mark[s] <= put[s]
  /\ Scanning(t) /\ th[t].pc \in {"reset", "unlock"} => Paid(t, th[t].p)

Passed(t, n, q, i) ==
  th[t].p = (IF i = n + 1 THEN Null ELSE q[i]) =>
    \A j \in 1 .. i - 1 : Paid(t, q[j])

FailsMarked == \A t \in Threads : th[t].failed \subseteq err \cap usable

MarksInv ==
  /\ (\A t \in Threads : Owes(t)) /\ FailsMarked
  /\ \A n \in Nat : \A q \in [1 .. n -> Files] : IsList(n, q) =>
       \A t \in Threads : Scanning(t) /\ th[t].pc # "all" =>
         \A i \in 1 .. n + 1 : Passed(t, n, q, i)

-----------------------------------------------------------------------------
(* What a step does to the threads.                                        *)

USE StdioListAssumption

LEMMA Fields ==
  ASSUME Types, NEW t \in Threads
  PROVE  /\ th[t].op \in Ops /\ th[t].pc \in Places
         /\ th[t].file \in Files \cup {Null} /\ th[t].p \in Files \cup {Null}
         /\ th[t].due \in BOOLEAN /\ th[t].size \in Nat /\ th[t].rest \in Seq(Nat)
         /\ th[t].mark \in [Files -> Nat] /\ th[t].failed \in SUBSET Files
BY DEF Types, Local

\* Only t moves; another thread may at most owe less.
Alike(u) == /\ th'[u].op = th[u].op /\ th'[u].pc = th[u].pc
            /\ th'[u].file = th[u].file /\ th'[u].p = th[u].p
            /\ th'[u].due = th[u].due
            /\ th'[u].size = th[u].size /\ th'[u].rest = th[u].rest
OnlyMoves(t) == /\ th' \in [Threads -> Local]
                /\ \A u \in Threads : u # t => Alike(u)
MovesTo(t, op, pc, file, p, due) ==
  /\ OnlyMoves(t)
  /\ th'[t].op = op /\ th'[t].pc = pc /\ th'[t].file = file /\ th'[t].p = p
  /\ th'[t].due = due

\* Nobody owes a byte that it did not owe before, and no more writes fail.
OwesNoMore ==
  \A u \in Threads : \A x \in Files :
    \/ th'[u].mark[x] = 0
    \/ th'[u].mark[x] = th[u].mark[x] /\ (x \in th[u].failed => x \in th'[u].failed)
OwesLess == OwesNoMore /\ \A u \in Threads : th'[u].failed \subseteq th[u].failed

KeepsMarks == \A u \in Threads : /\ th'[u].mark = th[u].mark
                                 /\ th'[u].failed = th[u].failed

LEMMA SetMoves ==
  ASSUME Types, NEW t \in Threads, NEW r \in Local, th' = [th EXCEPT ![t] = r]
  PROVE  /\ MovesTo(t, r.op, r.pc, r.file, r.p, r.due)
         /\ th'[t] = r /\ \A u \in Threads : u # t => th'[u] = th[u]
         /\ r.mark = th[t].mark /\ r.failed = th[t].failed => KeepsMarks
<1>1. th \in [Threads -> Local]
  BY DEF Types
<1>2. th' \in [Threads -> Local] /\ th'[t] = r
      /\ \A u \in Threads : u # t => th'[u] = th[u]
  BY <1>1
<1>3. QED
  BY <1>2 DEF MovesTo, OnlyMoves, Alike, KeepsMarks

LEMMA GotoMoves ==
  ASSUME Types, NEW t \in Threads, NEW place \in Places, Goto(t, place)
  PROVE  /\ MovesTo(t, th[t].op, place, th[t].file, th[t].p, th[t].due)
         /\ th'[t].size = th[t].size /\ th'[t].rest = th[t].rest
         /\ KeepsMarks
<1> DEFINE r == [th[t] EXCEPT !.pc = place]
<1>1. th' = [th EXCEPT ![t] = r]
  BY DEF Goto
<1>2. r \in Local /\ r.op = th[t].op /\ r.pc = place /\ r.file = th[t].file
      /\ r.p = th[t].p /\ r.due = th[t].due /\ r.size = th[t].size
      /\ r.rest = th[t].rest /\ r.mark = th[t].mark /\ r.failed = th[t].failed
  <2>1. th[t] \in Local
    BY DEF Types
  <2>2. QED
    BY <2>1 DEF Local
<1> HIDE DEF r
<1>3. /\ MovesTo(t, r.op, r.pc, r.file, r.p, r.due)
      /\ th'[t] = r /\ KeepsMarks
  BY <1>1, <1>2, SetMoves
<1>4. QED
  BY <1>2, <1>3

LEMMA DueMoves ==
  ASSUME Types, NEW t \in Threads, NEW place \in Places,
         th' = [th EXCEPT ![t].pc = place, ![t].due = FALSE]
  PROVE  /\ MovesTo(t, th[t].op, place, th[t].file, th[t].p, FALSE)
         /\ KeepsMarks
<1> DEFINE r == [th[t] EXCEPT !.pc = place, !.due = FALSE]
<1>1. th' = [th EXCEPT ![t] = r]
  OBVIOUS
<1>2. r \in Local /\ r.op = th[t].op /\ r.pc = place /\ r.file = th[t].file
      /\ r.p = th[t].p /\ r.due = FALSE
      /\ r.mark = th[t].mark /\ r.failed = th[t].failed
  <2>1. th[t] \in Local
    BY DEF Types
  <2>2. QED
    BY <2>1 DEF Local
<1> HIDE DEF r
<1>3. MovesTo(t, r.op, r.pc, r.file, r.p, r.due) /\ KeepsMarks
  BY <1>1, <1>2, SetMoves
<1>4. QED
  BY <1>2, <1>3

LEMMA SizeMoves ==
  ASSUME Types, NEW t \in Threads, NEW place \in Places, NEW size \in Nat,
         NEW rest \in Seq(Nat),
         th' = [th EXCEPT ![t].pc = place, ![t].size = size, ![t].rest = rest]
  PROVE  /\ MovesTo(t, th[t].op, place, th[t].file, th[t].p, th[t].due)
         /\ th'[t].size = size /\ th'[t].rest = rest /\ KeepsMarks
<1> DEFINE r == [th[t] EXCEPT !.pc = place, !.size = size, !.rest = rest]
<1>1. th' = [th EXCEPT ![t] = r]
  OBVIOUS
<1>2. r \in Local /\ r.op = th[t].op /\ r.pc = place /\ r.file = th[t].file
      /\ r.p = th[t].p /\ r.due = th[t].due /\ r.size = size /\ r.rest = rest
      /\ r.mark = th[t].mark /\ r.failed = th[t].failed
  <2>1. th[t] \in Local
    BY DEF Types
  <2>2. QED
    BY <2>1 DEF Local
<1> HIDE DEF r
<1>3. /\ MovesTo(t, r.op, r.pc, r.file, r.p, r.due)
      /\ th'[t] = r /\ KeepsMarks
  BY <1>1, <1>2, SetMoves
<1>4. QED
  BY <1>2, <1>3

LEMMA RestMoves ==
  ASSUME Types, NEW t \in Threads, NEW place \in Places, NEW rest \in Seq(Nat),
         th' = [th EXCEPT ![t].pc = place, ![t].rest = rest]
  PROVE  /\ MovesTo(t, th[t].op, place, th[t].file, th[t].p, th[t].due)
         /\ th'[t].size = th[t].size /\ th'[t].rest = rest /\ KeepsMarks
<1> DEFINE r == [th[t] EXCEPT !.pc = place, !.rest = rest]
<1>1. th' = [th EXCEPT ![t] = r]
  OBVIOUS
<1>2. r \in Local /\ r.op = th[t].op /\ r.pc = place /\ r.file = th[t].file
      /\ r.p = th[t].p /\ r.due = th[t].due /\ r.size = th[t].size /\ r.rest = rest
      /\ r.mark = th[t].mark /\ r.failed = th[t].failed
  <2>1. th[t] \in Local
    BY DEF Types
  <2>2. QED
    BY <2>1 DEF Local
<1> HIDE DEF r
<1>3. /\ MovesTo(t, r.op, r.pc, r.file, r.p, r.due)
      /\ th'[t] = r /\ KeepsMarks
  BY <1>1, <1>2, SetMoves
<1>4. QED
  BY <1>2, <1>3

LEMMA FailMoves ==
  ASSUME Types, NEW t \in Threads, NEW place \in Places, NEW X \in SUBSET Files,
         th' = [th EXCEPT ![t].pc = place, ![t].failed = @ \cup X]
  PROVE  /\ MovesTo(t, th[t].op, place, th[t].file, th[t].p, th[t].due)
         /\ th'[t].failed = th[t].failed \cup X /\ th'[t].mark = th[t].mark
         /\ \A u \in Threads : u # t => th'[u] = th[u]
<1> DEFINE r == [th[t] EXCEPT !.pc = place, !.failed = @ \cup X]
<1>1. th' = [th EXCEPT ![t] = r]
  OBVIOUS
<1>2. r \in Local /\ r.op = th[t].op /\ r.pc = place /\ r.file = th[t].file
      /\ r.p = th[t].p /\ r.due = th[t].due
      /\ r.mark = th[t].mark /\ r.failed = th[t].failed \cup X
  <2>1. th[t] \in Local
    BY DEF Types
  <2>2. th[t].failed \cup X \in SUBSET Files
    BY <2>1 DEF Local
  <2>3. QED
    BY <2>1, <2>2 DEF Local
<1> HIDE DEF r
<1>3. /\ MovesTo(t, r.op, r.pc, r.file, r.p, r.due)
      /\ th'[t] = r /\ \A u \in Threads : u # t => th'[u] = th[u]
  BY <1>1, <1>2, SetMoves
<1>4. QED
  BY <1>2, <1>3

LEMMA WalkMoves ==
  ASSUME Types, NEW t \in Threads, NEW place \in Places,
         NEW p \in Files \cup {Null}, NEW op \in Ops,
         th' = [th EXCEPT ![t].pc = place, ![t].p = p, ![t].op = op]
  PROVE  MovesTo(t, op, place, th[t].file, p, th[t].due) /\ KeepsMarks
<1> DEFINE r == [th[t] EXCEPT !.pc = place, !.p = p, !.op = op]
<1>1. th' = [th EXCEPT ![t] = r]
  OBVIOUS
<1>2. r \in Local /\ r.op = op /\ r.pc = place /\ r.file = th[t].file
      /\ r.p = p /\ r.due = th[t].due
      /\ r.mark = th[t].mark /\ r.failed = th[t].failed
  <2>1. th[t] \in Local
    BY DEF Types
  <2>2. QED
    BY <2>1 DEF Local
<1> HIDE DEF r
<1>3. MovesTo(t, r.op, r.pc, r.file, r.p, r.due) /\ KeepsMarks
  BY <1>1, <1>2, SetMoves
<1>4. QED
  BY <1>2, <1>3

LEMMA StepMoves ==
  ASSUME Types, NEW t \in Threads, NEW place \in Places,
         NEW p \in Files \cup {Null},
         th' = [th EXCEPT ![t].pc = place, ![t].p = p]
  PROVE  MovesTo(t, th[t].op, place, th[t].file, p, th[t].due) /\ KeepsMarks
<1> DEFINE r == [th[t] EXCEPT !.pc = place, !.p = p]
<1>1. th' = [th EXCEPT ![t] = r]
  OBVIOUS
<1>2. r \in Local /\ r.op = th[t].op /\ r.pc = place /\ r.file = th[t].file
      /\ r.p = p /\ r.due = th[t].due
      /\ r.mark = th[t].mark /\ r.failed = th[t].failed
  <2>1. th[t] \in Local
    BY DEF Types
  <2>2. QED
    BY <2>1 DEF Local
<1> HIDE DEF r
<1>3. MovesTo(t, r.op, r.pc, r.file, r.p, r.due) /\ KeepsMarks
  BY <1>1, <1>2, SetMoves
<1>4. QED
  BY <1>2, <1>3

LEMMA IdleType ==
  /\ Idle \in Local /\ Idle.op = "none" /\ Idle.pc = "idle"
  /\ Idle.file = Null /\ Idle.p = Null /\ Idle.due = FALSE
  /\ Idle.mark = NoMark /\ Idle.failed = {}
BY DEF Idle, Local, NoMark, Ops, Places

LEMMA ReturnMoves ==
  ASSUME Types, NEW t \in Threads, Return(t)
  PROVE  /\ MovesTo(t, "none", "idle", Null, Null, FALSE) /\ OwesLess
         /\ th'[t].mark = NoMark /\ th'[t].failed = {}
<1>1. th' = [th EXCEPT ![t] = Idle]
  BY DEF Return
<1> DEFINE r == Idle
<1>2. r \in Local /\ r.op = "none" /\ r.pc = "idle" /\ r.file = Null /\ r.p = Null
      /\ r.due = FALSE /\ r.mark = NoMark /\ r.failed = {}
  BY IdleType
<1>3. th' = [th EXCEPT ![t] = r]
  BY <1>1
<1> HIDE DEF r
<1>4. /\ MovesTo(t, r.op, r.pc, r.file, r.p, r.due)
      /\ th'[t] = r /\ \A u \in Threads : u # t => th'[u] = th[u]
  BY <1>2, <1>3, SetMoves
<1>5. OwesLess
  <2>1. \A x \in Files : th'[t].mark[x] = 0
    BY <1>2, <1>4 DEF NoMark
  <2>2. QED
    BY <1>2, <1>4, <2>1 DEF OwesLess, OwesNoMore
<1>6. QED
  BY <1>2, <1>4, <1>5

-----------------------------------------------------------------------------
(* The parts of the invariant, kept by a step of t.                        *)

LEMMA HoldsFacts ==
  ASSUME ListInv, NEW t \in Threads, NEW s \in Files, Holds(t, s)
  PROVE  /\ s \in alive
         /\ s = IF Scanning(t) THEN th[t].p ELSE th[t].file
         /\ \A x \in Files : Holds(t, x) => x = s
<1>1. AtPlace(t) /\ Standard \subseteq usable /\ usable \subseteq alive
  BY DEF ListInv, Types
<1>2. th[t].pc \in FlushPlaces \cup {"put", "fill", "read"}
  BY DEF Holds, FlushPlaces
<1>3. Scanning(t) => s = th[t].p
  BY DEF Holds, Op, Scanning
<1>4. ~Scanning(t) => s = th[t].file
  BY DEF Holds, Op, Scanning
<1>5. \A x \in Files : Holds(t, x) => x = s
  BY DEF Holds
<1>6. CASE Scanning(t)
  <2>1. PICK n \in Nat : \E q \in [1 .. n -> Files] :
          IsList(n, q) /\ \A u \in Threads : WalksAt(u, n, q)
    BY DEF ListInv, TheList
  <2>2. PICK q \in [1 .. n -> Files] :
          IsList(n, q) /\ \A u \in Threads : WalksAt(u, n, q)
    BY <2>1
  <2>3. th[t].pc # "all" /\ th[t].p # Null
    BY <1>2, <1>3, <1>6 DEF FlushPlaces
  <2>4. PICK i \in 1 .. n : th[t].p = q[i]
    BY <2>2, <2>3, <1>6 DEF WalksAt
  <2>5. Listed(s)
    BY <2>2, <2>4, <1>3, <1>6 DEF IsList
  <2>6. s \in alive
    BY <2>5 DEF Listed
  <2>7. QED
    BY <2>6, <1>3, <1>5, <1>6
<1>7. CASE ~Scanning(t)
  <2>1. th[t].file \in alive
    BY <1>1, <1>2, <1>7 DEF AtPlace, MayBeAt, Scanning, FlushPlaces, Standard
  <2>2. s \in alive
    BY <2>1, <1>4, <1>7
  <2>3. QED
    BY <2>2, <1>4, <1>5, <1>7
<1>8. QED
  BY <1>6, <1>7

Owning == {"fopen", "fclose", "freopen"}

LEMMA OthersPlace ==
  ASSUME NEW t \in Threads, OnlyMoves(t), NEW u \in Threads, u # t, AtPlace(u),
         th[u].op \in {"fputc", "fflush"} => th[u].file \in usable',
         th[u].op \in Owning => th[u].file \in alive' \ usable'
  PROVE  AtPlace(u)'
BY DEF AtPlace, OnlyMoves, Alike, Scanning, Owning

LEMMA ExclusiveKept ==
  ASSUME ListInv, NEW t \in Threads, OnlyMoves(t),
         th'[t].file \in {th[t].file, Null},
         th'[t].op \in Owning => th[t].op \in Owning /\ th'[t].file = th[t].file
  PROVE  Exclusive'
<1>1. Null \notin alive
  BY DEF ListInv, Types
<1>2. \A u \in Threads : th[u].op \in Owning => th[u].file # Null
  BY <1>1 DEF ListInv, AtPlace, Owning
<1>3. QED
  BY <1>2 DEF ListInv, Exclusive, OnlyMoves, Alike, Owning

LEMMA PlacesKept ==
  ASSUME ListInv, NEW t \in Threads, OnlyMoves(t), AtPlace(t)',
         UNCHANGED memvars, th'[t].file \in {th[t].file, Null},
         th'[t].op \in Owning => th[t].op \in Owning /\ th'[t].file = th[t].file
  PROVE  (\A u \in Threads : AtPlace(u)') /\ Exclusive'
<1>1. \A u \in Threads : /\ th[u].op \in {"fputc", "fflush"} => th[u].file \in usable'
                         /\ th[u].op \in Owning => th[u].file \in alive' \ usable'
  BY DEF ListInv, AtPlace, Owning, memvars
<1>2. \A u \in Threads : u # t => AtPlace(u)'
  BY <1>1, OthersPlace DEF ListInv
<1>3. QED
  BY <1>2, ExclusiveKept

LEMMA LinkedKept ==
  ASSUME ListInv, NEW t \in Threads, OnlyMoves(t), UNCHANGED listvars,
         th'[t].pc # "add_head"
  PROVE  Linked'
BY DEF ListInv, Linked, OnlyMoves, Alike, listvars

\* Who holds the list's lock changes the list alone.
LEMMA LinkedByOwner ==
  ASSUME ListInv, NEW t \in Threads, OnlyMoves(t), HoldsList(t),
         th'[t].pc = "add_head" => (next[th[t].file] = head)'
  PROVE  Linked'
<1>1. \A u \in Threads : u # t => th[u].pc # "add_head"
  BY DEF ListInv, ListLocked, HoldsList
<1>2. QED
  BY <1>1 DEF Linked, OnlyMoves, Alike

LEMMA ListLockKept ==
  ASSUME ListInv, NEW t \in Threads, OnlyMoves(t), list_lock' = list_lock,
         HoldsList(t)' <=> HoldsList(t)
  PROVE  ListLocked'
<1>1. \A u \in Threads : HoldsList(u)' <=> HoldsList(u)
  BY DEF OnlyMoves, Alike, HoldsList, Op
<1>2. QED
  BY <1>1 DEF ListInv, ListLocked

LEMMA ListLockTaken ==
  ASSUME ListInv, NEW t \in Threads, OnlyMoves(t), list_lock = 0,
         list_lock' = 1, HoldsList(t)'
  PROVE  ListLocked'
<1>1. \A u \in Threads : u # t => (HoldsList(u)' <=> HoldsList(u))
  BY DEF OnlyMoves, Alike, HoldsList, Op
<1>2. QED
  BY <1>1 DEF ListInv, ListLocked

LEMMA ListLockGiven ==
  ASSUME ListInv, NEW t \in Threads, OnlyMoves(t), HoldsList(t),
         list_lock' = 0, ~HoldsList(t)'
  PROVE  ListLocked'
<1>1. \A u \in Threads : u # t => (HoldsList(u)' <=> HoldsList(u))
  BY DEF OnlyMoves, Alike, HoldsList, Op
<1>2. QED
  BY <1>1 DEF ListInv, ListLocked

LEMMA OthersHold ==
  ASSUME NEW t \in Threads, OnlyMoves(t), NEW u \in Threads, u # t,
         NEW s \in Files
  PROVE  Holds(u, s)' <=> Holds(u, s)
BY DEF OnlyMoves, Alike, Holds, Op

LEMMA StreamLocksKept ==
  ASSUME ListInv, NEW t \in Threads, OnlyMoves(t), lock' = lock,
         \A s \in Files : Holds(t, s)' <=> Holds(t, s)
  PROVE  StreamsLocked'
<1>1. \A u \in Threads, s \in Files : Holds(u, s)' <=> Holds(u, s)
  BY OthersHold
<1>2. QED
  BY <1>1 DEF ListInv, StreamsLocked

LEMMA StreamLockTaken ==
  ASSUME ListInv, NEW t \in Threads, OnlyMoves(t), NEW s \in Files,
         lock[s] = 0, lock' = [lock EXCEPT ![s] = 1],
         \A x \in Files : ~Holds(t, x),
         \A x \in Files : Holds(t, x)' <=> x = s
  PROVE  StreamsLocked'
<1>1. \A u \in Threads, x \in Files : u # t => (Holds(u, x)' <=> Holds(u, x))
  BY OthersHold
<1>2. lock'[s] = 1 /\ \A x \in Files : x # s => lock'[x] = lock[x]
  BY DEF ListInv, Types
<1>3. QED
  BY <1>1, <1>2 DEF ListInv, StreamsLocked

LEMMA StreamLockGiven ==
  ASSUME ListInv, NEW t \in Threads, OnlyMoves(t), NEW s \in Files,
         Holds(t, s), lock' = [lock EXCEPT ![s] = 0],
         \A x \in Files : ~Holds(t, x)'
  PROVE  StreamsLocked'
<1>1. \A u \in Threads, x \in Files : u # t => (Holds(u, x)' <=> Holds(u, x))
  BY OthersHold
<1>2. lock'[s] = 0 /\ \A x \in Files : x # s => lock'[x] = lock[x]
  BY DEF ListInv, Types
<1>3. \A x \in Files : Holds(t, x) => x = s
  BY HoldsFacts
<1>4. QED
  BY <1>1, <1>2, <1>3 DEF ListInv, StreamsLocked

LEMMA SameListed ==
  ASSUME ListInv, NEW t \in Threads, OnlyMoves(t), alive' = alive,
         \/ KeepsListed(t) /\ KeepsListed(t)'
         \/ th'[t].file = th[t].file /\ (KeepsListed(t)' <=> KeepsListed(t))
  PROVE  \A s \in Files : Listed(s)' <=> Listed(s)
<1>1. \A u \in Threads : u # t => /\ KeepsListed(u)' <=> KeepsListed(u)
                                  /\ th'[u].file = th[u].file
  BY DEF OnlyMoves, Alike, KeepsListed
<1>2. QED
  BY <1>1 DEF Listed

\* The FILEs on the list, and the list, stay.
ListStays ==
  /\ head' = head
  /\ \A s \in Files : /\ Listed(s)' <=> Listed(s)
                      /\ Listed(s) => next'[s] = next[s]

LEMMA SameList ==
  ASSUME NEW n \in Nat, NEW q \in [1 .. n -> Files], ListStays
  PROVE  IsList(n, q)' <=> IsList(n, q)
<1>1. IsList(n, q) => \A i \in 1 .. n : q[i] \in Files /\ Listed(q[i])
  BY DEF IsList
<1>2. IsList(n, q)' => \A i \in 1 .. n : q[i] \in Files /\ Listed(q[i])'
  BY DEF IsList
<1>3. IsList(n, q) => IsList(n, q)'
  BY <1>1 DEF IsList, ListStays
<1>4. IsList(n, q)' => IsList(n, q)
  <2>1. IsList(n, q)' => \A i \in 1 .. n : q[i] \in Files /\ Listed(q[i])
    BY <1>2 DEF ListStays
  <2>2. QED
    BY <2>1 DEF IsList, ListStays
<1>5. QED
  BY <1>3, <1>4

LEMMA OthersWalk ==
  ASSUME NEW t \in Threads, OnlyMoves(t), NEW u \in Threads, u # t,
         NEW n, NEW q, WalksAt(u, n, q)
  PROVE  WalksAt(u, n, q)'
BY DEF OnlyMoves, Alike, WalksAt, Scanning

\* The list stays, and t moves along it or not at all.
LEMMA TheListKept ==
  ASSUME ListInv, NEW t \in Threads, OnlyMoves(t), ListStays,
         \A n \in Nat : \A q \in [1 .. n -> Files] :
           IsList(n, q) /\ WalksAt(t, n, q) => WalksAt(t, n, q)'
  PROVE  TheList'
<1>0. PICK n \in Nat : \E q \in [1 .. n -> Files] :
        IsList(n, q) /\ \A u \in Threads : WalksAt(u, n, q)
  BY DEF ListInv, TheList
<1>1. PICK q \in [1 .. n -> Files] :
        IsList(n, q) /\ \A u \in Threads : WalksAt(u, n, q)
  BY <1>0
<1>2. IsList(n, q)'
  BY <1>1, SameList
<1>3. WalksAt(t, n, q)'
  BY <1>1
<1>4. \A u \in Threads : WalksAt(u, n, q)'
  BY <1>1, <1>3, OthersWalk
<1>5. QED
  BY <1>2, <1>4 DEF TheList

\* Nobody but who holds the list's lock walks along the list.
LEMMA OnlyOwnerWalks ==
  ASSUME ListInv, NEW t \in Threads, OnlyMoves(t), HoldsList(t),
         NEW u \in Threads, u # t, NEW n, NEW q
  PROVE  WalksAt(u, n, q)'
<1>1. ~HoldsList(u)
  BY DEF ListInv, ListLocked
<1>2. QED
  BY <1>1 DEF HoldsList, Op, WalksAt, OnlyMoves, Alike, Scanning

-----------------------------------------------------------------------------
(* The actions.                                                            *)

USE DEF At, Op, listvars, bytevars, memvars, filevars

\* A step of t that is none of putc, write or the buffer's reset.
Plain(t) ==
  /\ OnlyMoves(t) /\ OwesLess
  /\ th[t].pc \notin {"write", "reset"} /\ th'[t].pc \notin {"write", "reset"}
  /\ th'[t].due => th[t].due /\ th'[t].file = th[t].file

\* A step of t inside the call it is in, on the same stream.
Inward(t) == /\ OnlyMoves(t) /\ OwesNoMore /\ th'[t].op = th[t].op
             /\ th'[t].file = th[t].file /\ th'[t].p = th[t].p
             /\ th'[t].due => th[t].due

Held == FlushPlaces \cup {"put", "fill", "read"}

\* A step inside a stream's lock.
LEMMA QuietStep ==
  ASSUME ListInv, NEW t \in Threads, NEW place \in Held, NEW due \in BOOLEAN,
         MovesTo(t, th[t].op, place, th[t].file, th[t].p, due),
         MayBeAt(th[t].op, place), th[t].pc \in Held,
         due => th[t].due, place = "put" => due,
         UNCHANGED <<listvars, list_lock, lock, memvars>>, Types'
  PROVE  ListInv' /\ ListStays
<1>1. OnlyMoves(t) /\ th'[t].op = th[t].op /\ th'[t].pc = place
      /\ th'[t].file = th[t].file /\ th'[t].p = th[t].p /\ th'[t].due = due
  BY DEF MovesTo
<1>2. (\A u \in Threads : AtPlace(u)') /\ Exclusive'
  <2>1. AtPlace(t)'
    <3>1. AtPlace(t)
      BY DEF ListInv
    <3>2. Scanning(t) => th[t].p # Null
      BY <3>1 DEF AtPlace, Held, MayBeAt, Scanning
    <3>3. QED
      BY <1>1, <3>1, <3>2 DEF AtPlace, Held, FlushPlaces, Scanning
  <2>2. QED
    BY <1>1, <2>1, PlacesKept
<1>3. ListLocked'
  <2>1. HoldsList(t)' <=> HoldsList(t)
    BY <1>1 DEF HoldsList, Held, FlushPlaces
  <2>2. QED
    BY <1>1, <2>1, ListLockKept
<1>4. StreamsLocked'
  <2>1. \A x \in Files : Holds(t, x)' <=> Holds(t, x)
    BY <1>1 DEF Holds, Held, FlushPlaces
  <2>2. QED
    BY <1>1, <2>1, StreamLocksKept
<1>5. ListStays
  <2>1. KeepsListed(t)' <=> KeepsListed(t)
    BY <1>1 DEF KeepsListed, Held, FlushPlaces
  <2>2. QED
    BY <1>1, <2>1, SameListed DEF ListStays
<1>6. TheList'
  <2>1. /\ th'[t].pc # "walk" /\ th'[t].pc # "all" /\ th[t].pc # "all"
        /\ Scanning(t)' <=> Scanning(t)
    BY <1>1 DEF Held, FlushPlaces, Scanning
  <2>2. \A n \in Nat : \A q \in [1 .. n -> Files] :
          WalksAt(t, n, q) => WalksAt(t, n, q)'
    BY <1>1, <2>1 DEF WalksAt
  <2>3. QED
    BY <1>1, <1>5, <2>2, TheListKept
<1>7. Linked'
  BY <1>1, LinkedKept DEF Held, FlushPlaces
<1>8. QED
  BY <1>2, <1>3, <1>4, <1>5, <1>6, <1>7 DEF ListInv

LEMMA PlacesType == FlushPlaces \subseteq Places /\ Held \subseteq Places
BY DEF FlushPlaces, Held, Places

LEMMA TypesKept ==
  ASSUME Types, th' \in [Threads -> Local],
         UNCHANGED <<listvars, list_lock, lock, memvars, exited>>,
         buf' \in [Files -> Seq(Nat)], put' \in [Files -> Nat],
         err' \subseteq Files, nofd' \subseteq Files, calls' \in 0 .. MaxCalls
  PROVE  Types'
BY DEF Types

LEMMA PutStep ==
  ASSUME ListInv, NEW t \in Threads, Put(t)
  PROVE  /\ ListInv' /\ ListStays /\ Inward(t) /\ OwesLess /\ th[t].op = "fputc"
         /\ th[t].pc = "put" /\ th[t].due /\ th[t].file \in Files
         /\ \/ th'[t].pc = "flush" /\ th'[t].due /\ UNCHANGED <<buf, put>>
            \/ /\ th'[t].pc \in {"flush", "unlock"} /\ ~th'[t].due
               /\ put' = [put EXCEPT ![th[t].file] = @ + 1]
               /\ buf' = [buf EXCEPT ![th[t].file] = Append(@, put[th[t].file] + 1)]
<1>1. Types /\ AtPlace(t) /\ th[t].pc = "put" /\ th[t].op = "fputc"
      /\ th[t].file \in Files /\ th[t].due
  BY DEF ListInv, Put, AtPlace, MayBeAt, FlushPlaces, Types
<1>2. PICK f : f = th[t].file
  OBVIOUS
<1>3. PICK place \in {"flush", "unlock"}, due \in BOOLEAN :
        /\ MovesTo(t, th[t].op, place, th[t].file, th[t].p, due) /\ KeepsMarks
        /\ \/ place = "flush" /\ due /\ UNCHANGED <<buf, put>>
           \/ /\ ~due /\ put' = [put EXCEPT ![f] = @ + 1]
              /\ buf' = [buf EXCEPT ![f] = Append(@, put[f] + 1)]
  <2>1. CASE Goto(t, "flush") /\ UNCHANGED <<put, buf>>
    BY <1>1, <2>1, GotoMoves DEF Places
  <2>2. CASE \E place \in {"flush", "unlock"} :
               /\ put' = [put EXCEPT ![f] = @ + 1]
               /\ buf' = [buf EXCEPT ![f] = Append(@, put[f] + 1)]
               /\ th' = [th EXCEPT ![t].pc = place, ![t].due = FALSE]
    <3>1. PICK place \in {"flush", "unlock"} :
            /\ put' = [put EXCEPT ![f] = @ + 1]
            /\ buf' = [buf EXCEPT ![f] = Append(@, put[f] + 1)]
            /\ th' = [th EXCEPT ![t].pc = place, ![t].due = FALSE]
      BY <2>2
    <3>2. MovesTo(t, th[t].op, place, th[t].file, th[t].p, FALSE) /\ KeepsMarks
      BY <1>1, <3>1, DueMoves DEF Places
    <3>3. QED
      BY <3>1, <3>2
  <2>3. QED
    BY <1>2, <2>1, <2>2 DEF Put
<1>4. Inward(t) /\ OwesLess
  BY <1>1, <1>3 DEF Inward, MovesTo, OwesLess, OwesNoMore, KeepsMarks
<1>5. Types'
  <2>1. buf[f] \in Seq(Nat) /\ put[f] \in Nat /\ f \in Files
    BY <1>1, <1>2 DEF Types
  <2>2. buf' \in [Files -> Seq(Nat)] /\ put' \in [Files -> Nat]
    <3>1. buf \in [Files -> Seq(Nat)] /\ put \in [Files -> Nat]
      BY <1>1 DEF Types
    <3>2. Append(buf[f], put[f] + 1) \in Seq(Nat) /\ put[f] + 1 \in Nat
      BY <2>1
    <3>3. \/ UNCHANGED <<buf, put>>
          \/ /\ put' = [put EXCEPT ![f] = put[f] + 1]
             /\ buf' = [buf EXCEPT ![f] = Append(buf[f], put[f] + 1)]
      BY <1>3
    <3>4. QED
      BY <2>1, <3>1, <3>2, <3>3
  <2>3. QED
    BY <1>1, <1>3, <2>2, TypesKept DEF Put, MovesTo, OnlyMoves, Types
<1>6. ListInv' /\ ListStays
  <2>1. place \in Held /\ MayBeAt(th[t].op, place) /\ th[t].pc \in Held /\ place # "put"
    BY <1>1 DEF Held, FlushPlaces, MayBeAt
  <2>2. UNCHANGED <<listvars, list_lock, lock, memvars>>
    BY DEF Put
  <2>3. QED
    BY <1>1, <1>3, <1>5, <2>1, <2>2, QuietStep
<1>7. th'[t].pc = place /\ th'[t].due = due
  BY <1>3 DEF MovesTo
<1>8. QED
  BY <1>1, <1>2, <1>3, <1>4, <1>6, <1>7

LEMMA AfterPlace ==
  ASSUME NEW t \in Threads, AtPlace(t), th[t].pc \in FlushPlaces \ {"unlock"}
  PROVE  /\ After(t) \in Held /\ MayBeAt(th[t].op, After(t))
         /\ After(t) = "put" => th[t].due
         /\ After(t) \in {"read", "put", "unlock"}
         /\ AfterFailure(t) \in Held /\ MayBeAt(th[t].op, AfterFailure(t))
         /\ AfterFailure(t) \in {"read", "unlock"}
<1>1. th[t].due => th[t].op = "fputc"
  BY DEF AtPlace
<1>2. CASE th[t].op = "getchar"
  BY <1>1, <1>2 DEF After, AfterFailure, MayBeAt, FlushPlaces, Held
<1>3. CASE th[t].op = "fputc"
  BY <1>3 DEF After, AfterFailure, MayBeAt, FlushPlaces, Held
<1>4. CASE th[t].op \notin {"getchar", "fputc"}
  <2>1. After(t) = "unlock" /\ AfterFailure(t) = "unlock"
    BY <1>1, <1>4 DEF After, AfterFailure
  <2>2. MayBeAt(th[t].op, "unlock")
    BY <1>4 DEF AtPlace, MayBeAt, FlushPlaces
  <2>3. QED
    BY <2>1, <2>2 DEF FlushPlaces, Held
<1>5. QED
  BY <1>2, <1>3, <1>4

LEMMA TargetType ==
  ASSUME ListInv, NEW t \in Threads, th[t].pc \in FlushPlaces
  PROVE  /\ Target(t) \in Files
         /\ th[t].op # "getchar" => Holds(t, Target(t))
<1>1. Types /\ AtPlace(t) /\ th[t].file \in Files \cup {Null}
      /\ th[t].p \in Files \cup {Null}
  BY Fields DEF ListInv
<1>2. CASE Scanning(t)
  BY <1>1, <1>2 DEF AtPlace, Scanning, Target, Holds, FlushPlaces
<1>3. CASE th[t].op = "getchar"
  BY <1>3 DEF Target
<1>4. CASE th[t].op \in {"fputc", "fflush", "fclose", "freopen"}
  <2>1. th[t].file \in Files
    BY <1>1, <1>4 DEF AtPlace, Types
  <2>2. QED
    BY <2>1, <1>4 DEF Target, Holds, FlushPlaces
<1>5. QED
  BY <1>1, <1>2, <1>3, <1>4 DEF AtPlace, MayBeAt, FlushPlaces, Scanning

\* What the steps of flush_impl have in common.
LEMMA FlushPart ==
  ASSUME ListInv, NEW t \in Threads, th[t].pc \in FlushPlaces \ {"unlock"},
         NEW place \in Held,
         MovesTo(t, th[t].op, place, th[t].file, th[t].p, th[t].due),
         MayBeAt(th[t].op, place), place = "put" => th[t].due,
         UNCHANGED <<listvars, list_lock, lock, memvars, exited, calls, put, nofd>>,
         buf' \in [Files -> Seq(Nat)], err' \subseteq Files
  PROVE  ListInv' /\ ListStays
<1>1. Types /\ th[t].due \in BOOLEAN /\ th[t].pc \in Held
  BY Fields DEF ListInv, Held, FlushPlaces
<1>2. Types'
  BY <1>1, TypesKept DEF MovesTo, OnlyMoves, Types
<1>3. QED
  BY <1>1, <1>2, QuietStep

LEMMA FlushSizeStep ==
  ASSUME ListInv, NEW t \in Threads, FlushSize(t)
  PROVE  /\ ListInv' /\ ListStays /\ Inward(t) /\ OwesLess /\ th[t].pc = "flush"
         /\ IF buf[Target(t)] = <<>> THEN th'[t].pc = After(t)
            ELSE /\ th'[t].pc = "write" /\ th'[t].size = Len(buf[Target(t)])
                 /\ th'[t].rest = buf[Target(t)]
         /\ th'[t].due = th[t].due
<1>1. Types /\ AtPlace(t) /\ th[t].pc = "flush" /\ Target(t) \in Files
      /\ th[t].pc \in FlushPlaces \ {"unlock"}
  BY TargetType DEF ListInv, FlushSize, FlushPlaces
<1>2. PICK place \in Held :
        /\ MayBeAt(th[t].op, place) /\ (place = "put" => th[t].due)
        /\ MovesTo(t, th[t].op, place, th[t].file, th[t].p, th[t].due)
        /\ KeepsMarks
        /\ IF buf[Target(t)] = <<>> THEN place = After(t)
           ELSE /\ place = "write" /\ th'[t].size = Len(buf[Target(t)])
                /\ th'[t].rest = buf[Target(t)]
  <2>1. CASE buf[Target(t)] = <<>>
    <3>1. Goto(t, After(t))
      BY <2>1 DEF FlushSize
    <3>2. QED
      BY <1>1, <2>1, <3>1, AfterPlace, GotoMoves, PlacesType
  <2>2. CASE buf[Target(t)] # <<>>
    <3>1. PICK size \in Nat, rest \in Seq(Nat) :
            size = Len(buf[Target(t)]) /\ rest = buf[Target(t)]
      BY <1>1 DEF Types
    <3>2. th' = [th EXCEPT ![t].pc = "write", ![t].size = size, ![t].rest = rest]
      BY <2>2, <3>1 DEF FlushSize
    <3>3. /\ MovesTo(t, th[t].op, "write", th[t].file, th[t].p, th[t].due)
          /\ KeepsMarks
          /\ th'[t].size = size /\ th'[t].rest = rest
      <4>1. PICK place \in Places : place = "write"
        BY DEF Places
      <4>2. th' = [th EXCEPT ![t].pc = place, ![t].size = size, ![t].rest = rest]
        BY <3>2, <4>1
      <4>3. /\ MovesTo(t, th[t].op, place, th[t].file, th[t].p, th[t].due)
            /\ th'[t].size = size /\ th'[t].rest = rest /\ KeepsMarks
        <5>1. Types
          BY <1>1
        <5>2. QED
          BY <4>2, <5>1, SizeMoves, Zenon
      <4>4. QED
        BY <4>1, <4>3
    <3>4. MayBeAt(th[t].op, "write")
      BY <1>1 DEF AtPlace, MayBeAt, FlushPlaces
    <3>5. QED
      BY <2>2, <3>1, <3>3, <3>4 DEF Held, FlushPlaces
  <2>3. QED
    BY <2>1, <2>2
<1>3. ListInv' /\ ListStays
  <2>1. UNCHANGED <<listvars, list_lock, lock, memvars, exited, calls, put, nofd, buf, err>>
    BY DEF FlushSize
  <2>2. QED
    BY <1>1, <1>2, <2>1, FlushPart DEF Types
<1>4. QED
  BY <1>1, <1>2, <1>3
  DEF MovesTo, Inward, OwesLess, OwesNoMore, KeepsMarks

LEMMA FlushWriteStep ==
  ASSUME ListInv, NEW t \in Threads, FlushWrite(t)
  PROVE  /\ ListInv' /\ ListStays /\ Inward(t) /\ OwesLess /\ th[t].pc = "write"
         /\ th'[t].due = th[t].due /\ th'[t].size = th[t].size
         /\ \E n \in 1 .. Len(th[t].rest) :
              /\ sent' = [sent EXCEPT ![Target(t)] = @ \o SubSeq(th[t].rest, 1, n)]
              /\ th'[t].rest = SubSeq(th[t].rest, n + 1, Len(th[t].rest))
              /\ th'[t].pc = IF n = Len(th[t].rest) THEN "reset" ELSE "write"
<1>1. Types /\ AtPlace(t) /\ th[t].pc = "write" /\ th[t].rest \in Seq(Nat)
      /\ th[t].pc \in FlushPlaces \ {"unlock"}
  BY Fields DEF ListInv, FlushWrite, FlushPlaces
<1>2. PICK r : r = th[t].rest
  OBVIOUS
<1>3. PICK n \in 1 .. Len(r) :
        /\ sent' = [sent EXCEPT ![Target(t)] = @ \o SubSeq(r, 1, n)]
        /\ th' = [th EXCEPT ![t].pc = IF n = Len(r) THEN "reset" ELSE "write",
                            ![t].rest = SubSeq(r, n + 1, Len(r))]
  BY <1>2 DEF FlushWrite
<1>4. PICK place \in {"reset", "write"} :
        place = IF n = Len(r) THEN "reset" ELSE "write"
  OBVIOUS
<1>5. /\ MovesTo(t, th[t].op, place, th[t].file, th[t].p, th[t].due)
      /\ th'[t].size = th[t].size /\ th'[t].rest = SubSeq(r, n + 1, Len(r))
      /\ KeepsMarks
  <2>1. PICK rest \in Seq(Nat) : rest = SubSeq(r, n + 1, Len(r))
    <3>1. r \in Seq(Nat) /\ Len(r) \in Nat
      BY <1>1, <1>2
    <3>2. SubSeq(r, n + 1, Len(r)) \in Seq(Nat)
      BY <3>1
    <3>3. QED
      BY <3>2
  <2>2. th' = [th EXCEPT ![t].pc = place, ![t].rest = rest]
    BY <1>3, <1>4, <2>1
  <2>3. /\ MovesTo(t, th[t].op, place, th[t].file, th[t].p, th[t].due)
        /\ th'[t].size = th[t].size /\ th'[t].rest = rest /\ KeepsMarks
    <3>1. place \in Places
      BY DEF Places
    <3>2. QED
      BY <1>1, <2>1, <2>2, <3>1, RestMoves
  <2>4. QED
    BY <2>1, <2>3
<1>6. ListInv' /\ ListStays
  <2>1. UNCHANGED <<listvars, list_lock, lock, memvars, exited, calls, put, nofd, buf, err>>
    BY DEF FlushWrite
  <2>2. place \in Held /\ MayBeAt(th[t].op, place) /\ place # "put"
    BY <1>1 DEF AtPlace, MayBeAt, FlushPlaces, Held
  <2>3. QED
    BY <1>1, <1>5, <2>1, <2>2, FlushPart DEF Types
<1>7. th'[t].pc = place
  BY <1>5 DEF MovesTo
<1>8. Inward(t) /\ OwesLess /\ th'[t].due = th[t].due
  BY <1>5 DEF MovesTo, Inward, OwesLess, OwesNoMore, KeepsMarks
<1>9. QED
  BY <1>1, <1>2, <1>3, <1>4, <1>5, <1>6, <1>7, <1>8

LEMMA FlushFailStep ==
  ASSUME ListInv, NEW t \in Threads, FlushFail(t)
  PROVE  /\ ListInv' /\ ListStays /\ Inward(t) /\ th[t].pc = "write"
         /\ th'[t].pc = AfterFailure(t) /\ th'[t].due = th[t].due
         /\ err' = err \cup {Target(t)} /\ Target(t) \in Files
         /\ th'[t].failed = th[t].failed \cup ({Target(t)} \cap usable)
         /\ \A u \in Threads : u # t => th'[u] = th[u]
         /\ \/ (IF Len(th[t].rest) = th[t].size THEN "write" ELSE "partial") \in Faults
            \/ Target(t) \in nofd
<1>1. Types /\ AtPlace(t) /\ th[t].pc = "write" /\ Target(t) \in Files
      /\ th[t].pc \in FlushPlaces \ {"unlock"}
  BY TargetType DEF ListInv, FlushFail, FlushPlaces
<1>2. PICK X \in SUBSET Files : X = {Target(t)} \cap usable
  BY <1>1
<1>3. /\ MovesTo(t, th[t].op, AfterFailure(t), th[t].file, th[t].p, th[t].due)
      /\ th'[t].failed = th[t].failed \cup X /\ th'[t].mark = th[t].mark
      /\ \A u \in Threads : u # t => th'[u] = th[u]
  <2>1. th' = [th EXCEPT ![t].pc = AfterFailure(t), ![t].failed = @ \cup X]
    BY <1>2 DEF FlushFail
  <2>2. QED
    BY <1>1, <2>1, AfterPlace, FailMoves, PlacesType
<1>4. err' = err \cup {Target(t)}
  BY DEF FlushFail, MarkError
<1>5. ListInv' /\ ListStays
  <2>1. UNCHANGED <<listvars, list_lock, lock, memvars, exited, calls, put, nofd, buf>>
    BY DEF FlushFail
  <2>2. err' \subseteq Files
    BY <1>1, <1>4 DEF Types
  <2>3. AfterFailure(t) \in Held /\ MayBeAt(th[t].op, AfterFailure(t))
        /\ AfterFailure(t) # "put"
    BY <1>1, AfterPlace
  <2>4. QED
    BY <1>1, <1>3, <2>1, <2>2, <2>3, FlushPart DEF Types
<1>6. Inward(t)
  BY <1>3 DEF MovesTo, Inward, OwesNoMore
<1>7. th'[t].pc = AfterFailure(t) /\ th'[t].due = th[t].due
  BY <1>3 DEF MovesTo
<1>8. \/ (IF Len(th[t].rest) = th[t].size THEN "write" ELSE "partial") \in Faults
      \/ Target(t) \in nofd
  BY DEF FlushFail
<1>9. QED
  BY <1>1, <1>2, <1>3, <1>4, <1>5, <1>6, <1>7, <1>8

LEMMA FlushResetStep ==
  ASSUME ListInv, NEW t \in Threads, FlushReset(t)
  PROVE  /\ ListInv' /\ ListStays /\ Inward(t) /\ OwesLess
         /\ th[t].pc = "reset" /\ th'[t].pc = After(t) /\ th'[t].due = th[t].due
<1>1. Types /\ AtPlace(t) /\ th[t].pc = "reset" /\ Goto(t, After(t))
      /\ th[t].pc \in FlushPlaces \ {"unlock"}
  BY DEF ListInv, FlushReset, FlushPlaces
<1>2. /\ After(t) \in Held /\ MayBeAt(th[t].op, After(t))
      /\ After(t) = "put" => th[t].due
  BY <1>1, AfterPlace
<1>3. MovesTo(t, th[t].op, After(t), th[t].file, th[t].p, th[t].due) /\ KeepsMarks
  BY <1>1, <1>2, GotoMoves, PlacesType
<1>4. ListInv' /\ ListStays
  <2>1. buf' \in [Files -> Seq(Nat)]
    BY <1>1, TargetType DEF FlushReset, Types
  <2>2. UNCHANGED <<listvars, list_lock, lock, memvars, exited, calls, put, nofd, err>>
    BY DEF FlushReset
  <2>3. QED
    BY <1>1, <1>2, <1>3, <2>1, <2>2, FlushPart DEF Types
<1>5. QED
  BY <1>1, <1>3, <1>4 DEF MovesTo, Inward, OwesLess, OwesNoMore, KeepsMarks

LEMMA FillStep ==
  ASSUME ListInv, NEW t \in Threads, FillStart(t) \/ FillRead(t)
  PROVE  ListInv' /\ ListStays /\ Plain(t) /\ ~Scanning(t) /\ ~Scanning(t)'
<1>1. Types /\ AtPlace(t) /\ th[t].pc \in {"fill", "read"} /\ th[t].op = "getchar"
  BY DEF ListInv, FillStart, FillRead, AtPlace, MayBeAt, FlushPlaces
<1>2. PICK place \in {"flush", "read", "unlock"} :
        Goto(t, place) /\ (place = "flush" => Tty)
  BY DEF FillStart, FillRead
<1>3. MovesTo(t, th[t].op, place, th[t].file, th[t].p, th[t].due) /\ OwesLess
  BY <1>1, <1>2, GotoMoves DEF Places, OwesLess, OwesNoMore, KeepsMarks
<1>4. Types'
  BY <1>1, <1>3, TypesKept DEF FillStart, FillRead, MovesTo, OnlyMoves, Types
<1>5. place \in Held /\ MayBeAt(th[t].op, place) /\ th[t].due \in BOOLEAN
      /\ place # "put"
  BY <1>1, <1>2, Fields DEF MayBeAt, FlushPlaces, Held
<1>6. ListInv' /\ ListStays
  BY <1>1, <1>3, <1>4, <1>5, QuietStep DEF FillStart, FillRead, Held, FlushPlaces
<1>7. QED
  BY <1>1, <1>2, <1>3, <1>6 DEF Plain, MovesTo, Scanning

\* A call begins on a stream that the program has and keeps.
LEMMA CallStep ==
  ASSUME ListInv, NEW t \in Threads, Fputc(t) \/ Fflush(t) \/ Getchar(t)
  PROVE  /\ ListInv' /\ ListStays /\ OnlyMoves(t) /\ OwesLess
         /\ ~Scanning(t) /\ ~Scanning(t)'
         /\ th[t].pc = "idle" /\ th'[t].pc = "lock"
         /\ th'[t].due = (th'[t].op = "fputc")
<1>1. PICK op \in {"fputc", "fflush", "getchar"} :
        \E s \in usable : /\ Begin(t, op, s, "lock")
                          /\ op = "getchar" => s = stdin
  BY DEF Fputc, Fflush, Getchar, ListInv, Types, Standard
<1>2. PICK s \in usable : /\ Begin(t, op, s, "lock")
                          /\ op = "getchar" => s = stdin
  BY <1>1
<1>3. Types /\ AtPlace(t) /\ th[t].pc = "idle" /\ th[t].op = "none"
      /\ th[t].file = Null /\ s \in Files
  BY <1>2 DEF ListInv, Begin, AtPlace, MayBeAt, FlushPlaces, Types
<1>4. UNCHANGED <<listvars, list_lock, lock, memvars, bytevars, filevars, exited>>
  BY DEF Fputc, Fflush, Getchar
<1>5. MovesTo(t, op, "lock", s, Null, op = "fputc") /\ OwesLess
  <2> DEFINE r == [Idle EXCEPT !.op = op, !.pc = "lock", !.file = s,
                               !.due = (op = "fputc")]
  <2>1. th' = [th EXCEPT ![t] = r]
    BY <1>2 DEF Begin
  <2>2. r \in Local /\ r.op = op /\ r.pc = "lock" /\ r.file = s /\ r.p = Null
        /\ r.due = (op = "fputc") /\ r.failed = {}
        /\ \A x \in Files : r.mark[x] = 0
    <3>1. PICK due \in BOOLEAN : due = (op = "fputc")
      OBVIOUS
    <3>2. r = [Idle EXCEPT !.op = op, !.pc = "lock", !.file = s, !.due = due]
      BY <3>1
    <3>3. op \in Ops /\ "lock" \in Places /\ Idle \in Local
      BY IdleType DEF Ops, Places
    <3>4. QED
      BY <1>3, <3>1, <3>2, <3>3, IdleType DEF Local, NoMark, Idle
  <2> HIDE DEF r
  <2>3. /\ MovesTo(t, r.op, r.pc, r.file, r.p, r.due)
        /\ th'[t] = r /\ \A u \in Threads : u # t => th'[u] = th[u]
    BY <1>3, <2>1, <2>2, SetMoves
  <2>4. QED
    BY <2>2, <2>3 DEF OwesLess, OwesNoMore, KeepsMarks
<1>6. Types'
  <2>1. calls' \in 0 .. MaxCalls
    BY <1>2, <1>3 DEF Begin, Types
  <2>2. QED
    BY <1>3, <1>4, <1>5, <2>1, TypesKept DEF MovesTo, OnlyMoves, Types
<1>7. OnlyMoves(t) /\ th'[t].op = op /\ th'[t].pc = "lock" /\ th'[t].file = s
      /\ th'[t].p = Null /\ th'[t].due = (op = "fputc")
  BY <1>5 DEF MovesTo
<1>8. (\A u \in Threads : AtPlace(u)') /\ Exclusive'
  <2>1. AtPlace(t)'
    BY <1>2, <1>4, <1>7 DEF AtPlace, MayBeAt, FlushPlaces, Scanning
  <2>2. ASSUME NEW u \in Threads, u # t PROVE AtPlace(u)'
    BY <1>4, <1>7, <2>2 DEF ListInv, AtPlace, OnlyMoves, Alike, Scanning
  <2>3. Exclusive'
    <3>1. \A u \in Threads : th[u].op \in {"fopen", "fclose", "freopen"} =>
                                th[u].file # s
      BY <1>3 DEF ListInv, AtPlace
    <3>2. QED
      BY <1>7, <3>1 DEF ListInv, Exclusive, OnlyMoves, Alike
  <2>4. QED
    BY <2>1, <2>2, <2>3
<1>9. ListLocked'
  BY <1>3, <1>4, <1>7, ListLockKept DEF HoldsList
<1>10. StreamsLocked'
  <2>1. \A x \in Files : ~Holds(t, x) /\ ~Holds(t, x)'
    BY <1>3, <1>7 DEF Holds
  <2>2. QED
    BY <1>4, <1>7, <2>1, StreamLocksKept
<1>s. ListStays
  <2>1. KeepsListed(t) /\ KeepsListed(t)'
    BY <1>3, <1>7 DEF KeepsListed
  <2>2. QED
    BY <1>4, <1>7, <2>1, SameListed DEF ListStays
<1>11. TheList'
  <2>1. \A n, q : WalksAt(t, n, q)'
    BY <1>7 DEF WalksAt, Scanning
  <2>2. QED
    BY <1>4, <1>7, <1>s, <2>1, TheListKept
<1>12. Linked'
  BY <1>4, <1>7, LinkedKept
<1>13. ListInv'
  BY <1>6, <1>8, <1>9, <1>10, <1>11, <1>12 DEF ListInv
<1>14. QED
  BY <1>13, <1>3, <1>5, <1>7, <1>s DEF Scanning

\* fopen begins: malloc gives a FILE that nobody refers to.
LEMMA FopenStep ==
  ASSUME ListInv, NEW t \in Threads, Fopen(t)
  PROVE  ListInv' /\ ListStays /\ Plain(t) /\ ~Scanning(t) /\ ~Scanning(t)'
<1>0. PICK s : s = CHOOSE x \in Files \ alive : TRUE
  OBVIOUS
<1>1. Types /\ AtPlace(t) /\ th[t].pc = "idle" /\ th[t].op = "none"
      /\ th[t].file = Null
  BY DEF ListInv, Fopen, Begin, AtPlace, MayBeAt, FlushPlaces
<1>2. s \in Files /\ s \notin alive
  <2>1. \E x \in Files \ alive : TRUE
    BY <1>1 DEF Fopen, Types
  <2>2. QED
    BY <1>0, <2>1
<1>3. /\ Begin(t, "fopen", s, "add")
      /\ alive' = alive \cup {s}
      /\ next' = [next EXCEPT ![s] = Null]
      /\ lock' = [lock EXCEPT ![s] = 0]
      /\ buf' = [buf EXCEPT ![s] = <<>>]
      /\ put' = [put EXCEPT ![s] = 0]
      /\ err' = err \ {s} /\ nofd' = nofd \ {s}
      /\ UNCHANGED <<head, list_lock, usable, exited>>
  BY <1>0 DEF Fopen
<1>4. MovesTo(t, "fopen", "add", s, Null, FALSE) /\ OwesLess
  <2> DEFINE r == [Idle EXCEPT !.op = "fopen", !.pc = "add", !.file = s, !.due = FALSE]
  <2>1. th' = [th EXCEPT ![t] = r]
    BY <1>3 DEF Begin
  <2>2. r \in Local /\ r.op = "fopen" /\ r.pc = "add" /\ r.file = s /\ r.p = Null
        /\ r.due = FALSE /\ r.failed = {}
        /\ \A x \in Files : r.mark[x] = 0
    BY <1>2, IdleType DEF Local, Ops, Places, Idle, NoMark
  <2> HIDE DEF r
  <2>3. /\ MovesTo(t, r.op, r.pc, r.file, r.p, r.due)
        /\ th'[t] = r /\ \A u \in Threads : u # t => th'[u] = th[u]
    BY <1>1, <2>1, <2>2, SetMoves
  <2>4. QED
    BY <2>2, <2>3 DEF OwesLess, OwesNoMore, KeepsMarks
<1>5. OnlyMoves(t) /\ th'[t].op = "fopen" /\ th'[t].pc = "add"
      /\ th'[t].file = s /\ th'[t].p = Null /\ th'[t].due = FALSE
  BY <1>4 DEF MovesTo
<1>6. Types'
  <2>1. calls' \in 0 .. MaxCalls
    BY <1>1, <1>3 DEF Begin, Types
  <2>2. next' \in [Files -> Files \cup {Null}] /\ lock' \in [Files -> {0, 1}]
        /\ buf' \in [Files -> Seq(Nat)] /\ put' \in [Files -> Nat]
    BY <1>1, <1>2, <1>3 DEF Types
  <2>3. QED
    BY <1>1, <1>2, <1>3, <1>5, <2>1, <2>2 DEF OnlyMoves, Types
<1>7. \A u \in Threads : th[u].file # s
  BY <1>1, <1>2 DEF ListInv, AtPlace, MayBeAt, Types, Standard
<1>8. (\A u \in Threads : AtPlace(u)') /\ Exclusive'
  <2>1. AtPlace(t)'
    BY <1>1, <1>2, <1>3, <1>5 DEF AtPlace, MayBeAt, Scanning, FlushPlaces, Types
  <2>2. ASSUME NEW u \in Threads, u # t PROVE AtPlace(u)'
    <3>1. /\ th[u].op \in {"fputc", "fflush"} => th[u].file \in usable'
          /\ th[u].op \in Owning => th[u].file \in alive' \ usable'
      BY <1>3 DEF ListInv, AtPlace, Owning
    <3>2. QED
      BY <1>5, <2>2, <3>1, OthersPlace DEF ListInv
  <2>3. Exclusive'
    BY <1>5, <1>7 DEF ListInv, Exclusive, OnlyMoves, Alike
  <2>4. QED
    BY <2>1, <2>2, <2>3
<1>9. ListLocked'
  BY <1>1, <1>3, <1>5, ListLockKept DEF HoldsList
<1>10. StreamsLocked'
  <2>1. \A x \in Files : ~Holds(t, x) /\ ~Holds(t, x)'
    BY <1>1, <1>5 DEF Holds
  <2>2. \A u \in Threads : ~Holds(u, s)
    BY <1>2, HoldsFacts
  <2>3. \A u \in Threads, x \in Files : Holds(u, x)' <=> Holds(u, x)
    BY <1>5, <2>1, OthersHold
  <2>4. lock'[s] = 0 /\ \A x \in Files : x # s => lock'[x] = lock[x]
    BY <1>1, <1>2, <1>3 DEF Types
  <2>5. QED
    BY <2>2, <2>3, <2>4 DEF ListInv, StreamsLocked
<1>s. ListStays
  <2>1. \A x \in Files : Listed(x)' <=> Listed(x)
    <3>1. ~Listed(s)
      BY <1>2 DEF Listed
    <3>2. ~KeepsListed(t)'
      BY <1>5 DEF KeepsListed
    <3>3. ~Listed(s)'
      BY <1>5, <3>2 DEF Listed
    <3>4. \A u \in Threads : u # t => /\ KeepsListed(u)' <=> KeepsListed(u)
                                      /\ th'[u].file = th[u].file
      BY <1>5 DEF OnlyMoves, Alike, KeepsListed
    <3>5. ASSUME NEW x \in Files, x # s PROVE Listed(x)' <=> Listed(x)
      BY <1>1, <1>3, <1>5, <3>4, <3>5 DEF Listed
    <3>6. QED
      BY <3>1, <3>3, <3>5 DEF Listed
  <2>2. \A x \in Files : Listed(x) => next'[x] = next[x]
    BY <1>1, <1>2, <1>3 DEF Listed, Types
  <2>3. QED
    BY <1>3, <2>1, <2>2 DEF ListStays
<1>11. TheList'
  <2>1. \A n, q : WalksAt(t, n, q)'
    BY <1>5 DEF WalksAt, Scanning
  <2>2. QED
    BY <1>5, <1>s, <2>1, TheListKept
<1>12. Linked'
  <2>1. ASSUME NEW u \in Threads, u # t, th[u].pc = "add_head"
        PROVE  next'[th[u].file] = next[th[u].file]
    <3>1. th[u].file \in Files
      BY <1>1, <2>1 DEF ListInv, AtPlace, MayBeAt, FlushPlaces, Types
    <3>2. QED
      BY <1>1, <1>3, <1>7, <3>1 DEF Types
  <2>2. QED
    BY <1>3, <1>5, <2>1 DEF ListInv, Linked, OnlyMoves, Alike
<1>13. ListInv'
  BY <1>6, <1>8, <1>9, <1>10, <1>11, <1>12 DEF ListInv
<1>14. QED
  BY <1>13, <1>1, <1>4, <1>5, <1>s DEF Plain, Scanning

LEMMA MarkType ==
  ASSUME NEW r \in Local, NEW s \in Files
  PROVE  LET o == [r EXCEPT !.mark[s] = 0, !.failed = @ \ {s}] IN
         /\ o \in Local
         /\ \A x \in Files : o.mark[x] = IF x = s THEN 0 ELSE r.mark[x]
         /\ o.failed = r.failed \ {s}
         /\ o.op = r.op /\ o.pc = r.pc /\ o.file = r.file /\ o.p = r.p
         /\ o.due = r.due /\ o.size = r.size /\ o.rest = r.rest
<1>1. r.mark \in [Files -> Nat] /\ r.failed \ {s} \in SUBSET Files
  BY DEF Local
<1> DEFINE m == [r.mark EXCEPT ![s] = 0]
           o == [r EXCEPT !.mark = m, !.failed = r.failed \ {s}]
<1>2. [r EXCEPT !.mark[s] = 0, !.failed = @ \ {s}] = o
  BY DEF Local
<1>3. m \in [Files -> Nat] /\ \A x \in Files : m[x] = IF x = s THEN 0 ELSE r.mark[x]
  BY <1>1
<1> HIDE DEF m
<1>4. /\ o \in Local /\ o.mark = m /\ o.failed = r.failed \ {s}
      /\ o.op = r.op /\ o.pc = r.pc /\ o.file = r.file /\ o.p = r.p
      /\ o.due = r.due /\ o.size = r.size /\ o.rest = r.rest
  BY <1>1, <1>3 DEF Local
<1> HIDE DEF o
<1>5. QED
  BY <1>2, <1>3, <1>4

LEMMA ForgetMoves ==
  ASSUME Types, NEW t \in Threads, NEW s \in Files,
         NEW op \in Ops, NEW place \in Places, Forget(t, op, s, place)
  PROVE  /\ MovesTo(t, op, place, s, Null, FALSE) /\ OwesLess
         /\ \A u \in Threads : th'[u].mark[s] = 0 /\ s \notin th'[u].failed
<1> DEFINE r == [Idle EXCEPT !.op = op, !.pc = place, !.file = s]
           o(u) == [th[u] EXCEPT !.mark[s] = 0, !.failed = @ \ {s}]
<1>1. th' = [u \in Threads |-> IF u = t THEN r ELSE o(u)]
  BY DEF Forget
<1>2. r \in Local /\ r.op = op /\ r.pc = place /\ r.file = s /\ r.p = Null
      /\ r.due = FALSE /\ r.failed = {}
      /\ \A x \in Files : r.mark[x] = 0
  BY IdleType DEF Local, Idle, NoMark
<1>3. ASSUME NEW u \in Threads
      PROVE  /\ o(u) \in Local /\ o(u).op = th[u].op /\ o(u).pc = th[u].pc
             /\ o(u).file = th[u].file /\ o(u).p = th[u].p
             /\ o(u).due = th[u].due /\ o(u).size = th[u].size
             /\ o(u).rest = th[u].rest /\ o(u).failed = th[u].failed \ {s}
             /\ \A x \in Files : o(u).mark[x] = IF x = s THEN 0 ELSE th[u].mark[x]
  <2>1. th[u] \in Local
    BY DEF Types
  <2>2. QED
    BY <2>1, MarkType
<1> HIDE DEF r, o
<1>4. th' \in [Threads -> Local] /\ th'[t] = r
      /\ \A u \in Threads : u # t => th'[u] = o(u)
  BY <1>1, <1>2, <1>3
<1>5. MovesTo(t, op, place, s, Null, FALSE)
  BY <1>2, <1>3, <1>4 DEF MovesTo, OnlyMoves, Alike
<1>6. ASSUME NEW u \in Threads
      PROVE  /\ th'[u].failed \subseteq th[u].failed /\ s \notin th'[u].failed
             /\ th'[u].mark[s] = 0
             /\ \A x \in Files :
                  \/ th'[u].mark[x] = 0
                  \/ /\ th'[u].mark[x] = th[u].mark[x]
                     /\ x \in th[u].failed => x \in th'[u].failed
  <2>1. CASE u = t
    BY <1>2, <1>4, <2>1
  <2>2. CASE u # t
    BY <1>3, <1>4, <2>2
  <2>3. QED
    BY <2>1, <2>2
<1>7. QED
  BY <1>5, <1>6 DEF OwesLess, OwesNoMore

\* fclose and freopen begin: the program gives up a stream nobody uses.
LEMMA ForgetStep ==
  ASSUME ListInv, NEW t \in Threads, Fclose(t) \/ Freopen(t)
  PROVE  /\ ListInv' /\ ListStays /\ Plain(t) /\ ~Scanning(t) /\ ~Scanning(t)'
         /\ \A s \in usable \ usable' : \A u \in Threads :
              th'[u].mark[s] = 0 /\ s \notin th'[u].failed
<1>1. PICK s \in usable \ Standard, op \in {"fclose", "freopen"},
           place \in {"remove", "lock"} :
        Forget(t, op, s, place) /\ MayBeAt(op, place)
        /\ (op = "fclose" => place = "remove")
  BY DEF Fclose, Freopen, MayBeAt
<1>2. Types /\ AtPlace(t) /\ th[t].pc = "idle" /\ th[t].op = "none"
      /\ th[t].file = Null /\ s \in Files /\ s \in alive /\ s \notin Standard
  BY <1>1 DEF ListInv, Forget, AtPlace, MayBeAt, FlushPlaces, Types
<1>3. /\ usable' = usable \ {s} /\ calls < MaxCalls /\ calls' = calls + 1
      /\ \A u \in Threads : th[u].file # s
      /\ UNCHANGED <<listvars, list_lock, lock, alive, bytevars, filevars, exited>>
  BY <1>1 DEF Forget, Using
<1>4. OnlyMoves(t) /\ th'[t].op = op /\ th'[t].pc = place /\ th'[t].file = s
      /\ th'[t].p = Null /\ th'[t].due = FALSE /\ OwesLess
      /\ \A u \in Threads : th'[u].mark[s] = 0 /\ s \notin th'[u].failed
  <2>1. op \in Ops /\ place \in Places
    BY DEF Ops, Places
  <2>2. Forget(t, op, s, place)
    BY <1>1
  <2>3. /\ MovesTo(t, op, place, s, Null, FALSE) /\ OwesLess
        /\ \A u \in Threads : th'[u].mark[s] = 0 /\ s \notin th'[u].failed
    BY <1>2, <2>1, <2>2, ForgetMoves
  <2>4. QED
    BY <2>3 DEF MovesTo
<1>5. Types'
  BY <1>2, <1>3, <1>4 DEF Types, OnlyMoves
<1>6. (\A u \in Threads : AtPlace(u)') /\ Exclusive'
  <2>1. AtPlace(t)'
    BY <1>1, <1>2, <1>3, <1>4 DEF AtPlace, Scanning, FlushPlaces
  <2>2. ASSUME NEW u \in Threads, u # t PROVE AtPlace(u)'
    <3>1. /\ th[u].op \in {"fputc", "fflush"} => th[u].file \in usable'
          /\ th[u].op \in Owning => th[u].file \in alive' \ usable'
      BY <1>3 DEF ListInv, AtPlace, Owning
    <3>2. QED
      BY <1>4, <2>2, <3>1, OthersPlace DEF ListInv
  <2>3. Exclusive'
    BY <1>3, <1>4 DEF ListInv, Exclusive, OnlyMoves, Alike
  <2>4. QED
    BY <2>1, <2>2, <2>3
<1>7. ListLocked'
  BY <1>1, <1>2, <1>3, <1>4, ListLockKept DEF HoldsList
<1>8. StreamsLocked'
  <2>1. \A x \in Files : ~Holds(t, x) /\ ~Holds(t, x)'
    BY <1>1, <1>2, <1>4 DEF Holds
  <2>2. QED
    BY <1>3, <1>4, <2>1, StreamLocksKept
<1>s. ListStays
  <2>1. KeepsListed(t) /\ KeepsListed(t)'
    BY <1>1, <1>2, <1>4 DEF KeepsListed
  <2>2. QED
    BY <1>3, <1>4, <2>1, SameListed DEF ListStays
<1>9. TheList'
  <2>1. \A n, q : WalksAt(t, n, q)'
    BY <1>1, <1>4 DEF WalksAt, Scanning
  <2>2. QED
    BY <1>3, <1>4, <1>s, <2>1, TheListKept
<1>10. Linked'
  BY <1>1, <1>3, <1>4, LinkedKept
<1>11. ListInv'
  BY <1>5, <1>6, <1>7, <1>8, <1>9, <1>10 DEF ListInv
<1>12. QED
  BY <1>11, <1>1, <1>2, <1>3, <1>4, <1>s DEF Plain, Scanning

\* fflush(NULL) and exit begin.
LEMMA FlushAllStep ==
  ASSUME ListInv, NEW t \in Threads, NEW op \in {"flush_all", "exit"},
         FlushAll(t, op)
  PROVE  /\ ListInv' /\ ListStays /\ OnlyMoves(t)
         /\ th[t].pc = "idle" /\ th'[t].pc = "all" /\ Scanning(t)'
         /\ \A x \in Files : th'[t].mark[x] = IF x \in usable THEN put[x] ELSE 0
         /\ th'[t].due = FALSE /\ th'[t].failed = {}
         /\ \A u \in Threads : u # t => th'[u] = th[u]
<1>1. Types /\ AtPlace(t) /\ th[t].pc = "idle" /\ th[t].op = "none"
      /\ th[t].file = Null
  BY DEF ListInv, FlushAll, AtPlace, MayBeAt, FlushPlaces
<1>2. /\ calls < MaxCalls /\ calls' = calls + 1
      /\ UNCHANGED <<listvars, list_lock, lock, memvars, bytevars, filevars, exited>>
  BY DEF FlushAll
<1>3. /\ OnlyMoves(t) /\ th'[t].op = op /\ th'[t].pc = "all"
      /\ th'[t].file = Null /\ th'[t].p = Null
      /\ th'[t].due = FALSE /\ th'[t].failed = {}
      /\ \A x \in Files : th'[t].mark[x] = IF x \in usable THEN put[x] ELSE 0
      /\ \A u \in Threads : u # t => th'[u] = th[u]
  <2> DEFINE m == [s \in Files |-> IF s \in usable THEN put[s] ELSE 0]
             r == [Idle EXCEPT !.op = op, !.pc = "all", !.mark = m]
  <2>1. th' = [th EXCEPT ![t] = r]
    BY DEF FlushAll
  <2>2. m \in [Files -> Nat]
        /\ \A x \in Files : m[x] = IF x \in usable THEN put[x] ELSE 0
    BY <1>1 DEF Types
  <2> HIDE DEF m
  <2>3. r \in Local /\ r.op = op /\ r.pc = "all" /\ r.file = Null /\ r.p = Null
        /\ r.due = FALSE /\ r.failed = {}
        /\ \A x \in Files : r.mark[x] = IF x \in usable THEN put[x] ELSE 0
    BY <2>2, IdleType DEF Local, Ops, Places, Idle
  <2> HIDE DEF r
  <2>4. /\ MovesTo(t, r.op, r.pc, r.file, r.p, r.due)
        /\ th'[t] = r /\ \A u \in Threads : u # t => th'[u] = th[u]
    BY <1>1, <2>1, <2>3, SetMoves
  <2>5. QED
    BY <2>3, <2>4 DEF MovesTo
<1>4. Types'
  BY <1>1, <1>2, <1>3 DEF Types, OnlyMoves
<1>5. (\A u \in Threads : AtPlace(u)') /\ Exclusive'
  <2>1. AtPlace(t)'
    BY <1>3 DEF AtPlace, Scanning, MayBeAt, FlushPlaces
  <2>2. QED
    BY <1>2, <1>3, <2>1, PlacesKept DEF Owning
<1>6. ListLocked'
  BY <1>1, <1>2, <1>3, ListLockKept DEF HoldsList
<1>7. StreamsLocked'
  <2>1. \A x \in Files : ~Holds(t, x) /\ ~Holds(t, x)'
    BY <1>1, <1>3 DEF Holds
  <2>2. QED
    BY <1>2, <1>3, <2>1, StreamLocksKept
<1>s. ListStays
  <2>1. KeepsListed(t) /\ KeepsListed(t)'
    BY <1>1, <1>3 DEF KeepsListed
  <2>2. QED
    BY <1>2, <1>3, <2>1, SameListed DEF ListStays
<1>8. TheList'
  <2>1. \A n, q : WalksAt(t, n, q)'
    BY <1>3 DEF WalksAt, Scanning
  <2>2. QED
    BY <1>2, <1>3, <1>s, <2>1, TheListKept
<1>9. Linked'
  BY <1>2, <1>3, LinkedKept
<1>10. ListInv'
  BY <1>4, <1>5, <1>6, <1>7, <1>8, <1>9 DEF ListInv
<1>11. QED
  BY <1>10, <1>1, <1>3, <1>s DEF Scanning

\* A thread gets the list's lock: to add its stream, to remove it, or to
\* flush all of them.
LEMMA ListLockStep ==
  ASSUME ListInv, NEW t \in Threads, AddLock(t) \/ RemoveLock(t) \/ AllLock(t)
  PROVE  /\ ListInv' /\ ListStays /\ Plain(t) /\ th'[t].op = th[t].op
         /\ Scanning(t) => th'[t].pc = "each" /\ th'[t].p = head
<1>1. Types /\ AtPlace(t)
  BY DEF ListInv
<1>2. PICK to \in {"add_next", "walk", "each"}, p \in {Null, head} :
        /\ th[t].pc = (CASE to = "add_next" -> "add" [] to = "walk" -> "remove"
                         [] OTHER -> "all")
        /\ p = (IF to = "add_next" THEN Null ELSE head)
        /\ list_lock = 0 /\ list_lock' = 1
        /\ th' = [th EXCEPT ![t].pc = to, ![t].p = p]
        /\ UNCHANGED <<listvars, lock, memvars, bytevars, filevars, exited, calls>>
  BY DEF AddLock, RemoveLock, AllLock, LockList, ListFree
<1>3. OnlyMoves(t) /\ th'[t].op = th[t].op /\ th'[t].pc = to
      /\ th'[t].file = th[t].file /\ th'[t].p = p /\ th'[t].due = th[t].due
      /\ OwesLess
  <2>1. p \in Files \cup {Null} /\ to \in Places
    BY <1>1 DEF Types, Places
  <2>2. th' = [th EXCEPT ![t].pc = to, ![t].p = p]
    BY <1>2
  <2>3. /\ MovesTo(t, th[t].op, to, th[t].file, p, th[t].due)
        /\ KeepsMarks
    BY <1>1, <2>1, <2>2, StepMoves
  <2>4. QED
    BY <2>3 DEF MovesTo, OwesLess, OwesNoMore, KeepsMarks
<1>4. th[t].op \in (CASE to = "add_next" -> {"fopen"}
                      [] to = "walk" -> {"fclose", "freopen"}
                      [] OTHER -> {"flush_all", "exit"})
  BY <1>1, <1>2 DEF AtPlace, MayBeAt, FlushPlaces
<1>5. Types'
  BY <1>1, <1>2, <1>3 DEF Types, OnlyMoves
<1>6. (\A u \in Threads : AtPlace(u)') /\ Exclusive'
  <2>1. AtPlace(t)'
    BY <1>1, <1>2, <1>3, <1>4 DEF AtPlace, MayBeAt, FlushPlaces, Scanning
  <2>2. QED
    BY <1>2, <1>3, <2>1, PlacesKept DEF Owning
<1>7. ListLocked'
  <2>1. HoldsList(t)'
    BY <1>3, <1>4 DEF HoldsList
  <2>2. QED
    BY <1>2, <1>3, <2>1, ListLockTaken
<1>8. StreamsLocked'
  <2>1. \A x \in Files : ~Holds(t, x) /\ ~Holds(t, x)'
    BY <1>2, <1>3 DEF Holds
  <2>2. QED
    BY <1>2, <1>3, <2>1, StreamLocksKept
<1>s. ListStays
  <2>1. KeepsListed(t)' <=> KeepsListed(t)
    BY <1>2, <1>3, <1>4 DEF KeepsListed
  <2>2. QED
    BY <1>2, <1>3, <2>1, SameListed DEF ListStays
<1>9. TheList'
  <2>1. ASSUME NEW n \in Nat, NEW q \in [1 .. n -> Files], IsList(n, q)
        PROVE  WalksAt(t, n, q)'
    <3>1. n # 0 => 1 \in 1 .. n /\ head = q[1]
      BY <2>1 DEF IsList
    <3>2. n = 0 => head = Null
      BY <2>1 DEF IsList
    <3>3. CASE to = "walk"
      <4>1. th[t].file \in Files /\ Listed(th[t].file)
        BY <1>1, <1>2, <1>4, <3>3
        DEF ListInv, Types, AtPlace, Exclusive, Listed, KeepsListed
      <4>2. PICK j \in 1 .. n : q[j] = th[t].file
        BY <2>1, <4>1 DEF IsList
      <4>3. 1 \in 1 .. n /\ p = q[1] /\ (j = 1 \/ 1 < j)
        BY <1>2, <3>1, <3>3, <4>2
      <4>4. QED
        BY <1>3, <1>4, <3>3, <4>2, <4>3 DEF WalksAt, Scanning
    <3>4. CASE to # "walk"
      BY <1>2, <1>3, <1>4, <3>1, <3>2, <3>4 DEF WalksAt, Scanning
    <3>5. QED
      BY <3>3, <3>4
  <2>2. QED
    BY <1>2, <1>3, <1>s, <2>1, TheListKept
<1>10. Linked'
  BY <1>2, <1>3, LinkedKept
<1>11. ListInv'
  BY <1>5, <1>6, <1>7, <1>8, <1>9, <1>10 DEF ListInv
<1>12. QED
  BY <1>11, <1>2, <1>3, <1>4, <1>s DEF Plain, Scanning

LEMMA AddNextStep ==
  ASSUME ListInv, NEW t \in Threads, AddNext(t)
  PROVE  ListInv' /\ ListStays /\ Plain(t) /\ ~Scanning(t) /\ ~Scanning(t)'
<1>1. Types /\ AtPlace(t) /\ th[t].pc = "add_next" /\ th[t].op = "fopen"
      /\ th[t].file \in Files
  BY DEF ListInv, AddNext, AtPlace, MayBeAt, FlushPlaces, Types
<1>2. /\ next' = [next EXCEPT ![th[t].file] = head]
      /\ UNCHANGED <<head, list_lock, lock, memvars, bytevars, filevars, exited, calls>>
  BY DEF AddNext
<1>3. OnlyMoves(t) /\ th'[t].op = "fopen" /\ th'[t].pc = "add_head"
      /\ th'[t].file = th[t].file /\ th'[t].p = th[t].p /\ th'[t].due = th[t].due
      /\ OwesLess
  BY <1>1, GotoMoves DEF AddNext, MovesTo, OwesLess, OwesNoMore, KeepsMarks, Places
<1>4. Types'
  BY <1>1, <1>2, <1>3 DEF Types, OnlyMoves
<1>5. (\A u \in Threads : AtPlace(u)') /\ Exclusive'
  <2>1. AtPlace(t)'
    BY <1>1, <1>2, <1>3 DEF AtPlace, MayBeAt, FlushPlaces, Scanning
  <2>2. QED
    BY <1>1, <1>2, <1>3, <2>1, PlacesKept DEF Owning
<1>6. ListLocked'
  BY <1>1, <1>2, <1>3, ListLockKept DEF HoldsList
<1>7. StreamsLocked'
  <2>1. \A x \in Files : ~Holds(t, x) /\ ~Holds(t, x)'
    BY <1>1, <1>3 DEF Holds
  <2>2. QED
    BY <1>2, <1>3, <2>1, StreamLocksKept
<1>s. ListStays
  <2>1. ~KeepsListed(t) /\ ~KeepsListed(t)'
    BY <1>1, <1>3 DEF KeepsListed
  <2>2. \A x \in Files : Listed(x)' <=> Listed(x)
    BY <1>2, <1>3, <2>1, SameListed
  <2>3. \A x \in Files : Listed(x) => next'[x] = next[x]
    BY <1>1, <1>2, <2>1 DEF Listed, Types
  <2>4. QED
    BY <1>2, <2>2, <2>3 DEF ListStays
<1>8. TheList'
  <2>1. \A n, q : WalksAt(t, n, q)'
    BY <1>3 DEF WalksAt, Scanning
  <2>2. QED
    BY <1>3, <1>s, <2>1, TheListKept
<1>9. Linked'
  <2>1. HoldsList(t)
    BY <1>1 DEF HoldsList
  <2>2. (next[th[t].file] = head)'
    BY <1>1, <1>2, <1>3 DEF Types
  <2>3. QED
    BY <1>3, <2>1, <2>2, LinkedByOwner
<1>10. ListInv'
  BY <1>4, <1>5, <1>6, <1>7, <1>8, <1>9 DEF ListInv
<1>11. QED
  BY <1>10, <1>1, <1>3, <1>s DEF Plain, Scanning

\* Who holds the list's lock rebuilds the list.
LEMMA TheListRebuilt ==
  ASSUME ListInv, NEW t \in Threads, OnlyMoves(t), HoldsList(t),
         NEW n \in Nat, NEW q \in [1 .. n -> Files], IsList(n, q)',
         th'[t].pc # "walk", ~Scanning(t)'
  PROVE  TheList'
<1>1. WalksAt(t, n, q)'
  BY DEF WalksAt, Scanning
<1>2. \A u \in Threads : WalksAt(u, n, q)'
  BY <1>1, OnlyOwnerWalks
<1>3. QED
  BY <1>2 DEF TheList

LEMMA AddHeadStep ==
  ASSUME ListInv, NEW t \in Threads, AddHead(t)
  PROVE  ListInv' /\ HoldsList(t) /\ Plain(t) /\ ~Scanning(t) /\ ~Scanning(t)'
<1> DEFINE f == th[t].file
<1>1. Types /\ AtPlace(t) /\ th[t].pc = "add_head" /\ th[t].op = "fopen"
      /\ f \in Files /\ f \in alive /\ next[f] = head
  BY DEF ListInv, AddHead, AtPlace, MayBeAt, FlushPlaces, Types, Linked
<1>2. /\ head' = f /\ list_lock' = 0 /\ usable' = usable \cup {f}
      /\ UNCHANGED <<next, lock, alive, bytevars, filevars, exited, calls>>
  BY DEF AddHead
<1>3. OnlyMoves(t) /\ th'[t].op = "none" /\ th'[t].pc = "idle"
      /\ th'[t].file = Null /\ th'[t].p = Null /\ th'[t].due = FALSE
      /\ OwesLess
  BY <1>1, ReturnMoves DEF AddHead, MovesTo
<1>4. HoldsList(t) /\ ~HoldsList(t)'
  BY <1>1, <1>3 DEF HoldsList
<1>5. Types'
  BY <1>1, <1>2, <1>3 DEF Types, OnlyMoves
<1>6. (\A u \in Threads : AtPlace(u)') /\ Exclusive'
  <2>1. AtPlace(t)'
    BY <1>3 DEF AtPlace, MayBeAt, Scanning, FlushPlaces
  <2>2. ASSUME NEW u \in Threads, u # t PROVE AtPlace(u)'
    <3>1. /\ th[u].op \in {"fputc", "fflush"} => th[u].file \in usable'
          /\ th[u].op \in Owning => th[u].file \in alive' \ usable'
      BY <1>1, <1>2, <2>2 DEF ListInv, AtPlace, Owning, Exclusive
    <3>2. QED
      BY <1>3, <2>2, <3>1, OthersPlace DEF ListInv
  <2>3. Exclusive'
    BY <1>3, ExclusiveKept DEF Owning
  <2>4. QED
    BY <2>1, <2>2, <2>3
<1>7. ListLocked'
  BY <1>2, <1>3, <1>4, ListLockGiven
<1>8. StreamsLocked'
  <2>1. \A x \in Files : ~Holds(t, x) /\ ~Holds(t, x)'
    BY <1>1, <1>3 DEF Holds
  <2>2. QED
    BY <1>2, <1>3, <2>1, StreamLocksKept
<1>9. TheList'
  <2>1. PICK n \in Nat : \E q \in [1 .. n -> Files] :
          IsList(n, q) /\ \A u \in Threads : WalksAt(u, n, q)
    BY DEF ListInv, TheList
  <2>2. PICK q \in [1 .. n -> Files] : IsList(n, q)
    BY <2>1
  <2>3. PICK g : g = f
    OBVIOUS
  <2>4. ~Listed(g) /\ \A x \in Files : Listed(x)' <=> Listed(x) \/ x = g
    <3>1. ~KeepsListed(t) /\ KeepsListed(t)'
      BY <1>1, <1>3 DEF KeepsListed
    <3>2. \A u \in Threads : u # t => /\ KeepsListed(u)' <=> KeepsListed(u)
                                      /\ th'[u].file = th[u].file /\ th[u].file # g
      BY <1>1, <1>3, <2>3 DEF OnlyMoves, Alike, KeepsListed, ListInv, Exclusive
    <3>3. Null \notin Files
      OBVIOUS
    <3>4. QED
      BY <1>1, <1>2, <1>3, <2>3, <3>1, <3>2, <3>3 DEF Listed
  <2>5. PICK r : r = [i \in 1 .. n + 1 |-> IF i = 1 THEN g ELSE q[i - 1]]
    OBVIOUS
  <2>6. r \in [1 .. n + 1 -> Files] /\ r[1] = g /\ n + 1 \in Nat
        /\ \A i \in 2 .. n + 1 : i - 1 \in 1 .. n /\ r[i] = q[i - 1]
    BY <1>1, <2>3, <2>5
  <2>7. \A i \in 1 .. n : q[i] \in Files /\ Listed(q[i]) /\ q[i] # g
    BY <2>2, <2>4 DEF IsList
  <2>8. IsList(n + 1, r)'
    <3>1. \A i, j \in 1 .. n + 1 : r[i] = r[j] => i = j
      <4>1. ASSUME NEW i \in 1 .. n + 1, NEW j \in 1 .. n + 1, r[i] = r[j]
            PROVE  i = j
        <5>1. CASE i = 1 /\ j = 1
          BY <5>1
        <5>2. CASE i = 1 /\ j # 1
          <6>1. j \in 2 .. n + 1
            BY <5>2
          <6>2. QED
            BY <6>1, <2>6, <2>7, <4>1, <5>2
        <5>3. CASE i # 1 /\ j = 1
          <6>1. i \in 2 .. n + 1
            BY <5>3
          <6>2. QED
            BY <6>1, <2>6, <2>7, <4>1, <5>3
        <5>4. CASE i # 1 /\ j # 1
          <6>1. i \in 2 .. n + 1 /\ j \in 2 .. n + 1
            BY <5>4
          <6>2. q[i - 1] = q[j - 1] /\ i - 1 \in 1 .. n /\ j - 1 \in 1 .. n
            BY <6>1, <2>6, <4>1
          <6>3. i - 1 = j - 1
            BY <6>2, <2>2 DEF IsList
          <6>4. QED
            BY <6>3
        <5>5. QED
          BY <5>1, <5>2, <5>3, <5>4
      <4>2. QED
        BY <4>1
    <3>2. head' = r[1]
      BY <1>2, <2>3, <2>6
    <3>3. ASSUME NEW i \in 1 .. n + 1
          PROVE  next'[r[i]] = IF i = n + 1 THEN Null ELSE r[i + 1]
      <4>1. CASE i = 1
        <5>1. next'[r[i]] = head
          BY <1>1, <1>2, <2>3, <2>6, <4>1
        <5>2. CASE n = 0
          BY <5>1, <5>2, <4>1, <2>2 DEF IsList
        <5>3. CASE n # 0
          <6>1. 2 \in 2 .. n + 1 /\ r[2] = q[1] /\ head = q[1]
            BY <5>3, <2>2, <2>6 DEF IsList
          <6>2. QED
            BY <5>1, <5>3, <6>1, <4>1
        <5>4. QED
          BY <5>2, <5>3
      <4>2. CASE i # 1
        <5>1. i \in 2 .. n + 1 /\ i - 1 \in 1 .. n /\ r[i] = q[i - 1]
          BY <2>6, <4>2
        <5>2. next'[r[i]] = IF i - 1 = n THEN Null ELSE q[(i - 1) + 1]
          BY <1>2, <5>1, <2>2 DEF IsList
        <5>3. (i - 1) + 1 = i /\ (i - 1 = n <=> i = n + 1)
          BY <5>1
        <5>4. i # n + 1 => i + 1 \in 2 .. n + 1 /\ r[i + 1] = q[i]
          <6>1. ASSUME i # n + 1 PROVE i + 1 \in 2 .. n + 1 /\ (i + 1) - 1 = i
            BY <6>1
          <6>2. QED
            BY <6>1, <2>6
        <5>5. QED
          BY <5>2, <5>3, <5>4
      <4>3. QED
        BY <4>1, <4>2
    <3>4. \A x \in Files : Listed(x)' <=> \E i \in 1 .. n + 1 : r[i] = x
      <4>1. ASSUME NEW x \in Files, Listed(x)'
            PROVE  \E i \in 1 .. n + 1 : r[i] = x
        <5>1. CASE x = g
          <6>1. 1 \in 1 .. n + 1 /\ r[1] = x
            BY <2>6, <5>1
          <6>2. QED
            BY <6>1
        <5>2. CASE x # g
          <6>1. Listed(x)
            BY <2>4, <4>1, <5>2
          <6>2. PICK i \in 1 .. n : q[i] = x
            BY <2>2, <6>1 DEF IsList
          <6>3. i + 1 \in 2 .. n + 1 /\ (i + 1) - 1 = i /\ i + 1 \in 1 .. n + 1
            OBVIOUS
          <6>4. r[i + 1] = x
            BY <6>2, <6>3, <2>6
          <6>5. QED
            BY <6>3, <6>4
        <5>3. QED
          BY <5>1, <5>2
      <4>2. ASSUME NEW x \in Files, NEW i \in 1 .. n + 1, r[i] = x
            PROVE  Listed(x)'
        <5>1. CASE i = 1
          BY <2>4, <2>6, <4>2, <5>1
        <5>2. CASE i # 1
          <6>1. i \in 2 .. n + 1
            BY <5>2
          <6>2. i - 1 \in 1 .. n /\ q[i - 1] = x
            BY <6>1, <2>6, <4>2
          <6>3. QED
            BY <6>2, <2>4, <2>7
        <5>3. QED
          BY <5>1, <5>2
      <4>3. QED
        BY <4>1, <4>2
    <3>5. n + 1 # 0
      OBVIOUS
    <3>6. QED
      BY <3>1, <3>2, <3>3, <3>4, <3>5 DEF IsList
  <2>9. QED
    BY <1>3, <1>4, <2>6, <2>8, TheListRebuilt DEF Scanning
<1>10. Linked'
  BY <1>3, <1>4, LinkedByOwner
<1>11. ListInv'
  BY <1>5, <1>6, <1>7, <1>8, <1>9, <1>10 DEF ListInv
<1>12. QED
  BY <1>11, <1>1, <1>3, <1>4 DEF Plain, Scanning

LEMMA RemoveWalkStep ==
  ASSUME ListInv, NEW t \in Threads, RemoveWalk(t)
  PROVE  ListInv' /\ ListStays /\ Plain(t) /\ ~Scanning(t) /\ ~Scanning(t)'
<1>1. Types /\ AtPlace(t) /\ th[t].pc = "walk" /\ th[t].op \in {"fclose", "freopen"}
      /\ th[t].file \in Files /\ th[t].p \in Files
  <2>1. th[t].pc = "walk" /\ th[t].p # Null
    BY DEF RemoveWalk
  <2>2. QED
    BY <2>1, Fields DEF ListInv, AtPlace, MayBeAt, FlushPlaces, Types
<1>2. /\ th' = [th EXCEPT ![t].p = next[th[t].p]]
      /\ head # th[t].file /\ next[th[t].p] # th[t].file
      /\ UNCHANGED <<listvars, list_lock, lock, memvars, bytevars, filevars, exited, calls>>
  BY DEF RemoveWalk
<1>3. OnlyMoves(t) /\ th'[t].op = th[t].op /\ th'[t].pc = "walk"
      /\ th'[t].file = th[t].file /\ th'[t].p = next[th[t].p]
      /\ th'[t].due = th[t].due /\ OwesLess
  <2>1. next[th[t].p] \in Files \cup {Null}
    BY <1>1 DEF Types
  <2>2. th' = [th EXCEPT ![t].pc = "walk", ![t].p = next[th[t].p]]
    <3>1. th \in [Threads -> Local] /\ th[t] \in Local
      BY <1>1 DEF Types
    <3>2. [th[t] EXCEPT !.p = next[th[t].p]]
            = [th[t] EXCEPT !.pc = "walk", !.p = next[th[t].p]]
      BY <1>1, <3>1 DEF Local
    <3>3. QED
      BY <1>2, <3>2
  <2>3. /\ MovesTo(t, th[t].op, "walk", th[t].file, next[th[t].p], th[t].due)
        /\ KeepsMarks
    BY <1>1, <2>1, <2>2, StepMoves DEF Places
  <2>4. QED
    BY <2>3 DEF MovesTo, OwesLess, OwesNoMore, KeepsMarks
<1>4. Types'
  BY <1>1, <1>2, <1>3 DEF Types, OnlyMoves
<1>5. (\A u \in Threads : AtPlace(u)') /\ Exclusive'
  <2>1. AtPlace(t)'
    BY <1>1, <1>2, <1>3 DEF AtPlace, MayBeAt, FlushPlaces, Scanning
  <2>2. QED
    BY <1>1, <1>2, <1>3, <2>1, PlacesKept DEF Owning
<1>6. ListLocked'
  BY <1>1, <1>2, <1>3, ListLockKept DEF HoldsList
<1>7. StreamsLocked'
  <2>1. \A x \in Files : ~Holds(t, x) /\ ~Holds(t, x)'
    BY <1>1, <1>3 DEF Holds
  <2>2. QED
    BY <1>2, <1>3, <2>1, StreamLocksKept
<1>s. ListStays
  <2>1. KeepsListed(t)' <=> KeepsListed(t)
    BY <1>1, <1>3 DEF KeepsListed
  <2>2. QED
    BY <1>2, <1>3, <2>1, SameListed DEF ListStays
<1>8. TheList'
  <2>1. ASSUME NEW n \in Nat, NEW q \in [1 .. n -> Files], IsList(n, q),
               WalksAt(t, n, q)
        PROVE  WalksAt(t, n, q)'
    <3>1. PICK i \in 1 .. n, j \in 1 .. n :
            th[t].p = q[i] /\ th[t].file = q[j] /\ (j = 1 \/ i < j)
      BY <1>1, <2>1 DEF WalksAt
    <3>2. i < j
      BY <1>2, <2>1, <3>1 DEF IsList
    <3>3. next[th[t].p] = q[i + 1] /\ i + 1 \in 1 .. n
      BY <2>1, <3>1, <3>2 DEF IsList
    <3>4. i + 1 < j
      BY <1>2, <3>1, <3>2, <3>3
    <3>5. QED
      BY <1>1, <1>3, <3>1, <3>3, <3>4 DEF WalksAt, Scanning
  <2>2. QED
    BY <1>2, <1>3, <1>s, <2>1, TheListKept
<1>9. Linked'
  BY <1>2, <1>3, LinkedKept
<1>10. ListInv'
  BY <1>4, <1>5, <1>6, <1>7, <1>8, <1>9 DEF ListInv
<1>11. QED
  BY <1>10, <1>1, <1>3, <1>s DEF Plain, Scanning

LEMMA RemoveUnlinkStep ==
  ASSUME ListInv, NEW t \in Threads, RemoveUnlink(t)
  PROVE  ListInv' /\ HoldsList(t) /\ Plain(t) /\ ~Scanning(t) /\ ~Scanning(t)'
<1>1. Types /\ AtPlace(t) /\ th[t].pc = "walk" /\ th[t].op \in {"fclose", "freopen"}
      /\ th[t].file \in Files /\ th[t].file \in alive
  <2>1. th[t].pc = "walk"
    BY DEF RemoveUnlink
  <2>2. QED
    BY <2>1 DEF ListInv, AtPlace, MayBeAt, FlushPlaces, Types
<1>2. PICK f : f = th[t].file
  OBVIOUS
<1>3. /\ list_lock' = 0
      /\ th' = [th EXCEPT ![t].pc = "lock", ![t].p = Null, ![t].op = "fclose"]
      /\ UNCHANGED <<lock, memvars, bytevars, filevars, exited, calls>>
  BY DEF RemoveUnlink
<1>4. OnlyMoves(t) /\ th'[t].op = "fclose" /\ th'[t].pc = "lock"
      /\ th'[t].file = th[t].file /\ th'[t].p = Null /\ th'[t].due = th[t].due
      /\ OwesLess
  <2>1. /\ MovesTo(t, "fclose", "lock", th[t].file, Null, th[t].due)
        /\ KeepsMarks
    BY <1>1, <1>3, WalkMoves DEF Places, Ops
  <2>2. QED
    BY <2>1 DEF MovesTo, OwesLess, OwesNoMore, KeepsMarks
<1>5. HoldsList(t) /\ ~HoldsList(t)'
  BY <1>1, <1>4 DEF HoldsList
<1>6. Types'
  <2>1. head' \in Files \cup {Null} /\ next' \in [Files -> Files \cup {Null}]
    BY <1>1 DEF RemoveUnlink, Types
  <2>2. QED
    BY <1>1, <1>3, <1>4, <2>1 DEF Types, OnlyMoves
<1>7. (\A u \in Threads : AtPlace(u)') /\ Exclusive'
  <2>1. AtPlace(t)'
    BY <1>1, <1>3, <1>4 DEF AtPlace, MayBeAt, FlushPlaces, Scanning
  <2>2. QED
    BY <1>1, <1>3, <1>4, <2>1, PlacesKept DEF Owning
<1>8. ListLocked'
  BY <1>3, <1>4, <1>5, ListLockGiven
<1>9. StreamsLocked'
  <2>1. \A x \in Files : ~Holds(t, x) /\ ~Holds(t, x)'
    BY <1>1, <1>4 DEF Holds
  <2>2. QED
    BY <1>3, <1>4, <2>1, StreamLocksKept
<1>10. TheList'
  <2>1. PICK n \in Nat : \E q \in [1 .. n -> Files] :
          IsList(n, q) /\ \A u \in Threads : WalksAt(u, n, q)
    BY DEF ListInv, TheList
  <2>2. PICK q \in [1 .. n -> Files] : IsList(n, q) /\ WalksAt(t, n, q)
    BY <2>1
  <2>3. PICK i \in 1 .. n, j \in 1 .. n :
          th[t].p = q[i] /\ f = q[j] /\ (j = 1 \/ i < j)
    BY <1>1, <1>2, <2>2 DEF WalksAt
  <2>4. \A k, m \in 1 .. n : q[k] = q[m] => k = m
    BY <2>2 DEF IsList
  <2>5. \A k \in 1 .. n : next[q[k]] = IF k = n THEN Null ELSE q[k + 1]
    BY <2>2 DEF IsList
  <2>6. \/ j = 1 /\ head' = next[f] /\ next' = next
        \/ /\ j # 1 /\ head' = head
           /\ next' = [next EXCEPT ![q[j - 1]] = next[f]]
    <3>1. head = q[1] /\ 1 \in 1 .. n
      BY <2>2, <2>3 DEF IsList
    <3>2. CASE head = f
      BY <1>2, <2>3, <2>4, <3>1, <3>2 DEF RemoveUnlink
    <3>3. CASE head # f
      <4>1. th[t].p # Null /\ j # 1 /\ i < j
        BY <2>3, <3>1, <3>3
      <4>2. /\ next[th[t].p] = f /\ head' = head
            /\ next' = [next EXCEPT ![th[t].p] = next[f]]
        BY <1>2, <3>3, <4>1 DEF RemoveUnlink
      <4>3. q[i + 1] = q[j] /\ i + 1 \in 1 .. n
        BY <2>3, <2>5, <4>1, <4>2
      <4>4. j = i + 1 /\ j - 1 = i
        BY <2>4, <4>3
      <4>5. QED
        BY <2>3, <4>1, <4>2, <4>4
    <3>4. QED
      BY <3>2, <3>3
  <2>7. PICK r : r = [k \in 1 .. n - 1 |-> IF k < j THEN q[k] ELSE q[k + 1]]
    OBVIOUS
  <2>8. r \in [1 .. n - 1 -> Files] /\ n - 1 \in Nat
        /\ \A k \in 1 .. n - 1 : /\ k \in 1 .. n /\ k + 1 \in 1 .. n
                                 /\ k < j => r[k] = q[k]
                                 /\ k >= j => r[k] = q[k + 1]
    BY <2>3, <2>7
  <2>9. \A x \in Files : Listed(x)' <=> Listed(x) /\ x # f
    <3>1. KeepsListed(t) /\ ~KeepsListed(t)'
      BY <1>1, <1>4 DEF KeepsListed
    <3>2. \A u \in Threads : u # t => /\ KeepsListed(u)' <=> KeepsListed(u)
                                      /\ th'[u].file = th[u].file
      BY <1>4 DEF OnlyMoves, Alike, KeepsListed
    <3>3. QED
      BY <1>2, <1>3, <1>4, <3>1, <3>2 DEF Listed
  <2>10. IsList(n - 1, r)'
    <3>1. \A k, m \in 1 .. n - 1 : r[k] = r[m] => k = m
      BY <2>3, <2>4, <2>8
    <3>2. head' = IF n - 1 = 0 THEN Null ELSE r[1]
      <4>1. head = q[1]
        BY <2>2, <2>3 DEF IsList
      <4>2. CASE j = 1
        BY <2>3, <2>5, <2>6, <2>8, <4>2
      <4>3. CASE j # 1
        <5>1. 1 \in 1 .. n - 1 /\ 1 < j /\ n - 1 # 0
          BY <2>3, <4>3
        <5>2. r[1] = q[1]
          BY <2>8, <5>1
        <5>3. QED
          BY <2>6, <4>1, <4>3, <5>1, <5>2
      <4>4. QED
        BY <4>2, <4>3
    <3>3. ASSUME NEW k \in 1 .. n - 1
          PROVE  next'[r[k]] = IF k = n - 1 THEN Null ELSE r[k + 1]
      <4>1. next \in [Files -> Files \cup {Null}] /\ \A m \in 1 .. n : q[m] \in Files
        BY <1>1 DEF Types
      <4>2. CASE k >= j
        <5>1. r[k] = q[k + 1] /\ k + 1 \in 1 .. n
          BY <2>8, <4>2
        <5>2. j # 1 => q[k + 1] # q[j - 1]
          BY <2>3, <2>4, <4>2, <5>1
        <5>3. next'[r[k]] = next[q[k + 1]]
          BY <2>3, <2>6, <4>1, <5>1, <5>2
        <5>4. QED
          BY <2>3, <2>5, <2>8, <4>2, <5>1, <5>3
      <4>3. CASE k < j - 1
        <5>1. r[k] = q[k] /\ k + 1 \in 1 .. n - 1 /\ k + 1 < j /\ k # n /\ k \in 1 .. n
              /\ k # n - 1
          BY <2>3, <2>8, <4>3
        <5>2. q[k] # q[j - 1]
          BY <2>3, <2>4, <4>3, <5>1
        <5>3. next'[r[k]] = next[q[k]]
          BY <2>3, <2>6, <4>1, <4>3, <5>1, <5>2
        <5>4. QED
          BY <2>5, <2>8, <5>1, <5>3
      <4>4. CASE k = j - 1
        <5>1. r[k] = q[k] /\ j # 1
          BY <2>3, <2>8, <4>4
        <5>2. next'[r[k]] = next[f]
          BY <2>3, <2>6, <4>1, <4>4, <5>1
        <5>3. next[f] = IF j = n THEN Null ELSE q[j + 1]
          BY <2>3, <2>5
        <5>4. j # n => k + 1 \in 1 .. n - 1 /\ r[k + 1] = q[j + 1]
          BY <2>3, <2>8, <4>4
        <5>5. QED
          BY <2>3, <4>4, <5>2, <5>3, <5>4
      <4>5. QED
        BY <2>3, <4>2, <4>3, <4>4
    <3>4. \A x \in Files : Listed(x)' <=> \E k \in 1 .. n - 1 : r[k] = x
      <4>1. ASSUME NEW x \in Files, Listed(x)'
            PROVE  \E k \in 1 .. n - 1 : r[k] = x
        <5>1. Listed(x) /\ x # f
          BY <2>9, <4>1
        <5>2. PICK m \in 1 .. n : q[m] = x
          BY <2>2, <5>1 DEF IsList
        <5>3. m # j
          BY <2>3, <5>1, <5>2
        <5>4. CASE m < j
          <6>1. m \in 1 .. n - 1
            BY <2>3, <5>4
          <6>2. QED
            BY <2>8, <5>2, <5>4, <6>1
        <5>5. CASE m > j
          <6>1. m - 1 \in 1 .. n - 1 /\ m - 1 >= j /\ (m - 1) + 1 = m
            BY <2>3, <5>5
          <6>2. r[m - 1] = x
            BY <2>8, <5>2, <6>1
          <6>3. QED
            BY <6>1, <6>2
        <5>6. QED
          BY <2>3, <5>2, <5>3, <5>4, <5>5
      <4>2. ASSUME NEW x \in Files, NEW k \in 1 .. n - 1, r[k] = x
            PROVE  Listed(x)'
        <5>1. PICK m \in 1 .. n : x = q[m] /\ m # j
          BY <2>3, <2>8, <4>2
        <5>2. x # f
          BY <2>3, <2>4, <5>1
        <5>3. Listed(x)
          BY <2>2, <5>1 DEF IsList
        <5>4. QED
          BY <2>9, <5>2, <5>3
      <4>3. QED
        BY <4>1, <4>2
    <3>5. QED
      BY <3>1, <3>2, <3>3, <3>4 DEF IsList
  <2>11. QED
    BY <1>4, <1>5, <2>8, <2>10, TheListRebuilt DEF Scanning
<1>11. Linked'
  BY <1>4, <1>5, LinkedByOwner
<1>12. ListInv'
  BY <1>6, <1>7, <1>8, <1>9, <1>10, <1>11 DEF ListInv
<1>13. QED
  BY <1>12, <1>1, <1>4, <1>5 DEF Plain, Scanning

\* A thread gets the lock of its stream.
LEMMA LockStep ==
  ASSUME ListInv, NEW t \in Threads, Lock(t)
  PROVE  ListInv' /\ ListStays /\ Plain(t) /\ ~Scanning(t) /\ ~Scanning(t)'
<1>1. Types /\ AtPlace(t) /\ th[t].pc = "lock" /\ th[t].file \in Files
      /\ th[t].op \in {"fputc", "fflush", "getchar", "fclose", "freopen"}
  <2>1. th[t].pc = "lock"
    BY DEF Lock
  <2>2. Types /\ AtPlace(t)
    BY DEF ListInv
  <2>3. th[t].op \in {"fputc", "fflush", "getchar", "fclose", "freopen"}
    BY <2>1, <2>2 DEF AtPlace, MayBeAt, FlushPlaces
  <2>4. QED
    BY <2>1, <2>2, <2>3 DEF AtPlace, Types, Standard
<1>2. PICK f : f = th[t].file
  OBVIOUS
<1>3. /\ lock[f] = 0 /\ lock' = [lock EXCEPT ![f] = 1]
      /\ UNCHANGED <<listvars, list_lock, memvars, bytevars, filevars, exited, calls>>
  BY <1>2 DEF Lock, StreamFree
<1>4. PICK place \in {"put", "fill", "flush"} :
        /\ Goto(t, place)
        /\ place = (CASE th[t].op = "fputc" -> "put"
                      [] th[t].op = "getchar" -> "fill"
                      [] OTHER -> "flush")
  BY DEF Lock
<1>5. OnlyMoves(t) /\ th'[t].op = th[t].op /\ th'[t].pc = place
      /\ th'[t].file = f /\ th'[t].p = th[t].p /\ th'[t].due = th[t].due
      /\ OwesLess
  BY <1>1, <1>2, <1>4, GotoMoves DEF MovesTo, OwesLess, OwesNoMore, KeepsMarks, Places
<1>6. Types'
  BY <1>1, <1>3, <1>5 DEF Types, OnlyMoves
<1>7. (\A u \in Threads : AtPlace(u)') /\ Exclusive'
  <2>1. MayBeAt(th[t].op, place)
    BY <1>1, <1>4 DEF MayBeAt, FlushPlaces
  <2>2. AtPlace(t)'
    BY <1>1, <1>2, <1>3, <1>4, <1>5, <2>1 DEF AtPlace, Scanning
  <2>3. QED
    BY <1>2, <1>3, <1>5, <2>2, PlacesKept DEF Owning
<1>8. ListLocked'
  BY <1>1, <1>3, <1>4, <1>5, ListLockKept DEF HoldsList
<1>9. StreamsLocked'
  <2>1. \A x \in Files : ~Holds(t, x)
    BY <1>1 DEF Holds
  <2>2. \A x \in Files : Holds(t, x)' <=> x = f
    BY <1>1, <1>4, <1>5 DEF Holds
  <2>3. QED
    BY <1>1, <1>2, <1>3, <1>5, <2>1, <2>2, StreamLockTaken
<1>s. ListStays
  <2>1. KeepsListed(t)' <=> KeepsListed(t)
    BY <1>1, <1>4, <1>5 DEF KeepsListed
  <2>2. QED
    BY <1>2, <1>3, <1>5, <2>1, SameListed DEF ListStays
<1>10. TheList'
  <2>1. \A n, q : WalksAt(t, n, q)'
    BY <1>1, <1>4, <1>5 DEF WalksAt, Scanning
  <2>2. QED
    BY <1>3, <1>5, <1>s, <2>1, TheListKept
<1>11. Linked'
  BY <1>3, <1>4, <1>5, LinkedKept
<1>12. ListInv'
  BY <1>6, <1>7, <1>8, <1>9, <1>10, <1>11 DEF ListInv
<1>13. QED
  BY <1>12, <1>1, <1>2, <1>4, <1>5, <1>s DEF Plain, Scanning

\* It gives it back, and returns, frees the FILE or goes on to close it.
LEMMA UnlockStep ==
  ASSUME ListInv, NEW t \in Threads, Unlock(t)
  PROVE  /\ ListInv' /\ ListStays /\ Plain(t) /\ ~Scanning(t) /\ ~Scanning(t)'
         /\ usable \subseteq usable' /\ th[t].file \in Files
         /\ th'[t].due = FALSE /\ th'[t].file \in {Null, th[t].file}
         /\ th[t].pc = "unlock" /\ th'[t].pc \in {"idle", "free", "remove"}
         /\ nofd' \subseteq nofd \cup {th[t].file} /\ nofd \subseteq nofd'
         /\ \/ UNCHANGED <<bytevars, err>>
            \/ /\ th[t].op = "freopen"
               /\ buf' = [buf EXCEPT ![th[t].file] = <<>>]
               /\ sent' = [sent EXCEPT ![th[t].file] = <<>>]
               /\ put' = [put EXCEPT ![th[t].file] = 0]
               /\ err' = err \ {th[t].file}
<1>1. Types /\ AtPlace(t) /\ th[t].pc = "unlock" /\ th[t].file \in Files
      /\ th[t].op \in {"fputc", "fflush", "getchar", "fclose", "freopen"}
  <2>1. th[t].pc = "unlock" /\ th[t].op \notin {"flush_all", "exit"}
    BY DEF Unlock
  <2>2. Types /\ AtPlace(t)
    BY DEF ListInv
  <2>3. th[t].op \in {"fputc", "fflush", "getchar", "fclose", "freopen"}
    BY <2>1, <2>2 DEF AtPlace, MayBeAt, FlushPlaces
  <2>4. QED
    BY <2>1, <2>2, <2>3 DEF AtPlace, Types, Standard
<1>2. PICK f : f = th[t].file
  OBVIOUS
<1>3. /\ lock' = [lock EXCEPT ![f] = 0]
      /\ UNCHANGED <<listvars, list_lock, alive, exited, calls>>
  BY <1>2 DEF Unlock, Reopened, CloseReopened
<1>u. \/ /\ th[t].op \in {"fputc", "fflush", "getchar"} /\ Return(t)
         /\ UNCHANGED <<usable, bytevars, err, nofd>>
      \/ /\ th[t].op = "fclose" /\ Goto(t, "free")
         /\ UNCHANGED <<usable, bytevars, err, nofd>>
      \/ /\ th[t].op = "freopen" /\ Return(t) /\ usable' = usable \cup {f}
         /\ buf' = [buf EXCEPT ![f] = <<>>] /\ sent' = [sent EXCEPT ![f] = <<>>]
         /\ put' = [put EXCEPT ![f] = 0] /\ err' = err \ {f} /\ nofd' = nofd
      \/ /\ th[t].op = "freopen" /\ Goto(t, "remove")
         /\ UNCHANGED <<usable, bytevars, err>> /\ nofd' = nofd \cup {f}
  BY <1>2 DEF Unlock, Reopened, CloseReopened
<1>4. PICK op \in {"none", "fclose", "freopen"}, place \in {"idle", "free", "remove"},
           file \in {Null, f} :
        /\ MovesTo(t, op, place, file, IF op = "none" THEN Null ELSE th[t].p, FALSE)
        /\ OwesLess
        /\ \/ op = "none" /\ place = "idle" /\ file = Null
              /\ th[t].op \in {"fputc", "fflush", "getchar"} /\ usable' = usable
           \/ op = "none" /\ place = "idle" /\ file = Null
              /\ th[t].op = "freopen" /\ usable' = usable \cup {f}
           \/ op = "fclose" /\ place = "free" /\ file = f
              /\ th[t].op = op /\ usable' = usable
           \/ op = "freopen" /\ place = "remove" /\ file = f
              /\ th[t].op = op /\ usable' = usable
  <2>0. th[t].op \in {"fclose", "freopen"} => th[t].due = FALSE
    BY <1>1, Fields DEF AtPlace
  <2>1. CASE Return(t)
    <3>1. MovesTo(t, "none", "idle", Null, Null, FALSE) /\ OwesLess
      BY <1>1, <2>1, ReturnMoves
    <3>2. th'[t].pc = "idle"
      BY <3>1 DEF MovesTo
    <3>3. ~Goto(t, "free") /\ ~Goto(t, "remove")
      <4>1. \A place \in {"free", "remove"} : Goto(t, place) => th'[t].pc = place
        BY <1>1, GotoMoves DEF MovesTo, Places
      <4>2. QED
        BY <3>2, <4>1
    <3>4. \/ th[t].op \in {"fputc", "fflush", "getchar"} /\ usable' = usable
          \/ th[t].op = "freopen" /\ usable' = usable \cup {f}
      BY <1>u, <3>3
    <3>5. QED
      BY <3>1, <3>4
  <2>2. CASE Goto(t, "free") /\ th[t].op = "fclose" /\ usable' = usable
    BY <1>1, <1>2, <2>0, <2>2, GotoMoves DEF OwesLess, OwesNoMore, KeepsMarks, Places
  <2>3. CASE Goto(t, "remove") /\ th[t].op = "freopen" /\ usable' = usable
    BY <1>1, <1>2, <2>0, <2>3, GotoMoves DEF OwesLess, OwesNoMore, KeepsMarks, Places
  <2>4. QED
    BY <1>u, <2>1, <2>2, <2>3
<1>5. OnlyMoves(t) /\ th'[t].op = op /\ th'[t].pc = place /\ th'[t].file = file
      /\ th'[t].p \in {Null, th[t].p} /\ th'[t].due = FALSE
  BY <1>4 DEF MovesTo
<1>b. /\ nofd' \subseteq nofd \cup {f} /\ nofd \subseteq nofd'
      /\ \/ UNCHANGED <<bytevars, err>>
         \/ /\ th[t].op = "freopen"
            /\ buf' = [buf EXCEPT ![f] = <<>>] /\ sent' = [sent EXCEPT ![f] = <<>>]
            /\ put' = [put EXCEPT ![f] = 0] /\ err' = err \ {f}
  BY <1>u
<1>6. Types'
  <2>1. th[t].op = "freopen" => f \in alive
    BY <1>1, <1>2 DEF AtPlace
  <2>2. Standard \subseteq usable' /\ usable' \subseteq alive
    BY <1>1, <1>4, <2>1 DEF Types
  <2>3. /\ buf' \in [Files -> Seq(Nat)] /\ put' \in [Files -> Nat]
        /\ err' \subseteq Files /\ nofd' \subseteq Files
    <3>1. /\ buf \in [Files -> Seq(Nat)] /\ put \in [Files -> Nat]
          /\ err \subseteq Files /\ nofd \subseteq Files /\ f \in Files
          /\ <<>> \in Seq(Nat) /\ 0 \in Nat
      BY <1>1, <1>2 DEF Types
    <3>2. CASE UNCHANGED <<bytevars, err>>
      BY <1>b, <3>1, <3>2
    <3>3. CASE buf' = [buf EXCEPT ![f] = <<>>] /\ put' = [put EXCEPT ![f] = 0]
               /\ err' = err \ {f}
      BY <1>b, <3>1, <3>3
    <3>4. QED
      BY <1>b, <3>2, <3>3
  <2>4. QED
    BY <1>1, <1>3, <1>5, <2>2, <2>3 DEF Types, OnlyMoves
<1>7. (\A u \in Threads : AtPlace(u)') /\ Exclusive'
  <2>1. AtPlace(t)'
    <3>1. op = "none" => th'[t].p = Null
      BY <1>4 DEF MovesTo
    <3>2. QED
      BY <1>1, <1>2, <1>3, <1>4, <1>5, <3>1
      DEF AtPlace, MayBeAt, FlushPlaces, Scanning
  <2>2. ASSUME NEW u \in Threads, u # t PROVE AtPlace(u)'
    <3>1. /\ th[u].op \in {"fputc", "fflush"} => th[u].file \in usable'
          /\ th[u].op \in Owning => th[u].file \in alive' \ usable'
      BY <1>2, <1>3, <1>4, <2>2 DEF ListInv, AtPlace, Owning, Exclusive
    <3>2. QED
      BY <1>5, <2>2, <3>1, OthersPlace DEF ListInv
  <2>3. Exclusive'
    BY <1>2, <1>4, <1>5, ExclusiveKept DEF Owning
  <2>4. QED
    BY <2>1, <2>2, <2>3
<1>8. ListLocked'
  BY <1>1, <1>3, <1>4, <1>5, ListLockKept DEF HoldsList
<1>9. StreamsLocked'
  <2>1. Holds(t, f)
    BY <1>1, <1>2 DEF Holds
  <2>2. \A x \in Files : ~Holds(t, x)'
    BY <1>4, <1>5 DEF Holds
  <2>3. QED
    BY <1>1, <1>2, <1>3, <1>5, <2>1, <2>2, StreamLockGiven
<1>s. ListStays
  <2>1. \/ KeepsListed(t) /\ KeepsListed(t)'
        \/ th'[t].file = th[t].file /\ (KeepsListed(t)' <=> KeepsListed(t))
    BY <1>1, <1>2, <1>4, <1>5 DEF KeepsListed
  <2>2. QED
    BY <1>3, <1>5, <2>1, SameListed DEF ListStays
<1>10. TheList'
  <2>1. \A n, q : WalksAt(t, n, q)'
    BY <1>4, <1>5 DEF WalksAt, Scanning
  <2>2. QED
    BY <1>3, <1>5, <1>s, <2>1, TheListKept
<1>11. Linked'
  BY <1>3, <1>4, <1>5, LinkedKept
<1>12. ListInv'
  BY <1>6, <1>7, <1>8, <1>9, <1>10, <1>11 DEF ListInv
<1>13. QED
  BY <1>12, <1>1, <1>2, <1>4, <1>5, <1>b, <1>s DEF Plain, Scanning

LEMMA FreeStep ==
  ASSUME ListInv, NEW t \in Threads, Free(t)
  PROVE  ListInv' /\ ListStays /\ Plain(t) /\ ~Scanning(t) /\ ~Scanning(t)'
<1>1. Types /\ AtPlace(t) /\ th[t].pc = "free" /\ th[t].op = "fclose"
      /\ th[t].file \in Files /\ th[t].file \in alive \ usable
  <2>1. th[t].pc = "free"
    BY DEF Free
  <2>2. QED
    BY <2>1 DEF ListInv, AtPlace, MayBeAt, FlushPlaces, Types
<1>2. PICK f : f = th[t].file
  OBVIOUS
<1>3. /\ alive' = alive \ {f}
      /\ UNCHANGED <<listvars, list_lock, lock, usable, bytevars, filevars, exited, calls>>
  BY <1>2 DEF Free
<1>4. OnlyMoves(t) /\ th'[t].op = "none" /\ th'[t].pc = "idle"
      /\ th'[t].file = Null /\ th'[t].p = Null /\ th'[t].due = FALSE
      /\ OwesLess
  BY <1>1, ReturnMoves DEF Free, MovesTo
<1>5. Types'
  BY <1>1, <1>2, <1>3, <1>4 DEF Types, OnlyMoves
<1>6. (\A u \in Threads : AtPlace(u)') /\ Exclusive'
  <2>1. AtPlace(t)'
    BY <1>4 DEF AtPlace, MayBeAt, FlushPlaces, Scanning
  <2>2. ASSUME NEW u \in Threads, u # t PROVE AtPlace(u)'
    <3>1. /\ th[u].op \in {"fputc", "fflush"} => th[u].file \in usable'
          /\ th[u].op \in Owning => th[u].file \in alive' \ usable'
      BY <1>1, <1>2, <1>3, <2>2 DEF ListInv, AtPlace, Owning, Exclusive
    <3>2. QED
      BY <1>4, <2>2, <3>1, OthersPlace DEF ListInv
  <2>3. Exclusive'
    BY <1>4, ExclusiveKept DEF Owning
  <2>4. QED
    BY <2>1, <2>2, <2>3
<1>7. ListLocked'
  BY <1>1, <1>3, <1>4, ListLockKept DEF HoldsList
<1>8. StreamsLocked'
  <2>1. \A x \in Files : ~Holds(t, x) /\ ~Holds(t, x)'
    BY <1>1, <1>4 DEF Holds
  <2>2. QED
    BY <1>3, <1>4, <2>1, StreamLocksKept
<1>s. ListStays
  <2>1. \A x \in Files : Listed(x)' <=> Listed(x)
    <3>1. ~Listed(f) /\ f \notin alive'
      BY <1>1, <1>2, <1>3 DEF Listed, KeepsListed
    <3>2. \A u \in Threads : u # t => /\ KeepsListed(u)' <=> KeepsListed(u)
                                      /\ th'[u].file = th[u].file
      BY <1>4 DEF OnlyMoves, Alike, KeepsListed
    <3>3. ASSUME NEW x \in Files PROVE Listed(x)' <=> Listed(x)
      BY <1>2, <1>3, <1>4, <3>1, <3>2 DEF Listed
    <3>4. QED
      BY <3>3
  <2>2. QED
    BY <1>3, <2>1 DEF ListStays
<1>9. TheList'
  <2>1. \A n, q : WalksAt(t, n, q)'
    BY <1>4 DEF WalksAt, Scanning
  <2>2. QED
    BY <1>4, <1>s, <2>1, TheListKept
<1>10. Linked'
  BY <1>3, <1>4, LinkedKept
<1>11. ListInv'
  BY <1>5, <1>6, <1>7, <1>8, <1>9, <1>10 DEF ListInv
<1>12. QED
  BY <1>11, <1>1, <1>4, <1>s DEF Plain, Scanning

\* Where a thread of flush_all is, and what it has.
LEMMA EachFacts ==
  ASSUME ListInv, NEW t \in Threads, th[t].pc = "each"
  PROVE  /\ Types /\ AtPlace(t) /\ HoldsList(t) /\ Scanning(t)
         /\ th[t].op \in {"flush_all", "exit"} /\ th[t].file = Null
         /\ th[t].p \in Files \cup {Null}
BY Fields DEF ListInv, AtPlace, MayBeAt, FlushPlaces, Scanning, HoldsList

LEMMA AllFileStep ==
  ASSUME ListInv, NEW t \in Threads, AllFile(t)
  PROVE  /\ ListInv' /\ ListStays /\ Plain(t) /\ Scanning(t)
         /\ th[t].pc = "each" /\ th'[t].pc = "flush" /\ th'[t].p = th[t].p
<1>1. th[t].pc = "each" /\ th[t].p # Null
  BY DEF AllFile
<1>2. Types /\ AtPlace(t) /\ Scanning(t) /\ th[t].op \in {"flush_all", "exit"}
      /\ th[t].p \in Files
  BY <1>1, EachFacts
<1>3. PICK p : p = th[t].p
  OBVIOUS
<1>4. /\ lock[p] = 0 /\ lock' = [lock EXCEPT ![p] = 1]
      /\ UNCHANGED <<listvars, list_lock, memvars, bytevars, filevars, exited, calls>>
  BY <1>3 DEF AllFile, StreamFree
<1>5. OnlyMoves(t) /\ th'[t].op = th[t].op /\ th'[t].pc = "flush"
      /\ th'[t].file = th[t].file /\ th'[t].p = p /\ th'[t].due = th[t].due
      /\ OwesLess
  BY <1>2, <1>3, GotoMoves DEF AllFile, MovesTo, OwesLess, OwesNoMore, KeepsMarks, Places
<1>6. Types'
  BY <1>2, <1>4, <1>5 DEF Types, OnlyMoves
<1>7. (\A u \in Threads : AtPlace(u)') /\ Exclusive'
  <2>1. AtPlace(t)'
    BY <1>1, <1>2, <1>3, <1>4, <1>5 DEF AtPlace, MayBeAt, FlushPlaces, Scanning
  <2>2. QED
    BY <1>2, <1>4, <1>5, <2>1, PlacesKept DEF Owning
<1>8. ListLocked'
  BY <1>1, <1>2, <1>4, <1>5, ListLockKept DEF HoldsList
<1>9. StreamsLocked'
  <2>1. \A x \in Files : ~Holds(t, x)
    BY <1>1 DEF Holds
  <2>2. \A x \in Files : Holds(t, x)' <=> x = p
    BY <1>2, <1>5 DEF Holds
  <2>3. QED
    BY <1>2, <1>3, <1>4, <1>5, <2>1, <2>2, StreamLockTaken
<1>s. ListStays
  <2>1. KeepsListed(t)' <=> KeepsListed(t)
    BY <1>2, <1>5 DEF KeepsListed
  <2>2. QED
    BY <1>4, <1>5, <2>1, SameListed DEF ListStays
<1>10. TheList'
  <2>1. \A n \in Nat : \A q \in [1 .. n -> Files] :
          WalksAt(t, n, q) => WalksAt(t, n, q)'
    BY <1>1, <1>2, <1>3, <1>5 DEF WalksAt, Scanning
  <2>2. QED
    BY <1>4, <1>5, <1>s, <2>1, TheListKept
<1>11. Linked'
  BY <1>4, <1>5, LinkedKept
<1>12. ListInv'
  BY <1>6, <1>7, <1>8, <1>9, <1>10, <1>11 DEF ListInv
<1>13. QED
  BY <1>12, <1>1, <1>2, <1>3, <1>5, <1>s DEF Plain

LEMMA AllUnlockStep ==
  ASSUME ListInv, NEW t \in Threads, AllUnlock(t)
  PROVE  /\ ListInv' /\ ListStays /\ Plain(t) /\ Scanning(t) /\ th[t].p \in Files
         /\ th[t].pc = "unlock" /\ th'[t].pc = "each" /\ th'[t].p = next[th[t].p]
<1>1. th[t].pc = "unlock" /\ Scanning(t)
  BY DEF AllUnlock, Scanning
<1>2. Types /\ AtPlace(t) /\ th[t].op \in {"flush_all", "exit"} /\ th[t].p \in Files
  BY <1>1, Fields DEF ListInv, AtPlace, FlushPlaces, Scanning
<1>3. PICK p : p = th[t].p
  OBVIOUS
<1>4. /\ lock' = [lock EXCEPT ![p] = 0]
      /\ UNCHANGED <<listvars, list_lock, memvars, bytevars, filevars, exited, calls>>
  BY <1>3 DEF AllUnlock
<1>5. OnlyMoves(t) /\ th'[t].op = th[t].op /\ th'[t].pc = "each"
      /\ th'[t].file = th[t].file /\ th'[t].p = next[p] /\ th'[t].due = th[t].due
      /\ OwesLess
  <2>1. next[p] \in Files \cup {Null}
    BY <1>2, <1>3 DEF Types
  <2>2. th' = [th EXCEPT ![t].pc = "each", ![t].p = next[p]]
    BY <1>3 DEF AllUnlock
  <2>3. /\ MovesTo(t, th[t].op, "each", th[t].file, next[p], th[t].due)
        /\ KeepsMarks
    BY <1>2, <2>1, <2>2, StepMoves DEF Places
  <2>4. QED
    BY <2>3 DEF MovesTo, OwesLess, OwesNoMore, KeepsMarks
<1>6. Types'
  BY <1>2, <1>4, <1>5 DEF Types, OnlyMoves
<1>7. (\A u \in Threads : AtPlace(u)') /\ Exclusive'
  <2>1. AtPlace(t)'
    BY <1>2, <1>4, <1>5 DEF AtPlace, MayBeAt, FlushPlaces, Scanning
  <2>2. QED
    BY <1>2, <1>4, <1>5, <2>1, PlacesKept DEF Owning
<1>8. ListLocked'
  BY <1>1, <1>2, <1>4, <1>5, ListLockKept DEF HoldsList
<1>9. StreamsLocked'
  <2>1. Holds(t, p)
    BY <1>1, <1>2, <1>3 DEF Holds
  <2>2. \A x \in Files : ~Holds(t, x)'
    BY <1>5 DEF Holds
  <2>3. QED
    BY <1>2, <1>3, <1>4, <1>5, <2>1, <2>2, StreamLockGiven
<1>s. ListStays
  <2>1. KeepsListed(t)' <=> KeepsListed(t)
    BY <1>2, <1>5 DEF KeepsListed
  <2>2. QED
    BY <1>4, <1>5, <2>1, SameListed DEF ListStays
<1>10. TheList'
  <2>1. ASSUME NEW n \in Nat, NEW q \in [1 .. n -> Files], IsList(n, q),
               WalksAt(t, n, q)
        PROVE  WalksAt(t, n, q)'
    <3>1. PICK i \in 1 .. n : p = q[i]
      BY <1>1, <1>2, <1>3, <2>1 DEF WalksAt
    <3>2. next[p] = IF i = n THEN Null ELSE q[i + 1]
      BY <2>1, <3>1 DEF IsList
    <3>3. i # n => i + 1 \in 1 .. n
      BY <3>1
    <3>4. QED
      BY <1>5, <3>2, <3>3 DEF WalksAt
  <2>2. QED
    BY <1>4, <1>5, <1>s, <2>1, TheListKept
<1>11. Linked'
  BY <1>4, <1>5, LinkedKept
<1>12. ListInv'
  BY <1>6, <1>7, <1>8, <1>9, <1>10, <1>11 DEF ListInv
<1>13. QED
  BY <1>12, <1>1, <1>2, <1>3, <1>5, <1>s DEF Plain

LEMMA AllEndStep ==
  ASSUME ListInv, NEW t \in Threads, AllEnd(t)
  PROVE  /\ ListInv' /\ ListStays /\ Plain(t)
         /\ ~Scanning(t)' /\ th'[t].mark = NoMark
<1>1. th[t].pc = "each"
  BY DEF AllEnd
<1>2. Types /\ HoldsList(t) /\ th[t].op \in {"flush_all", "exit"}
  BY <1>1, EachFacts
<1>3. /\ list_lock' = 0 /\ exited' \in BOOLEAN
      /\ UNCHANGED <<listvars, lock, memvars, bytevars, filevars, calls>>
  BY DEF AllEnd
<1>4. OnlyMoves(t) /\ th'[t].op = "none" /\ th'[t].pc = "idle"
      /\ th'[t].file = Null /\ th'[t].p = Null /\ th'[t].due = FALSE
      /\ th'[t].mark = NoMark /\ OwesLess
  BY <1>2, ReturnMoves DEF AllEnd, MovesTo
<1>5. Types'
  BY <1>2, <1>3, <1>4 DEF Types, OnlyMoves
<1>6. (\A u \in Threads : AtPlace(u)') /\ Exclusive'
  <2>1. AtPlace(t)'
    BY <1>4 DEF AtPlace, MayBeAt, FlushPlaces, Scanning
  <2>2. QED
    BY <1>3, <1>4, <2>1, PlacesKept DEF Owning
<1>7. ListLocked'
  <2>1. ~HoldsList(t)'
    BY <1>4 DEF HoldsList
  <2>2. QED
    BY <1>2, <1>3, <1>4, <2>1, ListLockGiven
<1>8. StreamsLocked'
  <2>1. \A x \in Files : ~Holds(t, x) /\ ~Holds(t, x)'
    BY <1>1, <1>4 DEF Holds
  <2>2. QED
    BY <1>3, <1>4, <2>1, StreamLocksKept
<1>s. ListStays
  <2>1. KeepsListed(t) /\ KeepsListed(t)'
    BY <1>2, <1>4 DEF KeepsListed
  <2>2. QED
    BY <1>3, <1>4, <2>1, SameListed DEF ListStays
<1>9. TheList'
  <2>1. \A n, q : WalksAt(t, n, q)'
    BY <1>4 DEF WalksAt, Scanning
  <2>2. QED
    BY <1>3, <1>4, <1>s, <2>1, TheListKept
<1>10. Linked'
  BY <1>3, <1>4, LinkedKept
<1>11. ListInv'
  BY <1>5, <1>6, <1>7, <1>8, <1>9, <1>10 DEF ListInv
<1>12. QED
  BY <1>11, <1>1, <1>4, <1>s DEF Plain, Scanning

LEMMA ListInvUnchanged == ListInv /\ UNCHANGED vars => ListInv'
<1> SUFFICES ASSUME ListInv, UNCHANGED vars PROVE ListInv'
  OBVIOUS
<1> USE DEF vars
<1>1. Types' /\ (\A t \in Threads : AtPlace(t)') /\ Exclusive' /\ Linked'
  BY DEF ListInv, Types, AtPlace, Exclusive, Linked, Scanning
<1>2. ListLocked' /\ StreamsLocked'
  BY DEF ListInv, ListLocked, StreamsLocked, HoldsList, Holds
<1>3. TheList'
  <2>1. \A n \in Nat : \A q \in [1 .. n -> Files] : IsList(n, q) => IsList(n, q)'
    BY DEF IsList, Listed, KeepsListed
  <2>2. \A n \in Nat : \A q \in [1 .. n -> Files] :
          \A t \in Threads : WalksAt(t, n, q) => WalksAt(t, n, q)'
    BY DEF WalksAt, Scanning
  <2>3. QED
    BY <2>1, <2>2 DEF ListInv, TheList
<1>4. QED
  BY <1>1, <1>2, <1>3 DEF ListInv

LEMMA ListInvStep == ListInv /\ [Next]_vars => ListInv'
<1> SUFFICES ASSUME ListInv, [Next]_vars PROVE ListInv'
  OBVIOUS
<1>1. ASSUME NEW t \in Threads, Call(t) PROVE ListInv'
  BY <1>1, FopenStep, CallStep, ForgetStep, FlushAllStep DEF Call
<1>2. ASSUME NEW t \in Threads, Inside(t) PROVE ListInv'
  <2>1. CASE AddLock(t) \/ RemoveLock(t) \/ AllLock(t)
    BY <2>1, ListLockStep
  <2>2. CASE AddNext(t) \/ AddHead(t) \/ RemoveWalk(t) \/ RemoveUnlink(t)
    BY <2>2, AddNextStep, AddHeadStep, RemoveWalkStep, RemoveUnlinkStep
  <2>3. CASE Lock(t) \/ Put(t) \/ Unlock(t) \/ Free(t)
    BY <2>3, LockStep, PutStep, UnlockStep, FreeStep
  <2>4. CASE FlushSize(t) \/ FlushWrite(t) \/ FlushFail(t) \/ FlushReset(t)
    BY <2>4, FlushSizeStep, FlushWriteStep, FlushFailStep, FlushResetStep
  <2>5. CASE FillStart(t) \/ FillRead(t)
    BY <2>5, FillStep
  <2>6. CASE AllFile(t) \/ AllUnlock(t) \/ AllEnd(t)
    BY <2>6, AllFileStep, AllUnlockStep, AllEndStep
  <2>7. QED
    BY <1>2, <2>1, <2>2, <2>3, <2>4, <2>5, <2>6 DEF Inside
<1>3. QED
  BY <1>1, <1>2, ListInvUnchanged DEF Next, Finished

LEMMA ListInvInit == Init => ListInv
<1> SUFFICES ASSUME Init PROVE ListInv
  OBVIOUS
<1> USE DEF Init
<1>1. \A t \in Threads : th[t] = Idle
  OBVIOUS
<1>2. \A t \in Threads : th[t].op = "none" /\ th[t].pc = "idle" /\ th[t].file = Null
                         /\ th[t].p = Null /\ th[t].due = FALSE
  BY <1>1, IdleType
<1>3. Types
  <2>1. th \in [Threads -> Local]
    BY IdleType
  <2>2. buf \in [Files -> Seq(Nat)] /\ put \in [Files -> Nat]
    OBVIOUS
  <2>3. head \in Files /\ next \in [Files -> Files \cup {Null}]
    OBVIOUS
  <2>4. list_lock \in {0, 1} /\ lock \in [Files -> {0, 1}]
    OBVIOUS
  <2>5. Standard = usable /\ usable = alive /\ alive \subseteq Files
    BY DEF Standard
  <2>6. exited \in BOOLEAN
    OBVIOUS
  <2>7. calls = 0 /\ 0 \in 0 .. MaxCalls
    OBVIOUS
  <2>8. QED
    BY <2>1, <2>2, <2>3, <2>4, <2>5, <2>6, <2>7 DEF Types
<1>4. (\A t \in Threads : AtPlace(t)) /\ Exclusive /\ Linked
  BY <1>2 DEF AtPlace, MayBeAt, FlushPlaces, Scanning, Exclusive, Linked
<1>5. ListLocked /\ StreamsLocked
  BY <1>2 DEF ListLocked, StreamsLocked, HoldsList, Holds
<1>6. TheList
  <2>1. PICK q : q = [i \in 1 .. 2 |-> IF i = 1 THEN stdin ELSE stdout]
    OBVIOUS
  <2>2. q \in [1 .. 2 -> Files] /\ q[1] = stdin /\ q[2] = stdout /\ 2 \in Nat
    BY <2>1
  <2>3. \A s \in Files : Listed(s) <=> s \in Standard
    BY <1>2 DEF Listed, KeepsListed
  <2>4. \A i \in 1 .. 2 : i = 1 \/ i = 2
    OBVIOUS
  <2>5. IsList(2, q)
    BY <2>2, <2>3, <2>4 DEF IsList, Standard
  <2>6. \A t \in Threads : WalksAt(t, 2, q)
    BY <1>2 DEF WalksAt, Scanning
  <2>7. QED
    BY <2>2, <2>5, <2>6 DEF TheList
<1>7. QED
  BY <1>3, <1>4, <1>5, <1>6 DEF ListInv

\* The locks are taken exactly by those who hold them, and the list holds
\* every FILE once that its fopen has added and no fclose has removed
\* (__stdio_add_file, __stdio_remove_file, __stdio_flush_all).
THEOREM ListInvariant == Spec => []ListInv
BY ListInvInit, ListInvStep, PTL DEF Spec

\* No thread refers to a FILE that fclose has freed, flush_all on its way
\* along the list included.
THEOREM NoStreamUsedAfterFree == Spec => []NoUseAfterFree
<1>1. ListInv => NoUseAfterFree
  <2> SUFFICES ASSUME ListInv, NEW t \in Threads
               PROVE  {th[t].file, th[t].p} \subseteq alive \cup {Null}
    BY DEF NoUseAfterFree
  <2>1. AtPlace(t) /\ Types
    BY DEF ListInv
  <2>2. th[t].file \in alive \cup {Null}
    BY <2>1, Fields DEF AtPlace, MayBeAt, FlushPlaces, Types, Standard
  <2>3. PICK n \in Nat : \E q \in [1 .. n -> Files] :
          IsList(n, q) /\ \A u \in Threads : WalksAt(u, n, q)
    BY DEF ListInv, TheList
  <2>4. PICK q \in [1 .. n -> Files] : IsList(n, q) /\ WalksAt(t, n, q)
    BY <2>3
  <2>5. \A i \in 1 .. n : q[i] \in alive
    BY <2>4 DEF IsList, Listed
  <2>6. th[t].p \in alive \cup {Null}
    BY <2>1, <2>4, <2>5 DEF AtPlace, MayBeAt, WalksAt, Scanning, FlushPlaces
  <2>7. QED
    BY <2>2, <2>6
<1>2. QED
  BY <1>1, ListInvariant, PTL

LEMMA ReachedIsList ==
  ASSUME Types, NEW n \in Nat, NEW q \in [1 .. n -> Files], IsList(n, q)
  PROVE  Reached = {q[i] : i \in 1 .. n}
<1> DEFINE Q == {q[i] : i \in 1 .. n}
<1>1. /\ head = IF n = 0 THEN Null ELSE q[1]
      /\ \A i \in 1 .. n : next[q[i]] = IF i = n THEN Null ELSE q[i + 1]
  BY DEF IsList
<1>2. Q \in SUBSET Files
  OBVIOUS
<1>3. head \in Q \cup {Null}
  <2>1. n # 0 => 1 \in 1 .. n
    OBVIOUS
  <2>2. QED
    BY <1>1, <2>1
<1>4. \A x \in Q : next[x] \in Q \cup {Null}
  <2>1. \A i \in 1 .. n : i # n => i + 1 \in 1 .. n
    OBVIOUS
  <2>2. QED
    BY <1>1, <2>1
<1>5. Reached \subseteq Q
  BY <1>2, <1>3, <1>4 DEF Reached
<1>6. ASSUME NEW S \in SUBSET Files, head \in S \cup {Null},
             \A x \in S : next[x] \in S \cup {Null}
      PROVE  \A i \in 1 .. n : q[i] \in S
  <2> DEFINE T == {i \in 1 .. n : q[i] \notin S}
  <2>1. SUFFICES ASSUME T # {} PROVE FALSE
    OBVIOUS
  <2>0. T \subseteq Nat
    OBVIOUS
  <2> HIDE DEF T
  <2>2. PICK i \in T : \A j \in T : i <= j
    BY <2>0, <2>1, LeastNat
  <2> USE DEF T
  <2>3. i \in 1 .. n /\ q[i] \notin S /\ q[i] \in Files
    BY <2>2
  <2>4. CASE i = 1
    BY <1>1, <1>6, <2>3, <2>4
  <2>5. CASE i # 1
    <3>1. i - 1 \in 1 .. n /\ ~(i <= i - 1) /\ (i - 1) + 1 = i /\ i - 1 # n
      BY <2>3, <2>5
    <3>2. q[i - 1] \in S
      BY <2>2, <3>1
    <3>3. next[q[i - 1]] = q[i]
      BY <1>1, <3>1
    <3>4. QED
      BY <1>6, <2>3, <3>2, <3>3
  <2>6. QED
    BY <2>4, <2>5
<1>7. Q \subseteq Reached
  BY <1>2, <1>6 DEF Reached
<1>8. QED
  BY <1>5, <1>7

\* head and next lead to exactly the FILEs that are open: what fopen has
\* added and fclose not removed, however many threads do so at once.
THEOREM ListIsExact == Spec => []ListExact
<1>1. ListInv => ListExact
  <2> SUFFICES ASSUME ListInv PROVE ListExact
    OBVIOUS
  <2>1. PICK n \in Nat : \E q \in [1 .. n -> Files] :
          IsList(n, q) /\ \A u \in Threads : WalksAt(u, n, q)
    BY DEF ListInv, TheList
  <2>2. PICK q \in [1 .. n -> Files] : IsList(n, q)
    BY <2>1
  <2>3. \A s : s \in Reached <=> s \in Files /\ Listed(s)
    <3>1. Reached = {q[i] : i \in 1 .. n}
      BY <2>2, ReachedIsList DEF ListInv
    <3>2. \A s \in Files : Listed(s) <=> \E i \in 1 .. n : q[i] = s
      BY <2>2 DEF IsList
    <3>3. QED
      BY <3>1, <3>2
  <2>4. \A u \in Threads : th[u].op = "fopen" <=>
                             th[u].pc \in {"add", "add_next", "add_head"}
    BY DEF ListInv, AtPlace, MayBeAt, FlushPlaces
  <2>5. \A s \in Files : Listed(s) <=> s \in alive \ (Joining \cup Leaving)
    BY <2>4 DEF Listed, KeepsListed, Joining, Leaving
  <2>6. alive \subseteq Files
    BY DEF ListInv, Types
  <2>7. QED
    BY <2>3, <2>5, <2>6 DEF ListExact
<1>2. QED
  BY <1>1, ListInvariant, PTL

-----------------------------------------------------------------------------
(* The bytes, when stdout is not a terminal: getchar does not flush it then *)
(* behind the back of its lock.                                             *)

LEMMA PuttingFinite ==
  ASSUME NEW s
  PROVE  IsFiniteSet(Putting(s)) /\ Cardinality(Putting(s)) \in Nat
<1>1. Putting(s) \subseteq Threads
  BY DEF Putting
<1>2. QED
  BY <1>1, FS_Subset, FS_CardinalityType

\* A stream whose buffer t leaves alone.
LEMMA BytesStay ==
  ASSUME NEW t \in Threads, OnlyMoves(t), NEW x \in Files, Bytes(x), put[x] \in Nat,
         buf'[x] = buf[x], sent'[x] = sent[x], put'[x] = put[x],
         Putting(x)' \subseteq Putting(x),
         Holds(t, x) => th[t].pc \notin {"write", "reset"},
         Holds(t, x)' => th'[t].pc \notin {"write", "reset"},
         x \in nofd' => x \in nofd \/ \A u \in Threads : Holds(u, x) => u = t
  PROVE  Bytes(x)'
<1>1. \A u \in Threads : u # t => /\ Holds(u, x)' <=> Holds(u, x)
                                  /\ th'[u].pc = th[u].pc /\ th'[u].size = th[u].size
                                  /\ th'[u].rest = th[u].rest
  BY OthersHold DEF OnlyMoves, Alike
<1>2. InOrder(x)' /\ Newest(x)'
  BY DEF Bytes, InOrder, Newest
<1>3. (\A u \in Threads : Holds(u, x)' => th'[u].pc \notin {"write", "reset"})
        => Enough(x, Len(buf[x]))'
  <2>1. Enough(x, Len(buf[x])) => Enough(x, Len(buf[x]))'
    BY DEF Enough
  <2>2. QED
    BY <1>1, <2>1 DEF Bytes
<1>4. ASSUME NEW u \in Threads, Holds(u, x)', th'[u].pc = "write"
      PROVE  Writing(u, x)'
  <2>1. u # t /\ Holds(u, x) /\ th[u].pc = "write"
    BY <1>1, <1>4
  <2>2. Writing(u, x) /\ (x \in nofd' => x \in nofd)
    BY <2>1 DEF Bytes
  <2>3. th'[u].rest = th[u].rest /\ th'[u].size = th[u].size
    BY <1>1, <2>1
  <2>4. QED
    BY <2>2, <2>3 DEF Writing, Enough
<1>5. ASSUME NEW u \in Threads, Holds(u, x)', th'[u].pc = "reset"
      PROVE  Enough(x, 0)'
  <2>1. u # t /\ Holds(u, x) /\ th[u].pc = "reset"
    BY <1>1, <1>5
  <2>2. Enough(x, 0)
    BY <2>1 DEF Bytes
  <2>3. QED
    BY <2>2 DEF Enough
<1>6. put'[x] + Cardinality(Putting(x)') <= MaxPut
  <2>1. /\ Cardinality(Putting(x)') <= Cardinality(Putting(x))
        /\ Cardinality(Putting(x)') \in Nat /\ Cardinality(Putting(x)) \in Nat
    BY PuttingFinite, FS_Subset, FS_CardinalityType
  <2>2. QED
    BY <2>1 DEF Bytes
<1>7. QED
  BY <1>2, <1>3, <1>4, <1>5, <1>6 DEF Bytes

LEMMA BytesPlain ==
  ASSUME ListInv, BytesInv, NEW t \in Threads, Plain(t), UNCHANGED <<bytevars, nofd>>
  PROVE  BytesInv'
<1>1. ASSUME NEW x \in Files PROVE Bytes(x)'
  <2>1. Putting(x)' \subseteq Putting(x)
    BY DEF Plain, Putting, OnlyMoves, Alike
  <2>2. put[x] \in Nat
    BY DEF ListInv, Types
  <2>3. QED
    BY <2>1, <2>2, BytesStay DEF BytesInv, Plain
<1>2. QED
  BY <1>1 DEF BytesInv

\* A stream that begins anew: its buffer is empty and nothing was put.
LEMMA BytesAnew ==
  ASSUME NEW t \in Threads, OnlyMoves(t), NEW s \in Files,
         buf'[s] = <<>>, sent'[s] = <<>>, put'[s] = 0,
         \A u \in Threads : Holds(u, s)' => th'[u].pc \notin {"write", "reset"},
         Cardinality(Putting(s)') <= MaxPut
  PROVE  Bytes(s)'
<1>1. Len(<<>>) = 0
  OBVIOUS
<1>2. InOrder(s)' /\ Newest(s)' /\ Enough(s, Len(buf[s]))'
  BY <1>1 DEF InOrder, Newest, Enough
<1>3. put'[s] + Cardinality(Putting(s)') <= MaxPut
  <2>1. IsFiniteSet(Putting(s)') /\ Cardinality(Putting(s)') \in Nat
    <3>1. Putting(s)' \subseteq Threads
      BY DEF Putting
    <3>2. QED
      BY <3>1, FS_Subset, FS_CardinalityType
  <2>2. QED
    BY <2>1
<1>4. QED
  BY <1>2, <1>3 DEF Bytes

LEMMA BytesFopen ==
  ASSUME ListInv, BytesInv, NEW t \in Threads, Fopen(t)
  PROVE  BytesInv'
<1>1. PICK s : s = CHOOSE x \in Files \ alive : TRUE
  OBVIOUS
<1>2. s \in Files /\ s \notin alive
  <2>1. \E x \in Files \ alive : TRUE
    BY DEF Fopen, ListInv, Types
  <2>2. QED
    BY <1>1, <2>1
<1>3. /\ buf' = [buf EXCEPT ![s] = <<>>] /\ sent' = [sent EXCEPT ![s] = <<>>]
      /\ put' = [put EXCEPT ![s] = 0] /\ nofd' = nofd \ {s}
  BY <1>1 DEF Fopen
<1>4. Plain(t)
  BY FopenStep
<1>5. put \in [Files -> Nat] /\ <<>> \in Seq(1 .. MaxPut)
  BY DEF ListInv, Types
<1>6. \A x \in Files : Putting(x)' \subseteq Putting(x)
  BY <1>4 DEF Plain, Putting, OnlyMoves, Alike
<1>7. Bytes(s)'
  <2>1. buf'[s] = <<>> /\ sent'[s] = <<>> /\ put'[s] = 0
    BY <1>2, <1>3, <1>5 DEF BytesInv
  <2>2. \A u \in Threads : Holds(u, s)' => th'[u].pc \notin {"write", "reset"}
    <3>1. ASSUME NEW u \in Threads, Holds(u, s)', u # t PROVE FALSE
      BY <1>2, <1>4, <3>1, HoldsFacts, OthersHold DEF Plain
    <3>2. QED
      BY <1>4, <3>1 DEF Plain
  <2>3. Cardinality(Putting(s)') <= MaxPut
    <3>1. \A u \in Threads : th[u].due => th[u].file \in alive
      BY DEF ListInv, AtPlace, Types
    <3>2. Putting(s)' = {}
      BY <1>2, <1>6, <3>1 DEF Putting
    <3>3. QED
      BY <3>2, FS_EmptySet
  <2>4. QED
    BY <1>2, <1>4, <2>1, <2>2, <2>3, BytesAnew DEF Plain
<1>8. ASSUME NEW x \in Files, x # s PROVE Bytes(x)'
  <2>1. buf'[x] = buf[x] /\ sent'[x] = sent[x] /\ put'[x] = put[x] /\ put[x] \in Nat
    BY <1>3, <1>5, <1>8 DEF BytesInv
  <2>2. QED
    BY <1>3, <1>4, <1>6, <2>1, BytesStay DEF BytesInv, Plain
<1>9. buf' \in [Files -> Seq(1 .. MaxPut)] /\ sent' \in [Files -> Seq(1 .. MaxPut)]
  BY <1>2, <1>3, <1>5 DEF BytesInv
<1>10. QED
  BY <1>7, <1>8, <1>9 DEF BytesInv

\* freopen gives the stream another file, or takes its descriptor from it;
\* nobody else has its lock.
LEMMA BytesUnlock ==
  ASSUME ListInv, BytesInv, NEW t \in Threads, Unlock(t)
  PROVE  BytesInv'
<1>1. PICK s : s = th[t].file
  OBVIOUS
<1>2. /\ Plain(t) /\ OnlyMoves(t) /\ s \in Files /\ th[t].pc = "unlock"
      /\ th'[t].pc \in {"idle", "free", "remove"}
      /\ nofd' \subseteq nofd \cup {s}
      /\ \/ UNCHANGED bytevars
         \/ /\ buf' = [buf EXCEPT ![s] = <<>>] /\ sent' = [sent EXCEPT ![s] = <<>>]
            /\ put' = [put EXCEPT ![s] = 0]
  BY <1>1, UnlockStep DEF Plain
<1>3. \A u \in Threads : Holds(u, s) => u = t
  <2>1. ~Scanning(t)
    BY UnlockStep
  <2>2. Holds(t, s)
    BY <1>1, <1>2, <2>1 DEF Holds, Scanning
  <2>3. QED
    BY <1>2, <2>2 DEF ListInv, StreamsLocked
<1>4. \A x \in Files : Putting(x)' \subseteq Putting(x) /\ ~Holds(t, x)'
  BY <1>2 DEF Plain, Putting, OnlyMoves, Alike, Holds
<1>5. put \in [Files -> Nat] /\ <<>> \in Seq(1 .. MaxPut)
  BY DEF ListInv, Types
<1>6. ASSUME NEW x \in Files, x # s \/ UNCHANGED bytevars PROVE Bytes(x)'
  <2>1. buf'[x] = buf[x] /\ sent'[x] = sent[x] /\ put'[x] = put[x] /\ put[x] \in Nat
    BY <1>2, <1>5, <1>6 DEF BytesInv
  <2>2. x \in nofd' => x \in nofd \/ \A u \in Threads : Holds(u, x) => u = t
    BY <1>2, <1>3
  <2>3. QED
    BY <1>2, <1>4, <2>1, <2>2, BytesStay DEF BytesInv
<1>7. ASSUME ~UNCHANGED bytevars PROVE Bytes(s)'
  <2>1. buf'[s] = <<>> /\ sent'[s] = <<>> /\ put'[s] = 0
    BY <1>2, <1>5, <1>7 DEF BytesInv
  <2>2. \A u \in Threads : ~Holds(u, s)'
    BY <1>2, <1>3, <1>4, OthersHold
  <2>3. Cardinality(Putting(s)') <= MaxPut
    <3>1. put[s] + Cardinality(Putting(s)) <= MaxPut /\ put[s] \in Nat
      BY <1>2, <1>5 DEF BytesInv, Bytes
    <3>2. /\ Cardinality(Putting(s)') <= Cardinality(Putting(s))
          /\ Cardinality(Putting(s)') \in Nat /\ Cardinality(Putting(s)) \in Nat
      BY <1>2, <1>4, PuttingFinite, FS_Subset, FS_CardinalityType
    <3>3. QED
      BY <3>1, <3>2
  <2>4. QED
    BY <1>2, <2>1, <2>2, <2>3, BytesAnew
<1>8. buf' \in [Files -> Seq(1 .. MaxPut)] /\ sent' \in [Files -> Seq(1 .. MaxPut)]
  <2>1. buf \in [Files -> Seq(1 .. MaxPut)] /\ sent \in [Files -> Seq(1 .. MaxPut)]
    BY DEF BytesInv
  <2>2. CASE UNCHANGED bytevars
    BY <2>1, <2>2
  <2>3. CASE buf' = [buf EXCEPT ![s] = <<>>] /\ sent' = [sent EXCEPT ![s] = <<>>]
    BY <1>2, <1>5, <2>1, <2>3
  <2>4. QED
    BY <1>2, <2>2, <2>3
<1>9. QED
  BY <1>6, <1>7, <1>8 DEF BytesInv

\* fputc begins only when its byte is within MaxPut, counting those that
\* other threads are about to put.
LEMMA BytesCall ==
  ASSUME ListInv, BytesInv, NEW t \in Threads, Fputc(t) \/ Fflush(t) \/ Getchar(t)
  PROVE  BytesInv'
<1>1. /\ OnlyMoves(t) /\ OwesLess /\ th[t].pc = "idle" /\ th'[t].pc = "lock"
      /\ th'[t].due = (th'[t].op = "fputc") /\ UNCHANGED <<bytevars, nofd>>
  BY CallStep DEF Fputc, Fflush, Getchar
<1>2. CASE th'[t].op # "fputc"
  <2>1. Plain(t)
    BY <1>1, <1>2 DEF Plain
  <2>2. QED
    BY <1>1, <2>1, BytesPlain
<1>3. CASE th'[t].op = "fputc"
  <2>1. PICK s \in usable :
          /\ put[s] + Cardinality({u \in Threads : th[u].file = s}) < MaxPut
          /\ th'[t].file = s
    <3>1. \A op \in {"fflush", "getchar"}, s \in usable :
            Begin(t, op, s, "lock") => th'[t].op = op
      BY DEF Begin, Idle, ListInv, Types
    <3>2. \A s \in usable : Begin(t, "fputc", s, "lock") => th'[t].file = s
      BY DEF Begin, Idle, ListInv, Types
    <3>3. stdin \in usable
      BY DEF ListInv, Types, Standard
    <3>4. QED
      BY <1>3, <3>1, <3>2, <3>3 DEF Fputc, Fflush, Getchar
  <2>2. s \in Files /\ put \in [Files -> Nat]
    BY DEF ListInv, Types
  <2>3. t \notin Putting(s)
    BY <1>1 DEF ListInv, AtPlace, MayBeAt, FlushPlaces, Putting
  <2>4. Putting(s)' = Putting(s) \cup {t}
    BY <1>1, <1>3, <2>1, <2>3 DEF Putting, OnlyMoves, Alike
  <2>5. Cardinality(Putting(s)') = Cardinality(Putting(s)) + 1
    BY <2>3, <2>4, PuttingFinite, FS_AddElement
  <2>6. /\ Cardinality(Putting(s)) <= Cardinality({u \in Threads : th[u].file = s})
        /\ Cardinality({u \in Threads : th[u].file = s}) \in Nat
    <3>1. /\ Putting(s) \subseteq {u \in Threads : th[u].file = s}
          /\ {u \in Threads : th[u].file = s} \subseteq Threads
      BY DEF Putting
    <3>2. IsFiniteSet({u \in Threads : th[u].file = s})
      BY <3>1, FS_Subset
    <3>3. QED
      BY <3>1, <3>2, FS_Subset, FS_CardinalityType
  <2>7. put'[s] + Cardinality(Putting(s)') <= MaxPut
    BY <1>1, <2>1, <2>2, <2>5, <2>6, PuttingFinite
  <2>8. \A u \in Threads : \A x \in Files :
          /\ Holds(u, x)' <=> Holds(u, x)
          /\ Holds(u, x) => /\ th'[u].pc = th[u].pc /\ th'[u].size = th[u].size
                            /\ th'[u].rest = th[u].rest
    <3>1. \A x \in Files : ~Holds(t, x) /\ ~Holds(t, x)'
      BY <1>1 DEF Holds
    <3>2. QED
      BY <1>1, <3>1, OthersHold DEF OnlyMoves, Alike
  <2>9. Bytes(s)'
    <3>1. /\ Bytes(s) /\ (InOrder(s)' <=> InOrder(s)) /\ (Newest(s)' <=> Newest(s))
          /\ Enough(s, Len(buf[s]))' <=> Enough(s, Len(buf[s]))
          /\ Enough(s, 0)' <=> Enough(s, 0)
      BY <1>1, <2>2 DEF BytesInv, InOrder, Newest, Enough
    <3>2. ASSUME NEW u \in Threads, Holds(u, s)', th'[u].pc = "write"
          PROVE  Writing(u, s)'
      <4>1. /\ Holds(u, s) /\ th[u].pc = "write" /\ th'[u].size = th[u].size
            /\ th'[u].rest = th[u].rest
        BY <2>2, <2>8, <3>2
      <4>2. Writing(u, s)
        BY <3>1, <4>1 DEF Bytes
      <4>3. QED
        BY <1>1, <4>1, <4>2 DEF Writing, Enough
    <3>3. QED
      BY <2>2, <2>7, <2>8, <3>1, <3>2 DEF Bytes
  <2>10. ASSUME NEW x \in Files, x # s PROVE Bytes(x)'
    <3>1. Putting(x)' \subseteq Putting(x)
      BY <1>1, <2>1, <2>10 DEF Putting, OnlyMoves, Alike
    <3>2. buf'[x] = buf[x] /\ sent'[x] = sent[x] /\ put'[x] = put[x] /\ put[x] \in Nat
      BY <1>1, <2>2
    <3>3. QED
      BY <1>1, <3>1, <3>2, BytesStay DEF BytesInv
  <2>11. QED
    BY <1>1, <2>9, <2>10 DEF BytesInv
<1>4. QED
  BY <1>2, <1>3

LEMMA BytesPut ==
  ASSUME ListInv, BytesInv, NEW t \in Threads, Put(t)
  PROVE  BytesInv'
<1>1. PICK s : s = th[t].file
  OBVIOUS
<1>2. /\ Inward(t) /\ OnlyMoves(t) /\ th[t].op = "fputc" /\ th[t].pc = "put"
      /\ th'[t].pc \in {"flush", "unlock"} /\ th'[t].file = s /\ th[t].due
      /\ s \in Files /\ Holds(t, s) /\ sent' = sent /\ nofd' = nofd
  BY <1>1, PutStep DEF Inward, Holds, Put
<1>3. \A x \in Files : Putting(x)' \subseteq Putting(x)
  BY <1>2 DEF Inward, Putting, OnlyMoves, Alike
<1>4. put[s] \in Nat /\ put \in [Files -> Nat] /\ buf[s] \in Seq(1 .. MaxPut)
      /\ buf \in [Files -> Seq(1 .. MaxPut)] /\ sent[s] \in Seq(1 .. MaxPut) /\ Bytes(s)
  BY <1>2 DEF ListInv, Types, BytesInv
<1>5. CASE UNCHANGED <<buf, put>>
  <2>1. ASSUME NEW x \in Files PROVE Bytes(x)'
    <3>1. buf'[x] = buf[x] /\ sent'[x] = sent[x] /\ put'[x] = put[x] /\ put[x] \in Nat
      BY <1>2, <1>4, <1>5
    <3>2. QED
      BY <1>2, <1>3, <3>1, BytesStay DEF BytesInv
  <2>2. QED
    BY <1>2, <1>5, <2>1 DEF BytesInv
<1>6. CASE ~UNCHANGED <<buf, put>>
  <2>1. /\ ~th'[t].due
        /\ put' = [put EXCEPT ![s] = put[s] + 1]
        /\ buf' = [buf EXCEPT ![s] = Append(buf[s], put[s] + 1)]
    BY <1>1, <1>6, PutStep
  <2>2. Putting(s)' = Putting(s) \ {t} /\ t \in Putting(s)
    BY <1>1, <1>2, <2>1 DEF Putting, OnlyMoves, Alike
  <2>3. Cardinality(Putting(s)') = Cardinality(Putting(s)) - 1
    BY <2>2, PuttingFinite, FS_RemoveElement
  <2>4. Cardinality(Putting(s)) >= 1
    <3>1. Cardinality(Putting(s)') \in Nat
      BY <2>2, PuttingFinite, FS_RemoveElement, FS_CardinalityType
    <3>2. QED
      BY <2>3, <3>1, PuttingFinite
  <2>5. put[s] + 1 \in 1 .. MaxPut
    BY <1>4, <2>4, PuttingFinite DEF Bytes
  <2>6. buf'[s] = Append(buf[s], put[s] + 1) /\ put'[s] = put[s] + 1 /\ sent'[s] = sent[s]
    BY <1>2, <1>4, <2>1
  <2>7. \A u \in Threads : Holds(u, s) => u = t
    BY <1>2 DEF ListInv, StreamsLocked
  <2>8. \A u \in Threads : Holds(u, s)' => u = t
    BY <1>2, <2>7, OthersHold
  <2>9. Bytes(s)'
    <3>1. Enough(s, Len(buf[s]))
      BY <1>2, <1>4, <2>7 DEF Bytes
    <3>2. PICK m \in Nat, k \in Nat, n \in Nat :
            m = Len(sent[s]) /\ k = Len(buf[s]) /\ n = put[s]
      BY <1>4
    <3>3. m + k >= n /\ (Whole => m + k = n) /\ \A i \in 1 .. k : buf[s][i] = n - k + i
      BY <1>4, <3>1, <3>2 DEF Enough, Bytes, Newest
    <3>4. Len(buf'[s]) = k + 1 /\ Len(sent'[s]) = m /\ put'[s] = n + 1
      BY <1>4, <2>5, <2>6, <3>2
    <3>5. \A i \in 1 .. k : buf'[s][i] = buf[s][i]
      BY <1>4, <2>5, <2>6, <3>2
    <3>6. buf'[s][k + 1] = n + 1
      BY <1>4, <2>5, <2>6, <3>2
    <3>7. \A i \in 1 .. k + 1 : buf'[s][i] = (n + 1) - (k + 1) + i
      <4>1. ASSUME NEW i \in 1 .. k PROVE buf'[s][i] = (n + 1) - (k + 1) + i
        <5>1. buf'[s][i] = n - k + i
          BY <3>3, <3>5
        <5>2. n - k + i = (n + 1) - (k + 1) + i
          OBVIOUS
        <5>3. QED
          BY <5>1, <5>2
      <4>2. n + 1 = (n + 1) - (k + 1) + (k + 1)
        OBVIOUS
      <4>3. \A i \in 1 .. k + 1 : i \in 1 .. k \/ i = k + 1
        OBVIOUS
      <4>4. QED
        BY <3>6, <4>1, <4>2, <4>3
    <3>8. Newest(s)'
      BY <3>4, <3>7 DEF Newest
    <3>9. m + (k + 1) >= n + 1 /\ (Whole => m + (k + 1) = n + 1)
      BY <3>3
    <3>10. Enough(s, Len(buf[s]))'
      BY <3>4, <3>9 DEF Enough
    <3>11. InOrder(s)'
      BY <1>4, <2>6 DEF Bytes, InOrder
    <3>12. put'[s] + Cardinality(Putting(s)') <= MaxPut
      BY <1>4, <2>3, <2>6, PuttingFinite, SMTT(20) DEF Bytes
    <3>13. QED
      BY <1>2, <2>8, <3>8, <3>10, <3>11, <3>12 DEF Bytes
  <2>10. ASSUME NEW x \in Files, x # s PROVE Bytes(x)'
    <3>1. buf'[x] = buf[x] /\ sent'[x] = sent[x] /\ put'[x] = put[x] /\ put[x] \in Nat
      BY <1>2, <1>4, <2>1, <2>10
    <3>2. QED
      BY <1>2, <1>3, <3>1, BytesStay DEF BytesInv
  <2>11. buf' \in [Files -> Seq(1 .. MaxPut)]
    BY <1>2, <1>4, <2>1, <2>5
  <2>12. QED
    BY <1>2, <2>9, <2>10, <2>11 DEF BytesInv
<1>7. QED
  BY <1>5, <1>6

\* Where flush_impl works on its stream, it has the lock.
LEMMA FlushTarget ==
  ASSUME ~Tty, ListInv, NEW t \in Threads, th[t].pc \in {"flush", "write", "reset"}
  PROVE  /\ Target(t) \in Files /\ Holds(t, Target(t))
         /\ After(t) \in {"unlock", "put"} /\ AfterFailure(t) = "unlock"
         /\ Scanning(t) => Target(t) = th[t].p /\ After(t) = "unlock"
         /\ \A u \in Threads : Holds(u, Target(t)) => u = t
         /\ \A x \in Files : x # Target(t) => ~Holds(t, x)
<1>1. th[t].op # "getchar" /\ (Scanning(t) => ~th[t].due)
  BY DEF ListInv, AtPlace, MayBeAt, FlushPlaces, Scanning
<1>2. /\ Target(t) \in Files /\ Holds(t, Target(t))
      /\ After(t) \in {"unlock", "put"} /\ AfterFailure(t) = "unlock"
      /\ Scanning(t) => After(t) = "unlock"
  BY <1>1, TargetType DEF FlushPlaces, After, AfterFailure
<1>3. Scanning(t) => Target(t) = th[t].p
  BY DEF Scanning, Target
<1>4. \A u \in Threads : Holds(u, Target(t)) => u = t
  BY <1>2 DEF ListInv, StreamsLocked
<1>5. \A x \in Files : x # Target(t) => ~Holds(t, x)
  BY <1>2 DEF Holds
<1>6. QED
  BY <1>2, <1>3, <1>4, <1>5

\* The part of the proof that the steps of flush_impl share.
LEMMA BytesInward ==
  ASSUME ~Tty, ListInv, BytesInv, NEW t \in Threads,
         th[t].pc \in {"flush", "write", "reset"}, Inward(t),
         UNCHANGED <<put, nofd>>,
         NEW s, s = Target(t), Bytes(s)',
         buf' \in [Files -> Seq(1 .. MaxPut)], sent' \in [Files -> Seq(1 .. MaxPut)],
         \A x \in Files : x # s => buf'[x] = buf[x] /\ sent'[x] = sent[x]
  PROVE  BytesInv'
<1>1. ASSUME NEW x \in Files, x # s PROVE Bytes(x)'
  <2>1. ~Holds(t, x)
    BY <1>1, FlushTarget
  <2>2. ~Holds(t, x)'
    BY <2>1 DEF Inward, Holds
  <2>3. put'[x] = put[x] /\ put[x] \in Nat
    BY DEF ListInv, Types
  <2>4. Putting(x)' \subseteq Putting(x)
    BY DEF Inward, OnlyMoves, Alike, Putting
  <2>5. QED
    BY <1>1, <2>1, <2>2, <2>3, <2>4, BytesStay DEF BytesInv, Inward
<1>2. QED
  BY <1>1 DEF BytesInv

\* The bytes that write takes, and those it leaves.
LEMMA TakenAndLeft ==
  ASSUME NEW S, NEW r \in Seq(S), NEW n \in 1 .. Len(r)
  PROVE  /\ SubSeq(r, 1, n) \in Seq(S) /\ Len(SubSeq(r, 1, n)) = n
         /\ \A i \in 1 .. n : SubSeq(r, 1, n)[i] = r[i]
         /\ SubSeq(r, n + 1, Len(r)) \in Seq(S)
         /\ Len(SubSeq(r, n + 1, Len(r))) = Len(r) - n
         /\ \A i \in 1 .. Len(r) - n : SubSeq(r, n + 1, Len(r))[i] = r[n + i]
<1>1. PICK l \in Nat : l = Len(r)
  OBVIOUS
<1>2. n \in 1 .. l /\ \A i \in 1 .. l : r[i] \in S
  BY <1>1
<1>3. SubSeq(r, 1, n) = [i \in 1 .. n |-> r[i]]
  BY <1>1, <1>2
<1>4. SubSeq(r, n + 1, l) = [i \in 1 .. l - n |-> r[n + i]]
  <2>1. SubSeq(r, n + 1, l) = [i \in 1 .. (l - (n + 1) + 1) |-> r[n + 1 + i - 1]]
    BY <1>2
  <2>2. l - (n + 1) + 1 = l - n /\ \A i \in Nat : n + 1 + i - 1 = n + i
    BY <1>2
  <2>3. QED
    BY <2>1, <2>2
<1>5. \A i \in 1 .. l - n : n + i \in 1 .. l
  BY <1>2
<1>6. QED
  BY <1>1, <1>2, <1>3, <1>4, <1>5

LEMMA Joined ==
  ASSUME NEW m \in Seq(Nat), NEW q \in Seq(Nat)
  PROVE  /\ Len(m \o q) = Len(m) + Len(q) /\ Len(m) \in Nat /\ Len(q) \in Nat
         /\ \A i \in 1 .. Len(m) : (m \o q)[i] = m[i]
         /\ \A i \in 1 .. Len(m) + Len(q) : i > Len(m) => (m \o q)[i] = q[i - Len(m)]
OBVIOUS

\* What write has taken is in order, when it takes the bytes that come next.
LEMMA OrderKept ==
  ASSUME NEW m \in Seq(Nat), NEW r \in Seq(Nat), NEW q \in Seq(Nat),
         Len(q) <= Len(r), \A i \in 1 .. Len(q) : q[i] = r[i],
         \A i \in 1 .. Len(m) : m[i] = i,
         \A i \in 1 .. Len(r) : r[i] = Len(m) + i
  PROVE  \A i \in 1 .. Len(m \o q) : (m \o q)[i] = i
<1>1. PICK k \in Nat, n \in Nat : k = Len(m) /\ n = Len(q)
  BY Joined
<1>2. Len(m \o q) = k + n
  BY <1>1, Joined
<1>3. ASSUME NEW i \in 1 .. k + n PROVE (m \o q)[i] = i
  <2>1. CASE i <= k
    <3>1. i \in 1 .. k /\ (m \o q)[i] = m[i]
      BY <1>1, <2>1, Joined
    <3>2. QED
      BY <1>1, <3>1
  <2>2. CASE i > k
    <3>1. i - k \in 1 .. n /\ k + (i - k) = i
      BY <2>2
    <3>2. (m \o q)[i] = q[i - k]
      BY <1>1, <2>2, Joined
    <3>3. Len(r) \in Nat
      OBVIOUS
    <3>4. q[i - k] = r[i - k] /\ i - k \in 1 .. Len(r)
      <4>1. PICK l \in Nat : l = Len(r)
        BY <3>3
      <4>2. n <= l
        BY <1>1, <4>1, Zenon
      <4>3. i - k \in 1 .. l
        BY <3>1, <4>2
      <4>4. q[i - k] = r[i - k]
        BY <1>1, <3>1, Zenon
      <4>5. QED
        BY <4>1, <4>3, <4>4, Zenon
    <3>5. r[i - k] = k + (i - k)
      BY <1>1, <3>4
    <3>6. QED
      BY <3>1, <3>2, <3>4, <3>5
  <2>3. i <= k \/ i > k
    OBVIOUS
  <2>4. QED
    BY <2>1, <2>2, <2>3, Zenon
<1>4. QED
  BY <1>2, <1>3

\* The write of n bytes leaves what is still to write.
LEMMA BytesWrite ==
  ASSUME ~Tty, ListInv, BytesInv, NEW t \in Threads, FlushWrite(t)
  PROVE  BytesInv'
<1>1. PICK s : s = Target(t)
  OBVIOUS
<1>2. /\ th[t].pc = "write" /\ Inward(t) /\ OnlyMoves(t) /\ s \notin nofd
      /\ UNCHANGED <<buf, put, nofd>> /\ th'[t].size = th[t].size
  BY <1>1, FlushWriteStep DEF Inward, FlushWrite
<1>3. /\ s \in Files /\ Holds(t, s) /\ \A u \in Threads : Holds(u, s) => u = t
  BY <1>1, <1>2, FlushTarget
<1>4. \A u \in Threads : Holds(u, s)' => u = t
  BY <1>2, <1>3, OthersHold
<1>5. /\ Bytes(s) /\ Writing(t, s)
      /\ buf[s] \in Seq(1 .. MaxPut) /\ sent[s] \in Seq(1 .. MaxPut) /\ put[s] \in Nat
      /\ buf \in [Files -> Seq(1 .. MaxPut)] /\ sent \in [Files -> Seq(1 .. MaxPut)]
      /\ th[t].size \in Nat
  BY <1>2, <1>3, Fields DEF BytesInv, Bytes, ListInv, Types
<1>6. PICK r \in Seq(1 .. MaxPut) : r = th[t].rest
  BY <1>5 DEF Writing
<1>7. PICK n \in 1 .. Len(r) :
        /\ sent' = [sent EXCEPT ![s] = @ \o SubSeq(r, 1, n)]
        /\ th'[t].rest = SubSeq(r, n + 1, Len(r))
        /\ th'[t].pc = IF n = Len(r) THEN "reset" ELSE "write"
  BY <1>1, <1>6, FlushWriteStep
<1>8. PICK q \in Seq(1 .. MaxPut) :
        q = SubSeq(r, 1, n) /\ Len(q) = n /\ \A i \in 1 .. n : q[i] = r[i]
  <2>1. /\ SubSeq(r, 1, n) \in Seq(1 .. MaxPut) /\ Len(SubSeq(r, 1, n)) = n
        /\ \A i \in 1 .. n : SubSeq(r, 1, n)[i] = r[i]
    BY TakenAndLeft, Zenon
  <2>2. QED
    BY <2>1, Zenon
<1>9. /\ sent'[s] = sent[s] \o q /\ sent[s] \o q \in Seq(1 .. MaxPut)
      /\ sent' = [sent EXCEPT ![s] = sent[s] \o q]
  <2>1. sent' = [sent EXCEPT ![s] = sent[s] \o q]
    BY <1>7, <1>8
  <2>2. sent[s] \o q \in Seq(1 .. MaxPut)
    BY <1>5
  <2>3. QED
    BY <1>3, <1>5, <2>1, <2>2
<1>10. PICK m \in Nat, k \in Nat, l \in Nat, p \in Nat, z \in Nat :
         /\ m = Len(sent[s]) /\ k = Len(buf[s]) /\ l = Len(r) /\ p = put[s]
         /\ z = th[t].size
  <2>1. \A x \in Seq(1 .. MaxPut) : Len(x) \in Nat
    OBVIOUS
  <2>2. Len(sent[s]) \in Nat /\ Len(buf[s]) \in Nat /\ Len(r) \in Nat
    BY <1>5, <2>1, Zenon
  <2>3. QED
    BY <1>5, <2>2, Zenon
<1>11. /\ m + k >= p /\ m + l >= p /\ l <= z
       /\ Whole => m + l = p /\ \A i \in 1 .. l : r[i] = m + i
  BY <1>5, <1>6, <1>10 DEF Writing, Enough
<1>12. Len(sent'[s]) = m + n
  <2>1. \A x, y \in Seq(1 .. MaxPut) : Len(x \o y) = Len(x) + Len(y)
    OBVIOUS
  <2>2. QED
    BY <1>8, <1>9, <1>10, <2>1
<1>13. InOrder(s)'
  <2>1. SUFFICES ASSUME Whole PROVE \A i \in 1 .. Len(sent'[s]) : sent'[s][i] = i
    BY DEF InOrder
  <2>2. /\ sent[s] \in Seq(Nat) /\ r \in Seq(Nat) /\ q \in Seq(Nat)
        /\ Len(q) <= Len(r)
    <3>1. \A x \in Seq(1 .. MaxPut) : x \in Seq(Nat)
      OBVIOUS
    <3>2. sent[s] \in Seq(Nat) /\ r \in Seq(Nat) /\ q \in Seq(Nat)
      BY <1>5, <3>1, Zenon
    <3>3. Len(q) <= Len(r)
      BY <1>8, <1>10
    <3>4. QED
      BY <3>2, <3>3
  <2>3. \A i \in 1 .. Len(sent[s]) : sent[s][i] = i
    BY <1>5, <2>1 DEF Bytes, InOrder
  <2>4. \A i \in 1 .. Len(r) : r[i] = Len(sent[s]) + i
    BY <1>10, <1>11, <2>1
  <2>5. QED
    <3>1. \A i \in 1 .. Len(q) : q[i] = r[i]
      BY <1>8
    <3>2. \A i \in 1 .. Len(sent[s] \o q) : (sent[s] \o q)[i] = i
      BY <2>2, <2>3, <2>4, <3>1, OrderKept
    <3>3. QED
      BY <1>9, <3>2
<1>14. Newest(s)'
  BY <1>2, <1>5 DEF Bytes, Newest
<1>15. th'[t].pc = "reset" => Enough(s, 0)'
  <2>1. SUFFICES ASSUME n = l PROVE Enough(s, 0)'
    BY <1>7, <1>10
  <2>2. (m + n) + 0 >= p /\ (Whole => (m + n) + 0 = p)
    BY <1>11, <2>1
  <2>3. QED
    BY <1>2, <1>10, <1>12, <2>2 DEF Enough
<1>16. th'[t].pc = "write" => Writing(t, s)'
  <2>1. SUFFICES ASSUME n # l PROVE Writing(t, s)'
    BY <1>7, <1>10
  <2>2. PICK w \in Seq(1 .. MaxPut) :
          /\ w = SubSeq(r, n + 1, Len(r)) /\ Len(w) = Len(r) - n
          /\ \A i \in 1 .. Len(r) - n : w[i] = r[n + i]
    <3>1. /\ SubSeq(r, n + 1, Len(r)) \in Seq(1 .. MaxPut)
          /\ Len(SubSeq(r, n + 1, Len(r))) = Len(r) - n
          /\ \A i \in 1 .. Len(r) - n : SubSeq(r, n + 1, Len(r))[i] = r[n + i]
      BY TakenAndLeft, Zenon
    <3>2. QED
      BY <3>1, Zenon
  <2>3. Len(w) = l - n /\ \A i \in 1 .. l - n : w[i] = r[n + i]
    BY <1>10, <2>2
  <2>4. th'[t].rest = w
    BY <1>7, <2>2
  <2>5. /\ (m + n) + k >= p /\ (m + n) + (l - n) >= p /\ l - n <= z
        /\ Whole => (m + n) + (l - n) = p
        /\ l - n # z
    BY <1>11, <2>1
  <2>6. Whole => \A i \in 1 .. l - n : w[i] = (m + n) + i
    <3>1. ASSUME Whole, NEW i \in 1 .. l - n PROVE w[i] = (m + n) + i
      <4>1. n + i \in 1 .. l /\ m + (n + i) = (m + n) + i
        OBVIOUS
      <4>2. w[i] = r[n + i] /\ r[n + i] = m + (n + i)
        BY <1>11, <2>3, <3>1, <4>1
      <4>3. QED
        BY <4>1, <4>2
    <3>2. QED
      BY <3>1
  <2>7. Enough(s, Len(th[t].rest))'
    BY <1>2, <1>10, <1>12, <2>3, <2>4, <2>5 DEF Enough
  <2>8. /\ Len(th'[t].rest) <= th'[t].size /\ Len(th'[t].rest) # th'[t].size
        /\ Len(sent'[s]) + Len(buf'[s]) >= put'[s]
    BY <1>2, <1>10, <1>12, <2>3, <2>4, <2>5
  <2>9. Whole => \A i \in 1 .. Len(th'[t].rest) : th'[t].rest[i] = Len(sent'[s]) + i
    BY <1>12, <2>3, <2>4, <2>6
  <2>10. s \notin nofd' /\ th'[t].rest \in Seq(1 .. MaxPut)
    BY <1>2, <2>4
  <2>11. QED
    BY <2>7, <2>8, <2>9, <2>10 DEF Writing
<1>17. put'[s] + Cardinality(Putting(s)') <= MaxPut
  <2>1. Putting(s)' \subseteq Putting(s)
    BY <1>2 DEF Inward, OnlyMoves, Alike, Putting
  <2>2. /\ Cardinality(Putting(s)') <= Cardinality(Putting(s))
        /\ Cardinality(Putting(s)') \in Nat
    BY <2>1, PuttingFinite, FS_Subset, FS_CardinalityType
  <2>3. put[s] + Cardinality(Putting(s)) <= MaxPut /\ put'[s] = put[s] /\ put[s] \in Nat
    BY <1>2, <1>5 DEF Bytes
  <2>4. QED
    BY <2>2, <2>3, PuttingFinite
<1>18. Bytes(s)'
  <2>1. Holds(t, s)' /\ th'[t].pc \in {"write", "reset"}
    BY <1>2, <1>3, <1>7 DEF Inward, Holds
  <2>2. QED
    BY <1>4, <1>13, <1>14, <1>15, <1>16, <1>17, <2>1 DEF Bytes
<1>19. sent' \in [Files -> Seq(1 .. MaxPut)] /\ \A x \in Files : x # s => sent'[x] = sent[x]
  BY <1>5, <1>9
<1>20. QED
  BY <1>1, <1>2, <1>5, <1>18, <1>19, BytesInward

LEMMA BytesFlush ==
  ASSUME ~Tty, ListInv, BytesInv, NEW t \in Threads,
         FlushSize(t) \/ FlushFail(t) \/ FlushReset(t)
  PROVE  BytesInv'
<1>1. PICK s : s = Target(t)
  OBVIOUS
<1>2. /\ th[t].pc \in {"flush", "write", "reset"} /\ Inward(t) /\ OnlyMoves(t)
      /\ UNCHANGED <<sent, put, nofd>>
  BY FlushSizeStep, FlushFailStep, FlushResetStep
  DEF Inward, FlushSize, FlushFail, FlushReset
<1>3. /\ s \in Files /\ Holds(t, s)
      /\ After(t) \in {"unlock", "put"} /\ AfterFailure(t) = "unlock"
      /\ \A u \in Threads : Holds(u, s) => u = t
  BY <1>1, <1>2, FlushTarget
<1>4. \A u \in Threads : Holds(u, s)' => u = t
  BY <1>2, <1>3, OthersHold
<1>5. /\ Bytes(s) /\ buf[s] \in Seq(1 .. MaxPut) /\ sent[s] \in Seq(1 .. MaxPut)
      /\ put[s] \in Nat /\ <<>> \in Seq(1 .. MaxPut)
      /\ buf \in [Files -> Seq(1 .. MaxPut)] /\ sent \in [Files -> Seq(1 .. MaxPut)]
  BY <1>3 DEF BytesInv, ListInv, Types
<1>6. put'[s] + Cardinality(Putting(s)') <= MaxPut
  <2>1. Putting(s)' \subseteq Putting(s)
    BY <1>2 DEF Inward, OnlyMoves, Alike, Putting
  <2>2. /\ Cardinality(Putting(s)') <= Cardinality(Putting(s))
        /\ Cardinality(Putting(s)') \in Nat
    BY <2>1, PuttingFinite, FS_Subset, FS_CardinalityType
  <2>3. QED
    BY <1>2, <1>5, <2>2, PuttingFinite DEF Bytes
<1>7. InOrder(s)'
  BY <1>2, <1>5 DEF Bytes, InOrder
<1>8. CASE FlushSize(t)
  <2>1. buf' = buf /\ th[t].pc = "flush"
    BY <1>8 DEF FlushSize
  <2>2. Enough(s, Len(buf[s])) /\ Newest(s)
    BY <1>3, <1>5, <2>1 DEF Bytes
  <2>3. Newest(s)' /\ Enough(s, Len(buf[s]))'
    BY <1>2, <2>1, <2>2 DEF Newest, Enough
  <2>4. th'[t].pc = "write" => Writing(t, s)'
    <3>1. SUFFICES ASSUME th'[t].pc = "write" PROVE Writing(t, s)'
      OBVIOUS
    <3>2. th'[t].size = Len(buf[s]) /\ th'[t].rest = buf[s]
      BY <1>1, <1>3, <1>8, <3>1, FlushSizeStep
    <3>3. PICK m \in Nat, k \in Nat, p \in Nat :
            m = Len(sent[s]) /\ k = Len(buf[s]) /\ p = put[s]
      BY <1>5
    <3>4. /\ m + k >= p /\ (Whole => m + k = p)
          /\ \A i \in 1 .. k : buf[s][i] = p - k + i
      BY <2>2, <3>3 DEF Enough, Newest
    <3>5. Whole => \A i \in 1 .. k : buf[s][i] = m + i
      <4>1. ASSUME Whole, NEW i \in 1 .. k PROVE buf[s][i] = m + i
        <5>1. p - k + i = m + i
          BY <3>4, <4>1
        <5>2. QED
          BY <3>4, <5>1
      <4>2. QED
        BY <4>1
    <3>6. th'[t].rest \in Seq(1 .. MaxPut) /\ Len(th'[t].rest) = th'[t].size
          /\ Len(th'[t].rest) <= th'[t].size
      BY <1>5, <3>2, <3>3
    <3>7. Enough(s, Len(th[t].rest))' /\ Len(sent'[s]) + Len(buf'[s]) >= put'[s]
      BY <1>2, <2>1, <3>2, <3>3, <3>4 DEF Enough
    <3>8. Whole => \A i \in 1 .. Len(th'[t].rest) : th'[t].rest[i] = Len(sent'[s]) + i
      BY <1>2, <3>2, <3>3, <3>5
    <3>9. QED
      BY <2>3, <3>6, <3>7, <3>8 DEF Writing
  <2>5. th'[t].pc \in {"write", "unlock", "put"}
    BY <1>1, <1>3, <1>8, FlushSizeStep
  <2>6. Bytes(s)'
    BY <1>4, <1>6, <1>7, <2>3, <2>4, <2>5 DEF Bytes
  <2>7. QED
    BY <1>1, <1>2, <1>5, <2>1, <2>6, BytesInward
<1>9. CASE FlushFail(t)
  <2>1. buf' = buf /\ th[t].pc = "write" /\ th'[t].pc = "unlock"
    BY <1>3, <1>9, FlushFailStep DEF FlushFail
  <2>2. Writing(t, s) /\ Newest(s)
    BY <1>3, <1>5, <2>1 DEF Bytes
  <2>3. Whole => Len(th[t].rest) = th[t].size
    <3>1. \/ (IF Len(th[t].rest) = th[t].size THEN "write" ELSE "partial") \in Faults
          \/ s \in nofd
      BY <1>1, <1>9, FlushFailStep
    <3>2. QED
      BY <2>2, <3>1 DEF Writing, Whole
  <2>4. Enough(s, Len(buf[s]))
    BY <2>2, <2>3 DEF Writing, Enough
  <2>5. Newest(s)' /\ Enough(s, Len(buf[s]))'
    BY <1>2, <2>1, <2>2, <2>4 DEF Newest, Enough
  <2>6. Bytes(s)'
    BY <1>4, <1>6, <1>7, <2>1, <2>5 DEF Bytes
  <2>7. QED
    BY <1>1, <1>2, <1>5, <2>1, <2>6, BytesInward
<1>10. CASE FlushReset(t)
  <2>1. /\ th[t].pc = "reset" /\ th'[t].pc \in {"unlock", "put"}
        /\ buf' = [buf EXCEPT ![s] = <<>>]
    BY <1>1, <1>3, <1>10, FlushResetStep DEF FlushReset
  <2>2. buf'[s] = <<>> /\ buf' \in [Files -> Seq(1 .. MaxPut)]
        /\ \A x \in Files : x # s => buf'[x] = buf[x]
    BY <1>3, <1>5, <2>1
  <2>3. Enough(s, 0) /\ Len(<<>>) = 0
    BY <1>3, <1>5, <2>1 DEF Bytes
  <2>4. Newest(s)' /\ Enough(s, Len(buf[s]))'
    BY <1>2, <2>2, <2>3 DEF Newest, Enough
  <2>5. Bytes(s)'
    BY <1>4, <1>6, <1>7, <2>1, <2>4 DEF Bytes
  <2>6. QED
    BY <1>1, <1>2, <1>5, <2>1, <2>2, <2>5, BytesInward
<1>11. QED
  BY <1>8, <1>9, <1>10

LEMMA BytesStep ==
  ASSUME ~Tty PROVE ListInv /\ BytesInv /\ [Next]_vars => BytesInv'
<1> SUFFICES ASSUME ListInv, BytesInv, [Next]_vars PROVE BytesInv'
  OBVIOUS
<1>1. ASSUME NEW t \in Threads, Call(t) PROVE BytesInv'
  <2>1. CASE Fopen(t)
    BY <2>1, BytesFopen
  <2>2. CASE Fputc(t) \/ Fflush(t) \/ Getchar(t)
    BY <2>2, BytesCall
  <2>3. CASE Fclose(t) \/ Freopen(t)
    <3>1. Plain(t) /\ UNCHANGED <<bytevars, nofd>>
      BY <2>3, ForgetStep DEF Fclose, Freopen, Forget
    <3>2. QED
      BY <3>1, BytesPlain
  <2>4. ASSUME NEW op \in {"flush_all", "exit"}, FlushAll(t, op) PROVE BytesInv'
    <3>1. /\ OnlyMoves(t) /\ th[t].pc = "idle" /\ th'[t].pc = "all"
          /\ th'[t].due = FALSE /\ UNCHANGED <<bytevars, nofd>>
      BY <2>4, FlushAllStep DEF FlushAll
    <3>2. ASSUME NEW x \in Files PROVE Bytes(x)'
      <4>1. Putting(x)' \subseteq Putting(x)
        BY <3>1 DEF Putting, OnlyMoves, Alike
      <4>2. put[x] \in Nat
        BY DEF ListInv, Types
      <4>3. QED
        BY <3>1, <4>1, <4>2, BytesStay DEF BytesInv
    <3>3. QED
      BY <3>1, <3>2 DEF BytesInv
  <2>5. QED
    BY <1>1, <2>1, <2>2, <2>3, <2>4 DEF Call
<1>2. ASSUME NEW t \in Threads, Inside(t) PROVE BytesInv'
  <2>1. CASE AddLock(t) \/ RemoveLock(t) \/ AllLock(t)
    BY <2>1, ListLockStep, BytesPlain DEF AddLock, RemoveLock, AllLock, LockList
  <2>2. CASE AddNext(t) \/ AddHead(t) \/ RemoveWalk(t) \/ RemoveUnlink(t)
    BY <2>2, AddNextStep, AddHeadStep, RemoveWalkStep, RemoveUnlinkStep, BytesPlain
    DEF AddNext, AddHead, RemoveWalk, RemoveUnlink
  <2>3. CASE Lock(t) \/ Free(t)
    BY <2>3, LockStep, FreeStep, BytesPlain DEF Lock, Free
  <2>4. CASE FlushSize(t) \/ FlushWrite(t) \/ FlushFail(t) \/ FlushReset(t) \/ Put(t)
    BY <2>4, BytesFlush, BytesWrite, BytesPut
  <2>5. CASE FillStart(t) \/ FillRead(t)
    BY <2>5, FillStep, BytesPlain DEF FillStart, FillRead
  <2>6. CASE AllFile(t) \/ AllUnlock(t) \/ AllEnd(t)
    BY <2>6, AllFileStep, AllUnlockStep, AllEndStep, BytesPlain
    DEF AllFile, AllUnlock, AllEnd
  <2>7. CASE Unlock(t)
    BY <2>7, BytesUnlock
  <2>8. QED
    BY <1>2, <2>1, <2>2, <2>3, <2>4, <2>5, <2>6, <2>7 DEF Inside
<1>3. ASSUME UNCHANGED vars PROVE BytesInv'
  <2>1. ASSUME NEW x \in Files PROVE Bytes(x)'
    <3>1. \A u \in Threads : th'[u] = th[u]
      BY <1>3 DEF vars
    <3>2. Putting(x)' = Putting(x) /\ \A u \in Threads : Holds(u, x)' <=> Holds(u, x)
      BY <3>1 DEF Putting, Holds
    <3>3. /\ InOrder(x)' <=> InOrder(x)
          /\ Newest(x)' <=> Newest(x)
          /\ Enough(x, 0)' <=> Enough(x, 0)
          /\ Enough(x, Len(buf[x]))' <=> Enough(x, Len(buf[x]))
          /\ \A u \in Threads : Writing(u, x)' <=> Writing(u, x)
      BY <1>3 DEF vars, InOrder, Newest, Enough, Writing
    <3>4. Bytes(x) /\ put'[x] = put[x]
      BY <1>3 DEF vars, BytesInv
    <3>5. QED
      BY <3>1, <3>2, <3>3, <3>4 DEF Bytes
  <2>2. QED
    BY <1>3, <2>1 DEF vars, BytesInv
<1>4. QED
  BY <1>1, <1>2, <1>3 DEF Next, Finished

LEMMA BytesInit == Init => BytesInv
<1> SUFFICES ASSUME Init PROVE BytesInv
  OBVIOUS
<1>1. <<>> \in Seq(1 .. MaxPut)
  OBVIOUS
<1>2. buf \in [Files -> Seq(1 .. MaxPut)] /\ sent \in [Files -> Seq(1 .. MaxPut)]
  BY <1>1 DEF Init
<1>3. \A t \in Threads : th[t].due = FALSE /\ th[t].pc = "idle"
  BY IdleType DEF Init
<1>4. ASSUME NEW s \in Files PROVE Bytes(s)
  <2>1. buf[s] = <<>> /\ sent[s] = <<>> /\ put[s] = 0
    BY DEF Init
  <2>2. Putting(s) = {} /\ \A t \in Threads : ~Holds(t, s)
    BY <1>3 DEF Putting, Holds
  <2>3. Cardinality(Putting(s)) = 0
    BY <2>2, FS_EmptySet
  <2>4. QED
    BY <2>1, <2>2, <2>3 DEF Bytes, InOrder, Newest, Enough
<1>5. QED
  BY <1>2, <1>4 DEF BytesInv

\* What is in a buffer and what has been written make up what the program
\* put, at every place of flush_impl and whichever write fails, when getchar
\* flushes no terminal.
THEOREM BytesInvariant == ASSUME ~Tty PROVE Spec => [](ListInv /\ BytesInv)
<1>1. Init => ListInv /\ BytesInv
  BY ListInvInit, BytesInit
<1>2. (ListInv /\ BytesInv) /\ [Next]_vars => (ListInv /\ BytesInv)'
  BY ListInvStep, BytesStep
<1>3. QED
  BY <1>1, <1>2, PTL DEF Spec

LEMMA OneHolder ==
  ASSUME NEW S \in SUBSET Threads, NEW n \in {0, 1},
         \A t \in S : n = 1, \A t, u \in S : t = u, n = 1 => S # {}
  PROVE  n = Cardinality(S)
<1>1. CASE S = {}
  BY <1>1, FS_EmptySet
<1>2. CASE S # {}
  <2>1. PICK t \in S : S = {t}
    BY <1>2
  <2>2. QED
    BY <2>1, FS_Singleton
<1>3. QED
  BY <1>1, <1>2

\* Every variable has its type, and each lock counts the threads that hold
\* it: never two, and none when it is free.
THEOREM LocksAreHeld == ASSUME ~Tty PROVE Spec => []LocksHeld
<1>1. ListInv /\ BytesInv => LocksHeld
  <2> SUFFICES ASSUME ListInv, BytesInv PROVE LocksHeld
    OBVIOUS
  <2>1. TypeOK
    <3>1. put \in [Files -> 0 .. MaxPut]
      <4>1. ASSUME NEW s \in Files PROVE put[s] \in 0 .. MaxPut
        BY PuttingFinite, SMTT(20) DEF BytesInv, Bytes, ListInv, Types
      <4>2. QED
        BY <4>1 DEF ListInv, Types
    <3>2. \A t \in Threads : th[t].pc \in Places
      BY Fields DEF ListInv
    <3>3. QED
      BY <3>1, <3>2 DEF TypeOK, ListInv, Types, BytesInv
  <2>2. list_lock = Cardinality({t \in Threads : HoldsList(t)})
    <3> DEFINE S == {t \in Threads : HoldsList(t)}
    <3>1. /\ S \in SUBSET Threads /\ list_lock \in {0, 1}
          /\ \A t \in S : list_lock = 1
          /\ \A t, u \in S : t = u
          /\ list_lock = 1 => S # {}
      BY DEF ListInv, ListLocked, Types
    <3> HIDE DEF S
    <3>2. list_lock = Cardinality(S)
      BY <3>1, OneHolder
    <3>3. QED
      BY <3>2 DEF S
  <2>3. ASSUME NEW s \in Files
        PROVE  lock[s] = Cardinality({t \in Threads : Holds(t, s)})
    <3> DEFINE S == {t \in Threads : Holds(t, s)}
    <3>1. /\ S \in SUBSET Threads /\ lock[s] \in {0, 1}
          /\ \A t \in S : lock[s] = 1
          /\ \A t, u \in S : t = u
          /\ lock[s] = 1 => S # {}
      BY DEF ListInv, StreamsLocked, Types
    <3> HIDE DEF S
    <3>2. lock[s] = Cardinality(S)
      BY <3>1, OneHolder
    <3>3. QED
      BY <3>2 DEF S
  <2>4. QED
    BY <2>1, <2>2, <2>3 DEF LocksHeld
<1>2. QED
  BY <1>1, BytesInvariant, PTL

\* The bytes of a stream are written once and in the order they were put,
\* whoever flushes it and whenever write fails before it took anything of the
\* buffer, and what is not written is in the buffer.
THEOREM BytesAreSentInOrder ==
  ASSUME ~Tty, "partial" \notin Faults PROVE Spec => []SentOnceInOrder
<1>1. ListInv /\ BytesInv => SentOnceInOrder
  <2> SUFFICES ASSUME ListInv, BytesInv PROVE SentOnceInOrder
    OBVIOUS
  <2>1. ASSUME NEW s \in Files PROVE sent[s] = [i \in 1 .. Len(sent[s]) |-> i]
    BY DEF BytesInv, Bytes, InOrder, Whole
  <2>2. ASSUME NEW s \in usable, lock[s] = 0
        PROVE  sent[s] \o buf[s] = [i \in 1 .. put[s] |-> i]
    <3>1. s \in Files
      BY DEF ListInv, Types
    <3>2. \A t \in Threads : ~Holds(t, s)
      BY <2>2, <3>1 DEF ListInv, StreamsLocked
    <3>3. Enough(s, Len(buf[s])) /\ Newest(s) /\ InOrder(s) /\ Whole
      BY <3>1, <3>2 DEF BytesInv, Bytes, Whole
    <3>4. sent[s] \in Seq(1 .. MaxPut) /\ buf[s] \in Seq(1 .. MaxPut)
      BY <3>1 DEF BytesInv
    <3>5. PICK r : r = sent[s] \o buf[s]
      OBVIOUS
    <3>6. PICK m \in Nat, k \in Nat : m = Len(sent[s]) /\ k = Len(buf[s])
      BY <3>4
    <3>7. r \in Seq(1 .. MaxPut) /\ Len(r) = m + k
      BY <3>4, <3>5, <3>6
    <3>8. m + k = put[s] /\ \A i \in 1 .. k : buf[s][i] = m + i
      <4>1. m + k = put[s] /\ \A i \in 1 .. k : buf[s][i] = put[s] - k + i
        BY <3>3, <3>6 DEF Enough, Newest
      <4>2. QED
        BY <4>1
    <3>9. ASSUME NEW i \in 1 .. m + k PROVE r[i] = i
      <4>1. CASE i <= m
        <5>1. i \in 1 .. m /\ r[i] = sent[s][i]
          BY <3>4, <3>5, <3>6, <4>1
        <5>2. QED
          BY <3>3, <3>6, <5>1 DEF InOrder
      <4>2. CASE i > m
        <5>1. i - m \in 1 .. k /\ m + (i - m) = i
          BY <4>2
        <5>2. r[i] = buf[s][i - m]
          BY <3>4, <3>5, <3>6, <4>2
        <5>3. QED
          BY <3>8, <5>1, <5>2
      <4>3. QED
        BY <4>1, <4>2
    <3>10. r = [i \in 1 .. Len(r) |-> r[i]]
      BY <3>7
    <3>11. QED
      BY <3>5, <3>7, <3>8, <3>9, <3>10
  <2>3. QED
    BY <2>1, <2>2 DEF SentOnceInOrder
<1>2. QED
  BY <1>1, BytesInvariant, PTL

-----------------------------------------------------------------------------
(* What fflush(NULL) and exit owe.                                          *)

LEMMA WroteType ==
  ASSUME BytesInv, NEW s \in Files
  PROVE  Wrote(s) \in Nat
BY DEF BytesInv, Wrote

LEMMA CountsType ==
  ASSUME Types, Types', BytesInv, BytesInv'
  PROVE  /\ \A x \in Files : /\ Wrote(x) \in Nat /\ Wrote(x)' \in Nat
                             /\ put[x] \in Nat /\ put'[x] \in Nat
         /\ \A u \in Threads : \A x \in Files :
              th[u].mark[x] \in Nat /\ th'[u].mark[x] \in Nat
<1>1. \A x \in Files : Wrote(x) \in Nat
  BY WroteType
<1>2. \A x \in Files : Wrote(x)' \in Nat
  BY DEF BytesInv, Wrote
<1>3. \A x \in Files : put[x] \in Nat /\ put'[x] \in Nat
  BY DEF Types
<1>4. \A u \in Threads : \A x \in Files :
        th[u].mark[x] \in Nat /\ th'[u].mark[x] \in Nat
  <2>1. th \in [Threads -> Local] /\ th' \in [Threads -> Local]
    BY DEF Types
  <2>2. QED
    BY <2>1 DEF Local
<1>5. QED
  BY <1>1, <1>2, <1>3, <1>4

\* Nothing the streams in use have written is lost.
Grows == \A x \in usable : Wrote(x)' >= Wrote(x) /\ put'[x] >= put[x]

\* u owes no byte that it did not owe.
NoMore(u) ==
  \A x \in Files :
    \/ th'[u].mark[x] = 0
    \/ th'[u].mark[x] = th[u].mark[x] /\ (x \in th[u].failed => x \in th'[u].failed)

\* What was paid stays paid.
LEMMA StaysPaid ==
  ASSUME Types, Types', BytesInv, BytesInv', MarksInv, Grows,
         NEW u \in Threads, NoMore(u), NEW x \in Files, Paid(u, x)
  PROVE  Wrote(x)' >= th'[u].mark[x] \/ x \in th'[u].failed
<1>1. /\ Wrote(x) \in Nat /\ Wrote(x)' \in Nat
      /\ th[u].mark[x] \in Nat /\ th'[u].mark[x] \in Nat
  BY CountsType
<1>2. CASE th'[u].mark[x] = 0
  BY <1>1, <1>2
<1>3. CASE th'[u].mark[x] # 0
  <2>1. th'[u].mark[x] = th[u].mark[x] /\ (x \in th[u].failed => x \in th'[u].failed)
    BY <1>3 DEF NoMore
  <2>2. x \in usable
    BY <1>3, <2>1 DEF MarksInv, Owes
  <2>3. CASE x \in th[u].failed
    BY <2>1, <2>3
  <2>4. CASE Wrote(x) >= th[u].mark[x]
    <3>1. Wrote(x)' >= Wrote(x)
      BY <2>2 DEF Grows
    <3>2. QED
      BY <1>1, <2>1, <2>4, <3>1
  <2>5. QED
    BY <2>3, <2>4 DEF Paid
<1>4. QED
  BY <1>2, <1>3

\* What the steps of t leave to the other threads.
LEMMA MarksKept ==
  ASSUME ListInv, BytesInv, BytesInv', Types', MarksInv, NEW t \in Threads,
         OnlyMoves(t), ListStays \/ HoldsList(t), Grows, FailsMarked',
         \A u \in Threads : u # t => NoMore(u),
         \A x \in usable \ usable' : \A u \in Threads : th'[u].mark[x] = 0,
         Owes(t)',
         \A n \in Nat : \A q \in [1 .. n -> Files] : IsList(n, q)' =>
           (Scanning(t)' /\ th'[t].pc # "all" =>
              \A i \in 1 .. n + 1 : Passed(t, n, q, i)')
  PROVE  MarksInv'
<1>1. /\ \A x \in Files : put[x] \in Nat /\ put'[x] \in Nat
      /\ \A u \in Threads : \A x \in Files : th[u].mark[x] \in Nat
  BY CountsType DEF ListInv
<1>2. \A u \in Threads : u # t => /\ Scanning(u)' <=> Scanning(u)
                                  /\ th'[u].pc = th[u].pc /\ th'[u].p = th[u].p
  BY DEF OnlyMoves, Alike, Scanning
<1>3. ASSUME NEW u \in Threads, u # t, NEW x \in Files, Paid(u, x)
      PROVE  Wrote(x)' >= th'[u].mark[x] \/ x \in th'[u].failed
  BY <1>3, StaysPaid DEF ListInv
<1>4. ASSUME NEW u \in Threads, u # t PROVE Owes(u)'
  <2>1. ASSUME NEW x \in Files, th'[u].mark[x] # 0
        PROVE  Scanning(u)' /\ x \in usable' /\ th'[u].mark[x] <= put'[x]
    <3>1. th'[u].mark[x] = th[u].mark[x]
      BY <1>4, <2>1 DEF NoMore
    <3>2. Scanning(u) /\ x \in usable /\ th[u].mark[x] <= put[x]
      BY <2>1, <3>1 DEF MarksInv, Owes
    <3>3. x \in usable'
      BY <2>1, <3>2
    <3>4. th'[u].mark[x] <= put'[x]
      BY <1>1, <3>1, <3>2 DEF Grows
    <3>5. QED
      BY <1>2, <1>4, <3>2, <3>3, <3>4
  <2>2. ASSUME Scanning(u)', th'[u].pc \in {"reset", "unlock"}
        PROVE  Paid(u, th[u].p)'
    <3>1. PICK p : p = th[u].p /\ p = th'[u].p
      BY <1>2, <1>4
    <3>2. Scanning(u) /\ th[u].pc \in {"reset", "unlock"}
      BY <1>2, <1>4, <2>2
    <3>3. p \in Files
      BY <3>1, <3>2, Fields DEF ListInv, AtPlace, FlushPlaces
    <3>4. Paid(u, p)
      BY <3>1, <3>2 DEF MarksInv, Owes
    <3>5. Wrote(p)' >= th'[u].mark[p] \/ p \in th'[u].failed
      BY <1>3, <1>4, <3>3, <3>4
    <3>6. QED
      BY <3>1, <3>5 DEF Paid, Wrote
  <2>3. QED
    BY <2>1, <2>2 DEF Owes
<1>5. ASSUME NEW u \in Threads, u # t, Scanning(u)', th'[u].pc # "all",
             NEW n \in Nat, NEW q \in [1 .. n -> Files], IsList(n, q)',
             NEW i \in 1 .. n + 1
      PROVE  Passed(u, n, q, i)'
  <2>1. Scanning(u) /\ th[u].pc # "all" /\ th'[u].p = th[u].p
    BY <1>2, <1>5
  <2>2. HoldsList(u)
    BY <2>1 DEF HoldsList, Scanning
  <2>3. ListStays
    BY <1>5, <2>2 DEF ListInv, ListLocked
  <2>4. IsList(n, q)
    BY <1>5, <2>3, SameList
  <2>5. Passed(u, n, q, i)
    BY <2>1, <2>4 DEF MarksInv
  <2>6. ASSUME th[u].p = (IF i = n + 1 THEN Null ELSE q[i]), NEW j \in 1 .. i - 1
        PROVE  Wrote(q[j])' >= th'[u].mark[q[j]] \/ q[j] \in th'[u].failed
    <3>1. q[j] \in Files /\ Paid(u, q[j])
      BY <2>5, <2>6 DEF Passed
    <3>2. QED
      BY <1>3, <1>5, <3>1
  <2>7. QED
    BY <2>1, <2>6 DEF Passed, Paid, Wrote
<1>6. \A u \in Threads : Owes(u)'
  BY <1>4
<1>7. ASSUME NEW n \in Nat, NEW q \in [1 .. n -> Files], IsList(n, q)',
             NEW u \in Threads, Scanning(u)', th'[u].pc # "all",
             NEW i \in 1 .. n + 1
      PROVE  Passed(u, n, q, i)'
  <2>1. CASE u # t
    BY <1>5, <1>7, <2>1
  <2>2. CASE u = t
    BY <1>7, <2>2
  <2>3. QED
    BY <2>1, <2>2
<1>8. QED
  BY <1>6, <1>7 DEF MarksInv

\* No write fails in the step, and no stream in use loses its error flag.
LEMMA FailsKept ==
  ASSUME MarksInv, \A u \in Threads : th'[u].failed \subseteq th[u].failed,
         \A x \in usable : x \in err => x \in err',
         \A x \in usable \ usable' : \A u \in Threads : x \notin th'[u].failed
  PROVE  FailsMarked'
<1>1. \A u \in Threads : th[u].failed \subseteq err \cap usable
  BY DEF MarksInv, FailsMarked
<1>2. QED
  BY <1>1 DEF FailsMarked

LEMMA GrowsUnchanged ==
  ASSUME ListInv, BytesInv, UNCHANGED bytevars PROVE Grows
<1>1. \A x \in Files : Wrote(x) \in Nat /\ put[x] \in Nat
  BY WroteType DEF ListInv, Types
<1>2. \A x : Wrote(x)' = Wrote(x) /\ put'[x] = put[x]
  BY DEF Wrote
<1>3. \A m \in Nat : m >= m
  OBVIOUS
<1>4. QED
  BY <1>1, <1>2, <1>3 DEF Grows, ListInv, Types

LEMMA NoneMore ==
  ASSUME OwesNoMore PROVE \A u \in Threads : NoMore(u)
BY DEF OwesNoMore, NoMore

\* A step of a thread that is not in flush_all, or leaves it.
LEMMA MarksOutside ==
  ASSUME ListInv, BytesInv, BytesInv', Types', MarksInv, NEW t \in Threads,
         OnlyMoves(t), OwesNoMore, ListStays \/ HoldsList(t), Grows, FailsMarked',
         \A x \in usable \ usable' : \A u \in Threads : th'[u].mark[x] = 0,
         ~Scanning(t)', ~Scanning(t) \/ th'[t].mark = NoMark
  PROVE  MarksInv'
<1>1. \A x \in Files : th'[t].mark[x] = 0
  <2>1. CASE ~Scanning(t)
    BY <2>1 DEF MarksInv, Owes, OwesNoMore
  <2>2. CASE th'[t].mark = NoMark
    BY <2>2 DEF NoMark
  <2>3. QED
    BY <2>1, <2>2
<1>2. Owes(t)'
  BY <1>1 DEF Owes
<1>3. QED
  BY <1>2, NoneMore, MarksKept

\* A step of flush_all on the stream it has come to.
LEMMA MarksInside ==
  ASSUME ListInv, BytesInv, BytesInv', Types', MarksInv, NEW t \in Threads,
         OnlyMoves(t), OwesNoMore, ListStays, Grows, FailsMarked', usable' = usable,
         Scanning(t), Scanning(t)', th[t].pc # "all",
         th'[t].p = th[t].p, th[t].p \in Files,
         th'[t].pc \in {"reset", "unlock"} =>
           \/ Wrote(th[t].p)' >= put'[th[t].p]
           \/ th[t].p \in th'[t].failed
           \/ th[t].p \notin usable
  PROVE  MarksInv'
<1>1. PICK p \in Files : p = th[t].p /\ p = th'[t].p
  OBVIOUS
<1>2. /\ \A x \in Files : /\ Wrote(x)' \in Nat
                          /\ put[x] \in Nat /\ put'[x] \in Nat
      /\ \A x \in Files : th[t].mark[x] \in Nat /\ th'[t].mark[x] \in Nat
  BY CountsType DEF ListInv
<1>3. \A x \in Files : th'[t].mark[x] # 0 => x \in usable /\ th'[t].mark[x] <= put'[x]
  <2>1. ASSUME NEW x \in Files, th'[t].mark[x] # 0
        PROVE  x \in usable /\ th'[t].mark[x] <= put'[x]
    <3>1. th'[t].mark[x] = th[t].mark[x]
      BY <2>1 DEF OwesNoMore
    <3>2. x \in usable /\ th[t].mark[x] <= put[x]
      BY <2>1, <3>1 DEF MarksInv, Owes
    <3>3. QED
      BY <1>2, <3>1, <3>2 DEF Grows
  <2>2. QED
    BY <2>1
<1>4. th'[t].pc \in {"reset", "unlock"} => Paid(t, th[t].p)'
  <2>1. SUFFICES ASSUME th'[t].pc \in {"reset", "unlock"} PROVE Paid(t, th[t].p)'
    OBVIOUS
  <2>2. Wrote(p)' >= put'[p] \/ p \in th'[t].failed \/ p \notin usable
    BY <1>1, <2>1 DEF Wrote
  <2>3. Wrote(p)' >= th'[t].mark[p] \/ p \in th'[t].failed
    <3>1. CASE th'[t].mark[p] = 0
      BY <1>2, <3>1
    <3>2. CASE th'[t].mark[p] # 0
      <4>1. p \in usable /\ th'[t].mark[p] <= put'[p]
        BY <1>3, <3>2
      <4>2. QED
        BY <1>2, <2>2, <4>1
    <3>3. QED
      BY <3>1, <3>2
  <2>4. QED
    BY <1>1, <2>3 DEF Paid, Wrote
<1>5. Owes(t)'
  BY <1>3, <1>4 DEF Owes
<1>6. ASSUME NEW n \in Nat, NEW q \in [1 .. n -> Files], IsList(n, q)',
             NEW i \in 1 .. n + 1
      PROVE  Passed(t, n, q, i)'
  <2>1. Passed(t, n, q, i)
    BY <1>6, SameList DEF MarksInv
  <2>2. ASSUME p = (IF i = n + 1 THEN Null ELSE q[i]), NEW j \in 1 .. i - 1
        PROVE  Wrote(q[j])' >= th'[t].mark[q[j]] \/ q[j] \in th'[t].failed
    <3>1. q[j] \in Files /\ Paid(t, q[j])
      BY <1>1, <2>1, <2>2 DEF Passed
    <3>2. QED
      BY <3>1, NoneMore, StaysPaid DEF ListInv
  <2>3. QED
    BY <1>1, <2>2 DEF Passed, Paid, Wrote
<1>7. QED
  BY <1>5, <1>6, NoneMore, MarksKept

\* The error flags and the streams in use stay.
LEMMA FailsUnchanged ==
  ASSUME MarksInv, OwesLess, UNCHANGED <<usable, err>> PROVE FailsMarked'
BY FailsKept DEF OwesLess

\* flush_all begins its walk: it has passed no stream.
LEMMA MarksBegin ==
  ASSUME ListInv, ListInv', BytesInv, BytesInv', MarksInv, NEW t \in Threads,
         OnlyMoves(t), OwesLess, ListStays, UNCHANGED <<bytevars, usable, err>>,
         Scanning(t), th'[t].pc = "each", th'[t].p = head
  PROVE  MarksInv'
<1>1. Grows /\ FailsMarked'
  BY GrowsUnchanged, FailsUnchanged
<1>2. \A x \in Files : th'[t].mark[x] # 0 => th[t].mark[x] # 0 /\ th'[t].mark[x] = th[t].mark[x]
  BY DEF OwesLess, OwesNoMore
<1>3. Scanning(t)'
  <2>1. (th[t].pc = "each" => Scanning(t))'
    BY DEF ListInv, AtPlace, MayBeAt, FlushPlaces, Scanning
  <2>2. QED
    BY <2>1
<1>4. Owes(t)'
  BY <1>2, <1>3 DEF MarksInv, Owes
<1>5. ASSUME NEW n \in Nat, NEW q \in [1 .. n -> Files], IsList(n, q)',
             NEW i \in 1 .. n + 1
      PROVE  Passed(t, n, q, i)'
  <2>1. IsList(n, q)
    BY <1>5, SameList
  <2>2. head = (IF n = 0 THEN Null ELSE q[1])
    BY <2>1 DEF IsList
  <2>3. SUFFICES ASSUME head = (IF i = n + 1 THEN Null ELSE q[i]) PROVE i = 1
    BY DEF Passed
  <2>4. CASE n = 0
    BY <2>4
  <2>5. CASE n # 0
    <3>1. 1 \in 1 .. n /\ q[1] \in Files /\ head = q[1]
      BY <2>2, <2>5
    <3>2. i # n + 1 /\ i \in 1 .. n /\ q[i] = q[1]
      BY <2>3, <3>1
    <3>3. \A j, l \in 1 .. n : q[j] = q[l] => j = l
      BY <2>1 DEF IsList
    <3>4. QED
      BY <3>1, <3>2, <3>3
  <2>6. QED
    BY <2>4, <2>5
<1>6. \A u \in Threads : NoMore(u)
  BY NoneMore DEF OwesLess
<1>7. QED
  BY <1>1, <1>4, <1>5, <1>6, MarksKept DEF ListInv

\* It goes on from a stream to which it owes nothing any more.
LEMMA MarksGoOn ==
  ASSUME ListInv, ListInv', BytesInv, BytesInv', MarksInv, NEW t \in Threads,
         AllUnlock(t)
  PROVE  MarksInv'
<1>1. /\ OnlyMoves(t) /\ OwesLess /\ ListStays /\ Scanning(t)
      /\ th[t].pc = "unlock" /\ th'[t].pc = "each" /\ th'[t].p = next[th[t].p]
      /\ th[t].p \in Files
  BY AllUnlockStep DEF Plain
<1>2. UNCHANGED <<bytevars, usable, err>>
  BY DEF AllUnlock
<1>3. PICK p \in Files : p = th[t].p
  BY <1>1
<1>4. Grows /\ FailsMarked'
  BY <1>1, <1>2, GrowsUnchanged, FailsUnchanged
<1>5. \A u \in Threads : NoMore(u)
  BY <1>1, NoneMore DEF OwesLess
<1>6. Scanning(t)'
  <2>1. (th[t].pc = "each" => Scanning(t))'
    BY DEF ListInv, AtPlace, MayBeAt, FlushPlaces, Scanning
  <2>2. QED
    BY <1>1, <2>1
<1>7. Owes(t)'
  <2>1. \A x \in Files : th'[t].mark[x] # 0 =>
          th[t].mark[x] # 0 /\ th'[t].mark[x] = th[t].mark[x]
    BY <1>5 DEF NoMore
  <2>2. QED
    BY <1>1, <1>2, <1>6, <2>1 DEF MarksInv, Owes
<1>8. Paid(t, p)
  BY <1>1, <1>3 DEF MarksInv, Owes
<1>9. ASSUME NEW n \in Nat, NEW q \in [1 .. n -> Files], IsList(n, q)',
             NEW i \in 1 .. n + 1
      PROVE  Passed(t, n, q, i)'
  <2>1. IsList(n, q)
    BY <1>1, <1>9, SameList
  <2>2. Listed(p)
    <3>1. PICK m \in Nat : \E r \in [1 .. m -> Files] :
            IsList(m, r) /\ \A u \in Threads : WalksAt(u, m, r)
      BY DEF ListInv, TheList
    <3>2. PICK r \in [1 .. m -> Files] : IsList(m, r) /\ WalksAt(t, m, r)
      BY <3>1
    <3>3. \E l \in 1 .. m : p = r[l]
      BY <1>1, <1>3, <3>2 DEF WalksAt
    <3>4. QED
      BY <3>2, <3>3 DEF IsList
  <2>3. PICK k \in 1 .. n : q[k] = p
    BY <2>1, <2>2 DEF IsList
  <2>4. th'[t].p = IF k = n THEN Null ELSE q[k + 1]
    BY <1>1, <1>3, <2>1, <2>3 DEF IsList
  <2>5. ASSUME th'[t].p = (IF i = n + 1 THEN Null ELSE q[i])
        PROVE  i = k + 1
    <3>1. CASE k = n
      BY <2>4, <2>5, <3>1
    <3>2. CASE k # n
      <4>1. k + 1 \in 1 .. n /\ th'[t].p = q[k + 1] /\ q[k + 1] \in Files
        BY <2>4, <3>2
      <4>2. i # n + 1 /\ i \in 1 .. n /\ q[i] = q[k + 1]
        BY <2>5, <4>1
      <4>3. QED
        BY <2>1, <4>1, <4>2 DEF IsList
    <3>3. QED
      BY <3>1, <3>2
  <2>6. Passed(t, n, q, k)
    BY <1>1, <2>1 DEF MarksInv
  <2>7. \A j \in 1 .. k : q[j] \in Files /\ Paid(t, q[j])
    <3>1. \A j \in 1 .. k - 1 : Paid(t, q[j])
      BY <1>3, <2>3, <2>6 DEF Passed
    <3>2. \A j \in 1 .. k : j \in 1 .. k - 1 \/ j = k
      OBVIOUS
    <3>3. QED
      BY <1>8, <2>3, <3>1, <3>2
  <2>8. \A j \in 1 .. k : Wrote(q[j])' >= th'[t].mark[q[j]] \/ q[j] \in th'[t].failed
    BY <1>4, <1>5, <2>7, StaysPaid DEF ListInv
  <2>9. QED
    BY <2>5, <2>8 DEF Passed, Paid, Wrote
<1>10. QED
  BY <1>1, <1>2, <1>4, <1>5, <1>7, <1>9, MarksKept DEF ListInv

LEMMA MarksFlushAll ==
  ASSUME ListInv, ListInv', BytesInv, BytesInv', MarksInv, NEW t \in Threads,
         NEW op \in {"flush_all", "exit"}, FlushAll(t, op)
  PROVE  MarksInv'
<1>1. /\ OnlyMoves(t) /\ ListStays /\ th'[t].pc = "all" /\ Scanning(t)'
      /\ \A x \in Files : th'[t].mark[x] = IF x \in usable THEN put[x] ELSE 0
      /\ th'[t].failed = {} /\ \A u \in Threads : u # t => th'[u] = th[u]
  BY FlushAllStep
<1>2. UNCHANGED <<bytevars, usable, err>>
  BY DEF FlushAll
<1>3. Grows /\ FailsMarked'
  BY <1>1, <1>2, GrowsUnchanged, FailsKept
<1>4. Owes(t)'
  <2>1. \A x \in Files : put[x] \in Nat /\ put'[x] = put[x]
    BY <1>2 DEF ListInv, Types
  <2>2. QED
    BY <1>1, <1>2, <2>1 DEF Owes
<1>5. \A u \in Threads : u # t => NoMore(u)
  BY <1>1 DEF NoMore
<1>6. QED
  BY <1>1, <1>2, <1>3, <1>4, <1>5, MarksKept DEF ListInv

\* The steps of flush_impl: what is written grows, and when nothing is left
\* to write everything that was put is.
LEMMA WroteGrows ==
  ASSUME ~Tty, ListInv, BytesInv, BytesInv', NEW t \in Threads,
         FlushSize(t) \/ FlushWrite(t) \/ FlushFail(t) \/ FlushReset(t)
  PROVE  /\ \A x \in Files : Wrote(x)' >= Wrote(x)
         /\ Scanning(t) /\ th'[t].pc \in {"reset", "unlock"} /\ ~FlushFail(t) =>
              \A x \in Files : x = Target(t) => Wrote(x)' >= put'[x]
<1>1. PICK s : s = Target(t)
  OBVIOUS
<1>2. /\ th[t].pc \in {"flush", "write", "reset"} /\ Inward(t) /\ OnlyMoves(t)
      /\ put' = put
  BY FlushSizeStep, FlushWriteStep, FlushFailStep, FlushResetStep
  DEF Inward, FlushSize, FlushWrite, FlushFail, FlushReset
<1>3. /\ s \in Files /\ Holds(t, s) /\ (Scanning(t) => After(t) = "unlock")
      /\ \A u \in Threads : Holds(u, s) => u = t
  BY <1>1, <1>2, FlushTarget
<1>4. \A x \in Files : Wrote(x) \in Nat /\ Wrote(x)' \in Nat /\ put[x] \in Nat
  <2>1. \A x \in Files : Wrote(x)' \in Nat
    BY DEF BytesInv, Wrote
  <2>2. QED
    BY <2>1, WroteType DEF ListInv, Types
<1>5. Bytes(s) /\ Bytes(s)' /\ sent \in [Files -> Seq(1 .. MaxPut)]
      /\ buf[s] \in Seq(1 .. MaxPut)
  BY <1>3 DEF BytesInv
<1>6. sent' = sent => \A x \in Files : Wrote(x)' = Wrote(x) /\ Wrote(x)' >= Wrote(x)
  BY <1>4 DEF Wrote
<1>7. Wrote(s)' >= put[s] => \A x \in Files : x = Target(t) => Wrote(x)' >= put'[x]
  BY <1>1, <1>2
<1>8. CASE FlushSize(t)
  <2>1. th[t].pc = "flush" /\ sent' = sent
    BY <1>8 DEF FlushSize
  <2>2. Enough(s, Len(buf[s]))
    BY <1>3, <1>5, <2>1 DEF Bytes
  <2>3. IF buf[s] = <<>> THEN th'[t].pc = After(t) ELSE th'[t].pc = "write"
    BY <1>1, <1>8, FlushSizeStep
  <2>4. buf[s] = <<>> => Wrote(s) >= put[s]
    <3>1. Wrote(s) + Len(buf[s]) >= put[s] /\ Len(<<>>) = 0
      BY <2>2 DEF Enough, Wrote
    <3>2. QED
      BY <1>3, <1>4, <3>1
  <2>5. QED
    BY <1>3, <1>6, <1>7, <2>1, <2>3, <2>4
<1>9. CASE FlushWrite(t)
  <2>1. PICK n \in 1 .. Len(th[t].rest) :
          /\ sent' = [sent EXCEPT ![s] = @ \o SubSeq(th[t].rest, 1, n)]
          /\ th'[t].pc = IF n = Len(th[t].rest) THEN "reset" ELSE "write"
    BY <1>1, <1>9, FlushWriteStep
  <2>2. th[t].pc = "write" /\ Writing(t, s)
    BY <1>3, <1>5, <1>9, FlushWriteStep DEF Bytes
  <2>3. PICK q \in Seq(1 .. MaxPut) : q = SubSeq(th[t].rest, 1, n)
    <3>1. th[t].rest \in Seq(1 .. MaxPut)
      BY <2>2 DEF Writing
    <3>2. SubSeq(th[t].rest, 1, n) \in Seq(1 .. MaxPut)
      BY <3>1, TakenAndLeft, Zenon
    <3>3. QED
      BY <3>2, Zenon
  <2>4. \A x, y \in Seq(1 .. MaxPut) : Len(x \o y) >= Len(x)
    OBVIOUS
  <2>5. sent' = [sent EXCEPT ![s] = sent[s] \o q]
    BY <2>1, <2>3
  <2>6. \A x \in Files : Wrote(x)' >= Wrote(x)
    <3>1. ASSUME NEW x \in Files PROVE Len(sent'[x]) >= Len(sent[x])
      <4>1. CASE x = s
        BY <1>5, <2>4, <2>5, <4>1
      <4>2. CASE x # s
        <5>1. sent'[x] = sent[x] /\ Len(sent[x]) \in Nat
          BY <1>5, <2>5, <4>2
        <5>2. QED
          BY <5>1
      <4>3. QED
        BY <4>1, <4>2
    <3>2. QED
      BY <3>1 DEF Wrote
  <2>7. th'[t].pc = "reset" => Wrote(s)' >= put[s]
    <3>1. SUFFICES ASSUME th'[t].pc = "reset" PROVE Wrote(s)' >= put[s]
      OBVIOUS
    <3>2. Holds(t, s)'
      BY <1>2, <1>3, <3>1 DEF Inward, Holds
    <3>3. Enough(s, 0)'
      BY <1>5, <3>1, <3>2 DEF Bytes
    <3>4. QED
      BY <1>2, <1>3, <1>4, <3>3 DEF Enough, Wrote
  <2>8. QED
    BY <1>7, <2>1, <2>6, <2>7
<1>10. CASE FlushFail(t)
  BY <1>6, <1>10 DEF FlushFail
<1>11. CASE FlushReset(t)
  <2>1. th[t].pc = "reset" /\ sent' = sent
    BY <1>11, FlushResetStep DEF FlushReset
  <2>2. Enough(s, 0)
    BY <1>3, <1>5, <2>1 DEF Bytes
  <2>3. Wrote(s) >= put[s]
    BY <1>3, <1>4, <2>2 DEF Enough, Wrote
  <2>4. QED
    BY <1>3, <1>6, <1>7, <2>1, <2>3
<1>12. QED
  BY <1>8, <1>9, <1>10, <1>11

\* Only a write that fails leaves the stream with something to write, and it
\* sets the stream's error flag.
LEMMA MarksFlush ==
  ASSUME ~Tty, ListInv, ListInv', BytesInv, BytesInv', MarksInv, NEW t \in Threads,
         FlushSize(t) \/ FlushWrite(t) \/ FlushFail(t) \/ FlushReset(t)
  PROVE  MarksInv'
<1>1. PICK s : s = Target(t)
  OBVIOUS
<1>2. /\ th[t].pc \in {"flush", "write", "reset"} /\ Inward(t) /\ OnlyMoves(t)
      /\ OwesNoMore /\ ListStays /\ put' = put /\ usable' = usable
  BY FlushSizeStep, FlushWriteStep, FlushFailStep, FlushResetStep
  DEF Inward, FlushSize, FlushWrite, FlushFail, FlushReset
<1>3. s \in Files /\ (Scanning(t) => s = th[t].p)
  BY <1>1, <1>2, FlushTarget
<1>4. Grows
  <2>1. \A x \in Files : Wrote(x)' >= Wrote(x) /\ put[x] \in Nat
    BY WroteGrows DEF ListInv, Types
  <2>2. \A x \in usable : x \in Files
    BY DEF ListInv, Types
  <2>3. \A m \in Nat : m >= m
    OBVIOUS
  <2>4. QED
    BY <1>2, <2>1, <2>2, <2>3 DEF Grows
<1>5. FailsMarked' /\ (FlushFail(t) => s \in th'[t].failed \/ s \notin usable)
  <2>1. CASE FlushFail(t)
    <3>1. /\ err' = err \cup {s} /\ th'[t].failed = th[t].failed \cup ({s} \cap usable)
          /\ \A u \in Threads : u # t => th'[u] = th[u]
      BY <1>1, <2>1, FlushFailStep
    <3>2. FailsMarked
      BY DEF MarksInv
    <3>3. QED
      BY <1>2, <3>1, <3>2 DEF FailsMarked
  <2>2. CASE ~FlushFail(t)
    <3>1. OwesLess /\ err' = err
      BY <2>2, FlushSizeStep, FlushWriteStep, FlushResetStep
      DEF FlushSize, FlushWrite, FlushReset
    <3>2. QED
      BY <1>2, <2>2, <3>1, FailsUnchanged
  <2>3. QED
    BY <2>1, <2>2
<1>6. CASE Scanning(t)
  <2>1. Scanning(t)' /\ th[t].pc # "all" /\ th'[t].p = th[t].p /\ th[t].p \in Files
    BY <1>2, <1>3, <1>6 DEF Inward, Scanning
  <2>2. th'[t].pc \in {"reset", "unlock"} =>
          \/ Wrote(th[t].p)' >= put'[th[t].p]
          \/ th[t].p \in th'[t].failed
          \/ th[t].p \notin usable
    <3>1. SUFFICES ASSUME th'[t].pc \in {"reset", "unlock"}, ~FlushFail(t)
                   PROVE  Wrote(th[t].p)' >= put'[th[t].p]
      BY <1>3, <1>5, <1>6
    <3>2. th[t].p = s /\ th'[t].p = s
      BY <1>2, <1>3, <1>6 DEF Inward
    <3>3. Wrote(s)' >= put'[s]
      BY <1>1, <1>3, <1>6, <3>1, WroteGrows
    <3>4. QED
      BY <3>2, <3>3 DEF Wrote
  <2>3. QED
    BY <1>2, <1>4, <1>5, <1>6, <2>1, <2>2, MarksInside DEF ListInv
<1>7. CASE ~Scanning(t)
  <2>1. ~Scanning(t)'
    BY <1>2, <1>7 DEF Inward, Scanning
  <2>2. QED
    BY <1>2, <1>4, <1>5, <1>7, <2>1, MarksOutside DEF ListInv
<1>8. QED
  BY <1>6, <1>7

\* The steps that leave the bytes alone and take no stream out of use.
LEMMA MarksPlain ==
  ASSUME ListInv, ListInv', BytesInv, BytesInv', MarksInv, NEW t \in Threads,
         Plain(t), ListStays \/ HoldsList(t), UNCHANGED <<bytevars, err>>,
         usable \subseteq usable',
         ~Scanning(t)', ~Scanning(t) \/ th'[t].mark = NoMark
  PROVE  MarksInv'
<1>1. Grows
  BY GrowsUnchanged
<1>2. FailsMarked'
  BY FailsKept DEF Plain, OwesLess
<1>3. QED
  BY <1>1, <1>2, MarksOutside DEF Plain, OwesLess, ListInv

LEMMA MarksCall ==
  ASSUME ListInv, ListInv', BytesInv, BytesInv', MarksInv, NEW t \in Threads,
         Call(t)
  PROVE  MarksInv'
<1>1. CASE Fopen(t)
  <2>1. PICK s : s = CHOOSE x \in Files \ alive : TRUE
    OBVIOUS
  <2>2. /\ Plain(t) /\ ListStays /\ ~Scanning(t) /\ ~Scanning(t)'
        /\ usable' = usable
    BY <1>1, FopenStep DEF Fopen
  <2>3. s \notin usable
    BY <1>1, <2>1 DEF Fopen, ListInv, Types
  <2>4. /\ sent' = [sent EXCEPT ![s] = <<>>]
        /\ put' = [put EXCEPT ![s] = 0]
    BY <1>1, <2>1 DEF Fopen
  <2>5. \A x \in usable : sent'[x] = sent[x] /\ put'[x] = put[x] /\ x \in Files
    BY <2>3, <2>4 DEF ListInv, Types, BytesInv
  <2>6. Grows
    <3>1. \A x \in Files : Wrote(x) \in Nat /\ put[x] \in Nat
      BY WroteType DEF ListInv, Types
    <3>2. \A m \in Nat : m >= m
      OBVIOUS
    <3>3. \A x \in usable : Wrote(x)' = Wrote(x)
      BY <2>5 DEF Wrote
    <3>4. QED
      BY <2>5, <3>1, <3>2, <3>3 DEF Grows
  <2>7. FailsMarked'
    <3>1. err' = err \ {s}
      BY <1>1, <2>1 DEF Fopen
    <3>2. \A x \in usable : x \in err => x \in err'
      BY <2>3, <3>1
    <3>3. QED
      BY <2>2, <3>2, FailsKept DEF Plain, OwesLess
  <2>8. QED
    BY <2>2, <2>6, <2>7, MarksOutside DEF Plain, OwesLess, ListInv
<1>2. CASE Fputc(t) \/ Fflush(t) \/ Getchar(t)
  <2>1. /\ ListStays /\ OnlyMoves(t) /\ OwesLess /\ ~Scanning(t) /\ ~Scanning(t)'
    BY <1>2, CallStep
  <2>2. UNCHANGED <<bytevars, usable, err>>
    BY <1>2 DEF Fputc, Fflush, Getchar
  <2>3. Grows /\ FailsMarked'
    BY <2>1, <2>2, GrowsUnchanged, FailsUnchanged
  <2>4. QED
    BY <2>1, <2>2, <2>3, MarksOutside DEF OwesLess, ListInv
<1>3. CASE Fclose(t) \/ Freopen(t)
  <2>1. /\ ListStays /\ Plain(t) /\ ~Scanning(t) /\ ~Scanning(t)'
        /\ \A s \in usable \ usable' : \A u \in Threads :
             th'[u].mark[s] = 0 /\ s \notin th'[u].failed
    BY <1>3, ForgetStep
  <2>2. UNCHANGED <<bytevars, err>>
    BY <1>3 DEF Fclose, Freopen, Forget
  <2>3. Grows
    BY <2>2, GrowsUnchanged
  <2>4. FailsMarked'
    BY <2>1, <2>2, FailsKept DEF Plain, OwesLess
  <2>5. QED
    BY <2>1, <2>3, <2>4, MarksOutside DEF Plain, OwesLess, ListInv
<1>4. ASSUME NEW op \in {"flush_all", "exit"}, FlushAll(t, op) PROVE MarksInv'
  BY <1>4, MarksFlushAll
<1>5. QED
  BY <1>1, <1>2, <1>3, <1>4 DEF Call

\* freopen gives another file only to a stream that is not in use.
LEMMA MarksUnlock ==
  ASSUME ListInv, ListInv', BytesInv, BytesInv', MarksInv, NEW t \in Threads,
         Unlock(t)
  PROVE  MarksInv'
<1>1. /\ ListStays /\ Plain(t) /\ ~Scanning(t) /\ ~Scanning(t)'
      /\ usable \subseteq usable' /\ th[t].file \in Files
      /\ \/ UNCHANGED <<bytevars, err>>
         \/ /\ th[t].op = "freopen"
            /\ sent' = [sent EXCEPT ![th[t].file] = <<>>]
            /\ put' = [put EXCEPT ![th[t].file] = 0]
            /\ err' = err \ {th[t].file}
  BY UnlockStep
<1>2. CASE UNCHANGED <<bytevars, err>>
  BY <1>1, <1>2, MarksPlain
<1>3. CASE ~UNCHANGED <<bytevars, err>>
  <2>1. PICK s \in Files : s = th[t].file
    BY <1>1
  <2>2. /\ sent' = [sent EXCEPT ![s] = <<>>] /\ put' = [put EXCEPT ![s] = 0]
        /\ err' = err \ {s} /\ s \notin usable
    BY <1>1, <1>3, <2>1 DEF ListInv, AtPlace
  <2>3. \A x \in usable : /\ sent'[x] = sent[x] /\ put'[x] = put[x] /\ x \in Files
                          /\ x \in err => x \in err'
    BY <2>2 DEF ListInv, Types, BytesInv
  <2>4. Grows
    <3>1. \A x \in Files : Wrote(x) \in Nat /\ put[x] \in Nat
      BY WroteType DEF ListInv, Types
    <3>2. \A m \in Nat : m >= m
      OBVIOUS
    <3>3. \A x \in usable : Wrote(x)' = Wrote(x)
      BY <2>3 DEF Wrote
    <3>4. QED
      BY <2>3, <3>1, <3>2, <3>3 DEF Grows
  <2>5. FailsMarked'
    BY <1>1, <2>3, FailsKept DEF Plain, OwesLess
  <2>6. QED
    BY <1>1, <2>4, <2>5, MarksOutside DEF Plain, OwesLess, ListInv
<1>4. QED
  BY <1>2, <1>3

LEMMA MarksInward ==
  ASSUME ~Tty, ListInv, ListInv', BytesInv, BytesInv', MarksInv,
         NEW t \in Threads, Inside(t)
  PROVE  MarksInv'
<1>1. CASE AddLock(t) \/ RemoveLock(t) \/ AllLock(t)
  <2>1. /\ ListStays /\ Plain(t) /\ th'[t].op = th[t].op
        /\ Scanning(t) => th'[t].pc = "each" /\ th'[t].p = head
    BY <1>1, ListLockStep
  <2>2. UNCHANGED <<bytevars, usable, err>>
    BY <1>1 DEF AddLock, RemoveLock, AllLock, LockList
  <2>3. CASE Scanning(t)
    BY <2>1, <2>2, <2>3, MarksBegin DEF Plain
  <2>4. CASE ~Scanning(t)
    <3>1. ~Scanning(t)'
      BY <2>1, <2>4 DEF Scanning
    <3>2. QED
      BY <2>1, <2>2, <2>4, <3>1, MarksPlain
  <2>5. QED
    BY <2>3, <2>4
<1>2. CASE AddNext(t) \/ AddHead(t) \/ RemoveWalk(t) \/ RemoveUnlink(t)
  <2>1. /\ ListStays \/ HoldsList(t)
        /\ Plain(t) /\ ~Scanning(t) /\ ~Scanning(t)'
    BY <1>2, AddNextStep, AddHeadStep, RemoveWalkStep, RemoveUnlinkStep
  <2>2. UNCHANGED <<bytevars, err>> /\ usable \subseteq usable'
    BY <1>2 DEF AddNext, AddHead, RemoveWalk, RemoveUnlink, memvars
  <2>3. QED
    BY <2>1, <2>2, MarksPlain
<1>3. CASE Lock(t) \/ Free(t) \/ FillStart(t) \/ FillRead(t)
  <2>1. ListStays /\ Plain(t) /\ ~Scanning(t) /\ ~Scanning(t)'
    BY <1>3, LockStep, FreeStep, FillStep
  <2>2. UNCHANGED <<bytevars, usable, err>>
    BY <1>3 DEF Lock, Free, FillStart, FillRead
  <2>3. QED
    BY <2>1, <2>2, MarksPlain
<1>4. CASE Put(t)
  <2>1. /\ ListStays /\ Inward(t) /\ OwesLess /\ th[t].op = "fputc"
        /\ th[t].file \in Files
        /\ \/ put' = put
           \/ put' = [put EXCEPT ![th[t].file] = @ + 1]
    BY <1>4, PutStep
  <2>2. ~Scanning(t) /\ ~Scanning(t)'
    BY <2>1 DEF Inward, Scanning
  <2>3. UNCHANGED <<usable, sent, err>>
    BY <1>4 DEF Put
  <2>4. Grows
    <3>1. \A x \in usable : x \in Files
      BY DEF ListInv, Types
    <3>2. \A x \in Files : Wrote(x) \in Nat
      BY WroteType
    <3>3. \A x \in Files : Wrote(x)' = Wrote(x)
      BY <2>3 DEF Wrote
    <3>4. \A x \in Files : put[x] \in Nat /\ put'[x] \in {put[x], put[x] + 1}
      BY <2>1 DEF ListInv, Types
    <3>5. \A m \in Nat : m >= m /\ m + 1 >= m
      OBVIOUS
    <3>6. QED
      BY <3>1, <3>2, <3>3, <3>4, <3>5 DEF Grows
  <2>5. FailsMarked'
    BY <2>1, <2>3, FailsUnchanged
  <2>6. QED
    BY <2>1, <2>2, <2>3, <2>4, <2>5, MarksOutside DEF Inward, ListInv
<1>5. CASE FlushSize(t) \/ FlushWrite(t) \/ FlushFail(t) \/ FlushReset(t)
  BY <1>5, MarksFlush
<1>6. CASE AllFile(t)
  <2>1. /\ ListStays /\ Plain(t) /\ Scanning(t) /\ th[t].pc = "each"
        /\ th'[t].pc = "flush" /\ th'[t].p = th[t].p
    BY <1>6, AllFileStep
  <2>2. UNCHANGED <<bytevars, usable, err>> /\ th[t].p # Null
    BY <1>6 DEF AllFile
  <2>3. th[t].p \in Files
    BY <2>2, Fields DEF ListInv
  <2>4. Scanning(t)'
    <3>1. (th[t].pc = "flush" /\ th[t].p # Null => Scanning(t))'
      BY DEF ListInv, AtPlace
    <3>2. QED
      BY <2>1, <2>2, <3>1
  <2>5. Grows /\ FailsMarked'
    BY <2>1, <2>2, GrowsUnchanged, FailsUnchanged DEF Plain
  <2>6. QED
    BY <2>1, <2>2, <2>3, <2>4, <2>5, MarksInside DEF Plain, OwesLess, ListInv
<1>7. CASE AllUnlock(t)
  BY <1>7, MarksGoOn
<1>8. CASE AllEnd(t)
  <2>1. ListStays /\ Plain(t) /\ ~Scanning(t)' /\ th'[t].mark = NoMark
    BY <1>8, AllEndStep
  <2>2. UNCHANGED <<bytevars, usable, err>>
    BY <1>8 DEF AllEnd
  <2>3. QED
    BY <2>1, <2>2, MarksPlain
<1>9. CASE Unlock(t)
  BY <1>9, MarksUnlock
<1>10. QED
  BY <1>1, <1>2, <1>3, <1>4, <1>5, <1>6, <1>7, <1>8, <1>9 DEF Inside

LEMMA MarksStep ==
  ASSUME ~Tty PROVE ListInv /\ BytesInv /\ MarksInv /\ [Next]_vars => MarksInv'
<1> SUFFICES ASSUME ListInv, BytesInv, MarksInv, [Next]_vars PROVE MarksInv'
  OBVIOUS
<1>1. ListInv' /\ BytesInv'
  BY ListInvStep, BytesStep
<1>2. ASSUME NEW t \in Threads, Call(t) \/ Inside(t) PROVE MarksInv'
  BY <1>1, <1>2, MarksCall, MarksInward
<1>3. ASSUME UNCHANGED vars PROVE MarksInv'
  <2>1. \A t \in Threads : Owes(t)'
    BY <1>3 DEF vars, MarksInv, Owes, Paid, Wrote, Scanning
  <2>2. ASSUME NEW n \in Nat, NEW q \in [1 .. n -> Files], IsList(n, q)',
               NEW t \in Threads, Scanning(t)', th'[t].pc # "all",
               NEW i \in 1 .. n + 1
        PROVE  Passed(t, n, q, i)'
    <3>1. IsList(n, q)
      BY <1>3, <2>2, SMTT(20) DEF vars, IsList, Listed, KeepsListed
    <3>2. Passed(t, n, q, i)
      BY <1>3, <2>2, <3>1 DEF vars, MarksInv, Scanning
    <3>3. QED
      BY <1>3, <3>2 DEF vars, Passed, Paid, Wrote
  <2>3. FailsMarked'
    BY <1>3 DEF vars, MarksInv, FailsMarked
  <2>4. QED
    BY <2>1, <2>2, <2>3 DEF MarksInv
<1>4. QED
  BY <1>2, <1>3 DEF Next, Finished

LEMMA MarksInit == Init => MarksInv
<1> SUFFICES ASSUME Init PROVE MarksInv
  OBVIOUS
<1>1. \A t \in Threads : th[t] = Idle
  BY DEF Init
<1>2. \A t \in Threads : /\ ~Scanning(t) /\ th[t].failed = {}
                         /\ \A s \in Files : th[t].mark[s] = 0
  BY <1>1, IdleType DEF Scanning, NoMark
<1>3. QED
  BY <1>2 DEF MarksInv, FailsMarked, Owes

\* What fflush(NULL) owes stays on the list of its walk.
THEOREM MarksInvariant ==
  ASSUME ~Tty PROVE Spec => [](ListInv /\ BytesInv /\ MarksInv)
<1>1. ListInv /\ BytesInv /\ MarksInv /\ [Next]_vars => ListInv' /\ BytesInv' /\ MarksInv'
  BY ListInvStep, BytesStep, MarksStep
<1>2. Init => ListInv /\ BytesInv /\ MarksInv
  BY ListInvInit, BytesInit, MarksInit
<1>3. QED
  BY <1>1, <1>2, PTL DEF Spec

\* A stream that flush_all owes bytes is on the list to the end.
LEMMA OwedIsListed ==
  ASSUME ListInv, MarksInv, NEW t \in Threads, NEW s \in Files, th[t].mark[s] # 0
  PROVE  Listed(s)
<1>1. s \in usable /\ s \in alive
  BY DEF MarksInv, Owes, ListInv, Types
<1>2. \A u \in Threads : th[u].file = s => th[u].op \notin {"fopen", "fclose"}
  BY <1>1 DEF ListInv, AtPlace
<1>3. QED
  BY <1>1, <1>2 DEF Listed, KeepsListed

\* When fflush(NULL) returns and when exit ends the process, every stream
\* that nobody closes has written all that was put into it before the call,
\* or a write of that stream failed in the call and its error indicator is
\* set: stdio.c:100-109 gives up that stream, and flush_all (stdio.c:77-84)
\* goes on to the next one.
THEOREM FlushAllIsComplete == ASSUME ~Tty PROVE Spec => FlushAllStores
<1>1. ASSUME ListInv, BytesInv, MarksInv, NEW t \in Threads, AllEnd(t),
             NEW s \in Files
      PROVE  Len(sent[s]) >= th[t].mark[s] \/ s \in th[t].failed \cap err
  <2>1. th[t].pc = "each" /\ th[t].p = Null /\ Scanning(t)
    BY <1>1 DEF AllEnd, ListInv, AtPlace, MayBeAt, FlushPlaces, Scanning
  <2>2. Wrote(s) \in Nat /\ th[t].failed \subseteq err
    BY <1>1, WroteType DEF MarksInv, FailsMarked
  <2>3. CASE th[t].mark[s] = 0
    BY <2>2, <2>3 DEF Wrote
  <2>4. CASE th[t].mark[s] # 0
    <3>1. Listed(s)
      BY <1>1, <2>4, OwedIsListed
    <3>2. PICK n \in Nat : \E q \in [1 .. n -> Files] : IsList(n, q)
      BY <1>1 DEF ListInv, TheList
    <3>3. PICK q \in [1 .. n -> Files] : IsList(n, q)
      BY <3>2
    <3>4. PICK j \in 1 .. n : q[j] = s
      BY <3>1, <3>3 DEF IsList
    <3>5. n + 1 \in 1 .. n + 1 /\ j \in 1 .. (n + 1) - 1
      OBVIOUS
    <3>6. Passed(t, n, q, n + 1)
      BY <1>1, <2>1, <3>3, <3>5 DEF MarksInv
    <3>7. Paid(t, q[j])
      BY <2>1, <3>5, <3>6 DEF Passed
    <3>8. QED
      BY <2>2, <3>4, <3>7 DEF Paid, Wrote
  <2>5. QED
    BY <2>3, <2>4
<1>2. ListInv /\ BytesInv /\ MarksInv /\ [Next]_vars =>
        [\A t \in Threads : AllEnd(t) =>
           \A s \in Files : \/ Len(sent[s]) >= th[t].mark[s]
                            \/ s \in th[t].failed \cap err]_vars
  BY <1>1
<1>3. QED
  BY <1>2, MarksInvariant, PTL DEF Spec, FlushAllStores

=============================================================================
