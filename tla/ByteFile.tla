------------------------------ MODULE ByteFile ------------------------------
(***************************************************************************)
(* What a stdio stream promises its program: a file of bytes, read and     *)
(* written at a position as if there were no buffer.  The program sees     *)
(* data; stored is what the rest of the world sees.                        *)
(***************************************************************************)
EXTENDS Integers, Sequences, Bytes

VARIABLES
  data,       \* the file as the program sees it
  stored,     \* the file as the kernel has it
  appending,  \* every write goes to the end of the file
  pos,        \* the file position
  pushed,     \* bytes given to ungetc and not read again
  eof,        \* the end-of-file indicator
  out         \* what the last call delivered: bytes, or ftell's position

vars == <<data, stored, appending, pos, pushed, eof, out>>

Init ==
  /\ stored = data
  /\ appending = FALSE /\ pos = 0 /\ pushed = <<>> /\ eof = FALSE
  /\ out = <<>>

\* What the program has to read: what it pushed back, then the file.
Ahead == pushed \o SubSeq(data, pos + Len(pushed) + 1, Len(data))

\* The file is opened, closed or reopened: written bytes are stored, or,
\* when the kernel refused them, gone; opening may truncate.
Switch ==
  /\ stored' = data' /\ data' \in {stored, data, <<>>}
  /\ pos' = 0 /\ pushed' = <<>> /\ ~eof' /\ out' = <<>>

\* A call begins, ends, fails without effect, or stores what was written.
Report ==
  /\ stored' \in {stored, data}
  /\ out' \in {out, <<>>}
  /\ eof' \in {eof, FALSE}
  /\ UNCHANGED <<data, appending, pos, pushed>>

Read ==
  \E n \in 1 .. Len(Ahead) :
    /\ out' \in {SubSeq(Ahead, 1, n), out \o SubSeq(Ahead, 1, n)}
    /\ pos' = pos + n
    /\ pushed' = SubSeq(pushed, n + 1, Len(pushed))
    /\ UNCHANGED <<data, stored, appending, eof>>

\* Only at the end of the file is the end of the file found.
ReadEnd ==
  /\ Ahead = <<>> /\ eof'
  /\ out' \in {out, <<>>}
  /\ UNCHANGED <<data, stored, appending, pos, pushed>>

Write ==
  LET at == IF appending THEN Len(data) ELSE pos IN
  /\ pushed = <<>>
  /\ at < pos' /\ pos' <= Len(data')
  /\ data' = Overlay(data, at, SubSeq(data', at + 1, pos'))
  /\ stored' \in {stored, data, data'}
  /\ out' = <<>>
  /\ UNCHANGED <<appending, pushed, eof>>

\* The program pushes a byte back.
Push ==
  /\ pos' = pos - 1 /\ ~eof' /\ out' = <<>>
  /\ Len(pushed') = Len(pushed) + 1 /\ Tail(pushed') = pushed
  /\ UNCHANGED <<data, stored, appending>>

Seek ==
  /\ stored' \in {stored, data}
  /\ pos' \in 0 .. Len(data) /\ pushed' = <<>> /\ ~eof' /\ out' = <<>>
  /\ UNCHANGED <<data, appending>>

Tell ==
  /\ stored' \in {stored, data}
  /\ out' = <<pos>>
  /\ UNCHANGED <<data, appending, pos, pushed, eof>>

Next ==
  \/ Switch \/ Report \/ Read \/ ReadEnd \/ Write \/ Push \/ Seek \/ Tell

Spec == Init /\ [][Next]_vars
=============================================================================
