------------------------------- MODULE Bytes --------------------------------
(***************************************************************************)
(* Files and buffers as sequences of bytes.                                *)
(***************************************************************************)
EXTENDS Integers, Sequences

\* d after the bytes bs were written at offset at, which is not beyond its
\* end.
Overlay(d, at, bs) ==
  SubSeq(d, 1, at) \o bs \o SubSeq(d, at + Len(bs) + 1, Len(d))
=============================================================================
