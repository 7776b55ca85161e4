------------------------------ MODULE MCPopen -------------------------------
(* Popen with named threads, for TLC. *)
EXTENDS Popen, TLC

Symmetry == Permutations(Threads)

\* Programs that start with their standard descriptors, or without one.
AnyStd == {{0, 1}, {0}, {1}}
BothStd == {{0, 1}}
=============================================================================
