----------------------------- MODULE MCPanwrap -----------------------------
(***************************************************************************)
(* Panwrap for TLC: the threads of a traced program are interchangeable,   *)
(* which the runs without liveness use.                                    *)
(***************************************************************************)
EXTENDS Panwrap

Symmetry == Permutations(Threads)
=============================================================================
