----------------------------- MODULE MCCommLoop -----------------------------
(***************************************************************************)
(* A small echo server for TLC: few descriptors, short timeouts.           *)
(***************************************************************************)
EXTENDS CommLoop, TLC

Symmetry == Permutations(Stat)
=============================================================================
