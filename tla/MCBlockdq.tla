----------------------------- MODULE MCBlockdq -----------------------------
(***************************************************************************)
(* Blockdq on small sets of threads and values.  Threads are alike, and so *)
(* are values: a permutation of either maps behaviours to behaviours.      *)
(***************************************************************************)
EXTENDS Blockdq, TLC

Symmetry == Permutations(Thread) \cup Permutations(Val)
=============================================================================
