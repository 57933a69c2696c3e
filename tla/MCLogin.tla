------------------------------ MODULE MCLogin ------------------------------
(* Login on a small instance. *)
EXTENDS Login, TLC

Symmetry == Permutations(Threads)
=============================================================================
