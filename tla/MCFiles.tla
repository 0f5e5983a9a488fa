------------------------------ MODULE MCFiles ------------------------------
(* The files of an account on a small instance.                            *)
EXTENDS Files, TLC

Symmetry == Permutations(Tasks) \union Permutations(Photos) \union Permutations(Extensions)
=============================================================================
