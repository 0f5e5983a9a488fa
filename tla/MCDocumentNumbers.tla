------------------------- MODULE MCDocumentNumbers -------------------------
(* DocumentNumbers on a small instance.                                    *)
EXTENDS DocumentNumbers, TLC

Symmetry == Permutations(Requests) \union Permutations(Series)
=============================================================================
