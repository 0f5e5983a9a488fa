------------------------------ MODULE MCQuotes ------------------------------
(* Quotes on small instances.                                              *)
EXTENDS Quotes, TLC

Symmetry ==
  Permutations(Threads) \union Permutations(InvoiceIds) \union Permutations(QuoteIds)
    \union Permutations(Series)
=============================================================================
