------------------------ MODULE MCInvoiceLifecycle ------------------------
(* InvoiceLifecycle on small instances.                                    *)
EXTENDS InvoiceLifecycle, TLC

Symmetry == Permutations(Threads) \union Permutations(Rows) \union Permutations(Dates)
=============================================================================
