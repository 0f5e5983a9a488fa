--------------------------- MODULE MCCreditNotes ---------------------------
(* CreditNotes on small instances.                                         *)
EXTENDS CreditNotes, TLC

Symmetry == Permutations(Ids)
=============================================================================
