-------------------------- MODULE InvoiceStatuses --------------------------
(***************************************************************************)
(* The statuses of an invoice (Návrh, Odoslaná, Uhradená, Stornovaná) and  *)
(* how they may follow each other.  "Po splatnosti" is computed from the   *)
(* due date for display and never stored.  With them, what the modules     *)
(* about invoices have in common.                                          *)
(***************************************************************************)
EXTENDS Naturals, FiniteSets

CONSTANTS
  Totals,  \* totals with VAT a document may have, in cents
  None     \* no document, no date, no request, or nobody holds the lock

ASSUME TotalsAssumption == Totals \subseteq Nat

Statuses == {"draft", "sent", "paid", "cancelled"}

(* ALLOWED_INVOICE_STATUS_TRANSITIONS.                                     *)
AllowedNext ==
  [s \in Statuses |->
     CASE s = "draft" -> {"sent", "paid", "cancelled"}
       [] s = "sent" -> {"paid", "cancelled"}
       [] s = "paid" -> {"cancelled"}
       [] s = "cancelled" -> {}]

IsValidTransition(s, t) == s = t \/ t \in AllowedNext[s]
=============================================================================
