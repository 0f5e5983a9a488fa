---------------------------- MODULE InvoiceLedger ----------------------------
(***************************************************************************)
(* What the invoices of an account promise to its bookkeeping, whatever    *)
(* handlers run at the same time.  A draft may be written, rewritten and   *)
(* thrown away.  From the moment an invoice is issued its total never      *)
(* changes and the invoice never disappears; what was received for it      *)
(* never exceeds the total; it becomes paid by payments only when all of   *)
(* it was received; once it is paid or cancelled its payments are settled. *)
(***************************************************************************)
EXTENDS Naturals

CONSTANTS Invoices, Totals, Kinds

VARIABLES
  status,   \* of each invoice
  total,    \* what each invoice is for
  kind,     \* payments are recorded for kind "invoice" only
  received  \* what was received for each invoice

ledger == <<status, total, kind, received>>

Issued(i) == status[i] \in {"sent", "paid", "cancelled"}

Init ==
  /\ status = [i \in Invoices |-> "absent"]
  /\ total = [i \in Invoices |-> 0]
  /\ kind \in [Invoices -> Kinds]
  /\ received = [i \in Invoices |-> 0]

(* The books of every other invoice stay as they are.                      *)
Post(i, s, t, k, r) ==
  /\ status' = [status EXCEPT ![i] = s]
  /\ total' = [total EXCEPT ![i] = t]
  /\ kind' = [kind EXCEPT ![i] = k]
  /\ received' = [received EXCEPT ![i] = r]

WriteDraft(i) ==
  /\ status[i] \in {"absent", "draft"}
  /\ \E t \in Totals, k \in Kinds :
       /\ status[i] = "draft" => k = kind[i]
       /\ Post(i, "draft", t, k, 0)

DiscardDraft(i) ==
  /\ status[i] = "draft"
  /\ Post(i, "deleted", total[i], kind[i], 0)

IssueDraft(i) ==
  /\ status[i] = "draft"
  /\ \E s \in {"sent", "paid", "cancelled"} : Post(i, s, total[i], kind[i], 0)

(* A payment, or the correction of one, of an issued and open invoice.     *)
RecordPayment(i) ==
  /\ status[i] = "sent"
  /\ kind[i] = "invoice"
  /\ \E r \in 0 .. total[i] :
       Post(i, IF r = total[i] THEN "paid" ELSE "sent", total[i], kind[i], r)

(* Proformas and credit notes are marked paid without payments.            *)
MarkPaid(i) ==
  /\ status[i] = "sent"
  /\ kind[i] # "invoice"
  /\ Post(i, "paid", total[i], kind[i], received[i])

Cancel(i) ==
  /\ status[i] \in {"sent", "paid"}
  /\ Post(i, "cancelled", total[i], kind[i], received[i])

Next ==
  \E i \in Invoices :
    \/ WriteDraft(i)
    \/ DiscardDraft(i)
    \/ IssueDraft(i)
    \/ RecordPayment(i)
    \/ MarkPaid(i)
    \/ Cancel(i)

Spec == Init /\ [][Next]_ledger
=============================================================================
