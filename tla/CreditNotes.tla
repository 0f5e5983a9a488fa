---------------------------- MODULE CreditNotes ----------------------------
(***************************************************************************)
(* Credit notes and the invoices they correct (routers/invoices.py).       *)
(* create_credit_note adds up the credit notes there are and refuses one   *)
(* that would exceed the original; it and update_invoice, which rewrites a *)
(* draft, are "async def" handlers: they run on the event loop, one at a   *)
(* time.  Status changes and deletions run in worker threads beside them.  *)
(* What those decide on cannot go stale before they commit (the payment    *)
(* lock and the triggers, see InvoiceLifecycle), so they are one action.   *)
(* A handler whose check fails changes nothing and has no action.          *)
(***************************************************************************)
EXTENDS InvoiceStatuses, Functions

CONSTANT
  Ids  \* ids of invoices and credit notes

ASSUME CreditNotesAssumption ==
  /\ IsFiniteSet(Ids)
  /\ None \notin Ids

VARIABLES
  docs,    \* the invoices table with the total of the items of each document
  working  \* what the handler on the event loop has checked and will write

creditVars == <<docs, working>>

IsCreditNote(i) == docs[i].of # None

(* The credit notes to o that count: the cancelled ones do not.            *)
CreditNotesTo(o) == {i \in Ids : docs[i].of = o /\ docs[i].st \in Statuses \ {"cancelled"}}

(* already_credited: the sum of their totals.                              *)
Credited(o) == FoldFunctionOnSet(+, 0, [i \in Ids |-> docs[i].gross], CreditNotesTo(o))

CreditInit ==
  /\ docs = [i \in Ids |-> [st |-> "absent", of |-> None, gross |-> 0]]
  /\ working = None

-----------------------------------------------------------------------------

(* An ordinary invoice, new, copied or made from a quote.                  *)
NewInvoice(i) ==
  /\ docs[i].st = "absent"
  /\ \E g \in Totals : docs' = [docs EXCEPT ![i] = [st |-> "draft", of |-> None, gross |-> g]]
  /\ UNCHANGED working

(* Mutation of ReadForCreditNote: only the first credit note is compared.  *)
ReadForCreditNote_Alone(o) ==
  /\ working = None
  /\ docs[o].st \in {"sent", "paid"}
  /\ ~IsCreditNote(o)
  /\ \E g \in Totals :
       /\ g <= docs[o].gross
       /\ working' = [op |-> "credit", id |-> o, gross |-> g]
  /\ UNCHANGED docs

(* create_credit_note finds the original issued and the sum within it.     *)
ReadForCreditNote(o) ==
  /\ working = None
  /\ docs[o].st \in {"sent", "paid"}
  /\ ~IsCreditNote(o)
  /\ \E g \in Totals :
       /\ Credited(o) + g <= docs[o].gross
       /\ working' = [op |-> "credit", id |-> o, gross |-> g]
  /\ UNCHANGED docs

CommitCreditNote(i) ==
  /\ working # None /\ working.op = "credit"
  /\ docs[i].st = "absent"
  /\ docs' = [docs EXCEPT ![i] = [st |-> "draft", of |-> working.id, gross |-> working.gross]]
  /\ working' = None

ReadDraft(i) ==
  /\ working = None
  /\ docs[i].st = "draft"
  /\ \E g \in Totals : working' = [op |-> "edit", id |-> i, gross |-> g]
  /\ UNCHANGED docs

(* The triggers refuse to replace the items of what is no draft any more.  *)
CommitDraft ==
  /\ working # None /\ working.op = "edit"
  /\ docs[working.id].st = "draft"
  /\ docs' = [docs EXCEPT ![working.id] = [st |-> "draft", of |-> docs[working.id].of,
                                         gross |-> working.gross]]
  /\ working' = None

(* An edit the database refuses, or the end of the process.                *)
Fail ==
  /\ working # None
  /\ working' = None
  /\ UNCHANGED docs

(* The row of document i with another status.                              *)
Write(i, st) == docs' = [docs EXCEPT ![i] = [st |-> st, of |-> docs[i].of, gross |-> docs[i].gross]]

ChangeStatus(i) ==
  /\ docs[i].st \in Statuses
  /\ \E s \in AllowedNext[docs[i].st] : Write(i, s)
  /\ UNCHANGED working

(* Mutation of DeleteInvoice: a cancelled document may be deleted, too.    *)
DeleteInvoice_Cancelled(i) ==
  /\ docs[i].st \in {"draft", "cancelled"}
  /\ Write(i, "deleted")
  /\ UNCHANGED working

DeleteInvoice(i) ==
  /\ docs[i].st = "draft"
  /\ Write(i, "deleted")
  /\ UNCHANGED working

CreditNext ==
  \/ \E i \in Ids :
       \/ NewInvoice(i)
       \/ ReadForCreditNote(i)
       \/ CommitCreditNote(i)
       \/ ReadDraft(i)
       \/ ChangeStatus(i)
       \/ DeleteInvoice(i)
  \/ CommitDraft
  \/ Fail

CreditSpec == CreditInit /\ [][CreditNext]_creditVars

-----------------------------------------------------------------------------

(* The variables have their types; a document costs what one form said.    *)
CreditTypeOK ==
  /\ docs \in [Ids -> [st : Statuses \union {"absent", "deleted"}, of : Ids \union {None},
                      gross : Totals \union {0}]]
  /\ working \in [op : {"credit", "edit"}, id : Ids, gross : Totals] \union {None}

(* A credit note corrects an issued ordinary invoice, for ever: the        *)
(* original is no credit note, and is not deleted or a draft again         *)
(* (the checks at routers/invoices.py:1184-1199, the triggers after that). *)
CorrectsIssued ==
  \A i \in Ids : IsCreditNote(i) =>
    /\ docs[docs[i].of].st \in {"sent", "paid", "cancelled"}
    /\ ~IsCreditNote(docs[i].of)

(* Whatever is cancelled or deleted while create_credit_note is at work,   *)
(* creating a credit note never makes the credit notes exceed the original *)
(* (routers/invoices.py:1243).                                             *)
CreationRespectsCap ==
  [][\A i, o \in Ids :
       docs[i].st = "absent" /\ docs'[i].of = o => Credited(o)' <= docs[o].gross]_creditVars
=============================================================================
