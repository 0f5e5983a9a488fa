-------------------------- MODULE InvoiceLifecycle --------------------------
(***************************************************************************)
(* The invoices of one account under concurrent requests                   *)
(* (routers/invoices.py).  A handler reads its invoice and checks it, and  *)
(* writes in a later transaction; between the two other handlers commit.   *)
(* Handlers declared "def" run in worker threads; those declared "async    *)
(* def" run on the event loop, one at a time, but still beside the         *)
(* threads.  Status changes and payments hold the payment lock from before *)
(* their first read; edits and deletions hold nothing.  The database       *)
(* triggers of db_guards.py are the last check, at commit.                 *)
(*                                                                         *)
(* Document numbers are the subject of DocumentNumbers, credit note limits *)
(* of CreditNotes.  A handler whose check fails changes nothing and has no *)
(* action.                                                                 *)
(***************************************************************************)
EXTENDS InvoiceStatuses, Functions

CONSTANTS
  Invoices,  \* invoice ids
  Threads,   \* worker threads
  Loop,      \* the event loop
  Kinds,     \* "invoice", "proforma", "creditNote"
  Rows,      \* ids of payment rows; bound of the payments of one invoice
  Dates      \* days up to today

ASSUME LifecycleAssumption ==
  /\ IsFiniteSet(Rows)
  /\ Kinds \subseteq {"invoice", "proforma", "creditNote"}
  /\ "invoice" \in Kinds
  /\ Loop \notin Threads
  /\ None \notin Threads \union {Loop} \union Dates

VARIABLES
  inv,    \* the invoices table with the total of the items of each invoice
  pay,    \* the invoice_payments table: amount of each row, 0 for no row
  trail,  \* the newest "invoice.status_change" audit row of each invoice
  date,     \* paid_date of each invoice, None for NULL
  cleared,  \* history: invoices whose paid date was removed by hand, and none set since
  lock,   \* the holder of _payment_lock
  req     \* what each running handler has read and intends to write

dates == <<date, cleared>>
vars == <<inv, pay, trail, dates, lock, req>>

Handlers == Threads \union {Loop}

Present(i) == inv[i].st \in Statuses

SupportsPayments(i) == inv[i].kind = "invoice"

PaidRows(i) == {p \in Rows : pay[i][p] > 0}
FreeRows(i) == Rows \ PaidRows(i)

(* The sum of the payment rows of invoice i.                               *)
PaidSum(i) == FoldFunction(+, 0, pay[i])

(* What is left to pay of a sent invoice (invoice_balance).                *)
Balance(i) == inv[i].total - PaidSum(i)

Init ==
  /\ inv \in [Invoices -> [st : {"absent"}, total : {0}, kind : Kinds]]
  /\ pay = [i \in Invoices |-> [p \in Rows |-> 0]]
  /\ trail = [i \in Invoices |-> [from |-> "draft", to |-> "draft"]]
  /\ date = [i \in Invoices |-> None] /\ cleared = {}
  /\ lock = None
  /\ req = [h \in Handlers |-> None]

Running(h, op) == req[h] # None /\ req[h].op = op

(* The handler answers; a payment handler lets go of the lock.             *)
Finish(h) ==
  /\ req' = [req EXCEPT ![h] = None]
  /\ lock' = IF lock = h THEN None ELSE lock

-----------------------------------------------------------------------------
(* New invoices.  Nothing the handler read before is used when it writes,  *)
(* so reading and writing are one action.                                  *)

NewDraft(i, kinds) ==
  /\ inv[i].st = "absent"
  /\ \E t \in Totals, k \in Kinds \intersect kinds :
       inv' = [inv EXCEPT ![i] = [st |-> "draft", total |-> t, kind |-> k]]
  /\ UNCHANGED <<pay, trail, dates, lock, req>>

CreateInvoice(i) == NewDraft(i, {"invoice"})

(* A copy of some other document: of a proforma a proforma, of anything    *)
(* else an ordinary invoice.  Converting a quote creates the same two.     *)
DuplicateInvoice(i) == NewDraft(i, {"invoice", "proforma"})

CreateCreditNote(i) == NewDraft(i, {"creditNote"})

-----------------------------------------------------------------------------
(* Reading and checking.                                                   *)

Open(h, r) ==
  /\ req[h] = None
  /\ req' = [req EXCEPT ![h] = r]
  /\ UNCHANGED <<inv, pay, trail, dates>>

OpenUnlocked(h, r) == Open(h, r) /\ UNCHANGED lock

(* Mutation of OpenLocked: payments and status changes take no lock.       *)
OpenLocked_Unlocked(h, r) == Open(h, r) /\ UNCHANGED lock

(* The lock is a dependency: it is taken before the handler reads.         *)
OpenLocked(h, r) == lock = None /\ lock' = h /\ Open(h, r)

ReadForEdit(i) ==
  /\ inv[i].st = "draft"
  /\ \E t \in Totals : OpenUnlocked(Loop, [op |-> "edit", id |-> i, total |-> t])

ReadForDelete(h, i) ==
  /\ inv[i].st = "draft"
  /\ OpenUnlocked(h, [op |-> "delete", id |-> i])

ReadForStatus(h, i) ==
  /\ Present(i)
  /\ FreeRows(i) # {}
  /\ \E s \in Statuses :
       /\ IsValidTransition(inv[i].st, s)
       /\ OpenLocked(h, [op |-> "status", id |-> i, st |-> inv[i].st, to |-> s,
                          date |-> date[i]])

(* Mutation of ReadForPayment: a payment of nothing is accepted.           *)
ReadForPayment_Zero(h, i) ==
  /\ inv[i].st = "sent"
  /\ SupportsPayments(i)
  /\ FreeRows(i) # {}
  /\ \E a \in 0 .. Balance(i) : OpenLocked(h, [op |-> "pay", id |-> i, amount |-> a])

ReadForPayment(h, i) ==
  /\ inv[i].st = "sent"
  /\ SupportsPayments(i)
  /\ FreeRows(i) # {}
  /\ \E a \in 1 .. Balance(i) : OpenLocked(h, [op |-> "pay", id |-> i, amount |-> a])

(* Mutation of ReadForUnpay: payments of any invoice can be deleted.       *)
ReadForUnpay_AnyStatus(h, i) ==
  \E p \in PaidRows(i) : OpenLocked(h, [op |-> "unpay", id |-> i, row |-> p])

ReadForUnpay(h, i) ==
  /\ inv[i].st = "sent"
  /\ \E p \in PaidRows(i) : OpenLocked(h, [op |-> "unpay", id |-> i, row |-> p])

(* update_invoice_paid_date takes no lock and asks for no status.          *)
ReadForDate(h, i) ==
  /\ Present(i)
  /\ \E d \in Dates \union {None} :
       OpenUnlocked(h, [op |-> "date", id |-> i, seen |-> date[i], to |-> d])

-----------------------------------------------------------------------------
(* Writing.                                                                *)

(* The row of invoice i with another status and total.                     *)
Update(i, st, total) ==
  inv' = [inv EXCEPT ![i] = [st |-> st, total |-> total, kind |-> inv[i].kind]]

(* Mutation of TriggerAllows: a database without the triggers.             *)
TriggerAllows_Missing(i) == Present(i)

(* What the triggers and the foreign keys make of deleting an invoice or   *)
(* its items: only those of a draft may go.                                *)
TriggerAllows(i) == inv[i].st = "draft"

(* update_invoice replaces the items, that is, deletes the old ones.       *)
CommitEdit(h) ==
  LET r == req[h]
  IN /\ Running(h, "edit")
     /\ TriggerAllows(r.id)
     /\ Update(r.id, inv[r.id].st, r.total)
     /\ Finish(h)
     /\ UNCHANGED <<pay, trail, dates>>

CommitDelete(h) ==
  LET r == req[h]
  IN /\ Running(h, "delete")
     /\ TriggerAllows(r.id)
     /\ Update(r.id, "deleted", inv[r.id].total)
     /\ Finish(h)
     /\ UNCHANGED <<pay, trail, dates>>

(* Row p is the "Doplatok" of an open invoice marked paid by hand.         *)
AddRest(r, p) ==
  IF r.to = "paid" /\ r.st = "sent" /\ SupportsPayments(r.id) /\ Balance(r.id) > 0
    THEN pay' = [pay EXCEPT ![r.id][p] = Balance(r.id)]
    ELSE UNCHANGED pay

SetDate(i, d) ==
  /\ date' = [date EXCEPT ![i] = d]
  /\ cleared' = IF d = None THEN cleared \union {i} ELSE cleared \ {i}

(* Mutation of DatePaid: only a sent invoice gets the date.                *)
DatePaid_SentOnly(r) ==
  IF r.to = "paid" /\ r.st = "sent" /\ r.date = None
    THEN \E d \in Dates : SetDate(r.id, d)
    ELSE UNCHANGED dates

(* An invoice marked paid gets today's date unless it had one when it was  *)
(* read.                                                                   *)
DatePaid(r) ==
  IF r.to = "paid" /\ r.date = None
    THEN \E d \in Dates : SetDate(r.id, d)
    ELSE UNCHANGED dates

(* A status that does not differ from the one read is not written.         *)
CommitStatus(h) ==
  LET r == req[h]
  IN /\ Running(h, "status")
     /\ r.to # r.st => Present(r.id)
     /\ \E p \in FreeRows(r.id) : AddRest(r, p)
     /\ Update(r.id, IF r.to = r.st THEN inv[r.id].st ELSE r.to, inv[r.id].total)
     /\ trail' = [trail EXCEPT ![r.id] = [from |-> r.st, to |-> r.to]]
     /\ DatePaid(r)
     /\ Finish(h)

(* Mutation of CommitPayment: the change to "Uhradená" is not logged.      *)
CommitPayment_Unlogged(h) ==
  LET r == req[h]
  IN /\ Running(h, "pay")
     /\ \E p \in FreeRows(r.id) : pay' = [pay EXCEPT ![r.id][p] = r.amount]
     /\ IF Balance(r.id) <= r.amount
          THEN Update(r.id, "paid", inv[r.id].total)
          ELSE UNCHANGED inv
     /\ Finish(h)
     /\ UNCHANGED <<trail, dates>>

(* The balance that decides about "Uhradená" is read again after the row   *)
(* was flushed, in the same transaction; it is zero for a closed invoice.  *)
CommitPayment(h) ==
  LET r == req[h]
      settled == inv[r.id].st \in {"paid", "cancelled"} \/ Balance(r.id) <= r.amount
  IN /\ Running(h, "pay")
     /\ \E p \in FreeRows(r.id) : pay' = [pay EXCEPT ![r.id][p] = r.amount]
     /\ IF settled
          THEN /\ Update(r.id, "paid", inv[r.id].total)
               /\ trail' = [trail EXCEPT ![r.id] = [from |-> "sent", to |-> "paid"]]
               /\ \E d \in Dates : SetDate(r.id, d)
          ELSE UNCHANGED <<inv, trail, dates>>
     /\ Finish(h)

CommitUnpay(h) ==
  LET r == req[h]
  IN /\ Running(h, "unpay")
     /\ pay' = [pay EXCEPT ![r.id][r.row] = 0]
     /\ Finish(h)
     /\ UNCHANGED <<inv, trail, dates>>

(* A date that does not differ from the one read is not written.           *)
CommitDate(h) ==
  LET r == req[h]
  IN /\ Running(h, "date")
     /\ IF r.to = r.seen THEN UNCHANGED dates ELSE Present(r.id) /\ SetDate(r.id, r.to)
     /\ Finish(h)
     /\ UNCHANGED <<inv, pay, trail>>

(* The draft was issued or deleted since the handler read it: the database *)
(* refuses the transaction, or there is no row left for it to delete.      *)
CommitFails(h) ==
  /\ req[h] # None
  /\ \/ /\ req[h].op \in {"edit", "delete"}
        /\ ~TriggerAllows(req[h].id)
     \/ /\ req[h].op = "status" /\ req[h].to # req[h].st
        /\ ~Present(req[h].id)
     \/ /\ req[h].op = "date" /\ req[h].to # req[h].seen
        /\ ~Present(req[h].id)
  /\ Finish(h)
  /\ UNCHANGED <<inv, pay, trail, dates>>

(* The process dies with its handlers and starts again.                    *)
Crash ==
  /\ \E h \in Handlers : req[h] # None
  /\ req' = [h \in Handlers |-> None]
  /\ lock' = None
  /\ UNCHANGED <<inv, pay, trail, dates>>

Next ==
  \/ \E i \in Invoices :
       \/ CreateInvoice(i)
       \/ DuplicateInvoice(i)
       \/ CreateCreditNote(i)
       \/ ReadForEdit(i)
       \/ \E h \in Threads :
            \/ ReadForDelete(h, i)
            \/ ReadForStatus(h, i)
            \/ ReadForPayment(h, i)
            \/ ReadForUnpay(h, i)
            \/ ReadForDate(h, i)
  \/ \E h \in Handlers :
       \/ CommitEdit(h)
       \/ CommitDelete(h)
       \/ CommitStatus(h)
       \/ CommitPayment(h)
       \/ CommitUnpay(h)
       \/ CommitDate(h)
       \/ CommitFails(h)
  \/ Crash

Spec == Init /\ [][Next]_vars

-----------------------------------------------------------------------------

Request ==
  [op : {"edit"}, id : Invoices, total : Totals]
    \union [op : {"delete"}, id : Invoices]
    \union [op : {"status"}, id : Invoices, st : Statuses, to : Statuses,
            date : Dates \union {None}]
    \union [op : {"pay"}, id : Invoices, amount : Nat \ {0}]
    \union [op : {"unpay"}, id : Invoices, row : Rows]
    \union [op : {"date"}, id : Invoices, seen : Dates \union {None}, to : Dates \union {None}]

(* The variables have their types: above all every payment on its way is   *)
(* of an amount above zero, and the lock is held by a thread.              *)
TypeOK ==
  /\ inv \in [Invoices -> [st : Statuses \union {"absent", "deleted"},
                           total : Totals \union {0}, kind : Kinds]]
  /\ pay \in [Invoices -> [Rows -> Nat]]
  /\ trail \in [Invoices -> [from : Statuses, to : Statuses]]
  /\ date \in [Invoices -> Dates \union {None}] /\ cleared \subseteq Invoices
  /\ lock \in Threads \union {None}
  /\ req \in [Handlers -> Request \union {None}]

(* The bookkeeping promise of InvoiceLedger: no interleaving of edits,     *)
(* deletions, status changes and payments lets an issued invoice change    *)
(* its total or vanish, receive more than its total, become paid by        *)
(* payments that do not add up to it, or lose payments once it is closed   *)
(* (README.md:201 on payments, db_guards.py:5-8 on issued invoices).       *)
Ledger == INSTANCE InvoiceLedger WITH
            status <- [i \in Invoices |-> inv[i].st],
            total <- [i \in Invoices |-> inv[i].total],
            kind <- [i \in Invoices |-> inv[i].kind],
            received <- [i \in Invoices |-> PaidSum(i)]

RefinesLedger == Ledger!Spec

Issued(i) == inv[i].st \in Statuses \ {"draft"}

(* No step changes the total of an issued invoice or its kind, deletes it  *)
(* or makes it a draft again (require_draft_invoice checks at read time,   *)
(* the triggers at commit).                                                *)
IssuedIsFrozen ==
  [][\A i \in Invoices :
       Issued(i) => /\ Issued(i)'
                    /\ inv'[i].total = inv[i].total
                    /\ inv'[i].kind = inv[i].kind]_vars

(* The status changes in the history of an invoice form a chain: each row  *)
(* says it left the status the row before it arrived at.  Two handlers     *)
(* that both read the old status would break it.                           *)
HistoryIsAChain ==
  [][\A i \in Invoices : trail'[i] # trail[i] => trail'[i].from = trail[i].to]_vars

(* ... and it ends in the status the invoice has: the audit rows are       *)
(* committed together with the change.                                     *)
HistoryEndsInStatus == \A i \in Invoices : Present(i) => trail[i].to = inv[i].st

(* An invoice that was paid has the date by which the dashboard counts its *)
(* revenue, unless a user removed it (update_invoice_paid_date) and none   *)
(* was recorded since, although that handler takes no lock and the status  *)
(* change looks at a date it read earlier.                                 *)
PaidHasDate ==
  \A i \in Invoices : inv[i].st = "paid" => date[i] # None \/ i \in cleared
=============================================================================
