------------------------------- MODULE Quotes -------------------------------
(***************************************************************************)
(* The quotes of one account and the invoices made from them               *)
(* (routers/quotes.py).  No handler holds a lock while it decides: it      *)
(* reads the quote, checks its status and commits later.  update_quote is  *)
(* an "async def" handler and runs on the event loop, one at a time; the   *)
(* others are "def" handlers in worker threads.  Unlike invoices, quotes   *)
(* have no database triggers, only the foreign key from invoices to        *)
(* quotes.  Only storing the invoice of a conversion is under the number   *)
(* lock (DocumentNumbers): if its number was taken, everything is rolled   *)
(* back, the number is computed again and the status is set again.         *)
(*                                                                         *)
(* "Po platnosti" is computed for display and never stored.  A handler     *)
(* whose check fails changes nothing and has no action.                    *)
(***************************************************************************)
EXTENDS Naturals, FiniteSets

CONSTANTS
  QuoteIds,
  InvoiceIds,  \* ids of invoices made from quotes; bound of the model
  Contents,    \* what the items of a quote can be
  Series,      \* number series of invoices: ordinary and proforma
  Threads,     \* worker threads
  Loop,        \* the event loop
  None         \* no request, no invoice, or nobody holds the lock

ASSUME QuotesAssumption ==
  /\ Loop \notin Threads
  /\ None \notin Threads \union {Loop}
  /\ None \notin [quote : QuoteIds, content : Contents]

VARIABLES
  quotes,    \* the quotes table with the items of each quote
  invoices,  \* the invoices that carry a quote_id, with their items
  lock,      \* the handler that retries under the number lock
  req        \* what each running handler has read and intends to write

vars == <<quotes, invoices, lock, req>>

Handlers == Threads \union {Loop}

Statuses == {"draft", "sent", "accepted", "rejected", "converted"}

(* ALLOWED_QUOTE_STATUS_TRANSITIONS.                                       *)
AllowedNext ==
  [s \in Statuses |->
     CASE s = "draft" -> {"sent", "accepted", "rejected"}
       [] s = "sent" -> {"accepted", "rejected"}
       [] s = "accepted" -> {"converted", "rejected"}
       [] s = "rejected" -> {}
       [] s = "converted" -> {}]

IsValidTransition(s, t) == s = t \/ t \in AllowedNext[s]

(* CONVERTIBLE_QUOTE_STATUSES.                                             *)
Convertible == {"sent", "accepted"}

Present(q) == quotes[q].st \in Statuses

(* The invoices whose quote_id is q.                                       *)
InvoicesOf(q) == {n \in InvoiceIds : invoices[n] # None /\ invoices[n].quote = q}

Init ==
  /\ quotes \in [QuoteIds -> [st : {"absent"}, content : Contents]]
  /\ invoices = [n \in InvoiceIds |-> None]
  /\ lock = None
  /\ req = [h \in Handlers |-> None]

Running(h, op) == req[h] # None /\ req[h].op = op

-----------------------------------------------------------------------------
(* Documents created in one step here: the lock is free, and nothing the   *)
(* handler read before is used when it writes except its number.           *)

CreateQuote(q) ==
  /\ lock = None
  /\ quotes[q].st = "absent"
  /\ \E c \in Contents : quotes' = [quotes EXCEPT ![q] = [st |-> "draft", content |-> c]]
  /\ UNCHANGED <<invoices, lock, req>>

(* A document stored in series s takes the number of every handler that    *)
(* has computed one of the same series.  If it is freed again by deleting  *)
(* that document, the model still lets the handler go round the loop.      *)
Taken(s) ==
  [h \in Handlers |->
     IF Running(h, "convert") /\ req[h].series = s
       THEN [op |-> "convert", id |-> req[h].id, content |-> req[h].content,
             series |-> s, free |-> FALSE]
       ELSE req[h]]

(* An invoice that does not come from a quote.                             *)
CreateInvoice(s) ==
  /\ lock = None
  /\ req' = Taken(s)
  /\ UNCHANGED <<quotes, invoices, lock>>

(* The invoice made from a quote is deleted while it is a draft.           *)
DeleteInvoice(n) ==
  /\ invoices[n] # None
  /\ invoices' = [invoices EXCEPT ![n] = None]
  /\ UNCHANGED <<quotes, lock, req>>

-----------------------------------------------------------------------------
(* Reading and checking.                                                   *)

Open(h, r) ==
  /\ req[h] = None
  /\ req' = [req EXCEPT ![h] = r]
  /\ UNCHANGED <<quotes, invoices, lock>>

ReadForEdit(q) ==
  /\ quotes[q].st = "draft"
  /\ \E c \in Contents : Open(Loop, [op |-> "edit", id |-> q, content |-> c])

ReadForDelete(h, q) ==
  /\ quotes[q].st = "draft"
  /\ Open(h, [op |-> "delete", id |-> q])

ReadForStatus(h, q) ==
  /\ Present(q)
  /\ \E s \in Statuses \ {"converted"} :
       /\ IsValidTransition(quotes[q].st, s)
       /\ Open(h, [op |-> "status", id |-> q, st |-> quotes[q].st, to |-> s])

ReadForConvert(h, q) ==
  /\ quotes[q].st \in Convertible
  /\ \E s \in Series :
       Open(h, [op |-> "convert", id |-> q, content |-> quotes[q].content,
                series |-> s, free |-> TRUE])

-----------------------------------------------------------------------------
(* Writing.                                                                *)

Finish(h) == req' = [req EXCEPT ![h] = None]

(* The items are replaced; the status column is not written.               *)
CommitEdit(h) ==
  LET r == req[h]
  IN /\ Running(h, "edit")
     /\ Present(r.id)
     /\ quotes' = [quotes EXCEPT ![r.id] = [st |-> quotes[r.id].st, content |-> r.content]]
     /\ Finish(h)
     /\ UNCHANGED <<invoices, lock>>

(* Mutation of MayDelete: a database without enforced foreign keys.        *)
MayDelete_NoForeignKey(q) == Present(q)

(* The foreign key of invoices.quote_id.                                   *)
MayDelete(q) == Present(q) => InvoicesOf(q) = {}

(* Deleting a quote that is already gone deletes no row and succeeds.      *)
CommitDelete(h) ==
  LET r == req[h]
  IN /\ Running(h, "delete")
     /\ MayDelete(r.id)
     /\ quotes' = [quotes EXCEPT ![r.id] = [st |-> "deleted", content |-> quotes[r.id].content]]
     /\ Finish(h)
     /\ UNCHANGED <<invoices, lock>>

(* A status that does not differ from the one read is not written.         *)
CommitStatus(h) ==
  LET r == req[h]
  IN /\ Running(h, "status")
     /\ \/ /\ r.to = r.st
           /\ UNCHANGED quotes
        \/ /\ r.to # r.st
           /\ Present(r.id)
           /\ quotes' = [quotes EXCEPT ![r.id] = [st |-> r.to, content |-> quotes[r.id].content]]
     /\ Finish(h)
     /\ UNCHANGED <<invoices, lock>>

(* The invoice and the new status of the quote, in one transaction.        *)
StoreConversion(r) ==
  /\ Present(r.id)
  /\ quotes' = [quotes EXCEPT ![r.id] = [st |-> "converted", content |-> quotes[r.id].content]]
  /\ \E n \in InvoiceIds :
       /\ invoices[n] = None
       /\ invoices' = [invoices EXCEPT ![n] = [quote |-> r.id, content |-> r.content]]

(* First attempt of commit_with_number_retry, with a number nobody took.   *)
CommitConvert(h) ==
  /\ Running(h, "convert")
  /\ lock = None
  /\ req[h].free
  /\ StoreConversion(req[h])
  /\ req' = [Taken(req[h].series) EXCEPT ![h] = None]
  /\ UNCHANGED lock

(* The number was taken: the transaction is rolled back, the status of the *)
(* quote with it, and the lock is kept for the second attempt.             *)
RollBackConvert(h) ==
  /\ Running(h, "convert")
  /\ lock = None
  /\ ~req[h].free
  /\ lock' = h
  /\ req' = [req EXCEPT ![h] = [op |-> "retry", id |-> req[h].id,
                                content |-> req[h].content, series |-> req[h].series]]
  /\ UNCHANGED <<quotes, invoices>>

(* Mutation of CommitRetry: _regenerate_conv sets the number only.         *)
CommitRetry_NumberOnly(h) ==
  LET r == req[h]
  IN /\ Running(h, "retry")
     /\ Present(r.id)
     /\ \E n \in InvoiceIds :
          /\ invoices[n] = None
          /\ invoices' = [invoices EXCEPT ![n] = [quote |-> r.id, content |-> r.content]]
     /\ req' = [Taken(r.series) EXCEPT ![h] = None]
     /\ lock' = None
     /\ UNCHANGED quotes

(* Second attempt, after _regenerate_conv set number and status again.     *)
CommitRetry(h) ==
  /\ Running(h, "retry")
  /\ StoreConversion(req[h])
  /\ req' = [Taken(req[h].series) EXCEPT ![h] = None]
  /\ lock' = None

(* The transaction finds no row to update, or the foreign key keeps the    *)
(* row from being deleted: the handler ends with an exception.             *)
CommitFails(h) ==
  /\ req[h] # None
  /\ \/ req[h].op \in {"edit", "convert", "retry"} /\ ~Present(req[h].id)
     \/ req[h].op = "status" /\ req[h].to # req[h].st /\ ~Present(req[h].id)
     \/ req[h].op = "delete" /\ ~MayDelete(req[h].id)
  /\ Finish(h)
  /\ lock' = IF lock = h THEN None ELSE lock
  /\ UNCHANGED <<quotes, invoices>>

(* The process dies with its handlers and starts again.                    *)
Crash ==
  /\ \E h \in Handlers : req[h] # None
  /\ req' = [h \in Handlers |-> None]
  /\ lock' = None
  /\ UNCHANGED <<quotes, invoices>>

Next ==
  \/ \E q \in QuoteIds :
       \/ CreateQuote(q)
       \/ ReadForEdit(q)
       \/ \E h \in Threads :
            \/ ReadForDelete(h, q)
            \/ ReadForStatus(h, q)
            \/ ReadForConvert(h, q)
  \/ \E s \in Series : CreateInvoice(s)
  \/ \E n \in InvoiceIds : DeleteInvoice(n)
  \/ \E h \in Handlers :
       \/ CommitEdit(h)
       \/ CommitDelete(h)
       \/ CommitStatus(h)
       \/ CommitConvert(h)
       \/ RollBackConvert(h)
       \/ CommitRetry(h)
       \/ CommitFails(h)
  \/ Crash

Spec == Init /\ [][Next]_vars

-----------------------------------------------------------------------------

Request ==
  [op : {"edit"}, id : QuoteIds, content : Contents]
    \union [op : {"delete"}, id : QuoteIds]
    \union [op : {"status"}, id : QuoteIds, st : Statuses, to : Statuses \ {"converted"}]
    \union [op : {"convert"}, id : QuoteIds, content : Contents, series : Series,
            free : BOOLEAN]
    \union [op : {"retry"}, id : QuoteIds, content : Contents, series : Series]

(* The variables have their types.  No handler intends to set the status   *)
(* "Prevedená" by hand, unless it has it already.                          *)
TypeOK ==
  /\ quotes \in [QuoteIds -> [st : Statuses \union {"absent", "deleted"}, content : Contents]]
  /\ invoices \in [InvoiceIds -> [quote : QuoteIds, content : Contents] \union {None}]
  /\ lock \in Handlers \union {None}
  /\ req \in [Handlers -> Request \union {None}]

(* An invoice made from a quote links to a quote that exists: deletions    *)
(* that read the quote as a draft do not get past a conversion             *)
(* (README.md:215, "faktúra odkazuje späť na svoju ponuku").               *)
InvoiceHasItsQuote ==
  \A n \in InvoiceIds : invoices[n] # None => Present(invoices[n].quote)

(* Making an invoice and marking the quote as converted are one step, also *)
(* when a taken number forces a second attempt: the quote never says it    *)
(* was converted without an invoice, nor the other way round               *)
(* (the comment at routers/quotes.py:642-645).                             *)
ConversionIsAtomic ==
  [][\A q \in QuoteIds :
       LET converts == quotes[q].st # "converted" /\ quotes'[q].st = "converted"
           invoiced == \E n \in InvoiceIds :
                         invoices[n] = None /\ invoices'[n] # None /\ invoices'[n].quote = q
       IN /\ converts => invoiced
          /\ invoiced => quotes'[q].st = "converted"]_vars

(* README.md:214, "opätovné kliknutie druhú faktúru nevytvorí": a quote    *)
(* has at most one invoice made from it.                                   *)
OneInvoicePerQuote == \A q \in QuoteIds : Cardinality(InvoicesOf(q)) <= 1
=============================================================================
