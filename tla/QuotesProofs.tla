---------------------------- MODULE QuotesProofs ----------------------------
(***************************************************************************)
(* Proofs about Quotes, for every set of quotes, invoices, contents,       *)
(* series and threads.                                                     *)
(*                                                                         *)
(* The types are inductive, and they carry what the other two properties   *)
(* need: an intended status is never "converted", and what a running       *)
(* handler holds is a request of its own kind.  That an invoice has its    *)
(* quote is inductive together with them.                                  *)
(***************************************************************************)
EXTENDS Quotes, TLAPS

QuotesInv == TypeOK /\ InvoiceHasItsQuote

(* What a running handler remembers is determined by its operation.        *)
LEMMA RequestKinds ==
  ASSUME NEW h \in Handlers, req \in [Handlers -> Request \union {None}], req[h] # None
  PROVE  /\ req[h] \in Request
         /\ req[h].id \in QuoteIds
         /\ req[h].op = "edit" => req[h].content \in Contents
         /\ req[h].op = "status" => req[h].st \in Statuses /\ req[h].to \in Statuses \ {"converted"}
         /\ req[h].op \in {"convert", "retry"} =>
              req[h].content \in Contents /\ req[h].series \in Series
<1>1. req[h] \in Request
  OBVIOUS
<1>2. QED
  BY <1>1 DEF Request

(* Losing a number keeps the kind of every request.                        *)
LEMMA TakenIsTyped ==
  ASSUME req \in [Handlers -> Request \union {None}], NEW s \in Series
  PROVE  Taken(s) \in [Handlers -> Request \union {None}]
<1> SUFFICES ASSUME NEW h \in Handlers PROVE Taken(s)[h] \in Request \union {None}
  BY DEF Taken
<1>1. CASE Running(h, "convert") /\ req[h].series = s
  <2>1. req[h].id \in QuoteIds /\ req[h].content \in Contents
    BY <1>1, RequestKinds DEF Running
  <2>2. Taken(s)[h] = [op |-> "convert", id |-> req[h].id, content |-> req[h].content,
                       series |-> s, free |-> FALSE]
    BY <1>1 DEF Taken
  <2>3. QED
    BY <2>1, <2>2 DEF Request
<1>2. CASE ~(Running(h, "convert") /\ req[h].series = s)
  BY <1>2 DEF Taken
<1>3. QED
  BY <1>1, <1>2

(* Initially there are no quotes and no invoices.                          *)
LEMMA QuotesInit == Init => QuotesInv
  BY DEF Init, QuotesInv, TypeOK, InvoiceHasItsQuote

(* Opening a request of the right kind keeps the invariant.                *)
LEMMA OpenStep ==
  ASSUME QuotesInv, NEW h \in Handlers, NEW r \in Request, Open(h, r)
  PROVE  QuotesInv'
  BY DEF QuotesInv, TypeOK, InvoiceHasItsQuote, Open, Present

(* Storing the invoice and the status keeps both tables right.             *)
LEMMA StoreStep ==
  ASSUME QuotesInv, NEW r, r.id \in QuoteIds, r.content \in Contents, StoreConversion(r)
  PROVE  /\ quotes' \in [QuoteIds -> [st : Statuses \union {"absent", "deleted"},
                                      content : Contents]]
         /\ invoices' \in [InvoiceIds -> [quote : QuoteIds, content : Contents] \union {None}]
         /\ InvoiceHasItsQuote'
<1> USE DEF QuotesInv, TypeOK
<1> DEFINE q == r.id
           new == [quote |-> r.id, content |-> r.content]
           row == [st |-> "converted", content |-> quotes[q].content]
<1>1. PICK n \in InvoiceIds : invoices[n] = None /\ invoices' = [invoices EXCEPT ![n] = new]
  BY DEF StoreConversion
<1>2. quotes' = [quotes EXCEPT ![q] = row]
  BY DEF StoreConversion
<1>3. row \in [st : Statuses \union {"absent", "deleted"}, content : Contents]
  BY DEF Statuses
<1>4. new \in [quote : QuoteIds, content : Contents] /\ new.quote = q
  OBVIOUS
<1>5. row.st = "converted"
  OBVIOUS
<1> HIDE DEF new, row
<1>6. \A p \in QuoteIds : Present(p) => quotes'[p].st \in Statuses
  BY <1>2, <1>5 DEF Present, Statuses
<1>7. quotes'[q].st \in Statuses
  BY <1>2, <1>5 DEF Present, Statuses
<1>8. InvoiceHasItsQuote'
  <2> SUFFICES ASSUME NEW m \in InvoiceIds, invoices'[m] # None
               PROVE  quotes'[invoices'[m].quote].st \in Statuses
    BY DEF InvoiceHasItsQuote, Present
  <2>1. CASE m = n
    BY <2>1, <1>1, <1>4, <1>7
  <2>2. CASE m # n
    <3>1. invoices'[m] = invoices[m] /\ Present(invoices[m].quote)
      BY <2>2, <1>1 DEF InvoiceHasItsQuote
    <3>2. invoices[m].quote \in QuoteIds
      BY <3>1
    <3>3. QED
      BY <3>1, <3>2, <1>6
  <2>3. QED
    BY <2>1, <2>2
<1>9. QED
  BY <1>1, <1>2, <1>3, <1>4, <1>8

(* A step that keeps the invoices and the ids of present quotes keeps the  *)
(* links between them.                                                     *)
LEMMA LinksStay ==
  ASSUME QuotesInv, invoices' = invoices,
         \A q \in QuoteIds : InvoicesOf(q) # {} /\ Present(q) => quotes'[q].st \in Statuses
  PROVE  InvoiceHasItsQuote'
  BY DEF QuotesInv, TypeOK, InvoiceHasItsQuote, InvoicesOf, Present

(* Every step keeps the types and the links.                               *)
LEMMA QuotesStep == QuotesInv /\ [Next]_vars => QuotesInv'
<1> SUFFICES ASSUME QuotesInv, [Next]_vars PROVE QuotesInv'
  OBVIOUS
<1> USE QuotesAssumption DEF QuotesInv
<1>1. ASSUME NEW q \in QuoteIds, CreateQuote(q) PROVE QuotesInv'
  <2>1. PICK c \in Contents : quotes' = [quotes EXCEPT ![q] = [st |-> "draft", content |-> c]]
    BY <1>1 DEF CreateQuote
  <2>2. TypeOK'
    BY <1>1, <2>1 DEF CreateQuote, TypeOK, Statuses
  <2>3. InvoiceHasItsQuote'
    BY <1>1, <2>1, LinksStay DEF CreateQuote, TypeOK, Present, Statuses
  <2>4. QED
    BY <2>2, <2>3
<1>2. ASSUME NEW q \in QuoteIds, ReadForEdit(q) PROVE QuotesInv'
  <2>1. PICK c \in Contents : Open(Loop, [op |-> "edit", id |-> q, content |-> c])
    BY <1>2 DEF ReadForEdit
  <2>2. QED
    BY <2>1, OpenStep DEF Handlers, Request
<1>3. ASSUME NEW q \in QuoteIds, NEW h \in Threads, ReadForDelete(h, q) PROVE QuotesInv'
  BY <1>3, OpenStep DEF ReadForDelete, Handlers, Request
<1>4. ASSUME NEW q \in QuoteIds, NEW h \in Threads, ReadForStatus(h, q) PROVE QuotesInv'
  <2>1. PICK s \in Statuses \ {"converted"} :
          Open(h, [op |-> "status", id |-> q, st |-> quotes[q].st, to |-> s])
    BY <1>4 DEF ReadForStatus
  <2>2. quotes[q].st \in Statuses
    BY <1>4 DEF ReadForStatus, Present
  <2>3. QED
    BY <2>1, <2>2, OpenStep DEF Handlers, Request
<1>5. ASSUME NEW q \in QuoteIds, NEW h \in Threads, ReadForConvert(h, q) PROVE QuotesInv'
  <2>1. PICK s \in Series :
          Open(h, [op |-> "convert", id |-> q, content |-> quotes[q].content,
                   series |-> s, free |-> TRUE])
    BY <1>5 DEF ReadForConvert
  <2>2. quotes[q].content \in Contents
    BY DEF TypeOK
  <2>3. QED
    BY <2>1, <2>2, OpenStep DEF Handlers, Request
<1>6. ASSUME NEW s \in Series, CreateInvoice(s) PROVE QuotesInv'
  BY <1>6, TakenIsTyped DEF CreateInvoice, TypeOK, InvoiceHasItsQuote, Present
<1>7. ASSUME NEW n \in InvoiceIds, DeleteInvoice(n) PROVE QuotesInv'
  BY <1>7 DEF DeleteInvoice, TypeOK, InvoiceHasItsQuote, Present
<1>8. ASSUME NEW h \in Handlers, CommitEdit(h) PROVE QuotesInv'
  <2>1. req[h].id \in QuoteIds /\ req[h].content \in Contents
    BY <1>8, RequestKinds DEF CommitEdit, Running, TypeOK
  <2> DEFINE row == [st |-> quotes[req[h].id].st, content |-> req[h].content]
  <2>2. quotes' = [quotes EXCEPT ![req[h].id] = row]
    BY <1>8 DEF CommitEdit
  <2>3. row \in [st : Statuses \union {"absent", "deleted"}, content : Contents]
        /\ row.st = quotes[req[h].id].st
    BY <2>1 DEF TypeOK
  <2> HIDE DEF row
  <2>4. TypeOK'
    BY <1>8, <2>1, <2>2, <2>3 DEF CommitEdit, Finish, TypeOK
  <2>5. InvoiceHasItsQuote'
    BY <1>8, <2>1, <2>2, <2>3, LinksStay DEF CommitEdit, TypeOK, Present
  <2>6. QED
    BY <2>4, <2>5
<1>9. ASSUME NEW h \in Handlers, CommitDelete(h) PROVE QuotesInv'
  <2>1. req[h].id \in QuoteIds
    BY <1>9, RequestKinds DEF CommitDelete, Running, TypeOK
  <2>2. TypeOK'
    BY <1>9, <2>1 DEF CommitDelete, Finish, TypeOK
  <2>3. \A q \in QuoteIds : InvoicesOf(q) # {} /\ Present(q) => quotes'[q].st \in Statuses
    BY <1>9, <2>1 DEF CommitDelete, MayDelete, TypeOK, Present
  <2>4. InvoiceHasItsQuote'
    BY <1>9, <2>3, LinksStay DEF CommitDelete
  <2>5. QED
    BY <2>2, <2>4
<1>10. ASSUME NEW h \in Handlers, CommitStatus(h) PROVE QuotesInv'
  <2>1. req[h].id \in QuoteIds /\ req[h].to \in Statuses
    BY <1>10, RequestKinds DEF CommitStatus, Running, TypeOK
  <2>2. TypeOK'
    BY <1>10, <2>1 DEF CommitStatus, Finish, TypeOK
  <2>3. \A q \in QuoteIds : Present(q) => quotes'[q].st \in Statuses
    BY <1>10, <2>1 DEF CommitStatus, TypeOK, Present
  <2>4. InvoiceHasItsQuote'
    BY <1>10, <2>3, LinksStay DEF CommitStatus
  <2>5. QED
    BY <2>2, <2>4
<1>11. ASSUME NEW h \in Handlers, CommitConvert(h) \/ CommitRetry(h) PROVE QuotesInv'
  <2>1. req[h].id \in QuoteIds /\ req[h].content \in Contents /\ req[h].series \in Series
    BY <1>11, RequestKinds DEF CommitConvert, CommitRetry, Running, TypeOK
  <2>2. StoreConversion(req[h])
        /\ req' = [Taken(req[h].series) EXCEPT ![h] = None]
        /\ lock' \in {lock, None}
    BY <1>11 DEF CommitConvert, CommitRetry
  <2>3. Taken(req[h].series) \in [Handlers -> Request \union {None}]
    BY <2>1, TakenIsTyped DEF TypeOK
  <2>4. req' \in [Handlers -> Request \union {None}] /\ lock' \in Handlers \union {None}
    BY <2>2, <2>3 DEF TypeOK
  <2>5. QED
    BY <2>1, <2>2, <2>4, StoreStep DEF TypeOK
<1>12. ASSUME NEW h \in Handlers, RollBackConvert(h) PROVE QuotesInv'
  <2>1. req[h].id \in QuoteIds /\ req[h].content \in Contents /\ req[h].series \in Series
    BY <1>12, RequestKinds DEF RollBackConvert, Running, TypeOK
  <2>2. [op |-> "retry", id |-> req[h].id, content |-> req[h].content,
         series |-> req[h].series] \in Request
    BY <2>1 DEF Request
  <2>3. TypeOK'
    BY <1>12, <2>2 DEF RollBackConvert, TypeOK
  <2>4. InvoiceHasItsQuote'
    BY <1>12 DEF RollBackConvert, InvoiceHasItsQuote, Present
  <2>5. QED
    BY <2>3, <2>4
<1>13. ASSUME NEW h \in Handlers, CommitFails(h) PROVE QuotesInv'
  BY <1>13 DEF CommitFails, Finish, TypeOK, InvoiceHasItsQuote, Present
<1>14. ASSUME Crash PROVE QuotesInv'
  BY <1>14 DEF Crash, TypeOK, InvoiceHasItsQuote, Present
<1>15. ASSUME UNCHANGED vars PROVE QuotesInv'
  BY <1>15 DEF vars, TypeOK, InvoiceHasItsQuote, Present
<1>16. QED
  BY <1>1, <1>2, <1>3, <1>4, <1>5, <1>6, <1>7, <1>8, <1>9, <1>10, <1>11, <1>12, <1>13,
     <1>14, <1>15 DEF Next

(* The variables have their types; above all, no handler ever intends to   *)
(* set the status "Prevedená" by hand.                                     *)
THEOREM QuotesTypeCorrect == Spec => []TypeOK
<1>1. Spec => []QuotesInv
  BY QuotesInit, QuotesStep, PTL DEF Spec
<1>2. QuotesInv => TypeOK
  BY DEF QuotesInv
<1>3. QED
  BY <1>1, <1>2, PTL

(* Every invoice made from a quote links to a quote that exists, however   *)
(* deletions and conversions overlap.                                      *)
THEOREM LinksAreSound == Spec => []InvoiceHasItsQuote
<1>1. Spec => []QuotesInv
  BY QuotesInit, QuotesStep, PTL DEF Spec
<1>2. QuotesInv => InvoiceHasItsQuote
  BY DEF QuotesInv
<1>3. QED
  BY <1>1, <1>2, PTL

(* What ConversionIsAtomic says of one step.                               *)
AtomicStep ==
  \A q \in QuoteIds :
    LET converts == quotes[q].st # "converted" /\ quotes'[q].st = "converted"
        invoiced == \E n \in InvoiceIds :
                      invoices[n] = None /\ invoices'[n] # None /\ invoices'[n].quote = q
    IN /\ converts => invoiced
       /\ invoiced => quotes'[q].st = "converted"

(* A step that stores a conversion stores both halves of it.               *)
LEMMA StoreIsAtomic ==
  ASSUME TypeOK, NEW r, r.id \in QuoteIds, r.content \in Contents, StoreConversion(r)
  PROVE  AtomicStep
<1> USE QuotesAssumption DEF TypeOK
<1> DEFINE new == [quote |-> r.id, content |-> r.content]
           row == [st |-> "converted", content |-> quotes[r.id].content]
<1>1. PICK n \in InvoiceIds : invoices[n] = None /\ invoices' = [invoices EXCEPT ![n] = new]
  BY DEF StoreConversion
<1>2. quotes' = [quotes EXCEPT ![r.id] = row]
  BY DEF StoreConversion
<1>3. new.quote = r.id /\ row.st = "converted" /\ new # None
  OBVIOUS
<1> HIDE DEF new, row
<1>4. invoices'[n] = new /\ \A m \in InvoiceIds \ {n} : invoices'[m] = invoices[m]
  BY <1>1
<1>5. quotes'[r.id] = row /\ \A q \in QuoteIds \ {r.id} : quotes'[q] = quotes[q]
  BY <1>2
<1>6. QED
  BY <1>1, <1>3, <1>4, <1>5 DEF AtomicStep

(* A step that neither adds an invoice nor marks a quote as converted.     *)
LEMMA NothingConverted ==
  ASSUME \A n \in InvoiceIds : invoices[n] = None => invoices'[n] = None,
         \A q \in QuoteIds : quotes'[q].st = "converted" => quotes[q].st = "converted"
  PROVE  AtomicStep
  BY DEF AtomicStep

(* An invoice and the status "Prevedená" come together, in every step.     *)
THEOREM ConversionsAreAtomic == Spec => ConversionIsAtomic
<1>1. Spec => []QuotesInv
  BY QuotesInit, QuotesStep, PTL DEF Spec
<1>2. QuotesInv /\ [Next]_vars => [AtomicStep]_vars
  <2> SUFFICES ASSUME QuotesInv, Next PROVE AtomicStep
    BY DEF AtomicStep
  <2> USE DEF QuotesInv, TypeOK
  <2>1. ASSUME NEW q \in QuoteIds, CreateQuote(q) PROVE AtomicStep
    <3>1. PICK c \in Contents : quotes' = [quotes EXCEPT ![q] = [st |-> "draft", content |-> c]]
      BY <2>1 DEF CreateQuote
    <3>2. \A p \in QuoteIds : quotes'[p].st = "converted" => quotes[p].st = "converted"
      BY <3>1
    <3>3. QED
      BY <2>1, <3>2, NothingConverted DEF CreateQuote
  <2>2. ASSUME NEW n \in InvoiceIds, DeleteInvoice(n) PROVE AtomicStep
    BY <2>2, NothingConverted DEF DeleteInvoice
  <2>3. ASSUME UNCHANGED <<quotes, invoices>> PROVE AtomicStep
    BY <2>3, NothingConverted
  <2>4. ASSUME NEW h \in Handlers, CommitEdit(h) PROVE AtomicStep
    <3>1. req[h].id \in QuoteIds
      BY <2>4, RequestKinds DEF CommitEdit, Running
    <3>2. \A q \in QuoteIds : quotes'[q].st = quotes[q].st
      BY <2>4, <3>1 DEF CommitEdit
    <3>3. QED
      BY <2>4, <3>2, NothingConverted DEF CommitEdit
  <2>5. ASSUME NEW h \in Handlers, CommitDelete(h) PROVE AtomicStep
    <3>1. req[h].id \in QuoteIds
      BY <2>5, RequestKinds DEF CommitDelete, Running
    <3>2. \A q \in QuoteIds : quotes'[q].st \in {quotes[q].st, "deleted"}
      BY <2>5, <3>1 DEF CommitDelete
    <3>3. QED
      BY <2>5, <3>2, NothingConverted DEF CommitDelete
  <2>6. ASSUME NEW h \in Handlers, CommitStatus(h) PROVE AtomicStep
    <3>1. req[h].id \in QuoteIds /\ req[h].to \in Statuses \ {"converted"}
      BY <2>6, RequestKinds DEF CommitStatus, Running
    <3>2. \A q \in QuoteIds : quotes'[q].st \in {quotes[q].st, req[h].to}
      BY <2>6, <3>1 DEF CommitStatus
    <3>3. QED
      BY <2>6, <3>1, <3>2, NothingConverted DEF CommitStatus
  <2>7. ASSUME NEW h \in Handlers, CommitConvert(h) \/ CommitRetry(h) PROVE AtomicStep
    <3>1. req[h].id \in QuoteIds /\ req[h].content \in Contents
      BY <2>7, RequestKinds DEF CommitConvert, CommitRetry, Running
    <3>2. StoreConversion(req[h])
      BY <2>7 DEF CommitConvert, CommitRetry
    <3>3. QED
      BY <3>1, <3>2, StoreIsAtomic
  <2>8. QED
    BY <2>1, <2>2, <2>3, <2>4, <2>5, <2>6, <2>7
    DEF Next, CreateInvoice, ReadForEdit, ReadForDelete, ReadForStatus, ReadForConvert, Open,
        RollBackConvert, CommitFails, Crash
<1>3. QED
  BY <1>1, <1>2, PTL DEF Spec, ConversionIsAtomic, AtomicStep
=============================================================================
