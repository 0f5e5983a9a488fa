----------------------- MODULE InvoicesProofs -----------------------
(***************************************************************************)
(* Proofs about invoices: InvoiceLifecycle, PaymentPool and CreditNotes,   *)
(* for every set of invoices, threads, totals and payment rows.            *)
(*                                                                         *)
(* None of the properties is inductive: what a handler writes depends on   *)
(* what it read earlier.  LifecycleInv says that the status it read is     *)
(* still the true one for every handler with the payment lock, except that *)
(* a draft may have been deleted, for which no lock is needed.  BooksInv   *)
(* says the same of the money: the balance a payment was checked against   *)
(* is still the balance, and no invoice has received more than its total.  *)
(* CapInv says it of create_credit_note, which has no lock: whatever       *)
(* happens beside it only makes the room it found larger.  The sums are    *)
(* those of FiguresProofs.                                                 *)
(***************************************************************************)
EXTENDS InvoiceLifecycle, PaymentPool, CreditNotes, FiguresProofs

Locking == {"status", "pay", "unpay"}

(* Functions of the right domain, and statuses.                            *)
Shape ==
  /\ inv = [i \in Invoices |-> inv[i]]
  /\ trail = [i \in Invoices |-> trail[i]]
  /\ req = [h \in Handlers |-> req[h]]
  /\ \A i \in Invoices : inv[i].st \in Statuses \union {"absent", "deleted"}

(* In the invoices table t, a status change still sees the status it read, *)
(* unless the draft is gone; a payment still sees an open invoice.         *)
Current(r, t) ==
  /\ r.id \in Invoices
  /\ r.op \in {"edit", "delete", "date"} \union Locking
  /\ r.op = "status" => /\ r.st \in Statuses
                        /\ r.to \in Statuses
                        /\ IsValidTransition(r.st, r.to)
                        /\ t[r.id].st = r.st \/ (r.st = "draft" /\ t[r.id].st = "deleted")
  /\ r.op \in {"pay", "unpay"} => t[r.id].st = "sent"

RequestsKnow ==
  \A h \in Handlers :
    req[h] # None => Current(req[h], inv) /\ (req[h].op \in Locking => lock = h)

(* The last row of the history is about the status an invoice has; one     *)
(* that is not there (yet, or any more) was last seen as a draft.          *)
History ==
  \A i \in Invoices :
    /\ Present(i) => trail[i].to = inv[i].st
    /\ ~Present(i) => trail[i].to = "draft"

LifecycleInv == Shape /\ RequestsKnow /\ History

-----------------------------------------------------------------------------

(* What Update does to the invoices table.                                 *)
LEMMA UpdateRow ==
  ASSUME Shape, NEW i \in Invoices, NEW st, NEW total, Update(i, st, total)
  PROVE  /\ inv' = [j \in Invoices |-> inv'[j]]
         /\ inv'[i].st = st
         /\ inv'[i].total = total
         /\ inv'[i].kind = inv[i].kind
         /\ \A j \in Invoices : j # i => inv'[j] = inv[j]
  BY DEF Shape, Update

(* Initially there is no invoice.                                          *)
LEMMA LifecycleInit == Init => LifecycleInv
<1> SUFFICES ASSUME Init PROVE LifecycleInv
  OBVIOUS
<1>1. \A i \in Invoices : inv[i].st = "absent" /\ trail[i].to = "draft"
  BY DEF Init
<1>2. Shape
  BY <1>1 DEF Init, Shape
<1>3. RequestsKnow
  BY DEF Init, RequestsKnow
<1>4. History
  BY <1>1 DEF History, Present, Statuses
<1>5. QED
  BY <1>2, <1>3, <1>4 DEF LifecycleInv

(* A new request that is current, with the lock if it needs it.            *)
LEMMA OpenStep ==
  ASSUME LifecycleInv, NEW h \in Handlers, NEW r, Current(r, inv), Open(h, r),
         lock' = lock \/ (lock = None /\ lock' = h),
         r.op \in Locking => lock' = h
  PROVE  LifecycleInv'
<1> USE LifecycleAssumption DEF LifecycleInv
<1>1. Shape' /\ History'
  BY DEF Open, Shape, History, Present
<1>2. ASSUME NEW g \in Handlers, req'[g] # None
      PROVE  /\ Current(req'[g], inv')
             /\ req'[g].op \in Locking => lock' = g
  <2>1. CASE g = h
    <3>1. req'[g] = r
      BY <2>1 DEF Open, Shape
    <3>2. QED
      BY <2>1, <3>1 DEF Open, Current
  <2>2. CASE g # h
    <3>1. req'[g] = req[g]
      BY <2>2 DEF Open, Shape
    <3>2. Current(req[g], inv) /\ (req[g].op \in Locking => lock = g)
      BY <1>2, <3>1 DEF RequestsKnow
    <3>3. g # None
      BY DEF Handlers
    <3>4. QED
      BY <3>1, <3>2, <3>3 DEF Open, Current
  <2>3. QED
    BY <2>1, <2>2
<1>3. QED
  BY <1>1, <1>2 DEF RequestsKnow

(* A handler that finishes leaves the other requests current, if its write *)
(* does or if it had the lock.                                             *)
LEMMA FinishStep ==
  ASSUME LifecycleInv, NEW h \in Handlers, Finish(h), Shape', History',
         (\A r : Current(r, inv) => Current(r, inv')) \/ lock = h
  PROVE  LifecycleInv'
<1> USE LifecycleAssumption DEF LifecycleInv
<1>1. ASSUME NEW g \in Handlers, req'[g] # None
      PROVE  Current(req'[g], inv') /\ (req'[g].op \in Locking => lock' = g)
  <2>1. g # h /\ req'[g] = req[g]
    BY <1>1 DEF Finish, Shape
  <2>2. Current(req[g], inv) /\ (req[g].op \in Locking => lock = g)
    BY <1>1, <2>1 DEF RequestsKnow
  <2>3. req[g].op \in Locking => lock' = g
    BY <2>1, <2>2 DEF Finish
  <2>4. CASE \A r : Current(r, inv) => Current(r, inv')
    BY <2>1, <2>2, <2>3, <2>4
  <2>5. CASE lock = h
    BY <2>1, <2>2, <2>3, <2>5 DEF Current, Locking
  <2>6. QED
    BY <2>4, <2>5
<1>2. QED
  BY <1>1 DEF RequestsKnow

(* Rewriting a row without its status disturbs no other request.           *)
LEMMA SameStatus ==
  ASSUME LifecycleInv, \A i \in Invoices : inv'[i].st = inv[i].st,
         inv' = [i \in Invoices |-> inv'[i]], trail' = trail,
         req' = [h \in Handlers |-> req'[h]]
  PROVE  /\ Shape' /\ History'
         /\ \A r : Current(r, inv) => Current(r, inv')
  BY DEF LifecycleInv, Shape, History, Present, Current

(* What the handlers with the lock know when they write.                   *)
LEMMA HolderKnows ==
  ASSUME LifecycleInv, NEW h \in Handlers, req[h] # None
  PROVE  /\ Current(req[h], inv)
         /\ req[h].op \in Locking => lock = h
  BY DEF LifecycleInv, RequestsKnow

(* A status change or a final payment writes the status and its history.   *)
LEMMA ChangeStep ==
  ASSUME LifecycleInv, NEW h \in Handlers, Finish(h), lock = h,
         NEW i \in Invoices, NEW st \in Statuses, NEW old, NEW total,
         Update(i, IF Present(i) THEN st ELSE inv[i].st, total),
         ~Present(i) => st = "draft",
         trail' = [trail EXCEPT ![i] = [from |-> old, to |-> st]]
  PROVE  LifecycleInv'
<1> USE DEF LifecycleInv
<1>1. /\ inv' = [j \in Invoices |-> inv'[j]]
      /\ inv'[i].st = IF Present(i) THEN st ELSE inv[i].st
      /\ \A j \in Invoices : j # i => inv'[j] = inv[j]
  BY UpdateRow
<1>2. trail'[i].to = st /\ \A j \in Invoices : j # i => trail'[j] = trail[j]
  BY DEF Shape
<1>3. Shape'
  BY <1>1 DEF Shape, Finish
<1>4. History'
  BY <1>1, <1>2 DEF History, Present
<1>5. QED
  BY <1>3, <1>4, FinishStep

(* The commit of a status change, in the terms of ChangeStep.              *)
LEMMA StatusCommit ==
  ASSUME LifecycleInv, NEW h \in Handlers, CommitStatus(h)
  PROVE  /\ req[h].id \in Invoices /\ req[h].st \in Statuses /\ req[h].to \in Statuses
         /\ lock = h
         /\ IsValidTransition(req[h].st, req[h].to)
         /\ Present(req[h].id) => inv[req[h].id].st = req[h].st
         /\ ~Present(req[h].id) => req[h].st = "draft" /\ req[h].to = "draft"
         /\ Update(req[h].id, IF Present(req[h].id) THEN req[h].to ELSE inv[req[h].id].st,
                   inv[req[h].id].total)
<1>1. Current(req[h], inv) /\ lock = h /\ req[h].op = "status"
  BY HolderKnows DEF CommitStatus, Running, Locking
<1>2. /\ req[h].id \in Invoices /\ req[h].st \in Statuses /\ req[h].to \in Statuses
      /\ IsValidTransition(req[h].st, req[h].to)
  BY <1>1 DEF Current
<1>3. Present(req[h].id) => inv[req[h].id].st = req[h].st
  BY <1>1 DEF Current, Present, Statuses
<1>4. ~Present(req[h].id) => req[h].st = "draft" /\ req[h].to = "draft"
  BY <1>1, <1>2 DEF Current, Present, CommitStatus
<1>5. (IF req[h].to = req[h].st THEN inv[req[h].id].st ELSE req[h].to)
        = IF Present(req[h].id) THEN req[h].to ELSE inv[req[h].id].st
  BY <1>3, <1>4
<1>6. QED
  BY <1>1, <1>2, <1>3, <1>4, <1>5 DEF CommitStatus

(* Every step keeps the invariant.                                         *)
LEMMA LifecycleStep == LifecycleInv /\ [Next]_vars => LifecycleInv'
<1> SUFFICES ASSUME LifecycleInv, [Next]_vars PROVE LifecycleInv'
  OBVIOUS
<1> USE LifecycleAssumption DEF LifecycleInv
<1>1. ASSUME NEW i \in Invoices, NEW kinds, NewDraft(i, kinds) PROVE LifecycleInv'
  <2>1. PICK t \in Totals, k \in Kinds \intersect kinds :
          inv' = [inv EXCEPT ![i] = [st |-> "draft", total |-> t, kind |-> k]]
    BY <1>1 DEF NewDraft
  <2>2. inv'[i].st = "draft" /\ \A j \in Invoices : j # i => inv'[j] = inv[j]
    BY <2>1 DEF Shape
  <2>3. inv[i].st = "absent" /\ UNCHANGED <<trail, lock, req>>
    BY <1>1 DEF NewDraft
  <2>4. Shape'
    BY <2>1, <2>2, <2>3 DEF Shape, Statuses
  <2>5. RequestsKnow'
    <3>1. \A r : Current(r, inv) => Current(r, inv')
      BY <2>2, <2>3 DEF Current, Statuses
    <3>2. QED
      BY <2>3, <3>1 DEF RequestsKnow
  <2>6. History'
    BY <2>2, <2>3 DEF History, Present, Statuses
  <2>7. QED
    BY <2>4, <2>5, <2>6
<1>2. ASSUME NEW i \in Invoices, ReadForEdit(i) PROVE LifecycleInv'
  <2>1. PICK t \in Totals : OpenUnlocked(Loop, [op |-> "edit", id |-> i, total |-> t])
    BY <1>2 DEF ReadForEdit
  <2>2. QED
    BY <2>1, OpenStep DEF OpenUnlocked, Handlers, Current, Locking
<1>3. ASSUME NEW i \in Invoices, NEW h \in Threads, ReadForDelete(h, i) PROVE LifecycleInv'
  BY <1>3, OpenStep DEF ReadForDelete, OpenUnlocked, Handlers, Current, Locking
<1>4. ASSUME NEW i \in Invoices, NEW h \in Threads, ReadForStatus(h, i) PROVE LifecycleInv'
  <2>1. PICK s \in Statuses :
          /\ IsValidTransition(inv[i].st, s)
          /\ OpenLocked(h, [op |-> "status", id |-> i, st |-> inv[i].st, to |-> s,
                             date |-> date[i]])
    BY <1>4 DEF ReadForStatus
  <2>2. inv[i].st \in Statuses
    BY <1>4 DEF ReadForStatus, Present
  <2>3. QED
    BY <2>1, <2>2, OpenStep DEF OpenLocked, Handlers, Current, Locking
<1>5. ASSUME NEW i \in Invoices, NEW h \in Threads, ReadForPayment(h, i) PROVE LifecycleInv'
  <2>1. PICK a \in 1 .. Balance(i) : OpenLocked(h, [op |-> "pay", id |-> i, amount |-> a])
    BY <1>5 DEF ReadForPayment
  <2>2. inv[i].st = "sent"
    BY <1>5 DEF ReadForPayment
  <2>3. QED
    BY <2>1, <2>2, OpenStep DEF OpenLocked, Handlers, Current, Locking
<1>6. ASSUME NEW i \in Invoices, NEW h \in Threads, ReadForUnpay(h, i) PROVE LifecycleInv'
  <2>1. PICK p \in PaidRows(i) : OpenLocked(h, [op |-> "unpay", id |-> i, row |-> p])
    BY <1>6 DEF ReadForUnpay
  <2>2. inv[i].st = "sent"
    BY <1>6 DEF ReadForUnpay
  <2>3. QED
    BY <2>1, <2>2, OpenStep DEF OpenLocked, Handlers, Current, Locking
<1>15. ASSUME NEW i \in Invoices, NEW h \in Threads, ReadForDate(h, i) PROVE LifecycleInv'
  <2>1. PICK d \in Dates \union {None} :
          OpenUnlocked(h, [op |-> "date", id |-> i, seen |-> date[i], to |-> d])
    BY <1>15 DEF ReadForDate
  <2>2. QED
    BY <2>1, OpenStep DEF OpenUnlocked, Handlers, Current, Locking
<1>7. ASSUME NEW h \in Handlers, CommitEdit(h) PROVE LifecycleInv'
  <2>1. req[h].id \in Invoices
    BY <1>7, HolderKnows DEF CommitEdit, Running, Current
  <2>2. /\ \A i \in Invoices : inv'[i].st = inv[i].st
        /\ inv' = [i \in Invoices |-> inv'[i]]
    BY <1>7, <2>1, UpdateRow DEF CommitEdit, Shape
  <2>3. Finish(h) /\ trail' = trail /\ req' = [g \in Handlers |-> req'[g]]
    BY <1>7 DEF CommitEdit, Finish, Shape
  <2>4. QED
    BY <2>2, <2>3, SameStatus, FinishStep
<1>8. ASSUME NEW h \in Handlers, CommitDelete(h) PROVE LifecycleInv'
  <2>1. req[h].id \in Invoices /\ inv[req[h].id].st = "draft"
    BY <1>8, HolderKnows DEF CommitDelete, Running, Current, TriggerAllows
  <2>2. /\ inv' = [i \in Invoices |-> inv'[i]]
        /\ inv'[req[h].id].st = "deleted"
        /\ \A i \in Invoices : i # req[h].id => inv'[i] = inv[i]
    BY <1>8, <2>1, UpdateRow DEF CommitDelete
  <2>3. Finish(h) /\ trail' = trail
    BY <1>8 DEF CommitDelete
  <2>4. Shape'
    BY <2>2, <2>3 DEF Shape, Finish
  <2>5. History'
    BY <2>1, <2>2, <2>3 DEF History, Present, Statuses
  <2>6. \A r : Current(r, inv) => Current(r, inv')
    BY <2>1, <2>2 DEF Current
  <2>7. QED
    BY <2>3, <2>4, <2>5, <2>6, FinishStep
<1>9. ASSUME NEW h \in Handlers, CommitStatus(h) PROVE LifecycleInv'
  <2>1. /\ Finish(h)
        /\ trail' = [trail EXCEPT ![req[h].id] = [from |-> req[h].st, to |-> req[h].to]]
    BY <1>9 DEF CommitStatus
  <2>2. QED
    BY <1>9, <2>1, StatusCommit, ChangeStep
<1>10. ASSUME NEW h \in Handlers, CommitPayment(h) PROVE LifecycleInv'
  <2>1. /\ req[h].id \in Invoices /\ inv[req[h].id].st = "sent" /\ lock = h /\ Finish(h)
    BY <1>10, HolderKnows DEF CommitPayment, Running, Current, Locking
  <2>2. CASE UNCHANGED <<inv, trail>>
    BY <2>1, <2>2, FinishStep DEF Shape, History, Present, Finish
  <2>3. CASE /\ Update(req[h].id, "paid", inv[req[h].id].total)
             /\ trail' = [trail EXCEPT ![req[h].id] = [from |-> "sent", to |-> "paid"]]
    BY <2>1, <2>3, ChangeStep DEF Present, Statuses
  <2>4. QED
    BY <1>10, <2>2, <2>3 DEF CommitPayment
<1>11. ASSUME NEW h \in Handlers, CommitUnpay(h) \/ CommitDate(h) \/ CommitFails(h)
      PROVE  LifecycleInv'
  BY <1>11, FinishStep DEF CommitUnpay, CommitDate, CommitFails, Shape, History, Present, Finish
<1>12. ASSUME Crash PROVE LifecycleInv'
  BY <1>12 DEF Crash, Shape, RequestsKnow, History, Present
<1>13. ASSUME UNCHANGED vars PROVE LifecycleInv'
  BY <1>13 DEF vars, Shape, RequestsKnow, History, Present
<1>14. QED
  BY <1>1, <1>2, <1>3, <1>4, <1>5, <1>6, <1>7, <1>8, <1>9, <1>10, <1>11, <1>12,
     <1>13, <1>15 DEF Next, CreateInvoice, DuplicateInvoice, CreateCreditNote

(* LifecycleInv holds in every reachable state.                            *)
LEMMA LifecycleInvariant == Spec => []LifecycleInv
  BY LifecycleInit, LifecycleStep, PTL DEF Spec

(* Whatever handlers overlap, the history of an invoice ends in the status *)
(* it has.                                                                 *)
THEOREM HistoryIsUpToDate == Spec => []HistoryEndsInStatus
<1>1. LifecycleInv => HistoryEndsInStatus
  BY DEF LifecycleInv, History, HistoryEndsInStatus
<1>2. QED
  BY <1>1, LifecycleInvariant, PTL

-----------------------------------------------------------------------------

(* What HistoryIsAChain says of one step.                                  *)
ChainStep == \A i \in Invoices : trail'[i] # trail[i] => trail'[i].from = trail[i].to

(* A row added to a history starts where the history ends.                 *)
LEMMA ChainGrows ==
  ASSUME Shape, NEW i \in Invoices, NEW new,
         trail' = [trail EXCEPT ![i] = [from |-> trail[i].to, to |-> new]]
  PROVE  ChainStep
  BY DEF Shape, ChainStep

(* No two status changes start from the same status: the rows of a history *)
(* follow each other.                                                      *)
THEOREM HistoryChains == Spec => HistoryIsAChain
<1>1. LifecycleInv /\ [Next]_vars => [ChainStep]_vars
  <2> SUFFICES ASSUME LifecycleInv, Next PROVE ChainStep
    BY DEF ChainStep
  <2> USE DEF LifecycleInv
  <2>1. ASSUME UNCHANGED trail PROVE ChainStep
    BY <2>1 DEF ChainStep
  <2>2. ASSUME NEW h \in Handlers, CommitStatus(h) PROVE ChainStep
    <3>1. req[h].id \in Invoices /\ trail[req[h].id].to = req[h].st
      BY <2>2, StatusCommit DEF History
    <3>2. trail' = [trail EXCEPT ![req[h].id] = [from |-> trail[req[h].id].to,
                                                 to |-> req[h].to]]
      BY <2>2, <3>1 DEF CommitStatus
    <3>3. QED
      BY <3>1, <3>2, ChainGrows
  <2>3. ASSUME NEW h \in Handlers, CommitPayment(h) PROVE ChainStep
    <3>1. req[h].id \in Invoices /\ inv[req[h].id].st = "sent"
      BY <2>3, HolderKnows DEF CommitPayment, Running, Current
    <3>2. trail[req[h].id].to = "sent"
      BY <3>1 DEF History, Present, Statuses
    <3>3. CASE trail' = [trail EXCEPT ![req[h].id] = [from |-> "sent", to |-> "paid"]]
      <4>1. trail' = [trail EXCEPT ![req[h].id] = [from |-> trail[req[h].id].to,
                                                   to |-> "paid"]]
        BY <3>2, <3>3
      <4>2. QED
        BY <3>1, <4>1, ChainGrows
    <3>4. QED
      BY <2>1, <2>3, <3>3 DEF CommitPayment
  <2>4. QED
    BY <2>1, <2>2, <2>3
    DEF Next, CreateInvoice, DuplicateInvoice, CreateCreditNote, NewDraft, ReadForEdit,
        ReadForDelete, ReadForStatus, ReadForPayment, ReadForUnpay, ReadForDate,
        OpenLocked, OpenUnlocked, Open, CommitEdit, CommitDelete,
        CommitUnpay, CommitDate, CommitFails, Crash
<1>2. QED
  BY <1>1, LifecycleInvariant, PTL DEF Spec, HistoryIsAChain, ChainStep

-----------------------------------------------------------------------------

(* What IssuedIsFrozen says of one step.                                   *)
FrozenStep ==
  \A i \in Invoices :
    Issued(i) => /\ Issued(i)'
                 /\ inv'[i].total = inv[i].total
                 /\ inv'[i].kind = inv[i].kind

(* A row that is not issued, or whose total and place among the issued     *)
(* ones stay, may be rewritten.                                            *)
LEMMA OneRow ==
  ASSUME Shape, NEW i \in Invoices, NEW st, NEW total, Update(i, st, total),
         Issued(i) => st \in Statuses \ {"draft"} /\ total = inv[i].total
  PROVE  FrozenStep
<1>1. /\ inv'[i].st = st /\ inv'[i].total = total /\ inv'[i].kind = inv[i].kind
      /\ \A j \in Invoices : j # i => inv'[j] = inv[j]
  BY UpdateRow
<1>2. QED
  BY <1>1 DEF FrozenStep, Issued

(* An issued invoice keeps its total and stays issued, in every step.      *)
THEOREM IssuedStaysFrozen == Spec => IssuedIsFrozen
<1>1. LifecycleInv /\ [Next]_vars => [FrozenStep]_vars
  <2> SUFFICES ASSUME LifecycleInv, Next PROVE FrozenStep
    BY DEF FrozenStep, Issued
  <2> USE DEF LifecycleInv
  <2>1. ASSUME UNCHANGED inv PROVE FrozenStep
    BY <2>1 DEF FrozenStep, Issued
  <2>2. ASSUME NEW i \in Invoices, NEW kinds, NewDraft(i, kinds) PROVE FrozenStep
    <3>1. inv[i].st = "absent" /\ \A j \in Invoices : j # i => inv'[j] = inv[j]
      BY <2>2 DEF NewDraft, Shape
    <3>2. QED
      BY <3>1 DEF FrozenStep, Issued, Statuses
  <2>3. ASSUME NEW h \in Handlers,
               CommitEdit(h) \/ CommitDelete(h)
        PROVE  FrozenStep
    <3>1. req[h].id \in Invoices
      BY <2>3, HolderKnows DEF CommitEdit, CommitDelete, Running, Current
    <3>2. QED
      BY <2>1, <2>3, <3>1, OneRow
      DEF CommitEdit, CommitDelete, TriggerAllows, Issued
  <2>4. ASSUME NEW h \in Handlers, CommitStatus(h) PROVE FrozenStep
    <3>1. Issued(req[h].id) => Present(req[h].id) /\ inv[req[h].id].st = req[h].st
      BY <2>4, StatusCommit DEF Issued, Present
    <3>2. Issued(req[h].id) => req[h].to \in Statuses \ {"draft"}
      BY <2>4, <3>1, StatusCommit DEF Issued, IsValidTransition, AllowedNext, Statuses
    <3>3. QED
      BY <2>4, <3>1, <3>2, StatusCommit, OneRow
  <2>5. ASSUME NEW h \in Handlers, CommitPayment(h) PROVE FrozenStep
    <3>1. req[h].id \in Invoices
      BY <2>5, HolderKnows DEF CommitPayment, Running, Current
    <3>2. QED
      BY <2>1, <2>5, <3>1, OneRow DEF CommitPayment, Statuses
  <2>6. QED
    BY <2>1, <2>2, <2>3, <2>4, <2>5
    DEF Next, CreateInvoice, DuplicateInvoice, CreateCreditNote, ReadForEdit, ReadForDelete,
        ReadForStatus, ReadForPayment, ReadForUnpay, ReadForDate, OpenLocked,
        OpenUnlocked, Open, CommitUnpay, CommitDate, CommitFails, Crash
<1>2. QED
  BY <1>1, LifecycleInvariant, PTL DEF Spec, IssuedIsFrozen, FrozenStep

-----------------------------------------------------------------------------

(* The invoice has its paid date, or a user removed it.                    *)
Dated(i) == date[i] # None \/ i \in cleared

(* What PaidHasDate needs: a status change that read a date will find the  *)
(* invoice dated when it commits.                                          *)
DateInv ==
  /\ date = [i \in Invoices |-> date[i]]
  /\ \A i \in Invoices : inv[i].st = "paid" => Dated(i)
  /\ \A h \in Handlers, i \in Invoices :
       Running(h, "status") /\ req[h].date # None /\ req[h].id = i => Dated(i)

(* Writing a date, or removing it, leaves every dated invoice dated.       *)
LEMMA SetDateKeeps ==
  ASSUME date = [i \in Invoices |-> date[i]], NEW i \in Invoices,
         NEW d, SetDate(i, d)
  PROVE  /\ date' = [j \in Invoices |-> date'[j]]
         /\ Dated(i)'
         /\ \A j \in Invoices : Dated(j) => Dated(j)'
<1>1. \A j \in Invoices : date'[j] = IF j = i THEN d ELSE date[j]
  BY DEF SetDate
<1>2. date' = [j \in Invoices |-> date'[j]]
  BY DEF SetDate
<1>3. Dated(i)'
  BY <1>1 DEF SetDate, Dated
<1>4. ASSUME NEW j \in Invoices, Dated(j), j # i PROVE Dated(j)'
  BY <1>1, <1>4 DEF SetDate, Dated
<1>5. QED
  BY <1>2, <1>3, <1>4

(* A step in which no invoice becomes paid or loses its date, and every    *)
(* status request was there before or has just read the date.              *)
LEMMA DatesKept ==
  ASSUME LifecycleInv, DateInv,
         date' = [i \in Invoices |-> date'[i]],
         \A i \in Invoices : Dated(i) => Dated(i)',
         \A i \in Invoices : inv'[i].st = "paid" => inv[i].st = "paid" \/ Dated(i)',
         \A h \in Handlers, i \in Invoices :
           \/ req'[h] = None \/ req'[h] = req[h] \/ req'[h].op # "status"
           \/ req'[h].date # None /\ req'[h].id = i => Dated(i)
  PROVE  DateInv'
<1>1. \A i \in Invoices : inv'[i].st = "paid" => Dated(i)'
  BY DEF DateInv
<1>2. ASSUME NEW h \in Handlers, NEW i \in Invoices,
             req'[h] # None, req'[h].op = "status", req'[h].date # None, req'[h].id = i
      PROVE  Dated(i)'
  <2>1. Dated(i)
    BY <1>2 DEF DateInv, Running
  <2>2. QED
    BY <2>1
<1>3. QED
  BY <1>1, <1>2 DEF DateInv, Running

(* DateInv is inductive, given LifecycleInv.                               *)
LEMMA DateStep == LifecycleInv /\ DateInv /\ [Next]_vars => DateInv'
<1> SUFFICES ASSUME LifecycleInv, DateInv, [Next]_vars PROVE DateInv'
  OBVIOUS
<1> USE LifecycleAssumption
<1>1. date = [i \in Invoices |-> date[i]]
  BY DEF DateInv
<1>2. Shape
  BY DEF LifecycleInv
<1>3. ASSUME NEW i \in Invoices, NEW kinds, NewDraft(i, kinds) PROVE DateInv'
  <2>1. UNCHANGED <<dates, req>> /\ \A j \in Invoices : inv'[j].st = "paid" => inv[j].st = "paid"
    BY <1>3, <1>2 DEF NewDraft, Shape
  <2>2. QED
    BY <2>1, <1>1, DatesKept DEF dates, Dated
<1>4. ASSUME NEW h \in Handlers, NEW r, Open(h, r),
             r.op = "status" => r.id \in Invoices /\ r.date = date[r.id]
      PROVE  DateInv'
  <2>1. UNCHANGED <<inv, dates>> /\ \A g \in Handlers : req'[g] = req[g] \/ req'[g] = r
    BY <1>4, <1>2 DEF Open, Shape
  <2>2. r.op # "status" \/ \A i \in Invoices : r.date # None /\ r.id = i => Dated(i)
    BY <1>4 DEF Dated
  <2>3. QED
    BY <2>1, <2>2, <1>1, DatesKept DEF dates, Dated
<1>5. ASSUME NEW i \in Invoices,
             \/ ReadForEdit(i)
             \/ \E h \in Threads :
                  \/ ReadForDelete(h, i) \/ ReadForStatus(h, i) \/ ReadForPayment(h, i)
                  \/ ReadForUnpay(h, i) \/ ReadForDate(h, i)
      PROVE  DateInv'
  BY <1>4, <1>5 DEF ReadForEdit, ReadForDelete, ReadForStatus, ReadForPayment, ReadForUnpay,
       ReadForDate, OpenLocked, OpenUnlocked, Handlers
<1>6. ASSUME NEW h \in Handlers, Finish(h)
      PROVE  \A g \in Handlers : req'[g] = None \/ req'[g] = req[g]
  BY <1>6, <1>2 DEF Finish, Shape
<1>7. ASSUME NEW h \in Handlers, NEW i \in Invoices, NEW st, NEW total, Update(i, st, total),
             Finish(h), UNCHANGED dates, st = "paid" => Dated(i)
      PROVE  DateInv'
  <2>1. \A j \in Invoices : inv'[j].st = "paid" => inv[j].st = "paid" \/ Dated(j)
    BY <1>2, <1>7, UpdateRow
  <2>2. QED
    BY <2>1, <1>1, <1>6, <1>7, DatesKept DEF dates, Dated
<1>8. ASSUME NEW h \in Handlers, NEW i \in Invoices, NEW st, NEW total, NEW d,
             Update(i, st, total), Finish(h), SetDate(i, d)
      PROVE  DateInv'
  <2>1. \A j \in Invoices : inv'[j].st = "paid" => inv[j].st = "paid" \/ Dated(j)'
    <3>1. \A j \in Invoices : j # i => inv'[j] = inv[j]
      BY <1>2, <1>8, UpdateRow
    <3>2. Dated(i)'
      BY <1>1, <1>8, SetDateKeeps
    <3>3. QED
      BY <3>1, <3>2
  <2>2. QED
    BY <2>1, <1>1, <1>6, <1>8, SetDateKeeps, DatesKept
<1>9. ASSUME NEW h \in Handlers, CommitEdit(h) \/ CommitDelete(h) PROVE DateInv'
  <2>1. req[h].id \in Invoices /\ inv[req[h].id].st = "draft"
    BY <1>9, HolderKnows DEF CommitEdit, CommitDelete, Running, Current, TriggerAllows
  <2>2. QED
    BY <2>1, <1>7, <1>9 DEF CommitEdit, CommitDelete, dates
<1>10. ASSUME NEW h \in Handlers, CommitStatus(h) PROVE DateInv'
  <2> DEFINE i == req[h].id
             st == IF Present(i) THEN req[h].to ELSE inv[i].st
  <2>1. /\ i \in Invoices /\ Update(i, st, inv[i].total) /\ Finish(h)
        /\ st = "paid" => req[h].to = "paid"
    BY <1>10, StatusCommit DEF CommitStatus, Present, Statuses
  <2>2. CASE req[h].to = "paid" /\ req[h].date = None
    <3>1. PICK d \in Dates : SetDate(i, d)
      BY <1>10, <2>2 DEF CommitStatus, DatePaid
    <3>2. QED
      BY <2>1, <3>1, <1>8
  <2>3. CASE ~(req[h].to = "paid" /\ req[h].date = None)
    <3>1. UNCHANGED dates
      BY <1>10, <2>3 DEF CommitStatus, DatePaid
    <3>2. req[h].to = "paid" => Dated(i)
      BY <1>10, <2>1, <2>3 DEF CommitStatus, DateInv
    <3>3. QED
      BY <2>1, <3>1, <3>2, <1>7
  <2>4. QED
    BY <2>2, <2>3
<1>11. ASSUME NEW h \in Handlers, CommitPayment(h) PROVE DateInv'
  <2>1. req[h].id \in Invoices /\ Finish(h)
    BY <1>11, HolderKnows DEF CommitPayment, Running, Current
  <2>2. CASE UNCHANGED <<inv, trail, dates>>
    BY <2>1, <2>2, <1>1, <1>6, DatesKept DEF dates, Dated
  <2>3. ASSUME NEW d \in Dates, SetDate(req[h].id, d),
               Update(req[h].id, "paid", inv[req[h].id].total)
        PROVE  DateInv'
    BY <2>1, <2>3, <1>8
  <2>4. QED
    BY <1>11, <2>2, <2>3 DEF CommitPayment
<1>12. ASSUME NEW h \in Handlers, CommitUnpay(h) \/ CommitFails(h) PROVE DateInv'
  BY <1>1, <1>6, <1>12, DatesKept DEF CommitUnpay, CommitFails, dates, Dated
<1>13. ASSUME NEW h \in Handlers, CommitDate(h) PROVE DateInv'
  <2>1. req[h].id \in Invoices /\ Finish(h) /\ UNCHANGED inv
    BY <1>13, HolderKnows DEF CommitDate, Running, Current
  <2>2. CASE UNCHANGED dates
    BY <2>1, <2>2, <1>1, <1>6, DatesKept DEF dates, Dated
  <2>3. CASE SetDate(req[h].id, req[h].to)
    BY <2>1, <2>3, <1>1, <1>6, SetDateKeeps, DatesKept
  <2>4. QED
    BY <1>13, <2>2, <2>3 DEF CommitDate
<1>14. ASSUME Crash PROVE DateInv'
  BY <1>1, <1>14, DatesKept DEF Crash, dates, Dated
<1>15. ASSUME UNCHANGED vars PROVE DateInv'
  BY <1>1, <1>15, DatesKept DEF vars, dates, Dated
<1>16. QED
  BY <1>3, <1>5, <1>9, <1>10, <1>11, <1>12, <1>13, <1>14, <1>15
  DEF Next, CreateInvoice, DuplicateInvoice, CreateCreditNote

(* A paid invoice has the date of its revenue unless a user removed it,    *)
(* although the status change decides about the date by an older reading   *)
(* and the form for the date takes no lock.                                *)
THEOREM PaidIsDated == Spec => []PaidHasDate
<1>1. Init => DateInv
  BY DEF Init, DateInv, Running
<1>2. DateInv => PaidHasDate
  BY DEF DateInv, Dated, PaidHasDate
<1>3. QED
  BY <1>1, <1>2, DateStep, LifecycleInvariant, PTL DEF Spec

-----------------------------------------------------------------------------
(* Types (of InvoiceLifecycle), and payments as sums                       *)

(* The payments of an invoice as the sum of its rows.                      *)
LEMMA PaidSumIs ==
  ASSUME pay \in [Invoices -> [Rows -> Nat]], NEW i \in Invoices
  PROVE  PaidSum(i) = Total(pay[i], Rows) /\ PaidSum(i) \in Nat
<1>1. pay[i] \in [Rows -> Nat] /\ DOMAIN pay[i] = Rows
  OBVIOUS
<1>2. PaidSum(i) = Total(pay[i], Rows)
  BY <1>1, SumIs DEF PaidSum
<1>3. QED
  BY <1>1, <1>2, TotalNat, LifecycleAssumption

(* Totals are natural numbers, of no document too.                         *)
LEMMA TotalType ==
  ASSUME TypeOK, NEW i \in Invoices
  PROVE  inv[i].total \in Nat
<1>1. inv[i].total \in Totals \union {0}
  BY DEF TypeOK
<1>2. Totals \union {0} \subseteq Nat
  BY TotalsAssumption
<1>3. QED
  BY <1>1, <1>2

(* The balance is an integer, so a payment within it is of some amount.    *)
LEMMA BalanceType ==
  ASSUME TypeOK, NEW i \in Invoices
  PROVE  Balance(i) \in Int
<1>1. PaidSum(i) \in Nat
  BY PaidSumIs DEF TypeOK
<1>2. QED
  BY <1>1, TotalType DEF Balance

(* The kinds of requests and what they carry.                              *)
LEMMA RequestFields ==
  ASSUME NEW r \in Request
  PROVE  /\ r.id \in Invoices
         /\ r.op = "edit" => r.total \in Totals
         /\ r.op = "status" => r.st \in Statuses /\ r.to \in Statuses
         /\ r.op = "pay" => r.amount \in Nat \ {0}
         /\ r.op = "unpay" => r.row \in Rows
         /\ r.op = "date" => r.to \in Dates \union {None}
  BY DEF Request

(* A handler that begins.                                                  *)
LEMMA OpenType ==
  ASSUME TypeOK, NEW h \in Handlers, NEW r \in Request, Open(h, r),
         lock' \in Threads \union {None}
  PROVE  TypeOK'
  BY DEF TypeOK, Open, dates

(* A handler that finishes.                                                *)
LEMMA FinishType ==
  ASSUME TypeOK, NEW h \in Handlers, Finish(h)
  PROVE  lock' \in Threads \union {None} /\ req' \in [Handlers -> Request \union {None}]
  BY DEF TypeOK, Finish

(* The row of an invoice rewritten.                                        *)
LEMMA UpdateType ==
  ASSUME TypeOK, NEW i \in Invoices, NEW st \in Statuses \union {"absent", "deleted"},
         NEW total \in Totals \union {0}, Update(i, st, total)
  PROVE  inv' \in [Invoices -> [st : Statuses \union {"absent", "deleted"},
                                total : Totals \union {0}, kind : Kinds]]
<1>1. inv[i].kind \in Kinds
  BY DEF TypeOK
<1>2. QED
  BY <1>1 DEF TypeOK, Update

(* A payment row written.                                                  *)
LEMMA PayType ==
  ASSUME TypeOK, NEW i \in Invoices, NEW p \in Rows, NEW a \in Nat,
         pay' = [pay EXCEPT ![i][p] = a]
  PROVE  /\ pay' \in [Invoices -> [Rows -> Nat]]
         /\ pay'[i] = [pay[i] EXCEPT ![p] = a]
         /\ \A j \in Invoices : j # i => pay'[j] = pay[j]
  BY DEF TypeOK

(* A date written.                                                         *)
LEMMA DateType ==
  ASSUME TypeOK, NEW i \in Invoices, NEW d \in Dates \union {None}, SetDate(i, d)
  PROVE  date' \in [Invoices -> Dates \union {None}] /\ cleared' \subseteq Invoices
  BY DEF TypeOK, SetDate

(* A status change writes a status, a natural number and a date.           *)
LEMMA StatusCommitType ==
  ASSUME TypeOK, NEW h \in Handlers, CommitStatus(h)
  PROVE  TypeOK'
<1> DEFINE r == req[h]
<1>1. r \in Request /\ r.op = "status"
  BY DEF CommitStatus, Running, TypeOK
<1>2. r.id \in Invoices /\ r.st \in Statuses /\ r.to \in Statuses
  BY <1>1, RequestFields
<1>3. lock' \in Threads \union {None} /\ req' \in [Handlers -> Request \union {None}]
  BY FinishType DEF CommitStatus
<1>4. inv[r.id].st \in Statuses \union {"absent", "deleted"} /\ inv[r.id].total \in Totals \union {0}
  BY <1>2 DEF TypeOK
<1>5. Update(r.id, IF r.to = r.st THEN inv[r.id].st ELSE r.to, inv[r.id].total)
  BY DEF CommitStatus
<1>6. trail' = [trail EXCEPT ![r.id] = [from |-> r.st, to |-> r.to]]
  BY DEF CommitStatus
<1>7. pay' \in [Invoices -> [Rows -> Nat]]
  <2>1. PICK p \in FreeRows(r.id) : AddRest(r, p)
    BY DEF CommitStatus
  <2>2. p \in Rows
    BY DEF FreeRows
  <2>3. CASE pay' = [pay EXCEPT ![r.id][p] = Balance(r.id)] /\ Balance(r.id) > 0
    <3>1. Balance(r.id) \in Nat
      BY <1>2, <2>3, BalanceType
    <3>2. QED
      BY <1>2, <2>2, <2>3, <3>1, PayType
  <2>4. QED
    BY <2>1, <2>3 DEF AddRest, TypeOK
<1>8. date' \in [Invoices -> Dates \union {None}] /\ cleared' \subseteq Invoices
  <2>1. DatePaid(r)
    BY DEF CommitStatus
  <2>2. CASE UNCHANGED dates
    BY <2>2 DEF dates, TypeOK
  <2>3. ASSUME NEW d \in Dates, SetDate(r.id, d)
        PROVE  date' \in [Invoices -> Dates \union {None}] /\ cleared' \subseteq Invoices
    BY <1>2, <2>3, DateType
  <2>4. QED
    BY <2>1, <2>2, <2>3 DEF DatePaid
<1> HIDE DEF r
<1>9. inv' \in [Invoices -> [st : Statuses \union {"absent", "deleted"},
                             total : Totals \union {0}, kind : Kinds]]
  BY <1>2, <1>4, <1>5, UpdateType
<1>10. trail' \in [Invoices -> [from : Statuses, to : Statuses]]
  BY <1>2, <1>6 DEF TypeOK
<1>11. QED
  BY <1>3, <1>7, <1>8, <1>9, <1>10 DEF TypeOK

(* So does a payment.                                                      *)
LEMMA PaymentCommitType ==
  ASSUME TypeOK, NEW h \in Handlers, CommitPayment(h)
  PROVE  TypeOK'
<1> DEFINE r == req[h]
<1>1. r \in Request /\ r.op = "pay"
  BY DEF CommitPayment, Running, TypeOK
<1>2. r.id \in Invoices /\ r.amount \in Nat
  BY <1>1, RequestFields
<1>3. lock' \in Threads \union {None} /\ req' \in [Handlers -> Request \union {None}]
  BY FinishType DEF CommitPayment
<1>4. pay' \in [Invoices -> [Rows -> Nat]]
  <2>1. PICK p \in FreeRows(r.id) : pay' = [pay EXCEPT ![r.id][p] = r.amount]
    BY DEF CommitPayment
  <2>2. QED
    BY <1>2, <2>1, PayType DEF FreeRows
<1>5. CASE UNCHANGED <<inv, trail, dates>>
  BY <1>3, <1>4, <1>5 DEF TypeOK, dates
<1>6. ASSUME Update(r.id, "paid", inv[r.id].total),
             trail' = [trail EXCEPT ![r.id] = [from |-> "sent", to |-> "paid"]],
             NEW d \in Dates, SetDate(r.id, d)
      PROVE  TypeOK'
  <2>1. inv[r.id].total \in Totals \union {0} /\ "paid" \in Statuses /\ "sent" \in Statuses
    BY <1>2 DEF TypeOK, Statuses
  <2>2. inv' \in [Invoices -> [st : Statuses \union {"absent", "deleted"},
                               total : Totals \union {0}, kind : Kinds]]
    BY <1>2, <1>6, <2>1, UpdateType
  <2>3. date' \in [Invoices -> Dates \union {None}] /\ cleared' \subseteq Invoices
    BY <1>2, <1>6, DateType
  <2> HIDE DEF r
  <2>4. trail' \in [Invoices -> [from : Statuses, to : Statuses]]
    BY <1>2, <1>6, <2>1 DEF TypeOK
  <2>5. QED
    BY <1>3, <1>4, <2>2, <2>3, <2>4 DEF TypeOK
<1>7. QED
  BY <1>5, <1>6 DEF CommitPayment

(* Every step keeps the types.                                             *)
LEMMA TypeStep == TypeOK /\ [Next]_vars => TypeOK'
<1> SUFFICES ASSUME TypeOK, [Next]_vars PROVE TypeOK'
  OBVIOUS
<1>1. ASSUME NEW i \in Invoices, NEW kinds, NewDraft(i, kinds) PROVE TypeOK'
  BY <1>1 DEF NewDraft, TypeOK, Statuses, dates
<1>2. ASSUME NEW i \in Invoices, ReadForEdit(i) PROVE TypeOK'
  <2>1. PICK t \in Totals : OpenUnlocked(Loop, [op |-> "edit", id |-> i, total |-> t])
    BY <1>2 DEF ReadForEdit
  <2>2. [op |-> "edit", id |-> i, total |-> t] \in Request
    BY DEF Request
  <2>3. QED
    BY <2>1, <2>2, OpenType DEF OpenUnlocked, Handlers, TypeOK
<1>3. ASSUME NEW i \in Invoices, NEW h \in Threads, ReadForDelete(h, i) PROVE TypeOK'
  <2>1. [op |-> "delete", id |-> i] \in Request
    BY DEF Request
  <2>2. QED
    BY <1>3, <2>1, OpenType DEF ReadForDelete, OpenUnlocked, Handlers, TypeOK
<1>4. ASSUME NEW i \in Invoices, NEW h \in Threads, ReadForStatus(h, i) PROVE TypeOK'
  <2> DEFINE R(s) == [op |-> "status", id |-> i, st |-> inv[i].st, to |-> s, date |-> date[i]]
  <2>1. PICK s \in Statuses : OpenLocked(h, R(s))
    BY <1>4 DEF ReadForStatus
  <2>2. R(s) \in Request
    BY <1>4 DEF ReadForStatus, Present, TypeOK, Request
  <2> HIDE DEF R
  <2>3. QED
    BY <2>1, <2>2, OpenType DEF OpenLocked, Handlers
<1>5. ASSUME NEW i \in Invoices, NEW h \in Threads, ReadForPayment(h, i) PROVE TypeOK'
  <2>1. PICK a \in 1 .. Balance(i) : OpenLocked(h, [op |-> "pay", id |-> i, amount |-> a])
    BY <1>5 DEF ReadForPayment
  <2>2. a \in Nat \ {0}
    BY BalanceType
  <2>3. [op |-> "pay", id |-> i, amount |-> a] \in Request
    BY <2>2 DEF Request
  <2>4. QED
    BY <2>1, <2>3, OpenType DEF OpenLocked, Handlers
<1>6. ASSUME NEW i \in Invoices, NEW h \in Threads, ReadForUnpay(h, i) PROVE TypeOK'
  <2>1. PICK p \in PaidRows(i) : OpenLocked(h, [op |-> "unpay", id |-> i, row |-> p])
    BY <1>6 DEF ReadForUnpay
  <2>2. [op |-> "unpay", id |-> i, row |-> p] \in Request
    BY DEF Request, PaidRows
  <2>3. QED
    BY <2>1, <2>2, OpenType DEF OpenLocked, Handlers
<1>7. ASSUME NEW i \in Invoices, NEW h \in Threads, ReadForDate(h, i) PROVE TypeOK'
  <2>1. PICK d \in Dates \union {None} :
          OpenUnlocked(h, [op |-> "date", id |-> i, seen |-> date[i], to |-> d])
    BY <1>7 DEF ReadForDate
  <2>2. [op |-> "date", id |-> i, seen |-> date[i], to |-> d] \in Request
    BY DEF Request, TypeOK
  <2>3. QED
    BY <2>1, <2>2, OpenType DEF OpenUnlocked, Handlers, TypeOK
<1>8. ASSUME NEW h \in Handlers, CommitEdit(h) \/ CommitDelete(h) PROVE TypeOK'
  <2>1. req[h] \in Request
    BY <1>8 DEF CommitEdit, CommitDelete, Running, TypeOK
  <2>2. lock' \in Threads \union {None} /\ req' \in [Handlers -> Request \union {None}]
    BY <1>8, FinishType DEF CommitEdit, CommitDelete
  <2>3. PICK st \in Statuses \union {"absent", "deleted"}, total \in Totals \union {0} :
          Update(req[h].id, st, total)
    BY <1>8, <2>1, RequestFields DEF CommitEdit, CommitDelete, Running, TypeOK
  <2>4. inv' \in [Invoices -> [st : Statuses \union {"absent", "deleted"},
                               total : Totals \union {0}, kind : Kinds]]
    BY <2>1, <2>3, RequestFields, UpdateType
  <2>5. QED
    BY <1>8, <2>2, <2>4 DEF CommitEdit, CommitDelete, TypeOK, dates
<1>9. ASSUME NEW h \in Handlers, CommitUnpay(h) PROVE TypeOK'
  <2>1. req[h].id \in Invoices /\ req[h].row \in Rows
    BY <1>9, RequestFields DEF CommitUnpay, Running, TypeOK
  <2>2. lock' \in Threads \union {None} /\ req' \in [Handlers -> Request \union {None}]
    BY <1>9, FinishType DEF CommitUnpay
  <2>3. pay' \in [Invoices -> [Rows -> Nat]]
    BY <1>9, <2>1, PayType DEF CommitUnpay
  <2>4. QED
    BY <1>9, <2>2, <2>3 DEF CommitUnpay, TypeOK, dates
<1>10. ASSUME NEW h \in Handlers, CommitDate(h) PROVE TypeOK'
  <2>1. req[h].id \in Invoices /\ req[h].to \in Dates \union {None}
    BY <1>10, RequestFields DEF CommitDate, Running, TypeOK
  <2>2. lock' \in Threads \union {None} /\ req' \in [Handlers -> Request \union {None}]
    BY <1>10, FinishType DEF CommitDate
  <2>3. date' \in [Invoices -> Dates \union {None}] /\ cleared' \subseteq Invoices
    BY <1>10, <2>1, DateType DEF CommitDate, dates, TypeOK
  <2>4. QED
    BY <1>10, <2>2, <2>3 DEF CommitDate, TypeOK
<1>11. ASSUME NEW h \in Handlers, CommitFails(h) PROVE TypeOK'
  <2>1. lock' \in Threads \union {None} /\ req' \in [Handlers -> Request \union {None}]
    BY <1>11, FinishType DEF CommitFails
  <2>2. QED
    BY <1>11, <2>1 DEF CommitFails, TypeOK, dates
<1>12. ASSUME Crash PROVE TypeOK'
  BY <1>12 DEF Crash, TypeOK, dates
<1>13. ASSUME UNCHANGED vars PROVE TypeOK'
  BY <1>13 DEF vars, dates, TypeOK
<1>14. QED
  BY <1>1, <1>2, <1>3, <1>4, <1>5, <1>6, <1>7, <1>8, <1>9, <1>10, <1>11, <1>12, <1>13,
     StatusCommitType, PaymentCommitType
  DEF Next, CreateInvoice, DuplicateInvoice, CreateCreditNote

(* The variables of InvoiceLifecycle always have their types (TypeOK): no  *)
(* handler sets out to pay nothing, for any totals, payments and threads.  *)
THEOREM LifecycleTypeCorrect == Spec => []TypeOK
<1>1. Init => TypeOK
  BY DEF Init, TypeOK, Statuses
<1>2. QED
  BY <1>1, TypeStep, PTL DEF Spec

-----------------------------------------------------------------------------
(* The bookkeeping promise                                                 *)

NoPayments(i) == \A p \in Rows : pay[i][p] = 0

(* What the handler with request r saw of invoice i, as far as it matters. *)
Seen(r, i) ==
  /\ r.op = "pay" => inv[i].kind = "invoice" /\ r.amount <= Balance(i)
  /\ r.op = "unpay" => pay[i][r.row] > 0

(* What the ledger needs to know between a reading and a writing: whoever  *)
(* has the payment lock has seen the balance and the row there still are.  *)
MoneyInv ==
  /\ \A i \in Invoices : PaidSum(i) <= inv[i].total
  /\ \A i \in Invoices :
       inv[i].st \in {"absent", "draft", "deleted"} \/ inv[i].kind # "invoice" => NoPayments(i)
  /\ \A h \in Handlers, i \in Invoices : req[h] # None /\ req[h].id = i => Seen(req[h], i)

BooksInv == LifecycleInv /\ TypeOK /\ MoneyInv

(* The sum of the next state is that of its rows, and of the same rows the *)
(* same.                                                                   *)
LEMMA PaidSumPrimed ==
  ASSUME NEW i
  PROVE  /\ PaidSum(i)' = Total(pay'[i], DOMAIN pay'[i])
         /\ pay' = pay => PaidSum(i)' = PaidSum(i)
<1>1. PaidSum(i)' = Total(pay'[i], DOMAIN pay'[i])
  BY Zenon DEF PaidSum, Total, FoldFunction, FoldFunctionOnSet, MapThenFoldSet
<1>2. ASSUME pay' = pay PROVE PaidSum(i)' = PaidSum(i)
  BY <1>2, Zenon DEF PaidSum, FoldFunction, FoldFunctionOnSet, MapThenFoldSet
<1>3. QED
  BY <1>1, <1>2

(* PaidSumIs of the next state.                                            *)
LEMMA PaidSumNext ==
  ASSUME pay' \in [Invoices -> [Rows -> Nat]], NEW i \in Invoices
  PROVE  PaidSum(i)' = Total(pay'[i], Rows) /\ PaidSum(i)' \in Nat
<1>1. pay'[i] \in [Rows -> Nat] /\ DOMAIN pay'[i] = Rows
  OBVIOUS
<1>2. PaidSum(i)' = Total(pay'[i], Rows)
  BY <1>1, PaidSumPrimed
<1>3. QED
  BY <1>1, <1>2, TotalNat, LifecycleAssumption

(* Without payments nothing was received.                                  *)
LEMMA NothingReceived ==
  ASSUME TypeOK, NEW i \in Invoices, NoPayments(i)
  PROVE  PaidSum(i) = 0
<1>1. PaidSum(i) = Total(pay[i], Rows)
  BY PaidSumIs DEF TypeOK
<1>2. QED
  BY <1>1, TotalZero, LifecycleAssumption DEF NoPayments

RowWritten(i, p, a) == pay' = [pay EXCEPT ![i][p] = a]

(* Writing one payment row changes what was received by the difference.    *)
LEMMA PayRow ==
  ASSUME TypeOK, NEW i \in Invoices, NEW p \in Rows, NEW a \in Nat, RowWritten(i, p, a)
  PROVE  /\ PaidSum(i)' = PaidSum(i) - pay[i][p] + a
         /\ pay[i][p] \in Nat /\ PaidSum(i) \in Nat
         /\ pay'[i][p] = a /\ \A q \in Rows : q # p => pay'[i][q] = pay[i][q]
         /\ \A j \in Invoices : j # i => pay'[j] = pay[j]
<1>1. /\ pay' \in [Invoices -> [Rows -> Nat]]
      /\ pay'[i] = [pay[i] EXCEPT ![p] = a]
      /\ \A j \in Invoices : j # i => pay'[j] = pay[j]
  BY PayType DEF RowWritten
<1>2. pay[i] \in [Rows -> Nat] /\ pay'[i] \in [Rows -> Nat]
  BY <1>1 DEF TypeOK
<1>3. pay'[i][p] = a /\ \A q \in Rows : q # p => pay'[i][q] = pay[i][q]
  BY <1>1, <1>2
<1>4. PaidSum(i) = Total(pay[i], Rows) /\ PaidSum(i) \in Nat
  BY PaidSumIs DEF TypeOK
<1>5. PaidSum(i)' = Total(pay'[i], Rows)
  BY <1>1, PaidSumNext
<1>6. Total(pay'[i], Rows) = Total(pay[i], Rows) - pay[i][p] + pay'[i][p]
  <2> DEFINE f == pay[i]
             g == pay'[i]
  <2>1. \A q \in Rows : f[q] \in Int /\ g[q] \in Int
    BY <1>2
  <2>2. \A q \in Rows \ {p} : g[q] = f[q]
    BY <1>3
  <2> HIDE DEF f, g
  <2>3. Total(g, Rows) = Total(f, Rows) - f[p] + g[p]
    BY <2>1, <2>2, TotalChange, LifecycleAssumption
  <2>4. QED
    BY <2>3 DEF f, g
<1>7. QED
  BY <1>1, <1>2, <1>3, <1>4, <1>5, <1>6

-----------------------------------------------------------------------------

(* Invoice i is what the arguments say, and the other books stay.          *)
Books(i, st, total, kind, received) ==
  /\ inv'[i].st = st /\ inv'[i].total = total /\ inv'[i].kind = kind
  /\ PaidSum(i)' = received
  /\ \A j \in Invoices : j # i => inv'[j] = inv[j] /\ pay'[j] = pay[j]

(* Payments of an invoice that is not written to are what they were.       *)
LEMMA ReceivedKept ==
  ASSUME TypeOK, TypeOK', NEW i \in Invoices, pay'[i] = pay[i]
  PROVE  PaidSum(i)' = PaidSum(i)
<1>1. PaidSum(i) = Total(pay[i], Rows)
  BY PaidSumIs DEF TypeOK
<1>2. PaidSum(i)' = Total(pay'[i], Rows)
  BY PaidSumNext DEF TypeOK
<1>3. QED
  BY <1>1, <1>2

(* Such a step is a posting in the ledger.                                 *)
LEMMA BooksPost ==
  ASSUME TypeOK, TypeOK', NEW i \in Invoices, NEW st, NEW total, NEW kind, NEW received,
         Books(i, st, total, kind, received)
  PROVE  Ledger!Post(i, st, total, kind, received)
<1>1. \A j \in Invoices : j # i => inv'[j] = inv[j] /\ PaidSum(j)' = PaidSum(j)
  BY ReceivedKept DEF Books
<1>2. PaidSum(i)' = received /\ inv'[i].st = st /\ inv'[i].total = total /\ inv'[i].kind = kind
  BY DEF Books
<1>3. QED
  BY <1>1, <1>2 DEF Ledger!Post

(* A step that writes no invoice and no payment leaves the ledger alone.   *)
LEMMA LedgerStays ==
  ASSUME UNCHANGED <<inv, pay>>
  PROVE  UNCHANGED Ledger!ledger
<1>1. \A i \in Invoices : PaidSum(i)' = PaidSum(i)
  BY PaidSumPrimed
<1>2. QED
  BY <1>1 DEF Ledger!ledger

(* What is left of the other requests when invoice i is written.           *)
Aside(i) ==
  \A g \in Handlers :
    \/ req'[g] = None
    \/ req'[g] = req[g] /\ (req[g] # None /\ req[g].op \in {"pay", "unpay"} => req[g].id # i)

(* Nobody else is about to pay the invoice that the handler with the lock, *)
(* or one that rewrites a draft, has written.                              *)
LEMMA FinishAside ==
  ASSUME LifecycleInv, NEW h \in Handlers, Finish(h), NEW i \in Invoices,
         lock = h \/ inv[i].st # "sent"
  PROVE  Aside(i)
<1> SUFFICES ASSUME NEW g \in Handlers, req'[g] # None
             PROVE  /\ req'[g] = req[g]
                    /\ req[g] # None /\ req[g].op \in {"pay", "unpay"} => req[g].id # i
  BY DEF Aside
<1>1. g # h /\ req'[g] = req[g]
  BY DEF Finish, LifecycleInv, Shape
<1>2. req[g].op \in {"pay", "unpay"} => lock = g /\ inv[req[g].id].st = "sent"
  BY <1>1, HolderKnows DEF Current, Locking
<1>3. QED
  BY <1>1, <1>2

(* Money is all right after a posting that leaves it so in its invoice.    *)
LEMMA MoneyPosted ==
  ASSUME BooksInv, TypeOK', NEW i \in Invoices, NEW st, NEW total, NEW kind, NEW received,
         Books(i, st, total, kind, received), Aside(i), received <= total,
         st \in {"absent", "draft", "deleted"} \/ kind # "invoice" => NoPayments(i)'
  PROVE  MoneyInv'
<1> USE DEF BooksInv
<1>1. \A j \in Invoices : j # i => inv'[j] = inv[j] /\ pay'[j] = pay[j] /\ PaidSum(j)' = PaidSum(j)
  BY ReceivedKept DEF Books
<1>2. PaidSum(i)' = received /\ inv'[i].st = st /\ inv'[i].total = total /\ inv'[i].kind = kind
  BY DEF Books
<1>3. \A j \in Invoices : PaidSum(j)' <= inv'[j].total
  BY <1>1, <1>2 DEF MoneyInv
<1>4. ASSUME NEW j \in Invoices,
             inv'[j].st \in {"absent", "draft", "deleted"} \/ inv'[j].kind # "invoice"
      PROVE  NoPayments(j)'
  BY <1>1, <1>2, <1>4 DEF MoneyInv, NoPayments
<1>5. ASSUME NEW g \in Handlers, NEW j \in Invoices, req'[g] # None, req'[g].id = j
      PROVE  Seen(req[g], j)'
  <2>1. req'[g] = req[g] /\ (req[g].op \in {"pay", "unpay"} => j # i)
    BY <1>5 DEF Aside
  <2>2. Seen(req[g], j)
    BY <1>5, <2>1 DEF MoneyInv
  <2>3. CASE j # i
    BY <1>1, <2>1, <2>2, <2>3 DEF Seen, Balance
  <2>4. CASE j = i
    BY <2>1, <2>4 DEF Seen
  <2>5. QED
    BY <2>3, <2>4
<1>6. \A j \in Invoices : (PaidSum(j) <= inv[j].total)'
  BY <1>3
<1>7. QED
  BY <1>4, <1>5, <1>6 DEF MoneyInv

(* So it is after a step that writes none, as long as what a new request   *)
(* has read is so.                                                         *)
LEMMA MoneyKept ==
  ASSUME BooksInv, UNCHANGED <<inv, pay>>,
         \A g \in Handlers, i \in Invoices :
           req'[g] = None \/ req'[g] = req[g] \/ (req'[g].id = i => Seen(req'[g], i))
  PROVE  MoneyInv'
<1>1. \A j : PaidSum(j)' = PaidSum(j) /\ (NoPayments(j)' <=> NoPayments(j))
  BY PaidSumPrimed DEF NoPayments
<1>2. ASSUME NEW g \in Handlers, NEW j \in Invoices, req'[g] # None, req'[g].id = j
      PROVE  Seen(req[g], j)'
  <2>1. Seen(req'[g], j)
    BY <1>2 DEF BooksInv, MoneyInv
  <2>2. QED
    BY <1>1, <2>1 DEF Seen, Balance
<1>3. \A j \in Invoices : (PaidSum(j) <= inv[j].total)'
  BY <1>1 DEF BooksInv, MoneyInv
<1>4. QED
  BY <1>1, <1>2, <1>3 DEF BooksInv, MoneyInv

-----------------------------------------------------------------------------
(* The steps of the ledger, in terms of the invoices.                      *)
LEMMA LedgerActions ==
  ASSUME NEW i \in Invoices, NEW st, NEW total, NEW kind, NEW received,
         Ledger!Post(i, st, total, kind, received),
         \/ /\ inv[i].st = "absent" \/ (inv[i].st = "draft" /\ kind = inv[i].kind)
            /\ st = "draft" /\ total \in Totals /\ kind \in Kinds /\ received = 0
         \/ /\ inv[i].st = "draft" /\ st \in {"deleted", "sent", "paid", "cancelled"}
            /\ total = inv[i].total /\ kind = inv[i].kind /\ received = 0
         \/ /\ inv[i].st = "sent" /\ inv[i].kind = "invoice"
            /\ received \in 0 .. total /\ st = IF received = total THEN "paid" ELSE "sent"
            /\ total = inv[i].total /\ kind = inv[i].kind
         \/ /\ inv[i].st = "sent" /\ inv[i].kind # "invoice" /\ st = "paid"
            /\ total = inv[i].total /\ kind = inv[i].kind /\ received = PaidSum(i)
         \/ /\ inv[i].st \in {"sent", "paid"} /\ st = "cancelled"
            /\ total = inv[i].total /\ kind = inv[i].kind /\ received = PaidSum(i)
  PROVE  Ledger!Next
<1>1. CASE /\ inv[i].st = "absent" \/ (inv[i].st = "draft" /\ kind = inv[i].kind)
           /\ st = "draft" /\ total \in Totals /\ kind \in Kinds /\ received = 0
  <2>1. Ledger!WriteDraft(i)
    BY <1>1 DEF Ledger!WriteDraft
  <2>2. QED
    BY <2>1 DEF Ledger!Next
<1>2. CASE /\ inv[i].st = "draft" /\ st \in {"deleted", "sent", "paid", "cancelled"}
           /\ total = inv[i].total /\ kind = inv[i].kind /\ received = 0
  <2>1. Ledger!DiscardDraft(i) \/ Ledger!IssueDraft(i)
    BY <1>2 DEF Ledger!DiscardDraft, Ledger!IssueDraft
  <2>2. QED
    BY <2>1 DEF Ledger!Next
<1>3. CASE /\ inv[i].st = "sent" /\ inv[i].kind = "invoice"
           /\ received \in 0 .. total /\ st = IF received = total THEN "paid" ELSE "sent"
           /\ total = inv[i].total /\ kind = inv[i].kind
  <2>1. Ledger!RecordPayment(i)
    BY <1>3 DEF Ledger!RecordPayment
  <2>2. QED
    BY <2>1 DEF Ledger!Next
<1>4. CASE /\ inv[i].st = "sent" /\ inv[i].kind # "invoice" /\ st = "paid"
           /\ total = inv[i].total /\ kind = inv[i].kind /\ received = PaidSum(i)
  <2>1. /\ [j \in Invoices |-> inv[j].total][i] = total
        /\ [j \in Invoices |-> inv[j].kind][i] = kind
        /\ [j \in Invoices |-> PaidSum(j)][i] = received
        /\ [j \in Invoices |-> inv[j].st][i] = inv[i].st
    BY <1>4
  <2>2. Ledger!MarkPaid(i)
    BY <1>4, <2>1 DEF Ledger!MarkPaid, Ledger!Post
  <2>3. QED
    BY <2>2 DEF Ledger!Next
<1>5. CASE /\ inv[i].st \in {"sent", "paid"} /\ st = "cancelled"
           /\ total = inv[i].total /\ kind = inv[i].kind /\ received = PaidSum(i)
  <2>1. /\ [j \in Invoices |-> inv[j].total][i] = total
        /\ [j \in Invoices |-> inv[j].kind][i] = kind
        /\ [j \in Invoices |-> PaidSum(j)][i] = received
        /\ [j \in Invoices |-> inv[j].st][i] = inv[i].st
    BY <1>5
  <2>2. Ledger!Cancel(i)
    BY <1>5, <2>1 DEF Ledger!Cancel, Ledger!Post
  <2>3. QED
    BY <2>2 DEF Ledger!Next
<1>6. QED
  BY <1>1, <1>2, <1>3, <1>4, <1>5

(* What each step has to be shown to do.                                   *)
Kept == MoneyInv' /\ [Ledger!Next]_Ledger!ledger

(* A handler begins, with what it has seen.                                *)
LEMMA OpenBooks ==
  ASSUME BooksInv, NEW h \in Handlers, NEW r, Open(h, r),
         \A i \in Invoices : r.id = i => Seen(r, i)
  PROVE  Kept
<1>1. UNCHANGED <<inv, pay>> /\ \A g \in Handlers : req'[g] = req[g] \/ req'[g] = r
  BY DEF Open, BooksInv, LifecycleInv, Shape
<1>2. MoneyInv'
  BY <1>1, MoneyKept
<1>3. QED
  BY <1>1, <1>2, LedgerStays DEF Kept

(* A handler ends without having written an invoice or a payment.          *)
LEMMA FinishBooks ==
  ASSUME BooksInv, NEW h \in Handlers, Finish(h), UNCHANGED <<inv, pay>>
  PROVE  Kept
<1>1. \A g \in Handlers : req'[g] = req[g] \/ req'[g] = None
  BY DEF Finish, BooksInv, LifecycleInv, Shape
<1>2. MoneyInv'
  BY <1>1, MoneyKept
<1>3. QED
  BY <1>2, LedgerStays DEF Kept

(* A row rewritten, seen as a posting.                                     *)
LEMMA UpdateBooks ==
  ASSUME BooksInv, NEW i \in Invoices, NEW st, NEW total, Update(i, st, total),
         \A j \in Invoices : j # i => pay'[j] = pay[j]
  PROVE  /\ Books(i, st, total, inv[i].kind, PaidSum(i)')
         /\ inv'[i].kind = inv[i].kind
<1>1. /\ inv'[i].st = st
      /\ inv'[i].total = total
      /\ inv'[i].kind = inv[i].kind
      /\ \A j \in Invoices : j # i => inv'[j] = inv[j]
  BY UpdateRow DEF BooksInv, LifecycleInv
<1>2. QED
  BY <1>1 DEF Books

(* What a posting has to satisfy for money to be all right after it.       *)
LEMMA PostBooks ==
  ASSUME BooksInv, TypeOK', NEW i \in Invoices, NEW st, NEW total, NEW kind, NEW received,
         Books(i, st, total, kind, received), Aside(i), received <= total,
         st \in {"absent", "draft", "deleted"} \/ kind # "invoice" => NoPayments(i)',
         Ledger!Post(i, st, total, kind, received) => Ledger!Next
  PROVE  Kept
<1>1. MoneyInv'
  BY MoneyPosted
<1>2. Ledger!Next
  BY BooksPost DEF BooksInv
<1>3. QED
  BY <1>1, <1>2 DEF Kept

(* A new draft.                                                            *)
LEMMA NewBooks ==
  ASSUME BooksInv, TypeOK', NEW i \in Invoices, NEW kinds, NewDraft(i, kinds)
  PROVE  Kept
<1>1. PICK t \in Totals, k \in Kinds \intersect kinds :
        inv' = [inv EXCEPT ![i] = [st |-> "draft", total |-> t, kind |-> k]]
  BY DEF NewDraft
<1>2. inv[i].st = "absent" /\ UNCHANGED <<pay, req>>
  BY DEF NewDraft
<1>3. /\ inv'[i].st = "draft" /\ inv'[i].total = t /\ inv'[i].kind = k
      /\ \A j \in Invoices : j # i => inv'[j] = inv[j]
  BY <1>1 DEF BooksInv, TypeOK
<1>4. NoPayments(i) /\ NoPayments(i)'
  BY <1>2 DEF BooksInv, MoneyInv, NoPayments
<1>5. PaidSum(i)' = 0
  <2>1. PaidSum(i) = 0
    BY <1>4, NothingReceived DEF BooksInv
  <2>2. QED
    BY <1>2, <2>1, PaidSumPrimed
<1>6. Books(i, "draft", t, k, 0)
  BY <1>2, <1>3, <1>5 DEF Books
<1>7. Aside(i)
  <2>1. ASSUME NEW g \in Handlers, req[g] # None, req[g].op \in {"pay", "unpay"}
        PROVE  req[g].id # i
    <3>1. inv[req[g].id].st = "sent"
      BY <2>1, HolderKnows DEF BooksInv, Current
    <3>2. QED
      BY <1>2, <3>1
  <2>2. QED
    BY <1>2, <2>1 DEF Aside
<1>8. 0 <= t
  BY TotalsAssumption
<1>9. Ledger!Post(i, "draft", t, k, 0) => Ledger!Next
  BY <1>2, LedgerActions
<1>10. QED
  BY <1>4, <1>6, <1>7, <1>8, <1>9, PostBooks

(* A draft rewritten or thrown away.                                       *)
LEMMA DraftBooks ==
  ASSUME BooksInv, TypeOK', NEW h \in Handlers, CommitEdit(h) \/ CommitDelete(h)
  PROVE  Kept
<1> DEFINE i == req[h].id
<1>1. /\ i \in Invoices /\ inv[i].st = "draft" /\ Finish(h) /\ pay' = pay
      /\ req[h] \in Request
  BY HolderKnows DEF CommitEdit, CommitDelete, Running, Current, TriggerAllows, BooksInv, TypeOK
<1>2. PICK st \in {"draft", "deleted"}, t \in Nat :
        /\ Update(i, st, t)
        /\ st = "draft" => t \in Totals
        /\ st = "deleted" => t = inv[i].total
  <2>1. CASE CommitEdit(h)
    <3>1. req[h].total \in Totals /\ Update(i, "draft", req[h].total)
      BY <1>1, <2>1, RequestFields DEF CommitEdit, Running
    <3>2. QED
      BY <3>1, TotalsAssumption
  <2>2. CASE CommitDelete(h)
    <3>1. Update(i, "deleted", inv[i].total)
      BY <2>2 DEF CommitDelete
    <3>2. inv[i].total \in Nat
      BY <1>1, TotalType DEF BooksInv
    <3>3. QED
      BY <3>1, <3>2
  <2>3. QED
    BY <2>1, <2>2
<1>3. PICK j \in Invoices : j = i
  BY <1>1
<1> HIDE DEF i
<1>4. NoPayments(j) /\ NoPayments(j)'
  BY <1>1, <1>3 DEF BooksInv, MoneyInv, NoPayments
<1>5. PaidSum(j)' = 0
  <2>1. PaidSum(j) = 0
    BY <1>4, NothingReceived DEF BooksInv
  <2>2. QED
    BY <1>1, <2>1, PaidSumPrimed
<1>6. Books(j, st, t, inv[j].kind, 0)
  BY <1>1, <1>2, <1>3, <1>5, UpdateBooks
<1>7. Aside(j)
  BY <1>1, <1>3, FinishAside DEF BooksInv
<1>8. inv[j].kind \in Kinds
  BY DEF BooksInv, TypeOK
<1>9. Ledger!Post(j, st, t, inv[j].kind, 0) => Ledger!Next
  BY <1>1, <1>2, <1>3, <1>8, LedgerActions
<1>10. QED
  BY <1>2, <1>4, <1>6, <1>7, <1>9, PostBooks

(* A payment: it is within the balance that is still the same.             *)
LEMMA PaymentBooks ==
  ASSUME BooksInv, TypeOK', NEW h \in Handlers, CommitPayment(h)
  PROVE  Kept
<1>1. req[h] # None /\ req[h].op = "pay" /\ req[h] \in Request /\ Finish(h)
  BY DEF CommitPayment, Running, BooksInv, TypeOK
<1>2. PICK i \in Invoices, a \in Nat \ {0} : i = req[h].id /\ a = req[h].amount
  BY <1>1, RequestFields
<1>3. /\ inv[i].st = "sent" /\ inv[i].kind = "invoice" /\ a <= Balance(i)
      /\ lock = h
  BY <1>1, <1>2, HolderKnows DEF BooksInv, MoneyInv, Seen, Current, Locking
<1>4. PICK p \in FreeRows(i) : pay' = [pay EXCEPT ![i][p] = a]
  BY <1>2 DEF CommitPayment
<1>5. p \in Rows /\ pay[i][p] = 0
  <2>1. p \in Rows /\ ~(pay[i][p] > 0)
    BY DEF FreeRows, PaidRows
  <2>2. pay[i][p] \in Nat
    BY <2>1 DEF BooksInv, TypeOK
  <2>3. QED
    BY <2>1, <2>2
<1>6. /\ PaidSum(i)' = PaidSum(i) + a /\ PaidSum(i) \in Nat
      /\ \A j \in Invoices : j # i => pay'[j] = pay[j]
  <2>1. a \in Nat /\ RowWritten(i, p, a)
    BY <1>4 DEF RowWritten
  <2>2. /\ PaidSum(i)' = PaidSum(i) - pay[i][p] + a /\ PaidSum(i) \in Nat
        /\ \A j \in Invoices : j # i => pay'[j] = pay[j]
    <3>1. TypeOK /\ p \in Rows
      BY <1>5 DEF BooksInv
    <3>2. QED
      BY <2>1, <3>1, PayRow
  <2>3. QED
    BY <1>5, <2>2
<1>7. inv[i].total \in Nat
  BY TotalType DEF BooksInv
<1>8. PaidSum(i)' \in 0 .. inv[i].total /\ (PaidSum(i)' = inv[i].total <=> Balance(i) <= a)
  BY <1>3, <1>6, <1>7 DEF Balance
<1> DEFINE st == IF PaidSum(i)' = inv[i].total THEN "paid" ELSE "sent"
<1>9. Books(i, st, inv[i].total, inv[i].kind, PaidSum(i)')
  <2>1. CASE Balance(i) <= a
    <3>1. Update(i, "paid", inv[i].total)
      BY <1>2, <2>1 DEF CommitPayment
    <3>2. QED
      BY <1>6, <1>8, <2>1, <3>1, UpdateBooks
  <2>2. CASE ~(Balance(i) <= a)
    <3>1. inv' = inv
      BY <1>2, <1>3, <2>2 DEF CommitPayment
    <3>2. QED
      BY <1>3, <1>6, <1>8, <2>2, <3>1 DEF Books
  <2>3. QED
    BY <2>1, <2>2
<1>10. Aside(i)
  BY <1>1, <1>3, FinishAside DEF BooksInv
<1>11. PICK r \in 0 .. inv[i].total, s \in {st} : r = PaidSum(i)' /\ s = st
  BY <1>8
<1> HIDE DEF st
<1>12. s = (IF r = inv[i].total THEN "paid" ELSE "sent") /\ s \notin {"absent", "draft", "deleted"}
  BY <1>11 DEF st
<1>13. Books(i, s, inv[i].total, inv[i].kind, r)
  BY <1>9, <1>11
<1>14. Ledger!Post(i, s, inv[i].total, inv[i].kind, r) => Ledger!Next
  BY <1>3, <1>12, LedgerActions
<1>15. r <= inv[i].total
  BY <1>7, <1>11
<1>16. QED
  BY <1>3, <1>10, <1>12, <1>13, <1>14, <1>15, PostBooks

(* A payment taken back: what is left is less than the total.              *)
LEMMA UnpayBooks ==
  ASSUME BooksInv, TypeOK', NEW h \in Handlers, CommitUnpay(h)
  PROVE  Kept
<1>1. req[h] # None /\ req[h].op = "unpay" /\ req[h] \in Request /\ Finish(h) /\ inv' = inv
  BY DEF CommitUnpay, Running, BooksInv, TypeOK
<1>2. PICK i \in Invoices, p \in Rows : i = req[h].id /\ p = req[h].row
  BY <1>1, RequestFields
<1>3. inv[i].st = "sent" /\ pay[i][p] > 0 /\ lock = h
  BY <1>1, <1>2, HolderKnows DEF BooksInv, MoneyInv, Seen, Current, Locking
<1>4. inv[i].kind = "invoice"
  <2>1. ~NoPayments(i)
    BY <1>3 DEF NoPayments
  <2>2. QED
    BY <2>1 DEF BooksInv, MoneyInv
<1>5. /\ PaidSum(i)' = PaidSum(i) - pay[i][p] /\ PaidSum(i) \in Nat /\ pay[i][p] \in Nat
      /\ \A j \in Invoices : j # i => pay'[j] = pay[j]
  <2>1. RowWritten(i, p, 0) /\ 0 \in Nat /\ TypeOK
    BY <1>2 DEF CommitUnpay, RowWritten, BooksInv
  <2>2. /\ PaidSum(i)' = PaidSum(i) - pay[i][p] + 0
        /\ PaidSum(i) \in Nat /\ pay[i][p] \in Nat
        /\ \A j \in Invoices : j # i => pay'[j] = pay[j]
    BY <2>1, PayRow
  <2>3. QED
    BY <2>2
<1>6. PaidSum(i)' \in Nat
  BY PaidSumNext DEF TypeOK
<1>7. PaidSum(i) <= inv[i].total /\ inv[i].total \in Nat
  BY TotalType DEF BooksInv, MoneyInv
<1>8. PICK r \in 0 .. inv[i].total : r = PaidSum(i)' /\ r # inv[i].total
  BY <1>3, <1>5, <1>6, <1>7
<1>9. Books(i, "sent", inv[i].total, inv[i].kind, r)
  BY <1>1, <1>3, <1>5, <1>8 DEF Books
<1>10. Aside(i)
  BY <1>1, <1>3, FinishAside DEF BooksInv
<1>11. Ledger!Post(i, "sent", inv[i].total, inv[i].kind, r) => Ledger!Next
  BY <1>3, <1>4, <1>8, LedgerActions
<1>12. r <= inv[i].total
  BY <1>7, <1>8
<1>13. QED
  BY <1>4, <1>9, <1>10, <1>11, <1>12, PostBooks

(* The rest of a sent invoice, recorded when it is marked paid by hand,    *)
(* makes what was received its total.                                      *)
LEMMA RestBooks ==
  ASSUME BooksInv, NEW i \in Invoices, NEW p \in FreeRows(i),
         IF Balance(i) > 0 THEN RowWritten(i, p, Balance(i)) ELSE pay' = pay
  PROVE  /\ PaidSum(i)' = inv[i].total
         /\ \A j \in Invoices : j # i => pay'[j] = pay[j]
<1>1. p \in Rows /\ pay[i][p] = 0
  <2>1. p \in Rows /\ ~(pay[i][p] > 0)
    BY DEF FreeRows, PaidRows
  <2>2. pay[i][p] \in Nat
    BY <2>1 DEF BooksInv, TypeOK
  <2>3. QED
    BY <2>1, <2>2
<1>2. PaidSum(i) \in Nat /\ PaidSum(i) <= inv[i].total /\ inv[i].total \in Nat
  BY PaidSumIs, TotalType DEF BooksInv, MoneyInv, TypeOK
<1>3. Balance(i) = inv[i].total - PaidSum(i)
  BY DEF Balance
<1>4. CASE Balance(i) > 0
  <2>1. PICK a \in Nat : a = Balance(i)
    BY <1>2, <1>3
  <2>2. RowWritten(i, p, a) /\ TypeOK
    BY <1>4, <2>1 DEF BooksInv
  <2>3. /\ PaidSum(i)' = PaidSum(i) - pay[i][p] + a
        /\ \A j \in Invoices : j # i => pay'[j] = pay[j]
    BY <1>1, <2>2, PayRow
  <2>4. QED
    BY <1>1, <1>2, <1>3, <2>1, <2>3
<1>5. CASE ~(Balance(i) > 0)
  <2>1. PaidSum(i)' = PaidSum(i) /\ pay' = pay
    BY <1>5, PaidSumPrimed
  <2>2. QED
    BY <1>2, <1>3, <1>5, <2>1
<1>6. QED
  BY <1>4, <1>5

(* A status written by the handler with the lock, in the terms of          *)
(* PostBooks.                                                              *)
LEMMA ChangeBooks ==
  ASSUME BooksInv, TypeOK', NEW h \in Handlers, Finish(h), lock = h,
         NEW i \in Invoices, NEW st \in {"sent", "paid", "cancelled"},
         Update(i, st, inv[i].total),
         \A j \in Invoices : j # i => pay'[j] = pay[j],
         \/ inv[i].st = "draft" /\ pay' = pay
         \/ inv[i].st = "sent" /\ st = "paid" /\ inv[i].kind = "invoice"
              /\ PaidSum(i)' = inv[i].total
         \/ inv[i].st = "sent" /\ st = "paid" /\ inv[i].kind # "invoice" /\ pay' = pay
         \/ inv[i].st \in {"sent", "paid"} /\ st = "cancelled" /\ pay' = pay
  PROVE  Kept
<1>1. PICK r : r = PaidSum(i)'
  OBVIOUS
<1>2. Books(i, st, inv[i].total, inv[i].kind, r)
  BY <1>1, UpdateBooks
<1>3. Aside(i)
  BY FinishAside DEF BooksInv
<1>4. /\ PaidSum(i) \in Nat /\ inv[i].total \in Nat /\ PaidSum(i) <= inv[i].total
      /\ pay' = pay => r = PaidSum(i)
  BY <1>1, PaidSumIs, TotalType, PaidSumPrimed DEF BooksInv, MoneyInv, TypeOK
<1>5. r <= inv[i].total
  BY <1>1, <1>4
<1>6. inv[i].kind # "invoice" => NoPayments(i)'
  <2>1. inv[i].kind # "invoice" => pay' = pay /\ NoPayments(i)
    BY DEF BooksInv, MoneyInv
  <2>2. QED
    BY <2>1 DEF NoPayments
<1>7. inv[i].st = "draft" => r = 0
  BY <1>4, NothingReceived DEF BooksInv, MoneyInv
<1>8. Ledger!Post(i, st, inv[i].total, inv[i].kind, r) => Ledger!Next
  <2>1. CASE inv[i].st = "draft"
    BY <1>7, <2>1, LedgerActions
  <2>2. CASE inv[i].st = "sent" /\ st = "paid" /\ inv[i].kind = "invoice"
    <3>1. r = inv[i].total
      BY <1>1, <2>2
    <3>2. r \in 0 .. inv[i].total
      BY <1>4, <3>1
    <3>3. QED
      BY <2>2, <3>1, <3>2, LedgerActions
  <2>3. CASE inv[i].st = "sent" /\ st = "paid" /\ inv[i].kind # "invoice"
    BY <1>4, <2>3, LedgerActions
  <2>4. CASE inv[i].st \in {"sent", "paid"} /\ st = "cancelled"
    BY <1>4, <2>4, LedgerActions
  <2>5. QED
    BY <2>1, <2>2, <2>3, <2>4
<1>9. QED
  BY <1>2, <1>3, <1>5, <1>6, <1>8, PostBooks

(* A status change: the invoice still has the status that was read.        *)
LEMMA StatusBooks ==
  ASSUME BooksInv, TypeOK', NEW h \in Handlers, CommitStatus(h)
  PROVE  Kept
<1>1. PICK i \in Invoices, to \in Statuses, st \in Statuses :
        i = req[h].id /\ to = req[h].to /\ st = req[h].st
  BY StatusCommit DEF BooksInv
<1>2. /\ lock = h /\ IsValidTransition(st, to)
      /\ Present(i) => inv[i].st = st
      /\ ~Present(i) => st = "draft" /\ to = "draft"
      /\ Update(i, IF Present(i) THEN to ELSE inv[i].st, inv[i].total)
  BY <1>1, StatusCommit DEF BooksInv
<1>3. Finish(h)
  BY DEF CommitStatus
<1>4. PICK p \in FreeRows(i) :
        IF to = "paid" /\ st = "sent" /\ SupportsPayments(i) /\ Balance(i) > 0
          THEN RowWritten(i, p, Balance(i)) ELSE pay' = pay
  BY <1>1 DEF CommitStatus, AddRest, RowWritten
<1>5. CASE to = st
  <2>1. Update(i, inv[i].st, inv[i].total)
    BY <1>2, <1>5
  <2>2. inv[i] = [st |-> inv[i].st, total |-> inv[i].total, kind |-> inv[i].kind]
    BY DEF BooksInv, TypeOK
  <2>3. inv' = inv
    BY <2>1, <2>2 DEF Update, BooksInv, LifecycleInv, Shape
  <2>4. pay' = pay
    BY <1>4, <1>5
  <2>5. QED
    BY <1>3, <2>3, <2>4, FinishBooks
<1>6. CASE to # st
  <2>1. Present(i) /\ inv[i].st = st /\ Update(i, to, inv[i].total) /\ to \in AllowedNext[st]
    BY <1>2, <1>6 DEF IsValidTransition
  <2>2. \/ st = "draft" /\ to \in {"sent", "paid", "cancelled"}
        \/ st = "sent" /\ to \in {"paid", "cancelled"}
        \/ st = "paid" /\ to = "cancelled"
    BY <2>1 DEF AllowedNext, Statuses
  <2>3. CASE st = "sent" /\ to = "paid" /\ inv[i].kind = "invoice"
    <3>1. IF Balance(i) > 0 THEN RowWritten(i, p, Balance(i)) ELSE pay' = pay
      BY <1>4, <2>3 DEF SupportsPayments
    <3>2. /\ PaidSum(i)' = inv[i].total
          /\ \A j \in Invoices : j # i => pay'[j] = pay[j]
      BY <3>1, RestBooks
    <3>3. QED
      BY <1>2, <1>3, <2>1, <2>3, <3>2, ChangeBooks
  <2>4. CASE ~(st = "sent" /\ to = "paid" /\ inv[i].kind = "invoice")
    <3>1. pay' = pay
      BY <1>4, <2>4 DEF SupportsPayments
    <3>2. QED
      BY <1>2, <1>3, <2>1, <2>2, <2>4, <3>1, ChangeBooks
  <2>5. QED
    BY <2>3, <2>4
<1>7. QED
  BY <1>5, <1>6

(* Every step keeps the books, and is one of the ledger or none.           *)
LEMMA BooksStep ==
  BooksInv /\ [Next]_vars => BooksInv' /\ [Ledger!Next]_Ledger!ledger
<1> SUFFICES ASSUME BooksInv, [Next]_vars PROVE BooksInv' /\ [Ledger!Next]_Ledger!ledger
  OBVIOUS
<1>1. TypeOK' /\ LifecycleInv'
  BY TypeStep, LifecycleStep DEF BooksInv
<1>2. ASSUME NEW i \in Invoices, NEW kinds, NewDraft(i, kinds) PROVE Kept
  BY <1>1, <1>2, NewBooks
<1>3. ASSUME NEW i \in Invoices, ReadForEdit(i) PROVE Kept
  <2>1. PICK t \in Totals : Open(Loop, [op |-> "edit", id |-> i, total |-> t])
    BY <1>3 DEF ReadForEdit, OpenUnlocked
  <2>2. QED
    BY <2>1, OpenBooks DEF Seen, Handlers
<1>4. ASSUME NEW i \in Invoices, NEW h \in Threads, ReadForDelete(h, i) PROVE Kept
  <2>1. Open(h, [op |-> "delete", id |-> i])
    BY <1>4 DEF ReadForDelete, OpenUnlocked
  <2>2. QED
    BY <2>1, OpenBooks DEF Seen, Handlers
<1>5. ASSUME NEW i \in Invoices, NEW h \in Threads, ReadForStatus(h, i) PROVE Kept
  <2>1. PICK s \in Statuses : Open(h, [op |-> "status", id |-> i, st |-> inv[i].st, to |-> s,
                                       date |-> date[i]])
    BY <1>5 DEF ReadForStatus, OpenLocked
  <2>2. QED
    BY <2>1, OpenBooks DEF Seen, Handlers
<1>6. ASSUME NEW i \in Invoices, NEW h \in Threads, ReadForPayment(h, i) PROVE Kept
  <2>1. PICK a \in 1 .. Balance(i) : Open(h, [op |-> "pay", id |-> i, amount |-> a])
    BY <1>6 DEF ReadForPayment, OpenLocked
  <2>2. a <= Balance(i) /\ inv[i].kind = "invoice"
    BY <1>6, BalanceType DEF ReadForPayment, SupportsPayments, BooksInv
  <2>3. QED
    BY <2>1, <2>2, OpenBooks DEF Seen, Handlers
<1>7. ASSUME NEW i \in Invoices, NEW h \in Threads, ReadForUnpay(h, i) PROVE Kept
  <2>1. PICK p \in PaidRows(i) : Open(h, [op |-> "unpay", id |-> i, row |-> p])
    BY <1>7 DEF ReadForUnpay, OpenLocked
  <2>2. QED
    BY <2>1, OpenBooks DEF Seen, Handlers, PaidRows
<1>8. ASSUME NEW i \in Invoices, NEW h \in Threads, ReadForDate(h, i) PROVE Kept
  <2>1. PICK d \in Dates \union {None} :
          Open(h, [op |-> "date", id |-> i, seen |-> date[i], to |-> d])
    BY <1>8 DEF ReadForDate, OpenUnlocked
  <2>2. QED
    BY <2>1, OpenBooks DEF Seen, Handlers
<1>9. ASSUME NEW h \in Handlers, CommitEdit(h) \/ CommitDelete(h) PROVE Kept
  BY <1>1, <1>9, DraftBooks
<1>10. ASSUME NEW h \in Handlers, CommitStatus(h) PROVE Kept
  BY <1>1, <1>10, StatusBooks
<1>11. ASSUME NEW h \in Handlers, CommitPayment(h) PROVE Kept
  BY <1>1, <1>11, PaymentBooks
<1>12. ASSUME NEW h \in Handlers, CommitUnpay(h) PROVE Kept
  BY <1>1, <1>12, UnpayBooks
<1>13. ASSUME NEW h \in Handlers, CommitDate(h) \/ CommitFails(h) PROVE Kept
  <2>1. Finish(h) /\ UNCHANGED <<inv, pay>>
    BY <1>13 DEF CommitDate, CommitFails
  <2>2. QED
    BY <2>1, FinishBooks
<1>14. ASSUME Crash \/ UNCHANGED vars PROVE Kept
  <2>1. UNCHANGED <<inv, pay>> /\ \A g \in Handlers : req'[g] = None \/ req'[g] = req[g]
    BY <1>14 DEF Crash, vars
  <2>2. MoneyInv'
    BY <2>1, MoneyKept
  <2>3. QED
    BY <2>1, <2>2, LedgerStays DEF Kept
<1>15. Kept
  BY <1>2, <1>3, <1>4, <1>5, <1>6, <1>7, <1>8, <1>9, <1>10, <1>11, <1>12, <1>13, <1>14
  DEF Next, CreateInvoice, DuplicateInvoice, CreateCreditNote
<1>16. QED
  BY <1>1, <1>15 DEF Kept, BooksInv

(* Before the first invoice nothing was received for any.                  *)
LEMMA BooksInit == Init => BooksInv /\ Ledger!Init
<1> SUFFICES ASSUME Init PROVE BooksInv /\ Ledger!Init
  OBVIOUS
<1>1. TypeOK /\ LifecycleInv
  BY LifecycleInit DEF Init, TypeOK, Statuses
<1>2. ASSUME NEW i \in Invoices
      PROVE  /\ inv[i].st = "absent" /\ inv[i].total = 0 /\ inv[i].kind \in Kinds
             /\ NoPayments(i)
  BY <1>2 DEF Init, NoPayments
<1>3. \A i \in Invoices : PaidSum(i) = 0
  BY <1>1, <1>2, NothingReceived
<1>4. MoneyInv
  BY <1>2, <1>3 DEF MoneyInv, Init
<1>5. Ledger!Init
  BY <1>2, <1>3 DEF Ledger!Init
<1>6. QED
  BY <1>1, <1>4, <1>5 DEF BooksInv

(* InvoiceLifecycle implements InvoiceLedger (RefinesLedger): for any set  *)
(* of invoices, threads, totals, payment rows and dates, no interleaving   *)
(* of the handlers and no restart lets an issued invoice change its total, *)
(* vanish, receive more than its total, become paid by payments that do    *)
(* not add up to it, or lose payments once it is closed.                   *)
THEOREM LedgerIsKept == Spec => RefinesLedger
<1>1. QED
  BY BooksInit, BooksStep, PTL DEF Spec, RefinesLedger, Ledger!Spec
-----------------------------------------------------------------------------
(* The payment lock (PaymentPool): at most one request is in it; and when  *)
(* those that wait for it fill the pool of threads, it stays with that one.*)

PoolInv == PoolTypeOK /\ OneAtATime

(* Initially no request is there.                                          *)
LEMMA PoolStarts == PoolInit => PoolInv
  BY PoolAssumption DEF PoolInit, PoolInv, PoolTypeOK, OneAtATime, InThread, InLock

(* A request that goes to another place, in the lock as much as before,    *)
(* disturbs nothing.                                                       *)
LEMMA SamePlaceStep ==
  ASSUME PoolInv, NEW r \in Requests, NEW from,
         NEW to \in {"idle", "arrived"} \union InThread \union InLock,
         Goto(r, from, to), UNCHANGED holder,
         from \in InLock <=> to \in InLock
  PROVE  PoolInv'
<1>1. pc'[r] = to /\ \A q \in Requests : q # r => pc'[q] = pc[q]
  BY DEF PoolInv, PoolTypeOK, Goto
<1>2. PoolTypeOK'
  BY <1>1 DEF PoolInv, PoolTypeOK, Goto
<1>3. OneAtATime'
  BY <1>1 DEF PoolInv, OneAtATime, Goto
<1>4. QED
  BY <1>2, <1>3 DEF PoolInv

(* Every step keeps the invariant.                                         *)
LEMMA PoolStep == PoolInv /\ [PoolNext]_poolVars => PoolInv'
<1> SUFFICES ASSUME PoolInv, [PoolNext]_poolVars PROVE PoolInv'
  OBVIOUS
<1>1. ASSUME NEW r \in Requests,
             Arrive(r) \/ EnterDependency(r) \/ OpenSession(r) \/ SessionOpened(r)
               \/ RunHandler(r) \/ HandlerReturns(r)
      PROVE  PoolInv'
  BY <1>1, SamePlaceStep
  DEF Arrive, EnterDependency, OpenSession, SessionOpened, RunHandler, HandlerReturns,
      InThread, InLock
<1>2. ASSUME NEW r \in Requests, AcquireLock(r) PROVE PoolInv'
  <2>1. \A q \in Requests : pc[q] \notin InLock
    BY <1>2, PoolAssumption DEF AcquireLock, PoolInv, OneAtATime
  <2>2. pc'[r] = "locked" /\ holder' = r /\ \A q \in Requests : q # r => pc'[q] = pc[q]
    BY <1>2 DEF AcquireLock, Goto, PoolInv, PoolTypeOK
  <2>3. PoolTypeOK'
    BY <1>2, <2>2 DEF AcquireLock, Goto, PoolInv, PoolTypeOK, InLock
  <2>4. OneAtATime'
    BY <2>1, <2>2 DEF OneAtATime
  <2>5. QED
    BY <2>3, <2>4 DEF PoolInv
<1>3. ASSUME NEW r \in Requests, LeaveDependencies(r) PROVE PoolInv'
  <2>1. pc'[r] = "idle" /\ holder' = Nobody /\ \A q \in Requests : q # r => pc'[q] = pc[q]
    BY <1>3 DEF LeaveDependencies, Goto, PoolInv, PoolTypeOK
  <2>2. holder = r
    BY <1>3 DEF LeaveDependencies, Goto, PoolInv, OneAtATime, InLock
  <2>3. PoolTypeOK'
    BY <1>3, <2>1 DEF LeaveDependencies, Goto, PoolInv, PoolTypeOK
  <2>4. OneAtATime'
    BY <2>1, <2>2 DEF PoolInv, OneAtATime, InLock
  <2>5. QED
    BY <2>3, <2>4 DEF PoolInv
<1>4. ASSUME UNCHANGED poolVars PROVE PoolInv'
  BY <1>4 DEF poolVars, PoolInv, PoolTypeOK, OneAtATime
<1>5. QED
  BY <1>1, <1>2, <1>3, <1>4 DEF PoolNext, Proceed

LEMMA PoolInvariant == PoolSpec => []PoolInv
  BY PoolStarts, PoolStep, PTL DEF PoolSpec

(* The lock belongs to nobody or to a request that is inside of it, for    *)
(* any number of requests and threads.                                     *)
THEOREM PoolTypeCorrect == PoolSpec => []PoolTypeOK
<1>1. PoolInv => PoolTypeOK
  BY DEF PoolInv
<1>2. QED
  BY <1>1, PoolInvariant, PTL

(* At most one request at a time is between taking _payment_lock and       *)
(* releasing it (OneAtATime), however many threads there are.              *)
THEOREM PaymentsExclude == PoolSpec => []OneAtATime
<1>1. PoolInv => OneAtATime
  BY DEF PoolInv
<1>2. QED
  BY <1>1, PoolInvariant, PTL

(* When the requests that wait have taken every thread, none is free and   *)
(* the one with the lock is the only one that holds it.                    *)
LEMMA StuckMeansNoThread ==
  ASSUME PoolInv, NEW r \in Requests, Stuck(r)
  PROVE  ~ThreadIsFree /\ holder = r /\ holder # Nobody
<1> DEFINE waiting == {q \in Requests : pc[q] = "acquiring"}
<1>1. Cardinality(waiting) = Tokens
  BY DEF Stuck
<1>2. IsFiniteSet(Busy) /\ waiting \in SUBSET Busy
  BY PoolAssumption, FS_Subset DEF Busy, InThread
<1>3. Cardinality(waiting) <= Cardinality(Busy)
  BY <1>2, FS_Subset
<1>4. Cardinality(Busy) \in Nat
  BY <1>2, FS_CardinalityType
<1>5. ~ThreadIsFree
  BY <1>1, <1>3, <1>4, PoolAssumption DEF ThreadIsFree
<1>6. pc[r] \in InLock
  BY DEF Stuck, InLock
<1>7. QED
  BY <1>5, <1>6, PoolAssumption DEF PoolInv, OneAtATime

(* A pool that waiting requests have filled while another one has the lock *)
(* stays that way: no step of any request frees a thread or the lock, so   *)
(* that payments and statuses of all accounts stop until a restart.  It is *)
(* what the run payment_pool_full runs into, for any number of requests    *)
(* and threads; TurnsEndUnlessPoolIsFull says that nothing else stops them.*)
THEOREM FullPoolIsForEver ==
  PoolSpec => [][\A r \in Requests : Stuck(r) => Stuck(r)']_poolVars
<1>1. ASSUME PoolInv, PoolNext, NEW r \in Requests, Stuck(r)
      PROVE  Stuck(r)'
  <2>1. ~ThreadIsFree /\ holder = r /\ holder # Nobody
    BY <1>1, StuckMeansNoThread
  <2>2. PICK q \in Requests : Arrive(q) \/ Proceed(q)
    BY <1>1 DEF PoolNext
  <2>3. q # r => pc[q] \notin InLock
    BY <1>1, <2>1 DEF PoolInv, OneAtATime
  <2>4. pc[r] \in {"locked", "opened"}
    BY <1>1 DEF Stuck
  <2>5. Arrive(q)
    BY <2>1, <2>2, <2>3, <2>4
       DEF Proceed, EnterDependency, AcquireLock, OpenSession, SessionOpened, RunHandler,
           HandlerReturns, LeaveDependencies, Goto, InLock
  <2>6. q # r /\ pc[q] = "idle" /\ pc' = [pc EXCEPT ![q] = "arrived"]
    BY <2>4, <2>5 DEF Arrive, Goto
  <2>7. pc'[r] = pc[r] /\ \A p \in Requests : pc'[p] = "acquiring" <=> pc[p] = "acquiring"
    BY <1>1, <2>6 DEF PoolInv, PoolTypeOK
  <2>8. {p \in Requests : pc'[p] = "acquiring"} = {p \in Requests : pc[p] = "acquiring"}
    BY <2>7
  <2>9. QED
    BY <1>1, <2>7, <2>8 DEF Stuck
<1>2. PoolInv /\ PoolNext => \A r \in Requests : Stuck(r) => Stuck(r)'
  BY <1>1
<1>3. QED
  BY <1>2, PoolInvariant, PTL DEF PoolSpec

-----------------------------------------------------------------------------
(* Credit notes (CreditNotes).  The invariant adds to the types and to     *)
(* CorrectsIssued what create_credit_note knows between its check and its  *)
(* commit: the original it saw sent or paid may have been cancelled since, *)
(* but no more.                                                            *)

IsIssued(i) == docs[i].st \in {"sent", "paid", "cancelled"}

(* What the handler on the event loop relies on.                           *)
WorkingKnows ==
  working # None /\ working.op = "credit" =>
    IsIssued(working.id) /\ ~IsCreditNote(working.id)

CreditInv == CreditTypeOK /\ CorrectsIssued /\ WorkingKnows

(* Initially there are no documents.                                       *)
LEMMA CreditStarts == CreditInit => CreditInv
  BY DEF CreditInit, CreditInv, CreditTypeOK, CorrectsIssued, WorkingKnows, IsCreditNote

(* A document that keeps its original, and stays issued if it was, disturbs *)
(* no credit note.                                                         *)
LEMMA NoteRowStep ==
  ASSUME CreditInv, NEW i \in Ids,
         NEW st \in Statuses \union {"deleted"}, NEW g \in Totals \union {0},
         docs' = [docs EXCEPT ![i] = [st |-> st, of |-> docs[i].of, gross |-> g]],
         IsIssued(i) => st \in {"sent", "paid", "cancelled"},
         working' \in {working, None}
  PROVE  CreditInv'
<1> USE DEF CreditInv
<1>1. /\ \A j \in Ids : docs'[j].of = docs[j].of
      /\ \A j \in Ids : IsIssued(j) => docs'[j].st \in {"sent", "paid", "cancelled"}
  BY DEF CreditTypeOK, IsIssued
<1>2. CreditTypeOK'
  BY DEF CreditTypeOK, Statuses
<1>3. CorrectsIssued'
  BY <1>1 DEF CreditTypeOK, CorrectsIssued, IsCreditNote, IsIssued
<1>4. WorkingKnows'
  BY <1>1 DEF CreditTypeOK, WorkingKnows, IsCreditNote, IsIssued
<1>5. QED
  BY <1>2, <1>3, <1>4

(* A new document corrects nothing, or an issued ordinary invoice.         *)
LEMMA NewNoteStep ==
  ASSUME CreditInv, NEW i \in Ids, NEW o \in Ids \union {None}, NEW g \in Totals,
         docs[i].st = "absent",
         docs' = [docs EXCEPT ![i] = [st |-> "draft", of |-> o, gross |-> g]],
         o # None => IsIssued(o) /\ ~IsCreditNote(o),
         working' \in {working, None}
  PROVE  CreditInv'
<1> USE DEF CreditInv
<1>1. /\ docs'[i].of = o
      /\ \A j \in Ids : j # i => docs'[j] = docs[j]
      /\ \A j \in Ids : IsIssued(j) => j # i
  BY DEF CreditTypeOK, IsIssued
<1>2. CreditTypeOK'
  BY DEF CreditTypeOK, Statuses
<1>3. CorrectsIssued'
  BY <1>1, CreditNotesAssumption DEF CreditTypeOK, CorrectsIssued, IsCreditNote, IsIssued
<1>4. WorkingKnows'
  BY <1>1 DEF CreditTypeOK, WorkingKnows, IsCreditNote, IsIssued
<1>5. QED
  BY <1>2, <1>3, <1>4

(* Every step keeps the invariant.                                         *)
LEMMA CreditStep == CreditInv /\ [CreditNext]_creditVars => CreditInv'
<1> SUFFICES ASSUME CreditInv, [CreditNext]_creditVars PROVE CreditInv'
  OBVIOUS
<1> USE DEF CreditInv
<1>1. ASSUME NEW i \in Ids, NewInvoice(i) PROVE CreditInv'
  <2>1. PICK g \in Totals :
          docs' = [docs EXCEPT ![i] = [st |-> "draft", of |-> None, gross |-> g]]
    BY <1>1 DEF NewInvoice
  <2>2. QED
    BY <1>1, <2>1, NewNoteStep DEF NewInvoice
<1>2. ASSUME NEW o \in Ids, ReadForCreditNote(o) PROVE CreditInv'
  <2>1. PICK g \in Totals : working' = [op |-> "credit", id |-> o, gross |-> g]
    BY <1>2 DEF ReadForCreditNote
  <2>2. QED
    BY <1>2, <2>1
    DEF ReadForCreditNote, CreditTypeOK, CorrectsIssued, WorkingKnows, IsCreditNote, IsIssued
<1>3. ASSUME NEW i \in Ids, CommitCreditNote(i) PROVE CreditInv'
  <2>1. working.id \in Ids /\ working.gross \in Totals
    BY <1>3 DEF CommitCreditNote, CreditTypeOK
  <2>2. QED
    BY <1>3, <2>1, NewNoteStep DEF CommitCreditNote, WorkingKnows
<1>4. ASSUME NEW i \in Ids, ReadDraft(i) PROVE CreditInv'
  <2>1. PICK g \in Totals : working' = [op |-> "edit", id |-> i, gross |-> g]
    BY <1>4 DEF ReadDraft
  <2>2. QED
    BY <1>4, <2>1 DEF ReadDraft, CreditTypeOK, CorrectsIssued, WorkingKnows, IsCreditNote
<1>5. ASSUME CommitDraft PROVE CreditInv'
  <2>1. working.id \in Ids /\ working.gross \in Totals
    BY <1>5 DEF CommitDraft, CreditTypeOK
  <2>2. QED
    BY <1>5, <2>1, NoteRowStep DEF CommitDraft, Statuses, IsIssued
<1>6. ASSUME Fail PROVE CreditInv'
  BY <1>6 DEF Fail, CreditTypeOK, CorrectsIssued, WorkingKnows, IsCreditNote
<1>7. ASSUME NEW i \in Ids, NEW st \in Statuses \union {"deleted"}, Write(i, st),
             IsIssued(i) => st \in {"sent", "paid", "cancelled"}, UNCHANGED working
      PROVE  CreditInv'
  <2>1. docs[i].gross \in Totals \union {0}
    BY DEF CreditTypeOK
  <2>2. QED
    BY <1>7, <2>1, NoteRowStep DEF Write
<1>8. ASSUME NEW i \in Ids, ChangeStatus(i) PROVE CreditInv'
  <2>1. PICK s \in AllowedNext[docs[i].st] : Write(i, s)
    BY <1>8 DEF ChangeStatus
  <2>2. docs[i].st \in Statuses /\ UNCHANGED working
    BY <1>8 DEF ChangeStatus
  <2>3. s \in {"sent", "paid", "cancelled"}
    BY <2>1, <2>2 DEF AllowedNext, Statuses
  <2>4. QED
    BY <1>7, <2>1, <2>2, <2>3 DEF Statuses
<1>9. ASSUME NEW i \in Ids, DeleteInvoice(i) PROVE CreditInv'
  BY <1>7, <1>9 DEF DeleteInvoice, IsIssued
<1>10. ASSUME UNCHANGED creditVars PROVE CreditInv'
  BY <1>10 DEF creditVars, CreditTypeOK, CorrectsIssued, WorkingKnows, IsCreditNote, IsIssued
<1>11. QED
  BY <1>1, <1>2, <1>3, <1>4, <1>5, <1>6, <1>8, <1>9, <1>10 DEF CreditNext

(* The variables of CreditNotes always have their types (CreditTypeOK): an *)
(* edit replaces the items of a draft and never adds to them.              *)
THEOREM CreditNotesTypeCorrect == CreditSpec => []CreditTypeOK
<1>1. CreditInv => CreditTypeOK
  BY DEF CreditInv
<1>2. QED
  BY <1>1, CreditStarts, CreditStep, PTL DEF CreditSpec

(* A credit note always has an issued original that is no credit note      *)
(* itself: deletions are refused by the triggers of db_guards.py, and      *)
(* cancelling the original between the check and the commit of             *)
(* create_credit_note leaves it issued.                                    *)
THEOREM CreditNotesCorrectIssued == CreditSpec => []CorrectsIssued
<1>1. CreditInv => CorrectsIssued
  BY DEF CreditInv
<1>2. QED
  BY <1>1, CreditStarts, CreditStep, PTL DEF CreditSpec

-----------------------------------------------------------------------------
(* The limit of the credit notes.  A document that does not exist corrects *)
(* nothing; and the credit note about to be written still fits.            *)
CapInv ==
  /\ \A i \in Ids : docs[i].st = "absent" => docs[i].of = None
  /\ \A o \in Ids :
       working # None /\ working.op = "credit" /\ working.id = o =>
         Credited(o) + working.gross <= docs[o].gross

Gross(d) == [i \in Ids |-> d[i].gross]

(* What was credited is the sum of natural numbers, and so in every state. *)
LEMMA CreditedIs ==
  ASSUME CreditTypeOK, NEW o \in Ids
  PROVE  /\ Credited(o) = Total(Gross(docs), CreditNotesTo(o)) /\ Credited(o) \in Nat
         /\ CreditNotesTo(o) \subseteq Ids /\ IsFiniteSet(CreditNotesTo(o))
         /\ \A i \in Ids : Gross(docs)[i] \in Nat
<1>1. Credited(o) = Total(Gross(docs), CreditNotesTo(o))
  BY Zenon DEF Credited, Total, Gross
<1>2. CreditNotesTo(o) \subseteq Ids
  BY DEF CreditNotesTo
<1>3. IsFiniteSet(CreditNotesTo(o))
  BY <1>2, CreditNotesAssumption, FS_Subset
<1>4. ASSUME NEW i \in Ids PROVE Gross(docs)[i] \in Nat
  <2>1. docs[i].gross \in Totals \union {0}
    BY DEF CreditTypeOK
  <2>2. Totals \union {0} \subseteq Nat
    BY TotalsAssumption
  <2>3. QED
    BY <2>1, <2>2 DEF Gross
<1>5. \A i \in CreditNotesTo(o) : Gross(docs)[i] \in Nat
  BY <1>2, <1>4
<1>6. QED
  BY <1>1, <1>2, <1>3, <1>4, <1>5, TotalNat

(* CreditedIs of the next state.                                           *)
LEMMA CreditedNext ==
  ASSUME CreditTypeOK', NEW o \in Ids
  PROVE  /\ Credited(o)' = Total(Gross(docs'), CreditNotesTo(o)') /\ Credited(o)' \in Nat
         /\ CreditNotesTo(o)' \subseteq Ids /\ IsFiniteSet(CreditNotesTo(o)')
         /\ \A i \in Ids : Gross(docs')[i] \in Nat
<1>1. Credited(o)' = Total(Gross(docs'), CreditNotesTo(o)')
  BY Zenon DEF Credited, Total, Gross, FoldFunctionOnSet, MapThenFoldSet
<1>2. CreditNotesTo(o)' \subseteq Ids
  BY DEF CreditNotesTo
<1>3. IsFiniteSet(CreditNotesTo(o)')
  BY <1>2, CreditNotesAssumption, FS_Subset
<1>4. ASSUME NEW i \in Ids PROVE Gross(docs')[i] \in Nat
  <2>1. docs'[i].gross \in Totals \union {0}
    BY DEF CreditTypeOK
  <2>2. Totals \union {0} \subseteq Nat
    BY TotalsAssumption
  <2>3. QED
    BY <2>1, <2>2 DEF Gross
<1>5. \A i \in CreditNotesTo(o)' : Gross(docs')[i] \in Nat
  BY <1>2, <1>4
<1>6. QED
  BY <1>1, <1>2, <1>3, <1>4, <1>5, TotalNat

(* If the credit notes to a document only become fewer, so does the sum.   *)
LEMMA CreditedShrinks ==
  ASSUME CreditTypeOK, CreditTypeOK', NEW o \in Ids,
         CreditNotesTo(o)' \subseteq CreditNotesTo(o),
         \A i \in CreditNotesTo(o)' : docs'[i].gross = docs[i].gross
  PROVE  Credited(o)' <= Credited(o)
<1>1. PICK R \in SUBSET CreditNotesTo(o) : R = CreditNotesTo(o)'
  OBVIOUS
<1>2. IsFiniteSet(R) /\ R \subseteq Ids /\ Credited(o)' = Total(Gross(docs'), R)
  BY <1>1, CreditedNext
<1>3. \A i \in R : Gross(docs')[i] = Gross(docs)[i]
  BY <1>1, <1>2 DEF Gross
<1>4. Total(Gross(docs'), R) = Total(Gross(docs), R)
  BY <1>2, <1>3, TotalSame
<1>5. Total(Gross(docs), R) <= Total(Gross(docs), CreditNotesTo(o))
  <2>1. IsFiniteSet(CreditNotesTo(o)) /\ \A i \in CreditNotesTo(o) : Gross(docs)[i] \in Nat
    BY CreditedIs
  <2>2. QED
    BY <2>1, TotalSubset
<1>6. QED
  BY <1>2, <1>4, <1>5, CreditedIs

(* A new credit note adds its total.                                       *)
LEMMA CreditedGrows ==
  ASSUME CreditTypeOK, CreditTypeOK', NEW i \in Ids, NEW o \in Ids, NEW g \in Totals,
         docs[i].st = "absent",
         docs' = [docs EXCEPT ![i] = [st |-> "draft", of |-> o, gross |-> g]]
  PROVE  Credited(o)' = Credited(o) + g
<1>1. docs'[i] = [st |-> "draft", of |-> o, gross |-> g] /\ \A j \in Ids \ {i} : docs'[j] = docs[j]
  BY DEF CreditTypeOK
<1>2. i \notin CreditNotesTo(o)
  BY DEF CreditNotesTo, Statuses
<1>3. CreditNotesTo(o)' = CreditNotesTo(o) \union {i}
  BY <1>1 DEF CreditNotesTo, Statuses
<1>4. PICK s : s = CreditNotesTo(o)
  OBVIOUS
<1>5. /\ IsFiniteSet(s) /\ s \subseteq Ids /\ i \notin s
      /\ Credited(o) = Total(Gross(docs), s)
      /\ Credited(o)' = Total(Gross(docs'), s \union {i})
  BY <1>2, <1>3, <1>4, CreditedIs, CreditedNext
<1>6. PICK f : f = Gross(docs')
  OBVIOUS
<1>7. Total(f, s \union {i}) = Total(f, s) + f[i]
  <2>1. IsFiniteSet(s) /\ i \notin s /\ s \union {i} \subseteq Ids
    BY <1>5
  <2>2. \A j \in Ids : f[j] \in Nat
    BY <1>6, CreditedNext
  <2>3. \A j \in s \union {i} : f[j] \in Int
    BY <2>1, <2>2
  <2>4. QED
    BY <2>1, <2>3, TotalAdd
<1>8. Total(Gross(docs'), s) = Total(Gross(docs), s)
  <2>1. \A j \in s : Gross(docs')[j] = Gross(docs)[j]
    BY <1>1, <1>5 DEF Gross
  <2>2. QED
    BY <1>5, <2>1, TotalSame
<1>9. Gross(docs')[i] = g
  BY <1>1 DEF Gross
<1>10. QED
  BY <1>5, <1>6, <1>7, <1>8, <1>9

(* A step that only changes the status of documents, adds ones that        *)
(* correct nothing or rewrites drafts leaves CapInv true if the handler on *)
(* the event loop has no credit note in mind, or if no more of them count. *)
LEMMA CapKept ==
  ASSUME CreditInv, CreditInv', CapInv,
         \A i \in Ids : docs'[i].st = "absent" => docs'[i].of = None,
         \/ working' = None
         \/ working'.op # "credit"
         \/ /\ working' = working
            /\ \A i \in Ids : IsIssued(i) => docs'[i].gross = docs[i].gross
            /\ \A o \in Ids : /\ CreditNotesTo(o)' \subseteq CreditNotesTo(o)
                              /\ \A i \in CreditNotesTo(o)' : docs'[i].gross = docs[i].gross
  PROVE  CapInv'
<1> SUFFICES ASSUME NEW o \in Ids, working' # None, working'.op = "credit", working'.id = o
             PROVE  Credited(o)' + working'.gross <= docs'[o].gross
  BY DEF CapInv
<1>1. /\ working' = working
      /\ \A i \in Ids : IsIssued(i) => docs'[i].gross = docs[i].gross
      /\ CreditNotesTo(o)' \subseteq CreditNotesTo(o)
      /\ \A i \in CreditNotesTo(o)' : docs'[i].gross = docs[i].gross
  OBVIOUS
<1>2. CreditTypeOK /\ CreditTypeOK'
  BY DEF CreditInv
<1>3. Credited(o)' <= Credited(o) /\ Credited(o) \in Nat /\ Credited(o)' \in Nat
  BY <1>1, <1>2, CreditedShrinks, CreditedIs, CreditedNext
<1>4. docs'[o].gross = docs[o].gross
  BY <1>1 DEF CreditInv, WorkingKnows
<1>5. Credited(o) + working.gross <= docs[o].gross
  BY <1>1 DEF CapInv
<1>6. working.gross \in Nat /\ docs[o].gross \in Nat
  <2>1. working.gross \in Totals /\ docs[o].gross \in Totals \union {0}
    BY <1>1 DEF CreditInv, CreditTypeOK
  <2>2. Totals \union {0} \subseteq Nat
    BY TotalsAssumption
  <2>3. QED
    BY <2>1, <2>2
<1>7. QED
  BY <1>1, <1>3, <1>4, <1>5, <1>6

DocWritten(i, st, of, g) == docs' = [docs EXCEPT ![i] = [st |-> st, of |-> of, gross |-> g]]

(* A step that writes one document, of which no more counts than before.   *)
LEMMA RowKept ==
  ASSUME CreditInv, NEW i \in Ids, NEW st \in Statuses \union {"deleted"}, NEW g,
         DocWritten(i, st, docs[i].of, g)
  PROVE  /\ \A j \in Ids : j # i => docs'[j] = docs[j]
         /\ docs'[i] = [st |-> st, of |-> docs[i].of, gross |-> g]
         /\ CapInv => \A j \in Ids : docs'[j].st = "absent" => docs'[j].of = None
         /\ docs[i].st \in {"draft", "sent", "paid"} \/ st \in {"cancelled", "deleted"} =>
              \A o \in Ids : CreditNotesTo(o)' \subseteq CreditNotesTo(o)
<1>1. /\ \A j \in Ids : j # i => docs'[j] = docs[j]
      /\ docs'[i] = [st |-> st, of |-> docs[i].of, gross |-> g]
  BY DEF CreditInv, CreditTypeOK, DocWritten
<1>2. CapInv => \A j \in Ids : docs'[j].st = "absent" => docs'[j].of = None
  BY <1>1 DEF CapInv, Statuses
<1>3. docs[i].st \in {"draft", "sent", "paid"} \/ st \in {"cancelled", "deleted"} =>
        \A o \in Ids : CreditNotesTo(o)' \subseteq CreditNotesTo(o)
  BY <1>1 DEF CreditNotesTo, Statuses
<1>4. QED
  BY <1>1, <1>2, <1>3
(* Every step keeps the limit.                                             *)
LEMMA CapStep == CreditInv /\ CapInv /\ [CreditNext]_creditVars => CapInv'
<1> SUFFICES ASSUME CreditInv, CapInv, [CreditNext]_creditVars PROVE CapInv'
  OBVIOUS
<1>1. CreditInv'
  BY CreditStep
<1>2. ASSUME NEW i \in Ids, NewInvoice(i) PROVE CapInv'
  <2>1. PICK g \in Totals :
          docs' = [docs EXCEPT ![i] = [st |-> "draft", of |-> None, gross |-> g]]
    BY <1>2 DEF NewInvoice
  <2>2. docs[i].st = "absent" /\ working' = working
    BY <1>2 DEF NewInvoice
  <2>3. /\ docs'[i] = [st |-> "draft", of |-> None, gross |-> g]
        /\ \A j \in Ids : j # i => docs'[j] = docs[j]
    BY <2>1 DEF CreditInv, CreditTypeOK
  <2>4. \A j \in Ids : docs'[j].st = "absent" => docs'[j].of = None
    BY <2>3 DEF CapInv
  <2>5. \A j \in Ids : IsIssued(j) => docs'[j].gross = docs[j].gross
    BY <2>2, <2>3 DEF IsIssued
  <2>6. ASSUME NEW o \in Ids
        PROVE  /\ CreditNotesTo(o)' \subseteq CreditNotesTo(o)
               /\ \A j \in CreditNotesTo(o)' : docs'[j].gross = docs[j].gross
    BY <2>3, CreditNotesAssumption DEF CreditNotesTo
  <2>7. QED
    BY <1>1, <2>2, <2>4, <2>5, <2>6, CapKept
<1>3. ASSUME NEW o \in Ids, ReadForCreditNote(o) PROVE CapInv'
  <2>1. PICK g \in Totals : /\ Credited(o) + g <= docs[o].gross
                            /\ working' = [op |-> "credit", id |-> o, gross |-> g]
    BY <1>3 DEF ReadForCreditNote
  <2>2. docs' = docs
    BY <1>3 DEF ReadForCreditNote
  <2>3. Credited(o)' = Credited(o)
    <3>1. CreditNotesTo(o)' = CreditNotesTo(o)
      BY <2>2 DEF CreditNotesTo
    <3>2. QED
      BY <1>1, <2>2, <3>1, CreditedIs, CreditedNext DEF CreditInv
  <2>4. QED
    BY <2>1, <2>2, <2>3 DEF CapInv
<1>4. ASSUME NEW i \in Ids, CommitCreditNote(i) PROVE CapInv'
  <2>1. /\ docs' = [docs EXCEPT ![i] = [st |-> "draft", of |-> working.id,
                                        gross |-> working.gross]]
        /\ working' = None
    BY <1>4 DEF CommitCreditNote
  <2>2. \A j \in Ids : docs'[j].st = "absent" => docs'[j].of = None
    BY <2>1 DEF CreditInv, CreditTypeOK, CapInv
  <2>3. QED
    BY <1>1, <2>1, <2>2, CapKept
<1>5. ASSUME NEW i \in Ids, ReadDraft(i) PROVE CapInv'
  <2>1. PICK g \in Totals : working' = [op |-> "edit", id |-> i, gross |-> g]
    BY <1>5 DEF ReadDraft
  <2>2. docs' = docs
    BY <1>5 DEF ReadDraft
  <2>3. QED
    BY <1>1, <2>1, <2>2, CapKept DEF CapInv
<1>6. ASSUME CommitDraft PROVE CapInv'
  <2>1. working.id \in Ids /\ "draft" \in Statuses \union {"deleted"} /\ working' = None
    BY <1>6 DEF CommitDraft, CreditInv, CreditTypeOK, Statuses
  <2>2. \A j \in Ids : docs'[j].st = "absent" => docs'[j].of = None
    BY <1>6, <2>1, RowKept DEF CommitDraft, DocWritten
  <2>3. QED
    BY <1>1, <2>1, <2>2, CapKept
<1>7. ASSUME Fail \/ UNCHANGED creditVars PROVE CapInv'
  <2>1. docs' = docs /\ working' \in {working, None}
    BY <1>7 DEF Fail, creditVars
  <2>2. \A o \in Ids : CreditNotesTo(o)' = CreditNotesTo(o)
    BY <2>1 DEF CreditNotesTo
  <2>3. QED
    BY <1>1, <2>1, <2>2, CapKept DEF CapInv
<1>8. ASSUME NEW i \in Ids, NEW st \in Statuses \union {"deleted"}, Write(i, st),
             docs[i].st \in {"draft", "sent", "paid"}, UNCHANGED working
      PROVE  CapInv'
  <2>1. PICK g : g = docs[i].gross /\ DocWritten(i, st, docs[i].of, g)
    BY <1>8 DEF Write, DocWritten
  <2>2. /\ \A j \in Ids : j # i => docs'[j] = docs[j]
        /\ docs'[i].gross = docs[i].gross
        /\ \A j \in Ids : docs'[j].st = "absent" => docs'[j].of = None
        /\ \A o \in Ids : CreditNotesTo(o)' \subseteq CreditNotesTo(o)
    <3>1. /\ \A j \in Ids : j # i => docs'[j] = docs[j]
          /\ docs'[i] = [st |-> st, of |-> docs[i].of, gross |-> g]
          /\ CapInv => \A j \in Ids : docs'[j].st = "absent" => docs'[j].of = None
          /\ docs[i].st \in {"draft", "sent", "paid"} \/ st \in {"cancelled", "deleted"} =>
               \A o \in Ids : CreditNotesTo(o)' \subseteq CreditNotesTo(o)
      BY <2>1, RowKept
    <3>2. QED
      BY <1>8, <2>1, <3>1
  <2>3. \A j \in Ids : docs'[j].gross = docs[j].gross
    BY <2>2
  <2>4. \A o \in Ids : \A j \in CreditNotesTo(o)' : docs'[j].gross = docs[j].gross
    BY <2>3 DEF CreditNotesTo
  <2>5. QED
    BY <1>1, <1>8, <2>2, <2>3, <2>4, CapKept
<1>9. ASSUME NEW i \in Ids, ChangeStatus(i) PROVE CapInv'
  <2>1. PICK s \in AllowedNext[docs[i].st] : Write(i, s)
    BY <1>9 DEF ChangeStatus
  <2>2. docs[i].st \in Statuses /\ UNCHANGED working
    BY <1>9 DEF ChangeStatus
  <2>3. s \in Statuses /\ docs[i].st \in {"draft", "sent", "paid"}
    BY <2>1, <2>2 DEF AllowedNext, Statuses
  <2>4. QED
    BY <1>8, <2>1, <2>2, <2>3
<1>10. ASSUME NEW i \in Ids, DeleteInvoice(i) PROVE CapInv'
  BY <1>8, <1>10 DEF DeleteInvoice
<1>11. QED
  BY <1>2, <1>3, <1>4, <1>5, <1>6, <1>7, <1>9, <1>10 DEF CreditNext

(* A step that makes a credit note of a document that did not exist is     *)
(* CommitCreditNote, and what it writes fits.                              *)
LEMMA CreationFits ==
  ASSUME CreditInv, CapInv, [CreditNext]_creditVars,
         NEW i \in Ids, NEW o \in Ids, docs[i].st = "absent", docs'[i].of = o
  PROVE  Credited(o)' <= docs[o].gross
<1>1. docs[i].of = None /\ o # None /\ docs'[i] # docs[i]
  BY CreditNotesAssumption DEF CapInv
<1>2. ASSUME NEW j \in Ids, NEW st, NEW of, NEW g, j # i \/ of = None,
             docs' = [docs EXCEPT ![j] = [st |-> st, of |-> of, gross |-> g]]
      PROVE  FALSE
  BY <1>1, <1>2 DEF CreditInv, CreditTypeOK
<1>3. docs' # docs
  BY <1>1
<1>4. CommitCreditNote(i)
  <2>1. ASSUME NEW j \in Ids, NewInvoice(j) PROVE FALSE
    BY <1>2, <2>1 DEF NewInvoice
  <2>2. ASSUME NEW j \in Ids, j # i, CommitCreditNote(j) PROVE FALSE
    BY <1>2, <2>2 DEF CommitCreditNote
  <2>3. ASSUME CommitDraft PROVE FALSE
    BY <1>2, <2>3 DEF CommitDraft, CreditInv, CreditTypeOK
  <2>4. ASSUME NEW j \in Ids, ChangeStatus(j) PROVE FALSE
    <3>1. j # i
      BY <2>4 DEF ChangeStatus, Statuses
    <3>2. PICK s : docs' = [docs EXCEPT ![j] = [st |-> s, of |-> docs[j].of,
                                                gross |-> docs[j].gross]]
      BY <2>4 DEF ChangeStatus, Write
    <3>3. QED
      BY <1>2, <3>1, <3>2
  <2>5. ASSUME NEW j \in Ids, DeleteInvoice(j) PROVE FALSE
    BY <1>2, <2>5 DEF DeleteInvoice, Write
  <2>6. QED
    BY <1>3, <2>1, <2>2, <2>3, <2>4, <2>5
    DEF CreditNext, creditVars, ReadForCreditNote, ReadDraft, Fail
<1>5. PICK g \in Totals : g = working.gross
  BY <1>4 DEF CommitCreditNote, CreditInv, CreditTypeOK
<1>6. working.id = o /\ docs' = [docs EXCEPT ![i] = [st |-> "draft", of |-> o, gross |-> g]]
  BY <1>4, <1>5 DEF CommitCreditNote, CreditInv, CreditTypeOK
<1>7. CreditTypeOK /\ CreditTypeOK'
  BY CreditStep DEF CreditInv
<1>8. Credited(o)' = Credited(o) + g
  BY <1>6, <1>7, CreditedGrows
<1>9. Credited(o) + g <= docs[o].gross
  BY <1>4, <1>5, <1>6 DEF CommitCreditNote, CapInv
<1>10. QED
  BY <1>8, <1>9

(* Creating a credit note never makes the credit notes exceed the original *)
(* (CreationRespectsCap), for any number of documents and any totals, and  *)
(* whatever is issued, cancelled or deleted between the check of           *)
(* create_credit_note and its commit.                                      *)
THEOREM CreationStaysWithinCap == CreditSpec => CreationRespectsCap
<1>1. CreditInit => CapInv
  BY DEF CreditInit, CapInv
<1>2. CreditInv /\ CapInv /\ [CreditNext]_creditVars =>
        [\A i, o \in Ids :
           docs[i].st = "absent" /\ docs'[i].of = o => Credited(o)' <= docs[o].gross]_creditVars
  BY CreationFits
<1>3. QED
  BY <1>1, <1>2, CreditStarts, CreditStep, CapStep, PTL DEF CreditSpec, CreationRespectsCap
=============================================================================
