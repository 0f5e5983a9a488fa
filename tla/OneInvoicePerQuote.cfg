SPECIFICATION Spec
CONSTANTS
  QuoteIds = {q1}
  InvoiceIds = {n1, n2}
  Contents = {c1, c2}
  Series = {invoice}
  Threads = {t1, t2}
  Loop = Loop
  None = None
SYMMETRY Symmetry
INVARIANT OneInvoicePerQuote
