SPECIFICATION Spec
CONSTANTS
  QuoteIds = {q1}
  InvoiceIds = {n1, n2}
  Contents = {c1, c2}
  Series = {invoice, proforma}
  Threads = {t1, t2, t3}
  Loop = Loop
  None = None
SYMMETRY Symmetry
INVARIANT InvoiceHasItsQuote
PROPERTY ConversionIsAtomic
