SPECIFICATION Spec
CONSTANTS
  Invoices = {i1}
  Threads = {t1, t2}
  Loop = Loop
  Totals = {0, 2, 3}
  Kinds = {"invoice", "proforma", "creditNote"}
  Rows = {p1, p2, p3}
  Dates = {d1, d2}
  None = None
SYMMETRY Symmetry
INVARIANTS TypeOK HistoryEndsInStatus PaidHasDate
PROPERTIES RefinesLedger IssuedIsFrozen HistoryIsAChain
CHECK_DEADLOCK FALSE
