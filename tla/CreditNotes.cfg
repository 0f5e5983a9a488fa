SPECIFICATION CreditSpec
CONSTANTS
  Ids = {i1, i2, i3, i4}
  Totals = {1, 2, 3}
  None = None
SYMMETRY Symmetry
INVARIANT CorrectsIssued
PROPERTY CreationRespectsCap
CHECK_DEADLOCK FALSE
