SPECIFICATION FiguresSpec
CONSTANTS
  Quantities <- MCQuantities
  Prices <- MCPrices
  VatRates <- MCVatRates
  MaxItems = 2
  Absent = Absent
INVARIANTS TotalsAreNear NoUnlawfulVat OnlyPartiesAndHalfCents
