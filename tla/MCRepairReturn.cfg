SPECIFICATION Spec
CONSTANTS
  a = a
  b = b
  none = none
  Cashiers = {a, b}
  Items = {1}
  Warehouses = {1}
  Documents = {1, 2}
  Opening <- MCOpening
  PartLists <- MCPartLists
  Totals = {0, 2}
  Amounts = {1, 2}
  NoInvoice = none
SYMMETRY CashiersAlike
INVARIANT ComesBackOnce
CHECK_DEADLOCK FALSE
