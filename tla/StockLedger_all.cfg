CONSTANTS
  Requests = {r1,r2}
  Nobody = Nobody
  Methods <- BothMethods
  Bills <- SmallBills
  Quantities = {1,2}
  Counts = {2}
  LastDate = 1
  Operations <- Everything
  MaxMovements = 4
  r1 = r1
  r2 = r2

SPECIFICATION Spec

SYMMETRY RequestSymmetry
INVARIANT StockReconciles
INVARIANT VoidsUndoExactly
INVARIANT PooledStockNeverNegative
INVARIANT ShelfIsDescribed
