SPECIFICATION Spec
CONSTANTS
  MaxRow = 2
  MaxCol = 2
  VectorCol = {2}
  Value <- Pair
  Tolerance = 1
  MaxDepth = 2
  NoRow = NoRow
  NoData = NoData
INVARIANTS FirstHookExact LastHookCatchesUp LastHearsLast
PROPERTIES TableSpec
CHECK_DEADLOCK FALSE
