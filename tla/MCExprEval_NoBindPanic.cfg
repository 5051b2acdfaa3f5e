CONSTANTS
  Columns <- MCColumns
  NewColumns <- MCNewColumns
  MaxColumns = 4
  Exprs <- MCNestedExprs
  Vals <- MCVals

SPECIFICATION Spec

\* A bind error or a panic ends compilation; nothing follows it.
CHECK_DEADLOCK FALSE

INVARIANTS
  NoBindPanic
