CONSTANTS
  Columns <- MCColumns
  NewColumns <- MCNewColumns
  MaxColumns = 4
  Exprs <- MCExprs
  Vals <- MCVals

SPECIFICATION Spec

\* A bind error or a panic ends compilation (spec 4.G: bind-time errors
\* abort compilation); nothing follows it.
CHECK_DEADLOCK FALSE

INVARIANTS
  TypeOK
  BindResolvesFields
  EvalMatchesReference

PROPERTIES
  BindIdempotent
