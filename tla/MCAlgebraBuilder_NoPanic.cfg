CONSTANTS
  T1 = T1
  T2 = T2
  INNER = INNER
  LeftOuter = LeftOuter
  Datasets = {T1, T2}
  JoinTypes = {INNER, LeftOuter}
  UnaryKinds <- MCUnaryKinds
  MaxCalls = 5

SPECIFICATION Spec

\* build() consumes the builder: after it the system really stops.
CHECK_DEADLOCK FALSE

INVARIANT
  NoPanic
