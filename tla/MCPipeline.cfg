CONSTANTS
  RowBatchSize = 3
  Uninit = Uninit
  Types <- MCTypes
  RowNums <- MCRowNums
  ReadProjs <- MCReadProjs
  SinkTypes <- MCSinkTypes
  WriteMap <- MCWriteMap

SPECIFICATION Spec

INVARIANTS
  TypeOK
  RoundTrip

PROPERTIES
  ImplementsInputSource
  AllRowsWritten
