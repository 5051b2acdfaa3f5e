\* HeapVRowBlock new/put/drop and ArrayVector new/from_vec/drop, ConstVector::new over a byte heap.
CONSTANTS
  Tys <- MCTys
  Schemas <- MCSchemas
  Vals = {1, 2}
  VectorSize = 2
  AlignedSize = 16
  MaxAllocs = 4
  VecInputs <- MCVecInputs
INIT Init
NEXT Next
\* Nothing can happen once the allocation bound is spent and no block is live.
CHECK_DEADLOCK FALSE
INVARIANTS
  TypeOK
  VectorsAligned
  PutGetRoundTrip
  ArrayVectorsNeverLeak
