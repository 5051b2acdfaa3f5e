--------------------------- MODULE RowBlockLayout ---------------------------
(***************************************************************************)
(* HeapVRowBlock (src/src/rows/vrows.rs) and ArrayVector                   *)
(* (src/src/rows/vector.rs) over a byte-level heap.  HeapVRowBlock::new    *)
(* allocates one fixed area and carves it into one PtrVector per column,  *)
(* each of VectorSize slots; put_<ty> writes a value's bytes at            *)
(* base + width * row through get_unchecked_mut, and get_<ty> reads them   *)
(* back.  ArrayVector owns one aligned buffer and frees it in Drop;        *)
(* from_vec fills a new one from a Vec and panics past VECTOR_SIZE values, *)
(* the unwinding dropping the vector.  ConstVector holds one value in 16   *)
(* inline bytes, read back through first_value.                           *)
(*                                                                         *)
(* A byte of the block's area is a record [v, k, w]: byte k of a value v   *)
(* of width w; Undef is memory heap::allocate returned uninitialised.      *)
(* One block is alive at a time; allocations are numbered.                 *)
(***************************************************************************)
EXTENDS Naturals, Sequences, SequencesExt, FiniteSets, TLC

CONSTANTS
  Tys,          \* the physical types of the catalogue
  Schemas,      \* the column type sequences a block is created for
  Vals,         \* the values put into a block (positive integers)
  VectorSize,   \* VECTOR_SIZE (1024 in common::constant)
  AlignedSize,  \* sse::ALIGNED_SIZE (16)
  MaxAllocs,    \* bound on heap::allocate calls
  VecInputs     \* the Vecs of values handed to from_vec (one longer than
                \* VectorSize reaches its panic)

VARIABLES
  heap,     \* live allocations: id -> [size, align]
  nextId,   \* the id the next allocation gets
  blk,      \* the live HeapVRowBlock: [live, id, tys, offs, size]
  mem,      \* the bytes of the block's fixed area, 0..size-1
  shadow,   \* history: <<row, col>> -> the value last put there
  dropped,  \* ids of allocations whose owner has been dropped
  vecs,     \* the live ArrayVectors: buffer id -> [ty, vals, mem]
  areas,    \* ids of the fixed areas HeapVRowBlock::new allocated
  konst,    \* the caller's ConstVector, [ty, datum, value], or NoConst
  panicked  \* a call panicked and the thread unwound

vars == <<heap, nextId, blk, mem, shadow, dropped, vecs, areas, konst, panicked>>

Undef == [v |-> 0, k |-> 0, w |-> 0]
NoConst == [ty |-> "none", datum |-> 0, value |-> << >>]
NoBlk == [live |-> FALSE, id |-> 0, tys |-> << >>, offs |-> << >>, size |-> 0]

Init ==
  /\ heap = << >>
  /\ nextId = 1
  /\ blk = NoBlk
  /\ mem = << >>
  /\ shadow = << >>
  /\ dropped = {}
  /\ vecs = << >>
  /\ areas = {}
  /\ konst = NoConst
  /\ panicked = FALSE

(* DataTy::bytes_len (spec 3: fixed width, TEXT a 16-byte descriptor).     *)
Width(t) ==
  CASE t \in {"BOOL", "INT1"}                  -> 1
    [] t = "INT2"                              -> 2
    [] t \in {"INT4", "FLOAT4", "DATE"}        -> 4
    [] t \in {"INT8", "FLOAT8", "TIME", "TIMESTAMP"} -> 8
    [] t = "TEXT"                              -> 16

(* sse::compute_aligned_size: round up to a multiple of ALIGNED_SIZE.      *)
AlignUp(n) == ((n + AlignedSize - 1) \div AlignedSize) * AlignedSize

(* The aligned bytes of one column vector, lines 210-211 and 226-227.      *)
VecBytes(t) == AlignUp(Width(t) * VectorSize)

SumBytes(ts) == FoldLeft(LAMBDA acc, t : acc + VecBytes(t), 0, ts)

Alloc(size) == (nextId :> [size |-> size, align |-> AlignedSize]) @@ heap

(* Mutant: the loop over columns stops one short (0..size()-1).            *)
MutNewOneShort(tys) ==
  /\ ~blk.live
  /\ nextId < MaxAllocs
  /\ LET size == SumBytes(tys)
     IN  /\ heap' = Alloc(size)
         /\ blk' = [live |-> TRUE, id |-> nextId, tys |-> tys, size |-> size,
                    offs |-> [x \in 1..(Len(tys) - 1) |-> SumBytes(SubSeq(tys, 1, x - 1))]]
         /\ mem' = [a \in 0..(size - 1) |-> Undef]
  /\ nextId' = nextId + 1
  /\ shadow' = << >>
  /\ areas' = areas \cup {nextId}
  /\ UNCHANGED <<dropped, vecs, konst, panicked>>

(* Mutant: fixed_area_size adds the unaligned bytes width * VECTOR_SIZE.   *)
MutNewUnalignedArea(tys) ==
  /\ ~blk.live
  /\ nextId < MaxAllocs
  /\ LET size == FoldLeft(LAMBDA acc, t : acc + Width(t) * VectorSize, 0, tys)
     IN  /\ heap' = Alloc(size)
         /\ blk' = [live |-> TRUE, id |-> nextId, tys |-> tys, size |-> size,
                    offs |-> [x \in DOMAIN tys |-> SumBytes(SubSeq(tys, 1, x - 1))]]
         /\ mem' = [a \in 0..(SumBytes(tys) - 1) |-> Undef]
  /\ nextId' = nextId + 1
  /\ shadow' = << >>
  /\ areas' = areas \cup {nextId}
  /\ UNCHANGED <<dropped, vecs, konst, panicked>>

(* Mutant: last_ptr advances by bytes_len, not bytes_len * VECTOR_SIZE.    *)
MutNewShortStride(tys) ==
  /\ ~blk.live
  /\ nextId < MaxAllocs
  /\ LET size == SumBytes(tys)
     IN  /\ heap' = Alloc(size)
         /\ blk' = [live |-> TRUE, id |-> nextId, tys |-> tys, size |-> size,
                    offs |-> [x \in DOMAIN tys |->
                                FoldLeft(LAMBDA acc, t : acc + Width(t), 0, SubSeq(tys, 1, x - 1))]]
         /\ mem' = [a \in 0..(size - 1) |-> Undef]
  /\ nextId' = nextId + 1
  /\ shadow' = << >>
  /\ areas' = areas \cup {nextId}
  /\ UNCHANGED <<dropped, vecs, konst, panicked>>

(* HeapVRowBlock::new(schema), lines 201-239: sum the aligned vector sizes *)
(* into fixed_area_size, allocate it aligned, then push one PtrVector per  *)
(* column at last_ptr and advance last_ptr by that column's aligned size.  *)
HeapNew(tys) ==
  /\ ~blk.live
  /\ nextId < MaxAllocs
  /\ LET size == SumBytes(tys)
     IN  /\ heap' = Alloc(size)
         /\ blk' = [live |-> TRUE, id |-> nextId, tys |-> tys, size |-> size,
                    offs |-> [x \in DOMAIN tys |-> SumBytes(SubSeq(tys, 1, x - 1))]]
         /\ mem' = [a \in 0..(size - 1) |-> Undef]
  /\ nextId' = nextId + 1
  /\ shadow' = << >>
  /\ areas' = areas \cup {nextId}
  /\ UNCHANGED <<dropped, vecs, konst, panicked>>

(* The address of slot row of column col: as_mut_array views the vector  *)
(* as [T; VECTOR_SIZE], so element row starts width * row bytes in.       *)
Addr(col, row) == blk.offs[col] + Width(blk.tys[col]) * row

(* Storing a T of width w at byte a of a buffer m (ptr::write, or an       *)
(* assignment through as_mut_array).                                       *)
WriteVal(m, a, w, val) ==
  [x \in DOMAIN m |-> IF x \in a..(a + w - 1) THEN [v |-> val, k |-> x - a, w |-> w] ELSE m[x]]

(* Reading a T of width w at byte a: the value whose bytes start there;   *)
(* bytes of another value or of nothing read as 0.                         *)
ReadVal(m, a, w) ==
  IF /\ a + w - 1 \in DOMAIN m
     /\ \A k \in 0..(w - 1) : m[a + k] = [v |-> m[a].v, k |-> k, w |-> w]
  THEN m[a].v ELSE 0

(* Mutant: the slot is found at base + row, as if every value were a byte. *)
MutPutByteIndex(row, col, val) ==
  /\ blk.live
  /\ mem' = WriteVal(mem, blk.offs[col] + row, Width(blk.tys[col]), val)
  /\ shadow' = (<<row, col>> :> val) @@ shadow
  /\ UNCHANGED <<heap, nextId, blk, dropped, vecs, areas, konst, panicked>>

(* put_<ty>(row_id, col_id, value), lines 250-332: write the value's bytes *)
(* (put_text writes its 16-byte descriptor) with no bounds check.          *)
Put(row, col, val) ==
  /\ blk.live
  /\ mem' = WriteVal(mem, Addr(col, row), Width(blk.tys[col]), val)
  /\ shadow' = (<<row, col>> :> val) @@ shadow
  /\ UNCHANGED <<heap, nextId, blk, dropped, vecs, areas, konst, panicked>>

(* get_<ty>(row_id, col_id), lines 354-432.                                *)
Get(row, col) == ReadVal(mem, Addr(col, row), Width(blk.tys[col]))

(* Dropping a HeapVRowBlock: the struct (lines 190-197) has no Drop impl,  *)
(* so its fixed area is never handed back to heap::deallocate.             *)
DropBlock ==
  /\ blk.live
  /\ blk' = NoBlk
  /\ dropped' = dropped \cup {blk.id}
  /\ mem' = << >>
  /\ shadow' = << >>
  /\ UNCHANGED <<heap, nextId, vecs, areas, konst, panicked>>

(* A fresh buffer of VecBytes(t) uninitialised bytes.                      *)
Blank(t) == [a \in 0..(VecBytes(t) - 1) |-> Undef]

(* ArrayVector::new(ty), vector.rs lines 27-40.                            *)
VecNew(t) ==
  /\ nextId < MaxAllocs
  /\ heap' = Alloc(VecBytes(t))
  /\ vecs' = (nextId :> [ty |-> t, vals |-> << >>, mem |-> Blank(t)]) @@ vecs
  /\ nextId' = nextId + 1
  /\ UNCHANGED <<blk, mem, shadow, dropped, areas, konst, panicked>>

(* from_vec's loop, array[x] = values[x] for x in 0..values.len(), with    *)
(* element x stored stride * x bytes in.                                    *)
FillWith(t, vals, stride) ==
  FoldLeft(LAMBDA m, x : WriteVal(m, stride * x, Width(t), vals[x + 1]),
           Blank(t), [i \in 1..Len(vals) |-> i - 1])

(* Mutant: the vector is forgotten, not dropped, when the loop panics.     *)
MutFromVecPanicLeak(t, vals) ==
  /\ nextId < MaxAllocs
  /\ heap' = Alloc(VecBytes(t))
  /\ vecs' = IF Len(vals) <= VectorSize
              THEN (nextId :> [ty |-> t, vals |-> vals,
                               mem |-> FillWith(t, vals, Width(t))]) @@ vecs
              ELSE vecs
  /\ dropped' = dropped
  /\ panicked' = (Len(vals) > VectorSize)
  /\ nextId' = nextId + 1
  /\ UNCHANGED <<blk, mem, shadow, areas, konst>>

(* from_vec(data_ty, values), vector.rs lines 167-179: ArrayVector::new,   *)
(* then array[x] = values[x] through as_mut_array, a slice of VECTOR_SIZE  *)
(* elements.  The index check of array[x] panics at x = VECTOR_SIZE; the   *)
(* unwinding drops the vector, whose Drop deallocates the buffer.         *)
FromVec(t, vals) ==
  /\ nextId < MaxAllocs
  /\ heap' = IF Len(vals) <= VectorSize THEN Alloc(VecBytes(t)) ELSE heap
  /\ vecs' = IF Len(vals) <= VectorSize
              THEN (nextId :> [ty |-> t, vals |-> vals,
                               mem |-> FillWith(t, vals, Width(t))]) @@ vecs
              ELSE vecs
  /\ dropped' = IF Len(vals) <= VectorSize THEN dropped ELSE dropped \cup {nextId}
  /\ panicked' = (Len(vals) > VectorSize)
  /\ nextId' = nextId + 1
  /\ UNCHANGED <<blk, mem, shadow, areas, konst>>

(* ArrayVector::drop, vector.rs lines 43-51: deallocate with the size and  *)
(* alignment computed again from the data type.                            *)
VecDrop(id) ==
  /\ id \in DOMAIN vecs
  /\ heap' = [i \in DOMAIN heap \ {id} |-> heap[i]]
  /\ vecs' = [i \in DOMAIN vecs \ {id} |-> vecs[i]]
  /\ dropped' = dropped \cup {id}
  /\ UNCHANGED <<nextId, blk, mem, shadow, areas, konst, panicked>>

(* let value: [u8; 16] = mem::zeroed(): a zero byte reads as 0, as an     *)
(* unwritten one does.                                                     *)
Zeroed == [a \in 0..15 |-> Undef]

(* ConstVector::new(datum), vector.rs lines 85-116: a zeroed 16-byte value *)
(* with the datum written at its start through a pointer of its type; no  *)
(* heap allocation.                                                        *)
ConstNew(t, val) ==
  /\ konst' = [ty |-> t, datum |-> val, value |-> WriteVal(Zeroed, 0, Width(t), val)]
  /\ UNCHANGED <<heap, nextId, blk, mem, shadow, dropped, vecs, areas, panicked>>

(* A panic ends the thread: no call follows it.                            *)
Next ==
  /\ ~panicked
  /\ \/ \E tys \in Schemas : HeapNew(tys)
     \/ \E row \in 0..(VectorSize - 1), col \in 1..Len(blk.tys), val \in Vals :
          Put(row, col, val)
     \/ DropBlock
     \/ \E t \in Tys : VecNew(t)
     \/ \E t \in Tys, vals \in VecInputs : FromVec(t, vals)
     \/ \E id \in DOMAIN vecs : VecDrop(id)
     \/ \E t \in Tys, val \in Vals : ConstNew(t, val)

Spec == Init /\ [][Next]_vars

-----------------------------------------------------------------------------
(* Properties *)

Cell == [v : Vals \cup {0}, k : 0..15, w : {0, 1, 2, 4, 8, 16}]

TypeOK ==
  /\ \A i \in DOMAIN heap : heap[i].align = AlignedSize
  /\ nextId \in 1..MaxAllocs
  /\ blk.live => /\ blk.tys \in Schemas
                 /\ DOMAIN blk.offs = DOMAIN blk.tys
                 /\ blk.id \in DOMAIN heap
                 /\ DOMAIN mem = 0..(heap[blk.id].size - 1)
  /\ \A a \in DOMAIN mem : mem[a] \in Cell
  /\ \A c \in DOMAIN shadow : shadow[c] \in Vals
  /\ DOMAIN vecs \subseteq DOMAIN heap
  /\ \A i \in DOMAIN vecs : /\ vecs[i].ty \in Tys
                            /\ vecs[i].vals \in SeqOf(Vals, VectorSize)
                            /\ DOMAIN vecs[i].mem = 0..(heap[i].size - 1)
  /\ konst # NoConst => konst.ty \in Tys /\ konst.datum \in Vals /\ DOMAIN konst.value = 0..15
  /\ areas \subseteq 1..(nextId - 1)
  /\ panicked \in BOOLEAN

(* The column vector of col as a byte range of the block's area.           *)
VecRange(c) == blk.offs[c]..(blk.offs[c] + Width(blk.tys[c]) * VectorSize - 1)

(* Spec P2 and the layout of HeapVRowBlock::new: every allocation is a     *)
(* multiple of ALIGNED_SIZE bytes, every column vector starts on an        *)
(* aligned offset inside the fixed area, and no two vectors share a byte.  *)
VectorsAligned ==
  /\ \A i \in DOMAIN heap : heap[i].size % AlignedSize = 0
  /\ blk.live =>
       \A c \in DOMAIN blk.tys :
         /\ blk.offs[c] % AlignedSize = 0
         /\ VecRange(c) \subseteq DOMAIN mem
         /\ \A d \in DOMAIN blk.tys \ {c} : VecRange(c) \cap VecRange(d) = {}

(* After any sequence of put_<ty> calls on a block, get_<ty> at every slot *)
(* that was written returns the value last put there: no put reaches into *)
(* another slot or another column.                                         *)
PutGetRoundTrip ==
  \A c \in DOMAIN shadow : Get(c[1], c[2]) = shadow[c]

(* An ArrayVector's buffer is allocated exactly while the vector lives,   *)
(* also when from_vec panics part-way: the unwinding drops it.  The only  *)
(* allocations without a live owner are HeapVRowBlock fixed areas.        *)
ArrayVectorsNeverLeak ==
  \A i \in DOMAIN heap : i \in DOMAIN vecs \/ i \in areas

(* Spec 3 / 5: a buffer is handed back to the allocator when its owner is  *)
(* dropped.  ArrayVector does it in Drop; HeapVRowBlock has no Drop.       *)
NoLeakAfterDrop ==
  \A i \in DOMAIN heap : i \notin dropped

=============================================================================
