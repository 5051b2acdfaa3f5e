----------------------------- MODULE MemTable -----------------------------
(***************************************************************************)
(* MemTable, the in-memory sink (spec 4.D).  Its code is not under src/;   *)
(* src/src/common/tests/memtable_tests.rs drives it, and this module is    *)
(* written from the spec.  write(page) copies the page's first value_count *)
(* rows into owned storage, column k of the sink taken from column         *)
(* WriteMap[k] of the page (the write projection fixed at construction).   *)
(* A page whose column types do not match the sink schema is refused and   *)
(* the table is left unchanged (all-or-nothing per page).                  *)
(***************************************************************************)
EXTENDS Naturals, Sequences

CONSTANTS
  SinkTypes,  \* the sink schema given to MemTable::new
  WriteMap    \* sink column k is filled from page column WriteMap[k]

SinkCols == 1..Len(SinkTypes)

ASSUME WriteMap \in [SinkCols -> Nat \ {0}]

VARIABLE memRows  \* the rows written so far, as tuples over SinkCols

(* row_num(): the cumulative number of rows written.                       *)
row_num_mem == Len(memRows)

(* The page's columns fit the sink schema through the write map.           *)
Accepts(pg) ==
  \A k \in SinkCols :
    /\ WriteMap[k] \in DOMAIN pg.types
    /\ pg.types[WriteMap[k]] = SinkTypes[k]

(* The rows write(pg) copies: positions 0..value_count-1 only.             *)
CopiedRows(pg) ==
  [i \in 1..pg.valueCount |-> [k \in SinkCols |-> pg.chunks[WriteMap[k]][i - 1]]]

InitMem == memRows = << >>

(* write(pg) succeeds: the copied rows are appended.                       *)
Write(pg) ==
  /\ Accepts(pg)
  /\ memRows' = memRows \o CopiedRows(pg)

(* write(pg) fails on a type mismatch and changes nothing.                 *)
Reject(pg) ==
  /\ ~Accepts(pg)
  /\ UNCHANGED memRows

(* reader(): the decoded tuples, in insertion order.                       *)
reader == memRows

=============================================================================
