----------------------------- MODULE Pipeline -----------------------------
(***************************************************************************)
(* A single-threaded pipeline RandomTable -> project -> MemTable, driven   *)
(* the way src/src/common/tests/memtable_tests.rs drives it: call next(),  *)
(* project the borrowed page onto readProj (test_write_projected builds a  *)
(* view page from page.project(..) and the page's value_count), write the  *)
(* view into the MemTable, and call next() again.  The projection is one   *)
(* of ReadProjs, fixed for the whole run.  The consumer keeps pulling      *)
(* after the end of the stream, as the tests do with their last zero-row   *)
(* page.  A refused write is dropped and the loop goes on (spec 7: the     *)
(* pipeline stays callable).                                               *)
(***************************************************************************)
EXTENDS Naturals, Sequences

CONSTANTS RowBatchSize, Types, RowNums, Uninit, ReadProjs, SinkTypes, WriteMap

VARIABLES
  page, row_num, cur_pos,  \* RandomTable
  memRows,                 \* MemTable
  readProj,                \* the consumer's projection indexes
  pc                       \* where the consumer's loop is

vars == <<page, row_num, cur_pos, memRows, readProj, pc>>

RT == INSTANCE RandomTable
MT == INSTANCE MemTable

ASSUME ReadProjs \subseteq Seq(RT!Cols)

(* Page::project(indices) followed by set_chunks/set_value_count: a view   *)
(* whose j-th chunk is chunk idx[j] of pg, with pg's value_count.          *)
Project(pg, idx) ==
  [types      |-> [j \in DOMAIN idx |-> pg.types[idx[j]]],
   chunks     |-> [j \in DOMAIN idx |-> pg.chunks[idx[j]]],
   valueCount |-> pg.valueCount]

View == Project(page, readProj)

Init ==
  /\ RT!Init
  /\ MT!InitMem
  /\ readProj \in ReadProjs
  /\ pc = "next"

(* let page = gen.next().unwrap()                                          *)
CallNext ==
  /\ pc = "next"
  /\ RT!next
  /\ pc' = "write"
  /\ UNCHANGED <<memRows, readProj>>

(* mem.write(&view) succeeds.                                              *)
WritePage ==
  /\ pc = "write"
  /\ MT!Write(View)
  /\ pc' = "next"
  /\ UNCHANGED <<page, row_num, cur_pos, readProj>>

(* mem.write(&view) returns an error; the page is dropped.                 *)
WriteRefused ==
  /\ pc = "write"
  /\ MT!Reject(View)
  /\ pc' = "next"
  /\ UNCHANGED <<page, row_num, cur_pos, readProj>>

Next == CallNext \/ WritePage \/ WriteRefused

(* The loop is plain sequential code: each step that is enabled is taken.  *)
Spec == Init /\ [][Next]_vars /\ WF_vars(Next)

-----------------------------------------------------------------------------
(* Properties *)

TypeOK ==
  /\ row_num \in RowNums
  /\ cur_pos \in 0..row_num
  /\ page.valueCount \in 0..RowBatchSize
  /\ DOMAIN page.chunks = RT!Cols
  /\ memRows \in Seq([MT!SinkCols -> (Nat \X Nat) \cup {Uninit}])
  /\ readProj \in ReadProjs
  /\ pc \in {"next", "write"}

(* The sink accepts the projected pages of this run.                       *)
Accepting == MT!Accepts(Project(RT!NewPage(Types), readProj))

(* Round trip (P4): the MemTable holds exactly the generated rows, in the  *)
(* order RandomTable generated them, each projected through readProj and   *)
(* the write map; and between two next() calls it holds every row the      *)
(* source has handed out so far (none, if the sink refuses the pages).  A  *)
(* source that leaves a stale value_count on its reused page, or a sink    *)
(* that copies past value_count, breaks it.                                *)
RoundTrip ==
  /\ \A i \in 1..Len(memRows) :
       memRows[i] = [k \in MT!SinkCols |-> RT!RandomValue(i - 1, readProj[WriteMap[k]])]
  /\ (pc = "next") => Len(memRows) = IF Accepting THEN cur_pos ELSE 0

(* RandomTable::next implements the InputSource contract of spec 4.C.      *)
ImplementsInputSource == RT!Contract!Spec

(* Every row reaches the MemTable: the loop eventually drains the source   *)
(* and, when the sink accepts the pages, writes all row_num rows.          *)
AllRowsWritten ==
  <>[](/\ cur_pos = row_num
       /\ (Accepting => Len(memRows) = row_num))

=============================================================================
