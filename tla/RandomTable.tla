---------------------------- MODULE RandomTable ----------------------------
(***************************************************************************)
(* RandomTable (src/src/common/random_table.rs): the reference input       *)
(* source.  It owns one Page and rewrites it on every next().  The page    *)
(* is never cleared: slots at or past value_count keep whatever an earlier *)
(* batch wrote there (or are uninitialised, right after Page::new).        *)
(*                                                                         *)
(* Random values are abstracted to tags: the value generated for column c  *)
(* of the row at stream position r is RandomValue(r, c), distinct for      *)
(* every (r, c).  Column indexes are 1-based here, 0-based in the code.    *)
(* open(), has_next() and close() change no state and are not actions.    *)
(***************************************************************************)
EXTENDS Naturals, Sequences

CONSTANTS
  RowBatchSize,  \* ROWBATCH_SIZE (1024 in the code)
  Types,         \* the column types given to RandomTable::new
  RowNums,       \* the row_num values a table may be created with
  Uninit         \* the content of a slot nothing has written yet

ASSUME RowBatchSize \in Nat \ {0}
ASSUME RowNums \subseteq Nat

VARIABLES
  page,     \* the reused page: [types, chunks, valueCount]
  row_num,  \* number of rows to generate
  cur_pos   \* how many rows are generated so far

rt_vars == <<page, row_num, cur_pos>>

Cols == 1..Len(Types)
Pos  == 0..(RowBatchSize - 1)

(* choose_random_fn: the types that have a random generator; any other     *)
(* type panics in RandomTable::new, so the model is only built over these. *)
RandomFnTypes == {"i32", "i64", "f32", "f64"}
ASSUME \A c \in Cols : Types[c] \in RandomFnTypes

(* rand::random::<T>() for column c of stream row r, as a unique tag.       *)
RandomValue(r, c) == <<r, c>>

(* Page::new(types): one MiniPage per type, nothing written, no rows.      *)
NewPage(types) ==
  [types      |-> types,
   chunks     |-> [c \in 1..Len(types) |-> [p \in Pos |-> Uninit]],
   valueCount |-> 0]

(* write_rand_for_<T>(mp, rownum): the rows 0..rownum-1 of one MiniPage    *)
(* get fresh values; the slots past rownum are left alone.                 *)
write_rand(chunk, c, rownum) ==
  [p \in Pos |-> IF p < rownum THEN RandomValue(cur_pos + p, c) ELSE chunk[p]]

Init ==
  /\ row_num \in RowNums
  /\ cur_pos = 0
  /\ page = NewPage(Types)

(* Mutants of next(), each a plausible slip in random_table.rs, defined    *)
(* here so that a check can substitute them for the definitions below.     *)
(* MutExhaustedNoReset: the set_value_count(0) of line 53 left out.         *)
MutExhaustedNoReset ==
  /\ cur_pos >= row_num
  /\ UNCHANGED <<page, row_num, cur_pos>>

(* MutExhaustedEarly: the end test of line 52 off by one.                  *)
MutExhaustedEarly ==
  /\ cur_pos + 1 >= row_num
  /\ page' = [page EXCEPT !.valueCount = 0]
  /\ UNCHANGED <<row_num, cur_pos>>

(* MutBatchNoMin: line 59 without the min with remain.                     *)
MutBatchNoMin ==
  /\ cur_pos < row_num
  /\ page' = [page EXCEPT
                 !.chunks = [c \in Cols |-> write_rand(@[c], c, RowBatchSize)],
                 !.valueCount = RowBatchSize]
  /\ cur_pos' = cur_pos + RowBatchSize
  /\ UNCHANGED row_num

(* next(), lines 52-55: the rows are spent, so value_count is set to 0 and *)
(* the page is returned; its chunks keep the rows of the last batch.       *)
NextExhausted ==
  /\ cur_pos >= row_num
  /\ page' = [page EXCEPT !.valueCount = 0]
  /\ UNCHANGED <<row_num, cur_pos>>

(* next(), lines 57-68: min(remain, ROWBATCH_SIZE) rows are generated in   *)
(* every column, the position moves forward and the page is built with     *)
(* value_count = min.                                                      *)
NextBatch ==
  /\ cur_pos < row_num
  /\ LET remain == row_num - cur_pos
         min    == IF remain < RowBatchSize THEN remain ELSE RowBatchSize
     IN  /\ page' = [page EXCEPT
                       !.chunks = [c \in Cols |-> write_rand(@[c], c, min)],
                       !.valueCount = min]
         /\ cur_pos' = cur_pos + min
  /\ UNCHANGED row_num

next == NextExhausted \/ NextBatch

Spec == Init /\ [][next]_rt_vars

(* The rows of the page the consumer may read: 0..value_count-1.           *)
VisibleRows(pg) ==
  [i \in 1..pg.valueCount |-> [c \in DOMAIN pg.chunks |-> pg.chunks[c][i - 1]]]

(* The contract of spec 4.C, with the stream's rows being the random rows. *)
Contract == INSTANCE InputSource WITH
  Cols  <- Cols,
  RowAt <- LAMBDA r : [c \in Cols |-> RandomValue(r, c)],
  total <- row_num,
  sent  <- cur_pos,
  out   <- VisibleRows(page)

=============================================================================
