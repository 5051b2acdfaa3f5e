---------------------------- MODULE InputSource ----------------------------
(***************************************************************************)
(* The contract of an input source (spec 4.C), stated abstractly.          *)
(*                                                                         *)
(* A consumer pulls pages with next().  Until the source has handed out    *)
(* all of its rows, each page carries between 1 and RowBatchSize fresh     *)
(* rows, the next ones of the stream, in order.  Once the rows are spent,  *)
(* every further page carries no rows.  How many rows a page carries is    *)
(* left open: any batch size in 1..RowBatchSize is allowed.                *)
(*                                                                         *)
(* The rows are abstract: the row at stream position r has the value       *)
(* RowAt(r), a tuple over the columns Cols.                                *)
(***************************************************************************)
EXTENDS Naturals, Sequences

CONSTANTS
  RowBatchSize,  \* ROWBATCH_SIZE: the most rows one page carries
  Cols,          \* the column indexes of the pages
  RowAt(_)       \* the value of the row at a stream position

ASSUME RowBatchSize \in Nat \ {0}

VARIABLES
  total,  \* how many rows the source will hand out
  sent,   \* how many rows it has handed out so far
  out     \* the rows of the page the last next() returned

vars == <<total, sent, out>>

Init ==
  /\ total \in Nat
  /\ sent = 0
  /\ out = << >>

(* next() hands out a batch of k fresh rows, 1 <= k <= RowBatchSize.      *)
Produce ==
  /\ sent < total
  /\ \E k \in 1..RowBatchSize :
       /\ sent + k <= total
       /\ out' = [i \in 1..k |-> RowAt(sent + i - 1)]
       /\ sent' = sent + k
  /\ UNCHANGED total

(* next() after the rows are spent returns an empty page.                  *)
Exhausted ==
  /\ sent = total
  /\ out' = << >>
  /\ UNCHANGED <<total, sent>>

Next == Produce \/ Exhausted

Spec == Init /\ [][Next]_vars

=============================================================================
