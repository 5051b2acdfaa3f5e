---------------------------- MODULE MCPipeline ----------------------------
(***************************************************************************)
(* Model-checking instance of Pipeline, after test_write_projected: the    *)
(* source has types [i32, f32, i32], the consumer projects columns [2, 3]  *)
(* (0-based [1, 2], as the test) or [1, 2], which the sink schema          *)
(* [f32, i32] refuses.  ROWBATCH_SIZE is scaled down to 3 (RowBatchSize in *)
(* the cfg); row_num covers 0, less than one batch, exactly one batch,     *)
(* multiples of it and one past a multiple.                                *)
(***************************************************************************)
EXTENDS Pipeline

MCTypes     == <<"i32", "f32", "i32">>
MCRowNums   == 0..10
MCReadProjs == {<<2, 3>>, <<1, 2>>}
MCSinkTypes == <<"f32", "i32">>
MCWriteMap  == <<1, 2>>

=============================================================================
