------------------------- MODULE MCRowBlockLayout ---------------------------
(* Two-slot vectors keep the byte heap small; with VECTOR_SIZE 2 a column  *)
(* of width 1, 2 or 4 fills less than 16 bytes, so the rounding up of      *)
(* compute_aligned_size matters (at 1024 every width is already aligned).  *)
EXTENDS RowBlockLayout

MCTys == {"INT2", "INT8"}
MCSchemas == {<<"INT2", "INT4">>, <<"BOOL", "INT8">>}

(* from_vec gets one value, two values in either order (eight INT8 bytes *)
(* each fill the 16-byte buffer), and three, one past VECTOR_SIZE.        *)
MCVecInputs == {<<2>>, <<1, 2>>, <<2, 1>>, <<1, 2, 1>>}
=============================================================================
