------------------------- MODULE MCAlgebraBuilder -------------------------
(***************************************************************************)
(* Model-checking instance of AlgebraBuilder: two data sets (model values, *)
(* so a plan can read the same one twice, as spec scenario 6 does), two    *)
(* join types, two unary combinators and up to five builder calls, enough  *)
(* for a join of a join, a join_with over a unary node, and every          *)
(* build() outcome.                                                        *)
(***************************************************************************)
EXTENDS AlgebraBuilder

MCUnaryKinds == {"Filter", "Project"}

=============================================================================
