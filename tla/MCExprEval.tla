---------------------------- MODULE MCExprEval ----------------------------
(***************************************************************************)
(* Model-checking instance of ExprEval.  The schema has an INT2 column a   *)
(* and INT4 columns b and c; leaves are the three fields, a field z the    *)
(* schema lacks and an INT4 constant.  Sub and Lt are not commutative, so  *)
(* an operand order slip changes a result; blocks hold 1 or 2 per column.  *)
(***************************************************************************)
EXTENDS ExprEval

MCSchema == <<[name |-> "a", ty |-> "INT2"],
              [name |-> "b", ty |-> "INT4"],
              [name |-> "c", ty |-> "INT4"]>>

MCColumns == {MCSchema}

(* A second column named b (column_id must keep finding the first) and    *)
(* the missing column z, added before or after bind.                       *)
MCNewColumns == {[name |-> "b", ty |-> "INT4"], [name |-> "z", ty |-> "INT4"]}

Fa == FieldE("a", "INT2")
Fb == FieldE("b", "INT4")
Fc == FieldE("c", "INT4")
Fz == FieldE("z", "INT4")
K1 == ConstE(1, "INT4")

MCLeaves == {Fa, Fb, Fc, Fz, K1}
MCArith1 == {ArithmE(o, l, r) : o \in {"Plus", "Sub"}, l \in MCLeaves, r \in MCLeaves}

(* AndEval over: two comparisons; a comparison and one naming z (bind     *)
(* error after the left side bound); an INT4 field (assert_eq! panics); a *)
(* BOOL constant and a comparison; two BOOL constants (const-const panic). *)
KT == ConstE(1, "BOOL")
MCAndExprs ==
  {AndE(CompE("Lt", Fb, Fc), CompE("Lt", Fc, K1)),
   AndE(CompE("Lt", Fc, K1), CompE("Lt", Fz, Fb)),
   AndE(Fb, CompE("Lt", Fb, Fc)),
   AndE(KT, CompE("Lt", Fb, Fc)),
   AndE(KT, KT)}

(* Every leaf; every arithmetic node over two leaves; comparisons of       *)
(* leaves and of the two differences of b and c; one nested sum; the And trees. *)
MCExprs ==
  MCLeaves \cup MCArith1
  \cup {CompE("Lt", l, r) : l, r \in MCLeaves \cup {ArithmE("Sub", Fb, Fc), ArithmE("Sub", Fc, Fb)}}
  \cup {ArithmE("Plus", ArithmE("Plus", Fb, Fc), Fc)}
  \cup MCAndExprs

(* Well-typed INT4 expressions with one nested arithmetic operand.         *)
MCNestedExprs ==
  {ArithmE(o, ArithmE(p, l, r), x) : o, p \in {"Plus", "Sub"}, l, r, x \in {Fb, Fc}}
  \cup {ArithmE(o, l, r) : o \in {"Plus", "Sub"}, l, r \in {Fb, Fc, K1}}

MCVals == {1, 2}

=============================================================================
