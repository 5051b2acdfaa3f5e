------------------------------ MODULE ExprEval ------------------------------
(***************************************************************************)
(* The map-expression evaluator of src/src/eval/interpreter.rs: an         *)
(* expression is compiled by MapCompiler into a tree of evaluators         *)
(* (Field, ConstEval, ArithmMapEval, CompEval), or two compiled trees are   *)
(* wrapped by the caller in an AndEval (MapCompiler has no And visit); the *)
(* tree is bound to a schema (bind resolves column indexes, result types   *)
(* and kernels) and then evaluated against row blocks.  The caller builds *)
(* the schema with Schema::new and may add columns to it at any time.     *)
(*                                                                         *)
(* An evaluator node is a record: kind, the column name of a Field, ty     *)
(* (what data_ty() returns: the column type of a Field, the datum type of  *)
(* a Const, BOOL for a CompEval, the Option data_ty of an ArithmMapEval,   *)
(* "None" until bound), val (a Const's datum), op, kids (lhs, rhs), fid    *)
(* (field_id, 1-based here, 0-based in the code, so 0 means "never set")   *)
(* and f (the kernel pointer, "None" until bound).                         *)
(*                                                                         *)
(* Vectorisation is abstracted to one row: kernels are element-wise, so a  *)
(* row block is a function from column index to one value.  The kernels,  *)
(* result_data_ty and walk_expr are not in the repository; kernels apply   *)
(* the scalar op (spec 4.F) and result_data_ty is the promotion rule of    *)
(* spec 4.F.  A panic!, assert_eq! or unwrap() on None ends the run with   *)
(* status "panicked".                                                      *)
(***************************************************************************)
EXTENDS Integers, Sequences, SequencesExt, FiniteSets, FiniteSetsExt

CONSTANTS
  Columns,     \* the column lists a caller hands to Schema::new
  NewColumns,  \* the columns a caller may add (add / add_directly)
  MaxColumns,  \* bound on the schema's length
  Exprs,    \* the expressions a caller may compile
  Vals      \* the values a column of a row block may hold

IntTys   == {"INT2", "INT4", "INT8"}
FloatTys == {"FLOAT4", "FLOAT8"}
TimeTys  == {"TIME", "DATE", "TIMESTAMP"}
(* Width in bits, which decides the promoted type.                         *)
Bits(t)  == CASE t \in {"INT2"} -> 16 [] t \in {"INT4", "FLOAT4"} -> 32
              [] OTHER -> 64

VARIABLES
  expr,    \* the expression handed to compile_map_eval
  ev,      \* the evaluator tree (compiler.tree), NoNode before compiling
  status,  \* "idle", "compiled", "bound", "UndefinedColumn", "panicked"
  block,   \* the row block of the last eval, NoBlock before
  out,     \* << what the root's eval returned for it >>, << >> before
  schema,  \* the caller's Schema: a sequence of [name, ty]
  bound    \* history: the schema the last bind was given

vars == <<expr, ev, status, block, out, schema, bound>>

Blocks == [DOMAIN schema -> Vals]

(* Expressions (src/src/expr, not in the repository): leaves and binary    *)
(* nodes, built with the same record shape as evaluator nodes.            *)
FieldE(n, t)     == [kind |-> "field", name |-> n, ty |-> t, val |-> 0,
                     op |-> "none", kids |-> << >>, fid |-> 0, f |-> "None"]
ConstE(v, t)     == [FieldE("none", t) EXCEPT !.kind = "const", !.val = v]
ArithmE(o, l, r) == [FieldE("none", "none") EXCEPT !.kind = "arithm",
                        !.op = o, !.kids = <<l, r>>]
CompE(o, l, r)   == [ArithmE(o, l, r) EXCEPT !.kind = "comp"]
AndE(l, r)       == [ArithmE("And", l, r) EXCEPT !.kind = "and"]
NoNode           == [FieldE("none", "none") EXCEPT !.kind = "none"]
NoBlock          == << >>

-----------------------------------------------------------------------------
(* Compilation *)

(* Mutant: walk_and_take_bin_expr hands the children over swapped.        *)
RECURSIVE MutCompileSwap(_)
MutCompileSwap(e) ==
  CASE e.kind \in {"field", "const"} -> e
    [] e.kind = "arithm" -> [e EXCEPT !.ty = "None",
                               !.kids = <<MutCompileSwap(e.kids[2]), MutCompileSwap(e.kids[1])>>]
    [] e.kind = "comp"   -> [e EXCEPT !.ty = "BOOL",
                               !.kids = <<MutCompileSwap(e.kids[2]), MutCompileSwap(e.kids[1])>>]

(* compile_map_eval / MapCompiler: a post-order walk; a binary node takes  *)
(* the lhs tree, then the rhs tree, and wraps them.  Field::new keeps the  *)
(* expression's Column (and its type) with field_id 0; ArithmMapEval::new  *)
(* leaves data_ty None; CompEval::new fixes res_ty to BOOL.               *)
RECURSIVE Compile(_)
Compile(e) ==
  CASE e.kind \in {"field", "const"} -> e
    [] e.kind = "arithm" -> [e EXCEPT !.ty = "None",
                               !.kids = <<Compile(e.kids[1]), Compile(e.kids[2])>>]
    [] e.kind = "comp"   -> [e EXCEPT !.ty = "BOOL",
                               !.kids = <<Compile(e.kids[1]), Compile(e.kids[2])>>]

(* AndEval::new(lhs, rhs), lines 32-42: res_ty BOOL, no kernel yet.       *)
NewAnd(l, r) == [AndE(l, r) EXCEPT !.ty = "BOOL"]

-----------------------------------------------------------------------------
(* Binding.  BindNode(n) is [node |-> the node after bind, res |-> "ok",   *)
(* "UndefinedColumn" or "panic"].                                          *)

Ok(n)    == [node |-> n, res |-> "ok"]
Panic(n) == [node |-> n, res |-> "panic"]

IsConst(n) == n.kind = "const"

(* result_data_ty: the promotion rule of spec 4.F.  It returns a Ty, not a *)
(* Result, so an operand pair the rule does not permit panics.            *)
Promote(l, r) ==
  CASE l = r -> l
    [] {l, r} \subseteq IntTys -> IF Bits(l) >= Bits(r) THEN l ELSE r
    [] {l, r} \subseteq IntTys \cup FloatTys ->
         IF {l, r} \cap FloatTys = {"FLOAT4"} THEN "FLOAT4" ELSE "FLOAT8"
    [] OTHER -> "panic"

(* get_arithm_prim / get_arithm_vec_or_const: lhs and rhs types must be    *)
(* equal (assert_eq!), the type numeric or temporal, and not both const.   *)
ArithmPrim(op, lt, lc, rt, rc) ==
  IF lt # rt \/ lt \notin IntTys \cup FloatTys \cup TimeTys \/ (lc /\ rc)
  THEN "panic" ELSE <<op, lt, lc, rc>>

(* get_comp_primitive / get_comp_vec_or_const: as above, TEXT allowed.     *)
CompPrim(op, lt, lc, rt, rc) ==
  IF lt # rt \/ lt \notin IntTys \cup FloatTys \cup TimeTys \cup {"TEXT"} \/ (lc /\ rc)
  THEN "panic" ELSE <<op, lt, lc, rc>>

(* get_and_primitive, lines 361-370: const-vs-const panics.               *)
AndPrim(lc, rc) == IF lc /\ rc THEN "panic" ELSE <<"And", "BOOL", lc, rc>>

(* Mutant: the last column of the name is taken (rposition).              *)
MutFieldIdLast(n) ==
  LET ids == {i \in DOMAIN schema : schema[i].name = n.name}
  IN  IF ids = {} THEN [node |-> n, res |-> "UndefinedColumn"]
      ELSE Ok([n EXCEPT !.fid = Max(ids)])

(* Mutant: bind adds the column index to the one already held.            *)
MutFieldIdAccumulate(n) ==
  LET ids == {i \in DOMAIN schema : schema[i].name = n.name}
  IN  IF ids = {} THEN [node |-> n, res |-> "UndefinedColumn"]
      ELSE Ok([n EXCEPT !.fid = n.fid + Min(ids)])

(* Mutant: the column index off by one.                                    *)
MutFieldIdOffByOne(n) ==
  LET ids == {i \in DOMAIN schema : schema[i].name = n.name}
  IN  IF ids = {} THEN [node |-> n, res |-> "UndefinedColumn"]
      ELSE Ok([n EXCEPT !.fid = Min(ids) + 1])

(* Mutant: a missing column is not reported (column_id(..).unwrap_or(0)).  *)
MutFieldUnwrapOr0(n) ==
  LET ids == {i \in DOMAIN schema : schema[i].name = n.name}
  IN  Ok([n EXCEPT !.fid = IF ids = {} THEN 1 ELSE Min(ids)])

(* Field::bind: schema.column_id(name) is the first column of that name.   *)
BindField(n) ==
  LET ids == {i \in DOMAIN schema : schema[i].name = n.name}
  IN  IF ids = {} THEN [node |-> n, res |-> "UndefinedColumn"]
      ELSE Ok([n EXCEPT !.fid = Min(ids)])

RECURSIVE BindNode(_), BindKids(_)

(* try!(lhs.bind(schema)); try!(rhs.bind(schema)): the first error returns *)
(* at once, leaving what was bound so far.                                 *)
BindKids(n) ==
  LET bl == BindNode(n.kids[1])
      br == BindNode(n.kids[2])
  IN  IF bl.res # "ok"
      THEN [node |-> [n EXCEPT !.kids[1] = bl.node], res |-> bl.res]
      ELSE [node |-> [n EXCEPT !.kids = <<bl.node, br.node>>], res |-> br.res]

(* ArithmMapEval::bind: data_ty is computed from the children's data_ty()  *)
(* BEFORE they are bound (unwrap() panics on a child whose data_ty is      *)
(* still None); then the children are bound, the result vector allocated   *)
(* and the kernel chosen.                                                  *)
BindArithm(n) ==
  LET lt == n.kids[1].ty
      rt == n.kids[2].ty
  IN  IF "None" \in {lt, rt} \/ Promote(lt, rt) = "panic" THEN Panic(n)
      ELSE LET k == BindKids([n EXCEPT !.ty = Promote(lt, rt)])
               l == k.node.kids[1]
               r == k.node.kids[2]
               p == ArithmPrim(n.op, l.ty, IsConst(l), r.ty, IsConst(r))
           IN  CASE k.res # "ok" -> k
                 [] p = "panic"  -> Panic(k.node)
                 [] OTHER        -> Ok([k.node EXCEPT !.f = p])

(* CompEval::bind: bind the children, assert_eq! their types, choose the   *)
(* kernel.                                                                 *)
BindComp(n) ==
  LET k == BindKids(n)
      l == k.node.kids[1]
      r == k.node.kids[2]
      p == CompPrim(n.op, l.ty, IsConst(l), r.ty, IsConst(r))
  IN  CASE k.res # "ok" -> k
        [] p = "panic"  -> Panic(k.node)
        [] OTHER        -> Ok([k.node EXCEPT !.f = p])

(* AndEval::bind, lines 46-56: bind both children, assert_eq! both types  *)
(* are BOOL, choose the kernel.                                            *)
BindAnd(n) ==
  LET k == BindKids(n)
      l == k.node.kids[1]
      r == k.node.kids[2]
      p == AndPrim(IsConst(l), IsConst(r))
  IN  CASE k.res # "ok"                 -> k
        [] l.ty # "BOOL" \/ r.ty # "BOOL" -> Panic(k.node)
        [] p = "panic"                   -> Panic(k.node)
        [] OTHER                         -> Ok([k.node EXCEPT !.f = p])

BindNode(n) ==
  CASE n.kind = "and"    -> BindAnd(n)
    [] n.kind = "field"  -> BindField(n)
    [] n.kind = "const"  -> Ok(n)
    [] n.kind = "arithm" -> BindArithm(n)
    [] n.kind = "comp"   -> BindComp(n)

-----------------------------------------------------------------------------
(* Evaluation *)

(* The kernel f applied element-wise (spec 4.F P5).  The kernels are not in *)
(* the repository and the checked values stay far from any type's limits,  *)
(* so overflow behaviour is left out.                                      *)
Kernel(f, x, y) ==
  CASE f[1] = "Plus" -> x + y
    [] f[1] = "Sub"  -> x - y
    [] f[1] = "Lt"   -> x < y

(* eval: a Field returns the vector at field_id, a Const its ConstVector,  *)
(* a binary node runs its kernel on its children's results.                *)
RECURSIVE EvalNode(_, _)
EvalNode(n, blk) ==
  CASE n.kind = "field" -> blk[n.fid]
    [] n.kind = "const" -> n.val
    [] OTHER -> Kernel(n.f, EvalNode(n.kids[1], blk), EvalNode(n.kids[2], blk))

-----------------------------------------------------------------------------
(* Actions *)

Init ==
  /\ expr \in Exprs
  /\ ev = NoNode
  /\ status = "idle"
  /\ block = NoBlock
  /\ out = << >>
  /\ schema \in Columns
  /\ bound = << >>

CompileMapEval ==
  /\ status = "idle"
  /\ expr.kind # "and"
  /\ ev' = Compile(expr)
  /\ status' = "compiled"
  /\ UNCHANGED <<expr, block, out, schema, bound>>

(* The caller compiles both operands with compile_map_eval and wraps them  *)
(* in AndEval::new.                                                        *)
CompileAnd ==
  /\ status = "idle"
  /\ expr.kind = "and"
  /\ ev' = NewAnd(Compile(expr.kids[1]), Compile(expr.kids[2]))
  /\ status' = "compiled"
  /\ UNCHANGED <<expr, block, out, schema, bound>>

(* bind(schema) on the root; binding again after success is allowed.      *)
Bind ==
  /\ status \in {"compiled", "bound"}
  /\ LET r == BindNode(ev)
     IN  /\ ev' = r.node
         /\ status' = CASE r.res = "ok"    -> "bound"
                        [] r.res = "panic" -> "panicked"
                        [] OTHER           -> r.res
  /\ bound' = schema
  /\ UNCHANGED <<expr, block, out, schema>>

(* Mutant: add inserts the column at the front (columns.insert(0, c)).   *)
MutAddAtFront(c) ==
  /\ Len(schema) < MaxColumns
  /\ schema' = <<c>> \o schema
  /\ UNCHANGED <<expr, ev, status, block, out, bound>>

(* Schema::add(c) / add_directly(name, ty), schema.rs lines 35-41: push   *)
(* the column; a name may repeat.                                          *)
Add(c) ==
  /\ Len(schema) < MaxColumns
  /\ schema' = Append(schema, c)
  /\ UNCHANGED <<expr, ev, status, block, out, bound>>

(* MapEval::eval of the root; AndEval implements no eval.                  *)
Eval(blk) ==
  /\ status = "bound"
  /\ ev.kind # "and"
  /\ block' = blk
  /\ out' = <<EvalNode(ev, blk)>>
  /\ UNCHANGED <<expr, ev, status, schema, bound>>

Next ==
  \/ CompileMapEval
  \/ CompileAnd
  \/ Bind
  \/ \E blk \in Blocks : Eval(blk)
  \/ \E c \in NewColumns : Add(c)

Spec == Init /\ [][Next]_vars

-----------------------------------------------------------------------------
(* Reference semantics (spec 3, 4.F, 4.G), over the expression itself    *)

ColumnNamed(nm) == Min({i \in DOMAIN schema : schema[i].name = nm})
(* A column of the name in the schema the last bind was given.            *)
HasColumn(nm)   == \E i \in DOMAIN bound : bound[i].name = nm

RECURSIVE RefTy(_)
RefTy(e) ==
  CASE e.kind \in {"field", "const"} -> e.ty
    [] e.kind = "arithm" -> Promote(RefTy(e.kids[1]), RefTy(e.kids[2]))
    [] e.kind \in {"comp", "and"} -> "BOOL"

(* Spec 4.F/4.G: fields exist; arithmetic over promotable numeric or       *)
(* temporal operands; comparison over operands equal after promotion;     *)
(* const-vs-const excluded (it is folded upstream).                        *)
RECURSIVE WellTyped(_)
WellTyped(e) ==
  CASE e.kind = "field" -> HasColumn(e.name)
    [] e.kind = "const" -> TRUE
    [] e.kind = "and" ->
         /\ WellTyped(e.kids[1]) /\ WellTyped(e.kids[2])
         /\ RefTy(e.kids[1]) = "BOOL" /\ RefTy(e.kids[2]) = "BOOL"
         /\ ~(IsConst(e.kids[1]) /\ IsConst(e.kids[2]))
    [] OTHER ->
         LET l == e.kids[1]
             r == e.kids[2]
             t == Promote(RefTy(l), RefTy(r))
         IN  /\ WellTyped(l) /\ WellTyped(r)
             /\ ~(IsConst(l) /\ IsConst(r))
             /\ t \in IntTys \cup FloatTys \cup TimeTys
                      \cup (IF e.kind = "comp" THEN {"TEXT"} ELSE {})

(* The value of an expression on a row block, columns looked up by name.   *)
RECURSIVE RefEval(_, _)
RefEval(e, blk) ==
  CASE e.kind = "field" -> blk[ColumnNamed(e.name)]
    [] e.kind = "const" -> e.val
    [] OTHER -> Kernel(<<e.op, RefTy(e)>>, RefEval(e.kids[1], blk),
                                           RefEval(e.kids[2], blk))

RECURSIVE Fields(_)
Fields(n) ==
  IF n.kind = "field" THEN {n}
  ELSE UNION {Fields(n.kids[i]) : i \in DOMAIN n.kids}

-----------------------------------------------------------------------------
(* Properties *)

RECURSIVE NodeOK(_)
NodeOK(n) ==
  /\ n.kind \in {"field", "const", "arithm", "comp", "and"}
  /\ n.fid \in 0..Len(schema)
  /\ n.f = "None" \/ n.f[1] = n.op
  /\ Len(n.kids) = IF n.kind \in {"field", "const"} THEN 0 ELSE 2
  /\ \A i \in DOMAIN n.kids : NodeOK(n.kids[i])

TypeOK ==
  /\ expr \in Exprs
  /\ ev = NoNode \/ NodeOK(ev)
  /\ status \in {"idle", "compiled", "bound", "UndefinedColumn", "panicked"}
  /\ block \in [DOMAIN block -> Vals]
  /\ \A i \in DOMAIN schema : schema[i] \in UNION {Range(l) : l \in Columns} \cup NewColumns
  /\ Len(schema) <= MaxColumns /\ IsPrefix(bound, schema)
  /\ out = << >> \/ (Len(out) = 1 /\ out[1] \in IF ev.kind = "comp" THEN BOOLEAN ELSE Int)

(* Field::bind and the try! chain of the binary binds: while bound, every *)
(* Field of the tree holds the index of the first column of its name in   *)
(* the schema as it is now, also after columns were added since bind; and *)
(* bind reports UndefinedColumn only when the expression names a column   *)
(* the schema it was given lacks.                                          *)
BindResolvesFields ==
  /\ status = "bound" =>
       \A n \in Fields(ev) : /\ n.fid \in DOMAIN schema
                             /\ schema[n.fid].name = n.name
                             /\ \A i \in 1..(n.fid - 1) : schema[i].name # n.name
  /\ status = "UndefinedColumn" =>
       \E n \in Fields(expr) : ~HasColumn(n.name)

(* Spec 4.F P5 / 4.G: after compile_map_eval and bind, eval of any row     *)
(* block returns what the expression means on it: operands in the order    *)
(* written, columns found by name, the kernel of the operand type.         *)
EvalMatchesReference ==
  status = "bound" /\ out # << >> => out[1] = RefEval(expr, block)

(* Spec P7: calling bind(schema) again on a bound evaluator leaves it as it *)
(* was: every node's field_id, data_ty and kernel are recomputed to the   *)
(* same values, and it stays bound.                                        *)
BindIdempotent ==
  [][status = "bound" => (ev' = ev /\ status' = "bound")]_vars

(* Spec 4.G / 6: binding a well-typed expression never panics; what can   *)
(* fail is reported as an error.  ArithmMapEval::bind reads its children's *)
(* data_ty() before binding them.                                          *)
NoBindPanic ==
  status = "panicked" => ~WellTyped(expr)

=============================================================================
