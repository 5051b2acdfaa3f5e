--------------------------- MODULE AlgebraBuilder ---------------------------
(***************************************************************************)
(* AlgebraBuilder (src/algebra/lib.rs): a plan is assembled post-order on  *)
(* a stack of partial Operator trees.  dataset() pushes a Scan leaf; a     *)
(* unary combinator pops one child and pushes the combined node; join()    *)
(* pops two; join_with() pops one and takes the right child as argument;   *)
(* build() consumes the builder and succeeds iff one tree remains.         *)
(*                                                                         *)
(* A tree is a record [op, ds, jt, kids]: ds is the dataset of a Scan,     *)
(* jt the join type of a Join, kids the children in order (left, right).   *)
(* Expressions, conditions and row counts are data the properties do not   *)
(* tell apart and are left out.  AlgebraBuilder::filter is cut off in the  *)
(* code (line 160); it and the combinators the code does not have yet      *)
(* (project, aggregate, head, tail) follow spec 4.H: pop one, push one.    *)
(* In join and join_with a pop().unwrap() on a stack that is too short     *)
(* panics (join's debug_assert! panics first in a debug build): status     *)
(* becomes "panicked".                                                     *)
(***************************************************************************)
EXTENDS Naturals, Sequences, SequencesExt

CONSTANTS
  Datasets,    \* the data sets a Scan can read
  JoinTypes,   \* JoinType values
  UnaryKinds,  \* the unary combinators: Filter, Project, Head, ...
  MaxCalls     \* bound on the number of builder calls in a behaviour

ASSUME MaxCalls \in Nat

VARIABLES
  stack,   \* the builder's stack of partial trees, top = Last(stack)
  pushed,  \* history: the data sets in the order they entered the builder
  status,  \* "building", "built", "EmptyStack", "StillRemainStackItem", "panicked"
  result,  \* << >> or << the tree build() returned >>
  calls    \* number of builder calls so far

vars == <<stack, pushed, status, result, calls>>

Scan(d)            == [op |-> "Scan", ds |-> d, jt |-> "none", kids |-> << >>]
Node(kind, child)  == [op |-> kind, ds |-> "none", jt |-> "none", kids |-> <<child>>]
Join(jt, l, r)     == [op |-> "Join", ds |-> "none", jt |-> jt, kids |-> <<l, r>>]

(* The Scan leaves of a tree, left to right: the order walk_op visits      *)
(* them, since visit_join walks left before right.                         *)
RECURSIVE Leaves(_)
Leaves(t) ==
  IF t.op = "Scan" THEN <<t.ds>>
  ELSE FlattenSeq([i \in DOMAIN t.kids |-> Leaves(t.kids[i])])

Top       == stack[Len(stack)]
Below(n)  == SubSeq(stack, 1, Len(stack) - n)

Init ==
  /\ stack = << >>
  /\ pushed = << >>
  /\ status = "building"
  /\ result = << >>
  /\ calls = 0

(* A builder call is possible while the builder is alive and within bound. *)
Call ==
  /\ status = "building"
  /\ calls < MaxCalls
  /\ calls' = calls + 1
  /\ UNCHANGED result

(* dataset(ds): push a Scan leaf.                                          *)
dataset(d) ==
  /\ Call
  /\ stack' = Append(stack, Scan(d))
  /\ pushed' = Append(pushed, d)
  /\ UNCHANGED status

(* filter(..) and the other unary combinators: pop one child, push the     *)
(* combined node.  The code has no body that says what a call on an empty  *)
(* stack does, so such a call is not modelled.                             *)
Unary(kind) ==
  /\ Call
  /\ Len(stack) >= 1
  /\ stack' = Append(Below(1), Node(kind, Top))
  /\ UNCHANGED <<pushed, status>>

(* join(type, cond), lines 169-173: the first pop (the most recently       *)
(* pushed tree) becomes the left child, the second pop the right child.    *)
join(jt) ==
  /\ Call
  /\ \/ /\ Len(stack) >= 2
        /\ LET left  == stack[Len(stack)]
               right == stack[Len(stack) - 1]
           IN  stack' = Append(Below(2), Join(jt, left, right))
        /\ UNCHANGED status
     \/ /\ Len(stack) < 2
        /\ status' = "panicked"
        /\ UNCHANGED stack
  /\ UNCHANGED pushed

(* Mutant: join_with reads the left child without popping it.              *)
MutJoinWithPeek(jt, d) ==
  /\ Call
  /\ Len(stack) >= 1
  /\ stack' = Append(stack, Join(jt, Top, Scan(d)))
  /\ pushed' = Append(pushed, d)
  /\ UNCHANGED status

(* join_with(type, right, cond), lines 182-185: pop the left child only;   *)
(* the right child (here a Scan of d) comes with the call.                 *)
join_with(jt, d) ==
  /\ Call
  /\ \/ /\ Len(stack) >= 1
        /\ stack' = Append(Below(1), Join(jt, Top, Scan(d)))
        /\ pushed' = Append(pushed, d)
        /\ UNCHANGED status
     \/ /\ Len(stack) = 0
        /\ status' = "panicked"
        /\ UNCHANGED <<stack, pushed>>

(* Mutant: build() reports success without handing the tree back.         *)
MutBuildNoResult ==
  /\ status = "building"
  /\ \/ /\ Len(stack) = 1
        /\ status' = "built"
     \/ /\ Len(stack) = 0
        /\ status' = "EmptyStack"
     \/ /\ Len(stack) > 1
        /\ status' = "StillRemainStackItem"
  /\ UNCHANGED <<stack, pushed, calls, result>>

(* build(), lines 138-141 (TreeBuilder::build): Ok(root) iff exactly one   *)
(* tree remains, else EmptyStack or StillRemainStackItem.  The builder is  *)
(* consumed, so nothing happens after it.                                  *)
build ==
  /\ status = "building"
  /\ \/ /\ Len(stack) = 1
        /\ status' = "built"
        /\ result' = <<stack[1]>>
     \/ /\ Len(stack) = 0
        /\ status' = "EmptyStack"
        /\ UNCHANGED result
     \/ /\ Len(stack) > 1
        /\ status' = "StillRemainStackItem"
        /\ UNCHANGED result
  /\ UNCHANGED <<stack, pushed, calls>>

Next ==
  \/ \E d \in Datasets : dataset(d)
  \/ \E k \in UnaryKinds : Unary(k)
  \/ \E jt \in JoinTypes : join(jt)
  \/ \E jt \in JoinTypes, d \in Datasets : join_with(jt, d)
  \/ build

Spec == Init /\ [][Next]_vars

-----------------------------------------------------------------------------
(* Properties *)

(* The trees on the stack are well formed: a Scan has no children, a      *)
(* unary node one, a Join two (spec 3, "Operator (logical)").              *)
RECURSIVE WellFormed(_)
WellFormed(t) ==
  /\ t.op \in {"Scan", "Join"} \cup UnaryKinds
  /\ Len(t.kids) = CASE t.op = "Scan" -> 0 [] t.op = "Join" -> 2 [] OTHER -> 1
  /\ \A i \in DOMAIN t.kids : WellFormed(t.kids[i])

TypeOK ==
  /\ \A i \in DOMAIN stack : WellFormed(stack[i])
  /\ pushed \in Seq(Datasets)
  /\ status \in {"building", "built", "EmptyStack", "StillRemainStackItem", "panicked"}
  /\ (status = "built") <=> (Len(result) = 1)
  /\ calls \in 0..MaxCalls

(* Where the trees' leaves sit in the history: tree i covers the data sets *)
(* pushed right after those of trees 1..i-1.                               *)
StackLeaves == [i \in DOMAIN stack |-> Leaves(stack[i])]
Offset(i)   == Len(FlattenSeq(SubSeq(StackLeaves, 1, i - 1)))

(* No subtree is lost, duplicated or moved between stack entries: the      *)
(* stack's trees, bottom to top, own consecutive stretches of the data     *)
(* sets in the order they were pushed, each tree exactly the data sets of  *)
(* its stretch (a builder call that read a tree without popping it, or     *)
(* popped from the wrong place, breaks it).                                *)
SegmentsConserved ==
  /\ Len(FlattenSeq(StackLeaves)) = Len(pushed)
  /\ \A i \in DOMAIN stack :
       ToBag(StackLeaves[i]) =
         ToBag(SubSeq(pushed, Offset(i) + 1, Offset(i) + Len(StackLeaves[i])))
  /\ status = "built" => result[1] = stack[1]

(* Spec 4.H: join pops the right child first ("the most recently pushed is *)
(* the right"), so a built plan's Scan leaves, left to right, are the data *)
(* sets in the order they were pushed.                                     *)
LeafOrder ==
  status = "built" => Leaves(result[1]) = pushed

(* Spec 4.H / 6: an ill-formed build sequence is rejected at build() with  *)
(* an AlgebraError; no builder call panics.                                *)
NoPanic == status # "panicked"

=============================================================================
