----------------------------- MODULE MCRegistry -----------------------------
(* Three packages: two share the name "math" (the second replaces the     *)
(* first), "str" may fail to load.  Signature names are byte-order ranks:  *)
(* abs < concat < plus.                                                    *)
EXTENDS Registry

CONSTANTS P1, P2, P3

MCPackages == {P1, P2, P3}
MCPkgName == (P1 :> "math") @@ (P2 :> "str") @@ (P3 :> "math")

Sig(n, a) == [name |-> n, args |-> a, kind |-> "Scalar"]

MCPkgFuncs ==
  (P1 :> <<Sig(3, <<"INT4", "INT4">>), Sig(3, <<"INT8", "INT8">>)>>)
  @@ (P2 :> <<Sig(2, <<"TEXT", "TEXT">>), Sig(1, <<"INT4">>)>>)
  @@ (P3 :> <<Sig(1, <<"INT8">>)>>)

MCFailing == {P2}
MCInitLists == {<< >>, <<P1, P3>>, <<P2, P1>>}
=============================================================================
