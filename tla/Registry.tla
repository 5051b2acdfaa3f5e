------------------------------ MODULE Registry ------------------------------
(***************************************************************************)
(* PackageManager (src/common/plugin.rs) and FuncSignature                 *)
(* (src/common/func.rs).  The manager keeps its packages in a HashMap      *)
(* keyed by name; load_all iterates that map and calls each package's      *)
(* load, stopping at the first error (try!).  Package::load is user code:  *)
(* here it registers the package's function signatures one by one and a    *)
(* package in Failing may fail after registering any prefix of them.      *)
(* FuncRegistry is not in the repository; it is modelled as the log of     *)
(* registered signatures.  A signature's name is its rank in byte order,   *)
(* so that String comparison is comparison of naturals.                    *)
(***************************************************************************)
EXTENDS Naturals, Sequences, SequencesExt, FiniteSets

CONSTANTS
  Packages,   \* the Package values a caller may hand over
  PkgName,    \* Package::name, a function on Packages
  PkgFuncs,   \* the signatures each package's load registers, in order
  Failing,    \* the packages whose load may return an error
  InitLists,  \* the package lists of new_with (<< >> is new())
  MaxCalls    \* bound on add/load_all calls

VARIABLES
  pkgs,       \* the HashMap: a function from name to package
  inserted,   \* history: the names in the order they first entered the map
  funcs,      \* the function registry: signatures in registration order
  lastOrder,  \* the names the last load_all iterated, in iteration order
  result,     \* what the last load_all returned: "none", "ok", "err"
  calls

vars == <<pkgs, inserted, funcs, lastOrder, result, calls>>

-----------------------------------------------------------------------------
(* FuncSignature, func.rs lines 65-116 *)

(* PartialEq::eq, lines 90-96: all three fields.                           *)
SigEq(s, t) == s.name = t.name /\ s.args = t.args /\ s.kind = t.kind

(* Ord::cmp and PartialOrd::partial_cmp, lines 101-103 and 112-115: the    *)
(* name only.                                                              *)
SigCmp(s, t) ==
  CASE s.name < t.name -> "Less" [] s.name = t.name -> "Equal" [] OTHER -> "Greater"

(* The PartialOrd methods written out, lines 105-108.                      *)
SigLt(s, t) == s.name < t.name
SigLe(s, t) == s.name <= t.name
SigGt(s, t) == s.name > t.name
SigGe(s, t) == s.name <= t.name

-----------------------------------------------------------------------------
(* PackageManager *)

Names == {PkgName[p] : p \in Packages}

(* HashMap::insert: a package replaces the one of the same name.           *)
Insert(m, p) ==
  [n \in DOMAIN m \cup {PkgName[p]} |-> IF n = PkgName[p] THEN p ELSE m[n]]

(* A name enters the insertion history the first time it is inserted.    *)
AppendNew(s, n) == IF n \in Range(s) THEN s ELSE Append(s, n)

(* new() / new_with(pkgs), lines 18-36: collect() inserts in list order.   *)
Init ==
  \E l \in InitLists :
    /\ pkgs = FoldLeft(Insert, [n \in {} |-> CHOOSE p \in Packages : TRUE], l)
    /\ inserted = FoldLeft(AppendNew, << >>, [i \in DOMAIN l |-> PkgName[l[i]]])
    /\ funcs = << >>
    /\ lastOrder = << >>
    /\ result = "none"
    /\ calls = 0

(* add(pkg), lines 38-42: insert into the map, before or after load_all.   *)
Add(p) ==
  /\ calls < MaxCalls
  /\ pkgs' = Insert(pkgs, p)
  /\ inserted' = AppendNew(inserted, PkgName[p])
  /\ calls' = calls + 1
  /\ UNCHANGED <<funcs, lastOrder, result>>

(* The signatures the loads of a sequence of packages register.            *)
Registered(ps) == FlattenSeq([i \in DOMAIN ps |-> PkgFuncs[ps[i]]])

(* load_all, lines 44-50: iterate the map in its (unspecified) order; the  *)
(* package at index f, if any, fails after registering cut signatures and *)
(* try! returns its error; the packages after it are not loaded.           *)
LoadAll ==
  /\ calls < MaxCalls
  /\ \E ord \in SetToSeqs(DOMAIN pkgs) :
     \E f \in {0} \cup {i \in DOMAIN ord : pkgs[ord[i]] \in Failing} :
       LET done == [i \in 1..(IF f = 0 THEN Len(ord) ELSE f - 1) |-> pkgs[ord[i]]]
       IN  \E cut \in 0..(IF f = 0 THEN 0 ELSE Len(PkgFuncs[pkgs[ord[f]]])) :
             /\ funcs' = funcs \o Registered(done)
                         \o (IF f = 0 THEN << >> ELSE SubSeq(PkgFuncs[pkgs[ord[f]]], 1, cut))
             /\ lastOrder' = ord
             /\ result' = IF f = 0 THEN "ok" ELSE "err"
  /\ calls' = calls + 1
  /\ UNCHANGED <<pkgs, inserted>>

Next ==
  \/ \E p \in Packages : Add(p)
  \/ LoadAll

Spec == Init /\ [][Next]_vars

-----------------------------------------------------------------------------
(* Properties *)

Sigs == UNION {Range(PkgFuncs[p]) : p \in Packages}

TypeOK ==
  /\ DOMAIN pkgs \subseteq Names
  /\ \A n \in DOMAIN pkgs : pkgs[n] \in Packages /\ PkgName[pkgs[n]] = n
  /\ inserted \in Seq(Names)
  /\ funcs \in Seq(Sigs)
  /\ lastOrder \in Seq(Names)
  /\ result \in {"none", "ok", "err"}
  /\ calls \in 0..MaxCalls

(* The TODO of add (line 39): packages are to be added before loading.    *)
(* Once load_all has returned Ok, the function registry holds exactly the  *)
(* functions of the packages in the map.  add after load_all (line 40)     *)
(* inserts a package no load_all has loaded, or replaces a loaded package  *)
(* of the same name while the old one's registrations stay.                *)
RegistryMatchesPackages ==
  result = "ok" =>
    Range(funcs) = UNION {Range(PkgFuncs[pkgs[n]]) : n \in DOMAIN pkgs}

(* Spec 4.K: packages are loaded in insertion order.  load_all iterates    *)
(* the HashMap (line 45), whose order is unrelated to insertion.           *)
LoadsInInsertionOrder ==
  result # "none" => IsPrefix(lastOrder, inserted)

(* PartialOrd's ge agrees with partial_cmp on every pair of registered     *)
(* signatures (lines 101-108): s >= t iff cmp(s, t) is Greater or Equal.   *)
SigGeAgreesWithCmp ==
  \A i, j \in DOMAIN funcs :
    SigGe(funcs[i], funcs[j]) <=> SigCmp(funcs[i], funcs[j]) \in {"Greater", "Equal"}

=============================================================================
