\* PackageManager: new / new_with, add and load_all, up to three calls.
CONSTANTS
  P1 = P1
  P2 = P2
  P3 = P3
  Packages <- MCPackages
  PkgName <- MCPkgName
  PkgFuncs <- MCPkgFuncs
  Failing <- MCFailing
  InitLists <- MCInitLists
  MaxCalls = 3
INIT Init
NEXT Next
\* The manager stops accepting calls once the bound is reached.
CHECK_DEADLOCK FALSE
INVARIANT
  LoadsInInsertionOrder
