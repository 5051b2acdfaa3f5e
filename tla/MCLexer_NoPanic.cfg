CONSTANTS
  Inputs <- MCTokenInputs

SPECIFICATION Spec

\* The loop stops after Eof, and a panic ends the test.
CHECK_DEADLOCK FALSE

INVARIANTS
  NoPanicOnTokenText
