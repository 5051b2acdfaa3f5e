CONSTANTS
  Inputs <- MCInputs

SPECIFICATION Spec

\* The assert_tokens loop stops once it has returned Eof, and a panic ends
\* the test: both are final states.
CHECK_DEADLOCK FALSE

INVARIANTS
  TypeOK
  MatchesReference
  CallerSeesEveryToken
  KeywordsRecognised

PROPERTIES
  ReachesEof
