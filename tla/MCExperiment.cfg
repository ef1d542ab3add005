SPECIFICATION FairSpec
CONSTANTS
  N = 3
  Second = 2
  MaxTime = 2
  ForkMayFail = TRUE
  Privileged = TRUE
INVARIANTS ElapsedExact ResultsConserved NoChildLeft
PROPERTY Termination
CHECK_DEADLOCK FALSE
