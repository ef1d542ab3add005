SPECIFICATION Spec
CONSTANTS
  N = 2
  Second = 2
  MaxTime = 1
  ForkMayFail = TRUE
  Privileged = TRUE
INVARIANTS AverageOfChildren
CHECK_DEADLOCK FALSE
