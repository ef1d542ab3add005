SPECIFICATION Spec
CONSTANTS
  N = 3
  Second = 2
  MaxTime = 1
  ForkMayFail = FALSE
  Privileged = FALSE
INVARIANTS WorkUnderPolicy
CHECK_DEADLOCK FALSE
