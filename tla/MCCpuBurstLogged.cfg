SPECIFICATION HSpec
CONSTANTS
  N = 1
  Runs = 1
  Background = 1
  MaxTime = 2
  ForkMayFail = FALSE
INVARIANTS LoggedIsCpuTime
