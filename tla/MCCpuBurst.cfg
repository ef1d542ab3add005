SPECIFICATION FairSpec
CONSTANTS
  N = 2
  Runs = 2
  Background = 1
  MaxTime = 1
  ForkMayFail = TRUE
INVARIANTS RowsAddUp TotalClosesRun
PROPERTIES FifoRunsUntilItBlocks RunEnds
