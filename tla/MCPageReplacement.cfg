CONSTANTS
  NUM_ADDRESSES = 7
  totalPage = 4
  totalFrame = 3
  pageSizeByte = 2
  Addresses = {0, 1, 3, 4, 7}
  Inputs <- PageOrderedStrings
  Algorithms = {"Optimal", "FIFO", "LRU", "SC"}
SPECIFICATION FairSpec
INVARIANTS TypeOK MappingInv QueueInv StatisticsAgree RowsTranslate OptimalIsOptimal
PROPERTIES RowsTellResidency EvictsByPolicy Termination
CHECK_DEADLOCK FALSE
