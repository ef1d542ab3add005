CONSTANTS
  NUM_ADDRESSES = 5
  totalPage = 4
  totalFrame = 3
  pageSizeByte = 2
  Addresses = {0, 3, 4, 7}
  Inputs <- ShortStrings
  Algorithms = {"Optimal", "FIFO", "LRU", "SC"}
SPECIFICATION Spec
INVARIANT SimulatedAddressesInRange
CHECK_DEADLOCK FALSE
