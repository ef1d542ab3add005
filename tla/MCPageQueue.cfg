CONSTANTS
  maxSize = 4
  Values = {0, 1, 2, 3}
  MinRemove = 3
SPECIFICATION QueueSpec
INVARIANT LiveSlotsWritten
PROPERTY RefinesFifo
