SPECIFICATION FairSpec
CONSTANTS
  MaxSequence = 3
  BufferSize = 2
  MaxFaults = 2
  Coalescing = TRUE
PROPERTY ChangeReported
CHECK_DEADLOCK FALSE
