SPECIFICATION FairSpec
CONSTANTS
  MaxSequence = 3
  BufferSize = 2
  MaxFaults = 2
  Coalescing = FALSE
INVARIANT TypeOK
INVARIANT ResumesExactly
PROPERTY ChangeReported
CHECK_DEADLOCK FALSE
