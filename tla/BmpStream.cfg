CONSTANTS
  Lines = 3
  MaxBuffers = 6
SPECIFICATION FairSpec
INVARIANTS BuffersExclusive IdleMeansOver StreamInv EndIsMarked EndLosesOnlyLast
PROPERTIES ShownInOrder ReaderTerminates StreamCloses
CHECK_DEADLOCK FALSE
