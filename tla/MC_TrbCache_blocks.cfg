CONSTANTS
  NSegs = 2
  TrbsPerSeg = 3
  InitEntries = 1
  MaxEntries = 5
  NBlocks = 2
  MaxTrbs = 0
  MaxCopies = 0
  MaxBlockCalls = 3
  MaxAllocFailures = 1
  MaxXferErrors = 0
  DeviceMayDetach = TRUE
SPECIFICATION Spec
CHECK_DEADLOCK FALSE
INVARIANTS
  BlockPoolConsistent
