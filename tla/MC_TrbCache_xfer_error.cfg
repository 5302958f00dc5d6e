CONSTANTS
  NSegs = 2
  TrbsPerSeg = 3
  InitEntries = 1
  MaxEntries = 5
  NBlocks = 2
  MaxTrbs = 3
  MaxCopies = 2
  MaxBlockCalls = 0
  MaxAllocFailures = 0
  MaxXferErrors = 1
  DeviceMayDetach = FALSE
SPECIFICATION Spec
CHECK_DEADLOCK FALSE
PROPERTIES
  DoorbellAfterData
