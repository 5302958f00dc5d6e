CONSTANTS
  NSegs = 2
  TrbsPerSeg = 3
  InitEntries = 1
  MaxEntries = 5
  NBlocks = 2
  MaxTrbs = 4
  MaxCopies = 3
  MaxBlockCalls = 0
  MaxAllocFailures = 0
  MaxXferErrors = 0
  DeviceMayDetach = TRUE
SPECIFICATION Spec
CHECK_DEADLOCK FALSE
INVARIANTS
  TypeOK
  ChunksCoverRange
  WriteEntryPoolConsistent
PROPERTIES
  DoorbellAfterData
  DoorbellRequestsServed
