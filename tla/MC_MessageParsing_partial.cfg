CONSTANTS
  NUMBER_OF_MESSAGE_BULK = 2
  Transfers <- MC_Transfers
  MaxTransfers = 1
  MaxXferErrors = 1
  DeviceMayDetach = FALSE
SPECIFICATION Spec
CHECK_DEADLOCK FALSE
INVARIANTS
  ParseInBounds
