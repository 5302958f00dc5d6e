CONSTANTS
  NUMBER_OF_MESSAGE_BULK = 3
  Transfers <- MC_Transfers
  MaxTransfers = 3
  MaxXferErrors = 0
  DeviceMayDetach = TRUE
SPECIFICATION Spec
CHECK_DEADLOCK FALSE
INVARIANTS
  TypeOK
  ParsedInOrder
