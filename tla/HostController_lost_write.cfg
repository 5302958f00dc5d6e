\* One register write whose bulk-out transfer fails; no other link error.
CONSTANTS
  MaxLinkErrors = 0
  MaxLostWrites = 1
SPECIFICATION Spec
\* The start-up and shut-down sequence ends (Finished) and the xHC settles.
CHECK_DEADLOCK FALSE
INVARIANTS
  InitReadyAfterReset
