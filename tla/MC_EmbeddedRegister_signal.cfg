\* One signal reaches a caller sleeping in down_interruptible.
CONSTANTS
  t1 = t1
  t2 = t2
  a1 = a1
  a2 = a2
  NoAddr = NoAddr
  Threads <- MC_Threads
  Addrs <- MC_Addrs
  MaxCalls = 3
  MaxSignals = 1
  MaxXferErrors = 0
  DeviceMayDetach = FALSE
SPECIFICATION SignalSpec
CHECK_DEADLOCK FALSE
INVARIANTS
  ReadReturnsAddressed
