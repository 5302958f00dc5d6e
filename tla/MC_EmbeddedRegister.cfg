\* Two callers, no signals (the xHCI paths calling readl/writel run in
\* kernel threads), one failed transfer and a possible detach.
CONSTANTS
  t1 = t1
  t2 = t2
  a1 = a1
  a2 = a2
  NoAddr = NoAddr
  Threads <- MC_Threads
  Addrs <- MC_Addrs
  MaxCalls = 4
  MaxSignals = 0
  MaxXferErrors = 1
  DeviceMayDetach = TRUE
SPECIFICATION Spec
\* The driver stops once the bounded calls are done and the pipes drained.
CHECK_DEADLOCK FALSE
INVARIANTS
  TypeOK
  RegisterMutex
  ReadReturnsAddressed
PROPERTIES
  RegisterCallsReturn
  NoSuccessAfterRegisterError
