\* Two URBs per loop, one failed allocation or submit, two suspends and a
\* few loop completions: a suspend, a resume whose URB_Submit fails, and
\* a second suspend or the disconnect.  The embedded host's own calls of
\* MESSAGE_StartLoopIsoch / MESSAGE_queue_StopLoopIsoch (whose callers are
\* outside the repository) are left out, so the trace uses only the USB
\* core's callbacks.
CONSTANTS
  NUMBER_OF_MESSAGE_BULK = 2
  NUMBER_OF_MESSAGE_INTERRUPT = 2
  NUMBER_OF_MESSAGE_ISOCH = 2
  MaxFailures = 1
  MaxSuspends = 2
  MaxCompletions = 2
  DeviceMayDetach = TRUE
  HostCallsIsoch = FALSE
SPECIFICATION Spec
\* The interface ends unbound once the bounded callbacks are spent.
CHECK_DEADLOCK FALSE
INVARIANTS
  UrbContextsFreedOnce
