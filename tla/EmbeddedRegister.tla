-------------------------- MODULE EmbeddedRegister --------------------------
(***************************************************************************)
(* The register-access facade of the FL6000 embedded host link:           *)
(* ehub_xhci_readl / ehub_xhci_writel (xhci-ehub.c) calling               *)
(* EMBEDDED_REGISTER_Read / EMBEDDED_REGISTER_Write                        *)
(* (ehub_embedded_register.c), together with the parts of the transport   *)
(* they depend on: URB_Submit and URB_CompletionRoutine_Simple            *)
(* (ehub_urb.c), NOTIFICATION_Wait/Reset/Notify (ehub_notification.c),    *)
(* the bulk-in message loop URB_CompletionRoutine_GetMessage, the ordered *)
(* work queue and the register-read-completion handler (ehub_message.c).  *)
(*                                                                         *)
(* Several caller threads may call readl/writel at once.  A register      *)
(* value is abstracted to the address it was read from, so a read that    *)
(* returns the value of some other register is visible in the state.      *)
(***************************************************************************)
EXTENDS Integers, Sequences, FiniteSets

CONSTANTS
  Threads,        \* caller threads (xHCI driver contexts calling readl/writel)
  Addrs,          \* register addresses used by the callers
  NoAddr,         \* model value: "no address / no value yet"
  MaxCalls,       \* bound on the number of readl/writel calls in a behaviour
  MaxSignals,     \* bound on signals delivered to sleeping callers
  MaxXferErrors,  \* bound on bulk-out transfers that complete with an error
  DeviceMayDetach \* whether the device may be unplugged during a behaviour

ASSUME MaxCalls \in Nat /\ MaxSignals \in Nat /\ MaxXferErrors \in Nat
ASSUME DeviceMayDetach \in BOOLEAN
ASSUME NoAddr \notin Addrs

\* The two dedicated URB contexts created in MODULE_UsbInterfaceConnect.
Urbs == {"RegRead", "RegWrite"}

VARIABLES
  \* per caller thread, the locals of readl/writel and EMBEDDED_REGISTER_*
  pc,               \* where the thread is
  kind,             \* "read" or "write" for the current call
  addr,             \* the Address argument
  status,           \* the local status: "ok" or "err"
  data,             \* *Data: the origin of the value read
  \* DEVICE_CONTEXT fields
  EmbeddedRegisterLock,                 \* semaphore count
  CompletionEventEmbeddedRegisterRead,  \* done-count of the completion
  DataEmbeddedRegisterRead,             \* value stored by the message handler
  EmbeddedRegisterError,                \* ErrorFlags.EmbeddedRegisterError
  \* the two URB contexts
  urbBusy,          \* submitted to the USB core, completion not yet run
  event,            \* done-count of urbContext->Event
  \* USB core, device and message loop
  detached,         \* UsbDevice->state = USB_STATE_NOTATTACHED
  bulkOut,          \* commands submitted on the bulk-out pipe, not yet sent
  outDone,          \* finished bulk-out transfers, completion routine pending
  bulkIn,           \* messages sent by the device, not yet received
  msgLoopArmed,     \* the bulk-in message URB is resubmitted after each message
  workQueue,        \* WorkItemQueue: received messages awaiting the worker
  \* budgets for the environment
  callsLeft, signalsLeft, xferErrorsLeft,
  \* ghosts
  result            \* outcome of each thread's last finished call

threadVars == <<pc, kind, addr, status, data, result>>
sharedVars == <<EmbeddedRegisterLock, CompletionEventEmbeddedRegisterRead,
                DataEmbeddedRegisterRead, EmbeddedRegisterError>>
usbVars == <<urbBusy, event, detached, bulkOut, outDone, bulkIn,
             msgLoopArmed, workQueue>>
budgetVars == <<callsLeft, signalsLeft, xferErrorsLeft>>
vars == <<threadVars, sharedVars, usbVars, budgetVars>>

PCs == {"idle", "down", "submit", "waitUrb", "waitRead", "readData", "exit"}

\* Between down() (successful or not) and the up() at Exit.
InRegisterOp == {"submit", "waitUrb", "waitRead", "readData", "exit"}

Command == [urb : Urbs, by : Threads, addr : Addrs]

\* Outcome of a bulk-out transfer as seen in Urb->status.
XferStatus == {"ok", "err", "shutdown"}

Result == [kind : {"read", "write"}, addr : Addrs, ok : BOOLEAN,
           from : Addrs \cup {NoAddr}]

NoResult == [kind |-> "none"]

UrbOf(t) == IF kind[t] = "read" THEN "RegRead" ELSE "RegWrite"

(***************************************************************************)
(* DEVICECONTEXT_ErrorCheck, reduced to the causes this module produces:  *)
(* the sticky register error and a detached device.                       *)
(***************************************************************************)
DEVICECONTEXT_ErrorCheckFails == EmbeddedRegisterError \/ detached

\* NOTIFICATION_Reset (init_completion) and NOTIFICATION_Notify (complete)
\* on a completion whose done-count is c.
NOTIFICATION_Reset == 0
NOTIFICATION_Notify(c) == c + 1

Init ==
  /\ pc = [t \in Threads |-> "idle"]
  /\ kind = [t \in Threads |-> "read"]
  /\ addr = [t \in Threads |-> CHOOSE a \in Addrs : TRUE]
  /\ status = [t \in Threads |-> "ok"]
  /\ data = [t \in Threads |-> NoAddr]
  /\ result = [t \in Threads |-> NoResult]
  /\ EmbeddedRegisterLock = 1
  /\ CompletionEventEmbeddedRegisterRead = 0
  /\ DataEmbeddedRegisterRead = NoAddr
  /\ EmbeddedRegisterError = FALSE
  /\ urbBusy = [u \in Urbs |-> FALSE]
  /\ event = [u \in Urbs |-> 0]
  /\ detached = FALSE
  /\ bulkOut = <<>>
  /\ outDone = <<>>
  /\ bulkIn = <<>>
  /\ msgLoopArmed = TRUE
  /\ workQueue = <<>>
  /\ callsLeft = MaxCalls
  /\ signalsLeft = MaxSignals
  /\ xferErrorsLeft = MaxXferErrors

-----------------------------------------------------------------------------
(***************************************************************************)
(* Caller side: one action per step of readl/writel.                      *)
(***************************************************************************)

\* ehub_xhci_readl / ehub_xhci_writel check the gate, and only then call
\* EMBEDDED_REGISTER_Read/Write; a closed gate returns ~0 / nothing.
Call(t, k, a) ==
  /\ pc[t] = "idle"
  /\ callsLeft > 0
  /\ callsLeft' = callsLeft - 1
  /\ kind' = [kind EXCEPT ![t] = k]
  /\ addr' = [addr EXCEPT ![t] = a]
  /\ status' = [status EXCEPT ![t] = "ok"]
  /\ data' = [data EXCEPT ![t] = NoAddr]
  /\ IF DEVICECONTEXT_ErrorCheckFails
       THEN /\ result' = [result EXCEPT ![t] = [kind |-> k, addr |-> a,
                                                ok |-> FALSE, from |-> NoAddr]]
            /\ UNCHANGED pc
       ELSE /\ result' = [result EXCEPT ![t] = NoResult]
            /\ pc' = [pc EXCEPT ![t] = "down"]
  /\ UNCHANGED <<sharedVars, usbVars, signalsLeft, xferErrorsLeft>>

\* Faulty variant of Down: the caller does not sleep while the count is 0.
DownNoSleep(t) ==
  /\ pc[t] = "down"
  /\ EmbeddedRegisterLock' = EmbeddedRegisterLock - 1
  /\ pc' = [pc EXCEPT ![t] = "submit"]
  /\ UNCHANGED <<kind, addr, status, data, result,
                 CompletionEventEmbeddedRegisterRead, DataEmbeddedRegisterRead,
                 EmbeddedRegisterError, usbVars, budgetVars>>

\* down_interruptible(&EmbeddedRegisterLock) takes the semaphore.
Down(t) ==
  /\ pc[t] = "down"
  /\ EmbeddedRegisterLock > 0
  /\ EmbeddedRegisterLock' = EmbeddedRegisterLock - 1
  /\ pc' = [pc EXCEPT ![t] = "submit"]
  /\ UNCHANGED <<kind, addr, status, data, result,
                 CompletionEventEmbeddedRegisterRead, DataEmbeddedRegisterRead,
                 EmbeddedRegisterError, usbVars, budgetVars>>

\* down_interruptible returns -EINTR: a signal reached the sleeping caller.
\* The code does only ASSERT(false), which compiles to nothing, and goes on
\* into the register operation without holding the semaphore.
DownInterrupted(t) ==
  /\ pc[t] = "down"
  /\ EmbeddedRegisterLock <= 0
  /\ signalsLeft > 0
  /\ signalsLeft' = signalsLeft - 1
  /\ pc' = [pc EXCEPT ![t] = "submit"]
  /\ UNCHANGED <<kind, addr, status, data, result, sharedVars, usbVars,
                 callsLeft, xferErrorsLeft>>

\* URB_Submit: NOTIFICATION_Reset(&urbContext->Event), then
\* usb_submit_urb, which fails with -EBUSY while the URB is still in
\* flight and with -ENODEV once the device is gone.
URB_Submit(t, u) ==
  /\ event' = [event EXCEPT ![u] = NOTIFICATION_Reset]
  /\ IF urbBusy[u] \/ detached
       THEN /\ status' = [status EXCEPT ![t] = "err"]
            /\ pc' = [pc EXCEPT ![t] = "exit"]
            /\ UNCHANGED <<urbBusy, bulkOut>>
       ELSE /\ urbBusy' = [urbBusy EXCEPT ![u] = TRUE]
            /\ bulkOut' = Append(bulkOut, [urb |-> u, by |-> t, addr |-> addr[t]])
            /\ pc' = [pc EXCEPT ![t] = "waitUrb"]
            /\ UNCHANGED status

\* EMBEDDED_REGISTER_Read builds the read command on
\* UrbContextEmbeddedRegisterRead, NOTIFICATION_Resets the read completion,
\* then URB_Submits.  The urbContext NULL check only fires after
\* disconnect, which this module does not model.
SubmitRead(t) ==
  /\ pc[t] = "submit" /\ kind[t] = "read"
  /\ CompletionEventEmbeddedRegisterRead' = NOTIFICATION_Reset
  /\ URB_Submit(t, "RegRead")
  /\ UNCHANGED <<kind, addr, data, result, EmbeddedRegisterLock,
                 DataEmbeddedRegisterRead, EmbeddedRegisterError, detached,
                 outDone, bulkIn, msgLoopArmed, workQueue, budgetVars>>

\* EMBEDDED_REGISTER_Write builds the write command and its data on
\* UrbContextEmbeddedRegisterWrite and URB_Submits it; no response
\* message is awaited.
SubmitWrite(t) ==
  /\ pc[t] = "submit" /\ kind[t] = "write"
  /\ URB_Submit(t, "RegWrite")
  /\ UNCHANGED <<kind, addr, data, result, sharedVars, detached,
                 outDone, bulkIn, msgLoopArmed, workQueue, budgetVars>>

\* Faulty variant of WaitOutcomes: a wait with no timeout
\* (ExpireInMs = 0, MAX_SCHEDULE_TIMEOUT).
WaitOutcomesNoTimeout(c) ==
  IF DEVICECONTEXT_ErrorCheckFails THEN {"shutdown"}
  ELSE IF c > 0 THEN {"notified"}
  ELSE IF signalsLeft > 0 THEN {"signal"} ELSE {}

(***************************************************************************)
(* NOTIFICATION_Wait on a completion whose done-count is c.  The gate is  *)
(* checked first (-ESHUTDOWN).  wait_for_completion_interruptible_timeout *)
(* then returns at once if c > 0; otherwise it ends on the 500 ms timeout *)
(* (-ETIMEDOUT) or on a signal (-ERESTARTSYS, reported as -EINVAL).       *)
(***************************************************************************)
WaitOutcomes(c) ==
  IF DEVICECONTEXT_ErrorCheckFails THEN {"shutdown"}
  ELSE IF c > 0 THEN {"notified"}
  ELSE {"timeout"} \cup (IF signalsLeft > 0 THEN {"signal"} ELSE {})

\* The caller's locals after a wait with outcome o: success goes on to
\* next, any failure goes to Exit with status < 0.
AfterWait(t, o, next) ==
  /\ signalsLeft' = IF o = "signal" THEN signalsLeft - 1 ELSE signalsLeft
  /\ IF o = "notified"
       THEN /\ pc' = [pc EXCEPT ![t] = next]
            /\ UNCHANGED status
       ELSE /\ pc' = [pc EXCEPT ![t] = "exit"]
            /\ status' = [status EXCEPT ![t] = "err"]

\* Faulty variant of WaitUrb: every wake-up consumes a completion.
WaitUrbConsumeAlways(t) ==
  LET u == UrbOf(t) IN
  /\ pc[t] = "waitUrb"
  /\ \E o \in WaitOutcomes(event[u]) :
       /\ event' = [event EXCEPT ![u] = @ - 1]
       /\ AfterWait(t, o, IF kind[t] = "read" THEN "waitRead" ELSE "exit")
  /\ UNCHANGED <<kind, addr, data, result, sharedVars, urbBusy, detached,
                 bulkOut, outDone, bulkIn, msgLoopArmed, workQueue,
                 callsLeft, xferErrorsLeft>>

\* Faulty variant of WaitUrb: the status of the wait is not checked, so a
\* failed wait counts as the URB's completion.
WaitUrbIgnoreStatus(t) ==
  LET u == UrbOf(t) IN
  /\ pc[t] = "waitUrb"
  /\ \E o \in WaitOutcomes(event[u]) :
       /\ event' = [event EXCEPT ![u] = IF o = "notified" THEN @ - 1 ELSE @]
       /\ AfterWait(t, "notified", IF kind[t] = "read" THEN "waitRead" ELSE "exit")
       /\ signalsLeft' = IF o = "signal" THEN signalsLeft - 1 ELSE signalsLeft
  /\ UNCHANGED <<kind, addr, data, result, sharedVars, urbBusy, detached,
                 bulkOut, outDone, bulkIn, msgLoopArmed, workQueue,
                 callsLeft, xferErrorsLeft>>

\* Wait for the bulk-out URB's completion (urbContext->Event).  A write is
\* done after this wait; a read goes on to wait for the response.
WaitUrb(t) ==
  LET u == UrbOf(t) IN
  /\ pc[t] = "waitUrb"
  /\ \E o \in WaitOutcomes(event[u]) :
       /\ event' = [event EXCEPT ![u] = IF o = "notified" THEN @ - 1 ELSE @]
       /\ AfterWait(t, o, IF kind[t] = "read" THEN "waitRead" ELSE "exit")
  /\ UNCHANGED <<kind, addr, data, result, sharedVars, urbBusy, detached,
                 bulkOut, outDone, bulkIn, msgLoopArmed, workQueue,
                 callsLeft, xferErrorsLeft>>

\* Wait for CompletionEventEmbeddedRegisterRead, signalled by the handler
\* of the register-read-completion message.
WaitRead(t) ==
  LET c == CompletionEventEmbeddedRegisterRead IN
  /\ pc[t] = "waitRead"
  /\ \E o \in WaitOutcomes(c) :
       /\ CompletionEventEmbeddedRegisterRead' =
            IF o = "notified" THEN c - 1 ELSE c
       /\ AfterWait(t, o, "readData")
  /\ UNCHANGED <<kind, addr, data, result, EmbeddedRegisterLock,
                 DataEmbeddedRegisterRead, EmbeddedRegisterError, usbVars,
                 callsLeft, xferErrorsLeft>>

\* *Data = DeviceContext->DataEmbeddedRegisterRead.
ReadData(t) ==
  /\ pc[t] = "readData"
  /\ data' = [data EXCEPT ![t] = DataEmbeddedRegisterRead]
  /\ pc' = [pc EXCEPT ![t] = "exit"]
  /\ UNCHANGED <<kind, addr, status, result, sharedVars, usbVars, budgetVars>>

\* Faulty variant of Exit: a failed access does not latch the error.
ExitNoLatch(t) ==
  /\ pc[t] = "exit"
  /\ EmbeddedRegisterLock' = EmbeddedRegisterLock + 1
  /\ pc' = [pc EXCEPT ![t] = "idle"]
  /\ result' = [result EXCEPT ![t] =
                  [kind |-> kind[t], addr |-> addr[t], ok |-> status[t] = "ok",
                   from |-> IF status[t] = "ok" THEN data[t] ELSE NoAddr]]
  /\ UNCHANGED <<kind, addr, status, data, CompletionEventEmbeddedRegisterRead,
                 DataEmbeddedRegisterRead, EmbeddedRegisterError, usbVars,
                 budgetVars>>

\* Faulty variant of Exit: the error path returns without up().
ExitNoUpOnError(t) ==
  /\ pc[t] = "exit"
  /\ EmbeddedRegisterError' = (EmbeddedRegisterError \/ status[t] = "err")
  /\ EmbeddedRegisterLock' = IF status[t] = "ok" THEN EmbeddedRegisterLock + 1
                                                 ELSE EmbeddedRegisterLock
  /\ pc' = [pc EXCEPT ![t] = "idle"]
  /\ result' = [result EXCEPT ![t] =
                  [kind |-> kind[t], addr |-> addr[t], ok |-> status[t] = "ok",
                   from |-> IF status[t] = "ok" THEN data[t] ELSE NoAddr]]
  /\ UNCHANGED <<kind, addr, status, data, CompletionEventEmbeddedRegisterRead,
                 DataEmbeddedRegisterRead, usbVars, budgetVars>>

\* The Exit label shared by EMBEDDED_REGISTER_Read and _Write: status < 0
\* latches ErrorFlags.EmbeddedRegisterError; then up(), whether or not
\* down() took the semaphore.
LatchErrorAndUp(t) ==
  /\ EmbeddedRegisterError' = (EmbeddedRegisterError \/ status[t] = "err")
  /\ EmbeddedRegisterLock' = EmbeddedRegisterLock + 1

\* Exit: the caller latches and releases; readl returns *Data, or ~0 on
\* failure.
Exit(t) ==
  /\ pc[t] = "exit"
  /\ LatchErrorAndUp(t)
  /\ pc' = [pc EXCEPT ![t] = "idle"]
  /\ result' = [result EXCEPT ![t] =
                  [kind |-> kind[t], addr |-> addr[t], ok |-> status[t] = "ok",
                   from |-> IF status[t] = "ok" THEN data[t] ELSE NoAddr]]
  /\ UNCHANGED <<kind, addr, status, data, CompletionEventEmbeddedRegisterRead,
                 DataEmbeddedRegisterRead, usbVars, budgetVars>>

-----------------------------------------------------------------------------
(***************************************************************************)
(* USB core, device and message loop.                                     *)
(***************************************************************************)

\* The device takes the next command off the bulk-out pipe.  A read
\* command is answered with a register-read-completion message on the
\* bulk-in pipe; a write is applied.  The transfer may instead fail, and
\* after a detach every transfer ends with -ESHUTDOWN.
DeviceProcess ==
  /\ bulkOut # <<>>
  /\ LET c == Head(bulkOut) IN
     \E st \in XferStatus :
       /\ st = "shutdown" <=> detached
       /\ st = "err" => xferErrorsLeft > 0
       /\ xferErrorsLeft' = IF st = "err" THEN xferErrorsLeft - 1
                                          ELSE xferErrorsLeft
       /\ bulkOut' = Tail(bulkOut)
       /\ outDone' = Append(outDone, [urb |-> c.urb, st |-> st])
       /\ bulkIn' = IF st = "ok" /\ c.urb = "RegRead"
                      THEN Append(bulkIn, c.addr) ELSE bulkIn
  /\ UNCHANGED <<threadVars, sharedVars, urbBusy, event, detached,
                 msgLoopArmed, workQueue, callsLeft, signalsLeft>>

\* URB_CompletionRoutine_Simple for the next finished bulk-out transfer.
\* The URB is no longer in flight.  It returns without notifying on
\* -ESHUTDOWN or a closed gate; otherwise it notifies urbContext->Event
\* whatever Urb->status is.
URB_CompletionRoutine_Simple ==
  /\ outDone # <<>>
  /\ LET d == Head(outDone) IN
     /\ outDone' = Tail(outDone)
     /\ urbBusy' = [urbBusy EXCEPT ![d.urb] = FALSE]
     /\ event' = IF d.st = "shutdown" \/ DEVICECONTEXT_ErrorCheckFails
                   THEN event
                   ELSE [event EXCEPT ![d.urb] = NOTIFICATION_Notify(@)]
  /\ UNCHANGED <<threadVars, sharedVars, detached, bulkOut, bulkIn,
                 msgLoopArmed, workQueue, budgetVars>>

\* URB_CompletionRoutine_GetMessage for the bulk-in message URB.  A closed
\* gate drops the message and leaves the URB unsubmitted, which ends the
\* loop; otherwise WORK_ITEM_Create/WORK_ITEM_Submit queue it on the
\* ordered work queue and the URB is resubmitted.
URB_CompletionRoutine_GetMessage ==
  /\ msgLoopArmed
  /\ bulkIn # <<>>
  /\ bulkIn' = Tail(bulkIn)
  /\ IF DEVICECONTEXT_ErrorCheckFails
       THEN /\ msgLoopArmed' = FALSE
            /\ UNCHANGED workQueue
       ELSE /\ workQueue' = Append(workQueue, Head(bulkIn))
            /\ UNCHANGED msgLoopArmed
  /\ UNCHANGED <<threadVars, sharedVars, urbBusy, event, detached, bulkOut,
                 outDone, budgetVars>>

\* The register-read-completion handler: store the value, notify.
MESSAGE_HandleMessage_EMBEDDED_REGISTER_READ_COMPLETION(m) ==
  /\ DataEmbeddedRegisterRead' = m
  /\ CompletionEventEmbeddedRegisterRead' =
       NOTIFICATION_Notify(CompletionEventEmbeddedRegisterRead)

\* MESSAGE_Parsing of a buffer holding one message: it stops on a closed
\* gate before dispatching.
MESSAGE_Parsing(m) ==
  IF DEVICECONTEXT_ErrorCheckFails
    THEN UNCHANGED <<DataEmbeddedRegisterRead,
                     CompletionEventEmbeddedRegisterRead>>
    ELSE MESSAGE_HandleMessage_EMBEDDED_REGISTER_READ_COMPLETION(m)

\* The ordered work queue runs WORK_ITEM_Process_MessageHandle on the
\* oldest work item: parse it, then WORK_ITEM_Destroy it.
WORK_ITEM_Process_MessageHandle ==
  /\ workQueue # <<>>
  /\ workQueue' = Tail(workQueue)
  /\ MESSAGE_Parsing(Head(workQueue))
  /\ UNCHANGED <<threadVars, EmbeddedRegisterLock, EmbeddedRegisterError,
                 urbBusy, event, detached, bulkOut, outDone, bulkIn,
                 msgLoopArmed, budgetVars>>

\* The device is unplugged: usb_disconnect marks it NOTATTACHED.
Detach ==
  /\ DeviceMayDetach
  /\ ~detached
  /\ detached' = TRUE
  /\ UNCHANGED <<threadVars, sharedVars, urbBusy, event, bulkOut, outDone,
                 bulkIn, msgLoopArmed, workQueue, budgetVars>>

-----------------------------------------------------------------------------
Next ==
  \/ \E t \in Threads :
       \/ \E k \in {"read", "write"}, a \in Addrs : Call(t, k, a)
       \/ Down(t) \/ SubmitRead(t) \/ SubmitWrite(t)
       \/ WaitUrb(t)
       \/ WaitRead(t) \/ ReadData(t) \/ Exit(t)
  \/ DeviceProcess
  \/ URB_CompletionRoutine_Simple
  \/ URB_CompletionRoutine_GetMessage
  \/ WORK_ITEM_Process_MessageHandle
  \/ Detach

(***************************************************************************)
(* Fairness.  Every step of a caller that has begun a call is taken: the  *)
(* steps after down() run in a sleeping-capable thread that the waits'    *)
(* 500 ms timeout always wakes.  down() is strongly fair because Linux    *)
(* semaphores hand the count to the first waiter on up().  The USB core,  *)
(* the device and the ordered work queue make progress.  Calls, signals,  *)
(* transfer errors and the detach are the environment's choice.           *)
(***************************************************************************)
Fairness ==
  /\ \A t \in Threads :
       /\ SF_vars(Down(t))
       /\ WF_vars(SubmitRead(t) \/ SubmitWrite(t) \/ WaitUrb(t)
                  \/ WaitRead(t) \/ ReadData(t) \/ Exit(t))
  /\ WF_vars(DeviceProcess)
  /\ WF_vars(URB_CompletionRoutine_Simple)
  /\ WF_vars(URB_CompletionRoutine_GetMessage)
  /\ WF_vars(WORK_ITEM_Process_MessageHandle)

Spec == Init /\ [][Next]_vars /\ Fairness

\* The same driver with callers that can be signalled while they sleep in
\* down_interruptible (a user thread, not the xHCI kernel threads).
SignalNext == Next \/ \E t \in Threads : DownInterrupted(t)
SignalSpec == Init /\ [][SignalNext]_vars /\ Fairness

-----------------------------------------------------------------------------
TypeOK ==
  /\ pc \in [Threads -> PCs]
  /\ kind \in [Threads -> {"read", "write"}]
  /\ addr \in [Threads -> Addrs]
  /\ status \in [Threads -> {"ok", "err"}]
  /\ data \in [Threads -> Addrs \cup {NoAddr}]
  /\ result \in [Threads -> Result \cup {NoResult}]
  /\ EmbeddedRegisterLock \in Int
  /\ CompletionEventEmbeddedRegisterRead \in Nat
  /\ DataEmbeddedRegisterRead \in Addrs \cup {NoAddr}
  /\ EmbeddedRegisterError \in BOOLEAN
  /\ urbBusy \in [Urbs -> BOOLEAN]
  /\ event \in [Urbs -> Nat]
  /\ detached \in BOOLEAN
  /\ bulkOut \in Seq(Command)
  /\ outDone \in Seq([urb : Urbs, st : XferStatus])
  /\ bulkIn \in Seq(Addrs)
  /\ msgLoopArmed \in BOOLEAN
  /\ workQueue \in Seq(Addrs)
  /\ callsLeft \in 0..MaxCalls
  /\ signalsLeft \in 0..MaxSignals
  /\ xferErrorsLeft \in 0..MaxXferErrors

-----------------------------------------------------------------------------
(***************************************************************************)
(* Properties.                                                            *)
(***************************************************************************)

\* EmbeddedRegisterLock serialises EMBEDDED_REGISTER_Read/Write: at most
\* one caller is between down() and up() at any time.
RegisterMutex ==
  Cardinality({t \in Threads : pc[t] \in InRegisterOp}) <= 1

\* A readl that reports success returns the value of the register it
\* addressed, never the late response to an earlier read (which the
\* shared DataEmbeddedRegisterRead and the per-call NOTIFICATION_Reset of
\* CompletionEventEmbeddedRegisterRead must keep apart).
ReadReturnsAddressed ==
  \A t \in Threads :
    result[t].kind = "read" /\ result[t].ok => result[t].from = result[t].addr

\* Every readl/writel that got past the gate returns: no caller is left
\* sleeping on the semaphore or on a notification.
RegisterCallsReturn ==
  \A t \in Threads : pc[t] # "idle" ~> pc[t] = "idle"

\* readl/writel read the error gate before down() and never again before
\* URB_Submit, so a caller that passed the gate before another caller
\* latched EmbeddedRegisterError still sends its command.  Such a call
\* must not report success: once the error is latched, every register
\* call that finishes (the Exit step) returns failure.  Only the gate
\* checks inside NOTIFICATION_Wait and the completion routines keep the
\* stale gate from turning into a success.
NoSuccessAfterRegisterError ==
  [][\A t \in Threads :
       EmbeddedRegisterError /\ pc[t] = "exit" /\ pc'[t] = "idle"
         => ~result'[t].ok]_vars

====
