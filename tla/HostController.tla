--------------------------- MODULE HostController ---------------------------
(***************************************************************************)
(* Start-up and shut-down of the xHC behind the FL6000 register link: the *)
(* hc_driver operations ehub_xhci_reset_device (xhci-ehub.c), ehub_xhci_run *)
(* and ehub_xhci_stop (xhci.c), as the USB core calls them from           *)
(* usb_add_hcd and usb_remove_hcd, with the register routines they use:   *)
(* ehub_xhci_quiesce, ehub_xhci_halt, xhci_start, ehub_xhci_reset and     *)
(* ehub_xhci_handshake.                                                    *)
(*                                                                         *)
(* Every register access goes through ehub_xhci_readl / ehub_xhci_writel, *)
(* i.e. through EMBEDDED_REGISTER_Read / _Write over USB.  A read through  *)
(* a closed error gate returns all-ones; a read that fails latches        *)
(* EmbeddedRegisterError and returns all-ones; a write through a closed    *)
(* gate is dropped; a write whose wait fails latches the error; and a     *)
(* write whose bulk-out transfer completes with an error status is        *)
(* reported as done, because URB_CompletionRoutine_Simple records          *)
(* UrbCompletionStatus and nobody reads it.                                *)
(*                                                                         *)
(* A register value is the set of its bits that are set; only the bits   *)
(* these routines test or write are kept.  The xHC itself steps on its   *)
(* own: it halts when RUN is cleared, runs when RUN is set, and performs  *)
(* a reset when HCRST is set.                                              *)
(***************************************************************************)
EXTENDS Integers, Sequences

CONSTANTS
  MaxLinkErrors,  \* bound on register accesses whose URB wait fails
  MaxLostWrites   \* bound on register writes whose transfer fails silently

ASSUME MaxLinkErrors \in Nat /\ MaxLostWrites \in Nat

\* USBCMD bits used by the driver: Run/Stop, Host Controller Reset, and
\* the interrupt enables XHCI_IRQS (abstracted to the one bit EIE).
CmdBits == {"RUN", "HCRST", "EIE"}
\* USBSTS bits polled by the driver: HC Halted, Controller Not Ready.
StsBits == {"HCH", "CNR"}
\* ~0, the value ehub_xhci_readl returns when a read cannot be made.
AllOnes == CmdBits \cup StsBits
\* Registers the driver reads and writes; "other" stands for irq_control,
\* irq_pending and microframe_index, whose contents the model leaves out.
Regs == {"command", "status", "other"}

\* Return codes.
OK == 0
ENODEV == -19
ENOMEM == -12
ETIMEDOUT == -110
RetCodes == {OK, ENODEV, ENOMEM, ETIMEDOUT}

VARIABLES
  \* the xHC
  command,        \* USBCMD
  status,         \* USBSTS
  \* the register link
  EmbeddedRegisterError,  \* DeviceContext->ErrorFlags.EmbeddedRegisterError
  linkErrorsLeft, lostWritesLeft,
  \* the driver thread
  pc,             \* label of the next step
  stack,          \* return labels of the routines being executed
  rv,             \* value returned by the routine that returned last
  val,            \* the local holding the last register value read
  halted,         \* the local 'halted' of ehub_xhci_quiesce
  hs,             \* arguments of the current ehub_xhci_handshake call
  IsEhubXhciInitReady,    \* DeviceContext->IsEhubXhciInitReady
  \* ghost
  wasReset        \* the xHC has carried out a reset since start-up began

hwVars == <<command, status>>
linkVars == <<EmbeddedRegisterError, linkErrorsLeft, lostWritesLeft>>
drvVars == <<pc, stack, rv, val, halted, hs, IsEhubXhciInitReady>>
vars == <<hwVars, linkVars, drvVars, wasReset>>

(***************************************************************************)
(* The register link.                                                      *)
(***************************************************************************)
\* DEVICECONTEXT_ErrorCheck at the top of ehub_xhci_readl/writel.
GateClosed == EmbeddedRegisterError

\* ehub_xhci_readl(reg) yields v: through a closed gate ~0; otherwise the
\* register's value, or ~0 with the error latched when the URB wait fails.
Readl(reg, v) ==
  LET cur == CASE reg = "command" -> command
               [] reg = "status"  -> status
               [] OTHER           -> {}
  IN \/ /\ GateClosed
        /\ v = AllOnes
        /\ UNCHANGED linkVars
     \/ /\ ~GateClosed
        /\ v = cur
        /\ UNCHANGED linkVars
     \/ /\ ~GateClosed
        /\ linkErrorsLeft > 0
        /\ v = AllOnes
        /\ EmbeddedRegisterError' = TRUE
        /\ linkErrorsLeft' = linkErrorsLeft - 1
        /\ UNCHANGED lostWritesLeft

\* ehub_xhci_writel(v, reg): dropped through a closed gate; otherwise the
\* register takes v, or the transfer fails and EMBEDDED_REGISTER_Write
\* still returns as if it was done, or the wait fails and the error is
\* latched.  USBSTS has no bit the driver can write among StsBits (EINT is
\* RW1C and left out), so a write to it changes nothing modelled.
Writel(reg, v) ==
  \/ /\ ~GateClosed
     /\ command' = IF reg = "command" THEN v \cap CmdBits ELSE command
     /\ UNCHANGED <<status, linkVars>>
  \/ /\ GateClosed
     /\ UNCHANGED <<hwVars, linkVars>>
  \/ /\ ~GateClosed
     /\ lostWritesLeft > 0
     /\ lostWritesLeft' = lostWritesLeft - 1
     /\ UNCHANGED <<hwVars, EmbeddedRegisterError, linkErrorsLeft>>
  \/ /\ ~GateClosed
     /\ linkErrorsLeft > 0
     /\ EmbeddedRegisterError' = TRUE
     /\ linkErrorsLeft' = linkErrorsLeft - 1
     /\ UNCHANGED <<hwVars, lostWritesLeft>>

(***************************************************************************)
(* The xHC, stepping on its own.                                           *)
(***************************************************************************)
\* Run/Stop cleared: the controller finishes and sets HCH.
HwHalt ==
  /\ "RUN" \notin command /\ "HCRST" \notin command
  /\ "HCH" \notin status
  /\ status' = status \cup {"HCH"}
  /\ UNCHANGED <<command, linkVars, drvVars, wasReset>>

\* Run/Stop set on a halted, ready controller: it starts and clears HCH.
HwRun ==
  /\ "RUN" \in command /\ "HCRST" \notin command
  /\ "HCH" \in status /\ "CNR" \notin status
  /\ status' = status \ {"HCH"}
  /\ UNCHANGED <<command, linkVars, drvVars, wasReset>>

\* HCRST set: the controller resets its registers to their defaults,
\* clears HCRST and stays not ready for a while.
HwReset ==
  /\ "HCRST" \in command
  /\ command' = {}
  /\ status' = {"HCH", "CNR"}
  /\ wasReset' = TRUE
  /\ UNCHANGED <<linkVars, drvVars>>

\* The controller becomes ready.
HwReady ==
  /\ "CNR" \in status /\ "HCRST" \notin command
  /\ status' = status \ {"CNR"}
  /\ UNCHANGED <<command, linkVars, drvVars, wasReset>>

HwNext == HwHalt \/ HwRun \/ HwReset \/ HwReady

\* The polled bit of a register can still change without the driver.
CanChange(reg, bit) ==
  \/ reg = "status" /\ bit = "HCH" /\ (ENABLED HwHalt \/ ENABLED HwRun
                                       \/ ENABLED HwReset)
  \/ reg = "status" /\ bit = "CNR" /\ (ENABLED HwReady \/ ENABLED HwReset)
  \/ reg = "command" /\ bit = "HCRST" /\ ENABLED HwReset

(***************************************************************************)
(* The driver thread.  Routines are entered with Call and left with        *)
(* Return; a routine whose last act is a call jumps straight into it.     *)
(***************************************************************************)
Call(proc, ret) == pc' = proc /\ stack' = <<ret>> \o stack
Return(r) == rv' = r /\ pc' = Head(stack) /\ stack' = Tail(stack)
Goto(l) == pc' = l /\ UNCHANGED stack

\* A step at label l that reads reg into v, keeps the xHC and the named
\* driver locals, and does Then(v).
ReadStep(l, reg, Then(_)) ==
  /\ pc = l
  /\ \E v \in SUBSET AllOnes : Readl(reg, v) /\ Then(v)
  /\ UNCHANGED <<hwVars, IsEhubXhciInitReady, wasReset>>

\* One iteration of the polling loop of ehub_xhci_handshake: all-ones is
\* -ENODEV, the awaited value is 0, and the loop gives up with -ETIMEDOUT
\* only when the xHC can no longer change the polled bit (the controller
\* answers within the XHCI_MAX_HALT_USEC / 10 s budget when it can).
HsResult(v) ==
  /\ \/ v = AllOnes /\ Return(ENODEV)
     \/ v # AllOnes /\ (hs.bit \in v) = hs.set /\ Return(OK)
     \/ /\ v # AllOnes /\ (hs.bit \in v) # hs.set
        /\ ~CanChange(hs.reg, hs.bit) /\ Return(ETIMEDOUT)
     \/ /\ v # AllOnes /\ (hs.bit \in v) # hs.set
        /\ CanChange(hs.reg, hs.bit) /\ UNCHANGED <<pc, stack, rv>>
  /\ UNCHANGED <<val, halted, hs>>
ehub_xhci_handshake == ReadStep("handshake", hs.reg, HsResult)

\* ehub_xhci_halt, entering ehub_xhci_quiesce: halted = status & STS_HALT.
QuiesceStatus(v) ==
  halted' = ("HCH" \in v) /\ Goto("quiesce_cmd") /\ UNCHANGED <<rv, val, hs>>
ehub_xhci_quiesce == ReadStep("halt", "status", QuiesceStatus)

QuiesceCommand(v) ==
  val' = v /\ Goto("quiesce_write") /\ UNCHANGED <<rv, halted, hs>>
QuiesceReadCommand == ReadStep("quiesce_cmd", "command", QuiesceCommand)

\* cmd &= ~XHCI_IRQS, and ~CMD_RUN unless already halted; then ehub_xhci_halt
\* waits for STS_HALT to be set.
QuiesceWrite ==
  /\ pc = "quiesce_write"
  /\ Writel("command", val \ ({"EIE"} \cup IF halted THEN {} ELSE {"RUN"}))
  /\ hs' = [reg |-> "status", bit |-> "HCH", set |-> TRUE]
  /\ Goto("handshake")
  /\ UNCHANGED <<rv, val, halted, IsEhubXhciInitReady, wasReset>>

\* ehub_xhci_reset: a status of ~0 is -ENODEV; a controller that is not
\* halted is left alone and 0 is returned.
ResetStatus(v) ==
  /\ \/ v = AllOnes /\ Return(ENODEV)
     \/ v # AllOnes /\ "HCH" \notin v /\ Return(OK)
     \/ v # AllOnes /\ "HCH" \in v /\ Goto("reset_cmd") /\ UNCHANGED rv
  /\ UNCHANGED <<val, halted, hs>>
ehub_xhci_reset == ReadStep("reset", "status", ResetStatus)

ResetCommand(v) ==
  /\ \/ v = AllOnes /\ Return(ENODEV) /\ UNCHANGED val
     \/ v # AllOnes /\ val' = v /\ Goto("reset_write") /\ UNCHANGED rv
  /\ UNCHANGED <<halted, hs>>
ResetReadCommand == ReadStep("reset_cmd", "command", ResetCommand)

\* command |= CMD_RESET; wait for CMD_RESET to read back as 0.
ResetWrite ==
  /\ pc = "reset_write"
  /\ Writel("command", val \cup {"HCRST"})
  /\ hs' = [reg |-> "command", bit |-> "HCRST", set |-> FALSE]
  /\ Call("handshake", "reset_cnr")
  /\ UNCHANGED <<rv, val, halted, IsEhubXhciInitReady, wasReset>>

\* A failed first handshake is returned; otherwise wait for STS_CNR to
\* clear and return what that wait returns.
ResetWaitReady ==
  /\ pc = "reset_cnr"
  /\ \/ rv # OK /\ Return(rv) /\ UNCHANGED hs
     \/ /\ rv = OK
        /\ hs' = [reg |-> "status", bit |-> "CNR", set |-> FALSE]
        /\ Goto("handshake") /\ UNCHANGED rv
  /\ UNCHANGED <<hwVars, linkVars, val, halted, IsEhubXhciInitReady, wasReset>>

\* xhci_start: command |= CMD_RUN, then wait for STS_HALT to clear.
StartCommand(v) ==
  val' = v /\ Goto("start_write") /\ UNCHANGED <<rv, halted, hs>>
xhci_start == ReadStep("start", "command", StartCommand)

StartWrite ==
  /\ pc = "start_write"
  /\ Writel("command", val \cup {"RUN"})
  /\ hs' = [reg |-> "status", bit |-> "HCH", set |-> FALSE]
  /\ Goto("handshake")
  /\ UNCHANGED <<rv, val, halted, IsEhubXhciInitReady, wasReset>>

\* A step that only calls routine proc and continues at ret.
CallStep(l, proc, ret) ==
  /\ pc = l /\ Call(proc, ret)
  /\ UNCHANGED <<hwVars, linkVars, rv, val, halted, hs,
                 IsEhubXhciInitReady, wasReset>>

\* A step at label l that returns rv when it is an error and otherwise
\* does Else.
OnError(l, Else) ==
  /\ pc = l
  /\ \/ rv # OK /\ Return(rv) /\ UNCHANGED IsEhubXhciInitReady
     \/ rv = OK /\ Else
  /\ UNCHANGED <<hwVars, linkVars, val, halted, hs, wasReset>>

\* ehub_xhci_reset_device: the capability registers are read first (their
\* values only place the operational registers), then halt, then reset.
CapsRead(v) ==
  Call("halt", "rd_halted") /\ UNCHANGED <<rv, val, halted, hs>>
ResetDeviceReadCaps == ReadStep("reset_device", "other", CapsRead)
ResetDeviceHalted ==
  OnError("rd_halted", Call("reset", "rd_reset")
                       /\ UNCHANGED <<rv, IsEhubXhciInitReady>>)
\* The values ehub_xhci_init can return: what ehub_xhci_mem_init returns,
\* a routine that is not in the repository.
ehub_xhci_init == {OK, ENOMEM}

\* On success the flag that lets port-status events through is set.
ResetDeviceInit ==
  OnError("rd_reset",
          \E r \in ehub_xhci_init :
            \/ r = OK /\ IsEhubXhciInitReady' = TRUE /\ Goto("rd_mfindex")
               /\ UNCHANGED rv
            \/ r # OK /\ Return(r) /\ UNCHANGED IsEhubXhciInitReady)
\* The initial read of microframe_index; its value is not kept.
MfindexRead(v) == Return(OK) /\ UNCHANGED <<val, halted, hs>>
ResetDeviceMfindex == ReadStep("rd_mfindex", "other", MfindexRead)

\* A write to a register whose contents are left out.
WriteOther(l, next) ==
  /\ pc = l /\ Writel("other", {}) /\ Goto(next)
  /\ UNCHANGED <<rv, val, halted, hs, IsEhubXhciInitReady, wasReset>>
\* A read of such a register, continuing at next.
ReadOther(l, next) ==
  ReadStep(l, "other", LAMBDA v : Goto(next) /\ UNCHANGED <<rv, val, halted, hs>>)

\* ehub_xhci_run for the primary hcd: erst_dequeue and irq_control are read
\* and irq_control written, CMD_EIE set, irq_pending read and written, and
\* the controller started; if that fails it is halted and -ENODEV returned.
RunIrqControl == ReadOther("run", "run_irqc_write")
RunIrqControlWrite == WriteOther("run_irqc_write", "run_cmd")
RunCommand(v) == val' = v /\ Goto("run_cmd_write") /\ UNCHANGED <<rv, halted, hs>>
RunReadCommand == ReadStep("run_cmd", "command", RunCommand)
RunCommandWrite ==
  /\ pc = "run_cmd_write" /\ Writel("command", val \cup {"EIE"})
  /\ Goto("run_ip")
  /\ UNCHANGED <<rv, val, halted, hs, IsEhubXhciInitReady, wasReset>>
RunIrqPending == ReadOther("run_ip", "run_ip_write")
RunIrqPendingWrite ==
  /\ pc = "run_ip_write" /\ Writel("other", {}) /\ Call("start", "run_started")
  /\ UNCHANGED <<rv, val, halted, hs, IsEhubXhciInitReady, wasReset>>
RunStarted ==
  /\ pc = "run_started"
  /\ \/ rv = OK /\ Return(OK)
     \/ rv # OK /\ Call("halt", "run_failed") /\ UNCHANGED rv
  /\ UNCHANGED <<hwVars, linkVars, val, halted, hs, IsEhubXhciInitReady, wasReset>>
RunFailed ==
  /\ pc = "run_failed" /\ Return(ENODEV)
  /\ UNCHANGED <<hwVars, linkVars, val, halted, hs, IsEhubXhciInitReady, wasReset>>

\* ehub_xhci_stop for the primary hcd: halt, reset (both results ignored),
\* then status is written back without EINT and irq_pending with its
\* enable cleared.
StopHalt == CallStep("stop", "halt", "stop_halted")
StopReset == CallStep("stop_halted", "reset", "stop_status")
StopStatus(v) == val' = v /\ Goto("stop_status_write") /\ UNCHANGED <<rv, halted, hs>>
StopReadStatus == ReadStep("stop_status", "status", StopStatus)
StopStatusWrite ==
  /\ pc = "stop_status_write" /\ Writel("status", val) /\ Goto("stop_ip")
  /\ UNCHANGED <<rv, val, halted, hs, IsEhubXhciInitReady, wasReset>>
StopIrqPending == ReadOther("stop_ip", "stop_ip_write")
StopIrqPendingWrite ==
  /\ pc = "stop_ip_write" /\ Writel("other", {}) /\ Return(OK)
  /\ UNCHANGED <<val, halted, hs, IsEhubXhciInitReady, wasReset>>

\* ehub_xhci_shutdown: halt, then read status for the trace line.  The
\* reset under XHCI_SPURIOUS_WAKEUP is not taken: no quirk sets it here.
ShutdownHalt == CallStep("shutdown", "halt", "shutdown_status")
ShutdownStatus == ReadStep("shutdown_status", "status",
                           LAMBDA v : Return(OK) /\ UNCHANGED <<val, halted, hs>>)

(***************************************************************************)
(* The USB core calling the hc_driver (hcd.c, outside the repository):     *)
(* usb_add_hcd calls .reset and, if it succeeds, .start, and gives up on   *)
(* the first error; later usb_remove_hcd calls .stop, or a reboot calls    *)
(* .shutdown.                                                              *)
(***************************************************************************)
CoreAdd == CallStep("core_add", "reset_device", "core_reset_done")
CoreResetDone ==
  /\ pc = "core_reset_done"
  /\ \/ rv # OK /\ Goto("core_add_failed")
     \/ rv = OK /\ Call("run", "core_started")
  /\ UNCHANGED <<hwVars, linkVars, rv, val, halted, hs,
                 IsEhubXhciInitReady, wasReset>>
CoreStarted ==
  /\ pc = "core_started"
  /\ Goto(IF rv = OK THEN "core_running" ELSE "core_add_failed")
  /\ UNCHANGED <<hwVars, linkVars, rv, val, halted, hs,
                 IsEhubXhciInitReady, wasReset>>
CoreRemove ==
  \/ CallStep("core_running", "stop", "core_removed")
  \/ CallStep("core_running", "shutdown", "core_removed")

\* The driver has nothing more to do.
Finished == pc \in {"core_add_failed", "core_removed"}

(***************************************************************************)
(* The specification.                                                      *)
(***************************************************************************)
\* A settled xHC as a previous session or power-up left it: halted, halted
\* and not yet ready, or still running with interrupts enabled.
Init ==
  /\ \/ command = {} /\ status = {"HCH"}
     \/ command = {} /\ status = {"HCH", "CNR"}
     \/ command = {"RUN", "EIE"} /\ status = {}
  /\ EmbeddedRegisterError = FALSE
  /\ linkErrorsLeft = MaxLinkErrors
  /\ lostWritesLeft = MaxLostWrites
  /\ pc = "core_add" /\ stack = <<>> /\ rv = OK
  /\ val = {} /\ halted = FALSE
  /\ hs = [reg |-> "status", bit |-> "HCH", set |-> TRUE]
  /\ IsEhubXhciInitReady = FALSE
  /\ wasReset = FALSE

DriverNext ==
  \/ ehub_xhci_handshake
  \/ ehub_xhci_quiesce \/ QuiesceReadCommand \/ QuiesceWrite
  \/ ehub_xhci_reset \/ ResetReadCommand \/ ResetWrite \/ ResetWaitReady
  \/ xhci_start \/ StartWrite
  \/ ResetDeviceReadCaps \/ ResetDeviceHalted \/ ResetDeviceInit
  \/ ResetDeviceMfindex
  \/ RunIrqControl \/ RunIrqControlWrite \/ RunReadCommand
  \/ RunCommandWrite \/ RunIrqPending \/ RunIrqPendingWrite
  \/ RunStarted \/ RunFailed
  \/ StopHalt \/ StopReset \/ StopReadStatus \/ StopStatusWrite
  \/ StopIrqPending \/ StopIrqPendingWrite
  \/ ShutdownHalt \/ ShutdownStatus
  \/ CoreAdd \/ CoreResetDone \/ CoreStarted \/ CoreRemove

Next == DriverNext \/ HwNext

\* The xHC's steps are weakly fair: a controller told to halt, run, reset
\* or become ready does so.
Spec == Init /\ [][Next]_vars /\ WF_vars(DriverNext) /\ WF_vars(HwNext)

(***************************************************************************)
(* Properties.                                                             *)
(***************************************************************************)
TypeOK ==
  /\ command \subseteq CmdBits /\ status \subseteq StsBits
  /\ EmbeddedRegisterError \in BOOLEAN
  /\ linkErrorsLeft \in 0..MaxLinkErrors /\ lostWritesLeft \in 0..MaxLostWrites
  /\ stack \in Seq(STRING) /\ rv \in RetCodes
  /\ val \subseteq AllOnes /\ halted \in BOOLEAN
  /\ hs.reg \in Regs /\ hs.bit \in AllOnes /\ hs.set \in BOOLEAN
  /\ IsEhubXhciInitReady \in BOOLEAN /\ wasReset \in BOOLEAN

\* ehub_xhci_reset_device sets IsEhubXhciInitReady only after
\* ehub_xhci_reset returned 0 ("Reset the internal HC memory state and
\* registers"): when the flag is set, the xHC has really been reset.
InitReadyAfterReset == IsEhubXhciInitReady => wasReset

====
