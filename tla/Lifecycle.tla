----------------------------- MODULE Lifecycle ------------------------------
(***************************************************************************)
(* The life of the FL6000 bulk interface as the USB core drives it: probe *)
(* (MODULE_UsbInterfaceConnect), suspend, resume and reset-resume, and    *)
(* disconnect (ehub_module.c), with the three message loops they start   *)
(* and stop (ehub_message.c, through the USB_Interface* wrappers of       *)
(* ehub_usb.c) and the embedded host they add and remove (ehub_xhci_add,  *)
(* ehub_xhci_remove in xhci-ehub.c).  EHUB_ISOCH_ENABLE is defined in     *)
(* ehub_defines.h, so the isochronous loop is part of every callback.     *)
(*                                                                         *)
(* Each driver callback is one step: the USB core serialises probe,       *)
(* disconnect and the PM callbacks of an interface under the device lock. *)
(* The URB completions of the loops interleave with them.  A loop slot is *)
(* the pointer UrbContextMessageBulk[i], UrbContextMessageInterrupt[i] or *)
(* UrbContextMessageIsoch[i]; its record says whether the pointer is      *)
(* non-NULL, the state of the URB context it points to, how many times    *)
(* URB_Destroy freed that context and whether the driver used the context *)
(* after it was freed.                                                     *)
(***************************************************************************)
EXTENDS Integers, FiniteSets

CONSTANTS
  NUMBER_OF_MESSAGE_BULK,      \* message URBs of the bulk-in loop
  NUMBER_OF_MESSAGE_INTERRUPT, \* message URBs of the interrupt-in loop
  NUMBER_OF_MESSAGE_ISOCH,     \* message URBs of the isochronous-in loop
  MaxFailures,    \* bound on failed allocations, submits and probe steps
  MaxSuspends,    \* bound on suspend calls
  MaxCompletions, \* bound on message-loop completions
  DeviceMayDetach,
  HostCallsIsoch  \* whether the embedded host starts and stops the isoch loop

ASSUME {NUMBER_OF_MESSAGE_BULK, NUMBER_OF_MESSAGE_INTERRUPT,
        NUMBER_OF_MESSAGE_ISOCH} \subseteq Nat \ {0}
ASSUME {MaxFailures, MaxSuspends, MaxCompletions} \subseteq Nat
ASSUME DeviceMayDetach \in BOOLEAN /\ HostCallsIsoch \in BOOLEAN

Loops == {"Bulk", "Interrupt", "Isoch"}
Count == [Bulk |-> NUMBER_OF_MESSAGE_BULK,
          Interrupt |-> NUMBER_OF_MESSAGE_INTERRUPT,
          Isoch |-> NUMBER_OF_MESSAGE_ISOCH]
Slots == {s \in Loops \X (0..(NUMBER_OF_MESSAGE_BULK + NUMBER_OF_MESSAGE_INTERRUPT
                               + NUMBER_OF_MESSAGE_ISOCH)) : s[2] < Count[s[1]]}

\* A NULL slot that never pointed to anything.
NullSlot == [ptr |-> FALSE, obj |-> "none", frees |-> 0, uaf |-> FALSE]
\* A slot holding a context just returned by URB_Create or URB_CreateIsoch.
NewCtx == [ptr |-> TRUE, obj |-> "idle", frees |-> 0, uaf |-> FALSE]

VARIABLES
  condition,        \* InterfaceBackup->condition of the bulk interface
  deviceContext,    \* "none", "live" or "freed"
  xhci,             \* the embedded host's xhci_hcd: "none", "live", "freed"
  isoch_in_running, \* xhci->isoch_in_running
  isocEpsActive,    \* atomic_read(&xhci->num_active_isoc_eps) # 0
  stop_isoch_work,  \* DeviceContext->stop_isoch_work: "idle" or "pending"
  WorkItemQueue,    \* "none", "live" or "destroyed"
  workItems,        \* work items queued and not yet run
  UrbContextAllocationError, \* ErrorFlags bit set by URB_Create
  IsUsbHcdInvalid,  \* UsbContext.IsUsbHcdInvalid, set by ehub_xhci_remove
  detached,         \* UsbDevice->state is USB_STATE_NOTATTACHED
  pm,               \* "active" or "suspended"
  urbs,             \* loop slot -> [ptr, obj, frees, uaf]
  failuresLeft, suspendsLeft, completionsLeft

hostVars == <<xhci, isoch_in_running, isocEpsActive, IsUsbHcdInvalid>>
boundVars == <<failuresLeft, suspendsLeft, completionsLeft>>
vars == <<condition, deviceContext, hostVars, stop_isoch_work,
          WorkItemQueue, workItems,
          UrbContextAllocationError, detached, pm, urbs, boundVars>>

Init ==
  /\ condition = "unbound"
  /\ deviceContext = "none"
  /\ xhci = "none"
  /\ isoch_in_running = FALSE
  /\ isocEpsActive = FALSE
  /\ stop_isoch_work = "idle"
  /\ WorkItemQueue = "none"
  /\ workItems = 0
  /\ UrbContextAllocationError = FALSE
  /\ IsUsbHcdInvalid = FALSE
  /\ detached = FALSE
  /\ pm = "active"
  /\ urbs = [s \in Slots |-> NullSlot]
  /\ failuresLeft = MaxFailures
  /\ suspendsLeft = MaxSuspends
  /\ completionsLeft = MaxCompletions

\* DEVICECONTEXT_ErrorCheck, with the flags this module sets.
DEVICECONTEXT_ErrorCheckFails ==
  \/ condition \notin {"bound", "binding"}
  \/ detached
  \/ IsUsbHcdInvalid
  \/ UrbContextAllocationError

-----------------------------------------------------------------------------
(***************************************************************************)
(* URB contexts.  Every use of a context goes through Touch, which        *)
(* records a use of a context that is already freed.                      *)
(***************************************************************************)
Touch(r) == [r EXCEPT !.uaf = r.uaf \/ r.obj = "freed"]

\* URB_Destroy: usb_free_urb, usb_free_coherent and kfree of the context.
URB_Destroy(r) == [Touch(r) EXCEPT !.obj = "freed", !.frees = r.frees + 1]

\* URB_Submit that usb_submit_urb accepted.
URB_Submit(r) ==
  [Touch(r) EXCEPT !.obj = IF r.obj = "freed" THEN "freed" ELSE "submitted"]

\* NOTIFICATION_Notify and usb_kill_urb: an URB in flight comes back and
\* is not resubmitted.
KillUrb(r) ==
  [Touch(r) EXCEPT !.obj = IF r.obj = "submitted" THEN "idle" ELSE r.obj]

\* How a loop start may end: "ok" when all Count[l] URBs were handled,
\* else the index at which it stopped and why.  "nomem": kzalloc of the
\* URB_CONTEXT failed and URB_Create set UrbContextAllocationError;
\* "nobuf": usb_alloc_coherent or usb_alloc_urb failed; "submit":
\* usb_submit_urb refused the URB.
Outcomes(l, hows) ==
  {[at |-> Count[l], how |-> "ok"]}
  \cup (IF failuresLeft > 0 THEN [at : 0..(Count[l] - 1), how : hows] ELSE {})

StartOutcomes(l) == Outcomes(l, {"nomem", "nobuf", "submit"})

\* UrbContextAllocationError after a start that ended with outcome o.
AllocErrorAfter(o) == UrbContextAllocationError \/ o.how = "nomem"

\* The first isochronous slot whose URB is still in flight: usb_submit_urb
\* refuses it with -EBUSY, whatever else happens.
FirstBusy(u) ==
  LET busy == {k \in 0..(NUMBER_OF_MESSAGE_ISOCH - 1) :
                 u[<<"Isoch", k>>].obj = "submitted"}
  IN IF busy = {} THEN NUMBER_OF_MESSAGE_ISOCH
     ELSE CHOOSE k \in busy : \A j \in busy : k <= j

\* The ends of MESSAGE_StartLoopIsoch's submit loop over the slots u.
IsochStartOutcomes(u) ==
  LET fb == FirstBusy(u)
  IN {[at |-> fb, how |-> IF fb = NUMBER_OF_MESSAGE_ISOCH THEN "ok" ELSE "submit"]}
     \cup (IF failuresLeft > 0 THEN [at : 0..(fb - 1), how : {"submit"}] ELSE {})

-----------------------------------------------------------------------------
(***************************************************************************)
(* The message loops.                                                     *)
(***************************************************************************)

\* MESSAGE_StartLoopBulk on slots u: each slot before the failure gets a
\* new context, stored in the slot and submitted; a context whose submit
\* failed is destroyed, and its pointer stays in the slot.
MESSAGE_StartLoop(u, l, o) ==
  [s \in Slots |->
     IF s[1] # l THEN u[s]
     ELSE IF s[2] < o.at THEN URB_Submit(NewCtx)
     ELSE IF s[2] = o.at /\ o.how = "submit" THEN URB_Destroy(NewCtx)
     ELSE u[s]]

\* MESSAGE_StartLoopInterrupt: the same loop over UrbContextMessageInterrupt.
MESSAGE_StartLoopInterrupt(u, o) == MESSAGE_StartLoop(u, "Interrupt", o)

\* MESSAGE_StopLoopBulk: each slot is read and set to NULL; a non-NULL
\* context is notified, its URB killed and the context destroyed.
MESSAGE_StopLoop(u, l) ==
  [s \in Slots |->
     IF s[1] = l /\ u[s].ptr
       THEN [URB_Destroy(KillUrb(u[s])) EXCEPT !.ptr = FALSE]
       ELSE u[s]]

\* MESSAGE_StopLoopInterrupt.
MESSAGE_StopLoopInterrupt(u) == MESSAGE_StopLoop(u, "Interrupt")

\* MESSAGE_InitLoopIsoch: URB_CreateIsoch for each slot, stored in the slot
\* and not submitted, until one returns NULL.
MESSAGE_InitLoopIsoch(u, o) ==
  [s \in Slots |-> IF s[1] = "Isoch" /\ s[2] < o.at THEN NewCtx ELSE u[s]]

\* MESSAGE_FreeLoopIsoch destroys every non-NULL isochronous context and
\* leaves the pointers in place.
MESSAGE_FreeLoopIsoch(u) ==
  [s \in Slots |-> IF s[1] = "Isoch" /\ u[s].ptr THEN URB_Destroy(u[s]) ELSE u[s]]

\* MESSAGE_StartLoopIsoch when the loop is not running: submit the
\* existing contexts in order; a context whose submit failed is destroyed
\* and its pointer stays in the slot.
MESSAGE_StartLoopIsoch(u, o) ==
  [s \in Slots |->
     IF s[1] # "Isoch" THEN u[s]
     ELSE IF s[2] < o.at THEN URB_Submit(u[s])
     ELSE IF s[2] = o.at /\ o.how = "submit" THEN URB_Destroy(u[s])
     ELSE u[s]]

\* MESSAGE_StopLoopIsoch when the loop is running: kill the URB of every
\* non-NULL context and keep the contexts.
MESSAGE_StopLoopIsoch(u) ==
  [s \in Slots |-> IF s[1] = "Isoch" /\ u[s].ptr THEN KillUrb(u[s]) ELSE u[s]]

\* USB_InterfaceCreateIsoch: usb_set_interface ("setif" when it fails),
\* then MESSAGE_InitLoopIsoch, and MESSAGE_FreeLoopIsoch when that failed.
USB_InterfaceCreateIsoch(u, o) ==
  CASE o.how = "setif" -> u
    [] o.how = "ok"    -> MESSAGE_InitLoopIsoch(u, o)
    [] OTHER           -> MESSAGE_FreeLoopIsoch(MESSAGE_InitLoopIsoch(u, o))

CreateIsochOutcomes ==
  Outcomes("Isoch", {"nomem", "nobuf"})
  \cup (IF failuresLeft > 0 THEN {[at |-> 0, how |-> "setif"]} ELSE {})

\* USB_InterfaceSuspendBulk, USB_InterfaceSuspendIsoch (which stops the
\* isochronous loop only while isoch_in_running) and
\* USB_InterfaceSuspendInterrupt, in MODULE_Suspend's order.
USB_InterfaceSuspend(u) ==
  LET u1 == MESSAGE_StopLoop(u, "Bulk")
  IN MESSAGE_StopLoopInterrupt(IF isoch_in_running THEN MESSAGE_StopLoopIsoch(u1)
                                                   ELSE u1)

\* USB_InterfaceDestroyIsoch: MESSAGE_StopLoopIsoch, which acts when the
\* isoch_in_running it reads is TRUE, then MESSAGE_FreeLoopIsoch.
USB_InterfaceDestroyIsoch(u, running) ==
  MESSAGE_FreeLoopIsoch(IF running THEN MESSAGE_StopLoopIsoch(u) ELSE u)

\* USB_InterfaceDestroyBulk then USB_InterfaceDestroyInterrupt.
USB_InterfaceDestroy(u) == MESSAGE_StopLoopInterrupt(MESSAGE_StopLoop(u, "Bulk"))

\* USB_InterfaceCreateBulk: usb_set_interface, and MESSAGE_StartLoopBulk
\* only when it succeeded ("setif" when it failed).
USB_InterfaceCreateBulk(u, o) ==
  IF o.how = "setif" THEN u ELSE MESSAGE_StartLoop(u, "Bulk", o)

\* USB_InterfaceCreateInterrupt: the same with MESSAGE_StartLoopInterrupt.
USB_InterfaceCreateInterrupt(u, o) ==
  IF o.how = "setif" THEN u ELSE MESSAGE_StartLoopInterrupt(u, o)

\* The ends of USB_InterfaceCreateBulk/Interrupt: those of the loop start,
\* and a failed usb_set_interface before it.
CreateOutcomes(l) ==
  StartOutcomes(l)
  \cup (IF failuresLeft > 0 THEN {[at |-> 0, how |-> "setif"]} ELSE {})

\* USB_InterfaceResumeBulk and USB_InterfaceResumeInterrupt restart the loop.
USB_InterfaceResumeBulk(u, o) == MESSAGE_StartLoop(u, "Bulk", o)
USB_InterfaceResumeInterrupt(u, o) == MESSAGE_StartLoopInterrupt(u, o)

\* USB_InterfaceResumeIsoch: MESSAGE_StartLoopIsoch when
\* xhci->num_active_isoc_eps is not zero; MESSAGE_StartLoopIsoch itself
\* does nothing while isoch_in_running.
IsochResumes == isocEpsActive /\ ~isoch_in_running

\* MESSAGE_StartLoopIsoch first cancels a pending delayed stop
\* (cancel_delayed_work_sync), whether or not the loop is running.
CancelStopIsoch == "idle"
USB_InterfaceResumeIsoch(u, o) ==
  IF IsochResumes THEN MESSAGE_StartLoopIsoch(u, o) ELSE u

\* DEVICECONTEXT_Create: a zeroed device context with an empty ordered
\* work queue (its failure, kzalloc or alloc_ordered_workqueue returning
\* NULL, is one of probe's early exits).
DEVICECONTEXT_Create ==
  /\ deviceContext' = "live"
  /\ WorkItemQueue' = "live"
  /\ workItems' = 0

\* DEVICECONTEXT_Destroy: destroy_workqueue, which first runs every work
\* item still queued, then kfree of the device context.
DEVICECONTEXT_Destroy ==
  /\ WorkItemQueue' = IF WorkItemQueue = "live" THEN "destroyed" ELSE WorkItemQueue
  /\ workItems' = 0
  /\ deviceContext' = "freed"

-----------------------------------------------------------------------------
(***************************************************************************)
(* The embedded host.  ehub_xhci_add's exits: usb_disabled or             *)
(* usb_create_hcd failed ("nohcd"), kzalloc of the xhci_hcd failed        *)
(* ("noxhci"), ehub_xhci_cache_create failed ("cache": the xhci_hcd is    *)
(* freed), usb_add_hcd failed ("addhcd": the cache is destroyed and the   *)
(* xhci_hcd freed, UsbContext.xhci_hcd still pointing to it).             *)
(***************************************************************************)
AddOutcomes == {"ok"} \cup (IF failuresLeft > 0
                              THEN {"nohcd", "noxhci", "cache", "addhcd"}
                              ELSE {})

ehub_xhci_add(a) ==
  CASE a = "ok" -> "live"
    [] a \in {"nohcd", "noxhci"} -> "none"
    [] OTHER -> "freed"

\* ehub_xhci_remove: usb_remove_hcd, usb_put_hcd, ehub_xhci_cache_destroy
\* and kfree of the xhci_hcd, then IsUsbHcdInvalid.
ehub_xhci_remove ==
  /\ xhci' = "freed"
  /\ IsUsbHcdInvalid' = TRUE

-----------------------------------------------------------------------------
(***************************************************************************)
(* The driver callbacks.                                                  *)
(***************************************************************************)

\* ehub_xhci_get_configuration and ehub_xhci_set_configuration are one
\* control transfer each.  The probe's configuration check ends "config"
\* when the get fails, or when the device is unconfigured and the set of
\* configuration 1 fails; otherwise "ok".
ConfigOutcomes == {"ok", "config"}

\* Probe of the bulk interface, stage by stage: DEVICECONTEXT_Create
\* (which may return NULL, "nocontext"), the configuration check, then
\* the register, doorbell and read-completion URB contexts (whose
\* URB_Create results are only ASSERTed), USB_InterfaceCreateBulk, USB_InterfaceCreateInterrupt,
\* ehub_xhci_add and USB_InterfaceCreateIsoch.  The first failing stage
\* ends the probe: usb_put_dev and DEVICECONTEXT_Destroy, which destroys
\* the work queue and frees the context (except after "nocontext"); the USB core leaves the interface
\* unbound.  Nothing stops a loop or removes a host already started.
\* The probe's stages after the context setup (create bulk, create
\* interrupt, ehub_xhci_add, create isoch) each end in "goto Exit" on
\* failure: stage k runs only when no earlier stage failed, and a failure
\* leaves every later stage undone.
ProbeReached(failed, k) == \A j \in 1..(k - 1) : ~failed[j]

ProbeStopsAtFirstFailure(failed) ==
  \A k \in DOMAIN failed :
    failed[k] => \A j \in DOMAIN failed : j > k => ~failed[j]

MODULE_UsbInterfaceConnect ==
  /\ deviceContext = "none" /\ condition = "unbound" /\ ~detached
  /\ \E early \in {"nocontext"} \cup ConfigOutcomes, b \in CreateOutcomes("Bulk"),
        i \in CreateOutcomes("Interrupt"), a \in AddOutcomes,
        c \in CreateIsochOutcomes :
       LET failed == <<early # "ok", b.how # "ok", i.how # "ok", a # "ok",
                       c.how # "ok">>
           reached(k) == ProbeReached(failed, k)
           fails == \E k \in 1..5 : failed[k]
           u1 == IF reached(2) THEN USB_InterfaceCreateBulk(urbs, b) ELSE urbs
           u2 == IF reached(3) THEN USB_InterfaceCreateInterrupt(u1, i) ELSE u1
       IN /\ ProbeStopsAtFirstFailure(failed)
          /\ fails => failuresLeft > 0
          /\ failuresLeft' = failuresLeft - IF fails THEN 1 ELSE 0
          /\ urbs' = IF reached(5) THEN USB_InterfaceCreateIsoch(u2, c) ELSE u2
          /\ UrbContextAllocationError' =
               \/ reached(2) /\ b.how = "nomem"
               \/ reached(3) /\ i.how = "nomem"
               \/ reached(5) /\ c.how = "nomem"
          /\ xhci' = IF reached(4) THEN ehub_xhci_add(a) ELSE "none"
          /\ IF fails
               THEN /\ IF early = "nocontext"
                          THEN UNCHANGED <<deviceContext, WorkItemQueue, workItems>>
                          ELSE DEVICECONTEXT_Destroy
                    /\ condition' = "unbound"
               ELSE /\ DEVICECONTEXT_Create
                    /\ condition' = "bound"
  /\ UNCHANGED <<isoch_in_running, isocEpsActive, IsUsbHcdInvalid, stop_isoch_work,
                 detached, pm, suspendsLeft, completionsLeft>>

\* MODULE_Suspend stops the bulk, isochronous and interrupt loops, unless
\* the error gate is closed: then the suspend fails and nothing is stopped.
MODULE_Suspend ==
  /\ condition = "bound" /\ pm = "active" /\ suspendsLeft > 0
  /\ suspendsLeft' = suspendsLeft - 1
  /\ IF DEVICECONTEXT_ErrorCheckFails
       THEN UNCHANGED <<pm, urbs, isoch_in_running>>
       ELSE /\ urbs' = USB_InterfaceSuspend(urbs)
            /\ isoch_in_running' = FALSE
            /\ pm' = "suspended"
  /\ UNCHANGED <<condition, deviceContext, xhci, isocEpsActive, IsUsbHcdInvalid,
                 stop_isoch_work, WorkItemQueue, workItems,
                 UrbContextAllocationError, detached, failuresLeft,
                 completionsLeft>>

\* MODULE_Resume and MODULE_ResetResume (the same code): restart the bulk
\* loop; then, when xhci->num_active_isoc_eps is not zero, the isochronous
\* loop (MESSAGE_StartLoopIsoch does nothing when it is already running);
\* then the interrupt loop.  The first failure is returned as an error;
\* the interface is resumed either way, the loops as the failure left them.
MODULE_Resume ==
  /\ condition = "bound" /\ pm = "suspended"
  /\ pm' = "active"
  /\ IF DEVICECONTEXT_ErrorCheckFails
       THEN UNCHANGED <<urbs, UrbContextAllocationError, failuresLeft,
                        isoch_in_running, stop_isoch_work>>
       ELSE LET u1(b) == USB_InterfaceResumeBulk(urbs, b)
            IN \E b \in StartOutcomes("Bulk"), i \in StartOutcomes("Interrupt") :
               \E c \in IF b.how = "ok" /\ IsochResumes
                          THEN IsochStartOutcomes(u1(b))
                          ELSE {[at |-> NUMBER_OF_MESSAGE_ISOCH, how |-> "ok"]} :
                 LET u2 == USB_InterfaceResumeIsoch(u1(b), c)
                     budgetUsed == b.how # "ok" \/ i.how # "ok"
                                   \/ c.at < FirstBusy(u1(b))
                 IN /\ (b.how # "ok" \/ c.how # "ok") => i.how = "ok"
                    /\ failuresLeft' = failuresLeft - IF budgetUsed THEN 1 ELSE 0
                    /\ urbs' = CASE b.how # "ok" -> u1(b)
                                 [] c.how # "ok" -> u2
                                 [] OTHER -> USB_InterfaceResumeInterrupt(u2, i)
                    /\ stop_isoch_work' = IF b.how = "ok" /\ isocEpsActive
                                          THEN CancelStopIsoch
                                          ELSE stop_isoch_work
                    /\ isoch_in_running' =
                         (isoch_in_running \/ (b.how = "ok" /\ IsochResumes
                                               /\ c.how = "ok"))
                    /\ UrbContextAllocationError' =
                         (AllocErrorAfter(b) \/ i.how = "nomem")
  /\ UNCHANGED <<condition, deviceContext, xhci, isocEpsActive, IsUsbHcdInvalid,
                 WorkItemQueue, workItems, detached, suspendsLeft,
                 completionsLeft>>

\* MODULE_ResetResume runs the same steps as MODULE_Resume.
MODULE_ResetResume == MODULE_Resume

\* The USB core marks the interface unbinding and disables its endpoints;
\* the driver calls usb_hc_died, ehub_xhci_remove, destroys the work queue
\* (running what is queued), then USB_InterfaceDestroyIsoch, which reads
\* isoch_in_running through the xhci_hcd that ehub_xhci_remove freed (any
\* value), and stops the bulk and interrupt loops; last it frees the device
\* context.  It may come while the interface is suspended.
MODULE_UsbInterfaceDisconnect ==
  /\ condition = "bound"
  /\ condition' = "unbound"
  /\ ehub_xhci_remove
  /\ \E running \in BOOLEAN :
       urbs' = USB_InterfaceDestroy(USB_InterfaceDestroyIsoch(urbs, running))
  /\ isoch_in_running' = FALSE
  /\ isocEpsActive' = FALSE
  /\ DEVICECONTEXT_Destroy
  /\ UNCHANGED <<stop_isoch_work, UrbContextAllocationError, detached, pm,
                 boundVars>>

-----------------------------------------------------------------------------
(***************************************************************************)
(* The USB core, the embedded host's clients and the work queue.          *)
(***************************************************************************)

\* A submitted loop URB completes and URB_CompletionRoutine_GetMessage
\* runs: a closed gate exits without a resubmit; otherwise the data goes
\* to a work item, and the URB is resubmitted when its status was 0.
URB_CompletionRoutine_GetMessage(s) ==
  /\ urbs[s].obj = "submitted" /\ deviceContext = "live"
  /\ completionsLeft > 0
  /\ completionsLeft' = completionsLeft - 1
  /\ IF DEVICECONTEXT_ErrorCheckFails
       THEN /\ urbs' = [urbs EXCEPT ![s].obj = "idle"]
            /\ UNCHANGED workItems
       ELSE \E ok \in BOOLEAN :
              /\ urbs' = [urbs EXCEPT ![s].obj = IF ok THEN "submitted" ELSE "idle"]
              /\ workItems' = workItems + 1
  /\ UNCHANGED <<condition, deviceContext, hostVars, stop_isoch_work, WorkItemQueue,
                 UrbContextAllocationError, detached, pm, failuresLeft,
                 suspendsLeft>>

\* The ordered work queue runs WORK_ITEM_Process_MessageHandle.
WORK_ITEM_Run ==
  /\ WorkItemQueue = "live" /\ workItems > 0
  /\ workItems' = workItems - 1
  /\ UNCHANGED <<condition, deviceContext, hostVars, stop_isoch_work, WorkItemQueue,
                 UrbContextAllocationError, detached, pm, urbs, boundVars>>

\* A class driver on the embedded host adds or drops its isochronous
\* endpoints, which moves xhci->num_active_isoc_eps.
IsocEndpoints ==
  /\ xhci = "live"
  /\ isocEpsActive' = ~isocEpsActive
  /\ UNCHANGED <<condition, deviceContext, xhci, isoch_in_running,
                 IsUsbHcdInvalid, stop_isoch_work, WorkItemQueue, workItems,
                 UrbContextAllocationError, detached, pm, urbs, boundVars>>

Detach ==
  /\ DeviceMayDetach /\ ~detached
  /\ detached' = TRUE
  /\ UNCHANGED <<condition, deviceContext, hostVars, stop_isoch_work, WorkItemQueue, workItems,
                 UrbContextAllocationError, pm, urbs, boundVars>>

(***************************************************************************)
(* The embedded host's isochronous clients.  The xHCI code that calls     *)
(* MESSAGE_StartLoopIsoch and MESSAGE_queue_StopLoopIsoch when isochronous *)
(* endpoints come and go is not in the repository: the model lets the     *)
(* live, active host call either at any time.                              *)
(***************************************************************************)
HostActive == HostCallsIsoch /\ xhci = "live" /\ deviceContext = "live" /\ pm = "active"

\* MESSAGE_StartLoopIsoch called by the host: cancel a pending delayed
\* stop, then submit the loop unless it is running.
HostStartLoopIsoch ==
  /\ HostActive
  /\ stop_isoch_work' = CancelStopIsoch
  /\ IF isoch_in_running
       THEN UNCHANGED <<urbs, failuresLeft, isoch_in_running>>
       ELSE \E c \in IsochStartOutcomes(urbs) :
              /\ urbs' = MESSAGE_StartLoopIsoch(urbs, c)
              /\ isoch_in_running' = (c.how = "ok")
              /\ failuresLeft' = failuresLeft
                                  - IF c.at < FirstBusy(urbs) THEN 1 ELSE 0
  /\ UNCHANGED <<condition, deviceContext, xhci, isocEpsActive,
                 IsUsbHcdInvalid, WorkItemQueue, workItems,
                 UrbContextAllocationError, detached, pm, suspendsLeft,
                 completionsLeft>>

\* MESSAGE_queue_StopLoopIsoch: nothing if a stop is already pending,
\* else schedule_delayed_work of MESSAGE_delayed_StopLoopIsoch (10 jiffies).
MESSAGE_queue_StopLoopIsoch ==
  /\ HostActive
  /\ stop_isoch_work = "idle"
  /\ stop_isoch_work' = "pending"
  /\ UNCHANGED <<condition, deviceContext, hostVars, WorkItemQueue, workItems,
                 UrbContextAllocationError, detached, pm, urbs, boundVars>>

\* MESSAGE_delayed_StopLoopIsoch on the system work queue runs
\* MESSAGE_StopLoopIsoch.  Nothing cancels it at suspend or disconnect: once
\* the device context is freed, the slot pointers and isoch_in_running it
\* reads are freed memory (any value).
MESSAGE_delayed_StopLoopIsoch ==
  /\ stop_isoch_work = "pending"
  /\ stop_isoch_work' = "idle"
  /\ \E running \in IF deviceContext = "live" THEN {isoch_in_running}
                                             ELSE BOOLEAN :
       urbs' = IF running THEN MESSAGE_StopLoopIsoch(urbs) ELSE urbs
  /\ isoch_in_running' = FALSE
  /\ UNCHANGED <<condition, deviceContext, xhci, isocEpsActive,
                 IsUsbHcdInvalid, WorkItemQueue, workItems,
                 UrbContextAllocationError, detached, pm, boundVars>>

Next ==
  \/ MODULE_UsbInterfaceConnect
  \/ MODULE_Suspend
  \/ MODULE_Resume
  \/ MODULE_ResetResume
  \/ MODULE_UsbInterfaceDisconnect
  \/ \E s \in Slots : URB_CompletionRoutine_GetMessage(s)
  \/ WORK_ITEM_Run
  \/ IsocEndpoints
  \/ HostStartLoopIsoch
  \/ MESSAGE_queue_StopLoopIsoch
  \/ MESSAGE_delayed_StopLoopIsoch
  \/ Detach

Spec == Init /\ [][Next]_vars

-----------------------------------------------------------------------------
TypeOK ==
  /\ condition \in {"unbound", "binding", "bound", "unbinding"}
  /\ deviceContext \in {"none", "live", "freed"}
  /\ xhci \in {"none", "live", "freed"}
  /\ WorkItemQueue \in {"none", "live", "destroyed"}
  /\ workItems \in 0..MaxCompletions
  /\ pm \in {"active", "suspended"}
  /\ stop_isoch_work \in {"idle", "pending"}
  /\ urbs \in [Slots -> [ptr : BOOLEAN,
                         obj : {"none", "idle", "submitted", "freed"},
                         frees : Nat, uaf : BOOLEAN]]

\* Every message-loop URB context is freed at most once and never used
\* after it is freed: the Start, Stop and Free loops of the bulk,
\* interrupt and isochronous messages, run by probe, suspend, resume and
\* disconnect, only touch the contexts their slots point to that are still
\* allocated.
UrbContextsFreedOnce ==
  \A s \in Slots : urbs[s].frees <= 1 /\ ~urbs[s].uaf

====
