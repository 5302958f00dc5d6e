# TLA+ models of the FL6000 embedded xHCI host driver

The driver in `src/src/` runs an xHCI host controller that sits on the far
side of a USB link. The upstream xHCI driver (`xhci.c`) reaches the host
controller's registers only through `ehub_xhci_readl`, `ehub_xhci_writel` and
`ehub_xhci_writel_doorbell` (`xhci-ehub.c`). Each of these turns into a command on a bulk or
interrupt OUT pipe. Responses and events come back as messages on bulk,
interrupt and isochronous IN pipes. A work queue parses those messages and
dispatches them. Transfer rings are mirrored into the device's TRB cache by
`ehub_queue_cache_write` before a doorbell is rung.

This directory models that driver in TLA+ and checks the models with TLC.

## Inventory

| Part | Source | State | Operations | Concurrency |
|---|---|---|---|---|
| Register facade | `ehub_embedded_register.c`, `xhci-ehub.c:100-192` | `EmbeddedRegisterLock` (semaphore), `DataEmbeddedRegisterRead`, `CompletionEventEmbeddedRegisterRead`, `ErrorFlags.EmbeddedRegisterError` | readl, writel, writel_doorbell | any number of xHCI driver threads; the callback and worker notify them |
| URB transport | `ehub_urb.c` | per URB context: `Status`, `Event`, `UrbCompletionStatus` | `URB_Submit`, the completion routines `Simple`, `GetMessage`, `Doorbell` | completions run in interrupt context |
| Notification | `ehub_notification.c` | `struct completion` done-count | Wait (gate check, 500 ms timeout, signal), Reset, Notify | |
| Work items | `ehub_work_item.c` | `WorkItemProcessingQueue`, count, ordered workqueue | Create, Submit, Process_MessageHandle, Destroy | one ordered worker against the completion callbacks |
| Message codec | `ehub_message.c` | round-robin index for memory-read replies, loop URB arrays | `MESSAGE_Parsing`, `MESSAGE_GetType`, four handlers, start/stop of the message loops | runs on the worker |
| Doorbell queue | `ehub_embedded_register.c:187-257`, `ehub_urb.c:438-480` | `doorbell_list_free` and `doorbell_list_busy` | Write_Doorbell, the doorbell completion, expand | the completion moves entries without the spinlock |
| TRB cache | `xhci-ehub.c:442-1193`, `ehub_embedded_cache.c` | `cache_queue_free` and `cache_queue_used`, cache blocks, ring `cache_enqueue` | queue_cache_write, the cache completion, block allocate and free, copy_from_ring | the xHCI driver against the completion callbacks |
| Device context | `ehub_device_context.c` | error flags, control flags | Create, Destroy, `DEVICECONTEXT_ErrorCheck` | the gate is read by every path |
| Module glue | `ehub_module.c`, `ehub_usb.c` | the URB contexts | Connect, Disconnect, Suspend, Resume | USB core against I/O in flight |
| xHC start-up and shut-down | `xhci.c:63-212, 330-365, 395-569`, `xhci-ehub.c:195-310` | USBCMD and USBSTS seen through the link, `IsEhubXhciInitReady` | `.reset` (`ehub_xhci_reset_device`), `.start`, `.stop`, `.shutdown` with halt, reset, start and handshake | the USB core's thread against the xHC, which steps on its own |

Hard behaviours that the code is exposed to:
- caller threads interleaving inside the register facade, together with
  signals;
- a 500 ms timeout racing a late response;
- a sticky error latched by one caller while another caller has already
  passed the gate;
- completions that run in interrupt context against list manipulation done
  elsewhere;
- responses and events arriving on different pipes;
- pools that grow or leak;
- a doorbell that must follow its cache write;
- a detach or a failed submit between two steps.

`PROJECT.json` lists each of these at its source line, under `hazards`.

## Modules

### `EmbeddedRegister` (with `MC_EmbeddedRegister`)

This module models the register facade together with the parts of the
transport, the notification, the work queue and the dispatcher that a
register access goes through.

Variables:
- The caller-thread locals (`pc`, `kind`, `addr`, `status`, `data`) follow the
  steps of `EMBEDDED_REGISTER_Read` and `EMBEDDED_REGISTER_Write`.
- `EmbeddedRegisterLock` is the semaphore count.
- `event` and `CompletionEventEmbeddedRegisterRead` are done-counts.
- `urbBusy` says whether each URB is in flight.
- `bulkOut`, `outDone` and `bulkIn` are the pipes. `workQueue` is the ordered
  work queue.
- `detached` stands for `USB_STATE_NOTATTACHED`.

A register value is abstracted to the address it was read from. A read that
returns another register's value is therefore visible in the state.

Actions. There is one action per step of the code:
- `Call` is the gate check in readl/writel.
- `Down` and `DownInterrupted` are `down_interruptible`. The interrupted case
  continues without the semaphore, because `ASSERT` is empty.
- `SubmitRead` (which first resets `CompletionEventEmbeddedRegisterRead`) and
  `SubmitWrite` call `URB_Submit`. That resets the URB's event
  (`NOTIFICATION_Reset`) and calls `usb_submit_urb`, which can fail with
  -EBUSY or -ENODEV.
- `WaitUrb` and `WaitRead` are `NOTIFICATION_Wait`. Its outcomes are -ESHUTDOWN,
  notified, timeout or signal.
- `ReadData` copies `DataEmbeddedRegisterRead`.
- `Exit` runs `LatchErrorAndUp`, the `Exit:` label that `EMBEDDED_REGISTER_Read`
  and `EMBEDDED_REGISTER_Write` share. It latches the error and calls `up()`.

On the other side:
- `DeviceProcess` is the device taking a command. A transfer can fail, and
  after a detach every transfer ends with -ESHUTDOWN.
- `URB_CompletionRoutine_Simple`.
- `URB_CompletionRoutine_GetMessage`. A closed gate ends the message loop.
- `WORK_ITEM_Process_MessageHandle` → `MESSAGE_Parsing` → the
  register-read-completion handler.
- `Detach`.

`DEVICECONTEXT_ErrorCheckFails` keeps the two gate causes this module
produces: the sticky register error and the detach.

`Next` has no signal in `down()`: the xHCI callers are kernel threads.
`SignalSpec` adds `DownInterrupted` for a caller that can be signalled
there. Its `-EINTR` falls through the empty `ASSERT(false)`, and the caller
goes on without the semaphore.

Fairness: callers that are past the gate are weakly fair. Every wait ends
within its 500 ms timeout. `Down` is strongly fair, because a Linux semaphore
hands its count to the first waiter. The USB core, the device and the worker
are weakly fair. Calls, signals, transfer errors and the detach are left
unfair, as the environment's choices.

`NoSuccessAfterRegisterError` is an action property about the stale gate.
readl/writel test `DEVICECONTEXT_ErrorCheck` before `down()` and never
again. A caller that passed the gate while another caller was about to fail
therefore still sends its command after the error latched. The property
says that such a call, once the error is set, never returns success. It
holds because `WaitUrb` and `WaitRead` go to `Exit` with the error status of
the -ESHUTDOWN or timed-out wait, which the later step cannot turn into
success. The mutant `WaitUrbIgnoreStatus` takes every wait as notified, and
TLC then finds a success reported after the latch.

### `DoorbellPool` (with `MC_DoorbellPool`)

This module models the doorbell path:
- `ehub_xhci_writel_doorbell` → `EMBEDDED_REGISTER_Write_Doorbell`;
- `ehub_xhci_doorbell_expand`;
- `URB_CompletionRoutine_Doorbell`.

Variables:
- `doorbell_list_free` and `doorbell_list_busy` are kept as the real
  `list_head` pointers (`next`, `prev`) of two heads and a few contexts.
- `wpc` is the writer's step: gate, lock, list_empty check, expand loop,
  first entry and move, unlock, submit.
- `pipe` holds the submitted doorbell URBs in endpoint order.

The writer manipulates the lists under `SpinLockEmbeddedDoorbellWrite`. The
completion moves its context back to the free list without that lock. For
that reason every `list_add_tail` and `list_move_tail` is modelled as its
sequence of pointer loads and stores from `include/linux/list.h`.
`ListStep` carries them out one at a time, in the order `__list_del` and
`__list_add` perform them. Each actor keeps the pointers it has loaded in
`tmp`.

The constant `SMP` selects one of two configurations:
- On a uniprocessor (`SMP = FALSE`), the completion runs in interrupt context
  to its end, and `spin_lock_irqsave` keeps it out of the writer's locked
  section.
- On SMP it can run on another CPU at any point.

The gate of `ehub_xhci_writel_doorbell` and of the doorbell completion is
`DEVICECONTEXT_ErrorCheckFails`. It reads the two error flags this path can
latch:
- `EmbeddedRegisterError`, set by a failed doorbell `URB_Submit`;
- `UrbContextAllocationError`, set by `URB_CreateFailure` when the expand loop
  stopped early because the `kzalloc` of `URB_Create` failed.

When `usb_alloc_coherent` or `usb_alloc_urb` fails instead, URB_Create sets a
flag the gate does not read. Neither flag is ever cleared, so a single
GFP_ATOMIC failure in the expand closes the doorbell path until disconnect.

`FairSpec` adds fairness:
- `Lock` is strongly fair, because `SpinLockEmbeddedDoorbellWrite` is a
  ticket lock, and a waiting writer gets it once it is released.
- The writer's later steps, every pointer step and the doorbell
  completion are weakly fair. The USB core gives every submitted URB back.

`DoorbellWritesReturn` says every writer past the gate returns. It fails
if an exit path of `EMBEDDED_REGISTER_Write_Doorbell` keeps the spinlock.
The mutant `ExpandDoneKeepLock` returns -ENOBUFS without the unlock. The
next writer then spins for ever, and on one CPU the completion stays masked.

`PoolConsistent` is checked only when no list operation is half done. It
says both lists are circular, doubly linked and disjoint, and together hold
every allocated context. `TakesIdleContext` says a context taken from the
free list is never one whose URB is in flight.

### `TrbCache` (with `MC_TrbCache`)

This module models the TRB cache engine as it is built: `USE_TRB_CACHE_MODE`
is defined and `USE_DELAYED_CACHE_MODE` is not, so cache writes are
immediate. It covers:
- `ehub_xhci_cache_copy_from_ring` and its chunk loop;
- `ehub_queue_cache_write` and `EMBEDDED_CACHE_Write`;
- `URB_CompletionRoutine_Cache`;
- `ehub_xhci_cache_block_allocate`, `_allocate_segment` and `_free`;
- the pools that `ehub_xhci_cache_create` sets up.

Variables:
- The transfer ring is `NSegs` segments of `TrbsPerSeg` TRBs, and the last
  TRB of each segment is its link TRB. `enqueue`, `dequeue` and
  `cache_enqueue` are (segment, TRB) pairs.
- A TRB's content is a generation number, `trbGen`, which the xHCI driver
  bumps on each write. `devCache` is the generation the device cache holds.
- `cache_queue_free` and `cache_queue_used` are sequences of
  `cache_write_context`s, and `work` holds the fields of each context.
- `cache_list_free` and `cache_list_used` hold the blocks, together with
  `number_of_caches_free` and `number_of_caches_used`.
- `cacheOut` is `UsbPipeCacheOut`, in endpoint order.
- `dbPos` is the enqueue position announced by the last doorbell.

Every list operation in this code runs under `cache_list_lock`. Each locked
section is therefore one atomic step, and the sections of different actors
interleave freely.

Actions:
- `ehub_xhci_cache_copy_from_ring` captures `enqueue` and plans the chunks
  with the recursive operator `CopyChunks`. That operator is the code's
  do-while loop: a chunk ends at the link TRB unless it is on `last_seg` with
  `start_trb <= last_trb`.
- Each chunk is one `ehub_queue_cache_write`, in two steps:
  - `QueueLocked`: the gate; the expand of an empty free queue; -ENOBUFS;
    take the first context and move it to used. The expand is
    `ehub_xhci_cache_work_expand(made)`, which appends the `made` new
    contexts. `ExpandOutcomes` are the counts it can return: all 4, or fewer
    after a `GFP_ATOMIC` allocation failed and ended the loop.
  - `EMBEDDED_CACHE_Write`: the gate, the copy of the TRBs, the submit.
- `AfterCacheWrite` is the caller's reaction. The loop breaks on an error or
  after the last chunk, and `allocate_segment` gives its block back.
- `CopyFinish` sets `cache_enqueue` to the captured enqueue.
- `URB_CompletionRoutine_Cache` delivers the transfer to the device cache
  (or not, if it failed), then runs the gate, `list_del_init` and the doorbell.
  It never looks at `Urb->status`.
- `CompletionReturnToFree` is the completion's second locked section.
- `QueueTrb` (the xHCI driver's `inc_enq`) and `DeviceExecuteTrb` (the xHC
  consuming TRBs up to the last doorbell) are the environment.

Properties:
- `ChunksCoverRange` is the loop invariant of the chunk loop. It is checked
  against `RingRange`, a reference walk of the ring.
- `WriteEntryPoolConsistent`: each context is on exactly one queue or inside
  the completion, and no context on the free queue is in flight.
  `EMBEDDED_CACHE_Write` prints "Status not expected" when this fails.
- `BlockPoolConsistent`: each block is on one list, the counters match the
  lists, and no block is held twice.
- `DoorbellAfterData` is an action property. When a doorbell is rung, every
  TRB the xHC may now execute is in the cache with its current content.
- `DoorbellRequestsServed` is a liveness property. Every requested doorbell
  is rung unless the gate closed.

Fairness: the copy loop, the queue steps and the completions are weakly fair.
The copy loop is a bounded loop of the calling thread, and the USB core
completes every submitted URB. The xHCI driver's calls, the device's progress,
transfer errors, allocation failures and the detach are left unfair.

### `MessageParsing` (with `MC_MessageParsing`)

The inbound half of the link:
- the bulk-in message loop, `URB_CompletionRoutine_GetMessage`;
- the ordered work queue, `WORK_ITEM_Submit`, `WORK_ITEM_Process_MessageHandle`
  and `WORK_ITEM_Destroy`;
- the parser, `MESSAGE_Parsing`, `MESSAGE_GetType` and `MESSAGE_Handle`;
- the four message handlers.

A buffer is a sequence of 32-bit words. A header word is a record of the
bitfields the parser and the handlers read: `Read`, `Write`, `RegAccess`,
`RequestId` and `Length`. Its field `Address` stands for the address words
that follow a memory header. Payload words are zero words. The parser only
advances by `roundup(messageLength, 4)`, so it always reads whole words.

Variables:
- `armed` counts the message URBs that are submitted.
- `workQueue` holds the work items. Each is the words received and
  `DataBufferLength`.
- `parsingLength` is the loop variable of `MESSAGE_Parsing`.
- The read-completion contexts have `ctxBusy` (the URB is in flight),
  `ctxBuf` (whose answer the buffer holds) and
  `CurrentEmbeddedMemoryReadCompletionUrbContextIndex`.
- `outQ` is the bulk-out pipe, which completes in submission order.
- `eventsHandled`, `hostWrites` and `CompletionEventEmbeddedRegisterRead`
  count what the other three handlers do.
- The ghosts `got` and `done` record the dispatches of the work item being
  parsed and of the last one finished.

Actions:
- `URB_CompletionRoutine_GetMessage` runs when the device sends a transfer.
  The transfer either arrives whole or fails after k words. A closed gate
  exits. Otherwise the received words become a work item (`WORK_ITEM_Create`)
  whatever the status,
  and the URB is resubmitted only if the status is 0.
- `URB_CompletionRoutine_GetMessage_Shutdown` is the -ESHUTDOWN completion of
  each armed URB after the unplug.
- `MESSAGE_Parsing` is one iteration of the do-while loop. It stops at:
  - a zero header;
  - an UNKNOWN type;
  - a closed gate;
  - the end of the buffer.
  Otherwise it calls `MESSAGE_Handle`. When the loop ends, the work item is
  destroyed.
- `MESSAGE_HandleMessage_EMBEDDED_MEMORY_READ_COMPLETION` does, in order:
  - takes the next context round-robin;
  - rewrites its buffer;
  - runs `probe_kernel_read`, which fails for the NULL page;
  - calls `URB_Submit`, which `usb_submit_urb` refuses with -EBUSY while the
    URB is in flight.
- `URB_CompletionRoutine_Simple` is the device taking the oldest
  read-completion URB.
- `EhubXhciInitReady` is `ehub_xhci_reset_device` setting the flag that lets
  event TRBs through.

The reference is the firmware's side. `WireLength`, `Encode` and `Expected`
come from spec.md sections 6 and 8. They give how the firmware lays out a
transfer and the dispatches it means the transfer to cause. They never use
`MESSAGE_GetType`.

Properties:
- `ParsedInOrder`: the dispatches of a work item are a prefix of the
  firmware's. Each has the same type, offset and length. They are all of them
  when the transfer arrived whole and the gate stayed open.
- `ParseInBounds` (checked by `message_partial_transfer` only): no
  dispatched message ends past `DataBufferLength`.

The fourth transfer puts a 6-byte memory write before an event TRB, so the
roundup of `NextParsingLength` to a 4-byte boundary decides where the next
message is read. Not checked: a transfer with more read requests than
read-completion contexts. The round-robin index then reuses a context whose
answer is still in flight (`ehub_message.c:68-70`). The model keeps the
contexts' buffers and requests, but the three contexts of the bound are
never all in flight at once, and that case needs a violation run of its own.

Fairness: the ordered worker and the USB core's completion of submitted
bulk-out URBs are weakly fair. What the device sends, the init-ready flag and
the detach are the environment's choice.

### `Lifecycle` (with `MC_Lifecycle`)

The bulk interface as the USB core drives it (`ehub_module.c`), with the
three message loops (`ehub_message.c`, through the wrappers of `ehub_usb.c`)
and the embedded host's `xhci_hcd` (`ehub_xhci_add` and `ehub_xhci_remove` in
`xhci-ehub.c`). `EHUB_ISOCH_ENABLE` is defined, so the isochronous loop is
part of every callback.

State:
- `urbs` maps each loop slot (`UrbContextMessageBulk[i]`,
  `UrbContextMessageInterrupt[i]`, `UrbContextMessageIsoch[i]`) to a record:
  - whether the pointer is non-NULL;
  - the state of the context it points to: idle, submitted or freed;
  - how many times `URB_Destroy` freed it;
  - whether the driver used it after it was freed.
- `condition`, `deviceContext`, `xhci`, `WorkItemQueue` and `pm`.
- `isoch_in_running`, and whether `num_active_isoc_eps` is not zero.
- `stop_isoch_work`: whether the delayed isochronous stop is pending.
- The gate flags: `UrbContextAllocationError`, `IsUsbHcdInvalid` and the
  detach.

Actions:
- `MODULE_UsbInterfaceConnect` is one step. It runs its stages in code
  order:
  - the early set-up: `DEVICECONTEXT_Create`, which may return NULL, and the
    configuration check (`ConfigOutcomes`);
  - `USB_InterfaceCreateBulk`;
  - `USB_InterfaceCreateInterrupt`;
  - `ehub_xhci_add`, with its four failure exits;
  - `USB_InterfaceCreateIsoch`.

  `ProbeReached` and `ProbeStopsAtFirstFailure` are the chain of
  `goto Exit`s. The first failure frees the device context
  (`DEVICECONTEXT_Destroy`, except when it was never created) and leaves
  started loops as they are.
- `MODULE_Suspend` and `MODULE_Resume` (`MODULE_ResetResume` is the same
  code). Each first checks the gate, then works through the bulk,
  isochronous and interrupt loops. Resume stops at its first failure.
  - A failed submit destroys the context and keeps the pointer, as the code
    does.
  - An isochronous URB that is still in flight makes `usb_submit_urb` fail
    with -EBUSY.
- `MODULE_UsbInterfaceDisconnect` does these in code order:
  1. `ehub_xhci_remove`;
  2. the work queue is destroyed;
  3. `USB_InterfaceDestroyIsoch`. Its read of `isoch_in_running` goes
     through the `xhci_hcd` just freed, so the model takes any value;
  4. the bulk and interrupt loops are stopped.
- Environment actions:
  - `URB_CompletionRoutine_GetMessage` for any submitted slot;
  - `WORK_ITEM_Run`;
  - `IsocEndpoints`, a host-side client that changes `num_active_isoc_eps`;
  - the detach.
- Behind the constant `HostCallsIsoch`, the embedded host's isochronous
  calls. Their callers are in the upstream xHCI code, which is not in the
  repository.
  - `HostStartLoopIsoch` cancels a pending stop, then runs
    `MESSAGE_StartLoopIsoch`.
  - `MESSAGE_queue_StopLoopIsoch` schedules `stop_isoch_work`.
  - `MESSAGE_delayed_StopLoopIsoch` runs it 100 ms later.

  `MODULE_Resume` cancels a pending stop when it restarts the isochronous
  loop. Nothing else cancels one.

Property:
- `UrbContextsFreedOnce`: no loop context is freed twice, and none is used
  after it is freed.

Fairness: none. The only run is a safety run.

Two findings come from this module:
- the bulk double free below;
- the same flaw in the isochronous loop. `MESSAGE_StartLoopIsoch` destroys
  the context whose submit failed and keeps the pointer. It leaves
  `isoch_in_running` false, so the URBs before it stay submitted. The
  disconnect's `MESSAGE_FreeLoopIsoch` then frees that context a second
  time.

The run sets `HostCallsIsoch` to FALSE, so its trace uses only the driver's
own callbacks. With `HostCallsIsoch` TRUE and `MaxFailures` 0, TLC reaches a
third double use in 5 states (537 distinct states):
1. connect;
2. `MESSAGE_queue_StopLoopIsoch`;
3. disconnect, which frees the isochronous contexts;
4. `MESSAGE_delayed_StopLoopIsoch`, which stops the freed contexts.

No disconnect path cancels `stop_isoch_work`. This is listed as a hazard;
no run claims it, because whether the host can queue a stop just before
the unplug depends on code outside the repository.

The run reports the bulk trace first, because it is shorter. To reach the
isochronous trace, restrict the invariant to the `"Isoch"` slots and allow
three suspends: TLC finds it in 6 states, ending in the disconnect.

### `HostController`

Models how the USB core starts and stops the host through the `hc_driver`
table of `xhci-ehub.c`. `usb_add_hcd` (in the kernel) calls `.reset` =
`ehub_xhci_reset_device` and, if that returns 0, `.start` = `ehub_xhci_run`;
`usb_remove_hcd` calls `.stop` = `ehub_xhci_stop`, and a reboot calls
`.shutdown`. These are written as `CoreAdd`, `CoreResetDone`, `CoreStarted`
and `CoreRemove`.

The driver is one thread. Its routines are labels, entered with `Call`,
left with `Return`, and `stack` holds the return labels. There is one action
per register access, because each access is a USB round trip that can fail
on its own:
- `ehub_xhci_reset_device` reads the capability registers
  (`ResetDeviceReadCaps`), halts, resets, runs `ehub_xhci_init`, sets
  `IsEhubXhciInitReady` and reads `microframe_index`;
- `ehub_xhci_halt` is `ehub_xhci_quiesce` (read status, read command, write
  command without the interrupt enables, and without RUN unless already
  halted), then a handshake for HCH;
- `ehub_xhci_reset` returns -ENODEV on all-ones, returns 0 without resetting
  a controller that is not halted, and otherwise writes HCRST and waits for
  HCRST and then CNR to clear;
- `ehub_xhci_run` writes `irq_control`, sets EIE, writes `irq_pending`, and
  starts the controller (`xhci_start`: set RUN, wait for HCH to clear); on
  failure it halts and returns -ENODEV;
- `ehub_xhci_stop` halts and resets, ignoring both results, then writes
  status and `irq_pending`; `ehub_xhci_shutdown` halts and reads status.

`ehub_xhci_handshake` is one action per loop iteration. All-ones is -ENODEV,
the awaited value is 0, and the loop returns -ETIMEDOUT only when the xHC can
no longer change the polled bit (`CanChange`). So the model assumes a
controller that can answer does so within the budget.

`Readl` and `Writel` are the link seen from here, as `EmbeddedRegister`
models it in detail. A closed gate gives all-ones or drops the write. A
failed wait latches `EmbeddedRegisterError` (`MaxLinkErrors`). A write whose
bulk-out transfer fails is reported as done and changes nothing
(`MaxLostWrites`), because `EMBEDDED_REGISTER_Write` never reads
`UrbCompletionStatus`. A register value is the set of its bits that are set.
USBCMD keeps RUN, HCRST and EIE; USBSTS keeps HCH and CNR. `irq_control`,
`irq_pending`, `microframe_index` and the capability registers are one
register, `"other"`, whose contents the driver does not test.

The xHC is four actions: `HwHalt`, `HwRun`, `HwReset` (registers to their
defaults, HCRST cleared, CNR set) and `HwReady`. The ghost `wasReset`
records that a reset happened. `Init` is a settled controller: halted,
halted and not yet ready, or still running from an earlier session.
`ehub_xhci_mem_init` is not in the repository, so `ehub_xhci_init` is the set
of its results.

Assumption: `xhci_readl` and `xhci_writel` are macros in `xhci.h`, which is
not in the repository. `hcd->regs` is never set (the hcd has no MMIO), so
they must reach `ehub_xhci_readl` and `ehub_xhci_writel`. The model takes
that as given.

`InitReadyAfterReset`: when `IsEhubXhciInitReady` is set, the xHC has been
reset, which is what the comment on the `ehub_xhci_reset` call in
`ehub_xhci_reset_device` says. With no lost write it holds over all 385
states, with one failed read. With one lost write it is violated
(`host_reset_lost_write`).

## Runs

| Run | cfg | Expect | What it shows |
|---|---|---|---|
| `register_access` | `MC_EmbeddedRegister.cfg` | pass | Two threads, two addresses, 4 calls, one failed transfer, a detach, no signals. The semaphore serialises accesses (`RegisterMutex`). A successful read returns its own register even after a timed-out read (`ReadReturnsAddressed`). Every call returns (`RegisterCallsReturn`). A call that passed the gate before the error latched never reports success afterwards (`NoSuccessAfterRegisterError`). 294k states. |
| `doorbell_pool_up` | `MC_DoorbellPool_up.cfg` | pass | Uniprocessor, two writers, 5 doorbell writes, 1 context at connect and 2 more for the expand. This reaches the expand and -ENOBUFS paths and a completion between any two writer steps. The expand can also latch `UrbContextAllocationError` and close the gate. The lists stay consistent, and no in-flight context is handed out. Every doorbell write returns (`DoorbellWritesReturn`). 66k states. |
| `doorbell_list_race` | `MC_DoorbellPool_race.cfg` | violation | SMP. The first write expands the empty free list while the completion of an earlier doorbell moves its context back. Both `list_add_tail` calls read the same `head->prev`, and one context falls off the lists. |
| `register_signal_race` | `MC_EmbeddedRegister_signal.cfg` | violation | `ReadReturnsAddressed`. A signal in `down_interruptible` lets two reads overlap, and one read returns the other's register. |
| `trb_cache_doorbell` | `MC_TrbCache.cfg` | pass | Ring of 2 segments × 3 TRBs, 4 TRBs queued (so the ring wraps), 3 copies, one context at start and room for one expand, a detach. The chunks cover exactly the new TRBs, the queues stay consistent, every doorbell finds its TRBs in the cache, and every requested doorbell is rung. 273k states. |
| `trb_cache_blocks` | `MC_TrbCache_blocks.cfg` | pass | Two blocks and 3 allocate/allocate_segment calls, with frees, one allocation failure and a detach, so the failure path of `allocate_segment` is reached. The block lists and counters stay consistent. |
| `trb_cache_xfer_error` | `MC_TrbCache_xfer_error.cfg` | violation | `DoorbellAfterData`. A cache transfer fails on the bus. The completion does not look at `Urb->status`, so it rings the doorbell, and the xHC is pointed at TRBs its cache does not hold. |
| `trb_cache_enobufs` | `MC_TrbCache_enobufs.cfg` | violation | `DoorbellRequestsServed`. The expand of the empty free queue allocates nothing, and `copy_from_ring` breaks out with -ENOBUFS before the chunk that carries the doorbell. It still advances `cache_enqueue`, and no error is latched, so the doorbell is never rung. |
| `lifecycle_failed_resume` | `MC_Lifecycle_resume.cfg` | violation | `UrbContextsFreedOnce`. Probe, suspend, then a resume whose bulk `URB_Submit` fails. `MESSAGE_StartLoopBulk` destroys the context and leaves the pointer in `UrbContextMessageBulk[0]`. The next suspend's `MESSAGE_StopLoopBulk` kills and destroys it again. 5 states. |
| `message_parsing` | `MC_MessageParsing.cfg` | pass | Three message URBs, three read-completion contexts, and three whole transfers drawn from four. The transfers mix register responses, read requests (one to the NULL page), event TRBs, 6-byte memory writes (padded to 8) and end markers. One transfer has the padded write before an event TRB. The init-ready flag and the detach can come at any point. Every transfer is dispatched in order, at the firmware's offsets (`ParsedInOrder`), and the read-completion index stays within its contexts (`TypeOK`). 26k states. |
| `host_reset_lost_write` | `HostController_lost_write.cfg` | violation | `InitReadyAfterReset`. The bulk-out transfer of the USBCMD write carrying HCRST fails, and `EMBEDDED_REGISTER_Write` reports it done. `ehub_xhci_handshake(command, CMD_RESET, 0)` reads HCRST as clear at once, CNR is clear, and `ehub_xhci_reset` returns 0. `ehub_xhci_reset_device` then sets `IsEhubXhciInitReady` for a controller that was never reset. 15 steps, 85 states. |
| `message_partial_transfer` | `MC_MessageParsing_partial.cfg` | violation | `ParseInBounds`. A transfer fails after the first word of a register response. The completion still queues that word, and the parser dispatches a 16-byte message from a 4-byte buffer. |

Bounds:
- Two threads and two addresses are enough for every interleaving between
  two callers.
- 3–4 calls let a call fail and a later call observe the latched error, or a
  late response.
- One failed transfer and one signal exercise each error path.
- DoorbellPool uses three contexts: one at connect and two the expand can
  allocate. With 5 writes this pool's free list runs empty, is expanded, and
  runs out (-ENOBUFS). A fifth write is then still left to find the lock
  taken, which `DoorbellWritesReturn` needs. It also lets the busy list
  hold one context or several while a completion unlinks one.
- TrbCache uses a ring of two segments of three TRBs, two usable TRBs per
  segment. Four queued TRBs make the ring wrap, so copies that span both
  segments, start after `enqueue` in the same segment, or end on a link TRB
  all occur. One initial context plus one expand of 4 (`MaxEntries` = 5)
  lets the free queue run empty, grow and be reused. The real pool starts with
  32 contexts (`EHUB_CACHE_QUEUE_ENTRIES`); that only delays the empty-queue
  case. The expand is explored only while it fits in `MaxEntries`.
- MessageParsing keeps `NUMBER_OF_MESSAGE_BULK` at 3, against 8 in the code.
  The round-robin only matters once more read requests are outstanding than
  there are contexts. The passing run keeps to one read per transfer, so it
  shows that below the pool size every read is answered. One transfer with
  more read requests than contexts does rewrite a buffer in flight: a
  4096-byte bulk buffer holds up to 341 requests. That case is listed under
  `hazards` at `ehub_message.c:68` and has no run of its own. The four transfers cover every branch of
  `MESSAGE_GetType`, a length that needs the roundup, an end marker before
  further messages, both address checks and both states of the init flag.

- HostController allows one lost write and no failed read in its run. A
  failed read latches the error, and after that every access returns
  all-ones, so it can only end the start-up with -ENODEV. The three
  initial states cover a fresh and a left-running controller.
- Lifecycle uses two URBs per loop, against 8, 8 and 6 in the code. Two are
  enough for a failure after one slot was filled. It allows one failure, two
  suspends and two completions: probe, suspend, a failed resume and the
  second suspend or the disconnect.

The runs set `CHECK_DEADLOCK FALSE`. In `HostController` the start-up and
shut-down sequence ends, in `Finished`. In the other modules, once the bounded calls are done
and the pipes are drained, the driver really is idle. Progress is checked
instead by `RegisterCallsReturn`.

Symmetry is not used, because the runs check liveness.

## Not modelled, and why

- Most of `xhci.c` is the upstream host driver: its ring, command, endpoint,
  port and hub code. That code's state is upstream data structures, and its
  effects on this repository's code are the readl/writel and cache calls
  modelled elsewhere. Only the start-up and shut-down path is modelled
  (`HostController`). `ehub_xhci_suspend` and `ehub_xhci_resume` are exported
  but nothing calls them.
- Liveness under signals has no run. A signal in `down_interruptible` is
  `DownInterrupted`, which only `SignalSpec` (the `register_signal_race`
  run) takes. The passing `register_access` run models the xHCI callers,
  which are kernel threads and get no signals. A signal also breaks mutual
  exclusion (that run's violation), so `RegisterCallsReturn` with signals
  would check a driver already known to be broken there.
- `ehub_register.c` is a synchronous control-pipe access with no shared state.
- Tracing has no state.
- `ehub_delayed_cache_write` is compiled only with `USE_DELAYED_CACHE_MODE`.
- `ehub_xhci_cache_block_free_by_urb` would take `cache_list_lock` a second
  time inside `ehub_xhci_cache_block_free`. No block is ever tagged with an
  URB in this build, though: the tagging code is under `USE_DATA_CACHE_MODE`,
  which is not defined. So the scan never matches and the self-deadlock
  cannot happen.
- The stream/command choice of the doorbell in `URB_CompletionRoutine_Cache`
  is not modelled. The ring has one doorbell.
- In `MessageParsing`, the interrupt-in and isochronous message loops run
  the same completion routine into the same work queue as the bulk-in loop,
  which is the one modelled. `Lifecycle` models the start, stop and free of
  all three loops. The isochronous packet coalescing (packets with a bad status are
  skipped) is not modelled.
- `EMBEDDED_REGISTER_Write` takes the completion's notification as success
  even when the transfer failed, because `UrbCompletionStatus` is never read.
  `EmbeddedRegister` has this behaviour, but it does not hold register
  values on the device. `HostController` does hold them, and its run shows
  the consequence for the controller reset.
- The error flags are sticky: nothing clears them, and no recovery is
  promised, so no property states one. `DoorbellPool` latches the flags and
  keeps the gate closed afterwards.
- URB/work-item allocation failures: `ASSERT` is empty, so a failed `kzalloc`
  is a NULL dereference, which is outside what a model can say. This covers
  `WORK_ITEM_Create` in the bulk-in completion and the URB contexts that
  probe only ASSERTs.
- Port-status events. `ehub_xhci_queue_port_status_event` is called from the
  upstream ring code. Its delayed work keeps the `xhci` pointer, and
  `ehub_xhci_remove` does not cancel it. `Lifecycle` makes
  `ehub_xhci_remove` one step, so the window between `kfree(xhci)` and
  `IsUsbHcdInvalid = 1` is not split. Both are listed under `hazards`.
- The unused work items of `ehub_work_item.c`
  (`WORK_ITEM_Process_GenericBulkOutUrbSubmit`, `_RegisterRead`,
  `_EventTrb`) are never created anywhere.
- The cycle-bit loop of `EMBEDDED_CACHE_Write` steps `trb` by
  `sizeof(struct xhci_link_trb)` TRBs, not one. It is listed as a hazard. It
  is a one-step arithmetic error in the bytes written, which `TrbCache` does
  not model.

## Plan

`EmbeddedRegister`, `DoorbellPool`,
`TrbCache`, `MessageParsing`, `Lifecycle` (its safety violation) and
`HostController` (its violation) are written. Next, in this order:

1. `Lifecycle` passing runs. After the failed-start bug, the remaining
   properties to check are:
   - no URB is submitted after its loop was stopped;
   - no completion runs on a freed device context once probe has succeeded.
2. A refinement of `DoorbellPool` to an abstract pool was considered and
   set aside. The list membership of a context mid-move is only definable
   through a ghost updated at the last pointer store, so the mapping would
   check the protocol that `TakesIdleContext` already checks, and not the
   pointers.
3. The run cap is reached (12 runs), so further properties must join an
   existing run's configuration rather than add runs.
4. `HostController` holds a passing configuration (no lost write, one
   failed read) in which `InitReadyAfterReset` holds. Once a run slot is
   free, the first properties for it are:
   - after `usb_add_hcd` succeeds, RUN and EIE are set and the controller
     runs;
   - after `.stop`, the controller is halted.
