--------------------------- MODULE MessageParsing ---------------------------
(***************************************************************************)
(* The inbound half of the FL6000 embedded host link: the bulk-in message *)
(* loop URB_CompletionRoutine_GetMessage (ehub_urb.c), the ordered work   *)
(* queue running WORK_ITEM_Process_MessageHandle (ehub_work_item.c), the  *)
(* parser MESSAGE_Parsing / MESSAGE_GetType / MESSAGE_Handle and the four *)
(* message handlers (ehub_message.c).                                     *)
(*                                                                         *)
(* A buffer is a sequence of 32-bit words.  A header word is a record of  *)
(* the EMBEDDED_GENERIC_HEADER / EMBEDDED_MEMORY_COMMAND bitfields the    *)
(* parser and the handlers read; its field Address stands for the address *)
(* words (AddressLow/AddressHigh) that follow a memory header.  Every     *)
(* other word of a message is a zero word.  The parser advances by        *)
(* roundup(messageLength, 4), so it only ever reads whole words.          *)
(***************************************************************************)
EXTENDS Integers, Sequences, SequencesExt, FiniteSets

CONSTANTS
  NUMBER_OF_MESSAGE_BULK, \* message-in URBs, and read-completion URB contexts
  Transfers,              \* the bulk-in transfers the device may send
  MaxTransfers,           \* bound on the transfers the device sends
  MaxXferErrors,          \* bound on bulk-in transfers that end in an error
  DeviceMayDetach         \* whether the device may be unplugged

ASSUME NUMBER_OF_MESSAGE_BULK \in Nat \ {0}
ASSUME MaxTransfers \in Nat /\ MaxXferErrors \in Nat
ASSUME DeviceMayDetach \in BOOLEAN

\* ehub_notification.h: the request id of the event manager's writes.
MEM_WR_TAG_EVT_MGR == 0
\* ehub_message.c: memory-write targets below this address are dropped.
EHUB_MIN_VALID_VADDR == 1048576
\* Sizes in bytes of the structures MESSAGE_GetType returns as lengths.
SizeofRegisterDataResponse == 16   \* EMBEDDED_REGISTER_DATA_RESPONSE
SizeofMemoryTransfer == 12         \* EMBEDDED_MEMORY_TRANSFER

roundup(x, y) == ((x + y - 1) \div y) * y

ZeroWord == [Read |-> 0, Write |-> 0, RegAccess |-> 0, RequestId |-> 0,
             Length |-> 0, Address |-> 0]

\* embeddedGenericHeader->Value == 0
ValueIsZero(h) == h = ZeroWord

\* MESSAGE_GetType: the header bits are tested in the code's order.
MESSAGE_GetType(h) ==
  IF h.RegAccess = 1
    THEN [type |-> "REGISTER_READ_COMPLETION",
          length |-> SizeofRegisterDataResponse]
  ELSE IF h.Read = 1
    THEN [type |-> "MEMORY_READ_COMPLETION", length |-> SizeofMemoryTransfer]
  ELSE IF h.Write = 1
    THEN [type |-> IF h.RequestId = MEM_WR_TAG_EVT_MGR
                     THEN "EVENT_TRB" ELSE "MEMORY_WRITE_COMPLETION",
          length |-> SizeofMemoryTransfer + h.Length]
  ELSE [type |-> "UNKNOWN", length |-> 0]

(***************************************************************************)
(* The device side: how the firmware lays out a transfer (spec section 6, *)
(* "Command wire format").  This is the reference the parser is checked   *)
(* against; it never uses MESSAGE_GetType.  A message is a record with    *)
(* the kind the firmware means and the header word it writes; kind "end"  *)
(* is a zero word closing a batch.                                        *)
(***************************************************************************)
WireLength(m) ==
  CASE m.kind = "register" -> 16
    [] m.kind = "read"     -> 12
    [] m.kind \in {"event", "write"} -> 12 + m.hdr.Length
    [] m.kind = "end"      -> 4

WireType == [register |-> "REGISTER_READ_COMPLETION",
             read |-> "MEMORY_READ_COMPLETION",
             event |-> "EVENT_TRB", write |-> "MEMORY_WRITE_COMPLETION"]

\* Each message is padded to a whole number of words.
Encode(m) ==
  <<m.hdr>> \o [i \in 1..(roundup(WireLength(m), 4) \div 4 - 1) |-> ZeroWord]

EncodeTransfer(t) == FlattenSeq([i \in 1..Len(t) |-> Encode(t[i])])

\* The dispatches the firmware means a transfer to cause, from byte offset
\* off: one per message up to the first end marker.
RECURSIVE Expected(_, _)
Expected(t, off) ==
  IF t = <<>> \/ Head(t).kind = "end" THEN <<>>
  ELSE <<[type |-> WireType[Head(t).kind], at |-> off,
          end |-> off + WireLength(Head(t))]>>
       \o Expected(Tail(t), off + roundup(WireLength(Head(t)), 4))

-----------------------------------------------------------------------------
VARIABLES
  armed,            \* UrbContextMessageBulk URBs submitted and waiting
  workQueue,        \* WorkItemQueue: [n, msgs, buf, len] per work item
  parsingLength,    \* MESSAGE_Parsing's offset into Head(workQueue).buf
  CurrentEmbeddedMemoryReadCompletionUrbContextIndex,
  ctxBusy,          \* read-completion URB i is in flight on bulk-out
  ctxBuf,           \* the read request whose answer is in context i's buffer
  outQ,             \* read-completion URBs in flight, in submission order
  CompletionEventEmbeddedRegisterRead, \* done-count of the completion
  eventsHandled,    \* event TRBs passed to ehub_xhci_handle_event
  hostWrites,       \* memory writes applied by probe_kernel_write
  IsEhubXhciInitReady,
  detached,         \* the device is unplugged (the error gate is closed)
  transfers,        \* transfers the device has sent
  xferErrorsLeft,
  \* ghosts
  got,              \* dispatches made on the work item being parsed
  done,             \* the last work item the worker finished
  ctxSubmitted,     \* the request context i was last submitted to answer
  readsHandled,     \* read requests that reached URB_Submit
  readsAnswered     \* read-completion URBs the device has taken

loopVars == <<armed, transfers, xferErrorsLeft>>
parseVars == <<workQueue, parsingLength, got, done>>
readVars == <<CurrentEmbeddedMemoryReadCompletionUrbContextIndex, ctxBusy,
              ctxBuf, outQ, ctxSubmitted, readsHandled, readsAnswered>>
handlerVars == <<readVars, CompletionEventEmbeddedRegisterRead,
                 eventsHandled, hostWrites>>
vars == <<loopVars, parseVars, handlerVars, IsEhubXhciInitReady, detached>>

Ctxs == 0..(NUMBER_OF_MESSAGE_BULK - 1)
NoRequest == <<0, 0>>
NoItem == [n |-> 0, msgs |-> <<>>, len |-> 0, got |-> <<>>, stop |-> "none",
           whole |-> TRUE]

\* The error gate: only the detach closes it in this module.
DEVICECONTEXT_ErrorCheckFails == detached

\* MODULE_UsbInterfaceConnect creates the read-completion contexts and sets
\* the index to 0; MESSAGE_StartLoopBulk submits every message URB.
Init ==
  /\ armed = NUMBER_OF_MESSAGE_BULK
  /\ workQueue = <<>>
  /\ parsingLength = 0
  /\ CurrentEmbeddedMemoryReadCompletionUrbContextIndex = 0
  /\ ctxBusy = [i \in Ctxs |-> FALSE]
  /\ ctxBuf = [i \in Ctxs |-> NoRequest]
  /\ ctxSubmitted = [i \in Ctxs |-> NoRequest]
  /\ outQ = <<>>
  /\ CompletionEventEmbeddedRegisterRead = 0
  /\ eventsHandled = 0
  /\ hostWrites = 0
  /\ IsEhubXhciInitReady = FALSE
  /\ detached = FALSE
  /\ transfers = 0
  /\ xferErrorsLeft = MaxXferErrors
  /\ got = <<>>
  /\ done = NoItem
  /\ readsHandled = 0
  /\ readsAnswered = 0

-----------------------------------------------------------------------------
(***************************************************************************)
(* The message loop.                                                      *)
(***************************************************************************)

\* WORK_ITEM_Create: a zeroed work item whose data buffer holds the
\* received words (the caller copies them in; the length is in bytes).
WORK_ITEM_Create(n, t, buf, whole) ==
  [n |-> n, msgs |-> t, buf |-> buf, len |-> 4 * Len(buf), whole |-> whole]

\* The device sends transfer t into one of the armed message URBs and the
\* USB core runs URB_CompletionRoutine_GetMessage.  The transfer ends "ok"
\* with all its words, or with an error after k of them.  A closed gate
\* exits before anything; otherwise received bytes are copied into a new
\* work item on the ordered queue, whatever Urb->status is, and the URB is
\* resubmitted only when Urb->status is 0.
URB_CompletionRoutine_GetMessage ==
  /\ ~detached
  /\ armed > 0
  /\ transfers < MaxTransfers
  /\ \E t \in Transfers, st \in {"ok", "err"} :
     LET enc == EncodeTransfer(t) IN
     \E k \in IF st = "ok" THEN {Len(enc)} ELSE 0..(Len(enc) - 1) :
       /\ st = "err" => xferErrorsLeft > 0
       /\ xferErrorsLeft' = IF st = "err" THEN xferErrorsLeft - 1
                                          ELSE xferErrorsLeft
       /\ transfers' = transfers + 1
       /\ workQueue' =
            IF k > 0
              THEN Append(workQueue,
                          WORK_ITEM_Create(transfers + 1, t, SubSeq(enc, 1, k),
                                           st = "ok"))
              ELSE workQueue
       /\ armed' = IF st = "ok" THEN armed ELSE armed - 1
  /\ UNCHANGED <<parsingLength, got, done, handlerVars, IsEhubXhciInitReady,
                 detached>>

\* After the unplug the USB core gives every armed URB back with
\* -ESHUTDOWN; the completion routine's gate check exits without a
\* resubmit.
URB_CompletionRoutine_GetMessage_Shutdown ==
  /\ detached
  /\ armed > 0
  /\ armed' = armed - 1
  /\ UNCHANGED <<transfers, xferErrorsLeft, parseVars, handlerVars,
                 IsEhubXhciInitReady, detached>>

-----------------------------------------------------------------------------
(***************************************************************************)
(* The message handlers.  Each is called by MESSAGE_Handle with the       *)
(* header h found at byte offset p of work item item.                     *)
(***************************************************************************)

\* Stash the value and signal the register-read completion.
MESSAGE_HandleMessage_EMBEDDED_REGISTER_READ_COMPLETION ==
  /\ CompletionEventEmbeddedRegisterRead' =
       CompletionEventEmbeddedRegisterRead + 1
  /\ UNCHANGED <<readVars, eventsHandled, hostWrites>>

\* Mutant: the index is advanced without the %= NUMBER_OF_MESSAGE_BULK.
ReadCompletionIndexNoWrap(item, h, p) ==
  LET i == CurrentEmbeddedMemoryReadCompletionUrbContextIndex
      req == <<item.n, p>>
      probed == h.Address # 0
  IN /\ CurrentEmbeddedMemoryReadCompletionUrbContextIndex' = i + 1
     /\ ctxBuf' = [ctxBuf EXCEPT ![i] = req]
     /\ readsHandled' = IF probed THEN readsHandled + 1 ELSE readsHandled
     /\ IF probed /\ ~ctxBusy[i]
          THEN /\ ctxBusy' = [ctxBusy EXCEPT ![i] = TRUE]
               /\ ctxSubmitted' = [ctxSubmitted EXCEPT ![i] = req]
               /\ outQ' = Append(outQ, i)
          ELSE UNCHANGED <<ctxBusy, ctxSubmitted, outQ>>
     /\ UNCHANGED <<readsAnswered, CompletionEventEmbeddedRegisterRead,
                    eventsHandled, hostWrites>>

\* Take the next read-completion context round-robin under the mutex,
\* copy the header into its buffer, probe_kernel_read the requested bytes
\* after it (the NULL page is never mapped, so a request for address 0
\* fails), and URB_Submit it.  Nothing checks that the context's URB has
\* come back from its previous submission: usb_submit_urb then refuses it
\* with -EBUSY, after the buffer has been rewritten.
MESSAGE_HandleMessage_EMBEDDED_MEMORY_READ_COMPLETION(item, h, p) ==
  LET i == CurrentEmbeddedMemoryReadCompletionUrbContextIndex
      req == <<item.n, p>>
      probed == h.Address # 0
  IN /\ CurrentEmbeddedMemoryReadCompletionUrbContextIndex' =
          (i + 1) % NUMBER_OF_MESSAGE_BULK
     /\ ctxBuf' = [ctxBuf EXCEPT ![i] = req]
     /\ readsHandled' = IF probed THEN readsHandled + 1 ELSE readsHandled
     /\ IF probed /\ ~ctxBusy[i]
          THEN /\ ctxBusy' = [ctxBusy EXCEPT ![i] = TRUE]
               /\ ctxSubmitted' = [ctxSubmitted EXCEPT ![i] = req]
               /\ outQ' = Append(outQ, i)
          ELSE UNCHANGED <<ctxBusy, ctxSubmitted, outQ>>
     /\ UNCHANGED <<readsAnswered, CompletionEventEmbeddedRegisterRead,
                    eventsHandled, hostWrites>>

\* Hand the event TRB to the xHCI driver once ehub_xhci_reset_device has set
\* IsEhubXhciInitReady; before that it is dropped.
MESSAGE_HandleMessage_EMBEDDED_EVENT_TRB ==
  /\ eventsHandled' = IF IsEhubXhciInitReady THEN eventsHandled + 1
                                              ELSE eventsHandled
  /\ UNCHANGED <<readVars, CompletionEventEmbeddedRegisterRead, hostWrites>>

\* Drop a write aimed below EHUB_MIN_VALID_VADDR; otherwise
\* probe_kernel_write the payload to the target.
MESSAGE_HandleMessage_EMBEDDED_MEMORY_WRITE_COMPLETION(h) ==
  /\ hostWrites' = IF h.Address < EHUB_MIN_VALID_VADDR THEN hostWrites
                                                        ELSE hostWrites + 1
  /\ UNCHANGED <<readVars, CompletionEventEmbeddedRegisterRead,
                 eventsHandled>>

\* MESSAGE_Handle: the switch on the message type.  UNKNOWN never reaches
\* it, MESSAGE_Parsing breaks first.
MESSAGE_Handle(item, h, p, type) ==
  CASE type = "REGISTER_READ_COMPLETION" ->
         MESSAGE_HandleMessage_EMBEDDED_REGISTER_READ_COMPLETION
    [] type = "MEMORY_READ_COMPLETION" ->
         MESSAGE_HandleMessage_EMBEDDED_MEMORY_READ_COMPLETION(item, h, p)
    [] type = "EVENT_TRB" ->
         MESSAGE_HandleMessage_EMBEDDED_EVENT_TRB
    [] type = "MEMORY_WRITE_COMPLETION" ->
         MESSAGE_HandleMessage_EMBEDDED_MEMORY_WRITE_COMPLETION(h)

-----------------------------------------------------------------------------
(***************************************************************************)
(* The worker of the ordered work queue.  One step is one iteration of    *)
(* MESSAGE_Parsing's do-while loop on the oldest work item; when the loop *)
(* ends, WORK_ITEM_Destroy removes the item.                              *)
(***************************************************************************)

\* The loop ends for reason stop after the dispatches g.
EndParsing(item, g, stop) ==
  /\ workQueue' = Tail(workQueue)
  /\ parsingLength' = 0
  /\ got' = <<>>
  /\ done' = [n |-> item.n, msgs |-> item.msgs, len |-> item.len, got |-> g,
              stop |-> stop, whole |-> item.whole]

\* The offset of the next header: the message rounded up to whole words.
\* Mutant: the next offset without the roundup to a 4-byte boundary.
NextParsingLengthNoRoundup(p, messageLength) == p + messageLength
NextParsingLength(p, messageLength) == p + roundup(messageLength, 4)

MESSAGE_Parsing ==
  /\ workQueue # <<>>
  /\ LET item == Head(workQueue)
         p == parsingLength
         h == item.buf[p \div 4 + 1]
         mt == MESSAGE_GetType(h)
         g == Append(got, [type |-> mt.type, at |-> p, end |-> p + mt.length])
         np == NextParsingLength(p, mt.length)
     IN IF ValueIsZero(h) \/ mt.type = "UNKNOWN" \/ DEVICECONTEXT_ErrorCheckFails
          THEN /\ EndParsing(item, got,
                    IF DEVICECONTEXT_ErrorCheckFails /\ ~ValueIsZero(h)
                       /\ mt.type # "UNKNOWN" THEN "gate" ELSE "end")
               /\ UNCHANGED handlerVars
          ELSE /\ MESSAGE_Handle(item, h, p, mt.type)
               /\ IF np < item.len
                    THEN /\ parsingLength' = np
                         /\ got' = g
                         /\ UNCHANGED <<workQueue, done>>
                    ELSE EndParsing(item, g, "end")
  /\ UNCHANGED <<loopVars, IsEhubXhciInitReady, detached>>

-----------------------------------------------------------------------------
(***************************************************************************)
(* USB core and environment.                                              *)
(***************************************************************************)

\* The oldest read-completion URB on the bulk-out pipe finishes: the
\* device takes the buffer as it is now, and URB_CompletionRoutine_Simple
\* runs (it only signals the context's event, which nobody waits on).
URB_CompletionRoutine_Simple ==
  /\ outQ # <<>>
  /\ outQ' = Tail(outQ)
  /\ ctxBusy' = [ctxBusy EXCEPT ![Head(outQ)] = FALSE]
  /\ readsAnswered' = IF detached THEN readsAnswered ELSE readsAnswered + 1
  /\ UNCHANGED <<CurrentEmbeddedMemoryReadCompletionUrbContextIndex, ctxBuf,
                 ctxSubmitted, readsHandled,
                 CompletionEventEmbeddedRegisterRead, eventsHandled,
                 hostWrites, loopVars, parseVars, IsEhubXhciInitReady,
                 detached>>

\* ehub_xhci_reset_device sets IsEhubXhciInitReady once ehub_xhci_init
\* has succeeded.
EhubXhciInitReady ==
  /\ ~IsEhubXhciInitReady
  /\ IsEhubXhciInitReady' = TRUE
  /\ UNCHANGED <<loopVars, parseVars, handlerVars, detached>>

Detach ==
  /\ DeviceMayDetach
  /\ ~detached
  /\ detached' = TRUE
  /\ UNCHANGED <<loopVars, parseVars, handlerVars, IsEhubXhciInitReady>>

Next ==
  \/ URB_CompletionRoutine_GetMessage
  \/ URB_CompletionRoutine_GetMessage_Shutdown
  \/ MESSAGE_Parsing
  \/ URB_CompletionRoutine_Simple
  \/ EhubXhciInitReady
  \/ Detach

\* The ordered work queue runs its items and the USB core completes the
\* submitted URBs; what the device sends, and when, is its own choice.
Fairness ==
  /\ WF_vars(MESSAGE_Parsing)
  /\ WF_vars(URB_CompletionRoutine_Simple)

Spec == Init /\ [][Next]_vars /\ Fairness

-----------------------------------------------------------------------------
TypeOK ==
  /\ armed \in 0..NUMBER_OF_MESSAGE_BULK
  /\ parsingLength \in Nat
  /\ CurrentEmbeddedMemoryReadCompletionUrbContextIndex \in Ctxs
  /\ ctxBusy \in [Ctxs -> BOOLEAN]
  /\ outQ \in Seq(Ctxs)
  /\ IsInjective(outQ)
  /\ \A i \in Ctxs : ctxBusy[i] <=> i \in ToSet(outQ)
  /\ transfers \in 0..MaxTransfers
  /\ xferErrorsLeft \in 0..MaxXferErrors
  /\ Len(workQueue) <= transfers
  /\ readsAnswered <= readsHandled

\* The dispatches of the work item being parsed, and of the last one
\* finished.
Parses == <<[got |-> got,
             item |-> IF workQueue = <<>> THEN NoItem ELSE Head(workQueue)],
            [got |-> done.got, item |-> done]>>

(***************************************************************************)
(* Safety.                                                                *)
(***************************************************************************)

\* MESSAGE_Parsing, MESSAGE_GetType and the roundup of every message
\* length dispatch the messages of a transfer in the order the firmware
\* packed them, each at the offset it was written at and with the length
\* it was written with (spec section 8: N concatenated messages give N
\* dispatches in order).  A work item whose transfer arrived whole and
\* whose parse the error gate did not cut gets every message up to the
\* end marker.
ParsedInOrder ==
  /\ \A x \in {1, 2} : IsPrefix(Parses[x].got, Expected(Parses[x].item.msgs, 0))
  /\ done.whole /\ done.stop # "gate" => done.got = Expected(done.msgs, 0)

\* No handler reads past the bytes of its work item: every message
\* MESSAGE_Parsing dispatches ends within the DataBufferLength that
\* URB_CompletionRoutine_GetMessage copied from Urb->actual_length.
ParseInBounds ==
  \A x \in {1, 2} : \A r \in ToSet(Parses[x].got) : r.end <= Parses[x].item.len

====
