---------------------------- MODULE DoorbellPool ----------------------------
(***************************************************************************)
(* The pool of doorbell URB contexts: EMBEDDED_REGISTER_Write_Doorbell    *)
(* (ehub_embedded_register.c), ehub_xhci_doorbell_expand (ehub_module.c)  *)
(* and URB_CompletionRoutine_Doorbell (ehub_urb.c).                       *)
(*                                                                         *)
(* The contexts live on two kernel lists, doorbell_list_free and          *)
(* doorbell_list_busy.  Write_Doorbell manipulates them under             *)
(* SpinLockEmbeddedDoorbellWrite; the completion routine moves its        *)
(* context back to the free list without that lock, from the USB giveback *)
(* context on another CPU.  Because the two are not serialised, every     *)
(* list primitive is modelled by its individual pointer loads and stores  *)
(* (include/linux/list.h), so the unlocked move can interleave with the   *)
(* locked ones at the granularity the hardware allows.                    *)
(***************************************************************************)
EXTENDS Integers, SequencesExt, FiniteSets

CONSTANTS
  Writers,      \* threads calling ehub_xhci_writel_doorbell
  Ctxs,         \* URB contexts that may ever be allocated
  InitCtxs,     \* the contexts MODULE_UsbInterfaceConnect puts on the free list
  MaxWrites,    \* bound on the number of doorbell writes
  SMP           \* the giveback context may run on another CPU than a writer

ASSUME InitCtxs \subseteq Ctxs /\ MaxWrites \in Nat /\ SMP \in BOOLEAN

FreeHead == "doorbell_list_free"
BusyHead == "doorbell_list_busy"
Heads == {FreeHead, BusyHead}
Nodes == Heads \cup Ctxs

\* ehub_xhci_doorbell_expand(DeviceContext, 4, GFP_ATOMIC)
EXPAND_ENTRIES == 4

\* No context is taken by the writer / no node read yet.
None == "none"

\* The completion routines of the doorbell pipe run one after another in
\* the giveback context; this is its name among the list actors.
Giveback == "giveback"
Actors == Writers \cup {Giveback}

VARIABLES
  next, prev,   \* the list_head pointers of every head and context
  allocated,    \* contexts created by URB_Create
  lockHolder,   \* holder of SpinLockEmbeddedDoorbellWrite, or None
  wpc,          \* per writer: its step in Write_Doorbell
  urbContext,   \* per writer: the context it took (None before)
  newEntries,   \* per writer: the loop index of ehub_xhci_doorbell_expand
  prog,         \* per actor: pointer steps left of its current list operation
  tmp,          \* per actor: the pointers that operation has loaded
  pipe,         \* contexts whose URB is submitted, in endpoint order
  EmbeddedRegisterError,
  UrbContextAllocationError,
  writesLeft

vars == <<next, prev, allocated, lockHolder, wpc, urbContext, newEntries,
          prog, tmp, pipe, EmbeddedRegisterError, UrbContextAllocationError,
          writesLeft>>

listVars == <<next, prev>>
gateVars == <<EmbeddedRegisterError, UrbContextAllocationError>>

\* DEVICECONTEXT_ErrorCheck, reduced to the two error flags this module
\* latches: a failed doorbell submit and a failed kzalloc in URB_Create.
DEVICECONTEXT_ErrorCheckFails ==
  EmbeddedRegisterError \/ UrbContextAllocationError

-----------------------------------------------------------------------------
(***************************************************************************)
(* The list primitives of include/linux/list.h as sequences of pointer    *)
(* steps.  A step [op, e, h] is                                            *)
(*   "del1": load entry->prev, entry->next; store next->prev = prev       *)
(*   "del2": store prev->next = next                  (__list_del)        *)
(*   "add1": load head->prev                                              *)
(*   "add2": store head->prev = new, new->next = head, new->prev = prev   *)
(*   "add3": store prev->next = new                   (__list_add)        *)
(***************************************************************************)
Step(op, e, h) == [op |-> op, e |-> e, h |-> h]

list_add_tail(e, h) ==
  <<Step("add1", e, h), Step("add2", e, h), Step("add3", e, h)>>

\* list_move_tail = __list_del_entry (no poisoning) + list_add_tail.
list_move_tail(e, h) ==
  <<Step("del1", e, h), Step("del2", e, h)>> \o list_add_tail(e, h)

\* An actor is between two list operations.
Settled(a) == prog[a] = <<>>

\* On a uniprocessor the completion routine runs in interrupt context to
\* its end: no writer step happens while it is in the middle of its move.
CanRun(a) == SMP \/ a = Giveback \/ Settled(Giveback)

\* Actor a performs the next pointer step of its list operation.
ListStep(a) ==
  LET s == Head(prog[a])
      t == tmp[a]
  IN
  /\ prog[a] # <<>>
  /\ CanRun(a)
  /\ prog' = [prog EXCEPT ![a] = Tail(@)]
  /\ CASE s.op = "del1" ->
            /\ tmp' = [tmp EXCEPT ![a] = [p |-> prev[s.e], n |-> next[s.e]]]
            /\ prev' = [prev EXCEPT ![next[s.e]] = prev[s.e]]
            /\ UNCHANGED next
       [] s.op = "del2" ->
            /\ next' = [next EXCEPT ![t.p] = t.n]
            /\ UNCHANGED <<prev, tmp>>
       [] s.op = "add1" ->
            /\ tmp' = [tmp EXCEPT ![a].p = prev[s.h]]
            /\ UNCHANGED <<next, prev>>
       [] s.op = "add2" ->
            /\ prev' = [prev EXCEPT ![s.h] = s.e, ![s.e] = t.p]
            /\ next' = [next EXCEPT ![s.e] = s.h]
            /\ UNCHANGED tmp
       [] s.op = "add3" ->
            /\ next' = [next EXCEPT ![t.p] = s.e]
            /\ UNCHANGED <<prev, tmp>>
  /\ UNCHANGED <<allocated, lockHolder, wpc, urbContext, newEntries, pipe,
                 gateVars, writesLeft>>

\* list_empty / list_first_entry read head->next.
ListEmpty(h) == next[h] = h

\* The contexts reached from head h by following next, at most one lap of
\* all nodes long; a walk that does not come back to h ends in BadNode.
BadNode == "bad"

RECURSIVE WalkFrom(_, _, _)
WalkFrom(h, x, k) ==
  IF x = h THEN <<>>
  ELSE IF k = 0 \/ x \notin Ctxs THEN <<BadNode>>
  ELSE <<x>> \o WalkFrom(h, next[x], k - 1)

ListEntries(h) == WalkFrom(h, next[h], Cardinality(Ctxs))

\* A circular doubly linked list: the walk returns to its head, visits no
\* node twice and every prev pointer is the inverse of a next pointer.
WellFormed(h) ==
  LET w == ListEntries(h) IN
  /\ BadNode \notin ToSet(w)
  /\ Len(w) = Cardinality(ToSet(w))
  /\ \A x \in {h} \cup ToSet(w) : prev[next[x]] = x

-----------------------------------------------------------------------------
(***************************************************************************)
(* MODULE_UsbInterfaceConnect: ehub_xhci_doorbell_expand(..., GFP_KERNEL) *)
(* puts InitCtxs on the free list; every other list_head is empty.        *)
(***************************************************************************)
InitOrder == SetToSeq(InitCtxs)

Init ==
  LET n == Len(InitOrder)
      ring == <<FreeHead>> \o InitOrder  \* ring[i+1] follows ring[i]
      Succ(i) == ring[(i % (n + 1)) + 1]
      Pred(i) == ring[((i - 2 + n + 1) % (n + 1)) + 1]
      Pos(x) == CHOOSE i \in 1..(n + 1) : ring[i] = x
  IN
  /\ next = [x \in Nodes |-> IF x \in ToSet(ring) THEN Succ(Pos(x)) ELSE x]
  /\ prev = [x \in Nodes |-> IF x \in ToSet(ring) THEN Pred(Pos(x)) ELSE x]
  /\ allocated = InitCtxs
  /\ lockHolder = None
  /\ wpc = [w \in Writers |-> "idle"]
  /\ urbContext = [w \in Writers |-> None]
  /\ newEntries = [w \in Writers |-> 0]
  /\ prog = [a \in Actors |-> <<>>]
  /\ tmp = [a \in Actors |-> [p |-> None, n |-> None]]
  /\ pipe = <<>>
  /\ EmbeddedRegisterError = FALSE
  /\ UrbContextAllocationError = FALSE
  /\ writesLeft = MaxWrites

-----------------------------------------------------------------------------
(***************************************************************************)
(* ehub_xhci_writel_doorbell and EMBEDDED_REGISTER_Write_Doorbell.        *)
(***************************************************************************)
writerVars == <<wpc, urbContext, newEntries>>

\* ehub_xhci_writel_doorbell: DEVICECONTEXT_ErrorCheck, then the call.
WriteCall(w) ==
  /\ CanRun(w)
  /\ wpc[w] = "idle"
  /\ writesLeft > 0
  /\ writesLeft' = writesLeft - 1
  /\ wpc' = [wpc EXCEPT ![w] = IF DEVICECONTEXT_ErrorCheckFails THEN "idle"
                                                    ELSE "lock"]
  /\ UNCHANGED <<listVars, allocated, lockHolder, urbContext, newEntries,
                 prog, tmp, pipe, gateVars>>

\* spin_lock_irqsave(&SpinLockEmbeddedDoorbellWrite).
Lock(w) ==
  /\ CanRun(w)
  /\ wpc[w] = "lock"
  /\ lockHolder = None
  /\ lockHolder' = w
  /\ wpc' = [wpc EXCEPT ![w] = "check"]
  /\ UNCHANGED <<listVars, allocated, urbContext, newEntries, prog, tmp, pipe,
                 gateVars, writesLeft>>

\* if (list_empty(&doorbell_list_free)) expand.
CheckFree(w) ==
  /\ CanRun(w)
  /\ wpc[w] = "check"
  /\ wpc' = [wpc EXCEPT ![w] = IF ListEmpty(FreeHead) THEN "expand" ELSE "first"]
  /\ newEntries' = [newEntries EXCEPT ![w] = 0]
  /\ UNCHANGED <<listVars, allocated, lockHolder, urbContext, prog, tmp, pipe,
                 gateVars, writesLeft>>

\* One iteration of the loop of ehub_xhci_doorbell_expand: URB_Create
\* (its list_head initialised empty) and list_add_tail on the free list.
\* Ctxs bounds the memory GFP_ATOMIC can get.
ExpandOne(w) ==
  /\ CanRun(w)
  /\ wpc[w] = "expand"
  /\ Settled(w)
  /\ newEntries[w] < EXPAND_ENTRIES
  /\ \E c \in Ctxs \ allocated :
       /\ allocated' = allocated \cup {c}
       /\ prog' = [prog EXCEPT ![w] = list_add_tail(c, FreeHead)]
  /\ newEntries' = [newEntries EXCEPT ![w] = @ + 1]
  /\ UNCHANGED <<listVars, lockHolder, wpc, urbContext, tmp, pipe,
                 gateVars, writesLeft>>

\* The loop of ehub_xhci_doorbell_expand ended before EXPAND_ENTRIES
\* because URB_Create returned NULL.  When its kzalloc of the context
\* failed, URB_Create latched ErrorFlags.UrbContextAllocationError; when
\* usb_alloc_coherent or usb_alloc_urb failed, it set a flag that
\* DEVICECONTEXT_ErrorCheck does not read.
URB_CreateFailure(w) ==
  IF newEntries[w] < EXPAND_ENTRIES
    THEN \E kzallocFailed \in BOOLEAN :
           UrbContextAllocationError' =
             (UrbContextAllocationError \/ kzallocFailed)
    ELSE UNCHANGED UrbContextAllocationError

\* Faulty variant of ExpandDone: -ENOBUFS returned without the unlock.
ExpandDoneKeepLock(w) ==
  /\ CanRun(w)
  /\ wpc[w] = "expand"
  /\ Settled(w)
  /\ newEntries[w] = EXPAND_ENTRIES \/ allocated = Ctxs
  /\ URB_CreateFailure(w)
  /\ wpc' = [wpc EXCEPT ![w] = IF newEntries[w] < 1 THEN "idle" ELSE "first"]
  /\ UNCHANGED <<listVars, allocated, lockHolder, urbContext, newEntries,
                 prog, tmp, pipe, EmbeddedRegisterError, writesLeft>>

\* Faulty variant of ExpandDone: no return when nothing was added.
ExpandDoneNoReturn(w) ==
  /\ CanRun(w)
  /\ wpc[w] = "expand"
  /\ Settled(w)
  /\ newEntries[w] = EXPAND_ENTRIES \/ allocated = Ctxs
  /\ wpc' = [wpc EXCEPT ![w] = "first"]
  /\ UNCHANGED <<listVars, allocated, lockHolder, urbContext, newEntries,
                 prog, tmp, pipe, gateVars, writesLeft>>

\* The loop ends after EXPAND_ENTRIES or when URB_Create returns NULL.
\* new_entries < 1: unlock and return -ENOBUFS; a kzalloc failure of
\* URB_Create has latched UrbContextAllocationError either way.
ExpandDone(w) ==
  /\ CanRun(w)
  /\ wpc[w] = "expand"
  /\ Settled(w)
  /\ newEntries[w] = EXPAND_ENTRIES \/ allocated = Ctxs
  /\ URB_CreateFailure(w)
  /\ IF newEntries[w] < 1
       THEN /\ wpc' = [wpc EXCEPT ![w] = "idle"]
            /\ lockHolder' = None
       ELSE /\ wpc' = [wpc EXCEPT ![w] = "first"]
            /\ UNCHANGED lockHolder
  /\ UNCHANGED <<listVars, allocated, urbContext, newEntries, prog, tmp, pipe,
                 EmbeddedRegisterError, writesLeft>>

\* Faulty variant of TakeFirst: the entry is moved back to the free list.
TakeFirstToFree(w) ==
  /\ CanRun(w)
  /\ wpc[w] = "first"
  /\ urbContext' = [urbContext EXCEPT ![w] = next[FreeHead]]
  /\ IF ListEmpty(FreeHead)
       THEN /\ wpc' = [wpc EXCEPT ![w] = "garbage"]
            /\ UNCHANGED prog
       ELSE /\ prog' = [prog EXCEPT ![w] = list_move_tail(next[FreeHead],
                                                          FreeHead)]
            /\ wpc' = [wpc EXCEPT ![w] = "unlock"]
  /\ UNCHANGED <<listVars, allocated, lockHolder, newEntries, tmp, pipe,
                 gateVars, writesLeft>>

\* urbContext = list_first_entry(&doorbell_list_free);
\* list_move_tail(&urbContext->list, &doorbell_list_busy).  On a free list
\* that is empty again (the unlocked completion raced the expand),
\* list_first_entry yields container_of the list head: the writer goes on
\* with a pointer into the device context ("garbage"), where the model
\* stops following it.
TakeFirst(w) ==
  /\ CanRun(w)
  /\ wpc[w] = "first"
  /\ urbContext' = [urbContext EXCEPT ![w] = next[FreeHead]]
  /\ IF ListEmpty(FreeHead)
       THEN /\ wpc' = [wpc EXCEPT ![w] = "garbage"]
            /\ UNCHANGED prog
       ELSE /\ prog' = [prog EXCEPT ![w] = list_move_tail(next[FreeHead],
                                                          BusyHead)]
            /\ wpc' = [wpc EXCEPT ![w] = "unlock"]
  /\ UNCHANGED <<listVars, allocated, lockHolder, newEntries, tmp, pipe,
                 gateVars, writesLeft>>

\* Faulty variant of Unlock: the lock is dropped before the move is done.
UnlockEarly(w) ==
  /\ CanRun(w)
  /\ wpc[w] = "unlock"
  /\ lockHolder' = None
  /\ wpc' = [wpc EXCEPT ![w] = "submit"]
  /\ UNCHANGED <<listVars, allocated, urbContext, newEntries, prog, tmp, pipe,
                 gateVars, writesLeft>>

Unlock(w) ==
  /\ CanRun(w)
  /\ wpc[w] = "unlock"
  /\ Settled(w)
  /\ lockHolder' = None
  /\ wpc' = [wpc EXCEPT ![w] = "submit"]
  /\ UNCHANGED <<listVars, allocated, urbContext, newEntries, prog, tmp, pipe,
                 gateVars, writesLeft>>

\* Fill in the command and URB_Submit.  usb_submit_urb returns -EBUSY for
\* a URB that is still in flight; a failure latches EmbeddedRegisterError
\* and leaves the context on the busy list.
SubmitDoorbell(w) ==
  LET c == urbContext[w] IN
  /\ CanRun(w)
  /\ wpc[w] = "submit"
  /\ IF c \in ToSet(pipe)
       THEN /\ EmbeddedRegisterError' = TRUE
            /\ UNCHANGED pipe
       ELSE /\ pipe' = Append(pipe, c)
            /\ UNCHANGED EmbeddedRegisterError
  /\ UNCHANGED UrbContextAllocationError
  /\ wpc' = [wpc EXCEPT ![w] = "idle"]
  /\ urbContext' = [urbContext EXCEPT ![w] = None]
  /\ UNCHANGED <<listVars, allocated, lockHolder, newEntries, prog, tmp,
                 writesLeft>>

-----------------------------------------------------------------------------
(***************************************************************************)
(* URB_CompletionRoutine_Doorbell for the oldest submitted doorbell URB.  *)
(* A closed gate returns early and leaves the context on the busy list;   *)
(* otherwise the context is moved to the free list without taking         *)
(* SpinLockEmbeddedDoorbellWrite.                                          *)
(***************************************************************************)
CompletionDoorbell ==
  /\ Settled(Giveback)
  /\ SMP \/ lockHolder = None  \* spin_lock_irqsave masks it on the same CPU
  /\ pipe # <<>>
  /\ pipe' = Tail(pipe)
  /\ prog' = IF DEVICECONTEXT_ErrorCheckFails THEN prog
             ELSE [prog EXCEPT ![Giveback] = list_move_tail(Head(pipe), FreeHead)]
  /\ UNCHANGED <<listVars, allocated, lockHolder, writerVars, tmp,
                 gateVars, writesLeft>>

Next ==
  \/ \E w \in Writers :
       \/ WriteCall(w) \/ Lock(w) \/ CheckFree(w) \/ ExpandOne(w)
       \/ ExpandDone(w) \/ TakeFirst(w) \/ Unlock(w) \/ SubmitDoorbell(w)
  \/ CompletionDoorbell
  \/ \E a \in Actors : ListStep(a)

Spec == Init /\ [][Next]_vars

\* A writer past the gate keeps running.  SpinLockEmbeddedDoorbellWrite
\* is a ticket lock, so a spinning writer gets it once it is released
\* (strong fairness); a started pointer step finishes; the USB core gives
\* every submitted doorbell URB back.
WriterSteps(w) ==
  CheckFree(w) \/ ExpandOne(w) \/ ExpandDone(w) \/ TakeFirst(w)
  \/ Unlock(w) \/ SubmitDoorbell(w)

FairSpec ==
  /\ Spec
  /\ \A w \in Writers : SF_vars(Lock(w)) /\ WF_vars(WriterSteps(w))
  /\ \A a \in Actors : WF_vars(ListStep(a))
  /\ WF_vars(CompletionDoorbell)

-----------------------------------------------------------------------------
TypeOK ==
  /\ next \in [Nodes -> Nodes]
  /\ prev \in [Nodes -> Nodes]
  /\ allocated \subseteq Ctxs
  /\ lockHolder \in Writers \cup {None}
  /\ wpc \in [Writers -> {"idle", "lock", "check", "expand", "first",
                          "unlock", "submit", "garbage"}]
  /\ urbContext \in [Writers -> Ctxs \cup {None}]
  /\ newEntries \in [Writers -> 0..EXPAND_ENTRIES]
  /\ prog \in [Actors -> Seq([op : {"del1", "del2", "add1", "add2", "add3"},
                             e : Nodes, h : Heads])]
  /\ tmp \in [Actors -> [p : Nodes \cup {None}, n : Nodes \cup {None}]]
  /\ pipe \in Seq(Ctxs)
  /\ EmbeddedRegisterError \in BOOLEAN
  /\ UrbContextAllocationError \in BOOLEAN
  /\ writesLeft \in 0..MaxWrites

\* All list operations are complete.
Quiescent == \A a \in Actors : Settled(a)

\* Whenever no list operation is half done, doorbell_list_free and
\* doorbell_list_busy are well-formed lists and every allocated context is
\* on exactly one of them (Write_Doorbell's locked moves against the
\* completion routine's unlocked move).
PoolConsistent ==
  Quiescent =>
    /\ WellFormed(FreeHead) /\ WellFormed(BusyHead)
    /\ ToSet(ListEntries(FreeHead)) \cap ToSet(ListEntries(BusyHead)) = {}
    /\ ToSet(ListEntries(FreeHead)) \cup ToSet(ListEntries(BusyHead))
         = allocated

\* Every ehub_xhci_writel_doorbell call returns: on each exit of
\* EMBEDDED_REGISTER_Write_Doorbell (-ENOBUFS from the expand, or after
\* the submit) the spinlock is released, so no writer spins on it for
\* ever, and the completion, masked while a writer holds the lock on one
\* CPU, still gets to run.
DoorbellWritesReturn ==
  \A w \in Writers : wpc[w] # "idle" ~> wpc[w] = "idle"

\* The context Write_Doorbell takes from the free list is an allocated
\* context whose URB is not in flight.
TakesIdleContext ==
  \A w \in Writers :
    wpc[w] = "submit" => urbContext[w] \in allocated \ ToSet(pipe)

====
