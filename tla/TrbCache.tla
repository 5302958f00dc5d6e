------------------------------- MODULE TrbCache -------------------------------
(***************************************************************************)
(* The TRB cache engine of xhci-ehub.c in its built configuration         *)
(* (USE_TRB_CACHE_MODE defined, USE_DELAYED_CACHE_MODE not defined):      *)
(*   ehub_xhci_cache_copy_from_ring  mirrors the part of a transfer ring   *)
(*        between cache_enqueue and enqueue into the device's cache, one  *)
(*        ehub_queue_cache_write per contiguous run of TRBs of a segment, *)
(*        the doorbell request riding on the last one;                     *)
(*   ehub_queue_cache_write  takes a cache_write_context from             *)
(*        cache_queue_free (expanding it by 4), moves it to               *)
(*        cache_queue_used and calls EMBEDDED_CACHE_Write;                 *)
(*   URB_CompletionRoutine_Cache  takes the context off cache_queue_used, *)
(*        rings the doorbell it carries and returns it to the free queue; *)
(*   ehub_xhci_cache_block_allocate[_segment] / _free  move cache blocks   *)
(*        between cache_list_free and cache_list_used.                     *)
(* Every list is touched only under cache_list_lock, so each locked       *)
(* section is one atomic step.                                             *)
(*                                                                         *)
(* A TRB's content is abstracted to a generation number: the xHCI driver  *)
(* bumps it each time it writes the TRB, and the device cache holds the   *)
(* generation last delivered to it by a successful cache transfer.        *)
(***************************************************************************)
EXTENDS Integers, SequencesExt, FiniteSets

CONSTANTS
  NSegs,        \* segments of the modelled transfer ring
  TrbsPerSeg,   \* TRBS_PER_SEGMENT; the last TRB of a segment is its link
  InitEntries,  \* cache_write_contexts made by ehub_xhci_cache_create
  MaxEntries,   \* bound on the contexts ehub_xhci_cache_work_expand makes
  NBlocks,      \* EHUB_CACHE_NUMBER_OF_BLOCKS
  MaxTrbs,      \* bound on TRBs the xHCI driver queues on the ring
  MaxCopies,    \* bound on calls of ehub_xhci_cache_copy_from_ring
  MaxBlockCalls,\* bound on block allocate / allocate_segment calls
  MaxAllocFailures, \* bound on kzalloc(GFP_ATOMIC) failures in the expand
  MaxXferErrors,    \* bound on cache transfers that end with an error
  DeviceMayDetach

ASSUME /\ NSegs >= 1 /\ TrbsPerSeg >= 2
       /\ 1 <= InitEntries /\ InitEntries <= MaxEntries
       /\ {MaxTrbs, MaxCopies, MaxBlockCalls, MaxAllocFailures,
           MaxXferErrors, NBlocks} \subseteq Nat

LINK_TRB_INDEX == TrbsPerSeg - 1
Segs == 0..NSegs-1
Trbs == Segs \X (0..LINK_TRB_INDEX)               \* every TRB, links included
EnqTrbs == Segs \X (0..LINK_TRB_INDEX-1)          \* where enqueue may point
Entries == 1..MaxEntries
Blocks == 1..NBlocks
Gens == 0..MaxTrbs
EXPAND_ENTRIES == 4                                \* ehub_queue_cache_write
None == 0

\* The two callers of ehub_queue_cache_write.
Ring == "copy_from_ring"
Seg == "allocate_segment"
Actors == {Ring, Seg}

VARIABLES
  enqueue, dequeue,       \* the ring's enqueue / dequeue (seg, trb)
  cache_enqueue,          \* ep_ring->cache_enqueue / cache_enq_seg
  trbGen,                 \* content of each host TRB
  devCache,               \* content of each TRB in the device cache
  dbPos,                  \* enqueue position named by the last doorbell
  cache_queue_free, cache_queue_used,
  nEntries,               \* cache_write_contexts allocated so far
  work,                   \* the fields of each cache_write_context
  urbStatus,              \* UrbContext->Status of each context's URB
  cacheOut,               \* contexts whose URB is on UsbPipeCacheOut
  inCompletion,           \* context between the two locked sections of
                          \*   URB_CompletionRoutine_Cache, or None
  cache_list_free, cache_list_used,
  number_of_caches_free, number_of_caches_used,
  held,                   \* blocks the xHCI driver got from allocate
  pc,                     \* per actor: its step
  job,                    \* per actor: the arguments of its cache write
  cur,                    \* per actor: the context it took
  chunks,                 \* copy_from_ring: the chunks still to queue
  snapEnq,                \* copy_from_ring: enq_trb / enq_seg
  segBlock,               \* allocate_segment: its block
  EmbeddedCacheWriteError, detached,
  trbsLeft, copiesLeft, blockCallsLeft, allocFailuresLeft, xferErrorsLeft,
  reqCount, rungCount     \* doorbells requested by copies / rung

ringVars == <<enqueue, dequeue, cache_enqueue, trbGen, devCache, dbPos>>
queueVars == <<cache_queue_free, cache_queue_used, nEntries, work, urbStatus,
               cacheOut, inCompletion>>
blockVars == <<cache_list_free, cache_list_used, number_of_caches_free,
               number_of_caches_used, held>>
actorVars == <<pc, job, cur, chunks, snapEnq, segBlock>>
envVars == <<EmbeddedCacheWriteError, detached, trbsLeft, copiesLeft,
             blockCallsLeft, allocFailuresLeft, xferErrorsLeft>>
vars == <<ringVars, queueVars, blockVars, actorVars, envVars,
          reqCount, rungCount>>

\* DEVICECONTEXT_ErrorCheck as far as this module's causes go.
DEVICECONTEXT_ErrorCheckFails == EmbeddedCacheWriteError \/ detached

-----------------------------------------------------------------------------
(***************************************************************************)
(* Ring geometry.                                                          *)
(***************************************************************************)
NextSeg(s) == (s + 1) % NSegs

\* The xHCI driver's enqueue advance: it steps over the link TRB.
NextTrb(p) == IF p[2] + 1 = LINK_TRB_INDEX THEN <<NextSeg(p[1]), 0>>
                                           ELSE <<p[1], p[2] + 1>>

\* ehub_find_prev_trb: the previous TRB, the link TRB of the previous
\* segment when trb is the first of its segment.
ehub_find_prev_trb(p) ==
  IF p[2] # 0 THEN <<p[1], p[2] - 1>>
  ELSE <<CHOOSE s \in Segs : NextSeg(s) = p[1], LINK_TRB_INDEX>>

\* Mutant: every chunk, the last included, runs to the link TRB.
RECURSIVE CopyChunksToLink(_, _, _)
CopyChunksToLink(cur_seg, start, last) ==
  LET lastCopy == cur_seg = last[1] /\ start <= last[2]
      c == [seg |-> cur_seg, first |-> start, last |-> LINK_TRB_INDEX,
            lastCopy |-> lastCopy]
  IN IF lastCopy THEN <<c>>
     ELSE <<c>> \o CopyChunksToLink(NextSeg(cur_seg), 0, last)

\* The chunk loop of ehub_xhci_cache_copy_from_ring, from start_trb in
\* cur_seg to last_trb: each chunk runs to the segment's link TRB unless
\* it is on last_seg and start_trb <= last_trb.
RECURSIVE CopyChunks(_, _, _)
CopyChunks(cur_seg, start, last) ==
  LET lastCopy == cur_seg = last[1] /\ start <= last[2]
      c == [seg |-> cur_seg, first |-> start,
            last |-> IF lastCopy THEN last[2] ELSE LINK_TRB_INDEX,
            lastCopy |-> lastCopy]
  IN IF lastCopy THEN <<c>>
     ELSE <<c>> \o CopyChunks(NextSeg(cur_seg), 0, last)

ChunkTrbs(c) == {<<c.seg, i>> : i \in c.first..c.last}

\* The TRBs from d up to, not including, u, in ring order.
RECURSIVE LiveTrbs(_, _)
LiveTrbs(d, u) == IF d = u THEN {} ELSE {d} \cup LiveTrbs(NextTrb(d), u)

\* Reference: every TRB, links included, from c up to, not including, e.
RawNext(p) == IF p[2] = LINK_TRB_INDEX THEN <<NextSeg(p[1]), 0>>
                                       ELSE <<p[1], p[2] + 1>>
RECURSIVE RingRange(_, _)
RingRange(c, e) == IF c = e THEN <<>> ELSE <<c>> \o RingRange(RawNext(c), e)

ChunkSeq(c) == [k \in 1..(c.last - c.first + 1) |-> <<c.seg, c.first + k - 1>>]

-----------------------------------------------------------------------------
NoJob == [trbs |-> {}, rd |-> FALSE, upto |-> <<0, 0>>, data |-> {}]

\* ehub_xhci_cache_create (contexts and blocks) and the ring set-up of
\* xhci.c, which starts cache_enqueue at the dequeue pointer.
Init ==
  /\ enqueue = <<0, 0>> /\ dequeue = <<0, 0>> /\ cache_enqueue = <<0, 0>>
  /\ trbGen = [p \in Trbs |-> 0] /\ devCache = [p \in Trbs |-> 0]
  /\ dbPos = <<0, 0>>
  /\ cache_queue_free = [i \in 1..InitEntries |-> i]
  /\ cache_queue_used = <<>>
  /\ nEntries = InitEntries
  /\ work = [e \in Entries |-> NoJob]
  /\ urbStatus = [e \in Entries |-> "free"]
  /\ cacheOut = <<>> /\ inCompletion = None
  /\ cache_list_free = [i \in 1..NBlocks |-> i] /\ cache_list_used = <<>>
  /\ number_of_caches_free = NBlocks /\ number_of_caches_used = 0
  /\ held = {}
  /\ pc = [a \in Actors |-> "idle"]
  /\ job = [a \in Actors |-> NoJob]
  /\ cur = [a \in Actors |-> None]
  /\ chunks = <<>> /\ snapEnq = <<0, 0>> /\ segBlock = None
  /\ EmbeddedCacheWriteError = FALSE /\ detached = FALSE
  /\ trbsLeft = MaxTrbs /\ copiesLeft = MaxCopies
  /\ blockCallsLeft = MaxBlockCalls /\ allocFailuresLeft = MaxAllocFailures
  /\ xferErrorsLeft = MaxXferErrors
  /\ reqCount = 0 /\ rungCount = 0

\* Mutant: ring_doorbell passed on every chunk, not only the last.
JobOfEveryChunk(a) ==
  IF a = Ring
  THEN [trbs |-> ChunkTrbs(Head(chunks)), rd |-> job[Ring].rd,
        upto |-> snapEnq, data |-> {}]
  ELSE job[a]

\* The arguments a caller passes to ehub_queue_cache_write: for
\* copy_from_ring the TRBs of its current chunk, ring_doorbell on the last
\* chunk only, and the ring's enqueue pointer the doorbell announces.
JobOf(a) ==
  IF a = Ring
  THEN [trbs |-> ChunkTrbs(Head(chunks)),
        rd |-> Head(chunks).lastCopy /\ job[Ring].rd,
        upto |-> snapEnq, data |-> {}]
  ELSE job[a]

\* Mutant: the copy loop stops when the chunk after this one is the last.
AfterCacheWriteSkipLast(a, ok) ==
  IF a = Ring
  THEN IF ~ok \/ Head(chunks).lastCopy \/ Head(Tail(chunks)).lastCopy
       THEN pc' = [pc EXCEPT ![a] = "finish"] /\ UNCHANGED <<chunks, held>>
       ELSE /\ chunks' = Tail(chunks)
            /\ pc' = [pc EXCEPT ![a] = "queue"]
            /\ UNCHANGED held
  ELSE IF ok THEN /\ held' = held \cup {segBlock}
                  /\ pc' = [pc EXCEPT ![a] = "idle"]
                  /\ UNCHANGED chunks
             ELSE pc' = [pc EXCEPT ![a] = "failed"] /\ UNCHANGED <<chunks, held>>

(***************************************************************************)
(* What a caller of ehub_queue_cache_write does with its return value.    *)
(* copy_from_ring breaks out of its loop on an error and after the last   *)
(* chunk; allocate_segment hands out its block, or gives it back.         *)
(***************************************************************************)
AfterCacheWrite(a, ok) ==
  IF a = Ring
  THEN IF ~ok \/ Head(chunks).lastCopy
       THEN pc' = [pc EXCEPT ![a] = "finish"] /\ UNCHANGED <<chunks, held>>
       ELSE /\ chunks' = Tail(chunks)
            /\ pc' = [pc EXCEPT ![a] = "queue"]
            /\ UNCHANGED held
  ELSE IF ok THEN /\ held' = held \cup {segBlock}
                  /\ pc' = [pc EXCEPT ![a] = "idle"]
                  /\ UNCHANGED chunks
             ELSE pc' = [pc EXCEPT ![a] = "failed"] /\ UNCHANGED <<chunks, held>>

(***************************************************************************)
(* ehub_xhci_cache_work_expand(xhci, EXPAND_ENTRIES, GFP_ATOMIC): each     *)
(* round kzalloc's a context and URB_Create's its URB (the cache-out       *)
(* buffer); the first allocation that fails ends the loop.  It returns    *)
(* how many it made; those are numbered after the nEntries made so far    *)
(* and appended to cache_queue_free.  ExpandOutcomes are the counts it can *)
(* return: all of them, or fewer after a failed allocation.                *)
(***************************************************************************)
ExpandOutcomes ==
  IF allocFailuresLeft > 0 THEN 0..EXPAND_ENTRIES ELSE {EXPAND_ENTRIES}

ehub_xhci_cache_work_expand(made) == [i \in 1..made |-> nEntries + i]

(***************************************************************************)
(* ehub_queue_cache_write up to its unlock: the gate, the expand of an    *)
(* empty free queue (each kzalloc(GFP_ATOMIC) may fail, ending the expand *)
(* loop), -ENOBUFS if it made nothing, else the first free context is     *)
(* filled in and moved to cache_queue_used.                                *)
(***************************************************************************)
QueueLocked(a) ==
  /\ pc[a] = "queue"
  /\ \/ /\ DEVICECONTEXT_ErrorCheckFails
        /\ AfterCacheWrite(a, FALSE)
        /\ UNCHANGED <<queueVars, cur, allocFailuresLeft>>
     \/ /\ ~DEVICECONTEXT_ErrorCheckFails
        /\ \E new \in IF cache_queue_free = <<>>
                      THEN ExpandOutcomes ELSE {EXPAND_ENTRIES} :
             LET made == IF cache_queue_free = <<>> THEN new ELSE 0
                 free == cache_queue_free \o ehub_xhci_cache_work_expand(made)
             IN /\ nEntries + made <= MaxEntries
                /\ new < EXPAND_ENTRIES => allocFailuresLeft > 0
                /\ allocFailuresLeft' = allocFailuresLeft
                                          - (IF new < EXPAND_ENTRIES THEN 1 ELSE 0)
                /\ nEntries' = nEntries + made
                /\ IF free = <<>>
                   THEN /\ AfterCacheWrite(a, FALSE)
                        /\ cache_queue_free' = free
                        /\ UNCHANGED <<cache_queue_used, work, cur>>
                   ELSE /\ cache_queue_free' = Tail(free)
                        /\ cache_queue_used' = Append(cache_queue_used, Head(free))
                        /\ work' = [work EXCEPT ![Head(free)] = JobOf(a)]
                        /\ cur' = [cur EXCEPT ![a] = Head(free)]
                        /\ pc' = [pc EXCEPT ![a] = "write"]
                        /\ UNCHANGED <<chunks, held>>
        /\ UNCHANGED <<urbStatus, cacheOut, inCompletion>>
  /\ UNCHANGED <<ringVars, cache_list_free, cache_list_used,
                 number_of_caches_free, number_of_caches_used, job, snapEnq,
                 segBlock, EmbeddedCacheWriteError, detached, trbsLeft,
                 copiesLeft, blockCallsLeft, xferErrorsLeft, reqCount, rungCount>>

(***************************************************************************)
(* EMBEDDED_CACHE_Write after the unlock: the gate, the copy of the TRBs  *)
(* into the URB buffer, URB_Submit.  A closed gate latches                *)
(* EmbeddedCacheWriteError and leaves the context on cache_queue_used.    *)
(* The URB of a context taken from the free queue is idle and the device  *)
(* is attached, so usb_submit_urb succeeds.                               *)
(***************************************************************************)
EMBEDDED_CACHE_Write(a) ==
  LET e == cur[a] IN
  /\ pc[a] = "write"
  /\ IF DEVICECONTEXT_ErrorCheckFails
     THEN /\ EmbeddedCacheWriteError' = TRUE
          /\ UNCHANGED <<work, urbStatus, cacheOut>>
          /\ AfterCacheWrite(a, FALSE)
     ELSE /\ work' = [work EXCEPT ![e].data =
                        {<<p, trbGen[p]>> : p \in work[e].trbs}]
          /\ urbStatus' = [urbStatus EXCEPT ![e] = "submitted"]
          /\ cacheOut' = Append(cacheOut, e)
          /\ UNCHANGED EmbeddedCacheWriteError
          /\ AfterCacheWrite(a, TRUE)
  /\ UNCHANGED <<ringVars, cache_queue_free, cache_queue_used, nEntries,
                 inCompletion, cache_list_free, cache_list_used,
                 number_of_caches_free, number_of_caches_used, job, cur,
                 snapEnq, segBlock, detached, trbsLeft, copiesLeft,
                 blockCallsLeft, allocFailuresLeft, xferErrorsLeft,
                 reqCount, rungCount>>

-----------------------------------------------------------------------------
(***************************************************************************)
(* ehub_xhci_cache_copy_from_ring, called by the xHCI driver after it     *)
(* queued TRBs.  It captures enqueue, finds last_trb before it and plans  *)
(* the chunks from cache_enqueue.  Its "Ring shouldn't be empty" check    *)
(* states the callers' contract (the ASSERT itself is empty), so the      *)
(* model calls it on a non-empty ring only.                               *)
(***************************************************************************)
ehub_xhci_cache_copy_from_ring(ring_doorbell) ==
  /\ pc[Ring] = "idle" /\ copiesLeft > 0
  /\ enqueue # dequeue
  /\ copiesLeft' = copiesLeft - 1
  /\ snapEnq' = enqueue
  /\ chunks' = CopyChunks(cache_enqueue[1], cache_enqueue[2],
                          ehub_find_prev_trb(enqueue))
  /\ job' = [job EXCEPT ![Ring] = [NoJob EXCEPT !.rd = ring_doorbell]]
  /\ reqCount' = reqCount + (IF ring_doorbell THEN 1 ELSE 0)
  /\ pc' = [pc EXCEPT ![Ring] = "queue"]
  /\ UNCHANGED <<ringVars, queueVars, blockVars, cur, segBlock,
                 EmbeddedCacheWriteError, detached, trbsLeft, blockCallsLeft,
                 allocFailuresLeft, xferErrorsLeft, rungCount>>

\* Mutant: cache_enqueue set to last_trb instead of enq_trb.
CopyFinishLastTrb ==
  /\ pc[Ring] = "finish"
  /\ cache_enqueue' = ehub_find_prev_trb(snapEnq)
  /\ pc' = [pc EXCEPT ![Ring] = "idle"]
  /\ UNCHANGED <<enqueue, dequeue, trbGen, devCache, dbPos, queueVars,
                 blockVars, job, cur, chunks, snapEnq, segBlock, envVars,
                 reqCount, rungCount>>

\* After the loop, whether or not it broke out on an error.
CopyFinish ==
  /\ pc[Ring] = "finish"
  /\ cache_enqueue' = snapEnq
  /\ pc' = [pc EXCEPT ![Ring] = "idle"]
  /\ UNCHANGED <<enqueue, dequeue, trbGen, devCache, dbPos, queueVars,
                 blockVars, job, cur, chunks, snapEnq, segBlock, envVars,
                 reqCount, rungCount>>

\* The xHCI driver queues a TRB (inc_enq), when the ring has room.
QueueTrb ==
  /\ pc[Ring] = "idle" /\ trbsLeft > 0
  /\ NextTrb(enqueue) # dequeue
  /\ trbsLeft' = trbsLeft - 1
  /\ trbGen' = [trbGen EXCEPT ![enqueue] = @ + 1]
  /\ enqueue' = NextTrb(enqueue)
  /\ UNCHANGED <<dequeue, cache_enqueue, devCache, dbPos, queueVars,
                 blockVars, actorVars, EmbeddedCacheWriteError, detached,
                 copiesLeft, blockCallsLeft, allocFailuresLeft,
                 xferErrorsLeft, reqCount, rungCount>>

\* The xHC executes a TRB, reading it from its cache, up to the position
\* the last doorbell announced.
DeviceExecuteTrb ==
  /\ dequeue # dbPos
  /\ dequeue' = NextTrb(dequeue)
  /\ UNCHANGED <<enqueue, cache_enqueue, trbGen, devCache, dbPos, queueVars,
                 blockVars, actorVars, envVars, reqCount, rungCount>>

(***************************************************************************)
(* The cache transfer at the head of UsbPipeCacheOut ends (an error after *)
(* a detach, or one of MaxXferErrors), and URB_CompletionRoutine_Cache    *)
(* runs up to its second lock: the gate, list_del_init from               *)
(* cache_queue_used, the doorbell if ring_doorbell (Urb->status is never  *)
(* looked at), Status = URB_STATUS_COMPLETE.                              *)
(***************************************************************************)
Delivered(e) ==
  [p \in Trbs |-> IF \E g \in Gens : <<p, g>> \in work[e].data
                  THEN CHOOSE g \in Gens : <<p, g>> \in work[e].data
                  ELSE devCache[p]]

\* Mutant: the completion does not list_del_init its context.
CompletionNoDel ==
  LET e == Head(cacheOut) IN
  /\ cacheOut # <<>> /\ inCompletion = None
  /\ cacheOut' = Tail(cacheOut)
  /\ \E ok \in BOOLEAN :
       /\ ok => ~detached
       /\ ~ok /\ ~detached => xferErrorsLeft > 0
       /\ xferErrorsLeft' = xferErrorsLeft
                              - (IF ~ok /\ ~detached THEN 1 ELSE 0)
       /\ devCache' = IF ok THEN Delivered(e) ELSE devCache
  /\ IF DEVICECONTEXT_ErrorCheckFails
     THEN UNCHANGED <<cache_queue_used, urbStatus, inCompletion, dbPos,
                      rungCount>>
     ELSE /\ UNCHANGED cache_queue_used
          /\ IF work[e].rd
             THEN dbPos' = work[e].upto /\ rungCount' = rungCount + 1
             ELSE UNCHANGED <<dbPos, rungCount>>
          /\ urbStatus' = [urbStatus EXCEPT ![e] = "complete"]
          /\ inCompletion' = e
  /\ UNCHANGED <<enqueue, dequeue, cache_enqueue, trbGen, cache_queue_free,
                 nEntries, work, blockVars, actorVars,
                 EmbeddedCacheWriteError, detached, trbsLeft, copiesLeft,
                 blockCallsLeft, allocFailuresLeft, reqCount>>

URB_CompletionRoutine_Cache ==
  LET e == Head(cacheOut) IN
  /\ cacheOut # <<>> /\ inCompletion = None
  /\ cacheOut' = Tail(cacheOut)
  /\ \E ok \in BOOLEAN :
       /\ ok => ~detached
       /\ ~ok /\ ~detached => xferErrorsLeft > 0
       /\ xferErrorsLeft' = xferErrorsLeft
                              - (IF ~ok /\ ~detached THEN 1 ELSE 0)
       /\ devCache' = IF ok THEN Delivered(e) ELSE devCache
  /\ IF DEVICECONTEXT_ErrorCheckFails
     THEN UNCHANGED <<cache_queue_used, urbStatus, inCompletion, dbPos,
                      rungCount>>
     ELSE /\ cache_queue_used' = Remove(cache_queue_used, e)
          /\ IF work[e].rd
             THEN dbPos' = work[e].upto /\ rungCount' = rungCount + 1
             ELSE UNCHANGED <<dbPos, rungCount>>
          /\ urbStatus' = [urbStatus EXCEPT ![e] = "complete"]
          /\ inCompletion' = e
  /\ UNCHANGED <<enqueue, dequeue, cache_enqueue, trbGen, cache_queue_free,
                 nEntries, work, blockVars, actorVars,
                 EmbeddedCacheWriteError, detached, trbsLeft, copiesLeft,
                 blockCallsLeft, allocFailuresLeft, reqCount>>

\* Its second locked section: list_add_tail to cache_queue_free.
CompletionReturnToFree ==
  /\ inCompletion # None
  /\ cache_queue_free' = Append(cache_queue_free, inCompletion)
  /\ inCompletion' = None
  /\ UNCHANGED <<ringVars, cache_queue_used, nEntries, work, urbStatus,
                 cacheOut, blockVars, actorVars, envVars, reqCount, rungCount>>

-----------------------------------------------------------------------------
(***************************************************************************)
(* Cache blocks.  The xHCI driver asks for blocks for its segments and    *)
(* frees them; each call is one section under cache_list_lock.  An empty  *)
(* cache_list_free returns NULL and changes nothing.                       *)
(***************************************************************************)
TakeBlock(b) ==
  /\ cache_list_free' = Tail(cache_list_free)
  /\ cache_list_used' = Append(cache_list_used, b)
  /\ number_of_caches_free' = number_of_caches_free - 1
  /\ number_of_caches_used' = number_of_caches_used + 1

ehub_xhci_cache_block_allocate ==
  /\ pc[Seg] = "idle" /\ blockCallsLeft > 0 /\ cache_list_free # <<>>
  /\ blockCallsLeft' = blockCallsLeft - 1
  /\ TakeBlock(Head(cache_list_free))
  /\ held' = held \cup {Head(cache_list_free)}
  /\ UNCHANGED <<ringVars, queueVars, actorVars, EmbeddedCacheWriteError,
                 detached, trbsLeft, copiesLeft, allocFailuresLeft,
                 xferErrorsLeft, reqCount, rungCount>>

\* Takes a block and seeds it with ehub_queue_cache_write(ring_doorbell
\* false); the block is handed out when that succeeds.
ehub_xhci_cache_block_allocate_segment ==
  /\ pc[Seg] = "idle" /\ blockCallsLeft > 0 /\ cache_list_free # <<>>
  /\ blockCallsLeft' = blockCallsLeft - 1
  /\ TakeBlock(Head(cache_list_free))
  /\ segBlock' = Head(cache_list_free)
  /\ job' = [job EXCEPT ![Seg] = NoJob]
  /\ pc' = [pc EXCEPT ![Seg] = "queue"]
  /\ UNCHANGED <<ringVars, queueVars, held, cur, chunks, snapEnq,
                 EmbeddedCacheWriteError, detached, trbsLeft, copiesLeft,
                 allocFailuresLeft, xferErrorsLeft, reqCount, rungCount>>

\* Mutant: the failure path moves the block back but not the counters.
SegmentWriteFailedNoCount ==
  /\ pc[Seg] = "failed"
  /\ cache_list_used' = Remove(cache_list_used, segBlock)
  /\ cache_list_free' = Append(cache_list_free, segBlock)
  /\ segBlock' = None
  /\ pc' = [pc EXCEPT ![Seg] = "idle"]
  /\ UNCHANGED <<ringVars, queueVars, held, job, cur, chunks, snapEnq,
                 envVars, reqCount, rungCount, number_of_caches_used,
                 number_of_caches_free>>

\* allocate_segment when ehub_queue_cache_write failed: the block goes
\* back to cache_list_free and NULL is returned.
SegmentWriteFailed ==
  /\ pc[Seg] = "failed"
  /\ cache_list_used' = Remove(cache_list_used, segBlock)
  /\ cache_list_free' = Append(cache_list_free, segBlock)
  /\ number_of_caches_used' = number_of_caches_used - 1
  /\ number_of_caches_free' = number_of_caches_free + 1
  /\ segBlock' = None
  /\ pc' = [pc EXCEPT ![Seg] = "idle"]
  /\ UNCHANGED <<ringVars, queueVars, held, job, cur, chunks, snapEnq,
                 envVars, reqCount, rungCount>>

ehub_xhci_cache_block_free(b) ==
  /\ pc[Seg] = "idle" /\ b \in held
  /\ cache_list_used' = Remove(cache_list_used, b)
  /\ cache_list_free' = Append(cache_list_free, b)
  /\ number_of_caches_used' = number_of_caches_used - 1
  /\ number_of_caches_free' = number_of_caches_free + 1
  /\ held' = held \ {b}
  /\ UNCHANGED <<ringVars, queueVars, actorVars, envVars, reqCount, rungCount>>

\* The USB device goes away (USB_STATE_NOTATTACHED).
Detach ==
  /\ DeviceMayDetach /\ ~detached
  /\ detached' = TRUE
  /\ UNCHANGED <<ringVars, queueVars, blockVars, actorVars,
                 EmbeddedCacheWriteError, trbsLeft, copiesLeft, blockCallsLeft,
                 allocFailuresLeft, xferErrorsLeft, reqCount, rungCount>>

Next ==
  \/ \E a \in Actors : QueueLocked(a) \/ EMBEDDED_CACHE_Write(a)
  \/ \E rd \in BOOLEAN : ehub_xhci_cache_copy_from_ring(rd)
  \/ CopyFinish
  \/ QueueTrb
  \/ DeviceExecuteTrb
  \/ URB_CompletionRoutine_Cache
  \/ CompletionReturnToFree
  \/ ehub_xhci_cache_block_allocate
  \/ ehub_xhci_cache_block_allocate_segment
  \/ SegmentWriteFailed
  \/ \E b \in Blocks : ehub_xhci_cache_block_free(b)
  \/ Detach

\* The callers run their calls to the end, the USB core completes every
\* submitted URB, and the device executes what a doorbell announced.
Fairness ==
  /\ \A a \in Actors : WF_vars(QueueLocked(a)) /\ WF_vars(EMBEDDED_CACHE_Write(a))
  /\ WF_vars(CopyFinish) /\ WF_vars(SegmentWriteFailed)
  /\ WF_vars(URB_CompletionRoutine_Cache) /\ WF_vars(CompletionReturnToFree)

Spec == Init /\ [][Next]_vars /\ Fairness

-----------------------------------------------------------------------------
Job == [trbs : SUBSET Trbs, rd : BOOLEAN, upto : EnqTrbs,
        data : SUBSET (Trbs \X Gens)]

TypeOK ==
  /\ enqueue \in EnqTrbs /\ dequeue \in EnqTrbs /\ cache_enqueue \in EnqTrbs
  /\ dbPos \in EnqTrbs
  /\ trbGen \in [Trbs -> Gens] /\ devCache \in [Trbs -> Gens]
  /\ cache_queue_free \in Seq(Entries) /\ cache_queue_used \in Seq(Entries)
  /\ nEntries \in InitEntries..MaxEntries
  /\ work \in [Entries -> Job]
  /\ urbStatus \in [Entries -> {"free", "submitted", "complete"}]
  /\ cacheOut \in Seq(Entries) /\ inCompletion \in Entries \cup {None}
  /\ cache_list_free \in Seq(Blocks) /\ cache_list_used \in Seq(Blocks)
  /\ held \subseteq Blocks
  /\ pc \in [Actors -> {"idle", "queue", "write", "finish", "failed"}]
  /\ cur \in [Actors -> Entries \cup {None}]
  /\ segBlock \in Blocks \cup {None}

-----------------------------------------------------------------------------
(***************************************************************************)
(* Properties.                                                             *)
(***************************************************************************)

\* While ehub_xhci_cache_copy_from_ring is in its loop, the chunks it has
\* still to queue are, in order, exactly the TRBs (link TRBs included)
\* that end the range from cache_enqueue up to the captured enqueue, and
\* only the last of them is the lastCopy that may carry the doorbell.
\* (cache_enqueue = enqueue, nothing new to copy, is left out: the loop
\* then copies the whole ring.)
ChunksCoverRange ==
  pc[Ring] \in {"queue", "write"} /\ cache_enqueue # snapEnq =>
    /\ IsSuffix(FlattenSeq([k \in DOMAIN chunks |-> ChunkSeq(chunks[k])]),
                RingRange(cache_enqueue, snapEnq))
    /\ \A k \in DOMAIN chunks : chunks[k].lastCopy <=> k = Len(chunks)

\* Every cache_write_context made so far is on exactly one of
\* cache_queue_free and cache_queue_used, or is between the two locked
\* sections of URB_CompletionRoutine_Cache; and a context on the free
\* queue never has its URB in flight, the condition EMBEDDED_CACHE_Write
\* reports as "UrbContext->Status not expected".
WriteEntryPoolConsistent ==
  LET onFree == ToSet(cache_queue_free)
      onUsed == ToSet(cache_queue_used)
      inIrq == IF inCompletion = None THEN {} ELSE {inCompletion}
  IN /\ IsInjective(cache_queue_free) /\ IsInjective(cache_queue_used)
     /\ onFree \cap onUsed = {} /\ inIrq \cap (onFree \cup onUsed) = {}
     /\ onFree \cup onUsed \cup inIrq = 1..nEntries
     /\ \A e \in onFree : urbStatus[e] # "submitted"

\* Every cache block is on exactly one of cache_list_free and
\* cache_list_used, the counters number_of_caches_free/used match the
\* lists, and a block the xHCI driver holds, or allocate_segment is
\* seeding, is on the used list and held by no one else.
BlockPoolConsistent ==
  /\ IsInjective(cache_list_free) /\ IsInjective(cache_list_used)
  /\ ToSet(cache_list_free) \cap ToSet(cache_list_used) = {}
  /\ ToSet(cache_list_free) \cup ToSet(cache_list_used) = Blocks
  /\ number_of_caches_free = Len(cache_list_free)
  /\ number_of_caches_used = Len(cache_list_used)
  /\ held \subseteq ToSet(cache_list_used)
  /\ pc[Seg] \in {"queue", "write", "failed"} =>
       segBlock \in ToSet(cache_list_used) \ held

\* When URB_CompletionRoutine_Cache rings a doorbell, every TRB the xHC
\* may now execute (from dequeue up to the enqueue the doorbell names)
\* is in the device cache with the content the xHCI driver wrote: "a
\* hardware doorbell ring is never issued before all its associated data
\* has been" delivered to the cache.
DoorbellAfterData ==
  [][rungCount' > rungCount =>
       \A p \in LiveTrbs(dequeue, dbPos') : devCache'[p] = trbGen[p]]_vars

\* Every doorbell a copy_from_ring call asks for is eventually rung,
\* unless the device context's error gate has closed.
DoorbellRequestsServed ==
  \A n \in 1..MaxCopies :
    reqCount >= n ~> (rungCount >= n \/ DEVICECONTEXT_ErrorCheckFails)

====
