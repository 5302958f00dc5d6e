\* Uniprocessor: the giveback context shares the CPU with two writer
\* threads, and spin_lock_irqsave keeps the completion out of the lock.
CONSTANTS
  w1 = w1
  w2 = w2
  c1 = c1
  c2 = c2
  c3 = c3
  Writers <- MC_Writers2
  Ctxs <- MC_Ctxs
  InitCtxs <- MC_InitCtxs
  MaxWrites = 5
  SMP = FALSE
SPECIFICATION FairSpec
CHECK_DEADLOCK FALSE
INVARIANTS
  TypeOK
  PoolConsistent
  TakesIdleContext
PROPERTIES
  DoorbellWritesReturn
