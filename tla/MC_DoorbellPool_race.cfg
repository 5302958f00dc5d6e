\* SMP: one xHCI thread rings doorbells while the doorbell completions run
\* on another CPU; one context at connect, two more for the expand.
CONSTANTS
  w1 = w1
  w2 = w2
  c1 = c1
  c2 = c2
  c3 = c3
  Writers <- MC_Writers
  Ctxs <- MC_Ctxs
  InitCtxs <- MC_InitCtxs
  MaxWrites = 3
  SMP = TRUE
SPECIFICATION Spec
CHECK_DEADLOCK FALSE
INVARIANTS
  PoolConsistent
