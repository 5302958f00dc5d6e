--------------------------- MODULE MC_DoorbellPool ---------------------------
(* Model-checking instance of DoorbellPool.                                *)
EXTENDS DoorbellPool

CONSTANTS w1, w2, c1, c2, c3

MC_Writers == {w1}
MC_Ctxs == {c1, c2, c3}
MC_Writers2 == {w1, w2}
MC_InitCtxs == {c1}

====
