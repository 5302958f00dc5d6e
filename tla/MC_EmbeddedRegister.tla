------------------------- MODULE MC_EmbeddedRegister -------------------------
(* Model-checking instance of EmbeddedRegister: two caller threads, two    *)
(* register addresses.                                                     *)
EXTENDS EmbeddedRegister, TLC

CONSTANTS t1, t2, a1, a2

MC_Threads == {t1, t2}
MC_Addrs == {a1, a2}

\* Threads and addresses are interchangeable in every definition.
MC_Symmetry == Permutations(MC_Threads) \cup Permutations(MC_Addrs)

====
