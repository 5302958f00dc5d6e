----------------------------- MODULE MC_TrbCache -----------------------------
(* Model-checking instance of TrbCache: all constants are numbers, so the  *)
(* configurations give them directly.                                      *)
EXTENDS TrbCache

====
