---------------------------- MODULE MC_Lifecycle ----------------------------
(* Instantiates the interface life cycle for TLC. *)
EXTENDS Lifecycle
====
