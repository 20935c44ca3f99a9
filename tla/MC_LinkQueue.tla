----------------------------- MODULE MC_LinkQueue -----------------------------
(* Instances of LinkQueue for TLC. *)
EXTENDS LinkQueue
==============================================================================
