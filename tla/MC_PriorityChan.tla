--------------------------- MODULE MC_PriorityChan ---------------------------
(* Instances of PriorityChan for TLC: two senders and two priorities. *)
EXTENDS PriorityChan
==============================================================================
