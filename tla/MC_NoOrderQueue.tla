---------------------------- MODULE MC_NoOrderQueue ----------------------------
(* Instances of NoOrderQueue for TLC. *)
EXTENDS NoOrderQueue
==============================================================================
