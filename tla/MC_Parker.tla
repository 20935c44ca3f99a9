------------------------------- MODULE MC_Parker -------------------------------
(* Instances of Parker for TLC: three unparkers. *)
EXTENDS Parker
==============================================================================
