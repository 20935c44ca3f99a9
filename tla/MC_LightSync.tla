------------------------------ MODULE MC_LightSync ------------------------------
(* Instances of LightSync for TLC. *)
EXTENDS LightSync
==============================================================================
