------------------------------ MODULE MC_KvMpsc ------------------------------
(* Instances of KvMpsc for TLC: two sender handles, two keys. *)
EXTENDS KvMpsc
==============================================================================
