--------------------------- MODULE MC_KvMpscMultik ---------------------------
(* Instances of KvMpscMultik for TLC: two keys, and messages with either or *)
(* both of them.                                                            *)
EXTENDS KvMpscMultik
==============================================================================
