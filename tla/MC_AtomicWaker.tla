---------------------------- MODULE MC_AtomicWaker ----------------------------
(* Instances of AtomicWaker for TLC: three threads and two tasks. *)
EXTENDS AtomicWaker
==============================================================================
