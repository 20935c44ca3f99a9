---------------------------- MODULE ConflictQueue ----------------------------
(***************************************************************************)
(* What the key-conflict channels kv_mpsc and kv_mpsc_multik promise their *)
(* users: README.md:11, "newer key msg can be took out only when there's   *)
(* no same key holding by msg".                                            *)
(*                                                                         *)
(* There are no threads, queues, wake-ups or bookkeeping here: a message   *)
(* is pending from the moment a sender hands it over, is held from the     *)
(* moment recv returns it, and is gone when its holder drops it.           *)
(***************************************************************************)
EXTENDS Naturals

CONSTANTS
  KeySets   (* the key sets a message may be sent with *)

VARIABLES
  sent,     (* how many messages were handed over: ids are 1 .. sent *)
  pending,  (* messages handed over and not yet taken                *)
  held      (* messages the receiving side holds                     *)

vars == <<sent, pending, held>>

Message == [id : Nat, ks : KeySets]

Init ==
  /\ sent = 0
  /\ pending = {}
  /\ held = {}

Send(ks) ==
  /\ sent' = sent + 1
  /\ pending' = pending \union {[id |-> sent + 1, ks |-> ks]}
  /\ UNCHANGED held

(* No message that is held shares a key with m. *)
Unconflicted(m) == \A h \in held : h.ks \intersect m.ks = {}

Take(m) ==
  /\ m \in pending
  /\ Unconflicted(m)
  /\ pending' = pending \ {m}
  /\ held' = held \union {m}
  /\ UNCHANGED sent

(* No pending message that shares a key with m was handed over before m. *)
Oldest(m) == \A n \in pending : n.ks \intersect m.ks # {} => m.id <= n.id

Release(m) ==
  /\ m \in held
  /\ held' = held \ {m}
  /\ UNCHANGED <<sent, pending>>

Next ==
  \/ \E ks \in KeySets : Send(ks)
  \/ \E m \in pending : Take(m)
  \/ \E m \in held : Release(m)

Spec == Init /\ [][Next]_vars

(* The same service, and messages that share a key are taken in the order  *)
(* in which they were handed over.                                         *)
FifoNext ==
  \/ \E ks \in KeySets : Send(ks)
  \/ \E m \in pending : Take(m) /\ Oldest(m)
  \/ \E m \in held : Release(m)

FifoSpec == Init /\ [][FifoNext]_vars
==============================================================================
