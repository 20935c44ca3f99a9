--------------------------- MODULE UnorderedQueue ---------------------------
(***************************************************************************)
(* What the queue of mpsc_no_order_queue.rs promises its one consumer: the *)
(* elements of each thread come out in the order they were pushed, those   *)
(* of different threads in any order, and try_pop returns None only if     *)
(* there was nothing to return when it was called.                         *)
(***************************************************************************)
EXTENDS Naturals, Sequences

CONSTANT Threads  (* the threads that push *)

VARIABLES
  pending,  (* what each thread has pushed and nobody has popped        *)
  call,     (* the try_pop under way: "none", or "empty" or "some" for  *)
            (* what there was to pop when it was called                 *)
  sent,     (* how many elements were pushed; the i-th one is i         *)
  popped    (* the elements try_pop has returned                        *)

vars == <<pending, call, sent, popped>>

Init ==
  /\ pending = [t \in Threads |-> <<>>]
  /\ call = "none"
  /\ sent = 0
  /\ popped = {}

Push(t) ==
  /\ sent' = sent + 1
  /\ pending' = [pending EXCEPT ![t] = Append(@, sent + 1)]
  /\ UNCHANGED <<call, popped>>

Call ==
  /\ call = "none"
  /\ call' = IF \A t \in Threads : pending[t] = <<>> THEN "empty" ELSE "some"
  /\ UNCHANGED <<pending, sent, popped>>

ReturnElement(t) ==
  /\ call # "none"
  /\ pending[t] # <<>>
  /\ popped' = popped \union {Head(pending[t])}
  /\ pending' = [pending EXCEPT ![t] = Tail(@)]
  /\ call' = "none"
  /\ UNCHANGED sent

ReturnNone ==
  /\ call = "empty"
  /\ call' = "none"
  /\ UNCHANGED <<pending, sent, popped>>

Next ==
  \/ \E t \in Threads : Push(t)
  \/ Call
  \/ \E t \in Threads : ReturnElement(t)
  \/ ReturnNone

Spec == Init /\ [][Next]_vars
==============================================================================
