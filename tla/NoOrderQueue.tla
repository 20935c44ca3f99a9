----------------------------- MODULE NoOrderQueue -----------------------------
(***************************************************************************)
(* The queue of mpsc_no_order_queue.rs: one SegQueue per pushing thread,   *)
(* in a HashMap behind a read-write lock, and one consumer.                *)
(*                                                                         *)
(* A thread is known by the address of a thread-local.  A thread that has  *)
(* ended may leave its address to a new one, which goes on where the old   *)
(* one stopped; Threads are therefore the addresses.                       *)
(*                                                                         *)
(* A use of the map under a read lock that is given up at once is one      *)
(* action.  try_pop holds the read lock while rpc = "scan", and the write  *)
(* lock waits for it.                                                      *)
(*                                                                         *)
(* An operator named <Definition>_<change> is a faulty variation that the  *)
(* mutation checks substitute; Spec uses none of them.                     *)
(***************************************************************************)
EXTENDS Naturals, Sequences, Functions

CONSTANTS
  Threads,  (* the threads that push                         *)
  MaxMsgs   (* bound: how many elements all threads together push *)

ASSUME ConstantsAssumption == MaxMsgs \in Nat

VARIABLES
  map,         (* threads_queues, a function on the threads inserted       *)
  tpc,         (* where each thread is in push                             *)
  rpc,         (* whether the consumer iterates over the map, in try_pop   *)
  scan,        (* the queues of the iteration that are still to come       *)
  foundEmpty,  (* history: there was nothing to pop when try_pop began     *)
  sent,        (* history: how many elements were pushed; the i-th is i    *)
  popped       (* history: the elements try_pop has returned               *)

vars == <<map, tpc, rpc, scan, foundEmpty, sent, popped>>

Init ==
  /\ map = << >>
  /\ tpc = [t \in Threads |-> "idle"]
  /\ rpc = "idle"
  /\ scan = {}
  /\ foundEmpty = FALSE
  /\ sent = 0
  /\ popped = {}

ThreadGoes(t, pc) == tpc' = [tpc EXCEPT ![t] = pc]

------------------------------------------------------------------------------
(* push *)

PushCheck_Skipped(t) ==
  /\ tpc[t] = "idle"
  /\ sent < MaxMsgs
  /\ ThreadGoes(t, "insert")
  /\ UNCHANGED <<map, rpc, scan, foundEmpty, sent, popped>>

PushCheck_AnyQueue(t) ==
  /\ tpc[t] = "idle"
  /\ sent < MaxMsgs
  /\ ThreadGoes(t, IF DOMAIN map # {} THEN "push" ELSE "insert")
  /\ UNCHANGED <<map, rpc, scan, foundEmpty, sent, popped>>

(* Is there a queue for the thread?  The read lock is given up. *)
PushCheck(t) ==
  /\ tpc[t] = "idle"
  /\ sent < MaxMsgs
  /\ ThreadGoes(t, IF t \in DOMAIN map THEN "push" ELSE "insert")
  /\ UNCHANGED <<map, rpc, scan, foundEmpty, sent, popped>>

(* An empty queue is inserted, under the write lock. *)
PushInsert(t) ==
  /\ tpc[t] = "insert"
  /\ rpc # "scan"
  /\ map' = [u \in DOMAIN map \union {t} |-> IF u = t THEN <<>> ELSE map[u]]
  /\ ThreadGoes(t, "push")
  /\ UNCHANGED <<rpc, scan, foundEmpty, sent, popped>>

(* The element is pushed, under the read lock again. *)
PushElement(t) ==
  /\ tpc[t] = "push"
  /\ map' = [map EXCEPT ![t] = Append(@, sent + 1)]
  /\ sent' = sent + 1
  /\ ThreadGoes(t, "idle")
  /\ UNCHANGED <<rpc, scan, foundEmpty, popped>>

------------------------------------------------------------------------------
(* try_pop *)

BeginScan ==
  /\ rpc = "idle"
  /\ rpc' = "scan"
  /\ scan' = DOMAIN map
  /\ foundEmpty' = \A t \in DOMAIN map : map[t] = <<>>
  /\ UNCHANGED <<map, tpc, sent, popped>>

(* The iteration comes to a queue with an element: try_pop returns it.  A  *)
(* HashMap may be iterated in any order.                                   *)
ScanTake(t) ==
  /\ rpc = "scan"
  /\ t \in scan
  /\ map[t] # <<>>
  /\ map' = [map EXCEPT ![t] = Tail(@)]
  /\ popped' = popped \union {Head(map[t])}
  /\ rpc' = "idle"
  /\ scan' = {}
  /\ UNCHANGED <<tpc, foundEmpty, sent>>

ScanNext_Last(t) ==
  /\ rpc = "scan"
  /\ t \in scan
  /\ map[t] = <<>>
  /\ scan' = {}
  /\ UNCHANGED <<map, tpc, rpc, foundEmpty, sent, popped>>

ScanNext(t) ==
  /\ rpc = "scan"
  /\ t \in scan
  /\ map[t] = <<>>
  /\ scan' = scan \ {t}
  /\ UNCHANGED <<map, tpc, rpc, foundEmpty, sent, popped>>

(* try_pop returns None. *)
ScanEnd ==
  /\ rpc = "scan"
  /\ scan = {}
  /\ rpc' = "idle"
  /\ UNCHANGED <<map, tpc, scan, foundEmpty, sent, popped>>

------------------------------------------------------------------------------
PushStep(t) == PushInsert(t) \/ PushElement(t)

PopStep ==
  \/ BeginScan
  \/ \E t \in Threads : ScanTake(t) \/ ScanNext(t)
  \/ ScanEnd

Next ==
  \/ \E t \in Threads : PushCheck(t) \/ PushStep(t)
  \/ PopStep

Spec == Init /\ [][Next]_vars

(* Threads inside push keep running, and the consumer calls try_pop again  *)
(* and again.  Nobody has to push.                                         *)
Fairness ==
  /\ \A t \in Threads : WF_vars(PushStep(t))
  /\ WF_vars(PopStep)

FairSpec == Spec /\ Fairness

------------------------------------------------------------------------------
(* Properties *)

(* Types; an iteration is only under way while try_pop holds the read      *)
(* lock, and a thread that is about to push has its queue.                 *)
TypeOK ==
  /\ DOMAIN map \subseteq Threads
  /\ \A t \in DOMAIN map : map[t] \in Seq(1 .. sent)
  /\ tpc \in [Threads -> {"idle", "insert", "push"}]
  /\ \A t \in Threads : tpc[t] = "push" => t \in DOMAIN map
  /\ rpc \in {"idle", "scan"}
  /\ scan \subseteq DOMAIN map
  /\ rpc # "scan" => scan = {}
  /\ foundEmpty \in BOOLEAN
  /\ sent \in Nat
  /\ popped \subseteq 1 .. sent

Elements == UNION {Range(map[t]) : t \in DOMAIN map}

Abstract == INSTANCE UnorderedQueue WITH
  pending <- [t \in Threads |-> IF t \in DOMAIN map THEN map[t] ELSE <<>>],
  call <- IF rpc = "idle" THEN "none" ELSE IF foundEmpty THEN "empty" ELSE "some"

(* mpsc_no_order_queue.rs:37-56: the queue, with its lock given up between *)
(* look-up, insertion and push and its iteration over a map that others    *)
(* push to, is the unordered queue: nothing is lost or returned twice,     *)
(* each thread's elements keep their order, and try_pop returns None only  *)
(* if there was nothing to pop when it was called.                         *)
ImplementsUnorderedQueue == Abstract!Spec

(* mpsc_no_order_queue.rs:50-54: a consumer that keeps calling try_pop     *)
(* gets every element, in whatever order the HashMap is iterated, once the *)
(* threads stop pushing.  Of pushes without end (MaxMsgs bounds them) it   *)
(* says nothing: the order is the same at every call as long as no queue   *)
(* is inserted, so that a queue refilled early in it starves a later one.  *)
EveryElementPopped ==
  \A i \in 1 .. MaxMsgs : i \in Elements ~> i \in popped
==============================================================================
