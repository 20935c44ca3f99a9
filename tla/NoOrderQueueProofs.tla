-------------------------- MODULE NoOrderQueueProofs --------------------------
(***************************************************************************)
(* Proofs about NoOrderQueue, for any set of threads and any number of     *)
(* elements: its types, and that it implements UnorderedQueue.             *)
(***************************************************************************)
EXTENDS NoOrderQueue, TLAPS

(* map is a function on the threads inserted. *)
MapIsFunction == map = [t \in DOMAIN map |-> map[t]]

(* An iteration that began with something to pop still has a queue with an *)
(* element before it: pushes only add, and only the iteration takes.       *)
SomethingAhead == rpc = "scan" /\ ~foundEmpty => \E t \in scan : map[t] # <<>>

(* Only a thread itself inserts its queue, so what its look-up found is    *)
(* still so when it has the write lock, and it replaces no queue.          *)
InsertsNew == \A t \in Threads : tpc[t] = "insert" => t \notin DOMAIN map

QueueInv == TypeOK /\ MapIsFunction /\ InsertsNew /\ SomethingAhead

(* What the steps on one queue need to know of sequences. *)
LEMMA EmptyIsSeq == \A S : <<>> \in Seq(S)
  OBVIOUS

LEMMA AppendIsSeq ==
  ASSUME NEW n \in Nat, NEW s \in Seq(1 .. n)
  PROVE  Append(s, n + 1) \in Seq(1 .. n + 1) /\ Append(s, n + 1) # <<>>
<1>1. s \in Seq(1 .. n + 1) /\ n + 1 \in 1 .. n + 1
  OBVIOUS
<1> QED
  BY <1>1

LEMMA HeadTailIsSeq ==
  ASSUME NEW S, NEW s \in Seq(S), s # <<>>
  PROVE  Head(s) \in S /\ Tail(s) \in Seq(S)
  OBVIOUS

LEMMA InitQueue == Init => QueueInv
<1> SUFFICES ASSUME Init PROVE QueueInv
  OBVIOUS
<1>1. DOMAIN map = {}
  BY DEF Init
<1>2. map = [t \in DOMAIN map |-> map[t]]
  BY DEF Init
<1> QED
  BY <1>1, <1>2 DEF Init, QueueInv, TypeOK, MapIsFunction, InsertsNew, SomethingAhead

LEMMA CheckStep ==
  ASSUME QueueInv, NEW t \in Threads, PushCheck(t)
  PROVE  QueueInv'
  BY DEF QueueInv, TypeOK, MapIsFunction, InsertsNew, SomethingAhead, PushCheck, ThreadGoes

(* PushInsert runs while nobody iterates. *)
LEMMA InsertStep ==
  ASSUME QueueInv, NEW t \in Threads, PushInsert(t)
  PROVE  QueueInv'
<1> USE DEF QueueInv
<1>1. DOMAIN map' = DOMAIN map \union {t}
  BY DEF PushInsert
<1>2. \A u \in DOMAIN map' : map'[u] \in Seq(1 .. sent')
  BY EmptyIsSeq DEF PushInsert, TypeOK
<1>3. TypeOK'
  BY <1>1, <1>2 DEF PushInsert, ThreadGoes, TypeOK
<1>4. MapIsFunction'
  BY <1>1 DEF PushInsert, MapIsFunction
<1>5. InsertsNew' /\ SomethingAhead'
  BY <1>1 DEF PushInsert, ThreadGoes, TypeOK, InsertsNew, SomethingAhead
<1> QED
  BY <1>3, <1>4, <1>5

(* What a push and a pop do to the map, whose threads they leave alone. *)
LEMMA MapStep ==
  ASSUME QueueInv, NEW t \in DOMAIN map, NEW s, map' = [map EXCEPT ![t] = s]
  PROVE  /\ DOMAIN map' = DOMAIN map
         /\ map'[t] = s
         /\ \A u \in DOMAIN map \ {t} : map'[u] = map[u]
         /\ MapIsFunction'
  BY DEF MapIsFunction

LEMMA ElementStep ==
  ASSUME QueueInv, NEW t \in Threads, PushElement(t)
  PROVE  QueueInv'
<1> USE DEF QueueInv
<1>1. t \in DOMAIN map /\ map[t] \in Seq(1 .. sent)
  BY DEF PushElement, TypeOK
<1>2. /\ DOMAIN map' = DOMAIN map
      /\ map'[t] = Append(map[t], sent + 1)
      /\ \A u \in DOMAIN map \ {t} : map'[u] = map[u]
      /\ MapIsFunction'
  BY <1>1, MapStep DEF PushElement
<1>3. sent \in Nat /\ sent' = sent + 1
  BY DEF PushElement, TypeOK
<1>4. map'[t] \in Seq(1 .. sent') /\ map'[t] # <<>>
  BY <1>1, <1>2, <1>3, AppendIsSeq
<1>5. \A u \in DOMAIN map' : map'[u] \in Seq(1 .. sent')
  <2>1. \A s : s \in Seq(1 .. sent) => s \in Seq(1 .. sent')
    BY <1>3
  <2> QED
    BY <1>2, <1>4, <2>1 DEF TypeOK
<1>6. TypeOK'
  BY <1>2, <1>3, <1>5 DEF PushElement, ThreadGoes, TypeOK
<1>7. InsertsNew' /\ SomethingAhead'
  BY <1>2, <1>4 DEF PushElement, ThreadGoes, InsertsNew, SomethingAhead, TypeOK
<1> QED
  BY <1>2, <1>6, <1>7

LEMMA BeginStep ==
  ASSUME QueueInv, BeginScan
  PROVE  QueueInv'
  BY DEF QueueInv, TypeOK, MapIsFunction, InsertsNew, SomethingAhead, BeginScan

LEMMA TakeStep ==
  ASSUME QueueInv, NEW t \in Threads, ScanTake(t)
  PROVE  QueueInv'
<1> USE DEF QueueInv
<1>1. t \in DOMAIN map /\ map[t] \in Seq(1 .. sent) /\ map[t] # <<>> /\ sent' = sent
  BY DEF ScanTake, TypeOK
<1>2. /\ DOMAIN map' = DOMAIN map
      /\ map'[t] = Tail(map[t])
      /\ \A u \in DOMAIN map \ {t} : map'[u] = map[u]
      /\ MapIsFunction'
  BY <1>1, MapStep DEF ScanTake
<1>3. Head(map[t]) \in 1 .. sent /\ Tail(map[t]) \in Seq(1 .. sent)
  BY <1>1, HeadTailIsSeq
<1>4. TypeOK'
  BY <1>1, <1>2, <1>3 DEF ScanTake, TypeOK
<1>5. InsertsNew' /\ SomethingAhead'
  BY <1>2 DEF ScanTake, InsertsNew, SomethingAhead
<1> QED
  BY <1>2, <1>4, <1>5

LEMMA NextStep ==
  ASSUME QueueInv, NEW t \in Threads, ScanNext(t)
  PROVE  QueueInv'
  BY DEF QueueInv, TypeOK, MapIsFunction, InsertsNew, SomethingAhead, ScanNext

LEMMA EndStep ==
  ASSUME QueueInv, ScanEnd
  PROVE  QueueInv'
  BY DEF QueueInv, TypeOK, MapIsFunction, InsertsNew, SomethingAhead, ScanEnd

LEMMA QueueStep == QueueInv /\ [Next]_vars => QueueInv'
<1> SUFFICES ASSUME QueueInv, [Next]_vars PROVE QueueInv'
  OBVIOUS
<1>1. CASE Next
  BY <1>1, CheckStep, InsertStep, ElementStep, BeginStep, TakeStep, NextStep, EndStep
  DEF Next, PushStep, PopStep
<1>2. CASE UNCHANGED vars
  BY <1>2 DEF vars, QueueInv, TypeOK, MapIsFunction, InsertsNew, SomethingAhead
<1> QED
  BY <1>1, <1>2

THEOREM QueueInvariance == Spec => []QueueInv
  BY InitQueue, QueueStep, PTL DEF Spec

(* The types of the map, its iteration and the threads inside push         *)
(* (mpsc_no_order_queue.rs:24-57).                                         *)
THEOREM TypeCorrectness == Spec => []TypeOK
  BY QueueInvariance, PTL DEF QueueInv

------------------------------------------------------------------------------
(* The refinement *)

(* The queues that the abstract specification sees. *)
Pending == [t \in Threads |-> IF t \in DOMAIN map THEN map[t] ELSE <<>>]

AbstractCall == IF rpc = "idle" THEN "none" ELSE IF foundEmpty THEN "empty" ELSE "some"

LEMMA InitRefines == Init => Abstract!Init
<1> SUFFICES ASSUME Init PROVE Abstract!Init
  OBVIOUS
<1>1. DOMAIN map = {}
  BY DEF Init
<1> QED
  BY <1>1 DEF Init, Abstract!Init

(* An empty queue more or less is nothing to the abstract specification. *)
LEMMA InsertRefines ==
  ASSUME QueueInv, NEW t \in Threads, PushInsert(t)
  PROVE  UNCHANGED Abstract!vars
<1>1. t \notin DOMAIN map
  BY DEF QueueInv, InsertsNew, PushInsert
<1>2. Pending' = Pending
  BY <1>1 DEF PushInsert, Pending
<1> QED
  BY <1>2 DEF Pending, PushInsert, Abstract!vars

LEMMA ElementRefines ==
  ASSUME QueueInv, NEW t \in Threads, PushElement(t)
  PROVE  Abstract!Push(t)
<1>1. t \in DOMAIN map
  BY DEF QueueInv, TypeOK, PushElement
<1>2. /\ DOMAIN map' = DOMAIN map
      /\ map'[t] = Append(map[t], sent + 1)
      /\ \A u \in DOMAIN map \ {t} : map'[u] = map[u]
  BY <1>1, MapStep DEF PushElement
<1>3. Pending' = [Pending EXCEPT ![t] = Append(@, sent + 1)]
  BY <1>1, <1>2 DEF Pending
<1> QED
  BY <1>3 DEF Pending, PushElement, Abstract!Push

LEMMA BeginRefines ==
  ASSUME QueueInv, BeginScan
  PROVE  Abstract!Call
<1>1. foundEmpty' <=> \A t \in Threads : Pending[t] = <<>>
  BY DEF QueueInv, TypeOK, BeginScan, Pending
<1> QED
  BY <1>1 DEF Pending, BeginScan, Abstract!Call

LEMMA TakeRefines ==
  ASSUME QueueInv, NEW t \in Threads, ScanTake(t)
  PROVE  Abstract!ReturnElement(t)
<1>1. t \in DOMAIN map /\ map[t] # <<>>
  BY DEF QueueInv, TypeOK, ScanTake
<1>2. /\ DOMAIN map' = DOMAIN map
      /\ map'[t] = Tail(map[t])
      /\ \A u \in DOMAIN map \ {t} : map'[u] = map[u]
  BY <1>1, MapStep DEF ScanTake
<1>3. Pending' = [Pending EXCEPT ![t] = Tail(@)] /\ Pending[t] = map[t]
  BY <1>1, <1>2 DEF Pending
<1> QED
  BY <1>1, <1>3 DEF Pending, ScanTake, Abstract!ReturnElement

(* The iteration has passed every queue: it began with nothing to pop. *)
LEMMA EndRefines ==
  ASSUME QueueInv, ScanEnd
  PROVE  Abstract!ReturnNone
<1>1. foundEmpty
  BY DEF QueueInv, TypeOK, SomethingAhead, ScanEnd
<1> QED
  BY <1>1 DEF ScanEnd, Abstract!ReturnNone

LEMMA StepRefines ==
  ASSUME QueueInv, [Next]_vars
  PROVE  [Abstract!Next]_(Abstract!vars)
<1>1. ASSUME NEW t \in Threads, PushCheck(t) \/ ScanNext(t) PROVE UNCHANGED Abstract!vars
  BY <1>1 DEF PushCheck, ScanNext, Abstract!vars
<1>2. CASE UNCHANGED vars
  BY <1>2 DEF vars, Abstract!vars
<1>3. CASE Next
  BY <1>1, <1>3, InsertRefines, ElementRefines, BeginRefines, TakeRefines, EndRefines
  DEF Next, PushStep, PopStep, Abstract!Next
<1> QED
  BY <1>2, <1>3

(* mpsc_no_order_queue.rs:37-56: whatever the threads and whenever they    *)
(* come, push and try_pop implement the unordered queue: nothing is lost   *)
(* or returned twice, each thread's elements keep their order, and None    *)
(* means that there was nothing when try_pop was called.                   *)
THEOREM Implementation == Spec => ImplementsUnorderedQueue
  BY InitRefines, StepRefines, QueueInvariance, PTL
  DEF Spec, ImplementsUnorderedQueue, Abstract!Spec
==============================================================================
