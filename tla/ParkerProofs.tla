----------------------------- MODULE ParkerProofs -----------------------------
(***************************************************************************)
(* Proofs about Parker, for any number of unparkers.                       *)
(***************************************************************************)
EXTENDS Parker, TLAPS

(* What the value of state says about where ParkThread is: it has set      *)
(* PARKED_CONDVAR only between its exchange and its store, and state is    *)
(* not EMPTY there; at the swap there is a notification to consume.        *)
StateInv ==
  /\ state = "PARKED_CONDVAR" => ppc \in {"enter", "waiting", "relock", "store"}
  /\ ppc \in {"enter", "waiting"} => state # "EMPTY"
  /\ ppc = "consume" => state = "NOTIFIED"

(* ParkThread has the mutex at "enter", so an unparker that notified it    *)
(* since the exchange has yet to pass the mutex.                           *)
LockInTheWay ==
  ppc = "enter" /\ state = "NOTIFIED" => \E u \in Unparkers : upc[u] = "lock"

IInv == TypeOK /\ NoPanic /\ StateInv /\ LockInTheWay /\ NoLostUnpark

------------------------------------------------------------------------------
(* timeout_parker.rs:42-50: the invariant holds of a new parker. *)
LEMMA InitIInv == Init => IInv
<1> SUFFICES ASSUME Init
             PROVE  IInv
  OBVIOUS
<1>1. TypeOK
  <2>1. \A u \in Unparkers : upc[u] = "unlock" <=> mutex = u
    BY ThreadsAssumption DEF Init
  <2>2. signalled \in BOOLEAN
    BY DEF Init
  <2>3. tries \in 0 .. 3
    BY DEF Init
  <2> QED
    BY <2>1, <2>2, <2>3 DEF Init, TypeOK, States, ParkPc, UnparkPc
<1>2. NoPanic /\ StateInv /\ LockInTheWay /\ NoLostUnpark
  BY DEF Init, NoPanic, StateInv, LockInTheWay, NoLostUnpark
<1> QED
  BY <1>1, <1>2 DEF IInv

(* No step of park or unpark breaks the types or the ownership of the      *)
(* mutex.                                                                  *)
LEMMA TypeStep == IInv /\ [Next]_vars => TypeOK'
<1> SUFFICES ASSUME IInv, [Next]_vars
             PROVE  TypeOK'
  OBVIOUS
<1> USE ThreadsAssumption DEF IInv, TypeOK, States, ParkPc, UnparkPc, UnparkerGoes
<1>1. CASE Park
  BY <1>1 DEF Park
<1>2. CASE Try
  BY <1>2 DEF Try
<1>3. CASE TriesOver \/ Lock \/ Signalled \/ Timeout \/ Relock
  BY <1>3 DEF TriesOver, Lock, Signalled, Timeout, Relock
<1>4. CASE Exchange
  BY <1>4 DEF Exchange
<1>5. CASE Consume \/ Store
  BY <1>5 DEF Consume, Store
<1>6. CASE Enter \/ Unlock
  BY <1>6 DEF Enter, Unlock
<1>7. ASSUME NEW u \in Unparkers, UnparkSwap(u)
      PROVE  TypeOK'
  BY <1>7 DEF UnparkSwap
<1>8. ASSUME NEW u \in Unparkers, UnparkLock(u)
      PROVE  TypeOK'
  BY <1>8 DEF UnparkLock
<1>9. ASSUME NEW u \in Unparkers, UnparkUnlock(u)
      PROVE  TypeOK'
  BY <1>9 DEF UnparkUnlock
<1>10. ASSUME NEW u \in Unparkers, UnparkNotify(u)
       PROVE  TypeOK'
  BY <1>10 DEF UnparkNotify
<1>11. CASE UNCHANGED vars
  BY <1>11 DEF vars
<1> QED
  BY <1>1, <1>2, <1>3, <1>4, <1>5, <1>6, <1>7, <1>8, <1>9, <1>10, <1>11
     DEF Next, ParkStep, UnparkStep

(* No step makes park meet a state it does not expect, since only its own  *)
(* exchange sets PARKED_CONDVAR and only its own steps take it away or     *)
(* consume a notification.                                                 *)
LEMMA StateStep == IInv /\ [Next]_vars => NoPanic' /\ StateInv'
<1> SUFFICES ASSUME IInv, [Next]_vars
             PROVE  NoPanic' /\ StateInv'
  OBVIOUS
<1> USE DEF IInv, TypeOK, NoPanic, StateInv, States
<1>1. CASE Park \/ Try \/ TriesOver \/ Lock \/ Signalled \/ Timeout \/ Relock
  BY <1>1 DEF Park, Try, TriesOver, Lock, Signalled, Timeout, Relock
<1>2. CASE Exchange
  BY <1>2 DEF Exchange
<1>3. CASE Consume \/ Store
  BY <1>3 DEF Consume, Store
<1>4. CASE Enter \/ Unlock
  BY <1>4 DEF Enter, Unlock
<1>5. ASSUME NEW u \in Unparkers, UnparkSwap(u) \/ UnparkStep(u)
      PROVE  NoPanic' /\ StateInv'
  BY <1>5 DEF UnparkSwap, UnparkStep, UnparkLock, UnparkUnlock, UnparkNotify
<1>6. CASE UNCHANGED vars
  BY <1>6 DEF vars
<1> QED
  BY <1>1, <1>2, <1>3, <1>4, <1>5, <1>6 DEF Next, ParkStep

(* timeout_parker.rs:143-154: the notification that comes between the      *)
(* exchange and the wait is held up at the mutex, and one that comes later *)
(* finds ParkThread waiting.                                               *)
LEMMA WakeStep == IInv /\ [Next]_vars => LockInTheWay' /\ NoLostUnpark'
<1> SUFFICES ASSUME IInv, [Next]_vars
             PROVE  LockInTheWay' /\ NoLostUnpark'
  OBVIOUS
<1> USE DEF IInv, LockInTheWay, NoLostUnpark
<1>1. CASE Park \/ Try \/ TriesOver \/ Lock \/ Signalled \/ Timeout \/ Relock
  BY <1>1 DEF Park, Try, TriesOver, Lock, Signalled, Timeout, Relock
<1>2. CASE Exchange \/ Consume \/ Store \/ Unlock
  BY <1>2 DEF Exchange, Consume, Store, Unlock
<1>3. CASE Enter
  BY <1>3 DEF Enter
<1>4. ASSUME NEW u \in Unparkers, UnparkSwap(u)
      PROVE  LockInTheWay' /\ NoLostUnpark'
  <2>1. CASE state = "PARKED_CONDVAR"
    BY <1>4, <2>1 DEF UnparkSwap, UnparkerGoes, TypeOK
  <2>2. CASE state = "NOTIFIED"
    <3>1. \A v \in Unparkers : upc[v] # "idle" => upc'[v] = upc[v]
      BY <1>4 DEF UnparkSwap, UnparkerGoes, TypeOK
    <3> QED
      BY <1>4, <2>2, <3>1 DEF UnparkSwap
  <2>3. CASE state = "EMPTY"
    BY <1>4, <2>3 DEF UnparkSwap, StateInv
  <2> QED
    BY <2>1, <2>2, <2>3 DEF TypeOK, States
<1>5. ASSUME NEW u \in Unparkers, UnparkLock(u)
      PROVE  LockInTheWay' /\ NoLostUnpark'
  (* ParkThread does not have the mutex, so it is not at "enter". *)
  <2>1. ppc # "enter" /\ ppc' = ppc
    BY <1>5, ThreadsAssumption DEF UnparkLock, TypeOK
  <2>2. upc'[u] = "unlock" /\ UNCHANGED <<state, signalled>>
    BY <1>5 DEF UnparkLock, UnparkerGoes, TypeOK
  <2> QED
    BY <2>1, <2>2
<1>6. ASSUME NEW u \in Unparkers, UnparkUnlock(u)
      PROVE  LockInTheWay' /\ NoLostUnpark'
  <2>1. ppc # "enter" /\ ppc' = ppc
    BY <1>6, ThreadsAssumption DEF UnparkUnlock, TypeOK
  <2>2. upc'[u] = "notify" /\ UNCHANGED <<state, signalled>>
    BY <1>6 DEF UnparkUnlock, UnparkerGoes, TypeOK
  <2> QED
    BY <2>1, <2>2
<1>7. ASSUME NEW u \in Unparkers, UnparkNotify(u)
      PROVE  LockInTheWay' /\ NoLostUnpark'
  <2>1. \A v \in Unparkers : upc[v] = "lock" => upc'[v] = "lock"
    BY <1>7 DEF UnparkNotify, UnparkerGoes, TypeOK
  <2>2. ppc = "waiting" => signalled'
    BY <1>7 DEF UnparkNotify
  <2> QED
    BY <1>7, <2>1, <2>2 DEF UnparkNotify
<1>8. CASE UNCHANGED vars
  BY <1>8 DEF vars
<1> QED
  BY <1>1, <1>2, <1>3, <1>4, <1>5, <1>6, <1>7, <1>8 DEF Next, ParkStep, UnparkStep

(* The conjunction is an invariant of every execution of the parker. *)
THEOREM Invariance == Spec => []IInv
<1>1. IInv /\ [Next]_vars => IInv'
  BY TypeStep, StateStep, WakeStep DEF IInv
<1> QED
  BY InitIInv, <1>1, PTL DEF Spec

------------------------------------------------------------------------------
(* Types, and the ownership of the parker's mutex. *)
THEOREM TypeCorrect == Spec => []TypeOK
BY Invariance, PTL DEF IInv

(* timeout_parker.rs:110, 114: park never meets an inconsistent state. *)
THEOREM NeverPanics == Spec => []NoPanic
BY Invariance, PTL DEF IInv

(* timeout_parker.rs:141-157: no thread sleeps on a notification that      *)
(* nobody is about to deliver.                                             *)
THEOREM UnparkNeverLost == Spec => []NoLostUnpark
BY Invariance, PTL DEF IInv
==============================================================================
