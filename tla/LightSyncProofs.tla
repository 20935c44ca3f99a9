--------------------------- MODULE LightSyncProofs ---------------------------
(***************************************************************************)
(* Proofs about LightSync, for any number of waiters, notifiers and ids:   *)
(* its types, and that neither wait nor notify ever panics.                *)
(***************************************************************************)
EXTENDS LightSync, TLAPS

(* What wait relies on from one of its steps to the next: nobody else      *)
(* waits, and once the caller's handle is stored it stays.                 *)
OneWaits == \A v, w \in Waiters : Waits(v) /\ Waits(w) => v = w

Stored(w) == waitThread # NoThread /\ waitId = id[w]

WaitingStored == \A w \in Waiters : wpc[w] \in {"swap", "look", "park"} => Stored(w)

(* A notifier that has taken the flag down has seen a wait, and a handle   *)
(* that is stored is only ever replaced.                                   *)
NotifierFindsThread == \A n \in Notifiers : npc[n] = "unpark" => waitThread # NoThread

SyncInv ==
  /\ TypeOK
  /\ OneWaits
  /\ WaitingStored
  /\ NotifierFindsThread
  /\ NoPanic

LEMMA InitSync == Init => SyncInv
  BY ConstantsAssumption
  DEF Init, SyncInv, TypeOK, OneWaits, Waits, WaitingStored, NotifierFindsThread, NoPanic,
      WaiterPc, NotifierPc

(* The flag is down while a waiter is about to put it up. *)
LEMMA FlagDownAtSwap ==
  ASSUME SyncInv, NEW w \in Waiters, wpc[w] \in {"store", "swap"}
  PROVE  ~waiting
  BY DEF SyncInv, TypeOK, OneWaits, Waits

(* Steps outside wait and notify, and the call of wait. *)
LEMMA CallStep ==
  ASSUME SyncInv, NEW w \in Waiters, Start(w) \/ Wait(w) \/ End(w)
  PROVE  SyncInv'
<1> USE DEF SyncInv
<1>1. CASE Start(w)
  BY <1>1 DEF Start, WaiterGoes, TypeOK, WaiterPc, OneWaits, Waits, WaitingStored, Stored,
              NotifierFindsThread, NoPanic
<1>2. CASE End(w)
  BY <1>2 DEF End, WaiterGoes, TypeOK, WaiterPc, OneWaits, Waits, WaitingStored, Stored,
              NotifierFindsThread, NoPanic
<1>3. CASE Wait(w)
  BY <1>3 DEF Wait, Known, WaiterGoes, TypeOK, WaiterPc, OneWaits, Waits, WaitingStored, Stored,
              NotifierFindsThread, NoPanic
<1> QED
  BY <1>1, <1>2, <1>3

(* StoreThread replaces the handle, which no other waiter is using. *)
LEMMA StoreStep ==
  ASSUME SyncInv, NEW w \in Waiters, StoreThread(w)
  PROVE  SyncInv'
<1> USE DEF SyncInv
<1>1. wpc[w] = "store" /\ ~waiting /\ w # NoThread /\ id[w] # NoId
  BY FlagDownAtSwap, ConstantsAssumption DEF StoreThread, TypeOK
<1>2. TypeOK'
  BY <1>1 DEF StoreThread, WaiterGoes, TypeOK, WaiterPc
<1>3. OneWaits'
  BY <1>1 DEF StoreThread, WaiterGoes, TypeOK, OneWaits, Waits
<1>4. WaitingStored'
  BY <1>1 DEF StoreThread, WaiterGoes, TypeOK, OneWaits, Waits, WaitingStored, Stored
<1>5. NotifierFindsThread' /\ NoPanic'
  BY <1>1 DEF StoreThread, WaiterGoes, TypeOK, NotifierFindsThread, NoPanic
<1> QED
  BY <1>2, <1>3, <1>4, <1>5

LEMMA SwapStep ==
  ASSUME SyncInv, NEW w \in Waiters, SwapWaiting(w)
  PROVE  SyncInv'
<1> USE DEF SyncInv
<1>1. wpc[w] = "swap" /\ ~waiting /\ Stored(w)
  BY FlagDownAtSwap DEF SwapWaiting, WaitingStored
<1>2. wpc' = [wpc EXCEPT ![w] = "look"]
  BY <1>1 DEF SwapWaiting, WaiterGoes
<1> QED
  BY <1>1, <1>2 DEF SwapWaiting, TypeOK, WaiterPc, OneWaits, Waits, WaitingStored, Stored,
                    NotifierFindsThread, NoPanic

(* Look leaves only when the flag is down; no waiter's park puts it up. *)
LEMMA SleepStep ==
  ASSUME SyncInv, NEW w \in Waiters, Look(w) \/ Unparked(w) \/ SpuriouslyUnparked(w)
  PROVE  SyncInv'
<1> USE DEF SyncInv
<1>1. CASE Look(w)
  BY <1>1 DEF Look, WaiterGoes, TypeOK, WaiterPc, OneWaits, Waits, WaitingStored, Stored,
              NotifierFindsThread, NoPanic
<1>2. CASE Unparked(w)
  BY <1>2 DEF Unparked, WaiterGoes, TypeOK, WaiterPc, OneWaits, Waits, WaitingStored, Stored,
              NotifierFindsThread, NoPanic
<1>3. CASE SpuriouslyUnparked(w)
  BY <1>3 DEF SpuriouslyUnparked, WaiterGoes, TypeOK, WaiterPc, OneWaits, Waits, WaitingStored,
              Stored, NotifierFindsThread, NoPanic
<1> QED
  BY <1>1, <1>2, <1>3

LEMMA NotifyStep ==
  ASSUME SyncInv, NEW n \in Notifiers, NotifySwap(n) \/ NotifyUnpark(n)
  PROVE  SyncInv'
<1> USE DEF SyncInv
<1>1. CASE NotifySwap(n)
  <2>1. waiting => waitThread # NoThread
    BY DEF TypeOK, WaitingStored, Stored
  <2> QED
    BY <1>1, <2>1 DEF NotifySwap, NotifierGoes, TypeOK, NotifierPc, OneWaits, Waits,
                      WaitingStored, Stored, NotifierFindsThread, NoPanic
<1>2. CASE NotifyUnpark(n)
  <2>1. waitThread # NoThread /\ npc' = [npc EXCEPT ![n] = "idle"]
    BY <1>2 DEF NotifyUnpark, NotifierGoes, NotifierFindsThread
  <2> QED
    BY <1>2, <2>1 DEF NotifyUnpark, TypeOK, NotifierPc, OneWaits, Waits,
                      WaitingStored, Stored, NotifierFindsThread, NoPanic
<1> QED
  BY <1>1, <1>2

LEMMA SyncStep == SyncInv /\ [Next]_vars => SyncInv'
<1> SUFFICES ASSUME SyncInv, [Next]_vars PROVE SyncInv'
  OBVIOUS
<1>1. CASE Next
  BY <1>1, CallStep, StoreStep, SwapStep, SleepStep, NotifyStep DEF Next, WaitStep
<1>2. CASE UNCHANGED vars
  BY <1>2 DEF vars, SyncInv, TypeOK, OneWaits, Waits, WaitingStored, Stored,
              NotifierFindsThread, NoPanic
<1> QED
  BY <1>1, <1>2

THEOREM SyncInvariance == Spec => []SyncInv
  BY InitSync, SyncStep, PTL DEF Spec

(* The types of LightSync's fields, and that the flag is up only while the *)
(* thread whose id is stored waits (lightsync.rs:37-50).                   *)
THEOREM TypeCorrectness == Spec => []TypeOK
  BY SyncInvariance, PTL DEF SyncInv

(* lightsync.rs:33 and :45: neither the panic of wait nor the unwrap of    *)
(* notify is ever reached, with any number of notifiers and for threads    *)
(* that come after one another with the same id.                           *)
THEOREM NeverPanics == Spec => []NoPanic
  BY SyncInvariance, PTL DEF SyncInv
==============================================================================
