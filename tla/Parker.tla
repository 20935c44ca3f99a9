-------------------------------- MODULE Parker --------------------------------
(***************************************************************************)
(* The parker of timeout_parker.rs: park_timeout blocks its thread until   *)
(* it is unparked or the time is over; unpark, on any thread, leaves a     *)
(* notification and wakes the thread if it sleeps.                         *)
(*                                                                         *)
(* One action per atomic operation on state and per use of the mutex or    *)
(* the condition variable.  The time may be over at any moment.            *)
(*                                                                         *)
(* An operator named <Definition>_<change> is a faulty variation that the  *)
(* mutation checks substitute; Spec uses none of them.                     *)
(***************************************************************************)
EXTENDS Naturals

CONSTANTS
  ParkThread,  (* the thread that owns the Parker       *)
  Unparkers,   (* threads that own an Unparker          *)
  Unlocked     (* the value of mutex when nobody has it *)

ASSUME ThreadsAssumption ==
  /\ ParkThread \notin Unparkers
  /\ Unlocked \notin Unparkers \union {ParkThread}

VARIABLES
  state,      (* Inner.state                                              *)
  mutex,      (* the owner of Inner.mutex                                 *)
  ppc,        (* where ParkThread is in park                              *)
  tries,      (* the iterations of park's loop that are left              *)
  upc,        (* where each unparker is in unpark                         *)
  signalled   (* notify_one was called since ParkThread began to wait     *)

vars == <<state, mutex, ppc, tries, upc, signalled>>

States == {"EMPTY", "PARKED_CONDVAR", "NOTIFIED"}
ParkPc == {"idle", "try", "lock", "exchange", "consume", "enter", "waiting",
           "relock", "store", "unlock", "panicked"}
UnparkPc == {"idle", "lock", "unlock", "notify"}

Init ==
  /\ state = "EMPTY"
  /\ mutex = Unlocked
  /\ ppc = "idle"
  /\ tries = 0
  /\ upc = [u \in Unparkers |-> "idle"]
  /\ signalled = FALSE

UnparkerGoes(u, pc) == upc' = [upc EXCEPT ![u] = pc]

------------------------------------------------------------------------------
(* park_timeout *)

Park ==
  /\ ppc = "idle"
  /\ ppc' = "try"
  /\ tries' = 3
  /\ UNCHANGED <<state, mutex, upc, signalled>>

(* One iteration of the loop: a notification is consumed at once. *)
Try ==
  /\ ppc = "try"
  /\ tries > 0
  /\ IF state = "NOTIFIED"
     THEN state' = "EMPTY" /\ ppc' = "idle" /\ tries' = 0
     ELSE tries' = tries - 1 /\ UNCHANGED <<state, ppc>>
  /\ UNCHANGED <<mutex, upc, signalled>>

TriesOver ==
  /\ ppc = "try"
  /\ tries = 0
  /\ ppc' = "lock"
  /\ UNCHANGED <<state, mutex, tries, upc, signalled>>

Lock ==
  /\ ppc = "lock"
  /\ mutex = Unlocked
  /\ mutex' = ParkThread
  /\ ppc' = "exchange"
  /\ UNCHANGED <<state, tries, upc, signalled>>

(* EMPTY -> PARKED_CONDVAR, or the reason why not. *)
Exchange ==
  /\ ppc = "exchange"
  /\ ppc' = CASE state = "EMPTY"    -> "enter"
              [] state = "NOTIFIED" -> "consume"
              [] OTHER              -> "panicked"
  /\ state' = IF state = "EMPTY" THEN "PARKED_CONDVAR" ELSE state
  /\ UNCHANGED <<mutex, tries, upc, signalled>>

(* The swap to EMPTY, with its debug_assert. *)
Consume ==
  /\ ppc = "consume"
  /\ state' = "EMPTY"
  /\ ppc' = IF state = "NOTIFIED" THEN "unlock" ELSE "panicked"
  /\ UNCHANGED <<mutex, tries, upc, signalled>>

(* wait_timeout releases the mutex and waits, in one step. *)
Enter ==
  /\ ppc = "enter"
  /\ mutex' = Unlocked
  /\ signalled' = FALSE
  /\ ppc' = "waiting"
  /\ UNCHANGED <<state, tries, upc>>

Signalled ==
  /\ ppc = "waiting"
  /\ signalled
  /\ ppc' = "relock"
  /\ UNCHANGED <<state, mutex, tries, upc, signalled>>

(* The time is over, or the condition variable wakes without a reason. *)
Timeout ==
  /\ ppc = "waiting"
  /\ ppc' = "relock"
  /\ UNCHANGED <<state, mutex, tries, upc, signalled>>

Relock ==
  /\ ppc = "relock"
  /\ mutex = Unlocked
  /\ mutex' = ParkThread
  /\ ppc' = "store"
  /\ UNCHANGED <<state, tries, upc, signalled>>

Store_Omitted ==
  /\ ppc = "store"
  /\ ppc' = "unlock"
  /\ UNCHANGED <<state, mutex, tries, upc, signalled>>

Store ==
  /\ ppc = "store"
  /\ state' = "EMPTY"
  /\ ppc' = "unlock"
  /\ UNCHANGED <<mutex, tries, upc, signalled>>

(* The guard is dropped and park returns. *)
Unlock ==
  /\ ppc = "unlock"
  /\ mutex' = Unlocked
  /\ signalled' = FALSE
  /\ ppc' = "idle"
  /\ UNCHANGED <<state, tries, upc>>

------------------------------------------------------------------------------
(* unpark *)

UnparkSwap_NoLock(u) ==
  /\ upc[u] = "idle"
  /\ state' = "NOTIFIED"
  /\ UnparkerGoes(u, IF state = "PARKED_CONDVAR" THEN "notify" ELSE "idle")
  /\ UNCHANGED <<mutex, ppc, tries, signalled>>

UnparkSwap(u) ==
  /\ upc[u] = "idle"
  /\ state' = "NOTIFIED"
  /\ UnparkerGoes(u, IF state = "PARKED_CONDVAR" THEN "lock" ELSE "idle")
  /\ UNCHANGED <<mutex, ppc, tries, signalled>>

(* drop(self.mutex.lock()) *)
UnparkLock(u) ==
  /\ upc[u] = "lock"
  /\ mutex = Unlocked
  /\ mutex' = u
  /\ UnparkerGoes(u, "unlock")
  /\ UNCHANGED <<state, ppc, tries, signalled>>

UnparkUnlock_GuardKept(u) ==
  /\ upc[u] = "unlock"
  /\ UnparkerGoes(u, "notify")
  /\ UNCHANGED <<state, mutex, ppc, tries, signalled>>

UnparkUnlock(u) ==
  /\ upc[u] = "unlock"
  /\ mutex' = Unlocked
  /\ UnparkerGoes(u, "notify")
  /\ UNCHANGED <<state, ppc, tries, signalled>>

(* notify_one wakes ParkThread if it waits and is lost otherwise. *)
UnparkNotify(u) ==
  /\ upc[u] = "notify"
  /\ signalled' = (signalled \/ ppc = "waiting")
  /\ UnparkerGoes(u, "idle")
  /\ UNCHANGED <<state, mutex, ppc, tries>>

------------------------------------------------------------------------------
(* ParkThread inside park, when it need not wait. *)
ParkStep ==
  \/ Try
  \/ TriesOver
  \/ Lock
  \/ Exchange
  \/ Consume
  \/ Enter
  \/ Signalled
  \/ Relock
  \/ Store
  \/ Unlock

UnparkStep(u) ==
  \/ UnparkLock(u)
  \/ UnparkUnlock(u)
  \/ UnparkNotify(u)

Next ==
  \/ Park
  \/ ParkStep
  \/ Timeout
  \/ \E u \in Unparkers : UnparkSwap(u)
  \/ \E u \in Unparkers : UnparkStep(u)

Spec == Init /\ [][Next]_vars

(* Threads inside a call keep running.  There is no fairness of Timeout:   *)
(* what is promised of unpark must not rest on the time being over.        *)
Fairness ==
  /\ WF_vars(ParkStep)
  /\ \A u \in Unparkers : WF_vars(UnparkStep(u))

FairSpec == Spec /\ Fairness

------------------------------------------------------------------------------
(* Properties *)

(* Types, and who has the mutex when. *)
TypeOK ==
  /\ state \in States
  /\ mutex \in Unparkers \union {ParkThread, Unlocked}
  /\ ppc \in ParkPc
  /\ tries \in 0 .. 3
  /\ upc \in [Unparkers -> UnparkPc]
  /\ signalled \in BOOLEAN
  /\ ppc \in {"exchange", "consume", "enter", "store", "unlock"} => mutex = ParkThread
  /\ \A u \in Unparkers : upc[u] = "unlock" <=> mutex = u

(* timeout_parker.rs:114, 137 and the debug_assert at :110: park finds     *)
(* state neither parked already nor changed under its lock.                *)
NoPanic == ppc # "panicked"

(* timeout_parker.rs:143-149: "if we were to notify during this period it  *)
(* would be ignored": a thread never sleeps on a notification unless an    *)
(* unparker is on its way to the condition variable.                       *)
NoLostUnpark ==
  ppc = "waiting" /\ state = "NOTIFIED" /\ ~signalled
    => \E u \in Unparkers : upc[u] \in {"lock", "unlock", "notify"}

(* A notification ends the park that is under way, without the help of the *)
(* timeout.                                                                *)
UnparkEndsPark == ppc # "idle" /\ state = "NOTIFIED" ~> ppc = "idle"
==============================================================================
