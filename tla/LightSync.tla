------------------------------- MODULE LightSync -------------------------------
(***************************************************************************)
(* LightSync of lightsync.rs: a thread waits until it is notified, with a  *)
(* flag and std::thread's park and unpark.                                 *)
(*                                                                         *)
(* wait keeps the waiter's thread handle and id from call to call and      *)
(* replaces them when another thread waits.  The id is the address of a    *)
(* thread-local, which a thread that ends may leave to one that starts     *)
(* later.  One thread waits at a time, as wait's panic demands; threads    *)
(* that have the same id do not live at the same time.                     *)
(*                                                                         *)
(* One action per access to waiting, and per use of the lock and of a      *)
(* park token.                                                             *)
(*                                                                         *)
(* An operator named <Definition>_<change> is a faulty variation that the  *)
(* mutation checks substitute; Spec uses none of them.                     *)
(***************************************************************************)
EXTENDS Naturals

CONSTANTS
  Waiters,    (* threads that call wait               *)
  Notifiers,  (* threads that call notify             *)
  NoThread,   (* Option::None for a thread handle     *)
  Ids,        (* the addresses of the thread-local    *)
  NoId        (* the id before anybody has waited: 0  *)

ASSUME ConstantsAssumption ==
  /\ NoThread \notin Waiters
  /\ NoId \notin Ids

VARIABLES
  waiting,     (* LightSync.waiting                               *)
  waitThread,  (* LightSync.wait_thread.1                         *)
  waitId,      (* LightSync.wait_thread.0                         *)
  token,       (* whose park token is set                         *)
  id,          (* the id each waiter has or will have             *)
  wpc,         (* where each waiter is: "new" and "gone" are its  *)
               (* life before and after                           *)
  npc          (* where each notifier is in notify                *)

vars == <<waiting, waitThread, waitId, token, id, wpc, npc>>

WaiterPc == {"new", "idle", "store", "swap", "look", "park", "panicked", "gone"}
NotifierPc == {"idle", "unpark", "panicked"}

Init ==
  /\ waiting = FALSE
  /\ waitThread = NoThread
  /\ waitId = NoId
  /\ token = {}
  /\ id \in [Waiters -> Ids]
  /\ wpc = [w \in Waiters |-> "new"]
  /\ npc = [n \in Notifiers |-> "idle"]

WaiterGoes(w, pc) == wpc' = [wpc EXCEPT ![w] = pc]
NotifierGoes(n, pc) == npc' = [npc EXCEPT ![n] = pc]

Lives(w) == wpc[w] \notin {"new", "gone"}
Waits(w) == wpc[w] \in {"store", "swap", "look", "park"}

------------------------------------------------------------------------------
(* Threads start and end; an id is in use by one living thread at most. *)

Start(w) ==
  /\ wpc[w] = "new"
  /\ \A v \in Waiters : Lives(v) => id[v] # id[w]
  /\ WaiterGoes(w, "idle")
  /\ UNCHANGED <<waiting, waitThread, waitId, token, id, npc>>

End(w) ==
  /\ wpc[w] = "idle"
  /\ WaiterGoes(w, "gone")
  /\ UNCHANGED <<waiting, waitThread, waitId, token, id, npc>>

------------------------------------------------------------------------------
(* wait *)

Known_AnyThread(w) == waitThread # NoThread

(* The handle that is kept is taken for the caller's. *)
Known(w) == waitThread # NoThread /\ waitId = id[w]

(* wait is called; nobody else writes what it reads under the read locks. *)
Wait(w) ==
  /\ wpc[w] = "idle"
  /\ \A v \in Waiters : ~Waits(v)
  /\ WaiterGoes(w, IF Known(w) THEN "swap" ELSE "store")
  /\ UNCHANGED <<waiting, waitThread, waitId, token, id, npc>>

StoreThread_IdOnly(w) ==
  /\ wpc[w] = "store"
  /\ waitId' = id[w]
  /\ WaiterGoes(w, "swap")
  /\ UNCHANGED <<waiting, waitThread, token, id, npc>>

(* Under the write lock. *)
StoreThread(w) ==
  /\ wpc[w] = "store"
  /\ waitThread' = w
  /\ waitId' = id[w]
  /\ WaiterGoes(w, "swap")
  /\ UNCHANGED <<waiting, token, id, npc>>

SwapWaiting(w) ==
  /\ wpc[w] = "swap"
  /\ waiting' = TRUE
  /\ WaiterGoes(w, IF waiting THEN "panicked" ELSE "look")
  /\ UNCHANGED <<waitThread, waitId, token, id, npc>>

(* The condition of the loop. *)
Look(w) ==
  /\ wpc[w] = "look"
  /\ WaiterGoes(w, IF waiting THEN "park" ELSE "idle")
  /\ UNCHANGED <<waiting, waitThread, waitId, token, id, npc>>

(* park returns and takes the token with it. *)
Unparked(w) ==
  /\ wpc[w] = "park"
  /\ w \in token
  /\ token' = token \ {w}
  /\ WaiterGoes(w, "look")
  /\ UNCHANGED <<waiting, waitThread, waitId, id, npc>>

(* park may return without a reason. *)
SpuriouslyUnparked(w) ==
  /\ wpc[w] = "park"
  /\ WaiterGoes(w, "look")
  /\ UNCHANGED <<waiting, waitThread, waitId, token, id, npc>>

------------------------------------------------------------------------------
(* notify *)

NotifySwap(n) ==
  /\ npc[n] = "idle"
  /\ waiting' = FALSE
  /\ NotifierGoes(n, IF waiting THEN "unpark" ELSE "idle")
  /\ UNCHANGED <<waitThread, waitId, token, id, wpc>>

(* Under the read lock, so that the handle is not being replaced; it panics *)
(* if there is none.                                                        *)
NotifyUnpark(n) ==
  /\ npc[n] = "unpark"
  /\ token' = token \union ({waitThread} \ {NoThread})
  /\ NotifierGoes(n, IF waitThread = NoThread THEN "panicked" ELSE "idle")
  /\ UNCHANGED <<waiting, waitThread, waitId, id, wpc>>

------------------------------------------------------------------------------
(* A thread inside wait that need not sleep. *)
WaitStep(w) ==
  \/ StoreThread(w)
  \/ SwapWaiting(w)
  \/ Look(w)
  \/ Unparked(w)

Next ==
  \/ \E w \in Waiters : Start(w) \/ Wait(w) \/ End(w)
  \/ \E w \in Waiters : WaitStep(w)
  \/ \E w \in Waiters : SpuriouslyUnparked(w)
  \/ \E n \in Notifiers : NotifySwap(n) \/ NotifyUnpark(n)

Spec == Init /\ [][Next]_vars

(* Threads inside a call keep running.  Nobody has to wait or to notify,   *)
(* and park need not return without a reason.                              *)
Fairness ==
  /\ \A w \in Waiters : WF_vars(WaitStep(w))
  /\ \A n \in Notifiers : WF_vars(NotifyUnpark(n))

FairSpec == Spec /\ Fairness

------------------------------------------------------------------------------
(* Properties *)

(* Types; the flag is up only while somebody waits, and then the kept id   *)
(* is the waiter's.                                                        *)
TypeOK ==
  /\ waiting \in BOOLEAN
  /\ waitThread \in Waiters \union {NoThread}
  /\ waitId \in Ids \union {NoId}
  /\ waitThread = NoThread <=> waitId = NoId
  /\ token \subseteq Waiters
  /\ id \in [Waiters -> Ids]
  /\ wpc \in [Waiters -> WaiterPc]
  /\ npc \in [Notifiers -> NotifierPc]
  /\ waiting => \E w \in Waiters : wpc[w] \in {"look", "park"} /\ waitId = id[w]

(* lightsync.rs:33 and :45: a notification that finds somebody waiting     *)
(* finds a thread to unpark, and wait never finds the flag up, however     *)
(* late the notifier of an earlier wait comes.                             *)
NoPanic ==
  /\ \A w \in Waiters : wpc[w] # "panicked"
  /\ \A n \in Notifiers : npc[n] # "panicked"

(* No other thread with the same id has called wait before. *)
OwnId(w) == waitThread = w \/ \A v \in Waiters \ {w} : id[v] # id[w]

(* lightsync.rs:47-49: a waiter whose flag a notifier has taken down is    *)
(* unparked and returns, if its id is not one it shares with a thread that *)
(* waited before it.                                                       *)
NotifiedReturns ==
  \A w \in Waiters :
    wpc[w] \in {"look", "park"} /\ ~waiting /\ OwnId(w) ~> wpc[w] = "idle"
==============================================================================
