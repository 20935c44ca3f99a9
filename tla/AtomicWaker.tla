----------------------------- MODULE AtomicWaker -----------------------------
(***************************************************************************)
(* The waker cell of tokio_transplant/atomic_waker.rs: register_by_ref     *)
(* stores the waker of a task, wake takes it out and wakes the task.  The  *)
(* two bits of state are the lock of the cell.  Any thread may call either *)
(* operation at any time.                                                  *)
(*                                                                         *)
(* One action per atomic operation on state, and one per use of the cell.  *)
(* A waker is modelled by the task it wakes; cloning one may panic, since  *)
(* it is code from outside.                                                *)
(*                                                                         *)
(* An operator named <Definition>_<change> is a faulty variation that the  *)
(* mutation checks substitute; Spec uses none of them.                     *)
(***************************************************************************)
EXTENDS Naturals, FiniteSets

CONSTANTS
  Threads,  (* the threads that call register_by_ref and wake *)
  Tasks,    (* the tasks whose wakers are registered          *)
  NoTask    (* Option::None for a waker                       *)

ASSUME TasksAssumption == NoTask \notin Tasks

VARIABLES
  state,  (* the bits set in AtomicWaker.state; {} is WAITING            *)
  cell,   (* AtomicWaker.waker                                           *)
  wpc,    (* where each thread is in do_register or wake                 *)
  new,    (* do_register's new waker (NoTask once into_waker panicked),  *)
          (* or the waker that wake took                                 *)
  old,    (* do_register's old_waker                                     *)
  woken,  (* tasks that were woken and have not run since                *)
  owed    (* history: tasks that a wake call owes their wake-up          *)

vars == <<state, cell, wpc, new, old, woken, owed>>

Bits == {"REGISTERING", "WAKING"}
Wakers == Tasks \union {NoTask}
RegisterPc == {"locked", "release", "contended", "swap"}
TakePc == {"taking", "unlock"}
Pc == {"idle", "wakeOld", "wakeNew"} \union RegisterPc \union TakePc

Init ==
  /\ state = {}
  /\ cell = NoTask
  /\ wpc = [t \in Threads |-> "idle"]
  /\ new = [t \in Threads |-> NoTask]
  /\ old = [t \in Threads |-> NoTask]
  /\ woken = {}
  /\ owed = {}

ThreadGoes(t, pc) == wpc' = [wpc EXCEPT ![t] = pc]

Some(w) == {w} \ {NoTask}

------------------------------------------------------------------------------
(* register_by_ref *)

(* WAITING -> REGISTERING: the cell is locked for storing w. *)
RegisterLock(t, w) ==
  /\ wpc[t] = "idle"
  /\ state = {}
  /\ state' = {"REGISTERING"}
  /\ new' = [new EXCEPT ![t] = w]
  /\ ThreadGoes(t, "locked")
  /\ UNCHANGED <<cell, old, woken, owed>>

RegisterWhileWaking_Ignored(t, w) ==
  /\ wpc[t] = "idle"
  /\ state = {"WAKING"}
  /\ owed' = owed \union {w}
  /\ UNCHANGED <<state, cell, wpc, new, old, woken>>

(* A wake is taking the cell's waker: w is to be woken at once. *)
RegisterWhileWaking(t, w) ==
  /\ wpc[t] = "idle"
  /\ state = {"WAKING"}
  /\ new' = [new EXCEPT ![t] = w]
  /\ owed' = owed \union {w}
  /\ ThreadGoes(t, "wakeNew")
  /\ UNCHANGED <<state, cell, old, woken>>

(* Another thread is registering: this call is dropped. *)
RegisterRefused(t) ==
  /\ wpc[t] = "idle"
  /\ "REGISTERING" \in state
  /\ UNCHANGED vars

(* into_waker succeeded; the new waker replaces the old one in the cell. *)
IntoWaker(t) ==
  /\ wpc[t] = "locked"
  /\ old' = [old EXCEPT ![t] = cell]
  /\ cell' = new[t]
  /\ ThreadGoes(t, "release")
  /\ UNCHANGED <<state, new, woken, owed>>

(* into_waker panicked; the cell keeps the old waker. *)
IntoWakerPanics(t) ==
  /\ wpc[t] = "locked"
  /\ new' = [new EXCEPT ![t] = NoTask]
  /\ ThreadGoes(t, "release")
  /\ UNCHANGED <<state, cell, old, woken, owed>>

Release_Unconditional(t) ==
  /\ wpc[t] = "release"
  /\ state' = {}
  /\ new' = [new EXCEPT ![t] = NoTask]
  /\ old' = [old EXCEPT ![t] = NoTask]
  /\ ThreadGoes(t, "idle")
  /\ UNCHANGED <<cell, woken, owed>>

(* REGISTERING -> WAITING: registered; the old waker is dropped. *)
Release(t) ==
  /\ wpc[t] = "release"
  /\ state = {"REGISTERING"}
  /\ state' = {}
  /\ new' = [new EXCEPT ![t] = NoTask]
  /\ old' = [old EXCEPT ![t] = NoTask]
  /\ ThreadGoes(t, "idle")
  /\ UNCHANGED <<cell, woken, owed>>

(* The exchange failed: wake was called meanwhile. *)
ReleaseContended(t) ==
  /\ wpc[t] = "release"
  /\ state # {"REGISTERING"}
  /\ ThreadGoes(t, "contended")
  /\ UNCHANGED <<state, cell, new, old, woken, owed>>

TakeBack_OldDropped(t) ==
  /\ wpc[t] = "contended"
  /\ new' = [new EXCEPT ![t] = IF @ = NoTask THEN NoTask ELSE cell]
  /\ cell' = NoTask
  /\ ThreadGoes(t, "swap")
  /\ UNCHANGED <<state, old, woken, owed>>

(* The waker in the cell is taken out again; after a panic of into_waker   *)
(* it is the old one.                                                      *)
TakeBack(t) ==
  /\ wpc[t] = "contended"
  /\ IF new[t] = NoTask
     THEN old' = [old EXCEPT ![t] = cell] /\ UNCHANGED new
     ELSE new' = [new EXCEPT ![t] = cell] /\ UNCHANGED old
  /\ cell' = NoTask
  /\ ThreadGoes(t, "swap")
  /\ UNCHANGED <<state, woken, owed>>

Swap(t) ==
  /\ wpc[t] = "swap"
  /\ state' = {}
  /\ ThreadGoes(t, "wakeOld")
  /\ UNCHANGED <<cell, new, old, woken, owed>>

------------------------------------------------------------------------------
(* wake *)

Free_OwnBitOnly == "WAKING" \notin state

(* The value fetch_or read is WAITING. *)
Free == state = {}

(* fetch_or(WAKING): the caller gets the cell if nobody has it; otherwise  *)
(* the thread that has it does the waking.                                 *)
Wake(t) ==
  /\ wpc[t] = "idle"
  /\ state' = state \union {"WAKING"}
  /\ owed' = owed \union Some(cell)
  /\ ThreadGoes(t, IF Free THEN "taking" ELSE "idle")
  /\ UNCHANGED <<cell, new, old, woken>>

Take(t) ==
  /\ wpc[t] = "taking"
  /\ new' = [new EXCEPT ![t] = cell]
  /\ cell' = NoTask
  /\ ThreadGoes(t, "unlock")
  /\ UNCHANGED <<state, old, woken, owed>>

(* fetch_and(!WAKING) *)
Unlock(t) ==
  /\ wpc[t] = "unlock"
  /\ state' = state \ {"WAKING"}
  /\ ThreadGoes(t, "wakeNew")
  /\ UNCHANGED <<cell, new, old, woken, owed>>

------------------------------------------------------------------------------
(* waker.wake(), outside the lock *)

WakeOld(t) ==
  /\ wpc[t] = "wakeOld"
  /\ woken' = woken \union Some(old[t])
  /\ owed' = owed \ {old[t]}
  /\ old' = [old EXCEPT ![t] = NoTask]
  /\ ThreadGoes(t, "wakeNew")
  /\ UNCHANGED <<state, cell, new>>

WakeNew(t) ==
  /\ wpc[t] = "wakeNew"
  /\ woken' = woken \union Some(new[t])
  /\ owed' = owed \ {new[t]}
  /\ new' = [new EXCEPT ![t] = NoTask]
  /\ ThreadGoes(t, "idle")
  /\ UNCHANGED <<state, cell, old>>

(* The executor runs a woken task. *)
Run(w) ==
  /\ w \in woken
  /\ woken' = woken \ {w}
  /\ UNCHANGED <<state, cell, wpc, new, old, owed>>

------------------------------------------------------------------------------
(* A call register_by_ref, up to its first access to state. *)
Register(t, w) ==
  \/ RegisterLock(t, w)
  \/ RegisterWhileWaking(t, w)
  \/ RegisterRefused(t)

(* The rest of a call. *)
Continue(t) ==
  \/ IntoWaker(t)
  \/ IntoWakerPanics(t)
  \/ Release(t)
  \/ ReleaseContended(t)
  \/ TakeBack(t)
  \/ Swap(t)
  \/ Take(t)
  \/ Unlock(t)
  \/ WakeOld(t)
  \/ WakeNew(t)

Next ==
  \/ \E t \in Threads, w \in Tasks : Register(t, w)
  \/ \E t \in Threads : Wake(t)
  \/ \E t \in Threads : Continue(t)
  \/ \E w \in Tasks : Run(w)

Spec == Init /\ [][Next]_vars

(* A thread inside a call keeps running; nobody has to begin one. *)
Fairness == \A t \in Threads : WF_vars(Continue(t))

FairSpec == Spec /\ Fairness

------------------------------------------------------------------------------
(* Properties *)

Registering == {t \in Threads : wpc[t] \in RegisterPc}
Taking == {t \in Threads : wpc[t] \in TakePc}

(* Types, and what the bits of state stand for: a thread in do_register's   *)
(* WAITING arm, a thread in take_waker's, or a wake that found the former.  *)
TypeOK ==
  /\ state \in SUBSET Bits
  /\ cell \in Wakers
  /\ wpc \in [Threads -> Pc]
  /\ new \in [Threads -> Wakers]
  /\ old \in [Threads -> Wakers]
  /\ woken \in SUBSET Tasks
  /\ owed \in SUBSET Tasks
  /\ "REGISTERING" \in state <=> Registering # {}
  /\ Taking # {} => "WAKING" \in state

(* atomic_waker.rs:55-58: a thread between winning the lock and giving it  *)
(* up is the only one that touches the cell, which is not synchronized     *)
(* otherwise.                                                              *)
CellExclusive ==
  \A t, u \in Registering \union Taking : t = u

(* atomic_waker.rs:228-232, the debug_assert: the release of a             *)
(* registration only fails because of a wake, and nobody changes state     *)
(* until the registering thread swaps it back to WAITING.                  *)
ContendedByWake ==
  \A t \in Threads : wpc[t] \in {"contended", "swap"} => state = Bits

(* w is in the hands of a thread that will wake it. *)
Carried(w) ==
  \E t \in Threads :
    \/ wpc[t] \in {"unlock", "wakeNew"} /\ new[t] = w
    \/ wpc[t] \in {"swap", "wakeOld"} /\ w \in {old[t], new[t]}
    \/ wpc[t] \in {"release", "contended"} /\ old[t] = w /\ state = Bits

(* w is in the cell, and the thread that has the cell will take it out. *)
ToBeTaken(w) ==
  /\ cell = w
  /\ "WAKING" \in state
  /\ \E t \in Threads : wpc[t] \in {"taking", "locked", "release", "contended"}

(* atomic_waker.rs:81-128: a task whose waker was in the cell when wake    *)
(* was called, or that registers while a wake is under way, is woken,      *)
(* whichever thread has the lock, and also when into_waker panics.         *)
NoLostWake == \A w \in owed : Carried(w) \/ ToBeTaken(w)

OwedIsWoken == \A w \in Tasks : w \in owed ~> w \notin owed
==============================================================================
