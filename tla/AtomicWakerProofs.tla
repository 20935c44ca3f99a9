-------------------------- MODULE AtomicWakerProofs --------------------------
(***************************************************************************)
(* Proofs about AtomicWaker for any number of threads and tasks: the two   *)
(* bits of state exclude all others from the cell, and no wake is lost.    *)
(***************************************************************************)
EXTENDS AtomicWaker, TLAPS

Typed ==
  /\ state \in SUBSET Bits
  /\ cell \in Wakers
  /\ wpc \in [Threads -> Pc]
  /\ new \in [Threads -> Wakers]
  /\ old \in [Threads -> Wakers]
  /\ woken \in SUBSET Tasks
  /\ owed \in SUBSET Tasks

(* At most one thread is inside, and the bits tell which kind it is. *)
LockInv ==
  /\ CellExclusive
  /\ "REGISTERING" \in state <=> Registering # {}
  /\ Taking # {} => state = {"WAKING"}
  /\ state = {"WAKING"} => Taking # {}
  /\ ContendedByWake

(* The locals of a thread hold a waker only while it is to be woken or     *)
(* stored, and the thread that emptied the cell finds it empty.            *)
LocalsInv ==
  \A t \in Threads :
    /\ wpc[t] \in {"idle", "locked", "taking", "unlock", "wakeNew"} => old[t] = NoTask
    /\ wpc[t] = "locked" => new[t] # NoTask
    /\ wpc[t] \in {"release", "contended"} /\ new[t] = NoTask => old[t] = NoTask
    /\ wpc[t] \in {"swap", "unlock"} => cell = NoTask

(* Every operation keeps the types. *)
LEMMA TypeStep == Typed /\ [Next]_vars => Typed'
<1> SUFFICES ASSUME Typed, [Next]_vars PROVE Typed'
  OBVIOUS
<1> USE DEF Typed, vars, Bits, Wakers, Pc, RegisterPc, TakePc, ThreadGoes, Some
<1>1. ASSUME NEW t \in Threads, NEW w \in Tasks, Register(t, w) PROVE Typed'
  BY <1>1 DEF Register, RegisterLock, RegisterWhileWaking, RegisterRefused
<1>2. ASSUME NEW t \in Threads, Wake(t) PROVE Typed'
  BY <1>2 DEF Wake
<1>3. ASSUME NEW t \in Threads, Continue(t) PROVE Typed'
  BY <1>3 DEF Continue, IntoWaker, IntoWakerPanics, Release, ReleaseContended, TakeBack,
     Swap, Take, Unlock, WakeOld, WakeNew
<1>4. ASSUME NEW w \in Tasks, Run(w) PROVE Typed'
  BY <1>4 DEF Run
<1> QED
  BY <1>1, <1>2, <1>3, <1>4 DEF Next

------------------------------------------------------------------------------
(* The lock *)

(* Only the thread that has the cell moves inside, and only out of WAITING *)
(* does a thread get in.                                                   *)
LEMMA LockStep ==
  ASSUME Typed, LockInv, [Next]_vars
  PROVE  LockInv'
<1> USE DEF Typed, LockInv, CellExclusive, ContendedByWake, Registering, Taking, Bits,
            RegisterPc, TakePc, ThreadGoes, vars
<1>1. ASSUME NEW t \in Threads, NEW w \in Tasks, RegisterLock(t, w) PROVE LockInv'
  <2>1. Registering = {} /\ Taking = {}
    BY <1>1 DEF RegisterLock
  <2>2. Registering' = {t} /\ Taking' = {} /\ state' = {"REGISTERING"}
    BY <1>1, <2>1 DEF RegisterLock
  <2> QED
    BY <1>1, <2>1, <2>2 DEF RegisterLock
<1>2. ASSUME NEW t \in Threads, NEW w \in Tasks, RegisterWhileWaking(t, w) PROVE LockInv'
  <2>1. Registering' = Registering /\ Taking' = Taking /\ state' = state
    BY <1>2 DEF RegisterWhileWaking
  <2> QED
    BY <1>2, <2>1 DEF RegisterWhileWaking
<1>3. ASSUME NEW t \in Threads, IntoWaker(t) \/ IntoWakerPanics(t) PROVE LockInv'
  <2>1. Registering' = Registering /\ Taking' = Taking /\ state' = state
    BY <1>3 DEF IntoWaker, IntoWakerPanics
  <2> QED
    BY <1>3, <2>1 DEF IntoWaker, IntoWakerPanics
<1>4. ASSUME NEW t \in Threads, Release(t) \/ Swap(t) PROVE LockInv'
  <2>1. t \in Registering
    BY <1>4 DEF Release, Swap
  <2>2. Registering = {t} /\ Taking = {}
    BY <2>1
  <2>3. Registering' = {} /\ Taking' = {} /\ state' = {}
    BY <1>4, <2>2 DEF Release, Swap
  <2> QED
    BY <2>3
<1>5. ASSUME NEW t \in Threads, ReleaseContended(t) PROVE LockInv'
  <2>1. Registering' = Registering /\ Taking' = Taking /\ state' = state
    BY <1>5 DEF ReleaseContended
  <2>2. "REGISTERING" \in state
    BY <1>5 DEF ReleaseContended
  <2>3. state = Bits
    BY <1>5, <2>2 DEF ReleaseContended
  <2> QED
    BY <1>5, <2>1, <2>3 DEF ReleaseContended
<1>6. ASSUME NEW t \in Threads, TakeBack(t) PROVE LockInv'
  <2>1. Registering' = Registering /\ Taking' = Taking /\ state' = state
    BY <1>6 DEF TakeBack
  <2> QED
    BY <1>6, <2>1 DEF TakeBack
<1>7. ASSUME NEW t \in Threads, Wake(t) PROVE LockInv'
  <2>1. CASE state = {}
    <3>1. Registering = {} /\ Taking = {}
      BY <2>1
    <3>2. Registering' = {} /\ Taking' = {t} /\ state' = {"WAKING"}
      BY <1>7, <2>1, <3>1 DEF Wake, Free
    <3> QED
      BY <1>7, <3>1, <3>2 DEF Wake
  <2>2. CASE state # {}
    <3>1. Registering' = Registering /\ Taking' = Taking /\ state' = state \union {"WAKING"}
      BY <1>7, <2>2 DEF Wake, Free
    <3>2. wpc' = wpc
      BY <1>7, <2>2 DEF Wake, Free
    <3> QED
      BY <2>2, <3>1, <3>2
  <2> QED
    BY <2>1, <2>2
<1>8. ASSUME NEW t \in Threads, Take(t) PROVE LockInv'
  <2>1. Registering' = Registering /\ Taking' = Taking /\ state' = state
    BY <1>8 DEF Take
  <2> QED
    BY <1>8, <2>1 DEF Take
<1>9. ASSUME NEW t \in Threads, Unlock(t) PROVE LockInv'
  <2>1. t \in Taking
    BY <1>9 DEF Unlock
  <2>2. Taking = {t} /\ Registering = {}
    BY <2>1
  <2>3. Registering' = {} /\ Taking' = {} /\ state' = {}
    BY <1>9, <2>2 DEF Unlock
  <2> QED
    BY <2>3
<1>10. ASSUME NEW t \in Threads, WakeOld(t) \/ WakeNew(t) PROVE LockInv'
  <2>1. Registering' = Registering /\ Taking' = Taking /\ state' = state
    BY <1>10 DEF WakeOld, WakeNew
  <2> QED
    BY <1>10, <2>1 DEF WakeOld, WakeNew
<1>11. CASE UNCHANGED <<state, wpc>>
  BY <1>11
<1> QED
  BY <1>1, <1>2, <1>3, <1>4, <1>5, <1>6, <1>7, <1>8, <1>9, <1>10, <1>11
     DEF Next, Register, Continue, RegisterRefused, Run

(* The lock is inductive with the types. *)
LEMMA LockInvariance == Spec => [](Typed /\ LockInv)
<1>1. Init => Typed /\ LockInv
  BY DEF Init, Typed, LockInv, CellExclusive, ContendedByWake, Registering, Taking, Bits,
     Wakers, Pc, RegisterPc, TakePc
<1>2. Typed /\ LockInv /\ [Next]_vars => (Typed /\ LockInv)'
  BY TypeStep, LockStep
<1> QED
  BY <1>1, <1>2, PTL DEF Spec

(* Every reachable state is well typed. *)
THEOREM TypeCorrect == Spec => []TypeOK
<1>1. Typed /\ LockInv => TypeOK
  BY DEF Typed, LockInv, TypeOK
<1> QED
  BY <1>1, LockInvariance, PTL

(* No two threads are ever inside the cell's critical section              *)
(* (atomic_waker.rs:55-58), for any number of registering and waking       *)
(* threads.                                                                *)
THEOREM Exclusive == Spec => []CellExclusive
  BY LockInvariance, PTL DEF LockInv

(* The debug_assert at atomic_waker.rs:232 holds. *)
THEOREM AssertHolds == Spec => []ContendedByWake
  BY LockInvariance, PTL DEF LockInv

------------------------------------------------------------------------------
(* Wake-ups *)

(* What the locals hold is kept by every operation. *)
LEMMA LocalsStep ==
  ASSUME Typed, LockInv, LocalsInv, [Next]_vars
  PROVE  LocalsInv'
<1> USE DEF Typed, LocalsInv, ThreadGoes, vars
<1>0. NoTask \notin Tasks
  BY TasksAssumption
<1>a. \A t, u \in Threads :
        wpc[t] \in {"locked", "taking", "contended"} /\ wpc[u] \in {"swap", "unlock"} => FALSE
  BY DEF LockInv, CellExclusive, Registering, Taking, RegisterPc, TakePc
<1>1. ASSUME NEW t \in Threads, NEW w \in Tasks, Register(t, w) PROVE LocalsInv'
  BY <1>0, <1>1 DEF Register, RegisterLock, RegisterWhileWaking, RegisterRefused
<1>2. ASSUME NEW t \in Threads, IntoWaker(t) PROVE LocalsInv'
  BY <1>a, <1>2 DEF IntoWaker
<1>3. ASSUME NEW t \in Threads, IntoWakerPanics(t) PROVE LocalsInv'
  BY <1>3 DEF IntoWakerPanics
<1>4. ASSUME NEW t \in Threads, Release(t) \/ ReleaseContended(t) PROVE LocalsInv'
  BY <1>4 DEF Release, ReleaseContended
<1>5. ASSUME NEW t \in Threads, TakeBack(t) PROVE LocalsInv'
  BY <1>5 DEF TakeBack
<1>6. ASSUME NEW t \in Threads, Swap(t) PROVE LocalsInv'
  BY <1>6 DEF Swap
<1>7. ASSUME NEW t \in Threads, Wake(t) PROVE LocalsInv'
  BY <1>7 DEF Wake
<1>8. ASSUME NEW t \in Threads, Take(t) \/ Unlock(t) PROVE LocalsInv'
  BY <1>8 DEF Take, Unlock
<1>9. ASSUME NEW t \in Threads, WakeOld(t) \/ WakeNew(t) PROVE LocalsInv'
  BY <1>9 DEF WakeOld, WakeNew
<1>10. CASE UNCHANGED <<wpc, new, old, cell>>
  BY <1>10
<1> QED
  BY <1>1, <1>2, <1>3, <1>4, <1>5, <1>6, <1>7, <1>8, <1>9, <1>10
     DEF Next, Continue, Run

(* A task that is owed its wake-up stays in the cell for a thread that     *)
(* will take it, or in the hands of one, until it is woken.                *)
LEMMA WakeStep ==
  ASSUME Typed, LockInv, LocalsInv, NoLostWake, [Next]_vars
  PROVE  NoLostWake'
<1> USE DEF Typed, ThreadGoes, vars
<1>0. NoTask \notin Tasks /\ \A w \in owed : w # NoTask
  BY TasksAssumption
<1>a. \A t \in Threads : wpc[t] \in RegisterPc => "REGISTERING" \in state /\ Taking = {}
  BY DEF LockInv, CellExclusive, Registering
<1>b. \A t, u \in Threads : wpc[t] \in RegisterPc \union TakePc
                         /\ wpc[u] \in RegisterPc \union TakePc => t = u
  BY DEF LockInv, CellExclusive, Registering, Taking
<1>c. \A t \in Threads : wpc[t] \in TakePc => state = {"WAKING"}
  BY DEF LockInv, Taking
<1> SUFFICES ASSUME NEW v \in owed' PROVE Carried(v)' \/ ToBeTaken(v)'
  BY DEF NoLostWake
<1>d. v \in owed => Carried(v) \/ ToBeTaken(v)
  BY DEF NoLostWake
<1> USE DEF Carried, ToBeTaken
<1>1. ASSUME NEW t \in Threads, NEW w \in Tasks, RegisterLock(t, w)
      PROVE  Carried(v)' \/ ToBeTaken(v)'
  BY <1>d, <1>1 DEF RegisterLock, Bits
<1>2. ASSUME NEW t \in Threads, NEW w \in Tasks, RegisterWhileWaking(t, w)
      PROVE  Carried(v)' \/ ToBeTaken(v)'
  BY <1>d, <1>2 DEF RegisterWhileWaking
<1>3. ASSUME NEW t \in Threads, IntoWaker(t)
      PROVE  Carried(v)' \/ ToBeTaken(v)'
  <2>1. state \subseteq Bits /\ "REGISTERING" \in state /\ "WAKING" \in state => state = Bits
    BY DEF Bits
  <2>2. "REGISTERING" \in state
    BY <1>a, <1>3 DEF IntoWaker, RegisterPc
  <2>3. CASE ToBeTaken(v)
    BY <1>3, <2>1, <2>2, <2>3 DEF IntoWaker
  <2>4. CASE Carried(v)
    BY <1>3, <2>4 DEF IntoWaker
  <2> QED
    BY <1>d, <1>3, <2>3, <2>4 DEF IntoWaker
<1>4. ASSUME NEW t \in Threads, IntoWakerPanics(t)
      PROVE  Carried(v)' \/ ToBeTaken(v)'
  BY <1>d, <1>4 DEF IntoWakerPanics
<1>5. ASSUME NEW t \in Threads, Release(t)
      PROVE  Carried(v)' \/ ToBeTaken(v)'
  <2>1. ~ToBeTaken(v) /\ state # Bits
    BY <1>5 DEF Release, Bits
  <2> QED
    BY <1>d, <1>5, <2>1 DEF Release
<1>6. ASSUME NEW t \in Threads, ReleaseContended(t)
      PROVE  Carried(v)' \/ ToBeTaken(v)'
  BY <1>d, <1>6 DEF ReleaseContended
<1>7. ASSUME NEW t \in Threads, TakeBack(t)
      PROVE  Carried(v)' \/ ToBeTaken(v)'
  <2>1. v \in owed /\ v # NoTask
    BY <1>0, <1>7 DEF TakeBack
  <2>2. new[t] = NoTask => old[t] = NoTask
    BY <1>7 DEF TakeBack, LocalsInv
  <2>3. CASE ToBeTaken(v)
    BY <1>7, <2>3 DEF TakeBack
  <2>4. CASE Carried(v)
    BY <1>7, <2>1, <2>2, <2>4 DEF TakeBack
  <2> QED
    BY <1>d, <2>1, <2>3, <2>4
<1>8. ASSUME NEW t \in Threads, Swap(t)
      PROVE  Carried(v)' \/ ToBeTaken(v)'
  <2>1. \A u \in Threads : wpc[u] \notin {"taking", "locked", "release", "contended"}
    BY <1>8, <1>b DEF Swap, RegisterPc, TakePc
  <2> QED
    BY <1>d, <1>8, <2>1 DEF Swap
<1>9. ASSUME NEW t \in Threads, Wake(t)
      PROVE  Carried(v)' \/ ToBeTaken(v)'
  <2>1. state = Bits => state' = Bits
    BY <1>9 DEF Wake, Bits
  <2>2. \A u \in Threads : wpc[u] # "idle" => wpc'[u] = wpc[u]
    BY <1>9 DEF Wake
  <2>3. CASE v \in owed /\ Carried(v)
    BY <1>9, <2>1, <2>2, <2>3 DEF Wake
  <2>4. CASE v \in owed /\ ToBeTaken(v)
    BY <1>9, <2>2, <2>4 DEF Wake
  <2>5. CASE v \notin owed
    <3>1. cell = v /\ v # NoTask /\ "WAKING" \in state' /\ cell' = cell
      BY <1>9, <2>5 DEF Wake, Some
    <3>2. CASE state = {}
      BY <1>9, <3>1, <3>2 DEF Wake, Free
    <3>3. CASE state # {}
      <4>1. PICK u \in Threads : wpc[u] \in RegisterPc \union TakePc
        BY <3>3 DEF LockInv, Registering, Taking, Bits
      <4>2. wpc[u] \in {"taking", "locked", "release", "contended"}
        BY <3>1, <4>1 DEF LocalsInv, RegisterPc, TakePc
      <4> QED
        BY <2>2, <3>1, <4>2
    <3> QED
      BY <3>2, <3>3
  <2> QED
    BY <1>d, <2>3, <2>4, <2>5
<1>10. ASSUME NEW t \in Threads, Take(t)
       PROVE  Carried(v)' \/ ToBeTaken(v)'
  BY <1>d, <1>10 DEF Take
<1>11. ASSUME NEW t \in Threads, Unlock(t)
       PROVE  Carried(v)' \/ ToBeTaken(v)'
  <2>1. cell = NoTask /\ state # Bits
    BY <1>11, <1>c DEF Unlock, LocalsInv, TakePc, Bits
  <2>2. v # NoTask /\ v \in owed
    BY <1>0, <1>11 DEF Unlock
  <2> QED
    BY <1>d, <1>11, <2>1, <2>2 DEF Unlock
<1>12. ASSUME NEW t \in Threads, WakeOld(t)
       PROVE  Carried(v)' \/ ToBeTaken(v)'
  BY <1>d, <1>12 DEF WakeOld
<1>13. ASSUME NEW t \in Threads, WakeNew(t)
       PROVE  Carried(v)' \/ ToBeTaken(v)'
  BY <1>d, <1>13 DEF WakeNew
<1>14. CASE UNCHANGED <<state, cell, wpc, new, old, owed>>
  BY <1>d, <1>14
<1> QED
  BY <1>1, <1>2, <1>3, <1>4, <1>5, <1>6, <1>7, <1>8, <1>9, <1>10, <1>11, <1>12,
     <1>13, <1>14
     DEF Next, Register, Continue, RegisterRefused, Run

(* No wake is lost (atomic_waker.rs:81-128): a task whose waker was in the *)
(* cell when wake was called, or that registered during a wake, is in the  *)
(* hands of a thread that will wake it, also when into_waker panics.       *)
THEOREM WakeNeverLost == Spec => []NoLostWake
<1>1. Init => LocalsInv /\ NoLostWake
  BY DEF Init, LocalsInv, NoLostWake
<1>2. (Typed /\ LockInv) /\ (LocalsInv /\ NoLostWake) /\ [Next]_vars
        => (LocalsInv /\ NoLostWake)'
  BY LocalsStep, WakeStep
<1> QED
  BY <1>1, <1>2, LockInvariance, PTL DEF Spec
==============================================================================
