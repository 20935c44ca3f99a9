-------------------------- MODULE PriorityChanProofs --------------------------
(***************************************************************************)
(* Proofs about PriorityChan for any number of sender handles, priorities  *)
(* and elements: its types, the order of equal priorities, that it         *)
(* implements PriorityQueue, that the end flag is final, and that no       *)
(* wake-up is lost.  What AtomicWakerProofs shows of the waker is used     *)
(* here of the channel's.                                                  *)
(***************************************************************************)
EXTENDS PriorityChan, SequenceLemmas, WellFoundedInduction, TLAPS

(* The theorems about AtomicWaker, for the waker of the channel. *)
WakerProofs == INSTANCE AtomicWakerProofs WITH
  Threads <- Senders \union {Receiver}, Tasks <- {Task}

(* The parts of the inductive invariants *)

(* map is a function on the priorities inserted. *)
MapIsFunction == map = [p \in DOMAIN map |-> map[p]]

MapInv == TypeOK /\ MapIsFunction

(* A queue holds elements of its own priority, in the order of pushes, all *)
(* of them pushed after those of the priority that were taken.             *)
Ordered ==
  /\ \A p \in DOMAIN map : Ascending(map[p])
  /\ \A p \in DOMAIN map : \A m \in Range(map[p]) : m.p = p /\ m.id \in 1 .. sent
  /\ \A m \in taken : m.id \in 1 .. sent
  /\ \A p \in DOMAIN map : \A m \in taken, n \in Range(map[p]) : m.p = p => m.id < n.id

(* The queues that pop has passed hold only what was pushed since it began; *)
(* so do all of them once it has come to an end without an element.        *)
PassedNew ==
  /\ sentAtScan <= sent
  /\ \A p \in DOMAIN map \ scan : \A m \in Range(map[p]) : sentAtScan < m.id

ScanInv == MapInv /\ Ordered /\ PassedNew

CloseInv ==
  /\ (\E s \in Senders : spc[s] = "flag") \/ endFlag => LiveHandles = {}
  /\ rpc = "ended" => endFlag

WakerInv == WakerProofs!Typed /\ WakerProofs!LockInv

(* Handles only wake, and the receiver only registers its task, between    *)
(* two attempts to receive.                                                *)
RolesInv ==
  /\ \A s \in Senders : wpc[s] \in {"idle", "taking", "unlock", "wakeNew"}
  /\ wpc[Receiver] \notin {"taking", "unlock"}
  /\ wpc[Receiver] # "idle" => rpc = "registered" /\ new[Receiver] = Task
  /\ wpc[Receiver] \in {"release", "contended"} => cell = Task
  /\ rpc \in {"registered", "pending"} => registered
  /\ rpc = "register" => ~registered

TaskWoken == Task \in owed \union woken

(* Once register_by_ref has returned, the next wake gets the task, unless  *)
(* one did already.                                                        *)
Armed ==
  registered /\ wpc[Receiver] = "idle" => TaskWoken \/ (cell = Task /\ state = {})

(* What pop passed over since then was pushed by a handle that has still   *)
(* to wake.                                                                *)
PassedComing ==
  registered /\ rpc \in {"scan", "flag", "pending"} =>
    \A p \in DOMAIN map \ scan :
      map[p] # <<>> => TaskWoken \/ \E s \in Senders : spc[s] = "pushed"

WakeupInv == RolesInv /\ Armed /\ PassedComing

------------------------------------------------------------------------------
(* The cursor of an iteration *)

NatLess == {ss \in Nat \X Nat : ss[1] < ss[2]}

(* A set of numbers has a least one, which is the one Min chooses. *)
LEMMA LeastElement ==
  ASSUME NEW S, S \subseteq Nat, S # {}
  PROVE  Min(S) \in S /\ \A y \in S : Min(S) <= y
<1>1. OpToRel(<, Nat) = NatLess
  BY Zenon DEF OpToRel, NatLess
<1>2. IsWellFoundedOn(NatLess, Nat)
  BY <1>1, NatLessThanWellFounded, Zenon
<1>3. PICK x \in S : \A y \in S : <<y, x>> \notin NatLess
  BY <1>2, WFMin, Zenon
<1>4. \A a, b \in Nat : a < b => <<a, b>> \in NatLess
  BY DEF NatLess
<1>5. ASSUME NEW y \in S PROVE x <= y
  <2>1. x \in Nat /\ y \in Nat /\ ~(y < x)
    BY <1>3, <1>4, Zenon
  <2> QED
    BY <2>1
<1>6. Min(S) = CHOOSE z \in S : \A y \in S : z <= y
  BY DEF Min
<1> QED
  BY <1>5, <1>6

(* pop looks at a queue of the map, and at the one of the lowest number    *)
(* among those still to come.                                              *)
LEMMA CursorInScan ==
  ASSUME TypeOK, scan # {}
  PROVE  /\ Cursor \in scan /\ Cursor \in DOMAIN map /\ Cursor \in Priorities
         /\ \A p \in scan : Cursor <= p
<1>1. scan \subseteq DOMAIN map /\ scan \subseteq Priorities /\ scan \subseteq Nat
  BY ConstantsAssumption DEF TypeOK
<1>2. Min(scan) \in scan /\ \A p \in scan : Min(scan) <= p
  BY <1>1, LeastElement
<1> QED
  BY <1>1, <1>2 DEF Cursor

------------------------------------------------------------------------------
(* The waker *)

(* A step of the channel is a step of its waker, or leaves it alone. *)
LEMMA WakerSteps == [Next]_vars => [WakerProofs!Next]_(WakerProofs!vars)
<1> SUFFICES ASSUME [Next]_vars PROVE [WakerProofs!Next]_(WakerProofs!vars)
  OBVIOUS
<1> DEFINE Threads == Senders \union {Receiver}
<1>1. ASSUME NEW s \in Senders, SendWake(s) PROVE WakerProofs!Next
  <2>1. WakerProofs!Wake(s)
    BY <1>1 DEF SendWake, Waker!Wake, WakerProofs!Wake, Waker!Some, WakerProofs!Some,
       Waker!Free, WakerProofs!Free, Waker!ThreadGoes, WakerProofs!ThreadGoes
  <2> QED
    BY <2>1 DEF WakerProofs!Next
<1>2. ASSUME Register PROVE WakerProofs!Next
  <2>1. WakerProofs!Register(Receiver, Task)
    BY <1>2 DEF Register, Waker!Register, WakerProofs!Register,
       Waker!RegisterLock, WakerProofs!RegisterLock,
       Waker!RegisterWhileWaking, WakerProofs!RegisterWhileWaking,
       Waker!RegisterRefused, WakerProofs!RegisterRefused,
       Waker!ThreadGoes, WakerProofs!ThreadGoes, Waker!vars, WakerProofs!vars
  <2> QED
    BY <2>1 DEF WakerProofs!Next
<1>3. ASSUME NEW t \in Threads, WakerStep(t) PROVE WakerProofs!Next
  <2>1. WakerProofs!Continue(t)
    BY <1>3 DEF WakerStep, Waker!Continue, WakerProofs!Continue,
       Waker!IntoWaker, WakerProofs!IntoWaker,
       Waker!IntoWakerPanics, WakerProofs!IntoWakerPanics,
       Waker!Release, WakerProofs!Release,
       Waker!ReleaseContended, WakerProofs!ReleaseContended,
       Waker!TakeBack, WakerProofs!TakeBack, Waker!Swap, WakerProofs!Swap,
       Waker!Take, WakerProofs!Take, Waker!Unlock, WakerProofs!Unlock,
       Waker!WakeOld, WakerProofs!WakeOld, Waker!WakeNew, WakerProofs!WakeNew,
       Waker!ThreadGoes, WakerProofs!ThreadGoes, Waker!Some, WakerProofs!Some,
       Waker!Bits, WakerProofs!Bits
  <2> QED
    BY <2>1 DEF WakerProofs!Next
<1>4. ASSUME Poll PROVE [WakerProofs!Next]_(WakerProofs!vars)
  <2>1. CASE Task \in woken
    BY <1>4, <2>1 DEF Poll, WakerProofs!Next, WakerProofs!Run
  <2>2. CASE Task \notin woken
    <3>1. UNCHANGED waker
      BY <1>4, <2>2 DEF Poll, waker
    <3> QED
      BY <3>1 DEF waker, WakerProofs!vars
  <2> QED
    BY <2>1, <2>2
<1>5. CASE UNCHANGED waker
  BY <1>5 DEF waker, WakerProofs!vars
<1>6. ASSUME NEW s \in Senders, NEW t \in Senders, CloneSender(s, t) PROVE UNCHANGED waker
  BY <1>6 DEF CloneSender
<1>7. ASSUME NEW s \in Senders, NEW p \in Priorities, SendCheck(s, p) PROVE UNCHANGED waker
  BY <1>7 DEF SendCheck
<1>8. ASSUME NEW s \in Senders,
             PushPresent(s) \/ PushAbsent(s) \/ PushInsert(s) \/ SetEndFlag(s) \/ DropSender(s)
      PROVE  UNCHANGED waker
  BY <1>8 DEF PushPresent, PushAbsent, PushInsert, SetEndFlag, DropSender
<1>9. ASSUME ScanTake \/ ScanNext \/ ScanEnd \/ CheckFlag \/ SecondTry \/ DropReceiver
      PROVE  UNCHANGED waker
  BY <1>9 DEF ScanTake, ScanNext, ScanEnd, CheckFlag, SecondTry, DropReceiver
<1>10. ASSUME Terminated \/ UNCHANGED vars PROVE UNCHANGED waker
  BY <1>10 DEF Terminated, vars
<1> QED
  BY <1>1, <1>2, <1>3, <1>4, <1>5, <1>6, <1>7, <1>8, <1>9, <1>10
     DEF Next, SenderStep, RecvStep

(* So the lock of the waker's cell holds in the channel. *)
LEMMA WakerInvariance == Spec => []WakerInv
<1>1. NoTask \notin {Task}
  BY ConstantsAssumption
<1>2. Init => WakerProofs!Init
  BY DEF Init, Waker!Init, WakerProofs!Init
<1>3. Spec => WakerProofs!Spec
  BY <1>2, WakerSteps, PTL DEF Spec, WakerProofs!Spec
<1>4. WakerProofs!Spec => [](WakerProofs!Typed /\ WakerProofs!LockInv)
  BY <1>1, WakerProofs!LockInvariance, PTL
<1> QED
  BY <1>3, <1>4, PTL DEF WakerInv

(* The types of the waker, and what the bits of its state stand for. *)
LEMMA WakerTypeOK == WakerInv => Waker!TypeOK
  BY DEF WakerInv, WakerProofs!Typed, WakerProofs!LockInv, WakerProofs!Registering,
     WakerProofs!Taking, WakerProofs!RegisterPc, WakerProofs!TakePc, WakerProofs!Bits,
     WakerProofs!Wakers, WakerProofs!Pc, Waker!TypeOK, Waker!Registering, Waker!Taking,
     Waker!RegisterPc, Waker!TakePc, Waker!Bits, Waker!Wakers, Waker!Pc

------------------------------------------------------------------------------
(* Type correctness *)

(* A queue that an element was pushed into. *)
LEMMA AppendIsSeq ==
  ASSUME NEW S, NEW s \in Seq(S), NEW e \in S
  PROVE  Append(s, e) \in Seq(S)
  OBVIOUS

(* A queue that is inserted with its first element. *)
LEMMA SingleIsSeq ==
  ASSUME NEW S, NEW e \in S
  PROVE  <<e>> \in Seq(S)
  OBVIOUS

(* What try_pop returns, and what it leaves. *)
LEMMA HeadTailIsSeq ==
  ASSUME NEW S, NEW s \in Seq(S), s # <<>>
  PROVE  Head(s) \in S /\ Tail(s) \in Seq(S)
  OBVIOUS

(* new() begins with an empty map. *)
LEMMA InitMap == Init => MapIsFunction /\ DOMAIN map = {}
  BY DEF Init, MapIsFunction

(* Changing the queue of one priority leaves the others alone. *)
LEMMA OneQueue ==
  ASSUME MapIsFunction, NEW p \in DOMAIN map, NEW s, map' = [map EXCEPT ![p] = s]
  PROVE  /\ DOMAIN map' = DOMAIN map
         /\ map'[p] = s
         /\ \A r \in DOMAIN map \ {p} : map'[r] = map[r]
         /\ MapIsFunction'
  BY DEF MapIsFunction

(* Changing the queue of one priority to a well-typed one. *)
LEMMA QueuesTyped ==
  ASSUME MapInv, NEW p, map'[p] \in Seq(Element), DOMAIN map' \subseteq DOMAIN map \union {p},
         \A r \in DOMAIN map \ {p} : map'[r] = map[r]
  PROVE  \A r \in DOMAIN map' : map'[r] \in Seq(Element)
<1>1. \A r \in DOMAIN map : map[r] \in Seq(Element)
  BY DEF MapInv, TypeOK
<1> SUFFICES ASSUME NEW r \in DOMAIN map' PROVE map'[r] \in Seq(Element)
  OBVIOUS
<1>2. CASE r = p
  BY <1>2
<1>3. CASE r # p
  BY <1>1, <1>3
<1> QED
  BY <1>2, <1>3

(* What a push into a queue does to the map. *)
LEMMA PresentMap ==
  ASSUME MapInv, NEW s \in Senders, PushPresent(s)
  PROVE  /\ arg[s] \in DOMAIN map /\ map[arg[s]] \in Seq(Element) /\ NewElement(s) \in Element
         /\ DOMAIN map' = DOMAIN map
         /\ map'[arg[s]] = Append(map[arg[s]], NewElement(s))
         /\ \A r \in DOMAIN map \ {arg[s]} : map'[r] = map[r]
         /\ MapIsFunction' /\ \A r \in DOMAIN map' : map'[r] \in Seq(Element)
<1>1. arg[s] \in DOMAIN map /\ arg[s] \in Priorities /\ map[arg[s]] \in Seq(Element)
  BY DEF PushPresent, MapInv, TypeOK
<1>2. NewElement(s) \in Element
  BY <1>1 DEF NewElement, Element, MapInv, TypeOK
<1>3. map' = [map EXCEPT ![arg[s]] = Append(map[arg[s]], NewElement(s))]
  BY DEF PushPresent, Pushed
<1>4. /\ DOMAIN map' = DOMAIN map
      /\ map'[arg[s]] = Append(map[arg[s]], NewElement(s))
      /\ \A r \in DOMAIN map \ {arg[s]} : map'[r] = map[r]
      /\ MapIsFunction'
  BY <1>1, <1>3, OneQueue DEF MapInv
<1>5. map'[arg[s]] \in Seq(Element)
  BY <1>1, <1>2, <1>4, AppendIsSeq
<1> QED
  BY <1>1, <1>2, <1>4, <1>5, QueuesTyped

(* What the insertion of a queue does to the map. *)
LEMMA InsertMap ==
  ASSUME MapInv, NEW s \in Senders, PushInsert(s)
  PROVE  /\ arg[s] \in Priorities /\ NewElement(s) \in Element
         /\ DOMAIN map' = DOMAIN map \union {arg[s]}
         /\ map'[arg[s]] = <<NewElement(s)>>
         /\ \A r \in DOMAIN map \ {arg[s]} : map'[r] = map[r]
         /\ MapIsFunction' /\ \A r \in DOMAIN map' : map'[r] \in Seq(Element)
<1>1. arg[s] \in Priorities
  BY DEF PushInsert, MapInv, TypeOK
<1>2. NewElement(s) \in Element
  BY <1>1 DEF NewElement, Element, MapInv, TypeOK
<1>3. DOMAIN map' = DOMAIN map \union {arg[s]}
  BY DEF PushInsert
<1>4. /\ map'[arg[s]] = <<NewElement(s)>>
      /\ \A r \in DOMAIN map \ {arg[s]} : map'[r] = map[r]
  BY DEF PushInsert
<1>5. MapIsFunction'
  BY <1>3 DEF PushInsert, MapIsFunction
<1>6. map'[arg[s]] \in Seq(Element)
  BY <1>2, <1>4, SingleIsSeq
<1> QED
  BY <1>1, <1>2, <1>3, <1>4, <1>5, <1>6, QueuesTyped

(* What a pop does to the map. *)
LEMMA TakeMap ==
  ASSUME MapInv, ScanTake
  PROVE  /\ Cursor \in DOMAIN map /\ Cursor \in scan /\ Cursor \in Priorities
         /\ map[Cursor] \in Seq(Element) /\ map[Cursor] # <<>>
         /\ Head(map[Cursor]) \in Element
         /\ DOMAIN map' = DOMAIN map
         /\ map'[Cursor] = Tail(map[Cursor])
         /\ \A r \in DOMAIN map \ {Cursor} : map'[r] = map[r]
         /\ MapIsFunction' /\ \A r \in DOMAIN map' : map'[r] \in Seq(Element)
<1>1. Cursor \in DOMAIN map /\ Cursor \in scan /\ Cursor \in Priorities
  BY CursorInScan DEF ScanTake, MapInv
<1>2. map[Cursor] \in Seq(Element) /\ map[Cursor] # <<>>
  BY <1>1 DEF ScanTake, MapInv, TypeOK
<1>3. Head(map[Cursor]) \in Element /\ Tail(map[Cursor]) \in Seq(Element)
  BY <1>2, HeadTailIsSeq
<1>4. map' = [map EXCEPT ![Cursor] = Tail(map[Cursor])]
  BY DEF ScanTake
<1>5. /\ DOMAIN map' = DOMAIN map
      /\ map'[Cursor] = Tail(map[Cursor])
      /\ \A r \in DOMAIN map \ {Cursor} : map'[r] = map[r]
      /\ MapIsFunction'
  BY <1>1, <1>4, OneQueue DEF MapInv
<1> QED
  BY <1>1, <1>2, <1>3, <1>5, QueuesTyped

(* The steps of handles that leave the map alone. *)
LEMMA HandleTypeStep ==
  ASSUME MapInv, Waker!TypeOK', NEW s \in Senders,
         \/ \E t \in Senders : CloneSender(s, t)
         \/ \E p \in Priorities : SendCheck(s, p)
         \/ PushAbsent(s) \/ SendWake(s) \/ DropSender(s) \/ SetEndFlag(s)
  PROVE  MapInv'
<1> USE DEF MapInv, TypeOK, MapIsFunction, SenderPc, SenderGoes, AtRest, recvVars, waker
<1>1. CASE \E t \in Senders : CloneSender(s, t)
  BY <1>1 DEF CloneSender
<1>2. CASE \E p \in Priorities : SendCheck(s, p)
  BY <1>2 DEF SendCheck
<1>3. CASE PushAbsent(s)
  BY <1>3 DEF PushAbsent
<1>4. CASE SendWake(s)
  BY <1>4 DEF SendWake
<1>5. CASE DropSender(s)
  BY <1>5 DEF DropSender
<1>6. CASE SetEndFlag(s)
  BY <1>6 DEF SetEndFlag
<1> QED
  BY <1>1, <1>2, <1>3, <1>4, <1>5, <1>6

(* The two ends of push. *)
LEMMA PushTypeStep ==
  ASSUME MapInv, Waker!TypeOK', NEW s \in Senders, PushPresent(s) \/ PushInsert(s)
  PROVE  MapInv'
<1>1. CASE PushPresent(s)
  <2>1. \A r \in DOMAIN map' : map'[r] \in Seq(Element)
    BY <1>1, PresentMap
  <2>2. DOMAIN map' = DOMAIN map /\ MapIsFunction'
    BY <1>1, PresentMap
  <2>3. TypeOK'
    BY <1>1, <2>1, <2>2 DEF MapInv, TypeOK, PushPresent, SenderPc, SenderGoes, recvVars, waker
  <2> QED
    BY <2>2, <2>3 DEF MapInv
<1>2. CASE PushInsert(s)
  <2>1. \A r \in DOMAIN map' : map'[r] \in Seq(Element)
    BY <1>2, InsertMap
  <2>2. /\ DOMAIN map' = DOMAIN map \union {arg[s]} /\ arg[s] \in Priorities
        /\ MapIsFunction'
    BY <1>2, InsertMap
  <2>3. /\ rpc # "scan" /\ sent' = sent + 1 /\ spc' = [spc EXCEPT ![s] = "pushed"]
        /\ arg' = [arg EXCEPT ![s] = NoPriority]
        /\ UNCHANGED <<endFlag, rpc, scan, registered, sentAtScan, taken>>
    BY <1>2 DEF PushInsert, SenderGoes, recvVars
  <2>4. TypeOK'
    BY <2>1, <2>2, <2>3 DEF MapInv, TypeOK, SenderPc
  <2> QED
    BY <2>2, <2>4 DEF MapInv
<1> QED
  BY <1>1, <1>2

(* The steps of recv, but for those inside register_by_ref. *)
LEMMA RecvTypeStep ==
  ASSUME MapInv, Waker!TypeOK',
         \/ Poll \/ ScanTake \/ ScanNext \/ ScanEnd \/ CheckFlag \/ Register \/ SecondTry
         \/ DropReceiver
  PROVE  MapInv'
<1> USE DEF MapInv, TypeOK, ReceiverPc
<1>1. CASE ScanTake
  <2>1. \A r \in DOMAIN map' : map'[r] \in Seq(Element)
    BY <1>1, TakeMap
  <2>2. DOMAIN map' = DOMAIN map /\ MapIsFunction' /\ Head(map[Cursor]) \in Element
    BY <1>1, TakeMap
  <2> QED
    BY <1>1, <2>1, <2>2 DEF ScanTake, waker
<1> USE DEF MapIsFunction, waker
<1>2. CASE Poll
  BY <1>2 DEF Poll, BeginScan
<1>3. CASE ScanNext
  BY <1>3 DEF ScanNext
<1>4. CASE ScanEnd \/ CheckFlag
  BY <1>4 DEF ScanEnd, CheckFlag
<1>5. CASE Register
  BY <1>5 DEF Register
<1>6. CASE SecondTry
  BY <1>6 DEF SecondTry, BeginScan
<1>7. CASE DropReceiver
  BY <1>7 DEF DropReceiver
<1> QED
  BY <1>1, <1>2, <1>3, <1>4, <1>5, <1>6, <1>7

(* Every step keeps the types; those of the waker are AtomicWaker's. *)
LEMMA TypeStep ==
  ASSUME MapInv, Waker!TypeOK', [Next]_vars
  PROVE  MapInv'
<1>1. ASSUME NEW t \in Senders \union {Receiver}, WakerStep(t) PROVE MapInv'
  BY <1>1 DEF WakerStep, recvVars, MapInv, TypeOK, MapIsFunction
<1>2. CASE Terminated \/ UNCHANGED vars
  BY <1>2 DEF Terminated, vars, recvVars, MapInv, TypeOK, MapIsFunction
<1> QED
  BY <1>1, <1>2, HandleTypeStep, PushTypeStep, RecvTypeStep DEF Next, SenderStep, RecvStep

(* The waker's part of TypeOK comes from WakerInvariance. *)
LEMMA MapInvariance == Spec => []MapInv
<1>1. Init /\ Waker!TypeOK => MapInv
  <2> SUFFICES ASSUME Init, Waker!TypeOK PROVE MapInv
    OBVIOUS
  <2>1. DOMAIN map = {} /\ MapIsFunction
    BY InitMap
  <2> QED
    BY <2>1 DEF Init, MapInv, TypeOK, SenderPc, ReceiverPc
<1>2. MapInv /\ Waker!TypeOK' /\ [Next]_vars => MapInv'
  BY TypeStep
<1>3. Spec => []Waker!TypeOK
  BY WakerTypeOK, WakerInvariance, PTL
<1> QED
  BY <1>1, <1>2, <1>3, PTL DEF Spec

(* Every reachable state is well typed; pop iterates over priorities that  *)
(* are in the map, and only while it holds the read lock                   *)
(* (priotity_async_mpsc_chan.rs:31-51).                                    *)
THEOREM TypeCorrect == Spec => []TypeOK
  BY MapInvariance, PTL DEF MapInv

------------------------------------------------------------------------------
(* The end flag *)

(* Only the last handle sets the flag, and no handle can then be cloned. *)
LEMMA CloseStep ==
  ASSUME TypeOK, CloseInv, [Next]_vars
  PROVE  CloseInv'
<1> USE DEF TypeOK, CloseInv, LiveHandles, SenderGoes, AtRest, recvVars
<1>1. ASSUME NEW s \in Senders, NEW t \in Senders, CloneSender(s, t) PROVE CloseInv'
  <2>1. s \in LiveHandles
    BY <1>1 DEF CloneSender
  <2> QED
    BY <1>1, <2>1 DEF CloneSender
<1>2. ASSUME NEW s \in Senders, NEW p \in Priorities, SendCheck(s, p) PROVE CloseInv'
  <2>1. s \in LiveHandles
    BY <1>2 DEF SendCheck
  <2> QED
    BY <1>2, <2>1 DEF SendCheck
<1>3. ASSUME NEW s \in Senders,
             PushPresent(s) \/ PushAbsent(s) \/ PushInsert(s) \/ SendWake(s)
      PROVE  CloseInv'
  <2>1. s \in LiveHandles
    BY <1>3 DEF PushPresent, PushAbsent, PushInsert, SendWake
  <2> QED
    BY <1>3, <2>1 DEF PushPresent, PushAbsent, PushInsert, SendWake
<1>4. ASSUME NEW s \in Senders, DropSender(s) PROVE CloseInv'
  <2>1. s \in LiveHandles /\ UNCHANGED <<endFlag, rpc>>
    BY <1>4 DEF DropSender
  <2>2. CASE LiveHandles = {s}
    <3>1. LiveHandles' = {}
      BY <1>4, <2>2 DEF DropSender
    <3> QED
      BY <2>1, <3>1
  <2>3. CASE LiveHandles # {s}
    <3>1. spc' = [spc EXCEPT ![s] = "none"]
      BY <1>4, <2>3 DEF DropSender
    <3> QED
      BY <2>1, <3>1
  <2> QED
    BY <2>2, <2>3
<1>5. ASSUME NEW s \in Senders, SetEndFlag(s) PROVE CloseInv'
  <2>1. LiveHandles = {}
    BY <1>5 DEF SetEndFlag
  <2> QED
    BY <1>5, <2>1 DEF SetEndFlag
<1>6. ASSUME NEW t \in Senders \union {Receiver}, WakerStep(t) PROVE CloseInv'
  BY <1>6 DEF WakerStep
<1>7. ASSUME \/ Poll \/ ScanTake \/ ScanNext \/ ScanEnd \/ Register \/ SecondTry
             \/ DropReceiver \/ Terminated \/ UNCHANGED vars
      PROVE  CloseInv'
  <2>1. UNCHANGED <<spc, endFlag>> /\ (rpc' = "ended" => rpc = "ended")
    BY <1>7 DEF Poll, BeginScan, ScanTake, ScanNext, ScanEnd, Register, SecondTry, DropReceiver,
       Terminated, vars
  <2> QED
    BY <2>1
<1>8. CASE CheckFlag
  BY <1>8 DEF CheckFlag
<1> QED
  BY <1>1, <1>2, <1>3, <1>4, <1>5, <1>6, <1>7, <1>8 DEF Next, SenderStep, RecvStep

LEMMA CloseInvariance == Spec => []CloseInv
<1>1. Init => CloseInv
  BY DEF Init, CloseInv
<1>2. TypeOK /\ CloseInv /\ [Next]_vars => CloseInv'
  BY CloseStep
<1> QED
  BY <1>1, <1>2, TypeCorrect, PTL DEF Spec

(* priotity_async_mpsc_chan.rs:116-121: once the flag is set, there is no  *)
(* handle whose send_sync could return Err(()), nor will there be one.     *)
THEOREM EndForGood == Spec => []EndIsFinal
<1>1. CloseInv => EndIsFinal
  BY DEF CloseInv, EndIsFinal
<1> QED
  BY <1>1, CloseInvariance, PTL

------------------------------------------------------------------------------
(* The order of elements *)

(* What a step does to the queues and to the walk over them. *)
LEMMA QueueActions ==
  ASSUME [Next]_vars
  PROVE  \/ \E s \in Senders : PushPresent(s) \/ PushInsert(s)
         \/ ScanTake \/ ScanNext \/ ScanEnd
         \/ BeginScan /\ rpc # "scan" /\ UNCHANGED <<map, taken, sent>>
         \/ /\ rpc # "scan" /\ rpc' # "scan"
            /\ sentAtScan' \in {0, sentAtScan}
            /\ UNCHANGED <<map, taken, sent, scan>>
         \/ UNCHANGED <<map, taken, sent, rpc, scan, sentAtScan>>
<1>1. ASSUME NEW s \in Senders,
             \/ \E t \in Senders : CloneSender(s, t)
             \/ \E p \in Priorities : SendCheck(s, p)
             \/ PushAbsent(s) \/ SendWake(s) \/ DropSender(s) \/ SetEndFlag(s)
      PROVE  UNCHANGED <<map, taken, sent, rpc, scan, sentAtScan>>
  BY <1>1 DEF CloneSender, SendCheck, PushAbsent, SendWake, DropSender, SetEndFlag, recvVars
<1>2. ASSUME NEW t \in Senders \union {Receiver}, WakerStep(t)
      PROVE  UNCHANGED <<map, taken, sent, rpc, scan, sentAtScan>>
  BY <1>2 DEF WakerStep, recvVars
<1>3. ASSUME Terminated \/ UNCHANGED vars
      PROVE  UNCHANGED <<map, taken, sent, rpc, scan, sentAtScan>>
  BY <1>3 DEF Terminated, vars, recvVars
<1>4. ASSUME CheckFlag \/ Register \/ DropReceiver
      PROVE  /\ rpc # "scan" /\ rpc' # "scan"
             /\ sentAtScan' \in {0, sentAtScan}
             /\ UNCHANGED <<map, taken, sent, scan>>
  BY <1>4 DEF CheckFlag, Register, DropReceiver
<1>5. ASSUME Poll \/ SecondTry
      PROVE  BeginScan /\ rpc # "scan" /\ UNCHANGED <<map, taken, sent>>
  BY <1>5 DEF Poll, SecondTry
<1> QED
  BY <1>1, <1>2, <1>3, <1>4, <1>5 DEF Next, SenderStep, RecvStep

(* A queue of one element. *)
LEMMA OneElement ==
  ASSUME NEW e
  PROVE  Range(<<e>>) = {e} /\ Ascending(<<e>>)
<1>1. DOMAIN <<e>> = {1} /\ <<e>>[1] = e
  OBVIOUS
<1> QED
  BY <1>1 DEF Range, Ascending

(* The ids in the map are numbers. *)
LEMMA ElementTypes ==
  ASSUME MapInv
  PROVE  /\ \A p \in DOMAIN map : \A m \in Range(map[p]) : m \in Element /\ m.id \in Nat
         /\ \A m \in taken : m \in Element /\ m.id \in Nat
         /\ sent \in Nat
<1>1. \A p \in DOMAIN map : map[p] \in Seq(Element)
  BY DEF MapInv, TypeOK
<1>2. \A p \in DOMAIN map : Range(map[p]) \subseteq Element
  BY <1>1, RangeElements
<1>3. \A m \in Element : m.id \in Nat
  BY DEF Element
<1> QED
  BY <1>2, <1>3 DEF MapInv, TypeOK

(* A new element has the largest id so far. *)
LEMMA PushOrder ==
  ASSUME MapInv, Ordered, NEW s \in Senders, PushPresent(s) \/ PushInsert(s)
  PROVE  /\ Ordered' /\ sent' = sent + 1 /\ taken' = taken
         /\ \A m \in Range(map'[arg[s]]) :
              m = NewElement(s) \/ (arg[s] \in DOMAIN map /\ m \in Range(map[arg[s]]))
<1> DEFINE e == NewElement(s)
           p == arg[s]
<1>1. sent \in Nat /\ sent' = sent + 1 /\ taken' = taken
  BY DEF PushPresent, PushInsert, MapInv, TypeOK, recvVars
<1>2. e.id = sent + 1 /\ e.p = p
  BY DEF NewElement
<1>3. /\ DOMAIN map' = DOMAIN map \union {p}
      /\ \A r \in DOMAIN map \ {p} : map'[r] = map[r]
  BY PresentMap, InsertMap
<1>4. /\ Ascending(map'[p])
      /\ \A m \in Range(map'[p]) : m = e \/ (p \in DOMAIN map /\ m \in Range(map[p]))
  <2>1. CASE PushPresent(s)
    <3>1. /\ p \in DOMAIN map /\ map[p] \in Seq(Element) /\ e \in Element
          /\ map'[p] = Append(map[p], e)
      BY <2>1, PresentMap
    <3>2. Ascending(map[p]) /\ \A m \in Range(map[p]) : m.id <= sent /\ m.id \in Nat
      BY <3>1, ElementTypes DEF Ordered
    <3>3. \A m \in Range(map[p]) : m.id < e.id
      BY <1>1, <1>2, <3>2
    <3>4. Ascending(Append(map[p], e))
      BY <3>1, <3>2, <3>3, AscendingAppend
    <3>5. Range(Append(map[p], e)) = Range(map[p]) \union {e}
      BY <3>1, RangeAppend
    <3> QED
      BY <3>1, <3>4, <3>5
  <2>2. CASE PushInsert(s)
    <3>1. map'[p] = <<e>>
      BY <2>2, InsertMap
    <3>2. Range(<<e>>) = {e} /\ Ascending(<<e>>)
      BY OneElement
    <3> QED
      BY <3>1, <3>2
  <2> QED
    BY <2>1, <2>2
<1>5. \A r \in DOMAIN map' : Ascending(map'[r])
  BY <1>3, <1>4 DEF Ordered
<1>6. \A r \in DOMAIN map' : \A m \in Range(map'[r]) :
        (r = p /\ m = e) \/ (r \in DOMAIN map /\ m \in Range(map[r]))
  BY <1>3, <1>4
<1>7. \A r \in DOMAIN map' : \A m \in Range(map'[r]) : m.p = r /\ m.id \in 1 .. sent'
  BY <1>1, <1>2, <1>6, ElementTypes DEF Ordered
<1>8. \A m \in taken' : m.id \in 1 .. sent'
  BY <1>1, ElementTypes DEF Ordered
<1>9. \A r \in DOMAIN map' : \A m \in taken', n \in Range(map'[r]) : m.p = r => m.id < n.id
  BY <1>1, <1>2, <1>6, ElementTypes DEF Ordered
<1> QED
  BY <1>1, <1>4, <1>5, <1>7, <1>8, <1>9 DEF Ordered

(* The head of a queue has the smallest id of its priority. *)
LEMMA TakeOrder ==
  ASSUME MapInv, Ordered, ScanTake
  PROVE  Ordered'
<1> DEFINE h == Head(map[Cursor])
           c == Cursor
<1>1. /\ c \in DOMAIN map /\ map[c] \in Seq(Element) /\ map[c] # <<>>
      /\ DOMAIN map' = DOMAIN map /\ map'[c] = Tail(map[c])
      /\ \A r \in DOMAIN map \ {c} : map'[r] = map[r]
  BY TakeMap
<1>2. taken' = taken \union {h} /\ sent' = sent
  BY DEF ScanTake
<1>3. h \in Range(map[c]) /\ Range(map[c]) = {h} \union Range(Tail(map[c]))
  BY <1>1, RangeHeadTail
<1>4. Ascending(Tail(map[c])) /\ \A m \in Range(Tail(map[c])) : h.id < m.id
  BY <1>1, AscendingTail DEF Ordered
<1>5. h.p = c /\ h.id \in 1 .. sent
  BY <1>1, <1>3 DEF Ordered
<1>6. \A r \in DOMAIN map' : Ascending(map'[r]) /\ Range(map'[r]) \subseteq Range(map[r])
  BY <1>1, <1>3, <1>4 DEF Ordered
<1>7. \A r \in DOMAIN map' : \A n \in Range(map'[r]) : r = c => h.id < n.id
  BY <1>1, <1>4
<1> HIDE DEF h, c
<1>8. \A r \in DOMAIN map' : \A m \in Range(map'[r]) : m.p = r /\ m.id \in 1 .. sent'
  BY <1>1, <1>2, <1>6 DEF Ordered
<1>9. \A m \in taken' : m.id \in 1 .. sent'
  BY <1>2, <1>5 DEF Ordered
<1>10. \A r \in DOMAIN map' : \A m \in taken', n \in Range(map'[r]) : m.p = r => m.id < n.id
  BY <1>1, <1>2, <1>5, <1>6, <1>7 DEF Ordered
<1> QED
  BY <1>6, <1>8, <1>9, <1>10 DEF Ordered

(* The steps that change neither queues nor what was taken keep the order. *)
LEMMA OrderStep ==
  ASSUME MapInv, Ordered, [Next]_vars
  PROVE  Ordered'
<1>1. ASSUME UNCHANGED <<map, taken, sent>> PROVE Ordered'
  BY <1>1 DEF Ordered
<1>2. ASSUME ScanNext \/ ScanEnd PROVE UNCHANGED <<map, taken, sent>>
  BY <1>2 DEF ScanNext, ScanEnd
<1> QED
  BY <1>1, <1>2, PushOrder, TakeOrder, QueueActions

(* Ids begin with 1. *)
LEMMA AllIdsPositive ==
  ASSUME Ordered, sent \in Nat
  PROVE  \A p \in DOMAIN map : \A m \in Range(map[p]) : 0 < m.id
  BY DEF Ordered

(* What is pushed while pop is under way is newer than its beginning. *)
LEMMA PassedStep ==
  ASSUME MapInv, Ordered, PassedNew, [Next]_vars
  PROVE  PassedNew'
<1>0. sent \in Nat /\ sentAtScan \in Nat
  BY DEF MapInv, TypeOK
<1>1. ASSUME NEW s \in Senders, PushPresent(s) PROVE PassedNew'
  <2>1. sent' = sent + 1 /\ \A m \in Range(map'[arg[s]]) :
          m = NewElement(s) \/ (arg[s] \in DOMAIN map /\ m \in Range(map[arg[s]]))
    BY <1>1, PushOrder
  <2>2. DOMAIN map' = DOMAIN map /\ \A r \in DOMAIN map \ {arg[s]} : map'[r] = map[r]
    BY <1>1, PresentMap
  <2>3. UNCHANGED <<rpc, scan, sentAtScan>>
    BY <1>1 DEF PushPresent, recvVars
  <2>4. NewElement(s).id = sent + 1
    BY DEF NewElement
  <2> QED
    BY <1>0, <2>1, <2>2, <2>3, <2>4 DEF PassedNew
<1>2. ASSUME NEW s \in Senders, PushInsert(s) PROVE PassedNew'
  <2>1. sent' = sent + 1 /\ \A m \in Range(map'[arg[s]]) : m = NewElement(s)
    BY <1>2, InsertMap, OneElement DEF PushInsert
  <2>2. DOMAIN map' = DOMAIN map \union {arg[s]} /\ \A r \in DOMAIN map \ {arg[s]} : map'[r] = map[r]
    BY <1>2, InsertMap
  <2>3. UNCHANGED <<scan, sentAtScan>>
    BY <1>2 DEF PushInsert, recvVars
  <2>4. NewElement(s).id = sent + 1
    BY DEF NewElement
  <2> QED
    BY <1>0, <2>1, <2>2, <2>3, <2>4 DEF PassedNew
<1>3. CASE ScanTake
  <2>1. sentAtScan' = 0 /\ sent' = sent
    BY <1>3 DEF ScanTake
  <2>2. \A p \in DOMAIN map' : \A m \in Range(map'[p]) : m.id \in 1 .. sent'
    BY <1>3, TakeOrder DEF Ordered
  <2> QED
    BY <1>0, <2>1, <2>2 DEF PassedNew
<1>4. CASE ScanNext
  <2>1. \A r \in DOMAIN map \ scan' : r \in DOMAIN map \ scan \/ r = Cursor
    BY <1>4 DEF ScanNext
  <2>2. Range(map[Cursor]) = {}
    BY <1>4 DEF ScanNext, Range
  <2> QED
    BY <1>4, <2>1, <2>2 DEF ScanNext, PassedNew
<1>5. CASE ScanEnd
  BY <1>0, <1>5 DEF ScanEnd, PassedNew
<1>6. CASE BeginScan /\ UNCHANGED <<map, taken, sent>>
  BY <1>0, <1>6 DEF BeginScan, PassedNew
<1>7. CASE sentAtScan' \in {0, sentAtScan} /\ UNCHANGED <<map, taken, sent, scan>>
  BY <1>0, <1>7, AllIdsPositive DEF PassedNew
<1>8. CASE UNCHANGED <<map, taken, sent, rpc, scan, sentAtScan>>
  BY <1>8 DEF PassedNew
<1> QED
  BY <1>1, <1>2, <1>3, <1>4, <1>5, <1>6, <1>7, <1>8, QueueActions

(* The order of the queues holds, and how far pop has come says what it    *)
(* has missed.                                                             *)
LEMMA ScanInvariance == Spec => []ScanInv
<1>1. Init => Ordered /\ PassedNew
  <2> SUFFICES ASSUME Init PROVE Ordered /\ PassedNew
    OBVIOUS
  <2>1. DOMAIN map = {}
    BY InitMap
  <2> QED
    BY <2>1 DEF Init, Ordered, PassedNew
<1>2. MapInv /\ Ordered /\ PassedNew /\ [Next]_vars => Ordered' /\ PassedNew'
  BY OrderStep, PassedStep
<1> QED
  BY <1>1, <1>2, MapInvariance, PTL DEF Spec, ScanInv

(* priotity_async_mpsc_chan.rs:31-51: whatever the handles push and        *)
(* whichever queues of the map are replaced, elements of equal priority    *)
(* come out in the order they were pushed, none twice.                     *)
THEOREM Fifo == Spec => []PerPriorityFifo
<1>1. ScanInv => PerPriorityFifo
  <2> SUFFICES ASSUME Ordered, NEW m \in taken, NEW n \in Elements, m.p = n.p
               PROVE  m.id < n.id
    BY DEF ScanInv, PerPriorityFifo
  <2>1. PICK p \in DOMAIN map : n \in Range(map[p])
    BY DEF Elements
  <2> QED
    BY <2>1 DEF Ordered
<1> QED
  BY <1>1, ScanInvariance, PTL

(* priotity_async_mpsc_chan.rs:79-91: None is returned only when no handle *)
(* is left, and misses nothing but what was pushed after the last pop of   *)
(* that recv began, in whichever order handles push, drop and set the flag.*)
THEOREM NoneMissesLate == Spec => []NoneMissesLatePushesOnly
<1>1. ScanInv /\ CloseInv => NoneMissesLatePushesOnly
  <2> SUFFICES ASSUME ScanInv, CloseInv, rpc = "ended"
               PROVE  LiveHandles = {} /\ \A m \in Elements : m.id > sentAtScan
    BY DEF NoneMissesLatePushesOnly
  <2>1. LiveHandles = {}
    BY DEF CloseInv
  <2>2. scan = {} /\ sentAtScan \in Nat
    BY DEF ScanInv, MapInv, TypeOK
  <2>3. ASSUME NEW m \in Elements PROVE m.id > sentAtScan
    <3>1. PICK p \in DOMAIN map : m \in Range(map[p])
      BY DEF Elements
    <3>2. sentAtScan < m.id /\ m.id \in Nat
      BY <2>2, <3>1, ElementTypes DEF ScanInv, PassedNew
    <3> QED
      BY <2>2, <3>2
  <2> QED
    BY <2>1, <2>3
<1> QED
  BY <1>1, ScanInvariance, CloseInvariance, PTL

------------------------------------------------------------------------------
(* The refinement *)

(* The queues and the elements that the abstract specification sees. *)
Queues == [p \in Priorities |-> IF p \in DOMAIN map THEN map[p] ELSE <<>>]
Seen == {m \in Elements : m.id <= sentAtScan}

(* The elements in the map are those of its queues. *)
LEMMA InElements == \A m : m \in Elements <=> \E p \in DOMAIN map : m \in Range(map[p])
  BY DEF Elements

(* Outside pop, nothing has been seen. *)
NothingSeen == rpc # "scan" => Seen = {}

(* NothingSeen: every queue has been passed then. *)
LEMMA SeenInPop == ScanInv => NothingSeen
  BY InElements, ElementTypes
     DEF ScanInv, NothingSeen, Seen, Ordered, PassedNew, MapInv, TypeOK

(* The empty map is the empty priority queue. *)
LEMMA InitRefines == Init => Abstract!Init
<1> SUFFICES ASSUME Init PROVE Abstract!Init
  OBVIOUS
<1>1. DOMAIN map = {}
  BY InitMap
<1>2. Elements = {}
  BY <1>1, InElements
<1> QED
  BY <1>1, <1>2 DEF Init, Abstract!Init

(* A push into a queue of the map appends. *)
LEMMA PresentRefines ==
  ASSUME ScanInv, NEW s \in Senders, PushPresent(s), NEW p \in Priorities, arg[s] = p
  PROVE  Abstract!Push(p)
<1> USE DEF ScanInv
<1> DEFINE e == NewElement(s)
<1>1. /\ p \in DOMAIN map /\ map[p] \in Seq(Element) /\ e \in Element
      /\ DOMAIN map' = DOMAIN map /\ map'[p] = Append(map[p], e)
      /\ \A r \in DOMAIN map \ {p} : map'[r] = map[r]
  BY PresentMap
<1>2. p \in Priorities /\ DOMAIN map \subseteq Priorities
  BY <1>1 DEF MapInv, TypeOK
<1>3. UNCHANGED <<rpc, sentAtScan, taken>> /\ sent' = sent + 1
  BY DEF PushPresent, recvVars
<1>4. Queues' = [Queues EXCEPT ![p] = Append(@, e)]
  BY <1>1, <1>2 DEF Queues
<1>5. Range(map'[p]) = Range(map[p]) \union {e}
  BY <1>1, RangeAppend
<1>6. ~(e.id <= sentAtScan)
  BY DEF NewElement, PassedNew, MapInv, TypeOK
<1>7. \A m : (\E r \in DOMAIN map' : m \in Range(map'[r]))
               <=> m = e \/ \E r \in DOMAIN map : m \in Range(map[r])
  BY <1>1, <1>5
<1>8. Elements' = Elements \union {e}
  BY <1>7 DEF Elements
<1>9. Seen' = Seen
  <2>1. Seen' = {m \in Elements \union {e} : m.id <= sentAtScan}
    BY <1>3, <1>8 DEF Seen
  <2>2. Seen' = {m \in Elements : m.id <= sentAtScan}
    BY <1>6, <2>1
  <2> QED
    BY <2>2 DEF Seen
<1> QED
  BY <1>2, <1>3, <1>4, <1>9 DEF Queues, Seen, NewElement, Abstract!Push, Abstract!NewElement

(* The insertion of a queue replaces what there is of the priority, and    *)
(* the write lock keeps it out of pop.                                     *)
LEMMA InsertRefines ==
  ASSUME ScanInv, NothingSeen, NothingSeen', NEW s \in Senders, PushInsert(s),
         NEW p \in Priorities, arg[s] = p
  PROVE  Abstract!PushReplacing(p)
<1> USE DEF ScanInv
<1> DEFINE e == NewElement(s)
<1>1. /\ p \in Priorities
      /\ DOMAIN map' = DOMAIN map \union {p} /\ map'[p] = <<e>>
      /\ \A r \in DOMAIN map \ {p} : map'[r] = map[r]
  BY InsertMap
<1>2. rpc # "scan" /\ UNCHANGED <<rpc, sentAtScan, taken>> /\ sent' = sent + 1
  BY DEF PushInsert, recvVars
<1>3. Queues' = [Queues EXCEPT ![p] = <<e>>]
  BY <1>1 DEF Queues
<1>4. Seen = {} /\ Seen' = {}
  BY <1>2 DEF NothingSeen
<1> QED
  BY <1>1, <1>2, <1>3, <1>4
     DEF Queues, Seen, NewElement, Abstract!PushReplacing, Abstract!NewElement

(* When pop begins, it has passed nothing, and sees all there is. *)
LEMMA CallRefines ==
  ASSUME ScanInv, BeginScan, rpc # "scan", UNCHANGED <<map, taken, sent>>
  PROVE  Abstract!Call
<1> USE DEF ScanInv
<1>1. \A m : (\E p \in Priorities : m \in Range(Queues[p])) <=> m \in Elements
  <2>1. DOMAIN map \subseteq Priorities
    BY DEF MapInv, TypeOK
  <2>2. Range(<<>>) = {}
    BY DEF Range
  <2> QED
    BY <2>1, <2>2, InElements DEF Queues
<1>2. Elements = UNION {Range(Queues[p]) : p \in Priorities}
  BY <1>1
<1>3. \A m \in Elements : m.id <= sent
  BY InElements, ElementTypes DEF Ordered
<1>4. Seen' = Elements
  BY <1>3 DEF BeginScan, Seen, Elements
<1>5. Abstract!Pending = Elements
  BY <1>2 DEF Queues, Range, Abstract!Range, Abstract!Pending
<1>6. UNCHANGED Queues /\ rpc' = "scan"
  BY DEF Queues, BeginScan
<1> QED
  BY <1>4, <1>5, <1>6 DEF Queues, Seen, Abstract!Call

(* The queue with the lowest number of those to come is the first that may *)
(* have an element seen when pop began.                                    *)
LEMMA TakeRefines ==
  ASSUME ScanInv, NothingSeen', ScanTake, NEW c \in Priorities, Cursor = c
  PROVE  Abstract!ReturnElement(c)
<1> USE DEF ScanInv
<1>1. /\ c \in DOMAIN map /\ c \in scan /\ c \in Priorities /\ map[c] # <<>>
      /\ DOMAIN map' = DOMAIN map /\ map'[c] = Tail(map[c])
      /\ \A r \in DOMAIN map \ {c} : map'[r] = map[r]
  BY TakeMap
<1>2. \A r \in scan : c <= r
  BY <1>1, CursorInScan DEF MapInv
<1>3. Queues[c] = map[c] /\ Queues' = [Queues EXCEPT ![c] = Tail(@)]
  BY <1>1 DEF Queues
<1>4. \A m \in Seen : m.p >= c
  <2> SUFFICES ASSUME NEW m \in Elements, m.id <= sentAtScan PROVE m.p >= c
    BY DEF Seen
  <2>1. PICK r \in DOMAIN map : m \in Range(map[r])
    BY InElements
  <2>2. m.p = r /\ m.id \in Nat
    BY <2>1, ElementTypes DEF Ordered
  <2>3. r \in scan
    BY <2>1, <2>2 DEF PassedNew, ScanTake, MapInv, TypeOK
  <2>4. r \in Nat /\ c \in Nat
    BY <1>1, <2>1, ConstantsAssumption DEF MapInv, TypeOK
  <2> QED
    BY <1>2, <2>2, <2>3, <2>4
<1>5. Seen' = {}
  BY DEF ScanTake, NothingSeen
<1> QED
  BY <1>1, <1>3, <1>4, <1>5 DEF Queues, Seen, ScanTake, Abstract!ReturnElement

(* pop has passed every queue, and none had an element seen. *)
LEMMA EndRefines ==
  ASSUME ScanInv, NothingSeen', ScanEnd
  PROVE  Abstract!ReturnNone
<1> USE DEF ScanInv
<1>1. Seen = {}
  BY InElements, ElementTypes DEF Seen, PassedNew, ScanEnd, MapInv, TypeOK
<1>2. Seen' = {}
  BY DEF ScanEnd, NothingSeen
<1>3. Queues' = Queues
  BY DEF ScanEnd, Queues
<1> QED
  BY <1>1, <1>2, <1>3 DEF Queues, Seen, ScanEnd, Abstract!ReturnNone

(* Every step of the channel is a step of the priority queue or invisible. *)
LEMMA StepRefines ==
  ASSUME ScanInv, NothingSeen, NothingSeen', [Next]_vars
  PROVE  [Abstract!Next]_(Abstract!vars)
<1>1. ASSUME UNCHANGED <<map, taken, sent, sentAtScan>>, rpc = "scan" <=> rpc' = "scan"
      PROVE  UNCHANGED Abstract!vars
  BY <1>1 DEF Abstract!vars, Elements
<1>2. ASSUME UNCHANGED <<map, taken, sent>>, rpc # "scan", rpc' # "scan"
      PROVE  UNCHANGED Abstract!vars
  <2>1. Seen = {} /\ Seen' = {}
    BY <1>2 DEF NothingSeen
  <2> QED
    BY <1>2, <2>1 DEF Abstract!vars, Seen
<1>3. CASE ScanNext
  BY <1>1, <1>3 DEF ScanNext
<1>4. ASSUME NEW s \in Senders, PushPresent(s) \/ PushInsert(s) PROVE Abstract!Next
  <2>1. CASE PushPresent(s)
    <3>1. PICK p \in Priorities : arg[s] = p
      BY <2>1, PresentMap DEF ScanInv, MapInv, TypeOK
    <3>2. Abstract!Push(p)
      BY <2>1, <3>1, PresentRefines
    <3> QED
      BY <3>2 DEF Abstract!Next
  <2>2. CASE PushInsert(s)
    <3>1. PICK p \in Priorities : arg[s] = p
      BY <2>2, InsertMap DEF ScanInv
    <3>2. Abstract!PushReplacing(p)
      BY <2>2, <3>1, InsertRefines
    <3> QED
      BY <3>2 DEF Abstract!Next
  <2> QED
    BY <1>4, <2>1, <2>2
<1>5. CASE ScanTake
  <2>1. PICK c \in Priorities : Cursor = c
    BY <1>5, TakeMap DEF ScanInv
  <2>2. Abstract!ReturnElement(c)
    BY <1>5, <2>1, TakeRefines
  <2> QED
    BY <2>2 DEF Abstract!Next
<1>6. CASE ScanEnd
  BY <1>6, EndRefines DEF Abstract!Next
<1>7. CASE BeginScan /\ rpc # "scan" /\ UNCHANGED <<map, taken, sent>>
  BY <1>7, CallRefines DEF Abstract!Next
<1> QED
  BY <1>1, <1>2, <1>3, <1>4, <1>5, <1>6, <1>7, QueueActions

(* priotity_async_mpsc_chan.rs:31-51: push and pop, interleaved as they    *)
(* may be, are the priority queue.  recv passes over no element that was   *)
(* in the map when pop began, neither for one of a higher number nor for a *)
(* None.                                                                   *)
THEOREM Implementation == Spec => ImplementsPriorityQueue
<1>1. Spec => [](ScanInv /\ NothingSeen)
  BY ScanInvariance, SeenInPop, PTL
<1>2. ScanInv /\ NothingSeen /\ NothingSeen' /\ [Next]_vars => [Abstract!Next]_(Abstract!vars)
  BY StepRefines
<1> QED
  BY <1>1, <1>2, InitRefines, PTL DEF Spec, ImplementsPriorityQueue, Abstract!Spec

------------------------------------------------------------------------------
(* Wake-ups *)

(* What the lock of the cell means, as only the receiver registers. *)
LEMMA CellLock ==
  ASSUME WakerInv, RolesInv
  PROVE  /\ wpc \in [Senders \union {Receiver} -> WakerProofs!Pc]
         /\ new \in [Senders \union {Receiver} -> {Task, NoTask}]
         /\ owed \subseteq {Task} /\ woken \subseteq {Task}
         /\ wpc[Receiver] = "idle" => "REGISTERING" \notin state
         /\ \A s \in Senders : wpc[s] \in {"taking", "unlock"} =>
              /\ state # {}
              /\ wpc[Receiver] \notin {"locked", "release", "contended", "swap"}
<1> USE DEF WakerInv, WakerProofs!Typed, WakerProofs!LockInv, WakerProofs!Registering,
            WakerProofs!Taking, WakerProofs!RegisterPc, WakerProofs!TakePc,
            WakerProofs!CellExclusive
<1>1. /\ wpc \in [Senders \union {Receiver} -> WakerProofs!Pc]
      /\ new \in [Senders \union {Receiver} -> {Task, NoTask}]
      /\ owed \subseteq {Task} /\ woken \subseteq {Task}
  BY DEF WakerProofs!Wakers
<1>2. wpc[Receiver] = "idle" => "REGISTERING" \notin state
  BY DEF RolesInv
<1>3. ASSUME NEW s \in Senders, wpc[s] \in {"taking", "unlock"}
      PROVE  /\ state # {}
             /\ wpc[Receiver] \notin {"locked", "release", "contended", "swap"}
  BY <1>3, ConstantsAssumption
<1> QED
  BY <1>1, <1>2, <1>3

(* A handle inside wake. *)
LEMMA HandleWakes ==
  ASSUME RolesInv, NEW s \in Senders, WakerStep(s)
  PROVE  Waker!Take(s) \/ Waker!Unlock(s) \/ Waker!WakeNew(s)
  BY DEF RolesInv, WakerStep, Waker!Continue, Waker!IntoWaker, Waker!IntoWakerPanics,
     Waker!Release, Waker!ReleaseContended, Waker!TakeBack, Waker!Swap, Waker!WakeOld

(* The receiver inside register_by_ref. *)
LEMMA ReceiverRegisters ==
  ASSUME RolesInv, WakerStep(Receiver)
  PROVE  /\ wpc[Receiver] # "idle"
         /\ \/ Waker!IntoWaker(Receiver) \/ Waker!Release(Receiver)
            \/ Waker!ReleaseContended(Receiver) \/ Waker!TakeBack(Receiver)
            \/ Waker!Swap(Receiver) \/ Waker!WakeOld(Receiver) \/ Waker!WakeNew(Receiver)
  BY DEF RolesInv, WakerStep, Waker!Continue, Waker!IntoWaker, Waker!IntoWakerPanics,
     Waker!Release, Waker!ReleaseContended, Waker!TakeBack, Waker!Swap, Waker!Take,
     Waker!Unlock, Waker!WakeOld, Waker!WakeNew

(* The steps that leave the waker alone; none of them arms it. *)
LEMMA OutsideWaker ==
  ASSUME [Next]_vars
  PROVE  \/ \E s \in Senders : SendWake(s) \/ WakerStep(s)
         \/ Register \/ WakerStep(Receiver) \/ Poll
         \/ UNCHANGED waker /\ UNCHANGED <<rpc, registered>>
         \/ UNCHANGED waker /\ rpc \in {"scan", "flag", "idle", "pending", "ended"}
              /\ UNCHANGED registered /\ rpc' \notin {"registered"}
              /\ (rpc' = "pending" => registered) /\ (rpc' = "register" => ~registered)
         \/ SecondTry
<1>1. ASSUME NEW s \in Senders,
             \/ \E t \in Senders : CloneSender(s, t)
             \/ \E p \in Priorities : SendCheck(s, p)
             \/ PushPresent(s) \/ PushAbsent(s) \/ PushInsert(s) \/ DropSender(s) \/ SetEndFlag(s)
      PROVE  UNCHANGED waker /\ UNCHANGED <<rpc, registered>>
  BY <1>1 DEF CloneSender, SendCheck, PushPresent, PushAbsent, PushInsert, DropSender,
     SetEndFlag, recvVars
<1>2. ASSUME Terminated \/ UNCHANGED vars \/ ScanNext
      PROVE  UNCHANGED waker /\ UNCHANGED <<rpc, registered>>
  BY <1>2 DEF Terminated, vars, recvVars, ScanNext
<1>3. ASSUME ScanTake \/ ScanEnd \/ CheckFlag \/ DropReceiver
      PROVE  /\ UNCHANGED waker /\ rpc \in {"scan", "flag", "idle", "pending", "ended"}
             /\ UNCHANGED registered /\ rpc' \notin {"registered"}
             /\ (rpc' = "pending" => registered) /\ (rpc' = "register" => ~registered)
  BY <1>3 DEF ScanTake, ScanEnd, CheckFlag, DropReceiver
<1> QED
  BY <1>1, <1>2, <1>3 DEF Next, SenderStep, RecvStep

(* Who is where in the waker. *)
LEMMA RolesStep ==
  ASSUME WakerInv, RolesInv, [Next]_vars
  PROVE  RolesInv'
<1>0. /\ wpc \in [Senders \union {Receiver} -> WakerProofs!Pc]
      /\ new \in [Senders \union {Receiver} -> {Task, NoTask}]
      /\ Receiver \notin Senders /\ Task # NoTask
  BY CellLock, ConstantsAssumption
<1>1. ASSUME NEW s \in Senders, SendWake(s) PROVE RolesInv'
  BY <1>0, <1>1 DEF SendWake, Waker!Wake, Waker!ThreadGoes, RolesInv, recvVars
<1>2. ASSUME NEW s \in Senders, WakerStep(s) PROVE RolesInv'
  <2>1. UNCHANGED <<rpc, registered>>
    BY <1>2 DEF WakerStep, recvVars
  <2>2. CASE Waker!Take(s)
    <3>1. wpc[Receiver] \notin {"release", "contended"}
      BY <2>2, CellLock DEF Waker!Take
    <3> QED
      BY <1>0, <2>1, <2>2, <3>1 DEF Waker!Take, Waker!ThreadGoes, RolesInv
  <2>3. CASE Waker!Unlock(s) \/ Waker!WakeNew(s)
    BY <1>0, <2>1, <2>3 DEF Waker!Unlock, Waker!WakeNew, Waker!ThreadGoes, RolesInv
  <2> QED
    BY <1>2, <2>2, <2>3, HandleWakes
<1>3. CASE Register
  BY <1>0, <1>3 DEF Register, Waker!Register, Waker!RegisterLock, Waker!RegisterWhileWaking,
     Waker!RegisterRefused, Waker!vars, Waker!ThreadGoes, RolesInv
<1>4. CASE WakerStep(Receiver)
  <2>1. UNCHANGED <<rpc, registered>>
    BY <1>4 DEF WakerStep, recvVars
  <2>2. CASE Waker!IntoWaker(Receiver) \/ Waker!TakeBack(Receiver)
    BY <1>0, <2>1, <2>2 DEF Waker!IntoWaker, Waker!TakeBack, Waker!ThreadGoes, RolesInv
  <2>3. CASE Waker!Release(Receiver) \/ Waker!ReleaseContended(Receiver) \/ Waker!Swap(Receiver)
    BY <1>0, <2>1, <2>3 DEF Waker!Release, Waker!ReleaseContended, Waker!Swap,
       Waker!ThreadGoes, RolesInv
  <2>4. CASE Waker!WakeOld(Receiver) \/ Waker!WakeNew(Receiver)
    BY <1>0, <2>1, <2>4 DEF Waker!WakeOld, Waker!WakeNew, Waker!ThreadGoes, RolesInv
  <2> QED
    BY <1>4, <2>2, <2>3, <2>4, ReceiverRegisters
<1>5. CASE Poll
  BY <1>5 DEF Poll, BeginScan, RolesInv
<1>6. CASE SecondTry
  BY <1>6 DEF SecondTry, BeginScan, RolesInv, waker
<1>7. CASE UNCHANGED waker /\ UNCHANGED <<rpc, registered>>
  BY <1>7 DEF waker, RolesInv
<1>8. CASE /\ UNCHANGED waker /\ rpc \in {"scan", "flag", "idle", "pending", "ended"}
           /\ UNCHANGED registered /\ rpc' \notin {"registered"}
           /\ (rpc' = "pending" => registered) /\ (rpc' = "register" => ~registered)
  BY <1>8 DEF waker, RolesInv
<1> QED
  BY <1>1, <1>2, <1>3, <1>4, <1>5, <1>6, <1>7, <1>8, OutsideWaker

(* A wake-up that is owed is paid, not forgotten. *)
LEMMA StaysWoken ==
  ASSUME WakerInv, RolesInv, TaskWoken,
         \/ \E s \in Senders : SendWake(s) \/ WakerStep(s)
         \/ Register \/ WakerStep(Receiver) \/ UNCHANGED waker
  PROVE  TaskWoken'
<1> USE DEF TaskWoken
<1>1. ASSUME NEW s \in Senders, SendWake(s) PROVE TaskWoken'
  BY <1>1 DEF SendWake, Waker!Wake
<1>2. ASSUME NEW s \in Senders, WakerStep(s) PROVE TaskWoken'
  BY <1>2, HandleWakes, ConstantsAssumption
     DEF Waker!Take, Waker!Unlock, Waker!WakeNew, Waker!Some
<1>3. CASE Register
  BY <1>3 DEF Register, Waker!Register, Waker!RegisterLock, Waker!RegisterWhileWaking,
     Waker!RegisterRefused, Waker!vars
<1>4. CASE WakerStep(Receiver)
  BY <1>4, ReceiverRegisters, ConstantsAssumption
     DEF Waker!IntoWaker, Waker!Release, Waker!ReleaseContended, Waker!TakeBack, Waker!Swap,
         Waker!WakeOld, Waker!WakeNew, Waker!Some
<1>5. CASE UNCHANGED waker
  BY <1>5 DEF waker
<1> QED
  BY <1>1, <1>2, <1>3, <1>4, <1>5

(* A wake that finds the task registered owes it the wake-up. *)
LEMMA WakeFindsTask ==
  ASSUME WakerInv, RolesInv, Armed, registered, wpc[Receiver] = "idle",
         NEW s \in Senders, SendWake(s)
  PROVE  TaskWoken'
<1>1. CASE TaskWoken
  BY <1>1, StaysWoken
<1>2. CASE cell = Task
  BY <1>2, ConstantsAssumption DEF SendWake, Waker!Wake, Waker!Some, TaskWoken
<1> QED
  BY <1>1, <1>2 DEF Armed

(* No registration is refused, and none ends without the task in the cell  *)
(* or woken.                                                               *)
LEMMA ArmedStep ==
  ASSUME WakerInv, RolesInv, Armed, [Next]_vars
  PROVE  Armed'
<1>0. /\ wpc \in [Senders \union {Receiver} -> WakerProofs!Pc]
      /\ Receiver \notin Senders /\ Task # NoTask
  BY CellLock, ConstantsAssumption
<1>1. ASSUME NEW s \in Senders, SendWake(s) PROVE Armed'
  <2>1. UNCHANGED registered /\ wpc'[Receiver] = wpc[Receiver]
    BY <1>0, <1>1 DEF SendWake, Waker!Wake, Waker!ThreadGoes, recvVars
  <2> QED
    BY <1>1, <2>1, WakeFindsTask DEF Armed
<1>2. ASSUME NEW s \in Senders, WakerStep(s) PROVE Armed'
  <2>1. UNCHANGED registered /\ wpc'[Receiver] = wpc[Receiver]
    BY <1>0, <1>2, HandleWakes
       DEF WakerStep, recvVars, Waker!Take, Waker!Unlock, Waker!WakeNew, Waker!ThreadGoes
  <2>2. CASE TaskWoken
    BY <1>2, <2>2, StaysWoken DEF Armed
  <2>3. CASE ~TaskWoken
    <3> SUFFICES ASSUME registered, wpc[Receiver] = "idle" PROVE cell' = Task /\ state' = {}
      BY <2>1 DEF Armed
    <3>1. cell = Task /\ state = {}
      BY <2>3 DEF Armed
    <3>2. wpc[s] \notin {"taking", "unlock"}
      BY <3>1, CellLock
    <3>3. Waker!WakeNew(s)
      BY <1>2, <3>2, HandleWakes DEF Waker!Take, Waker!Unlock
    <3> QED
      BY <3>1, <3>3 DEF Waker!WakeNew
  <2> QED
    BY <2>2, <2>3
<1>3. CASE Register
  <2>1. wpc[Receiver] = "idle" /\ "REGISTERING" \notin state
    BY <1>3, CellLock DEF Register, Waker!Register, Waker!RegisterLock,
       Waker!RegisterWhileWaking, Waker!RegisterRefused
  <2>2. wpc'[Receiver] \in {"locked", "wakeNew"}
    BY <1>0, <1>3, <2>1 DEF Register, Waker!Register, Waker!RegisterLock,
       Waker!RegisterWhileWaking, Waker!RegisterRefused, Waker!ThreadGoes
  <2> QED
    BY <2>2 DEF Armed
<1>4. CASE WakerStep(Receiver)
  <2>1. CASE Waker!Release(Receiver)
    <3>1. cell = Task
      BY <2>1 DEF Waker!Release, RolesInv
    <3> QED
      BY <2>1, <3>1 DEF Waker!Release, Armed
  <2>2. CASE Waker!WakeNew(Receiver)
    <3>1. new[Receiver] = Task
      BY <2>2 DEF Waker!WakeNew, RolesInv
    <3> QED
      BY <1>0, <2>2, <3>1 DEF Waker!WakeNew, Waker!Some, TaskWoken, Armed
  <2>3. CASE \/ Waker!IntoWaker(Receiver) \/ Waker!ReleaseContended(Receiver)
             \/ Waker!TakeBack(Receiver) \/ Waker!Swap(Receiver) \/ Waker!WakeOld(Receiver)
    <3>1. wpc'[Receiver] # "idle"
      BY <1>0, <2>3 DEF Waker!IntoWaker, Waker!ReleaseContended, Waker!TakeBack, Waker!Swap,
         Waker!WakeOld, Waker!ThreadGoes
    <3> QED
      BY <3>1 DEF Armed
  <2> QED
    BY <1>4, <2>1, <2>2, <2>3, ReceiverRegisters
<1>5. CASE Poll
  BY <1>5 DEF Poll, Armed
<1>6. CASE UNCHANGED waker /\ UNCHANGED registered
  BY <1>6 DEF waker, TaskWoken, Armed
<1>7. CASE SecondTry
  BY <1>7 DEF SecondTry, waker, TaskWoken, Armed
<1> QED
  BY <1>1, <1>2, <1>3, <1>4, <1>5, <1>6, <1>7, OutsideWaker

(* A handle that has pushed wakes next, and finds the task registered. *)
LEMMA PassedComingStep ==
  ASSUME TypeOK, WakerInv, RolesInv, Armed, PassedComing, [Next]_vars
  PROVE  PassedComing'
<1>0. spc \in [Senders -> SenderPc]
  BY DEF TypeOK
<1>1. ASSUME NEW s \in Senders, SendWake(s) PROVE PassedComing'
  <2>1. UNCHANGED <<map, scan, rpc, registered>>
    BY <1>1 DEF SendWake, recvVars
  <2>2. registered /\ rpc \in {"scan", "flag", "pending"} => TaskWoken'
    BY <1>1, WakeFindsTask DEF RolesInv
  <2> QED
    BY <2>1, <2>2 DEF PassedComing
<1>2. ASSUME NEW t \in Senders \union {Receiver}, WakerStep(t) PROVE PassedComing'
  <2>1. UNCHANGED <<map, scan, rpc, registered, spc>>
    BY <1>2 DEF WakerStep, recvVars
  <2>2. TaskWoken => TaskWoken'
    BY <1>2, StaysWoken
  <2> QED
    BY <2>1, <2>2 DEF PassedComing
<1>3. ASSUME NEW s \in Senders, PushPresent(s) \/ PushInsert(s) PROVE PassedComing'
  <2>1. spc'[s] = "pushed"
    BY <1>0, <1>3 DEF PushPresent, PushInsert, SenderGoes
  <2> QED
    BY <2>1 DEF PassedComing
<1>4. ASSUME NEW s \in Senders,
             \/ \E t \in Senders : CloneSender(s, t)
             \/ \E p \in Priorities : SendCheck(s, p)
             \/ PushAbsent(s) \/ DropSender(s) \/ SetEndFlag(s)
      PROVE  PassedComing'
  <2>1. UNCHANGED <<map, scan, rpc, registered>> /\ UNCHANGED waker
    BY <1>4 DEF CloneSender, SendCheck, PushAbsent, DropSender, SetEndFlag, recvVars
  <2>2. \A u \in Senders : spc[u] = "pushed" => spc'[u] = "pushed"
    BY <1>0, <1>4 DEF CloneSender, SendCheck, PushAbsent, DropSender, SetEndFlag, SenderGoes,
       AtRest
  <2> QED
    BY <2>1, <2>2 DEF PassedComing, TaskWoken, waker
<1>5. CASE Poll
  BY <1>5 DEF Poll, PassedComing
<1>6. CASE SecondTry
  BY <1>6 DEF SecondTry, BeginScan, PassedComing
<1>7. CASE ScanNext
  <2>1. \A r \in DOMAIN map \ scan' : r \in DOMAIN map \ scan \/ map[r] = <<>>
    BY <1>7 DEF ScanNext
  <2> QED
    BY <1>7, <2>1 DEF ScanNext, PassedComing, TaskWoken, waker
<1>8. CASE ScanTake \/ Register \/ DropReceiver
  BY <1>8 DEF ScanTake, Register, DropReceiver, PassedComing
<1>9. CASE ScanEnd \/ CheckFlag
  BY <1>9 DEF ScanEnd, CheckFlag, PassedComing, TaskWoken, waker
<1>10. CASE Terminated \/ UNCHANGED vars
  BY <1>10 DEF Terminated, vars, recvVars, PassedComing, TaskWoken, waker
<1> QED
  BY <1>1, <1>2, <1>3, <1>4, <1>5, <1>6, <1>7, <1>8, <1>9, <1>10 DEF Next, SenderStep, RecvStep

(* The comment at priotity_async_mpsc_chan.rs:100-103: the second attempt  *)
(* closes the gap between the first one and the registration.  A receiving *)
(* task that got Pending, and whose wake-up is neither done nor owed, has  *)
(* an element to receive only if its sender is about to wake it.           *)
THEOREM NoWakeupLost == Spec => []NoLostWakeup
<1>1. Init => WakeupInv
  BY ConstantsAssumption DEF Init, Waker!Init, WakeupInv, RolesInv, Armed, PassedComing
<1>2. TypeOK /\ WakerInv /\ WakeupInv /\ [Next]_vars => WakeupInv'
  BY RolesStep, ArmedStep, PassedComingStep DEF WakeupInv
<1>3. TypeOK /\ WakeupInv => NoLostWakeup
  <2> SUFFICES ASSUME TypeOK, WakeupInv, rpc = "pending", Task \notin woken, Elements # {}
               PROVE  WakeComing
    BY DEF NoLostWakeup
  <2>1. registered /\ scan = {}
    BY DEF WakeupInv, RolesInv, TypeOK
  <2>2. PICK p \in DOMAIN map : Range(map[p]) # {}
    BY DEF Elements
  <2>3. map[p] # <<>>
    BY <2>2 DEF Range
  <2> QED
    BY <2>1, <2>3 DEF WakeupInv, PassedComing, TaskWoken, WakeComing
<1> QED
  BY <1>1, <1>2, <1>3, TypeCorrect, WakerInvariance, PTL DEF Spec

------------------------------------------------------------------------------
(* What is lost *)

(* A push about to insert is right that its priority is not in the map. *)
InsertsNew == \A s \in Senders : spc[s] = "insert" => arg[s] \notin DOMAIN map

(* No element leaves but to the receiver, if no queue is replaced. *)
LEMMA ElementsStay ==
  ASSUME MapInv, InsertsNew, [Next]_vars
  PROVE  /\ taken \union Elements \subseteq taken' \union Elements'
         /\ \/ sent' = sent
            \/ sent' = sent + 1 /\ \E m \in Elements' : m.id = sent + 1
<1>1. CASE UNCHANGED <<map, taken, sent>>
  BY <1>1 DEF Elements
<1>2. ASSUME NEW s \in Senders, PushPresent(s) \/ PushInsert(s)
      PROVE  /\ taken \union Elements \subseteq taken' \union Elements'
             /\ sent' = sent + 1 /\ \E m \in Elements' : m.id = sent + 1
  <2> DEFINE p == arg[s]
             e == NewElement(s)
  <2>0. PushPresent(s) =>
          /\ p \in DOMAIN map /\ DOMAIN map' = DOMAIN map
          /\ Range(map'[p]) = Range(map[p]) \union {e}
          /\ \A r \in DOMAIN map \ {p} : map'[r] = map[r]
    <3> SUFFICES ASSUME PushPresent(s)
                 PROVE  /\ p \in DOMAIN map /\ DOMAIN map' = DOMAIN map
                        /\ Range(map'[p]) = Range(map[p]) \union {e}
                        /\ \A r \in DOMAIN map \ {p} : map'[r] = map[r]
      OBVIOUS
    <3>1. /\ p \in DOMAIN map /\ map[p] \in Seq(Element) /\ e \in Element
          /\ DOMAIN map' = DOMAIN map /\ map'[p] = Append(map[p], e)
          /\ \A r \in DOMAIN map \ {p} : map'[r] = map[r]
      BY PresentMap
    <3>2. Range(Append(map[p], e)) = Range(map[p]) \union {e}
      BY <3>1, RangeAppend
    <3> QED
      BY <3>1, <3>2
  <2>1. p \in DOMAIN map' /\ e \in Range(map'[p])
    <3>1. CASE PushPresent(s)
      <4>1. p \in DOMAIN map' /\ Range(map'[p]) = Range(map[p]) \union {e}
        BY <2>0, <3>1
      <4> QED
        BY <4>1
    <3>2. CASE PushInsert(s)
      <4>1. p \in DOMAIN map' /\ map'[p] = <<e>>
        BY <3>2, InsertMap
      <4> QED
        BY <4>1, OneElement
    <3> QED
      BY <1>2, <3>1, <3>2
  <2>2. \A r \in DOMAIN map : r \in DOMAIN map' /\ Range(map[r]) \subseteq Range(map'[r])
    <3>1. CASE PushPresent(s)
      <4>1. /\ DOMAIN map' = DOMAIN map /\ Range(map'[p]) = Range(map[p]) \union {e}
            /\ \A r \in DOMAIN map \ {p} : map'[r] = map[r]
        BY <2>0, <3>1
      <4> HIDE DEF e, p
      <4> QED
        BY <4>1
    <3>2. CASE PushInsert(s)
      <4>1. p \notin DOMAIN map
        BY <3>2 DEF PushInsert, InsertsNew
      <4> QED
        BY <3>2, <4>1, InsertMap
    <3> QED
      BY <1>2, <3>1, <3>2
  <2>3. e.id = sent + 1
    BY DEF NewElement
  <2>4. sent' = sent + 1 /\ taken' = taken
    BY <1>2 DEF PushPresent, PushInsert, recvVars
  <2> HIDE DEF e, p
  <2> QED
    BY <2>1, <2>2, <2>3, <2>4 DEF Elements
<1>3. CASE ScanTake
  <2> DEFINE c == Cursor
  <2>1. /\ c \in DOMAIN map /\ map[c] \in Seq(Element) /\ map[c] # <<>>
        /\ DOMAIN map' = DOMAIN map /\ map'[c] = Tail(map[c])
        /\ \A r \in DOMAIN map \ {c} : map'[r] = map[r]
    BY <1>3, TakeMap
  <2>2. Range(map[c]) = {Head(map[c])} \union Range(Tail(map[c]))
    BY <2>1, RangeHeadTail
  <2>3. taken' = taken \union {Head(map[c])} /\ sent' = sent
    BY <1>3 DEF ScanTake
  <2> HIDE DEF c
  <2>4. \A r \in DOMAIN map : \A m \in Range(map[r]) :
          m \in taken' \/ m \in Range(map'[r])
    BY <2>1, <2>2, <2>3
  <2> QED
    BY <2>1, <2>3, <2>4 DEF Elements
<1>4. CASE ScanNext \/ ScanEnd
  BY <1>4 DEF ScanNext, ScanEnd, Elements
<1> QED
  BY <1>1, <1>2, <1>3, <1>4, QueueActions

(* So each element that was pushed stays where it can be received. *)
LEMMA NothingLostStep ==
  ASSUME MapInv, InsertsNew, NothingLost, [Next]_vars
  PROVE  NothingLost'
<1>1. sent \in Nat
  BY DEF MapInv, TypeOK
<1>2. \A i \in 1 .. sent : \E m \in taken' \union Elements' : m.id = i
  BY ElementsStay DEF NothingLost
<1>3. CASE sent' = sent
  BY <1>2, <1>3 DEF NothingLost
<1>4. CASE sent' = sent + 1 /\ \E m \in Elements' : m.id = sent + 1
  <2>1. \A i \in 1 .. sent' : i \in 1 .. sent \/ i = sent + 1
    BY <1>1, <1>4
  <2> QED
    BY <1>2, <1>4, <2>1 DEF NothingLost
<1> QED
  BY <1>3, <1>4, ElementsStay

(* priotity_async_mpsc_chan.rs:31-41: an element can only be lost by a     *)
(* push that looked its priority up, gave the read lock up and inserts the *)
(* priority although another push did so meanwhile.                        *)
THEOREM LostByRaceOnly == Spec /\ []InsertsNew => []NothingLost
<1>1. Init => NothingLost
  BY DEF Init, NothingLost
<1>2. MapInv /\ InsertsNew /\ NothingLost /\ [Next]_vars => NothingLost'
  BY NothingLostStep
<1> QED
  BY <1>1, <1>2, MapInvariance, PTL DEF Spec

(* No two pushes of one priority are under way at once. *)
ConcurrentPushesDiffer ==
  \A s, t \in Senders : arg[s] # NoPriority /\ arg[s] = arg[t] => s = t

(* Then what a look-up found stays true until the insertion. *)
LEMMA InsertsNewStep ==
  ASSUME ConcurrentPushesDiffer, MapInv, InsertsNew, [Next]_vars
  PROVE  InsertsNew'
<1> SUFFICES ASSUME NEW s \in Senders, spc'[s] = "insert" PROVE arg'[s] \notin DOMAIN map'
  BY DEF InsertsNew
<1>1. spc \in [Senders -> SenderPc] /\ arg \in [Senders -> Priorities \union {NoPriority}]
  BY DEF MapInv, TypeOK
<1>2. CASE PushAbsent(s)
  BY <1>2 DEF PushAbsent
<1>3. CASE spc'[s] = spc[s] /\ arg'[s] = arg[s] /\ DOMAIN map' = DOMAIN map
  BY <1>3 DEF InsertsNew
<1>4. ASSUME NEW u \in Senders,
             \/ \E t \in Senders : CloneSender(u, t)
             \/ \E p \in Priorities : SendCheck(u, p)
             \/ u # s /\ PushAbsent(u)
             \/ SendWake(u) \/ DropSender(u) \/ SetEndFlag(u)
      PROVE  spc'[s] = spc[s] /\ arg'[s] = arg[s] /\ DOMAIN map' = DOMAIN map
  BY <1>1, <1>4 DEF CloneSender, SendCheck, PushAbsent, SendWake, DropSender, SetEndFlag,
     SenderGoes, AtRest
<1>5. ASSUME NEW u \in Senders, PushPresent(u)
      PROVE  spc'[s] = spc[s] /\ arg'[s] = arg[s] /\ DOMAIN map' = DOMAIN map
  <2>1. u # s
    BY <1>1, <1>5 DEF PushPresent, SenderGoes
  <2> QED
    BY <1>1, <1>5, <2>1, PresentMap DEF PushPresent, SenderGoes
<1>6. ASSUME NEW u \in Senders, PushInsert(u) PROVE arg'[s] \notin DOMAIN map'
  <2>1. u # s /\ spc[s] = "insert" /\ arg'[s] = arg[s]
    BY <1>1, <1>6 DEF PushInsert, SenderGoes
  <2>2. arg[s] # NoPriority
    BY <2>1, ConstantsAssumption DEF MapInv, TypeOK
  <2>3. arg[s] # arg[u]
    BY <2>1, <2>2 DEF ConcurrentPushesDiffer
  <2>4. DOMAIN map' = DOMAIN map \union {arg[u]}
    BY <1>6, InsertMap
  <2> QED
    BY <2>1, <2>3, <2>4 DEF InsertsNew
<1>7. CASE ScanTake
  BY <1>3, <1>7, TakeMap DEF ScanTake
<1>8. ASSUME \/ Poll \/ ScanNext \/ ScanEnd \/ CheckFlag \/ Register \/ SecondTry
             \/ DropReceiver \/ Terminated \/ UNCHANGED vars
             \/ \E t \in Senders \union {Receiver} : WakerStep(t)
      PROVE  spc'[s] = spc[s] /\ arg'[s] = arg[s] /\ DOMAIN map' = DOMAIN map
  BY <1>8 DEF Poll, ScanNext, ScanEnd, CheckFlag, Register, SecondTry, DropReceiver,
     Terminated, vars, WakerStep
<1> QED
  BY <1>2, <1>3, <1>4, <1>5, <1>6, <1>7, <1>8 DEF Next, SenderStep, RecvStep

(* priotity_async_mpsc_chan.rs:187-188 and :211: senders, however many,    *)
(* can rely on the Ok of send_sync as long as no two of them are inside    *)
(* push with the same priority, as in test_basic and test_sleep.           *)
THEOREM DifferentPushesLoseNothing ==
  Spec /\ []ConcurrentPushesDiffer => []NothingLost
<1>1. Init => InsertsNew
  BY DEF Init, InsertsNew
<1>2. ConcurrentPushesDiffer /\ MapInv /\ InsertsNew /\ [Next]_vars => InsertsNew'
  BY InsertsNewStep
<1> QED
  BY <1>1, <1>2, MapInvariance, LostByRaceOnly, PTL DEF Spec
==============================================================================
