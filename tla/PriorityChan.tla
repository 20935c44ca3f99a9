----------------------------- MODULE PriorityChan -----------------------------
(***************************************************************************)
(* The priority channel of priotity_async_mpsc_chan.rs: a map from         *)
(* priorities to queues behind a read-write lock, an end flag and an       *)
(* AtomicWaker.  It composes AtomicWaker, whose steps interleave with the  *)
(* channel's.                                                              *)
(*                                                                         *)
(* Each load or store of end_flag, each push or pop of a SegQueue and each *)
(* step of the waker is an action.  The read lock of push is inside one    *)
(* action; the one of pop is held while rpc = "scan", and the write lock   *)
(* waits for it.  One task receives; it runs on the thread Receiver.       *)
(*                                                                         *)
(* An operator named <Definition>_<change> is a faulty variation that the  *)
(* mutation checks substitute; Spec uses none of them.                     *)
(***************************************************************************)
EXTENDS Naturals, Sequences, FiniteSets, FiniteSetsExt, Functions

CONSTANTS
  Senders,     (* handles a Sender clone can occupy                     *)
  Receiver,    (* the thread that runs the receiving task               *)
  Task,        (* the receiving task                                    *)
  NoTask,      (* Option::None for a waker                              *)
  NoPriority,  (* the argument of a handle that is not pushing          *)
  Priorities,  (* the priorities elements are sent with                 *)
  MaxMsgs      (* bound: how many elements all senders together push    *)

ASSUME ConstantsAssumption ==
  /\ Senders # {}
  /\ Receiver \notin Senders
  /\ Task # NoTask
  /\ Priorities \subseteq Nat
  /\ NoPriority \notin Priorities
  /\ MaxMsgs \in Nat

VARIABLES
  map,         (* PriorityQueue.map, a function on the priorities inserted *)
  endFlag,     (* PriorityChan.end_flag                                    *)
  spc,         (* where each Sender handle is; "none": no such handle      *)
  arg,         (* the priority of the element each handle is pushing       *)
  rpc,         (* where the Receiver is in recv                            *)
  scan,        (* pop: priorities of the iteration that are still to come  *)
  registered,  (* recv: register_by_ref was called in this poll            *)
  sent,        (* history: how many elements were pushed                   *)
  sentAtScan,  (* history: sent when the pop under way began, or the one   *)
               (* for whose None recv returned None; else 0                *)
  taken,       (* history: elements recv has returned                      *)
  state, cell, wpc, new, old, woken, owed  (* PriorityChan.waker           *)

waker == <<state, cell, wpc, new, old, woken, owed>>
recvVars == <<rpc, scan, registered, sentAtScan, taken>>
vars == <<map, endFlag, spc, arg, recvVars, sent, waker>>

Waker == INSTANCE AtomicWaker WITH
  Threads <- Senders \union {Receiver}, Tasks <- {Task}

Element == [id : Nat, p : Priorities]

SenderPc == {"none", "idle", "push", "insert", "pushed", "flag"}
ReceiverPc == {"idle", "scan", "flag", "register", "registered", "pending",
               "ended", "dropped"}

(* new(): one Sender, nothing in the map, no waker registered. *)
Init ==
  /\ map = << >>
  /\ endFlag = FALSE
  /\ \E s \in Senders : spc = [t \in Senders |-> IF t = s THEN "idle" ELSE "none"]
  /\ arg = [s \in Senders |-> NoPriority]
  /\ rpc = "idle"
  /\ scan = {}
  /\ registered = FALSE
  /\ sent = 0
  /\ sentAtScan = 0
  /\ taken = {}
  /\ Waker!Init

------------------------------------------------------------------------------
(* Senders *)

(* The handles whose clone of the Arc<SenderInner> is still counted. *)
LiveHandles == {s \in Senders : spc[s] \in {"idle", "push", "insert", "pushed"}}

InFlight == Cardinality({s \in Senders : spc[s] \in {"push", "insert"}})

SenderGoes(s, pc) == spc' = [spc EXCEPT ![s] = pc]

(* No call of the handle is under way; wake is the last thing in send_sync. *)
AtRest(s) == spc[s] = "idle" /\ wpc[s] = "idle"

CloneSender(s, t) ==
  /\ AtRest(s)
  /\ spc[t] = "none"
  /\ SenderGoes(t, "idle")
  /\ UNCHANGED <<map, endFlag, arg, recvVars, sent, waker>>

(* send_sync reads end_flag; it returns Err(()) if it is set. *)
SendCheck(s, p) ==
  /\ AtRest(s)
  /\ sent + InFlight < MaxMsgs
  /\ IF endFlag
     THEN UNCHANGED <<arg, spc>>
     ELSE arg' = [arg EXCEPT ![s] = p] /\ SenderGoes(s, "push")
  /\ UNCHANGED <<map, endFlag, recvVars, sent, waker>>

NewElement(s) == [id |-> sent + 1, p |-> arg[s]]

Pushed_InFront(s) == <<NewElement(s)>> \o map[arg[s]]
Pushed(s) == Append(map[arg[s]], NewElement(s))

(* push finds the priority in the map, under the read lock. *)
PushPresent(s) ==
  /\ spc[s] = "push"
  /\ arg[s] \in DOMAIN map
  /\ map' = [map EXCEPT ![arg[s]] = Pushed(s)]
  /\ sent' = sent + 1
  /\ arg' = [arg EXCEPT ![s] = NoPriority]
  /\ SenderGoes(s, "pushed")
  /\ UNCHANGED <<endFlag, recvVars, waker>>

(* push does not find the priority and gives the read lock up. *)
PushAbsent(s) ==
  /\ spc[s] = "push"
  /\ arg[s] \notin DOMAIN map
  /\ SenderGoes(s, "insert")
  /\ UNCHANGED <<map, endFlag, arg, recvVars, sent, waker>>

(* push under the write lock: a queue with the new element is inserted,    *)
(* in place of the one that another sender may have inserted meanwhile.    *)
PushInsert(s) ==
  /\ spc[s] = "insert"
  /\ rpc # "scan"
  /\ map' = [p \in DOMAIN map \union {arg[s]} |->
               IF p = arg[s] THEN <<NewElement(s)>> ELSE map[p]]
  /\ sent' = sent + 1
  /\ arg' = [arg EXCEPT ![s] = NoPriority]
  /\ SenderGoes(s, "pushed")
  /\ UNCHANGED <<endFlag, recvVars, waker>>

SendWake(s) ==
  /\ spc[s] = "pushed"
  /\ Waker!Wake(s)
  /\ SenderGoes(s, "idle")
  /\ UNCHANGED <<map, endFlag, arg, recvVars, sent>>

(* Dropping a handle; the last one runs SenderInner::drop. *)
DropSender(s) ==
  /\ AtRest(s)
  /\ SenderGoes(s, IF LiveHandles = {s} THEN "flag" ELSE "none")
  /\ UNCHANGED <<map, endFlag, arg, recvVars, sent, waker>>

(* SenderInner::drop sets the flag and wakes nobody. *)
SetEndFlag(s) ==
  /\ spc[s] = "flag"
  /\ endFlag' = TRUE
  /\ SenderGoes(s, "none")
  /\ UNCHANGED <<map, arg, recvVars, sent, waker>>

------------------------------------------------------------------------------
(* The receiver *)

(* pop takes the read lock and begins to iterate over the map. *)
BeginScan ==
  /\ rpc' = "scan"
  /\ scan' = DOMAIN map
  /\ sentAtScan' = sent

(* The task is polled, in a new recv or in the one that was pending; an    *)
(* executor may do so without a wake-up.                                   *)
Poll ==
  /\ rpc \in {"idle", "pending", "ended"}
  /\ BeginScan
  /\ registered' = FALSE
  /\ woken' = woken \ {Task}
  /\ UNCHANGED <<map, endFlag, spc, arg, taken, sent, state, cell, wpc, new, old, owed>>

Cursor_Descending == Max(scan)

(* BTreeMap::iter is in ascending order. *)
Cursor == Min(scan)

(* The queue at the cursor has an element: recv returns it. *)
ScanTake ==
  /\ rpc = "scan"
  /\ scan # {}
  /\ map[Cursor] # << >>
  /\ map' = [map EXCEPT ![Cursor] = Tail(@)]
  /\ taken' = taken \union {Head(map[Cursor])}
  /\ rpc' = "idle"
  /\ scan' = {}
  /\ sentAtScan' = 0
  /\ UNCHANGED <<endFlag, spc, arg, registered, sent, waker>>

ScanNext_FirstOnly ==
  /\ rpc = "scan"
  /\ scan # {}
  /\ map[Cursor] = << >>
  /\ scan' = {}
  /\ UNCHANGED <<map, endFlag, spc, arg, rpc, registered, sentAtScan, taken, sent, waker>>

ScanNext ==
  /\ rpc = "scan"
  /\ scan # {}
  /\ map[Cursor] = << >>
  /\ scan' = scan \ {Cursor}
  /\ UNCHANGED <<map, endFlag, spc, arg, rpc, registered, sentAtScan, taken, sent, waker>>

ScanEnd ==
  /\ rpc = "scan"
  /\ scan = {}
  /\ rpc' = "flag"
  /\ UNCHANGED <<map, endFlag, spc, arg, scan, registered, sentAtScan, taken, sent, waker>>

(* pop returned None: Ready(None) if the end flag is set.  Otherwise the   *)
(* first attempt goes on to register, the second one returns Pending.      *)
CheckFlag ==
  /\ rpc = "flag"
  /\ rpc' = IF endFlag THEN "ended" ELSE IF registered THEN "pending" ELSE "register"
  /\ sentAtScan' = IF endFlag THEN sentAtScan ELSE 0
  /\ UNCHANGED <<map, endFlag, spc, arg, scan, registered, taken, sent, waker>>

Register ==
  /\ rpc = "register"
  /\ Waker!Register(Receiver, Task)
  /\ rpc' = "registered"
  /\ registered' = TRUE
  /\ UNCHANGED <<map, endFlag, spc, arg, scan, sentAtScan, taken, sent>>

SecondTry_Omitted ==
  /\ rpc = "registered"
  /\ wpc[Receiver] = "idle"
  /\ rpc' = "pending"
  /\ UNCHANGED <<map, endFlag, spc, arg, scan, registered, sentAtScan, taken, sent, waker>>

(* register_by_ref has returned; the second try_recv begins. *)
SecondTry ==
  /\ rpc = "registered"
  /\ wpc[Receiver] = "idle"
  /\ BeginScan
  /\ UNCHANGED <<map, endFlag, spc, arg, registered, taken, sent, waker>>

DropReceiver ==
  /\ rpc \in {"idle", "pending", "ended"}
  /\ rpc' = "dropped"
  /\ sentAtScan' = 0
  /\ UNCHANGED <<map, endFlag, spc, arg, scan, registered, taken, sent, waker>>

------------------------------------------------------------------------------
(* The rest of a call of wake or register_by_ref.  Cloning the waker of a  *)
(* tokio task does not panic.                                              *)
WakerStep(t) ==
  /\ Waker!Continue(t)
  /\ ~Waker!IntoWakerPanics(t)
  /\ UNCHANGED <<map, endFlag, spc, arg, recvVars, sent>>

(* A thread inside send_sync or SenderInner::drop. *)
SenderStep(s) ==
  \/ PushPresent(s)
  \/ PushAbsent(s)
  \/ PushInsert(s)
  \/ SendWake(s)
  \/ SetEndFlag(s)
  \/ WakerStep(s)

(* The receiving task inside a poll. *)
RecvStep ==
  \/ ScanTake
  \/ ScanNext
  \/ ScanEnd
  \/ CheckFlag
  \/ Register
  \/ SecondTry
  \/ WakerStep(Receiver)

(* All handles and the receiver are gone: the program is done. *)
Terminated ==
  /\ \A s \in Senders : spc[s] = "none"
  /\ rpc = "dropped"
  /\ UNCHANGED vars

Next ==
  \/ \E s, t \in Senders : CloneSender(s, t)
  \/ \E s \in Senders, p \in Priorities : SendCheck(s, p)
  \/ \E s \in Senders : SenderStep(s)
  \/ \E s \in Senders : DropSender(s)
  \/ Poll
  \/ RecvStep
  \/ DropReceiver
  \/ Terminated

Spec == Init /\ [][Next]_vars

(* The threads inside a call keep running, the executor polls a woken      *)
(* task, and, as in the tests' receive loops, recv is called again after   *)
(* it returned an element.  Nobody has to send, clone or drop a handle.    *)
Fairness ==
  /\ \A s \in Senders : WF_vars(SenderStep(s))
  /\ WF_vars(RecvStep)
  /\ WF_vars(Poll /\ (rpc = "idle" \/ Task \in woken))

FairSpec == Spec /\ Fairness

------------------------------------------------------------------------------
(* Properties *)

Elements == UNION {Range(map[p]) : p \in DOMAIN map}

(* Types; an iteration is only under way while pop holds the read lock,    *)
(* and then over priorities that are in the map.                           *)
TypeOK ==
  /\ DOMAIN map \subseteq Priorities
  /\ \A p \in DOMAIN map : map[p] \in Seq(Element)
  /\ endFlag \in BOOLEAN
  /\ spc \in [Senders -> SenderPc]
  /\ arg \in [Senders -> Priorities \union {NoPriority}]
  /\ \A s \in Senders :
       IF spc[s] \in {"push", "insert"} THEN arg[s] \in Priorities ELSE arg[s] = NoPriority
  /\ rpc \in ReceiverPc
  /\ scan \subseteq DOMAIN map
  /\ rpc # "scan" => scan = {}
  /\ registered \in BOOLEAN
  /\ sent \in Nat
  /\ sentAtScan \in Nat
  /\ taken \in SUBSET Element
  /\ Waker!TypeOK

WakeComing == Task \in owed \/ \E s \in Senders : spc[s] = "pushed"

(* The comment at :100-103: a value pushed between the first attempt and   *)
(* the registration is found by the second.  A task that got Pending and   *)
(* was not woken has nothing to receive that no send_sync will wake it for.*)
NoLostWakeup ==
  rpc = "pending" /\ Task \notin woken /\ Elements # {} => WakeComing

(* Elements of equal priority come out in the order they were pushed, and  *)
(* none comes out twice, also when a queue of the map is replaced.         *)
PerPriorityFifo == \A m \in taken, n \in Elements : m.p = n.p => m.id < n.id

Abstract == INSTANCE PriorityQueue WITH
  pending <- [p \in Priorities |-> IF p \in DOMAIN map THEN map[p] ELSE <<>>],
  calling <- rpc = "scan",
  seen    <- {m \in Elements : m.id <= sentAtScan}

(* priotity_async_mpsc_chan.rs:31-51, and what README.md:8 can mean for    *)
(* one recv: push and pop, whose walk over the map is open to other        *)
(* pushes, are the priority queue.  An element that is in the map when pop *)
(* begins is neither passed over for one of a higher number nor missed by  *)
(* a None.                                                                 *)
ImplementsPriorityQueue == Abstract!Spec

(* end_flag is final, so that the Err(()) of send_sync (:140-142) cannot   *)
(* be returned: no handle is left that could call it.                      *)
EndIsFinal == endFlag => LiveHandles = {}

(* :79-91: when recv returns None, no handle is left that could send, and  *)
(* it leaves nothing behind that was in the map when its last pop began.   *)
(* That the map is empty does not hold: end_flag is loaded after the pop   *)
(* (:83, :86), and an element pushed in between, before the last drop, is   *)
(* still there.  The comments at :79 and :85 make no such exception.       *)
NoneMissesLatePushesOnly ==
  rpc = "ended" => LiveHandles = {} /\ \A m \in Elements : m.id > sentAtScan

(* Every element that is pushed leaves the map (by recv, or because its    *)
(* queue is replaced) unless the receiver was dropped or told of the end.  *)
(* This is about lost wake-ups, and about finitely many sends (MaxMsgs):   *)
(* elements of lower numbers that keep coming are all received first, and  *)
(* one of a higher number then stays in the map, as the order of pop wants.*)
EveryElementLeaves ==
  \A i \in 1 .. MaxMsgs :
    (\E m \in Elements : m.id = i)
      ~> (\A m \in Elements : m.id # i) \/ rpc \in {"ended", "dropped"}

(* :187-188 and :211, the tests: every element for which send_sync         *)
(* returned Ok can be received.                                            *)
NothingLost == \A i \in 1 .. sent : \E m \in taken \union Elements : m.id = i

(* :79 and :85: once the senders are gone and nothing is left, recv        *)
(* returns None.                                                           *)
EndReported ==
  (\A s \in Senders : spc[s] = "none") ~> rpc \in {"ended", "dropped"}
==============================================================================
