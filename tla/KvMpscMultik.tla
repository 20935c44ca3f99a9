---------------------------- MODULE KvMpscMultik ----------------------------
(***************************************************************************)
(* The multi-key conflict channel,                                         *)
(* rust/pa_queue_and_chan/src/kv_mpsc_multik.rs.  A message carries a set  *)
(* of keys and is returned by recv only when none of them is in use; a     *)
(* message that has to wait registers itself with each of its keys.        *)
(*                                                                         *)
(* The grain is that of KvMpsc: one action per access to shared state.     *)
(* The receiver's ConflictManager is touched by its own thread only, so    *)
(* the handling of one popped key or message is one action.  A key list    *)
(* is modelled by its set of keys, a message by its keys and the position  *)
(* of its push.                                                            *)
(*                                                                         *)
(* An operator named <Definition>_<change> is a faulty variation that the  *)
(* mutation checks substitute; Spec uses none of them.                     *)
(***************************************************************************)
EXTENDS Naturals, Sequences, FiniteSets, Functions

CONSTANTS
  Senders,  (* handles a Sender clone can occupy                   *)
  Keys,     (* the keys messages are sent with                     *)
  KeySets,  (* the sets of keys a message is sent with             *)
  MaxMsgs   (* bound: how many messages all senders together push  *)

ASSUME ConstantsAssumption ==
  /\ Senders # {}
  /\ KeySets \subseteq SUBSET Keys
  /\ MaxMsgs \in Nat

VARIABLES
  q,               (* Channel.q: messages sent, not yet popped               *)
  dropKeyQ,        (* Channel.drop_key_q: keys of dropped Messages           *)
  sendersDropped,  (* Channel.senders_dropped                                *)
  receiverDropped, (* Channel.receiver_dropped                               *)
  listener,        (* the receiver's EventListener, as in KvMpsc             *)
  using,           (* keys whose KeyStateInner.using is TRUE                 *)
  waiting,         (* ConflictManager.waitingmsgs                            *)
  registered,      (* KeyStateInner.waitingmsgs of each key; its Weak is     *)
                   (* dangling once the message has left waiting             *)
  spc,             (* where each Sender handle is; "none": no such handle    *)
  rpc,             (* where the Receiver is in recv                          *)
  held,            (* live Message objects                                   *)
  releasing,       (* Messages in Drop::drop, with the keys not yet pushed   *)
  sent,            (* history: how many messages were pushed                 *)
  taken            (* history: messages recv has returned                    *)

queues == <<q, dropKeyQ>>
flags == <<sendersDropped, receiverDropped>>
manager == <<using, waiting, registered>>
msgVars == <<held, releasing, taken>>
vars == <<queues, flags, listener, manager, spc, rpc, msgVars, sent>>

Message == [id : Nat, ks : SUBSET Keys]

SenderPc == {"none", "idle", "checked", "pushed", "flag", "flagged"}
ReceiverPc == {"idle", "drain", "pop", "recheckQ", "recheckKeys", "checkClosed",
               "wait", "listen", "closed", "panicked", "dropped"}

(* channel(): one Sender, and a Receiver that is already listening. *)
Init ==
  /\ q = <<>>
  /\ dropKeyQ = <<>>
  /\ sendersDropped = FALSE
  /\ receiverDropped = FALSE
  /\ listener = "listening"
  /\ using = {}
  /\ waiting = {}
  /\ registered = [k \in Keys |-> {}]
  /\ \E s \in Senders : spc = [t \in Senders |-> IF t = s THEN "idle" ELSE "none"]
  /\ rpc = "idle"
  /\ held = {}
  /\ releasing = {}
  /\ sent = 0
  /\ taken = {}

------------------------------------------------------------------------------
(* event_listener::Event::notify(1), with the receiver its only listener. *)
NotifyEvent == listener' = IF listener = "listening" THEN "notified" ELSE listener

(* The handles whose clone of the Arc<SenderInner> is still counted. *)
LiveHandles == {s \in Senders : spc[s] \in {"idle", "checked", "pushed"}}

InFlight == Cardinality({s \in Senders : spc[s] = "checked"})

SenderGoes(s, pc) == spc' = [spc EXCEPT ![s] = pc]

------------------------------------------------------------------------------
(* Senders *)

CloneSender(s, t) ==
  /\ spc[s] = "idle"
  /\ spc[t] = "none"
  /\ SenderGoes(t, "idle")
  /\ UNCHANGED <<queues, flags, listener, manager, rpc, msgVars, sent>>

SendRefused(s) ==
  /\ spc[s] = "idle"
  /\ receiverDropped
  /\ UNCHANGED vars

SendChecked(s) ==
  /\ spc[s] = "idle"
  /\ ~receiverDropped
  /\ sent + InFlight < MaxMsgs
  /\ SenderGoes(s, "checked")
  /\ UNCHANGED <<queues, flags, listener, manager, rpc, msgVars, sent>>

SendPush(s, ks) ==
  /\ spc[s] = "checked"
  /\ sent' = sent + 1
  /\ q' = Append(q, [id |-> sent + 1, ks |-> ks])
  /\ SenderGoes(s, "pushed")
  /\ UNCHANGED <<dropKeyQ, flags, listener, manager, rpc, msgVars>>

SendNotify(s) ==
  /\ spc[s] = "pushed"
  /\ NotifyEvent
  /\ SenderGoes(s, "idle")
  /\ UNCHANGED <<queues, flags, manager, rpc, msgVars, sent>>

DropSender(s) ==
  /\ spc[s] = "idle"
  /\ SenderGoes(s, IF LiveHandles = {s} THEN "flag" ELSE "none")
  /\ UNCHANGED <<queues, flags, listener, manager, rpc, msgVars, sent>>

SetSendersDropped(s) ==
  /\ spc[s] = "flag"
  /\ sendersDropped' = TRUE
  /\ SenderGoes(s, "flagged")
  /\ UNCHANGED <<queues, receiverDropped, listener, manager, rpc, msgVars, sent>>

NotifySendersDropped_Omitted(s) ==
  /\ spc[s] = "flagged"
  /\ SenderGoes(s, "none")
  /\ UNCHANGED <<queues, flags, listener, manager, rpc, msgVars, sent>>

NotifySendersDropped(s) ==
  /\ spc[s] = "flagged"
  /\ NotifyEvent
  /\ SenderGoes(s, "none")
  /\ UNCHANGED <<queues, flags, manager, rpc, msgVars, sent>>

------------------------------------------------------------------------------
(* The receiver *)

InUse_OneKeyLooked(m, keys) == m.ks # {} /\ (CHOOSE k \in m.ks : TRUE) \in keys

(* One of the keys of m is among keys, those in use. *)
InUse(m, keys) == m.ks \intersect keys # {}

(* try_get_stop_waiting_msg for key k, just given back: the messages its   *)
(* scan of the HashMap, in any order, can come to and find free.           *)
Freed(k) == {m \in registered[k] \intersect waiting : ~InUse(m, using \ {k})}

(* Registered Weaks that no longer upgrade: a scan that comes to one       *)
(* panics.                                                                 *)
Dangling(k) == registered[k] \ waiting

Return(m) ==
  /\ held' = held \union {m}
  /\ taken' = taken \union {m}
  /\ rpc' = "idle"
  /\ UNCHANGED releasing

CallRecv ==
  /\ rpc \in {"idle", "closed"}
  /\ rpc' = "drain"
  /\ UNCHANGED <<queues, flags, listener, manager, spc, msgVars, sent>>

DrainHandOver_KeysNotTaken(m) ==
  /\ rpc = "drain"
  /\ dropKeyQ # <<>>
  /\ LET k == Head(dropKeyQ) IN
       /\ k \in using
       /\ m \in Freed(k)
       /\ registered' = [registered EXCEPT ![k] = @ \ {m}]
  /\ waiting' = waiting \ {m}
  /\ Return(m)
  /\ dropKeyQ' = Tail(dropKeyQ)
  /\ UNCHANGED <<q, flags, listener, using, spc, sent>>

(* A key comes back and frees m: m takes all its keys, but is unregistered *)
(* from that one key only.                                                 *)
DrainHandOver(m) ==
  /\ rpc = "drain"
  /\ dropKeyQ # <<>>
  /\ LET k == Head(dropKeyQ) IN
       /\ k \in using
       /\ m \in Freed(k)
       /\ registered' = [registered EXCEPT ![k] = @ \ {m}]
  /\ using' = using \union m.ks
  /\ waiting' = waiting \ {m}
  /\ Return(m)
  /\ dropKeyQ' = Tail(dropKeyQ)
  /\ UNCHANGED <<q, flags, listener, spc, sent>>

(* A key comes back and frees no message. *)
DrainRelease ==
  /\ rpc = "drain"
  /\ dropKeyQ # <<>>
  /\ LET k == Head(dropKeyQ) IN
       /\ k \in using
       /\ Freed(k) = {}
       /\ Dangling(k) = {}
       /\ using' = using \ {k}
  /\ dropKeyQ' = Tail(dropKeyQ)
  /\ UNCHANGED <<q, flags, listener, waiting, registered, spc, rpc, msgVars, sent>>

(* A key comes back that is not in use, or whose scan comes to a dangling  *)
(* Weak: recv panics.                                                      *)
DrainPanic ==
  /\ rpc = "drain"
  /\ dropKeyQ # <<>>
  /\ LET k == Head(dropKeyQ) IN
       /\ k \in using => Dangling(k) # {}
       /\ using' = using \ {k}
  /\ dropKeyQ' = Tail(dropKeyQ)
  /\ rpc' = "panicked"
  /\ UNCHANGED <<q, flags, listener, waiting, registered, spc, msgVars, sent>>

DrainDone ==
  /\ rpc = "drain"
  /\ dropKeyQ = <<>>
  /\ rpc' = "pop"
  /\ UNCHANGED <<queues, flags, listener, manager, spc, msgVars, sent>>

Registered_UsedKeysOnly(m) ==
  [k \in Keys |-> registered[k] \union (IF k \in m.ks \intersect using THEN {m} ELSE {})]

(* add_waitingmsg for every key of m. *)
Registered(m) == [k \in Keys |-> registered[k] \union (IF k \in m.ks THEN {m} ELSE {})]

Enlisted_SameId(m) == {m}

(* waitingmsgs.insert: the ids from next_waitingmsg_id keep the messages    *)
(* apart.                                                                   *)
Enlisted(m) == waiting \union {m}

(* handle_new_msg: a key of the popped message is in use, so it waits. *)
PopConflict ==
  /\ rpc = "pop"
  /\ q # <<>>
  /\ InUse(Head(q), using)
  /\ waiting' = Enlisted(Head(q))
  /\ registered' = Registered(Head(q))
  /\ q' = Tail(q)
  /\ rpc' = "drain"
  /\ UNCHANGED <<dropKeyQ, flags, listener, using, spc, msgVars, sent>>

(* handle_new_msg: all its keys are free; it takes them and is returned,   *)
(* even if an older message waits for one of them.                         *)
PopFresh ==
  /\ rpc = "pop"
  /\ q # <<>>
  /\ ~InUse(Head(q), using)
  /\ using' = using \union Head(q).ks
  /\ Return(Head(q))
  /\ q' = Tail(q)
  /\ UNCHANGED <<dropKeyQ, flags, listener, waiting, registered, spc, sent>>

PopEmpty ==
  /\ rpc = "pop"
  /\ q = <<>>
  /\ rpc' = "recheckQ"
  /\ UNCHANGED <<queues, flags, listener, manager, spc, msgVars, sent>>

RecheckQueue ==
  /\ rpc = "recheckQ"
  /\ rpc' = IF q # <<>> THEN "drain" ELSE "recheckKeys"
  /\ UNCHANGED <<queues, flags, listener, manager, spc, msgVars, sent>>

RecheckKeys ==
  /\ rpc = "recheckKeys"
  /\ rpc' = IF dropKeyQ # <<>> THEN "drain" ELSE "checkClosed"
  /\ UNCHANGED <<queues, flags, listener, manager, spc, msgVars, sent>>

CheckClosed_WaitingIgnored ==
  /\ rpc = "checkClosed"
  /\ rpc' = IF sendersDropped THEN "closed" ELSE "wait"
  /\ UNCHANGED <<queues, flags, listener, manager, spc, msgVars, sent>>

(* No message waits and the senders are gone: Err(Closed), even while      *)
(* Messages are held.                                                      *)
CheckClosed ==
  /\ rpc = "checkClosed"
  /\ rpc' = IF waiting = {} /\ sendersDropped THEN "closed" ELSE "wait"
  /\ UNCHANGED <<queues, flags, listener, manager, spc, msgVars, sent>>

Wait ==
  /\ rpc = "wait"
  /\ listener # "listening"
  /\ rpc' = IF listener = "none" THEN "panicked" ELSE "listen"
  /\ listener' = "none"
  /\ UNCHANGED <<queues, flags, manager, spc, msgVars, sent>>

Listen ==
  /\ rpc = "listen"
  /\ listener' = "listening"
  /\ rpc' = "drain"
  /\ UNCHANGED <<queues, flags, manager, spc, msgVars, sent>>

(* The user drops the receiver, or the unwinding of a panic does. *)
DropReceiver ==
  /\ rpc \in {"idle", "closed", "panicked"}
  /\ rpc' = "dropped"
  /\ receiverDropped' = TRUE
  /\ listener' = "none"
  /\ UNCHANGED <<queues, sendersDropped, manager, spc, msgVars, sent>>

------------------------------------------------------------------------------
(* Holders of Messages, on any thread *)

(* Message::drop pushes its keys one by one; the Message is gone with the  *)
(* first.                                                                  *)
DropKey(m, k) ==
  /\ dropKeyQ' = Append(dropKeyQ, k)
  /\ held' = held \ {m}
  /\ releasing' = (releasing \ {m}) \union {[m EXCEPT !.ks = @ \ {k}]}
  /\ UNCHANGED <<q, flags, listener, manager, spc, rpc, sent, taken>>

DropNotify_Omitted(m) ==
  /\ m.ks = {}
  /\ held' = held \ {m}
  /\ releasing' = releasing \ {m}
  /\ UNCHANGED <<queues, flags, listener, manager, spc, rpc, sent, taken>>

DropNotify(m) ==
  /\ m.ks = {}
  /\ NotifyEvent
  /\ held' = held \ {m}
  /\ releasing' = releasing \ {m}
  /\ UNCHANGED <<queues, flags, manager, spc, rpc, sent, taken>>

------------------------------------------------------------------------------
SenderStep(s) ==
  \/ \E ks \in KeySets : SendPush(s, ks)
  \/ SendNotify(s)
  \/ SetSendersDropped(s)
  \/ NotifySendersDropped(s)

RecvStep ==
  \/ \E m \in waiting : DrainHandOver(m)
  \/ DrainRelease
  \/ DrainPanic
  \/ DrainDone
  \/ PopConflict
  \/ PopFresh
  \/ PopEmpty
  \/ RecheckQueue
  \/ RecheckKeys
  \/ CheckClosed
  \/ Wait
  \/ Listen

DropStep(m) ==
  \/ \E k \in m.ks : DropKey(m, k)
  \/ DropNotify(m)

(* All handles, Messages and the receiver are gone: the program is done. *)
Terminated ==
  /\ \A s \in Senders : spc[s] = "none"
  /\ held = {}
  /\ releasing = {}
  /\ rpc = "dropped"
  /\ UNCHANGED vars

Next ==
  \/ \E s, t \in Senders : CloneSender(s, t)
  \/ \E s \in Senders : SendRefused(s)
  \/ \E s \in Senders : SendChecked(s)
  \/ \E s \in Senders : DropSender(s)
  \/ \E s \in Senders : SenderStep(s)
  \/ CallRecv
  \/ RecvStep
  \/ DropReceiver
  \/ \E m \in held \union releasing : DropStep(m)
  \/ Terminated

Spec == Init /\ [][Next]_vars

(* As in KvMpsc: threads inside a call keep running, recv is called again  *)
(* after it returned a message, every Message is dropped in the end.       *)
Fairness ==
  /\ \A s \in Senders : WF_vars(SenderStep(s))
  /\ WF_vars(RecvStep)
  /\ WF_vars(CallRecv /\ rpc = "idle")
  /\ WF_vars(\E m \in held \union releasing : DropStep(m))

FairSpec == Spec /\ Fairness

------------------------------------------------------------------------------
(* Properties *)

Untaken == Range(q) \union waiting
Stopped == rpc \in {"closed", "panicked", "dropped"}

(* Types, and what ties the parts of the ConflictManager together: a        *)
(* waiting message is registered with each of its keys.                     *)
TypeOK ==
  /\ q \in Seq(Message)
  /\ dropKeyQ \in Seq(Keys)
  /\ sendersDropped \in BOOLEAN
  /\ receiverDropped \in BOOLEAN
  /\ listener \in {"none", "listening", "notified"}
  /\ using \in SUBSET Keys
  /\ waiting \in SUBSET Message
  /\ registered \in [Keys -> SUBSET Message]
  /\ \A m \in waiting : \A k \in m.ks : m \in registered[k]
  /\ spc \in [Senders -> SenderPc]
  /\ rpc \in ReceiverPc
  /\ held \in SUBSET taken
  /\ releasing \in SUBSET Message
  /\ sent \in Nat
  /\ taken \in SUBSET Message

(* README.md:11: a message is taken out only when no live Message holds    *)
(* one of its keys.                                                        *)
KeyExclusion == \A m, n \in held : m = n \/ m.ks \intersect n.ks = {}

(* Every key in use has exactly one owner: a Message not yet done dropping *)
(* it, or one entry in drop_key_q.  It is what makes the asserts of        *)
(* set_use and set_unuse hold (kv_mpsc_multik.rs:114, 120, 125).           *)
KeyAccounted ==
  LET owners == held \union releasing IN
    /\ using = (UNION {m.ks : m \in owners}) \union Range(dropKeyQ)
    /\ \A m \in owners : m.ks \intersect Range(dropKeyQ) = {}
    /\ \A m, n \in owners : m = n \/ m.ks \intersect n.ks = {}
    /\ IsInjective(dropKeyQ)

(* Every pushed message is still queued, still waiting, or was returned,   *)
(* and only one of these.                                                  *)
NothingLost ==
  /\ \A i \in 1 .. sent : \E m \in taken \union Untaken : m.id = i
  /\ taken \intersect Untaken = {}

(* A message waits only while one of its keys is in use: since only the    *)
(* return of such a key frees it, it would otherwise wait forever.  This   *)
(* is what the scan of one key's waitingmsgs relies on                     *)
(* (kv_mpsc_multik.rs:132-159).                                            *)
NoneWaitsInVain ==
  rpc \notin {"panicked", "dropped"} => \A m \in waiting : InUse(m, using)

WorkVisible ==
  \/ q # <<>>
  \/ dropKeyQ # <<>>
  \/ sendersDropped /\ waiting = {}

NotifyComing ==
  \/ \E s \in Senders : spc[s] \in {"pushed", "flagged"}
  \/ releasing # {}

(* kv_mpsc_multik.rs:332, "after listen, all new event will be captured":  *)
(* the receiver never sleeps on work nobody will wake it for.              *)
NoLostWakeup ==
  rpc = "wait" /\ listener = "listening" /\ WorkVisible => NotifyComing

(* Once every handle is dropped, recv reports Closed to the receive loop,  *)
(* unless it panics or is dropped first.                                   *)
ClosedReported == (\A s \in Senders : spc[s] = "none") ~> Stopped

(* Closed means that nothing more will be sent, and is not reported while  *)
(* a message waits for a key that a live Message has                       *)
(* (kv_mpsc_multik.rs:337-341): the receive loop stops there, and would    *)
(* never take it.  What it can still miss was pushed after q was found     *)
(* empty, before the last drop, and is in q.                               *)
ClosedLeavesNoneWaiting ==
  rpc = "closed" => LiveHandles = {} /\ waiting = {}

(* The waiting list of a key never holds a message that is no longer       *)
(* waiting: what the scan's panic!() claims (kv_mpsc_multik.rs:151).       *)
NoPanic == rpc # "panicked"

(* The channel implements the conflict queue; a Message gives up all its   *)
(* keys when its drop begins.  Messages with a common key may overtake     *)
(* each other.                                                             *)
Conflict == INSTANCE ConflictQueue WITH pending <- Untaken

ImplementsConflictQueue == Conflict!Spec
==============================================================================
