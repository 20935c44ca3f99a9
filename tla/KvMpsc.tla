------------------------------- MODULE KvMpsc -------------------------------
(***************************************************************************)
(* The single-key conflict channel, rust/pa_queue_and_chan/src/kv_mpsc.rs. *)
(*                                                                         *)
(* Senders push (key, value) pairs; recv returns a Message that holds its  *)
(* key; while a Message lives, later messages with its key wait.  Dropping *)
(* the Message, on any thread, sends the key back to the receiver through  *)
(* drop_key_q.                                                             *)
(*                                                                         *)
(* Every access to the shared state is an action of its own: a push or pop *)
(* of a SegQueue (linearizable), a load or store of a flag, a notify,      *)
(* listen or wait of the event.  The value is abstracted to the position   *)
(* of its push in q, which no property of the channel can tell from it.    *)
(*                                                                         *)
(* An operator named <Action>_<change> is a faulty variation of <Action>   *)
(* that the mutation checks substitute; Spec uses none of them.            *)
(***************************************************************************)
EXTENDS Naturals, Sequences, FiniteSets, Functions

CONSTANTS
  Senders,  (* handles a Sender clone can occupy                   *)
  Keys,     (* the keys messages are sent with                     *)
  MaxMsgs   (* bound: how many messages all senders together push  *)

ASSUME ConstantsAssumption ==
  /\ Senders # {}
  /\ MaxMsgs \in Nat

VARIABLES
  q,               (* Channel.q: messages sent, not yet popped              *)
  dropKeyQ,        (* Channel.drop_key_q: keys of dropped Messages          *)
  sendersDropped,  (* Channel.senders_dropped                               *)
  receiverDropped, (* Channel.receiver_dropped                              *)
  listener,        (* the receiver's EventListener on wake_recv_event:      *)
                   (* "none", "listening" or "notified"                     *)
  using,           (* DOMAIN of Receiver.using_keys                         *)
  waiting,         (* Receiver.using_keys[k], empty for the keys not in use *)
  spc,             (* where each Sender handle is; "none": no such handle   *)
  rpc,             (* where the Receiver is in recv                         *)
  held,            (* live Message objects                                  *)
  releasing,       (* Messages in Drop::drop, key pushed, not yet notified  *)
  sent,            (* history: how many messages were pushed                *)
  taken            (* history: messages recv has returned                   *)

queues == <<q, dropKeyQ>>
flags == <<sendersDropped, receiverDropped>>
keyVars == <<using, waiting>>
msgVars == <<held, releasing, taken>>
vars == <<queues, flags, listener, keyVars, spc, rpc, msgVars, sent>>

Message == [id : Nat, k : Keys]

SenderPc == {"none", "idle", "checked", "pushed", "flag", "flagged"}
ReceiverPc == {"idle", "drain", "pop", "recheckQ", "recheckKeys", "checkClosed",
               "wait", "listen", "closed", "panicked", "dropped"}

(* channel(): one Sender, and a Receiver that is already listening. *)
Init ==
  /\ q = <<>>
  /\ dropKeyQ = <<>>
  /\ sendersDropped = FALSE
  /\ receiverDropped = FALSE
  /\ listener = "listening"
  /\ using = {}
  /\ waiting = [k \in Keys |-> <<>>]
  /\ \E s \in Senders : spc = [t \in Senders |-> IF t = s THEN "idle" ELSE "none"]
  /\ rpc = "idle"
  /\ held = {}
  /\ releasing = {}
  /\ sent = 0
  /\ taken = {}

------------------------------------------------------------------------------
(* event_listener::Event, used with notify(1) and a single listener: notify *)
(* marks the listener if there is one and is lost otherwise.                *)
NotifyEvent == listener' = IF listener = "listening" THEN "notified" ELSE listener

(* The handles whose clone of the Arc<SenderInner> is still counted. *)
LiveHandles == {s \in Senders : spc[s] \in {"idle", "checked", "pushed"}}

InFlight == Cardinality({s \in Senders : spc[s] = "checked"})

SenderGoes(s, pc) == spc' = [spc EXCEPT ![s] = pc]

------------------------------------------------------------------------------
(* Senders *)

CloneSender(s, t) ==
  /\ spc[s] = "idle"
  /\ spc[t] = "none"
  /\ SenderGoes(t, "idle")
  /\ UNCHANGED <<queues, flags, listener, keyVars, rpc, msgVars, sent>>

(* send: the receiver is gone and the call returns Err(Closed). *)
SendRefused(s) ==
  /\ spc[s] = "idle"
  /\ receiverDropped
  /\ UNCHANGED vars

(* send: receiver_dropped was read as FALSE; the receiver may still drop   *)
(* before the push.                                                        *)
SendChecked(s) ==
  /\ spc[s] = "idle"
  /\ ~receiverDropped
  /\ sent + InFlight < MaxMsgs
  /\ SenderGoes(s, "checked")
  /\ UNCHANGED <<queues, flags, listener, keyVars, rpc, msgVars, sent>>

SendPush(s, k) ==
  /\ spc[s] = "checked"
  /\ sent' = sent + 1
  /\ q' = Append(q, [id |-> sent + 1, k |-> k])
  /\ SenderGoes(s, "pushed")
  /\ UNCHANGED <<dropKeyQ, flags, listener, keyVars, rpc, msgVars>>

SendNotify_Omitted(s) ==
  /\ spc[s] = "pushed"
  /\ SenderGoes(s, "idle")
  /\ UNCHANGED <<queues, flags, listener, keyVars, rpc, msgVars, sent>>

SendNotify(s) ==
  /\ spc[s] = "pushed"
  /\ NotifyEvent
  /\ SenderGoes(s, "idle")
  /\ UNCHANGED <<queues, flags, keyVars, rpc, msgVars, sent>>

DropSender_EveryHandleCloses(s) ==
  /\ spc[s] = "idle"
  /\ SenderGoes(s, "flag")
  /\ UNCHANGED <<queues, flags, listener, keyVars, rpc, msgVars, sent>>

(* Dropping a handle; the last one runs SenderInner::drop. *)
DropSender(s) ==
  /\ spc[s] = "idle"
  /\ SenderGoes(s, IF LiveHandles = {s} THEN "flag" ELSE "none")
  /\ UNCHANGED <<queues, flags, listener, keyVars, rpc, msgVars, sent>>

SetSendersDropped(s) ==
  /\ spc[s] = "flag"
  /\ sendersDropped' = TRUE
  /\ SenderGoes(s, "flagged")
  /\ UNCHANGED <<queues, receiverDropped, listener, keyVars, rpc, msgVars, sent>>

NotifySendersDropped_Omitted(s) ==
  /\ spc[s] = "flagged"
  /\ SenderGoes(s, "none")
  /\ UNCHANGED <<queues, flags, listener, keyVars, rpc, msgVars, sent>>

NotifySendersDropped(s) ==
  /\ spc[s] = "flagged"
  /\ NotifyEvent
  /\ SenderGoes(s, "none")
  /\ UNCHANGED <<queues, flags, keyVars, rpc, msgVars, sent>>

------------------------------------------------------------------------------
(* The receiver *)

InUse_Never(m) == FALSE
InUse_AnyKey(m) == using # {}

(* using_keys.get_mut: another message has m's key. *)
InUse(m) == m.k \in using

Deferred_InFront(m) == <<m>> \o waiting[m.k]

(* waiting_for_k.push_back: m waits behind the others with its key. *)
Deferred(m) == Append(waiting[m.k], m)

(* sync_pop returns m and recv wraps it in a Message. *)
Return(m) ==
  /\ held' = held \union {m}
  /\ taken' = taken \union {m}
  /\ rpc' = "idle"
  /\ UNCHANGED releasing

CallRecv ==
  /\ rpc \in {"idle", "closed"}
  /\ rpc' = "drain"
  /\ UNCHANGED <<queues, flags, listener, keyVars, spc, msgVars, sent>>

DrainHandOver_KeyRemoved ==
  /\ rpc = "drain"
  /\ dropKeyQ # <<>>
  /\ LET k == Head(dropKeyQ) IN
       /\ k \in using
       /\ waiting[k] # <<>>
       /\ Return(Head(waiting[k]))
       /\ waiting' = [waiting EXCEPT ![k] = Tail(@)]
       /\ using' = using \ {k}
  /\ dropKeyQ' = Tail(dropKeyQ)
  /\ UNCHANGED <<q, flags, listener, spc, sent>>

(* A key comes back and a message waits for it: the oldest one gets it. *)
DrainHandOver ==
  /\ rpc = "drain"
  /\ dropKeyQ # <<>>
  /\ LET k == Head(dropKeyQ) IN
       /\ k \in using
       /\ waiting[k] # <<>>
       /\ Return(Head(waiting[k]))
       /\ waiting' = [waiting EXCEPT ![k] = Tail(@)]
  /\ dropKeyQ' = Tail(dropKeyQ)
  /\ UNCHANGED <<q, flags, listener, using, spc, sent>>

(* A key comes back and no message waits for it; a key that is not in use  *)
(* makes the receiver panic.                                               *)
DrainRelease ==
  /\ rpc = "drain"
  /\ dropKeyQ # <<>>
  /\ LET k == Head(dropKeyQ) IN
       /\ k \in using => waiting[k] = <<>>
       /\ using' = using \ {k}
       /\ rpc' = IF k \in using THEN "drain" ELSE "panicked"
  /\ dropKeyQ' = Tail(dropKeyQ)
  /\ UNCHANGED <<q, flags, listener, waiting, spc, msgVars, sent>>

DrainDone ==
  /\ rpc = "drain"
  /\ dropKeyQ = <<>>
  /\ rpc' = "pop"
  /\ UNCHANGED <<queues, flags, listener, keyVars, spc, msgVars, sent>>

(* The popped message's key is in use: it waits behind those before it. *)
PopConflict ==
  /\ rpc = "pop"
  /\ q # <<>>
  /\ InUse(Head(q))
  /\ waiting' = [waiting EXCEPT ![Head(q).k] = Deferred(Head(q))]
  /\ q' = Tail(q)
  /\ rpc' = "drain"
  /\ UNCHANGED <<dropKeyQ, flags, listener, using, spc, msgVars, sent>>

(* The popped message's key is free: the message takes it and is returned. *)
PopFresh ==
  /\ rpc = "pop"
  /\ q # <<>>
  /\ ~InUse(Head(q))
  /\ using' = using \union {Head(q).k}
  /\ Return(Head(q))
  /\ q' = Tail(q)
  /\ UNCHANGED <<dropKeyQ, flags, listener, waiting, spc, sent>>

PopEmpty ==
  /\ rpc = "pop"
  /\ q = <<>>
  /\ rpc' = "recheckQ"
  /\ UNCHANGED <<queues, flags, listener, keyVars, spc, msgVars, sent>>

(* if !self.q.is_empty() || !self.drop_key_q.is_empty(): two reads. *)
RecheckQueue ==
  /\ rpc = "recheckQ"
  /\ rpc' = IF q # <<>> THEN "drain" ELSE "recheckKeys"
  /\ UNCHANGED <<queues, flags, listener, keyVars, spc, msgVars, sent>>

RecheckKeys ==
  /\ rpc = "recheckKeys"
  /\ rpc' = IF dropKeyQ # <<>> THEN "drain" ELSE "checkClosed"
  /\ UNCHANGED <<queues, flags, listener, keyVars, spc, msgVars, sent>>

(* Nothing in use and the senders gone: recv returns Err(Closed). *)
CheckClosed ==
  /\ rpc = "checkClosed"
  /\ rpc' = IF using = {} /\ sendersDropped THEN "closed" ELSE "wait"
  /\ UNCHANGED <<queues, flags, listener, keyVars, spc, msgVars, sent>>

(* listener.take() and l.wait(): blocks until notified and uses the        *)
(* listener up; an absent listener makes the receiver panic.               *)
Wait ==
  /\ rpc = "wait"
  /\ listener # "listening"
  /\ rpc' = IF listener = "none" THEN "panicked" ELSE "listen"
  /\ listener' = "none"
  /\ UNCHANGED <<queues, flags, keyVars, spc, msgVars, sent>>

Listen ==
  /\ rpc = "listen"
  /\ listener' = "listening"
  /\ rpc' = "drain"
  /\ UNCHANGED <<queues, flags, keyVars, spc, msgVars, sent>>

(* Receiver::drop, then its fields: the listener leaves the event. *)
DropReceiver ==
  /\ rpc \in {"idle", "closed"}
  /\ rpc' = "dropped"
  /\ receiverDropped' = TRUE
  /\ listener' = "none"
  /\ UNCHANGED <<queues, sendersDropped, keyVars, spc, msgVars, sent>>

------------------------------------------------------------------------------
(* Holders of Messages, on any thread *)

DropMessage(m) ==
  /\ held' = held \ {m}
  /\ dropKeyQ' = Append(dropKeyQ, m.k)
  /\ releasing' = releasing \union {m}
  /\ UNCHANGED <<q, flags, listener, keyVars, spc, rpc, sent, taken>>

DropMessageNotify_Omitted(m) ==
  /\ releasing' = releasing \ {m}
  /\ UNCHANGED <<queues, flags, listener, keyVars, spc, rpc, held, sent, taken>>

DropMessageNotify(m) ==
  /\ NotifyEvent
  /\ releasing' = releasing \ {m}
  /\ UNCHANGED <<queues, flags, keyVars, spc, rpc, held, sent, taken>>

------------------------------------------------------------------------------
(* A thread inside send or SenderInner::drop. *)
SenderStep(s) ==
  \/ \E k \in Keys : SendPush(s, k)
  \/ SendNotify(s)
  \/ SetSendersDropped(s)
  \/ NotifySendersDropped(s)

(* The receiver's thread inside recv. *)
RecvStep ==
  \/ DrainHandOver
  \/ DrainRelease
  \/ DrainDone
  \/ PopConflict
  \/ PopFresh
  \/ PopEmpty
  \/ RecheckQueue
  \/ RecheckKeys
  \/ CheckClosed
  \/ Wait
  \/ Listen

(* All handles, Messages and the receiver are gone: the program is done. *)
Terminated ==
  /\ \A s \in Senders : spc[s] = "none"
  /\ held = {}
  /\ releasing = {}
  /\ rpc = "dropped"
  /\ UNCHANGED vars

Next ==
  \/ \E s, t \in Senders : CloneSender(s, t)
  \/ \E s \in Senders : SendRefused(s)
  \/ \E s \in Senders : SendChecked(s)
  \/ \E s \in Senders : DropSender(s)
  \/ \E s \in Senders : SenderStep(s)
  \/ CallRecv
  \/ RecvStep
  \/ DropReceiver
  \/ \E m \in held : DropMessage(m)
  \/ \E m \in releasing : DropMessageNotify(m)
  \/ Terminated

Spec == Init /\ [][Next]_vars

(* The threads inside a call keep running.  Two assumptions are about the  *)
(* user, as in the tests' receive loops: recv is called again after it     *)
(* returned a message (not after it reported Closed), and every Message is *)
(* dropped in the end.  Nobody has to send, clone or drop a handle.        *)
Fairness ==
  /\ \A s \in Senders : WF_vars(SenderStep(s))
  /\ WF_vars(RecvStep)
  /\ WF_vars(CallRecv /\ rpc = "idle")
  /\ WF_vars(\E m \in held : DropMessage(m))
  /\ WF_vars(\E m \in releasing : DropMessageNotify(m))

FairSpec == Spec /\ Fairness

------------------------------------------------------------------------------
(* Properties *)

InWaiting == UNION {Range(waiting[k]) : k \in Keys}
Untaken == Range(q) \union InWaiting
ReturnedKeys == Range(dropKeyQ)

(* Types, and what ties the parts of using_keys together: only a key in    *)
(* use has messages waiting for it.                                        *)
TypeOK ==
  /\ q \in Seq(Message)
  /\ dropKeyQ \in Seq(Keys)
  /\ sendersDropped \in BOOLEAN
  /\ receiverDropped \in BOOLEAN
  /\ listener \in {"none", "listening", "notified"}
  /\ using \in SUBSET Keys
  /\ waiting \in [Keys -> Seq(Message)]
  /\ \A k \in Keys : k \notin using => waiting[k] = <<>>
  /\ spc \in [Senders -> SenderPc]
  /\ rpc \in ReceiverPc
  /\ held \in SUBSET taken
  /\ releasing \in SUBSET taken
  /\ sent \in Nat
  /\ taken \in SUBSET Message

(* README.md:11: a message is taken out only when no live Message holds    *)
(* its key, whatever senders, receiver and droppers do in between.         *)
KeyExclusion == \A m, n \in held : m.k = n.k => m = n

(* Every key in use has exactly one owner: a live Message, or one entry on *)
(* its way back in drop_key_q.  It is what makes sync_pop's panic!() and   *)
(* assert!() unreachable (kv_mpsc.rs:71, 105).                             *)
KeyAccounted ==
  /\ using = {m.k : m \in held} \union ReturnedKeys
  /\ \A m \in held : m.k \notin ReturnedKeys
  /\ IsInjective(dropKeyQ)

(* recv panics neither on a returned key that is not in use (kv_mpsc.rs:71) *)
(* nor on a missing listener (kv_mpsc.rs:94).                              *)
NoPanic == rpc # "panicked"

(* Messages with equal keys are returned in the order they were pushed,    *)
(* and none is returned twice: q, the waiting queues and the early return  *)
(* in the drain loop never let one overtake another.                       *)
PerKeyFifo == \A m \in taken, n \in Untaken : m.k = n.k => m.id < n.id

(* Every pushed message is still queued, still waiting for its key, or was *)
(* returned; sync_pop's loops drop none on the way.                        *)
NothingLost == \A i \in 1 .. sent : \E m \in taken \union Untaken : m.id = i

(* There is something the receiver would act on if it looked. *)
WorkVisible ==
  \/ q # <<>>
  \/ dropKeyQ # <<>>
  \/ sendersDropped /\ using = {}

NotifyComing ==
  \/ \E s \in Senders : spc[s] \in {"pushed", "flagged"}
  \/ releasing # {}

(* The comment at kv_mpsc.rs:76, "after listen, all new event will be      *)
(* captured": the receiver never sleeps on work nobody will wake it for.   *)
NoLostWakeup ==
  rpc = "wait" /\ listener = "listening" /\ WorkVisible => NotifyComing

(* The senders_dropped flag is final: no handle is left that could send. *)
ClosedIsFinal == sendersDropped => LiveHandles = {}

(* Every pushed message is returned by recv, unless the receiver has       *)
(* stopped: it was dropped, or it was told Closed.                         *)
EveryMessageTaken ==
  \A i \in 1 .. MaxMsgs :
    sent >= i ~> (\E m \in taken : m.id = i) \/ rpc \in {"closed", "dropped"}

(* Once every handle is dropped, recv reports Closed to the receive loop. *)
ClosedReported ==
  (\A s \in Senders : spc[s] = "none") ~> rpc \in {"closed", "dropped"}

(* kv_mpsc.rs:81: "no data to take out and senders all dropped, return     *)
(* none to end": when recv reports Closed there is nothing left to take.   *)
ClosedMeansDrained == rpc = "closed" => Untaken = {}

(* The channel implements the conflict queue with per-key order.  A key is *)
(* given up when its Message starts to drop, not when the receiver learns  *)
(* of it.                                                                  *)
Abstract(S) == {[id |-> m.id, ks |-> {m.k}] : m \in S}

Conflict == INSTANCE ConflictQueue WITH
  KeySets <- {{k} : k \in Keys},
  pending <- Abstract(Untaken),
  held    <- Abstract(held)

ImplementsConflictQueue == Conflict!FifoSpec
==============================================================================
