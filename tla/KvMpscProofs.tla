---------------------------- MODULE KvMpscProofs ----------------------------
(***************************************************************************)
(* Proofs about KvMpsc for every number of sender handles, keys and        *)
(* messages.  The inductive invariant is the conjunction of the parts      *)
(* below; each of its lemmas uses only the parts it needs.                 *)
(***************************************************************************)
EXTENDS KvMpsc, SequenceLemmas, TLAPS

(* The parts of the inductive invariant *)

(* A recv that can still reach the wait has its listener. *)
ListenerReady == rpc \in {"listen", "dropped", "panicked"} \/ listener # "none"

(* A message waits in the queue of its own key. *)
WaitingKeyed == \A k \in Keys : \A m \in Range(waiting[k]) : m.k = k

KeyInv == TypeOK /\ WaitingKeyed /\ KeyAccounted /\ KeyExclusion

(* Ids grow from the messages taken, over those waiting, to those in q. *)
Ordered ==
  /\ Ascending(q)
  /\ \A k \in Keys : Ascending(waiting[k])
  /\ \A m \in Range(q) : m.id \in 1 .. sent
  /\ \A m \in taken \union InWaiting, n \in Range(q) : m.id < n.id
  /\ \A k \in Keys : \A m \in taken, n \in Range(waiting[k]) : m.k = k => m.id < n.id
  /\ \A m \in taken \union InWaiting : m.id \in 1 .. sent

(* What the receiver has looked at and found absent since its listener was *)
(* set up: each has a notify on the way once it appears.                   *)
PushedComing == \E s \in Senders : spc[s] = "pushed"
FlaggedComing == \E s \in Senders : spc[s] = "flagged"

WakeupInv ==
  listener = "listening" =>
    /\ rpc \in {"recheckKeys", "checkClosed", "wait"} /\ q # <<>> => PushedComing
    /\ rpc \in {"checkClosed", "wait"} /\ dropKeyQ # <<>> => releasing # {}
    /\ rpc = "wait" /\ sendersDropped /\ using = {} => FlaggedComing

CloseInv ==
  /\ (\E s \in Senders : spc[s] \in {"flag", "flagged"}) => LiveHandles = {}
  /\ sendersDropped => LiveHandles = {}

------------------------------------------------------------------------------
(* Type correctness *)

(* The initial state of channel() is well typed. *)
LEMMA InitTypeOK == Init => TypeOK
<1> SUFFICES ASSUME Init PROVE TypeOK
  OBVIOUS
<1>1. q \in Seq(Message) /\ dropKeyQ \in Seq(Keys)
  BY DEF Init
<1>2. waiting \in [Keys -> Seq(Message)] /\ \A k \in Keys : waiting[k] = <<>>
  BY DEF Init
<1>3. spc \in [Senders -> SenderPc]
  BY DEF Init, SenderPc
<1> QED
  BY <1>1, <1>2, <1>3 DEF Init, TypeOK, ReceiverPc

(* A popped message is one that was sent, and carries one of the keys. *)
LEMMA PoppedMessage ==
  ASSUME TypeOK, q # <<>>
  PROVE  Head(q) \in Message /\ Tail(q) \in Seq(Message) /\ Head(q).k \in Keys
<1>1. q \in Seq(Message)
  BY DEF TypeOK
<1>2. Head(q) \in Message /\ Tail(q) \in Seq(Message)
  BY <1>1
<1> QED
  BY <1>2 DEF Message

(* Every step of senders, receiver and droppers preserves the types, and   *)
(* only keys in use have messages waiting.                                 *)
LEMMA TypeStep == TypeOK /\ [Next]_vars => TypeOK'
<1> SUFFICES ASSUME TypeOK, [Next]_vars PROVE TypeOK'
  OBVIOUS
<1> USE DEF TypeOK, vars, queues, flags, keyVars, msgVars, SenderGoes, SenderPc, ReceiverPc
<1>1. ASSUME NEW s \in Senders, NEW t \in Senders, CloneSender(s, t) PROVE TypeOK'
  BY <1>1 DEF CloneSender
<1>2. ASSUME NEW s \in Senders, SendRefused(s) PROVE TypeOK'
  BY <1>2 DEF SendRefused
<1>3. ASSUME NEW s \in Senders, SendChecked(s) PROVE TypeOK'
  BY <1>3 DEF SendChecked
<1>4. ASSUME NEW s \in Senders, DropSender(s) PROVE TypeOK'
  BY <1>4 DEF DropSender
<1>5. ASSUME NEW s \in Senders, NEW k \in Keys, SendPush(s, k) PROVE TypeOK'
  <2>1. [id |-> sent + 1, k |-> k] \in Message
    BY DEF Message
  <2>2. q' \in Seq(Message)
    BY <1>5, <2>1 DEF SendPush
  <2> QED
    BY <1>5, <2>2 DEF SendPush
<1>6. ASSUME NEW s \in Senders, SendNotify(s) PROVE TypeOK'
  BY <1>6 DEF SendNotify, NotifyEvent
<1>7. ASSUME NEW s \in Senders, SetSendersDropped(s) PROVE TypeOK'
  BY <1>7 DEF SetSendersDropped
<1>8. ASSUME NEW s \in Senders, NotifySendersDropped(s) PROVE TypeOK'
  BY <1>8 DEF NotifySendersDropped, NotifyEvent
<1>9. CASE CallRecv
  BY <1>9 DEF CallRecv
<1>10. CASE DrainHandOver
  <2> DEFINE k == Head(dropKeyQ)
  <2>1. k \in Keys /\ dropKeyQ' \in Seq(Keys)
    BY <1>10 DEF DrainHandOver
  <2>2. Head(waiting[k]) \in Message /\ Tail(waiting[k]) \in Seq(Message)
    BY <1>10, <2>1 DEF DrainHandOver
  <2>3. waiting' = [waiting EXCEPT ![k] = Tail(waiting[k])] /\ k \in using
    BY <1>10 DEF DrainHandOver
  <2>4. waiting' \in [Keys -> Seq(Message)]
    BY <2>1, <2>2, <2>3
  <2>5. \A j \in Keys : j \notin using' => waiting'[j] = <<>>
    BY <1>10, <2>1, <2>3 DEF DrainHandOver
  <2> QED
    BY <1>10, <2>1, <2>2, <2>4, <2>5 DEF DrainHandOver, Return
<1>11. CASE DrainRelease
  <2>1. Head(dropKeyQ) \in Keys /\ dropKeyQ' \in Seq(Keys)
    BY <1>11 DEF DrainRelease
  <2> QED
    BY <1>11, <2>1 DEF DrainRelease
<1>12. CASE DrainDone
  BY <1>12 DEF DrainDone
<1>13. CASE PopConflict
  <2>1. Head(q) \in Message /\ q' \in Seq(Message) /\ Head(q).k \in Keys
    BY <1>13, PoppedMessage DEF PopConflict
  <2>2. waiting' = [waiting EXCEPT ![Head(q).k] = Append(waiting[Head(q).k], Head(q))]
    BY <1>13 DEF PopConflict, Deferred
  <2>3. waiting' \in [Keys -> Seq(Message)]
    BY <2>1, <2>2
  <2>4. \A j \in Keys : j \notin using' => waiting'[j] = <<>>
    BY <1>13, <2>1, <2>2 DEF PopConflict, InUse
  <2> QED
    BY <1>13, <2>1, <2>3, <2>4 DEF PopConflict
<1>14. CASE PopFresh
  <2>1. Head(q) \in Message /\ q' \in Seq(Message) /\ Head(q).k \in Keys
    BY <1>14, PoppedMessage DEF PopFresh
  <2> QED
    BY <1>14, <2>1 DEF PopFresh, Return
<1>15. CASE PopEmpty \/ RecheckQueue \/ RecheckKeys \/ CheckClosed
  BY <1>15 DEF PopEmpty, RecheckQueue, RecheckKeys, CheckClosed
<1>16. CASE Wait \/ Listen
  BY <1>16 DEF Wait, Listen
<1>17. CASE DropReceiver
  BY <1>17 DEF DropReceiver
<1>18. ASSUME NEW m \in held, DropMessage(m) PROVE TypeOK'
  <2>1. m.k \in Keys
    BY DEF Message
  <2>2. dropKeyQ' \in Seq(Keys)
    BY <1>18, <2>1 DEF DropMessage
  <2> QED
    BY <1>18, <2>2 DEF DropMessage
<1>19. ASSUME NEW m \in releasing, DropMessageNotify(m) PROVE TypeOK'
  BY <1>19 DEF DropMessageNotify, NotifyEvent
<1>20. CASE Terminated \/ UNCHANGED vars
  BY <1>20 DEF Terminated
<1> QED
  BY <1>1, <1>2, <1>3, <1>4, <1>5, <1>6, <1>7, <1>8, <1>9, <1>10, <1>11, <1>12,
     <1>13, <1>14, <1>15, <1>16, <1>17, <1>18, <1>19, <1>20
     DEF Next, SenderStep, RecvStep

(* Every reachable state is well typed. *)
THEOREM TypeCorrect == Spec => []TypeOK
  BY InitTypeOK, TypeStep, PTL DEF Spec

------------------------------------------------------------------------------
(* Key exclusion *)

(* Only five actions touch a key: the others leave the key bookkeeping and *)
(* the live Messages alone.                                                *)
LEMMA KeyActions ==
  ASSUME [Next]_vars
  PROVE  \/ UNCHANGED <<dropKeyQ, using, waiting, held>>
         \/ DrainHandOver
         \/ DrainRelease
         \/ PopConflict
         \/ PopFresh
         \/ \E m \in held : DropMessage(m)
<1> USE DEF vars, queues, flags, keyVars, msgVars, SenderGoes
<1>1. ASSUME NEW s \in Senders, SenderStep(s)
      PROVE  UNCHANGED <<dropKeyQ, using, waiting, held>>
  BY <1>1 DEF SenderStep, SendPush, SendNotify, SetSendersDropped, NotifySendersDropped
<1>2. ASSUME RecvStep, ~DrainHandOver, ~DrainRelease, ~PopConflict, ~PopFresh
      PROVE  UNCHANGED <<dropKeyQ, using, waiting, held>>
  BY <1>2 DEF RecvStep, DrainDone, PopEmpty, RecheckQueue, RecheckKeys, CheckClosed,
     Wait, Listen
<1>3. ASSUME NEW m \in releasing, DropMessageNotify(m)
      PROVE  UNCHANGED <<dropKeyQ, using, waiting, held>>
  BY <1>3 DEF DropMessageNotify
<1> QED
  BY <1>1, <1>2, <1>3
     DEF Next, CloneSender, SendRefused, SendChecked, DropSender, CallRecv,
     DropReceiver, Terminated

(* The five actions keep one owner per key. *)
LEMMA KeyStep ==
  ASSUME KeyInv, [Next]_vars
  PROVE  (WaitingKeyed /\ KeyAccounted /\ KeyExclusion)'
<1> USE DEF KeyInv
<1>0. /\ q \in Seq(Message) /\ dropKeyQ \in Seq(Keys)
      /\ waiting \in [Keys -> Seq(Message)]
      /\ held \subseteq Message
  BY DEF TypeOK
<1>1. CASE UNCHANGED <<dropKeyQ, using, waiting, held>>
  BY <1>1 DEF WaitingKeyed, KeyAccounted, KeyExclusion, ReturnedKeys
<1>2. CASE DrainHandOver
  <2> DEFINE k == Head(dropKeyQ)
             m == Head(waiting[k])
  <2>1. k \in Keys /\ dropKeyQ # <<>> /\ waiting[k] # <<>> /\ waiting[k] \in Seq(Message)
    BY <1>0, <1>2 DEF DrainHandOver
  <2>2. /\ dropKeyQ' = Tail(dropKeyQ)
        /\ held' = held \union {m}
        /\ using' = using
        /\ waiting' = [waiting EXCEPT ![k] = Tail(waiting[k])]
    BY <1>2 DEF DrainHandOver, Return
  <2>3. m \in Range(waiting[k]) /\ Range(waiting[k]) = {m} \union Range(Tail(waiting[k]))
    BY <2>1, RangeHeadTail
  <2>4. m.k = k
    BY <2>1, <2>3 DEF WaitingKeyed
  <2>5. /\ ReturnedKeys = {k} \union ReturnedKeys'
        /\ k \notin ReturnedKeys'
        /\ IsInjective(dropKeyQ')
    BY <1>0, <2>1, <2>2, RangeHeadTail, InjectiveTail DEF KeyAccounted, ReturnedKeys
  <2>6. WaitingKeyed'
    BY <1>0, <2>1, <2>2, <2>3 DEF WaitingKeyed
  <2>7. KeyAccounted'
    <3>1. using' = {n.k : n \in held'} \union ReturnedKeys'
      BY <2>2, <2>4, <2>5 DEF KeyAccounted
    <3>2. \A n \in held' : n.k \notin ReturnedKeys'
      BY <2>2, <2>4, <2>5 DEF KeyAccounted
    <3> QED
      BY <2>5, <3>1, <3>2 DEF KeyAccounted
  <2>8. KeyExclusion'
    BY <2>2, <2>4, <2>5 DEF KeyExclusion, KeyAccounted
  <2> QED
    BY <2>6, <2>7, <2>8
<1>3. CASE DrainRelease
  <2> DEFINE k == Head(dropKeyQ)
  <2>1. dropKeyQ # <<>> /\ dropKeyQ' = Tail(dropKeyQ) /\ using' = using \ {k}
        /\ UNCHANGED <<waiting, held>>
    BY <1>3 DEF DrainRelease, msgVars
  <2>2. /\ ReturnedKeys = {k} \union ReturnedKeys'
        /\ k \notin ReturnedKeys'
        /\ IsInjective(dropKeyQ')
    BY <1>0, <2>1, RangeHeadTail, InjectiveTail DEF KeyAccounted, ReturnedKeys
  <2>3. KeyAccounted'
    <3>1. using' = {n.k : n \in held'} \union ReturnedKeys'
      BY <2>1, <2>2 DEF KeyAccounted
    <3> QED
      BY <2>1, <2>2, <3>1 DEF KeyAccounted
  <2> QED
    BY <2>1, <2>3 DEF WaitingKeyed, KeyExclusion
<1>4. CASE PopConflict
  <2> DEFINE m == Head(q)
  <2>1. m \in Message /\ m.k \in Keys
    BY <1>4, PoppedMessage DEF PopConflict
  <2>2. waiting' = [waiting EXCEPT ![m.k] = Append(waiting[m.k], m)]
        /\ UNCHANGED <<dropKeyQ, using, held>>
    BY <1>4 DEF PopConflict, Deferred, msgVars
  <2>3. Range(Append(waiting[m.k], m)) = Range(waiting[m.k]) \union {m}
    BY <1>0, <2>1, RangeAppend
  <2>4. WaitingKeyed'
    BY <1>0, <2>1, <2>2, <2>3 DEF WaitingKeyed
  <2> QED
    BY <2>2, <2>4 DEF KeyAccounted, KeyExclusion, ReturnedKeys
<1>5. CASE PopFresh
  <2> DEFINE m == Head(q)
  <2>1. m.k \notin using /\ using' = using \union {m.k} /\ held' = held \union {m}
        /\ UNCHANGED <<dropKeyQ, waiting>>
    BY <1>5 DEF PopFresh, Return, InUse
  <2>2. using' = {n.k : n \in held'} \union ReturnedKeys'
    BY <2>1 DEF KeyAccounted, ReturnedKeys
  <2>3. KeyAccounted'
    BY <2>1, <2>2 DEF KeyAccounted, ReturnedKeys
  <2> QED
    BY <2>1, <2>3 DEF WaitingKeyed, KeyExclusion, KeyAccounted
<1>6. ASSUME NEW m \in held, DropMessage(m)
      PROVE  (WaitingKeyed /\ KeyAccounted /\ KeyExclusion)'
  <2>1. m.k \in Keys
    BY <1>0 DEF Message
  <2>2. dropKeyQ' = Append(dropKeyQ, m.k) /\ held' = held \ {m}
        /\ UNCHANGED <<using, waiting>>
    BY <1>6 DEF DropMessage, keyVars
  <2>3. ReturnedKeys' = ReturnedKeys \union {m.k}
    BY <1>0, <2>1, <2>2, RangeAppend DEF ReturnedKeys
  <2>4. IsInjective(dropKeyQ')
    BY <1>0, <2>1, <2>2, InjectiveAppend DEF KeyAccounted, ReturnedKeys
  <2>5. \A n \in held' : n.k # m.k
    BY <2>2 DEF KeyExclusion
  <2>6. using' = {n.k : n \in held'} \union ReturnedKeys'
    BY <2>2, <2>3 DEF KeyAccounted
  <2>7. KeyAccounted'
    BY <2>2, <2>3, <2>4, <2>5, <2>6 DEF KeyAccounted
  <2> QED
    BY <2>2, <2>7 DEF WaitingKeyed, KeyExclusion
<1> QED
  BY <1>1, <1>2, <1>3, <1>4, <1>5, <1>6, KeyActions

(* The key bookkeeping is inductive. *)
LEMMA KeyInvariance == Spec => []KeyInv
<1>1. Init => KeyInv
  <2> SUFFICES ASSUME Init PROVE KeyInv
    OBVIOUS
  <2>1. Range(dropKeyQ) = {} /\ IsInjective(dropKeyQ)
    BY DEF Init, Range, IsInjective
  <2>2. \A k \in Keys : Range(waiting[k]) = {}
    BY DEF Init, Range
  <2> QED
    BY <2>1, <2>2, InitTypeOK
       DEF Init, KeyInv, WaitingKeyed, KeyAccounted, KeyExclusion, ReturnedKeys
<1>2. KeyInv /\ [Next]_vars => KeyInv'
  BY TypeStep, KeyStep DEF KeyInv
<1> QED
  BY <1>1, <1>2, PTL DEF Spec

(* README.md:11: no two live Messages share a key, for any number of       *)
(* senders, keys, messages and droppers.                                   *)
THEOREM Exclusion == Spec => []KeyExclusion
  BY KeyInvariance, PTL DEF KeyInv

(* Every key in use has one owner, a Message or its entry in drop_key_q. *)
THEOREM KeysAccounted == Spec => []KeyAccounted
  BY KeyInvariance, PTL DEF KeyInv

------------------------------------------------------------------------------
(* Panics *)

(* The receiver replaces its listener before it can wait again, and is     *)
(* only ever given back keys that are in use.                              *)
LEMMA PanicStep ==
  ASSUME KeyInv, ListenerReady, NoPanic, [Next]_vars
  PROVE  (ListenerReady /\ NoPanic)'
<1> USE DEF ListenerReady, NoPanic, vars, queues, flags, keyVars, msgVars, SenderGoes
<1>1. ASSUME NEW s \in Senders, SenderStep(s) PROVE (ListenerReady /\ NoPanic)'
  BY <1>1 DEF SenderStep, SendPush, SendNotify, SetSendersDropped, NotifySendersDropped,
     NotifyEvent
<1>2. CASE DrainRelease
  <2>1. Head(dropKeyQ) \in ReturnedKeys
    BY <1>2, RangeHeadTail DEF DrainRelease, ReturnedKeys, KeyInv, TypeOK
  <2>2. Head(dropKeyQ) \in using
    BY <2>1 DEF KeyInv, KeyAccounted
  <2> QED
    BY <1>2, <2>2 DEF DrainRelease
<1>3. CASE RecvStep /\ ~DrainRelease
  BY <1>3 DEF RecvStep, DrainHandOver, DrainDone, PopConflict, PopFresh, PopEmpty,
     RecheckQueue, RecheckKeys, CheckClosed, Wait, Listen, Return
<1>4. ASSUME NEW m \in held, DropMessage(m) PROVE (ListenerReady /\ NoPanic)'
  BY <1>4 DEF DropMessage
<1>5. ASSUME NEW m \in releasing, DropMessageNotify(m) PROVE (ListenerReady /\ NoPanic)'
  BY <1>5 DEF DropMessageNotify, NotifyEvent
<1> QED
  BY <1>1, <1>2, <1>3, <1>4, <1>5
     DEF Next, CloneSender, SendRefused, SendChecked, DropSender, CallRecv,
     DropReceiver, Terminated

(* recv never panics: neither on a returned key (kv_mpsc.rs:71) nor on a   *)
(* missing listener (kv_mpsc.rs:93).                                       *)
THEOREM NeverPanics == Spec => []NoPanic
<1>1. Init => ListenerReady /\ NoPanic
  BY DEF Init, ListenerReady, NoPanic
<1>2. KeyInv /\ (ListenerReady /\ NoPanic) /\ [Next]_vars => (ListenerReady /\ NoPanic)'
  BY PanicStep
<1> QED
  BY <1>1, <1>2, KeyInvariance, PTL DEF Spec

------------------------------------------------------------------------------
(* Closing *)

(* Only the drop of the last handle starts SenderInner::drop, and without  *)
(* a handle none can be cloned.                                            *)
LEMMA CloseStep ==
  ASSUME TypeOK, CloseInv, [Next]_vars
  PROVE  CloseInv'
<1> USE DEF CloseInv, LiveHandles, vars, queues, flags, keyVars, msgVars, SenderGoes
<1>0. spc \in [Senders -> SenderPc]
  BY DEF TypeOK
<1>1. CASE UNCHANGED <<spc, sendersDropped>>
  BY <1>1
<1>2. ASSUME NEW s \in Senders, NEW t \in Senders, CloneSender(s, t) PROVE CloseInv'
  BY <1>0, <1>2 DEF CloneSender, SenderPc
<1>3. ASSUME NEW s \in Senders, SendChecked(s) PROVE CloseInv'
  BY <1>0, <1>3 DEF SendChecked, SenderPc
<1>4. ASSUME NEW s \in Senders, DropSender(s) PROVE CloseInv'
  <2>1. s \in LiveHandles
    BY <1>4 DEF DropSender
  <2>2. ~sendersDropped /\ \A t \in Senders : spc[t] \notin {"flag", "flagged"}
    BY <2>1
  <2>3. CASE LiveHandles = {s}
    <3>1. LiveHandles' = {}
      BY <1>0, <1>4, <2>3 DEF DropSender
    <3> QED
      BY <3>1
  <2>4. CASE LiveHandles # {s}
    <3>1. spc' = [spc EXCEPT ![s] = "none"]
      BY <1>4, <2>4, <1>0 DEF DropSender
    <3>2. ~sendersDropped'
      BY <1>4, <2>2 DEF DropSender
    <3> QED
      BY <1>0, <2>2, <3>1, <3>2
  <2> QED
    BY <2>3, <2>4
<1>5. ASSUME NEW s \in Senders, SenderStep(s) PROVE CloseInv'
  <2>1. ASSUME NEW k \in Keys, SendPush(s, k) PROVE CloseInv'
    BY <1>0, <2>1 DEF SendPush
  <2>2. CASE SendNotify(s)
    BY <1>0, <2>2 DEF SendNotify
  <2>3. CASE SetSendersDropped(s)
    BY <1>0, <2>3 DEF SetSendersDropped
  <2>4. CASE NotifySendersDropped(s)
    BY <1>0, <2>4 DEF NotifySendersDropped
  <2> QED
    BY <1>5, <2>1, <2>2, <2>3, <2>4 DEF SenderStep
<1>6. CASE RecvStep
  BY <1>1, <1>6 DEF RecvStep, DrainHandOver, DrainRelease, DrainDone, PopConflict,
     PopFresh, PopEmpty, RecheckQueue, RecheckKeys, CheckClosed, Wait, Listen
<1>7. ASSUME NEW m \in held, DropMessage(m) PROVE CloseInv'
  BY <1>1, <1>7 DEF DropMessage
<1>8. ASSUME NEW m \in releasing, DropMessageNotify(m) PROVE CloseInv'
  BY <1>1, <1>8 DEF DropMessageNotify
<1> QED
  BY <1>1, <1>2, <1>3, <1>4, <1>5, <1>6, <1>7, <1>8
     DEF Next, SendRefused, CallRecv, DropReceiver, Terminated

(* senders_dropped is set only when no handle can send any more. *)
THEOREM ClosedForGood == Spec => []ClosedIsFinal
<1>1. Init => CloseInv
  BY DEF Init, CloseInv
<1>2. TypeOK /\ CloseInv /\ [Next]_vars => CloseInv'
  BY CloseStep
<1>3. CloseInv => ClosedIsFinal
  BY DEF CloseInv, ClosedIsFinal
<1> QED
  BY <1>1, <1>2, <1>3, TypeCorrect, PTL DEF Spec

------------------------------------------------------------------------------
(* Wake-ups *)

(* Whatever appears in q, in drop_key_q or in senders_dropped after the    *)
(* receiver looked has its notify still to come, and a notify that finds   *)
(* the listener ends the claim.                                            *)
LEMMA WakeupStep ==
  ASSUME TypeOK, WakeupInv, [Next]_vars
  PROVE  WakeupInv'
<1> USE DEF WakeupInv, PushedComing, FlaggedComing, vars, queues, flags, keyVars, msgVars, SenderGoes
<1>0. spc \in [Senders -> SenderPc]
  BY DEF TypeOK
<1>1. ASSUME NEW s \in Senders, NEW t \in Senders, CloneSender(s, t) PROVE WakeupInv'
  BY <1>0, <1>1 DEF CloneSender
<1>2. ASSUME NEW s \in Senders, SendChecked(s) PROVE WakeupInv'
  BY <1>0, <1>2 DEF SendChecked
<1>3. ASSUME NEW s \in Senders, DropSender(s) PROVE WakeupInv'
  BY <1>0, <1>3 DEF DropSender
<1>4. ASSUME NEW s \in Senders, SenderStep(s) PROVE WakeupInv'
  <2>1. ASSUME NEW k \in Keys, SendPush(s, k) PROVE WakeupInv'
    <3>1. PushedComing' /\ (FlaggedComing => FlaggedComing')
      BY <1>0, <2>1 DEF SendPush
    <3> QED
      BY <2>1, <3>1 DEF SendPush
  <2>2. CASE SetSendersDropped(s)
    <3>1. FlaggedComing' /\ (PushedComing => PushedComing')
      BY <1>0, <2>2 DEF SetSendersDropped
    <3> QED
      BY <2>2, <3>1 DEF SetSendersDropped
  <2>3. CASE SendNotify(s) \/ NotifySendersDropped(s)
    BY <2>3 DEF SendNotify, NotifySendersDropped, NotifyEvent
  <2> QED
    BY <1>4, <2>1, <2>2, <2>3 DEF SenderStep
<1>5. CASE RecvStep
  BY <1>5 DEF RecvStep, DrainHandOver, DrainRelease, DrainDone, PopConflict, PopFresh,
     PopEmpty, RecheckQueue, RecheckKeys, CheckClosed, Wait, Listen, Return
<1>6. ASSUME NEW m \in held, DropMessage(m) PROVE WakeupInv'
  BY <1>6 DEF DropMessage
<1>7. ASSUME NEW m \in releasing, DropMessageNotify(m) PROVE WakeupInv'
  BY <1>7 DEF DropMessageNotify, NotifyEvent
<1> QED
  BY <1>1, <1>2, <1>3, <1>4, <1>5, <1>6, <1>7
     DEF Next, SendRefused, CallRecv, DropReceiver, Terminated

(* The receiver never sleeps on a message, a returned key or the end of    *)
(* the channel that nobody will notify it of (kv_mpsc.rs:76-95).           *)
THEOREM NoWakeupLost == Spec => []NoLostWakeup
<1>1. Init => WakeupInv
  BY DEF Init, WakeupInv
<1>2. TypeOK /\ WakeupInv /\ [Next]_vars => WakeupInv'
  BY WakeupStep
<1>3. WakeupInv => NoLostWakeup
  BY DEF WakeupInv, PushedComing, FlaggedComing, NoLostWakeup, WorkVisible, NotifyComing
<1> QED
  BY <1>1, <1>2, <1>3, TypeCorrect, PTL DEF Spec

------------------------------------------------------------------------------
(* Where the messages are *)

(* Only four actions move a message. *)
LEMMA MovingActions ==
  ASSUME [Next]_vars
  PROVE  \/ UNCHANGED <<q, waiting, sent, taken>>
         \/ \E s \in Senders, k \in Keys : SendPush(s, k)
         \/ DrainHandOver
         \/ PopConflict
         \/ PopFresh
<1> USE DEF vars, queues, flags, keyVars, msgVars, SenderGoes
<1>1. ASSUME NEW s \in Senders, SenderStep(s), ~\E k \in Keys : SendPush(s, k)
      PROVE  UNCHANGED <<q, waiting, sent, taken>>
  BY <1>1 DEF SenderStep, SendNotify, SetSendersDropped, NotifySendersDropped
<1>2. ASSUME RecvStep, ~DrainHandOver, ~PopConflict, ~PopFresh
      PROVE  UNCHANGED <<q, waiting, sent, taken>>
  BY <1>2 DEF RecvStep, DrainRelease, DrainDone, PopEmpty, RecheckQueue, RecheckKeys,
     CheckClosed, Wait, Listen
<1>3. ASSUME NEW m \in held, DropMessage(m)
      PROVE  UNCHANGED <<q, waiting, sent, taken>>
  BY <1>3 DEF DropMessage
<1>4. ASSUME NEW m \in releasing, DropMessageNotify(m)
      PROVE  UNCHANGED <<q, waiting, sent, taken>>
  BY <1>4 DEF DropMessageNotify
<1> QED
  BY <1>1, <1>2, <1>3, <1>4
     DEF Next, CloneSender, SendRefused, SendChecked, DropSender, CallRecv,
     DropReceiver, Terminated

(* A push puts the next id into q and moves nothing else. *)
LEMMA PushMoves ==
  ASSUME TypeOK, NEW s \in Senders, NEW k \in Keys, SendPush(s, k)
  PROVE  /\ [id |-> sent + 1, k |-> k] \in Message
         /\ Range(q') = Range(q) \union {[id |-> sent + 1, k |-> k]}
         /\ UNCHANGED <<waiting, InWaiting, taken, held>>
         /\ sent' = sent + 1
<1>1. [id |-> sent + 1, k |-> k] \in Message
  BY DEF TypeOK, Message
<1>2. Range(q') = Range(q) \union {[id |-> sent + 1, k |-> k]}
  BY <1>1, RangeAppend DEF SendPush, TypeOK
<1> QED
  BY <1>1, <1>2 DEF SendPush, InWaiting, keyVars, msgVars

(* A handed over message is the first of those waiting for its key. *)
LEMMA HandOverMoves ==
  ASSUME TypeOK, WaitingKeyed, DrainHandOver
  PROVE  \E k \in Keys :
           LET m == Head(waiting[k]) IN
             /\ k \in ReturnedKeys
             /\ waiting[k] # <<>>
             /\ m \in Range(waiting[k])
             /\ m \in InWaiting
             /\ m.k = k
             /\ waiting' = [waiting EXCEPT ![k] = Tail(waiting[k])]
             /\ Range(waiting[k]) = {m} \union Range(Tail(waiting[k]))
             /\ InWaiting = InWaiting' \union {m}
             /\ taken' = taken \union {m}
             /\ held' = held \union {m}
             /\ UNCHANGED <<q, sent>>
<1> DEFINE k == Head(dropKeyQ)
           m == Head(waiting[k])
<1>1. dropKeyQ \in Seq(Keys) /\ waiting \in [Keys -> Seq(Message)]
  BY DEF TypeOK
<1>2. /\ dropKeyQ # <<>> /\ waiting[k] # <<>>
      /\ taken' = taken \union {m} /\ held' = held \union {m}
      /\ waiting' = [waiting EXCEPT ![k] = Tail(waiting[k])]
      /\ UNCHANGED <<q, sent>>
  BY DEF DrainHandOver, Return
<1>3. k \in Keys /\ k \in ReturnedKeys
  BY <1>1, <1>2, RangeHeadTail, RangeElements DEF ReturnedKeys
<1>4. /\ m \in Range(waiting[k])
      /\ Range(waiting[k]) = {m} \union Range(Tail(waiting[k]))
  BY <1>1, <1>2, <1>3, RangeHeadTail
<1>5. m.k = k /\ m \in InWaiting
  BY <1>3, <1>4 DEF WaitingKeyed, InWaiting
<1>6. \A j \in Keys : waiting'[j] = IF j = k THEN Tail(waiting[k]) ELSE waiting[j]
  BY <1>1, <1>2, <1>3
<1>7. InWaiting = InWaiting' \union {m}
  BY <1>3, <1>4, <1>6 DEF InWaiting
<1> QED
  BY <1>2, <1>3, <1>4, <1>5, <1>7

(* A conflicting message goes from the head of q to the end of the queue   *)
(* of its key.                                                             *)
LEMMA ConflictMoves ==
  ASSUME TypeOK, PopConflict
  PROVE  LET m == Head(q) IN
           /\ m \in Message /\ m.k \in Keys /\ m \in Range(q)
           /\ Range(q) = {m} \union Range(q')
           /\ waiting' = [waiting EXCEPT ![m.k] = Append(waiting[m.k], m)]
           /\ Range(Append(waiting[m.k], m)) = Range(waiting[m.k]) \union {m}
           /\ InWaiting' = InWaiting \union {m}
           /\ UNCHANGED <<sent, taken, held>>
<1> DEFINE m == Head(q)
<1>1. q \in Seq(Message) /\ waiting \in [Keys -> Seq(Message)] /\ q # <<>>
  BY DEF TypeOK, PopConflict
<1>2. m \in Message /\ m.k \in Keys
  BY <1>1, PoppedMessage
<1>3. m \in Range(q) /\ Range(q) = {m} \union Range(q')
  BY <1>1, RangeHeadTail DEF PopConflict
<1>4. waiting' = [waiting EXCEPT ![m.k] = Append(waiting[m.k], m)]
  BY DEF PopConflict, Deferred
<1>5. Range(Append(waiting[m.k], m)) = Range(waiting[m.k]) \union {m}
  BY <1>1, <1>2, RangeAppend
<1>6. \A j \in Keys : waiting'[j] = IF j = m.k THEN Append(waiting[m.k], m) ELSE waiting[j]
  BY <1>1, <1>2, <1>4
<1>7. InWaiting' = InWaiting \union {m}
  BY <1>2, <1>5, <1>6 DEF InWaiting
<1> QED
  BY <1>2, <1>3, <1>4, <1>5, <1>7 DEF PopConflict, msgVars

(* A fresh message is the head of q, and none waits for its key. *)
LEMMA FreshMoves ==
  ASSUME TypeOK, PopFresh
  PROVE  LET m == Head(q) IN
           /\ m \in Message /\ m.k \in Keys /\ m \in Range(q)
           /\ m.k \notin using /\ waiting[m.k] = <<>>
           /\ Range(q) = {m} \union Range(q')
           /\ taken' = taken \union {m}
           /\ held' = held \union {m}
           /\ UNCHANGED <<waiting, InWaiting, sent>>
<1>1. q \in Seq(Message) /\ q # <<>>
  BY DEF TypeOK, PopFresh
<1>2. Head(q) \in Message /\ Head(q).k \in Keys
  BY <1>1, PoppedMessage
<1>3. Head(q) \in Range(q) /\ Range(q) = {Head(q)} \union Range(q')
  BY <1>1, RangeHeadTail DEF PopFresh
<1> QED
  BY <1>2, <1>3 DEF PopFresh, Return, InUse, TypeOK, InWaiting

------------------------------------------------------------------------------
(* Order and completeness *)

(* The four moves keep ids growing from taken over waiting to queued. *)
LEMMA OrderStep ==
  ASSUME KeyInv, Ordered, [Next]_vars
  PROVE  Ordered'
<1>0. /\ TypeOK /\ WaitingKeyed
      /\ q \in Seq(Message) /\ waiting \in [Keys -> Seq(Message)]
      /\ taken \subseteq Message /\ sent \in Nat
  BY DEF KeyInv, TypeOK
<1>a. Range(q) \subseteq Message /\ \A k \in Keys : Range(waiting[k]) \subseteq Message
  BY <1>0, RangeElements
<1>b. InWaiting \subseteq Message /\ \A m \in Message : m.id \in Nat
  BY <1>a DEF InWaiting, Message
<1>c. \A k \in Keys : Range(waiting[k]) \subseteq InWaiting
  BY DEF InWaiting
<1>1. CASE UNCHANGED <<q, waiting, sent, taken>>
  BY <1>1 DEF Ordered, Ascending, InWaiting
<1>2. ASSUME NEW s \in Senders, NEW k \in Keys, SendPush(s, k) PROVE Ordered'
  <2> DEFINE m == [id |-> sent + 1, k |-> k]
  <2>1. /\ m \in Message /\ m.id = sent + 1
        /\ Range(q') = Range(q) \union {m}
        /\ UNCHANGED <<waiting, InWaiting, taken>>
        /\ sent' = sent + 1
    BY <1>0, <1>2, PushMoves
  <2>2. \A n \in Range(q) \union InWaiting \union taken : n.id < m.id
    BY <1>0, <1>a, <1>b, <2>1 DEF Ordered
  <2>3. Ascending(q')
    BY <1>0, <1>2, <2>1, <2>2, AscendingAppend DEF Ordered, SendPush
  <2>4. \A n \in Range(q') \union InWaiting' \union taken' : n.id \in 1 .. sent'
    BY <1>0, <1>a, <1>b, <2>1 DEF Ordered
  <2>5. \A n \in taken' \union InWaiting', o \in Range(q') : n.id < o.id
    BY <2>1, <2>2 DEF Ordered
  <2> QED
    BY <2>1, <2>3, <2>4, <2>5 DEF Ordered
<1>3. CASE DrainHandOver
  <2>1. PICK k \in Keys :
          LET m == Head(waiting[k]) IN
             /\ waiting[k] # <<>>
             /\ m \in Range(waiting[k])
             /\ m \in InWaiting
             /\ m.k = k
             /\ waiting' = [waiting EXCEPT ![k] = Tail(waiting[k])]
             /\ Range(waiting[k]) = {m} \union Range(Tail(waiting[k]))
             /\ InWaiting = InWaiting' \union {m}
             /\ taken' = taken \union {m}
             /\ UNCHANGED <<q, sent>>
    BY <1>0, <1>3, HandOverMoves
  <2> DEFINE m == Head(waiting[k])
  <2>2. \A j \in Keys : waiting'[j] = IF j = k THEN Tail(waiting[k]) ELSE waiting[j]
    BY <1>0, <2>1
  <2>3. Ascending(Tail(waiting[k])) /\ \A n \in Range(Tail(waiting[k])) : m.id < n.id
    BY <1>0, <2>1, AscendingTail DEF Ordered
  <2>4. \A j \in Keys : Ascending(waiting'[j])
    BY <2>2, <2>3 DEF Ordered
  <2>5. taken' \union InWaiting' = taken \union InWaiting
    BY <2>1
  <2>6. ASSUME NEW j \in Keys, NEW n \in taken', NEW o \in Range(waiting'[j]), n.k = j
        PROVE  n.id < o.id
    <3>1. CASE n \in taken
      BY <2>1, <2>2, <2>6, <3>1 DEF Ordered
    <3>2. CASE n = m
      BY <2>1, <2>2, <2>3, <2>6, <3>2
    <3> QED
      BY <2>1, <3>1, <3>2
  <2>7. Ascending(q') /\ \A n \in Range(q') : n.id \in 1 .. sent'
    BY <2>1 DEF Ordered
  <2>8. \A n \in taken' \union InWaiting', o \in Range(q') : n.id < o.id
    BY <2>1, <2>5 DEF Ordered
  <2>9. \A n \in taken' \union InWaiting' : n.id \in 1 .. sent'
    BY <2>1, <2>5 DEF Ordered
  <2> QED
    BY <2>4, <2>6, <2>7, <2>8, <2>9 DEF Ordered
<1>4. CASE PopConflict
  <2> DEFINE m == Head(q)
  <2>1. /\ m \in Message /\ m.k \in Keys /\ m \in Range(q)
        /\ Range(q) = {m} \union Range(q')
        /\ waiting' = [waiting EXCEPT ![m.k] = Append(waiting[m.k], m)]
        /\ Range(Append(waiting[m.k], m)) = Range(waiting[m.k]) \union {m}
        /\ InWaiting' = InWaiting \union {m}
        /\ UNCHANGED <<sent, taken>>
    BY <1>0, <1>4, ConflictMoves
  <2>2. \A j \in Keys : waiting'[j] = IF j = m.k THEN Append(waiting[m.k], m) ELSE waiting[j]
    BY <1>0, <2>1
  <2>3. Ascending(q') /\ \A n \in Range(q') : m.id < n.id
    BY <1>0, <1>4, AscendingTail DEF Ordered, PopConflict
  <2>4. \A n \in taken \union InWaiting : n.id < m.id
    BY <2>1 DEF Ordered
  <2>5. Ascending(Append(waiting[m.k], m))
    BY <1>0, <1>c, <2>1, <2>4, AscendingAppend DEF Ordered
  <2>6. \A j \in Keys : Ascending(waiting'[j])
    BY <2>2, <2>5 DEF Ordered
  <2>7. \A j \in Keys : \A n \in taken', o \in Range(waiting'[j]) : n.k = j => n.id < o.id
    BY <2>1, <2>2, <2>4 DEF Ordered
  <2>8. \A n \in taken' \union InWaiting', o \in Range(q') : n.id < o.id
    BY <2>1, <2>3 DEF Ordered
  <2>9. \A n \in Range(q') \union taken' \union InWaiting' : n.id \in 1 .. sent'
    BY <2>1 DEF Ordered
  <2> QED
    BY <2>3, <2>6, <2>7, <2>8, <2>9 DEF Ordered
<1>5. CASE PopFresh
  <2> DEFINE m == Head(q)
  <2>1. /\ m \in Message /\ m.k \in Keys /\ m \in Range(q)
        /\ waiting[m.k] = <<>>
        /\ Range(q) = {m} \union Range(q')
        /\ taken' = taken \union {m}
        /\ UNCHANGED <<waiting, InWaiting, sent>>
    BY <1>0, <1>5, FreshMoves
  <2>2. Ascending(q') /\ \A n \in Range(q') : m.id < n.id
    BY <1>0, <1>5, AscendingTail DEF Ordered, PopFresh
  <2>3. Range(waiting[m.k]) = {}
    BY <2>1 DEF Range
  <2>4. \A j \in Keys : \A n \in taken', o \in Range(waiting'[j]) : n.k = j => n.id < o.id
    BY <2>1, <2>3 DEF Ordered
  <2>5. \A n \in taken' \union InWaiting', o \in Range(q') : n.id < o.id
    BY <2>1, <2>2 DEF Ordered
  <2>6. \A n \in Range(q') \union taken' \union InWaiting' : n.id \in 1 .. sent'
    BY <2>1 DEF Ordered
  <2>7. \A j \in Keys : Ascending(waiting'[j])
    BY <2>1 DEF Ordered
  <2> QED
    BY <2>2, <2>4, <2>5, <2>6, <2>7 DEF Ordered
<1> QED
  BY <1>1, <1>2, <1>3, <1>4, <1>5, MovingActions

(* Initially nothing is sent, waiting or taken. *)
LEMMA InitOrdered ==
  Init => /\ Range(q) = {} /\ InWaiting = {} /\ taken = {} /\ sent = 0 /\ held = {}
          /\ Ordered
<1> SUFFICES ASSUME Init
             PROVE  /\ Range(q) = {} /\ InWaiting = {}
                    /\ taken = {} /\ sent = 0 /\ held = {}
                    /\ Ordered
  OBVIOUS
<1>1. Range(q) = {} /\ Ascending(q)
  BY DEF Init, Range, Ascending
<1>2. InWaiting = {} /\ \A k \in Keys : Ascending(waiting[k]) /\ Range(waiting[k]) = {}
  BY DEF Init, Range, Ascending, InWaiting
<1> QED
  BY <1>1, <1>2 DEF Init, Ordered

(* The order of ids is inductive with the key bookkeeping. *)
LEMMA OrderInvariance == Spec => [](KeyInv /\ Ordered)
<1>1. Init => Ordered
  BY InitOrdered
<1>2. KeyInv /\ Ordered /\ [Next]_vars => Ordered'
  BY OrderStep
<1> QED
  BY <1>1, <1>2, KeyInvariance, PTL DEF Spec

(* What the order of ids says about one key. *)
LEMMA OrderedIsFifo == KeyInv /\ Ordered => PerKeyFifo
<1> SUFFICES ASSUME KeyInv, Ordered, NEW m \in taken, NEW n \in Untaken, m.k = n.k
             PROVE  m.id < n.id
  BY DEF PerKeyFifo
<1>1. CASE n \in Range(q)
  BY <1>1 DEF Ordered
<1>2. CASE n \in InWaiting
  <2>1. PICK k \in Keys : n \in Range(waiting[k])
    BY <1>2 DEF InWaiting
  <2>2. n.k = k
    BY <2>1 DEF KeyInv, WaitingKeyed
  <2> QED
    BY <2>1, <2>2 DEF Ordered
<1> QED
  BY <1>1, <1>2 DEF Untaken

(* Messages with equal keys are returned in the order they were pushed,    *)
(* and none twice.                                                         *)
THEOREM Fifo == Spec => []PerKeyFifo
  BY OrderInvariance, OrderedIsFifo, PTL

(* No move loses a message. *)
LEMMA NothingLostStep ==
  ASSUME KeyInv, NothingLost, [Next]_vars
  PROVE  NothingLost'
<1>0. TypeOK /\ WaitingKeyed /\ sent \in Nat
  BY DEF KeyInv, TypeOK
<1> DEFINE All == taken \union Untaken
<1>1. ASSUME sent' = sent, All' = All PROVE NothingLost'
  BY <1>1 DEF NothingLost
<1>2. CASE UNCHANGED <<q, waiting, sent, taken>>
  <2>1. All' = All
    BY <1>2 DEF Untaken, InWaiting
  <2> QED
    BY <1>1, <1>2, <2>1
<1>3. ASSUME NEW s \in Senders, NEW k \in Keys, SendPush(s, k) PROVE NothingLost'
  <2> DEFINE m == [id |-> sent + 1, k |-> k]
  <2>1. All' = All \union {m} /\ sent' = sent + 1
    BY <1>0, <1>3, PushMoves DEF Untaken
  <2>2. \A i \in 1 .. sent' : i \in 1 .. sent \/ i = m.id
    BY <1>0, <2>1
  <2> QED
    BY <2>1, <2>2 DEF NothingLost
<1>4. CASE DrainHandOver
  BY <1>0, <1>1, <1>4, HandOverMoves DEF Untaken
<1>5. CASE PopConflict
  BY <1>0, <1>1, <1>5, ConflictMoves DEF Untaken
<1>6. CASE PopFresh
  BY <1>0, <1>1, <1>6, FreshMoves DEF Untaken
<1> QED
  BY <1>2, <1>3, <1>4, <1>5, <1>6, MovingActions

(* Every pushed message is still in the channel or was returned. *)
THEOREM NoMessageLost == Spec => []NothingLost
<1>1. Init => NothingLost
  BY InitOrdered DEF NothingLost
<1>2. KeyInv /\ NothingLost /\ [Next]_vars => NothingLost'
  BY NothingLostStep
<1> QED
  BY <1>1, <1>2, KeyInvariance, PTL DEF Spec

------------------------------------------------------------------------------
(* Refinement of ConflictQueue *)

(* Abstract forgets nothing, so it commutes with adding and removing. *)
LEMMA AbstractChanges ==
  ASSUME NEW S \in SUBSET Message, NEW m \in Message
  PROVE  /\ Abstract(S \union {m}) = Abstract(S) \union {[id |-> m.id, ks |-> {m.k}]}
         /\ Abstract(S \ {m}) = Abstract(S) \ {[id |-> m.id, ks |-> {m.k}]}
<1>1. \A n \in Message : [id |-> n.id, ks |-> {n.k}] = [id |-> m.id, ks |-> {m.k}] => n = m
  <2> SUFFICES ASSUME NEW n \in Message,
                      [id |-> n.id, ks |-> {n.k}] = [id |-> m.id, ks |-> {m.k}]
               PROVE  n = m
    OBVIOUS
  <2>1. n.id = m.id /\ {n.k} = {m.k}
    OBVIOUS
  <2>2. n.k = m.k
    BY <2>1
  <2>3. n = [id |-> n.id, k |-> n.k] /\ m = [id |-> m.id, k |-> m.k]
    BY DEF Message
  <2> QED
    BY <2>1, <2>2, <2>3
<1>2. Abstract(S \union {m}) = Abstract(S) \union {[id |-> m.id, ks |-> {m.k}]}
  BY DEF Abstract
<1>3. Abstract(S \ {m}) = Abstract(S) \ {[id |-> m.id, ks |-> {m.k}]}
  BY <1>1 DEF Abstract
<1> QED
  BY <1>2, <1>3

(* Returning the oldest message of a key that nobody holds is a Take. *)
LEMMA TakeRefines ==
  ASSUME Untaken \subseteq Message, held \subseteq Message,
         NEW m \in Untaken,
         \A n \in Untaken : n.k = m.k => m.id <= n.id,
         \A n \in held : n.k # m.k,
         Untaken' = Untaken \ {m}, held' = held \union {m}, sent' = sent
  PROVE  Conflict!FifoNext
<1> DEFINE a == [id |-> m.id, ks |-> {m.k}]
<1>1. a \in Abstract(Untaken)
  BY DEF Abstract
<1>2. Abstract(Untaken)' = Abstract(Untaken) \ {a}
  BY AbstractChanges DEF Abstract
<1>3. Abstract(held)' = Abstract(held) \union {a}
  BY AbstractChanges DEF Abstract
<1>4. Conflict!Unconflicted(a)
  BY DEF Conflict!Unconflicted, Abstract
<1>5. Conflict!Oldest(a)
  BY DEF Conflict!Oldest, Abstract
<1>6. Conflict!Take(a)
  BY <1>1, <1>2, <1>3, <1>4 DEF Conflict!Take
<1> QED
  BY <1>1, <1>5, <1>6 DEF Conflict!FifoNext

(* Every step of the channel is a step of the conflict queue with per-key  *)
(* order, or leaves its state alone.                                       *)
LEMMA StepRefines ==
  ASSUME KeyInv, Ordered, [Next]_vars
  PROVE  [Conflict!FifoNext]_(Conflict!vars)
<1>0. /\ TypeOK /\ WaitingKeyed /\ PerKeyFifo
      /\ held \subseteq Message /\ waiting \in [Keys -> Seq(Message)] /\ q \in Seq(Message)
  BY OrderedIsFifo DEF KeyInv, TypeOK
<1>1. Untaken \subseteq Message
  BY <1>0, RangeElements DEF Untaken, InWaiting
<1>2. ASSUME NEW m \in held, DropMessage(m) PROVE Conflict!FifoNext
  <2> DEFINE a == [id |-> m.id, ks |-> {m.k}]
  <2>1. held' = held \ {m} /\ UNCHANGED <<sent, q, waiting>>
    BY <1>2 DEF DropMessage, keyVars
  <2>2. a \in Abstract(held)
    BY DEF Abstract
  <2>3. Abstract(held)' = Abstract(held) \ {a}
    BY <1>0, <2>1, AbstractChanges DEF Abstract
  <2>4. Abstract(Untaken)' = Abstract(Untaken)
    BY <2>1 DEF Abstract, Untaken, InWaiting
  <2>5. Conflict!Release(a)
    BY <2>1, <2>2, <2>3, <2>4 DEF Conflict!Release
  <2> QED
    BY <2>2, <2>5 DEF Conflict!FifoNext
<1>3. ASSUME NEW s \in Senders, NEW k \in Keys, SendPush(s, k) PROVE Conflict!FifoNext
  <2> DEFINE m == [id |-> sent + 1, k |-> k]
             a == [id |-> sent + 1, ks |-> {k}]
  <2>1. /\ m \in Message /\ sent' = sent + 1 /\ held' = held
        /\ Untaken' = Untaken \union {m}
    BY <1>0, <1>3, PushMoves DEF Untaken
  <2>2. Abstract(Untaken)' = Abstract(Untaken) \union {a}
    BY <1>1, <2>1, AbstractChanges DEF Abstract
  <2>3. Abstract(held)' = Abstract(held)
    BY <2>1 DEF Abstract
  <2>4. Conflict!Send({k})
    BY <2>1, <2>2, <2>3 DEF Conflict!Send
  <2> QED
    BY <2>4 DEF Conflict!FifoNext
<1>4. CASE DrainHandOver
  <2>1. PICK k \in Keys :
          LET m == Head(waiting[k]) IN
             /\ k \in ReturnedKeys
             /\ waiting[k] # <<>>
             /\ m \in Range(waiting[k])
             /\ m \in InWaiting
             /\ m.k = k
             /\ waiting' = [waiting EXCEPT ![k] = Tail(waiting[k])]
             /\ Range(waiting[k]) = {m} \union Range(Tail(waiting[k]))
             /\ InWaiting = InWaiting' \union {m}
             /\ taken' = taken \union {m}
             /\ held' = held \union {m}
             /\ UNCHANGED <<q, sent>>
    BY <1>0, <1>4, HandOverMoves
  <2> DEFINE m == Head(waiting[k])
  <2>2. \A n \in Range(Tail(waiting[k])) : m.id < n.id
    BY <1>0, <2>1, AscendingTail DEF Ordered
  <2>3. m \in Message /\ m.id \in Nat
    BY <1>1, <2>1 DEF Untaken, Message
  <2>4. m \notin taken
    BY <2>1, <2>3 DEF Ordered
  <2>5. \A j \in Keys : waiting'[j] = IF j = k THEN Tail(waiting[k]) ELSE waiting[j]
    BY <1>0, <2>1
  <2>6. m \notin InWaiting'
    <3> SUFFICES ASSUME NEW j \in Keys, m \in Range(waiting'[j]) PROVE FALSE
      BY DEF InWaiting
    <3>1. j = k
      BY <1>0, <2>1, <2>5 DEF WaitingKeyed
    <3> QED
      BY <2>2, <2>3, <2>5, <3>1
  <2>7. m \notin Range(q)
    BY <2>1, <2>3 DEF Ordered
  <2>8. Untaken' = Untaken \ {m} /\ m \in Untaken
    BY <2>1, <2>6, <2>7 DEF Untaken
  <2>9. \A n \in held : n.k # m.k
    BY <2>1 DEF KeyInv, KeyAccounted
  <2>10. \A n \in Untaken : n.k = m.k => m.id <= n.id
    <3> SUFFICES ASSUME NEW n \in Untaken, n.k = k PROVE m.id <= n.id
      BY <2>1
    <3>0. n.id \in Nat
      BY <1>1 DEF Message
    <3>1. CASE n \in Range(q)
      BY <2>1, <2>3, <3>0, <3>1 DEF Ordered
    <3>2. CASE n \in InWaiting
      <4>1. PICK j \in Keys : n \in Range(waiting[j])
        BY <3>2 DEF InWaiting
      <4>2. n \in Range(waiting[k])
        BY <4>1, <1>0 DEF WaitingKeyed
      <4> QED
        BY <2>1, <2>2, <2>3, <3>0, <4>2
    <3> QED
      BY <3>1, <3>2 DEF Untaken
  <2> QED
    BY <1>0, <1>1, <2>1, <2>8, <2>9, <2>10, TakeRefines
<1>5. CASE PopFresh
  <2> DEFINE m == Head(q)
  <2>1. /\ m \in Message /\ m.k \in Keys /\ m \in Range(q)
        /\ m.k \notin using /\ waiting[m.k] = <<>>
        /\ Range(q) = {m} \union Range(q')
        /\ held' = held \union {m}
        /\ UNCHANGED <<waiting, InWaiting, sent>>
    BY <1>0, <1>5, FreshMoves
  <2>2. \A n \in Range(q') : m.id < n.id
    BY <1>0, <1>5, AscendingTail DEF Ordered, PopFresh
  <2>3. m.id \in Nat
    BY <2>1 DEF Message
  <2>4. \A n \in InWaiting : n.k # m.k
    <3> SUFFICES ASSUME NEW j \in Keys, NEW n \in Range(waiting[j]), n.k = m.k PROVE FALSE
      BY DEF InWaiting
    <3>1. j = m.k
      BY <1>0 DEF WaitingKeyed
    <3> QED
      BY <2>1, <3>1 DEF Range
  <2>5. Untaken' = Untaken \ {m} /\ m \in Untaken
    BY <2>1, <2>2, <2>3, <2>4 DEF Untaken
  <2>6. \A n \in held : n.k # m.k
    BY <2>1 DEF KeyInv, KeyAccounted
  <2>7. \A n \in Untaken : n.k = m.k => m.id <= n.id
    <3> SUFFICES ASSUME NEW n \in Range(q) PROVE m.id <= n.id
      BY <2>4 DEF Untaken
    <3>1. n.id \in Nat
      BY <1>1 DEF Untaken, Message
    <3> QED
      BY <2>1, <2>2, <2>3, <3>1
  <2> QED
    BY <1>0, <1>1, <2>1, <2>5, <2>6, <2>7, TakeRefines
<1>6. CASE PopConflict
  <2>1. Untaken' = Untaken /\ UNCHANGED <<sent, held>>
    BY <1>0, <1>6, ConflictMoves DEF Untaken
  <2> QED
    BY <2>1 DEF Conflict!vars, Abstract
<1>7. CASE UNCHANGED <<q, waiting, sent, held>>
  BY <1>7 DEF Conflict!vars, Abstract, Untaken, InWaiting
<1>8. CASE DrainRelease
  BY <1>7, <1>8 DEF DrainRelease, msgVars
<1>9. CASE UNCHANGED <<q, waiting, sent, taken>> /\ UNCHANGED <<dropKeyQ, using, waiting, held>>
  BY <1>7, <1>9
<1> QED
  BY <1>2, <1>3, <1>4, <1>5, <1>6, <1>8, <1>9, MovingActions, KeyActions

(* The channel implements what README.md:11 promises of it: a conflict     *)
(* queue that takes the messages of a key in the order they were sent.     *)
THEOREM Implementation == Spec => ImplementsConflictQueue
<1>1. Init => Conflict!Init
  BY InitOrdered DEF Init, Conflict!Init, Abstract, Untaken
<1>2. KeyInv /\ Ordered /\ [Next]_vars => [Conflict!FifoNext]_(Conflict!vars)
  BY StepRefines
<1> QED
  BY <1>1, <1>2, OrderInvariance, PTL DEF Spec, ImplementsConflictQueue, Conflict!FifoSpec
==============================================================================
