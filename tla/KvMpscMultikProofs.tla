-------------------------- MODULE KvMpscMultikProofs --------------------------
(***************************************************************************)
(* Proofs about KvMpscMultik for every number of sender handles and        *)
(* messages and every set of keys and of key lists.  The inductive         *)
(* invariant is the conjunction of the parts below; each lemma uses only   *)
(* the parts it needs.                                                     *)
(***************************************************************************)
EXTENDS KvMpscMultik, SequenceLemmas, TLAPS

(* A message is only ever registered with its own keys. *)
RegisteredKeyed == \A k \in Keys : \A m \in registered[k] : k \in m.ks

(* Who has a key that is in use, besides drop_key_q. *)
Owners == held \union releasing
OwnedKeys == UNION {m.ks : m \in Owners}

KeyInv == TypeOK /\ RegisteredKeyed /\ KeyAccounted

(* A message is in one place only, and its id is not given out again. *)
Separate ==
  /\ \A m \in taken \union Untaken : m.id \in 1 .. sent
  /\ waiting \intersect Range(q) = {}
  /\ IsInjective(q)

PlaceInv == TypeOK /\ Separate /\ NothingLost

(* What the receiver has looked at and found absent since its listener was *)
(* set up: each has a notify on the way once it appears.                   *)
PushedComing == \E s \in Senders : spc[s] = "pushed"
FlaggedComing == \E s \in Senders : spc[s] = "flagged"

WakeupInv ==
  listener = "listening" =>
    /\ rpc \in {"recheckKeys", "checkClosed", "wait"} /\ q # <<>> => PushedComing
    /\ rpc \in {"checkClosed", "wait"} /\ dropKeyQ # <<>> => releasing # {}
    /\ rpc = "wait" /\ sendersDropped /\ waiting = {} => FlaggedComing

(* The flag is on its way only when no handle is left, and Closed stands   *)
(* only as long as no recv is under way that could make a message wait.    *)
CloseInv ==
  /\ (\E s \in Senders : spc[s] \in {"flag", "flagged"}) => LiveHandles = {}
  /\ sendersDropped => LiveHandles = {}
  /\ rpc = "closed" => sendersDropped /\ waiting = {}

------------------------------------------------------------------------------
(* Type correctness *)

LEMMA InitTypeOK == Init => TypeOK
<1> SUFFICES ASSUME Init PROVE TypeOK
  OBVIOUS
<1>1. q \in Seq(Message) /\ dropKeyQ \in Seq(Keys)
  BY DEF Init
<1>2. spc \in [Senders -> SenderPc]
  BY DEF Init, SenderPc
<1> QED
  BY <1>1, <1>2 DEF Init, TypeOK, ReceiverPc

(* A popped message is one that was sent. *)
LEMMA PoppedMessage ==
  ASSUME TypeOK, q # <<>>
  PROVE  Head(q) \in Message /\ Tail(q) \in Seq(Message) /\ Head(q).ks \subseteq Keys
<1>1. q \in Seq(Message)
  BY DEF TypeOK
<1>2. Head(q) \in Message /\ Tail(q) \in Seq(Message)
  BY <1>1
<1> QED
  BY <1>2 DEF Message

(* So is a popped key one of the keys. *)
LEMMA PoppedKey ==
  ASSUME TypeOK, dropKeyQ # <<>>
  PROVE  Head(dropKeyQ) \in Keys /\ Tail(dropKeyQ) \in Seq(Keys)
<1>1. dropKeyQ \in Seq(Keys)
  BY DEF TypeOK
<1> QED
  BY <1>1

(* Senders touch q, their own counters, the flag and the event. *)
LEMMA SenderTypeStep ==
  ASSUME TypeOK, NEW s \in Senders, SenderStep(s)
  PROVE  TypeOK'
<1> USE DEF TypeOK, queues, flags, manager, msgVars, SenderGoes, SenderPc, ReceiverPc
<1>1. ASSUME NEW ks \in KeySets, SendPush(s, ks) PROVE TypeOK'
  <2>1. [id |-> sent + 1, ks |-> ks] \in Message
    BY ConstantsAssumption DEF Message
  <2>2. q' \in Seq(Message)
    BY <1>1, <2>1 DEF SendPush
  <2> QED
    BY <1>1, <2>2 DEF SendPush
<1>2. CASE SendNotify(s)
  BY <1>2 DEF SendNotify, NotifyEvent
<1>3. CASE SetSendersDropped(s)
  BY <1>3 DEF SetSendersDropped
<1>4. CASE NotifySendersDropped(s)
  BY <1>4 DEF NotifySendersDropped, NotifyEvent
<1> QED
  BY <1>1, <1>2, <1>3, <1>4 DEF SenderStep

(* The receiver moves messages between q, its manager and the caller; a    *)
(* message that goes on waiting stays registered with all its keys.        *)
LEMMA RecvTypeStep ==
  ASSUME TypeOK, RecvStep
  PROVE  TypeOK'
<1> USE DEF TypeOK, queues, flags, manager, msgVars, SenderPc, ReceiverPc
<1>1. ASSUME NEW m \in waiting, DrainHandOver(m) PROVE TypeOK'
  <2> DEFINE k == Head(dropKeyQ)
  <2>1. k \in Keys /\ dropKeyQ' \in Seq(Keys)
    BY <1>1, PoppedKey DEF DrainHandOver
  <2>2. m \in Message /\ m.ks \subseteq Keys
    BY DEF Message
  <2>3. /\ registered' = [registered EXCEPT ![k] = registered[k] \ {m}]
        /\ waiting' = waiting \ {m}
    BY <1>1 DEF DrainHandOver
  <2>4. registered' \in [Keys -> SUBSET Message]
    BY <2>1, <2>3
  <2>5. \A n \in waiting' : \A j \in n.ks : n \in registered'[j]
    BY <2>1, <2>3
  <2> QED
    BY <1>1, <2>1, <2>2, <2>3, <2>4, <2>5 DEF DrainHandOver, Return
<1>2. CASE DrainRelease
  BY <1>2, PoppedKey DEF DrainRelease
<1>3. CASE DrainPanic
  BY <1>3, PoppedKey DEF DrainPanic
<1>4. CASE PopConflict
  <2> DEFINE m == Head(q)
  <2>1. m \in Message /\ q' \in Seq(Message) /\ m.ks \subseteq Keys
    BY <1>4, PoppedMessage DEF PopConflict
  <2>2. /\ registered' = [j \in Keys |-> registered[j] \union (IF j \in m.ks THEN {m} ELSE {})]
        /\ waiting' = waiting \union {m}
    BY <1>4 DEF PopConflict, Registered, Enlisted
  <2>3. registered' \in [Keys -> SUBSET Message]
    BY <2>1, <2>2
  <2>4. \A n \in waiting' : \A j \in n.ks : n \in registered'[j]
    <3> SUFFICES ASSUME NEW n \in waiting', NEW j \in n.ks PROVE n \in registered'[j]
      OBVIOUS
    <3>1. j \in Keys
      BY <2>1, <2>2 DEF Message
    <3> QED
      BY <2>2, <3>1
  <2> QED
    BY <1>4, <2>1, <2>2, <2>3, <2>4 DEF PopConflict
<1>5. CASE PopFresh
  BY <1>5, PoppedMessage DEF PopFresh, Return
<1>6. CASE DrainDone \/ PopEmpty \/ RecheckQueue \/ RecheckKeys \/ CheckClosed
  BY <1>6 DEF DrainDone, PopEmpty, RecheckQueue, RecheckKeys, CheckClosed
<1>7. CASE Wait \/ Listen
  BY <1>7 DEF Wait, Listen
<1> QED
  BY <1>1, <1>2, <1>3, <1>4, <1>5, <1>6, <1>7 DEF RecvStep

LEMMA DropTypeStep ==
  ASSUME TypeOK, NEW m \in held \union releasing, DropStep(m)
  PROVE  TypeOK'
<1> USE DEF TypeOK, queues, flags, manager
<1>1. m \in Message
  OBVIOUS
<1>2. ASSUME NEW k \in m.ks, DropKey(m, k) PROVE TypeOK'
  <2>1. k \in Keys /\ [m EXCEPT !.ks = @ \ {k}] \in Message
    BY <1>1 DEF Message
  <2>2. dropKeyQ' \in Seq(Keys)
    BY <1>2, <2>1 DEF DropKey
  <2> QED
    BY <1>2, <2>1, <2>2 DEF DropKey
<1>3. CASE DropNotify(m)
  BY <1>3 DEF DropNotify, NotifyEvent
<1> QED
  BY <1>2, <1>3 DEF DropStep

LEMMA TypeStep == TypeOK /\ [Next]_vars => TypeOK'
<1> SUFFICES ASSUME TypeOK, [Next]_vars PROVE TypeOK'
  OBVIOUS
<1> USE DEF TypeOK, vars, queues, flags, manager, msgVars, SenderGoes, SenderPc, ReceiverPc
<1>1. ASSUME NEW s \in Senders, NEW t \in Senders, CloneSender(s, t) PROVE TypeOK'
  BY <1>1 DEF CloneSender
<1>2. ASSUME NEW s \in Senders, SendRefused(s) \/ SendChecked(s) PROVE TypeOK'
  BY <1>2 DEF SendRefused, SendChecked
<1>3. ASSUME NEW s \in Senders, DropSender(s) PROVE TypeOK'
  BY <1>3 DEF DropSender
<1>4. CASE CallRecv
  BY <1>4 DEF CallRecv
<1>5. CASE DropReceiver
  BY <1>5 DEF DropReceiver
<1>6. CASE Terminated \/ UNCHANGED vars
  BY <1>6 DEF Terminated
<1> QED
  BY <1>1, <1>2, <1>3, <1>4, <1>5, <1>6, SenderTypeStep, RecvTypeStep, DropTypeStep DEF Next

(* The types of the channel and its ConflictManager: a waiting message is  *)
(* registered with each of its keys (kv_mpsc_multik.rs:228-254).           *)
THEOREM TypeCorrect == Spec => []TypeOK
  BY InitTypeOK, TypeStep, PTL DEF Spec

------------------------------------------------------------------------------
(* Keys have one owner *)

(* Only seven actions touch a key: the others leave the manager, the keys  *)
(* on their way back and the Messages alone.                               *)
LEMMA KeyActions ==
  ASSUME [Next]_vars
  PROVE  \/ UNCHANGED <<dropKeyQ, manager, held, releasing>>
         \/ \E m \in waiting : DrainHandOver(m)
         \/ DrainRelease
         \/ DrainPanic
         \/ PopConflict
         \/ PopFresh
         \/ \E m \in Owners : DropStep(m)
<1> USE DEF vars, queues, flags, manager, msgVars, SenderGoes
<1>1. ASSUME NEW s \in Senders, SenderStep(s)
      PROVE  UNCHANGED <<dropKeyQ, manager, held, releasing>>
  BY <1>1 DEF SenderStep, SendPush, SendNotify, SetSendersDropped, NotifySendersDropped
<1>2. DrainDone \/ PopEmpty \/ RecheckQueue \/ RecheckKeys \/ CheckClosed \/ Wait \/ Listen
      => UNCHANGED <<dropKeyQ, manager, held, releasing>>
  BY DEF DrainDone, PopEmpty, RecheckQueue, RecheckKeys, CheckClosed, Wait, Listen
<1> QED
  BY <1>1, <1>2
     DEF Next, RecvStep, Owners, CloneSender, SendRefused, SendChecked, DropSender, CallRecv,
     DropReceiver, Terminated

(* The parts of KeyAccounted under names. *)
LEMMA Accounts ==
  KeyAccounted <=> /\ using = OwnedKeys \union Range(dropKeyQ)
                   /\ OwnedKeys \intersect Range(dropKeyQ) = {}
                   /\ \A m, n \in Owners : m = n \/ m.ks \intersect n.ks = {}
                   /\ IsInjective(dropKeyQ)
  BY DEF KeyAccounted, Owners, OwnedKeys

(* The head of drop_key_q leaves it for good. *)
LEMMA HeadLeaves ==
  ASSUME TypeOK, KeyAccounted, dropKeyQ # <<>>, dropKeyQ' = Tail(dropKeyQ)
  PROVE  /\ Range(dropKeyQ) = {Head(dropKeyQ)} \union Range(dropKeyQ')
         /\ Head(dropKeyQ) \notin Range(dropKeyQ')
         /\ IsInjective(dropKeyQ')
  BY RangeHeadTail, InjectiveTail DEF TypeOK, KeyAccounted

(* A message takes keys that nobody has. *)
LEMMA OwnerAdded ==
  ASSUME KeyAccounted, NEW m, Owners' = Owners \union {m},
         m.ks \intersect OwnedKeys = {},
         m.ks \intersect Range(dropKeyQ') = {},
         Range(dropKeyQ') \subseteq Range(dropKeyQ),
         Range(dropKeyQ) \subseteq m.ks \union Range(dropKeyQ'),
         IsInjective(dropKeyQ'),
         using' = using \union m.ks
  PROVE  KeyAccounted'
<1>1. OwnedKeys' = OwnedKeys \union m.ks
  BY DEF OwnedKeys
<1>2. \A n, o \in Owners' : n = o \/ n.ks \intersect o.ks = {}
  BY Accounts DEF OwnedKeys
<1>3. using' = OwnedKeys' \union Range(dropKeyQ') /\ OwnedKeys' \intersect Range(dropKeyQ') = {}
  BY <1>1, Accounts
<1> QED
  BY <1>2, <1>3 DEF KeyAccounted, Owners, OwnedKeys

LEMMA HandOverKeys ==
  ASSUME KeyInv, NEW m \in waiting, DrainHandOver(m)
  PROVE  (RegisteredKeyed /\ KeyAccounted)'
<1> DEFINE k == Head(dropKeyQ)
<1>1. /\ dropKeyQ # <<>> /\ dropKeyQ' = Tail(dropKeyQ)
      /\ k \in Keys /\ m \in registered[k] /\ m.ks \intersect (using \ {k}) = {}
      /\ using' = using \union m.ks
      /\ registered' = [registered EXCEPT ![k] = registered[k] \ {m}]
      /\ Owners' = Owners \union {m}
  BY PoppedKey DEF KeyInv, DrainHandOver, Freed, InUse, Return, Owners
<1>2. k \in m.ks
  BY <1>1 DEF KeyInv, RegisteredKeyed
<1>3. /\ Range(dropKeyQ) = {k} \union Range(dropKeyQ')
      /\ k \notin Range(dropKeyQ')
      /\ IsInjective(dropKeyQ')
  BY <1>1, HeadLeaves DEF KeyInv
<1>4. m.ks \intersect OwnedKeys = {} /\ m.ks \intersect Range(dropKeyQ') = {}
  BY <1>1, <1>3, Accounts DEF KeyInv
<1>5. KeyAccounted'
  BY <1>1, <1>2, <1>3, <1>4, OwnerAdded DEF KeyInv
<1>6. RegisteredKeyed'
  BY <1>1 DEF KeyInv, TypeOK, RegisteredKeyed
<1> QED
  BY <1>5, <1>6

LEMMA FreshKeys ==
  ASSUME KeyInv, PopFresh
  PROVE  (RegisteredKeyed /\ KeyAccounted)'
<1> DEFINE m == Head(q)
<1>1. /\ m.ks \intersect using = {} /\ using' = using \union m.ks
      /\ Owners' = Owners \union {m}
      /\ UNCHANGED <<dropKeyQ, registered>>
  BY DEF PopFresh, InUse, Return, Owners
<1>2. m.ks \intersect OwnedKeys = {} /\ m.ks \intersect Range(dropKeyQ) = {}
  BY <1>1, Accounts DEF KeyInv
<1>3. KeyAccounted'
  BY <1>1, <1>2, OwnerAdded, Accounts DEF KeyInv
<1> QED
  BY <1>1, <1>3 DEF KeyInv, RegisteredKeyed

(* A key that comes back and frees nobody is free. *)
LEMMA KeyFreed ==
  ASSUME KeyInv, dropKeyQ # <<>>, dropKeyQ' = Tail(dropKeyQ),
         using' = using \ {Head(dropKeyQ)}, UNCHANGED <<registered, held, releasing>>
  PROVE  (RegisteredKeyed /\ KeyAccounted)'
<1>1. Owners' = Owners /\ OwnedKeys' = OwnedKeys
  BY DEF Owners, OwnedKeys
<1>2. using' = OwnedKeys' \union Range(dropKeyQ') /\ OwnedKeys' \intersect Range(dropKeyQ') = {}
  BY <1>1, HeadLeaves, Accounts DEF KeyInv
<1>3. KeyAccounted'
  BY <1>1, <1>2, HeadLeaves DEF KeyInv, KeyAccounted, Owners, OwnedKeys
<1> QED
  BY <1>3 DEF KeyInv, RegisteredKeyed

(* A key goes from its Message to drop_key_q. *)
LEMMA DropKeyKeys ==
  ASSUME KeyInv, NEW m \in Owners, NEW k \in m.ks, DropKey(m, k)
  PROVE  (RegisteredKeyed /\ KeyAccounted)'
<1> DEFINE r == [m EXCEPT !.ks = @ \ {k}]
<1>1. m \in Message /\ m.ks \subseteq Keys /\ k \in Keys /\ r.ks = m.ks \ {k}
  BY DEF KeyInv, TypeOK, Owners, Message
<1>2. /\ Owners' = (Owners \ {m}) \union {r}
      /\ dropKeyQ' = Append(dropKeyQ, k)
      /\ UNCHANGED <<using, registered>>
  BY DEF DropKey, Owners, manager
<1>3. Range(dropKeyQ') = Range(dropKeyQ) \union {k} /\ IsInjective(dropKeyQ')
  <2>1. k \notin Range(dropKeyQ)
    BY Accounts DEF KeyInv, OwnedKeys
  <2> QED
    BY <1>1, <1>2, <2>1, RangeAppend, InjectiveAppend, Accounts DEF KeyInv, TypeOK
<1>4. \A n \in Owners \ {m} : n.ks \intersect m.ks = {}
  BY Accounts DEF KeyInv
<1>5. OwnedKeys = m.ks \union UNION {n.ks : n \in Owners \ {m}}
  BY DEF OwnedKeys
<1>6. OwnedKeys' = r.ks \union UNION {n.ks : n \in Owners \ {m}}
  BY <1>2 DEF OwnedKeys
<1>7. OwnedKeys' = OwnedKeys \ {k}
  BY <1>1, <1>4, <1>5, <1>6
<1>8. k \in OwnedKeys
  BY <1>5
<1>9. \A n, o \in Owners' : n = o \/ n.ks \intersect o.ks = {}
  BY <1>1, <1>2, <1>4, Accounts DEF KeyInv
<1>10. using' = OwnedKeys' \union Range(dropKeyQ') /\ OwnedKeys' \intersect Range(dropKeyQ') = {}
  BY <1>2, <1>3, <1>7, <1>8, Accounts DEF KeyInv
<1>11. KeyAccounted'
  BY <1>3, <1>9, <1>10 DEF KeyAccounted, Owners, OwnedKeys
<1> QED
  BY <1>2, <1>11 DEF KeyInv, RegisteredKeyed

LEMMA DropNotifyKeys ==
  ASSUME KeyInv, NEW m \in Owners, DropNotify(m)
  PROVE  (RegisteredKeyed /\ KeyAccounted)'
<1>1. Owners' = Owners \ {m} /\ m.ks = {} /\ UNCHANGED <<dropKeyQ, using, registered>>
  BY DEF DropNotify, Owners, queues, manager
<1>2. OwnedKeys' = OwnedKeys
  BY <1>1 DEF OwnedKeys
<1>3. using' = OwnedKeys' \union Range(dropKeyQ') /\ OwnedKeys' \intersect Range(dropKeyQ') = {}
  BY <1>1, <1>2, Accounts DEF KeyInv
<1>4. KeyAccounted'
  BY <1>1, <1>3, Accounts DEF KeyInv, KeyAccounted, Owners, OwnedKeys
<1> QED
  BY <1>1, <1>4 DEF KeyInv, RegisteredKeyed

LEMMA KeyStep == KeyInv /\ [Next]_vars => KeyInv'
<1> SUFFICES ASSUME KeyInv, [Next]_vars PROVE (RegisteredKeyed /\ KeyAccounted)'
  BY TypeStep DEF KeyInv
<1>1. CASE UNCHANGED <<dropKeyQ, manager, held, releasing>>
  BY <1>1 DEF KeyInv, RegisteredKeyed, KeyAccounted, manager
<1>2. CASE DrainRelease
  BY <1>2, KeyFreed DEF DrainRelease, msgVars
<1>3. CASE DrainPanic
  BY <1>3, KeyFreed DEF DrainPanic, msgVars
<1>4. CASE PopConflict
  <2>1. registered' = [k \in Keys |-> registered[k] \union (IF k \in Head(q).ks THEN {Head(q)} ELSE {})]
        /\ UNCHANGED <<dropKeyQ, using, held, releasing>>
    BY <1>4 DEF PopConflict, Registered, msgVars
  <2> QED
    BY <2>1 DEF KeyInv, RegisteredKeyed, KeyAccounted
<1>5. ASSUME NEW m \in Owners, DropStep(m) PROVE (RegisteredKeyed /\ KeyAccounted)'
  BY <1>5, DropKeyKeys, DropNotifyKeys DEF DropStep
<1> QED
  BY <1>1, <1>2, <1>3, <1>4, <1>5, HandOverKeys, FreshKeys, KeyActions

LEMMA KeyInvariance == Spec => []KeyInv
<1>1. Init => KeyInv
  <2> SUFFICES ASSUME Init PROVE KeyInv
    OBVIOUS
  <2>1. Range(dropKeyQ) = {} /\ IsInjective(dropKeyQ)
    BY DEF Init, Range, IsInjective
  <2> QED
    BY <2>1, InitTypeOK DEF Init, KeyInv, RegisteredKeyed, KeyAccounted
<1> QED
  BY <1>1, KeyStep, PTL DEF Spec

(* Every key in use belongs to one Message not yet done dropping it, or is *)
(* once in drop_key_q: the asserts of set_use and set_unuse hold           *)
(* (kv_mpsc_multik.rs:114, 120, 125).                                      *)
THEOREM KeysAccounted == Spec => []KeyAccounted
  BY KeyInvariance, PTL DEF KeyInv

(* README.md:11: no two live Messages share a key, whatever key lists the  *)
(* messages have.                                                          *)
THEOREM Exclusion == Spec => []KeyExclusion
<1>1. KeyInv => KeyExclusion
  BY DEF KeyInv, KeyAccounted, KeyExclusion
<1> QED
  BY <1>1, KeyInvariance, PTL

------------------------------------------------------------------------------
(* Messages are in one place *)

(* Only four actions move a message between q, the manager and the caller. *)
LEMMA MovingActions ==
  ASSUME [Next]_vars
  PROVE  \/ UNCHANGED <<q, waiting, taken, sent>>
         \/ \E s \in Senders, ks \in KeySets : SendPush(s, ks)
         \/ \E m \in waiting : DrainHandOver(m)
         \/ PopConflict
         \/ PopFresh
<1> USE DEF vars, queues, flags, manager, msgVars, SenderGoes
<1>1. ASSUME NEW s \in Senders, SenderStep(s)
      PROVE  \/ UNCHANGED <<q, waiting, taken, sent>>
             \/ \E ks \in KeySets : SendPush(s, ks)
  BY <1>1 DEF SenderStep, SendNotify, SetSendersDropped, NotifySendersDropped
<1>2. \/ DrainRelease \/ DrainPanic \/ DrainDone \/ PopEmpty \/ RecheckQueue
      \/ RecheckKeys \/ CheckClosed \/ Wait \/ Listen
      => UNCHANGED <<q, waiting, taken, sent>>
  BY DEF DrainRelease, DrainPanic, DrainDone, PopEmpty, RecheckQueue, RecheckKeys,
     CheckClosed, Wait, Listen
<1>3. ASSUME NEW m \in held \union releasing, DropStep(m)
      PROVE  UNCHANGED <<q, waiting, taken, sent>>
  BY <1>3 DEF DropStep, DropKey, DropNotify
<1> QED
  BY <1>1, <1>2, <1>3
     DEF Next, RecvStep, CloneSender, SendRefused, SendChecked, DropSender, CallRecv,
     DropReceiver, Terminated

(* A pushed message is new to the channel. *)
LEMMA PushMoves ==
  ASSUME PlaceInv, NEW s \in Senders, NEW ks \in KeySets, SendPush(s, ks)
  PROVE  LET m == [id |-> sent + 1, ks |-> ks] IN
           /\ sent' = sent + 1
           /\ Range(q') = Range(q) \union {m}
           /\ Untaken' = Untaken \union {m}
           /\ m \notin taken \union Untaken
           /\ UNCHANGED <<waiting, taken>>
           /\ Separate'
<1> DEFINE m == [id |-> sent + 1, ks |-> ks]
<1>1. m \in Message /\ q \in Seq(Message) /\ sent \in Nat
  BY ConstantsAssumption DEF PlaceInv, TypeOK, Message
<1>2. q' = Append(q, m) /\ sent' = sent + 1 /\ UNCHANGED <<waiting, taken>>
  BY DEF SendPush, manager, msgVars
<1>3. m \notin taken \union Untaken
  <2>1. m.id = sent + 1
    OBVIOUS
  <2>2. m \in taken \union Untaken => m.id \in 1 .. sent
    BY DEF PlaceInv, Separate
  <2> QED
    BY <1>1, <2>1, <2>2
<1>4. Range(q') = Range(q) \union {m}
  BY <1>1, <1>2, RangeAppend
<1>5. IsInjective(q')
  BY <1>1, <1>2, <1>3, InjectiveAppend DEF PlaceInv, Separate, Untaken
<1>6. Untaken' = Untaken \union {m}
  BY <1>2, <1>4 DEF Untaken
<1>7. \A n \in (taken \union Untaken)' : n.id \in 1 .. sent'
  <2> SUFFICES ASSUME NEW n \in (taken \union Untaken)' PROVE n.id \in 1 .. sent + 1
    BY <1>2
  <2>1. CASE n = m
    BY <1>1, <2>1
  <2>2. CASE n # m
    BY <1>1, <1>2, <1>6, <2>2 DEF PlaceInv, Separate
  <2> QED
    BY <2>1, <2>2
<1>8. waiting' \intersect Range(q') = {}
  BY <1>2, <1>3, <1>4 DEF PlaceInv, Separate, Untaken
<1> QED
  BY <1>2, <1>3, <1>4, <1>5, <1>6, <1>7, <1>8 DEF Separate

(* The head of q leaves it for good. *)
LEMMA HeadMoves ==
  ASSUME PlaceInv, q # <<>>, q' = Tail(q)
  PROVE  /\ Head(q) \in Range(q)
         /\ Range(q') = Range(q) \ {Head(q)}
         /\ Head(q) \notin waiting
         /\ IsInjective(q')
<1>1. q \in Seq(Message) /\ IsInjective(q)
  BY DEF PlaceInv, TypeOK, Separate
<1>2. Range(q) = {Head(q)} \union Range(q') /\ Head(q) \notin Range(q') /\ IsInjective(q')
  BY <1>1, RangeHeadTail, InjectiveTail
<1> QED
  BY <1>2 DEF PlaceInv, Separate

(* A waiting message goes to the caller. *)
LEMMA HandOverMoves ==
  ASSUME PlaceInv, NEW m \in waiting, DrainHandOver(m)
  PROVE  /\ Untaken' = Untaken \ {m}
         /\ taken' = taken \union {m}
         /\ sent' = sent
         /\ Separate'
<1>1. /\ waiting' = waiting \ {m} /\ taken' = taken \union {m}
      /\ q' = q /\ sent' = sent
  BY DEF DrainHandOver, Return
<1>2. m \notin Range(q)
  BY DEF PlaceInv, Separate
<1> QED
  BY <1>1, <1>2 DEF PlaceInv, Separate, Untaken

(* So does the head of q when its keys are free. *)
LEMMA FreshMoves ==
  ASSUME PlaceInv, PopFresh
  PROVE  /\ Head(q) \in Untaken
         /\ Untaken' = Untaken \ {Head(q)}
         /\ taken' = taken \union {Head(q)}
         /\ sent' = sent
         /\ Separate'
<1>1. /\ q # <<>> /\ q' = Tail(q) /\ taken' = taken \union {Head(q)}
      /\ waiting' = waiting /\ sent' = sent
  BY DEF PopFresh, Return
<1>2. /\ Head(q) \in Range(q)
      /\ Range(q') = Range(q) \ {Head(q)}
      /\ Head(q) \notin waiting
      /\ IsInjective(q')
  BY <1>1, HeadMoves
<1> QED
  BY <1>1, <1>2 DEF PlaceInv, Separate, Untaken

(* Otherwise it stays in the channel. *)
LEMMA ConflictMoves ==
  ASSUME PlaceInv, PopConflict
  PROVE  /\ Untaken' = Untaken
         /\ UNCHANGED <<taken, sent>>
         /\ Separate'
<1>1. /\ q # <<>> /\ q' = Tail(q) /\ waiting' = waiting \union {Head(q)}
      /\ UNCHANGED <<taken, sent>>
  BY DEF PopConflict, Enlisted, msgVars
<1>2. /\ Head(q) \in Range(q)
      /\ Range(q') = Range(q) \ {Head(q)}
      /\ IsInjective(q')
  BY <1>1, HeadMoves
<1> QED
  BY <1>1, <1>2 DEF PlaceInv, Separate, Untaken

LEMMA PlaceStep == PlaceInv /\ [Next]_vars => PlaceInv'
<1> SUFFICES ASSUME PlaceInv, [Next]_vars PROVE (Separate /\ NothingLost)'
  BY TypeStep DEF PlaceInv
<1>1. CASE UNCHANGED <<q, waiting, taken, sent>>
  BY <1>1 DEF PlaceInv, Separate, NothingLost, Untaken
<1>2. ASSUME NEW s \in Senders, NEW ks \in KeySets, SendPush(s, ks)
      PROVE  (Separate /\ NothingLost)'
  <2> DEFINE m == [id |-> sent + 1, ks |-> ks]
  <2>1. /\ sent' = sent + 1 /\ Untaken' = Untaken \union {m} /\ taken' = taken
        /\ m \notin taken /\ Separate'
    BY <1>2, PushMoves
  <2>2. sent \in Nat /\ m.id = sent + 1
    BY DEF PlaceInv, TypeOK
  <2>3. ASSUME NEW i \in 1 .. sent + 1
        PROVE  \E n \in taken \union Untaken \union {m} : n.id = i
    <3>1. CASE i = sent + 1
      BY <2>2, <3>1
    <3>2. CASE i # sent + 1
      <4>1. i \in 1 .. sent
        BY <2>2, <3>2
      <4> QED
        BY <4>1 DEF PlaceInv, NothingLost
    <3> QED
      BY <3>1, <3>2
  <2>4. taken' \union Untaken' = taken \union Untaken \union {m}
    BY <2>1
  <2>5. \A i \in 1 .. sent' : \E n \in taken' \union Untaken' : n.id = i
    BY <2>1, <2>3, <2>4
  <2>6. taken' \intersect Untaken' = {}
    BY <2>1 DEF PlaceInv, NothingLost
  <2> QED
    BY <2>1, <2>5, <2>6 DEF NothingLost
<1>3. ASSUME NEW m \in waiting, DrainHandOver(m) PROVE (Separate /\ NothingLost)'
  <2>1. m \in Untaken
    BY DEF Untaken
  <2> QED
    BY <1>3, <2>1, HandOverMoves DEF PlaceInv, NothingLost
<1>4. CASE PopFresh
  BY <1>4, FreshMoves DEF PlaceInv, NothingLost
<1>5. CASE PopConflict
  BY <1>5, ConflictMoves DEF PlaceInv, NothingLost
<1> QED
  BY <1>1, <1>2, <1>3, <1>4, <1>5, MovingActions

LEMMA PlaceInvariance == Spec => []PlaceInv
<1>1. Init => PlaceInv
  <2> SUFFICES ASSUME Init PROVE PlaceInv
    OBVIOUS
  <2>1. Range(q) = {} /\ IsInjective(q)
    BY DEF Init, Range, IsInjective
  <2> QED
    BY <2>1, InitTypeOK DEF Init, PlaceInv, Separate, NothingLost, Untaken
<1> QED
  BY <1>1, PlaceStep, PTL DEF Spec

(* Every message for which send returned Ok is queued, waits or was        *)
(* returned, and none of those returned is still in the channel: what a    *)
(* stale entry of registered points at is never returned again             *)
(* (kv_mpsc_multik.rs:132-159).                                            *)
THEOREM NoMessageLost == Spec => []NothingLost
  BY PlaceInvariance, PTL DEF PlaceInv

------------------------------------------------------------------------------
(* No message waits in vain *)

(* The scan of one returned key finds everybody that key alone kept        *)
(* waiting, since they are all registered with it.                         *)
LEMMA VainStep ==
  ASSUME TypeOK, NoneWaitsInVain, [Next]_vars
  PROVE  NoneWaitsInVain'
<1> USE DEF vars, queues, flags, manager, msgVars
<1>1. CASE DrainRelease
  <2> DEFINE k == Head(dropKeyQ)
  <2>1. Freed(k) = {} /\ using' = using \ {k} /\ UNCHANGED <<waiting, rpc>>
        /\ rpc = "drain"
    BY <1>1 DEF DrainRelease
  <2> SUFFICES ASSUME NEW m \in waiting PROVE InUse(m, using \ {k})
    BY <2>1 DEF NoneWaitsInVain
  <2>2. CASE k \in m.ks
    BY <2>1, <2>2 DEF TypeOK, Freed
  <2>3. CASE k \notin m.ks
    BY <2>1, <2>3 DEF NoneWaitsInVain, InUse
  <2> QED
    BY <2>2, <2>3
<1>2. ASSUME NEW m \in waiting, DrainHandOver(m) PROVE NoneWaitsInVain'
  BY <1>2 DEF DrainHandOver, Return, NoneWaitsInVain, InUse
<1>3. CASE PopConflict
  BY <1>3 DEF PopConflict, Enlisted, NoneWaitsInVain, InUse
<1>4. CASE PopFresh
  BY <1>4 DEF PopFresh, Return, NoneWaitsInVain, InUse
<1>5. CASE DrainPanic \/ DropReceiver
  BY <1>5 DEF DrainPanic, DropReceiver, NoneWaitsInVain
<1>6. ASSUME UNCHANGED <<waiting, using>>, rpc' \in {"panicked", "dropped"} \/ rpc \notin {"panicked", "dropped"}
      PROVE  NoneWaitsInVain'
  BY <1>6 DEF NoneWaitsInVain, InUse
<1>7. ASSUME NEW s \in Senders, SenderStep(s) PROVE UNCHANGED <<waiting, using, rpc>>
  BY <1>7 DEF SenderStep, SendPush, SendNotify, SetSendersDropped, NotifySendersDropped
<1>8. ASSUME NEW m \in held \union releasing, DropStep(m) PROVE UNCHANGED <<waiting, using, rpc>>
  BY <1>8 DEF DropStep, DropKey, DropNotify
<1>9. CASE UNCHANGED <<waiting, using, rpc>>
  BY <1>9 DEF NoneWaitsInVain, InUse
<1> QED
  BY <1>1, <1>2, <1>3, <1>4, <1>5, <1>6, <1>7, <1>8, <1>9
     DEF Next, RecvStep, CloneSender, SendRefused, SendChecked, DropSender, CallRecv,
     Terminated, DrainDone, PopEmpty, RecheckQueue, RecheckKeys, CheckClosed, Wait, Listen

(* kv_mpsc_multik.rs:132-159: whatever the key lists, scanning the waiting *)
(* list of the one key that came back frees every message that can be      *)
(* freed, so that each one that waits has a key still in use.              *)
THEOREM NoWaitInVain == Spec => []NoneWaitsInVain
<1>1. Init => NoneWaitsInVain
  BY DEF Init, NoneWaitsInVain
<1>2. TypeOK /\ NoneWaitsInVain /\ [Next]_vars => NoneWaitsInVain'
  BY VainStep
<1> QED
  BY <1>1, <1>2, TypeCorrect, PTL DEF Spec

------------------------------------------------------------------------------
(* No wake-up is lost *)

LEMMA WakeupStep ==
  ASSUME TypeOK, WakeupInv, [Next]_vars
  PROVE  WakeupInv'
<1> USE DEF WakeupInv, PushedComing, FlaggedComing, vars, queues, flags, manager, msgVars,
            SenderGoes
<1>0. spc \in [Senders -> SenderPc]
  BY DEF TypeOK
<1>1. ASSUME NEW s \in Senders, NEW t \in Senders, CloneSender(s, t) PROVE WakeupInv'
  BY <1>0, <1>1 DEF CloneSender
<1>2. ASSUME NEW s \in Senders, SendChecked(s) \/ DropSender(s) PROVE WakeupInv'
  BY <1>0, <1>2 DEF SendChecked, DropSender
<1>3. ASSUME NEW s \in Senders, NEW ks \in KeySets, SendPush(s, ks) PROVE WakeupInv'
  BY <1>0, <1>3 DEF SendPush
<1>4. ASSUME NEW s \in Senders, SendNotify(s) \/ NotifySendersDropped(s) PROVE WakeupInv'
  BY <1>4 DEF SendNotify, NotifySendersDropped, NotifyEvent
<1>5. ASSUME NEW s \in Senders, SetSendersDropped(s) PROVE WakeupInv'
  BY <1>0, <1>5 DEF SetSendersDropped
<1>6. CASE RecheckQueue \/ RecheckKeys \/ CheckClosed
  BY <1>6 DEF RecheckQueue, RecheckKeys, CheckClosed
<1>7. ASSUME RecvStep, ~RecheckQueue, ~RecheckKeys, ~CheckClosed PROVE WakeupInv'
  BY <1>7 DEF RecvStep, DrainHandOver, DrainRelease, DrainPanic, DrainDone, PopConflict,
     PopFresh, PopEmpty, Wait, Listen, Return
<1>8. ASSUME NEW m \in held \union releasing, NEW k \in m.ks, DropKey(m, k) PROVE WakeupInv'
  BY <1>8 DEF DropKey
<1>9. ASSUME NEW m \in held \union releasing, DropNotify(m) PROVE WakeupInv'
  BY <1>9 DEF DropNotify, NotifyEvent
<1>10. CASE CallRecv \/ DropReceiver \/ Terminated \/ UNCHANGED vars
  BY <1>10 DEF CallRecv, DropReceiver, Terminated
<1>11. ASSUME NEW s \in Senders, SendRefused(s) PROVE WakeupInv'
  BY <1>11 DEF SendRefused
<1> QED
  BY <1>1, <1>2, <1>3, <1>4, <1>5, <1>6, <1>7, <1>8, <1>9, <1>10, <1>11
     DEF Next, SenderStep, DropStep

(* kv_mpsc_multik.rs:332: whatever comes between two looks of sync_pop,    *)
(* the receiver does not sleep on a message, a key or the end of the       *)
(* senders unless a notify is on its way.                                  *)
THEOREM NoWakeupLost == Spec => []NoLostWakeup
<1>1. Init => WakeupInv
  BY DEF Init, WakeupInv
<1>2. TypeOK /\ WakeupInv /\ [Next]_vars => WakeupInv'
  BY WakeupStep
<1>3. WakeupInv => NoLostWakeup
  BY DEF WakeupInv, NoLostWakeup, WorkVisible, NotifyComing, PushedComing, FlaggedComing
<1> QED
  BY <1>1, <1>2, <1>3, TypeCorrect, PTL DEF Spec

------------------------------------------------------------------------------
(* The end of the channel *)

(* The handles see to the first two parts of CloseInv. *)
LEMMA CloseHandleStep ==
  ASSUME TypeOK, CloseInv,
         NEW s \in Senders,
         \/ \E t \in Senders : CloneSender(s, t)
         \/ SendRefused(s) \/ SendChecked(s) \/ DropSender(s)
         \/ SenderStep(s)
  PROVE  CloseInv'
<1> USE DEF CloseInv, LiveHandles, queues, flags, manager, SenderGoes
<1>0. spc \in [Senders -> SenderPc]
  BY DEF TypeOK
<1>1. ASSUME NEW t \in Senders, CloneSender(s, t) PROVE CloseInv'
  BY <1>0, <1>1 DEF CloneSender, SenderPc
<1>2. CASE SendChecked(s)
  BY <1>0, <1>2 DEF SendChecked, SenderPc
<1>3. CASE DropSender(s)
  <2>1. /\ s \in LiveHandles /\ ~sendersDropped
        /\ \A t \in Senders : spc[t] \notin {"flag", "flagged"}
    BY <1>3 DEF DropSender
  <2>2. UNCHANGED <<sendersDropped, waiting, rpc>>
    BY <1>3 DEF DropSender
  <2>3. CASE LiveHandles = {s}
    <3>1. LiveHandles' = {}
      BY <1>0, <1>3, <2>3 DEF DropSender
    <3> QED
      BY <2>1, <2>2, <3>1
  <2>4. CASE LiveHandles # {s}
    <3>1. spc' = [spc EXCEPT ![s] = "none"]
      BY <1>3, <2>4 DEF DropSender
    <3> QED
      BY <1>0, <2>1, <2>2, <3>1
  <2> QED
    BY <2>3, <2>4
<1>4. ASSUME NEW ks \in KeySets, SendPush(s, ks) PROVE CloseInv'
  BY <1>0, <1>4 DEF SendPush
<1>5. CASE SendNotify(s)
  BY <1>0, <1>5 DEF SendNotify
<1>6. CASE SetSendersDropped(s)
  BY <1>0, <1>6 DEF SetSendersDropped
<1>7. CASE NotifySendersDropped(s)
  BY <1>0, <1>7 DEF NotifySendersDropped
<1>8. CASE SendRefused(s)
  BY <1>8 DEF SendRefused, vars
<1> QED
  BY <1>1, <1>2, <1>3, <1>4, <1>5, <1>6, <1>7, <1>8 DEF SenderStep

LEMMA CloseStep ==
  ASSUME TypeOK, CloseInv, [Next]_vars
  PROVE  CloseInv'
<1> USE DEF queues, flags, manager, msgVars
<1>1. CASE UNCHANGED <<spc, sendersDropped, waiting, rpc>>
  BY <1>1 DEF CloseInv, LiveHandles
<1>2. ASSUME UNCHANGED <<spc, sendersDropped>>, rpc' # "closed" PROVE CloseInv'
  BY <1>2 DEF CloseInv, LiveHandles
<1>3. CASE CheckClosed
  BY <1>3 DEF CheckClosed, CloseInv, LiveHandles
<1>4. ASSUME RecvStep, ~CheckClosed PROVE UNCHANGED <<spc, sendersDropped>> /\ rpc' # "closed"
  BY <1>4 DEF RecvStep, DrainHandOver, DrainRelease, DrainPanic, DrainDone, PopConflict,
     PopFresh, PopEmpty, RecheckQueue, RecheckKeys, Wait, Listen, Return
<1>5. CASE CallRecv \/ DropReceiver
  BY <1>2, <1>5 DEF CallRecv, DropReceiver
<1>6. ASSUME NEW m \in held \union releasing, DropStep(m) PROVE CloseInv'
  BY <1>1, <1>6 DEF DropStep, DropKey, DropNotify
<1>7. CASE Terminated \/ UNCHANGED vars
  BY <1>1, <1>7 DEF Terminated, vars
<1> QED
  BY <1>2, <1>3, <1>4, <1>5, <1>6, <1>7, CloseHandleStep DEF Next

(* kv_mpsc_multik.rs:337-341: recv reports Closed only when no handle is   *)
(* left and no message waits, whichever thread dropped the last handle,    *)
(* and however many keys are in use.                                       *)
THEOREM ClosedWithNoneWaiting == Spec => []ClosedLeavesNoneWaiting
<1>1. Init => CloseInv
  BY DEF Init, CloseInv
<1>2. TypeOK /\ CloseInv /\ [Next]_vars => CloseInv'
  BY CloseStep
<1>3. CloseInv => ClosedLeavesNoneWaiting
  BY DEF CloseInv, ClosedLeavesNoneWaiting
<1> QED
  BY <1>1, <1>2, <1>3, TypeCorrect, PTL DEF Spec

------------------------------------------------------------------------------
(* The channel implements the conflict queue *)

(* A message that gets its keys conflicts with no live Message. *)
LEMMA HandOverRefines ==
  ASSUME KeyInv, PlaceInv, NEW m \in waiting, DrainHandOver(m)
  PROVE  Conflict!Take(m)
<1> DEFINE k == Head(dropKeyQ)
<1>1. /\ dropKeyQ # <<>> /\ held' = held \union {m}
      /\ m.ks \intersect (using \ {k}) = {}
  BY DEF DrainHandOver, Freed, InUse, Return
<1>2. k \in Range(dropKeyQ)
  BY <1>1, RangeHeadTail DEF KeyInv, TypeOK
<1>3. \A h \in held : h.ks \subseteq using \ {k}
  BY <1>2 DEF KeyInv, KeyAccounted
<1>4. \A h \in held : h.ks \intersect m.ks = {}
  BY <1>1, <1>3
<1>5. m \in Untaken /\ Untaken' = Untaken \ {m} /\ sent' = sent
  BY HandOverMoves DEF Untaken
<1> QED
  BY <1>1, <1>4, <1>5 DEF Conflict!Take, Conflict!Unconflicted

LEMMA FreshRefines ==
  ASSUME KeyInv, PlaceInv, PopFresh
  PROVE  Head(q) \in Untaken /\ Conflict!Take(Head(q))
<1>1. held' = held \union {Head(q)} /\ Head(q).ks \intersect using = {}
  BY DEF PopFresh, InUse, Return
<1>2. \A h \in held : h.ks \subseteq using
  BY DEF KeyInv, KeyAccounted
<1>3. Head(q) \in Untaken /\ Untaken' = Untaken \ {Head(q)} /\ sent' = sent
  BY FreshMoves
<1> QED
  BY <1>1, <1>2, <1>3 DEF Conflict!Take, Conflict!Unconflicted

(* The drop of a Message begins with its first key; of what follows the    *)
(* conflict queue sees nothing.                                            *)
LEMMA DropRefines ==
  ASSUME NEW m \in held \union releasing, DropStep(m)
  PROVE  UNCHANGED Conflict!vars \/ (m \in held /\ Conflict!Release(m))
<1>1. held' = held \ {m} /\ UNCHANGED <<q, waiting, sent>>
  BY DEF DropStep, DropKey, DropNotify, queues, manager
<1>2. Untaken' = Untaken /\ sent' = sent
  BY <1>1 DEF Untaken
<1>3. CASE m \in held
  BY <1>1, <1>2, <1>3 DEF Conflict!Release
<1>4. CASE m \notin held
  <2>1. held' = held
    BY <1>1, <1>4
  <2> QED
    BY <1>2, <2>1 DEF Conflict!vars
<1> QED
  BY <1>3, <1>4

(* Who else touches held moves no message. *)
LEMMA HoldingActions ==
  ASSUME [Next]_vars
  PROVE  \/ UNCHANGED <<q, waiting, sent, held>>
         \/ \E s \in Senders, ks \in KeySets : SendPush(s, ks)
         \/ \E m \in waiting : DrainHandOver(m)
         \/ PopConflict
         \/ PopFresh
         \/ \E m \in held \union releasing : DropStep(m)
<1>1. UNCHANGED <<dropKeyQ, manager, held, releasing>> => UNCHANGED held
  OBVIOUS
<1>2. DrainRelease \/ DrainPanic => UNCHANGED held
  BY DEF DrainRelease, DrainPanic, msgVars
<1> QED
  BY <1>1, <1>2, KeyActions, MovingActions DEF Owners

LEMMA StepRefines ==
  ASSUME KeyInv, PlaceInv, [Next]_vars
  PROVE  [Conflict!Next]_(Conflict!vars)
<1>1. CASE UNCHANGED <<q, waiting, sent, held>>
  BY <1>1 DEF Conflict!vars, Untaken
<1>2. ASSUME NEW s \in Senders, NEW ks \in KeySets, SendPush(s, ks) PROVE Conflict!Send(ks)
  <2>1. held' = held
    BY <1>2 DEF SendPush, msgVars
  <2> QED
    BY <1>2, <2>1, PushMoves DEF Conflict!Send
<1>3. CASE PopConflict
  <2>1. held' = held
    BY <1>3 DEF PopConflict, msgVars
  <2> QED
    BY <1>3, <2>1, ConflictMoves DEF Conflict!vars
<1>4. ASSUME NEW m \in waiting, DrainHandOver(m) PROVE Conflict!Next
  BY <1>4, HandOverRefines DEF Conflict!Next, Untaken
<1>5. CASE PopFresh
  BY <1>5, FreshRefines DEF Conflict!Next
<1>6. ASSUME NEW m \in held \union releasing, DropStep(m)
      PROVE  [Conflict!Next]_(Conflict!vars)
  BY <1>6, DropRefines DEF Conflict!Next
<1> QED
  BY <1>1, <1>2, <1>3, <1>4, <1>5, <1>6, HoldingActions DEF Conflict!Next

(* README.md:11, whatever key lists the messages have: the channel, with   *)
(* its waiting lists and the keys that come back one by one, implements    *)
(* the conflict queue.                                                     *)
THEOREM Implementation == Spec => ImplementsConflictQueue
<1>1. Init => Conflict!Init
  <2> SUFFICES ASSUME Init PROVE Conflict!Init
    OBVIOUS
  <2>1. Range(q) = {}
    BY DEF Init, Range
  <2> QED
    BY <2>1 DEF Init, Conflict!Init, Untaken
<1>2. KeyInv /\ PlaceInv /\ [Next]_vars => [Conflict!Next]_(Conflict!vars)
  BY StepRefines
<1> QED
  BY <1>1, <1>2, KeyInvariance, PlaceInvariance, PTL
  DEF Spec, ImplementsConflictQueue, Conflict!Spec

------------------------------------------------------------------------------
(* Panics *)

(* A recv that can still reach the wait has its listener. *)
ListenerReady == rpc \in {"listen", "dropped", "panicked"} \/ listener # "none"

LEMMA ListenerStep ==
  ASSUME ListenerReady, [Next]_vars
  PROVE  ListenerReady'
<1> USE DEF ListenerReady, vars, queues, flags, manager, msgVars, SenderGoes
<1>1. ASSUME NEW s \in Senders, SenderStep(s) PROVE ListenerReady'
  BY <1>1 DEF SenderStep, SendPush, SendNotify, SetSendersDropped, NotifySendersDropped,
     NotifyEvent
<1>2. CASE RecvStep
  BY <1>2 DEF RecvStep, DrainHandOver, DrainRelease, DrainPanic, DrainDone, PopConflict,
     PopFresh, PopEmpty, RecheckQueue, RecheckKeys, CheckClosed, Wait, Listen, Return
<1>3. ASSUME NEW m \in held \union releasing, DropStep(m) PROVE ListenerReady'
  BY <1>3 DEF DropStep, DropKey, DropNotify, NotifyEvent
<1> QED
  BY <1>1, <1>2, <1>3
     DEF Next, CloneSender, SendRefused, SendChecked, DropSender, CallRecv,
     DropReceiver, Terminated

(* A step to a panic meets a dangling Weak among those that wait for a     *)
(* returned key.                                                           *)
MeetsDangling ==
  /\ dropKeyQ # <<>>
  /\ Head(dropKeyQ) \in using
  /\ Dangling(Head(dropKeyQ)) # {}

PanicsOnDanglingOnly == [][rpc # "panicked" /\ rpc' = "panicked" => MeetsDangling]_vars

(* Of what may panic in recv, the assert on a returned key                 *)
(* (kv_mpsc_multik.rs:125), the unwrap of the listener and the panic       *)
(* on a Weak that does not upgrade (:151), only the last one does.         *)
THEOREM OnlyDanglingPanics == Spec => PanicsOnDanglingOnly
<1>1. Init => ListenerReady
  BY DEF Init, ListenerReady
<1>2. KeyInv /\ ListenerReady /\ [Next]_vars
      => [rpc # "panicked" /\ rpc' = "panicked" => MeetsDangling]_vars
  <2> SUFFICES ASSUME KeyInv, ListenerReady, [Next]_vars, rpc # "panicked", rpc' = "panicked"
               PROVE  MeetsDangling
    OBVIOUS
  <2> USE DEF vars, queues, flags, manager, msgVars, SenderGoes
  <2>1. CASE DrainPanic
    <3>1. dropKeyQ # <<>> /\ (Head(dropKeyQ) \in using => Dangling(Head(dropKeyQ)) # {})
      BY <2>1 DEF DrainPanic
    <3>2. Head(dropKeyQ) \in Range(dropKeyQ)
      BY <3>1, RangeHeadTail DEF KeyInv, TypeOK
    <3> QED
      BY <3>1, <3>2 DEF KeyInv, KeyAccounted, MeetsDangling
  <2>2. CASE Wait
    BY <2>2 DEF Wait, ListenerReady
  <2>3. ASSUME RecvStep, ~DrainPanic, ~Wait PROVE FALSE
    BY <2>3 DEF RecvStep, DrainHandOver, DrainRelease, DrainDone, PopConflict, PopFresh,
       PopEmpty, RecheckQueue, RecheckKeys, CheckClosed, Listen, Return
  <2>4. ASSUME NEW s \in Senders, SenderStep(s) PROVE FALSE
    BY <2>4 DEF SenderStep, SendPush, SendNotify, SetSendersDropped, NotifySendersDropped
  <2>5. ASSUME NEW m \in held \union releasing, DropStep(m) PROVE FALSE
    BY <2>5 DEF DropStep, DropKey, DropNotify
  <2> QED
    BY <2>1, <2>2, <2>3, <2>4, <2>5
       DEF Next, CloneSender, SendRefused, SendChecked, DropSender, CallRecv,
       DropReceiver, Terminated
<1>3. ListenerReady /\ [Next]_vars => ListenerReady'
  BY ListenerStep
<1> QED
  BY <1>1, <1>2, <1>3, KeyInvariance, PTL DEF Spec, PanicsOnDanglingOnly
==============================================================================
