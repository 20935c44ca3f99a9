------------------------------ MODULE LinkQueue ------------------------------
(***************************************************************************)
(* The linked list of lockfree_link_queue.rs: any thread pushes, one pops. *)
(*                                                                         *)
(* Nodes live at addresses that are allocated, freed and allocated again;  *)
(* what a freed address held stays there until then, and a write to it     *)
(* lands there.  One action per access to shared memory, all of them       *)
(* sequentially consistent.                                                *)
(***************************************************************************)
EXTENDS Naturals

CONSTANTS
  Pushers,    (* threads that push                            *)
  Addresses,  (* where nodes other than the dummy can be      *)
  Dummy,      (* the address of the node dummyhead points to  *)
  Null,       (* the null pointer                             *)
  MaxMsgs     (* bound: how many elements are pushed          *)

VARIABLES
  allocated,  (* addresses of nodes that are not freed                   *)
  next,       (* Node.next, at every address                             *)
  elem,       (* Node.t, at every address; 0 is None                     *)
  tail,       (* LockfreeMpscLinkQueue.tail                              *)
  cnt,        (* LockfreeMpscLinkQueue.cnt                               *)
  ppc,        (* where each pusher is in push                            *)
  node,       (* push's new                                              *)
  oldtail,    (* push's oldtail                                          *)
  rpc,        (* where the popping thread is in pop                      *)
  head,       (* pop's head                                              *)
  rest,       (* pop's value of head.next                                *)
  sent,       (* history: how many elements were pushed                  *)
  popped      (* history: the elements pop has returned                  *)

nodes == <<allocated, next, elem>>
pushVars == <<ppc, node, oldtail, sent>>
popVars == <<rpc, head, rest, popped>>
vars == <<nodes, tail, cnt, pushVars, popVars>>

(* The dummy is the one node, without an element. *)
NewHead ==
  /\ allocated = {Dummy}
  /\ next = [a \in Addresses \union {Dummy} |-> Null]
  /\ elem = [a \in Addresses \union {Dummy} |-> 0]

Init ==
  /\ NewHead
  /\ tail = Dummy
  /\ cnt = 0
  /\ ppc = [p \in Pushers |-> "idle"]
  /\ node = [p \in Pushers |-> Null]
  /\ oldtail = [p \in Pushers |-> Null]
  /\ rpc = "idle"
  /\ head = Null
  /\ rest = Null
  /\ sent = 0
  /\ popped = {}

PusherGoes(p, pc) == ppc' = [ppc EXCEPT ![p] = pc]

------------------------------------------------------------------------------
(* push *)

(* Node::new: a free address, initialized. *)
PushAllocate(p, a) ==
  /\ ppc[p] = "idle"
  /\ rpc # "dropped"
  /\ sent < MaxMsgs
  /\ a \notin allocated
  /\ allocated' = allocated \union {a}
  /\ next' = [next EXCEPT ![a] = Null]
  /\ elem' = [elem EXCEPT ![a] = sent + 1]
  /\ sent' = sent + 1
  /\ node' = [node EXCEPT ![p] = a]
  /\ PusherGoes(p, "load")
  /\ UNCHANGED <<tail, cnt, oldtail, popVars>>

PushLoad(p) ==
  /\ ppc[p] = "load"
  /\ oldtail' = [oldtail EXCEPT ![p] = tail]
  /\ PusherGoes(p, "exchange")
  /\ UNCHANGED <<nodes, tail, cnt, node, sent, popVars>>

PushExchange(p) ==
  /\ ppc[p] = "exchange"
  /\ tail = oldtail[p]
  /\ tail' = node[p]
  /\ PusherGoes(p, "count")
  /\ UNCHANGED <<nodes, cnt, node, oldtail, sent, popVars>>

(* The weak exchange failed, for a reason or for none. *)
PushRetry(p) ==
  /\ ppc[p] = "exchange"
  /\ PusherGoes(p, "load")
  /\ UNCHANGED <<nodes, tail, cnt, node, oldtail, sent, popVars>>

PushCount(p) ==
  /\ ppc[p] = "count"
  /\ cnt' = cnt + 1
  /\ PusherGoes(p, "link")
  /\ UNCHANGED <<nodes, tail, node, oldtail, sent, popVars>>

(* The old tail, freed or not, is linked to the new node. *)
PushLink(p) ==
  /\ ppc[p] = "link"
  /\ next' = [next EXCEPT ![oldtail[p]] = node[p]]
  /\ PusherGoes(p, "idle")
  /\ UNCHANGED <<allocated, elem, tail, cnt, node, oldtail, sent, popVars>>

------------------------------------------------------------------------------
(* pop *)

(* pop returns None. *)
PopNone ==
  /\ rpc = "idle"
  /\ cnt = 0
  /\ UNCHANGED vars

PopBegin ==
  /\ rpc = "idle"
  /\ cnt # 0
  /\ rpc' = "head"
  /\ UNCHANGED <<nodes, tail, cnt, pushVars, head, rest, popped>>

(* While the dummy has no successor, pop reads again. *)
PopHead ==
  /\ rpc = "head"
  /\ next[Dummy] # Null
  /\ head' = next[Dummy]
  /\ rpc' = "rest"
  /\ UNCHANGED <<nodes, tail, cnt, pushVars, rest, popped>>

PopRest ==
  /\ rpc = "rest"
  /\ rest' = next[head]
  /\ rpc' = "unlink"
  /\ UNCHANGED <<nodes, tail, cnt, pushVars, head, popped>>

PopUnlink ==
  /\ rpc = "unlink"
  /\ next' = [next EXCEPT ![Dummy] = rest]
  /\ rpc' = "free"
  /\ UNCHANGED <<allocated, elem, tail, cnt, pushVars, head, rest, popped>>

(* Node::free: the element is taken out and the node freed. *)
PopFree ==
  /\ rpc = "free"
  /\ popped' = popped \union {elem[head]}
  /\ elem' = [elem EXCEPT ![head] = 0]
  /\ allocated' = allocated \ {head}
  /\ rpc' = "count"
  /\ UNCHANGED <<next, tail, cnt, pushVars, head, rest>>

PopCount ==
  /\ rpc = "count"
  /\ cnt' = cnt - 1
  /\ rpc' = "idle"
  /\ UNCHANGED <<nodes, tail, pushVars, head, rest, popped>>

------------------------------------------------------------------------------
(* The queue is dropped when nobody has it any more.  drop looks at the    *)
(* dummy, which has no element, and returns: what is left is never freed.  *)
Drop ==
  /\ rpc = "idle"
  /\ \A p \in Pushers : ppc[p] = "idle"
  /\ elem[Dummy] = 0
  /\ rpc' = "dropped"
  /\ UNCHANGED <<nodes, tail, cnt, pushVars, head, rest, popped>>

------------------------------------------------------------------------------
PushStep(p) ==
  \/ PushLoad(p)
  \/ PushExchange(p)
  \/ PushRetry(p)
  \/ PushCount(p)
  \/ PushLink(p)

PopStep ==
  \/ PopNone
  \/ PopBegin
  \/ PopHead
  \/ PopRest
  \/ PopUnlink
  \/ PopFree
  \/ PopCount

Next ==
  \/ \E p \in Pushers, a \in Addresses : PushAllocate(p, a)
  \/ \E p \in Pushers : PushStep(p)
  \/ PopStep
  \/ Drop

Spec == Init /\ [][Next]_vars

------------------------------------------------------------------------------
(* Properties *)

(* lockfree_link_queue.rs:54, "wait for the list to be linked up" (in      *)
(* Chinese): when pop was told that there is an element and finds none     *)
(* linked, a push has yet to link one, and pop will not read forever.      *)
NullMeansLinking ==
  rpc = "head" /\ next[Dummy] = Null => \E p \in Pushers : ppc[p] \in {"count", "link"}
==============================================================================
