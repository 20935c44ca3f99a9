----------------------------- MODULE PriorityQueue -----------------------------
(***************************************************************************)
(* What push and pop of priotity_async_mpsc_chan.rs promise one consumer:  *)
(* elements of one priority come out in the order they were pushed, and    *)
(* pop returns nothing but what its callers can expect of a queue that is  *)
(* sorted when it begins.  Elements pushed while it is under way may or    *)
(* may not be seen.  A push may replace what there is of its priority (the *)
(* race of two first pushes), but not while pop is under way.              *)
(***************************************************************************)
EXTENDS Naturals, Sequences, Functions

CONSTANT Priorities  (* the priorities elements are sent with *)

VARIABLES
  pending,  (* the elements of each priority, in the order of pushes  *)
  calling,  (* pop is under way                                       *)
  seen,     (* what was pending when it began                         *)
  sent,     (* how many elements were pushed                          *)
  taken     (* the elements pop has returned                          *)

vars == <<pending, calling, seen, sent, taken>>

Pending == UNION {Range(pending[p]) : p \in Priorities}

Init ==
  /\ pending = [p \in Priorities |-> <<>>]
  /\ calling = FALSE
  /\ seen = {}
  /\ sent = 0
  /\ taken = {}

NewElement(p) == [id |-> sent + 1, p |-> p]

Push(p) ==
  /\ pending' = [pending EXCEPT ![p] = Append(@, NewElement(p))]
  /\ sent' = sent + 1
  /\ UNCHANGED <<calling, seen, taken>>

PushReplacing(p) ==
  /\ ~calling
  /\ pending' = [pending EXCEPT ![p] = <<NewElement(p)>>]
  /\ sent' = sent + 1
  /\ UNCHANGED <<calling, seen, taken>>

Call ==
  /\ ~calling
  /\ calling' = TRUE
  /\ seen' = Pending
  /\ UNCHANGED <<pending, sent, taken>>

ReturnElement(p) ==
  /\ calling
  /\ pending[p] # <<>>
  /\ \A m \in seen : m.p >= p
  /\ taken' = taken \union {Head(pending[p])}
  /\ pending' = [pending EXCEPT ![p] = Tail(@)]
  /\ calling' = FALSE
  /\ seen' = {}
  /\ UNCHANGED sent

ReturnNone ==
  /\ calling
  /\ seen = {}
  /\ calling' = FALSE
  /\ UNCHANGED <<pending, seen, sent, taken>>

Next ==
  \/ \E p \in Priorities : Push(p) \/ PushReplacing(p)
  \/ Call
  \/ \E p \in Priorities : ReturnElement(p)
  \/ ReturnNone

Spec == Init /\ [][Next]_vars
==============================================================================
