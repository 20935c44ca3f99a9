# A TLA+ model of pa_queue_and_chan

This directory holds TLA+ specifications of the channels in
`src/rust/pa_queue_and_chan/src/` (file names below are relative to it; "README.md"
with a line number is the repository's own `src/README.md`), TLC configurations
that check small instances of them, and TLAPS proofs of the most important
properties for all instances.

## 1. The system

| component | state | operations | interacts with |
|---|---|---|---|
| single-key channel, `kv_mpsc.rs` | two lock-free queues (`q`, `drop_key_q`), two flags, an event; the receiver's map `using_keys` from keys in use to the messages waiting for them | `send`, clone and drop of a sender handle, `recv`, drop of the receiver, drop of a `Message` | any number of sender threads, one receiver thread, `Message`s dropped on any thread |
| multi-key channel, `kv_mpsc_multik.rs` | the same, with a `ConflictManager`: the waiting messages, and for each key whether it is in use and which messages are registered with it | the same; a `Message` returns its keys one by one | the same |
| priority channel, `priotity_async_mpsc_chan.rs` | a map from priorities to queues behind a read-write lock, `end_flag`, an `AtomicWaker` | `send_sync`, clone and drop of a sender handle, polling `recv` | sender threads, one receiving task, the executor |
| `AtomicWaker`, `tokio_transplant/atomic_waker.rs` | two state bits that lock a cell, and the cell with a waker | `register_by_ref`, `wake` | any threads; the tasks it wakes |
| parker, `timeout_parker.rs` | an atomic state, a mutex, a condition variable | `park_timeout`, `unpark` | one parking thread, any unparkers |
| link queue, `lockfree_link_queue.rs` | a linked list, pointers to its dummy and its last node, a counter | `push`, `pop`, drop | any pushers, one popper |
| `LightSync`, `lightsync.rs` | a flag, a thread handle behind a lock | `wait`, `notify` | one waiter, any notifiers |
| unordered queue, `mpsc_no_order_queue.rs` | a map from threads to queues behind a lock | `push`, `try_pop` | any threads |
| shims, `tokio_transplant/{loom,future}`, `lib.rs` | none of their own | | |

`lib.rs` compiles the priority channel and `tokio_transplant`; the kv channels are
commented out there (lib.rs:112-115) and the last four are not declared.  The kv
channels are modelled first all the same: they hold the repository's own idea (a
message is taken out only when nobody holds its key, README.md:11), its most
intricate state and most of its tests.

What is hard here:

* **deciding to sleep**: each receiver looks at several shared variables one after
  the other and then sleeps; a push, a returned key or the last drop may fall
  between any two of the looks.
* **accounting for keys**: a key is in a live Message, on its way back in
  `drop_key_q`, or free, and the code panics if its books disagree.
* **the end of the channel**: a flag set by the last drop, read at another time
  than the queue.
* **one lock released between a check and an act**: the first push of a priority.
* **one owner of a cell decided by two bits**, with a third party's wake arriving
  at any point of a registration.

What makes each component correct is listed with its module below; the hazards,
each at its line, are in `PROJECT.json`.

## 2. The modules

### ConflictQueue: what the kv channels promise

Messages are pending, held, or gone.  `Take` needs that no held message shares a
key with the one taken.  `Spec` says no more; `FifoSpec` adds that messages that
share a key are taken in the order they were sent.  No threads, no queues.

### KvMpsc: the single-key channel

One action per access to shared state, in the code's order.

| code | model |
|---|---|
| `SenderInner::send`: load of `receiver_dropped`, push, notify | `SendRefused` or `SendChecked`, `SendPush`, `SendNotify` |
| clone, drop of a handle; `SenderInner::drop`: store, notify | `CloneSender`; `DropSender`, `SetSendersDropped`, `NotifySendersDropped` |
| `sync_pop`, the `while let` over `drop_key_q` | `DrainHandOver`, `DrainRelease` (also the panic), `DrainDone` |
| `q.pop()` and the two `Some` branches | `PopConflict`, `PopFresh`, `PopEmpty` |
| `!q.is_empty() \|\| !drop_key_q.is_empty()` | `RecheckQueue`, `RecheckKeys` |
| `using_keys.is_empty() && senders_dropped` | `CheckClosed` |
| `l.wait()`, `listen()` | `Wait`, `Listen` |
| `Receiver::drop`; `Message::drop`: push, notify | `DropReceiver`; `DropMessage`, `DropMessageNotify` |

`using_keys` is `using` (its domain) and `waiting` (its queues).  The value of a
message is its position in the order of pushes: the channel never looks at values,
and positions are what the properties need.  `event_listener::Event` is external
and modelled by how it is used: `notify(1)`, and never more than one listener.

`CheckClosed` reads `using_keys` (the receiver's own) and one flag, so it is one
step; so is the handling of a popped key or message.

### KvMpscMultik: the multi-key channel

The same frame.  The `ConflictManager` is `using`, `waiting` and `registered`; a
Weak reference in `registered[k]` to a message no longer in `waiting` is a dangling
one.  `Freed(k)` are the messages the scan of `registered[k]`, a HashMap with no
fixed order, may stop at, and `Dangling(k)` those it may panic on; when there are
both, the model allows either.  `Message::drop` pushes its keys one by one
(`DropKey`), then notifies (`DropNotify`); any order of the keys is allowed, where the
code uses the list's.  A key list is a set: a message that names a key twice would
trip an assertion (kv_mpsc_multik.rs:120) and is not modelled.

### AtomicWaker: the waker cell

One action per atomic operation on `state` and per use of the cell; any thread may
call `register_by_ref` with any task, or `wake`, at any time.  `into_waker` may panic
(`IntoWakerPanics`), as the code provides for.  A wake that finds the cell locked
and leaves is finished with `Wake` itself.  `owed` is a history variable: the tasks
that a wake is bound to wake (their waker was in the cell when `wake` was called, or
they registered while a wake was under way).

### PriorityChan: the priority channel

It composes `AtomicWaker` (by INSTANCE, with the sender threads and the receiver's
thread as its threads): `SendWake` is the channel's call of `wake`, `Register` its call
of `register_by_ref`, and `WakerStep` the steps in between, interleaved with the
channel's own.  `push` under the read lock is one action (`PushPresent`), since
the map cannot change under it and the push into the SegQueue is its only effect; the
lookup that fails (`PushAbsent`) and the insertion under the write lock
(`PushInsert`) are two.  `pop` keeps the read lock while it walks (`rpc = "scan"`):
senders may push on either side of its cursor, but none may insert.  A poll is
`Poll`, a walk, `CheckFlag`, `Register`, `SecondTry`, a second walk and `CheckFlag`
again; the executor may poll without a reason.  A pending `recv` that is abandoned
leaves the same state as one that is polled again, so `Poll` stands for both.

### Parker: the timeout parker

One action per atomic operation on `state` and per use of the mutex or the
condition variable.

| code | model |
|---|---|
| `Parker::park_timeout`, the three tries of `Inner::park` | `Park`, `Try`, `TriesOver` |
| `park_condvar`: lock, exchange with its three arms | `Lock`, `Exchange`, `Consume` (with the debug_assert) |
| `wait_timeout` | `Enter` (releases the mutex and waits), `Signalled` or `Timeout`, `Relock` |
| `state.store(EMPTY)`, return | `Store`, `Unlock` |
| `unpark`: swap | `UnparkSwap` |
| `unpark_condvar`: `drop(lock())`, `notify_one` | `UnparkLock`, `UnparkUnlock`, `UnparkNotify` |

`Timeout` is possible whenever the thread waits; it also stands for a spurious wake-up
of the condition variable, after which the code returns as well.

### LinkQueue: the linked list

Nodes are addresses that are allocated, freed and allocated again; a write to a
freed address lands there, as it does with an allocator that keeps the page.  `push`
is `PushAllocate`, `PushLoad`, `PushExchange` or `PushRetry`, `PushCount`, `PushLink`; `pop` is
`PopNone` or `PopBegin`, `PopHead`, `PopRest` (reads `(*head).next`), `PopUnlink` (stores it in
the dummy), `PopFree`, `PopCount`.  The wait for a non-null head is the guard of `PopHead`.
`Drop` has exclusive access and returns at the dummy at once (lockfree_link_queue.rs:70),
which leaks what is left.  After it the model has no step, so deadlock is not checked.

### LightSync: park and unpark

| code | model |
|---|---|
| `wait`: is the kept handle the caller's? | `Wait` (`Known`) |
| replacing it under the write lock | `StoreThread` |
| `waiting.swap(true)`, with the panic | `SwapWaiting` |
| the loop around `thread::park` | `Look`, `Unparked`, `SpuriouslyUnparked` |
| `notify`: `waiting.swap(false)`, `unpark` | `NotifySwap`, `NotifyUnpark` |

`std::thread`'s park is a token per thread.  `current_thread_id` is the address of a
thread-local, so threads that do not live at the same time may share it: `Start` and `End`
are the life of a thread, and `id` gives each its address.  One thread waits at a time;
a second one that waits before the first has returned takes its place without a panic if the
flag is down already, and the first then sleeps on (a hazard in `PROJECT.json`).

### NoOrderQueue and UnorderedQueue: a queue per thread

`PushCheck`, `PushInsert` and `PushElement` are `push` with its three locks; `BeginScan`, `ScanTake`,
`ScanNext`, `ScanEnd` are `try_pop`, which has the read lock throughout.  `UnorderedQueue` is what
the consumer may rely on: every thread's elements in order, and a `None` that was true
when `try_pop` was called.  The history variable `foundEmpty` records that moment for the
refinement mapping.

### PriorityQueue: what push and pop of the priority channel promise

The abstract specification that `PriorityChan` implements.  `seen` is what was pending when
pop began: pop returns an element only if nothing in `seen` has a lower number, and `None`
only if `seen` is empty.  README.md:8, "elements in the chan are sorted by priority", can
mean no more: an element pushed behind the cursor of a pop can be received after one of a
higher number that was pushed later.  `PushReplacing` is the loss that `priority_lost`
shows: an insertion drops the queue it finds, though never during a walk, as it needs
the write lock.

### Proof modules

`SequenceLemmas` (elements and order of a sequence under Append and Tail), `KvMpscProofs`,
`KvMpscMultikProofs`, `AtomicWakerProofs`, `PriorityChanProofs` (which uses the former by
INSTANCE), `ParkerProofs`, `LightSyncProofs`, `NoOrderQueueProofs`.

## 3. The runs

| run | instance | what it shows |
|---|---|---|
| `kv` | 2 handles, 2 keys, 3 messages | exclusion, accounting, no panic, order per key, no lost wake-up, finality of the flag, every message taken, Closed reported, refinement of `ConflictQueue!FifoSpec` |
| `kv_closed` | 2, 2, 2 | a violation: Closed with a message queued |
| `multik` | 2 handles, 2 keys, key sets of one and two, 3 messages | exclusion, accounting, nothing lost or waiting in vain, no lost wake-up, Closed reported and never with a message waiting, refinement of `ConflictQueue!Spec` |
| `multik_panic` | 1 handle, 2 keys, 3 messages | a violation: a dangling Weak is met |
| `waker` | 3 threads, 2 tasks | mutual exclusion on the cell, the debug_assert, no wake lost, every owed wake given |
| `priority` | 2 handles, 2 priorities, 3 elements | no lost wake-up, order per priority, how much a None can miss, every one of the 3 elements leaves the map, refinement of `PriorityQueue!Spec` |
| `priority_lost` | 2, 2, 2 | a violation: the racing insert drops an element |
| `priority_end_unreported` | 2, 2, 2 | a violation: the last drop wakes nobody |
| `parker` | 3 unparkers | no panic, no notification slept on, a notification ends the park |
| `link_queue_hang` | 1 pusher, 2 addresses, 2 elements | a violation: `pop` spins on a list that lost its element |
| `light_sync` | 3 waiters, 2 notifiers, 2 ids | no panic, a notified waiter returns |
| `no_order` | 3 threads, 4 elements | refinement of `UnorderedQueue!Spec`, every one of the 4 elements is popped |

Why the bounds are enough for the cases that matter: two handles are needed for a
push that races with the last drop and for two sends at once; a third only repeats
a role.  Two keys (priorities) distinguish "this key" from "another key"; three
messages make one held, one waiting and one arriving behind it, or three of one key
in order; in `multik` they make a message with both keys wait while either is held by
another.  Three threads at the waker are one that registers, one that
wakes and one that comes on top of them; the same holds of
three unparkers at the parker, where one may be late from an earlier park.  At
LightSync, two waiters with one id and a third with its own, in any order, are enough for a
handle that is kept, replaced or confused; two notifiers are one on time and one late.  In the
unordered queue, one thread's queue is behind the cursor, one at it and one not inserted yet.  `MaxMsgs` bounds the sends only; calls of
`recv`, clones and drops are unbounded within the handles.

What the bound on sends hides is starvation.  `EveryElementLeaves` and `EveryElementPopped` hold for
finitely many sends: they show that no element is left behind by a lost wake-up or by a
walk that misses a queue.  With sends that never end, elements of lower numbers keep
one of a higher number in the priority channel, as the order of `pop` wants; and in the unordered
queue, whose HashMap keeps its order as long as no queue is inserted, a queue early in it that is
refilled keeps the consumer from the later ones.  The code promises nothing to the
contrary.

### Fairness

Threads that are inside a call keep running (weak fairness of `SenderStep(s)`,
`RecvStep`, `DropMessageNotify`, `Continue(t)`): the code has no loop that waits for
another thread except through the event, which is a guard of `Wait`.  The executor polls
a task that was woken.  Two assumptions are about the user, as in the tests' receive
loops: `recv` is called again after it returned a message, and every Message is
dropped in the end.  Nobody has to send, clone, drop a handle, or call
`recv` again after it reported the end.  `PushInsert` waits for a lock under weak
fairness only; no liveness property rests on it.  In `Parker`, `Timeout` has no fairness: an
unpark must end the park without it.  A mutex is taken under weak fairness; it is held
for a bounded time, and only finitely often against a given waiter, as each unparker
locks it once per `PARKED_CONDVAR` it finds.  In `LightSync`, `park` need not
return without a reason.  In `NoOrderQueue` the consumer keeps calling `try_pop`; a thread that
waits for the write lock may do so forever, which no property contradicts.

### What the violations say

* `ClosedMeansDrained`: the "closed" flag is loaded after the queue was found empty, and
  not looked at together with it.  A receiver that stops there, as the tests do, loses a
  message whose send returned Ok.  The other two channels have the same order of looks, and two
  properties that hold say how much it can cost there.  `ClosedLeavesNoneWaiting`: when the
  multi-key channel reports Closed, no handle is left and no message waits, so that only what is
  in `q` can be missed.  `NoneMissesLatePushesOnly`: when the priority channel returns None
  (`end_flag` is loaded in `CheckFlag`, after the walk), no handle is left, and what is in the map was
  pushed after the walk began.  That the map is empty then, as the comments at
  priotity_async_mpsc_chan.rs:79 and :85 suggest, does not hold.
* `NoPanic` (multi-key): a freed message is unregistered from one of its keys only.
  Every other property of `multik` holds on the behaviours up to that panic.
* `NothingLost` (priority): check and insert under two different locks.
* `EndReported`: `SenderInner::drop` wakes nobody.
* `NullMeansLinking`: `pop` frees the node `tail` points to (or one that a push is
  linking to), and the next link is written into freed memory.

## 4. The proofs

All are for arbitrary constants under the modules' ASSUMEs, and of safety only.

**KvMpscProofs.**  The inductive invariant is built in layers, each proved with the
ones before it:

1. `TypeOK` with `ListenerReady` (between `recv` calls and outside
   `listen` there is a listener), so that `Wait` cannot panic for want of one;
2. `WaitingKeyed` (a waiting message waits for its own key) and `KeyInv` (=
   `KeyAccounted`): keys in use are exactly those of live Messages and of
   `drop_key_q`, each once.  `KeyExclusion` and `NoPanic` follow;
3. `Ordered`: queues are in the order of ids, and for each key taken < waiting <
   queued < next id; `PerKeyFifo` follows.  `NothingLost` is inductive beside it (no run checks it:
   `ImplementsConflictQueue` lets no message leave the channel but by being taken);
4. `WakeupInv`: at each point of `sync_pop` the work that arrived since the last look
   has a notification on the listener or a notifier that has yet to run; at `wait`
   it is `NoLostWakeup`;
5. `CloseInv`: the flag is on its way only when no handle is left;
   `ClosedIsFinal` follows;
6. `Implementation`: under the refinement mapping of `KvMpsc` every step is a `Send`, an
   unconflicted, oldest `Take`, a `Release`, or a stutter.

**AtomicWakerProofs.**  `LockInvariance`: at most one thread is between winning and
giving up the lock, and the bits say which kind it is.  `CellExclusive`,
`ContendedByWake` follow.  `NoLostWake` is proved with it: every step that
moves a waker moves it from the cell to a thread that is bound to wake it.

**ParkerProofs.**  `IInv` adds two facts to the checked properties: `StateInv` (where
ParkThread is when `state` is `PARKED_CONDVAR`, and that `state` is not `EMPTY` while it waits)
and `LockInTheWay` (between the exchange and the wait ParkThread has the mutex, so the
unparker that notified it has not passed `drop(lock())` yet).  Without the second,
`NoLostUnpark` is not inductive at `Enter`.

**LightSyncProofs.**  `SyncInv` adds to the types that one thread waits at a time, that the
stored id is that of the waiter from `SwapWaiting` on, and that a notifier that took the
flag down has a handle to unpark.  `NoPanic` follows: the flag is up only while a
waiter is in its loop, so the one at `SwapWaiting` finds it down.

**NoOrderQueueProofs.**  `QueueInv` adds `InsertsNew` (a thread about to insert its queue
still has none, although it gave up the lock after looking) and `SomethingAhead` (a
walk that began with something to pop has an element before it: pushes only add, and
only the walk takes).  The first makes `PushInsert` a stutter of `UnorderedQueue`, the second
makes `ScanEnd` a `ReturnNone`; with them, `Implementation` is the refinement.

**KvMpscMultikProofs.**  Five invariants, each over `TypeOK`:

1. `KeyInv`: `RegisteredKeyed` (a message is registered with its own keys only) and
   `KeyAccounted`, which holds through a Message's return of its keys one by one because a
   key moves from `ks` of the returning Message to `drop_key_q` in one step.  A message
   the scan frees has no key in use but the one just returned, so its keys join the accounts
   without a second owner.  `KeyExclusion` follows;
2. `PlaceInv`: `Separate` (ids are not given out twice, and a message is in `q` or waiting but
   not both) makes `NothingLost` inductive, as a message of `taken` could otherwise be
   queued again;
3. `NoneWaitsInVain` is inductive by itself: a message that loses its last key in use
   is registered with it, so the scan of that key's list finds it;
4. `WakeupInv`, as for the single-key channel;
5. `CloseInv`: beside the two parts of the single-key channel, while `rpc` is `closed` the flag
   is set and nothing waits, since only the receiver adds to `waiting` and it is in no
   call then.  `ClosedLeavesNoneWaiting` follows.

`Implementation` maps each `PopFresh` and `DrainHandOver` to a `Take` that no held message
conflicts with, and the first step of dropping a Message to its `Release`.
`OnlyDanglingPanics` is the other side of the run `multik_panic`: of the ways to panic
in `sync_pop`, the dangling Weak is the only one.

**PriorityChanProofs.**  `WakerSteps` shows that each step of the channel is a step of its
`AtomicWaker` or leaves it alone; so the waker's lock invariant carries over (`WakerInvariance`),
and with it the waker's part of `TypeOK`.  On top of it:

1. `MapInv`: types, and that `map` is a function.  The cursor of a walk is the least
   priority still to come, which exists as `<` on Nat is well-founded (`LeastElement`);
2. `CloseInv`, as for the kv channels, and that a None was returned under the flag;
   `EndIsFinal` (once the flag is set, no handle is left) follows;
3. `Ordered`: queues ascend in id, hold their own priority only, and begin above every
   element taken of it, also when one is replaced; `PerPriorityFifo` follows;
4. `PassedNew`: queues that the walk has passed hold only elements pushed since it
   began; after a walk that found nothing these are all queues.  Without it neither `ReturnElement`
   (nothing seen has a lower number) nor `ReturnNone` (nothing was seen) could be shown; with it,
   `Implementation` is the refinement of `PriorityQueue`, and with `CloseInv`,
   `NoneMissesLatePushesOnly` follows;
5. `WakeupInv`: `RolesInv` (handles only wake, the receiver only registers, so no
   registration is refused), `Armed` (once `register_by_ref` has returned, the task is in the
   cell with the lock free, or its wake-up is done or owed) and `PassedComing` (what the
   second attempt passed over was pushed by a handle that has still to wake).
   `NoLostWakeup` is its last case: the pushes since the second attempt began find the task armed;
6. what the finding `NothingLost` leaves: `LostByRaceOnly` (if every insertion is of a
   priority that is still absent, nothing is lost) and `DifferentPushesLoseNothing` (it is, as
   long as no two handles are inside `push` with one priority).  Their hypotheses are assumptions
   about the users of the channel, not about its code.

Only model-checked: all liveness (it rests on fairness, which the proof system does not
handle).  Nothing is proved of `LinkQueue`, whose one run is a violation.

## 5. Assumptions and what is not modelled

* Memory is sequentially consistent; a SegQueue's push and pop are atomic.
* `Event::notify`/`listen`/`wait` and the executor are modelled by their contracts.
* The id counter of the multi-key channel does not overflow (it is an i32).
* One receiving task: `Receiver::recv` of the priority channel takes `&self`, and two
  tasks that receive at once would steal each other's registration.
* Poisoned locks, allocation failure and panics of user code other than `into_waker`.
* The memory orderings of the link queue are weaker than that (Relaxed); its violation
  needs none of the weaker behaviours.
* Two threads inside `LightSync::wait` at once.  `NotifiedReturns` is claimed for waiters whose
  id is their own only: one that has the address of a thread that waited and ended is
  taken for it, and is never unparked.
* The shims and the crate root, which keep no state of their own.

## 6. Plan

1. Done: `KvMpsc`, `ConflictQueue` and their proofs; `KvMpscMultik`; `AtomicWaker` and
   its proofs; `PriorityChan`; `Parker` and its proofs; `LinkQueue`;
   `LightSync` and its proofs; `NoOrderQueue`, its abstract queue and its proofs; the
   abstract queue of the priority channel.
2. Done: the proofs of `KvMpscMultik` and of `PriorityChan`; every invariant and every
   refinement that a run checks is a theorem.
3. `LinkQueue`: whether there is a use of it (one thread, or freed addresses that are
   never written again) for which `pop` returns what was pushed, in order.
