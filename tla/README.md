# A TLA+ model of DSoftBus

DSoftBus connects devices (Bluetooth, Wi-Fi, ...), builds a trusted network
over the connections, and carries the sessions of applications. This directory
models the parts of the service in which several threads, devices and timers
meet. TLC checks the models on small instances; TLAPS proves the properties
that matter most for every value of the constants.

- [The system](#the-system)
- [Modules](#modules)
- [The BR link: `BrConnection`, `BrReference`](#the-br-link-brconnection-brreference)
- [The BR manager: `BrManager`](#the-br-manager-brmanager)
- [Delivering bytes: `FairPriorityQueue`, `BytesDelivery`](#delivering-bytes-fairpriorityqueue-bytesdelivery)
- [The ring: `LockFreeQueue`, `BoundedFifo`](#the-ring-lockfreequeue-boundedfifo)
- [The send path: `BrSend`, `BrAckWindow`, `FlowControl`](#the-send-path-brsend-brackwindow-flowcontrol)
- [The message loops: `Looper`, `TimedQueue`](#the-message-loops-looper-timedqueue)
- [Proxy channels: `ProxyChannel`, `ProxyConnList`](#proxy-channels-proxychannel-proxyconnlist)
- [Runs](#runs)
- [Proofs](#proofs)
- [What the runs found](#what-the-runs-found)
- [Not modelled](#not-modelled)

## The system

| Part | State | Operations | What makes it hard |
|---|---|---|---|
| Connection (`core/connection`): BR, BLE, SLE, TCP, Wi-Fi Direct, proxy, general | connection objects with reference counts, lists of devices that wait, sockets | connect, disconnect, pend, reset; accept, read, send | one looper thread per process against connecting, reading and sending threads; two ends that count references; timers against late answers |
| Connection common: fair priority queue, bytes delivery, base listener, flow control | queues per process and priority, flags of worker threads | deliver, enqueue, dequeue, apply | workers that end when idle, while a caller posts |
| Common: message looper, lock-free queue, lists | the ring, the sorted list of messages | post, delay, remove; enqueue, dequeue | memory order, counters that wrap around, removal against handling |
| Authentication (`core/authentication`) | sessions, session keys, requests per device | start, message, timeout, disconnect | two devices that start at once; retries |
| Bus center (`core/bus_center`): net builder, connection state machine, ledger, heartbeat, lane hub | nodes, join requests, lanes and links | join, leave, sync, heartbeat, allocate and free a lane | joins in both directions, offline against online, delayed release |
| Discovery (`core/discovery`) | publish and subscribe requests per medium | start, stop, found | several callers share one medium |
| Transmission (`core/transmission`): sessions, TCP direct, UDP, proxy and auth channels | channels and their handshakes | open, handshake, close, send | handshakes against timers and against the end of the connection |
| SDK (`sdk`), BR proxy (`br_proxy`) | client-side tables | IPC to the service | death of either side |
| nStackX (`components/nstackx`), DFX, adapters | | | |

A connect request of transmission or authentication goes to the connection
manager, which passes it to the manager of its medium. The BR manager merges
the requests per address, opens one connection at a time and answers every
request with a connection id. Both ends then count the modules that use the
link and tell each other of every change; the end that reaches zero negotiates
the physical disconnection. Data goes through queues per process and priority
to one sending thread, over rings that are written for any number of threads.

A proxy channel is a logical channel of transmission over such a connection:
its opener joins or makes a connection, hands the channel to the loopers for
the handshake, and is told the outcome later.

The models start where these mechanisms meet: the negotiation of references,
the BR manager, the send path and its flow control, the worker with its queue,
the ring, the message loops, and the opening and closing of proxy channels.
They are a small part of the repository; what is left out is listed under
[Not modelled](#not-modelled).

`PROJECT.json` lists every component with its sources, the hazards at the lines
where they bite with the properties that cover them, and for each definition of
a module the lines that it models.

## Modules

| Module | Models | Uses |
|---|---|---|
| `BrConnection` | operations on one `ConnBrConnection` object, as operators | |
| `BrReference` | both ends of one link, the control messages between them | `BrConnection` |
| `BrManager` | the manager of one device with its looper, threads and peers | `BrConnection` |
| `FairPriorityQueue` | the queue of `softbus_conn_fair_priority_queue.c`, as a value | |
| `BytesDelivery` | posters and the delivery task over that queue | `FairPriorityQueue` |
| `LockFreeQueue` | the ring of `softbus_queue.h`, one access to shared memory per step | |
| `BoundedFifo` | what a ring promises: a bounded sequence | implemented by `LockFreeQueue` |
| `FlowControl` | the sliding window of a sender, as actions of whoever extends it | |
| `BrAckWindow` | the acknowledgement window of a connection and its pending packets, as operators | |
| `BrSend` | posters, send queues, the send task and the end of a connection | `FlowControl`, `BrAckWindow` |
| `TimedQueue` | what a message loop promises | implemented by `Looper` |
| `Looper` | the loopers of `message_handler.c` with their threads, posters and destroyers | |
| `ProxyConnList` | the list of proxy connections, and the connection layer as it uses it | |
| `ProxyChannel` | the client side of proxy channels: openers, the two loopers, the timer | `ProxyConnList` |
| `BrReferenceProofs` | theorems about `BrReference` | |
| `LockFreeQueueProofs` | theorems about `LockFreeQueue` | |
| `BytesDeliveryProofs` | theorems about `BytesDelivery` and its queue | |
| `BrSendProofs` | theorems about `BrSend` | |
| `LooperProofs` | theorems about `Looper`: messages, their lists and the mapping to `TimedQueue`; then the loopers, and the results | |
| `ProxyChannelProofs` | theorems about `ProxyChannel`: types, the queue of the looper and requests; then answers | |
| `BrManagerSteps`, `BrManagerProofs` | theorems about `BrManager`: its operations, the inductive invariant, the steps outside the looper and the delayed messages; then the messages of the looper, and the results | the second extends the first |
| `MC*` | instances for TLC | |

`BrReference` and `BrManager` compose the same operators of `BrConnection` with
two environments: a faithful transport and one peer in the first, many
connections and requests with peers reduced to their messages in the second.

A definition whose comment begins with "Mutant" is a variant of the definition
that follows, with a plausible mistake. It is not part of a specification; the
property named in `PROJECT.json` fails when it takes the place of the original.

## The BR link: `BrConnection`, `BrReference`

`conn[p]` is the connection object of end `p`: state, socket, `connectionRc` and
the occupied flag. `Acquire` is the reuse of the link for a connect request,
`Release` is `DisconnectRequest` (an occupied connection defers the update, and
`UpdateLocalRc` makes it later), `Occupy` and `OccupyRelease` set and clear the
flag, `ReceiveRequest`/`HandleRequest` and `ReceiveResponse` handle the
messages of the peer, `UpdatePeerRc` handles a request that had to wait because
the connection was occupied. `NegotiationTimeout` and `RetryNotifyReference`
are the two other delayed messages. `BeginCut`/`EndCut` is `ConnBrDisconnectNow` on a
thread that is not the looper, with the lock given up in between;
`StopReading` and `ConnectionException` are the reader thread and its report.

Control messages keep their order except that HIGH ones (increments, responses)
overtake LOW ones (decrements), because that is what the send queue does. The
ghost `held[p]` counts the references that modules of `p` hold.

Abstractions: handlers of one end run on one looper thread, so each is one
step; a failure of a lock, of an allocation or of posting a message is left out.

## The BR manager: `BrManager`

`mgr` is `g_brManager` with the messages of its looper and the answers given. A
handler is an operator from one such record to the next; the actions named
`Handle...` apply it to the first message, or to a delayed one that is due.
Delayed messages may come due in any order, which is more than their durations
allow. The other actions are the connecting thread (`ClientSocket`,
`ClientNoSocket`), the listening thread (`ServerSocket`), the readers
(`Announce`, `StopReading`), the peers (`PeerMessage`), the callers
(`ConnectDevice`, `DisconnectDevice`, `DisconnectDeviceNow`,
`PendDeviceConnection`) and Bluetooth (`BtStateChanged`).

Ghosts say whose references a count stands for (`mine`, `peers`, `unclaimed`),
how often a device was sent back after a collision (`retries`), how often a
request was answered, and whether `ClientConnected` passed a device over
(`passed`): the late success of an attempt that has timed out answers a waiting
device of its address and returns without scheduling the next one, which may
leave another device waiting although the manager is free.

Abstractions: requests name no existing connection id; connections are not
occupied (`BrReference` has that); ids are not reused; the requests of a device
are a set.

## Delivering bytes: `FairPriorityQueue`, `BytesDelivery`

What the code does under the lock of the queue is one operator on the value of
the queue; waiting for room or for an item is a state of the thread. The lock
of the delivery is a variable, because the task holds it over a wait in which
posters may enqueue. A wait may time out although it was signalled, and may
end without a signal. `overlap` is a ghost: a poster has cleared
`deliveryMessagePosting` while another one was between setting it and its
enqueue. `crashed` is the step in which `DeliverTask` follows a NULL item (see
[below](#what-the-runs-found)); nothing happens after it.

## The ring: `LockFreeQueue`, `BoundedFifo`

A step reads or writes shared memory once. The barriers of the code keep the
accesses of a thread in program order, so no further reordering is modelled.
The counters are the numbers of operations, and the code's comparisons and
differences are taken modulo `Wrap`, so that a run with a small `Wrap` passes
through the wrap-around of the 32-bit counters. `NotOvertaken` is a bound: no
thread is delayed by as many operations as the counters have values, which is
what any compare-and-swap on a counter needs.

`QueueCountGet` reads the two tails one after the other. It is read in one state
here, because its callers hold the lock of the queue.

`BoundedFifo` is the promise: one step appends, one step takes, "empty" is
reported of an empty sequence, and "full" when the items and the calls that are
under way fill the ring. The refinement mapping makes the sequence from the
slots between `consumer.head` and `producer.tail`, and the item that a consumer
has taken from the slot that it has reserved and not yet read.

The "thread unsafe" operations take the same steps with one thread on that
side, whose compare-and-swap cannot fail and whose turn it always is.

## The send path: `BrSend`, `BrAckWindow`, `FlowControl`

A poster is a thread in `ConnBrPostBytes`: it announces the post under one lock
(`Post`, with the check of the connection that precedes it), starts the send
task if there is none, and puts its node into the
queue of its process under another (`EnqueueInner`, `EnqueueNew`,
`EnqueueFound`, and `WaitForRoom` when the queue is full). The send task is
`SendHandlerLoop`: `Dequeue...`, the idle check with which it leaves, and per
node `Begin`, `Apply`, the outcomes of `Write` and the wait for an
acknowledgement. `WriteSome` takes bytes; `WriteNothing` is a `Write` that returns
0, which the code does not count as an error: the retries start again and the
loop goes on; `WriteBusy` and `WriteFails` are the two kinds of error. `ReadFails`, `CloseSocket`, `DisConnect` and
`RemoveConnection` end the connection under it. Each critical section is one
step.

`FlowControl` keeps ages in place of time stamps; `Age` is a unit of time. The
ghost `granted` records what was granted under the present configuration, so
that `QuotaKept` does not depend on what the controller remembers. Left out: when
no memory is left for a history, `Apply` grants all that is asked for.

Three ghosts name what the code does not exclude. `stale`: a poster was woken
for room and its queue was freed before it ran again; nothing is known after
that, and the model stops. `stalled`: a poster stayed between its two locks for
the ten minutes after which an idle task leaves. `lateAck`: an acknowledgement
was requested after the reader had failed.

## The message loops: `Looper`, `TimedQueue`

`LooperInit` creates loopers, each with a thread in `LoopTask`; what is done
under the lock of a looper is one step, and a wait ends by a broadcast, at its
deadline or for no reason. A post is three steps, because the context is
verified before it is locked. A removal is two (`RemoveBegin`, `RemoveMessage`):
`LoopRemoveMessageCustom` reads `looper->context` before it takes the lock, and
`removing` holds the removals in between. `LooperDeinit` may be called by the application
and, when it came before the threads started, by a thread that ends.

`TimedQueue` is what other modules rely on: a message is begun at most once,
not before its time, in the order of times and of posts, and not after its
removal. `ImplementsTimedQueue` maps the list of the first looper to it; in the
other models the queues of loopers are of this kind.

`Dangling` says that somebody is about to follow a pointer to a freed looper or
context; the model stops there. `OwnerDangles` is the part of it about the thread
and the destroyers of a looper, `CallerDangles` the part about posts and
removals. `NoUseAfterFree` says that the first never happens, whatever callers do,
unless `LooperDeinit` came before all threads had started (`early`), and the second
only when a post or a removal overlapped the end of its looper (`overlap`). Nothing
in the code excludes either case, and TLC reaches both.

## Proxy channels: `ProxyChannel`, `ProxyConnList`

`conn` is the item of one peer in `g_proxyConnectionList`, with the number of
channels on it; `links` and `attempts` are the connection layer, for connection
types that count references (BR, and BLE likewise): a request joins the link
that is up or makes one, and takes one reference. `held` is what the proxy has taken
less what it has asked to give back. A TCP connection is not of this kind: it is a
socket per request, closed at the first `ConnDisconnectDevice`. `chan` is `g_proxyChannelList`. Five kinds of thread work on them:
the openers (`Open` to `Undo`, and `Close`), the connection looper with connect
results, lost links and the peer's answers (`cb`), the default looper with the
messages posted to it (`loopq`, `loop`) and the key negotiations it checks
(`nego`), the timer (`expired`), and the report of a client's death (`dying`).
A step is what a thread does between two acquisitions of a lock; where the code
copies a channel and works on the copy, the steps are separate.

The ghost `raced` names four races that the code does not exclude and that TLC
reaches:

- `unreferenced`: a channel is attached to a connection whose item has just been
  deleted, and the failure to add the reference is ignored
  (`TransProxyChanProcessByReqId`);
- `joined`: the connection is closed because nobody waits for the request, with
  the reference of an opener that joined in between (the same function);
- `overtaken`: a channel is removed while another thread works on it by its id,
  so that it may be released or reported twice;
- `stranded`: a request is refused at once after another opener has joined it;
  the joiner is left to the timer.

Each property says which of them it excludes. `OpenAnswered` excludes none.
`ReferencesMatchUsers` has two halves. No link is kept: the item has no more
references than there are channels and openers to give them back, and the proxy
holds a link only while the item is there. Nothing is given back too early: the
numbers are equal. The first half holds in all runs without `overtaken`; the second
is lost in `unreferenced` and `joined`, where the link may go under a channel that
uses it.

Abstractions: one peer; an opener opens one channel; failures of locks and of
allocation are left out; the connection layer answers a request at most once;
the peer's answers are any of those the code distinguishes; a renegotiation of
the key always starts (it fails to only for want of memory or of a lock).

## Runs

| Run | Instance | Checks | Distinct states |
|---|---|---|---|
| `br_reference` | both ends of a link, up to 2 further calls of modules | `Conservation`, `OwnReferencesCounted`, `NegotiationHasTimer`, `NoCutUnderOwnReference`, `ReleasedLinkCloses` | 541,617 |
| `br_reference_cut` | the same | `CutOnlyAtZero` is violated | |
| `br_manager` | 2 addresses, 2 requests, 2 events, 1 failing thread creation; addresses and requests are symmetric | `AnsweredOnce`, `OneDevicePerAddr`, `ConnectingTimed`, `WaitersHaveWaker`, `SchedulerAwake`, `CountMatchesOwners` | 1,440,428 |
| `br_manager_live` | the same with 1 event and no failure | `EveryRequestAnswered` | 122,248 |
| `br_manager_retry` | 1 address, 1 request | `RetriesBounded` is violated | |
| `bytes_delivery` | 2 posters with 2 items each for 2 processes or the service itself, 2 task identities, 1 failure | `SingleConsumer`, `ItemHasTask`, `InOrder`, `RoundRobin` | 135,301 |
| `bytes_delivery_live` | 2 posters, rings with room for 1 item, 1 failure | `EveryItemDelivered`, `IdleTaskExits` | 12,760 |
| `bytes_delivery_lost` | 1 poster, 1 item | `NoItemLost` is violated | |
| `lock_free_queue` | 2 producers with 3 calls, 2 consumers with 1 call, 4 slots, counters modulo 8 that start at 7 | `Ordered`, `CountExact`, `ImplementsFifo`, `EveryCallReturns` | 99,060 |
| `br_send` | posters of two processes and of the service, up to 9 posts, windows of 1 and 2 units, a queue limit of 4 | `SleeperHasFullQueue`, `NodeHasTask`, `QuotaKept`, `SleepsOnce`, `PacketLifetime`, `SendingEnds` | 237,712 |
| `looper` | 2 loopers, 2 messages with the same code, delays of 0 and 1, 1 tick | `NoUseAfterFree`, `OneOwner`, `QuietAfterRemove`, `ImplementsTimedQueue`, `EveryMessageFreed`, `DeinitReturns` | 143,300 |
| `proxy_channel` | 2 openers, a time-out of 2 periods; a link in use is lost, the client dies, or the application closes a channel | `ReferencesMatchUsers`, `OpenAnsweredOnce`, `WaiterHasRequest`, `OpenAnswered` | 610,283 |

`br_reference` and `bytes_delivery` also check the type invariant of their
module; that of `ProxyChannel` is proved. `CHECK_DEADLOCK` is off because all of
these systems may come to rest.

Bounds. Two calls let both ends acquire and release against each other, which
is where counts could diverge and where a late request closes a link in use.
Two requests give a device that connects and one that waits, on the same or on
another address; two events give, for instance, a peer that connects and then
Bluetooth turned off. `MaxConns` is large enough never to bind in `br_manager`:
one connection for each request and each event (with a larger value TLC finds
the same states). Two items per poster with room
for one or three let a poster meet a full ring and an idle task. Six items in a
ring of four slots reuse slots while several threads hold some, and the
counters come round on the first operation. The six workloads of `br_send` are
each about one thing: a full queue beside another process, all kinds of queue
at once, an acknowledgement window that shrinks and is restored, the end of the
connection while acknowledgements are awaited, limits that change while a long
node is written, and a little of each. Two loopers are what the order of
`LooperDeinit` needs, and two messages with the same code what a removal and
the order of posts need; one tick separates "due" from "not yet". Two openers
are enough to join, to be too late for, and to lose a shared connection; the
three workloads of `proxy_channel` keep the kinds of trouble apart, each against
connect failures, refusals, resets and time-outs, which are always possible.

Fairness. The looper serves its queue and every delayed message comes due; the
driver's `Connect` returns, with a socket or with an error; a thread goes on; a
reader notices that its socket was closed. Callers, peers, failures and
Bluetooth are under no fairness. In `BytesDelivery` strong fairness says that a
task is not woken spuriously for ever and that a poster gets the lock that the
task takes once per idle time. In `LockFreeQueue` every thread runs, which
spinning threads need. In `BrSend` the posters, the send task and time go on;
the peer need not acknowledge. Strong fairness of `WriteSome` is an assumption on
the driver that the code makes without a bound: a `Write` that is repeated on a
link that stays up takes a byte at last. Without it `SendingEnds` fails, with a
task that writes nothing for ever. In `Looper` the threads, the posts and
destructions that have begun, and time go on; no wait ends without a reason. In
`ProxyChannel` the loopers and the timer finish what they began and the timer
ticks; nothing is asked of openers, of the connection layer or of the peer, nor
of a key negotiation, whose channel the timer takes if it never ends.

Conditions. `EveryItemDelivered` and `ItemHasTask` say nothing once a poster has
cleared the flag of another one: the item may then stay until the next
`ConnDeliver`. `IdleTaskExits` says nothing after a call of `ConnDeliver` has
failed before its enqueue, because the flag then stays set. `SchedulerAwake` is
about runs in which no thread creation has failed and no device was passed over
(`passed`), and `EveryRequestAnswered` about those in which none was passed over:
the two branches of the code that end an attempt, or answer a device, without a
message that schedules the next one. The proof of `SchedulerAwake` found the
second: it fails with three addresses, which the run does not have.
`NodeHasTask` and `SendingEnds` exclude `stalled` and, for the second,
`stale`; `PacketLifetime` excludes `lateAck`; the liveness properties of `Looper`
end with `early` or `Dangling`, `NoUseAfterFree` is stated with both exceptions
(see above), and `QuietAfterRemove` is about removals from a looper that runs.
`ReferencesMatchUsers` excludes `overtaken`, and in its second half `unreferenced`
and `joined`; `OpenAnsweredOnce` excludes `overtaken`, `WaiterHasRequest` excludes
`stranded`. These are listed as hazards.

## Proofs

Every safety property of `BrReference`, `BrManager`, `BytesDelivery`,
`LockFreeQueue`, `BrSend` and `Looper` that holds is proved, refinements
included, and all but one of `ProxyChannel`. Each proof finds an inductive invariant
(which TLC checked on the instance of the run before it was proved), shows with
one lemma per action, or per group of actions with the same effect, that steps
keep it, and derives the theorems from it.

`BrReferenceProofs`, for every number of calls:

- `TypeCorrect`, `CountsConserved`, `OwnCountSafe`, `NegotiationEnds`: the four
  state invariants of the run. `NoOwnCut`: the action property
  `NoCutUnderOwnReference`.
- The inductive invariant is `IInv`. Conservation alone is inductive only with
  the wire known to be sane: sequence numbers tell messages apart, increments
  are HIGH and decrements LOW, a deferred request is older than the increments
  that are still on the way (`Wire`). That an end's count covers its own
  references needs more: for every place in the stream of pending messages, the
  increments sent since then exceed the decrements sent since then by at most
  the references of the sender (`InOrder`). This is the fact that the HIGH flag of
  increments preserves.
- For `NoOwnCut` conservation is not enough, because the messages of an end that
  has closed its socket are lost and the sums no longer agree. `OpenEnds` says
  what remains true of an end that is still open: its count and what is on the
  way to it are those of some number of references of the other end
  (`Sane`), so that the count still covers its own, and an end that negotiates
  its closing has none (`Released`).
- Assumption: `MaxCalls` is a natural number.

`BrManagerSteps` and `BrManagerProofs`, for every finite set of requests, every
set of addresses and every number of connections, events and faults:

- `TypeOKHolds`, `OneDevicePerAddrHolds`, `ConnectingTimedHolds`,
  `WaitersHaveWakerHolds`, `SchedulerAwakeHolds`, `AnsweredOnceHolds` and
  `CountMatchesOwnersHolds`: the six invariants of the run, and the types.
- A handler is a composition of operations on one record, and between two of
  them most of the properties do not hold: the device that `NextCmd` has taken
  from the list is nowhere, a request that is being answered is in no place.
  The invariant is therefore stated of any record `m`, with the requests `H` that
  the handler has in hand. `Core` is what each operation keeps: `Shape` (one
  device and one client connection per address, and what a waiting device waits
  for), `Told` (what is known of a connection whose thread has reported, or has
  not), `Once` (where each request is) and `Tally` (the counts). `Good` adds what
  holds only between handlers: `Matched` and `Timed`, that an attempt has its
  thread or its report on the way, and its timer. `Inv` is `Good` with no request
  in hand, and `Awake`.
- `Told` is what makes the rest inductive. A success on its way has a connection
  in the list, whose thread has gone on to read, and comes once and before the
  exception that ends it; a failure on its way, as a message or a delayed one, has
  a thread that is done, and neither of the two comes with it. Without this the
  late outcome of an attempt that has timed out could end a later one.
- Lemmas named `...Is` say what an operation changes, `Core...` and `...Frame`
  that it keeps the parts of the invariant, `...Sound` that a handler does, and
  `...Step` that an action does. `Aside` and `Plain` are the two ways in which a step
  outside the looper concerns the record.
- `CountMatchesOwners` counts queued releases. `ReleasesRest` and `TallyPost` say how
  that number follows the queue. They rest on a few facts about finite sets, which
  are gathered in `SetLaws`: the lemmas of `BrManagerSteps` assume it where they count,
  and `SetLawsHold`, the first lemma of `BrManagerProofs`, proves it from the library
  before any of them is used.
- A lemma that one proof alone needs is a step of that proof, which bears its name.
- Assumptions: `BoundsNat`, `NamesApart` (no address is the name of the absent one)
  and `FewRequests` (the requests are finitely many).

`LockFreeQueueProofs`, for any finite sets of producers and consumers, any ring
size, any counter modulus that is a multiple of it, and any start:

- `CountersOrdered` (`Ordered`) and `CountIsExact` (`CountExact`). The invariant `RingInv` says that a
  thread that holds a slot has a number between tail and head that no other
  thread of its side has, and that a thread about to swap has read a head that
  is out of date or still has room. The arithmetic lemmas (`ModSame`,
  `DifferenceExact`) reduce comparisons modulo `Wrap` to exact ones.
- `RingIsFifo`: the ring implements `BoundedFifo`. `QueueInv` adds that
  published slots hold items until they are released (a producer writes only
  into a slot that nobody reads, `WriteIsPrivate`) and that the slots between
  tail and head are exactly those of the threads that hold one, which justifies
  "full". There is one lemma for each kind of step.
- Assumptions: `SizeAssumption` and `ThreadAssumption`.

`ProxyChannelProofs`, for every finite set of channels, every time-out and every
workload:

- `TypeCorrect`: the type invariant, which is inductive as
  it stands. `Fields` gives it one variable at a time. The module also has the
  lemmas on what posting to the looper and taking from it do to its queue.
- `WaiterHasRequestHolds` (`WaiterHasRequest`). The invariant `WaiterInv` adds
  that a connecting item has its request under way (`ItemHasRequest`), which is
  what an opener that joins relies on, and that an opener that makes a request
  has marked its channel with it (`OwnRequest`).
- `OpenAnsweredOnceHolds` (`OpenAnsweredOnce`). That nobody was told twice is not
  inductive: it depends on who may still tell. `Accounted(c)` says, for each
  status of the channel and place of its opener, who may have it in hand (a
  queued handshake, the negotiation, the peer, the looper or the data callback
  about to give it up, the timer, a queued report), that at most one of them has
  its handshake (`OneHand`), and that whoever may report finds it unanswered.
  `QueuedOnce` and `LateOnce` exclude duplicates in the queue and with the timer.
  `OwnBusiness` excludes that a connect result moves a channel whose opener has
  not returned. `Frame`, `Removed` and `RemovedAndTold` are the three ways in
  which a step concerns a channel; each thread has a lemma of its own.
- Assumption: `ProxyAssumption`.

`BytesDeliveryProofs`, for every set of posters, processes, priorities and
tasks, every ring size and every bound on calls and failures:

- `TypeCorrect`, `OneConsumer` (`SingleConsumer`), `NoItemStranded`
  (`ItemHasTask`), `OrderKept` (`InOrder`), `TurnsKept` (`RoundRobin`).
- `SoundQueue` is about the queue as a value: items are where their id and
  priority say, in the order of the calls of each poster, and there is one list
  per id. `Enqueue...` and `Dequeue...` lemmas say what the operators of
  `FairPriorityQueue` do to such a queue. `OneTask` ties the flag and the lock to
  the task at work; `Numbered` numbers the calls and keeps the queue, the hands
  and the handled items apart; `Marked` says that a poster about to enqueue has
  left its mark and that a task in its exclusive wait sees it, which is what
  `ItemHasTask` depends on; `Rotated` says that the lists served while an id
  waits come after the list of that id, which gives the turns.
- Assumptions: `SizeAssumption`, `BoundsNat`, `LaneAssumption` (an id is a
  number, a priority one of three), `TaskAssumption` (no task has the name of
  the free lock).

`BrSendProofs`, for every set of posters, with any processes, levels and
lengths, every set of limits and every workload:

- `SleepersHaveFullQueues` (`SleeperHasFullQueue`), `NodesHaveTask`
  (`NodeHasTask`), `PacketsLive` (`PacketLifetime`), `QuotaNeverExceeded`
  (`QuotaKept`), `SleepIsLongEnough` (`SleepsOnce`).
- `SleepersKept` depends on one queue per process (`QueuesTyped`): a dequeue from
  a full queue wakes all that sleep at it, and no other queue of that process
  can be meant. `Announced` says what the task knows when it sleeps, hesitates or
  has left: a poster that is on its way has set `messagePosted`, or was already
  on its way when the task began to sleep. `PacketsCounted` relates the reference
  count of a packet to those who refer to it: the list and, while it waits, the
  task.
- `Metered` compares what the controller remembers with what it has granted, not
  only for the configured window but for every shorter one, since time shortens
  what is left of it: `Applied` over a list that is a unit older is `Applied` over
  the list for a window that is a unit shorter (`AppliedOlder`), and forgetting
  what has expired changes no sum over a window that is not longer (`WithinIs`).
  While a sender sleeps, the sum over the window less the rest of the sleep is
  below the quota: the sleep lasts until the oldest history leaves
  (`AppliedGrows`). `Transmitting` says which node is being sent and how much of
  it is left.
- Assumptions: `PostersTyped`, where the limit of a queue is above
  `WAIT_QUEUE_BUFFER_PERIOD_LEN`, so that an empty queue is not full, and
  `ConfigPositive`, which `ChangeConfiguration` checks.

`LooperProofs`, for any number of loopers and messages:

- `OwnedOnce` (`OneOwner`), `FreedUnused` (`NoUseAfterFree`), `RemovedStaysQuiet`
  (`QuietAfterRemove`).
- `LooperIsTimedQueue` (`ImplementsTimedQueue`): initial states map to initial
  states, `LoopTake`, `PostInsert` and `RemoveMessage` on the first looper map to
  steps of the timed queue (`TakeRefines`, `InsertRefines`, `RemoveRefines`), time
  maps to time, and everything else is a stutter.
- `Owned` says where each message is. `Chronological` says that a list is sorted
  by time and, at equal times, by the order of the posts; a list alone does not
  show the latter, hence the ghost `posted`. `Alive` says which loopers exist and
  what has been destroyed. `Exclusive` holds unless `LooperDeinit` came too
  early: one thread at a time destroys, and it frees a looper only after its
  thread has left the loop. It does not depend on posts and removals, which is why
  `FreedUnused` holds of the owners without any condition on callers. `Removals` says
  that a removal that has begun is at a live context unless it has overlapped its
  end.
- Assumption: `LooperConstants` (the loopers are listed once each, every message
  has a looper, times are natural numbers).

Arguments by induction over a set of positions (the first position with a later
time, the first list with an item) are made by a least element, with
`WellFoundedInduction`; what the recursive function of `Without` computes is
shown in the same way, by the least position at which it would be wrong
(`WithoutIs`), and so is what `Applied` and `Within` of `FlowControl` compute
(`AppliedIs`, `WithinWalks`).

Only model-checked:

- all liveness properties: fairness and ENABLED are outside the fragment that
  the installed provers handle;
- `ReferencesMatchUsers` of `ProxyChannel`, which counts over sets and a queue.

## What the runs found

- `br_reference_cut`: `NotifyReferenceRequest` closes the physical link on a
  request that says "my count is 0" although the sender has meanwhile been
  resumed and holds a reference again. The interface comment promises to
  disconnect when the reference count is zero.
- `br_manager_retry`: retries after an ACL collision are counted in the
  connection object, and each attempt makes a new one: `MAX_RETRY_COUNT` never
  takes effect. The run reaches the second retry, a third attempt.
- `bytes_delivery_lost`: `RetryDequeueExclusiveIfNeed` dequeues into the address
  of its own parameter; an item that arrives right after the idle timeout is
  lost and the task follows a NULL pointer.

## Not modelled

Cryptography, serialisation, statistics, logs and dumps; file and socket system
calls below the accesses that the modules name; nStackX. Failures of locks, of
allocation and of posting a message are not modelled, except where a property
is about them (the creation of threads and of items). The clock never goes
back, and 16-bit connection ids are not given again.

Of the parts that are modelled:

- BR: the listening server (`ListenTask`, `ConnBrStartServer`,
  `ConnBrStopServer`), the assembly of received frames, and the keep-alive hints
  to BLE.
- Message loops: dumps, and the loopers that other modules create for
  themselves.
- Proxy channels: connections over TCP, the server side of the handshake
  (`TransProxyProcessHandshakeMsg` and what follows it), data, keep-alive,
  D2D and paging channels. The reference that `TransCreateConnByConnId` takes on
  the server side is therefore outside `ReferencesMatchUsers`.

The other components are listed in `PROJECT.json` with the reason. BLE is built
like BR and would be the next to model, with its GATT server and its retries
counted on the device; authentication and the joining of nodes depend on
the results of cryptography and on each other and need an abstraction of both.
