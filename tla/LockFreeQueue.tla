---------------------------- MODULE LockFreeQueue ---------------------------
(***************************************************************************)
(* The ring of core/common/include/softbus_queue.h under                   *)
(* QueueMultiProducerEnqueue and QueueMultiConsumerDequeue.  A thread      *)
(* reserves a slot by a compare-and-swap of head, uses it, and gives it to *)
(* the other side by moving tail when its turn has come.  The "thread      *)
(* unsafe" variants are the same steps of an only producer or an only      *)
(* consumer, whose compare-and-swap cannot fail.                           *)
(*                                                                         *)
(* A step accesses shared memory once; the barriers of the code keep the   *)
(* steps in order.  The counters are the numbers of operations; the code   *)
(* holds and compares them modulo Wrap, which is 2^32.  A thread is not    *)
(* overtaken by Wrap operations within a call (NotOvertaken): the compare- *)
(* and-swap of a counter that has come round is out of scope.              *)
(***************************************************************************)
EXTENDS Integers, Sequences, FiniteSets

CONSTANTS
  Producer,  \* threads that enqueue
  Consumer,  \* threads that dequeue
  Size,      \* unitNum, a power of two
  Wrap,      \* the modulus of the counters, a multiple of Size
  Start,     \* operations completed before, on both sides
  MaxEnqueues,  \* bound: calls per producer
  MaxDequeues   \* bound: calls per consumer

ASSUME SizeAssumption ==
  /\ Size \in Nat \ {0}
  /\ Wrap \in Nat /\ Wrap % Size = 0 /\ Wrap > Size
  /\ Start \in Nat
  /\ MaxEnqueues \in Nat /\ MaxDequeues \in Nat

ASSUME ThreadAssumption ==
  /\ IsFiniteSet(Producer) /\ IsFiniteSet(Consumer)
  /\ Producer \cap Consumer = {}

VARIABLES
  prodHead, prodTail,  \* queue->producer.head, .tail
  consHead, consTail,  \* queue->consumer.head, .tail
  nodes,   \* queue->nodes
  pc,      \* pc[t]: the next step of t
  head,    \* head[t]: t's producerHead or consumerHead
  out,     \* out[c]: *node of c
  calls    \* calls[t]: calls so far (bound; numbers the items of a producer)

vars == <<prodHead, prodTail, consHead, consTail, nodes, pc, head, out, calls>>
counters == <<prodHead, prodTail, consHead, consTail>>

Thread == Producer \cup Consumer
None == <<"none", 0>>
Item == Producer \X (1..MaxEnqueues)
Mask == Size - 1

\* The difference of two counters in unsigned arithmetic
Difference(a, b) == ((a % Wrap) - (b % Wrap)) % Wrap
Same(a, b) == a % Wrap = b % Wrap

TypeOK ==
  /\ {prodHead, prodTail, consHead, consTail} \subseteq Nat
  /\ nodes \in [0..Mask -> Item \cup {None}]
  /\ pc \in [Thread -> {"idle", "load", "check", "swap", "copy", "publish"}]
  /\ head \in [Thread -> Nat]
  /\ out \in [Consumer -> Item \cup {None}]
  /\ calls \in [Thread -> Nat]

\* QueueInit, and as many operations as Start says.
Init ==
  /\ prodHead = Start /\ prodTail = Start
  /\ consHead = Start /\ consTail = Start
  /\ nodes = [i \in 0..Mask |-> None]
  /\ pc = [t \in Thread |-> "idle"]
  /\ head = [t \in Thread |-> 0]
  /\ out = [c \in Consumer |-> None]
  /\ calls = [t \in Thread |-> 0]

\* bound: a head moves only as long as the values that other threads have read
\* of it are recent.
NotOvertaken(threads, counter) ==
  \A t \in threads : pc[t] \in {"check", "swap"} => counter + Size < head[t] + Wrap

Go(t, step) == pc' = [pc EXCEPT ![t] = step]

Begin(t) ==
  /\ pc[t] = "idle"
  /\ calls[t] < IF t \in Producer THEN MaxEnqueues ELSE MaxDequeues
  /\ calls' = [calls EXCEPT ![t] = @ + 1]
  /\ out' = IF t \in Consumer THEN [out EXCEPT ![t] = None] ELSE out
  /\ Go(t, "load")
  /\ UNCHANGED <<counters, nodes, head>>

-----------------------------------------------------------------------------
(***************************************************************************)
(* QueueMultiProducerEnqueue                                               *)
(***************************************************************************)
LoadProducerHead(p) ==
  /\ pc[p] = "load"
  /\ head' = [head EXCEPT ![p] = prodHead]
  /\ Go(p, "check")
  /\ UNCHANGED <<counters, nodes, out, calls>>

\* Mutant: every slot of the ring is used.
FreeSlotsAll(p) == Difference(Size + consTail, head[p])

FreeSlots(p) == Difference(Mask + consTail, head[p])

\* Reading the consumer's tail; QUEUE_FULL when there is no free slot.
CheckFull(p) ==
  /\ pc[p] = "check"
  /\ Go(p, IF FreeSlots(p) < 1 THEN "idle" ELSE "swap")
  /\ UNCHANGED <<counters, nodes, head, out, calls>>

\* Mutant: head is moved although another producer has moved it.
SwapProducerHeadAlways(p) ==
  /\ pc[p] = "swap"
  /\ prodHead' = prodHead + 1
  /\ Go(p, IF Same(prodHead, head[p]) THEN "copy" ELSE "load")
  /\ UNCHANGED <<prodTail, consHead, consTail, nodes, head, out, calls>>

SwapProducerHead(p) ==
  /\ pc[p] = "swap"
  /\ IF Same(prodHead, head[p])
     THEN /\ NotOvertaken(Producer, prodHead)
          /\ prodHead' = prodHead + 1
          /\ Go(p, "copy")
     ELSE UNCHANGED prodHead /\ Go(p, "load")
  /\ UNCHANGED <<prodTail, consHead, consTail, nodes, head, out, calls>>

WriteNode(p) ==
  /\ pc[p] = "copy"
  /\ nodes' = [nodes EXCEPT ![head[p] % Size] = <<p, calls[p]>>]
  /\ Go(p, "publish")
  /\ UNCHANGED <<counters, head, out, calls>>

\* Mutant: no waiting for the producers that have reserved earlier slots.
PublishNodeAtOnce(p) ==
  /\ pc[p] = "publish"
  /\ prodTail' = prodTail + 1
  /\ Go(p, "idle")
  /\ UNCHANGED <<prodHead, consHead, consTail, nodes, head, out, calls>>

\* "Waiting for other producers to complete enqueuing."
PublishNode(p) ==
  /\ pc[p] = "publish"
  /\ Same(prodTail, head[p])
  /\ prodTail' = prodTail + 1
  /\ Go(p, "idle")
  /\ UNCHANGED <<prodHead, consHead, consTail, nodes, head, out, calls>>

Enqueue(p) ==
  \/ LoadProducerHead(p)
  \/ CheckFull(p)
  \/ SwapProducerHead(p)
  \/ WriteNode(p)
  \/ PublishNode(p)

-----------------------------------------------------------------------------
(***************************************************************************)
(* QueueMultiConsumerDequeue                                               *)
(***************************************************************************)
LoadConsumerHead(c) ==
  /\ pc[c] = "load"
  /\ head' = [head EXCEPT ![c] = consHead]
  /\ Go(c, "check")
  /\ UNCHANGED <<counters, nodes, out, calls>>

\* Mutant: the producer's head is read instead of its tail.
CheckEmptyReserved(c) ==
  /\ pc[c] = "check"
  /\ Go(c, IF Difference(prodHead, head[c]) < 1 THEN "idle" ELSE "swap")
  /\ UNCHANGED <<counters, nodes, head, out, calls>>

\* Reading the producer's tail; QUEUE_EMPTY when nothing has been published.
CheckEmpty(c) ==
  /\ pc[c] = "check"
  /\ Go(c, IF Difference(prodTail, head[c]) < 1 THEN "idle" ELSE "swap")
  /\ UNCHANGED <<counters, nodes, head, out, calls>>

SwapConsumerHead(c) ==
  /\ pc[c] = "swap"
  /\ IF Same(consHead, head[c])
     THEN /\ NotOvertaken(Consumer, consHead)
          /\ consHead' = consHead + 1
          /\ Go(c, "copy")
     ELSE UNCHANGED consHead /\ Go(c, "load")
  /\ UNCHANGED <<prodHead, prodTail, consTail, nodes, head, out, calls>>

ReadNode(c) ==
  /\ pc[c] = "copy"
  /\ out' = [out EXCEPT ![c] = nodes[head[c] % Size]]
  /\ Go(c, "publish")
  /\ UNCHANGED <<counters, nodes, head, calls>>

\* "Waiting for other consumers to finish dequeuing."
ReleaseNode(c) ==
  /\ pc[c] = "publish"
  /\ Same(consTail, head[c])
  /\ consTail' = consTail + 1
  /\ Go(c, "idle")
  /\ UNCHANGED <<prodHead, prodTail, consHead, nodes, head, out, calls>>

Dequeue(c) ==
  \/ LoadConsumerHead(c)
  \/ CheckEmpty(c)
  \/ SwapConsumerHead(c)
  \/ ReadNode(c)
  \/ ReleaseNode(c)

-----------------------------------------------------------------------------
Next ==
  \/ \E t \in Thread : Begin(t)
  \/ \E p \in Producer : Enqueue(p)
  \/ \E c \in Consumer : Dequeue(c)

Spec == Init /\ [][Next]_vars

\* The threads run.
Fairness ==
  /\ \A p \in Producer : WF_vars(Enqueue(p))
  /\ \A c \in Consumer : WF_vars(Dequeue(c))

FairSpec == Spec /\ Fairness

-----------------------------------------------------------------------------
\* Two loads (softbus_queue.c:87-88), read here in one state: its callers hold
\* the lock of the queue (softbus_conn_common.c:179, 200), and no counter moves
\* between the loads.
QueueCountGet == (prodTail - consTail) % Size
QueueIsEmpty == QueueCountGet = 0

\* The counters never overtake each other, and so, as the comments of the code
\* say, "the availableCount must be between 0 and the queue length".
Ordered ==
  /\ consTail <= consHead /\ consHead <= prodTail /\ prodTail <= prodHead
  /\ prodHead <= consTail + Mask

\* The count that QueueCountGet computes with the mask is the exact number of
\* items that have been published and not yet released.
CountExact == QueueCountGet = prodTail - consTail

Contents == [i \in 1..(prodTail - consHead) |-> nodes[(consHead + i - 1) % Size]]
Busy == {t \in Thread : pc[t] # "idle"}
Taken == [c \in Consumer |-> IF pc[c] = "copy" THEN nodes[head[c] % Size] ELSE out[c]]

Fifo == INSTANCE BoundedFifo WITH
  Capacity <- Mask, fifo <- Contents, busy <- Busy, taken <- Taken

\* The ring is a bounded first-in-first-out queue: an item is appended when it
\* is published and taken when consumer.head moves past it, and the slot it is
\* read from later still holds it.
ImplementsFifo == Fifo!Spec

\* Every call returns, although threads wait for each other's turn.
EveryCallReturns == \A t \in Thread : pc[t] # "idle" ~> pc[t] = "idle"
=============================================================================
