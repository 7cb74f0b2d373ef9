-------------------------- MODULE FairPriorityQueue -------------------------
(***************************************************************************)
(* The queue of core/connection/common/src/softbus_conn_fair_priority_     *)
(* queue.c as a value: one queue per priority for the softbus itself (id   *)
(* 0, the inner queue) and for every process that has items, served in     *)
(* turn.  An operation that the code runs under the queue's lock is an     *)
(* operator here; waiting for room or for an item is left to the caller.   *)
(***************************************************************************)
EXTENDS Integers, Sequences, FiniteSets, FiniteSetsExt, Functions

CONSTANT Size   \* unitNum, the size of each ring

ASSUME SizeAssumption == Size \in Nat \ {0}

HIGH == 0
MIDDLE == 1
LOW == 2
Priority == HIGH..LOW

\* the values the structures take for items of a set
PriorityQueue(Item) == [id : Nat, queue : [Priority -> Seq(Item)]]
Queue(Item) == [inner : PriorityQueue(Item), queues : Seq(PriorityQueue(Item))]

CreatePriorityQueue(id) == [id |-> id, queue |-> [p \in Priority |-> <<>>]]
ConnCreateQueue == [inner |-> CreatePriorityQueue(0), queues |-> <<>>]

PriorityQueueItems(pq) == UNION {Range(pq.queue[p]) : p \in Priority}
QueueItems(q) ==
  PriorityQueueItems(q.inner) \cup UNION {PriorityQueueItems(pq) : pq \in Range(q.queues)}

-----------------------------------------------------------------------------
(***************************************************************************)
(* ConnEnqueue: the attempt creates the queue of the process if need be.   *)
(* A ring of Size slots holds Size - 1 items.                              *)
(***************************************************************************)
\* the first of the positions I of a list, 0 if there is none
First(I) == IF I = {} THEN 0 ELSE Min(I)

Find(q, id) == First({i \in DOMAIN q.queues : q.queues[i].id = id})

GetOrCreatePriorityQueue(q, id) ==
  IF id = 0 \/ Find(q, id) # 0 THEN q
  ELSE [q EXCEPT !.queues = Append(@, CreatePriorityQueue(id))]

PriorityQueueOf(q, id) == IF id = 0 THEN q.inner ELSE q.queues[Find(q, id)]

\* Mutant: a ring is taken to hold Size items.
HasRoomForOneMore(q, item) ==
  Len(PriorityQueueOf(GetOrCreatePriorityQueue(q, item.id), item.id).queue[item.priority])
    < Size

HasRoom(q, item) ==
  Len(PriorityQueueOf(GetOrCreatePriorityQueue(q, item.id), item.id).queue[item.priority])
    < Size - 1

\* Mutant: the item is put in front.
EnqueueInFront(q, item) ==
  LET r == GetOrCreatePriorityQueue(q, item.id)
  IN  IF item.id = 0 THEN [r EXCEPT !.inner.queue[item.priority] = <<item>> \o @]
      ELSE [r EXCEPT !.queues[Find(r, item.id)].queue[item.priority] = <<item>> \o @]

Enqueue(q, item) ==
  LET r == GetOrCreatePriorityQueue(q, item.id)
  IN  IF item.id = 0 THEN [r EXCEPT !.inner.queue[item.priority] = Append(@, item)]
      ELSE [r EXCEPT !.queues[Find(r, item.id)].queue[item.priority] = Append(@, item)]

-----------------------------------------------------------------------------
(***************************************************************************)
(* ConnDequeue.  A result is the queue and the items taken from it: one,   *)
(* or none (QUEUE_EMPTY).                                                  *)
(***************************************************************************)
\* Mutant: the loop ends before the least urgent priority.
ReadyBefore(pq, least) == {p \in Priority : p < least /\ pq.queue[p] # <<>>}

Ready(pq, least) == {p \in Priority : p <= least /\ pq.queue[p] # <<>>}

\* the most urgent item, if any
Dequeue(pq, least) ==
  LET p == CHOOSE p \in Ready(pq, least) : \A o \in Ready(pq, least) : p <= o
  IN  IF Ready(pq, least) = {} THEN [pq |-> pq, out |-> {}]
      ELSE [pq |-> [pq EXCEPT !.queue[p] = Tail(@)], out |-> {Head(pq.queue[p])}]

DequeueInner(q, least) ==
  LET d == Dequeue(q.inner, least) IN [queue |-> [q EXCEPT !.inner = d.pq], out |-> d.out]

\* Mutant: the queue that was served keeps its place.
DequeueFairlyUnrotated(q) ==
  LET i == First({k \in DOMAIN q.queues : Ready(q.queues[k], LOW) # {}})
      d == Dequeue(q.queues[i], LOW)
  IN  IF i = 0 THEN [queue |-> [q EXCEPT !.queues = <<>>], out |-> {}]
      ELSE [queue |-> [q EXCEPT !.queues = <<d.pq>> \o SubSeq(@, i + 1, Len(@))], out |-> d.out]

\* Empty queues met on the way are destroyed; the one served goes to the end.
DequeueFairly(q) ==
  LET i == First({k \in DOMAIN q.queues : Ready(q.queues[k], LOW) # {}})
      d == Dequeue(q.queues[i], LOW)
  IN  IF i = 0 THEN [queue |-> [q EXCEPT !.queues = <<>>], out |-> {}]
      ELSE [queue |-> [q EXCEPT !.queues = Append(SubSeq(@, i + 1, Len(@)), d.pq)],
            out |-> d.out]

ConnDequeue(q) ==
  LET urgent == DequeueInner(q, MIDDLE)
      fair == DequeueFairly(q)
  IN  IF urgent.out # {} THEN urgent
      ELSE IF fair.out # {} THEN fair
      ELSE DequeueInner(fair.queue, LOW)
=============================================================================
