---------------------------- MODULE BytesDelivery ---------------------------
(***************************************************************************)
(* Delivering bytes through one worker,                                    *)
(* core/connection/common/src/softbus_conn_bytes_delivery.c: ConnDeliver   *)
(* starts the delivery task if none runs and enqueues an item; the task    *)
(* hands items to the handler and ends when it has been idle.              *)
(*                                                                         *)
(* Two locks are involved.  What is done under the lock of the queue is    *)
(* one step.  The lock of the delivery is the variable lock, because the   *)
(* task holds it over a wait in which posters may enqueue.  A wait on a    *)
(* condition may time out although the condition has been signalled, and   *)
(* may return although it has not.                                         *)
(***************************************************************************)
EXTENDS FairPriorityQueue

CONSTANTS
  Poster,     \* threads that call ConnDeliver
  Task,       \* identities of delivery tasks
  Lane,       \* the <<id, priority>> an item may have
  MaxPosts,   \* bound: calls of ConnDeliver per poster
  MaxFaults   \* bound: failures to start a task or to create an item

ASSUME BoundsNat == {MaxPosts, MaxFaults} \subseteq Nat
ASSUME LaneAssumption == Lane \subseteq Nat \X Priority
ASSUME TaskAssumption == "free" \notin Task

VARIABLES
  queue,    \* delivery->queue
  running,  \* deliveryTaskRunning
  posting,  \* deliveryMessagePosting
  lock,     \* the holder of delivery->lock: a task, or "free"
  poster,   \* poster[p]: where p is in ConnDeliver
  item,     \* item[p]: what p delivers (a set of at most one)
  posts,    \* posts[p]: calls so far (bound)
  task,     \* task[t]: where t is in DeliverTask
  hand,     \* hand[t]: the item t gives to the handler (a set of at most one)
  crashed,  \* DeliverTask has followed a NULL item
  faults,   \* failures so far (bound)
  handled,  \* ghost: the items given to the handler
  turns,    \* ghost: turns[i], the ids served since i has been waiting
  overlap   \* ghost: a poster has cleared posting for another one

vars == <<queue, running, posting, lock, poster, item, posts, task, hand,
          crashed, faults, handled, turns, overlap>>
delivery == <<running, posting, lock>>
ghosts == <<handled, turns, overlap>>

Ids == {lane[1] : lane \in Lane}
Item == [poster : Poster, n : 1..MaxPosts, id : Ids, priority : Priority]

TypeOK ==
  /\ queue \in Queue(Item)
  /\ \A pq \in Range(queue.queues) \cup {queue.inner} :
       \A p \in Priority : Len(pq.queue[p]) < Size
  /\ running \in BOOLEAN /\ posting \in BOOLEAN /\ crashed \in BOOLEAN
  /\ lock \in Task \cup {"free"}
  /\ poster \in [Poster -> {"idle", "pulled", "full", "done"}]
  /\ posts \in [Poster -> 0..MaxPosts]
  /\ item \in [Poster -> SUBSET Item]
  /\ \A p \in Poster : item[p] # {} <=> poster[p] # "idle"
  /\ task \in [Task -> {"off", "dequeue", "waiting", "retry", "exclusive", "handle"}]
  /\ hand \in [Task -> SUBSET Item]
  /\ \A t \in Task : hand[t] # {} <=> task[t] = "handle"
  /\ faults \in 0..MaxFaults
  /\ handled \subseteq Item
  /\ turns \in [Ids -> SUBSET Ids]
  /\ overlap \in BOOLEAN

\* ConnCreateBytesDelivery
Init ==
  /\ queue = ConnCreateQueue
  /\ running = FALSE
  /\ posting = FALSE
  /\ lock = "free"
  /\ poster = [p \in Poster |-> "idle"]
  /\ item = [p \in Poster |-> {}]
  /\ posts = [p \in Poster |-> 0]
  /\ task = [t \in Task |-> "off"]
  /\ hand = [t \in Task |-> {}]
  /\ crashed = FALSE
  /\ faults = 0
  /\ handled = {}
  /\ turns = [i \in Ids |-> {}]
  /\ overlap = FALSE

-----------------------------------------------------------------------------
(***************************************************************************)
(* ConnDeliver                                                             *)
(***************************************************************************)
PullDeliverTaskIfNeed(p) ==
  /\ poster[p] = "idle"
  /\ posts[p] < MaxPosts
  /\ lock = "free"
  /\ posts' = [posts EXCEPT ![p] = @ + 1]
  /\ posting' = TRUE
  /\ \/ /\ \/ running /\ UNCHANGED <<running, task>>
           \/ /\ ~running
              /\ \E t \in Task : task[t] = "off" /\ task' = [task EXCEPT ![t] = "dequeue"]
              /\ running' = TRUE
        /\ poster' = [poster EXCEPT ![p] = "pulled"]
        /\ \E lane \in Lane :
             item' = [item EXCEPT ![p] = {[poster |-> p, n |-> posts'[p],
                                           id |-> lane[1], priority |-> lane[2]]}]
        /\ UNCHANGED faults
     \/ /\ ~running
        /\ faults < MaxFaults
        /\ faults' = faults + 1
        /\ UNCHANGED <<running, task, poster, item>>
  /\ UNCHANGED <<queue, lock, hand, crashed, ghosts>>

\* ConnCreateBytesDeliveryItem fails: ConnDeliver returns at once.
CreateItemFails(p) ==
  /\ poster[p] = "pulled"
  /\ faults < MaxFaults
  /\ faults' = faults + 1
  /\ poster' = [poster EXCEPT ![p] = "idle"]
  /\ item' = [item EXCEPT ![p] = {}]
  /\ UNCHANGED <<queue, delivery, posts, task, hand, crashed, ghosts>>

\* ConnEnqueue, up to its wait for room or its return
ConnEnqueue(p) == \E x \in item[p] :
  /\ poster[p] = "pulled"
  /\ IF HasRoom(queue, x)
     THEN /\ queue' = Enqueue(queue, x)
          /\ poster' = [poster EXCEPT ![p] = "done"]
     ELSE /\ queue' = GetOrCreatePriorityQueue(queue, x.id)
          /\ poster' = [poster EXCEPT ![p] = "full"]
  /\ UNCHANGED <<delivery, item, posts, task, hand, crashed, faults, ghosts>>

\* After the wait it tries once more, and gives up if there is still no room.
EnqueueAfterWait(p) == \E x \in item[p] :
  /\ poster[p] = "full"
  /\ poster' = [poster EXCEPT ![p] = "done"]
  /\ queue' = IF HasRoom(queue, x) THEN Enqueue(queue, x)
              ELSE GetOrCreatePriorityQueue(queue, x.id)
  /\ UNCHANGED <<delivery, item, posts, task, hand, crashed, faults, ghosts>>

EnqueueTimeout(p) ==
  /\ poster[p] = "full"
  /\ poster' = [poster EXCEPT ![p] = "done"]
  /\ UNCHANGED <<queue, delivery, item, posts, task, hand, crashed, faults, ghosts>>

\* Mutant: only a call that has enqueued its item takes the mark back.
MarkPostMessageDoneOnSuccess(p) ==
  /\ poster[p] = "done"
  /\ lock = "free"
  /\ posting' = (posting /\ item[p] \cap (QueueItems(queue) \cup handled) = {})
  /\ poster' = [poster EXCEPT ![p] = "idle"]
  /\ item' = [item EXCEPT ![p] = {}]
  /\ overlap' = (overlap \/ \E o \in Poster \ {p} : poster[o] \in {"pulled", "full"})
  /\ UNCHANGED <<queue, running, lock, posts, task, hand, crashed, faults, handled, turns>>

MarkPostMessageDone(p) ==
  /\ poster[p] = "done"
  /\ lock = "free"
  /\ posting' = FALSE
  /\ poster' = [poster EXCEPT ![p] = "idle"]
  /\ item' = [item EXCEPT ![p] = {}]
  /\ overlap' = (overlap \/ \E o \in Poster \ {p} : poster[o] \in {"pulled", "full"})
  /\ UNCHANGED <<queue, running, lock, posts, task, hand, crashed, faults, handled, turns>>

-----------------------------------------------------------------------------
(***************************************************************************)
(* DeliverTask                                                             *)
(***************************************************************************)
caller == <<poster, item, posts, faults, overlap>>

\* ghost: the ids that wait see x.id served
Served(x) ==
  [i \in Ids |-> IF i # x.id /\ i \in {y.id : y \in QueueItems(queue)}
                 THEN turns[i] \cup {x.id} ELSE {}]

\* ConnDequeue succeeds: the item is given to the handler.
Take(t) ==
  /\ ConnDequeue(queue).out # {}
  /\ queue' = ConnDequeue(queue).queue
  /\ hand' = [hand EXCEPT ![t] = ConnDequeue(queue).out]
  /\ task' = [task EXCEPT ![t] = "handle"]
  /\ \E x \in ConnDequeue(queue).out : turns' = Served(x)
  /\ UNCHANGED <<delivery, caller, crashed, handled>>

\* ConnDequeue finds no item (it has dropped the empty queues): to the wait, or,
\* after the wait, to the next round by way of errorRetryWaitMs.
Miss(t, next) ==
  /\ ConnDequeue(queue).out = {}
  /\ queue' = ConnDequeue(queue).queue
  /\ task' = [task EXCEPT ![t] = next]
  /\ UNCHANGED <<delivery, caller, hand, crashed, handled, turns>>

DequeueFirst(t) == task[t] = "dequeue" /\ (Take(t) \/ Miss(t, "waiting"))
DequeueAfterWait(t) == task[t] = "waiting" /\ (Take(t) \/ Miss(t, "dequeue"))

IdleTimeout(t) ==
  /\ task[t] = "waiting"
  /\ task' = [task EXCEPT ![t] = "retry"]
  /\ UNCHANGED <<queue, delivery, caller, hand, crashed, handled, turns>>

\* The item that RetryDequeueExclusiveIfNeed dequeues goes to its own parameter
\* out and not to *out: DeliverTask goes on with NULL.
TakeIntoParameter(t) ==
  /\ ConnDequeue(queue).out # {}
  /\ queue' = ConnDequeue(queue).queue
  /\ crashed' = TRUE
  /\ lock' = "free"
  /\ UNCHANGED <<running, posting, task, caller, hand, handled, turns>>

\* RetryDequeueExclusiveIfNeed, up to the wait of its ConnDequeue
RetryDequeueExclusive(t) ==
  /\ task[t] = "retry"
  /\ lock = "free"
  /\ \/ TakeIntoParameter(t)
     \/ /\ ConnDequeue(queue).out = {}
        /\ queue' = ConnDequeue(queue).queue
        /\ lock' = t
        /\ task' = [task EXCEPT ![t] = "exclusive"]
        /\ UNCHANGED <<running, posting, caller, hand, crashed, handled, turns>>

\* The wait is woken: the second attempt fails only if the wake-up was spurious.
ExclusiveAfterWait(t) ==
  /\ task[t] = "exclusive"
  /\ \/ TakeIntoParameter(t)
     \/ /\ ConnDequeue(queue).out = {}
        /\ queue' = ConnDequeue(queue).queue
        /\ lock' = "free"
        /\ task' = [task EXCEPT ![t] = "dequeue"]
        /\ UNCHANGED <<running, posting, caller, hand, crashed, handled, turns>>

\* Mutant: the flag is cleared before posting is looked at.
ExclusiveTimeoutClearFirst(t) ==
  /\ task[t] = "exclusive"
  /\ lock' = "free"
  /\ running' = FALSE
  /\ task' = [task EXCEPT ![t] = IF posting THEN "dequeue" ELSE "off"]
  /\ UNCHANGED <<queue, posting, caller, hand, crashed, handled, turns>>

\* Mutant: posting is not looked at.
ExclusiveTimeoutUnmarked(t) ==
  /\ task[t] = "exclusive"
  /\ lock' = "free"
  /\ running' = FALSE
  /\ task' = [task EXCEPT ![t] = "off"]
  /\ UNCHANGED <<queue, posting, caller, hand, crashed, handled, turns>>

\* It times out, which it may do although an item has come meanwhile.
ExclusiveTimeout(t) ==
  /\ task[t] = "exclusive"
  /\ lock' = "free"
  /\ running' = posting
  /\ task' = [task EXCEPT ![t] = IF posting THEN "dequeue" ELSE "off"]
  /\ UNCHANGED <<queue, posting, caller, hand, crashed, handled, turns>>

Handle(t) ==
  /\ task[t] = "handle"
  /\ handled' = handled \cup hand[t]
  /\ hand' = [hand EXCEPT ![t] = {}]
  /\ task' = [task EXCEPT ![t] = "dequeue"]
  /\ UNCHANGED <<queue, delivery, caller, crashed, turns>>

-----------------------------------------------------------------------------
Deliver(p) ==
  \/ CreateItemFails(p)
  \/ ConnEnqueue(p)
  \/ EnqueueAfterWait(p)
  \/ EnqueueTimeout(p)
  \/ MarkPostMessageDone(p)

DeliverTask(t) ==
  \/ DequeueFirst(t)
  \/ DequeueAfterWait(t)
  \/ IdleTimeout(t)
  \/ RetryDequeueExclusive(t)
  \/ ExclusiveAfterWait(t)
  \/ ExclusiveTimeout(t)
  \/ Handle(t)

Next ==
  /\ ~crashed
  /\ \/ \E p \in Poster : PullDeliverTaskIfNeed(p) \/ Deliver(p)
     \/ \E t \in Task : DeliverTask(t)

Spec == Init /\ [][Next]_vars

(***************************************************************************)
(* Fairness.  Threads run, the handler returns and waits end.  A task that *)
(* waits again and again is not woken spuriously each time, and a poster   *)
(* gets the lock that the task takes once per idle time.                   *)
(***************************************************************************)
Fairness ==
  /\ \A p \in Poster : SF_vars(~crashed /\ Deliver(p))
  /\ \A t \in Task : /\ WF_vars(~crashed /\ DeliverTask(t))
                     /\ SF_vars(~crashed /\ IdleTimeout(t))
                     /\ SF_vars(~crashed /\ ExclusiveTimeout(t))

FairSpec == Spec /\ Fairness

-----------------------------------------------------------------------------
Items == QueueItems(queue)

\* There is one consumer at a time, as QueueSingleConsumerDequeue requires, and
\* deliveryTaskRunning tells the truth about it.
SingleConsumer ==
  Cardinality({t \in Task : task[t] # "off"}) = (IF running THEN 1 ELSE 0)

\* An item in the queue has a task that will take it, unless one poster has
\* cleared deliveryMessagePosting while another one was about to enqueue.
ItemHasTask == Items # {} /\ ~crashed /\ ~overlap => running

\* Items of one poster with the same id and priority reach the handler in the
\* order of the calls of ConnDeliver, and no item reaches it twice.
InOrder ==
  [][\A t \in Task : \A x \in hand'[t] \ hand[t] :
       /\ x \notin handled
       /\ \A y \in Items : <<y.poster, y.id, y.priority>> = <<x.poster, x.id, x.priority>>
                             => x.n <= y.n]_vars

\* Fairness between processes: while items of one process wait, no other
\* process is served twice.
RoundRobin ==
  [][\A t \in Task : \A x \in hand'[t] \ hand[t] :
       x.id # 0 => \A y \in Items : y.id \notin {0, x.id} => x.id \notin turns[y.id]]_vars

\* What ConnDeliver has enqueued reaches the handler ("it will restart after
\* enqueue later"), unless posters overlap.
EveryItemDelivered ==
  \A p \in Poster, n \in 1..MaxPosts :
    (\E x \in Items : x.poster = p /\ x.n = n)
      ~> \/ crashed \/ overlap
         \/ \E x \in handled : x.poster = p /\ x.n = n

\* A task that nobody needs ends: "dequeue timeout, exit delivery task".  A call
\* that has failed leaves deliveryMessagePosting set and keeps it running.
IdleTaskExits ==
  (\A p \in Poster : poster[p] = "idle")
    ~> \/ crashed \/ faults > 0
       \/ ~running
       \/ \E p \in Poster : poster[p] # "idle"

\* DeliverTest: "EXPECT_EQ(got.size(), delivered.size())".  An item that was
\* enqueued is not lost between the queue and the handler.
NoItemLost == ~crashed
=============================================================================
