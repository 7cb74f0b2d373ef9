------------------------------- MODULE BrSend -------------------------------
(***************************************************************************)
(* The send path of BR connections: ConnBrPostBytes puts a node into the   *)
(* queue of its process (softbus_conn_br_send_queue.c) and one send task,  *)
(* SendHandlerLoop, takes the nodes out and writes them in pieces that the *)
(* flow control allows (softbus_conn_br_trans.c).  The task leaves when it *)
(* has waited ten minutes for a node and no post was announced meanwhile.  *)
(*                                                                         *)
(* A poster is a thread that posts nodes of one process and priority to    *)
(* the connection; a node is named by its poster.  Every critical section  *)
(* is one step: g_startBrSendLPInfo.lock (Post, ClearPosted, IdleCheck),   *)
(* g_brQueueLock (Enqueue, Dequeue), the pending list and the controller.  *)
(* A poster waiting in WaitQueueLength keeps a pointer to a queue that     *)
(* Dequeue may free meanwhile: it becomes stale, and the model stops when  *)
(* one is, as nothing is known of what it does next.                       *)
(***************************************************************************)
EXTENDS FlowControl, BrAckWindow

CONSTANTS
  Poster,       \* the threads that post
  Pid,          \* the process of a poster, 0 for the service itself
  Level,        \* its priority: 1 HIGH, 2 MIDDLE, 3 LOW
  Length,       \* the length of its nodes
  Mtu, AckLength,
  QueueLimit,   \* GetQueueLimit, of every priority
  MaxTry,       \* CONN_BR_SEND_DATA_FAIL_TRY_SEND_COUNT_MAX
  Workload      \* bounds: [posts, changes, cut]

ASSUME PostersTyped ==
  /\ Pid \in [Poster -> Nat]
  /\ Level \in [Poster -> 1 .. 3]
  /\ Length \in [Poster -> Nat \ {0}]
  /\ QueueLimit \in Nat /\ QueueLimit > 2
  /\ {Mtu, AckLength} \subseteq Nat \ {0}

VARIABLES
  work,          \* what may still happen: [posts, changes, cut]
  listed,        \* the connection is in the list of connections
  socketOpen,    \* its socket handle is valid
  linkUp,        \* the driver still has the socket
  reading,       \* its reader has not failed yet
  messagePosted, sendTaskRunning,   \* g_startBrSendLPInfo
  poster,        \* where each poster is
  innerQueue,    \* g_innerQueue->queue
  brQueueList,   \* g_brQueueList: [pid, queue]
  stale,         \* the posters whose queue was freed
  task,          \* where the send task is
  sendNode,      \* the node it has taken, or None
  sending,       \* BrTransSend: [what, left, tries, amount, sleep, slept]
  owed,          \* ghost: nodes accepted and not yet reported, by poster
  late,          \* ghost: posters between their two locks since the task waits
  stalled,       \* ghost: one stayed there until the task's wait timed out
  lateAck        \* ghost: an ack request was made after the reader failed

link == <<listed, socketOpen, linkUp, reading>>
lpInfo == <<messagePosted, sendTaskRunning>>
queues == <<poster, innerQueue, brQueueList, stale>>
ghosts == <<owed, late, stalled, lateAck>>
vars == <<flow, ack, work, link, lpInfo, queues, task, sendNode, sending, ghosts>>

None == "none"
Priority == 1 .. 3
LOW == 3
MIDDLE == 2
WAIT_QUEUE_BUFFER_PERIOD_LEN == 2
EmptyQueue == [q \in Priority |-> <<>>]
NotSending == [what |-> None, left |-> 0, tries |-> 0, amount |-> 0,
               sleep |-> 0, slept |-> FALSE]

Init ==
  /\ FlowInit
  /\ AckInit
  /\ work \in Workload
  /\ listed = TRUE /\ socketOpen = TRUE /\ linkUp = TRUE /\ reading = TRUE
  /\ messagePosted = FALSE /\ sendTaskRunning = FALSE
  /\ poster = [p \in Poster |-> "idle"]
  /\ innerQueue = EmptyQueue
  /\ brQueueList = <<>>
  /\ stale = {}
  /\ task = "off"
  /\ sendNode = None
  /\ sending = NotSending
  /\ owed = [p \in Poster |-> 0]
  /\ late = {}
  /\ stalled = FALSE
  /\ lateAck = FALSE

----------------------------------------------------------------------------
(* ConnBrPostBytes and the connection queues *)

IsInner(p) == Pid[p] = 0
HasQueue(p) == \E i \in DOMAIN brQueueList : brQueueList[i].pid = Pid[p]
\* the queue that poster p looks up
Lane(p) ==
  IF IsInner(p) THEN innerQueue[Level[p]]
  ELSE LET i == CHOOSE i \in DOMAIN brQueueList : brQueueList[i].pid = Pid[p]
       IN  brQueueList[i].queue[Level[p]]

\* WaitQueueLength has to wait
Full(lane) == Len(lane) >= QueueLimit - WAIT_QUEUE_BUFFER_PERIOD_LEN

\* the connection is there and connected; a control message may precede that
Ready(p) == listed /\ (socketOpen \/ IsInner(p))

\* The connection is looked up, the post is announced, and the task started if
\* there is none.  The look is under the lock of the connection and the
\* announcement under another: what the end of the connection can do between the
\* two it can also do between the announcement and the entry into the queue.
Post(p) ==
  /\ poster[p] = "idle"
  /\ work.posts[p] > 0
  /\ work' = [work EXCEPT !.posts[p] = @ - 1]
  /\ IF Ready(p)
     THEN /\ messagePosted' = TRUE
          /\ sendTaskRunning' = TRUE
          /\ task' = IF sendTaskRunning THEN task ELSE "dequeue"
          /\ poster' = [poster EXCEPT ![p] = "posted"]
     ELSE UNCHANGED <<messagePosted, sendTaskRunning, task, poster>>
  /\ UNCHANGED <<flow, ack, link, innerQueue, brQueueList, stale, sendNode,
                 sending, ghosts>>

\* ConnStartActionAsync fails: the announcement stays, the node is freed.
PostStartFails(p) ==
  /\ poster[p] = "idle"
  /\ work.posts[p] > 0
  /\ Ready(p)
  /\ ~sendTaskRunning
  /\ work' = [work EXCEPT !.posts[p] = @ - 1]
  /\ messagePosted' = TRUE
  /\ UNCHANGED <<flow, ack, link, sendTaskRunning, queues, task, sendNode,
                 sending, ghosts>>

\* SoftBusCondBroadcast(&g_sendCond)
Wake(condition) == IF condition /\ task = "wait" THEN "woken" ELSE task

\* the node enters its queue, and ConnBrEnqueueNonBlock returns
Entered(p, wake) ==
  /\ poster' = [poster EXCEPT ![p] = "idle"]
  /\ owed' = [owed EXCEPT ![p] = @ + 1]
  /\ late' = late \ {p}
  /\ task' = Wake(wake)

\* ConnBrEnqueueNonBlock for the service's own messages, and its retry
EnqueueInner(p) ==
  /\ IsInner(p)
  /\ poster[p] \in {"posted", "signalled"}
  /\ ~Full(innerQueue[Level[p]])
  /\ innerQueue' = [innerQueue EXCEPT ![Level[p]] = Append(@, p)]
  /\ Entered(p, TRUE)
  /\ UNCHANGED <<flow, ack, work, link, lpInfo, brQueueList, stale, sendNode,
                 sending, stalled, lateAck>>

\* Mutant: nobody is woken for the first queue of the list.
FirstQueueNever == FALSE
\* isListEmpty
FirstQueue == brQueueList = <<>>

\* the first node of a process: its queue is created
EnqueueNew(p) ==
  /\ ~IsInner(p) /\ ~HasQueue(p)
  /\ poster[p] = "posted"
  /\ brQueueList' = Append(brQueueList,
       [pid |-> Pid[p], queue |-> [EmptyQueue EXCEPT ![Level[p]] = <<p>>]])
  /\ Entered(p, FirstQueue)
  /\ UNCHANGED <<flow, ack, work, link, lpInfo, innerQueue, stale, sendNode,
                 sending, stalled, lateAck>>

\* the queue of the process exists: at once, or when the wait is over
EnqueueFound(p) ==
  /\ ~IsInner(p) /\ HasQueue(p)
  /\ poster[p] \in {"posted", "signalled"}
  /\ ~Full(Lane(p))
  /\ brQueueList' =
       [i \in DOMAIN brQueueList |->
          IF brQueueList[i].pid = Pid[p]
          THEN [brQueueList[i] EXCEPT !.queue[Level[p]] = Append(@, p)]
          ELSE brQueueList[i]]
  /\ Entered(p, FALSE)
  /\ UNCHANGED <<flow, ack, work, link, lpInfo, innerQueue, stale, sendNode,
                 sending, stalled, lateAck>>

\* WaitQueueLength: the queue is full
WaitForRoom(p) ==
  /\ poster[p] \in {"posted", "signalled"}
  /\ IsInner(p) \/ HasQueue(p)
  /\ Full(Lane(p))
  /\ poster' = [poster EXCEPT ![p] = "waiting"]
  /\ UNCHANGED <<flow, ack, work, link, lpInfo, innerQueue, brQueueList, stale,
                 task, sendNode, sending, ghosts>>

\* its timed wait of one second is over
WaitForRoomTimesOut(p) ==
  /\ poster[p] = "waiting"
  /\ poster' = [poster EXCEPT ![p] = "signalled"]
  /\ UNCHANGED <<flow, ack, work, link, lpInfo, innerQueue, brQueueList, stale,
                 task, sendNode, sending, ghosts>>

----------------------------------------------------------------------------
(* SendHandlerLoop: taking a node *)

\* the priority GetMsg takes a message from, if any, 0 otherwise
Found(queue, least) ==
  LET some == {q \in 1 .. least : queue[q] # <<>>}
  IN  IF some = {} THEN 0 ELSE Min(some)

\* the first queue of the list that has a message, 0 if none has
FirstUsed ==
  LET some == {i \in DOMAIN brQueueList : Found(brQueueList[i].queue, LOW) # 0}
  IN  IF some = {} THEN 0 ELSE Min(some)

\* SoftBusCondBroadcast(&g_sendWaitCond)
SignalWaiters(condition) ==
  poster' = [p \in Poster |->
    IF condition /\ poster[p] = "waiting" THEN "signalled" ELSE poster[p]]

\* the queues of these processes are destroyed
Destroyed(pids) ==
  stale' = stale \cup
    {p \in Poster : Pid[p] \in pids /\ poster[p] \in {"waiting", "signalled"}}

\* Mutant: the waiters are told when the queue is full after the message left.
TakeInnerTellsLate(q) ==
  /\ sendNode' = Head(innerQueue[q])
  /\ innerQueue' = [innerQueue EXCEPT ![q] = Tail(@)]
  /\ SignalWaiters(Full(Tail(innerQueue[q])))
\* GetMsg from the service's own queue
TakeInner(q) ==
  /\ sendNode' = Head(innerQueue[q])
  /\ innerQueue' = [innerQueue EXCEPT ![q] = Tail(@)]
  /\ SignalWaiters(Full(innerQueue[q]))

\* ConnBrDequeueBlock: HIGH and MIDDLE messages of the service
DequeueInnerFirst ==
  /\ task \in {"dequeue", "woken"}
  /\ Found(innerQueue, MIDDLE) # 0
  /\ TakeInner(Found(innerQueue, MIDDLE))
  /\ task' = "got"
  /\ UNCHANGED <<flow, ack, work, link, lpInfo, brQueueList, stale, sending, ghosts>>

\* the list: empty queues on the way are destroyed, the used one moves to the tail
DequeueList ==
  LET i == FirstUsed
      item == brQueueList[i]
      q == Found(item.queue, LOW)
      rest == [item EXCEPT !.queue[q] = Tail(@)]
  IN
  /\ task \in {"dequeue", "woken"}
  /\ Found(innerQueue, MIDDLE) = 0
  /\ i # 0
  /\ sendNode' = Head(item.queue[q])
  /\ brQueueList' = Append(SubSeq(brQueueList, i + 1, Len(brQueueList)), rest)
  /\ Destroyed({brQueueList[j].pid : j \in 1 .. i - 1})
  /\ SignalWaiters(Full(item.queue[q]))
  /\ task' = "got"
  /\ UNCHANGED <<flow, ack, work, link, lpInfo, innerQueue, sending, ghosts>>

\* LOW messages of the service, once every other queue was empty
DequeueInnerLast ==
  /\ task \in {"dequeue", "woken"}
  /\ Found(innerQueue, MIDDLE) = 0 /\ FirstUsed = 0
  /\ Found(innerQueue, LOW) # 0
  /\ brQueueList' = <<>>
  /\ Destroyed({item.pid : item \in Range(brQueueList)})
  /\ TakeInner(LOW)
  /\ task' = "got"
  /\ UNCHANGED <<flow, ack, work, link, lpInfo, sending, ghosts>>

\* nothing to send: SoftBusCondWait(&g_sendCond)
DequeueWaits ==
  /\ task \in {"dequeue", "woken"}
  /\ Found(innerQueue, LOW) = 0 /\ FirstUsed = 0
  /\ brQueueList' = <<>>
  /\ Destroyed({item.pid : item \in Range(brQueueList)})
  /\ task' = "wait"
  /\ late' = {p \in Poster : poster[p] # "idle"}
  /\ UNCHANGED <<flow, ack, work, link, lpInfo, poster, innerQueue, sendNode,
                 sending, owed, stalled, lateAck>>

\* BR_WAIT_TIME_SEC is over
DequeueTimesOut ==
  /\ task = "wait"
  /\ task' = "idle"
  /\ stalled' = (stalled \/ late # {})
  /\ UNCHANGED <<flow, ack, work, link, lpInfo, queues, sendNode, sending, owed,
                 late, lateAck>>

\* Mutant: the task leaves and stays marked as running.
LeaveUnmarked == task' = "off" /\ UNCHANGED sendTaskRunning
\* the task leaves
Leave == task' = "off" /\ sendTaskRunning' = FALSE

\* no post was announced since the last node
MayLeave == ~messagePosted

\* SOFTBUS_TIMOUT: the task leaves unless a post was announced
IdleCheck ==
  /\ task = "idle"
  /\ messagePosted' = FALSE
  /\ IF MayLeave THEN Leave ELSE task' = "dequeue" /\ UNCHANGED sendTaskRunning
  /\ UNCHANGED <<flow, ack, work, link, queues, sendNode, sending, ghosts>>

\* a node was taken: the announcement is cleared
ClearPosted ==
  /\ task = "got"
  /\ messagePosted' = FALSE
  /\ task' = "begin"
  /\ UNCHANGED <<flow, ack, work, link, sendTaskRunning, queues, sendNode,
                 sending, ghosts>>

----------------------------------------------------------------------------
(* SendHandlerLoop: sending it *)

\* onPostByteFinshed, and the node is freed
Finish ==
  /\ owed' = [owed EXCEPT ![sendNode] = @ - 1]
  /\ sendNode' = None
  /\ sending' = NotSending
  /\ task' = "dequeue"

Transmit(what, len) ==
  /\ sending' = [NotSending EXCEPT !.what = what, !.left = len]
  /\ task' = "apply"

\* the data follows, after a wait for the last answer where one is due
DataOrWait(s, waited) ==
  IF WaitDue(s, waited)
  THEN task' = "waitack" /\ sending' = NotSending
  ELSE Transmit("data", Length[sendNode])

\* the connection is gone or has no socket any more
NoConnection ==
  /\ task = "begin"
  /\ ~(listed /\ socketOpen)
  /\ Finish
  /\ UNCHANGED <<flow, ack, work, link, lpInfo, queues, late, stalled, lateAck>>

\* the sequence is counted, and SendAck begins where a request is due
Begin ==
  /\ task = "begin"
  /\ listed /\ socketOpen
  /\ sequence' = sequence + 1
  /\ IF AckDue(sequence + 1)
     THEN /\ pending' = Create(sequence + 1)
          /\ Transmit("ack", AckLength)
          /\ lateAck' = (lateAck \/ ~reading)
     ELSE /\ DataOrWait(sequence + 1, waitSequence)
          /\ UNCHANGED <<pending, lateAck>>
  /\ UNCHANGED <<flow, window, waitSequence, ackTimeoutCount, work, link, lpInfo,
                 queues, sendNode, owed, late, stalled>>

\* BrTransSend: the flow controller grants, or puts the task to sleep
Apply ==
  LET expect == IF sending.left > Mtu THEN Mtu ELSE sending.left IN
  /\ task = "apply"
  /\ \/ /\ ApplyGrants(expect)
        /\ sending' = [sending EXCEPT !.amount = Grant(expect), !.slept = FALSE]
        /\ task' = "write"
     \/ /\ ApplySleeps
        /\ sending' = [sending EXCEPT !.sleep = SleepTime, !.slept = TRUE]
        /\ task' = "sleep"
  /\ UNCHANGED <<ack, work, link, lpInfo, queues, sendNode, ghosts>>

SleepEnds ==
  /\ task = "sleep"
  /\ sending.sleep = 0
  /\ task' = "apply"
  /\ UNCHANGED <<flow, ack, work, link, lpInfo, queues, sendNode, sending, ghosts>>

\* the end of SendAck or of the transmission of the data
Sent(ok) ==
  \/ /\ sending.what = "ack"
     /\ waitSequence' = IF ok THEN sequence ELSE waitSequence
     /\ pending' = IF ok THEN pending ELSE DelPacket(sequence)
     /\ DataOrWait(sequence, waitSequence')
     /\ UNCHANGED <<sendNode, owed>>
  \/ /\ sending.what = "data"
     /\ Finish
     /\ UNCHANGED <<waitSequence, pending>>

\* g_sppDriver->Write takes some of what was granted
WriteSome ==
  /\ task = "write"
  /\ linkUp
  /\ \E n \in 1 .. sending.amount :
       IF n = sending.left THEN Sent(TRUE)
       ELSE /\ sending' = [sending EXCEPT !.left = @ - n, !.tries = 0]
            /\ task' = "apply"
            /\ UNCHANGED <<waitSequence, pending, sendNode, owed>>
  /\ UNCHANGED <<flow, window, sequence, ackTimeoutCount, work, link, lpInfo,
                 queues, late, stalled, lateAck>>

\* the driver takes nothing and reports no error: the tries start again
WriteNothing ==
  /\ task = "write"
  /\ linkUp
  /\ sending' = [sending EXCEPT !.tries = 0]
  /\ task' = "apply"
  /\ UNCHANGED <<flow, ack, work, link, lpInfo, queues, sendNode, ghosts>>

\* the driver's queue is full, or it was interrupted: IsNeedRetrySend
WriteBusy ==
  /\ task = "write"
  /\ linkUp
  /\ IF sending.tries < MaxTry
     THEN /\ sending' = [sending EXCEPT !.tries = @ + 1]
          /\ task' = "apply"
          /\ UNCHANGED <<waitSequence, pending, sendNode, owed>>
     ELSE Sent(FALSE)
  /\ UNCHANGED <<flow, window, sequence, ackTimeoutCount, work, link, lpInfo,
                 queues, late, stalled, lateAck>>

WriteFails ==
  /\ task = "write"
  /\ Sent(FALSE)
  /\ UNCHANGED <<flow, window, sequence, ackTimeoutCount, work, link, lpInfo,
                 queues, late, stalled, lateAck>>

\* WaitAck, ConnBrGetBrPendingPacket: the packet is gone, answered or awaited
WaitAck ==
  /\ task = "waitack"
  /\ \/ /\ \A k \in Packet(waitSequence) : k.finded
        /\ AckResult(IF Packet(waitSequence) = {} THEN "not found" ELSE "already")
        /\ Transmit("data", Length[sendNode])
        /\ UNCHANGED pending
     \/ \E k \in Packet(waitSequence) :
        /\ ~k.finded
        /\ pending' = Reference(k)
        /\ task' = "ackwait"
        /\ UNCHANGED <<sending, window, waitSequence, ackTimeoutCount>>
  /\ UNCHANGED <<flow, sequence, work, link, lpInfo, queues, sendNode, ghosts>>

\* the wait ends with the answer, with the deletion of the packet or in time;
\* an answer that precedes the packet's own lock counts as given before
WaitAckEnds ==
  /\ task = "ackwait"
  /\ \E k \in Packet(waitSequence) :
       /\ \E result \in IF k.finded THEN {"ok", "already"} ELSE {"timeout"} :
            AckResult(result)
       /\ pending' = Dereference({k})
  /\ Transmit("data", Length[sendNode])
  /\ UNCHANGED <<flow, sequence, work, link, lpInfo, queues, sendNode, ghosts>>

----------------------------------------------------------------------------
(* The connection's reader, its end, the limits and time *)

\* the peer answers an ack request it has received: ConnBrOnAckResponse
AckArrives(s) ==
  /\ reading
  /\ \E k \in Packet(s) : ~k.finded
  /\ ~(s = sequence /\ sending.what = "ack")
  /\ pending' = SetPacket(s)
  /\ UNCHANGED <<flow, window, sequence, waitSequence, ackTimeoutCount, work,
                 link, lpInfo, queues, task, sendNode, sending, ghosts>>

\* ConnBrTransReadOneFrame: the read fails or finds the socket closed
ReadFails ==
  /\ reading
  /\ work.cut
  /\ reading' = FALSE
  /\ pending' = DelPacketsById
  /\ UNCHANGED <<flow, window, sequence, waitSequence, ackTimeoutCount, work,
                 listed, socketOpen, linkUp, lpInfo, queues, task, sendNode, sending, ghosts>>

\* ConnBrDisconnectNow, or the end of the reader: the handle is given up and the
\* driver told, in either order, before the connection leaves the list
CloseSocket ==
  /\ work.cut
  /\ socketOpen
  /\ socketOpen' = FALSE
  /\ UNCHANGED <<flow, ack, work, listed, linkUp, reading, lpInfo, queues, task,
                 sendNode, sending, ghosts>>

DisConnect ==
  /\ work.cut
  /\ linkUp
  /\ linkUp' = FALSE
  /\ UNCHANGED <<flow, ack, work, listed, socketOpen, reading, lpInfo, queues,
                 task, sendNode, sending, ghosts>>

RemoveConnection ==
  /\ listed
  /\ ~socketOpen /\ ~linkUp
  /\ listed' = FALSE
  /\ UNCHANGED <<flow, ack, work, socketOpen, linkUp, reading, lpInfo, queues, task,
                 sendNode, sending, ghosts>>

\* ConnBrTransConfigPostLimit
ConfigPostLimit ==
  /\ work.changes > 0
  /\ work' = [work EXCEPT !.changes = @ - 1]
  /\ \/ \E c \in Config : ChangeConfiguration(TRUE, c)
     \/ ChangeConfiguration(FALSE, limit)
  /\ UNCHANGED <<ack, link, lpInfo, queues, task, sendNode, sending, ghosts>>

Tick ==
  /\ Age
  /\ sending' = [sending EXCEPT !.sleep = IF @ > 0 THEN @ - 1 ELSE 0]
  /\ UNCHANGED <<ack, work, link, lpInfo, queues, task, sendNode, ghosts>>

PosterStep(p) ==
  \/ EnqueueInner(p)
  \/ EnqueueNew(p)
  \/ EnqueueFound(p)
  \/ WaitForRoom(p)
  \/ WaitForRoomTimesOut(p)

TaskStep ==
  \/ DequeueInnerFirst
  \/ DequeueList
  \/ DequeueInnerLast
  \/ DequeueWaits
  \/ DequeueTimesOut
  \/ IdleCheck
  \/ ClearPosted
  \/ NoConnection
  \/ Begin
  \/ Apply
  \/ SleepEnds
  \/ WriteSome
  \/ WriteNothing
  \/ WriteBusy
  \/ WriteFails
  \/ WaitAck
  \/ WaitAckEnds

Next ==
  /\ stale = {}
  /\ \/ \E p \in Poster : Post(p) \/ PostStartFails(p) \/ PosterStep(p)
     \/ TaskStep
     \/ \E s \in 1 .. sequence : AckArrives(s)
     \/ ReadFails
     \/ CloseSocket
     \/ DisConnect
     \/ RemoveConnection
     \/ ConfigPostLimit
     \/ Tick

\* The threads run, their timed waits end, and time passes.  The driver is
\* trusted with one thing, which the code does not bound: asked again and again
\* on a link that stays up, a Write takes something at last.
Fairness ==
  /\ \A p \in Poster : WF_vars(stale = {} /\ PosterStep(p))
  /\ WF_vars(stale = {} /\ TaskStep)
  /\ WF_vars(stale = {} /\ Tick)
  /\ SF_vars(stale = {} /\ WriteSome)

Spec == Init /\ [][Next]_vars /\ Fairness
----------------------------------------------------------------------------
TypeOK ==
  /\ AckTypeOK
  /\ poster \in [Poster -> {"idle", "posted", "waiting", "signalled"}]
  /\ stale \subseteq Poster
  /\ task \in {"off", "dequeue", "wait", "woken", "idle", "got", "begin", "apply",
               "sleep", "write", "waitack", "ackwait"}
  /\ sendTaskRunning = (task # "off")
  /\ sendNode \in Poster \cup {None}
  /\ owed \in [Poster -> Nat]
  /\ sending.what \in {None, "ack", "data"}
  /\ sending.amount <= Mtu

QueuesEmpty == Found(innerQueue, LOW) = 0 /\ FirstUsed = 0

\* A poster that sleeps for want of room sleeps on a queue that exists and is
\* full: ConnBrDequeueBlock tells the waiters in time (isFull), so that a queue
\* is only ever freed under a poster that was woken and did not get the lock.
SleeperHasFullQueue ==
  \A p \in Poster : poster[p] = "waiting" =>
    (IsInner(p) \/ HasQueue(p)) /\ Full(Lane(p))

\* No node is forgotten: while the send task sleeps on g_sendCond there is none
\* to send, and while there is no task there is none either, unless a poster
\* stayed between its two locks for the ten minutes a task waits before it leaves.
NodeHasTask == task = "wait" \/ (task = "off" /\ ~stalled) => QueuesEmpty

\* What flow control makes of a write: Apply sleeps at most once, since what it
\* waits for has expired when it wakes up.
SleepsOnce == task = "apply" /\ sending.slept => ~MustSleep

\* A pending packet lives as long as it is of use: while WaitAck waits for it,
\* whoever deletes it, and not longer than that once the reader has failed,
\* unless a request was made after that.
PacketLifetime ==
  /\ task = "ackwait" => Packet(waitSequence) # {}
  /\ ~reading /\ ~lateAck =>
       \A k \in pending : k.seq = waitSequence /\ task = "ackwait"

\* In the end every node that was accepted has been reported, once, by
\* onPostByteFinshed, and the send task has left, if a Write that is repeated
\* on a link that stays up takes something at last.
SendingEnds ==
  <>[](\/ stale # {}
       \/ task = "off" /\ (stalled \/ \A p \in Poster : owed[p] = 0))
=============================================================================
