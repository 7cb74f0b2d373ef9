---------------------------- MODULE BrSendProofs ----------------------------
(***************************************************************************)
(* Proofs about BrSend: what sleeps in WaitQueueLength, what the send task *)
(* knows when it sleeps or leaves, how long a pending packet lives and     *)
(* that flow control keeps its quota and sleeps long enough, for every set *)
(* of posters, processes, priorities, limits and workloads.                *)
(***************************************************************************)
EXTENDS BrSend, WellFoundedInduction, TLAPS

Lanes == [Priority -> Seq(Poster)]
BrQueue == [pid : Nat \ {0}, queue : Lanes]
PendingPacket == [seq : Nat, finded : BOOLEAN, refCnt : 1 .. 2]

\* There is one queue per process.
QueuesTyped ==
  /\ poster \in [Poster -> {"idle", "posted", "waiting", "signalled"}]
  /\ innerQueue \in Lanes
  /\ brQueueList \in Seq(BrQueue)
  /\ \A i, j \in DOMAIN brQueueList : brQueueList[i].pid = brQueueList[j].pid => i = j

\* A poster that waits for room does so at a full queue.
SleepersKept ==
  \A p \in Poster : poster[p] = "waiting" =>
    IF IsInner(p) THEN Full(innerQueue[Level[p]])
    ELSE \E i \in DOMAIN brQueueList :
           brQueueList[i].pid = Pid[p] /\ Full(brQueueList[i].queue[Level[p]])

\* The task knows of every post that is not finished when it sleeps, from the
\* announcement or because the poster was on its way when it began to sleep.
Announced ==
  /\ sendTaskRunning = (task # "off")
  /\ task = "wait" =>
       /\ brQueueList = <<>> /\ \A q \in Priority : innerQueue[q] = <<>>
       /\ \A p \in Poster : poster[p] # "idle" => p \in late \/ messagePosted
  /\ task = "idle" /\ ~stalled /\ ~messagePosted =>
       QueuesEmpty /\ \A p \in Poster : poster[p] = "idle"
  /\ task = "off" /\ ~stalled =>
       QueuesEmpty /\ \A p \in Poster : poster[p] = "idle"

\* The list holds one packet per request, referred to by itself and, while
\* WaitAck waits for it, by the task.
PacketsCounted ==
  /\ sequence \in Nat
  /\ pending \subseteq PendingPacket
  /\ \A k \in pending : k.seq <= sequence
  /\ \A k, l \in pending : k.seq = l.seq => k = l
  /\ \A k \in pending : k.refCnt = 2 => task = "ackwait" /\ k.seq = waitSequence
  /\ task = "ackwait" =>
       \E k \in pending : k.seq = waitSequence /\ (reading => k.refCnt = 2)
  /\ ~reading /\ ~lateAck =>
       \A k \in pending : k.seq = waitSequence /\ task = "ackwait" /\ k.refCnt = 1

History == [age : Nat, amount : Nat \ {0}]

Busy == {"got", "begin", "apply", "sleep", "write", "waitack", "ackwait"}

\* Where the task is in sending a node, and what is left of it.
Transmission ==
  [what : {None, "ack", "data"}, left : Nat, tries : Nat, amount : Nat,
   sleep : Nat, slept : BOOLEAN]

Transmitting ==
  /\ sending \in Transmission
  /\ task \in Busy => sendNode \in Poster
  /\ task \in {"apply", "sleep", "write"} => sending.left > 0
  /\ task = "write" => sending.amount <= sending.left
  /\ task # "sleep" => sending.sleep = 0
  /\ sending.slept => task \in {"sleep", "apply"}

\* The controller counts in every shorter window what was granted in it, and
\* when a sleep has ended enough of it has left the window.
Metered ==
  /\ active \in BOOLEAN
  /\ histories \in Seq(History) /\ granted \in Seq(History)
  /\ limit \in Config
  /\ active =>
       /\ \A k \in Int : k <= limit.window => Applied(granted, k) = Applied(histories, k)
       /\ Applied(histories, limit.window) <= limit.quota
       /\ sending.slept => Applied(histories, limit.window - sending.sleep) < limit.quota

IInv ==
  QueuesTyped /\ SleepersKept /\ Announced /\ PacketsCounted /\ Transmitting /\ Metered

-----------------------------------------------------------------------------
(***************************************************************************)
(* Facts about the queues.                                                 *)
(***************************************************************************)
\* A set of numbers has a least one.
LEMMA LeastIs ==
  ASSUME NEW I \in SUBSET Nat, I # {}
  PROVE  \E i \in I : \A j \in I : i <= j
<1> DEFINE R == {ss \in Nat \X Nat : ss[1] < ss[2]}
<1>1. IsWellFoundedOn(R, Nat)
  BY Zenon, NatLessThanWellFounded DEF OpToRel
<1>2. \A i, j \in Nat : <<j, i>> \in R <=> j < i
  BY Zenon
<1> HIDE DEF R
<1>3. PICK i \in I : \A j \in I : ~(<<j, i>> \in R)
  BY Zenon, <1>1, WFMin
<1>4. \A j \in I : ~(j < i)
  BY Zenon, <1>2, <1>3
<1>5. \A j \in I : i <= j
  BY <1>4
<1> QED
  BY Zenon, <1>5

LEMMA MinIs ==
  ASSUME NEW I \in SUBSET Nat, I # {}
  PROVE  Min(I) \in I /\ \A j \in I : Min(I) <= j
BY Zenon, LeastIs DEF Min

\* GetMsg finds a message where there is one.
LEMMA FoundIs ==
  ASSUME NEW queue \in Lanes, NEW least \in Priority
  PROVE  /\ Found(queue, least) = 0 <=> \A q \in 1 .. least : queue[q] = <<>>
         /\ Found(queue, least) # 0 =>
              /\ Found(queue, least) \in 1 .. least
              /\ queue[Found(queue, least)] # <<>>
<1> DEFINE some == {q \in 1 .. least : queue[q] # <<>>}
<1>1. CASE some = {}
  BY Zenon, <1>1 DEF Found
<1>2. CASE some # {}
  <2>1. some \in SUBSET Nat /\ 0 \notin some
    BY DEF Priority
  <2>2. Min(some) \in some
    BY Zenon, <1>2, <2>1, MinIs
  <2>3. Found(queue, least) = Min(some)
    BY Zenon, <1>2 DEF Found
  <2> HIDE DEF some
  <2>4. Found(queue, least) \in some /\ Found(queue, least) # 0
    BY Zenon, <2>1, <2>2, <2>3
  <2> QED
    BY Zenon, <1>2, <2>4 DEF some
<1> QED
  BY Zenon, <1>1, <1>2

LEMMA QueuesFields ==
  ASSUME QueuesTyped
  PROVE  /\ Len(brQueueList) \in Nat /\ DOMAIN brQueueList = 1 .. Len(brQueueList)
         /\ \A i \in DOMAIN brQueueList :
              /\ brQueueList[i] \in BrQueue
              /\ brQueueList[i].pid \in Nat \ {0}
              /\ brQueueList[i].queue \in Lanes
<1>1. brQueueList \in Seq(BrQueue)
  BY Zenon DEF QueuesTyped
<1>2. /\ Len(brQueueList) \in Nat /\ DOMAIN brQueueList = 1 .. Len(brQueueList)
      /\ \A i \in DOMAIN brQueueList : brQueueList[i] \in BrQueue
  BY <1>1
<1>3. \A b \in BrQueue : b.pid \in Nat \ {0} /\ b.queue \in Lanes
  BY Zenon DEF BrQueue
<1> QED
  BY Zenon, <1>2, <1>3

\* FirstUsed is the first queue with a message.
LEMMA FirstUsedIs ==
  ASSUME QueuesTyped
  PROVE  /\ FirstUsed = 0 =>
              \A i \in DOMAIN brQueueList : \A q \in Priority : brQueueList[i].queue[q] = <<>>
         /\ FirstUsed # 0 =>
              /\ FirstUsed \in DOMAIN brQueueList
              /\ Found(brQueueList[FirstUsed].queue, LOW) \in Priority
              /\ brQueueList[FirstUsed].queue[Found(brQueueList[FirstUsed].queue, LOW)] # <<>>
              /\ \A i \in 1 .. FirstUsed - 1 : \A q \in Priority : brQueueList[i].queue[q] = <<>>
<1> DEFINE some == {i \in DOMAIN brQueueList : Found(brQueueList[i].queue, LOW) # 0}
<1>1. /\ Len(brQueueList) \in Nat /\ DOMAIN brQueueList = 1 .. Len(brQueueList)
      /\ \A i \in DOMAIN brQueueList : brQueueList[i].queue \in Lanes
  BY Zenon, QueuesFields
<1>2. LOW \in Priority /\ 1 .. LOW = Priority
  BY DEF LOW, Priority
<1>3. \A i \in DOMAIN brQueueList : i \notin some =>
        \A q \in Priority : brQueueList[i].queue[q] = <<>>
  <2> SUFFICES ASSUME NEW i \in DOMAIN brQueueList, i \notin some
               PROVE  \A q \in Priority : brQueueList[i].queue[q] = <<>>
    BY Zenon
  <2>1. brQueueList[i].queue \in Lanes /\ Found(brQueueList[i].queue, LOW) = 0
    BY Zenon, <1>1
  <2> QED
    BY Zenon, <1>2, <2>1, FoundIs
<1>4. CASE some = {}
  <2>1. FirstUsed = 0
    BY Zenon, <1>4 DEF FirstUsed
  <2> QED
    BY Zenon, <1>3, <1>4, <2>1
<1>5. CASE some # {}
  <2>1. some \in SUBSET Nat /\ 0 \notin some
    BY <1>1
  <2>2. Min(some) \in some /\ \A j \in some : Min(some) <= j
    BY Zenon, <1>5, <2>1, MinIs
  <2>3. FirstUsed = Min(some)
    BY Zenon, <1>5 DEF FirstUsed
  <2>4. FirstUsed \in DOMAIN brQueueList /\ FirstUsed # 0
        /\ Found(brQueueList[FirstUsed].queue, LOW) # 0
    BY Zenon, <2>1, <2>2, <2>3
  <2>5. /\ Found(brQueueList[FirstUsed].queue, LOW) \in Priority
        /\ brQueueList[FirstUsed].queue[Found(brQueueList[FirstUsed].queue, LOW)] # <<>>
    BY Zenon, <1>1, <1>2, <2>4, FoundIs
  <2>6. ASSUME NEW i \in 1 .. FirstUsed - 1
        PROVE  \A q \in Priority : brQueueList[i].queue[q] = <<>>
    <3> HIDE DEF some
    <3>1. i \in DOMAIN brQueueList /\ ~(FirstUsed <= i)
      BY <1>1, <2>4
    <3>2. i \notin some
      BY Zenon, <2>2, <2>3, <3>1
    <3> QED
      BY Zenon, <1>3, <3>1, <3>2
  <2> QED
    BY Zenon, <2>4, <2>5, <2>6
<1> QED
  BY Zenon, <1>4, <1>5

LEMMA QueuesEmptyIs ==
  ASSUME QueuesTyped
  PROVE  /\ QueuesEmpty => /\ \A q \in Priority : innerQueue[q] = <<>>
                           /\ \A i \in DOMAIN brQueueList :
                                \A q \in Priority : brQueueList[i].queue[q] = <<>>
         /\ (\A q \in Priority : innerQueue[q] = <<>>) /\ brQueueList = <<>> => QueuesEmpty
<1>1. LOW \in Priority /\ 1 .. LOW = Priority
  BY DEF LOW, Priority
<1>2. innerQueue \in Lanes
  BY Zenon DEF QueuesTyped
<1>3. Found(innerQueue, LOW) = 0 <=> \A q \in Priority : innerQueue[q] = <<>>
  BY Zenon, <1>1, <1>2, FoundIs
<1>4. brQueueList = <<>> => FirstUsed = 0
  BY DEF FirstUsed
<1> QED
  BY Zenon, <1>3, <1>4, FirstUsedIs DEF QueuesEmpty

\* An empty queue is not full.
LEMMA EmptyNotFull == ~Full(<<>>)
<1>1. QueueLimit \in Nat /\ QueueLimit > 2
  BY Zenon, PostersTyped
<1>2. Len(<<>>) = 0
  BY Zenon
<1> QED
  BY <1>1, <1>2 DEF Full, WAIT_QUEUE_BUFFER_PERIOD_LEN

-----------------------------------------------------------------------------
(***************************************************************************)
(* The steps that leave the queues alone.                                  *)
(***************************************************************************)
Sending ==
  \/ NoConnection \/ Begin \/ Apply \/ SleepEnds \/ WriteSome \/ WriteNothing
  \/ WriteBusy \/ WriteFails \/ WaitAck \/ WaitAckEnds

Elsewhere ==
  \/ \E s \in 1 .. sequence : AckArrives(s)
  \/ ReadFails \/ CloseSocket \/ DisConnect \/ RemoveConnection \/ ConfigPostLimit
  \/ Tick \/ UNCHANGED vars

LEMMA SendingKeeps ==
  ASSUME Sending
  PROVE  /\ UNCHANGED <<poster, innerQueue, brQueueList, stale, messagePosted, sendTaskRunning,
                        late, stalled>>
         /\ task \in {"begin", "apply", "sleep", "write", "waitack", "ackwait"}
         /\ task' \in {"dequeue", "apply", "sleep", "write", "waitack", "ackwait"}
<1> USE DEF queues, lpInfo, ghosts
<1>1. CASE NoConnection
  BY Zenon, <1>1 DEF NoConnection, Finish
<1>2. CASE Begin
  BY Zenon, <1>2 DEF Begin, Transmit, DataOrWait
<1>3. CASE Apply \/ SleepEnds
  BY Zenon, <1>3 DEF Apply, SleepEnds
<1>4. CASE WriteSome
  BY Zenon, <1>4 DEF WriteSome, Sent, Finish, DataOrWait, Transmit
<1>5. CASE WriteBusy \/ WriteNothing
  BY Zenon, <1>5 DEF WriteBusy, WriteNothing, Sent, Finish, DataOrWait, Transmit
<1>6. CASE WriteFails
  BY Zenon, <1>6 DEF WriteFails, Sent, Finish, DataOrWait, Transmit
<1>7. CASE WaitAck \/ WaitAckEnds
  BY Zenon, <1>7 DEF WaitAck, WaitAckEnds, Transmit
<1> QED
  BY Zenon, <1>1, <1>2, <1>3, <1>4, <1>5, <1>6, <1>7 DEF Sending

LEMMA ElsewhereKeeps ==
  ASSUME Elsewhere
  PROVE  UNCHANGED <<poster, innerQueue, brQueueList, stale, messagePosted, sendTaskRunning,
                     late, stalled, task, sequence, waitSequence, lateAck>>
<1> USE DEF queues, lpInfo, ghosts, ack
<1>1. CASE \E s \in 1 .. sequence : AckArrives(s)
  BY Zenon, <1>1 DEF AckArrives
<1>2. CASE ReadFails \/ CloseSocket \/ DisConnect \/ RemoveConnection
  BY Zenon, <1>2 DEF ReadFails, CloseSocket, DisConnect, RemoveConnection
<1>3. CASE ConfigPostLimit \/ Tick
  BY Zenon, <1>3 DEF ConfigPostLimit, Tick
<1>4. CASE UNCHANGED vars
  BY Zenon, <1>4 DEF vars
<1> QED
  BY Zenon, <1>1, <1>2, <1>3, <1>4 DEF Elsewhere

\* One step of a poster, of the task or of something else.
LEMMA Kinds ==
  ASSUME [Next]_vars
  PROVE  \/ \E p \in Poster : Post(p) \/ PostStartFails(p) \/ PosterStep(p)
         \/ DequeueInnerFirst \/ DequeueList \/ DequeueInnerLast \/ DequeueWaits
         \/ DequeueTimesOut \/ IdleCheck \/ ClearPosted
         \/ Sending
         \/ Elsewhere
BY Zenon DEF Next, TaskStep, Sending, Elsewhere

LEMMA QueuesFrame ==
  ASSUME UNCHANGED <<poster, innerQueue, brQueueList>>
  PROVE  /\ QueuesTyped => QueuesTyped'
         /\ SleepersKept => SleepersKept'
BY Zenon DEF QueuesTyped, SleepersKept

LEMMA QueuesKept ==
  ASSUME DequeueTimesOut \/ IdleCheck \/ ClearPosted \/ Sending \/ Elsewhere
  PROVE  UNCHANGED <<poster, innerQueue, brQueueList>>
<1>1. CASE DequeueTimesOut \/ IdleCheck \/ ClearPosted
  BY Zenon, <1>1 DEF DequeueTimesOut, IdleCheck, ClearPosted, queues
<1> QED
  BY Zenon, <1>1, SendingKeeps, ElsewhereKeeps

-----------------------------------------------------------------------------
(***************************************************************************)
(* The steps that change the queues.                                       *)
(***************************************************************************)
LEMMA PosterTyped ==
  ASSUME NEW p \in Poster
  PROVE  /\ Level[p] \in Priority /\ Pid[p] \in Nat
         /\ ~IsInner(p) => Pid[p] \in Nat \ {0}
BY Zenon, PostersTyped DEF Priority, IsInner

LEMMA LanesAppend ==
  ASSUME NEW lanes \in Lanes, NEW q \in Priority, NEW p \in Poster
  PROVE  [lanes EXCEPT ![q] = Append(@, p)] \in Lanes
<1>1. lanes[q] \in Seq(Poster)
  BY Zenon DEF Lanes
<1>2. Append(lanes[q], p) \in Seq(Poster)
  BY <1>1
<1> QED
  BY Zenon, <1>2 DEF Lanes

LEMMA LanesTail ==
  ASSUME NEW lanes \in Lanes, NEW q \in Priority, lanes[q] # <<>>
  PROVE  [lanes EXCEPT ![q] = Tail(@)] \in Lanes
<1>1. lanes[q] \in Seq(Poster)
  BY Zenon DEF Lanes
<1>2. Tail(lanes[q]) \in Seq(Poster)
  BY <1>1
<1> QED
  BY Zenon, <1>2 DEF Lanes

\* A queue is created at the end of the list.
LEMMA EnqueueNewIs ==
  ASSUME QueuesTyped, NEW p \in Poster, EnqueueNew(p)
  PROVE  /\ brQueueList' \in Seq(BrQueue)
         /\ DOMAIN brQueueList' = 1 .. Len(brQueueList) + 1
         /\ \A i \in DOMAIN brQueueList : brQueueList'[i] = brQueueList[i]
         /\ brQueueList'[Len(brQueueList) + 1].pid = Pid[p]
<1> DEFINE b == [pid |-> Pid[p], queue |-> [EmptyQueue EXCEPT ![Level[p]] = <<p>>]]
<1>1. b \in BrQueue
  <2>1. <<p>> \in Seq(Poster) /\ <<>> \in Seq(Poster)
    OBVIOUS
  <2>2. [EmptyQueue EXCEPT ![Level[p]] = <<p>>] \in Lanes
    BY Zenon, <2>1 DEF Lanes, EmptyQueue
  <2>3. Pid[p] \in Nat \ {0}
    BY Zenon, PosterTyped DEF EnqueueNew
  <2> QED
    BY Zenon, <2>2, <2>3 DEF BrQueue
<1>2. b.pid = Pid[p]
  BY Zenon
<1>3. brQueueList' = Append(brQueueList, b)
  BY Zenon DEF EnqueueNew
<1> HIDE DEF b
<1>4. brQueueList \in Seq(BrQueue)
  BY Zenon DEF QueuesTyped
<1> QED
  BY <1>1, <1>2, <1>3, <1>4

\* The node is appended to the queue of its process.
LEMMA EnqueueFoundIs ==
  ASSUME QueuesTyped, NEW p \in Poster, EnqueueFound(p)
  PROVE  /\ brQueueList' \in Seq(BrQueue)
         /\ DOMAIN brQueueList' = DOMAIN brQueueList
         /\ \A i \in DOMAIN brQueueList :
              /\ brQueueList'[i].pid = brQueueList[i].pid
              /\ \A q \in Priority :
                   brQueueList'[i].queue[q] =
                     IF brQueueList[i].pid = Pid[p] /\ q = Level[p]
                     THEN Append(brQueueList[i].queue[q], p) ELSE brQueueList[i].queue[q]
<1> DEFINE L(i) == [brQueueList[i].queue EXCEPT ![Level[p]] = Append(@, p)]
           B(i) == IF brQueueList[i].pid = Pid[p]
                   THEN [brQueueList[i] EXCEPT !.queue[Level[p]] = Append(@, p)]
                   ELSE brQueueList[i]
<1>1. brQueueList' = [i \in DOMAIN brQueueList |-> B(i)]
  BY Zenon DEF EnqueueFound
<1>2. /\ Len(brQueueList) \in Nat /\ DOMAIN brQueueList = 1 .. Len(brQueueList)
      /\ \A i \in DOMAIN brQueueList :
           /\ brQueueList[i] \in BrQueue
           /\ brQueueList[i].pid \in Nat \ {0}
           /\ brQueueList[i].queue \in Lanes
  BY Zenon, QueuesFields
<1>3. Level[p] \in Priority
  BY Zenon, PosterTyped
<1>4. ASSUME NEW i \in DOMAIN brQueueList, brQueueList[i].pid = Pid[p]
      PROVE  B(i) = [pid |-> brQueueList[i].pid, queue |-> L(i)]
  BY Zenon, <1>2, <1>4 DEF BrQueue
<1>5. ASSUME NEW i \in DOMAIN brQueueList
      PROVE  /\ B(i) \in BrQueue
             /\ B(i).pid = brQueueList[i].pid
             /\ \A q \in Priority :
                   B(i).queue[q] =
                     IF brQueueList[i].pid = Pid[p] /\ q = Level[p]
                     THEN Append(brQueueList[i].queue[q], p) ELSE brQueueList[i].queue[q]
  <2>1. CASE brQueueList[i].pid = Pid[p]
    <3>1. L(i) \in Lanes
      BY ZenonT(30), <1>2, <1>3, LanesAppend
    <3>2. \A q \in Priority : L(i)[q] = IF q = Level[p] THEN Append(brQueueList[i].queue[q], p)
                                        ELSE brQueueList[i].queue[q]
      BY Zenon, <1>2, <1>3 DEF Lanes
    <3>3. B(i) = [pid |-> brQueueList[i].pid, queue |-> L(i)]
      BY Zenon, <1>4, <2>1
    <3> HIDE DEF L, B
    <3> QED
      BY <1>2, <2>1, <3>1, <3>2, <3>3 DEF BrQueue
  <2>2. CASE brQueueList[i].pid # Pid[p]
    BY Zenon, <1>2, <2>2
  <2> QED
    BY Zenon, <2>1, <2>2
<1> HIDE DEF B
<1>6. [i \in DOMAIN brQueueList |-> B(i)] \in Seq(BrQueue)
  BY <1>2, <1>5
<1> QED
  BY Zenon, <1>1, <1>5, <1>6

\* The list after the first used queue, which has moved to its end.
LEMMA DequeueListIs ==
  ASSUME QueuesTyped, DequeueList
  PROVE  LET i == FirstUsed
             m == Found(brQueueList[i].queue, LOW)
             n == Len(brQueueList) - i
         IN  /\ i \in DOMAIN brQueueList /\ m \in Priority /\ n \in Nat
             /\ brQueueList' \in Seq(BrQueue)
             /\ DOMAIN brQueueList' = 1 .. n + 1
             /\ \A k \in 1 .. n : brQueueList'[k] = brQueueList[k + i]
             /\ brQueueList'[n + 1].pid = brQueueList[i].pid
             /\ \A q \in Priority \ {m} :
                  brQueueList'[n + 1].queue[q] = brQueueList[i].queue[q]
             /\ poster' = [p \in Poster |-> IF Full(brQueueList[i].queue[m]) /\ poster[p] = "waiting"
                                            THEN "signalled" ELSE poster[p]]
             /\ innerQueue' = innerQueue
<1> DEFINE i == FirstUsed
           item == brQueueList[i]
           m == Found(item.queue, LOW)
           lanes == [item.queue EXCEPT ![m] = Tail(@)]
           rest == [item EXCEPT !.queue[m] = Tail(@)]
           n == Len(brQueueList) - i
<1>1. /\ Len(brQueueList) \in Nat /\ DOMAIN brQueueList = 1 .. Len(brQueueList)
      /\ brQueueList \in Seq(BrQueue)
  BY Zenon, QueuesFields DEF QueuesTyped
<1>2. i \in DOMAIN brQueueList /\ m \in Priority /\ item.queue[m] # <<>>
  BY Zenon, FirstUsedIs DEF DequeueList
<1>3. /\ brQueueList' = Append(SubSeq(brQueueList, i + 1, Len(brQueueList)), rest)
      /\ poster' = [p \in Poster |-> IF Full(item.queue[m]) /\ poster[p] = "waiting"
                                     THEN "signalled" ELSE poster[p]]
      /\ innerQueue' = innerQueue
  BY Zenon DEF DequeueList, SignalWaiters
<1>4. item \in BrQueue /\ item.queue \in Lanes /\ item.pid \in Nat \ {0}
  BY Zenon, <1>2, QueuesFields
<1>5. rest = [pid |-> item.pid, queue |-> lanes]
  BY <1>4 DEF BrQueue
<1>6. lanes \in Lanes /\ \A q \in Priority \ {m} : lanes[q] = item.queue[q]
  <2> HIDE DEF m, item
  <2>1. lanes \in Lanes
    BY Zenon, <1>2, <1>4, LanesTail
  <2> QED
    BY Zenon, <1>2, <1>4, <2>1 DEF Lanes
<1>7. /\ rest \in BrQueue /\ rest.pid = item.pid
      /\ \A q \in Priority \ {m} : rest.queue[q] = item.queue[q]
  <2> HIDE DEF lanes, rest, item, m
  <2> QED
    BY Zenon, <1>4, <1>5, <1>6 DEF BrQueue
<1> DEFINE sub == SubSeq(brQueueList, i + 1, Len(brQueueList))
<1>8. /\ n \in Nat /\ sub \in Seq(BrQueue) /\ Len(sub) = n
      /\ \A k \in 1 .. n : sub[k] = brQueueList[k + i]
  <2> HIDE DEF i
  <2>1. n \in Nat
    BY <1>1, <1>2
  <2> QED
    BY <1>1, <1>2, <2>1
<1>9. /\ brQueueList' \in Seq(BrQueue) /\ DOMAIN brQueueList' = 1 .. n + 1
      /\ \A k \in 1 .. n : brQueueList'[k] = brQueueList[k + i]
      /\ brQueueList'[n + 1] = rest
  <2>1. brQueueList' = Append(sub, rest)
    BY Zenon, <1>3
  <2> HIDE DEF sub, rest, n
  <2> QED
    BY <1>7, <1>8, <2>1
<1> HIDE DEF i, m, n, rest
<1> QED
  BY Zenon, <1>2, <1>3, <1>7, <1>8, <1>9 DEF i, m, n

LEMMA QueuesTypedStep ==
  ASSUME QueuesTyped, [Next]_vars
  PROVE  QueuesTyped'
<1> DEFINE PC == {"idle", "posted", "waiting", "signalled"}
<1>1. /\ Len(brQueueList) \in Nat /\ DOMAIN brQueueList = 1 .. Len(brQueueList)
      /\ poster \in [Poster -> PC] /\ innerQueue \in Lanes
      /\ \A i, j \in DOMAIN brQueueList : brQueueList[i].pid = brQueueList[j].pid => i = j
  BY Zenon, QueuesFields DEF QueuesTyped
<1>2. ASSUME NEW p \in Poster, Post(p) \/ PostStartFails(p) PROVE QueuesTyped'
  BY Zenon, <1>2 DEF Post, PostStartFails, QueuesTyped, queues
<1>3. ASSUME NEW p \in Poster, EnqueueInner(p) PROVE QueuesTyped'
  <2>1. innerQueue' \in Lanes
    BY Zenon, <1>1, <1>3, PosterTyped, LanesAppend DEF EnqueueInner
  <2>2. poster' \in [Poster -> PC] /\ brQueueList' = brQueueList
    BY Zenon, <1>1, <1>3 DEF EnqueueInner, Entered
  <2> QED
    BY Zenon, <2>1, <2>2 DEF QueuesTyped
<1>4. ASSUME NEW p \in Poster, EnqueueNew(p) PROVE QueuesTyped'
  <2>1. poster' \in [Poster -> PC] /\ innerQueue' = innerQueue
    BY Zenon, <1>1, <1>4 DEF EnqueueNew, Entered
  <2>2. \A i \in DOMAIN brQueueList : brQueueList[i].pid # Pid[p]
    BY Zenon, <1>4 DEF EnqueueNew, HasQueue
  <2>3. \A i, j \in DOMAIN brQueueList' : brQueueList'[i].pid = brQueueList'[j].pid => i = j
    BY <1>1, <1>4, <2>2, EnqueueNewIs
  <2> QED
    BY Zenon, <1>1, <1>4, <2>1, <2>3, EnqueueNewIs DEF QueuesTyped
<1>5. ASSUME NEW p \in Poster, EnqueueFound(p) PROVE QueuesTyped'
  <2>1. poster' \in [Poster -> PC] /\ innerQueue' = innerQueue
    BY Zenon, <1>1, <1>5 DEF EnqueueFound, Entered
  <2>2. \A i, j \in DOMAIN brQueueList' : brQueueList'[i].pid = brQueueList'[j].pid => i = j
    BY Zenon, <1>1, <1>5, EnqueueFoundIs
  <2> QED
    BY Zenon, <1>1, <1>5, <2>1, <2>2, EnqueueFoundIs DEF QueuesTyped
<1>6. ASSUME NEW p \in Poster, WaitForRoom(p) \/ WaitForRoomTimesOut(p) PROVE QueuesTyped'
  BY Zenon, <1>6 DEF WaitForRoom, WaitForRoomTimesOut, QueuesTyped
<1>7. ASSUME NEW q \in Priority, TakeInner(q), innerQueue[q] # <<>>
      PROVE  innerQueue' \in Lanes /\ poster' \in [Poster -> PC]
  BY Zenon, <1>1, <1>7, LanesTail DEF TakeInner, SignalWaiters
<1>8. LOW \in Priority /\ MIDDLE \in Priority
      /\ 1 .. MIDDLE \subseteq Priority /\ 1 .. LOW = Priority
  BY DEF LOW, MIDDLE, Priority
<1>9. CASE DequeueInnerFirst
  <2>1. Found(innerQueue, MIDDLE) \in Priority /\ innerQueue[Found(innerQueue, MIDDLE)] # <<>>
    BY Zenon, <1>1, <1>8, <1>9, FoundIs DEF DequeueInnerFirst
  <2> QED
    BY Zenon, <1>7, <1>9, <2>1 DEF DequeueInnerFirst, QueuesTyped
<1>10. CASE DequeueList
  <2> DEFINE i == FirstUsed
             n == Len(brQueueList) - i
  <2>1. /\ i \in DOMAIN brQueueList /\ n \in Nat
        /\ DOMAIN brQueueList' = 1 .. n + 1
        /\ \A k \in 1 .. n : brQueueList'[k] = brQueueList[k + i]
        /\ brQueueList'[n + 1].pid = brQueueList[i].pid
        /\ brQueueList' \in Seq(BrQueue) /\ innerQueue' = innerQueue
        /\ poster' \in [Poster -> PC]
    BY <1>1, <1>10, DequeueListIs
  <2>2. \A j, k \in DOMAIN brQueueList' : brQueueList'[j].pid = brQueueList'[k].pid => j = k
    <3> HIDE DEF i
    <3> DEFINE from == [k \in 1 .. n + 1 |-> IF k = n + 1 THEN i ELSE k + i]
    <3>1. \A j, k \in 1 .. n + 1 : from[j] = from[k] => j = k
      BY <1>1, <2>1
    <3>2. \A k \in 1 .. n + 1 :
            from[k] \in DOMAIN brQueueList /\ brQueueList'[k].pid = brQueueList[from[k]].pid
      <4> SUFFICES ASSUME NEW k \in 1 .. n + 1
                   PROVE  /\ from[k] \in DOMAIN brQueueList
                          /\ brQueueList'[k].pid = brQueueList[from[k]].pid
        BY Zenon
      <4>1. CASE k = n + 1
        BY Zenon, <2>1, <4>1
      <4>2. CASE k # n + 1
        BY <1>1, <2>1, <4>2
      <4> QED
        BY Zenon, <4>1, <4>2
    <3> HIDE DEF from, n
    <3>3. DOMAIN brQueueList' = 1 .. n + 1
      BY Zenon, <2>1
    <3>4. ASSUME NEW j \in 1 .. n + 1, NEW k \in 1 .. n + 1,
                 brQueueList'[j].pid = brQueueList'[k].pid
          PROVE  j = k
      <4>1. brQueueList[from[j]].pid = brQueueList[from[k]].pid
        BY Zenon, <3>2, <3>4
      <4>2. from[j] = from[k]
        BY Zenon, <1>1, <3>2, <4>1
      <4> QED
        BY Zenon, <3>1, <4>2
    <3> QED
      BY Zenon, <3>3, <3>4
  <2> HIDE DEF i
  <2> QED
    BY Zenon, <1>1, <2>1, <2>2 DEF QueuesTyped
<1>11. CASE DequeueInnerLast
  <2>1. innerQueue[LOW] # <<>>
    <3>1. \A q \in 1 .. MIDDLE : innerQueue[q] = <<>>
      BY Zenon, <1>1, <1>8, <1>11, FoundIs DEF DequeueInnerLast
    <3>2. \E q \in 1 .. LOW : innerQueue[q] # <<>>
      BY Zenon, <1>1, <1>8, <1>11, FoundIs DEF DequeueInnerLast
    <3> QED
      BY <3>1, <3>2 DEF LOW, MIDDLE
  <2>2. innerQueue' \in Lanes /\ poster' \in [Poster -> PC] /\ brQueueList' = <<>>
    BY Zenon, <1>7, <1>8, <1>11, <2>1 DEF DequeueInnerLast
  <2> QED
    BY <2>2 DEF QueuesTyped
<1>12. CASE DequeueWaits
  BY <1>12 DEF DequeueWaits, QueuesTyped
<1> QED
  BY Zenon, <1>2, <1>3, <1>4, <1>5, <1>6, <1>9, <1>10, <1>11, <1>12, Kinds, QueuesKept, QueuesFrame
     DEF PosterStep

-----------------------------------------------------------------------------
(***************************************************************************)
(* The posters that wait for room.                                         *)
(***************************************************************************)
\* A poster finds its queue.
LEMMA LaneIs ==
  ASSUME QueuesTyped, NEW p \in Poster, ~IsInner(p), NEW i \in DOMAIN brQueueList,
         brQueueList[i].pid = Pid[p]
  PROVE  HasQueue(p) /\ Lane(p) = brQueueList[i].queue[Level[p]]
<1>1. HasQueue(p)
  BY Zenon DEF HasQueue
<1>2. \A j \in DOMAIN brQueueList : brQueueList[j].pid = Pid[p] => j = i
  BY Zenon DEF QueuesTyped
<1>3. (CHOOSE j \in DOMAIN brQueueList : brQueueList[j].pid = Pid[p]) = i
  BY Zenon, <1>2
<1> QED
  BY Zenon, <1>1, <1>3 DEF Lane

\* A queue does not become less full when a node enters it.
LEMMA FullAppend ==
  ASSUME NEW lane \in Seq(Poster), NEW p \in Poster, Full(lane)
  PROVE  Full(Append(lane, p))
<1>1. Len(Append(lane, p)) = Len(lane) + 1 /\ Len(lane) \in Nat
  OBVIOUS
<1>2. QueueLimit \in Nat
  BY Zenon, PostersTyped
<1> QED
  BY <1>1, <1>2 DEF Full, WAIT_QUEUE_BUFFER_PERIOD_LEN

LEMMA SleepersStep ==
  ASSUME QueuesTyped, SleepersKept, [Next]_vars
  PROVE  SleepersKept'
<1> DEFINE At(l, p) == \E i \in DOMAIN l : l[i].pid = Pid[p] /\ Full(l[i].queue[Level[p]])
           Sleeps(p) == IF IsInner(p) THEN Full(innerQueue[Level[p]]) ELSE At(brQueueList, p)
           Goal(o) == poster'[o] = "waiting" =>
                        IF IsInner(o) THEN Full(innerQueue'[Level[o]]) ELSE At(brQueueList', o)
<1>1. /\ Len(brQueueList) \in Nat /\ DOMAIN brQueueList = 1 .. Len(brQueueList)
      /\ innerQueue \in Lanes
      /\ \A i \in DOMAIN brQueueList : brQueueList[i].queue \in Lanes
  BY Zenon, QueuesFields DEF QueuesTyped
<1>2. \A o \in Poster : poster[o] = "waiting" => Sleeps(o)
  BY Zenon DEF SleepersKept
<1> SUFFICES ASSUME NEW o \in Poster PROVE Goal(o)
  BY Zenon DEF SleepersKept
<1>3. Level[o] \in Priority
  BY Zenon, PosterTyped
<1>4. \A q \in Priority : innerQueue[q] \in Seq(Poster)
      /\ \A i \in DOMAIN brQueueList : brQueueList[i].queue[q] \in Seq(Poster)
  BY Zenon, <1>1 DEF Lanes
<1>5. ASSUME NEW p \in Poster, Post(p) \/ PostStartFails(p) PROVE Goal(o)
  <2>1. UNCHANGED <<innerQueue, brQueueList>> /\ (poster'[o] = "waiting" => poster[o] = "waiting")
    BY Zenon, <1>5 DEF Post, PostStartFails, QueuesTyped, queues
  <2> QED
    BY Zenon, <1>2, <2>1
<1>6. ASSUME NEW p \in Poster, Entered(p, TRUE) \/ Entered(p, FALSE) \/ Entered(p, FirstQueue)
      PROVE  poster'[o] = "waiting" => poster[o] = "waiting" /\ o # p
  BY Zenon, <1>6 DEF Entered, QueuesTyped
<1>7. ASSUME NEW p \in Poster, EnqueueInner(p) PROVE Goal(o)
  <2>1. /\ poster'[o] = "waiting" => poster[o] = "waiting"
        /\ brQueueList' = brQueueList
    BY Zenon, <1>6, <1>7 DEF EnqueueInner
  <2>2. innerQueue'[Level[o]] = innerQueue[Level[o]]
        \/ innerQueue'[Level[o]] = Append(innerQueue[Level[o]], p)
    BY Zenon, <1>1, <1>3, <1>7 DEF EnqueueInner, Lanes
  <2>3. Full(innerQueue[Level[o]]) => Full(innerQueue'[Level[o]])
    BY Zenon, <1>3, <1>4, <2>2, FullAppend
  <2> QED
    BY Zenon, <1>2, <2>1, <2>3
<1>8. ASSUME NEW p \in Poster, EnqueueNew(p) PROVE Goal(o)
  <2>1. /\ poster'[o] = "waiting" => poster[o] = "waiting"
        /\ innerQueue' = innerQueue
    BY Zenon, <1>6, <1>8 DEF EnqueueNew
  <2>2. /\ DOMAIN brQueueList \subseteq DOMAIN brQueueList'
        /\ \A i \in DOMAIN brQueueList : brQueueList'[i] = brQueueList[i]
    BY <1>1, <1>8, EnqueueNewIs
  <2>3. At(brQueueList, o) => At(brQueueList', o)
    BY Zenon, <2>2
  <2> QED
    BY Zenon, <1>2, <2>1, <2>3
<1>9. ASSUME NEW p \in Poster, EnqueueFound(p) PROVE Goal(o)
  <2>1. /\ poster'[o] = "waiting" => poster[o] = "waiting"
        /\ innerQueue' = innerQueue
    BY Zenon, <1>6, <1>9 DEF EnqueueFound
  <2>2. ASSUME NEW i \in DOMAIN brQueueList, brQueueList[i].pid = Pid[o],
               Full(brQueueList[i].queue[Level[o]])
        PROVE  /\ i \in DOMAIN brQueueList' /\ brQueueList'[i].pid = Pid[o]
               /\ Full(brQueueList'[i].queue[Level[o]])
    <3>1. /\ i \in DOMAIN brQueueList' /\ brQueueList'[i].pid = Pid[o]
          /\ \/ brQueueList'[i].queue[Level[o]] = brQueueList[i].queue[Level[o]]
             \/ brQueueList'[i].queue[Level[o]] = Append(brQueueList[i].queue[Level[o]], p)
      BY ZenonT(30), <1>3, <1>9, <2>2, EnqueueFoundIs
    <3> QED
      BY Zenon, <1>3, <1>4, <2>2, <3>1, FullAppend
  <2>3. At(brQueueList, o) => At(brQueueList', o)
    BY Zenon, <2>2
  <2> QED
    BY Zenon, <1>2, <2>1, <2>3
<1>10. ASSUME NEW p \in Poster, WaitForRoom(p) PROVE Goal(o)
  <2>1. /\ UNCHANGED <<innerQueue, brQueueList>>
        /\ poster'[o] = "waiting" => poster[o] = "waiting" \/ o = p
    BY Zenon, <1>10 DEF WaitForRoom, QueuesTyped
  <2>2. Sleeps(p)
    <3>1. CASE IsInner(p)
      BY Zenon, <1>10, <3>1 DEF WaitForRoom, Lane
    <3>2. CASE ~IsInner(p)
      <4>1. PICK i \in DOMAIN brQueueList : brQueueList[i].pid = Pid[p]
        BY Zenon, <1>10, <3>2 DEF WaitForRoom, HasQueue
      <4>2. Lane(p) = brQueueList[i].queue[Level[p]]
        BY Zenon, <3>2, <4>1, LaneIs
      <4> QED
        BY Zenon, <1>10, <3>2, <4>1, <4>2 DEF WaitForRoom
    <3> QED
      BY Zenon, <3>1, <3>2
  <2> QED
    BY Zenon, <1>2, <2>1, <2>2
<1>11. ASSUME NEW p \in Poster, WaitForRoomTimesOut(p) PROVE Goal(o)
  <2>1. /\ UNCHANGED <<innerQueue, brQueueList>>
        /\ poster'[o] = "waiting" => poster[o] = "waiting"
    BY Zenon, <1>11 DEF WaitForRoomTimesOut, QueuesTyped
  <2> QED
    BY Zenon, <1>2, <2>1

<1>12. ASSUME NEW q \in Priority, TakeInner(q)
       PROVE  /\ poster'[o] = "waiting" => poster[o] = "waiting"
              /\ IsInner(o) => Goal(o)
  <2>1. /\ poster'[o] = "waiting" => poster[o] = "waiting" /\ ~Full(innerQueue[q])
        /\ Level[o] # q => innerQueue'[Level[o]] = innerQueue[Level[o]]
    BY Zenon, <1>1, <1>3, <1>12 DEF TakeInner, SignalWaiters, Lanes
  <2> QED
    BY Zenon, <1>2, <2>1
<1>13. ASSUME FirstUsed = 0, ~IsInner(o) PROVE poster[o] # "waiting"
  <2>1. \A i \in DOMAIN brQueueList : brQueueList[i].queue[Level[o]] = <<>>
    BY Zenon, <1>3, <1>13, FirstUsedIs
  <2> QED
    BY Zenon, <1>2, <1>13, <2>1, EmptyNotFull
<1>14. LOW \in Priority /\ MIDDLE \in Priority /\ 1 .. MIDDLE \subseteq Priority
  BY DEF LOW, MIDDLE, Priority
<1>15. CASE DequeueInnerFirst
  <2>1. Found(innerQueue, MIDDLE) \in Priority
    BY Zenon, <1>1, <1>14, <1>15, FoundIs DEF DequeueInnerFirst
  <2>2. brQueueList' = brQueueList /\ TakeInner(Found(innerQueue, MIDDLE))
    BY Zenon, <1>15 DEF DequeueInnerFirst
  <2> QED
    BY Zenon, <1>2, <1>12, <2>1, <2>2
<1>16. CASE DequeueInnerLast
  <2>1. FirstUsed = 0 /\ TakeInner(LOW)
    BY Zenon, <1>16 DEF DequeueInnerLast
  <2> QED
    BY Zenon, <1>12, <1>13, <1>14, <2>1
<1>17. CASE DequeueWaits
  <2>1. FirstUsed = 0 /\ UNCHANGED <<poster, innerQueue>>
    BY Zenon, <1>17 DEF DequeueWaits
  <2> QED
    BY Zenon, <1>2, <1>13, <2>1
<1>18. CASE DequeueList
  <2> DEFINE i == FirstUsed
             m == Found(brQueueList[i].queue, LOW)
             n == Len(brQueueList) - i
  <2>1. /\ i \in DOMAIN brQueueList /\ m \in Priority /\ n \in Nat
        /\ DOMAIN brQueueList' = 1 .. n + 1
        /\ \A k \in 1 .. n : brQueueList'[k] = brQueueList[k + i]
        /\ brQueueList'[n + 1].pid = brQueueList[i].pid
        /\ \A q \in Priority \ {m} : brQueueList'[n + 1].queue[q] = brQueueList[i].queue[q]
        /\ innerQueue' = innerQueue
    BY Zenon, <1>18, DequeueListIs
  <2>2. poster'[o] = "waiting" => poster[o] = "waiting" /\ ~Full(brQueueList[i].queue[m])
    BY Zenon, <1>18, DequeueListIs
  <2>3. i # 0 /\ \A k \in 1 .. i - 1 : \A q \in Priority : brQueueList[k].queue[q] = <<>>
    BY Zenon, <1>18, FirstUsedIs DEF DequeueList
  <2> HIDE DEF i, m
  <2>4. ASSUME ~Full(brQueueList[i].queue[m]), NEW k \in DOMAIN brQueueList,
               brQueueList[k].pid = Pid[o], Full(brQueueList[k].queue[Level[o]])
        PROVE  At(brQueueList', o)
    <3>1. k \notin 1 .. i - 1
      BY Zenon, <1>3, <2>3, <2>4, EmptyNotFull
    <3>2. CASE k = i
      <4>1. Level[o] # m
        BY Zenon, <2>4, <3>2
      <4>2. /\ brQueueList'[n + 1].pid = Pid[o]
            /\ Full(brQueueList'[n + 1].queue[Level[o]])
        BY Zenon, <1>3, <2>1, <2>4, <3>2, <4>1
      <4>3. n + 1 \in DOMAIN brQueueList'
        BY <2>1
      <4> HIDE DEF n
      <4> QED
        BY Zenon, <4>2, <4>3
    <3>3. CASE k # i
      <4>1. k - i \in 1 .. n /\ (k - i) + i = k
        BY <1>1, <2>1, <3>1, <3>3
      <4>2. brQueueList'[k - i] = brQueueList[k] /\ k - i \in DOMAIN brQueueList'
        BY <2>1, <4>1
      <4> QED
        BY Zenon, <2>4, <4>2
    <3> QED
      BY Zenon, <3>2, <3>3
  <2> QED
    BY Zenon, <1>2, <2>1, <2>2, <2>4
<1>19. CASE DequeueTimesOut \/ IdleCheck \/ ClearPosted \/ Sending \/ Elsewhere
  BY Zenon, <1>2, <1>19, QueuesKept
<1> QED
  BY Zenon, <1>5, <1>7, <1>8, <1>9, <1>10, <1>11, <1>15, <1>16, <1>17, <1>18, <1>19, Kinds
     DEF PosterStep

-----------------------------------------------------------------------------
(***************************************************************************)
(* What the send task knows when it sleeps or leaves.                      *)
(***************************************************************************)
LEMMA QueuesEmptyFrame ==
  ASSUME UNCHANGED <<innerQueue, brQueueList>>
  PROVE  QueuesEmpty' = QueuesEmpty
BY Zenon DEF QueuesEmpty, Found, FirstUsed

LEMMA AnnouncedStep ==
  ASSUME QueuesTyped, Announced, [Next]_vars
  PROVE  Announced'
<1> USE DEF Announced
<1>1. ASSUME NEW p \in Poster, Post(p) PROVE Announced'
  <2>1. CASE Ready(p)
    <3>1. /\ messagePosted' = TRUE /\ sendTaskRunning' = TRUE
          /\ task' = IF sendTaskRunning THEN task ELSE "dequeue"
          /\ UNCHANGED <<innerQueue, brQueueList, late, stalled>>
      BY Zenon, <1>1, <2>1 DEF Post, ghosts
    <3>2. task' = IF task # "off" THEN task ELSE "dequeue"
      BY Zenon, <3>1
    <3> QED
      BY Zenon, <3>1, <3>2
  <2>2. CASE ~Ready(p)
    <3>1. UNCHANGED <<messagePosted, sendTaskRunning, task, poster, innerQueue, brQueueList,
                      late, stalled>>
      BY Zenon, <1>1, <2>2 DEF Post, ghosts
    <3> QED
      BY Zenon, <3>1, QueuesEmptyFrame
  <2> QED
    BY Zenon, <2>1, <2>2
<1>2. ASSUME NEW p \in Poster, PostStartFails(p) PROVE Announced'
  <2>1. /\ messagePosted' = TRUE
        /\ UNCHANGED <<sendTaskRunning, task, poster, innerQueue, brQueueList, late, stalled>>
    BY Zenon, <1>2 DEF PostStartFails, ghosts, queues
  <2> QED
    BY Zenon, <2>1, QueuesEmptyFrame
<1>3. ASSUME NEW p \in Poster, Entered(p, TRUE) \/ Entered(p, FALSE) \/ Entered(p, FirstQueue),
             poster[p] # "idle", UNCHANGED <<lpInfo, stalled>>,
             task = "wait" => task' = "woken"
      PROVE  Announced'
  <2>1. task' = IF task = "wait" THEN "woken" ELSE task
    BY Zenon, <1>3 DEF Entered, Wake
  <2>2. UNCHANGED <<messagePosted, sendTaskRunning, stalled>>
    BY Zenon, <1>3 DEF lpInfo
  <2>3. task = "off" => stalled
    BY Zenon, <1>3
  <2>4. task = "idle" => stalled \/ messagePosted
    BY Zenon, <1>3
  <2> QED
    BY Zenon, <2>1, <2>2, <2>3, <2>4
<1>4. ASSUME NEW p \in Poster, EnqueueInner(p) PROVE Announced'
  <2>1. Entered(p, TRUE) /\ poster[p] # "idle" /\ UNCHANGED <<lpInfo, stalled>>
    BY Zenon, <1>4 DEF EnqueueInner
  <2>2. task = "wait" => task' = "woken"
    BY Zenon, <2>1 DEF Entered, Wake
  <2> QED
    BY Zenon, <1>3, <2>1, <2>2
<1>5. ASSUME NEW p \in Poster, EnqueueNew(p) PROVE Announced'
  <2>1. Entered(p, FirstQueue) /\ poster[p] # "idle" /\ UNCHANGED <<lpInfo, stalled>>
    BY Zenon, <1>5 DEF EnqueueNew
  <2>2. task = "wait" => task' = "woken"
    BY Zenon, <2>1 DEF Entered, Wake, FirstQueue
  <2> QED
    BY Zenon, <1>3, <2>1, <2>2
<1>6. ASSUME NEW p \in Poster, EnqueueFound(p) PROVE Announced'
  <2>1. Entered(p, FALSE) /\ poster[p] # "idle" /\ UNCHANGED <<lpInfo, stalled>> /\ HasQueue(p)
    BY Zenon, <1>6 DEF EnqueueFound
  <2>2. task # "wait"
    BY <2>1 DEF HasQueue
  <2> QED
    BY Zenon, <1>3, <2>1, <2>2
<1>7. ASSUME NEW p \in Poster, WaitForRoom(p) \/ WaitForRoomTimesOut(p) PROVE Announced'
  <2>1. /\ poster[p] # "idle" /\ \A o \in Poster \ {p} : poster'[o] = poster[o]
        /\ UNCHANGED <<messagePosted, sendTaskRunning, task, innerQueue, brQueueList, late, stalled>>
    BY Zenon, <1>7 DEF WaitForRoom, WaitForRoomTimesOut, ghosts, lpInfo, QueuesTyped
  <2> QED
    BY Zenon, <2>1, QueuesEmptyFrame
<1>8. CASE DequeueInnerFirst \/ DequeueList \/ DequeueInnerLast
  <2>1. task' = "got" /\ task # "off" /\ sendTaskRunning' = sendTaskRunning
    BY ZenonT(30), <1>8 DEF DequeueInnerFirst, DequeueList, DequeueInnerLast, lpInfo
  <2> QED
    BY Zenon, <2>1
<1>9. CASE DequeueWaits
  <2>1. /\ task' = "wait" /\ task # "off" /\ UNCHANGED <<lpInfo, poster, innerQueue>>
        /\ brQueueList' = <<>> /\ late' = {p \in Poster : poster[p] # "idle"}
        /\ Found(innerQueue, LOW) = 0
    BY Zenon, <1>9 DEF DequeueWaits
  <2>2. \A q \in Priority : innerQueue[q] = <<>>
    <3>1. innerQueue \in Lanes /\ LOW \in Priority /\ 1 .. LOW = Priority
      BY DEF QueuesTyped, LOW, Priority
    <3> QED
      BY ZenonT(30), <2>1, <3>1, FoundIs
  <2> QED
    BY Zenon, <2>1, <2>2 DEF lpInfo
<1>10. CASE DequeueTimesOut
  <2>1. /\ task = "wait" /\ task' = "idle" /\ stalled' = (stalled \/ late # {})
        /\ UNCHANGED <<messagePosted, sendTaskRunning, poster, innerQueue, brQueueList>>
    BY Zenon, <1>10 DEF DequeueTimesOut, lpInfo, queues
  <2>2. QueuesEmpty'
    BY Zenon, <2>1, QueuesEmptyIs, QueuesEmptyFrame
  <2> QED
    BY Zenon, <2>1, <2>2
<1>11. CASE IdleCheck
  <2>1. /\ task = "idle" /\ UNCHANGED <<poster, innerQueue, brQueueList, stalled>>
        /\ \/ task' = "off" /\ sendTaskRunning' = FALSE /\ ~messagePosted
           \/ task' = "dequeue" /\ sendTaskRunning' = sendTaskRunning
    BY Zenon, <1>11 DEF IdleCheck, MayLeave, Leave, queues, ghosts
  <2> QED
    BY Zenon, <2>1, QueuesEmptyFrame
<1>12. CASE ClearPosted
  BY Zenon, <1>12 DEF ClearPosted
<1>13. CASE Sending
  BY Zenon, <1>13, SendingKeeps
<1>14. CASE Elsewhere
  BY Zenon, <1>14, ElsewhereKeeps, QueuesEmptyFrame
<1> QED
  BY ZenonT(30), <1>1, <1>2, <1>4, <1>5, <1>6, <1>7, <1>8, <1>9, <1>10, <1>11, <1>12, <1>13, <1>14, Kinds
     DEF PosterStep

-----------------------------------------------------------------------------
(***************************************************************************)
(* The pending packets.                                                    *)
(***************************************************************************)
\* Dereference drops the packets that nobody else refers to.
LEMMA DereferenceIs ==
  ASSUME pending \subseteq PendingPacket, NEW ks \in SUBSET pending
  PROVE  \A k \in Dereference(ks) :
           /\ k \in PendingPacket
           /\ \/ k \in pending /\ k \notin ks
              \/ \E l \in ks : l.refCnt = 2 /\ k.refCnt = 1 /\ k.seq = l.seq
                               /\ k = [l EXCEPT !.refCnt = 1]
<1> SUFFICES ASSUME NEW k \in Dereference(ks), ~(k \in pending /\ k \notin ks)
             PROVE  \E l \in ks : /\ l.refCnt = 2 /\ k.refCnt = 1 /\ k.seq = l.seq
                                  /\ k = [l EXCEPT !.refCnt = 1] /\ k \in PendingPacket
  BY Zenon
<1>1. PICK l \in ks : l.refCnt > 1 /\ k = [l EXCEPT !.refCnt = @ - 1]
  BY Zenon DEF Dereference
<1>2. l \in PendingPacket
  BY Zenon
<1>3. l.refCnt = 2 /\ l.refCnt - 1 = 1
  BY <1>1, <1>2 DEF PendingPacket
<1>4. k = [l EXCEPT !.refCnt = 1]
  BY Zenon, <1>1, <1>3
<1> QED
  BY <1>2, <1>3, <1>4 DEF PendingPacket

\* A packet that is referred to twice survives it.
LEMMA DereferenceKeeps ==
  ASSUME pending \subseteq PendingPacket, NEW ks \in SUBSET pending, NEW l \in pending,
         l \in ks => l.refCnt = 2
  PROVE  \E k \in Dereference(ks) : k.seq = l.seq
<1>1. CASE l \notin ks
  BY Zenon, <1>1 DEF Dereference
<1>2. CASE l \in ks
  <2>1. l.refCnt > 1 /\ l \in PendingPacket
    BY <1>2
  <2>2. [l EXCEPT !.refCnt = @ - 1] \in Dereference(ks)
    BY Zenon, <1>2, <2>1 DEF Dereference
  <2>3. [l EXCEPT !.refCnt = @ - 1].seq = l.seq
    BY Zenon, <2>1 DEF PendingPacket
  <2> QED
    BY Zenon, <2>2, <2>3
<1> QED
  BY Zenon, <1>1, <1>2

\* What a list of packets may become, without the task being asked.
LEMMA OnePerRequest ==
  ASSUME PacketsCounted, NEW ks \in SUBSET pending
  PROVE  /\ Dereference(ks) \subseteq PendingPacket
         /\ \A k \in Dereference(ks) : k.seq <= sequence
         /\ \A k, l \in Dereference(ks) : k.seq = l.seq => k = l
<1>1. pending \subseteq PendingPacket
  BY Zenon DEF PacketsCounted
<1>2. ASSUME NEW k \in Dereference(ks)
      PROVE  \E o \in pending : /\ o.seq = k.seq
                                /\ o \in ks => k = [o EXCEPT !.refCnt = 1]
                                /\ o \notin ks => k = o
  BY Zenon, <1>1, DereferenceIs
<1>3. ASSUME NEW k \in Dereference(ks), NEW l \in Dereference(ks), k.seq = l.seq
      PROVE  k = l
  <2>1. PICK o \in pending : /\ o.seq = k.seq
                             /\ o \in ks => k = [o EXCEPT !.refCnt = 1]
                             /\ o \notin ks => k = o
    BY Zenon, <1>2
  <2>2. PICK u \in pending : /\ u.seq = l.seq
                             /\ u \in ks => l = [u EXCEPT !.refCnt = 1]
                             /\ u \notin ks => l = u
    BY Zenon, <1>2
  <2>3. o = u
    BY ZenonT(30), <1>3, <2>1, <2>2 DEF PacketsCounted
  <2> QED
    BY Zenon, <2>1, <2>2, <2>3
<1>4. ASSUME NEW k \in Dereference(ks) PROVE k.seq <= sequence
  BY Zenon, <1>2 DEF PacketsCounted
<1>5. Dereference(ks) \subseteq PendingPacket
  BY Zenon, <1>1, DereferenceIs
<1> QED
  BY Zenon, <1>3, <1>4, <1>5

LEMMA PacketsFrame ==
  ASSUME PacketsCounted, UNCHANGED <<pending, sequence, waitSequence, reading, lateAck>>,
         task = "ackwait" <=> task' = "ackwait"
  PROVE  PacketsCounted'
BY Zenon DEF PacketsCounted

\* While nobody waits for a packet, some may be dropped.
LEMMA PacketsDropped ==
  ASSUME PacketsCounted, task # "ackwait", task' # "ackwait", pending' \subseteq pending,
         UNCHANGED <<sequence, reading, lateAck>>
  PROVE  PacketsCounted'
BY Zenon DEF PacketsCounted

\* What the steps of the task and of the posters do to the packets.
LEMMA PacketsUntouched ==
  ASSUME \/ \E p \in Poster : Post(p) \/ PostStartFails(p) \/ PosterStep(p)
         \/ DequeueInnerFirst \/ DequeueList \/ DequeueInnerLast \/ DequeueWaits
         \/ DequeueTimesOut \/ IdleCheck \/ ClearPosted
         \/ NoConnection \/ Apply \/ SleepEnds,
         sendTaskRunning = (task # "off")
  PROVE  /\ UNCHANGED <<pending, sequence, waitSequence, reading, lateAck>>
         /\ task = "ackwait" <=> task' = "ackwait"
<1> USE DEF ack, link, ghosts
<1>1. ASSUME NEW p \in Poster, Post(p) \/ PostStartFails(p)
      PROVE  /\ UNCHANGED <<pending, sequence, waitSequence, reading, lateAck>>
             /\ task = "ackwait" <=> task' = "ackwait"
  <2>1. CASE Post(p)
    <3>1. task' = task \/ (~sendTaskRunning /\ task' = "dequeue")
      BY Zenon, <2>1 DEF Post
    <3> QED
      BY Zenon, <2>1, <3>1 DEF Post
  <2>2. CASE PostStartFails(p)
    BY Zenon, <2>2 DEF PostStartFails
  <2> QED
    BY Zenon, <1>1, <2>1, <2>2
<1>2. ASSUME NEW p \in Poster, PosterStep(p)
      PROVE  /\ UNCHANGED <<pending, sequence, waitSequence, reading, lateAck>>
             /\ task = "ackwait" <=> task' = "ackwait"
  <2>1. CASE EnqueueInner(p)
    BY Zenon, <2>1 DEF EnqueueInner, Entered, Wake
  <2>2. CASE EnqueueNew(p)
    BY Zenon, <2>2 DEF EnqueueNew, Entered, Wake
  <2>3. CASE EnqueueFound(p)
    BY Zenon, <2>3 DEF EnqueueFound, Entered, Wake
  <2>4. CASE WaitForRoom(p) \/ WaitForRoomTimesOut(p)
    BY Zenon, <2>4 DEF WaitForRoom, WaitForRoomTimesOut
  <2> QED
    BY Zenon, <1>2, <2>1, <2>2, <2>3, <2>4 DEF PosterStep
<1>3. CASE DequeueInnerFirst \/ DequeueList \/ DequeueInnerLast \/ DequeueWaits
  BY ZenonT(30), <1>3 DEF DequeueInnerFirst, DequeueList, DequeueInnerLast, DequeueWaits
<1>4. CASE DequeueTimesOut \/ IdleCheck \/ ClearPosted
  BY Zenon, <1>4 DEF DequeueTimesOut, IdleCheck, Leave, ClearPosted
<1>5. CASE NoConnection \/ Apply \/ SleepEnds
  BY Zenon, <1>5 DEF NoConnection, Finish, Apply, SleepEnds
<1> QED
  BY Zenon, <1>1, <1>2, <1>3, <1>4, <1>5

LEMMA SentIs ==
  ASSUME PacketsCounted, NEW ok \in BOOLEAN, Sent(ok), task = "write"
  PROVE  pending' \subseteq pending /\ task' # "ackwait"
<1>1. Packet(sequence) \in SUBSET pending
  BY Zenon DEF Packet
<1>2. pending \subseteq PendingPacket /\ \A k \in pending : k.refCnt # 2
  BY Zenon DEF PacketsCounted
<1>3. DelPacket(sequence) \subseteq pending
  BY <1>1, <1>2, DereferenceIs DEF DelPacket
<1> QED
  BY Zenon, <1>3 DEF Sent, Finish, DataOrWait, Transmit

LEMMA PacketsStep ==
  ASSUME PacketsCounted, Announced, [Next]_vars
  PROVE  PacketsCounted'
<1>1. /\ sequence \in Nat /\ pending \subseteq PendingPacket
      /\ \A k \in pending : k.seq <= sequence
      /\ \A k, l \in pending : k.seq = l.seq => k = l
      /\ \A k \in PendingPacket : k.seq \in Nat /\ k.refCnt \in 1 .. 2
  BY Zenon DEF PacketsCounted, PendingPacket
<1>2. CASE \/ \E p \in Poster : Post(p) \/ PostStartFails(p) \/ PosterStep(p)
           \/ DequeueInnerFirst \/ DequeueList \/ DequeueInnerLast \/ DequeueWaits
           \/ DequeueTimesOut \/ IdleCheck \/ ClearPosted
           \/ NoConnection \/ Apply \/ SleepEnds
  <2>1. sendTaskRunning = (task # "off")
    BY Zenon DEF Announced
  <2> QED
    BY Zenon, <1>2, <2>1, PacketsUntouched, PacketsFrame
<1>3. CASE Begin
  <2>1. /\ task = "begin" /\ task' # "ackwait" /\ sequence' = sequence + 1
        /\ UNCHANGED <<waitSequence, reading>>
        /\ \/ pending' = Create(sequence + 1) /\ (~reading => lateAck')
           \/ UNCHANGED <<pending, lateAck>>
    BY Zenon, <1>3 DEF Begin, Transmit, DataOrWait, link
  <2>2. CASE pending' = Create(sequence + 1) /\ (~reading => lateAck')
    <3> DEFINE new == [seq |-> sequence + 1, finded |-> FALSE, refCnt |-> 1]
    <3>1. pending' \subseteq pending \cup {new}
      BY Zenon, <2>2 DEF Create
    <3>2. new \in PendingPacket /\ new.seq = sequence + 1 /\ new.refCnt = 1
      BY <1>1 DEF PendingPacket
    <3> HIDE DEF new
    <3>3. \A k \in pending : k.seq # new.seq
      BY <1>1, <3>2
    <3>4. pending' \subseteq PendingPacket
      BY Zenon, <1>1, <3>1, <3>2
    <3>5. \A k \in pending' : k.seq <= sequence'
      BY <1>1, <2>1, <3>1, <3>2
    <3>6. \A k, l \in pending' : k.seq = l.seq => k = l
      BY Zenon, <1>1, <3>1, <3>3
    <3>7. \A k \in pending' : k.refCnt # 2
      BY <2>1, <3>1, <3>2 DEF PacketsCounted
    <3> QED
      BY <1>1, <2>1, <2>2, <3>4, <3>5, <3>6, <3>7 DEF PacketsCounted
  <2>3. CASE UNCHANGED <<pending, lateAck>>
    <3>1. \A k \in pending' : k.seq <= sequence'
      BY <1>1, <2>1, <2>3
    <3> QED
      BY <1>1, <2>1, <2>3, <3>1 DEF PacketsCounted
  <2> QED
    BY Zenon, <2>1, <2>2, <2>3
<1>4. CASE WriteSome \/ WriteNothing \/ WriteBusy \/ WriteFails
  <2>1. /\ task = "write" /\ UNCHANGED <<sequence, reading, lateAck>>
        /\ \/ Sent(TRUE) \/ Sent(FALSE)
           \/ pending' = pending /\ task' = "apply"
    BY Zenon, <1>4 DEF WriteSome, WriteNothing, WriteBusy, WriteFails, link, ack, ghosts
  <2>2. pending' \subseteq pending /\ task' # "ackwait"
    BY Zenon, <2>1, SentIs
  <2> QED
    BY ZenonT(30), <2>1, <2>2, PacketsDropped
<1>5. CASE WaitAck
  <2>1. task = "waitack" /\ UNCHANGED <<sequence, reading, lateAck>>
    BY Zenon, <1>5 DEF WaitAck, link, ghosts
  <2>2. CASE pending' = pending /\ task' = "apply"
    BY Zenon, <2>1, <2>2, PacketsDropped
  <2>3. ASSUME NEW k \in Packet(waitSequence), pending' = Reference(k), task' = "ackwait",
               waitSequence' = waitSequence
        PROVE  PacketsCounted'
    <3> DEFINE new == [k EXCEPT !.refCnt = @ + 1]
    <3>1. k \in pending /\ k.seq = waitSequence /\ k \in PendingPacket
      BY Zenon, <1>1, <2>3 DEF Packet
    <3>2. k.refCnt = 1
      BY <1>1, <2>1, <3>1 DEF PacketsCounted
    <3>3. new \in PendingPacket /\ new.seq = k.seq /\ new.refCnt = 2
      BY <3>1, <3>2 DEF PendingPacket
    <3>4. pending' = (pending \ {k}) \cup {new}
      BY Zenon, <2>3 DEF Reference
    <3> HIDE DEF new
    <3>5. /\ pending' \subseteq PendingPacket
          /\ \A l \in pending' : l.seq <= sequence
      BY Zenon, <1>1, <3>1, <3>3, <3>4
    <3>6. \A l, m \in pending' : l.seq = m.seq => l = m
      BY ZenonT(30), <1>1, <3>1, <3>3, <3>4
    <3>7. \A l \in pending' : l.refCnt = 2 => l.seq = waitSequence
      BY Zenon, <2>1, <3>1, <3>3, <3>4 DEF PacketsCounted
    <3>8. reading \/ lateAck
      BY Zenon, <2>1, <3>1 DEF PacketsCounted
    <3> QED
      BY Zenon, <1>1, <2>1, <2>3, <3>1, <3>3, <3>4, <3>5, <3>6, <3>7, <3>8 DEF PacketsCounted
  <2> QED
    BY Zenon, <1>5, <2>2, <2>3 DEF WaitAck, Transmit
<1>6. CASE WaitAckEnds
  <2>1. /\ task = "ackwait" /\ task' = "apply" /\ UNCHANGED <<sequence, reading, lateAck>>
        /\ \E k \in Packet(waitSequence) : pending' = Dereference({k})
    BY Zenon, <1>6 DEF WaitAckEnds, Transmit, link, ghosts
  <2>2. PICK k \in pending : k.seq = waitSequence /\ pending' = Dereference({k})
    BY Zenon, <2>1 DEF Packet
  <2>3. {k} \in SUBSET pending
    BY Zenon
  <2>4. /\ pending' \subseteq PendingPacket
        /\ \A l \in pending' : l.seq <= sequence
        /\ \A l, m \in pending' : l.seq = m.seq => l = m
    BY Zenon, <2>2, <2>3, OnePerRequest
  <2>5. ASSUME NEW l \in pending'
        PROVE  l.refCnt # 2 /\ (~reading => lateAck)
    <3>1. \/ l \in pending /\ l # k
          \/ k.refCnt = 2 /\ l.refCnt = 1
      BY <1>1, <2>2, <2>3, DereferenceIs
    <3>2. CASE l \in pending /\ l # k
      <4>1. l.seq # waitSequence
        BY Zenon, <1>1, <2>2, <3>2
      <4> QED
        BY Zenon, <3>2, <4>1 DEF PacketsCounted
    <3>3. CASE k.refCnt = 2 /\ l.refCnt = 1
      BY <2>2, <3>3 DEF PacketsCounted
    <3> QED
      BY Zenon, <3>1, <3>2, <3>3
  <2> QED
    BY Zenon, <1>1, <2>1, <2>4, <2>5 DEF PacketsCounted
<1>7. CASE \E s \in 1 .. sequence : AckArrives(s)
  <2>1. PICK s \in 1 .. sequence :
          /\ pending' = SetPacket(s) /\ reading
          /\ UNCHANGED <<sequence, waitSequence, task, reading, lateAck>>
    BY Zenon, <1>7 DEF AckArrives, link, ghosts
  <2> DEFINE F(k) == IF k.seq = s THEN [k EXCEPT !.finded = TRUE] ELSE k
  <2>2. pending' = {F(k) : k \in pending}
    BY Zenon, <2>1 DEF SetPacket
  <2>3. \A k \in PendingPacket : F(k) \in PendingPacket /\ F(k).seq = k.seq /\ F(k).refCnt = k.refCnt
    BY Zenon DEF PendingPacket
  <2> HIDE DEF F
  <2>4. /\ pending' \subseteq PendingPacket
        /\ \A k \in pending' : k.seq <= sequence
    BY ZenonT(30), <1>1, <2>2, <2>3
  <2>5. \A k, l \in pending' : k.seq = l.seq => k = l
    BY <1>1, <2>2, <2>3
  <2>6. \A k \in pending' : k.refCnt = 2 => task = "ackwait" /\ k.seq = waitSequence
    BY <1>1, <2>2, <2>3 DEF PacketsCounted
  <2>7. task = "ackwait" => \E k \in pending' : k.seq = waitSequence /\ (reading => k.refCnt = 2)
    BY <1>1, <2>2, <2>3 DEF PacketsCounted
  <2> QED
    BY Zenon, <1>1, <2>1, <2>4, <2>5, <2>6, <2>7 DEF PacketsCounted
<1>8. CASE ReadFails
  <2>1. /\ reading /\ reading' = FALSE /\ pending' = Dereference(pending)
        /\ UNCHANGED <<sequence, waitSequence, task, lateAck>>
    BY Zenon, <1>8 DEF ReadFails, DelPacketsById, ghosts
  <2>2. pending \in SUBSET pending
    BY Zenon
  <2>3. /\ pending' \subseteq PendingPacket
        /\ \A l \in pending' : l.seq <= sequence
        /\ \A l, m \in pending' : l.seq = m.seq => l = m
    BY Zenon, <2>1, <2>2, OnePerRequest
  <2>4. \A l \in pending' : l.refCnt = 1 /\ l.seq = waitSequence /\ task = "ackwait"
    BY <1>1, <2>1, <2>2, DereferenceIs DEF PacketsCounted
  <2>5. task = "ackwait" => \E k \in pending' : k.seq = waitSequence
    <3> SUFFICES ASSUME task = "ackwait" PROVE \E k \in pending' : k.seq = waitSequence
      BY Zenon
    <3>1. PICK l \in pending : l.seq = waitSequence /\ l.refCnt = 2
      BY Zenon, <2>1 DEF PacketsCounted
    <3>2. \E k \in Dereference(pending) : k.seq = l.seq
      BY Zenon, <1>1, <2>2, <3>1, DereferenceKeeps
    <3> QED
      BY Zenon, <2>1, <3>1, <3>2
  <2> QED
    BY Zenon, <1>1, <2>1, <2>3, <2>4, <2>5 DEF PacketsCounted
<1>9. CASE CloseSocket \/ DisConnect \/ RemoveConnection \/ ConfigPostLimit \/ Tick \/ UNCHANGED vars
  <2>1. UNCHANGED <<pending, sequence, waitSequence, reading, lateAck, task>>
    <3>1. CASE CloseSocket \/ DisConnect \/ RemoveConnection
      BY Zenon, <3>1 DEF CloseSocket, DisConnect, RemoveConnection, ack, ghosts
    <3>2. CASE ConfigPostLimit \/ Tick
      BY Zenon, <3>2 DEF ConfigPostLimit, Tick, ack, link, ghosts
    <3>3. CASE UNCHANGED vars
      BY Zenon, <3>3 DEF vars, ack, link, ghosts
    <3> QED
      BY Zenon, <1>9, <3>1, <3>2, <3>3
  <2> QED
    BY Zenon, <2>1, PacketsFrame
<1> QED
  BY Zenon, <1>2, <1>3, <1>4, <1>5, <1>6, <1>7, <1>8, <1>9, Kinds DEF Sending, Elsewhere

-----------------------------------------------------------------------------
(***************************************************************************)
(* What the histories of the controller amount to.                         *)
(***************************************************************************)
\* What holds of 0 and of every number after one that it holds of, up to n, holds
\* up to n: T is the set of the numbers it holds of.
LEMMA UpTo ==
  ASSUME NEW n \in Nat, NEW T, 0 \in T, \A i \in 1 .. n : i - 1 \in T => i \in T
  PROVE  \A i \in 0 .. n : i \in T
<1> DEFINE Bad == {i \in 0 .. n : i \notin T}
<1> SUFFICES ASSUME Bad # {} PROVE FALSE
  BY Zenon
<1>1. Bad \in SUBSET Nat
  OBVIOUS
<1>2. PICK i \in Bad : \A j \in Bad : i <= j
  <2> HIDE DEF Bad
  <2> QED
    BY Zenon, <1>1, LeastIs
<1>3. i \in 0 .. n /\ i \notin T
  BY Zenon
<1>4. i \in 1 .. n
  BY <1>3
<1>5. i - 1 \in 0 .. n /\ i - 1 \notin Bad
  BY <1>2, <1>4
<1> QED
  BY Zenon, <1>3, <1>4, <1>5

\* what a history counts for in a window
Share(h, w) == IF h.age < w THEN h.amount ELSE 0

\* a running sum over the histories
Sums(f, s, w, n) ==
  /\ f \in [0 .. n -> Nat]
  /\ f[0] = 0
  /\ \A i \in 1 .. n : f[i] = f[i - 1] + Share(s[i], w)

LEMMA ShareType == \A h \in History : \A w \in Int : Share(h, w) \in Nat
BY Zenon DEF Share, History

LEMMA SumsExist ==
  ASSUME NEW s \in Seq(History), NEW w \in Int
  PROVE  \E f : Sums(f, s, w, Len(s))
<1> DEFINE T == {n \in Nat : \E f : Sums(f, s, w, n)}
<1>0. Len(s) \in Nat /\ \A i \in 1 .. Len(s) : s[i] \in History
  OBVIOUS
<1>1. Len(s) \in Nat /\ \A i \in 1 .. Len(s) : Share(s[i], w) \in Nat
  BY Zenon, <1>0, ShareType
<1>2. 0 \in T
  <2>1. Sums([i \in 0 .. 0 |-> 0], s, w, 0)
    BY DEF Sums
  <2> QED
    BY Zenon, <2>1
<1>3. ASSUME NEW n \in 1 .. Len(s), n - 1 \in T PROVE n \in T
  <2>1. PICK f : Sums(f, s, w, n - 1)
    BY Zenon, <1>3
  <2> DEFINE g == [i \in 0 .. n |-> IF i = n THEN f[n - 1] + Share(s[n], w) ELSE f[i]]
  <2>2. f \in [0 .. (n - 1) -> Nat] /\ f[0] = 0
        /\ \A i \in 1 .. (n - 1) : f[i] = f[i - 1] + Share(s[i], w)
    BY Zenon, <2>1 DEF Sums
  <2>3. Share(s[n], w) \in Nat
    BY Zenon, <1>1
  <2>4. g \in [0 .. n -> Nat] /\ g[0] = 0
    BY <2>2, <2>3
  <2>5. \A i \in 1 .. n : g[i] = g[i - 1] + Share(s[i], w)
    BY <2>2, <2>3
  <2>6. Sums(g, s, w, n)
    BY Zenon, <2>4, <2>5 DEF Sums
  <2>7. n \in Nat
    OBVIOUS
  <2> QED
    BY Zenon, <2>6, <2>7
<1> HIDE DEF T
<1>4. \A i \in 0 .. Len(s) : i \in T
  BY Zenon, <1>1, <1>2, <1>3, UpTo
<1>5. Len(s) \in T
  BY <1>1, <1>4
<1> QED
  BY Zenon, <1>5 DEF T

LEMMA AppliedIs ==
  ASSUME NEW s \in Seq(History), NEW w \in Int, NEW f, Sums(f, s, w, Len(s))
  PROVE  Applied(s, w) = f[Len(s)]
<1> DEFINE F(k) == [i \in 0 .. Len(s) |-> IF i = 0 THEN 0 ELSE k[i - 1] + Share(s[i], w)]
           g == CHOOSE k : k = F(k)
<1>1. Applied(s, w) = g[Len(s)]
  BY Zenon DEF Applied, Share
<1>2. Len(s) \in Nat
  OBVIOUS
<1>3. f = F(f)
  BY <1>2 DEF Sums
<1>4. g = F(g)
  BY Zenon, <1>3
<1> HIDE DEF g
<1>5. \A i \in 0 .. Len(s) : g[i] = IF i = 0 THEN 0 ELSE g[i - 1] + Share(s[i], w)
  BY Zenon, <1>4
<1>6. 0 \in 0 .. Len(s) /\ Len(s) \in 0 .. Len(s) /\ \A i \in 1 .. Len(s) : i \in 0 .. Len(s) /\ i # 0
  BY <1>2
<1>7. g[0] = 0 /\ \A i \in 1 .. Len(s) : g[i] = g[i - 1] + Share(s[i], w)
  BY Zenon, <1>5, <1>6
<1>8. f[0] = 0 /\ \A i \in 1 .. Len(s) : f[i] = f[i - 1] + Share(s[i], w)
  BY Zenon DEF Sums
<1> DEFINE T == {i \in Nat : f[i] = g[i]}
<1>9. 0 \in T
  BY Zenon, <1>7, <1>8
<1>10. ASSUME NEW i \in 1 .. Len(s), i - 1 \in T PROVE i \in T
  <2>1. f[i - 1] = g[i - 1] /\ i \in Nat
    BY <1>10
  <2>2. f[i] = g[i]
    BY Zenon, <1>7, <1>8, <2>1
  <2> QED
    BY Zenon, <2>1, <2>2
<1> HIDE DEF T
<1>11. \A i \in 0 .. Len(s) : i \in T
  BY Zenon, <1>2, <1>9, <1>10, UpTo
<1> QED
  BY Zenon, <1>1, <1>6, <1>11 DEF T

\* What is known of the sum: none for no history, one more before or after, a
\* unit of time later.
LEMMA AppliedSums ==
  ASSUME NEW s \in Seq(History), NEW w \in Int
  PROVE  /\ Applied(s, w) \in Nat
         /\ \E f : Sums(f, s, w, Len(s)) /\ Applied(s, w) = f[Len(s)]
<1>1. PICK f : Sums(f, s, w, Len(s))
  BY Zenon, SumsExist
<1>2. Applied(s, w) = f[Len(s)]
  BY Zenon, <1>1, AppliedIs
<1>3. f[Len(s)] \in Nat
  BY <1>1 DEF Sums
<1> QED
  BY Zenon, <1>1, <1>2, <1>3

LEMMA AppliedEmpty ==
  ASSUME NEW w \in Int
  PROVE  Applied(<<>>, w) = 0
<1>1. <<>> \in Seq(History) /\ Len(<<>>) = 0
  OBVIOUS
<1>2. \E f : Sums(f, <<>>, w, 0) /\ Applied(<<>>, w) = f[0]
  BY Zenon, <1>1, AppliedSums
<1> QED
  BY Zenon, <1>2 DEF Sums

LEMMA AppliedAppend ==
  ASSUME NEW s \in Seq(History), NEW h \in History, NEW w \in Int
  PROVE  Applied(Append(s, h), w) = Applied(s, w) + Share(h, w)
<1> DEFINE n == Len(s)
           r == Append(s, h)
<1>1. PICK f : Sums(f, s, w, n) /\ Applied(s, w) = f[n]
  BY Zenon, AppliedSums
<1>2. n \in Nat /\ r \in Seq(History) /\ Len(r) = n + 1 /\ r[n + 1] = h
      /\ \A i \in 1 .. n : r[i] = s[i]
  OBVIOUS
<1>3. Share(h, w) \in Nat
  BY Zenon, ShareType
<1>4. f \in [0 .. n -> Nat] /\ f[0] = 0 /\ \A i \in 1 .. n : f[i] = f[i - 1] + Share(s[i], w)
  BY Zenon, <1>1 DEF Sums
<1> HIDE DEF n, r
<1> DEFINE g == [i \in 0 .. (n + 1) |-> IF i = n + 1 THEN f[n] + Share(h, w) ELSE f[i]]
<1>5. g \in [0 .. (n + 1) -> Nat] /\ g[0] = 0 /\ g[n + 1] = f[n] + Share(h, w)
  BY <1>2, <1>3, <1>4
<1>6. \A i \in 1 .. (n + 1) : g[i] = g[i - 1] + Share(r[i], w)
  BY <1>2, <1>3, <1>4
<1>7. Sums(g, r, w, Len(r))
  BY Zenon, <1>2, <1>5, <1>6 DEF Sums
<1>8. Applied(r, w) = g[n + 1]
  BY Zenon, <1>2, <1>7, AppliedIs
<1> HIDE DEF g
<1> QED
  BY Zenon, <1>1, <1>5, <1>8 DEF r

LEMMA AppliedBefore ==
  ASSUME NEW s \in Seq(History), NEW h \in History, NEW w \in Int
  PROVE  Applied(<<h>> \o s, w) = Share(h, w) + Applied(s, w)
<1> DEFINE n == Len(s)
           r == <<h>> \o s
<1>1. PICK f : Sums(f, s, w, n) /\ Applied(s, w) = f[n]
  BY Zenon, AppliedSums
<1>2. n \in Nat /\ r \in Seq(History) /\ Len(r) = n + 1 /\ r[1] = h
      /\ \A i \in 2 .. (n + 1) : r[i] = s[i - 1]
  OBVIOUS
<1>3. Share(h, w) \in Nat
  BY Zenon, ShareType
<1>4. f \in [0 .. n -> Nat] /\ f[0] = 0 /\ \A i \in 1 .. n : f[i] = f[i - 1] + Share(s[i], w)
  BY Zenon, <1>1 DEF Sums
<1> HIDE DEF n, r
<1> DEFINE g == [i \in 0 .. (n + 1) |-> IF i = 0 THEN 0 ELSE Share(h, w) + f[i - 1]]
<1>5. g \in [0 .. (n + 1) -> Nat] /\ g[0] = 0 /\ g[n + 1] = Share(h, w) + f[n]
  BY <1>2, <1>3, <1>4
<1>6. ASSUME NEW i \in 1 .. (n + 1) PROVE g[i] = g[i - 1] + Share(r[i], w)
  <2>1. CASE i = 1
    BY <1>2, <1>3, <1>4, <2>1
  <2>2. CASE i \in 2 .. (n + 1)
    <3>1. i - 1 \in 1 .. n /\ r[i] = s[i - 1]
      BY <1>2, <2>2
    <3>2. f[i - 1] = f[(i - 1) - 1] + Share(r[i], w)
      BY Zenon, <1>4, <3>1
    <3>3. i - 1 \in 0 .. n /\ (i - 1) - 1 \in 0 .. n /\ i \in 1 .. Len(r)
      BY <1>2, <2>2
    <3>4. f[i - 1] \in Nat /\ f[(i - 1) - 1] \in Nat
      BY Zenon, <1>4, <3>3
    <3>5. r[i] \in History
      BY <1>2, <3>3
    <3>6. Share(r[i], w) \in Nat
      BY Zenon, <3>5, ShareType
    <3>7. g[i] = Share(h, w) + f[i - 1] /\ g[i - 1] = Share(h, w) + f[(i - 1) - 1]
      BY <1>2, <2>2
    <3> HIDE DEF g
    <3> QED
      BY <1>3, <3>2, <3>4, <3>6, <3>7
  <2> QED
    BY <1>2, <2>1, <2>2
<1>7. Sums(g, r, w, Len(r))
  BY Zenon, <1>2, <1>5, <1>6 DEF Sums
<1>8. Applied(r, w) = g[n + 1]
  BY Zenon, <1>2, <1>7, AppliedIs
<1> HIDE DEF g
<1> QED
  BY Zenon, <1>1, <1>5, <1>8 DEF r

LEMMA AppliedOlder ==
  ASSUME NEW s \in Seq(History), NEW w \in Int, w <= MAX_WINDOW_IN_MILLIS
  PROVE  Older(s) \in Seq(History) /\ Applied(Older(s), w) = Applied(s, w - 1)
<1> DEFINE n == Len(s)
           r == Older(s)
<1>1. PICK f : Sums(f, s, w - 1, n) /\ Applied(s, w - 1) = f[n]
  BY AppliedSums
<1>2. n \in Nat /\ DOMAIN s = 1 .. n /\ \A i \in 1 .. n : s[i] \in History
  OBVIOUS
<1>3. \A h \in History :
        LET o == [h EXCEPT !.age = IF @ < MAX_WINDOW_IN_MILLIS THEN @ + 1 ELSE @]
        IN  o \in History /\ Share(o, w) = Share(h, w - 1)
  <2>1. MAX_WINDOW_IN_MILLIS \in Nat
    BY Zenon, ConfigPositive
  <2> SUFFICES ASSUME NEW h \in History
               PROVE  LET o == [h EXCEPT !.age = IF @ < MAX_WINDOW_IN_MILLIS THEN @ + 1 ELSE @]
                      IN  o \in History /\ Share(o, w) = Share(h, w - 1)
    BY Zenon
  <2> DEFINE o == [h EXCEPT !.age = IF @ < MAX_WINDOW_IN_MILLIS THEN @ + 1 ELSE @]
  <2>2. /\ o \in History /\ o.amount = h.amount /\ h.age \in Nat
        /\ o.age = IF h.age < MAX_WINDOW_IN_MILLIS THEN h.age + 1 ELSE h.age
    <3>1. h = [age |-> h.age, amount |-> h.amount] /\ h.age \in Nat /\ h.amount \in Nat \ {0}
      BY Zenon DEF History
    <3> DEFINE a == IF h.age < MAX_WINDOW_IN_MILLIS THEN h.age + 1 ELSE h.age
    <3>2. a \in Nat
      BY <2>1, <3>1
    <3>3. o = [age |-> a, amount |-> h.amount]
      BY <3>1
    <3> HIDE DEF a, o
    <3>4. o \in History /\ o.amount = h.amount /\ o.age = a
      BY Zenon, <3>1, <3>2, <3>3 DEF History
    <3> QED
      BY Zenon, <3>1, <3>4 DEF a
  <2> HIDE DEF o
  <2>3. o.age < w <=> h.age < w - 1
    <3>1. CASE h.age < MAX_WINDOW_IN_MILLIS
      BY <2>1, <2>2, <3>1
    <3>2. CASE ~(h.age < MAX_WINDOW_IN_MILLIS)
      BY <2>1, <2>2, <3>2
    <3> QED
      BY Zenon, <3>1, <3>2
  <2>4. Share(o, w) = Share(h, w - 1)
    BY Zenon, <2>2, <2>3 DEF Share
  <2> QED
    BY Zenon, <2>2, <2>4 DEF o
<1>4. r \in [1 .. n -> History] /\ \A i \in 1 .. n : Share(r[i], w) = Share(s[i], w - 1)
  BY Zenon, <1>2, <1>3 DEF Older
<1>5. r \in Seq(History) /\ Len(r) = n
  <2>1. \A S, m, g : m \in Nat /\ g \in [1 .. m -> S] => g \in Seq(S) /\ Len(g) = m
    OBVIOUS
  <2> HIDE DEF n, r
  <2> QED
    BY Zenon, <1>2, <1>4, <2>1
<1> HIDE DEF n, r
<1>6. Sums(f, r, w, Len(r))
  BY Zenon, <1>1, <1>4, <1>5 DEF Sums
<1>7. Applied(r, w) = f[n]
  BY Zenon, <1>5, <1>6, AppliedIs
<1> QED
  BY Zenon, <1>1, <1>5, <1>7 DEF r

\* A longer window holds no less, and at least the history that it holds more.
LEMMA AppliedGrows ==
  ASSUME NEW s \in Seq(History), NEW w \in Int, NEW v \in Int, v <= w
  PROVE  /\ Applied(s, v) <= Applied(s, w)
         /\ \A i \in 1 .. Len(s) : v <= s[i].age /\ s[i].age < w
              => Applied(s, v) < Applied(s, w)
<1> DEFINE n == Len(s)
           More == {i \in 1 .. n : v <= s[i].age /\ s[i].age < w}
<1>1. PICK f : Sums(f, s, v, n) /\ Applied(s, v) = f[n]
  BY Zenon, AppliedSums
<1>2. PICK g : Sums(g, s, w, n) /\ Applied(s, w) = g[n]
  BY Zenon, AppliedSums
<1>3. n \in Nat /\ \A i \in 1 .. n : s[i] \in History
  OBVIOUS
<1>4. /\ f \in [0 .. n -> Nat] /\ f[0] = 0
      /\ \A i \in 1 .. n : f[i] = f[i - 1] + Share(s[i], v)
  BY Zenon, <1>1 DEF Sums
<1>5. /\ g \in [0 .. n -> Nat] /\ g[0] = 0
      /\ \A i \in 1 .. n : g[i] = g[i - 1] + Share(s[i], w)
  BY Zenon, <1>2 DEF Sums
<1>6. \A i \in 1 .. n :
        /\ Share(s[i], v) \in Nat /\ Share(s[i], w) \in Nat
        /\ Share(s[i], v) <= Share(s[i], w)
        /\ i \in More => Share(s[i], v) < Share(s[i], w)
  <2> SUFFICES ASSUME NEW i \in 1 .. n
               PROVE  /\ Share(s[i], v) \in Nat /\ Share(s[i], w) \in Nat
                      /\ Share(s[i], v) <= Share(s[i], w)
                      /\ i \in More => Share(s[i], v) < Share(s[i], w)
    BY Zenon
  <2>1. s[i].age \in Nat /\ s[i].amount \in Nat \ {0}
    BY Zenon, <1>3 DEF History
  <2> QED
    BY <2>1 DEF Share
<1> HIDE DEF n, More
<1> DEFINE T == {k \in Nat : f[k] <= g[k] /\ \A i \in 1 .. k : i \in More => f[k] < g[k]}
<1>7. 0 \in T
  BY <1>4, <1>5
<1>8. ASSUME NEW k \in 1 .. n, k - 1 \in T PROVE k \in T
  <2>1. f[k - 1] <= g[k - 1] /\ \A i \in 1 .. (k - 1) : i \in More => f[k - 1] < g[k - 1]
    BY Zenon, <1>8
  <2>2. /\ f[k - 1] \in Nat /\ g[k - 1] \in Nat
        /\ f[k] = f[k - 1] + Share(s[k], v) /\ g[k] = g[k - 1] + Share(s[k], w)
    BY <1>3, <1>4, <1>5
  <2>3. f[k] <= g[k] /\ (k \in More => f[k] < g[k]) /\ (f[k - 1] < g[k - 1] => f[k] < g[k])
    <3>1. /\ Share(s[k], v) \in Nat /\ Share(s[k], w) \in Nat
          /\ Share(s[k], v) <= Share(s[k], w)
          /\ k \in More => Share(s[k], v) < Share(s[k], w)
      BY Zenon, <1>6
    <3> DEFINE a == f[k - 1]
               b == g[k - 1]
               c == Share(s[k], v)
               d == Share(s[k], w)
    <3>2. a \in Nat /\ b \in Nat /\ c \in Nat /\ d \in Nat /\ a <= b /\ c <= d
          /\ f[k] = a + c /\ g[k] = b + d /\ (k \in More => c < d)
      BY Zenon, <2>1, <2>2, <3>1
    <3> HIDE DEF a, b, c, d
    <3>3. a + c <= b + d /\ (c < d => a + c < b + d) /\ (a < b => a + c < b + d)
      BY <3>2
    <3> QED
      BY Zenon, <3>2, <3>3 DEF a, b
  <2>4. \A i \in 1 .. k : i = k \/ i \in 1 .. (k - 1)
    BY <1>3
  <2>5. \A i \in 1 .. k : i \in More => f[k] < g[k]
    BY Zenon, <2>1, <2>3, <2>4
  <2> QED
    BY <1>3, <2>3, <2>5
<1> HIDE DEF T
<1>9. \A k \in 0 .. n : k \in T
  BY Zenon, <1>3, <1>7, <1>8, UpTo
<1>10. n \in T
  BY <1>3, <1>9
<1> QED
  BY Zenon, <1>1, <1>2, <1>10 DEF T, n, More

\* one entry of the walk of Apply, and the walk over n of them
Kept(s, w, i, x) == IF s[i].age < w THEN Append(x, s[i]) ELSE x
Walks(k, s, w, n) ==
  /\ k \in [0 .. n -> Seq(History)]
  /\ k[0] = <<>>
  /\ \A i \in 1 .. n : k[i] = Kept(s, w, i, k[i - 1])

LEMMA WalksExist ==
  ASSUME NEW s \in Seq(History), NEW w \in Int
  PROVE  \E k : Walks(k, s, w, Len(s))
<1> DEFINE T == {n \in Nat : \E k : Walks(k, s, w, n)}
<1>1. Len(s) \in Nat /\ \A i \in 1 .. Len(s) : s[i] \in History
  OBVIOUS
<1>2. 0 \in T
  <2>1. Walks([i \in 0 .. 0 |-> <<>>], s, w, 0)
    BY DEF Walks
  <2> QED
    BY Zenon, <2>1
<1>3. ASSUME NEW n \in 1 .. Len(s), n - 1 \in T PROVE n \in T
  <2>1. PICK k : Walks(k, s, w, n - 1)
    BY Zenon, <1>3
  <2> DEFINE g == [i \in 0 .. n |-> IF i = n THEN Kept(s, w, n, k[n - 1]) ELSE k[i]]
  <2>2. k \in [0 .. (n - 1) -> Seq(History)] /\ k[0] = <<>>
        /\ \A i \in 1 .. (n - 1) : k[i] = Kept(s, w, i, k[i - 1])
    BY Zenon, <2>1 DEF Walks
  <2>3. Kept(s, w, n, k[n - 1]) \in Seq(History)
    BY <1>1, <2>2 DEF Kept
  <2>4. g \in [0 .. n -> Seq(History)] /\ g[0] = <<>>
    BY <2>2, <2>3
  <2>5. \A i \in 1 .. n : g[i] = Kept(s, w, i, g[i - 1])
    <3>1. g[n] = Kept(s, w, n, k[n - 1]) /\ g[n - 1] = k[n - 1]
      OBVIOUS
    <3>2. \A i \in 1 .. (n - 1) : g[i] = k[i] /\ g[i - 1] = k[i - 1]
      OBVIOUS
    <3>3. \A i \in 1 .. n : i = n \/ i \in 1 .. (n - 1)
      OBVIOUS
    <3> HIDE DEF g
    <3> QED
      BY Zenon, <2>2, <3>1, <3>2, <3>3
  <2>6. Walks(g, s, w, n)
    BY Zenon, <2>4, <2>5 DEF Walks
  <2>7. n \in Nat
    OBVIOUS
  <2> QED
    BY Zenon, <2>6, <2>7
<1> HIDE DEF T
<1>4. \A i \in 0 .. Len(s) : i \in T
  BY Zenon, <1>1, <1>2, <1>3, UpTo
<1>5. Len(s) \in T
  BY <1>1, <1>4
<1> QED
  BY Zenon, <1>5 DEF T

LEMMA WithinWalks ==
  ASSUME NEW s \in Seq(History), NEW w \in Int
  PROVE  \E k : Walks(k, s, w, Len(s)) /\ Within(s, w) = k[Len(s)]
<1> DEFINE F(k) == [i \in 0 .. Len(s) |-> IF i = 0 THEN <<>> ELSE Kept(s, w, i, k[i - 1])]
           g == CHOOSE k : k = F(k)
<1>1. Within(s, w) = g[Len(s)]
  BY Zenon DEF Within, Kept
<1>2. Len(s) \in Nat
  OBVIOUS
<1>3. PICK f : Walks(f, s, w, Len(s))
  BY Zenon, WalksExist
<1>4. f = F(f)
  BY <1>2, <1>3 DEF Walks
<1>5. g = F(g)
  BY Zenon, <1>4
<1> HIDE DEF g
<1>6. \A i \in 0 .. Len(s) : g[i] = IF i = 0 THEN <<>> ELSE Kept(s, w, i, g[i - 1])
  BY Zenon, <1>5
<1>7. 0 \in 0 .. Len(s) /\ Len(s) \in 0 .. Len(s) /\ \A i \in 1 .. Len(s) : i \in 0 .. Len(s) /\ i # 0
  BY <1>2
<1>8. g[0] = <<>> /\ \A i \in 1 .. Len(s) : g[i] = Kept(s, w, i, g[i - 1])
  BY Zenon, <1>6, <1>7
<1>9. f[0] = <<>> /\ \A i \in 1 .. Len(s) : f[i] = Kept(s, w, i, f[i - 1])
  BY Zenon, <1>3 DEF Walks
<1> DEFINE T == {i \in Nat : f[i] = g[i]}
<1>10. 0 \in T
  BY Zenon, <1>8, <1>9
<1>11. ASSUME NEW i \in 1 .. Len(s), i - 1 \in T PROVE i \in T
  <2>1. f[i - 1] = g[i - 1] /\ i \in Nat
    BY <1>11
  <2>2. f[i] = g[i]
    BY Zenon, <1>8, <1>9, <2>1
  <2> QED
    BY Zenon, <2>1, <2>2
<1> HIDE DEF T
<1>12. \A i \in 0 .. Len(s) : i \in T
  BY Zenon, <1>2, <1>10, <1>11, UpTo
<1> QED
  BY Zenon, <1>1, <1>3, <1>7, <1>12 DEF T

\* What the walk keeps: all that counts in a window that is not longer, and
\* nothing that has expired.
LEMMA WithinIs ==
  ASSUME NEW s \in Seq(History), NEW w \in Int
  PROVE  /\ Within(s, w) \in Seq(History)
         /\ \A i \in 1 .. Len(Within(s, w)) : Within(s, w)[i].age < w
         /\ \A v \in Int : v <= w => Applied(Within(s, w), v) = Applied(s, v)
<1> DEFINE n == Len(s)
<1>1. PICK k : Walks(k, s, w, n) /\ Within(s, w) = k[n]
  BY Zenon, WithinWalks
<1>2. n \in Nat /\ \A i \in 1 .. n : s[i] \in History
  OBVIOUS
<1> HIDE DEF n
<1>3. /\ k \in [0 .. n -> Seq(History)] /\ k[0] = <<>>
      /\ \A i \in 1 .. n : k[i] = Kept(s, w, i, k[i - 1])
  BY Zenon, <1>1 DEF Walks
<1>4. ASSUME NEW v \in Int, v <= w PROVE Applied(k[n], v) = Applied(s, v)
  <2>1. PICK f : Sums(f, s, v, n) /\ Applied(s, v) = f[n]
    BY Zenon, AppliedSums DEF n
  <2>2. f \in [0 .. n -> Nat] /\ f[0] = 0 /\ \A i \in 1 .. n : f[i] = f[i - 1] + Share(s[i], v)
    BY Zenon, <2>1 DEF Sums
  <2> DEFINE T == {i \in Nat : Applied(k[i], v) = f[i]}
  <2>3. 0 \in T
    BY Zenon, <1>3, <2>2, AppliedEmpty
  <2>4. ASSUME NEW i \in 1 .. n, i - 1 \in T PROVE i \in T
    <3>1. i \in Nat /\ i - 1 \in 0 .. n /\ Applied(k[i - 1], v) = f[i - 1]
      BY <1>2, <2>4
    <3>2. k[i] = Kept(s, w, i, k[i - 1]) /\ f[i] = f[i - 1] + Share(s[i], v)
      BY Zenon, <1>3, <2>2
    <3>3. s[i] \in History /\ k[i - 1] \in Seq(History) /\ f[i - 1] \in Nat
      BY Zenon, <1>2, <1>3, <2>2, <3>1
    <3>4. CASE s[i].age < w
      <4>1. k[i] = Append(k[i - 1], s[i])
        BY Zenon, <3>2, <3>4 DEF Kept
      <4>2. Applied(k[i], v) = Applied(k[i - 1], v) + Share(s[i], v)
        BY ZenonT(30), <3>3, <4>1, AppliedAppend
      <4> QED
        BY Zenon, <3>1, <3>2, <4>2
    <3>5. CASE ~(s[i].age < w)
      <4>1. k[i] = k[i - 1]
        BY Zenon, <3>2, <3>5 DEF Kept
      <4>2. s[i].age \in Nat
        BY Zenon, <3>3 DEF History
      <4>3. Share(s[i], v) = 0
        BY <1>4, <3>5, <4>2 DEF Share
      <4>4. f[i] = f[i - 1]
        BY <3>2, <3>3, <4>3
      <4> QED
        BY Zenon, <3>1, <4>1, <4>4
    <3> QED
      BY Zenon, <3>4, <3>5
  <2> HIDE DEF T
  <2>5. \A i \in 0 .. n : i \in T
    BY Zenon, <1>2, <2>3, <2>4, UpTo
  <2>6. n \in T
    BY <1>2, <2>5
  <2> QED
    BY Zenon, <2>1, <2>6 DEF T
<1>5. \A i \in 1 .. Len(k[n]) : k[n][i].age < w
  <2> DEFINE T == {i \in Nat : \A j \in 1 .. Len(k[i]) : k[i][j].age < w}
  <2>1. 0 \in T
    BY <1>3
  <2>2. ASSUME NEW i \in 1 .. n, i - 1 \in T PROVE i \in T
    <3>1. i \in Nat /\ i - 1 \in 0 .. n /\ \A j \in 1 .. Len(k[i - 1]) : k[i - 1][j].age < w
      BY <1>2, <2>2
    <3>2. k[i] = Kept(s, w, i, k[i - 1])
      BY Zenon, <1>3
    <3>3. s[i] \in History /\ k[i - 1] \in Seq(History)
      BY ZenonT(30), <1>2, <1>3, <3>1
    <3>4. \A j \in 1 .. Len(k[i]) : k[i][j].age < w
      BY <3>1, <3>2, <3>3 DEF Kept
    <3> QED
      BY Zenon, <3>1, <3>4
  <2> HIDE DEF T
  <2>3. \A i \in 0 .. n : i \in T
    BY Zenon, <1>2, <2>1, <2>2, UpTo
  <2>4. n \in T
    BY <1>2, <2>3
  <2> QED
    BY Zenon, <2>4 DEF T
<1>6. k[n] \in Seq(History)
  BY <1>2, <1>3
<1> QED
  BY Zenon, <1>1, <1>4, <1>5, <1>6

-----------------------------------------------------------------------------
(***************************************************************************)
(* The transmission of a node, and the quota.                              *)
(***************************************************************************)
LEMMA LimitType ==
  ASSUME Metered
  PROVE  /\ limit.window \in Nat /\ limit.quota \in Nat \ {0} /\ limit.window <= MAX_WINDOW_IN_MILLIS
         /\ limit.window >= 1
BY ConfigPositive DEF Metered

\* A step that leaves the controller alone and does not begin a sleep.
LEMMA MeteredFrame ==
  ASSUME Metered, UNCHANGED flow,
         sending'.slept => sending.slept /\ sending'.sleep = sending.sleep
  PROVE  Metered'
BY Zenon DEF Metered, flow

\* What Apply grants.
LEMMA GrantIs ==
  ASSUME Metered, ~MustSleep, NEW expect \in Nat \ {0}
  PROVE  /\ Grant(expect) \in Nat \ {0} /\ Grant(expect) <= expect
         /\ active => Grant(expect) + Applied(histories, limit.window) <= limit.quota
<1>1. CASE ~active
  BY <1>1 DEF Grant, Metered
<1>2. CASE active
  <2>1. limit.window \in Int /\ limit.quota \in Nat
    BY <1>2, LimitType
  <2>2. Applied(histories, limit.window) \in Nat
    BY Zenon, <2>1, AppliedSums DEF Metered
  <2>3. ~(limit.quota <= Applied(histories, limit.window))
    BY Zenon, <1>2 DEF MustSleep
  <2> QED
    BY <1>2, <2>1, <2>2, <2>3 DEF Grant
<1> QED
  BY Zenon, <1>1, <1>2 DEF Metered

\* Apply grants.
LEMMA GrantMetered ==
  ASSUME Metered, NEW expect \in Nat \ {0}, ApplyGrants(expect), sending'.slept = FALSE
  PROVE  Metered'
<1>1. CASE ~active
  BY Zenon, <1>1 DEF Metered, ApplyGrants
<1>2. CASE active
  <2> DEFINE h == [age |-> 0, amount |-> Grant(expect)]
             w == limit.window
  <2>1. w \in Int /\ w >= 1 /\ limit.quota \in Nat
    BY <1>2, LimitType
  <2>2. /\ histories \in Seq(History) /\ granted \in Seq(History) /\ limit \in Config
        /\ \A k \in Int : k <= w => Applied(granted, k) = Applied(histories, k)
    BY Zenon, <1>2 DEF Metered
  <2>3. ~MustSleep /\ Grant(expect) \in Nat \ {0}
        /\ Grant(expect) + Applied(histories, w) <= limit.quota
    BY Zenon, <1>2, GrantIs DEF ApplyGrants
  <2>4. h \in History
    BY Zenon, <2>3 DEF History
  <2> DEFINE u == Within(histories, w)
             g == Within(granted, w)
  <2>5. /\ histories' = <<h>> \o u /\ granted' = <<h>> \o g
        /\ active' = active /\ limit' = limit
    BY Zenon, <1>2 DEF ApplyGrants, Unexpired
  <2>6. Share(h, w) = Grant(expect)
    BY <2>1 DEF Share
  <2> HIDE DEF h, w
  <2>7. /\ u \in Seq(History) /\ g \in Seq(History)
        /\ \A k \in Int : k <= w => Applied(u, k) = Applied(histories, k)
        /\ \A k \in Int : k <= w => Applied(g, k) = Applied(granted, k)
    BY Zenon, <2>1, <2>2, WithinIs
  <2> HIDE DEF u, g
  <2>8. <<h>> \o u \in Seq(History) /\ <<h>> \o g \in Seq(History)
    BY <2>4, <2>7
  <2>9. \A k \in Int : /\ Applied(<<h>> \o u, k) = Share(h, k) + Applied(u, k)
                       /\ Applied(<<h>> \o g, k) = Share(h, k) + Applied(g, k)
    BY Zenon, <2>4, <2>7, AppliedBefore
  <2>10. \A k \in Int : k <= w => Applied(granted', k) = Applied(histories', k)
    BY Zenon, <2>2, <2>5, <2>7, <2>9
  <2>11. Applied(histories', w) <= limit.quota
    <3>1. Applied(histories', w) = Grant(expect) + Applied(histories, w)
      BY <2>1, <2>5, <2>6, <2>7, <2>9
    <3> QED
      BY Zenon, <2>3, <3>1
  <2> QED
    BY Zenon, <1>2, <2>2, <2>5, <2>8, <2>10, <2>11 DEF Metered, w
<1> QED
  BY Zenon, <1>1, <1>2 DEF Metered

\* Apply goes to sleep: the history that it waits for leaves the window.
LEMMA SleepMetered ==
  ASSUME Metered, ApplySleeps, sending'.slept = TRUE, sending'.sleep = SleepTime
  PROVE  Metered' /\ SleepTime \in Nat
<1> DEFINE w == limit.window
           u == Within(histories, w)
           n == Len(u)
           a == u[n].age
<1>1. active /\ limit.quota <= Applied(histories, w) /\ histories' = u
      /\ active' = active /\ limit' = limit /\ granted' = granted /\ SleepTime = w - a
  BY Zenon DEF ApplySleeps, MustSleep, Unexpired, SleepTime
<1>2. w \in Int /\ w >= 1 /\ limit.quota \in Nat \ {0}
  BY <1>1, LimitType
<1>3. /\ histories \in Seq(History) /\ granted \in Seq(History) /\ limit \in Config
      /\ \A k \in Int : k <= w => Applied(granted, k) = Applied(histories, k)
      /\ Applied(histories, w) <= limit.quota
  BY Zenon, <1>1 DEF Metered
<1> HIDE DEF w
<1>4. /\ u \in Seq(History)
      /\ \A i \in 1 .. n : u[i].age < w
      /\ \A k \in Int : k <= w => Applied(u, k) = Applied(histories, k)
  BY Zenon, <1>2, <1>3, WithinIs
<1> HIDE DEF u
<1>5. Applied(u, w) \in Nat /\ Applied(u, w) = Applied(histories, w)
  BY <1>2, <1>4, AppliedSums
<1>6. u # <<>>
  BY <1>1, <1>2, <1>5, AppliedEmpty
<1>7. n \in 1 .. n /\ u[n] \in History
  BY <1>4, <1>6
<1>8. a \in Nat /\ a < w
  BY ZenonT(30), <1>4, <1>7 DEF History
<1> HIDE DEF n
<1>9. Applied(u, a) < Applied(u, w)
  <2>1. a \in Int /\ a <= w /\ a <= u[n].age /\ u[n].age < w
    BY <1>2, <1>8
  <2> QED
    BY Zenon, <1>2, <1>4, <1>7, <2>1, AppliedGrows DEF n
<1>10. w - (w - a) = a /\ w - a \in Nat
  BY <1>2, <1>8
<1> HIDE DEF a
<1>11. Applied(u, a) \in Nat
  <2>1. a \in Int
    BY <1>8
  <2> QED
    BY Zenon, <1>4, <2>1, AppliedSums
<1>12. Applied(u, w - (w - a)) < limit.quota
  <2>1. Applied(u, w - (w - a)) = Applied(u, a)
    BY Zenon, <1>10
  <2> QED
    BY <1>2, <1>3, <1>5, <1>9, <1>11, <2>1
<1>13. \A k \in Int : k <= w => Applied(granted, k) = Applied(u, k)
  BY Zenon, <1>3, <1>4
<1> QED
  BY Zenon, <1>1, <1>3, <1>4, <1>5, <1>10, <1>12, <1>13 DEF Metered, w

\* The limits change.
LEMMA ConfigMetered ==
  ASSUME Metered, Transmitting, ConfigPostLimit
  PROVE  Metered'
<1>1. <<>> \in Seq(History) /\ UNCHANGED sending
  BY DEF ConfigPostLimit
<1>2. CASE \E c \in Config : ChangeConfiguration(TRUE, c)
  <2>1. PICK c \in Config : ChangeConfiguration(TRUE, c)
    BY Zenon, <1>2
  <2>2. active' = TRUE /\ limit' = c /\ histories' = <<>> /\ granted' = <<>>
    BY Zenon, <2>1 DEF ChangeConfiguration
  <2>3. c.window \in Int /\ c.quota \in Nat \ {0} /\ sending.sleep \in Nat
    BY ConfigPositive DEF Transmitting, Transmission
  <2>4. Applied(<<>>, c.window) = 0 /\ Applied(<<>>, c.window - sending.sleep) = 0
    BY <2>3, AppliedEmpty
  <2>5. 0 <= c.quota /\ 0 < c.quota
    BY <2>3
  <2> QED
    BY Zenon, <1>1, <2>2, <2>4, <2>5 DEF Metered
<1>3. CASE ChangeConfiguration(FALSE, limit)
  BY Zenon, <1>1, <1>3 DEF ChangeConfiguration, Metered
<1> QED
  BY Zenon, <1>2, <1>3 DEF ConfigPostLimit

\* A unit of time passes.
LEMMA TickMetered ==
  ASSUME Metered, Transmitting, Tick
  PROVE  Metered'
<1> DEFINE w == limit.window
<1>1. /\ histories' = Older(histories) /\ granted' = Within(Older(granted), w)
      /\ active' = active /\ limit' = limit
      /\ sending' = [sending EXCEPT !.sleep = IF @ > 0 THEN @ - 1 ELSE 0]
  BY Zenon DEF Tick, Age
<1>2. histories \in Seq(History) /\ granted \in Seq(History) /\ 0 \in Int /\ active \in BOOLEAN
      /\ 0 <= MAX_WINDOW_IN_MILLIS
  BY ConfigPositive DEF Metered
<1>3. Older(histories) \in Seq(History) /\ Older(granted) \in Seq(History)
  BY Zenon, <1>2, AppliedOlder
<1>4. CASE ~active
  <2>1. w \in Int
    BY LimitType
  <2>2. granted' \in Seq(History)
    BY Zenon, <1>1, <1>3, <2>1, WithinIs
  <2> QED
    BY Zenon, <1>1, <1>2, <1>3, <1>4, <2>2 DEF Metered
<1>5. CASE active
  <2>1. w \in Int /\ w >= 1 /\ w <= MAX_WINDOW_IN_MILLIS /\ limit.quota \in Nat \ {0}
        /\ MAX_WINDOW_IN_MILLIS \in Nat
    BY <1>5, LimitType, ConfigPositive
  <2>2. /\ limit \in Config
        /\ \A k \in Int : k <= w => Applied(granted, k) = Applied(histories, k)
        /\ Applied(histories, w) <= limit.quota
        /\ sending.slept => Applied(histories, w - sending.sleep) < limit.quota
    BY Zenon, <1>5 DEF Metered
  <2> DEFINE o == Older(histories)
             g == Within(Older(granted), w)
  <2> HIDE DEF w
  <2>3. \A k \in Int : k <= w => k - 1 \in Int /\ k - 1 <= w /\ k <= MAX_WINDOW_IN_MILLIS
    BY <2>1
  <2>4. \A k \in Int : k <= w => /\ Applied(Older(histories), k) = Applied(histories, k - 1)
                                /\ Applied(Older(granted), k) = Applied(granted, k - 1)
    BY ZenonT(30), <1>2, <2>3, AppliedOlder
  <2>5. g \in Seq(History) /\ \A k \in Int : k <= w => Applied(g, k) = Applied(Older(granted), k)
    BY Zenon, <1>3, <2>1, WithinIs
  <2> HIDE DEF g
  <2>6. \A k \in Int : k <= w => Applied(g, k) = Applied(o, k)
    BY Zenon, <2>2, <2>3, <2>4, <2>5
  <2>7. Applied(o, w) = Applied(histories, w - 1)
    BY <2>1, <2>4
  <2>8. Applied(histories, w - 1) <= Applied(histories, w) /\ Applied(histories, w - 1) \in Nat
        /\ Applied(histories, w) \in Nat
    <3>1. w - 1 \in Int /\ w - 1 <= w
      BY <2>1
    <3> QED
      BY Zenon, <1>2, <2>1, <3>1, AppliedGrows, AppliedSums
  <2> HIDE DEF o
  <2>9. Applied(o, w) <= limit.quota
    BY <2>1, <2>2, <2>7, <2>8
  <2>10. ASSUME sending.slept PROVE Applied(o, w - sending'.sleep) < limit.quota
    <3>1. sending.sleep \in Nat /\ sending'.sleep = IF sending.sleep > 0 THEN sending.sleep - 1 ELSE 0
      BY Zenon, <1>1 DEF Transmitting, Transmission
    <3>2. CASE sending.sleep > 0
      <4> DEFINE k == w - sending'.sleep
      <4>1. k \in Int /\ k <= w /\ k - 1 = w - sending.sleep
        BY <2>1, <3>1, <3>2
      <4> HIDE DEF k
      <4>2. Applied(o, k) = Applied(histories, w - sending.sleep)
        BY Zenon, <2>4, <4>1 DEF o
      <4> QED
        BY Zenon, <2>2, <2>10, <4>2 DEF k
    <3>3. CASE sending.sleep = 0
      <4>1. sending'.sleep = 0 /\ w - 0 = w
        BY <2>1, <3>1, <3>3
      <4>2. Applied(histories, w) < limit.quota
        BY Zenon, <2>2, <2>10, <3>3, <4>1
      <4>3. Applied(o, w) < limit.quota
        BY <2>1, <2>7, <2>8, <4>2
      <4> QED
        BY Zenon, <4>1, <4>3
    <3> QED
      BY <3>1, <3>2, <3>3
  <2>11. sending'.slept = sending.slept
    BY Zenon, <1>1 DEF Transmitting, Transmission
  <2> QED
    BY Zenon, <1>1, <1>3, <1>5, <2>2, <2>5, <2>6, <2>9, <2>10, <2>11 DEF Metered, o, g, w
<1> QED
  BY Zenon, <1>2, <1>4, <1>5

LEMMA TransmitIs ==
  ASSUME NEW what \in {"ack", "data"}, NEW len \in Nat \ {0}, Transmit(what, len)
  PROVE  /\ sending' \in Transmission /\ sending'.left > 0 /\ sending'.sleep = 0
         /\ sending'.slept = FALSE /\ task' = "apply"
<1>1. /\ sending' = [what |-> what, left |-> len, tries |-> 0, amount |-> 0, sleep |-> 0,
                      slept |-> FALSE]
      /\ task' = "apply"
  BY Zenon DEF Transmit, NotSending
<1>2. sending' \in Transmission
  BY Zenon, <1>1 DEF Transmission
<1>3. sending'.left = len /\ sending'.sleep = 0 /\ sending'.slept = FALSE
  BY Zenon, <1>1
<1> QED
  BY <1>1, <1>2, <1>3

LEMMA NotSendingIs ==
  NotSending \in Transmission /\ NotSending.sleep = 0 /\ NotSending.slept = FALSE
<1>1. NotSending \in Transmission
  BY Zenon DEF NotSending, Transmission
<1>2. NotSending.sleep = 0 /\ NotSending.slept = FALSE
  BY Zenon DEF NotSending
<1> QED
  BY Zenon, <1>1, <1>2

\* A transmission begins, a wait precedes it, or the node is done with.
Turns ==
  \/ /\ task' = "apply" /\ sending' \in Transmission /\ sending'.left > 0
     /\ sending'.sleep = 0 /\ sending'.slept = FALSE
     /\ sendNode' = sendNode
  \/ task' = "waitack" /\ sending' = NotSending /\ sendNode' = sendNode
  \/ task' = "dequeue" /\ sending' = NotSending

LEMMA TurnsTransmitting ==
  ASSUME Transmitting, task \in Busy, Turns
  PROVE  Transmitting' /\ sending'.slept = FALSE
BY Zenon, NotSendingIs DEF Turns, Transmitting, Busy

LEMMA LengthIs ==
  ASSUME Transmitting, task \in Busy
  PROVE  Length[sendNode] \in Nat \ {0}
BY Zenon, PostersTyped DEF Transmitting

LEMMA DataTurns ==
  ASSUME Transmitting, task \in Busy, NEW s, NEW waited, DataOrWait(s, waited), sendNode' = sendNode
  PROVE  Turns
<1>1. Length[sendNode] \in Nat \ {0}
  BY Zenon, LengthIs
<1>2. CASE WaitDue(s, waited)
  BY Zenon, <1>2 DEF DataOrWait, Turns
<1>3. CASE ~WaitDue(s, waited)
  <2>1. Transmit("data", Length[sendNode])
    BY Zenon, <1>3 DEF DataOrWait
  <2> QED
    BY Zenon, <1>1, <2>1, TransmitIs DEF Turns
<1> QED
  BY Zenon, <1>2, <1>3

LEMMA SentTurns ==
  ASSUME Transmitting, task \in Busy, NEW ok \in BOOLEAN, Sent(ok)
  PROVE  Turns
<1>1. CASE DataOrWait(sequence, waitSequence') /\ UNCHANGED <<sendNode, owed>>
  BY Zenon, <1>1, DataTurns
<1>2. CASE Finish
  BY Zenon, <1>2 DEF Finish, Turns
<1> QED
  BY Zenon, <1>1, <1>2 DEF Sent

LEMMA SendingTurns ==
  ASSUME Transmitting, NoConnection \/ Begin \/ WaitAck \/ WaitAckEnds
  PROVE  Turns \/ (task' = "ackwait" /\ UNCHANGED <<sending, sendNode>>)
<1>1. task \in Busy /\ task # "write"
  BY Zenon DEF NoConnection, Begin, WaitAck, WaitAckEnds, Busy
<1>2. Length[sendNode] \in Nat \ {0}
  BY Zenon, <1>1, LengthIs
<1>3. ASSUME Transmit("data", Length[sendNode]), sendNode' = sendNode PROVE Turns
  BY Zenon, <1>2, <1>3, TransmitIs DEF Turns
<1>4. CASE NoConnection
  BY Zenon, <1>4 DEF NoConnection, Finish, Turns
<1>5. CASE Begin
  <2>1. ASSUME Transmit("ack", AckLength), sendNode' = sendNode PROVE Turns
    <3>1. AckLength \in Nat \ {0}
      BY Zenon, PostersTyped
    <3> QED
      BY Zenon, <2>1, <3>1, TransmitIs DEF Turns
  <2>2. /\ sendNode' = sendNode
        /\ Transmit("ack", AckLength) \/ DataOrWait(sequence + 1, waitSequence)
    BY Zenon, <1>5 DEF Begin
  <2> QED
    BY Zenon, <1>1, <2>1, <2>2, DataTurns
<1>6. CASE WaitAck
  BY Zenon, <1>3, <1>6 DEF WaitAck
<1>7. CASE WaitAckEnds
  BY Zenon, <1>3, <1>7 DEF WaitAckEnds
<1> QED
  BY ZenonT(30), <1>4, <1>5, <1>6, <1>7

\* What the writes do.
LEMMA WriteTurns ==
  ASSUME Transmitting, WriteSome \/ WriteNothing \/ WriteBusy \/ WriteFails
  PROVE  Turns
<1>1. task = "write" /\ task \in Busy
  BY Zenon DEF WriteSome, WriteNothing, WriteBusy, WriteFails, Busy
<1>2. /\ sending \in Transmission /\ sending.left > 0 /\ sending.amount <= sending.left
      /\ sending.sleep = 0 /\ sending.slept = FALSE
  BY Zenon, <1>1 DEF Transmitting, Transmission
<1>3. \A ok \in BOOLEAN : Sent(ok) => Turns
  BY Zenon, <1>1, SentTurns
<1>4. CASE WriteSome
  <2>1. PICK n \in 1 .. sending.amount :
          \/ Sent(TRUE)
          \/ /\ n # sending.left /\ sending' = [sending EXCEPT !.left = @ - n, !.tries = 0]
             /\ task' = "apply" /\ sendNode' = sendNode
    BY Zenon, <1>4 DEF WriteSome
  <2>2. CASE Sent(TRUE)
    BY Zenon, <1>3, <2>2
  <2>3. CASE ~Sent(TRUE)
    <3>1. /\ n # sending.left /\ sending' = [sending EXCEPT !.left = @ - n, !.tries = 0]
          /\ task' = "apply" /\ sendNode' = sendNode
      BY Zenon, <2>1, <2>3
    <3>2. sending.left - n \in Nat /\ sending.left - n > 0
      BY <1>2, <3>1 DEF Transmission
    <3>3. sending' \in Transmission
      BY Zenon, <1>2, <3>1, <3>2 DEF Transmission
    <3>4. sending'.left = sending.left - n /\ sending'.sleep = 0 /\ sending'.slept = sending.slept
      BY Zenon, <1>2, <3>1 DEF Transmission
    <3> QED
      BY Zenon, <1>2, <3>1, <3>2, <3>3, <3>4 DEF Turns
  <2> QED
    BY Zenon, <2>2, <2>3
<1>5. CASE WriteBusy
  <2>1. \/ Sent(FALSE)
        \/ /\ sending' = [sending EXCEPT !.tries = @ + 1]
           /\ task' = "apply" /\ sendNode' = sendNode
    BY Zenon, <1>5 DEF WriteBusy
  <2>2. CASE Sent(FALSE)
    BY Zenon, <1>3, <2>2
  <2>3. CASE ~Sent(FALSE)
    <3>1. /\ sending' = [sending EXCEPT !.tries = @ + 1]
          /\ task' = "apply" /\ sendNode' = sendNode
      BY Zenon, <2>1, <2>3
    <3>2. sending' \in Transmission
      BY <1>2, <3>1 DEF Transmission
    <3>3. sending'.left = sending.left /\ sending'.sleep = 0 /\ sending'.slept = sending.slept
      BY Zenon, <1>2, <3>1 DEF Transmission
    <3> QED
      BY Zenon, <1>2, <3>1, <3>2, <3>3 DEF Turns
  <2> QED
    BY Zenon, <2>2, <2>3
<1>6. CASE WriteFails
  BY Zenon, <1>3, <1>6 DEF WriteFails
<1>7. CASE WriteNothing
  <2>1. /\ sending' = [sending EXCEPT !.tries = 0]
        /\ task' = "apply" /\ sendNode' = sendNode
    BY Zenon, <1>7 DEF WriteNothing
  <2>2. sending' \in Transmission
    BY <1>2, <2>1 DEF Transmission
  <2>3. sending'.left = sending.left /\ sending'.sleep = 0 /\ sending'.slept = sending.slept
    BY Zenon, <1>2, <2>1 DEF Transmission
  <2> QED
    BY Zenon, <1>2, <2>1, <2>2, <2>3 DEF Turns
<1> QED
  BY ZenonT(30), <1>4, <1>5, <1>6, <1>7

\* The node that is taken from a queue is that of a poster.
LEMMA TakenIs ==
  ASSUME QueuesTyped, DequeueInnerFirst \/ DequeueList \/ DequeueInnerLast
  PROVE  sendNode' \in Poster /\ task' = "got" /\ UNCHANGED sending
<1>1. \A lane \in Seq(Poster) : lane # <<>> => Head(lane) \in Poster
  OBVIOUS
<1>2. \A lanes \in Lanes : \A q \in Priority : lanes[q] \in Seq(Poster)
  BY Zenon DEF Lanes
<1>3. innerQueue \in Lanes
  BY Zenon DEF QueuesTyped
<1>4. CASE DequeueInnerFirst
  <2>1. MIDDLE \in Priority /\ 1 .. MIDDLE \subseteq Priority
    BY DEF MIDDLE, Priority
  <2>2. Found(innerQueue, MIDDLE) # 0 /\ sendNode' = Head(innerQueue[Found(innerQueue, MIDDLE)])
    BY Zenon, <1>4 DEF DequeueInnerFirst, TakeInner
  <2>3. Found(innerQueue, MIDDLE) \in Priority /\ innerQueue[Found(innerQueue, MIDDLE)] # <<>>
    BY Zenon, <1>3, <2>1, <2>2, FoundIs
  <2>4. sendNode' \in Poster
    BY ZenonT(30), <1>1, <1>2, <1>3, <2>2, <2>3
  <2> QED
    BY Zenon, <1>4, <2>4 DEF DequeueInnerFirst
<1>5. CASE DequeueList
  <2>1. /\ FirstUsed # 0
        /\ sendNode' = Head(brQueueList[FirstUsed].queue[Found(brQueueList[FirstUsed].queue, LOW)])
    BY Zenon, <1>5 DEF DequeueList
  <2>2. /\ FirstUsed \in DOMAIN brQueueList
        /\ Found(brQueueList[FirstUsed].queue, LOW) \in Priority
        /\ brQueueList[FirstUsed].queue[Found(brQueueList[FirstUsed].queue, LOW)] # <<>>
    BY Zenon, <2>1, FirstUsedIs
  <2>3. brQueueList[FirstUsed].queue \in Lanes
    BY Zenon, <2>2, QueuesFields
  <2>4. sendNode' \in Poster
    BY ZenonT(30), <1>1, <1>2, <2>1, <2>2, <2>3
  <2> QED
    BY ZenonT(30), <1>5, <2>4 DEF DequeueList
<1>6. CASE DequeueInnerLast
  <2>1. /\ Found(innerQueue, MIDDLE) = 0 /\ Found(innerQueue, LOW) # 0
        /\ sendNode' = Head(innerQueue[LOW])
    BY Zenon, <1>6 DEF DequeueInnerLast, TakeInner
  <2>2. MIDDLE \in Priority /\ LOW \in Priority /\ \A q \in 1 .. LOW : q = LOW \/ q \in 1 .. MIDDLE
    BY DEF MIDDLE, LOW, Priority
  <2>3. innerQueue[LOW] # <<>>
    BY Zenon, <1>3, <2>1, <2>2, FoundIs
  <2>4. sendNode' \in Poster
    BY Zenon, <1>1, <1>2, <1>3, <2>1, <2>2, <2>3
  <2> QED
    BY ZenonT(30), <1>6, <2>4 DEF DequeueInnerLast
<1> QED
  BY Zenon, <1>4, <1>5, <1>6

\* The steps that neither send nor pass time.
LEMMA OtherSteps ==
  ASSUME \/ \E p \in Poster : Post(p) \/ PostStartFails(p) \/ PosterStep(p)
         \/ DequeueInnerFirst \/ DequeueList \/ DequeueInnerLast \/ DequeueWaits
         \/ DequeueTimesOut \/ IdleCheck \/ ClearPosted
         \/ Elsewhere /\ ~Tick /\ ~ConfigPostLimit,
         sendTaskRunning = (task # "off"), QueuesTyped
  PROVE  /\ UNCHANGED <<flow, sending>>
         /\ \/ UNCHANGED <<task, sendNode>>
            \/ task \notin Busy /\ task' \notin Busy
            \/ task \notin Busy /\ task' = "got" /\ sendNode' \in Poster
            \/ task = "got" /\ task' = "begin" /\ sendNode' = sendNode
<1> DEFINE Fact == /\ UNCHANGED <<flow, sending>>
                   /\ \/ UNCHANGED <<task, sendNode>>
                      \/ task \notin Busy /\ task' \notin Busy
                      \/ task \notin Busy /\ task' = "got" /\ sendNode' \in Poster
                      \/ task = "got" /\ task' = "begin" /\ sendNode' = sendNode
<1>1. ASSUME NEW p \in Poster, Post(p) \/ PostStartFails(p) PROVE Fact
  <2>1. UNCHANGED <<flow, sending, sendNode>> /\ (task' = task \/ (~sendTaskRunning /\ task' = "dequeue"))
    BY Zenon, <1>1 DEF Post, PostStartFails
  <2> QED
    BY Zenon, <2>1 DEF Busy
<1>2. ASSUME NEW p \in Poster, PosterStep(p) PROVE Fact
  <2>1. UNCHANGED <<flow, sending, sendNode>> /\ (task' = task \/ (task = "wait" /\ task' = "woken"))
    <3>1. CASE EnqueueInner(p)
      BY Zenon, <3>1 DEF EnqueueInner, Entered, Wake
    <3>2. CASE EnqueueNew(p)
      BY Zenon, <3>2 DEF EnqueueNew, Entered, Wake
    <3>3. CASE EnqueueFound(p)
      BY Zenon, <3>3 DEF EnqueueFound, Entered, Wake
    <3>4. CASE WaitForRoom(p) \/ WaitForRoomTimesOut(p)
      BY Zenon, <3>4 DEF WaitForRoom, WaitForRoomTimesOut
    <3> QED
      BY Zenon, <1>2, <3>1, <3>2, <3>3, <3>4 DEF PosterStep
  <2> QED
    BY Zenon, <2>1 DEF Busy
<1>3. CASE DequeueInnerFirst \/ DequeueList \/ DequeueInnerLast
  <2>1. task \notin Busy /\ UNCHANGED flow
    BY ZenonT(30), <1>3 DEF DequeueInnerFirst, DequeueList, DequeueInnerLast, Busy
  <2> QED
    BY Zenon, <1>3, <2>1, TakenIs
<1>4. CASE DequeueWaits \/ DequeueTimesOut \/ IdleCheck \/ ClearPosted
  BY Zenon, <1>4 DEF DequeueWaits, DequeueTimesOut, IdleCheck, Leave, ClearPosted, Busy
<1>5. CASE Elsewhere /\ ~Tick /\ ~ConfigPostLimit
  <2>1. UNCHANGED <<flow, sending, task, sendNode>>
    <3>1. CASE \E s \in 1 .. sequence : AckArrives(s)
      BY ZenonT(30), <3>1 DEF AckArrives
    <3>2. CASE ReadFails \/ CloseSocket \/ DisConnect \/ RemoveConnection
      BY Zenon, <3>2 DEF ReadFails, CloseSocket, DisConnect, RemoveConnection
    <3>3. CASE UNCHANGED vars
      BY Zenon, <3>3 DEF vars
    <3> QED
      BY Zenon, <1>5, <3>1, <3>2, <3>3 DEF Elsewhere
  <2> QED
    BY Zenon, <2>1
<1> QED
  BY Zenon, <1>1, <1>2, <1>3, <1>4, <1>5

\* Apply grants no more than is left, or sleeps until the oldest expires.
LEMMA ApplyStep ==
  ASSUME Transmitting, Metered, Apply
  PROVE  Transmitting' /\ Metered'
<1> DEFINE expect == IF sending.left > Mtu THEN Mtu ELSE sending.left
<1>1. /\ task = "apply" /\ sending \in Transmission /\ sendNode \in Poster /\ sending.left > 0
      /\ sending.sleep = 0 /\ sendNode' = sendNode
  BY Zenon DEF Apply, Transmitting, Busy
<1>2. Mtu \in Nat \ {0}
  BY Zenon, PostersTyped
<1>3. expect \in Nat \ {0} /\ expect <= sending.left
  BY <1>1, <1>2 DEF Transmission
<1>4. \/ /\ ApplyGrants(expect) /\ task' = "write"
         /\ sending' = [sending EXCEPT !.amount = Grant(expect), !.slept = FALSE]
      \/ /\ ApplySleeps /\ task' = "sleep"
         /\ sending' = [sending EXCEPT !.sleep = SleepTime, !.slept = TRUE]
  BY Zenon DEF Apply
<1> HIDE DEF expect
<1>5. CASE /\ ApplyGrants(expect) /\ task' = "write"
           /\ sending' = [sending EXCEPT !.amount = Grant(expect), !.slept = FALSE]
  <2>1. Grant(expect) \in Nat \ {0} /\ Grant(expect) <= expect
    <3>1. ~MustSleep
      BY Zenon, <1>5 DEF ApplyGrants
    <3> QED
      BY Zenon, <1>3, <3>1, GrantIs
  <2>2. /\ sending' \in Transmission
        /\ sending'.left = sending.left /\ sending'.amount = Grant(expect) /\ sending'.sleep = sending.sleep
    BY Zenon, <1>1, <1>5, <2>1 DEF Transmission
  <2>3. sending'.slept = FALSE
    BY Zenon, <1>1, <1>5 DEF Transmission
  <2>4. sending.left \in Nat /\ Grant(expect) <= sending.left
    BY <1>1, <1>3, <2>1 DEF Transmission
  <2>5. Metered'
    BY Zenon, <1>3, <1>5, <2>3, GrantMetered
  <2> QED
    BY Zenon, <1>1, <1>5, <2>2, <2>3, <2>4, <2>5 DEF Transmitting
<1>6. CASE /\ ApplySleeps /\ task' = "sleep"
           /\ sending' = [sending EXCEPT !.sleep = SleepTime, !.slept = TRUE]
  <2>1. sending'.slept = TRUE /\ sending'.sleep = SleepTime /\ sending'.left = sending.left
    BY Zenon, <1>1, <1>6 DEF Transmission
  <2>2. Metered' /\ SleepTime \in Nat
    BY Zenon, <1>6, <2>1, SleepMetered
  <2>3. sending' \in Transmission
    BY Zenon, <1>1, <1>6, <2>2 DEF Transmission
  <2> QED
    BY Zenon, <1>1, <1>6, <2>1, <2>2, <2>3 DEF Transmitting
<1> QED
  BY Zenon, <1>4, <1>5, <1>6

\* Every step keeps both.
LEMMA MeteredStep ==
  ASSUME QueuesTyped, Announced, Transmitting, Metered, [Next]_vars
  PROVE  Transmitting' /\ Metered'
<1>1. CASE \/ \E p \in Poster : Post(p) \/ PostStartFails(p) \/ PosterStep(p)
           \/ DequeueInnerFirst \/ DequeueList \/ DequeueInnerLast \/ DequeueWaits
           \/ DequeueTimesOut \/ IdleCheck \/ ClearPosted
           \/ Elsewhere /\ ~Tick /\ ~ConfigPostLimit
  <2>1. sendTaskRunning = (task # "off")
    BY Zenon DEF Announced
  <2>2. /\ UNCHANGED <<flow, sending>>
        /\ \/ UNCHANGED <<task, sendNode>>
           \/ task \notin Busy /\ task' \notin Busy
           \/ task \notin Busy /\ task' = "got" /\ sendNode' \in Poster
           \/ task = "got" /\ task' = "begin" /\ sendNode' = sendNode
    BY Zenon, <1>1, <2>1, OtherSteps
  <2>3. Metered'
    BY Zenon, <2>2, MeteredFrame
  <2>4. Transmitting'
    BY Zenon, <2>2 DEF Transmitting, Busy
  <2> QED
    BY Zenon, <2>3, <2>4
<1>2. CASE NoConnection \/ Begin \/ WaitAck \/ WaitAckEnds
  <2>1. task \in Busy \ {"sleep", "apply"} /\ UNCHANGED flow
    BY Zenon, <1>2 DEF NoConnection, Begin, WaitAck, WaitAckEnds, Busy
  <2>2. Turns \/ (task' = "ackwait" /\ UNCHANGED <<sending, sendNode>>)
    BY Zenon, <1>2, SendingTurns
  <2>3. Transmitting' /\ sending'.slept = FALSE
    <3>1. CASE Turns
      BY Zenon, <2>1, <3>1, TurnsTransmitting
    <3>2. CASE task' = "ackwait" /\ UNCHANGED <<sending, sendNode>>
      <4>1. sending.slept = FALSE
        BY Zenon, <2>1 DEF Transmitting, Transmission
      <4> QED
        BY Zenon, <2>1, <3>2, <4>1 DEF Transmitting, Busy
    <3> QED
      BY Zenon, <2>2, <3>1, <3>2
  <2> QED
    BY ZenonT(30), <2>1, <2>3, MeteredFrame
<1>3. CASE WriteSome \/ WriteNothing \/ WriteBusy \/ WriteFails
  <2>1. task \in Busy /\ UNCHANGED flow
    BY Zenon, <1>3 DEF WriteSome, WriteNothing, WriteBusy, WriteFails, Busy
  <2>2. Transmitting' /\ sending'.slept = FALSE
    BY Zenon, <1>3, <2>1, WriteTurns, TurnsTransmitting
  <2> QED
    BY ZenonT(30), <2>1, <2>2, MeteredFrame
<1>4. CASE Apply
  BY Zenon, <1>4, ApplyStep
<1>5. CASE SleepEnds
  <2>1. task = "sleep" /\ sending.sleep = 0 /\ task' = "apply" /\ UNCHANGED <<flow, sending, sendNode>>
    BY Zenon, <1>5 DEF SleepEnds
  <2>2. Transmitting'
    BY Zenon, <2>1 DEF Transmitting, Busy
  <2> QED
    BY Zenon, <2>1, <2>2, MeteredFrame
<1>6. CASE ConfigPostLimit
  <2>1. UNCHANGED <<task, sendNode, sending>>
    BY Zenon, <1>6 DEF ConfigPostLimit
  <2>2. Transmitting'
    BY Zenon, <2>1 DEF Transmitting
  <2> QED
    BY Zenon, <1>6, <2>2, ConfigMetered
<1>7. CASE Tick
  <2>1. UNCHANGED <<task, sendNode>> /\ sending' = [sending EXCEPT !.sleep = IF @ > 0 THEN @ - 1 ELSE 0]
    BY Zenon, <1>7 DEF Tick
  <2>2. sending \in Transmission
    BY Zenon DEF Transmitting
  <2>3. /\ sending' \in Transmission
        /\ sending'.left = sending.left /\ sending'.amount = sending.amount
        /\ sending'.slept = sending.slept
        /\ sending.sleep = 0 => sending'.sleep = 0
    BY <2>1, <2>2 DEF Transmission
  <2>4. Transmitting'
    BY Zenon, <2>1, <2>3 DEF Transmitting
  <2> QED
    BY Zenon, <1>7, <2>4, TickMetered
<1> QED
  BY Zenon, <1>1, <1>2, <1>3, <1>4, <1>5, <1>6, <1>7, Kinds DEF Sending

-----------------------------------------------------------------------------
(***************************************************************************)
(* The theorems.                                                           *)
(***************************************************************************)
LEMMA InitInv == Init => IInv
<1> SUFFICES ASSUME Init PROVE IInv
  BY Zenon
<1> USE DEF Init
<1>1. QueuesTyped
  <2>1. <<>> \in Seq(Poster) /\ <<>> \in Seq(BrQueue)
    OBVIOUS
  <2>2. innerQueue \in Lanes
    BY ZenonT(30), <2>1 DEF EmptyQueue, Lanes
  <2> QED
    BY <2>1, <2>2 DEF QueuesTyped
<1>2. SleepersKept
  BY Zenon DEF SleepersKept
<1>3. Announced
  <2>1. \A q \in Priority : innerQueue[q] = <<>>
    BY Zenon DEF EmptyQueue
  <2>2. QueuesEmpty
    BY Zenon, <1>1, <2>1, QueuesEmptyIs
  <2> QED
    BY Zenon, <2>1, <2>2 DEF Announced
<1>4. PacketsCounted
  BY Zenon DEF PacketsCounted, AckInit
<1>5. Transmitting
  BY Zenon, NotSendingIs DEF Transmitting, Busy
<1>6. Metered
  <2>1. <<>> \in Seq(History)
    OBVIOUS
  <2>2. limit \in Config
    BY Zenon, ConfigPositive DEF FlowInit
  <2> QED
    BY Zenon, <2>1, <2>2 DEF Metered, FlowInit
<1> QED
  BY Zenon, <1>1, <1>2, <1>3, <1>4, <1>5, <1>6 DEF IInv

LEMMA InvStep == IInv /\ [Next]_vars => IInv'
BY Zenon, QueuesTypedStep, SleepersStep, AnnouncedStep, PacketsStep, MeteredStep DEF IInv

\* IInv is an invariant of the send path.
THEOREM Invariance == Spec => []IInv
<1> QED
  BY InitInv, InvStep, PTL DEF Spec

\* A poster that sleeps in WaitQueueLength sleeps on a queue that exists and is
\* full: ConnBrDequeueBlock never takes the last node of a full queue, nor frees
\* a queue, without having told those who wait for room.
THEOREM SleepersHaveFullQueues == Spec => []SleeperHasFullQueue
<1>1. IInv => SleeperHasFullQueue
  <2> SUFFICES ASSUME IInv, NEW p \in Poster, poster[p] = "waiting"
               PROVE  (IsInner(p) \/ HasQueue(p)) /\ Full(Lane(p))
    BY Zenon DEF SleeperHasFullQueue
  <2>1. QueuesTyped /\ SleepersKept
    BY Zenon DEF IInv
  <2>2. CASE IsInner(p)
    BY Zenon, <2>1, <2>2 DEF SleepersKept, Lane
  <2>3. CASE ~IsInner(p)
    <3>1. PICK i \in DOMAIN brQueueList :
            brQueueList[i].pid = Pid[p] /\ Full(brQueueList[i].queue[Level[p]])
      BY ZenonT(30), <2>1, <2>3 DEF SleepersKept
    <3> QED
      BY Zenon, <2>1, <2>3, <3>1, LaneIs
  <2> QED
    BY Zenon, <2>2, <2>3
<1> QED
  BY <1>1, Invariance, PTL

\* No node is forgotten: SendHandlerLoop sleeps, and leaves, only when there is
\* nothing to send, unless a poster stayed between its two locks for the ten
\* minutes of its wait.
THEOREM NodesHaveTask == Spec => []NodeHasTask
<1>1. IInv => NodeHasTask
  <2> SUFFICES ASSUME IInv, task = "wait" \/ (task = "off" /\ ~stalled) PROVE QueuesEmpty
    BY Zenon DEF NodeHasTask
  <2> QED
    BY Zenon, QueuesEmptyIs DEF IInv, Announced
<1> QED
  BY <1>1, Invariance, PTL

\* A pending packet is there as long as WaitAck waits for it, whoever deletes it
\* meanwhile, and is gone with the reader unless it was requested later.
THEOREM PacketsLive == Spec => []PacketLifetime
<1>1. IInv => PacketLifetime
  BY Zenon DEF IInv, PacketsCounted, PacketLifetime, Packet
<1> QED
  BY <1>1, Invariance, PTL

\* Whatever the limits are changed to and whenever, what Apply has granted since
\* then within any window of the configured length is within the quota.
THEOREM QuotaNeverExceeded == Spec => []QuotaKept
<1>1. IInv => QuotaKept
  <2> SUFFICES ASSUME IInv, active PROVE Applied(granted, limit.window) <= limit.quota
    BY Zenon DEF QuotaKept
  <2>1. limit.window \in Int /\ limit.window <= limit.window
    BY LimitType DEF IInv
  <2> QED
    BY Zenon, <2>1 DEF IInv, Metered
<1> QED
  BY <1>1, Invariance, PTL

\* Apply sleeps as long as the oldest history has left in the window: when it
\* wakes up, the quota is not used up, even if the limits have changed meanwhile.
THEOREM SleepIsLongEnough == Spec => []SleepsOnce
<1>1. IInv => SleepsOnce
  <2> SUFFICES ASSUME IInv, task = "apply", sending.slept, active
               PROVE  ~(limit.quota <= Applied(histories, limit.window))
    BY Zenon DEF SleepsOnce, MustSleep
  <2>1. Transmitting /\ Metered
    BY Zenon DEF IInv
  <2>2. sending.sleep = 0 /\ limit.window \in Int /\ limit.quota \in Nat
    BY <2>1, LimitType DEF Transmitting
  <2>3. limit.window - sending.sleep = limit.window
    BY <2>2
  <2>4. Applied(histories, limit.window) < limit.quota
    BY Zenon, <2>1, <2>3 DEF Metered
  <2>5. Applied(histories, limit.window) \in Nat
    BY Zenon, <2>1, <2>2, AppliedSums DEF Metered
  <2> QED
    BY <2>2, <2>4, <2>5
<1> QED
  BY <1>1, Invariance, PTL
=============================================================================
