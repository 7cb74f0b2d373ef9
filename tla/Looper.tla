-------------------------------- MODULE Looper ------------------------------
(***************************************************************************)
(* The message loops, core/common/message_handler/message_handler.c:       *)
(* LooperInit creates the loopers of g_loopConfig, each with a thread that *)
(* runs LoopTask; messages are posted at a time and removed;               *)
(* LooperDeinit destroys the loopers, or leaves a note to the first thread *)
(* that starts when none has started yet.                                  *)
(*                                                                         *)
(* What is done under the lock of a looper is one step.  A wait on a       *)
(* condition is a state of its own; it ends by a broadcast, at its         *)
(* deadline or for no reason.  A step that would follow the pointer to a   *)
(* context or to a looper that has been freed is not taken: the program is *)
(* then in a state where Dangling holds, and the model stops there.        *)
(***************************************************************************)
EXTENDS Integers, Sequences, FiniteSetsExt, Functions

CONSTANTS
  Loops,    \* the entries of g_loopConfig that LooperInit fills, in order
  Message,  \* messages; a thread of its own posts each of them
  Home,     \* Home[m]: the looper m is posted to
  What,     \* What[m]: the handler and the code that a removal compares
  Delay,    \* the delays of a post, in ticks
  MaxTime   \* bound: the clock stops there

Loop == Range(Loops)
Due == 0..(MaxTime + 1)
Destroyer == Loop \cup {"app"}
MAX_LOOPER_CNT == 30
Code(l) == {What[m] : m \in {n \in Message : Home[n] = l}}

ASSUME LooperConstants ==
  /\ Loops \in Seq(Loop) /\ Loops # <<>>
  /\ \A i, j \in DOMAIN Loops : Loops[i] = Loops[j] => i = j
  /\ Home \in [Message -> Loop]
  /\ Delay \subseteq Nat /\ MaxTime \in Nat
  /\ "app" \notin Loop

VARIABLES
  now,          \* UptimeMicros, in ticks
  creating,     \* LooperInit: the entry it creates next
  context,      \* context[l]: "none", "live", "null" (freed), "freed" (l too)
  config,       \* the loopers in g_loopConfig
  looperCnt,    \* g_looperCnt
  started,      \* g_isThreadStarted
  needDestroy,  \* g_isNeedDestroy
  stop,         \* stop[l]
  running,      \* running[l]
  list,         \* list[l]: msgHead, messages with their times
  current,      \* current[l]: currentMsg (a set of at most one)
  thread,       \* thread[l]: where LoopTask is
  deadline,     \* deadline[l]: when a timed wait of LoopTask ends
  post,         \* post[m]: where the thread that posts m is
  time,         \* time[m]: the time of m
  removing,     \* removing[l]: the codes of the removals that have begun on l
  destroy,      \* destroy[d]: where d is in LooperDeinit
  at,           \* at[d]: the entry of g_loopConfig d is at
  freed,        \* freed[m]: how often m has been freed
  posted,       \* ghost, posted[l]: the messages l has accepted, in order
  quiet,        \* ghost, quiet[l]: the codes removed and not posted since
  early,        \* ghost: LooperDeinit ran on two loopers, one not started
  overlap       \* ghost: a context was freed under a post or a removal

threads == <<stop, running, list, current, thread, deadline>>
globals == <<creating, config, looperCnt, started, needDestroy, context>>
posts == <<post, time, removing>>
deinit == <<destroy, at>>
vars == <<now, globals, threads, posts, deinit, freed, posted, quiet, early,
          overlap>>

TypeOK ==
  /\ now \in 0..MaxTime
  /\ creating \in 1..(Len(Loops) + 1)
  /\ context \in [Loop -> {"none", "live", "null", "freed"}]
  /\ config \subseteq Loop
  /\ looperCnt \in 0..MAX_LOOPER_CNT
  /\ {started, needDestroy, early, overlap} \subseteq BOOLEAN
  /\ stop \in [Loop -> BOOLEAN] /\ running \in [Loop -> BOOLEAN]
  /\ \A l \in Loop : Range(list[l]) \subseteq Message
  /\ \A l \in Loop : current[l] \subseteq Message /\ Cardinality(current[l]) <= 1
  /\ thread \in [Loop -> {"none", "start", "loop", "wait", "sleep", "handle",
                           "exit", "over"}]
  /\ deadline \in [Loop -> Due]
  /\ post \in [Message -> {"none", "verify", "insert", "done"}]
  /\ time \in [Message -> Due]
  /\ \A l \in Loop : removing[l] \subseteq Code(l)
  /\ destroy \in [Destroyer -> {"idle", "scan", "stop", "wait", "asleep", "free",
                                 "release", "done"}]
  /\ at \in [Destroyer -> 1..(Len(Loops) + 1)]
  /\ freed \in [Message -> 0..2]
  /\ \A l \in Loop : quiet[l] \subseteq Code(l)

Init ==
  /\ now = 0
  /\ creating = 1
  /\ context = [l \in Loop |-> "none"]
  /\ config = {}
  /\ looperCnt = 0
  /\ started = FALSE
  /\ needDestroy = FALSE
  /\ stop = [l \in Loop |-> FALSE]
  /\ running = [l \in Loop |-> FALSE]
  /\ list = [l \in Loop |-> <<>>]
  /\ current = [l \in Loop |-> {}]
  /\ thread = [l \in Loop |-> "none"]
  /\ deadline = [l \in Loop |-> 0]
  /\ post = [m \in Message |-> "none"]
  /\ time = [m \in Message |-> 0]
  /\ removing = [l \in Loop |-> {}]
  /\ destroy = [d \in Destroyer |-> "idle"]
  /\ at = [d \in Destroyer |-> 1]
  /\ freed = [m \in Message |-> 0]
  /\ posted = [l \in Loop |-> <<>>]
  /\ quiet = [l \in Loop |-> {}]
  /\ early = FALSE
  /\ overlap = FALSE

-----------------------------------------------------------------------------
(* The loopers *)

\* LooperInit with CreateNewLooper and SetLooper: the next looper is created
CreateNewLooper ==
  /\ creating <= Len(Loops)
  /\ looperCnt < MAX_LOOPER_CNT
  /\ LET l == Loops[creating] IN
       /\ context' = [context EXCEPT ![l] = "live"]
       /\ thread' = [thread EXCEPT ![l] = "start"]
       /\ config' = config \cup {l}
  /\ looperCnt' = looperCnt + 1
  /\ creating' = creating + 1
  /\ UNCHANGED <<now, started, needDestroy, stop, running, list, current,
                 deadline, posts, deinit, freed, posted, quiet, early, overlap>>

\* LooperInit: a thread cannot be created, the rest is not created either
CreateFails ==
  /\ creating <= Len(Loops)
  /\ creating' = Len(Loops) + 1
  /\ UNCHANGED <<now, context, config, looperCnt, started, needDestroy, threads,
                 posts, deinit, freed, posted, quiet, early, overlap>>

\* the start of LoopTask; it returns at once when it finds no context
LoopStart(l) ==
  /\ thread[l] = "start"
  /\ \/ /\ context[l] = "live"
        /\ running' = [running EXCEPT ![l] = TRUE]
        /\ started' = TRUE
        /\ thread' = [thread EXCEPT ![l] = "loop"]
     \/ /\ context[l] = "null"
        /\ thread' = [thread EXCEPT ![l] = "over"]
        /\ UNCHANGED <<running, started>>
  /\ UNCHANGED <<now, creating, context, config, looperCnt, needDestroy, stop,
                 list, current, deadline, posts, deinit, freed, posted, quiet,
                 early, overlap>>

\* LoopTask leaves its loop
LoopBreak(l) ==
  /\ thread[l] = "loop"
  /\ stop[l] \/ needDestroy
  /\ thread' = [thread EXCEPT ![l] = "exit"]
  /\ UNCHANGED <<now, globals, stop, running, list, current, deadline, posts,
                 deinit, freed, posted, quiet, early, overlap>>

\* LoopTask waits for a message, or until the first one is due
LoopWait(l) ==
  /\ thread[l] = "loop"
  /\ ~stop[l] /\ ~needDestroy
  /\ \/ /\ list[l] = <<>>
        /\ thread' = [thread EXCEPT ![l] = "wait"]
        /\ UNCHANGED deadline
     \/ /\ list[l] # <<>>
        /\ now < time[Head(list[l])]
        /\ thread' = [thread EXCEPT ![l] = "sleep"]
        /\ deadline' = [deadline EXCEPT ![l] = time[Head(list[l])]]
  /\ UNCHANGED <<now, globals, stop, running, list, current, posts, deinit,
                 freed, posted, quiet, early, overlap>>

\* a wait of LoopTask is over
Awake(l) ==
  /\ thread' = [thread EXCEPT ![l] = "loop"]
  /\ deadline' = [deadline EXCEPT ![l] = 0]

\* the timed wait of LoopTask ends
LoopTimeout(l) ==
  /\ thread[l] = "sleep"
  /\ now >= deadline[l]
  /\ Awake(l)
  /\ UNCHANGED <<now, globals, stop, running, list, current, posts, deinit,
                 freed, posted, quiet, early, overlap>>

\* a wait of LoopTask ends without a broadcast
LoopSpuriousWakeup(l) ==
  /\ thread[l] \in {"wait", "sleep"}
  /\ Awake(l)
  /\ UNCHANGED <<now, globals, stop, running, list, current, posts, deinit,
                 freed, posted, quiet, early, overlap>>

\* FreeSoftBusMsg on each of a set of messages
Free(set) ==
  freed' = [m \in Message |-> IF m \in set THEN freed[m] + 1 ELSE freed[m]]

\* LoopTask takes the first message, which is due, and posts its handler
LoopTake(l) ==
  /\ thread[l] = "loop"
  /\ ~stop[l] /\ ~needDestroy
  /\ list[l] # <<>>
  /\ now >= time[Head(list[l])]
  /\ list' = [list EXCEPT ![l] = Tail(@)]
  /\ current' = [current EXCEPT ![l] = {Head(list[l])}]
  /\ thread' = [thread EXCEPT ![l] = "handle"]
  /\ UNCHANGED <<now, globals, stop, running, deadline, posts, deinit, freed,
                 posted, quiet, early, overlap>>

\* the handler has returned: LoopTask frees the message
LoopHandled(l) ==
  /\ thread[l] = "handle"
  /\ Free(current[l])
  /\ current' = [current EXCEPT ![l] = {}]
  /\ thread' = [thread EXCEPT ![l] = "loop"]
  /\ UNCHANGED <<now, globals, stop, running, list, deadline, posts, deinit,
                 posted, quiet, early, overlap>>

\* Mutant: the end is not announced.
AnnounceNothing(l, d) == destroy[d]
\* the broadcast on condRunning, for destroyer d
Announce(l, d) ==
  IF destroy[d] = "asleep" /\ Loops[at[d]] = l THEN "wait" ELSE destroy[d]

\* the end of LoopTask, which posts LooperDeinit when that has been left to it
LoopExit(l) ==
  /\ thread[l] = "exit"
  /\ running' = [running EXCEPT ![l] = FALSE]
  /\ thread' = [thread EXCEPT ![l] = "over"]
  /\ destroy' = [d \in Destroyer |->
       IF d = l /\ needDestroy THEN "scan" ELSE Announce(l, d)]
  /\ UNCHANGED <<now, globals, stop, list, current, deadline, posts, at, freed,
                 posted, quiet, early, overlap>>

-----------------------------------------------------------------------------
(* Posting and removing *)

\* Mutant: no broadcast.
BroadcastMissing(l) == UNCHANGED <<thread, deadline>>
\* SoftBusCondBroadcast on the condition LoopTask waits on
Broadcast(l) ==
  IF thread[l] \in {"wait", "sleep"} THEN Awake(l) ELSE UNCHANGED <<thread, deadline>>

\* the list with m at one of its positions, or at the end
InsertAt(s, later, m) ==
  LET k == IF later = {} THEN Len(s) + 1 ELSE Min(later)
  IN  [i \in 1..(Len(s) + 1) |-> IF i < k THEN s[i] ELSE IF i = k THEN m ELSE s[i - 1]]

\* Mutant: before the first message that is not earlier.
InsertBeforeEqual(s, m) == InsertAt(s, {i \in DOMAIN s : time[s[i]] >= time[m]}, m)
\* the list with m before the first message that has a later time
InsertByTime(s, m) == InsertAt(s, {i \in DOMAIN s : time[s[i]] > time[m]}, m)

\* the time of a message that is posted with a delay
TimeOf(d) == now + d

\* LooperPostMessage, LooperPostMessageDelay: the message gets its time
PostMessage(m) ==
  /\ post[m] = "none"
  /\ Home[m] \in config
  /\ \E d \in Delay : now + d <= MaxTime /\ time' = [time EXCEPT ![m] = TimeOf(d)]
  /\ post' = [post EXCEPT ![m] = "verify"]
  /\ overlap' = (overlap \/ context[Home[m]] # "live")
  /\ UNCHANGED <<now, globals, threads, removing, deinit, freed, posted, quiet,
                 early>>

\* PostMessageAtTimeParamVerify; without a context the message is freed
PostVerify(m) ==
  /\ post[m] = "verify"
  /\ \/ /\ context[Home[m]] = "live"
        /\ post' = [post EXCEPT ![m] = "insert"]
        /\ UNCHANGED freed
     \/ /\ context[Home[m]] = "null"
        /\ post' = [post EXCEPT ![m] = "done"]
        /\ freed' = [freed EXCEPT ![m] = @ + 1]
  /\ UNCHANGED <<now, globals, threads, time, removing, deinit, posted, quiet,
                 early, overlap>>

\* Mutant: a looper that stops forgets the message.
RefuseForgets(m) == UNCHANGED freed
\* PostMessageAtTime to a looper that stops
Refuse(m) == freed' = [freed EXCEPT ![m] = @ + 1]

\* the second half of PostMessageAtTime
PostInsert(m) ==
  LET l == Home[m] IN
  /\ post[m] = "insert"
  /\ post' = [post EXCEPT ![m] = "done"]
  /\ \/ /\ stop[l]
        /\ Refuse(m)
        /\ UNCHANGED <<list, thread, deadline, posted, quiet>>
     \/ /\ ~stop[l]
        /\ list' = [list EXCEPT ![l] = InsertByTime(@, m)]
        /\ Broadcast(l)
        /\ posted' = [posted EXCEPT ![l] = Append(@, m)]
        /\ quiet' = [quiet EXCEPT ![l] = @ \ {What[m]}]
        /\ UNCHANGED freed
  /\ UNCHANGED <<now, globals, stop, running, current, time, removing, deinit,
                 early, overlap>>

\* Mutant: the walk ends at the first match.
MatchingFirst(l, w) ==
  LET all == {i \in DOMAIN list[l] : What[list[l][i]] = w}
  IN  {list[l][i] : i \in {j \in all : running[l] /\ ~stop[l] /\ \A k \in all : j <= k}}
\* what LoopRemoveMessageCustom frees: nothing unless the thread runs
Matching(l, w) ==
  {m \in Range(list[l]) : running[l] /\ ~stop[l] /\ What[m] = w}

\* the list without these messages, after the walk of LoopRemoveMessageCustom
Without(s, gone) ==
  LET kept[i \in 0..Len(s)] ==
        IF i = 0 THEN <<>>
        ELSE IF s[i] \in gone THEN kept[i - 1] ELSE Append(kept[i - 1], s[i])
  IN  kept[Len(s)]

\* LooperRemoveMessage, LoopRemoveMessageCustom: looper->context is read,
\* without the lock and without a look at what it is
RemoveBegin(l, w) ==
  /\ l \in config
  /\ removing' = [removing EXCEPT ![l] = @ \cup {w}]
  /\ overlap' = (overlap \/ context[l] # "live")
  /\ UNCHANGED <<now, globals, threads, post, time, deinit, freed, posted, quiet,
                 early>>

\* LoopRemoveMessageCustom: the context is locked and its list walked
RemoveMessage(l, w) ==
  /\ w \in removing[l]
  /\ context[l] = "live"
  /\ removing' = [removing EXCEPT ![l] = @ \ {w}]
  /\ LET gone == Matching(l, w) IN
       /\ list' = [list EXCEPT ![l] = Without(@, gone)]
       /\ Free(gone)
  /\ quiet' = IF running[l] THEN [quiet EXCEPT ![l] = @ \cup {w}] ELSE quiet
  /\ UNCHANGED <<now, globals, stop, running, current, thread, deadline, post,
                 time, deinit, posted, early, overlap>>

-----------------------------------------------------------------------------
(* Destroying the loopers *)

Entry(d) == Loops[at[d]]
Unstarted == {l \in Loop : thread[l] = "start"}

\* LooperDeinit is called, after LooperInit
LooperDeinit ==
  /\ creating > Len(Loops)
  /\ destroy["app"] = "idle"
  /\ destroy' = [destroy EXCEPT !["app"] = "scan"]
  /\ early' = (Unstarted # {} /\ Cardinality(config) > 1)
  /\ UNCHANGED <<now, globals, threads, posts, at, freed, posted, quiet, overlap>>

\* the loop of LooperDeinit
DeinitScan(d) ==
  /\ destroy[d] = "scan"
  /\ \/ /\ at[d] > Len(Loops)
        /\ destroy' = [destroy EXCEPT ![d] = "done"]
        /\ UNCHANGED <<at, needDestroy>>
     \/ /\ at[d] <= Len(Loops) /\ Entry(d) \notin config
        /\ at' = [at EXCEPT ![d] = @ + 1]
        /\ UNCHANGED <<destroy, needDestroy>>
     \/ /\ at[d] <= Len(Loops) /\ Entry(d) \in config
        /\ context[Entry(d)] = "live"
        /\ needDestroy' = (needDestroy \/ ~started)
        /\ destroy' = [destroy EXCEPT ![d] = IF started THEN "stop" ELSE "done"]
        /\ UNCHANGED at
  /\ UNCHANGED <<now, creating, config, looperCnt, started, context, threads,
                 posts, freed, posted, quiet, early, overlap>>

\* DestroyLooper: the looper is told to stop
DestroyStop(d) ==
  /\ destroy[d] = "stop"
  /\ \/ /\ context[Entry(d)] = "live"
        /\ stop' = [stop EXCEPT ![Entry(d)] = TRUE]
        /\ Broadcast(Entry(d))
        /\ destroy' = [destroy EXCEPT ![d] = "wait"]
     \/ /\ context[Entry(d)] = "null"
        /\ destroy' = [destroy EXCEPT ![d] = "release"]
        /\ UNCHANGED <<stop, thread, deadline>>
  /\ UNCHANGED <<now, globals, running, list, current, posts, at, freed, posted,
                 quiet, early, overlap>>

\* Mutant: DestroyLooper does not wait.
EndedAlways(l) == TRUE
\* DestroyLooper takes the thread of l to have ended
Ended(l) == ~running[l]

\* DestroyLooper: it waits for the thread to end
DestroyWait(d) ==
  /\ destroy[d] = "wait"
  /\ context[Entry(d)] = "live"
  /\ destroy' = [destroy EXCEPT ![d] = IF Ended(Entry(d)) THEN "free" ELSE "asleep"]
  /\ UNCHANGED <<now, globals, threads, posts, at, freed, posted, quiet, early,
                 overlap>>

\* a thread is at one of these points of a post to l
Posting(l, points) == \E m \in Message : post[m] \in points /\ Home[m] = l

\* DestroyLooper: the messages that are left and the context are freed
DestroyFree(d) ==
  LET l == Entry(d) IN
  /\ destroy[d] = "free"
  /\ context[l] = "live"
  /\ Free(Range(list[l]))
  /\ list' = [list EXCEPT ![l] = <<>>]
  /\ context' = [context EXCEPT ![l] = "null"]
  /\ destroy' = [destroy EXCEPT ![d] = "release"]
  /\ overlap' = (overlap \/ Posting(l, {"verify", "insert"}) \/ removing[l] # {})
  /\ UNCHANGED <<now, creating, config, looperCnt, started, needDestroy, stop,
                 running, current, thread, deadline, posts, at, posted, quiet,
                 early>>

\* the end of DestroyLooper, ReleaseLooper
DestroyRelease(d) ==
  /\ destroy[d] = "release"
  /\ context[Entry(d)] = "null"
  /\ config' = config \ {Entry(d)}
  /\ context' = [context EXCEPT ![Entry(d)] = "freed"]
  /\ looperCnt' = IF looperCnt = 0 THEN 0 ELSE looperCnt - 1
  /\ at' = [at EXCEPT ![d] = @ + 1]
  /\ destroy' = [destroy EXCEPT ![d] = "scan"]
  /\ UNCHANGED <<now, creating, started, needDestroy, threads, posts, freed,
                 posted, quiet, early, overlap>>

-----------------------------------------------------------------------------
(* The specification *)

\* somebody is about to follow a pointer into looper l
ThreadIn(l) == thread[l] \in {"start", "loop", "wait", "sleep", "handle", "exit"}
DestroyerIn(l) ==
  \E d \in Destroyer :
    /\ \/ destroy[d] \in {"stop", "wait", "asleep", "free", "release"}
       \/ destroy[d] = "scan" /\ at[d] <= Len(Loops) /\ Entry(d) \in config
    /\ Entry(d) = l

\* the pointer is one that nobody checks: that of LoopTask or of DestroyLooper
OwnerDangles(l) ==
  \/ context[l] = "freed" /\ (ThreadIn(l) \/ DestroyerIn(l))
  \/ /\ context[l] = "null"
     /\ \/ ThreadIn(l) /\ thread[l] # "start"
        \/ \E d \in Destroyer :
             /\ destroy[d] \in {"scan", "wait", "asleep", "free"}
             /\ at[d] <= Len(Loops) /\ Entry(d) = l

\* or that of a post or of a removal
CallerDangles(l) ==
  \/ context[l] = "freed" /\ (Posting(l, {"verify", "insert"}) \/ removing[l] # {})
  \/ context[l] = "null" /\ (Posting(l, {"insert"}) \/ removing[l] # {})

Dangling == \E l \in Loop : OwnerDangles(l) \/ CallerDangles(l)

Tick ==
  /\ now < MaxTime
  /\ now' = now + 1
  /\ UNCHANGED <<globals, threads, posts, deinit, freed, posted, quiet, early,
                 overlap>>

ThreadStep(l) ==
  \/ LoopStart(l) \/ LoopBreak(l) \/ LoopWait(l) \/ LoopTimeout(l)
  \/ LoopTake(l) \/ LoopHandled(l) \/ LoopExit(l)
PosterStep(m) == PostVerify(m) \/ PostInsert(m)
DestroyerStep(d) ==
  \/ DeinitScan(d) \/ DestroyStop(d) \/ DestroyWait(d) \/ DestroyFree(d)
  \/ DestroyRelease(d)

Next ==
  /\ ~Dangling
  /\ \/ CreateNewLooper \/ CreateFails \/ LooperDeinit \/ Tick
     \/ \E l \in Loop : ThreadStep(l) \/ LoopSpuriousWakeup(l)
     \/ \E l \in Loop : \E w \in Code(l) : RemoveBegin(l, w) \/ RemoveMessage(l, w)
     \/ \E m \in Message : PostMessage(m) \/ PosterStep(m)
     \/ \E d \in Destroyer : DestroyerStep(d)

Spec == Init /\ [][Next]_vars

\* threads that can run do run, and time passes; nobody has to post, to remove
\* or to call LooperDeinit, and no wait has to end without a broadcast
FairSpec ==
  /\ Spec
  /\ WF_vars(~Dangling /\ Tick)
  /\ \A l \in Loop : WF_vars(~Dangling /\ ThreadStep(l))
  /\ \A m \in Message : WF_vars(~Dangling /\ PosterStep(m))
  /\ \A d \in Destroyer : WF_vars(~Dangling /\ DestroyerStep(d))

-----------------------------------------------------------------------------
(* Properties *)

\* DestroyLooper and LoopTask agree on the end of a looper: unless LooperDeinit
\* ran before the threads had started, neither of them is left with a pointer to
\* a context or a looper that has been freed, whatever is posted and removed
\* meanwhile, and g_looperCnt counts the loopers there are.  A post or a removal
\* is left with such a pointer only when the context was freed while it ran, or
\* when it found the looper between the two frees.
NoUseAfterFree ==
  \/ early
  \/ /\ \A l \in Loop : ~OwnerDangles(l)
     /\ (\E l \in Loop : CallerDangles(l)) => overlap
     /\ looperCnt = Cardinality({l \in Loop : context[l] \in {"live", "null"}})

\* A message that has been posted has one owner, who frees it: the list or
\* LoopTask; a freed message has none, and none is freed twice.
OneOwner ==
  \A m \in {n \in Message : post[n] = "done"} :
    freed[m] + Cardinality({l \in Loop : m \in Range(list[l])})
             + Cardinality({l \in Loop : m \in current[l]}) = 1

\* After a removal from a looper that runs, no message with that code is begun
\* until one is posted again.
QuietAfterRemove ==
  [][\A l \in Loop : \A m \in current'[l] \ current[l] :
       What[m] \notin quiet[l]]_vars

\* A looper implements the timed queue (the first one, they are all alike).
Queue ==
  INSTANCE TimedQueue WITH
    Time <- Due,
    posted <- [i \in DOMAIN posted[Loops[1]] |->
                 [msg |-> posted[Loops[1]][i], time |-> time[posted[Loops[1]][i]]]],
    waiting <- Range(list[Loops[1]]),
    current <- current[Loops[1]],
    closed <- stop[Loops[1]]
ImplementsTimedQueue == Queue!TQSpec

\* Every message given to a post is freed in the end: after its handler, by a
\* removal or with its looper; no broadcast that it depends on is missed.  The
\* exceptions are a LooperDeinit that came too early and a caller that is left
\* with a freed context, where the model stops.
EveryMessageFreed ==
  \A m \in Message : (post[m] # "none") ~> (freed[m] = 1 \/ early \/ Dangling)

\* A call of LooperDeinit returns, with the same exceptions.
DeinitReturns ==
  \A d \in Destroyer :
    (destroy[d] = "scan") ~> (destroy[d] = "done" \/ early \/ Dangling)
=============================================================================
