------------------------------ MODULE BrManager -----------------------------
(***************************************************************************)
(* The BR connection manager of one device,                                *)
(* core/connection/br/src/softbus_conn_br_manager.c: connect requests are  *)
(* merged per address, scheduled one at a time, and answered with a new or *)
(* a reused connection.                                                    *)
(*                                                                         *)
(* mgr is what the looper thread works on: g_brManager, the looper's       *)
(* messages, and the callbacks given so far.  A handler is an operator     *)
(* from one such record to the next, so that a handler that calls another  *)
(* one is written as in the code; an action applies a handler to the first *)
(* message or to a due delayed one.  The connecting and reading threads,   *)
(* the callers of the API, Bluetooth and the peers interleave with it.     *)
(*                                                                         *)
(* The reference messages of a peer are applied when they arrive (their    *)
(* transport is BrReference).  Requests name no connection id, connections *)
(* are not occupied, and lock, allocation and posting do not fail.         *)
(***************************************************************************)
EXTENDS BrConnection, Sequences, FiniteSets

CONSTANTS
  Addr,       \* the Bluetooth addresses of peers
  Req,        \* connect requests
  MaxConns,   \* bound: connection objects ever created
  MaxEvents,  \* bound: events that callers, peers and Bluetooth cause
  MaxFaults   \* bound: failures to create a connecting thread

ASSUME BoundsNat == {MaxConns, MaxEvents, MaxFaults} \subseteq Nat
ASSUME NamesApart == "none" \notin Addr
ASSUME FewRequests == IsFiniteSet(Req)

VARIABLES
  mgr,     \* the looper's view, see above
  called,  \* the requests made so far
  thread,  \* thread[id]: where the thread of connection id is; ids are not reused
  btOn,    \* g_brStateTurnOn
  events,  \* events so far (bound)
  faults   \* failures of thread creation so far (bound)

vars == <<mgr, called, thread, btOn, events, faults>>

Id == 1..MaxConns
MAX_RETRY_COUNT == 2

\* A ConnBrDevice: the requests for one address (retries is a ghost: how often
\* they were sent back to wait after an ACL collision).  None is NULL.
DeviceOf(addr, reqs, state) ==
  [addr |-> addr, reqs |-> reqs, state |-> state, retries |-> 0]
None == DeviceOf("none", {}, "INIT")

Device == [addr : Addr, reqs : (SUBSET Req) \ {{}}, retries : Nat,
           state : {"WAIT_SCHEDULE", "WAIT_EVENT", "PENDING"}]

\* A connection in g_brManager.connections.  Three ghosts say whose references
\* its count stands for: callers of this device, the other end, and the one
\* that a client connection is created with until its success is handled.
Saved == [addr : Addr, side : {"client", "server"}, link : Connection,
          retryCount : 0..MAX_RETRY_COUNT, mine : Nat, peers : Nat, unclaimed : 0..1]

Message ==
  [what : {"NEXT_CMD", "RESET"}]
    \cup [what : {"CONNECT_REQUEST"}, req : Req, addr : Addr]
    \cup [what : {"SUCCESS", "ACCEPTED", "EXCEPTION", "RESUME", "DISCONNECT", "FAIL"}, id : Id]

Timer == [what : {"TIMEOUT"}, id : Id, addr : Addr] \cup [what : {"FAIL"}, id : Id]
           \cup [what : {"UNPEND"}, addr : Addr]

TypeOK ==
  /\ mgr.state \in {"AVAILABLE", "CONNECTING"}
  /\ mgr.connecting \in Device \cup {None}
  /\ mgr.waitings \in Seq(Device)
  /\ mgr.pendings \subseteq Addr
  /\ DOMAIN mgr.conns \subseteq Id
  /\ \A id \in DOMAIN mgr.conns : mgr.conns[id] \in Saved
  /\ mgr.msgs \in Seq(Message)
  /\ mgr.timers \subseteq Timer
  /\ mgr.answers \in [Req -> Nat]
  /\ mgr.passed \in BOOLEAN
  /\ called \subseteq Req
  /\ thread \in Seq({"connecting", "open", "reading", "done"})
  /\ btOn \in BOOLEAN
  /\ events \in 0..MaxEvents
  /\ faults \in 0..MaxFaults

\* InitBrManager: entering the available state posts a NEXT_CMD.
Init ==
  /\ mgr = [state |-> "AVAILABLE", connecting |-> None, waitings |-> <<>>,
            pendings |-> {}, conns |-> <<>>, msgs |-> <<[what |-> "NEXT_CMD"]>>,
            timers |-> {}, answers |-> [r \in Req |-> 0], passed |-> FALSE]
  /\ called = {}
  /\ thread = <<>>
  /\ btOn = TRUE
  /\ events = 0
  /\ faults = 0

-----------------------------------------------------------------------------
(***************************************************************************)
(* The looper and the list of connections.                                 *)
(***************************************************************************)
\* The least of a set of positions or connection ids, 0 if it is empty.
First(S) == IF S = {} THEN 0 ELSE CHOOSE i \in S : \A j \in S : i <= j

Post(m, msg) == [m EXCEPT !.msgs = Append(@, msg)]
PostLater(m, msg) == [m EXCEPT !.timers = @ \cup {msg}]
Cancel(m, msg) == [m EXCEPT !.timers = @ \ {msg}]
\* Mutant: the comparison ignores the connection id.
CancelTimeoutAny(m, id) ==
  [m EXCEPT !.timers = @ \ [what : {"TIMEOUT"}, id : Id, addr : Addr]]

CancelTimeout(m, id) == [m EXCEPT !.timers = @ \ [what : {"TIMEOUT"}, id : {id}, addr : Addr]]
NextCmd(m) == Post(m, [what |-> "NEXT_CMD"])

\* ConnBrGetConnectionByAddr returns the last match of a list that grows at its
\* head, the oldest connection; 0 stands for NULL.
GetConnectionByAddr(m, addr, side) ==
  First({id \in DOMAIN m.conns : m.conns[id].addr = addr /\ m.conns[id].side = side})

SaveConnection(m, id, addr, side) ==
  [m EXCEPT !.conns = [i \in DOMAIN @ \cup {id} |->
     IF i = id THEN [addr |-> addr, side |-> side, link |-> NewConnection(side),
                     retryCount |-> 0, mine |-> 0,
                     peers |-> IF side = "server" THEN 1 ELSE 0,
                     unclaimed |-> IF side = "client" THEN 1 ELSE 0]
     ELSE @[i]]]

RemoveConnection(m, id) ==
  [m EXCEPT !.conns = [i \in DOMAIN @ \ {id} |-> @[i]]]

SetLink(m, id, link) == [m EXCEPT !.conns[id].link = link]

\* Mutant: EnterAvailableState posts nothing.
TransitionToStateSilent(m, target) == [m EXCEPT !.state = target]

TransitionToState(m, target) ==
  IF m.state = target THEN m
  ELSE LET n == [m EXCEPT !.state = target]
       IN  IF target = "AVAILABLE" THEN NextCmd(n) ELSE n

\* The position of the device of an address in waitings, 0 if there is none.
Waiting(m, addr) == First({i \in DOMAIN m.waitings : m.waitings[i].addr = addr})

\* Mutant: the ListDelete is missing.
DropWaitingForgotten(m, i) == m

DropWaiting(m, i) ==
  [m EXCEPT !.waitings = [j \in 1..(Len(@) - 1) |-> IF j < i THEN @[j] ELSE @[j + 1]]]

\* Mutant: the state of the device is not reset.
RescheduleNever(m, addr) == m

\* The device that waits for addr, if any, may be scheduled again.
Reschedule(m, addr) ==
  IF Waiting(m, addr) = 0 THEN m
  ELSE [m EXCEPT !.waitings[Waiting(m, addr)].state = "WAIT_SCHEDULE"]

(***************************************************************************)
(* NotifyDeviceConnectResult.  The first request of a new connection owns  *)
(* its initial reference; every other request adds one.                    *)
(***************************************************************************)
Answered(m, reqs) ==
  [m EXCEPT !.answers = [r \in Req |-> IF r \in reqs THEN @[r] + 1 ELSE @[r]]]

\* Mutant: the isReuse = true after the first request is missing.
NotifyConnectedUncounted(m, d, id, isReuse) ==
  LET n == [m EXCEPT !.conns[id].mine = @ + Cardinality(d.reqs)]
  IN  Answered(IF isReuse
               THEN SetLink(n, id, NotifyUpdateConnectionRc(n.conns[id].link,
                                                            Cardinality(d.reqs)))
               ELSE n, d.reqs)

NotifyConnected(m, d, id, isReuse) ==
  LET added == Cardinality(d.reqs) - (IF isReuse THEN 0 ELSE 1)
      n == [m EXCEPT !.conns[id].mine = @ + Cardinality(d.reqs)]
  IN  Answered(IF added > 0
               THEN SetLink(n, id, NotifyUpdateConnectionRc(n.conns[id].link, added))
               ELSE n, d.reqs)

NotifyFailed(m, d) == Answered(m, d.reqs)

\* BrReuseConnection, and whether it returns true.
Reusable(m, id) == id # 0 /\ m.conns[id].link.state = "CONNECTED"
ReuseConnection(m, d, id) == NextCmd(NotifyConnected(m, d, id, TRUE))

\* Mutant: the connecting device is not looked at.
PendingDeviceWaitingOnly(m, d) ==
  IF Waiting(m, d.addr) # 0
  THEN [m EXCEPT !.waitings[Waiting(m, d.addr)].reqs = @ \cup d.reqs]
  ELSE [m EXCEPT !.waitings = Append(@, d)]

\* PendingDevice: merged with the device of the same address, or queued.
PendingDevice(m, d) ==
  IF m.connecting.addr = d.addr
  THEN [m EXCEPT !.connecting.reqs = @ \cup d.reqs]
  ELSE IF Waiting(m, d.addr) # 0
  THEN [m EXCEPT !.waitings[Waiting(m, d.addr)].reqs = @ \cup d.reqs]
  ELSE [m EXCEPT !.waitings = Append(@, d)]

\* AttempReuseConnect and CheckPendingAndactionIfAbsent: an open connection to
\* the device, the event that an unusable one is waiting for, the end of the
\* address's pending time, or absent, the outcome of actionIfAbsent for a device
\* without a connection.
AttempReuseConnect(m, d, absent) ==
  LET client == GetConnectionByAddr(m, d.addr, "client")
      server == GetConnectionByAddr(m, d.addr, "server")
  IN  CASE Reusable(m, client) -> ReuseConnection(m, d, client)
        [] ~Reusable(m, client) /\ Reusable(m, server) -> ReuseConnection(m, d, server)
        [] ~Reusable(m, client) /\ ~Reusable(m, server) /\ {client, server} # {0} ->
             PendingDevice(m, [d EXCEPT !.state = "WAIT_EVENT"])
        [] {client, server} = {0} /\ d.addr \in m.pendings ->
             PendingDevice(m, [d EXCEPT !.state = "PENDING"])
        [] {client, server} = {0} /\ d.addr \notin m.pendings -> absent

\* ConnectDeviceDirectly: a new client connection, watched by a timeout.
ConnectDeviceDirectly(m, d, id) ==
  TransitionToState(
    PostLater([SaveConnection(m, id, d.addr, "client") EXCEPT !.connecting = d],
              [what |-> "TIMEOUT", id |-> id, addr |-> d.addr]),
    "CONNECTING")

-----------------------------------------------------------------------------
(***************************************************************************)
(* The handlers of the looper, from BrManagerMsgHandler's table.           *)
(***************************************************************************)
ConnectRequestOnAvailableState(m, d) ==
  IF btOn THEN NextCmd(PendingDevice(m, d)) ELSE NotifyFailed(m, d)

ConnectRequestOnConnectingState(m, d) == AttempReuseConnect(m, d, PendingDevice(m, d))

\* The device that waits for addr (PendingDevice keeps one per address) is
\* answered with connection id.
ReuseForWaiting(m, addr, id) ==
  IF Waiting(m, addr) # 0 /\ Reusable(m, id)
  THEN ReuseConnection(DropWaiting(m, Waiting(m, addr)), m.waitings[Waiting(m, addr)], id)
  ELSE m

\* Mutant: no NEXT_CMD after the device is rescheduled.
UnpendConnectionSilent(m, addr) ==
  LET n == Cancel(m, [what |-> "UNPEND", addr |-> addr])
  IN  IF addr \in n.pendings
      THEN Reschedule([n EXCEPT !.pendings = @ \ {addr}], addr)
      ELSE n

UnpendConnection(m, addr) ==
  LET n == Cancel(m, [what |-> "UNPEND", addr |-> addr])
  IN  IF addr \in n.pendings
      THEN NextCmd(Reschedule([n EXCEPT !.pendings = @ \ {addr}], addr))
      ELSE n

\* BrPendConnection: a second call only restarts the timer.
PendConnection(m, addr) ==
  PostLater([m EXCEPT !.pendings = @ \cup {addr}], [what |-> "UNPEND", addr |-> addr])

ServerAccepted(m, id) ==
  IF id \notin DOMAIN m.conns THEN m
  ELSE LET addr == m.conns[id].addr
           n == UnpendConnection(m, addr)
       IN  IF n.connecting.addr = addr THEN n ELSE ReuseForWaiting(n, addr, id)

\* Ghost: a late success answers a device that waits for an event, and nothing
\* takes the next device although the manager is free.
PassedOver(m, i) ==
  [m EXCEPT !.passed = @ \/ /\ m.state = "AVAILABLE"
                            /\ m.waitings[i].state # "WAIT_SCHEDULE"
                            /\ \E d \in DOMAIN m.waitings : m.waitings[d].state = "WAIT_SCHEDULE"]

ClientConnected(m, id) ==
  IF id \notin DOMAIN m.conns THEN m
  ELSE LET addr == m.conns[id].addr
           n == [m EXCEPT !.conns[id].unclaimed = 0]
           ready == [n EXCEPT !.conns[id].retryCount = 0]
       IN  IF Waiting(m, addr) # 0
           THEN DropWaiting(NotifyConnected(PassedOver(ready, Waiting(m, addr)),
                                            m.waitings[Waiting(m, addr)], id, FALSE),
                            Waiting(m, addr))
           ELSE IF m.connecting.addr # addr
           THEN SetLink(n, id, NotifyUpdateConnectionRc(n.conns[id].link, -1))
           ELSE TransitionToState(
                  [NotifyConnected(CancelTimeout(ready, id),
                                   m.connecting, id, FALSE) EXCEPT !.connecting = None],
                  "AVAILABLE")

\* AuthenticationFailedAndRetry sends the device back to wait.  The incremented
\* count is not stored: the connection object is removed in the same step.
RetryAfterCollision(m, id, collision) ==
  collision /\ m.conns[id].retryCount + 1 < MAX_RETRY_COUNT

\* ProcessAclCollisionException
PendDevice(m, d) ==
  PendingDevice(PendConnection(m, d.addr), [d EXCEPT !.state = "PENDING", !.retries = @ + 1])

ClientConnectFailed(m, id, collision) ==
  IF id \notin DOMAIN m.conns THEN m
  ELSE LET addr == m.conns[id].addr
           d == m.connecting
           n == SetLink(CancelTimeout(m, id), id,
                        DisconnectNow(m.conns[id].link))
           server == GetConnectionByAddr(n, addr, "server")
           free == [n EXCEPT !.connecting = None]
       IN  IF d.addr # addr
           THEN NextCmd(RemoveConnection(Reschedule(n, addr), id))
           ELSE TransitionToState(
                  RemoveConnection(
                    IF Reusable(n, server) THEN ReuseConnection(free, d, server)
                    ELSE IF RetryAfterCollision(n, id, collision) THEN PendDevice(free, d)
                    ELSE NotifyFailed(free, d), id),
                  "AVAILABLE")

ClientConnectTimeoutOnConnectingState(m, addr) ==
  IF m.state = "CONNECTING" /\ m.connecting.addr = addr
  THEN TransitionToState([NotifyFailed(m, m.connecting) EXCEPT !.connecting = None],
                         "AVAILABLE")
  ELSE m

ConnectionException(m, id) ==
  IF id \notin DOMAIN m.conns THEN m
  ELSE NextCmd(RemoveConnection(Reschedule(m, m.conns[id].addr), id))

ConnectionResume(m, id) ==
  IF id \notin DOMAIN m.conns THEN m ELSE ReuseForWaiting(m, m.conns[id].addr, id)

DisconnectRequest(m, id) ==
  IF id \notin DOMAIN m.conns THEN m
  ELSE SetLink(m, id, NotifyUpdateConnectionRc(m.conns[id].link, -1))

DisconnectAll(conns) ==
  [id \in DOMAIN conns |-> [conns[id] EXCEPT !.link = DisconnectNow(@)]]

\* Reset, after Bluetooth is turned off: the connections stay in the list until
\* their threads report the end.
Reset(m) ==
  LET client == GetConnectionByAddr(m, m.connecting.addr, "client")
      reqs == m.connecting.reqs \cup UNION {m.waitings[i].reqs : i \in DOMAIN m.waitings}
  IN  TransitionToState(
        [CancelTimeout(Answered(m, reqs), client) EXCEPT
           !.connecting = None,
           !.waitings = <<>>,
           !.pendings = {},
           !.timers = @ \ [what : {"UNPEND"}, addr : m.pendings],
           !.conns = DisconnectAll(@)],
        "AVAILABLE")

-----------------------------------------------------------------------------
(***************************************************************************)
(* Actions of the looper thread, one per message.                          *)
(***************************************************************************)
Arrived(what) == mgr.msgs # <<>> /\ Head(mgr.msgs).what = what
Rest == [mgr EXCEPT !.msgs = Tail(@)]
Current == Head(mgr.msgs)

HandleConnectRequest ==
  /\ Arrived("CONNECT_REQUEST")
  /\ LET d == DeviceOf(Current.addr, {Current.req}, "WAIT_SCHEDULE")
     IN  mgr' = IF mgr.state = "AVAILABLE" THEN ConnectRequestOnAvailableState(Rest, d)
                ELSE ConnectRequestOnConnectingState(Rest, d)
  /\ UNCHANGED <<called, thread, btOn, events, faults>>

\* HandlePendingRequestOnAvailableState; NULL in the connecting state.
Schedulable ==
  First({i \in DOMAIN mgr.waitings : mgr.waitings[i].state = "WAIT_SCHEDULE"})

HandleNextCmd ==
  /\ Arrived("NEXT_CMD")
  /\ IF mgr.state = "CONNECTING" \/ Schedulable = 0
     THEN mgr' = Rest /\ UNCHANGED <<thread, faults>>
     ELSE LET d == mgr.waitings[Schedulable]
              n == DropWaiting(Rest, Schedulable)
              id == Len(thread) + 1
              tried == AttempReuseConnect(n, d, ConnectDeviceDirectly(n, d, id))
          IN  \/ /\ mgr' = tried
                 /\ id \in DOMAIN mgr'.conns => id \in Id
                 /\ thread' = IF id \in DOMAIN mgr'.conns
                              THEN Append(thread, "connecting") ELSE thread
                 /\ UNCHANGED faults
              \/ /\ id \in DOMAIN tried.conns
                 /\ faults < MaxFaults
                 /\ faults' = faults + 1
                 /\ mgr' = NotifyFailed(n, d)
                 /\ UNCHANGED thread
  /\ UNCHANGED <<called, btOn, events>>

HandleServerAccepted ==
  /\ Arrived("ACCEPTED")
  /\ mgr' = ServerAccepted(Rest, Current.id)
  /\ UNCHANGED <<called, thread, btOn, events, faults>>

HandleClientConnected ==
  /\ Arrived("SUCCESS")
  /\ mgr' = ClientConnected(Rest, Current.id)
  /\ UNCHANGED <<called, thread, btOn, events, faults>>

\* The underlayer's status callbacks tell a collision from another failure.
Fail(m, id) == \E collision \in BOOLEAN :
  /\ collision => events < MaxEvents
  /\ events' = events + (IF collision THEN 1 ELSE 0)
  /\ mgr' = ClientConnectFailed(m, id, collision)
  /\ UNCHANGED <<called, thread, btOn, faults>>

HandleClientConnectFailed == Arrived("FAIL") /\ Fail(Rest, Current.id)

HandleConnectionException ==
  /\ Arrived("EXCEPTION")
  /\ mgr' = ConnectionException(Rest, Current.id)
  /\ UNCHANGED <<called, thread, btOn, events, faults>>

HandleConnectionResume ==
  /\ Arrived("RESUME")
  /\ mgr' = ConnectionResume(Rest, Current.id)
  /\ UNCHANGED <<called, thread, btOn, events, faults>>

HandleDisconnectRequest ==
  /\ Arrived("DISCONNECT")
  /\ mgr' = DisconnectRequest(Rest, Current.id)
  /\ UNCHANGED <<called, thread, btOn, events, faults>>

HandleReset ==
  /\ Arrived("RESET")
  /\ mgr' = Reset(Rest)
  /\ UNCHANGED <<called, thread, btOn, events, faults>>

\* Delayed messages become due in any order.
HandleClientConnectTimeout == \E t \in mgr.timers :
  /\ t.what = "TIMEOUT"
  /\ mgr' = ClientConnectTimeoutOnConnectingState(Cancel(mgr, t), t.addr)
  /\ UNCHANGED <<called, thread, btOn, events, faults>>

HandleDelayedFail == \E t \in mgr.timers : t.what = "FAIL" /\ Fail(Cancel(mgr, t), t.id)

HandleUnpend == \E t \in mgr.timers :
  /\ t.what = "UNPEND"
  /\ mgr' = UnpendConnection(Cancel(mgr, t), t.addr)
  /\ UNCHANGED <<called, thread, btOn, events, faults>>

\* The connection's own timers (see BrReference): the end of a closing
\* negotiation, and the renewed notice of a count that the peer brought to 0.
NegotiationTimeout(id) ==
  /\ id \in DOMAIN mgr.conns
  /\ mgr.conns[id].link.state = "NEGOTIATION_CLOSING"
  /\ mgr' = SetLink(mgr, id, NegotiationTimeoutHandler(mgr.conns[id].link))
  /\ UNCHANGED <<called, thread, btOn, events, faults>>

RetryNotifyReference(id) ==
  /\ id \in DOMAIN mgr.conns
  /\ mgr.conns[id].link.rc = 0
  /\ mgr.conns[id].link.state = "CONNECTED"
  /\ mgr' = SetLink(mgr, id, NotifyUpdateConnectionRc(mgr.conns[id].link, 0))
  /\ UNCHANGED <<called, thread, btOn, events, faults>>

\* A reference request or response of the peer, which the reader has posted
\* before it ended; a resumed connection posts CONNECTION_RESUME.
ReceivedControlData(id, link, delta) ==
  LET n == [SetLink(mgr, id, link) EXCEPT !.conns[id].peers = @ + delta]
  IN  mgr' = IF mgr.conns[id].link.state = "NEGOTIATION_CLOSING" /\ link.state = "CONNECTED"
             THEN Post(n, [what |-> "RESUME", id |-> id]) ELSE n

PeerMessage(id) ==
  /\ id \in DOMAIN mgr.conns
  /\ thread[id] = "reading" \/ \E i \in DOMAIN mgr.msgs : mgr.msgs[i] = [what |-> "EXCEPTION", id |-> id]
  /\ events < MaxEvents
  /\ events' = events + 1
  /\ \/ \E delta \in {-1, 1}, peerRc \in {0, 1} :
          /\ mgr.conns[id].peers + delta >= 0
          /\ delta = 1 => peerRc = 1
          /\ ReceivedControlData(id, NotifyReferenceRequest(mgr.conns[id].link, delta, peerRc),
                                 delta)
     \/ ReceivedControlData(id, NotifyReferenceResponse(mgr.conns[id].link, 1), 0)
  /\ UNCHANGED <<called, thread, btOn, faults>>

-----------------------------------------------------------------------------
(***************************************************************************)
(* The threads of a connection: StartClientConnect and StartServerServe.   *)
(***************************************************************************)
\* The driver's Connect returns a socket; too late if the state has changed.
ClientSocket(id) ==
  /\ thread[id] = "connecting"
  /\ IF mgr.conns[id].link.state = "CONNECTING"
     THEN /\ mgr' = SetLink(mgr, id, ClientSocketReady(mgr.conns[id].link))
          /\ thread' = [thread EXCEPT ![id] = "open"]
     ELSE /\ thread' = [thread EXCEPT ![id] = "done"]
          /\ LET n == SetLink(mgr, id, DisconnectNow(mgr.conns[id].link))
                 fail == [what |-> "FAIL", id |-> id]
             IN  mgr' = Post(n, fail) \/ mgr' = PostLater(n, fail)
  /\ UNCHANGED <<called, btOn, events, faults>>

\* Connect fails.  Without a reason from the underlayer the failure is reported
\* with a delay (IsNeedWaitCallbackError).
ClientNoSocket(id) ==
  /\ thread[id] = "connecting"
  /\ thread' = [thread EXCEPT ![id] = "done"]
  /\ LET fail == [what |-> "FAIL", id |-> id]
     IN  mgr' = Post(mgr, fail) \/ mgr' = PostLater(mgr, fail)
  /\ UNCHANGED <<called, btOn, events, faults>>

\* CreateAndSaveConnection for a socket of the listener.
ServerSocket(addr) ==
  /\ Len(thread) + 1 \in Id
  /\ events < MaxEvents
  /\ events' = events + 1
  /\ thread' = Append(thread, "open")
  /\ mgr' = SaveConnection(mgr, Len(thread) + 1, addr, "server")
  /\ UNCHANGED <<called, btOn, faults>>

\* onClientConnected, onServerAccepted
Announce(id) ==
  /\ thread[id] = "open"
  /\ thread' = [thread EXCEPT ![id] = "reading"]
  /\ mgr' = Post(mgr, [what |-> IF mgr.conns[id].side = "client" THEN "SUCCESS" ELSE "ACCEPTED",
                       id |-> id])
  /\ UNCHANGED <<called, btOn, events, faults>>

\* LoopRead returns: the socket has been closed here, or (an event) the read
\* fails.
StopReading(id) ==
  /\ thread[id] = "reading"
  /\ thread' = [thread EXCEPT ![id] = "done"]
  /\ \E err \in ReaderExitStates(mgr.conns[id].side) :
       mgr' = Post(SetLink(mgr, id, ReaderExit(mgr.conns[id].link, err)),
                   [what |-> "EXCEPTION", id |-> id])
  /\ UNCHANGED <<called, btOn, faults>>

NoticeClosed(id) == StopReading(id) /\ ~mgr.conns[id].link.sock /\ UNCHANGED events
ReadFails(id) == events < MaxEvents /\ events' = events + 1 /\ StopReading(id)

-----------------------------------------------------------------------------
(***************************************************************************)
(* Callers of the connection interface, and Bluetooth.                     *)
(***************************************************************************)
\* BrConnectDevice
ConnectDevice(r, addr) ==
  /\ r \notin called
  /\ called' = called \cup {r}
  /\ mgr' = Post(mgr, [what |-> "CONNECT_REQUEST", req |-> r, addr |-> addr])
  /\ UNCHANGED <<thread, btOn, events, faults>>

\* BrDisconnectDevice, by the owner of a reference
DisconnectDevice(id) ==
  /\ id \in DOMAIN mgr.conns
  /\ mgr.conns[id].mine > 0
  /\ mgr' = Post([mgr EXCEPT !.conns[id].mine = @ - 1], [what |-> "DISCONNECT", id |-> id])
  /\ UNCHANGED <<called, thread, btOn, events, faults>>

\* ConnBrDisconnectNow by BrDisconnectDeviceNow, by OnPostByteFinshed or by the
\* idle timer.  Its two critical sections are one step here: between them the
\* connection is as useless to every handler as after them.
DisconnectDeviceNow(id) ==
  /\ id \in DOMAIN mgr.conns
  /\ events < MaxEvents
  /\ events' = events + 1
  /\ mgr' = SetLink(mgr, id, DisconnectNow(mgr.conns[id].link))
  /\ UNCHANGED <<called, thread, btOn, faults>>

\* BrPendConnection from another thread
PendDeviceConnection(addr) ==
  /\ events < MaxEvents
  /\ events' = events + 1
  /\ mgr' = PendConnection(mgr, addr)
  /\ UNCHANGED <<called, thread, btOn, faults>>

\* OnBtStateChanged
BtStateChanged ==
  /\ events < MaxEvents
  /\ events' = events + 1
  /\ btOn' = ~btOn
  /\ mgr' = IF btOn THEN Post(mgr, [what |-> "RESET"]) ELSE mgr
  /\ UNCHANGED <<called, thread, faults>>

HandleMessage ==
  \/ HandleConnectRequest
  \/ HandleNextCmd
  \/ HandleServerAccepted
  \/ HandleClientConnected
  \/ HandleClientConnectFailed
  \/ HandleConnectionException
  \/ HandleConnectionResume
  \/ HandleDisconnectRequest
  \/ HandleReset

Next ==
  \/ HandleMessage
  \/ HandleClientConnectTimeout
  \/ HandleDelayedFail
  \/ HandleUnpend
  \/ BtStateChanged
  \/ \E r \in Req, addr \in Addr : ConnectDevice(r, addr)
  \/ \E addr \in Addr : ServerSocket(addr) \/ PendDeviceConnection(addr)
  \/ \E id \in DOMAIN thread :
       \/ NegotiationTimeout(id)
       \/ RetryNotifyReference(id)
       \/ PeerMessage(id)
       \/ ClientSocket(id)
       \/ ClientNoSocket(id)
       \/ Announce(id)
       \/ NoticeClosed(id)
       \/ ReadFails(id)
       \/ DisconnectDevice(id)
       \/ DisconnectDeviceNow(id)

Spec == Init /\ [][Next]_vars

(***************************************************************************)
(* Fairness.  The looper serves its queue and every due delayed message,   *)
(* the driver's Connect returns, a thread goes on, a reader notices that   *)
(* its socket is closed.  No caller, peer or failure is fair.              *)
(***************************************************************************)
Fairness ==
  /\ WF_vars(HandleMessage)
  /\ WF_vars(HandleClientConnectTimeout)
  /\ WF_vars(HandleDelayedFail)
  /\ WF_vars(HandleUnpend)
  /\ WF_vars(\E id \in DOMAIN thread : NegotiationTimeout(id))
  /\ WF_vars(\E id \in DOMAIN thread : ClientSocket(id) \/ ClientNoSocket(id))
  /\ WF_vars(\E id \in DOMAIN thread : Announce(id))
  /\ WF_vars(\E id \in DOMAIN thread : NoticeClosed(id))

FairSpec == Spec /\ Fairness

-----------------------------------------------------------------------------
Devices == {mgr.waitings[i] : i \in DOMAIN mgr.waitings} \cup ({mgr.connecting} \ {None})
Queued(what) == {i \in DOMAIN mgr.msgs : mgr.msgs[i].what = what}

\* Where request r is: in a message, in a waiting or the connecting device.
Places(r) ==
  Cardinality({i \in Queued("CONNECT_REQUEST") : mgr.msgs[i].req = r})
    + Cardinality({i \in DOMAIN mgr.waitings : r \in mgr.waitings[i].reqs})
    + (IF r \in mgr.connecting.reqs THEN 1 ELSE 0)

\* Every connect request is in exactly one place until its caller gets exactly
\* one callback, whatever timeouts, late results of a connecting thread,
\* connections of the peer and a Bluetooth reset do to its device.
AnsweredOnce ==
  \A r \in Req : Places(r) + mgr.answers[r] = IF r \in called THEN 1 ELSE 0

\* Requests for one address are always merged: an address has one device, and
\* one client connection, whose thread is the only one to dial it.
OneDevicePerAddr ==
  /\ \A i, j \in DOMAIN mgr.waitings : mgr.waitings[i].addr = mgr.waitings[j].addr => i = j
  /\ \A i \in DOMAIN mgr.waitings : mgr.waitings[i].addr # mgr.connecting.addr
  /\ \A i, j \in DOMAIN mgr.conns :
       /\ {mgr.conns[i].side, mgr.conns[j].side} = {"client"}
       /\ mgr.conns[i].addr = mgr.conns[j].addr
       => i = j

\* The manager is in the connecting state exactly while a device is connecting,
\* and that device's attempt has its timeout and its client connection.
ConnectingTimed ==
  /\ (mgr.state = "CONNECTING") = (mgr.connecting # None)
  /\ mgr.state = "CONNECTING" =>
       \E t \in mgr.timers :
         /\ t.what = "TIMEOUT"
         /\ t.addr = mgr.connecting.addr
         /\ t.id = GetConnectionByAddr(mgr, t.addr, "client")

\* A pended address has its timer, and a device that waits for the end of the
\* pending time or for an event of a connection has one to wait for.
WaitersHaveWaker ==
  /\ \A addr \in Addr :
       addr \in mgr.pendings <=> [what |-> "UNPEND", addr |-> addr] \in mgr.timers
  /\ \A d \in Devices \ {mgr.connecting} :
       /\ d.state = "PENDING" => d.addr \in mgr.pendings
       /\ d.state = "WAIT_EVENT" => \E id \in DOMAIN mgr.conns : mgr.conns[id].addr = d.addr

\* While the manager is free, a device that may be scheduled has a NEXT_CMD on
\* its way, or another waiting device will bring one when it is woken.  Two
\* branches of the code take no next device: ConnectDeviceDirectly when the
\* connecting thread cannot be created, and ClientConnected when the success of
\* an attempt that has timed out answers a device that waits.
SchedulerAwake ==
  /\ faults = 0 /\ ~mgr.passed /\ mgr.state = "AVAILABLE"
  /\ \E d \in Devices : d.state = "WAIT_SCHEDULE"
  =>
    \/ Queued("NEXT_CMD") # {}
    \/ \E d \in Devices : d.state \in {"PENDING", "WAIT_EVENT"}

\* The count of a connection is the number of its owners: callers answered with
\* it, releases still queued, the peer, and the attempt that opened it.
CountMatchesOwners ==
  \A id \in DOMAIN mgr.conns :
    LET c == mgr.conns[id]
    IN  c.link.rc = c.mine + c.peers + c.unclaimed
                      + Cardinality({i \in Queued("DISCONNECT") : mgr.msgs[i].id = id})

\* "if (collision && connection->retryCount < MAX_RETRY_COUNT)": requests are
\* sent back to wait after a collision fewer than MAX_RETRY_COUNT times.
RetriesBounded == \A d \in Devices : d.retries < MAX_RETRY_COUNT

\* Every connect request is eventually answered, unless a device was passed over
\* (see ClientConnected).
EveryRequestAnswered == \A r \in Req : r \in called ~> mgr.answers[r] = 1 \/ mgr.passed
=============================================================================
