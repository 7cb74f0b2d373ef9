---------------------------- MODULE ProxyChannel ----------------------------
(* Opening and closing proxy channels to one peer, on the client side:       *)
(* softbus_proxychannel_manager.c, softbus_proxychannel_transceiver.c and    *)
(* trans_auth_negotiation.c.                                                 *)
(*                                                                           *)
(* Five kinds of thread share the channel list and the connection list, each *)
(* list under a lock of its own:                                             *)
(*   - the openers, one per channel: TransProxyOpenConnChannel, and later    *)
(*     TransProxyCloseProxyChannel;                                          *)
(*   - the connection looper, which runs the connect results, the            *)
(*     disconnect and the data callbacks one after another (cb);             *)
(*   - the default looper, which runs the messages the others post (loopq,   *)
(*     loop) and the delayed checks of a key negotiation (nego);             *)
(*   - the timer thread (expired);                                           *)
(*   - the thread that reports the death of the client process (dying).      *)
(* A step is what one thread does between two acquisitions of a lock, or a   *)
(* longer piece where nothing in between is visible to the others.           *)
(*                                                                           *)
(* The request id an opener takes is named after the opener, which takes at  *)
(* most one.                                                                 *)
EXTENDS ProxyConnList

CONSTANTS
    Channels,           \* channel ids; each has one opener
    ControlTimeout,     \* PROXY_CHANNEL_CONTROL_TIMEOUT, in timer periods
    Workloads           \* what may go wrong in a behaviour

ASSUME ProxyAssumption ==
    /\ Requests = Channels
    /\ None \notin Channels
    /\ IsFiniteSet(Channels)
    /\ ControlTimeout \in Nat \ {0}
    /\ Workloads \subseteq [loss: 0 .. 1, death: BOOLEAN, closers: SUBSET Channels]

VARIABLES
    chan,           \* g_proxyChannelList: [status, reqId, connId, timeout] by channel
    opener,         \* [pc, again, connId] of each opener
    cb,             \* the callback the connection looper is in
    loopq,          \* messages posted to the default looper
    loop,           \* what the default looper is in the middle of
    nego,           \* channels whose key negotiation is being checked
    offered,        \* channels whose handshake request the peer has not answered
    expired,        \* items the timer has taken off the channel list
    dying,          \* connection ids of the channels of the dead client
    env,            \* what may still go wrong
    answers,        \* ghost: how often an opener was told the outcome
    closed,         \* ghost: channels the application, or its death, closed
    raced           \* ghost: the races that have happened

chanVars == <<chan, opener>>
loopVars == <<loopq, loop, nego>>
ghosts == <<answers, closed, raced>>
vars == <<connVars, chanVars, cb, loopVars, offered, expired, dying, env, ghosts>>

NoChan == [status |-> "none", reqId |-> None, connId |-> 0, timeout |-> 0]

NoCallback == [kind |-> "none", id |-> None, connId |-> 0, found |-> FALSE]

NoWork == [pc |-> "none", id |-> None, connId |-> 0]

Waiting == {"connecting", "handshaking"}

Races == {"unreferenced", "joined", "overtaken", "stranded"}

Chan ==
    [status: {"none", "new", "completed"} \cup Waiting, reqId: Channels \cup {None},
     connId: Nat, timeout: 0 .. ControlTimeout]

Opener ==
    [pc: {"idle", "exist", "addref", "update", "new", "additem", "connect", "undo", "ok", "err"},
     again: BOOLEAN, connId: Nat]

Callback ==
    [kind: {"none", "disconnect", "reset"}, id: {None}, connId: Nat, found: {FALSE}]
        \cup [kind: {"succeed", "failed", "error"}, id: Channels, connId: Nat, found: BOOLEAN]

Message ==
    [what: {"handshake", "openfail", "resetpeer", "disconnect"}, id: Channels, connId: Nat]

Work == [pc: {"none", "drop", "delete"}, id: Channels \cup {None}, connId: Nat]

TypeOK ==
    /\ ConnTypeOK
    /\ chan \in [Channels -> Chan]
    /\ opener \in [Channels -> Opener]
    /\ cb \in Callback
    /\ loopq \in Seq(Message)
    /\ loop \in Work
    /\ nego \subseteq Channels
    /\ offered \subseteq Channels
    /\ expired \subseteq [id: Channels, reqId: Channels \cup {None}, connId: Nat, status: Waiting]
    /\ dying \in Seq(Nat)
    /\ answers \in [Channels -> Nat]
    /\ closed \subseteq Channels
    /\ raced \subseteq Races

Init ==
    /\ ConnInit
    /\ chan = [c \in Channels |-> NoChan]
    /\ opener = [c \in Channels |-> [pc |-> "idle", again |-> FALSE, connId |-> 0]]
    /\ cb = NoCallback
    /\ loopq = <<>>
    /\ loop = NoWork
    /\ nego = {}
    /\ offered = {}
    /\ expired = {}
    /\ dying = <<>>
    /\ env \in Workloads
    /\ answers = [c \in Channels |-> 0]
    /\ closed = {}
    /\ raced = {}

-----------------------------------------------------------------------------
(* The channel list                                                          *)

Present(c) == chan[c].status # "none"

\* Mutant: only the channel that made the request is looked up.
WaitingOnOwn(r) == {c \in {r} : chan[c].status = "connecting"}

\* The channels of a request that still wait for its outcome.
WaitingOn(r) == {c \in Channels : chan[c].status = "connecting" /\ chan[c].reqId = r}

OnConn(k) == {c \in Channels : Present(c) /\ chan[c].connId = k}

Without(S) == [c \in Channels |-> IF c \in S THEN NoChan ELSE chan[c]]

\* TransProxySpecialUpdateChanInfo: nothing when the channel is gone.
Requested(c, r) ==
    IF Present(c) THEN [chan EXCEPT ![c].status = "connecting", ![c].reqId = r] ELSE chan

Attached(S, k) ==
    [c \in Channels |->
        IF c \in S /\ Present(c)
        THEN [chan[c] EXCEPT !.status = "handshaking", !.connId = k]
        ELSE chan[c]]

\* The channels of a set, once each, in an order the channel list may hold them.
ListOrder(S) ==
    CHOOSE q \in [1 .. Cardinality(S) -> S] : \A i, j \in DOMAIN q : q[i] = q[j] => i = j

\* A message to the default looper; one per channel, in list order.
Msg(what, c, k) == [what |-> what, id |-> c, connId |-> k]

Posts(what, S) == LET q == ListOrder(S) IN [i \in DOMAIN q |-> Msg(what, q[i], 0)]

Told(S) == [c \in Channels |-> IF c \in S THEN answers[c] + 1 ELSE answers[c]]

Note(race, happened) == raced' = IF happened THEN raced \cup {race} ELSE raced

\* Channels that a thread is working on by their id, with no lock held: it will
\* report their failure, or attach them, whoever removes them meanwhile.
InHand ==
    {c \in Channels : \/ opener[c].pc \notin {"idle", "ok", "err"}
                      \/ loop.id = c
                      \/ cb.kind = "error" /\ cb.id = c}

Overtakes(S) == Note("overtaken", S \cap InHand # {})

-----------------------------------------------------------------------------
(* TransProxyOpenConnChannel                                                 *)

Goto(c, pc) == opener' = [opener EXCEPT ![c].pc = pc]

\* One of the two ways to a connection did not work out: try the other one
\* once, then give the channel up.
Other(c, pc) ==
    opener' = [opener EXCEPT ![c].pc = IF opener[c].again THEN "undo" ELSE pc, ![c].again = TRUE]

\* TransProxyCreateChanInfo, and the first look at the connection list.
Open(c) ==
    /\ opener[c].pc = "idle"
    /\ chan' = [chan EXCEPT ![c].status = "new"]
    /\ Goto(c, IF conn.state # "none" THEN "exist" ELSE "new")
    /\ UNCHANGED <<connVars, cb, loopVars, offered, expired, dying, env, ghosts>>

\* TransProxyConnExistProc up to its second lock: join the request under way,
\* with the channel list locked, or note the connection.
ConnExistProc(c) ==
    /\ opener[c].pc = "exist"
    /\ \/ /\ conn.state = "none"
          /\ Other(c, "new")
          /\ UNCHANGED chan
       \/ /\ conn.state = "connecting"
          /\ chan' = Requested(c, conn.reqId)
          /\ Goto(c, "ok")
       \/ /\ conn.state = "connected"
          /\ opener' = [opener EXCEPT ![c].pc = "addref", ![c].connId = conn.connId]
          /\ UNCHANGED chan
    /\ UNCHANGED <<connVars, cb, loopVars, offered, expired, dying, env, ghosts>>

\* Its TransAddConnRefByConnId, the connection being perhaps gone by now.
AddConnRef(c) ==
    /\ opener[c].pc = "addref"
    /\ conn' = WithRefs(opener[c].connId, 1)
    /\ IF HasConn(opener[c].connId) THEN Goto(c, "update") ELSE Other(c, "new")
    /\ UNCHANGED <<attempts, links, downs, chan, cb, loopVars, offered, expired, dying, env, ghosts>>

\* Its last two calls: attach the channel and have the handshake sent.
AttachChannel(c) ==
    /\ opener[c].pc = "update"
    /\ chan' = Attached({c}, opener[c].connId)
    /\ loopq' = Append(loopq, Msg("handshake", c, 0))
    /\ Goto(c, "ok")
    /\ UNCHANGED <<connVars, cb, loop, nego, offered, expired, dying, env, ghosts>>

\* TransProxyOpenNewConnChannel: a new request id for the channel,
NewRequest(c) ==
    /\ opener[c].pc = "new"
    /\ chan' = Requested(c, c)
    /\ Goto(c, "additem")
    /\ UNCHANGED <<connVars, cb, loopVars, offered, expired, dying, env, ghosts>>

\* its TransAddConnItem, which finds out that another opener was faster,
AddConnItem(c) ==
    /\ opener[c].pc = "additem"
    /\ \/ /\ conn.state = "none"
          /\ conn' = ConnectingItem(c)
          /\ Goto(c, "connect")
       \/ /\ conn.state # "none"
          /\ Other(c, "exist")
          /\ UNCHANGED conn
    /\ UNCHANGED <<attempts, links, downs, chan, cb, loopVars, offered, expired, dying, env, ghosts>>

\* and its TransProxyConnectDevice, accepted or refused.  A channel that
\* joined a request that is then refused is left to the timer.
ConnectDevice(c) ==
    /\ opener[c].pc = "connect"
    /\ \/ /\ attempts' = attempts \cup {c}
          /\ Goto(c, "ok")
          /\ UNCHANGED <<conn, raced>>
       \/ /\ conn' = WithoutRequests({c})
          /\ Goto(c, "undo")
          /\ Note("stranded", WaitingOn(c) \ {c} # {})
          /\ UNCHANGED attempts
    /\ UNCHANGED <<links, downs, chan, cb, loopVars, offered, expired, dying, env, answers, closed>>

\* TransProxyDelChanByChanId, and the error is returned.
Undo(c) ==
    /\ opener[c].pc = "undo"
    /\ chan' = Without({c})
    /\ Goto(c, "err")
    /\ answers' = Told({c})
    /\ UNCHANGED <<connVars, cb, loopVars, offered, expired, dying, env, closed, raced>>

\* TransProxyCloseProxyChannel, of a channel whose opening was under way.
Close(c) ==
    /\ opener[c].pc = "ok"
    /\ c \in env.closers
    /\ Present(c)
    /\ chan' = Without({c})
    /\ loopq' = Append(loopq, Msg("resetpeer", c, chan[c].connId))
    /\ closed' = closed \cup {c}
    /\ Overtakes({c})
    /\ UNCHANGED <<connVars, opener, cb, loop, nego, offered, expired, dying, env, answers>>

OpenerStep(c) ==
    \/ Open(c) \/ ConnExistProc(c) \/ AddConnRef(c) \/ AttachChannel(c)
    \/ NewRequest(c) \/ AddConnItem(c) \/ ConnectDevice(c) \/ Undo(c)

-----------------------------------------------------------------------------
(* The connection looper                                                     *)

\* TransOnConnectSucceed, TransSetConnStateByReqId: the item becomes
\* connected, or the link is given back at once when the item is gone.
OnConnectSucceed(r) ==
    /\ cb = NoCallback
    /\ r \in attempts
    /\ attempts' = attempts \ {r}
    /\ LET k == GrantedId
           found == conn.state = "connecting" /\ conn.reqId = r
       IN  /\ conn' = IF found
                      THEN [conn EXCEPT !.state = "connected", !.connId = k, !.reqId = None]
                      ELSE conn
           /\ links' = IF found THEN Granted ELSE Released(Granted, k)
           /\ cb' = [kind |-> "succeed", id |-> r, connId |-> k, found |-> found]
    /\ UNCHANGED <<downs, chanVars, loopVars, offered, expired, dying, env, ghosts>>

\* TransOnConnectSucceed, TransProxyChanProcessByReqId: attach the channels
\* that waited, or drop the connection when none is left.
ChanProcessByReqId ==
    LET k == cb.connId
        U == WaitingOn(cb.id)
    IN  /\ cb.kind = "succeed"
        /\ chan' = Attached(U, k)
        /\ loopq' = loopq \o Posts("handshake", U)
        /\ IF U # {}
           THEN /\ conn' = WithRefs(k, Cardinality(U))
                /\ Note("unreferenced", ~HasConn(k))
                /\ UNCHANGED links
           ELSE IF cb.found
           THEN /\ CloseConn(k)
                /\ Note("joined", ~HasConn(k) \/ conn.ref > 0)
           ELSE UNCHANGED <<conn, links, raced>>
        /\ cb' = NoCallback
        /\ UNCHANGED <<attempts, downs, opener, loop, nego, offered, expired, dying, env,
                       answers, closed>>

\* TransOnConnectFailed, TransDelConnByReqId
OnConnectFailed(r) ==
    /\ cb = NoCallback
    /\ r \in attempts
    /\ attempts' = attempts \ {r}
    /\ conn' = WithoutRequests({r})
    /\ cb' = [NoCallback EXCEPT !.kind = "failed", !.id = r]
    /\ UNCHANGED <<links, downs, chanVars, loopVars, offered, expired, dying, env, ghosts>>

\* TransOnConnectFailed, TransProxyDelChanByReqId
DelChanByReqId ==
    LET U == WaitingOn(cb.id)
    IN  /\ cb.kind = "failed"
        /\ chan' = Without(U)
        /\ loopq' = loopq \o Posts("openfail", U)
        /\ Overtakes(U)
        /\ cb' = NoCallback
        /\ UNCHANGED <<connVars, opener, loop, nego, offered, expired, dying, env, answers, closed>>

\* Mutant: every channel of the lost link is reported as a failed open.
NotYetOpenAll(S) == S

\* TransProxyReleaseChannelList: the channels of a lost link whose open has
\* failed; the others are reported as closed.
NotYetOpen(S) == {c \in S : chan[c].status \in Waiting}

\* TransProxyOnDisConnect, TransProxyDelByConnId: every channel of the link
\* goes, and its opener is told.
OnDisConnect(k) ==
    LET U == OnConn(k)
    IN  /\ cb = NoCallback
        /\ k \in downs
        /\ downs' = downs \ {k}
        /\ chan' = Without(U)
        /\ answers' = Told(NotYetOpen(U))
        /\ Overtakes(U)
        /\ cb' = [NoCallback EXCEPT !.kind = "disconnect", !.connId = k]
        /\ UNCHANGED <<conn, attempts, links, opener, loopVars, offered, expired, dying, env, closed>>

\* TransProxyOnDisConnect, TransDelConnByConnId
DelConnByConnId ==
    /\ cb.kind = "disconnect"
    /\ conn' = WithoutConn(cb.connId)
    /\ cb' = NoCallback
    /\ UNCHANGED <<attempts, links, downs, chanVars, loopVars, offered, expired, dying, env, ghosts>>

\* A data callback: the peer answers a handshake request.
Answer(c) ==
    /\ cb = NoCallback
    /\ c \in offered
    /\ offered' = offered \ {c}

\* TransProxyProcessHandshakeAckMsg of an acknowledgement: the channel is
\* open.  One that is gone, or a message that cannot be read, is dropped.
HandshakeAck(c) ==
    /\ Answer(c)
    /\ \/ /\ Present(c)
          /\ chan' = [chan EXCEPT ![c].status = "completed", ![c].timeout = 0]
          /\ answers' = Told({c})
       \/ UNCHANGED <<chan, answers>>
    /\ UNCHANGED <<connVars, opener, cb, loopVars, expired, dying, env, closed, raced>>

\* TransProxyProcessHandshakeAckMsg of a refusal, TransProxyProcessErrMsg:
\* look the channel up,
HandshakeErr(c) ==
    /\ Answer(c)
    /\ Present(c)
    /\ cb' = [NoCallback EXCEPT !.kind = "error", !.id = c]
    /\ UNCHANGED <<connVars, chanVars, loopVars, expired, dying, env, ghosts>>

\* then close it, and report the failure however that went.
ProcessErrMsg ==
    LET c == cb.id
    IN  /\ cb.kind = "error"
        /\ chan' = Without({c})
        /\ loopq' = IF Present(c)
                    THEN Append(loopq, Msg("resetpeer", c, chan[c].connId))
                    ELSE loopq
        /\ answers' = Told({c})
        /\ cb' = NoCallback
        /\ UNCHANGED <<connVars, opener, loop, nego, offered, expired, dying, env, closed, raced>>

\* TransProxyProcessResetMsg, TransProxyResetChan: the peer refuses the
\* handshake or closes the open channel.
ResetMsg(c) ==
    /\ \/ Answer(c) /\ chan[c].status = "handshaking"
       \/ cb = NoCallback /\ chan[c].status = "completed" /\ UNCHANGED offered
    /\ chan' = Without({c})
    /\ answers' = Told(NotYetOpen({c}))
    /\ Overtakes({c})
    /\ cb' = [NoCallback EXCEPT !.kind = "reset", !.connId = chan[c].connId]
    /\ UNCHANGED <<connVars, opener, loopVars, expired, dying, env, closed>>

\* ... and its TransProxyCloseConnChannelReset.
ResetConn ==
    /\ cb.kind = "reset"
    /\ CloseConn(cb.connId)
    /\ cb' = NoCallback
    /\ UNCHANGED <<attempts, downs, chanVars, loopVars, offered, expired, dying, env, ghosts>>

\* TransProxyProcessReNegotiateMsg: the peer lost the key.  (Not modelled: the
\* negotiation cannot be started, which takes a failed allocation or lock.)
ReNegotiate(c) ==
    /\ Answer(c)
    /\ chan[c].status = "handshaking"
    /\ nego' = nego \cup {c}
    /\ UNCHANGED <<connVars, chanVars, cb, loopq, loop, expired, dying, env, ghosts>>

CallbackStep ==
    \/ ChanProcessByReqId \/ DelChanByReqId \/ DelConnByConnId
    \/ ProcessErrMsg \/ ResetConn

\* The connection layer loses a link: one the proxy has no reference on at any
\* time, the others as often as the workload says.
LoseLink(k) ==
    /\ LinkDown(k)
    /\ IF links[k].held <= 0 THEN UNCHANGED env
       ELSE env.loss > 0 /\ env' = [env EXCEPT !.loss = @ - 1]
    /\ UNCHANGED <<chanVars, cb, loopVars, offered, expired, dying, ghosts>>

-----------------------------------------------------------------------------
(* The default looper: TransProxyLoopMsgHandler                              *)

\* The head of the queue is a message of this kind, and it is taken off.
Handle(what) ==
    /\ loop = NoWork
    /\ loopq # <<>>
    /\ Head(loopq).what = what
    /\ loopq' = Tail(loopq)

\* TransProxyNegoSessionKeySucc: send the handshake request.
NegoSessionKeySucc(c) ==
    \/ /\ ~Present(c)
       /\ UNCHANGED <<offered, loop>>
    \/ /\ Present(c)
       /\ chan[c].connId # 0 /\ links[chan[c].connId].up
       /\ offered' = offered \cup {c}
       /\ UNCHANGED loop
    \/ /\ Present(c)
       /\ loop' = [pc |-> "drop", id |-> c, connId |-> chan[c].connId]
       /\ UNCHANGED offered

\* TransProxyNegoSessionKeyFail, up to its copy of the channel.
NegoSessionKeyFail(c) ==
    /\ loop' = IF Present(c)
               THEN [pc |-> "drop", id |-> c, connId |-> chan[c].connId]
               ELSE loop
    /\ UNCHANGED offered

\* TransProxyOpenProxyChannelSuccess: a channel that is gone, or a link
\* whose authentication data cannot be found, ends it; otherwise the key is
\* used or negotiated.
HandshakeMsg ==
    LET c == Head(loopq).id
    IN  /\ Handle("handshake")
        /\ \/ UNCHANGED <<loop, nego, offered>>
           \/ /\ Present(c)
              /\ links[chan[c].connId].up
              /\ NegoSessionKeySucc(c)
              /\ UNCHANGED nego
           \/ /\ Present(c)
              /\ links[chan[c].connId].up
              /\ nego' = nego \cup {c}
              /\ UNCHANGED <<loop, offered>>
        /\ UNCHANGED <<connVars, chanVars, cb, expired, dying, env, ghosts>>

\* TransAuthNegoTaskManager, once the negotiation is over or has lasted too long.
AuthNegoTask(c) ==
    /\ loop = NoWork
    /\ c \in nego
    /\ nego' = nego \ {c}
    /\ NegoSessionKeySucc(c) \/ NegoSessionKeyFail(c)
    /\ UNCHANGED <<connVars, chanVars, cb, loopq, expired, dying, env, ghosts>>

\* The failed channel's reference is given back ...
DropConn ==
    /\ loop.pc = "drop"
    /\ CloseConn(loop.connId)
    /\ loop' = [loop EXCEPT !.pc = "delete"]
    /\ UNCHANGED <<attempts, downs, chanVars, cb, loopq, nego, offered, expired, dying, env, ghosts>>

\* ... its opener is told, and it is deleted.
DeleteChan ==
    /\ loop.pc = "delete"
    /\ answers' = Told({loop.id})
    /\ chan' = Without({loop.id})
    /\ loop' = NoWork
    /\ UNCHANGED <<connVars, opener, cb, loopq, nego, offered, expired, dying, env, closed, raced>>

OpenFailMsg ==
    /\ Handle("openfail")
    /\ answers' = Told({Head(loopq).id})
    /\ UNCHANGED <<connVars, chanVars, cb, loop, nego, offered, expired, dying, env, closed, raced>>

\* TransProxyResetAndCloseConn, and the LOOP_DISCONNECT_MSG case.
ReleaseMsg ==
    /\ Handle("resetpeer") \/ Handle("disconnect")
    /\ CloseConn(Head(loopq).connId)
    /\ UNCHANGED <<attempts, downs, chanVars, cb, loop, nego, offered, expired, dying, env, ghosts>>

LoopStep == HandshakeMsg \/ DropConn \/ DeleteChan \/ OpenFailMsg \/ ReleaseMsg

-----------------------------------------------------------------------------
(* The timer and the death of the client                                     *)

\* A channel one period older: its count stops at the limit, where only
\* channels that wait are looked at.
Older(ch) ==
    IF ch.timeout < ControlTimeout THEN [ch EXCEPT !.timeout = @ + 1] ELSE ch

\* Mutant: the channels that wait for a connection are forgotten.
TimedOutHandshakes(c) ==
    chan[c].status = "handshaking" /\ chan[c].timeout + 1 >= ControlTimeout

\* A channel that has waited too long when this period is counted.
TimedOut(c) == chan[c].status \in Waiting /\ chan[c].timeout + 1 >= ControlTimeout

\* TransProxyTimerProc: age every channel and take the late ones off the
\* list.  The age of an open channel is never looked at.
TimerProc ==
    LET late == {c \in Channels : TimedOut(c)}
    IN  /\ expired = {}
        /\ chan' = [c \in Channels |->
                       IF c \in late THEN NoChan
                       ELSE IF chan[c].status \in {"none", "completed"} THEN chan[c]
                       ELSE Older(chan[c])]
        /\ expired' = {[id |-> c, reqId |-> chan[c].reqId, connId |-> chan[c].connId,
                        status |-> chan[c].status] : c \in late}
        /\ Overtakes(late)
        /\ UNCHANGED <<connVars, opener, cb, loopVars, offered, dying, env, answers, closed>>

\* TransProxyTimerItemProc of one of them.
TimerItemProc(x) ==
    /\ expired' = expired \ {x}
    /\ \/ /\ x.status = "connecting"
          /\ conn' = WithoutRequests({x.reqId})
          /\ loopq' = Append(loopq, Msg("openfail", x.id, 0))
       \/ /\ x.status = "handshaking"
          /\ loopq' = loopq \o <<Msg("openfail", x.id, 0), Msg("disconnect", x.id, x.connId)>>
          /\ UNCHANGED conn
    /\ UNCHANGED <<attempts, links, downs, chanVars, cb, loop, nego, offered, dying, env, ghosts>>

TimerItems == \E x \in expired : TimerItemProc(x)

\* TransProxyDeathCallback: the client process is gone, and so are its channels.
DeathCallback ==
    LET S == {c \in Channels : Present(c)}
    IN  /\ env.death
        /\ env' = [env EXCEPT !.death = FALSE]
        /\ chan' = Without(S)
        /\ dying' = LET q == ListOrder(S) IN [i \in DOMAIN q |-> chan[q[i]].connId]
        /\ closed' = closed \cup S
        /\ Overtakes(S)
        /\ UNCHANGED <<connVars, opener, cb, loopVars, offered, expired, answers>>

\* TransProxyDestroyChannelList, of one of them.
DestroyChannel ==
    /\ dying # <<>>
    /\ dying' = Tail(dying)
    /\ CloseConn(Head(dying))
    /\ UNCHANGED <<attempts, downs, chanVars, cb, loopVars, offered, expired, env, ghosts>>

-----------------------------------------------------------------------------
Next ==
    \/ \E c \in Channels :
          \/ OpenerStep(c) \/ Close(c)
          \/ OnConnectSucceed(c) \/ OnConnectFailed(c)
          \/ HandshakeAck(c) \/ HandshakeErr(c) \/ ResetMsg(c) \/ ReNegotiate(c)
          \/ AuthNegoTask(c)
    \/ \E k \in ConnIds : LoseLink(k) \/ OnDisConnect(k)
    \/ CallbackStep
    \/ LoopStep
    \/ TimerProc \/ TimerItems
    \/ DeathCallback \/ DestroyChannel

\* The timer ticks, and the loopers and the timer finish what they began.
\* Nothing is asked of the connection layer or of the peer.
Fairness ==
    /\ WF_vars(CallbackStep)
    /\ WF_vars(LoopStep)
    /\ WF_vars(TimerProc)
    /\ WF_vars(TimerItems)

Spec == Init /\ [][Next]_vars /\ Fairness

-----------------------------------------------------------------------------
(* Correctness                                                               *)

CountOf(k, q) == Cardinality({i \in DOMAIN q : q[i] = k})

\* The references on connection k that somebody still has to give back:
\* channels attached to it, except one the looper has already dropped; the
\* opener about to attach; and the channels that were taken off the list and
\* whose release is on its way in a message, with the timer, in the reset
\* callback or with the death callback.
Owed(k) ==
    Cardinality({c \in OnConn(k) : ~(loop.pc = "delete" /\ loop.id = c)})
        + Cardinality({c \in Channels : opener[c].pc = "update" /\ opener[c].connId = k})
        + Cardinality({i \in DOMAIN loopq : /\ loopq[i].what \in {"resetpeer", "disconnect"}
                                            /\ loopq[i].connId = k})
        + Cardinality({x \in expired : x.connId = k})
        + (IF cb.kind = "reset" /\ cb.connId = k THEN 1 ELSE 0)
        + CountOf(k, dying)

(* A link is not kept after the last of its users: while it is up, the       *)
(* reference count of its item is at most the number of references still to  *)
(* be given back, an item without any is one whose request has just          *)
(* succeeded, and the proxy holds at most one reference on the link for the  *)
(* item and none without it, however the channels open, fail, time out, are  *)
(* reset, closed or die.  Nor is it given back under a channel: these counts *)
(* are exact, unless a channel was attached without a reference or the       *)
(* reference of a joining opener was used to close (unreferenced, joined).   *)
(* A channel that is removed while another thread works on it by its id is   *)
(* the exception to both (overtaken).  TransAddConnRefByConnId,              *)
(* TransDecConnRefByConnId and their callers.                                *)
ReferencesMatchUsers ==
    "overtaken" \notin raced =>
        \A k \in UpLinks :
            LET held == IF HasConn(k) THEN 1 ELSE 0
                ref == IF HasConn(k) THEN conn.ref ELSE 0
            IN  /\ ref <= Owed(k)
                /\ HasConn(k) /\ Owed(k) = 0 => cb.kind = "succeed"
                /\ links[k].held <= held
                /\ raced \cap {"unreferenced", "joined"} = {} =>
                      ref = Owed(k) /\ links[k].held = held

(* An opener is told the outcome of its open at most once, by the return of  *)
(* an error, by OnProxyChannelOpened or by OnProxyChannelOpenFailed, unless  *)
(* its channel was removed while another thread was working on it.           *)
OpenAnsweredOnce ==
    "overtaken" \notin raced => \A c \in Channels : answers[c] <= 1

(* A channel that waits for a request waits for one whose outcome is still   *)
(* to come: its opener is about to make the request, the connection layer    *)
(* has it, or its callback is at work.  An opener that joins the request of  *)
(* another (TransProxyConnExistProc, under the channel lock) is never left   *)
(* behind, unless the request was refused on the spot after it joined.       *)
WaiterHasRequest ==
    "stranded" \notin raced =>
        \A c \in Channels :
            chan[c].status = "connecting" /\ opener[c].pc = "ok" =>
                LET r == chan[c].reqId
                IN  \/ opener[r].pc = "connect"
                    \/ r \in attempts
                    \/ cb.kind \in {"succeed", "failed"} /\ cb.id = r

\* Accepted opens that nobody has answered or closed.
Unanswered ==
    {c \in Channels : opener[c].pc = "ok" /\ answers[c] = 0 /\ c \notin closed}

(* The opens that were accepted are all answered in the end, unless the      *)
(* application closes the channel or dies: also when the connection layer or *)
(* the peer never answers, thanks to TransProxyTimerProc, and whatever races *)
(* happen.  (A channel is opened once, so none can wait forever behind       *)
(* another.)                                                                 *)
OpenAnswered == Unanswered # {} ~> Unanswered = {}
=============================================================================
