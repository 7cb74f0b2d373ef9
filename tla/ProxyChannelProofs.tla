------------------------- MODULE ProxyChannelProofs -------------------------
(***************************************************************************)
(* Proofs about ProxyChannel, for every finite set of channels: type       *)
(* correctness, and that a channel that waits for its connection has the   *)
(* request that will answer it.                                            *)
(***************************************************************************)
EXTENDS ProxyChannel, FiniteSetTheorems, TLAPS

Item ==
    [state: {"none", "connecting", "connected"}, reqId: Channels \cup {None},
     connId: Nat, ref: Nat]

Link == [up: BOOLEAN, held: Int]

\* What the operations on the connection list make of its item.
LEMMA ItemType ==
  ASSUME TypeOK
  PROVE  /\ conn \in Item
         /\ \A R : WithoutRequests(R) \in Item
         /\ \A k : WithoutConn(k) \in Item
         /\ \A k : \A n \in Nat : WithRefs(k, n) \in Item
         /\ \A k : WithoutRef(k) \in Item
         /\ \A c \in Channels : ConnectingItem(c) \in Item
<1>1. conn \in Item /\ NoConn \in Item
  BY Zenon, ProxyAssumption DEF TypeOK, ConnTypeOK, Item, NoConn
<1>2. \A k : \A n \in Nat : WithRefs(k, n) \in Item
  BY <1>1 DEF WithRefs, Item
<1>3. ASSUME NEW k PROVE WithoutRef(k) \in Item
  <2>1. CASE k # 0 /\ HasConn(k) /\ ~LastRef(k)
    <3>1. conn.ref - 1 \in Nat
      BY <1>1, <2>1 DEF LastRef, Item
    <3> QED
      BY Zenon, <1>1, <2>1, <3>1 DEF WithoutRef, Item
  <2> QED
    BY Zenon, <1>1, <2>1 DEF WithoutRef
<1> QED
  BY Zenon, <1>1, <1>2, <1>3 DEF WithoutRequests, WithoutConn, ConnectingItem, Item

LEMMA HeldType ==
  ASSUME NEW n \in Nat, NEW f \in [1 .. n -> Link], NEW k
  PROVE  /\ [f EXCEPT ![k].held = @ - 1] \in [1 .. n -> Link]
         /\ [f EXCEPT ![k].held = @ + 1] \in [1 .. n -> Link]
<1>1. CASE k \in 1 .. n
  <2>1. f[k].held \in Int /\ f[k] \in Link
    BY Zenon, <1>1 DEF Link
  <2>2. [f[k] EXCEPT !.held = f[k].held - 1] \in Link /\ [f[k] EXCEPT !.held = f[k].held + 1] \in Link
    BY <2>1 DEF Link
  <2> QED
    BY Zenon, <1>1, <2>2
<1>2. CASE k \notin 1 .. n
  BY Zenon, <1>2
<1> QED
  BY Zenon, <1>1, <1>2

\* What the connection layer does to the links.
LEMMA LinkType ==
  ASSUME TypeOK
  PROVE  /\ links \in Seq(Link)
         /\ \A ls \in Seq(Link) : \A k : Released(ls, k) \in Seq(Link)
         /\ GrantedId \in Nat
         /\ Granted \in Seq(Link)
         /\ ConnIds \subseteq Nat
<1>1. links \in Seq(Link) /\ Len(links) \in Nat /\ ConnIds \subseteq Nat
  BY DEF TypeOK, ConnTypeOK, Link, ConnIds
<1>2. ASSUME NEW ls \in Seq(Link), NEW k PROVE Released(ls, k) \in Seq(Link)
  <2>1. Len(ls) \in Nat /\ ls \in [1 .. Len(ls) -> Link]
    OBVIOUS
  <2>2. [ls EXCEPT ![k].held = @ - 1] \in [1 .. Len(ls) -> Link]
    BY Zenon, <2>1, HeldType
  <2> QED
    BY <2>1, <2>2 DEF Released
<1>3. GrantedId \in Nat
  <2>1. CASE UpLinks # {}
    <3>1. (CHOOSE k \in UpLinks : TRUE) \in UpLinks
      BY Zenon, <2>1
    <3> QED
      BY Zenon, <1>1, <2>1, <3>1 DEF GrantedId, UpLinks
  <2> QED
    BY <1>1, <2>1 DEF GrantedId
<1>4. Granted \in Seq(Link)
  <2>1. CASE UpLinks # {}
    <3>1. links \in [1 .. Len(links) -> Link]
      BY <1>1
    <3>2. [links EXCEPT ![GrantedId].held = @ + 1] \in [1 .. Len(links) -> Link]
      BY Zenon, <1>1, <3>1, HeldType
    <3> QED
      BY <1>1, <2>1, <3>2 DEF Granted
  <2>2. CASE UpLinks = {}
    BY <1>1, <2>2 DEF Granted, Link
  <2> QED
    BY Zenon, <2>1, <2>2
<1> QED
  BY Zenon, <1>1, <1>2, <1>3, <1>4

\* What the operations on the channel list make of it.
LEMMA ChanType ==
  ASSUME TypeOK
  PROVE  /\ \A S : Without(S) \in [Channels -> Chan]
         /\ \A c \in Channels : \A r \in Channels \cup {None} : Requested(c, r) \in [Channels -> Chan]
         /\ \A S : \A k \in Nat : Attached(S, k) \in [Channels -> Chan]
         /\ \A S : Told(S) \in [Channels -> Nat]
         /\ \A c \in Channels : Older(chan[c]) \in Chan
<1>1. chan \in [Channels -> Chan] /\ NoChan \in Chan
  BY ProxyAssumption DEF TypeOK, NoChan, Chan
<1>2. \A S : Without(S) \in [Channels -> Chan]
  BY Zenon, <1>1 DEF Without
<1>3. ASSUME NEW c \in Channels, NEW r \in Channels \cup {None}
      PROVE  Requested(c, r) \in [Channels -> Chan]
  BY Zenon, <1>1 DEF Requested, Chan, Waiting
<1>4. ASSUME NEW S, NEW k \in Nat PROVE Attached(S, k) \in [Channels -> Chan]
  BY Zenon, <1>1 DEF Attached, Chan, Waiting
<1>5. \A S : Told(S) \in [Channels -> Nat]
  BY DEF TypeOK, Told
<1>6. \A c \in Channels : Older(chan[c]) \in Chan
  BY <1>1, ProxyAssumption DEF Older, Chan
<1> QED
  BY Zenon, <1>2, <1>3, <1>4, <1>5, <1>6

\* A set of channels is enumerated without repetition.
LEMMA Enumeration ==
  ASSUME NEW S \in SUBSET Channels
  PROVE  /\ Cardinality(S) \in Nat
         /\ ListOrder(S) \in [1 .. Cardinality(S) -> S]
         /\ \A i, j \in 1 .. Cardinality(S) : ListOrder(S)[i] = ListOrder(S)[j] => i = j
<1>1. IsFiniteSet(S)
  BY Zenon, ProxyAssumption, FS_Subset
<1>2. Cardinality(S) \in Nat /\ ExistsBijection(1 .. Cardinality(S), S)
  BY Zenon, <1>1, FS_CardinalityType
<1>3. \E f \in [1 .. Cardinality(S) -> S] : \A i, j \in DOMAIN f : f[i] = f[j] => i = j
  <2>1. PICK f \in [1 .. Cardinality(S) -> S] : IsInjective(f)
    BY Zenon, <1>2 DEF ExistsBijection, Bijection, Injection
  <2> QED
    BY Zenon, <2>1 DEF IsInjective
<1>4. /\ ListOrder(S) \in [1 .. Cardinality(S) -> S]
      /\ \A i, j \in DOMAIN ListOrder(S) : ListOrder(S)[i] = ListOrder(S)[j] => i = j
  BY Zenon, <1>3 DEF ListOrder
<1> QED
  BY Zenon, <1>2, <1>4

\* The messages posted for a set of channels.
LEMMA PostsFacts ==
  ASSUME NEW S \in SUBSET Channels, NEW what \in {"handshake", "openfail"}
  PROVE  /\ Posts(what, S) \in Seq(Message)
         /\ Len(Posts(what, S)) = Cardinality(S)
         /\ \A i \in 1 .. Cardinality(S) :
               Posts(what, S)[i] = Msg(what, ListOrder(S)[i], 0) /\ ListOrder(S)[i] \in S
<1> DEFINE n == Cardinality(S)
           q == ListOrder(S)
<1>1. n \in Nat /\ q \in [1 .. n -> S]
  BY Zenon, Enumeration
<1>2. \A i \in 1 .. n : Msg(what, q[i], 0) \in Message
  BY Zenon, <1>1 DEF Msg, Message
<1>3. Posts(what, S) = [i \in 1 .. n |-> Msg(what, q[i], 0)]
  BY Zenon, <1>1 DEF Posts
<1> HIDE DEF n, q
<1>4. Posts(what, S) \in [1 .. n -> Message]
  BY Zenon, <1>2, <1>3
<1>5. Posts(what, S) \in Seq(Message)
  BY <1>1, <1>4
<1>6. Len(Posts(what, S)) = n
  BY <1>1, <1>4, <1>5
<1> QED
  BY Zenon, <1>1, <1>3, <1>5, <1>6 DEF n, q

-----------------------------------------------------------------------------
LEMMA CloseConnType ==
  ASSUME TypeOK, NEW k, CloseConn(k)
  PROVE  conn' \in Item /\ links' \in Seq(Link)
BY Zenon, ItemType, LinkType DEF CloseConn

\* The type invariant, as facts about single variables.
LEMMA Typed ==
  ASSUME conn' \in Item, attempts' \subseteq Channels, links' \in Seq(Link), downs' \subseteq Nat,
         chan' \in [Channels -> Chan], opener' \in [Channels -> Opener], cb' \in Callback,
         loopq' \in Seq(Message), loop' \in Work, nego' \subseteq Channels,
         offered' \subseteq Channels, dying' \in Seq(Nat), answers' \in [Channels -> Nat],
         closed' \subseteq Channels, raced' \subseteq Races,
         expired' \subseteq [id: Channels, reqId: Channels \cup {None}, connId: Nat,
                             status: Waiting]
  PROVE  TypeOK'
BY Zenon, ProxyAssumption DEF TypeOK, ConnTypeOK, Item, Link

LEMMA Fields ==
  ASSUME TypeOK
  PROVE  /\ conn \in Item /\ attempts \subseteq Channels /\ links \in Seq(Link) /\ downs \subseteq Nat
         /\ chan \in [Channels -> Chan] /\ opener \in [Channels -> Opener] /\ cb \in Callback
         /\ loopq \in Seq(Message) /\ loop \in Work /\ nego \subseteq Channels
         /\ offered \subseteq Channels /\ dying \in Seq(Nat) /\ answers \in [Channels -> Nat]
         /\ closed \subseteq Channels /\ raced \subseteq Races
         /\ expired \subseteq [id: Channels, reqId: Channels \cup {None}, connId: Nat,
                               status: Waiting]
BY Zenon, ProxyAssumption, ItemType, LinkType DEF TypeOK, ConnTypeOK

LEMMA OpenerTypes ==
  ASSUME TypeOK, NEW c \in Channels, OpenerStep(c) \/ Close(c)
  PROVE  TypeOK'
<1> USE DEF connVars, loopVars, chanVars, ghosts
<1>a. \A pc \in {"exist", "new", "update", "additem", "connect", "undo", "ok", "err"} :
         Goto(c, pc) \/ Other(c, pc) => opener' \in [Channels -> Opener]
  <2> SUFFICES ASSUME NEW pc \in {"exist", "new", "update", "additem", "connect", "undo", "ok", "err"},
                      Goto(c, pc) \/ Other(c, pc)
               PROVE  opener' \in [Channels -> Opener]
    BY Zenon
  <2>1. opener \in [Channels -> Opener] /\ opener[c] \in Opener
    BY Zenon, Fields
  <2>2. CASE Goto(c, pc)
    BY Zenon, <2>1, <2>2 DEF Goto, Opener
  <2>3. CASE Other(c, pc)
    BY Zenon, <2>1, <2>3 DEF Other, Opener
  <2> QED
    BY Zenon, <2>2, <2>3
<1>b. \A k \in Nat, what \in {"handshake", "resetpeer"} :
         Append(loopq, Msg(what, c, k)) \in Seq(Message)
  BY Fields DEF Msg, Message
<1>c. \A x \in Races : \A b : Note(x, b) => raced' \subseteq Races
  BY Zenon, Fields DEF Note
<1>1. CASE Open(c)
  <2>1. chan' \in [Channels -> Chan]
    BY ZenonT(30), Fields, <1>1 DEF Open, Chan
  <2> QED
    BY Zenon, Fields, <1>a, <1>1, <2>1, Typed DEF Open
<1>2. CASE ConnExistProc(c)
  <2>1. chan' \in [Channels -> Chan]
    BY Fields, <1>2, ChanType DEF ConnExistProc, Item
  <2>2. opener' \in [Channels -> Opener]
    <3>1. CASE conn.state = "connected"
      <4>1. conn.connId \in Nat /\ opener \in [Channels -> Opener] /\ opener[c] \in Opener
        BY Zenon, Fields DEF Item
      <4> QED
        BY <1>2, <3>1, <4>1 DEF ConnExistProc, Opener
    <3> QED
      BY Zenon, <1>a, <1>2, <3>1 DEF ConnExistProc
  <2> QED
    BY Zenon, Fields, <1>2, <2>1, <2>2, Typed DEF ConnExistProc
<1>3. CASE AddConnRef(c)
  BY Zenon, Fields, <1>a, <1>3, ItemType, Typed DEF AddConnRef
<1>4. CASE AttachChannel(c)
  <2>1. opener[c].connId \in Nat
    BY Zenon, Fields DEF Opener
  <2> QED
    BY Zenon, Fields, <1>a, <1>b, <1>4, <2>1, ChanType, Typed DEF AttachChannel
<1>5. CASE NewRequest(c)
  BY Zenon, Fields, <1>a, <1>5, ChanType, Typed DEF NewRequest
<1>6. CASE AddConnItem(c)
  BY Zenon, Fields, <1>a, <1>6, ItemType, Typed DEF AddConnItem
<1>7. CASE ConnectDevice(c)
  <2>1. raced' \subseteq Races
    BY Zenon, Fields, <1>c, <1>7 DEF ConnectDevice, Races
  <2> QED
    BY Zenon, Fields, <1>a, <1>7, <2>1, ItemType, Typed DEF ConnectDevice
<1>8. CASE Undo(c)
  BY Zenon, Fields, <1>a, <1>8, ChanType, Typed DEF Undo
<1>9. CASE Close(c)
  <2>1. raced' \subseteq Races
    BY Zenon, Fields, <1>c, <1>9 DEF Close, Races, Overtakes
  <2>2. chan[c].connId \in Nat
    BY Zenon, Fields DEF Chan
  <2> QED
    BY Zenon, Fields, <1>b, <1>9, <2>1, <2>2, ChanType, Typed DEF Close
<1> QED
  BY Zenon, <1>1, <1>2, <1>3, <1>4, <1>5, <1>6, <1>7, <1>8, <1>9 DEF OpenerStep

LEMMA CallbackTypes ==
  ASSUME TypeOK,
         \/ \E c \in Channels : \/ OnConnectSucceed(c) \/ OnConnectFailed(c) \/ HandshakeAck(c)
                                \/ HandshakeErr(c) \/ ResetMsg(c) \/ ReNegotiate(c)
         \/ \E k \in ConnIds : LoseLink(k) \/ OnDisConnect(k)
         \/ CallbackStep
  PROVE  TypeOK'
<1> USE DEF connVars, loopVars, chanVars, ghosts
<1>a. NoCallback \in Callback /\ cb.connId \in Nat /\ cb.id \in Channels \cup {None}
  BY Zenon, Fields DEF NoCallback, Callback
<1>b. \A x \in Races : \A b : Note(x, b) => raced' \subseteq Races
  BY Zenon, Fields DEF Note
<1>c. \A S : Overtakes(S) => raced' \subseteq Races
  BY Zenon, <1>b DEF Overtakes, Races
<1>d. \A S \in SUBSET Channels, what \in {"handshake", "openfail"} :
         loopq \o Posts(what, S) \in Seq(Message)
  BY Fields, PostsFacts
<1>e. \A r : WaitingOn(r) \in SUBSET Channels
  BY Zenon DEF WaitingOn
<1>1. ASSUME NEW r \in Channels, OnConnectSucceed(r) PROVE TypeOK'
  <2>1. conn' \in Item
    BY ZenonT(30), <1>1, Fields, LinkType DEF OnConnectSucceed, Item
  <2>2. links' \in Seq(Link)
    BY Zenon, <1>1, LinkType DEF OnConnectSucceed
  <2>3. cb' \in Callback
    BY Zenon, <1>1, LinkType DEF OnConnectSucceed, Callback
  <2>4. attempts' \subseteq Channels
    BY Zenon, <1>1, Fields DEF OnConnectSucceed
  <2> QED
    BY Zenon, <1>1, <2>1, <2>2, <2>3, <2>4, Fields, Typed DEF OnConnectSucceed
<1>2. ASSUME NEW r \in Channels, OnConnectFailed(r) PROVE TypeOK'
  <2>1. cb' \in Callback
    BY Zenon, <1>2 DEF OnConnectFailed, Callback, NoCallback
  <2> QED
    BY Zenon, <1>2, <2>1, Fields, ItemType, Typed DEF OnConnectFailed
<1>3. ASSUME NEW c \in Channels, Answer(c) PROVE offered' \subseteq Channels
  BY Zenon, <1>3, Fields DEF Answer
<1>4. ASSUME NEW c \in Channels, HandshakeAck(c) PROVE TypeOK'
  <2>1. chan' \in [Channels -> Chan]
    <3>1. chan \in [Channels -> Chan] /\ chan[c] \in Chan /\ 0 \in 0 .. ControlTimeout
      BY Fields, ProxyAssumption
    <3>2. [chan[c] EXCEPT !.status = "completed", !.timeout = 0] \in Chan
      BY Zenon, <3>1 DEF Chan
    <3>3. chan' = [chan EXCEPT ![c] = [chan[c] EXCEPT !.status = "completed", !.timeout = 0]]
          \/ chan' = chan
      BY ZenonT(30), <1>4, <3>1 DEF HandshakeAck
    <3> QED
      BY Zenon, <3>1, <3>2, <3>3
  <2> QED
    BY <1>3, <1>4, <2>1, Fields, ChanType, Typed DEF HandshakeAck
<1>5. ASSUME NEW c \in Channels, HandshakeErr(c) PROVE TypeOK'
  <2>1. cb' \in Callback
    BY ZenonT(30), <1>5 DEF HandshakeErr, Callback, NoCallback
  <2> QED
    BY Zenon, <1>3, <1>5, <2>1, Fields, Typed DEF HandshakeErr
<1>6. ASSUME NEW c \in Channels, ResetMsg(c) PROVE TypeOK'
  <2>1. cb' \in Callback
    <3>1. chan[c].connId \in Nat
      BY Zenon, Fields DEF Chan
    <3> QED
      BY Zenon, <1>6, <3>1, ProxyAssumption DEF ResetMsg, Callback, NoCallback
  <2>2. offered' \subseteq Channels
    BY Zenon, <1>3, <1>6, Fields DEF ResetMsg
  <2> QED
    BY ZenonT(30), <1>c, <1>6, <2>1, <2>2, Fields, ChanType, Typed DEF ResetMsg
<1>7. ASSUME NEW c \in Channels, ReNegotiate(c) PROVE TypeOK'
  BY Zenon, <1>3, <1>7, Fields, Typed DEF ReNegotiate
<1>8. ASSUME NEW k \in ConnIds, LoseLink(k) PROVE TypeOK'
  <2>1. k \in Nat /\ Len(links) \in Nat /\ links \in [1 .. Len(links) -> Link]
    BY Fields, LinkType
  <2>2. [links EXCEPT ![k].up = FALSE] \in [1 .. Len(links) -> Link]
    BY ZenonT(30), <2>1, <1>8 DEF ConnIds, Link
  <2>3. links' \in Seq(Link)
    BY <1>8, <2>1, <2>2 DEF LoseLink, LinkDown
  <2> QED
    BY Zenon, <1>8, <2>1, <2>3, Fields, Typed DEF LoseLink, LinkDown
<1>9. ASSUME NEW k \in ConnIds, OnDisConnect(k) PROVE TypeOK'
  <2>1. cb' \in Callback
    BY ZenonT(30), <1>9, LinkType, ProxyAssumption DEF OnDisConnect, Callback, NoCallback
  <2> QED
    BY Zenon, <1>c, <1>9, <2>1, Fields, ChanType, Typed DEF OnDisConnect
<1>10. CASE ChanProcessByReqId
  <2>1. Cardinality(WaitingOn(cb.id)) \in Nat
    BY Zenon, <1>e, Enumeration
  <2>2. conn' \in Item /\ links' \in Seq(Link)
    BY Zenon, <1>10, <2>1, Fields, ItemType, CloseConnType DEF ChanProcessByReqId
  <2>3. raced' \subseteq Races
    BY Zenon, <1>b, <1>10, Fields DEF ChanProcessByReqId, Races
  <2> QED
    BY Zenon, <1>a, <1>d, <1>e, <1>10, <2>2, <2>3, Fields, ChanType, Typed
       DEF ChanProcessByReqId
<1>11. CASE DelChanByReqId
  BY Zenon, <1>a, <1>c, <1>d, <1>e, <1>11, Fields, ChanType, Typed DEF DelChanByReqId
<1>12. CASE DelConnByConnId
  BY Zenon, <1>a, <1>12, Fields, ItemType, Typed DEF DelConnByConnId
<1>13. CASE ProcessErrMsg
  <2>1. loopq' \in Seq(Message)
    <3>1. cb.id \in Channels
      BY Zenon, <1>13, Fields DEF ProcessErrMsg, Callback
    <3>2. Msg("resetpeer", cb.id, chan[cb.id].connId) \in Message
      BY Zenon, <3>1, Fields DEF Msg, Message, Chan
    <3> QED
      BY <1>13, <3>2, Fields DEF ProcessErrMsg
  <2> QED
    BY Zenon, <1>a, <1>13, <2>1, Fields, ChanType, Typed DEF ProcessErrMsg
<1>14. CASE ResetConn
  BY Zenon, <1>a, <1>14, Fields, CloseConnType, Typed DEF ResetConn
<1> QED
  BY Zenon, <1>1, <1>2, <1>4, <1>5, <1>6, <1>7, <1>8, <1>9, <1>10, <1>11, <1>12, <1>13, <1>14
     DEF CallbackStep

LEMMA LooperTypes ==
  ASSUME TypeOK, LoopStep \/ \E c \in Channels : AuthNegoTask(c)
  PROVE  TypeOK'
<1> USE DEF connVars, loopVars, chanVars, ghosts
<1>a. ASSUME NEW what, Handle(what)
      PROVE  /\ loopq' \in Seq(Message)
             /\ Head(loopq).id \in Channels /\ Head(loopq).connId \in Nat
  <2>1. loopq \in Seq(Message) /\ loopq # <<>> /\ loopq' = Tail(loopq)
    BY Zenon, <1>a, Fields DEF Handle
  <2>2. Head(loopq) \in Message /\ Tail(loopq) \in Seq(Message)
    BY <2>1
  <2> QED
    BY Zenon, <2>1, <2>2 DEF Message
<1>b. ASSUME NEW c \in Channels, NegoSessionKeySucc(c) \/ NegoSessionKeyFail(c)
      PROVE  loop' \in Work /\ offered' \subseteq Channels
  <2>1. [pc |-> "drop", id |-> c, connId |-> chan[c].connId] \in Work
    BY Zenon, Fields DEF Work, Chan
  <2>2. CASE NegoSessionKeySucc(c)
    BY Zenon, <2>1, <2>2, Fields DEF NegoSessionKeySucc
  <2>3. CASE NegoSessionKeyFail(c)
    BY Zenon, <2>1, <2>3, Fields DEF NegoSessionKeyFail
  <2> QED
    BY Zenon, <1>b, <2>2, <2>3
<1>1. CASE HandshakeMsg
  <2>1. loop' \in Work /\ offered' \subseteq Channels /\ nego' \subseteq Channels
    BY Zenon, <1>a, <1>b, <1>1, Fields DEF HandshakeMsg
  <2> QED
    BY ZenonT(30), <1>a, <1>1, <2>1, Fields, Typed DEF HandshakeMsg
<1>2. ASSUME NEW c \in Channels, AuthNegoTask(c) PROVE TypeOK'
  BY Zenon, <1>b, <1>2, Fields, Typed DEF AuthNegoTask
<1>3. CASE DropConn
  <2>1. loop' \in Work
    BY Zenon, <1>3, Fields DEF DropConn, Work
  <2> QED
    BY Zenon, <1>3, <2>1, Fields, CloseConnType, Typed DEF DropConn
<1>4. CASE DeleteChan
  <2>1. NoWork \in Work
    BY Zenon DEF NoWork, Work
  <2> QED
    BY Zenon, <1>4, <2>1, Fields, ChanType, Typed DEF DeleteChan
<1>5. CASE OpenFailMsg
  BY Zenon, <1>a, <1>5, Fields, ChanType, Typed DEF OpenFailMsg
<1>6. CASE ReleaseMsg
  BY Zenon, <1>a, <1>6, Fields, CloseConnType, Typed DEF ReleaseMsg
<1> QED
  BY Zenon, <1>1, <1>2, <1>3, <1>4, <1>5, <1>6 DEF LoopStep

LEMMA TimerTypes ==
  ASSUME TypeOK, TimerProc \/ TimerItems \/ DeathCallback \/ DestroyChannel
  PROVE  TypeOK'
<1> USE DEF connVars, loopVars, chanVars, ghosts
<1>a. \A S : Overtakes(S) => raced' \subseteq Races
  BY Zenon, Fields DEF Overtakes, Note, Races
<1>1. CASE TimerProc
  <2>1. chan' \in [Channels -> Chan]
    <3>1. NoChan \in Chan
      BY ProxyAssumption DEF NoChan, Chan
    <3> QED
      BY Zenon, <1>1, <3>1, Fields, ChanType DEF TimerProc
  <2>2. \A c \in Channels :
           TimedOut(c) => [id |-> c, reqId |-> chan[c].reqId, connId |-> chan[c].connId,
                           status |-> chan[c].status]
                          \in [id: Channels, reqId: Channels \cup {None}, connId: Nat,
                               status: Waiting]
    BY Zenon, Fields DEF TimedOut, Chan
  <2>3. expired' \subseteq [id: Channels, reqId: Channels \cup {None}, connId: Nat, status: Waiting]
    BY Zenon, <1>1, <2>2 DEF TimerProc
  <2> QED
    BY Zenon, <1>a, <1>1, <2>1, <2>3, Fields, Typed DEF TimerProc
<1>2. CASE TimerItems
  <2>1. PICK x \in expired : TimerItemProc(x)
    BY Zenon, <1>2 DEF TimerItems
  <2>2. x.id \in Channels /\ x.connId \in Nat
    BY Zenon, Fields
  <2>3. Msg("openfail", x.id, 0) \in Message /\ Msg("disconnect", x.id, x.connId) \in Message
    BY Zenon, <2>2 DEF Msg, Message
  <2>4. loopq' \in Seq(Message)
    <3>1. <<Msg("openfail", x.id, 0), Msg("disconnect", x.id, x.connId)>> \in Seq(Message)
      BY <2>3
    <3> QED
      <4>1. loopq \in Seq(Message)
        BY Zenon, Fields
      <4>2. /\ Append(loopq, Msg("openfail", x.id, 0)) \in Seq(Message)
            /\ loopq \o <<Msg("openfail", x.id, 0), Msg("disconnect", x.id, x.connId)>>
                  \in Seq(Message)
        BY <2>3, <3>1, <4>1
      <4> QED
        BY <2>1, <4>2, Zenon DEF TimerItemProc
  <2> QED
    BY Zenon, <2>1, <2>4, Fields, ItemType, Typed DEF TimerItemProc
<1>3. CASE DeathCallback
  <2> DEFINE S == {c \in Channels : Present(c)}
             n == Cardinality(S)
             q == ListOrder(S)
  <2>1. n \in Nat /\ q \in [1 .. n -> S]
    BY Zenon, Enumeration
  <2>2. \A i \in 1 .. n : chan[q[i]].connId \in Nat
    BY Zenon, <2>1, Fields DEF Chan
  <2>3. dying' = [i \in 1 .. n |-> chan[q[i]].connId]
    BY Zenon, <1>3, <2>1 DEF DeathCallback
  <2>4. closed' \subseteq Channels
    BY Zenon, <1>3, Fields DEF DeathCallback
  <2> HIDE DEF n, q
  <2>5. dying' \in Seq(Nat)
    BY <2>1, <2>2, <2>3
  <2> QED
    BY Zenon, <1>a, <1>3, <2>4, <2>5, Fields, ChanType, Typed DEF DeathCallback
<1>4. CASE DestroyChannel
  BY <1>4, Fields, CloseConnType, Typed DEF DestroyChannel
<1> QED
  BY Zenon, <1>1, <1>2, <1>3, <1>4

LEMMA TypeStep ==
  ASSUME TypeOK, [Next]_vars
  PROVE  TypeOK'
<1>1. CASE UNCHANGED vars
  BY Zenon, <1>1 DEF vars, connVars, loopVars, chanVars, ghosts, TypeOK, ConnTypeOK
<1>2. CASE Next
  BY <1>2, OpenerTypes, CallbackTypes, LooperTypes, TimerTypes, Zenon DEF Next
<1> QED
  BY Zenon, <1>1, <1>2

LEMMA TypeInit == Init => TypeOK
<1> SUFFICES ASSUME Init PROVE TypeOK
  BY Zenon
<1>1. ConnTypeOK
  BY ProxyAssumption DEF Init, ConnInit, ConnTypeOK, NoConn
<1>2. NoChan \in Chan /\ NoCallback \in Callback /\ NoWork \in Work
  BY ProxyAssumption DEF NoChan, Chan, NoCallback, Callback, NoWork, Work
<1>3. <<>> \in Seq(Message) /\ <<>> \in Seq(Nat)
  OBVIOUS
<1> QED
  BY Zenon, <1>1, <1>2, <1>3 DEF Init, TypeOK, Opener

(* Every reachable state of the proxy channels is well typed: in particular  *)
(* the reference count of an item (TransDecConnRefByConnId) never falls      *)
(* below zero, and whoever posts to the default looper names a channel.      *)
THEOREM TypeCorrect == Spec => []TypeOK
BY TypeInit, TypeStep, PTL DEF Spec

-----------------------------------------------------------------------------
(* The queue of the default looper                                           *)

\* A message of a kind for a channel is in the queue of the default looper.
Queued(what, c) == \E i \in DOMAIN loopq : loopq[i].what = what /\ loopq[i].id = c

\* Two sequences one after the other.
LEMMA Concatenation ==
  ASSUME NEW T, NEW s \in Seq(T), NEW u \in Seq(T)
  PROVE  s \o u \in Seq(T) /\ Len(s \o u) = Len(s) + Len(u)
OBVIOUS

\* No handshake and no failure report is queued twice.
QueuedOnce ==
    \A i, j \in DOMAIN loopq :
        loopq[i].what \in {"handshake", "openfail"}
            /\ loopq[i].what = loopq[j].what /\ loopq[i].id = loopq[j].id => i = j

LEMMA QueueAppend ==
  ASSUME TypeOK, NEW m \in Message, loopq' = Append(loopq, m)
  PROVE  /\ \A w : \A c : Queued(w, c)' => Queued(w, c) \/ (m.what = w /\ m.id = c)
         /\ QueuedOnce /\ (m.what \in {"handshake", "openfail"} => ~Queued(m.what, m.id))
               => QueuedOnce'
<1>1. /\ loopq \in Seq(Message) /\ Len(loopq) \in Nat
      /\ DOMAIN loopq = 1 .. Len(loopq) /\ DOMAIN loopq' = 1 .. (Len(loopq) + 1)
      /\ \A i \in 1 .. Len(loopq) : loopq'[i] = loopq[i]
      /\ loopq'[Len(loopq) + 1] = m
  BY Fields
<1>2. ASSUME NEW w, NEW c, Queued(w, c)' PROVE Queued(w, c) \/ (m.what = w /\ m.id = c)
  <2>1. PICK i \in 1 .. (Len(loopq) + 1) : loopq'[i].what = w /\ loopq'[i].id = c
    BY Zenon, <1>1, <1>2 DEF Queued
  <2> QED
    BY <1>1, <2>1 DEF Queued
<1>3. ASSUME QueuedOnce, m.what \in {"handshake", "openfail"} => ~Queued(m.what, m.id)
      PROVE  QueuedOnce'
  <2> SUFFICES ASSUME NEW i \in 1 .. (Len(loopq) + 1), NEW j \in 1 .. (Len(loopq) + 1),
                      loopq'[i].what \in {"handshake", "openfail"},
                      loopq'[i].what = loopq'[j].what, loopq'[i].id = loopq'[j].id
               PROVE  i = j
    BY Zenon, <1>1 DEF QueuedOnce
  <2>1. CASE i \in 1 .. Len(loopq) /\ j \in 1 .. Len(loopq)
    BY Zenon, <1>1, <1>3, <2>1 DEF QueuedOnce
  <2>2. CASE i = Len(loopq) + 1 /\ j \in 1 .. Len(loopq)
    BY Zenon, <1>1, <1>3, <2>2 DEF Queued
  <2>3. CASE j = Len(loopq) + 1 /\ i \in 1 .. Len(loopq)
    BY Zenon, <1>1, <1>3, <2>3 DEF Queued
  <2> QED
    BY <1>1, <2>1, <2>2, <2>3
<1> QED
  BY Zenon, <1>2, <1>3

LEMMA QueuePosts ==
  ASSUME TypeOK, NEW S \in SUBSET Channels, NEW what \in {"handshake", "openfail"},
         loopq' = loopq \o Posts(what, S)
  PROVE  /\ \A w : \A c : Queued(w, c)' => Queued(w, c) \/ (w = what /\ c \in S)
         /\ QueuedOnce /\ (\A c \in S : ~Queued(what, c)) => QueuedOnce'
<1> DEFINE n == Len(loopq)
           k == Cardinality(S)
           q == ListOrder(S)
<1>1. n \in Nat /\ k \in Nat /\ loopq \in Seq(Message) /\ Posts(what, S) \in Seq(Message)
      /\ Len(Posts(what, S)) = k /\ DOMAIN loopq = 1 .. n
  BY Fields, Enumeration, PostsFacts
<1>2. /\ \A i \in 1 .. k : Posts(what, S)[i] = Msg(what, q[i], 0) /\ q[i] \in S
      /\ \A i, j \in 1 .. k : q[i] = q[j] => i = j
  BY ZenonT(30), PostsFacts, Enumeration
<1>3. /\ DOMAIN loopq' = 1 .. (n + k)
      /\ \A i \in 1 .. n : loopq'[i] = loopq[i]
      /\ \A i \in (n + 1) .. (n + k) : loopq'[i] = Posts(what, S)[i - n]
  <2>1. loopq' \in Seq(Message) /\ Len(loopq') = n + k
    BY Zenon, <1>1, Concatenation
  <2>2. \A i \in 1 .. (n + k) : loopq'[i] = IF i <= n THEN loopq[i] ELSE Posts(what, S)[i - n]
    BY <1>1
  <2> QED
    BY <1>1, <2>1, <2>2
<1> HIDE DEF n, k, q
<1>4. \A i \in (n + 1) .. (n + k) : loopq'[i].what = what /\ loopq'[i].id = q[i - n] /\ q[i - n] \in S
  BY <1>1, <1>2, <1>3 DEF Msg
<1>5. ASSUME NEW w, NEW c, Queued(w, c)' PROVE Queued(w, c) \/ (w = what /\ c \in S)
  <2>1. PICK i \in 1 .. (n + k) : loopq'[i].what = w /\ loopq'[i].id = c
    BY Zenon, <1>3, <1>5 DEF Queued
  <2>2. CASE i \in 1 .. n
    BY Zenon, <1>1, <1>3, <2>1, <2>2 DEF Queued
  <2>3. CASE i \in (n + 1) .. (n + k)
    BY Zenon, <1>4, <2>1, <2>3
  <2> QED
    BY <1>1, <2>2, <2>3
<1>6. ASSUME QueuedOnce, \A c \in S : ~Queued(what, c)
      PROVE  QueuedOnce'
  <2> SUFFICES ASSUME NEW i \in 1 .. (n + k), NEW j \in 1 .. (n + k),
                      loopq'[i].what \in {"handshake", "openfail"},
                      loopq'[i].what = loopq'[j].what, loopq'[i].id = loopq'[j].id
               PROVE  i = j
    BY Zenon, <1>3 DEF QueuedOnce
  <2>1. CASE i \in 1 .. n /\ j \in 1 .. n
    BY Zenon, <1>1, <1>3, <1>6, <2>1 DEF QueuedOnce
  <2>2. CASE i \in (n + 1) .. (n + k) /\ j \in 1 .. n
    BY ZenonT(30), <1>1, <1>3, <1>4, <1>6, <2>2 DEF Queued
  <2>3. CASE j \in (n + 1) .. (n + k) /\ i \in 1 .. n
    BY ZenonT(30), <1>1, <1>3, <1>4, <1>6, <2>3 DEF Queued
  <2>4. CASE i \in (n + 1) .. (n + k) /\ j \in (n + 1) .. (n + k)
    <3>1. q[i - n] = q[j - n] /\ i - n \in 1 .. k /\ j - n \in 1 .. k
      BY <1>1, <1>4, <2>4
    <3>2. i - n = j - n
      BY Zenon, <1>2, <3>1
    <3> QED
      BY <1>1, <3>2
  <2> QED
    BY <1>1, <2>1, <2>2, <2>3, <2>4
<1> QED
  BY Zenon, <1>5, <1>6

LEMMA QueueTail ==
  ASSUME TypeOK, loopq # <<>>, loopq' = Tail(loopq)
  PROVE  /\ Head(loopq) \in Message /\ Head(loopq) = loopq[1]
         /\ \A w : \A c : Queued(w, c)' => Queued(w, c)
         /\ QueuedOnce => QueuedOnce'
         /\ \A w \in {"handshake", "openfail"} : \A c :
               QueuedOnce /\ w = Head(loopq).what /\ c = Head(loopq).id => ~Queued(w, c)'
         /\ Queued(Head(loopq).what, Head(loopq).id)
<1>1. /\ loopq \in Seq(Message) /\ Len(loopq) \in Nat \ {0} /\ DOMAIN loopq = 1 .. Len(loopq)
      /\ Head(loopq) = loopq[1] /\ Head(loopq) \in Message
      /\ DOMAIN loopq' = 1 .. (Len(loopq) - 1)
      /\ \A i \in 1 .. (Len(loopq) - 1) : loopq'[i] = loopq[i + 1]
  <2>1. loopq \in Seq(Message)
    BY Zenon, Fields
  <2>2. Len(loopq) \in Nat \ {0} /\ DOMAIN loopq = 1 .. Len(loopq)
    BY <2>1
  <2>3. /\ Head(loopq) \in Message /\ Tail(loopq) \in Seq(Message) /\ Len(Tail(loopq)) = Len(loopq) - 1
        /\ \A i \in 1 .. Len(Tail(loopq)) : Tail(loopq)[i] = loopq[i + 1]
    BY <2>1
  <2>4. Head(loopq) = loopq[1]
    BY <2>1
  <2> QED
    BY <2>1, <2>2, <2>3, <2>4
<1>2. ASSUME NEW w, NEW c, Queued(w, c)'
      PROVE  \E i \in 2 .. Len(loopq) : loopq[i].what = w /\ loopq[i].id = c
  BY <1>1, <1>2 DEF Queued
<1>3. \A w : \A c : Queued(w, c)' => Queued(w, c)
  BY <1>1, <1>2 DEF Queued
<1>4. ASSUME QueuedOnce PROVE QueuedOnce'
  <2> SUFFICES ASSUME NEW i \in 1 .. (Len(loopq) - 1), NEW j \in 1 .. (Len(loopq) - 1),
                      loopq'[i].what \in {"handshake", "openfail"},
                      loopq'[i].what = loopq'[j].what, loopq'[i].id = loopq'[j].id
               PROVE  i = j
    BY ZenonT(30), <1>1 DEF QueuedOnce
  <2>1. i + 1 \in 1 .. Len(loopq) /\ j + 1 \in 1 .. Len(loopq)
    BY <1>1
  <2>2. i + 1 = j + 1
    BY <1>1, <1>4, <2>1 DEF QueuedOnce
  <2> QED
    BY <2>2
<1>5. ASSUME NEW w \in {"handshake", "openfail"}, NEW c,
             QueuedOnce, w = Head(loopq).what, c = Head(loopq).id, Queued(w, c)'
      PROVE  FALSE
  <2>1. PICK i \in 2 .. Len(loopq) : loopq[i].what = w /\ loopq[i].id = c
    BY <1>2, <1>5
  <2> QED
    BY <1>1, <1>5, <2>1 DEF QueuedOnce
<1>6. Queued(Head(loopq).what, Head(loopq).id)
  BY <1>1 DEF Queued
<1> QED
  BY Zenon, <1>1, <1>3, <1>4, <1>5, <1>6

\* The two messages of TransProxyTimerItemProc.
LEMMA QueueReport ==
  ASSUME TypeOK, NEW x \in Channels, NEW k \in Nat,
         loopq' = loopq \o <<Msg("openfail", x, 0), Msg("disconnect", x, k)>>
  PROVE  /\ \A w \in {"handshake", "openfail"} : \A c :
               Queued(w, c)' => Queued(w, c) \/ (w = "openfail" /\ c = x)
         /\ QueuedOnce /\ ~Queued("openfail", x) => QueuedOnce'
<1> DEFINE n == Len(loopq)
           a == Msg("openfail", x, 0)
           b == Msg("disconnect", x, k)
<1>1. loopq \in Seq(Message) /\ n \in Nat /\ a \in Message /\ b \in Message
      /\ DOMAIN loopq = 1 .. n
  BY Fields DEF Msg, Message
<1>2. <<a, b>> \in Seq(Message) /\ Len(<<a, b>>) = 2 /\ <<a, b>>[1] = a /\ <<a, b>>[2] = b
  BY <1>1
<1>3. a.what = "openfail" /\ a.id = x /\ b.what = "disconnect"
  BY Zenon DEF Msg
<1> HIDE DEF a, b
<1>4. /\ DOMAIN loopq' = 1 .. (n + 2)
      /\ \A i \in 1 .. n : loopq'[i] = loopq[i]
      /\ loopq'[n + 1] = a /\ loopq'[n + 2] = b
  <2>0. loopq' = loopq \o <<a, b>>
    BY Zenon DEF a, b
  <2>1. loopq' \in Seq(Message) /\ Len(loopq') = n + 2
    BY <1>1, <1>2, <2>0
  <2>2. \A i \in 1 .. (n + 2) : loopq'[i] = IF i <= n THEN loopq[i] ELSE <<a, b>>[i - n]
    BY <1>1, <1>2, <2>0
  <2>3. (n + 1) - n = 1 /\ (n + 2) - n = 2
    BY <1>1
  <2> QED
    BY <1>1, <1>2, <2>1, <2>2, <2>3
<1> HIDE DEF n
<1>5. ASSUME NEW w \in {"handshake", "openfail"}, NEW c, Queued(w, c)'
      PROVE  Queued(w, c) \/ (w = "openfail" /\ c = x)
  <2>1. PICK i \in 1 .. (n + 2) : loopq'[i].what = w /\ loopq'[i].id = c
    BY Zenon, <1>4, <1>5 DEF Queued
  <2>2. i \in 1 .. n \/ i = n + 1 \/ i = n + 2
    BY <1>1
  <2> QED
    BY Zenon, <1>1, <1>3, <1>4, <2>1, <2>2 DEF Queued
<1>6. ASSUME QueuedOnce, ~Queued("openfail", x) PROVE QueuedOnce'
  <2> SUFFICES ASSUME NEW i \in 1 .. (n + 2), NEW j \in 1 .. (n + 2),
                      loopq'[i].what \in {"handshake", "openfail"},
                      loopq'[i].what = loopq'[j].what, loopq'[i].id = loopq'[j].id
               PROVE  i = j
    BY ZenonT(30), <1>4 DEF QueuedOnce
  <2>1. (i \in 1 .. n \/ i = n + 1) /\ (j \in 1 .. n \/ j = n + 1)
    BY <1>1, <1>3, <1>4
  <2>2. CASE i \in 1 .. n /\ j \in 1 .. n
    BY Zenon, <1>1, <1>4, <1>6, <2>2 DEF QueuedOnce
  <2>3. CASE i = n + 1 /\ j \in 1 .. n
    BY SMTT(20), <1>1, <1>3, <1>4, <1>6, <2>3 DEF Queued
  <2>4. CASE j = n + 1 /\ i \in 1 .. n
    BY ZenonT(30), <1>1, <1>3, <1>4, <1>6, <2>4 DEF Queued
  <2> QED
    BY Zenon, <2>1, <2>2, <2>3, <2>4
<1> QED
  BY Zenon, <1>5, <1>6

-----------------------------------------------------------------------------
(* Proof that a channel of ProxyChannel that waits for a connect request     *)
(* waits for one whose outcome is still to come, for every finite set of     *)
(* channels, every time-out and every workload.                              *)
\* An item that is connecting has its request under way.
ItemHasRequest ==
    conn.state = "connecting" =>
        /\ conn.reqId \in Channels
        /\ opener[conn.reqId].pc = "connect" \/ conn.reqId \in attempts

\* An opener that makes a request of its own has marked its channel with it.
OwnRequest ==
    \A c \in Channels :
        opener[c].pc \in {"additem", "connect"} /\ chan[c].status = "connecting" =>
            chan[c].reqId = c

\* WaiterHasRequest of one channel, and that the request is that of a channel.
Awaited(c) ==
    chan[c].status = "connecting" /\ opener[c].pc = "ok" =>
        /\ chan[c].reqId \in Channels
        /\ \/ opener[chan[c].reqId].pc = "connect"
           \/ chan[c].reqId \in attempts
           \/ cb.kind \in {"succeed", "failed"} /\ cb.id = chan[c].reqId

WaiterInv ==
    /\ ItemHasRequest
    /\ OwnRequest
    /\ "stranded" \notin raced => \A c \in Channels : Awaited(c)

LEMMA WaiterInit == Init => WaiterInv
BY SMTT(20) DEF Init, ConnInit, NoConn, NoChan, WaiterInv, ItemHasRequest, OwnRequest, Awaited

\* The races that have happened are not forgotten.
LEMMA RacesKept == [Next]_vars => raced \subseteq raced'
BY Zenon
   DEF Next, vars, ghosts, OpenerStep, Open, ConnExistProc, AddConnRef, AttachChannel,
       NewRequest,
       AddConnItem, ConnectDevice, Undo, Close, OnConnectSucceed, OnConnectFailed, HandshakeAck,
       HandshakeErr, ResetMsg, ReNegotiate, AuthNegoTask, LoseLink, OnDisConnect, CallbackStep,
       ChanProcessByReqId, DelChanByReqId, DelConnByConnId, ProcessErrMsg, ResetConn, LoopStep,
       HandshakeMsg, DropConn, DeleteChan, OpenFailMsg, ReleaseMsg, TimerProc, TimerItems,
       TimerItemProc, DeathCallback, DestroyChannel, Overtakes, Note

\* A step that starts no wait and ends no request keeps the invariant.
LEMMA Quiet ==
  ASSUME TypeOK, TypeOK', WaiterInv, raced \subseteq raced',
         opener' = opener, attempts' = attempts,
         cb' = cb \/ cb.kind \notin {"succeed", "failed"},
         conn'.state = "connecting" => conn' = conn,
         \A c \in Channels :
            chan'[c].status = "connecting" => chan[c].status = "connecting" /\ chan'[c].reqId = chan[c].reqId
  PROVE  WaiterInv'
BY Zenon DEF WaiterInv, ItemHasRequest, OwnRequest, Awaited

\* No operation on the connection list leaves a new connecting item behind.
LEMMA NoNewItem ==
  ASSUME TypeOK
  PROVE  /\ \A R : WithoutRequests(R).state = "connecting" => WithoutRequests(R) = conn
         /\ \A k : WithoutConn(k).state = "connecting" => WithoutConn(k) = conn
         /\ \A k : \A n \in Nat : WithRefs(k, n).state = "connecting" => WithRefs(k, n) = conn
         /\ \A k : WithoutRef(k).state = "connecting" => WithoutRef(k) = conn
BY Zenon, Fields DEF WithoutRequests, WithoutConn, WithRefs, WithoutRef, NoConn, HasConn, Item

\* Removing channels starts no wait.
LEMMA NoNewWait ==
  ASSUME TypeOK, NEW S, NEW c \in Channels, Without(S)[c].status = "connecting"
  PROVE  Without(S)[c] = chan[c] /\ c \notin S
BY Zenon DEF Without, NoChan

LEMMA QuietSteps ==
  ASSUME TypeOK, TypeOK', WaiterInv, [Next]_vars,
         \/ \E c \in Channels : \/ Close(c) \/ HandshakeAck(c) \/ HandshakeErr(c) \/ ResetMsg(c)
                                \/ ReNegotiate(c) \/ AuthNegoTask(c)
         \/ \E k \in ConnIds : LoseLink(k) \/ OnDisConnect(k)
         \/ DelConnByConnId \/ ProcessErrMsg \/ ResetConn
         \/ LoopStep \/ TimerProc \/ TimerItems \/ DeathCallback \/ DestroyChannel
  PROVE  WaiterInv'
<1> USE DEF connVars, loopVars, chanVars, ghosts
<1>0. raced \subseteq raced'
  BY Zenon, RacesKept
<1>a. ASSUME NEW k, CloseConn(k) PROVE conn'.state = "connecting" => conn' = conn
  BY ZenonT(30), <1>a, NoNewItem DEF CloseConn
<1>b. ASSUME NEW S, chan' = Without(S), NEW c \in Channels, chan'[c].status = "connecting"
      PROVE  chan[c].status = "connecting" /\ chan'[c].reqId = chan[c].reqId
  BY Zenon, <1>b, NoNewWait
<1>1. ASSUME NEW c \in Channels, Close(c) PROVE WaiterInv'
  BY ZenonT(30), <1>0, <1>b, <1>1, Quiet DEF Close
<1>2. ASSUME NEW c \in Channels, HandshakeAck(c) PROVE WaiterInv'
  <2>1. \A d \in Channels : chan'[d].status = "connecting" => chan'[d] = chan[d]
    BY <1>2, Fields DEF HandshakeAck, Chan
  <2> QED
    BY Zenon, <1>0, <1>2, <2>1, Quiet DEF HandshakeAck
<1>3. ASSUME NEW c \in Channels, HandshakeErr(c) PROVE WaiterInv'
  BY Zenon, <1>0, <1>3, Quiet DEF HandshakeErr, Answer, NoCallback
<1>4. ASSUME NEW c \in Channels, ResetMsg(c) PROVE WaiterInv'
  <2>1. chan' = Without({c}) /\ opener' = opener /\ attempts' = attempts /\ conn' = conn
    BY <1>4, Zenon DEF ResetMsg
  <2>2. cb = NoCallback
    BY <1>4, Zenon DEF ResetMsg, Answer
  <2>3. cb.kind = "none"
    BY Zenon, <2>2 DEF NoCallback
  <2> QED
    BY Zenon, <1>0, <1>b, <2>1, <2>3, Quiet
<1>5. ASSUME NEW c \in Channels, ReNegotiate(c) PROVE WaiterInv'
  BY Zenon, <1>0, <1>5, Quiet DEF ReNegotiate
<1>6. ASSUME NEW c \in Channels, AuthNegoTask(c) PROVE WaiterInv'
  BY Zenon, <1>0, <1>6, Quiet DEF AuthNegoTask
<1>7. ASSUME NEW k \in ConnIds, LoseLink(k) PROVE WaiterInv'
  BY Zenon, <1>0, <1>7, Quiet DEF LoseLink, LinkDown
<1>8. ASSUME NEW k \in ConnIds, OnDisConnect(k) PROVE WaiterInv'
  BY ZenonT(30), <1>0, <1>b, <1>8, Quiet DEF OnDisConnect, NoCallback
<1>9. CASE DelConnByConnId
  BY Zenon, <1>0, <1>9, NoNewItem, Quiet DEF DelConnByConnId
<1>10. CASE ProcessErrMsg
  BY ZenonT(30), <1>0, <1>b, <1>10, Quiet DEF ProcessErrMsg
<1>11. CASE ResetConn
  BY Zenon, <1>0, <1>a, <1>11, Quiet DEF ResetConn
<1>12. CASE LoopStep
  <2>1. CASE HandshakeMsg \/ OpenFailMsg
    BY Zenon, <1>0, <2>1, Quiet DEF HandshakeMsg, OpenFailMsg
  <2>2. CASE DropConn \/ ReleaseMsg
    BY Zenon, <1>0, <1>a, <2>2, Quiet DEF DropConn, ReleaseMsg
  <2>3. CASE DeleteChan
    BY Zenon, <1>0, <1>b, <2>3, Quiet DEF DeleteChan
  <2> QED
    BY Zenon, <1>12, <2>1, <2>2, <2>3 DEF LoopStep
<1>13. CASE TimerProc
  <2>1. \A d \in Channels : chan'[d].status = "connecting" =>
           chan[d].status = "connecting" /\ chan'[d].reqId = chan[d].reqId
    BY ZenonT(30), <1>13, Fields DEF TimerProc, NoChan, Older, Chan
  <2> QED
    BY Zenon, <1>0, <1>13, <2>1, Quiet DEF TimerProc
<1>14. CASE TimerItems
  BY Zenon, <1>0, <1>14, NoNewItem, Quiet DEF TimerItems, TimerItemProc
<1>15. CASE DeathCallback
  BY Zenon, <1>0, <1>b, <1>15, Quiet DEF DeathCallback
<1>16. CASE DestroyChannel
  BY Zenon, <1>0, <1>a, <1>16, Quiet DEF DestroyChannel
<1> QED
  BY Zenon, <1>1, <1>2, <1>3, <1>4, <1>5, <1>6, <1>7, <1>8, <1>9, <1>10, <1>11, <1>12, <1>13, <1>14,
     <1>15, <1>16

LEMMA CallbackWaiters ==
  ASSUME TypeOK, TypeOK', WaiterInv, [Next]_vars,
         \/ \E r \in Channels : OnConnectSucceed(r) \/ OnConnectFailed(r)
         \/ ChanProcessByReqId \/ DelChanByReqId
  PROVE  WaiterInv'
<1> USE DEF connVars, loopVars, chanVars, ghosts
<1>0. raced \subseteq raced'
  BY Zenon, RacesKept
<1>1. ASSUME NEW r \in Channels, OnConnectSucceed(r) PROVE WaiterInv'
  <2>1. ItemHasRequest'
    BY Zenon, <1>1, Fields DEF OnConnectSucceed, WaiterInv, ItemHasRequest, Item
  <2>2. \A c \in Channels : Awaited(c) => Awaited(c)'
    BY Zenon, <1>1 DEF OnConnectSucceed, Awaited, NoCallback
  <2> QED
    BY Zenon, <1>0, <1>1, <2>1, <2>2 DEF OnConnectSucceed, WaiterInv, OwnRequest
<1>2. ASSUME NEW r \in Channels, OnConnectFailed(r) PROVE WaiterInv'
  <2>1. ItemHasRequest'
    BY ZenonT(30), <1>2, NoNewItem
       DEF OnConnectFailed, WaiterInv, ItemHasRequest, WithoutRequests, NoConn
  <2>2. \A c \in Channels : Awaited(c) => Awaited(c)'
    BY ZenonT(30), <1>2 DEF OnConnectFailed, Awaited, NoCallback
  <2> QED
    BY ZenonT(30), <1>0, <1>2, <2>1, <2>2 DEF OnConnectFailed, WaiterInv, OwnRequest
<1>3. CASE ChanProcessByReqId
  <2>0. Cardinality(WaitingOn(cb.id)) \in Nat
    BY Zenon, Enumeration DEF WaitingOn
  <2>1. conn'.state = "connecting" => conn' = conn
    BY Zenon, <1>3, <2>0, NoNewItem DEF ChanProcessByReqId, CloseConn
  <2>2. \A c \in Channels : chan'[c].status = "connecting" =>
           chan'[c] = chan[c] /\ c \notin WaitingOn(cb.id)
    BY ZenonT(30), <1>3, Fields DEF ChanProcessByReqId, Attached, Chan, WaitingOn, Present
  <2>3. \A c \in Channels : Awaited(c) => Awaited(c)'
    BY ZenonT(30), <1>3, <2>2 DEF ChanProcessByReqId, Awaited, WaitingOn
  <2>4. ItemHasRequest'
    BY ZenonT(30), <1>3, <2>1 DEF ChanProcessByReqId, WaiterInv, ItemHasRequest
  <2> QED
    BY ZenonT(30), <1>0, <1>3, <2>2, <2>3, <2>4 DEF ChanProcessByReqId, WaiterInv, OwnRequest
<1>4. CASE DelChanByReqId
  <2>1. \A c \in Channels : chan'[c].status = "connecting" =>
           chan'[c] = chan[c] /\ c \notin WaitingOn(cb.id)
    BY ZenonT(30), <1>4, NoNewWait DEF DelChanByReqId
  <2>2. \A c \in Channels : Awaited(c) => Awaited(c)'
    BY Zenon, <1>4, <2>1 DEF DelChanByReqId, Awaited, WaitingOn
  <2> QED
    BY ZenonT(30), <1>0, <1>4, <2>1, <2>2
       DEF DelChanByReqId, WaiterInv, OwnRequest, ItemHasRequest
<1> QED
  BY Zenon, <1>1, <1>2, <1>3, <1>4

LEMMA OpenerWaiters ==
  ASSUME TypeOK, TypeOK', WaiterInv, [Next]_vars, NEW c \in Channels, OpenerStep(c)
  PROVE  WaiterInv'
<1> USE DEF connVars, loopVars, chanVars, ghosts
<1>0. /\ raced \subseteq raced'
      /\ chan \in [Channels -> Chan] /\ opener \in [Channels -> Opener]
  BY Zenon, RacesKept, Fields
<1>a. ASSUME NEW pc, Goto(c, pc) \/ Other(c, pc)
      PROVE  /\ \A d \in Channels \ {c} : opener'[d] = opener[d]
             /\ opener'[c].pc \in {pc, "undo"}
             /\ Goto(c, pc) => opener'[c].pc = pc
  BY SMTT(20), <1>0, <1>a DEF Goto, Other, Opener
\* An opener that is not about to connect, or that goes on to connect, only
\* has to see to its own channel.
<1>b. ASSUME opener[c].pc # "connect", \A d \in Channels \ {c} : opener'[d] = opener[d],
             \A d \in Channels \ {c} : chan'[d] = chan[d], attempts' = attempts, cb' = cb,
             conn'.state = "connecting" => conn' = conn,
             opener'[c].pc \in {"additem", "connect"} /\ chan'[c].status = "connecting" => chan'[c].reqId = c,
             "stranded" \notin raced => Awaited(c)'
      PROVE  WaiterInv'
  <2>1. ItemHasRequest'
    BY Zenon, <1>b DEF WaiterInv, ItemHasRequest
  <2>2. OwnRequest'
    BY Zenon, <1>b DEF WaiterInv, OwnRequest
  <2>3. \A d \in Channels \ {c} : Awaited(d) => Awaited(d)'
    BY ZenonT(30), <1>b DEF Awaited
  <2> QED
    BY Zenon, <1>0, <1>b, <2>1, <2>2, <2>3 DEF WaiterInv
<1>1. CASE Open(c)
  <2>1. chan'[c].status = "new" /\ \A d \in Channels \ {c} : chan'[d] = chan[d]
    BY Zenon, <1>0, <1>1 DEF Open, Chan
  <2> QED
    BY Zenon, <1>a, <1>b, <1>1, <2>1 DEF Open, Awaited
<1>2. CASE ConnExistProc(c)
  <2>1. CASE conn.state = "none"
    <3>1. opener'[c].pc \in {"new", "undo"}
      BY Zenon, <1>a, <1>2, <2>1 DEF ConnExistProc
    <3> QED
      BY Zenon, <1>a, <1>b, <1>2, <2>1, <3>1 DEF ConnExistProc, Awaited
  <2>2. CASE conn.state = "connecting"
    <3>1. opener'[c].pc = "ok" /\ chan' = Requested(c, conn.reqId)
          /\ \A d \in Channels \ {c} : opener'[d] = opener[d]
      BY Zenon, <1>a, <1>2, <2>2 DEF ConnExistProc
    <3>2. /\ \A d \in Channels \ {c} : chan'[d] = chan[d]
          /\ chan'[c].status = "connecting" => chan'[c].reqId = conn.reqId
      BY Zenon, <1>0, <3>1 DEF Requested, Present, Chan, Waiting
    <3>3. Awaited(c)'
      BY <1>2, <2>2, <3>1, <3>2 DEF ConnExistProc, Awaited, WaiterInv, ItemHasRequest
    <3> QED
      BY Zenon, <1>b, <1>2, <3>1, <3>2, <3>3 DEF ConnExistProc
  <2>3. CASE conn.state = "connected"
    <3>1. opener'[c].pc = "addref" /\ \A d \in Channels \ {c} : opener'[d] = opener[d]
      BY Zenon, <1>0, <1>2, <2>3 DEF ConnExistProc, Opener
    <3> QED
      BY Zenon, <1>b, <1>2, <2>3, <3>1 DEF ConnExistProc, Awaited
  <2> QED
    BY Zenon, <1>2, <2>1, <2>2, <2>3 DEF ConnExistProc
<1>3. CASE AddConnRef(c)
  <2>1. opener'[c].pc \in {"update", "new", "undo"}
        /\ \A d \in Channels \ {c} : opener'[d] = opener[d]
    BY ZenonT(30), <1>a, <1>3 DEF AddConnRef
  <2> QED
    BY ZenonT(30), <1>b, <1>3, <2>1, NoNewItem DEF AddConnRef, Awaited
<1>4. CASE AttachChannel(c)
  <2>1. chan'[c].status # "connecting" /\ \A d \in Channels \ {c} : chan'[d] = chan[d]
    BY ZenonT(30), <1>0, <1>4 DEF AttachChannel, Attached, Present, Chan
  <2> QED
    BY ZenonT(30), <1>a, <1>b, <1>4, <2>1 DEF AttachChannel, Awaited
<1>5. CASE NewRequest(c)
  <2>1. /\ \A d \in Channels \ {c} : chan'[d] = chan[d]
        /\ chan'[c].status = "connecting" => chan'[c].reqId = c
    BY Zenon, <1>0, <1>5 DEF NewRequest, Requested, Present, Chan, Waiting
  <2>2. opener'[c].pc = "additem"
    BY Zenon, <1>a, <1>5 DEF NewRequest
  <2> QED
    BY Zenon, <1>a, <1>b, <1>5, <2>1, <2>2 DEF NewRequest, Awaited
<1>6. CASE AddConnItem(c)
  <2>1. CASE conn.state = "none"
    <3>1. opener'[c].pc = "connect" /\ \A d \in Channels \ {c} : opener'[d] = opener[d]
      BY Zenon, <1>a, <1>6, <2>1 DEF AddConnItem
    <3>2. ItemHasRequest'
      BY SMTT(20), <1>6, <2>1, <3>1 DEF AddConnItem, ItemHasRequest, ConnectingItem
    <3>3. OwnRequest'
      BY Zenon, <1>6, <3>1 DEF AddConnItem, WaiterInv, OwnRequest
    <3>4. \A d \in Channels : Awaited(d) => Awaited(d)'
      BY ZenonT(30), <1>6, <3>1 DEF AddConnItem, Awaited
    <3> QED
      BY Zenon, <1>0, <3>2, <3>3, <3>4 DEF WaiterInv
  <2>2. CASE conn.state # "none"
    <3>1. opener'[c].pc \in {"exist", "undo"} /\ \A d \in Channels \ {c} : opener'[d] = opener[d]
      BY Zenon, <1>a, <1>6, <2>2 DEF AddConnItem
    <3> QED
      BY Zenon, <1>b, <1>6, <2>2, <3>1 DEF AddConnItem, Awaited
  <2> QED
    BY Zenon, <2>1, <2>2
<1>7. CASE ConnectDevice(c)
  <2>1. CASE attempts' = attempts \cup {c} /\ Goto(c, "ok") /\ conn' = conn
    <3>1. opener'[c].pc = "ok" /\ \A d \in Channels \ {c} : opener'[d] = opener[d]
      BY Zenon, <1>a, <2>1
    <3>2. ItemHasRequest'
      BY Zenon, <2>1, <3>1 DEF WaiterInv, ItemHasRequest
    <3>3. OwnRequest'
      BY Zenon, <1>7, <3>1 DEF ConnectDevice, WaiterInv, OwnRequest
    <3>4. \A d \in Channels \ {c} : Awaited(d) => Awaited(d)'
      BY ZenonT(30), <1>7, <2>1, <3>1 DEF ConnectDevice, Awaited
    <3>5. Awaited(c)'
      BY Zenon, <1>7, <2>1, <3>1 DEF ConnectDevice, Awaited, WaiterInv, OwnRequest
    <3> QED
      BY Zenon, <1>0, <3>2, <3>3, <3>4, <3>5 DEF WaiterInv
  <2>2. CASE /\ conn' = WithoutRequests({c}) /\ Goto(c, "undo") /\ attempts' = attempts
             /\ Note("stranded", WaitingOn(c) \ {c} # {})
    <3>1. opener'[c].pc = "undo" /\ \A d \in Channels \ {c} : opener'[d] = opener[d]
      BY Zenon, <1>a, <2>2
    <3>2. ItemHasRequest'
      BY Zenon, <2>2, <3>1 DEF WaiterInv, ItemHasRequest, WithoutRequests, NoConn
    <3>3. OwnRequest'
      BY ZenonT(30), <1>7, <3>1 DEF ConnectDevice, WaiterInv, OwnRequest
    <3>4. "stranded" \notin raced' => \A d \in Channels \ {c} : Awaited(d) => Awaited(d)'
      BY Zenon, <1>7, <2>2, <3>1 DEF ConnectDevice, Awaited, Note, WaitingOn
    <3>5. Awaited(c)'
      BY Zenon, <3>1 DEF Awaited
    <3> QED
      BY Zenon, <1>0, <3>2, <3>3, <3>4, <3>5 DEF WaiterInv
  <2> QED
    BY Zenon, <1>7, <2>1, <2>2 DEF ConnectDevice
<1>8. CASE Undo(c)
  <2>1. opener'[c].pc = "err" /\ \A d \in Channels \ {c} : opener'[d] = opener[d]
    BY Zenon, <1>a, <1>8 DEF Undo
  <2>2. \A d \in Channels \ {c} : chan'[d] = chan[d]
    BY Zenon, <1>8 DEF Undo, Without
  <2> QED
    BY Zenon, <1>b, <1>8, <2>1, <2>2 DEF Undo, Awaited
<1> QED
  BY Zenon, <1>1, <1>2, <1>3, <1>4, <1>5, <1>6, <1>7, <1>8 DEF OpenerStep

LEMMA WaiterStep ==
  ASSUME TypeOK, WaiterInv, [Next]_vars
  PROVE  WaiterInv'
<1>0. TypeOK'
  BY Zenon, TypeStep
<1>1. CASE UNCHANGED vars
  BY Zenon, <1>1
     DEF vars, connVars, loopVars, chanVars, ghosts, WaiterInv, ItemHasRequest, OwnRequest,
         Awaited
<1>2. CASE Next
  BY <1>0, <1>2, OpenerWaiters, CallbackWaiters, QuietSteps, Zenon DEF Next, CallbackStep
<1> QED
  BY Zenon, <1>1, <1>2

(* A channel that waits for a connect request never waits in vain: the       *)
(* request is about to be made, is with the connection layer, or its         *)
(* callback is at work, unless the request was refused after the channel had *)
(* joined it (TransProxyConnExistProc, TransProxyChanProcessByReqId,         *)
(* TransProxyDelChanByReqId).                                                *)
THEOREM WaiterHasRequestHolds == Spec => []WaiterHasRequest
<1>1. WaiterInv => WaiterHasRequest
  BY Zenon DEF WaiterInv, Awaited, WaiterHasRequest
<1> QED
  BY <1>1, TypeInit, TypeStep, WaiterInit, WaiterStep, PTL DEF Spec

-----------------------------------------------------------------------------
(* Who has a request with the connection layer                              *)

\* An opener that has not returned waits for no other request than its own, and
\* only openers that have returned have a request with the connection layer.
OwnBusiness ==
    \A c \in Channels :
        /\ opener[c].pc \notin {"ok", "err"} /\ chan[c].status = "connecting" => chan[c].reqId = c
        /\ c \in attempts \/ (cb.kind \in {"succeed", "failed"} /\ cb.id = c) => opener[c].pc = "ok"

LEMMA OwnBusinessStep ==
  ASSUME TypeOK, OwnBusiness, Next
  PROVE  OwnBusiness'
<1> USE DEF connVars, loopVars, chanVars, ghosts
<1>0. chan \in [Channels -> Chan] /\ opener \in [Channels -> Opener] /\ None \notin Channels
  BY Zenon, Fields, ProxyAssumption
\* Most steps start no wait and hand over no request.
<1>a. ASSUME opener' = opener, attempts' \subseteq attempts,
             \A c \in Channels : chan'[c].status = "connecting" =>
                chan[c].status = "connecting" /\ chan'[c].reqId = chan[c].reqId,
             \A c \in Channels : cb'.kind \in {"succeed", "failed"} /\ cb'.id = c =>
                c \in attempts \/ (cb.kind \in {"succeed", "failed"} /\ cb.id = c)
      PROVE  OwnBusiness'
  BY Zenon, <1>a DEF OwnBusiness
<1>b. ASSUME NEW S, chan' = Without(S), NEW c \in Channels, chan'[c].status = "connecting"
      PROVE  chan[c].status = "connecting" /\ chan'[c].reqId = chan[c].reqId
  BY Zenon, <1>b, NoNewWait
\* An opener's step only concerns its own channel.
<1>c. ASSUME NEW c \in Channels, \A d \in Channels \ {c} : opener'[d] = opener[d] /\ chan'[d] = chan[d],
             attempts' = attempts \/ (attempts' = attempts \cup {c} /\ opener'[c].pc = "ok"), cb' = cb,
             opener[c].pc \notin {"ok", "err"},
             opener'[c].pc \notin {"ok", "err"} /\ chan'[c].status = "connecting" => chan'[c].reqId = c
      PROVE  OwnBusiness'
  BY <1>c DEF OwnBusiness
<1>1. ASSUME NEW c \in Channels, OpenerStep(c) PROVE OwnBusiness'
  <2>1. \A d \in Channels \ {c} : opener'[d] = opener[d]
    BY Zenon, <1>0, <1>1
       DEF OpenerStep, Open, ConnExistProc, AddConnRef, AttachChannel, NewRequest,
                      AddConnItem, ConnectDevice, Undo, Goto, Other
  <2>2. \A d \in Channels \ {c} : chan'[d] = chan[d]
    BY Zenon, <1>0, <1>1
       DEF OpenerStep, Open, ConnExistProc, AddConnRef, AttachChannel, NewRequest,
                      AddConnItem, ConnectDevice, Undo, Requested, Attached, Without
  <2>3. opener[c].pc \notin {"ok", "err"} /\ cb' = cb
    BY Zenon, <1>1 DEF OpenerStep, Open, ConnExistProc, AddConnRef, AttachChannel, NewRequest,
                AddConnItem, ConnectDevice, Undo
  <2>4. attempts' = attempts \/ (attempts' = attempts \cup {c} /\ opener'[c].pc = "ok")
    BY ZenonT(30), <1>0, <1>1 DEF OpenerStep, Open, ConnExistProc, AddConnRef, AttachChannel, NewRequest,
                      AddConnItem, ConnectDevice, Undo, Goto, Opener
  <2>5. opener'[c].pc \notin {"ok", "err"} /\ chan'[c].status = "connecting" => chan'[c].reqId = c
    <3>1. CASE Open(c)
      BY Zenon, <1>0, <3>1 DEF Open, Chan
    <3>2. CASE ConnExistProc(c)
      BY SMTT(20), <1>0, <3>2 DEF ConnExistProc, Goto, Opener, OwnBusiness
    <3>3. CASE AddConnRef(c) \/ AddConnItem(c) \/ ConnectDevice(c)
      BY Zenon, <3>3, <2>3 DEF AddConnRef, AddConnItem, ConnectDevice, OwnBusiness
    <3>4. CASE AttachChannel(c) \/ Undo(c)
      BY Zenon, <1>0, <3>4 DEF AttachChannel, Undo, Goto, Opener
    <3>5. CASE NewRequest(c)
      BY Zenon, <1>0, <3>5 DEF NewRequest, Requested, Present, Chan, Waiting
    <3> QED
      BY Zenon, <1>1, <3>1, <3>2, <3>3, <3>4, <3>5 DEF OpenerStep
  <2> QED
    BY Zenon, <1>c, <2>1, <2>2, <2>3, <2>4, <2>5
<1>2. ASSUME NEW c \in Channels, Close(c) PROVE OwnBusiness'
  BY Zenon, <1>a, <1>b, <1>2 DEF Close
<1>3. ASSUME NEW c \in Channels, OnConnectSucceed(c) \/ OnConnectFailed(c) PROVE OwnBusiness'
  <2>1. c \in attempts /\ attempts' = attempts \ {c} /\ chan' = chan /\ opener' = opener
    BY Zenon, <1>3 DEF OnConnectSucceed, OnConnectFailed
  <2>2. cb'.id = c
    <3>1. CASE OnConnectSucceed(c)
      BY Zenon, <3>1 DEF OnConnectSucceed
    <3>2. CASE OnConnectFailed(c)
      <4>1. cb' = [NoCallback EXCEPT !.kind = "failed", !.id = c]
        BY Zenon, <3>2 DEF OnConnectFailed
      <4> QED
        BY Zenon, <4>1 DEF NoCallback
    <3> QED
      BY Zenon, <1>3, <3>1, <3>2
  <2> QED
    BY Zenon, <1>a, <2>1, <2>2
<1>4. ASSUME NEW c \in Channels, HandshakeAck(c) PROVE OwnBusiness'
  <2>1. \A d \in Channels : chan'[d].status = "connecting" => chan'[d] = chan[d]
    BY Zenon, <1>0, <1>4 DEF HandshakeAck, Chan
  <2> QED
    BY Zenon, <1>a, <1>4, <2>1 DEF HandshakeAck
<1>5. ASSUME NEW c \in Channels, HandshakeErr(c) PROVE OwnBusiness'
  BY Zenon, <1>a, <1>5 DEF HandshakeErr, NoCallback
<1>6. ASSUME NEW c \in Channels, ResetMsg(c) PROVE OwnBusiness'
  <2>1. chan' = Without({c}) /\ opener' = opener /\ attempts' = attempts
        /\ cb' = [NoCallback EXCEPT !.kind = "reset", !.connId = chan[c].connId]
    BY <1>6, Zenon DEF ResetMsg
  <2>2. cb'.kind = "reset"
    BY Zenon, <2>1 DEF NoCallback
  <2> QED
    BY Zenon, <1>a, <1>b, <2>1, <2>2
<1>7. ASSUME NEW c \in Channels, ReNegotiate(c) \/ AuthNegoTask(c) PROVE OwnBusiness'
  BY Zenon, <1>a, <1>7 DEF ReNegotiate, AuthNegoTask
<1>8. ASSUME NEW k \in ConnIds, LoseLink(k) PROVE OwnBusiness'
  BY Zenon, <1>a, <1>8 DEF LoseLink, LinkDown
<1>9. ASSUME NEW k \in ConnIds, OnDisConnect(k) PROVE OwnBusiness'
  BY Zenon, <1>a, <1>b, <1>9 DEF OnDisConnect, NoCallback
<1>10. CASE CallbackStep
  <2>1. CASE ChanProcessByReqId
    <3>1. \A c \in Channels : chan'[c].status = "connecting" => chan'[c] = chan[c]
      BY ZenonT(30), <1>0, <2>1 DEF ChanProcessByReqId, Attached, Chan
    <3> QED
      BY Zenon, <1>a, <2>1, <3>1 DEF ChanProcessByReqId, NoCallback
  <2>2. CASE DelChanByReqId \/ ProcessErrMsg
    BY SMTT(30), <1>a, <1>b, <2>2 DEF DelChanByReqId, ProcessErrMsg, NoCallback
  <2>3. CASE DelConnByConnId \/ ResetConn
    BY <1>a, <2>3 DEF DelConnByConnId, ResetConn, NoCallback
  <2> QED
    BY Zenon, <1>10, <2>1, <2>2, <2>3 DEF CallbackStep
<1>11. CASE LoopStep
  <2>1. CASE HandshakeMsg \/ OpenFailMsg \/ DropConn \/ ReleaseMsg
    BY Zenon, <1>a, <2>1 DEF HandshakeMsg, OpenFailMsg, DropConn, ReleaseMsg
  <2>2. CASE DeleteChan
    BY Zenon, <1>a, <1>b, <2>2 DEF DeleteChan
  <2> QED
    BY Zenon, <1>11, <2>1, <2>2 DEF LoopStep
<1>12. CASE TimerProc
  <2>1. \A d \in Channels : chan'[d].status = "connecting" =>
           chan[d].status = "connecting" /\ chan'[d].reqId = chan[d].reqId
    BY Zenon, <1>12, Fields DEF TimerProc, NoChan, Older, Chan
  <2> QED
    BY Zenon, <1>a, <1>12, <2>1 DEF TimerProc
<1>13. CASE TimerItems \/ DestroyChannel
  BY Zenon, <1>a, <1>13 DEF TimerItems, TimerItemProc, DestroyChannel
<1>14. CASE DeathCallback
  BY Zenon, <1>a, <1>b, <1>14 DEF DeathCallback
<1> QED
  BY <1>1, <1>2, <1>3, <1>4, <1>5, <1>6, <1>7, <1>8, <1>9, <1>10, <1>11, <1>12, <1>13, <1>14, Zenon
  DEF Next

-----------------------------------------------------------------------------
(***************************************************************************)
(* The opener of a proxy channel is told the outcome at most once, for     *)
(* every time-out and every workload.                                      *)
(***************************************************************************)
\* The timer is about to report the channel; it holds no channel twice.
Late(c) == \E x \in expired : x.id = c

LateOnce == \A x, y \in expired : x.id = y.id => x = y

\* The looper, or the data callback, is about to report the channel's failure.
Dropping(c) == loop.id = c

Refused(c) == cb.kind = "error" /\ cb.id = c

\* Nobody has anything to do for the channel.
Untouched(c) ==
    /\ ~Queued("handshake", c) /\ c \notin nego /\ c \notin offered
    /\ ~Queued("openfail", c) /\ ~Late(c) /\ ~Dropping(c) /\ ~Refused(c)

\* The handshake of a channel is in one hand at a time.
OneHand(c) ==
    /\ Queued("handshake", c) => c \notin nego \cup offered /\ ~Dropping(c) /\ ~Refused(c)
    /\ c \in nego => c \notin offered /\ ~Dropping(c) /\ ~Refused(c)
    /\ c \in offered => ~Dropping(c) /\ ~Refused(c)
    /\ Dropping(c) => ~Refused(c)

\* How often the opener of a channel has been told, and who may still tell it.
Accounted(c) ==
    /\ answers[c] \in {0, 1}
    /\ opener[c].pc \notin {"ok", "err"} =>
          chan[c].status \in {"none", "new", "connecting"} /\ answers[c] = 0 /\ Untouched(c)
    /\ opener[c].pc = "idle" => chan[c].status = "none"
    /\ opener[c].pc = "err" => chan[c].status = "none" /\ answers[c] = 1 /\ Untouched(c)
    /\ chan[c].status \in {"new", "connecting"} => answers[c] = 0 /\ Untouched(c)
    /\ chan[c].status = "handshaking" =>
          answers[c] = 0 /\ ~Queued("openfail", c) /\ ~Late(c) /\ OneHand(c)
    /\ chan[c].status = "completed" => Untouched(c)
    /\ chan[c].status = "none" =>
          /\ ~Dropping(c) /\ ~Refused(c) /\ OneHand(c)
          /\ ~(Queued("openfail", c) /\ Late(c))
          /\ Queued("openfail", c) \/ Late(c) => answers[c] = 0

AllAccounted == QueuedOnce /\ LateOnce /\ \A c \in Channels : Accounted(c)

AnswerInv ==
    /\ OwnBusiness
    /\ "overtaken" \notin raced => AllAccounted

-----------------------------------------------------------------------------
(* Steps seen from one channel                                               *)

\* A step puts the channel in no new hand.
Fewer(c) ==
    /\ Queued("handshake", c)' => Queued("handshake", c)
    /\ Queued("openfail", c)' => Queued("openfail", c)
    /\ c \in nego' => c \in nego
    /\ c \in offered' => c \in offered
    /\ Late(c)' => Late(c)
    /\ Dropping(c)' => Dropping(c)
    /\ Refused(c)' => Refused(c)

\* A step that does not touch the channel,
LEMMA Frame ==
  ASSUME NEW c \in Channels, Accounted(c), Fewer(c), opener'[c].pc = opener[c].pc,
         chan'[c].status = chan[c].status, answers'[c] = answers[c]
  PROVE  Accounted(c)'
BY Zenon DEF Accounted, Fewer, OneHand, Untouched

\* that removes it without a word, nobody being at work on it,
LEMMA Removed ==
  ASSUME TypeOK, NEW c \in Channels, Accounted(c), Fewer(c), opener'[c].pc = opener[c].pc,
         chan'[c].status = "none", answers'[c] = answers[c], ~Dropping(c), ~Refused(c)
  PROVE  Accounted(c)'
<1>1. chan[c].status \in {"none", "new", "completed", "connecting", "handshaking"}
  BY Zenon, Fields DEF Chan, Waiting
<1> QED
  BY Zenon, <1>1 DEF Accounted, Fewer, OneHand, Untouched

\* and that removes it and tells its opener.
LEMMA RemovedAndTold ==
  ASSUME NEW c \in Channels, Accounted(c), Fewer(c), opener[c].pc = "ok", opener'[c].pc = "ok",
         chan[c].status \in Waiting, chan'[c].status = "none", answers'[c] = answers[c] + 1,
         ~Dropping(c)', ~Refused(c)'
  PROVE  Accounted(c)'
<1>1. answers[c] = 0 /\ answers'[c] = 1
  BY DEF Accounted, Waiting
<1> QED
  BY Zenon, <1>1 DEF Accounted, Fewer, OneHand, Untouched, Waiting

\* The first answer.
LEMMA FirstAnswer ==
  ASSUME NEW x, NEW y, x = 0, y = x + 1
  PROVE  y = 1
OBVIOUS

\* A step that completes the channel and leaves it in no hand,
LEMMA Completed ==
  ASSUME NEW c \in Channels, opener'[c].pc = "ok", chan'[c].status = "completed",
         answers'[c] = 1, Untouched(c)'
  PROVE  Accounted(c)'
BY Zenon DEF Accounted

\* one that tells the opener of a channel that is gone,
LEMMA Reported ==
  ASSUME NEW c \in Channels, opener'[c].pc = "ok", chan'[c].status = "none", answers'[c] = 1,
         ~Queued("openfail", c)', ~Late(c)', ~Dropping(c)', ~Refused(c)', OneHand(c)'
  PROVE  Accounted(c)'
BY Zenon DEF Accounted

\* and one that leaves it, untold, in no hand but the message queue's.
LEMMA Posted ==
  ASSUME NEW c \in Channels, opener'[c].pc = "ok", answers'[c] = 0,
         c \notin nego', c \notin offered', ~Late(c)', ~Dropping(c)', ~Refused(c)',
         \/ chan'[c].status = "handshaking" /\ ~Queued("openfail", c)'
         \/ chan'[c].status = "none"
  PROVE  Accounted(c)'
<1>1. OneHand(c)'
  BY Zenon DEF OneHand
<1> QED
  BY Zenon, <1>1 DEF Accounted

\* A channel in somebody's hand has an opener that returned, and is waiting
\* for the handshake or gone.
LEMMA Handed ==
  ASSUME TypeOK, NEW c \in Channels, Accounted(c), ~Untouched(c)
  PROVE  /\ opener[c].pc = "ok"
         /\ chan[c].status \in {"none", "handshaking"}
         /\ Present(c) => chan[c].status = "handshaking"
<1>1. chan[c].status \in {"none", "new", "completed", "connecting", "handshaking"}
  BY Zenon, Fields DEF Chan, Waiting
<1> QED
  BY Zenon, <1>1 DEF Accounted, Present

\* The opener of a waiting channel that nobody is at work on has returned.
LEMMA Returned ==
  ASSUME NEW c \in Channels, Accounted(c), c \notin InHand, chan[c].status # "none"
  PROVE  opener[c].pc = "ok" /\ ~Dropping(c) /\ ~Refused(c)
BY Zenon DEF Accounted, InHand, Dropping, Refused

\* Removing channels nobody is at work on.
LEMMA Overtaking ==
  ASSUME NEW S, Overtakes(S), "overtaken" \notin raced'
  PROVE  S \cap InHand = {} /\ "overtaken" \notin raced
BY Zenon DEF Overtakes, Note

-----------------------------------------------------------------------------
(* One step of each thread                                                   *)

LEMMA OpenerAnswers ==
  ASSUME TypeOK, TypeOK', AllAccounted, NEW c \in Channels, OpenerStep(c)
  PROVE  AllAccounted'
<1> USE DEF connVars, loopVars, chanVars, ghosts
<1>0. /\ chan \in [Channels -> Chan] /\ opener \in [Channels -> Opener]
      /\ answers \in [Channels -> Nat] /\ Accounted(c)
  BY Zenon, Fields DEF AllAccounted
<1>1. /\ expired' = expired /\ nego' = nego /\ offered' = offered /\ loop' = loop /\ cb' = cb
      /\ opener[c].pc \notin {"ok", "err"}
  BY Zenon, <1>0 DEF OpenerStep, Open, ConnExistProc, AddConnRef, AttachChannel, NewRequest,
              AddConnItem, ConnectDevice, Undo
<1>2. \A d \in Channels \ {c} : opener'[d] = opener[d]
  BY Zenon, <1>0 DEF OpenerStep, Open, ConnExistProc, AddConnRef, AttachChannel, NewRequest,
              AddConnItem, ConnectDevice, Undo, Goto, Other
<1>3. \A d \in Channels \ {c} : chan'[d] = chan[d]
  BY Zenon, <1>0 DEF OpenerStep, Open, ConnExistProc, AddConnRef, AttachChannel, NewRequest,
              AddConnItem, ConnectDevice, Undo, Requested, Attached, Without
<1>4. \A d \in Channels \ {c} : answers'[d] = answers[d]
  BY Zenon, <1>0 DEF OpenerStep, Open, ConnExistProc, AddConnRef, AttachChannel, NewRequest,
              AddConnItem, ConnectDevice, Undo, Told
<1>5. LateOnce' /\ \A d \in Channels : /\ Late(d)' => Late(d)
                                       /\ Dropping(d)' => Dropping(d)
                                       /\ Refused(d)' => Refused(d)
  BY Zenon, <1>1 DEF AllAccounted, LateOnce, Late, Dropping, Refused
<1>6. chan[c].status \in {"none", "new", "connecting"} /\ answers[c] = 0 /\ Untouched(c)
  BY Zenon, <1>0, <1>1 DEF Accounted
<1>7. CASE AttachChannel(c)
  <2>1. Msg("handshake", c, 0) \in Message /\ Msg("handshake", c, 0).what = "handshake"
        /\ Msg("handshake", c, 0).id = c
    BY Zenon DEF Msg, Message
  <2>2. QueuedOnce' /\ \A w : \A d : Queued(w, d)' => Queued(w, d) \/ (w = "handshake" /\ d = c)
    BY Zenon, <1>6, <1>7, <2>1, QueueAppend DEF AttachChannel, AllAccounted, Untouched
  <2>3. \A d \in Channels \ {c} : Accounted(d)'
    BY Zenon, <1>1, <1>2, <1>3, <1>4, <1>5, <2>2, Frame DEF AllAccounted, Fewer
  <2>4. opener'[c].pc = "ok" /\ answers'[c] = 0 /\ chan'[c].status \in {"none", "handshaking"}
    BY ZenonT(30), <1>0, <1>6, <1>7 DEF AttachChannel, Attached, Present, Goto, Chan, Opener
  <2>5. Accounted(c)'
    BY <1>1, <1>5, <1>6, <2>2, <2>4 DEF Accounted, Untouched, OneHand
  <2> QED
    BY Zenon, <1>5, <2>2, <2>3, <2>5 DEF AllAccounted
<1>8. CASE ~AttachChannel(c)
  <2>1. loopq' = loopq
    BY Zenon, <1>8 DEF OpenerStep, Open, ConnExistProc, AddConnRef, NewRequest, AddConnItem,
                ConnectDevice, Undo
  <2>2. QueuedOnce' /\ \A w : \A d : Queued(w, d)' => Queued(w, d)
    BY Zenon, <2>1 DEF AllAccounted, QueuedOnce, Queued
  <2>3. \A d \in Channels \ {c} : Accounted(d)'
    BY Zenon, <1>1, <1>2, <1>3, <1>4, <1>5, <2>2, Frame DEF AllAccounted, Fewer
  <2>4. Untouched(c)'
    BY Zenon, <1>1, <1>5, <1>6, <2>2 DEF Untouched
  <2>5. CASE Undo(c)
    <3>1. opener'[c].pc = "err" /\ answers'[c] = 1 /\ chan'[c].status = "none"
      BY <1>0, <1>6, <2>5 DEF Undo, Goto, Told, Without, NoChan, Opener
    <3> QED
      BY Zenon, <1>5, <2>2, <2>3, <2>4, <3>1 DEF AllAccounted, Accounted, Untouched, OneHand
  <2>6. CASE ~Undo(c)
    <3>1. answers'[c] = 0
      BY Zenon, <1>6, <1>8, <2>6
         DEF OpenerStep, Open, ConnExistProc, AddConnRef, NewRequest, AddConnItem,
                              ConnectDevice
    <3>2. chan'[c].status \in {"none", "new", "connecting"}
      BY <1>0, <1>6, <1>8, <2>6
      DEF OpenerStep, Open, ConnExistProc, AddConnRef, NewRequest, AddConnItem, ConnectDevice,
          Requested, Chan
    <3>3. opener'[c].pc \notin {"err", "idle"}
      BY <1>0, <1>8, <2>6
      DEF OpenerStep, Open, ConnExistProc, AddConnRef, NewRequest, AddConnItem, ConnectDevice,
          Goto, Other, Opener
    <3> QED
      BY ZenonT(30), <1>5, <2>2, <2>3, <2>4, <3>1, <3>2, <3>3
         DEF AllAccounted, Accounted, Untouched, OneHand
  <2> QED
    BY Zenon, <2>5, <2>6
<1> QED
  BY Zenon, <1>7, <1>8

LEMMA TimerAnswers ==
  ASSUME TypeOK, TypeOK', AllAccounted, "overtaken" \notin raced',
         TimerProc \/ TimerItems \/ DeathCallback \/ DestroyChannel
  PROVE  AllAccounted'
<1> USE DEF connVars, loopVars, chanVars, ghosts
<1>0. /\ chan \in [Channels -> Chan] /\ answers \in [Channels -> Nat]
      /\ \A d \in Channels : Accounted(d)
  BY Zenon, Fields DEF AllAccounted
<1>1. CASE TimerProc
  <2> DEFINE late == {c \in Channels : TimedOut(c)}
  <2>1. /\ loopq' = loopq /\ nego' = nego /\ offered' = offered /\ loop' = loop /\ cb' = cb
        /\ opener' = opener /\ answers' = answers /\ expired = {} /\ Overtakes(late)
    BY Zenon, <1>1 DEF TimerProc
  <2>2. late \cap InHand = {}
    BY Zenon, <2>1, Overtaking
  <2>3. /\ QueuedOnce' /\ \A w : \A d : Queued(w, d)' => Queued(w, d)
        /\ \A d \in Channels : (Dropping(d)' => Dropping(d)) /\ (Refused(d)' => Refused(d)) /\ ~Late(d)
    BY Zenon, <2>1 DEF AllAccounted, QueuedOnce, Queued, Dropping, Refused, Late
  <2>4. LateOnce' /\ \A d \in Channels : Late(d)' => d \in late
    BY <1>1 DEF TimerProc, LateOnce, Late
  <2>5. ASSUME NEW d \in Channels, d \notin late PROVE Accounted(d)'
    <3>1. chan'[d].status = chan[d].status
      BY Zenon, <1>0, <1>1, <2>5 DEF TimerProc, Older, Chan
    <3> QED
      BY Zenon, <1>0, <2>1, <2>3, <2>4, <2>5, <3>1, Frame DEF Fewer
  <2>6. ASSUME NEW d \in late PROVE Accounted(d)'
    <3>1. chan'[d].status = "none" /\ chan[d].status \in Waiting /\ d \in Channels
      BY Zenon, <1>1 DEF TimerProc, TimedOut, NoChan
    <3>2. opener[d].pc = "ok" /\ ~Dropping(d) /\ ~Refused(d)
      BY Zenon, <1>0, <2>2, <3>1, Returned DEF Waiting
    <3>3. answers[d] = 0 /\ ~Queued("openfail", d) /\ OneHand(d)
      BY Zenon, <1>0, <3>1 DEF Accounted, Waiting, Untouched, OneHand
    <3> QED
      BY Zenon, <2>1, <2>3, <3>1, <3>2, <3>3 DEF Accounted, OneHand
  <2> QED
    BY Zenon, <2>3, <2>4, <2>5, <2>6 DEF AllAccounted
<1>2. ASSUME NEW x \in expired, TimerItemProc(x) PROVE AllAccounted'
  <2>1. x.id \in Channels /\ x.connId \in Nat
    BY Zenon, Fields
  <2>2. /\ expired' = expired \ {x} /\ nego' = nego /\ offered' = offered /\ loop' = loop /\ cb' = cb
        /\ opener' = opener /\ answers' = answers /\ chan' = chan
    BY Zenon, <1>2 DEF TimerItemProc
  <2>3. LateOnce' /\ ~Late(x.id)' /\ Late(x.id)
        /\ \A d \in Channels : /\ Late(d)' => Late(d)
                               /\ Dropping(d)' => Dropping(d)
                               /\ Refused(d)' => Refused(d)
    <3>1. Late(x.id)
      BY Zenon DEF Late
    <3>2. ASSUME NEW y \in expired', y.id = x.id PROVE FALSE
      BY Zenon, <2>2, <3>2 DEF AllAccounted, LateOnce
    <3> QED
      BY Zenon, <2>2, <3>1, <3>2 DEF AllAccounted, LateOnce, Late, Dropping, Refused
  <2>4. chan[x.id].status = "none" /\ opener[x.id].pc = "ok" /\ answers[x.id] = 0
        /\ ~Queued("openfail", x.id)
    BY Zenon, <1>0, <2>1, <2>3, Handed DEF Accounted, Untouched
  <2>5. QueuedOnce' /\ \A w \in {"handshake", "openfail"} : \A d :
                          Queued(w, d)' => Queued(w, d) \/ (w = "openfail" /\ d = x.id)
    <3>1. CASE loopq' = Append(loopq, Msg("openfail", x.id, 0))
      <4>1. Msg("openfail", x.id, 0) \in Message /\ Msg("openfail", x.id, 0).what = "openfail"
            /\ Msg("openfail", x.id, 0).id = x.id
        BY Zenon, <2>1 DEF Msg, Message
      <4> QED
        BY Zenon, <2>4, <3>1, <4>1, QueueAppend DEF AllAccounted
    <3>2. CASE loopq' = loopq \o <<Msg("openfail", x.id, 0), Msg("disconnect", x.id, x.connId)>>
      BY Zenon, <2>1, <2>4, <3>2, QueueReport DEF AllAccounted
    <3> QED
      BY Zenon, <1>2, <3>1, <3>2 DEF TimerItemProc
  <2>6. \A d \in Channels \ {x.id} : Accounted(d)'
    BY Zenon, <1>0, <2>2, <2>3, <2>5, Frame DEF Fewer
  <2>7. ASSUME NEW c \in Channels, c = x.id PROVE Accounted(c)'
    <3>1. /\ chan'[c].status = "none" /\ opener'[c].pc = "ok" /\ answers'[c] = 0 /\ Accounted(c)
          /\ chan[c].status = "none"
      BY Zenon, <1>0, <2>2, <2>4, <2>7
    <3>2. ~Late(c)'
      <4>1. \A y \in expired' : y.id # c
        BY Zenon, <2>2, <2>7 DEF AllAccounted, LateOnce
      <4> QED
        BY Zenon, <4>1 DEF Late
    <3> QED
      BY Zenon, <2>2, <2>3, <2>5, <3>1, <3>2 DEF Accounted, OneHand
  <2> QED
    BY Zenon, <2>1, <2>3, <2>5, <2>6, <2>7 DEF AllAccounted
<1>3. CASE DeathCallback
  <2> DEFINE S == {c \in Channels : Present(c)}
  <2>1. /\ loopq' = loopq /\ nego' = nego /\ offered' = offered /\ loop' = loop /\ cb' = cb
        /\ opener' = opener /\ answers' = answers /\ expired' = expired /\ Overtakes(S)
        /\ chan' = Without(S)
    BY Zenon, <1>3 DEF DeathCallback
  <2>2. S \cap InHand = {}
    BY Zenon, <2>1, Overtaking
  <2>3. QueuedOnce' /\ LateOnce' /\ \A d \in Channels : Fewer(d)
    BY Zenon, <2>1 DEF AllAccounted, QueuedOnce, LateOnce, Queued, Dropping, Refused, Late, Fewer
  <2>4. ASSUME NEW d \in Channels PROVE Accounted(d)'
    <3>1. chan'[d].status = "none"
      BY Zenon, <2>1 DEF Without, NoChan, Present
    <3>2. ~Dropping(d) /\ ~Refused(d)
      <4>1. CASE Present(d)
        BY Zenon, <1>0, <2>2, <4>1, Returned DEF Present
      <4>2. CASE ~Present(d)
        BY Zenon, <1>0, <4>2 DEF Present, Accounted
      <4> QED
        BY Zenon, <4>1, <4>2
    <3> QED
      BY Zenon, <1>0, <2>1, <2>3, <3>1, <3>2, Removed
  <2> QED
    BY Zenon, <2>3, <2>4 DEF AllAccounted
<1>4. CASE DestroyChannel
  <2>1. /\ loopq' = loopq /\ nego' = nego /\ offered' = offered /\ loop' = loop /\ cb' = cb
        /\ opener' = opener /\ answers' = answers /\ expired' = expired /\ chan' = chan
    BY Zenon, <1>4 DEF DestroyChannel
  <2>2. QueuedOnce' /\ LateOnce' /\ \A d \in Channels : Fewer(d)
    BY Zenon, <2>1 DEF AllAccounted, QueuedOnce, LateOnce, Queued, Dropping, Refused, Late, Fewer
  <2> QED
    BY Zenon, <1>0, <2>1, <2>2, Frame DEF AllAccounted
<1> QED
  BY Zenon, <1>1, <1>2, <1>3, <1>4 DEF TimerItems

LEMMA LooperAnswers ==
  ASSUME TypeOK, TypeOK', AllAccounted,
         LoopStep \/ \E c \in Channels : AuthNegoTask(c)
  PROVE  AllAccounted'
<1> USE DEF connVars, loopVars, chanVars, ghosts
<1>0. /\ chan \in [Channels -> Chan] /\ opener \in [Channels -> Opener]
      /\ answers \in [Channels -> Nat] /\ None \notin Channels
      /\ \A d \in Channels : Accounted(d)
  BY Zenon, Fields, ProxyAssumption DEF AllAccounted
\* A message is taken off the queue.
<1>a. ASSUME NEW what, Handle(what)
      PROVE  /\ loop = NoWork /\ loopq # <<>> /\ loopq' = Tail(loopq)
             /\ Head(loopq).id \in Channels /\ Head(loopq).what = what
             /\ QueuedOnce' /\ (\A w : \A d : Queued(w, d)' => Queued(w, d))
             /\ Queued(what, Head(loopq).id)
  <2>1. loop = NoWork /\ loopq # <<>> /\ loopq' = Tail(loopq) /\ Head(loopq).what = what
    BY Zenon, <1>a DEF Handle
  <2> QED
    BY Zenon, <2>1, QueueTail DEF AllAccounted, Message
\* An idle looper drops no channel.
<1>b. loop = NoWork => \A d \in Channels : ~Dropping(d)
  BY <1>0 DEF NoWork, Dropping
\* The looper sends the handshake of a channel it has in hand, or gives it up.
<1>c. ASSUME NEW c \in Channels, loop = NoWork, NegoSessionKeySucc(c) \/ NegoSessionKeyFail(c)
      PROVE  /\ \A d \in Channels \ {c} : (d \in offered' => d \in offered) /\ ~Dropping(d)'
             /\ \/ offered' = offered /\ ~Dropping(c)'
                \/ Present(c) /\ c \in offered' /\ ~Dropping(c)'
                \/ Present(c) /\ offered' = offered /\ Dropping(c)'
  BY <1>0, <1>c DEF NegoSessionKeySucc, NegoSessionKeyFail, NoWork, Dropping
<1>1. CASE HandshakeMsg
  <2>1. PICK c \in Channels : c = Head(loopq).id
    BY Zenon, <1>a, <1>1 DEF HandshakeMsg
  <2>2. /\ Handle("handshake") /\ loop = NoWork /\ QueuedOnce'
        /\ \A w : \A d : Queued(w, d)' => Queued(w, d)
        /\ Queued("handshake", c)
    BY Zenon, <1>a, <1>1, <2>1 DEF HandshakeMsg
  <2>3. ~Queued("handshake", c)'
    BY Zenon, <1>a, <2>1, <2>2, QueueTail DEF AllAccounted
  <2>4. expired' = expired /\ cb' = cb /\ chan' = chan /\ opener' = opener /\ answers' = answers
    BY Zenon, <1>1 DEF HandshakeMsg
  <2>5. LateOnce' /\ \A d \in Channels : (Late(d)' => Late(d)) /\ (Refused(d)' => Refused(d))
    BY Zenon, <2>4 DEF AllAccounted, LateOnce, Late, Refused
  <2>6. /\ opener[c].pc = "ok" /\ chan[c].status \in {"none", "handshaking"}
        /\ Present(c) => chan[c].status = "handshaking"
        /\ c \notin nego /\ c \notin offered /\ ~Refused(c)
    BY Zenon, <1>0, <2>2, Handed DEF Untouched, Accounted, OneHand
  <2>7. /\ \A d \in Channels \ {c} : /\ d \in nego' => d \in nego
                                     /\ d \in offered' => d \in offered
                                     /\ ~Dropping(d)'
        /\ \/ c \notin nego' /\ c \notin offered' /\ ~Dropping(c)'
           \/ Present(c) /\ c \notin nego' /\ c \in offered' /\ ~Dropping(c)'
           \/ Present(c) /\ c \notin nego' /\ c \notin offered' /\ Dropping(c)'
           \/ Present(c) /\ c \in nego' /\ c \notin offered' /\ ~Dropping(c)'
    <3>1. CASE loop' = loop /\ nego' = nego /\ offered' = offered
      BY Zenon, <1>0, <2>2, <2>6, <3>1 DEF NoWork, Dropping
    <3>2. CASE NegoSessionKeySucc(c) /\ nego' = nego
      BY Zenon, <1>c, <2>2, <2>6, <3>2
    <3>3. CASE Present(c) /\ nego' = nego \cup {c} /\ loop' = loop /\ offered' = offered
      BY Zenon, <1>0, <2>2, <2>6, <3>3 DEF NoWork, Dropping
    <3> QED
      BY Zenon, <1>1, <2>1, <3>1, <3>2, <3>3 DEF HandshakeMsg
  <2>8. \A d \in Channels \ {c} : Accounted(d)'
    BY Zenon, <1>0, <2>2, <2>4, <2>5, <2>7, Frame DEF Fewer
  <2>9. Accounted(c)'
    BY Zenon, <1>0, <2>2, <2>3, <2>4, <2>5, <2>6, <2>7 DEF Accounted, OneHand, Present
  <2> QED
    BY Zenon, <2>2, <2>5, <2>8, <2>9 DEF AllAccounted
<1>2. ASSUME NEW c \in Channels, AuthNegoTask(c) PROVE AllAccounted'
  <2>1. /\ loop = NoWork /\ c \in nego /\ nego' = nego \ {c} /\ loopq' = loopq
        /\ expired' = expired /\ cb' = cb /\ chan' = chan /\ opener' = opener /\ answers' = answers
        /\ NegoSessionKeySucc(c) \/ NegoSessionKeyFail(c)
    BY Zenon, <1>2 DEF AuthNegoTask
  <2>2. /\ QueuedOnce' /\ LateOnce' /\ \A w : \A d : Queued(w, d)' => Queued(w, d)
        /\ \A d \in Channels : (Late(d)' => Late(d)) /\ (Refused(d)' => Refused(d))
    BY Zenon, <2>1 DEF AllAccounted, QueuedOnce, Queued, LateOnce, Late, Refused
  <2>3. /\ opener[c].pc = "ok" /\ chan[c].status \in {"none", "handshaking"}
        /\ Present(c) => chan[c].status = "handshaking"
        /\ ~Queued("handshake", c) /\ c \notin offered /\ ~Refused(c)
    BY Zenon, <1>0, <2>1, Handed DEF Untouched, Accounted, OneHand
  <2>4. \A d \in Channels \ {c} : Accounted(d)'
    BY Zenon, <1>0, <1>c, <2>1, <2>2, Frame DEF Fewer
  <2>5. \/ c \notin offered' /\ ~Dropping(c)'
        \/ Present(c) /\ c \in offered' /\ ~Dropping(c)'
        \/ Present(c) /\ c \notin offered' /\ Dropping(c)'
    BY Zenon, <1>c, <2>1, <2>3
  <2>6. Accounted(c)'
    BY Zenon, <1>0, <2>1, <2>2, <2>3, <2>5 DEF Accounted, OneHand, Present
  <2> QED
    BY Zenon, <2>2, <2>4, <2>6 DEF AllAccounted
<1>3. CASE DropConn
  <2>1. /\ loopq' = loopq /\ nego' = nego /\ offered' = offered /\ loop'.id = loop.id /\ cb' = cb
        /\ opener' = opener /\ answers' = answers /\ expired' = expired /\ chan' = chan
    BY Zenon, <1>3, Fields DEF DropConn, Work
  <2>2. QueuedOnce' /\ LateOnce' /\ \A d \in Channels : Fewer(d)
    BY Zenon, <2>1 DEF AllAccounted, QueuedOnce, LateOnce, Queued, Dropping, Refused, Late, Fewer
  <2> QED
    BY Zenon, <1>0, <2>1, <2>2, Frame DEF AllAccounted
<1>4. CASE DeleteChan
  <2>1. /\ loopq' = loopq /\ nego' = nego /\ offered' = offered /\ loop' = NoWork /\ cb' = cb
        /\ opener' = opener /\ answers' = Told({loop.id}) /\ expired' = expired
        /\ chan' = Without({loop.id})
    BY Zenon, <1>4 DEF DeleteChan
  <2>2. \A d \in Channels : ~Dropping(d)'
    BY Zenon, <1>0, <2>1 DEF NoWork, Dropping
  <2>3. QueuedOnce' /\ LateOnce' /\ \A d \in Channels : Fewer(d)
    BY Zenon, <2>1, <2>2 DEF AllAccounted, QueuedOnce, LateOnce, Queued, Refused, Late, Fewer
  <2>4. ASSUME NEW d \in Channels, d # loop.id PROVE Accounted(d)'
    <3>1. chan'[d] = chan[d] /\ answers'[d] = answers[d]
      BY Zenon, <2>1, <2>4 DEF Without, Told
    <3> QED
      BY Zenon, <1>0, <2>1, <2>3, <3>1, Frame
  <2>5. ASSUME NEW d \in Channels, d = loop.id PROVE Accounted(d)'
    <3>1. chan'[d].status = "none" /\ answers'[d] = answers[d] + 1
      BY Zenon, <2>1, <2>5 DEF Without, Told, NoChan
    <3>2. Dropping(d)
      BY Zenon, <2>5 DEF Dropping
    <3>3. opener[d].pc = "ok" /\ chan[d].status = "handshaking" /\ ~Refused(d)
      BY Zenon, <1>0, <3>2, Handed DEF Untouched, Accounted, OneHand
    <3>4. ~Refused(d)'
      BY Zenon, <2>1, <3>3 DEF Refused
    <3> QED
      BY Zenon, <1>0, <2>1, <2>2, <2>3, <3>1, <3>3, <3>4, RemovedAndTold DEF Waiting
  <2> QED
    BY Zenon, <2>3, <2>4, <2>5 DEF AllAccounted
<1>5. CASE OpenFailMsg
  <2>1. PICK c \in Channels : c = Head(loopq).id
    BY Zenon, <1>a, <1>5 DEF OpenFailMsg
  <2>2. /\ Handle("openfail") /\ QueuedOnce' /\ Queued("openfail", c)
        /\ \A w : \A d : Queued(w, d)' => Queued(w, d)
    BY Zenon, <1>a, <1>5, <2>1 DEF OpenFailMsg
  <2>3. ~Queued("openfail", c)'
    BY Zenon, <1>a, <2>1, <2>2, QueueTail DEF AllAccounted
  <2>4. /\ expired' = expired /\ cb' = cb /\ chan' = chan /\ opener' = opener /\ loop' = loop
        /\ nego' = nego /\ offered' = offered /\ answers' = Told({c})
    BY Zenon, <1>5, <2>1 DEF OpenFailMsg
  <2>5. LateOnce' /\ \A d \in Channels : Fewer(d)
    BY Zenon, <2>2, <2>4 DEF AllAccounted, LateOnce, Late, Refused, Dropping, Fewer
  <2>6. opener[c].pc = "ok" /\ chan[c].status = "none" /\ answers[c] = 0 /\ ~Late(c)
    BY Zenon, <1>0, <2>2, Handed DEF Untouched, Accounted
  <2>7. answers'[c] = 1 /\ \A d \in Channels \ {c} : answers'[d] = answers[d]
    BY SMTT(30), <2>4, <2>6 DEF Told
  <2>8. \A d \in Channels \ {c} : Accounted(d)'
    BY Zenon, <1>0, <2>4, <2>5, <2>7, Frame
  <2>9. Accounted(c)'
    <3>1. Accounted(c) /\ Fewer(c)
      BY Zenon, <1>0, <2>5
    <3>2. ~Dropping(c) /\ ~Refused(c) /\ OneHand(c)
      BY Zenon, <2>6, <3>1 DEF Accounted
    <3>3. ~Dropping(c)' /\ ~Refused(c)' /\ ~Late(c)' /\ OneHand(c)'
      BY Zenon, <2>6, <3>1, <3>2 DEF OneHand, Fewer
    <3>4. opener'[c].pc = "ok" /\ chan'[c].status = "none"
      BY Zenon, <2>4, <2>6
    <3> QED
      BY Zenon, <2>3, <2>7, <3>3, <3>4, Reported
  <2> QED
    BY Zenon, <2>2, <2>5, <2>8, <2>9 DEF AllAccounted
<1>6. CASE ReleaseMsg
  <2>1. /\ nego' = nego /\ offered' = offered /\ loop' = loop /\ cb' = cb
        /\ opener' = opener /\ answers' = answers /\ expired' = expired /\ chan' = chan
    BY Zenon, <1>6 DEF ReleaseMsg
  <2>2. QueuedOnce' /\ \A w : \A d : Queued(w, d)' => Queued(w, d)
    BY Zenon, <1>a, <1>6 DEF ReleaseMsg
  <2>3. LateOnce' /\ \A d \in Channels : Fewer(d)
    BY Zenon, <2>1, <2>2 DEF AllAccounted, LateOnce, Dropping, Refused, Late, Fewer
  <2> QED
    BY Zenon, <1>0, <2>1, <2>2, <2>3, Frame DEF AllAccounted
<1> QED
  BY Zenon, <1>1, <1>2, <1>3, <1>4, <1>5, <1>6 DEF LoopStep

LEMMA CallbackAnswers ==
  ASSUME TypeOK, TypeOK', OwnBusiness, AllAccounted, "overtaken" \notin raced',
         \/ \E c \in Channels : \/ Close(c) \/ OnConnectSucceed(c) \/ OnConnectFailed(c)
                                \/ HandshakeAck(c) \/ HandshakeErr(c) \/ ResetMsg(c) \/ ReNegotiate(c)
         \/ \E k \in ConnIds : LoseLink(k) \/ OnDisConnect(k)
         \/ CallbackStep
  PROVE  AllAccounted'
<1> USE DEF connVars, loopVars, chanVars, ghosts
<1>0. /\ chan \in [Channels -> Chan] /\ answers \in [Channels -> Nat] /\ None \notin Channels
      /\ cb \in Callback /\ \A d \in Channels : Accounted(d)
  BY Zenon, Fields, ProxyAssumption DEF AllAccounted
\* What a step that leaves the queue and the timer alone keeps.
<1>a. ASSUME loopq' = loopq, expired' = expired
      PROVE  /\ QueuedOnce' /\ LateOnce'
             /\ \A w : \A d : Queued(w, d)' => Queued(w, d)
             /\ \A d : Late(d)' => Late(d)
  BY Zenon, <1>a DEF AllAccounted, QueuedOnce, LateOnce, Queued, Late
\* A release posted to the looper is no handshake and no report.
<1>b. ASSUME NEW c \in Channels, loopq' = Append(loopq, Msg("resetpeer", c, chan[c].connId)),
             expired' = expired
      PROVE  /\ QueuedOnce' /\ LateOnce'
             /\ \A w \in {"handshake", "openfail"} : \A d : Queued(w, d)' => Queued(w, d)
             /\ \A d : Late(d)' => Late(d)
  <2>1. Msg("resetpeer", c, chan[c].connId) \in Message
        /\ Msg("resetpeer", c, chan[c].connId).what = "resetpeer"
    BY Zenon, <1>0 DEF Msg, Message, Chan
  <2>2. QueuedOnce' /\ \A w \in {"handshake", "openfail"} : \A d : Queued(w, d)' => Queued(w, d)
    BY Zenon, <1>b, <2>1, QueueAppend DEF AllAccounted
  <2> QED
    BY Zenon, <1>b, <2>2 DEF AllAccounted, LateOnce, Late
\* A channel of a request whose callback is at work has an opener that returned.
<1>c. ASSUME cb.kind \in {"succeed", "failed"}, NEW d \in WaitingOn(cb.id)
      PROVE  /\ d \in Channels /\ chan[d].status = "connecting"
             /\ opener[d].pc = "ok" /\ answers[d] = 0 /\ Untouched(d)
  <2>1. d \in Channels /\ chan[d].status = "connecting" /\ chan[d].reqId = cb.id
    BY Zenon, <1>c DEF WaitingOn
  <2>2. opener[d].pc # "err" /\ answers[d] = 0 /\ Untouched(d)
    BY Zenon, <1>0, <2>1 DEF Accounted
  <2> QED
    BY Zenon, <1>c, <2>1, <2>2 DEF OwnBusiness
<1>1. ASSUME NEW c \in Channels, Close(c) PROVE AllAccounted'
  <2>1. /\ chan' = Without({c}) /\ loopq' = Append(loopq, Msg("resetpeer", c, chan[c].connId))
        /\ Overtakes({c}) /\ opener' = opener /\ cb' = cb /\ loop' = loop /\ nego' = nego
        /\ offered' = offered /\ expired' = expired /\ answers' = answers /\ Present(c)
    BY ZenonT(30), <1>1 DEF Close
  <2>2. \A d \in Channels : Fewer(d)
    BY Zenon, <1>b, <2>1 DEF Fewer, Dropping, Refused
  <2>3. ~Dropping(c) /\ ~Refused(c)
    BY Zenon, <1>0, <2>1, Overtaking, Returned DEF Present
  <2>4. chan'[c].status = "none" /\ \A d \in Channels \ {c} : chan'[d] = chan[d]
    BY Zenon, <2>1 DEF Without, NoChan
  <2>5. Accounted(c)'
    BY ZenonT(30), <1>0, <2>1, <2>2, <2>3, <2>4, Removed
  <2>6. \A d \in Channels \ {c} : Accounted(d)'
    BY ZenonT(30), <1>0, <2>1, <2>2, <2>4, Frame
  <2> QED
    BY Zenon, <1>b, <2>1, <2>5, <2>6 DEF AllAccounted
<1>2. ASSUME NEW c \in Channels, OnConnectSucceed(c) \/ OnConnectFailed(c) PROVE AllAccounted'
  <2>1. /\ opener' = opener /\ chan' = chan /\ loopq' = loopq /\ loop' = loop /\ nego' = nego
        /\ offered' = offered /\ expired' = expired /\ answers' = answers
    BY Zenon, <1>2 DEF OnConnectSucceed, OnConnectFailed
  <2>2. cb'.kind \in {"succeed", "failed"}
    <3>1. CASE OnConnectSucceed(c)
      BY Zenon, <3>1 DEF OnConnectSucceed
    <3>2. CASE OnConnectFailed(c)
      BY ZenonT(30), <3>2 DEF OnConnectFailed, NoCallback
    <3> QED
      BY Zenon, <1>2, <3>1, <3>2
  <2>3. \A d \in Channels : Fewer(d)
    BY Zenon, <1>a, <2>1, <2>2 DEF Fewer, Dropping, Refused
  <2> QED
    BY Zenon, <1>0, <1>a, <2>1, <2>3, Frame DEF AllAccounted
<1>3. ASSUME NEW c \in Channels, HandshakeAck(c) PROVE AllAccounted'
  <2>1. /\ c \in offered /\ offered' = offered \ {c} /\ opener' = opener /\ cb' = cb
        /\ loopq' = loopq /\ loop' = loop /\ nego' = nego /\ expired' = expired
    BY Zenon, <1>3 DEF HandshakeAck, Answer
  <2>2. \A d \in Channels : Fewer(d)
    BY Zenon, <1>a, <2>1 DEF Fewer, Dropping, Refused
  <2>3. CASE chan' = chan /\ answers' = answers
    BY Zenon, <1>0, <1>a, <2>1, <2>2, <2>3, Frame DEF AllAccounted
  <2>4. CASE Present(c) /\ chan' = [chan EXCEPT ![c].status = "completed", ![c].timeout = 0]
             /\ answers' = Told({c})
    <3>1. /\ chan'[c].status = "completed" /\ answers'[c] = answers[c] + 1
          /\ \A d \in Channels \ {c} : chan'[d] = chan[d] /\ answers'[d] = answers[d]
      BY Zenon, <1>0, <2>4 DEF Told, Chan
    <3>2. opener[c].pc = "ok" /\ chan[c].status = "handshaking"
      BY Zenon, <1>0, <2>1, <2>4, Handed DEF Untouched
    <3>3. answers[c] = 0 /\ ~Queued("openfail", c) /\ ~Late(c) /\ OneHand(c)
      BY Zenon, <1>0, <3>2 DEF Accounted
    <3>4. Untouched(c)'
      BY ZenonT(30), <2>1, <2>2, <3>3 DEF Untouched, OneHand, Fewer
    <3>5. Accounted(c)'
      <4>a. answers[c] = 0
        BY <3>3, Zenon
      <4>b. answers'[c] = answers[c] + 1
        BY <3>1, Zenon
      <4>1. answers'[c] = 1
        BY ZenonT(30), <4>a, <4>b, FirstAnswer
      <4>2. opener'[c].pc = "ok"
        BY Zenon, <2>1, <3>2
      <4> QED
        BY Zenon, <3>1, <3>4, <4>1, <4>2, Completed
    <3> QED
      BY Zenon, <1>0, <1>a, <2>1, <2>2, <3>1, <3>5, Frame DEF AllAccounted
  <2> QED
    BY Zenon, <1>3, <2>3, <2>4 DEF HandshakeAck
<1>4. ASSUME NEW c \in Channels, HandshakeErr(c) PROVE AllAccounted'
  <2>1. /\ c \in offered /\ offered' = offered \ {c} /\ opener' = opener /\ chan' = chan
        /\ loopq' = loopq /\ loop' = loop /\ nego' = nego /\ expired' = expired
        /\ answers' = answers /\ Present(c)
        /\ cb' = [NoCallback EXCEPT !.kind = "error", !.id = c]
    BY Zenon, <1>4 DEF HandshakeErr, Answer
  <2>2. \A d \in Channels \ {c} : ~Refused(d)'
    BY Zenon, <2>1 DEF NoCallback, Refused
  <2>3. \A d \in Channels \ {c} : Fewer(d)
    BY Zenon, <1>a, <2>1, <2>2 DEF Fewer, Dropping
  <2>4. opener[c].pc = "ok" /\ chan[c].status = "handshaking"
    BY Zenon, <1>0, <2>1, Handed DEF Untouched
  <2>5. answers[c] = 0 /\ ~Queued("openfail", c) /\ ~Late(c) /\ OneHand(c)
    BY Zenon, <1>0, <2>4 DEF Accounted
  <2>6. ~Dropping(c)' /\ c \notin nego' /\ c \notin offered' /\ ~Queued("handshake", c)'
        /\ ~Queued("openfail", c)' /\ ~Late(c)'
    BY Zenon, <1>a, <2>1, <2>5 DEF OneHand, Dropping
  <2>7. Accounted(c)'
    BY ZenonT(30), <2>1, <2>4, <2>5, <2>6 DEF Accounted, OneHand
  <2> QED
    BY Zenon, <1>0, <1>a, <2>1, <2>3, <2>7, Frame DEF AllAccounted
<1>5. ASSUME NEW c \in Channels, ResetMsg(c) PROVE AllAccounted'
  <2>1. /\ offered' \subseteq offered /\ opener' = opener /\ chan' = Without({c})
        /\ loopq' = loopq /\ loop' = loop /\ nego' = nego /\ expired' = expired
        /\ answers' = Told(NotYetOpen({c})) /\ Overtakes({c})
        /\ cb' = [NoCallback EXCEPT !.kind = "reset", !.connId = chan[c].connId]
        /\ chan[c].status \in {"handshaking", "completed"}
    BY Zenon, <1>5 DEF ResetMsg, Answer
  <2>2. \A d \in Channels : ~Refused(d)'
    BY Zenon, <2>1 DEF NoCallback, Refused
  <2>3. \A d \in Channels : Fewer(d)
    BY Zenon, <1>a, <2>1, <2>2 DEF Fewer, Dropping
  <2>4. opener[c].pc = "ok" /\ ~Dropping(c) /\ ~Refused(c)
    BY Zenon, <1>0, <2>1, Overtaking, Returned
  <2>5. /\ chan'[c].status = "none"
        /\ \A d \in Channels \ {c} : chan'[d] = chan[d] /\ answers'[d] = answers[d]
        /\ answers'[c] = IF chan[c].status \in Waiting THEN answers[c] + 1 ELSE answers[c]
    BY Zenon, <2>1 DEF Without, NoChan, Told, NotYetOpen
  <2>6. ~Dropping(c)'
    BY Zenon, <2>1, <2>4 DEF Dropping
  <2>7. Accounted(c)'
    <3>1. CASE chan[c].status \in Waiting
      BY Zenon, <1>0, <2>1, <2>2, <2>3, <2>4, <2>5, <2>6, <3>1, RemovedAndTold
    <3>2. CASE chan[c].status \notin Waiting
      BY ZenonT(30), <1>0, <2>1, <2>3, <2>4, <2>5, <3>2, Removed
    <3> QED
      BY ZenonT(30), <3>1, <3>2
  <2> QED
    BY Zenon, <1>0, <1>a, <2>1, <2>3, <2>5, <2>7, Frame DEF AllAccounted
<1>6. ASSUME NEW c \in Channels, ReNegotiate(c) PROVE AllAccounted'
  <2>1. /\ c \in offered /\ offered' = offered \ {c} /\ opener' = opener /\ chan' = chan
        /\ loopq' = loopq /\ loop' = loop /\ nego' = nego \cup {c} /\ expired' = expired
        /\ answers' = answers /\ cb' = cb /\ chan[c].status = "handshaking"
    BY ZenonT(30), <1>6 DEF ReNegotiate, Answer
  <2>2. \A d \in Channels \ {c} : Fewer(d)
    BY ZenonT(30), <1>a, <2>1 DEF Fewer, Dropping, Refused
  <2>3. opener[c].pc = "ok" /\ answers[c] = 0 /\ ~Queued("openfail", c) /\ ~Late(c) /\ OneHand(c)
    BY ZenonT(30), <1>0, <2>1, Handed DEF Accounted, Untouched
  <2>4. ~Dropping(c)' /\ ~Refused(c)' /\ c \notin offered' /\ ~Queued("handshake", c)'
        /\ ~Queued("openfail", c)' /\ ~Late(c)'
    BY ZenonT(30), <1>a, <2>1, <2>3 DEF OneHand, Dropping, Refused
  <2>5. Accounted(c)'
    BY Zenon, <2>1, <2>3, <2>4 DEF Accounted, OneHand
  <2> QED
    BY ZenonT(30), <1>0, <1>a, <2>1, <2>2, <2>5, Frame DEF AllAccounted
<1>7. ASSUME NEW k \in ConnIds, LoseLink(k) PROVE AllAccounted'
  <2>1. /\ opener' = opener /\ chan' = chan /\ loopq' = loopq /\ loop' = loop /\ nego' = nego
        /\ offered' = offered /\ expired' = expired /\ answers' = answers /\ cb' = cb
    BY Zenon, <1>7 DEF LoseLink
  <2>2. \A d \in Channels : Fewer(d)
    BY Zenon, <1>a, <2>1 DEF Fewer, Dropping, Refused
  <2> QED
    BY Zenon, <1>0, <1>a, <2>1, <2>2, Frame DEF AllAccounted
<1>8. ASSUME NEW k \in ConnIds, OnDisConnect(k) PROVE AllAccounted'
  <2> DEFINE U == OnConn(k)
  <2>1. /\ opener' = opener /\ chan' = Without(U) /\ loopq' = loopq /\ loop' = loop /\ nego' = nego
        /\ offered' = offered /\ expired' = expired /\ answers' = Told(NotYetOpen(U))
        /\ Overtakes(U) /\ cb' = [NoCallback EXCEPT !.kind = "disconnect", !.connId = k]
    BY Zenon, <1>8 DEF OnDisConnect
  <2>2. \A d \in Channels : ~Refused(d)'
    BY Zenon, <2>1 DEF NoCallback, Refused
  <2>3. \A d \in Channels : Fewer(d)
    BY Zenon, <1>a, <2>1, <2>2 DEF Fewer, Dropping
  <2>4. \A d \in U : d \in Channels /\ d \notin InHand /\ chan[d].status # "none"
    BY Zenon, <2>1, Overtaking DEF OnConn, Present
  <2> HIDE DEF U
  <2>5. ASSUME NEW d \in Channels, d \notin U PROVE Accounted(d)'
    <3>1. chan'[d] = chan[d] /\ answers'[d] = answers[d]
      BY Zenon, <2>1, <2>5 DEF Without, Told, NotYetOpen
    <3> QED
      BY Zenon, <1>0, <2>1, <2>3, <3>1, Frame
  <2>6. ASSUME NEW d \in U PROVE Accounted(d)'
    <3>1. /\ d \in Channels /\ chan'[d].status = "none"
          /\ answers'[d] = IF chan[d].status \in Waiting THEN answers[d] + 1 ELSE answers[d]
      BY Zenon, <2>1, <2>4 DEF Without, NoChan, Told, NotYetOpen
    <3>2. opener[d].pc = "ok" /\ ~Dropping(d) /\ ~Refused(d)
      BY Zenon, <1>0, <2>4, Returned
    <3>3. ~Dropping(d)'
      BY Zenon, <2>1, <3>2 DEF Dropping
    <3>4. CASE chan[d].status \in Waiting
      BY Zenon, <1>0, <2>1, <2>2, <2>3, <3>1, <3>2, <3>3, <3>4, RemovedAndTold
    <3>5. CASE chan[d].status \notin Waiting
      BY Zenon, <1>0, <2>1, <2>3, <3>1, <3>2, <3>5, Removed
    <3> QED
      BY Zenon, <3>4, <3>5
  <2> QED
    BY Zenon, <1>a, <2>1, <2>5, <2>6 DEF AllAccounted
<1>9. CASE ChanProcessByReqId
  <2> DEFINE U == WaitingOn(cb.id)
  <2>1. /\ opener' = opener /\ loop' = loop /\ nego' = nego /\ offered' = offered
        /\ expired' = expired /\ answers' = answers /\ cb' = NoCallback /\ cb.kind = "succeed"
        /\ chan' = Attached(U, cb.connId) /\ loopq' = loopq \o Posts("handshake", U)
    BY ZenonT(30), <1>9 DEF ChanProcessByReqId
  <2>2. U \in SUBSET Channels /\ \A d \in U : chan[d].status = "connecting" /\ opener[d].pc = "ok"
                                              /\ answers[d] = 0 /\ Untouched(d)
    BY ZenonT(30), <1>c, <2>1 DEF WaitingOn
  <2> HIDE DEF U
  <2>3. QueuedOnce' /\ \A w : \A d : Queued(w, d)' => Queued(w, d) \/ (w = "handshake" /\ d \in U)
    BY ZenonT(30), <2>1, <2>2, QueuePosts DEF AllAccounted, Untouched
  <2>4. LateOnce' /\ \A d \in Channels : /\ Late(d)' => Late(d)
                                         /\ Dropping(d)' => Dropping(d)
                                         /\ ~Refused(d)'
    BY ZenonT(30), <2>1 DEF AllAccounted, LateOnce, Late, Dropping, Refused, NoCallback
  <2>5. \A d \in Channels \ U : Accounted(d)'
    <3>1. \A d \in Channels \ U : chan'[d] = chan[d]
      BY ZenonT(30), <2>1 DEF Attached
    <3> QED
      BY ZenonT(30), <1>0, <2>1, <2>3, <2>4, <3>1, Frame DEF Fewer
  <2>6. ASSUME NEW d \in U PROVE Accounted(d)'
    <3>1. chan'[d].status = "handshaking" /\ d \in Channels
      BY ZenonT(30), <1>0, <2>1, <2>2 DEF Attached, Present, Chan
    <3>2. Untouched(d) /\ opener'[d].pc = "ok" /\ answers'[d] = 0
      BY ZenonT(30), <2>1, <2>2
    <3>3. d \notin nego' /\ d \notin offered' /\ ~Late(d)' /\ ~Dropping(d)' /\ ~Refused(d)'
      BY Zenon, <2>1, <2>4, <3>1, <3>2 DEF Untouched
    <3>4. ~Queued("openfail", d)'
      <4>1. ~Queued("openfail", d)
        BY Zenon, <3>2 DEF Untouched
      <4>2. "openfail" # "handshake"
        BY Zenon
      <4> QED
        BY <2>3, <4>1, <4>2, Zenon
    <3> QED
      BY ZenonT(30), <3>1, <3>2, <3>3, <3>4, Posted
  <2> QED
    BY Zenon, <2>2, <2>3, <2>4, <2>5, <2>6 DEF AllAccounted
<1>10. CASE DelChanByReqId
  <2> DEFINE U == WaitingOn(cb.id)
  <2>1. /\ opener' = opener /\ loop' = loop /\ nego' = nego /\ offered' = offered
        /\ expired' = expired /\ answers' = answers /\ cb' = NoCallback /\ cb.kind = "failed"
        /\ chan' = Without(U) /\ loopq' = loopq \o Posts("openfail", U)
    BY ZenonT(30), <1>10 DEF DelChanByReqId
  <2>2. U \in SUBSET Channels /\ \A d \in U : chan[d].status = "connecting" /\ opener[d].pc = "ok"
                                              /\ answers[d] = 0 /\ Untouched(d)
    BY ZenonT(30), <1>c, <2>1 DEF WaitingOn
  <2> HIDE DEF U
  <2>3. QueuedOnce' /\ \A w : \A d : Queued(w, d)' => Queued(w, d) \/ (w = "openfail" /\ d \in U)
    BY ZenonT(30), <2>1, <2>2, QueuePosts DEF AllAccounted, Untouched
  <2>4. LateOnce' /\ \A d \in Channels : /\ Late(d)' => Late(d)
                                         /\ Dropping(d)' => Dropping(d)
                                         /\ ~Refused(d)'
    BY ZenonT(30), <2>1 DEF AllAccounted, LateOnce, Late, Dropping, Refused, NoCallback
  <2>5. \A d \in Channels \ U : Accounted(d)'
    <3>1. \A d \in Channels \ U : chan'[d] = chan[d]
      BY Zenon, <2>1 DEF Without
    <3> QED
      BY ZenonT(30), <1>0, <2>1, <2>3, <2>4, <3>1, Frame DEF Fewer
  <2>6. ASSUME NEW d \in U PROVE Accounted(d)'
    <3>1. chan'[d].status = "none" /\ d \in Channels
      BY Zenon, <2>1, <2>2 DEF Without, NoChan
    <3>2. Untouched(d) /\ opener'[d].pc = "ok" /\ answers'[d] = 0
      BY ZenonT(30), <2>1, <2>2
    <3>3. d \notin nego' /\ d \notin offered' /\ ~Late(d)' /\ ~Dropping(d)' /\ ~Refused(d)'
      BY ZenonT(30), <2>1, <2>4, <3>1, <3>2 DEF Untouched
    <3> QED
      BY ZenonT(30), <3>1, <3>2, <3>3, Posted
  <2> QED
    BY ZenonT(30), <2>2, <2>3, <2>4, <2>5, <2>6 DEF AllAccounted
<1>11. CASE DelConnByConnId \/ ResetConn
  <2>1. /\ opener' = opener /\ chan' = chan /\ loopq' = loopq /\ loop' = loop /\ nego' = nego
        /\ offered' = offered /\ expired' = expired /\ answers' = answers /\ cb' = NoCallback
    BY ZenonT(30), <1>11 DEF DelConnByConnId, ResetConn
  <2>2. \A d \in Channels : Fewer(d)
    BY ZenonT(30), <1>a, <2>1 DEF Fewer, Dropping, Refused, NoCallback
  <2> QED
    BY Zenon, <1>0, <1>a, <2>1, <2>2, Frame DEF AllAccounted
<1>12. CASE ProcessErrMsg
  <2>1. PICK c \in Channels : c = cb.id
    BY Zenon, <1>0, <1>12 DEF ProcessErrMsg, Callback
  <2>2. /\ opener' = opener /\ loop' = loop /\ nego' = nego /\ offered' = offered
        /\ expired' = expired /\ answers' = Told({c}) /\ cb' = NoCallback /\ cb.kind = "error"
        /\ chan' = Without({c})
        /\ \/ loopq' = loopq
           \/ loopq' = Append(loopq, Msg("resetpeer", c, chan[c].connId))
    BY Zenon, <1>12, <2>1 DEF ProcessErrMsg
  <2>3. /\ QueuedOnce' /\ LateOnce'
        /\ \A w \in {"handshake", "openfail"} : \A d : Queued(w, d)' => Queued(w, d)
        /\ \A d : Late(d)' => Late(d)
    BY Zenon, <1>a, <1>b, <2>2
  <2>4. \A d \in Channels : ~Refused(d)'
    BY Zenon, <2>2 DEF Refused, NoCallback
  <2>5. \A d \in Channels : Fewer(d)
    BY Zenon, <2>2, <2>3, <2>4 DEF Fewer, Dropping
  <2>6. Refused(c)
    BY Zenon, <2>1, <2>2 DEF Refused
  <2>7. opener[c].pc = "ok" /\ chan[c].status = "handshaking" /\ ~Dropping(c)
    BY ZenonT(30), <1>0, <2>6, Handed DEF Untouched, Accounted, OneHand
  <2>8. /\ chan'[c].status = "none" /\ answers'[c] = answers[c] + 1
        /\ \A d \in Channels \ {c} : chan'[d] = chan[d] /\ answers'[d] = answers[d]
    BY Zenon, <2>2 DEF Without, NoChan, Told
  <2>9. ~Dropping(c)'
    BY Zenon, <2>2, <2>7 DEF Dropping
  <2>10. Accounted(c)'
    BY Zenon, <1>0, <2>2, <2>4, <2>5, <2>7, <2>8, <2>9, RemovedAndTold DEF Waiting
  <2> QED
    BY ZenonT(30), <1>0, <2>2, <2>3, <2>5, <2>8, <2>10, Frame DEF AllAccounted
<1> QED
  BY <1>1, <1>2, <1>3, <1>4, <1>5, <1>6, <1>7, <1>8, <1>9, <1>10, <1>11, <1>12, Zenon
  DEF CallbackStep

-----------------------------------------------------------------------------
LEMMA AnswerInit == Init => AnswerInv
<1> SUFFICES ASSUME Init PROVE AnswerInv
  BY Zenon
<1>1. OwnBusiness
  BY Zenon DEF Init, ConnInit, OwnBusiness, NoCallback, NoChan
<1>2. QueuedOnce /\ LateOnce /\ \A w : \A c : ~Queued(w, c)
  <2>1. loopq = <<>> /\ expired = {}
    BY Zenon DEF Init
  <2>2. DOMAIN loopq = {}
    BY SMTT(20), <2>1
  <2> QED
    BY Zenon, <2>1, <2>2 DEF QueuedOnce, LateOnce, Queued
<1>3. \A c \in Channels : Accounted(c)
  BY Zenon, <1>2, ProxyAssumption
  DEF Init, NoCallback, NoChan, NoWork, Accounted, OneHand, Untouched, Late, Dropping, Refused
<1> QED
  BY Zenon, <1>1, <1>2, <1>3 DEF AnswerInv, AllAccounted

LEMMA AnswerStep ==
  ASSUME TypeOK, AnswerInv, [Next]_vars
  PROVE  AnswerInv'
<1>0. TypeOK' /\ raced \subseteq raced'
  BY Zenon, TypeStep, RacesKept
<1>1. CASE UNCHANGED vars
  <2>1. /\ attempts' = attempts /\ chan' = chan /\ opener' = opener /\ cb' = cb /\ loopq' = loopq
        /\ loop' = loop /\ nego' = nego /\ offered' = offered /\ expired' = expired
        /\ answers' = answers /\ raced' = raced
    BY Zenon, <1>1 DEF vars, connVars, loopVars, chanVars, ghosts
  <2>2. OwnBusiness'
    BY Zenon, <2>1 DEF AnswerInv, OwnBusiness
  <2>3. AllAccounted => QueuedOnce' /\ LateOnce'
    BY Zenon, <2>1 DEF AllAccounted, QueuedOnce, LateOnce
  <2>4. \A c \in Channels : Fewer(c)
    BY Zenon, <2>1 DEF Fewer, Queued, Late, Dropping, Refused
  <2>5. AllAccounted => \A c \in Channels : Accounted(c)'
    BY Zenon, <2>1, <2>4, Frame DEF AllAccounted
  <2> QED
    BY Zenon, <2>1, <2>2, <2>3, <2>5 DEF AnswerInv, AllAccounted
<1>2. CASE Next
  <2>1. OwnBusiness'
    BY Zenon, <1>2, OwnBusinessStep DEF AnswerInv
  <2>2. ASSUME "overtaken" \notin raced' PROVE AllAccounted'
    <3>1. OwnBusiness /\ AllAccounted
      BY Zenon, <1>0, <2>2 DEF AnswerInv
    <3> QED
      BY <1>0, <1>2, <2>2, <3>1, OpenerAnswers, CallbackAnswers, LooperAnswers, TimerAnswers, Zenon
      DEF Next
  <2> QED
    BY Zenon, <2>1, <2>2 DEF AnswerInv
<1> QED
  BY Zenon, <1>1, <1>2

(* Whoever opens a proxy channel is told the outcome at most once, by the    *)
(* returned error, by OnProxyChannelOpened or by OnProxyChannelOpenFailed:   *)
(* the handlers of the connect results, the disconnect, the peer's answers,  *)
(* the looper and the timer hand each channel from one to the next and never *)
(* hold it twice, unless a channel is removed under a thread that works on   *)
(* it by its id.                                                             *)
THEOREM OpenAnsweredOnceHolds == Spec => []OpenAnsweredOnce
<1>1. AnswerInv => OpenAnsweredOnce
  <2>1. ASSUME NEW c \in Channels, Accounted(c) PROVE answers[c] <= 1
    <3>1. answers[c] = 0 \/ answers[c] = 1
      BY Zenon, <2>1 DEF Accounted
    <3> QED
      BY <3>1
  <2> QED
    BY Zenon, <2>1 DEF AnswerInv, AllAccounted, OpenAnsweredOnce
<1> QED
  BY <1>1, TypeInit, TypeStep, AnswerInit, AnswerStep, PTL DEF Spec
=============================================================================
