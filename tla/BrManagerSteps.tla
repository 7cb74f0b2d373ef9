-------------------------- MODULE BrManagerSteps ---------------------------
(***************************************************************************)
(* The inductive invariant of BrManager, and that it survives the start,   *)
(* every step outside the looper and the delayed messages of the looper,   *)
(* for every finite set of requests, every set of addresses and every      *)
(* number of connections, events and faults.  A lemma that one proof alone *)
(* needs is a step of that proof.                                          *)
(***************************************************************************)
EXTENDS BrManager, TLAPS

USE Zenon

Conns == UNION {[D -> Saved] : D \in SUBSET Id}

Manager ==
  [state : {"AVAILABLE", "CONNECTING"}, connecting : Device \cup {None},
   waitings : Seq(Device), pendings : SUBSET Addr,
   conns : Conns, msgs : Seq(Message),
   timers : SUBSET Timer, answers : [Req -> Nat], passed : BOOLEAN]

ThreadState == {"connecting", "open", "reading", "done"}

\* TypeOK, and that mgr has no other fields.
Typed ==
  /\ mgr \in Manager
  /\ called \subseteq Req
  /\ thread \in Seq(ThreadState)
  /\ btOn \in BOOLEAN
  /\ events \in 0..MaxEvents
  /\ faults \in 0..MaxFaults

(***************************************************************************)
(* The invariants, of a record m that a handler works on: it may be an     *)
(* intermediate one.  th is the state of the threads.                      *)
(***************************************************************************)
OneDevice(m) ==
  /\ \A i, j \in DOMAIN m.waitings : m.waitings[i].addr = m.waitings[j].addr => i = j
  /\ \A i \in DOMAIN m.waitings : m.waitings[i].addr # m.connecting.addr

OneClient(m) == \A i, j \in DOMAIN m.conns :
  m.conns[i].side = "client" /\ m.conns[j].side = "client" /\ m.conns[i].addr = m.conns[j].addr
  => i = j

Matched(m) == (m.state = "CONNECTING") <=> (m.connecting # None)

Unpend(addr) == [what |-> "UNPEND", addr |-> addr]

Connected(m, addr) == \E id \in DOMAIN m.conns : m.conns[id].addr = addr

\* What a device with these fields waits for exists.
HasWaker(m, addr, state) ==
  /\ state = "PENDING" => addr \in m.pendings
  /\ state = "WAIT_EVENT" => Connected(m, addr)

Wakers(m) ==
  /\ \A addr \in Addr : addr \in m.pendings <=> Unpend(addr) \in m.timers
  /\ \A i \in DOMAIN m.waitings : HasWaker(m, m.waitings[i].addr, m.waitings[i].state)

\* A message for connection id is at position i of the queue.
At(m, i, what, id) == i \in DOMAIN m.msgs /\ m.msgs[i].what = what /\ m.msgs[i].id = id

Sent(m, what, id) == \E i \in DOMAIN m.msgs : At(m, i, what, id)

DelayedFail(m, id) == \E t \in m.timers : t.what = "FAIL" /\ t.id = id

Failed(m, id) == Sent(m, "FAIL", id) \/ DelayedFail(m, id)

\* The ids in use belong to threads.
Reports == {"SUCCESS", "ACCEPTED", "EXCEPTION", "RESUME", "DISCONNECT", "FAIL"}

Known(m, th) ==
  /\ DOMAIN m.conns \subseteq DOMAIN th
  /\ \A i \in DOMAIN m.msgs : m.msgs[i].what \in Reports => m.msgs[i].id \in DOMAIN th
  /\ \A t \in m.timers : t.what = "FAIL" => t.id \in DOMAIN th

Running(m, th) == \A id \in DOMAIN th :
  th[id] # "done" => /\ id \in DOMAIN m.conns
                     /\ th[id] = "connecting" => m.conns[id].side = "client"

\* The outcome that a thread reports: a success is reported once and before the
\* end of the connection, a failure excludes both.
Outcomes(m, th) == \A id \in DOMAIN th :
  /\ Sent(m, "SUCCESS", id) =>
       /\ th[id] \in {"reading", "done"}
       /\ id \in DOMAIN m.conns /\ m.conns[id].side = "client"
  /\ \A i, j \in DOMAIN m.msgs : At(m, i, "SUCCESS", id) /\ At(m, j, "SUCCESS", id) => i = j
  /\ \A i, j \in DOMAIN m.msgs : At(m, i, "SUCCESS", id) /\ At(m, j, "EXCEPTION", id) => i < j
  /\ Sent(m, "EXCEPTION", id) => th[id] = "done"
  /\ Failed(m, id) => th[id] = "done" /\ ~Sent(m, "SUCCESS", id) /\ ~Sent(m, "EXCEPTION", id)

\* The outcome of an attempt is still to be handled.
Due(m, th, id) == th[id] \in {"connecting", "open"} \/ Sent(m, "SUCCESS", id) \/ Failed(m, id)

Attempt(m, th, id) ==
  /\ id \in DOMAIN m.conns
  /\ m.conns[id].side = "client"
  /\ m.conns[id].addr = m.connecting.addr
  /\ \E t \in m.timers : t.what = "TIMEOUT" /\ t.id = id /\ t.addr = m.connecting.addr
  /\ Due(m, th, id)

Timed(m, th) == m.state = "CONNECTING" => \E id \in Id : Attempt(m, th, id)

Schedules(m) == \E i \in DOMAIN m.msgs : m.msgs[i].what = "NEXT_CMD"

\* Some waiting device is in one of these states.
Waits(m, states) == \E i \in DOMAIN m.waitings : m.waitings[i].state \in states

Awake(m) ==
  m.state = "AVAILABLE" /\ Waits(m, {"WAIT_SCHEDULE"}) /\ ~m.passed
  => Schedules(m) \/ Waits(m, {"PENDING", "WAIT_EVENT"})

\* Where a request may be.
Asks(m, i, r) == m.msgs[i].what = "CONNECT_REQUEST" /\ m.msgs[i].req = r

Asked(m, r) == \E i \in DOMAIN m.msgs : Asks(m, i, r)

Waited(m, r) == \E i \in DOMAIN m.waitings : r \in m.waitings[i].reqs

Dialed(m, r) == r \in m.connecting.reqs

\* A request is in one place at most, answered or in the hand of a handler, and
\* nowhere before it is made.
Placed(m, C, H, r) ==
  /\ Asked(m, r) => ~Waited(m, r) /\ ~Dialed(m, r) /\ r \notin H /\ m.answers[r] = 0
  /\ Waited(m, r) => ~Dialed(m, r) /\ r \notin H /\ m.answers[r] = 0
  /\ Dialed(m, r) => r \notin H /\ m.answers[r] = 0
  /\ r \in H => m.answers[r] = 0
  /\ m.answers[r] \in {0, 1}
  /\ r \in C <=> Asked(m, r) \/ Waited(m, r) \/ Dialed(m, r) \/ r \in H \/ m.answers[r] = 1

AskedOnce(m, r) == \A i, j \in DOMAIN m.msgs : Asks(m, i, r) /\ Asks(m, j, r) => i = j

WaitedOnce(m, r) ==
  \A i, j \in DOMAIN m.waitings : r \in m.waitings[i].reqs /\ r \in m.waitings[j].reqs => i = j

\* H are requests that a handler has taken from their place.
Once(m, C, H) == \A r \in Req : AskedOnce(m, r) /\ WaitedOnce(m, r) /\ Placed(m, C, H, r)

\* The releases of connection id that are queued.
Releases(m, id) == {i \in DOMAIN m.msgs : At(m, i, "DISCONNECT", id)}

\* The references that the count of a connection has beyond its known owners.
Surplus(c) == c.link.rc - (c.mine + c.peers + c.unclaimed)

Counted(m) == \A id \in DOMAIN m.conns : Surplus(m.conns[id]) = Cardinality(Releases(m, id))

\* An attempt owns its reference until its success is handled.
Unclaimed(m, th) == \A id \in DOMAIN m.conns :
  \/ th[id] \in {"connecting", "open"} /\ m.conns[id].side = "client"
  \/ Sent(m, "SUCCESS", id)
  => m.conns[id].unclaimed = 1

Shape(m) == OneDevice(m) /\ OneClient(m) /\ Wakers(m)

Told(m, th) == Known(m, th) /\ Running(m, th) /\ Outcomes(m, th)

Tally(m, th) == Counted(m) /\ Unclaimed(m, th)

Core(m, th, C, H) == Shape(m) /\ Told(m, th) /\ Once(m, C, H) /\ Tally(m, th)

Good(m, th, C, H) == Core(m, th, C, H) /\ Matched(m) /\ Timed(m, th)

\* What a handler does from m to n.
Sound(n, m, th, C) == n \in Manager /\ Good(n, th, C, {}) /\ (Awake(m) => Awake(n))

Inv ==
  /\ Typed
  /\ Good(mgr, thread, called, {})
  /\ faults = 0 => Awake(mgr)

-----------------------------------------------------------------------------
(***************************************************************************)
(* The types of the records, and the initial state.                        *)
(***************************************************************************)
LEMMA FieldTypes ==
  ASSUME NEW m \in Manager
  PROVE  /\ m.state \in {"AVAILABLE", "CONNECTING"}
         /\ m.connecting \in Device \cup {None}
         /\ m.waitings \in Seq(Device)
         /\ m.pendings \in SUBSET Addr
         /\ m.conns \in Conns
         /\ m.msgs \in Seq(Message)
         /\ m.timers \in SUBSET Timer
         /\ m.answers \in [Req -> Nat]
         /\ m.passed \in BOOLEAN
BY DEF Manager

LEMMA DeviceTypes ==
  ASSUME NEW d \in Device
  PROVE  /\ d.addr \in Addr /\ d.addr # "none" /\ d # None /\ d.reqs \in SUBSET Req
         /\ d.state \in {"WAIT_SCHEDULE", "WAIT_EVENT", "PENDING"} /\ d.retries \in Nat
         /\ \A s \in {"WAIT_SCHEDULE", "WAIT_EVENT", "PENDING"} :
              /\ [d EXCEPT !.state = s] \in Device /\ [d EXCEPT !.state = s].state = s
              /\ [d EXCEPT !.state = s].addr = d.addr /\ [d EXCEPT !.state = s].reqs = d.reqs
<1>1. /\ d.addr \in Addr /\ d.reqs \in SUBSET Req /\ d.reqs # {} /\ d.retries \in Nat
      /\ d.state \in {"WAIT_SCHEDULE", "WAIT_EVENT", "PENDING"}
  BY DEF Device
<1>2. d.addr # "none" /\ d # None
  <2>1. None.addr = "none"
    BY DEF None, DeviceOf
  <2> QED
    BY <1>1, <2>1, NamesApart
<1>3. \A s \in {"WAIT_SCHEDULE", "WAIT_EVENT", "PENDING"} :
        /\ [d EXCEPT !.state = s] \in Device /\ [d EXCEPT !.state = s].state = s
        /\ [d EXCEPT !.state = s].addr = d.addr /\ [d EXCEPT !.state = s].reqs = d.reqs
  BY DEF Device
<1> QED
  BY <1>1, <1>2, <1>3

LEMMA DevicesTyped ==
  ASSUME NEW m \in Manager
  PROVE  /\ \A i \in DOMAIN m.waitings : m.waitings[i] \in Device
         /\ m.connecting \in Device \/ m.connecting = None
         /\ None.addr = "none" /\ None.reqs = {} /\ None \notin Device
         /\ m.connecting.addr \in Addr => m.connecting \in Device
         /\ m.connecting # None => m.connecting.addr \in Addr
<1>1. m.waitings \in Seq(Device) /\ m.connecting \in Device \cup {None}
  BY FieldTypes
<1>2. \A i \in DOMAIN m.waitings : m.waitings[i] \in Device
  BY SMT, <1>1
<1>3. None.addr = "none" /\ None.reqs = {}
  BY DEF None, DeviceOf
<1>4. None \notin Device
  BY DeviceTypes
<1>5. m.connecting \in Device => m.connecting.addr \in Addr
  BY DeviceTypes
<1> QED
  BY <1>1, <1>2, <1>3, <1>4, <1>5, NamesApart

LEMMA InitInv == Init => Inv
<1> SUFFICES ASSUME Init PROVE Inv
  OBVIOUS
<1>1. /\ mgr.state = "AVAILABLE" /\ mgr.connecting = None /\ mgr.waitings = <<>> /\ mgr.pendings = {}
      /\ mgr.conns = <<>> /\ mgr.msgs = <<[what |-> "NEXT_CMD"]>> /\ mgr.timers = {}
      /\ mgr.answers = [r \in Req |-> 0] /\ mgr.passed = FALSE
  BY DEF Init
<1>2. called = {} /\ thread = <<>> /\ btOn = TRUE /\ events = 0 /\ faults = 0
  BY DEF Init
<1>3. /\ DOMAIN mgr.waitings = {} /\ DOMAIN mgr.conns = {} /\ DOMAIN thread = {}
      /\ DOMAIN mgr.msgs = {1} /\ mgr.msgs[1].what = "NEXT_CMD"
  BY SMT, <1>1, <1>2
<1>4. mgr \in Manager
  <2>1. /\ <<>> \in Seq(Device) /\ <<[what |-> "NEXT_CMD"]>> \in Seq(Message)
    BY SMT DEF Message
  <2>2. <<>> \in Conns
    <3>1. <<>> \in [{} -> Saved]
      BY SMT
    <3>2. {} \in SUBSET Id
      OBVIOUS
    <3> QED
      BY <3>1, <3>2 DEF Conns
  <2>3. [r \in Req |-> 0] \in [Req -> Nat]
    BY SMT
  <2>4. mgr = [state |-> "AVAILABLE", connecting |-> None, waitings |-> <<>>,
               pendings |-> {}, conns |-> <<>>, msgs |-> <<[what |-> "NEXT_CMD"]>>,
               timers |-> {}, answers |-> [r \in Req |-> 0], passed |-> FALSE]
    BY DEF Init
  <2> QED
    BY <2>1, <2>2, <2>3, <2>4 DEF Manager
<1>5. Typed
  <2>1. <<>> \in Seq(ThreadState) /\ 0 \in 0..MaxEvents /\ 0 \in 0..MaxFaults
    BY SMT, BoundsNat
  <2> QED
    BY <1>2, <1>4, <2>1 DEF Typed
<1>6. Shape(mgr)
  BY <1>1, <1>3 DEF Shape, OneDevice, OneClient, Wakers
<1>7. Told(mgr, thread)
  <2>1. "NEXT_CMD" \notin Reports
    BY DEF Reports
  <2>2. Known(mgr, thread)
    BY <1>1, <1>3, <2>1 DEF Known
  <2>3. Running(mgr, thread) /\ Outcomes(mgr, thread)
    BY <1>3 DEF Running, Outcomes
  <2> QED
    BY <2>2, <2>3 DEF Told
<1>8. Once(mgr, called, {})
  <2> SUFFICES ASSUME NEW r \in Req
               PROVE  AskedOnce(mgr, r) /\ WaitedOnce(mgr, r) /\ Placed(mgr, called, {}, r)
    BY DEF Once
  <2>1. ~Asked(mgr, r) /\ AskedOnce(mgr, r)
    BY <1>3 DEF Asked, Asks, AskedOnce
  <2>2. ~Waited(mgr, r) /\ WaitedOnce(mgr, r)
    BY <1>3 DEF Waited, WaitedOnce
  <2>3. ~Dialed(mgr, r)
    BY <1>1, <1>4, DevicesTyped DEF Dialed
  <2>4. mgr.answers[r] = 0
    BY <1>1
  <2>5. mgr.answers[r] # 1
    BY SMT, <2>4
  <2> QED
    BY <1>2, <2>1, <2>2, <2>3, <2>4, <2>5 DEF Placed
<1>9. Tally(mgr, thread)
  BY <1>3 DEF Tally, Counted, Unclaimed
<1>10. Matched(mgr) /\ Timed(mgr, thread)
  BY <1>1 DEF Matched, Timed
<1>11. Awake(mgr)
  BY <1>3 DEF Awake, Waits
<1> QED
  BY <1>5, <1>6, <1>7, <1>8, <1>9, <1>10, <1>11 DEF Inv, Good, Core

LEMMA StutterInv == Inv /\ UNCHANGED vars => Inv'
<1> SUFFICES ASSUME Inv, UNCHANGED vars PROVE Inv'
  OBVIOUS
<1>1. mgr' = mgr /\ called' = called /\ thread' = thread /\ btOn' = btOn /\ events' = events /\ faults' = faults
  BY DEF vars
<1>2. Typed'
  BY <1>1 DEF Inv, Typed
<1>3. Good(mgr', thread', called', {}) /\ (faults' = 0 => Awake(mgr'))
  BY <1>1 DEF Inv
<1> QED
  BY <1>2, <1>3 DEF Inv

-----------------------------------------------------------------------------
(***************************************************************************)
(* What the operations on the record change, and what the parts of the     *)
(* invariant depend on.                                                    *)
(***************************************************************************)
LEMMA SetPendings ==
  ASSUME NEW m \in Manager, NEW x \in SUBSET Addr
  PROVE  LET n == [m EXCEPT !.pendings = x]
         IN  /\ n \in Manager /\ n.pendings = x
             /\ n.state = m.state /\ n.connecting = m.connecting /\ n.waitings = m.waitings /\ n.conns = m.conns
             /\ n.msgs = m.msgs /\ n.timers = m.timers /\ n.answers = m.answers /\ n.passed = m.passed
BY DEF Manager

LEMMA SetConns ==
  ASSUME NEW m \in Manager, NEW x \in Conns
  PROVE  LET n == [m EXCEPT !.conns = x]
         IN  /\ n \in Manager /\ n.conns = x
             /\ n.state = m.state /\ n.connecting = m.connecting /\ n.waitings = m.waitings /\ n.pendings = m.pendings
             /\ n.msgs = m.msgs /\ n.timers = m.timers /\ n.answers = m.answers /\ n.passed = m.passed
BY DEF Manager

LEMMA SetMsgs ==
  ASSUME NEW m \in Manager, NEW x \in Seq(Message)
  PROVE  LET n == [m EXCEPT !.msgs = x]
         IN  /\ n \in Manager /\ n.msgs = x
             /\ n.state = m.state /\ n.connecting = m.connecting /\ n.waitings = m.waitings /\ n.pendings = m.pendings
             /\ n.conns = m.conns /\ n.timers = m.timers /\ n.answers = m.answers /\ n.passed = m.passed
BY DEF Manager

LEMMA SetTimers ==
  ASSUME NEW m \in Manager, NEW x \in SUBSET Timer
  PROVE  LET n == [m EXCEPT !.timers = x]
         IN  /\ n \in Manager /\ n.timers = x
             /\ n.state = m.state /\ n.connecting = m.connecting /\ n.waitings = m.waitings /\ n.pendings = m.pendings
             /\ n.conns = m.conns /\ n.msgs = m.msgs /\ n.answers = m.answers /\ n.passed = m.passed
BY DEF Manager

LEMMA AppendIs ==
  ASSUME NEW S, NEW s \in Seq(S), NEW e \in S
  PROVE  LET t == Append(s, e)
             k == Len(s) + 1
         IN  /\ t \in Seq(S) /\ k \in DOMAIN t /\ t[k] = e
             /\ \A i \in DOMAIN s : i \in DOMAIN t /\ t[i] = s[i] /\ i < k /\ i # k
             /\ \A i \in DOMAIN t : i \in DOMAIN s \/ i = k
BY SMT

LEMMA DomainIs ==
  ASSUME NEW m \in Manager
  PROVE  /\ DOMAIN m.conns \in SUBSET Id /\ DOMAIN m.conns \in SUBSET (Nat \ {0})
         /\ m.conns \in [DOMAIN m.conns -> Saved]
         /\ \A id \in DOMAIN m.conns : m.conns[id] \in Saved
<1>1. m.conns \in Conns
  BY FieldTypes
<1>2. PICK D \in SUBSET Id : m.conns \in [D -> Saved]
  BY <1>1 DEF Conns
<1>3. DOMAIN m.conns = D
  BY <1>2
<1>4. Id \in SUBSET (Nat \ {0})
  BY BoundsNat, SMT DEF Id
<1> QED
  BY <1>2, <1>3, <1>4

SameDevices(n, m) ==
  n.state = m.state /\ n.connecting = m.connecting /\ n.waitings = m.waitings /\ n.passed = m.passed

SameTimes(n, m) == n.pendings = m.pendings /\ n.timers = m.timers

LEMMA PostIs ==
  ASSUME NEW m \in Manager, NEW msg \in Message
  PROVE  LET n == Post(m, msg)
         IN  /\ n \in Manager /\ n.msgs = Append(m.msgs, msg)
             /\ SameDevices(n, m) /\ SameTimes(n, m) /\ n.conns = m.conns /\ n.answers = m.answers
<1>1. Append(m.msgs, msg) \in Seq(Message)
  BY FieldTypes, AppendIs
<1> QED
  BY <1>1, SetMsgs DEF Post, SameDevices, SameTimes

LEMMA PostLaterIs ==
  ASSUME NEW m \in Manager, NEW t \in Timer
  PROVE  LET n == PostLater(m, t)
         IN  /\ n \in Manager /\ n.timers = m.timers \cup {t} /\ n.pendings = m.pendings
             /\ SameDevices(n, m) /\ n.conns = m.conns /\ n.answers = m.answers /\ n.msgs = m.msgs
<1>1. m.timers \cup {t} \in SUBSET Timer
  BY FieldTypes
<1> QED
  BY <1>1, SetTimers DEF PostLater, SameDevices

\* What the operations make of a link.
LEMMA LinkTypes ==
  ASSUME NEW c \in Connection, NEW delta \in Int
  PROVE  /\ c.rc \in Int
         /\ NotifyUpdateConnectionRc(c, delta) \in Connection
         /\ NotifyUpdateConnectionRc(c, delta).rc = c.rc + delta
         /\ DisconnectNow(c) \in Connection /\ DisconnectNow(c).rc = c.rc
         /\ ClientSocketReady(c) \in Connection /\ ClientSocketReady(c).rc = c.rc
         /\ \A side \in {"client", "server"} : \A err \in ReaderExitStates(side) :
              ReaderExit(c, err) \in Connection /\ ReaderExit(c, err).rc = c.rc
         /\ \A p \in Int : /\ NotifyReferenceRequest(c, delta, p) \in Connection
                           /\ NotifyReferenceRequest(c, delta, p).rc = c.rc + delta
                           /\ NotifyReferenceResponse(c, p) \in Connection
                           /\ NotifyReferenceResponse(c, p).rc = c.rc
         /\ NegotiationTimeoutHandler(c) \in Connection /\ NegotiationTimeoutHandler(c).rc = c.rc
<1>1. /\ c.rc \in Int /\ c.rc + delta \in Int /\ c.state \in ConnState
      /\ c.sock \in BOOLEAN /\ c.occupied \in BOOLEAN
  BY SMT DEF Connection
<1>2. \A s \in ConnState : \A h, o \in BOOLEAN : \A k \in Int :
        /\ ConnOf(s, h, k, o) \in Connection /\ ConnOf(s, h, k, o).rc = k
        /\ ConnOf(s, h, k, o).state = s /\ ConnOf(s, h, k, o).sock = h /\ ConnOf(s, h, k, o).occupied = o
  BY DEF ConnOf, Connection
<1>3. {"CONNECTED", "CLOSED", "EXCEPTION", "NEGOTIATION_CLOSING"} \subseteq ConnState
  BY DEF ConnState
<1>4. /\ NotifyUpdateConnectionRc(c, delta) \in Connection
      /\ NotifyUpdateConnectionRc(c, delta).rc = c.rc + delta
  BY SMT, <1>1 DEF NotifyUpdateConnectionRc, ConnOf, Connection, ConnState
<1>5. \A d \in Connection : /\ DisconnectNow(d) \in Connection /\ DisconnectNow(d).rc = d.rc
                            /\ ResumeFromNegotiation(d) \in Connection
                            /\ ResumeFromNegotiation(d).rc = d.rc
  <2> SUFFICES ASSUME NEW d \in Connection
               PROVE  /\ DisconnectNow(d) \in Connection /\ DisconnectNow(d).rc = d.rc
                      /\ ResumeFromNegotiation(d) \in Connection
                      /\ ResumeFromNegotiation(d).rc = d.rc
    OBVIOUS
  <2>1. d.rc \in Int /\ d.state \in ConnState /\ d.sock \in BOOLEAN /\ d.occupied \in BOOLEAN
    BY SMT DEF Connection
  <2> QED
    BY SMT, <2>1 DEF DisconnectNow, ResumeFromNegotiation, ConnOf, Connection, ConnState
<1>6. ClientSocketReady(c) \in Connection /\ ClientSocketReady(c).rc = c.rc
  BY SMT, <1>1 DEF ClientSocketReady, ConnOf, Connection, ConnState
<1>7. \A side \in {"client", "server"} : \A err \in ReaderExitStates(side) :
        ReaderExit(c, err) \in Connection /\ ReaderExit(c, err).rc = c.rc
  BY SMT, <1>1 DEF ReaderExit, ReaderExitStates, ConnOf, Connection, ConnState
<1>8. ASSUME NEW p \in Int
      PROVE  /\ NotifyReferenceRequest(c, delta, p) \in Connection
             /\ NotifyReferenceRequest(c, delta, p).rc = c.rc + delta
             /\ NotifyReferenceResponse(c, p) \in Connection
             /\ NotifyReferenceResponse(c, p).rc = c.rc
  <2> DEFINE d == ConnOf(c.state, c.sock, c.rc + delta, c.occupied)
  <2>1. d \in Connection /\ d.rc = c.rc + delta
    BY SMT, <1>1 DEF ConnOf, Connection
  <2>2. NotifyReferenceRequest(c, delta, p) \in {ResumeFromNegotiation(d), DisconnectNow(d), d}
    BY DEF NotifyReferenceRequest
  <2>3. NotifyReferenceResponse(c, p) \in {ResumeFromNegotiation(c), c}
    BY DEF NotifyReferenceResponse
  <2> HIDE DEF d
  <2> QED
    BY <1>5, <2>1, <2>2, <2>3
<1>9. NegotiationTimeoutHandler(c) \in Connection /\ NegotiationTimeoutHandler(c).rc = c.rc
  BY <1>5 DEF NegotiationTimeoutHandler
<1> QED
  BY <1>1, <1>4, <1>5, <1>6, <1>7, <1>8, <1>9

LEMMA SavedTypes ==
  ASSUME NEW c \in Saved
  PROVE  /\ c.addr \in Addr /\ c.side \in {"client", "server"} /\ c.link \in Connection
         /\ c.retryCount \in 0..MAX_RETRY_COUNT /\ c.mine \in Nat /\ c.peers \in Nat
         /\ c.unclaimed \in 0..1 /\ c.unclaimed \in Int /\ c.link.rc \in Int /\ Surplus(c) \in Int
<1>1. /\ c.addr \in Addr /\ c.side \in {"client", "server"} /\ c.link \in Connection
      /\ c.retryCount \in 0..MAX_RETRY_COUNT /\ c.mine \in Nat /\ c.peers \in Nat /\ c.unclaimed \in 0..1
  BY DEF Saved
<1>2. c.link.rc \in Int
  BY SMT, <1>1 DEF Connection
<1>3. c.unclaimed \in Int /\ Surplus(c) \in Int
  BY SMT, <1>1, <1>2 DEF Surplus
<1> QED
  BY <1>1, <1>2, <1>3

\* One connection of the list becomes c.
LEMMA ConnBecomes ==
  ASSUME NEW m \in Manager, NEW id \in DOMAIN m.conns, NEW c \in Saved
  PROVE  LET n == [m EXCEPT !.conns = [m.conns EXCEPT ![id] = c]]
         IN  /\ n \in Manager /\ DOMAIN n.conns = DOMAIN m.conns /\ n.conns[id] = c
             /\ \A i \in DOMAIN m.conns : i # id => n.conns[i] = m.conns[i]
             /\ SameDevices(n, m) /\ SameTimes(n, m) /\ n.answers = m.answers /\ n.msgs = m.msgs
<1> DEFINE D == DOMAIN m.conns
           f == [m.conns EXCEPT ![id] = c]
           n == [m EXCEPT !.conns = f]
<1>1. f \in [D -> Saved] /\ f[id] = c /\ (\A i \in D : i # id => f[i] = m.conns[i]) /\ D \in SUBSET Id
  BY DomainIs
<1> HIDE DEF f, D
<1>2. f \in Conns
  BY <1>1 DEF Conns
<1>3. /\ n \in Manager /\ n.conns = f
      /\ SameDevices(n, m) /\ SameTimes(n, m) /\ n.answers = m.answers /\ n.msgs = m.msgs
  BY <1>2, SetConns DEF SameDevices, SameTimes
<1>4. DOMAIN f = D
  BY <1>1
<1> HIDE DEF n
<1>5. /\ n \in Manager /\ DOMAIN n.conns = DOMAIN m.conns /\ n.conns[id] = c
      /\ \A i \in DOMAIN m.conns : i # id => n.conns[i] = m.conns[i]
  BY <1>1, <1>3, <1>4 DEF D
<1> QED
  BY <1>3, <1>5 DEF n, f

\* The same connections, whatever their links.
SameEnds(n, m) ==
  /\ DOMAIN n.conns = DOMAIN m.conns
  /\ \A i \in DOMAIN m.conns : n.conns[i].addr = m.conns[i].addr /\ n.conns[i].side = m.conns[i].side

LEMMA SetLinkIs ==
  ASSUME NEW m \in Manager, NEW id \in DOMAIN m.conns, NEW link \in Connection
  PROVE  LET n == SetLink(m, id, link)
         IN  /\ n \in Manager /\ SameEnds(n, m) /\ n.conns[id].link = link
             /\ n.conns[id].mine = m.conns[id].mine /\ n.conns[id].peers = m.conns[id].peers
             /\ \A i \in DOMAIN m.conns : n.conns[i].unclaimed = m.conns[i].unclaimed
             /\ \A i \in DOMAIN m.conns : i # id => n.conns[i] = m.conns[i]
             /\ SameDevices(n, m) /\ SameTimes(n, m) /\ n.answers = m.answers /\ n.msgs = m.msgs
<1> DEFINE c == [m.conns[id] EXCEPT !.link = link]
           n == [m EXCEPT !.conns = [m.conns EXCEPT ![id] = c]]
<1>1. SetLink(m, id, link) = n
  BY SMT DEF SetLink, Manager
<1>2. m.conns[id] \in Saved
  BY DomainIs
<1>3. /\ c \in Saved /\ c.link = link /\ c.addr = m.conns[id].addr /\ c.side = m.conns[id].side
      /\ c.mine = m.conns[id].mine /\ c.peers = m.conns[id].peers /\ c.unclaimed = m.conns[id].unclaimed
  BY <1>2 DEF Saved
<1> HIDE DEF c
<1>4. /\ n \in Manager /\ DOMAIN n.conns = DOMAIN m.conns /\ n.conns[id] = c
      /\ \A i \in DOMAIN m.conns : i # id => n.conns[i] = m.conns[i]
      /\ SameDevices(n, m) /\ SameTimes(n, m) /\ n.answers = m.answers /\ n.msgs = m.msgs
  BY <1>3, ConnBecomes
<1> HIDE DEF n
<1> QED
  BY <1>1, <1>3, <1>4 DEF SameEnds

LEMMA SaveConnectionIs ==
  ASSUME NEW m \in Manager, NEW id \in Id, id \notin DOMAIN m.conns, NEW addr \in Addr,
         NEW side \in {"client", "server"}
  PROVE  LET n == SaveConnection(m, id, addr, side)
         IN  /\ n \in Manager /\ DOMAIN n.conns = DOMAIN m.conns \cup {id}
             /\ \A i \in DOMAIN m.conns : n.conns[i] = m.conns[i]
             /\ n.conns[id].addr = addr /\ n.conns[id].side = side /\ Surplus(n.conns[id]) = 0
             /\ side = "client" => n.conns[id].unclaimed = 1
             /\ SameDevices(n, m) /\ SameTimes(n, m) /\ n.answers = m.answers /\ n.msgs = m.msgs
<1> DEFINE D == DOMAIN m.conns \cup {id}
           c == [addr |-> addr, side |-> side, link |-> NewConnection(side), retryCount |-> 0,
                 mine |-> 0, peers |-> IF side = "server" THEN 1 ELSE 0,
                 unclaimed |-> IF side = "client" THEN 1 ELSE 0]
           f == [i \in D |-> IF i = id THEN c ELSE m.conns[i]]
           n == [m EXCEPT !.conns = f]
<1>1. SaveConnection(m, id, addr, side) = n
  BY DEF SaveConnection
<1>2. NewConnection(side) \in Connection /\ NewConnection(side).rc = 1
  BY SMT DEF NewConnection, ConnOf, Connection, ConnState
<1>3. /\ (IF side = "server" THEN 1 ELSE 0) \in Nat /\ (IF side = "client" THEN 1 ELSE 0) \in 0..1
      /\ 0 \in 0..MAX_RETRY_COUNT /\ 0 \in Nat
  BY SMT DEF MAX_RETRY_COUNT
<1>4. c \in Saved /\ c.addr = addr /\ c.side = side /\ (side = "client" => c.unclaimed = 1)
  BY <1>2, <1>3 DEF Saved
<1>5. c.link.rc = 1 /\ c.mine = 0 /\ c.peers + c.unclaimed = 1 /\ c.peers \in Nat /\ c.unclaimed \in Nat
  BY SMT, <1>2
<1> HIDE DEF c
<1>6. Surplus(c) = 0
  BY SMT, <1>5 DEF Surplus
<1>7. D \in SUBSET Id /\ f \in [D -> Saved] /\ f[id] = c /\ \A i \in DOMAIN m.conns : f[i] = m.conns[i]
  BY <1>4, DomainIs
<1> HIDE DEF f
<1>8. f \in Conns /\ DOMAIN f = D
  BY <1>7 DEF Conns
<1>9. /\ n \in Manager /\ n.conns = f
      /\ SameDevices(n, m) /\ SameTimes(n, m) /\ n.answers = m.answers /\ n.msgs = m.msgs
  BY <1>8, SetConns DEF SameDevices, SameTimes
<1> HIDE DEF n
<1> QED
  BY <1>1, <1>4, <1>6, <1>7, <1>8, <1>9

\* More owners of a connection are on this device.
LEMMA MineIs ==
  ASSUME NEW m \in Manager, NEW id \in DOMAIN m.conns, NEW k \in Int, m.conns[id].mine + k \in Nat
  PROVE  LET n == [m EXCEPT !.conns[id].mine = m.conns[id].mine + k]
         IN  /\ n \in Manager /\ SameEnds(n, m) /\ n.conns[id].link = m.conns[id].link
             /\ n.conns[id].mine = m.conns[id].mine + k /\ n.conns[id].peers = m.conns[id].peers
             /\ n.conns[id].unclaimed = m.conns[id].unclaimed
             /\ Surplus(n.conns[id]) = Surplus(m.conns[id]) - k
             /\ \A i \in DOMAIN m.conns : i # id => n.conns[i] = m.conns[i]
             /\ SameDevices(n, m) /\ SameTimes(n, m) /\ n.answers = m.answers /\ n.msgs = m.msgs
<1> DEFINE c == [m.conns[id] EXCEPT !.mine = m.conns[id].mine + k]
           n == [m EXCEPT !.conns = [m.conns EXCEPT ![id] = c]]
<1>1. [m EXCEPT !.conns[id].mine = m.conns[id].mine + k] = n
  BY SMT DEF Manager
<1>2. m.conns[id] \in Saved
  BY DomainIs
<1>3. /\ c \in Saved /\ c.link = m.conns[id].link /\ c.addr = m.conns[id].addr
      /\ c.side = m.conns[id].side /\ c.mine = m.conns[id].mine + k
      /\ c.peers = m.conns[id].peers /\ c.unclaimed = m.conns[id].unclaimed
  BY <1>2 DEF Saved
<1> HIDE DEF c
<1>4. /\ n \in Manager /\ DOMAIN n.conns = DOMAIN m.conns /\ n.conns[id] = c
      /\ \A i \in DOMAIN m.conns : i # id => n.conns[i] = m.conns[i]
      /\ SameDevices(n, m) /\ SameTimes(n, m) /\ n.answers = m.answers /\ n.msgs = m.msgs
  BY <1>3, ConnBecomes
<1>5. /\ m.conns[id].mine \in Nat /\ m.conns[id].peers \in Nat /\ m.conns[id].unclaimed \in Int
      /\ m.conns[id].link.rc \in Int
  BY <1>2, SavedTypes
<1>6. Surplus(c) = Surplus(m.conns[id]) - k
  BY SMT, <1>3, <1>5 DEF Surplus
<1> HIDE DEF n
<1> QED
  BY <1>1, <1>3, <1>4, <1>6 DEF SameEnds

NextMsg == [what |-> "NEXT_CMD"]

\* Only NEXT_CMDs have been posted.
Grown(n, m) ==
  /\ \A i \in DOMAIN m.msgs : i \in DOMAIN n.msgs /\ n.msgs[i] = m.msgs[i]
  /\ \A i \in DOMAIN n.msgs : i \in DOMAIN m.msgs \/ n.msgs[i] = NextMsg

LEMMA GrownSame ==
  ASSUME NEW m, NEW n, n.msgs = m.msgs PROVE Grown(n, m)
BY DEF Grown

LEMMA GrownKeeps ==
  ASSUME NEW m, NEW n, Grown(n, m)
  PROVE  /\ \A i, id : \A what \in Reports : At(n, i, what, id) <=> At(m, i, what, id)
         /\ \A id : \A what \in Reports : Sent(n, what, id) <=> Sent(m, what, id)
         /\ Schedules(m) => Schedules(n)
         /\ \A i \in DOMAIN n.msgs : n.msgs[i].what \in Reports => i \in DOMAIN m.msgs /\ n.msgs[i] = m.msgs[i]
         /\ \A i, r : i \in DOMAIN n.msgs /\ Asks(n, i, r) <=> i \in DOMAIN m.msgs /\ Asks(m, i, r)
<1>1. NextMsg.what = "NEXT_CMD" /\ "NEXT_CMD" \notin Reports
  BY DEF NextMsg, Reports
<1>2. \A i \in DOMAIN n.msgs : n.msgs[i].what \in Reports => i \in DOMAIN m.msgs /\ n.msgs[i] = m.msgs[i]
  BY <1>1 DEF Grown
<1>3. \A i, id : \A what \in Reports : At(n, i, what, id) <=> At(m, i, what, id)
  BY <1>2 DEF At, Grown
<1>4. \A id : \A what \in Reports : Sent(n, what, id) <=> Sent(m, what, id)
  BY <1>3 DEF Sent, At
<1>5. Schedules(m) => Schedules(n)
  BY DEF Schedules, Grown
<1>6. \A i, r : i \in DOMAIN n.msgs /\ Asks(n, i, r) <=> i \in DOMAIN m.msgs /\ Asks(m, i, r)
  BY <1>1 DEF Asks, Grown
<1> QED
  BY <1>2, <1>3, <1>4, <1>5, <1>6

SameUnpends(n, m) ==
  n.pendings = m.pendings /\ \A addr : Unpend(addr) \in n.timers <=> Unpend(addr) \in m.timers

LEMMA ShapeFrame ==
  ASSUME NEW m, NEW n, Shape(m), SameEnds(n, m), SameUnpends(n, m), n.waitings = m.waitings,
         n.connecting.addr = m.connecting.addr
  PROVE  Shape(n)
<1>1. OneDevice(n)
  BY DEF Shape, OneDevice
<1>2. OneClient(n)
  BY DEF Shape, OneClient, SameEnds
<1>3. \A addr : Connected(m, addr) => Connected(n, addr)
  BY DEF Connected, SameEnds
<1>4. Wakers(n)
  BY <1>3 DEF Shape, Wakers, HasWaker, SameUnpends
<1> QED
  BY <1>1, <1>2, <1>4 DEF Shape

\* Less is reported: connections without an outcome to report may be gone.
LEMMA ToldFrame ==
  ASSUME NEW m, NEW n, NEW th, Told(m, th), Grown(n, m),
         \A t \in n.timers : t.what = "FAIL" => t \in m.timers,
         DOMAIN n.conns \subseteq DOMAIN m.conns,
         \A i \in DOMAIN n.conns : n.conns[i].side = m.conns[i].side,
         \A i \in DOMAIN m.conns : i \notin DOMAIN n.conns => th[i] = "done" /\ ~Sent(m, "SUCCESS", i)
  PROVE  Told(n, th)
<1>1. {"SUCCESS", "EXCEPTION", "FAIL"} \subseteq Reports
  BY DEF Reports
<1>2. /\ \A i \in DOMAIN n.msgs : n.msgs[i].what \in Reports => i \in DOMAIN m.msgs /\ n.msgs[i] = m.msgs[i]
      /\ \A i, id : \A what \in Reports : At(n, i, what, id) <=> At(m, i, what, id)
      /\ \A id : \A what \in Reports : Sent(n, what, id) <=> Sent(m, what, id)
  BY GrownKeeps
<1>3. Known(n, th)
  BY <1>2 DEF Told, Known
<1>4. Running(n, th)
  BY DEF Told, Running
<1>5. ASSUME NEW id \in DOMAIN th
      PROVE  /\ Sent(n, "SUCCESS", id) =>
                  /\ th[id] \in {"reading", "done"}
                  /\ id \in DOMAIN n.conns /\ n.conns[id].side = "client"
             /\ \A i, j \in DOMAIN n.msgs : At(n, i, "SUCCESS", id) /\ At(n, j, "SUCCESS", id) => i = j
             /\ \A i, j \in DOMAIN n.msgs : At(n, i, "SUCCESS", id) /\ At(n, j, "EXCEPTION", id) => i < j
             /\ Sent(n, "EXCEPTION", id) => th[id] = "done"
             /\ Failed(n, id) => th[id] = "done" /\ ~Sent(n, "SUCCESS", id) /\ ~Sent(n, "EXCEPTION", id)
  <2>1. /\ Sent(m, "SUCCESS", id) =>
             /\ th[id] \in {"reading", "done"}
             /\ id \in DOMAIN m.conns /\ m.conns[id].side = "client"
        /\ \A i, j \in DOMAIN m.msgs : At(m, i, "SUCCESS", id) /\ At(m, j, "SUCCESS", id) => i = j
        /\ \A i, j \in DOMAIN m.msgs : At(m, i, "SUCCESS", id) /\ At(m, j, "EXCEPTION", id) => i < j
        /\ Sent(m, "EXCEPTION", id) => th[id] = "done"
        /\ Failed(m, id) => th[id] = "done" /\ ~Sent(m, "SUCCESS", id) /\ ~Sent(m, "EXCEPTION", id)
    BY DEF Told, Outcomes
  <2>2. /\ Sent(n, "SUCCESS", id) <=> Sent(m, "SUCCESS", id)
        /\ Sent(n, "EXCEPTION", id) <=> Sent(m, "EXCEPTION", id)
        /\ Sent(n, "FAIL", id) <=> Sent(m, "FAIL", id)
        /\ \A i : At(n, i, "SUCCESS", id) <=> At(m, i, "SUCCESS", id)
        /\ \A i : At(n, i, "EXCEPTION", id) <=> At(m, i, "EXCEPTION", id)
    BY <1>1, <1>2
  <2>3. Failed(n, id) => Failed(m, id)
    BY <2>2 DEF Failed, DelayedFail
  <2>a. \A i, what : At(m, i, what, id) => i \in DOMAIN m.msgs
    BY DEF At
  <2>4. \A i, j \in DOMAIN n.msgs : At(n, i, "SUCCESS", id) /\ At(n, j, "SUCCESS", id) => i = j
    BY <2>1, <2>2, <2>a
  <2>5. \A i, j \in DOMAIN n.msgs : At(n, i, "SUCCESS", id) /\ At(n, j, "EXCEPTION", id) => i < j
    BY <2>1, <2>2, <2>a
  <2>6. Sent(n, "SUCCESS", id) => id \in DOMAIN n.conns /\ n.conns[id].side = "client"
    BY <2>1, <2>2
  <2> QED
    BY <2>1, <2>2, <2>3, <2>4, <2>5, <2>6
<1>6. Outcomes(n, th)
  BY <1>5 DEF Outcomes
<1> QED
  BY <1>3, <1>4, <1>6 DEF Told

LEMMA AttemptFrame ==
  ASSUME NEW m, NEW n, NEW th, NEW id, Attempt(m, th, id), Grown(n, m),
         id \in DOMAIN n.conns, n.conns[id].side = m.conns[id].side, n.conns[id].addr = m.conns[id].addr,
         n.connecting.addr = m.connecting.addr,
         \A t \in m.timers : t.what \in {"TIMEOUT", "FAIL"} /\ t.id = id => t \in n.timers
  PROVE  Attempt(n, th, id)
<1>1. {"SUCCESS", "FAIL"} \subseteq Reports
  BY DEF Reports
<1>2. Sent(m, "SUCCESS", id) => Sent(n, "SUCCESS", id)
  BY <1>1, GrownKeeps
<1>3. Sent(m, "FAIL", id) => Sent(n, "FAIL", id)
  BY <1>1, GrownKeeps
<1>4. Due(n, th, id)
  BY <1>2, <1>3 DEF Attempt, Due, Failed, DelayedFail
<1> QED
  BY <1>4 DEF Attempt

LEMMA TallyFrame ==
  ASSUME NEW m, NEW n, NEW th, Tally(m, th), Grown(n, m), DOMAIN n.conns \subseteq DOMAIN m.conns,
         \A i \in DOMAIN n.conns : /\ n.conns[i].side = m.conns[i].side
                                   /\ Surplus(n.conns[i]) = Surplus(m.conns[i])
                                   /\ n.conns[i].unclaimed = m.conns[i].unclaimed
  PROVE  Tally(n, th)
<1>1. {"SUCCESS", "DISCONNECT"} \subseteq Reports
  BY DEF Reports
<1>2. \A id : Releases(n, id) = Releases(m, id)
  <2> SUFFICES ASSUME NEW id, NEW i
               PROVE  i \in DOMAIN n.msgs /\ At(n, i, "DISCONNECT", id)
                        <=> i \in DOMAIN m.msgs /\ At(m, i, "DISCONNECT", id)
    BY DEF Releases
  <2>1. At(n, i, "DISCONNECT", id) <=> At(m, i, "DISCONNECT", id)
    BY <1>1, GrownKeeps
  <2> QED
    BY <2>1 DEF At
<1>3. Counted(n)
  BY <1>2 DEF Tally, Counted
<1>4. \A id : Sent(n, "SUCCESS", id) => Sent(m, "SUCCESS", id)
  BY <1>1, GrownKeeps
<1>5. Unclaimed(n, th)
  BY <1>4 DEF Tally, Unclaimed
<1> QED
  BY <1>3, <1>5 DEF Tally

LEMMA UnpendApart ==
  \A a, b : /\ Unpend(a).what = "UNPEND" /\ Unpend(a).addr = a
            /\ Unpend(a) = Unpend(b) <=> a = b
            /\ a \in Addr => Unpend(a) \in Timer
<1>1. \A a, b : Unpend(a).what = "UNPEND" /\ Unpend(a).addr = a
  BY DEF Unpend
<1>2. \A a \in Addr : Unpend(a) \in Timer
  BY DEF Unpend, Timer
<1> QED
  BY <1>1, <1>2

\* The delayed messages other than UNPEND.
SameAlarms(n, m) == \A t : t.what # "UNPEND" => (t \in n.timers <=> t \in m.timers)

LEMMA PendIs ==
  ASSUME NEW m \in Manager, Shape(m), NEW addr \in Addr
  PROVE  LET n == PendConnection(m, addr)
         IN  /\ n \in Manager /\ Shape(n) /\ n.conns = m.conns /\ n.answers = m.answers
             /\ SameDevices(n, m) /\ n.msgs = m.msgs /\ SameAlarms(n, m) /\ addr \in n.pendings
<1> DEFINE k == [m EXCEPT !.pendings = m.pendings \cup {addr}]
           n == PendConnection(m, addr)
<1>1. n = PostLater(k, Unpend(addr))
  BY DEF PendConnection, Unpend
<1>2. m.pendings \cup {addr} \in SUBSET Addr
  BY FieldTypes
<1>3. /\ k \in Manager /\ k.pendings = m.pendings \cup {addr} /\ SameDevices(k, m) /\ k.conns = m.conns
      /\ k.answers = m.answers /\ k.msgs = m.msgs /\ k.timers = m.timers
  BY <1>2, SetPendings DEF SameDevices
<1> HIDE DEF k
<1>4. /\ n \in Manager /\ n.timers = k.timers \cup {Unpend(addr)} /\ n.pendings = k.pendings
      /\ SameDevices(n, k) /\ n.conns = k.conns /\ n.answers = k.answers /\ n.msgs = k.msgs
  <2> DEFINE t == Unpend(addr)
  <2>1. t \in Timer
    BY UnpendApart
  <2>2. n = PostLater(k, t)
    BY <1>1
  <2> HIDE DEF t, n
  <2>3. /\ n \in Manager /\ n.timers = k.timers \cup {t} /\ n.pendings = k.pendings
        /\ SameDevices(n, k) /\ n.conns = k.conns /\ n.answers = k.answers /\ n.msgs = k.msgs
    BY <1>3, <2>1, <2>2, PostLaterIs
  <2> QED
    BY <2>3 DEF t
<1> HIDE DEF n
<1>5. /\ SameDevices(n, m) /\ n.conns = m.conns /\ n.answers = m.answers /\ n.msgs = m.msgs
      /\ n.pendings = m.pendings \cup {addr} /\ n.timers = m.timers \cup {Unpend(addr)}
  BY <1>3, <1>4 DEF SameDevices
<1>6. SameAlarms(n, m)
  BY <1>5, UnpendApart DEF SameAlarms
<1>7. \A a \in Addr : a \in n.pendings <=> Unpend(a) \in n.timers
  BY <1>5, UnpendApart DEF Shape, Wakers
<1>8. Wakers(n)
  <2>1. \A i \in DOMAIN m.waitings : HasWaker(m, m.waitings[i].addr, m.waitings[i].state)
    BY DEF Shape, Wakers
  <2>2. \A a, s : HasWaker(m, a, s) => HasWaker(n, a, s)
    BY <1>5 DEF HasWaker, Connected
  <2> QED
    BY <1>5, <1>7, <2>1, <2>2 DEF Wakers, SameDevices
<1>9. OneDevice(n) /\ OneClient(n)
  BY <1>5 DEF Shape, OneDevice, OneClient, SameDevices
<1> QED
  BY <1>4, <1>5, <1>6, <1>8, <1>9 DEF Shape, n

SameReqs(n, m) ==
  /\ DOMAIN n.waitings = DOMAIN m.waitings
  /\ \A i \in DOMAIN m.waitings : n.waitings[i].reqs = m.waitings[i].reqs

SameAsks(n, m) ==
  \A i, r : i \in DOMAIN n.msgs /\ Asks(n, i, r) <=> i \in DOMAIN m.msgs /\ Asks(m, i, r)

LEMMA OnceFrame ==
  ASSUME NEW m, NEW n, NEW C, NEW H, Once(m, C, H), SameAsks(n, m), SameReqs(n, m),
         n.connecting.reqs = m.connecting.reqs, n.answers = m.answers
  PROVE  Once(n, C, H)
<1> SUFFICES ASSUME NEW r \in Req PROVE AskedOnce(n, r) /\ WaitedOnce(n, r) /\ Placed(n, C, H, r)
  BY DEF Once
<1>1. AskedOnce(m, r) /\ WaitedOnce(m, r) /\ Placed(m, C, H, r)
  BY DEF Once
<1>2. AskedOnce(n, r) /\ (Asked(n, r) <=> Asked(m, r))
  BY <1>1 DEF AskedOnce, Asked, SameAsks
<1>3. WaitedOnce(n, r) /\ (Waited(n, r) <=> Waited(m, r))
  BY <1>1 DEF WaitedOnce, Waited, SameReqs
<1>4. Dialed(n, r) <=> Dialed(m, r)
  BY DEF Dialed
<1> QED
  BY <1>1, <1>2, <1>3, <1>4 DEF Placed

LEMMA AwakeFrame ==
  ASSUME NEW m, NEW n, Awake(m), SameDevices(n, m), Schedules(m) => Schedules(n)
  PROVE  Awake(n)
BY DEF Awake, Waits, SameDevices

\* The facts about sets of numbers and about finite sets that the steps rest on,
\* in the form in which they use them: the library has them.
SetLaws ==
  /\ \A I \in SUBSET Nat : I # {} => \E i \in I : \A j \in I : i <= j
  /\ \A i, j \in Int : IsFiniteSet(i..j)
  /\ \A S : IsFiniteSet(S) => Cardinality(S) \in Nat /\ \A T \in SUBSET S : IsFiniteSet(T)
  /\ Cardinality({}) = 0
  /\ \A S : IsFiniteSet(S) /\ Cardinality(S) = 0 => S = {}
  /\ \A S, x : IsFiniteSet(S) /\ x \notin S => Cardinality(S \cup {x}) = Cardinality(S) + 1
  /\ \A S, x : IsFiniteSet(S) =>
       Cardinality(S \ {x}) = IF x \in S THEN Cardinality(S) - 1 ELSE Cardinality(S)
  /\ \A S, T : \A f \in [S -> T] :
       /\ IsFiniteSet(S)
       /\ \A i, j \in S : f[i] = f[j] => i = j
       /\ \A k \in T : \E i \in S : f[i] = k
       => Cardinality(T) = Cardinality(S)

LEMMA ReleasesFinite ==
  ASSUME SetLaws,
         NEW m \in Manager, NEW id
  PROVE  IsFiniteSet(Releases(m, id)) /\ Cardinality(Releases(m, id)) \in Nat
<1>1. m.msgs \in Seq(Message)
  BY FieldTypes
<1>2. DOMAIN m.msgs = 1..Len(m.msgs) /\ Len(m.msgs) \in Int /\ 1 \in Int
  BY SMT, <1>1
<1>3. IsFiniteSet(DOMAIN m.msgs)
  <2>1. \A i, j \in Int : IsFiniteSet(i..j)
    BY DEF SetLaws
  <2> QED
    BY <1>2, <2>1
<1>4. Releases(m, id) \in SUBSET (DOMAIN m.msgs)
  BY DEF Releases
<1>5. IsFiniteSet(Releases(m, id))
  BY <1>3, <1>4 DEF SetLaws
<1> QED
  BY <1>5 DEF SetLaws

SameButTimeouts(n, m) ==
  SameUnpends(n, m) /\ \A t : t.what = "FAIL" => (t \in n.timers <=> t \in m.timers)

LEMMA SameTimesAre ==
  ASSUME NEW m, NEW n, SameTimes(n, m) PROVE SameButTimeouts(n, m) /\ SameAlarms(n, m)
BY DEF SameTimes, SameButTimeouts, SameUnpends, SameAlarms

LEMMA GrownAsks == ASSUME NEW m, NEW n, Grown(n, m) PROVE SameAsks(n, m)
BY GrownKeeps DEF SameAsks

LEMMA CoreKeeps ==
  ASSUME NEW m, NEW n, NEW th, NEW C, NEW H, NEW J, Core(m, th, C, H), Shape(n), Once(n, C, J), Grown(n, m),
         \A t \in n.timers : t.what = "FAIL" => t \in m.timers,
         DOMAIN n.conns \subseteq DOMAIN m.conns,
         \A i \in DOMAIN n.conns : /\ n.conns[i].side = m.conns[i].side
                                   /\ Surplus(n.conns[i]) = Surplus(m.conns[i])
                                   /\ n.conns[i].unclaimed = m.conns[i].unclaimed,
         \A i \in DOMAIN m.conns : i \notin DOMAIN n.conns => th[i] = "done" /\ ~Sent(m, "SUCCESS", i)
  PROVE  Core(n, th, C, J)
<1>1. Told(m, th) /\ Tally(m, th)
  BY DEF Core
<1>2. Told(n, th)
  BY <1>1, ToldFrame
<1>3. Tally(n, th)
  BY <1>1, TallyFrame
<1> QED
  BY <1>2, <1>3 DEF Core

SameCounts(n, m) == \A i \in DOMAIN m.conns :
  Surplus(n.conns[i]) = Surplus(m.conns[i]) /\ n.conns[i].unclaimed = m.conns[i].unclaimed

LEMMA CoreFrame ==
  ASSUME NEW m, NEW n, NEW th, NEW C, NEW H, NEW J, Core(m, th, C, H), SameEnds(n, m), SameCounts(n, m),
         SameButTimeouts(n, m), Grown(n, m), n.waitings = m.waitings,
         n.connecting.addr = m.connecting.addr, Once(n, C, J)
  PROVE  Core(n, th, C, J)
<1>1. Shape(n)
  BY ShapeFrame DEF Core, SameButTimeouts
<1>2. \A t \in n.timers : t.what = "FAIL" => t \in m.timers
  BY DEF SameButTimeouts
<1>3. /\ DOMAIN n.conns \subseteq DOMAIN m.conns
      /\ \A i \in DOMAIN n.conns : /\ n.conns[i].side = m.conns[i].side
                                   /\ Surplus(n.conns[i]) = Surplus(m.conns[i])
                                   /\ n.conns[i].unclaimed = m.conns[i].unclaimed
      /\ \A i \in DOMAIN m.conns : i \notin DOMAIN n.conns => th[i] = "done" /\ ~Sent(m, "SUCCESS", i)
  BY DEF SameEnds, SameCounts
<1> QED
  BY <1>1, <1>2, <1>3, CoreKeeps

LEMMA CoreSame ==
  ASSUME NEW m, NEW n, NEW th, NEW C, NEW H, Core(m, th, C, H), SameEnds(n, m), SameCounts(n, m),
         SameButTimeouts(n, m), Grown(n, m), n.waitings = m.waitings, n.connecting = m.connecting,
         n.answers = m.answers
  PROVE  Core(n, th, C, H)
<1>1. SameReqs(n, m) /\ SameAsks(n, m)
  BY GrownAsks DEF SameReqs
<1>2. Once(n, C, H)
  BY <1>1, OnceFrame DEF Core
<1> QED
  BY <1>2, CoreFrame

LEMMA SameConns ==
  ASSUME NEW m, NEW n, n.conns = m.conns PROVE SameEnds(n, m) /\ SameCounts(n, m)
BY DEF SameEnds, SameCounts

LEMMA CorePend ==
  ASSUME NEW m \in Manager, NEW th, NEW C, NEW H, NEW addr \in Addr, Core(m, th, C, H)
  PROVE  Core(PendConnection(m, addr), th, C, H)
<1> DEFINE n == PendConnection(m, addr)
<1>0. Shape(m)
  BY DEF Core
<1>1. /\ Shape(n) /\ n.conns = m.conns /\ n.answers = m.answers /\ SameDevices(n, m)
      /\ n.msgs = m.msgs /\ SameAlarms(n, m)
  BY <1>0, PendIs
<1> HIDE DEF n
<1>2. Grown(n, m) /\ SameReqs(n, m) /\ n.connecting = m.connecting
  BY <1>1, GrownSame DEF SameReqs, SameDevices
<1>3. Once(n, C, H)
  BY <1>1, <1>2, GrownAsks, OnceFrame DEF Core
<1>4. \A t \in n.timers : t.what = "FAIL" => t \in m.timers
  BY <1>1 DEF SameAlarms
<1>5. /\ DOMAIN n.conns \subseteq DOMAIN m.conns
      /\ \A i \in DOMAIN n.conns : /\ n.conns[i].side = m.conns[i].side
                                   /\ Surplus(n.conns[i]) = Surplus(m.conns[i])
                                   /\ n.conns[i].unclaimed = m.conns[i].unclaimed
      /\ \A i \in DOMAIN m.conns : i \notin DOMAIN n.conns => th[i] = "done" /\ ~Sent(m, "SUCCESS", i)
  BY <1>1
<1> QED
  BY <1>1, <1>2, <1>3, <1>4, <1>5, CoreKeeps DEF n

LEMMA TimedSame ==
  \A m, n, th :
     /\ Timed(m, th)
     /\ Grown(n, m)
     /\ SameEnds(n, m)
     /\ SameAlarms(n, m)
     /\ n.state = m.state
     /\ n.connecting.addr = m.connecting.addr
    => Timed(n, th)
<1>TimedFrame. ASSUME NEW m, NEW n, NEW th, Timed(m, th), Grown(n, m), SameEnds(n, m), n.state = m.state,
                      n.connecting.addr = m.connecting.addr,
                      \A t \in m.timers : t.what \in {"TIMEOUT", "FAIL"} => t \in n.timers
               PROVE  Timed(n, th)
  <2> USE <1>TimedFrame
  <2> SUFFICES ASSUME n.state = "CONNECTING" PROVE \E id \in Id : Attempt(n, th, id)
    BY DEF Timed
  <2>1. PICK id \in Id : Attempt(m, th, id)
    BY DEF Timed
  <2>2. /\ id \in DOMAIN n.conns /\ n.conns[id].side = m.conns[id].side
        /\ n.conns[id].addr = m.conns[id].addr
    BY <2>1 DEF Attempt, SameEnds
  <2>3. Attempt(n, th, id)
    BY <2>1, <2>2, AttemptFrame
  <2> QED
    BY <2>3
<1> TAKE m, n, th
<1> HAVE /\ Timed(m, th)
         /\ Grown(n, m)
         /\ SameEnds(n, m)
         /\ SameAlarms(n, m)
         /\ n.state = m.state
         /\ n.connecting.addr = m.connecting.addr
<1>1. \A t \in m.timers : t.what \in {"TIMEOUT", "FAIL"} => t \in n.timers
  BY DEF SameAlarms
<1> QED
  BY <1>1, <1>TimedFrame

\* Nothing is known of a connection that has no thread.
LEMMA FreshId ==
  ASSUME NEW m, NEW th, NEW id, Told(m, th), id \notin DOMAIN th
  PROVE  /\ id \notin DOMAIN m.conns /\ \A what \in Reports : ~Sent(m, what, id)
         /\ ~Failed(m, id) /\ Releases(m, id) = {}
<1>1. id \notin DOMAIN m.conns /\ \A what \in Reports : ~Sent(m, what, id)
  BY DEF Told, Known, Sent, At
<1>2. ~DelayedFail(m, id)
  BY DEF Told, Known, DelayedFail
<1>3. "FAIL" \in Reports /\ "DISCONNECT" \in Reports
  BY DEF Reports
<1>4. Releases(m, id) = {}
  BY <1>1, <1>3 DEF Releases, Sent
<1> QED
  BY <1>1, <1>2, <1>3, <1>4 DEF Failed

LEMMA ThreadAdded ==
  ASSUME NEW th \in Seq(ThreadState), NEW x \in ThreadState
  PROVE  LET t == Append(th, x)
             id == Len(th) + 1
         IN  /\ t \in Seq(ThreadState) /\ id \in DOMAIN t /\ t[id] = x /\ id \notin DOMAIN th
             /\ \A i \in DOMAIN th : i \in DOMAIN t /\ t[i] = th[i] /\ i # id
             /\ \A i \in DOMAIN t : i \in DOMAIN th \/ i = id
<1>1. /\ Append(th, x) \in Seq(ThreadState) /\ Len(th) + 1 \in DOMAIN Append(th, x)
      /\ Append(th, x)[Len(th) + 1] = x
      /\ \A i \in DOMAIN th : i \in DOMAIN Append(th, x) /\ Append(th, x)[i] = th[i] /\ i # Len(th) + 1
      /\ \A i \in DOMAIN Append(th, x) : i \in DOMAIN th \/ i = Len(th) + 1
  BY SMT
<1> QED
  BY <1>1

LEMMA ToldNew ==
  ASSUME NEW m, NEW n, NEW th, NEW t, NEW id, Told(m, th), id \notin DOMAIN th, id \in DOMAIN t,
         \A i \in DOMAIN th : i \in DOMAIN t /\ t[i] = th[i],
         \A i \in DOMAIN t : i \in DOMAIN th \/ i = id,
         n.msgs = m.msgs, \A f : f.what = "FAIL" => (f \in n.timers <=> f \in m.timers),
         DOMAIN n.conns = DOMAIN m.conns \cup {id},
         \A i \in DOMAIN m.conns : n.conns[i] = m.conns[i],
         t[id] = "connecting" => n.conns[id].side = "client"
  PROVE  Told(n, t)
<1>0. Known(m, th) /\ Running(m, th) /\ Outcomes(m, th)
  BY DEF Told
<1>1. id \notin DOMAIN m.conns /\ (\A what \in Reports : ~Sent(m, what, id)) /\ ~Failed(m, id)
  BY FreshId
<1>2. Known(n, t)
  BY <1>0 DEF Known
<1>3. Running(n, t)
  BY <1>0 DEF Running
<1>4. /\ \A i, what, j : At(n, i, what, j) <=> At(m, i, what, j)
      /\ \A what, i : Sent(n, what, i) <=> Sent(m, what, i)
      /\ \A i : Failed(n, i) <=> Failed(m, i)
  <2>1. \A i, what, j : At(n, i, what, j) <=> At(m, i, what, j)
    BY DEF At
  <2>2. \A what, i : Sent(n, what, i) <=> Sent(m, what, i)
    BY <2>1 DEF Sent
  <2>3. \A i : DelayedFail(n, i) <=> DelayedFail(m, i)
    BY DEF DelayedFail
  <2> QED
    BY <2>1, <2>2, <2>3 DEF Failed
<1>5. "SUCCESS" \in Reports /\ "EXCEPTION" \in Reports
  BY DEF Reports
<1>6. Outcomes(n, t)
  <2> SUFFICES ASSUME NEW i \in DOMAIN t
               PROVE  /\ Sent(n, "SUCCESS", i) =>
                           /\ t[i] \in {"reading", "done"}
                           /\ i \in DOMAIN n.conns /\ n.conns[i].side = "client"
                      /\ \A j, k \in DOMAIN n.msgs : At(n, j, "SUCCESS", i) /\ At(n, k, "SUCCESS", i) => j = k
                      /\ \A j, k \in DOMAIN n.msgs : At(n, j, "SUCCESS", i) /\ At(n, k, "EXCEPTION", i) => j < k
                      /\ Sent(n, "EXCEPTION", i) => t[i] = "done"
                      /\ Failed(n, i) => t[i] = "done" /\ ~Sent(n, "SUCCESS", i) /\ ~Sent(n, "EXCEPTION", i)
    BY DEF Outcomes
  <2>1. CASE i = id
    <3>1. ~Sent(n, "SUCCESS", i) /\ ~Sent(n, "EXCEPTION", i) /\ ~Failed(n, i)
      BY <1>1, <1>4, <1>5, <2>1
    <3> QED
      BY <3>1 DEF Sent
  <2>2. CASE i \in DOMAIN th
    <3>1. /\ Sent(m, "SUCCESS", i) =>
               /\ th[i] \in {"reading", "done"}
               /\ i \in DOMAIN m.conns /\ m.conns[i].side = "client"
          /\ \A j, k \in DOMAIN m.msgs : At(m, j, "SUCCESS", i) /\ At(m, k, "SUCCESS", i) => j = k
          /\ \A j, k \in DOMAIN m.msgs : At(m, j, "SUCCESS", i) /\ At(m, k, "EXCEPTION", i) => j < k
          /\ Sent(m, "EXCEPTION", i) => th[i] = "done"
          /\ Failed(m, i) => th[i] = "done" /\ ~Sent(m, "SUCCESS", i) /\ ~Sent(m, "EXCEPTION", i)
      BY <1>0, <2>2 DEF Outcomes
    <3>2. t[i] = th[i] /\ (i \in DOMAIN m.conns => i \in DOMAIN n.conns /\ n.conns[i] = m.conns[i])
      BY <2>2
    <3> QED
      BY <1>4, <3>1, <3>2
  <2> QED
    BY <2>1, <2>2
<1> QED
  BY <1>2, <1>3, <1>6 DEF Told

LEMMA TallyNew ==
  ASSUME SetLaws,
         NEW m, NEW n, NEW th, NEW t, NEW id, Told(m, th), Tally(m, th), id \notin DOMAIN th,
         \A i \in DOMAIN th : t[i] = th[i],
         n.msgs = m.msgs, DOMAIN n.conns = DOMAIN m.conns \cup {id},
         \A i \in DOMAIN m.conns : n.conns[i] = m.conns[i],
         Surplus(n.conns[id]) = 0, n.conns[id].side = "client" => n.conns[id].unclaimed = 1
  PROVE  Tally(n, t)
<1>1. (\A what \in Reports : ~Sent(m, what, id)) /\ Releases(m, id) = {} /\ "SUCCESS" \in Reports
  BY FreshId DEF Reports
<1>2. \A i, what, j : At(n, i, what, j) <=> At(m, i, what, j)
  BY DEF At
<1>3. \A i : Releases(n, i) = Releases(m, i)
  BY <1>2 DEF Releases
<1>4. \A what, i : Sent(n, what, i) <=> Sent(m, what, i)
  BY <1>2 DEF Sent
<1>5. DOMAIN m.conns \subseteq DOMAIN th
  BY DEF Told, Known
<1>6. Counted(n)
  <2> SUFFICES ASSUME NEW i \in DOMAIN n.conns PROVE Surplus(n.conns[i]) = Cardinality(Releases(n, i))
    BY DEF Counted
  <2>1. CASE i = id
    BY <1>1, <1>3, <2>1 DEF SetLaws
  <2>2. CASE i \in DOMAIN m.conns
    BY <1>3, <2>2 DEF Tally, Counted
  <2> QED
    BY <2>1, <2>2
<1>7. Unclaimed(n, t)
  <2> SUFFICES ASSUME NEW i \in DOMAIN n.conns,
                      \/ t[i] \in {"connecting", "open"} /\ n.conns[i].side = "client"
                      \/ Sent(n, "SUCCESS", i)
               PROVE  n.conns[i].unclaimed = 1
    BY DEF Unclaimed
  <2>1. CASE i = id
    BY <1>1, <1>4, <2>1
  <2>2. CASE i \in DOMAIN m.conns
    BY <1>4, <1>5, <2>2 DEF Tally, Unclaimed
  <2> QED
    BY <2>1, <2>2
<1> QED
  BY <1>6, <1>7 DEF Tally

LEMMA ShapeNew ==
  ASSUME NEW m, NEW n, NEW id, Shape(m), DOMAIN n.conns = DOMAIN m.conns \cup {id}, id \notin DOMAIN m.conns,
         \A i \in DOMAIN m.conns : n.conns[i] = m.conns[i],
         n.conns[id].side = "client" => ~Connected(m, n.conns[id].addr),
         n.waitings = m.waitings, \A i \in DOMAIN m.waitings : m.waitings[i].addr # n.connecting.addr,
         SameUnpends(n, m)
  PROVE  Shape(n)
<1>1. OneDevice(n)
  BY DEF Shape, OneDevice
<1>2. OneClient(n)
  <2> SUFFICES ASSUME NEW i \in DOMAIN n.conns, NEW j \in DOMAIN n.conns, n.conns[i].side = "client",
                      n.conns[j].side = "client", n.conns[i].addr = n.conns[j].addr
               PROVE  i = j
    BY DEF OneClient
  <2>1. CASE i \in DOMAIN m.conns /\ j \in DOMAIN m.conns
    BY <2>1 DEF Shape, OneClient
  <2>2. CASE i = id
    BY <2>2 DEF Connected
  <2>3. CASE j = id
    BY <2>3 DEF Connected
  <2> QED
    BY <2>1, <2>2, <2>3
<1>3. \A addr, s : HasWaker(m, addr, s) => HasWaker(n, addr, s)
  <2>1. \A addr : Connected(m, addr) => Connected(n, addr)
    BY DEF Connected
  <2> QED
    BY <2>1 DEF HasWaker, SameUnpends
<1>4. Wakers(n)
  BY <1>3 DEF Shape, Wakers, SameUnpends
<1> QED
  BY <1>1, <1>2, <1>4 DEF Shape

LEMMA Stays ==
  ASSUME Inv, Sound(mgr', mgr, thread, called), called' = called, thread' = thread,
         btOn' \in BOOLEAN, events' \in 0..MaxEvents, faults' = faults
  PROVE  Inv'
<1>1. Typed /\ (faults = 0 => Awake(mgr))
  BY DEF Inv
<1>2. mgr' \in Manager /\ Good(mgr', thread, called, {}) /\ (Awake(mgr) => Awake(mgr'))
  BY DEF Sound
<1>3. Typed'
  BY <1>1, <1>2 DEF Typed
<1>4. Good(mgr', thread', called', {})
  BY <1>2
<1> QED
  BY <1>1, <1>2, <1>3, <1>4 DEF Inv

\* The link of connection id changes, and the references that its count has
\* beyond its owners by delta.
Relinked(n, m, id, delta) ==
  /\ n \in Manager /\ SameEnds(n, m)
  /\ \A i \in DOMAIN m.conns : i # id => n.conns[i] = m.conns[i]
  /\ \A i \in DOMAIN m.conns : n.conns[i].unclaimed = m.conns[i].unclaimed
  /\ Surplus(n.conns[id]) = Surplus(m.conns[id]) + delta
  /\ SameDevices(n, m) /\ SameTimes(n, m) /\ n.answers = m.answers /\ n.msgs = m.msgs

LEMMA RelinkIs ==
  ASSUME NEW m \in Manager, NEW id \in DOMAIN m.conns, NEW link \in Connection, NEW delta \in Int,
         link.rc = m.conns[id].link.rc + delta
  PROVE  Relinked(SetLink(m, id, link), m, id, delta)
<1> DEFINE n == SetLink(m, id, link)
<1>1. /\ n \in Manager /\ SameEnds(n, m) /\ n.conns[id].link = link
      /\ n.conns[id].mine = m.conns[id].mine /\ n.conns[id].peers = m.conns[id].peers
      /\ \A i \in DOMAIN m.conns : n.conns[i].unclaimed = m.conns[i].unclaimed
      /\ \A i \in DOMAIN m.conns : i # id => n.conns[i] = m.conns[i]
      /\ SameDevices(n, m) /\ SameTimes(n, m) /\ n.answers = m.answers /\ n.msgs = m.msgs
  BY SMT, SetLinkIs
<1> HIDE DEF n
<1> DEFINE x == n.conns[id]
           y == m.conns[id]
<1>2. y \in Saved
  BY DomainIs
<1>3. y.link.rc \in Int /\ y.mine \in Nat /\ y.peers \in Nat /\ y.unclaimed \in Int
  BY <1>2, SavedTypes
<1>4. x.link.rc = y.link.rc + delta /\ x.mine = y.mine /\ x.peers = y.peers /\ x.unclaimed = y.unclaimed
  BY <1>1
<1> HIDE DEF x, y
<1>5. Surplus(x) = Surplus(y) + delta
  BY SMT, <1>3, <1>4 DEF Surplus
<1> QED
  BY <1>1, <1>5 DEF n, x, y, Relinked

LEMMA RelinkSame ==
  ASSUME NEW m \in Manager, NEW n, NEW id \in DOMAIN m.conns, Relinked(n, m, id, 0)
  PROVE  SameEnds(n, m) /\ SameCounts(n, m) /\ SameButTimeouts(n, m) /\ SameAlarms(n, m) /\ Grown(n, m)
<1>1. Surplus(n.conns[id]) = Surplus(m.conns[id])
  <2>1. Surplus(m.conns[id]) \in Int
    BY DomainIs, SavedTypes
  <2>2. Surplus(n.conns[id]) = Surplus(m.conns[id]) + 0
    BY DEF Relinked
  <2> QED
    BY SMT, <2>1, <2>2
<1>2. SameEnds(n, m) /\ SameTimes(n, m) /\ n.msgs = m.msgs
  BY DEF Relinked
<1>3. SameCounts(n, m)
  BY <1>1 DEF SameCounts, Relinked
<1> QED
  BY <1>2, <1>3, SameTimesAre, GrownSame

\* n has one message more than m.
Posted(n, m, msg) ==
  LET k == Len(m.msgs) + 1
  IN  /\ k \notin DOMAIN m.msgs /\ DOMAIN n.msgs = DOMAIN m.msgs \cup {k} /\ n.msgs[k] = msg
      /\ \A i \in DOMAIN m.msgs : n.msgs[i] = m.msgs[i] /\ i < k

\* The threads of t are those of th, or further.
Further(t, th) ==
  /\ DOMAIN t = DOMAIN th
  /\ \A i \in DOMAIN th :
       /\ t[i] = "connecting" => th[i] = "connecting"
       /\ t[i] = "open" => th[i] \in {"connecting", "open"}
       /\ th[i] = "reading" => t[i] \in {"reading", "done"}
       /\ th[i] = "done" => t[i] = "done"

\* A report may be posted when the thread of its connection has got there.
MayPost(m, t, msg) ==
  /\ msg.what \in Reports => msg.id \in DOMAIN t
  /\ msg.what = "SUCCESS" =>
       /\ t[msg.id] \in {"reading", "done"}
       /\ msg.id \in DOMAIN m.conns /\ m.conns[msg.id].side = "client"
       /\ ~Sent(m, "SUCCESS", msg.id)
  /\ msg.what = "EXCEPTION" => t[msg.id] = "done"
  /\ msg.what = "FAIL" => t[msg.id] = "done" /\ ~Sent(m, "SUCCESS", msg.id)
  /\ msg.what \in {"SUCCESS", "EXCEPTION"} => ~Failed(m, msg.id)
  /\ msg.what \in {"SUCCESS", "FAIL"} => ~Sent(m, "EXCEPTION", msg.id)

\* A step of a thread or a caller, which takes nothing from the looper.
Aside(n, m) ==
  /\ n \in Manager /\ SameEnds(n, m) /\ SameDevices(n, m) /\ n.answers = m.answers
  /\ SameUnpends(n, m) /\ \A f \in m.timers : f.what = "TIMEOUT" => f \in n.timers
  /\ Schedules(m) => Schedules(n)

\* The same manager up to the links and the owners of its connections.
Plain(n, m) ==
  /\ n \in Manager /\ SameEnds(n, m) /\ SameDevices(n, m) /\ SameTimes(n, m)
  /\ n.answers = m.answers /\ n.msgs = m.msgs
  /\ \A i \in DOMAIN m.conns : n.conns[i].unclaimed = m.conns[i].unclaimed

\* A thread leaves the attempt only with a report of its outcome.
Reported(t, th, id) == \A j \in DOMAIN th :
  th[j] \in {"connecting", "open"} => t[j] \in {"connecting", "open"} \/ j = id

\* The peer changes its references, and the count with them.
Repeered(m, id, link, delta) == [SetLink(m, id, link) EXCEPT !.conns[id].peers = @ + delta]

\* The steps outside the looper: of Bluetooth, the callers, the peers and the
\* threads of the connections.
LEMMA OutsideInv ==
  ASSUME SetLaws
  PROVE  /\ Inv
         /\ \/ BtStateChanged
            \/ \E r \in Req, addr \in Addr : ConnectDevice(r, addr)
            \/ \E addr \in Addr : ServerSocket(addr) \/ PendDeviceConnection(addr)
            \/ \E id \in DOMAIN thread :
                 \/ NegotiationTimeout(id) \/ RetryNotifyReference(id) \/ PeerMessage(id) \/ ClientSocket(id)
                 \/ ClientNoSocket(id) \/ Announce(id) \/ NoticeClosed(id) \/ ReadFails(id)
                 \/ DisconnectDevice(id) \/ DisconnectDeviceNow(id)
        => Inv'
<1>LinkStep. \A id \in DOMAIN mgr.conns, link \in Connection :
                /\ Inv
                /\ link.rc = mgr.conns[id].link.rc
                /\ mgr' = SetLink(mgr, id, link)
                /\ UNCHANGED <<called, thread, btOn, faults>>
                /\ events' \in 0..MaxEvents
               => Inv'
  <2>RelinkSound. ASSUME NEW m \in Manager, NEW n, NEW id \in DOMAIN m.conns, Relinked(n, m, id, 0), NEW th, NEW C,
                         Good(m, th, C, {})
                  PROVE  Sound(n, m, th, C)
    <3> USE <2>RelinkSound
    <3>1. SameEnds(n, m) /\ SameCounts(n, m) /\ SameButTimeouts(n, m) /\ SameAlarms(n, m) /\ Grown(n, m)
      BY RelinkSame
    <3>2. n \in Manager /\ SameDevices(n, m) /\ n.answers = m.answers /\ n.msgs = m.msgs
      BY DEF Relinked
    <3>3. n.waitings = m.waitings /\ n.connecting = m.connecting /\ n.state = m.state
      BY <3>2 DEF SameDevices
    <3>4. Core(m, th, C, {}) /\ Matched(m) /\ Timed(m, th)
      BY DEF Good
    <3>5. Core(n, th, C, {})
      BY <3>1, <3>2, <3>3, <3>4, CoreSame
    <3>6. Matched(n)
      BY <3>3, <3>4 DEF Matched
    <3>7. Timed(n, th)
      <4>1. n.connecting.addr = m.connecting.addr
        BY <3>3
      <4> QED
        BY <3>1, <3>3, <3>4, <4>1, TimedSame
    <3>8. Awake(m) => Awake(n)
      <4>1. Schedules(m) => Schedules(n)
        BY <3>2 DEF Schedules
      <4> QED
        BY <3>2, <4>1, AwakeFrame
    <3> QED
      BY <3>2, <3>5, <3>6, <3>7, <3>8 DEF Sound, Good
  <2> TAKE id \in DOMAIN mgr.conns, link \in Connection
  <2> HAVE /\ Inv
           /\ link.rc = mgr.conns[id].link.rc
           /\ mgr' = SetLink(mgr, id, link)
           /\ UNCHANGED <<called, thread, btOn, faults>>
           /\ events' \in 0..MaxEvents
  <2>1. mgr \in Manager /\ Good(mgr, thread, called, {}) /\ btOn \in BOOLEAN
    BY DEF Inv, Typed
  <2>2. mgr.conns \in Conns
    BY <2>1, FieldTypes
  <2>3. mgr.conns[id].link.rc \in Int
    <3>1. mgr.conns[id] \in Saved
      BY <2>2 DEF Conns
    <3> QED
      BY <3>1, SavedTypes
  <2>4. 0 \in Int /\ link.rc = mgr.conns[id].link.rc + 0
    BY SMT, <2>3
  <2>5. Relinked(SetLink(mgr, id, link), mgr, id, 0)
    BY <2>1, <2>4, RelinkIs
  <2>6. Relinked(mgr', mgr, id, 0)
    BY <2>5
  <2>7. Sound(mgr', mgr, thread, called)
    BY <2>1, <2>6, <2>RelinkSound
  <2> QED
    BY <2>1, <2>7, Stays
\* The links that a connection's own steps leave have the same count.
<1>LinksKept. ASSUME Inv, NEW id \in DOMAIN mgr.conns
              PROVE  LET c == mgr.conns[id].link
                     IN  /\ c \in Connection /\ mgr.conns[id].side \in {"client", "server"}
                         /\ DisconnectNow(c) \in Connection /\ DisconnectNow(c).rc = c.rc
                         /\ ClientSocketReady(c) \in Connection /\ ClientSocketReady(c).rc = c.rc
                         /\ NegotiationTimeoutHandler(c) \in Connection /\ NegotiationTimeoutHandler(c).rc = c.rc
                         /\ NotifyUpdateConnectionRc(c, 0) \in Connection /\ NotifyUpdateConnectionRc(c, 0).rc = c.rc
                         /\ \A side \in {"client", "server"} : \A err \in ReaderExitStates(side) :
                              ReaderExit(c, err) \in Connection /\ ReaderExit(c, err).rc = c.rc
  <2> USE <1>LinksKept
  <2> DEFINE c == mgr.conns[id].link
  <2>1. mgr.conns[id] \in Saved
    <3>1. mgr \in Manager
      BY DEF Inv, Typed
    <3>2. mgr.conns \in Conns
      BY <3>1, FieldTypes
    <3> QED
      BY <3>2 DEF Conns
  <2>2. c \in Connection /\ mgr.conns[id].side \in {"client", "server"}
    BY <2>1, SavedTypes
  <2> HIDE DEF c
  <2>3. 0 \in Int
    BY SMT
  <2>4. /\ DisconnectNow(c) \in Connection /\ DisconnectNow(c).rc = c.rc
        /\ ClientSocketReady(c) \in Connection /\ ClientSocketReady(c).rc = c.rc
        /\ NegotiationTimeoutHandler(c) \in Connection /\ NegotiationTimeoutHandler(c).rc = c.rc
        /\ \A side \in {"client", "server"} : \A err \in ReaderExitStates(side) :
             ReaderExit(c, err) \in Connection /\ ReaderExit(c, err).rc = c.rc
        /\ c.rc \in Int
        /\ NotifyUpdateConnectionRc(c, 0) \in Connection /\ NotifyUpdateConnectionRc(c, 0).rc = c.rc + 0
    BY <2>2, <2>3, LinkTypes
  <2>5. NotifyUpdateConnectionRc(c, 0).rc = c.rc
    BY SMT, <2>4
  <2> QED
    BY <2>2, <2>4, <2>5 DEF c
<1>OneMore. ASSUME Typed, events < MaxEvents PROVE events + 1 \in 0..MaxEvents
  BY SMT, <1>OneMore, BoundsNat DEF Typed
<1>NegotiationTimeoutStep. ASSUME Inv, NEW id, NegotiationTimeout(id) PROVE Inv'
  <2> USE <1>NegotiationTimeoutStep
  <2> DEFINE link == NegotiationTimeoutHandler(mgr.conns[id].link)
  <2>1. /\ id \in DOMAIN mgr.conns /\ mgr' = SetLink(mgr, id, link)
        /\ UNCHANGED <<called, thread, btOn, faults>> /\ events' = events
    BY DEF NegotiationTimeout
  <2>2. link \in Connection /\ link.rc = mgr.conns[id].link.rc
    BY <2>1, <1>LinksKept
  <2>3. events' \in 0..MaxEvents
    BY <2>1 DEF Inv, Typed
  <2> HIDE DEF link
  <2> QED
    BY <2>1, <2>2, <2>3, <1>LinkStep
<1>RetryNotifyReferenceStep. ASSUME Inv, NEW id, RetryNotifyReference(id) PROVE Inv'
  <2> USE <1>RetryNotifyReferenceStep
  <2> DEFINE link == NotifyUpdateConnectionRc(mgr.conns[id].link, 0)
  <2>1. /\ id \in DOMAIN mgr.conns /\ mgr' = SetLink(mgr, id, link)
        /\ UNCHANGED <<called, thread, btOn, faults>> /\ events' = events
    BY DEF RetryNotifyReference
  <2>2. link \in Connection /\ link.rc = mgr.conns[id].link.rc
    BY <2>1, <1>LinksKept
  <2>3. events' \in 0..MaxEvents
    BY <2>1 DEF Inv, Typed
  <2> HIDE DEF link
  <2> QED
    BY <2>1, <2>2, <2>3, <1>LinkStep
<1>DisconnectDeviceNowStep. ASSUME Inv, NEW id, DisconnectDeviceNow(id) PROVE Inv'
  <2> USE <1>DisconnectDeviceNowStep
  <2> DEFINE link == DisconnectNow(mgr.conns[id].link)
  <2>1. /\ id \in DOMAIN mgr.conns /\ mgr' = SetLink(mgr, id, link)
        /\ UNCHANGED <<called, thread, btOn, faults>> /\ events < MaxEvents /\ events' = events + 1
    BY DEF DisconnectDeviceNow
  <2>2. link \in Connection /\ link.rc = mgr.conns[id].link.rc
    BY <2>1, <1>LinksKept
  <2>3. events' \in 0..MaxEvents
    BY <2>1, <1>OneMore DEF Inv
  <2> HIDE DEF link
  <2> QED
    BY <2>1, <2>2, <2>3, <1>LinkStep
<1>PendDeviceConnectionStep. ASSUME Inv, NEW addr \in Addr, PendDeviceConnection(addr) PROVE Inv'
  <2> USE <1>PendDeviceConnectionStep
  <2> DEFINE n == PendConnection(mgr, addr)
  <2>1. /\ mgr' = n /\ called' = called /\ thread' = thread /\ btOn' = btOn /\ faults' = faults
        /\ events < MaxEvents /\ events' = events + 1
    BY DEF PendDeviceConnection
  <2>2. mgr \in Manager /\ Core(mgr, thread, called, {}) /\ Matched(mgr) /\ Timed(mgr, thread) /\ btOn \in BOOLEAN
    BY DEF Inv, Typed, Good
  <2>3. Shape(mgr)
    BY <2>2 DEF Core
  <2>4. /\ n \in Manager /\ n.conns = mgr.conns
        /\ SameDevices(n, mgr) /\ n.msgs = mgr.msgs /\ SameAlarms(n, mgr)
    BY <2>2, <2>3, PendIs
  <2>5. Core(n, thread, called, {})
    BY <2>2, CorePend
  <2> HIDE DEF n
  <2>6. Grown(n, mgr) /\ SameEnds(n, mgr)
    BY <2>4, SameConns, GrownSame
  <2>7. n.state = mgr.state /\ n.connecting = mgr.connecting /\ n.connecting.addr = mgr.connecting.addr
    BY <2>4 DEF SameDevices
  <2>8. Timed(n, thread)
    BY <2>2, <2>4, <2>6, <2>7, TimedSame
  <2>9. Matched(n)
    BY <2>2, <2>7 DEF Matched
  <2>10. Schedules(mgr) => Schedules(n)
    BY <2>4 DEF Schedules
  <2>11. Awake(mgr) => Awake(n)
    BY <2>4, <2>10, AwakeFrame
  <2>12. Sound(mgr', mgr, thread, called)
    BY <2>1, <2>4, <2>5, <2>8, <2>9, <2>11 DEF Sound, Good
  <2>13. events' \in 0..MaxEvents
    BY <2>1, <1>OneMore DEF Inv
  <2> QED
    BY <2>1, <2>2, <2>12, <2>13, Stays
<1>PostedIs. ASSUME NEW m \in Manager, NEW n, NEW msg, n.msgs = Append(m.msgs, msg) PROVE Posted(n, m, msg)
  <2> USE <1>PostedIs
  <2>1. m.msgs \in Seq(Message)
    BY FieldTypes
  <2> QED
    BY SMT, <2>1 DEF Posted
<1>PostedSame. ASSUME NEW m, NEW n, NEW msg, Posted(n, m, msg)
               PROVE  /\ \A i, what, id : At(n, i, what, id) <=>
                           \/ At(m, i, what, id)
                           \/ i = Len(m.msgs) + 1 /\ msg.what = what /\ msg.id = id
                      /\ \A what, id : Sent(n, what, id) <=> Sent(m, what, id) \/ (msg.what = what /\ msg.id = id)
                      /\ Schedules(m) => Schedules(n)
                      /\ msg.what # "CONNECT_REQUEST" => SameAsks(n, m)
  <2> USE <1>PostedSame
  <2> DEFINE k == Len(m.msgs) + 1
  <2> HIDE DEF k
  <2>0. /\ k \notin DOMAIN m.msgs /\ DOMAIN n.msgs = DOMAIN m.msgs \cup {k} /\ n.msgs[k] = msg
        /\ \A i \in DOMAIN m.msgs : n.msgs[i] = m.msgs[i]
    BY DEF Posted, k
  <2>1. \A i, what, id : At(n, i, what, id) <=> At(m, i, what, id) \/ (i = k /\ msg.what = what /\ msg.id = id)
    BY <2>0 DEF At
  <2>2. \A what, id : Sent(n, what, id) <=> Sent(m, what, id) \/ (msg.what = what /\ msg.id = id)
    <3>1. ASSUME NEW what, NEW id, Sent(n, what, id) PROVE Sent(m, what, id) \/ (msg.what = what /\ msg.id = id)
      <4>1. PICK i \in DOMAIN n.msgs : At(n, i, what, id)
        BY <3>1 DEF Sent
      <4>2. At(m, i, what, id) => i \in DOMAIN m.msgs
        BY DEF At
      <4> QED
        BY <2>1, <4>1, <4>2 DEF Sent
    <3>2. ASSUME NEW what, NEW id, Sent(m, what, id) PROVE Sent(n, what, id)
      <4>1. PICK i \in DOMAIN m.msgs : At(m, i, what, id)
        BY <3>2 DEF Sent
      <4>2. i \in DOMAIN n.msgs /\ At(n, i, what, id)
        BY <2>0, <2>1, <4>1
      <4> QED
        BY <4>2 DEF Sent
    <3>3. ASSUME NEW what, NEW id, msg.what = what, msg.id = id PROVE Sent(n, what, id)
      <4>1. k \in DOMAIN n.msgs /\ At(n, k, what, id)
        BY <2>0, <2>1, <3>3
      <4> QED
        BY <4>1 DEF Sent
    <3> QED
      BY <3>1, <3>2, <3>3
  <2>3. Schedules(m) => Schedules(n)
    BY <2>0 DEF Schedules
  <2>4. msg.what # "CONNECT_REQUEST" => SameAsks(n, m)
    BY <2>0 DEF SameAsks, Asks
  <2> QED
    BY <2>1, <2>2, <2>3, <2>4 DEF k
<1>FurtherIs. ASSUME NEW th \in Seq(ThreadState), NEW id \in DOMAIN th, NEW x \in ThreadState,
                     th[id] # "done", x # "connecting", x = "open" => th[id] = "connecting"
              PROVE  LET t == [th EXCEPT ![id] = x]
                     IN  t \in Seq(ThreadState) /\ Further(t, th) /\ t[id] = x /\ \A i \in DOMAIN th : i # id => t[i] = th[i]
  <2> USE <1>FurtherIs
  <2> DEFINE t == [th EXCEPT ![id] = x]
  <2>1. t \in Seq(ThreadState)
    BY SMT
  <2>2. DOMAIN t = DOMAIN th /\ t[id] = x /\ \A i \in DOMAIN th : i # id => t[i] = th[i]
    OBVIOUS
  <2>3. x \in {"open", "reading", "done"}
    BY DEF ThreadState
  <2> HIDE DEF t
  <2>4. Further(t, th)
    <3>1. th[id] = "reading" => x \in {"reading", "done"}
      BY <2>3
    <3> QED
      BY <2>2, <2>3, <3>1 DEF Further
  <2> QED
    BY <2>1, <2>2, <2>4 DEF t
<1>ToldFurther. ASSUME NEW m, NEW th \in Seq(ThreadState), NEW t, Told(m, th), Further(t, th) PROVE Told(m, t)
  <2> USE <1>ToldFurther
  <2>1. Known(m, t)
    BY DEF Told, Known, Further
  <2>2. Running(m, t)
    BY DEF Told, Running, Further
  <2>3. Outcomes(m, t)
    <3> SUFFICES ASSUME NEW id \in DOMAIN t
                 PROVE  /\ Sent(m, "SUCCESS", id) =>
                             /\ t[id] \in {"reading", "done"}
                             /\ id \in DOMAIN m.conns /\ m.conns[id].side = "client"
                        /\ \A i, j \in DOMAIN m.msgs : At(m, i, "SUCCESS", id) /\ At(m, j, "SUCCESS", id) => i = j
                        /\ \A i, j \in DOMAIN m.msgs : At(m, i, "SUCCESS", id) /\ At(m, j, "EXCEPTION", id) => i < j
                        /\ Sent(m, "EXCEPTION", id) => t[id] = "done"
                        /\ Failed(m, id) => t[id] = "done" /\ ~Sent(m, "SUCCESS", id) /\ ~Sent(m, "EXCEPTION", id)
      BY DEF Outcomes
    <3>1. id \in DOMAIN th
      BY DEF Further
    <3>2. /\ Sent(m, "SUCCESS", id) =>
               /\ th[id] \in {"reading", "done"}
               /\ id \in DOMAIN m.conns /\ m.conns[id].side = "client"
          /\ \A i, j \in DOMAIN m.msgs : At(m, i, "SUCCESS", id) /\ At(m, j, "SUCCESS", id) => i = j
          /\ \A i, j \in DOMAIN m.msgs : At(m, i, "SUCCESS", id) /\ At(m, j, "EXCEPTION", id) => i < j
          /\ Sent(m, "EXCEPTION", id) => th[id] = "done"
          /\ Failed(m, id) => th[id] = "done" /\ ~Sent(m, "SUCCESS", id) /\ ~Sent(m, "EXCEPTION", id)
      BY <3>1 DEF Told, Outcomes
    <3>3. /\ th[id] = "reading" => t[id] \in {"reading", "done"}
          /\ th[id] = "done" => t[id] = "done"
      BY <3>1 DEF Further
    <3> QED
      BY <3>2, <3>3
  <2> QED
    BY <2>1, <2>2, <2>3 DEF Told
<1>TallyFurther. ASSUME NEW m, NEW th, NEW t, Told(m, th), Tally(m, th), Further(t, th) PROVE Tally(m, t)
  <2> USE <1>TallyFurther
  <2>1. DOMAIN m.conns \subseteq DOMAIN th
    BY DEF Told, Known
  <2>2. \A i \in DOMAIN th : t[i] \in {"connecting", "open"} => th[i] \in {"connecting", "open"}
    BY DEF Further
  <2>3. Unclaimed(m, t)
    BY <2>1, <2>2 DEF Tally, Unclaimed
  <2> QED
    BY <2>3 DEF Tally
<1>ToldPost. ASSUME NEW m, NEW n, NEW t, NEW msg, Told(m, t), Posted(n, m, msg), MayPost(m, t, msg),
                    SameEnds(n, m), \A f : f.what = "FAIL" => (f \in n.timers <=> f \in m.timers)
             PROVE  Told(n, t)
  <2> USE <1>ToldPost
  <2> DEFINE k == Len(m.msgs) + 1
  <2>1. /\ \A i, what, id : At(n, i, what, id) <=>
             At(m, i, what, id) \/ (i = k /\ msg.what = what /\ msg.id = id)
        /\ \A what, id : Sent(n, what, id) <=> Sent(m, what, id) \/ (msg.what = what /\ msg.id = id)
    BY <1>PostedSame
  <2>2. /\ k \notin DOMAIN m.msgs /\ DOMAIN n.msgs = DOMAIN m.msgs \cup {k} /\ n.msgs[k] = msg
        /\ \A i \in DOMAIN m.msgs : n.msgs[i] = m.msgs[i] /\ i < k
    BY DEF Posted
  <2> HIDE DEF k
  <2>3. Known(n, t)
    BY <2>2 DEF Told, Known, SameEnds, MayPost
  <2>4. Running(n, t)
    BY DEF Told, Running, SameEnds
  <2>5. \A id : DelayedFail(n, id) <=> DelayedFail(m, id)
    BY DEF DelayedFail
  <2>6. \A id : Failed(n, id) <=> Failed(m, id) \/ (msg.what = "FAIL" /\ msg.id = id)
    BY <2>1, <2>5 DEF Failed
  <2>7. Outcomes(n, t)
    <3> SUFFICES ASSUME NEW id \in DOMAIN t
                 PROVE  /\ Sent(n, "SUCCESS", id) =>
                             /\ t[id] \in {"reading", "done"}
                             /\ id \in DOMAIN n.conns /\ n.conns[id].side = "client"
                        /\ \A i, j \in DOMAIN n.msgs : At(n, i, "SUCCESS", id) /\ At(n, j, "SUCCESS", id) => i = j
                        /\ \A i, j \in DOMAIN n.msgs : At(n, i, "SUCCESS", id) /\ At(n, j, "EXCEPTION", id) => i < j
                        /\ Sent(n, "EXCEPTION", id) => t[id] = "done"
                        /\ Failed(n, id) => t[id] = "done" /\ ~Sent(n, "SUCCESS", id) /\ ~Sent(n, "EXCEPTION", id)
      BY DEF Outcomes
    <3>1. /\ Sent(m, "SUCCESS", id) =>
               /\ t[id] \in {"reading", "done"}
               /\ id \in DOMAIN m.conns /\ m.conns[id].side = "client"
          /\ \A i, j \in DOMAIN m.msgs : At(m, i, "SUCCESS", id) /\ At(m, j, "SUCCESS", id) => i = j
          /\ \A i, j \in DOMAIN m.msgs : At(m, i, "SUCCESS", id) /\ At(m, j, "EXCEPTION", id) => i < j
          /\ Sent(m, "EXCEPTION", id) => t[id] = "done"
          /\ Failed(m, id) => t[id] = "done" /\ ~Sent(m, "SUCCESS", id) /\ ~Sent(m, "EXCEPTION", id)
      BY DEF Told, Outcomes
    <3>2. \A i, what : At(m, i, what, id) => i \in DOMAIN m.msgs /\ Sent(m, what, id) /\ i < k
      BY <2>2 DEF At, Sent
    <3>3. Sent(n, "SUCCESS", id) => /\ t[id] \in {"reading", "done"}
                                    /\ id \in DOMAIN n.conns /\ n.conns[id].side = "client"
      BY <2>1, <3>1 DEF SameEnds, MayPost
    <3>4. ASSUME NEW i, NEW j, At(n, i, "SUCCESS", id), At(n, j, "SUCCESS", id) PROVE i = j
      <4>1. CASE At(m, i, "SUCCESS", id) /\ At(m, j, "SUCCESS", id)
        BY <3>1, <3>2, <4>1
      <4>2. CASE ~At(m, i, "SUCCESS", id) /\ ~At(m, j, "SUCCESS", id)
        BY SMT, <2>1, <3>4, <4>2
      <4>3. ASSUME msg.what = "SUCCESS", msg.id = id PROVE ~Sent(m, "SUCCESS", id)
        BY <4>3 DEF MayPost
      <4> QED
        BY <2>1, <3>2, <3>4, <4>1, <4>2, <4>3
    <3>5. ASSUME NEW i, NEW j, At(n, i, "SUCCESS", id), At(n, j, "EXCEPTION", id) PROVE i < j
      <4>1. CASE At(m, i, "SUCCESS", id) /\ At(m, j, "EXCEPTION", id)
        BY <3>1, <3>2, <4>1
      <4>2. CASE At(m, i, "SUCCESS", id) /\ j = k
        BY <3>2, <4>2
      <4>3. ASSUME msg.what = "SUCCESS", msg.id = id PROVE FALSE
        <5>1. ~Sent(m, "EXCEPTION", id)
          BY <4>3 DEF MayPost
        <5> QED
          BY ZenonT(60), <2>1, <3>2, <3>5, <4>3, <5>1
      <4> QED
        BY <2>1, <3>5, <4>1, <4>2, <4>3
    <3>6. Sent(n, "EXCEPTION", id) => t[id] = "done"
      BY <2>1, <3>1 DEF MayPost
    <3>7. Failed(n, id) => t[id] = "done" /\ ~Sent(n, "SUCCESS", id) /\ ~Sent(n, "EXCEPTION", id)
      <4>1. CASE Failed(m, id)
        <5>1. ~(msg.id = id /\ msg.what \in {"SUCCESS", "EXCEPTION"})
          BY <4>1 DEF MayPost
        <5> QED
          BY <2>1, <3>1, <4>1, <5>1
      <4>2. CASE msg.what = "FAIL" /\ msg.id = id
        <5>1. t[id] = "done" /\ ~Sent(m, "SUCCESS", id) /\ ~Sent(m, "EXCEPTION", id)
          BY <4>2 DEF MayPost
        <5>2. ~Sent(n, "SUCCESS", id) /\ ~Sent(n, "EXCEPTION", id)
          BY SMT, <2>1, <4>2, <5>1
        <5> QED
          BY <5>1, <5>2
      <4> QED
        BY <2>6, <4>1, <4>2
    <3> QED
      BY <3>3, <3>4, <3>5, <3>6, <3>7
  <2> QED
    BY <2>3, <2>4, <2>7 DEF Told
<1>TallyPost. ASSUME NEW m \in Manager, NEW n, NEW t, NEW msg, Tally(m, t), Posted(n, m, msg), SameEnds(n, m),
                     \A i \in DOMAIN m.conns : n.conns[i].unclaimed = m.conns[i].unclaimed,
                     \A i \in DOMAIN m.conns :
                       /\ msg.what = "DISCONNECT" /\ msg.id = i => Surplus(n.conns[i]) = Surplus(m.conns[i]) + 1
                       /\ ~(msg.what = "DISCONNECT" /\ msg.id = i) => Surplus(n.conns[i]) = Surplus(m.conns[i]),
                     msg.what = "SUCCESS" => m.conns[msg.id].unclaimed = 1
              PROVE  Tally(n, t)
  <2> USE <1>TallyPost
  <2> DEFINE k == Len(m.msgs) + 1
  <2>1. /\ \A i, what, id : At(n, i, what, id) <=>
             At(m, i, what, id) \/ (i = k /\ msg.what = what /\ msg.id = id)
        /\ \A what, id : Sent(n, what, id) <=> Sent(m, what, id) \/ (msg.what = what /\ msg.id = id)
    BY SMT, <1>PostedSame
  <2>2. k \notin DOMAIN m.msgs /\ DOMAIN n.msgs = DOMAIN m.msgs \cup {k}
    BY DEF Posted
  <2> HIDE DEF k
  <2>3. Unclaimed(n, t)
    <3> SUFFICES ASSUME NEW i \in DOMAIN n.conns,
                        \/ t[i] \in {"connecting", "open"} /\ n.conns[i].side = "client"
                        \/ Sent(n, "SUCCESS", i)
                 PROVE  n.conns[i].unclaimed = 1
      BY DEF Unclaimed
    <3>0. i \in DOMAIN m.conns /\ n.conns[i].side = m.conns[i].side /\ n.conns[i].unclaimed = m.conns[i].unclaimed
      BY DEF SameEnds
    <3>1. Sent(n, "SUCCESS", i) => Sent(m, "SUCCESS", i) \/ (msg.what = "SUCCESS" /\ msg.id = i)
      BY <2>1
    <3>2. \/ t[i] \in {"connecting", "open"} /\ m.conns[i].side = "client"
          \/ Sent(m, "SUCCESS", i)
          => m.conns[i].unclaimed = 1
      BY <3>0 DEF Tally, Unclaimed
    <3> QED
      BY <3>0, <3>1, <3>2
  <2>4. ASSUME NEW i \in DOMAIN m.conns PROVE Surplus(n.conns[i]) = Cardinality(Releases(n, i))
    <3>1. Surplus(m.conns[i]) = Cardinality(Releases(m, i))
      BY DEF Tally, Counted
    <3>2. IsFiniteSet(Releases(m, i)) /\ Cardinality(Releases(m, i)) \in Nat
      BY ReleasesFinite
    <3>3. CASE msg.what = "DISCONNECT" /\ msg.id = i
      <4>1. \A j : At(n, j, "DISCONNECT", i) <=> At(m, j, "DISCONNECT", i) \/ j = k
        BY <2>1, <3>3
      <4>2. Releases(n, i) = Releases(m, i) \cup {k}
        BY <2>2, <4>1 DEF Releases, At
      <4>3. k \notin Releases(m, i)
        BY <2>2 DEF Releases
      <4>4. Cardinality(Releases(n, i)) = Cardinality(Releases(m, i)) + 1
        <5>1. \A S, x : IsFiniteSet(S) /\ x \notin S => Cardinality(S \cup {x}) = Cardinality(S) + 1
          BY DEF SetLaws
        <5> QED
          BY <3>2, <4>2, <4>3, <5>1
      <4> QED
        BY <3>1, <3>3, <4>4
    <3>4. CASE ~(msg.what = "DISCONNECT" /\ msg.id = i)
      <4>1. \A j : At(n, j, "DISCONNECT", i) <=> At(m, j, "DISCONNECT", i)
        BY <2>1, <3>4
      <4>2. Releases(n, i) = Releases(m, i)
        BY <2>2, <4>1 DEF Releases, At
      <4> QED
        BY <3>1, <3>4, <4>2
    <3> QED
      BY <3>3, <3>4
  <2>5. Counted(n)
    BY <2>4 DEF Counted, SameEnds
  <2> QED
    BY <2>3, <2>5 DEF Tally
<1>AsideInv. ASSUME Inv, Aside(mgr', mgr), Once(mgr', called', {}), Told(mgr', thread'), Tally(mgr', thread'),
                    \A j \in DOMAIN mgr.conns :
                      mgr.conns[j].side = "client" /\ Due(mgr, thread, j) => Due(mgr', thread', j),
                    thread' \in Seq(ThreadState), called' \subseteq Req, btOn' \in BOOLEAN, events' \in 0..MaxEvents,
                    faults' = faults
             PROVE  Inv'
  <2> USE <1>AsideInv
  <2> DEFINE n == mgr'
             t == thread'
  <2>1. mgr \in Manager /\ Core(mgr, thread, called, {}) /\ Matched(mgr) /\ Timed(mgr, thread)
    BY DEF Inv, Typed, Good
  <2>2. Shape(mgr)
    BY <2>1 DEF Core
  <2>3. /\ n \in Manager /\ SameEnds(n, mgr) /\ SameDevices(n, mgr) /\ n.answers = mgr.answers
        /\ SameUnpends(n, mgr) /\ (Schedules(mgr) => Schedules(n))
    BY DEF Aside
  <2>4. /\ n.state = mgr.state /\ n.connecting = mgr.connecting /\ n.waitings = mgr.waitings
        /\ n.connecting.addr = mgr.connecting.addr /\ n.connecting.reqs = mgr.connecting.reqs
    BY <2>3 DEF SameDevices
  <2>5. Once(n, called', {}) /\ Told(n, t) /\ Tally(n, t)
    OBVIOUS
  <2>6. \A j \in DOMAIN mgr.conns : mgr.conns[j].side = "client" /\ Due(mgr, thread, j) => Due(n, t, j)
    OBVIOUS
  <2>7. \A f \in mgr.timers : f.what = "TIMEOUT" => f \in n.timers
    BY DEF Aside
  <2> HIDE DEF n, t
  <2>8. Shape(n)
    BY <2>2, <2>3, <2>4, ShapeFrame
  <2>10. Timed(n, t)
    <3> SUFFICES ASSUME n.state = "CONNECTING" PROVE \E j \in Id : Attempt(n, t, j)
      BY DEF Timed
    <3>1. PICK j \in Id : Attempt(mgr, thread, j)
      BY <2>1, <2>4 DEF Timed
    <3>2. /\ j \in DOMAIN mgr.conns /\ mgr.conns[j].side = "client"
          /\ mgr.conns[j].addr = mgr.connecting.addr /\ Due(mgr, thread, j)
      BY <3>1 DEF Attempt
    <3>3. PICK f \in mgr.timers : f.what = "TIMEOUT" /\ f.id = j /\ f.addr = mgr.connecting.addr
      BY <3>1 DEF Attempt
    <3>4. f \in n.timers /\ Due(n, t, j)
      BY <2>6, <2>7, <3>2, <3>3
    <3>5. j \in DOMAIN n.conns /\ n.conns[j].side = "client" /\ n.conns[j].addr = n.connecting.addr
      BY <2>3, <2>4, <3>2 DEF SameEnds
    <3>6. Attempt(n, t, j)
      BY <2>4, <3>3, <3>4, <3>5 DEF Attempt
    <3> QED
      BY <3>6
  <2>11. Matched(n)
    BY <2>1, <2>4 DEF Matched
  <2>12. Good(n, t, called', {})
    BY <2>5, <2>8, <2>10, <2>11 DEF Good, Core
  <2>13. Awake(mgr) => Awake(n)
    BY <2>3, AwakeFrame
  <2>14. Typed'
    BY <2>3 DEF n, Inv, Typed
  <2>15. Good(mgr', thread', called', {})
    BY <2>12 DEF n, t
  <2>16. faults' = 0 => Awake(mgr')
    BY <2>13 DEF n, Inv
  <2> QED
    BY <2>14, <2>15, <2>16 DEF Inv
<1>AsideStep. ASSUME Inv, Aside(mgr', mgr), SameAsks(mgr', mgr), Told(mgr', thread'), Tally(mgr', thread'),
                     \A j \in DOMAIN mgr.conns :
                       mgr.conns[j].side = "client" /\ Due(mgr, thread, j) => Due(mgr', thread', j),
                     thread' \in Seq(ThreadState), called' = called, btOn' \in BOOLEAN, events' \in 0..MaxEvents,
                     faults' = faults
              PROVE  Inv'
  <2> USE <1>AsideStep
  <2>1. mgr \in Manager /\ Once(mgr, called, {}) /\ called \subseteq Req
    BY DEF Inv, Typed, Good, Core
  <2>2. SameDevices(mgr', mgr) /\ mgr'.answers = mgr.answers
    BY DEF Aside
  <2>3. SameReqs(mgr', mgr) /\ mgr'.connecting.reqs = mgr.connecting.reqs
    BY <2>2 DEF SameReqs, SameDevices
  <2>4. Once(mgr', called, {})
    BY <2>1, <2>2, <2>3, OnceFrame
  <2>5. Once(mgr', called', {}) /\ called' \subseteq Req
    BY <2>1, <2>4
  <2> QED
    BY <2>5, <1>AsideInv
<1>PostStep. ASSUME Inv, NEW n, Plain(n, mgr), NEW msg \in Message, mgr' = Post(n, msg), msg.what # "CONNECT_REQUEST",
                    thread' \in Seq(ThreadState), Further(thread', thread), MayPost(mgr, thread', msg),
                    msg.what \in {"SUCCESS", "FAIL"} => Reported(thread', thread, msg.id),
                    msg.what \notin {"SUCCESS", "FAIL"} =>
                      \A j \in DOMAIN mgr.conns :
                        mgr.conns[j].side = "client" /\ thread[j] \in {"connecting", "open"} => thread'[j] \in {"connecting", "open"},
                    \A i \in DOMAIN mgr.conns :
                      /\ msg.what = "DISCONNECT" /\ msg.id = i => Surplus(n.conns[i]) = Surplus(mgr.conns[i]) + 1
                      /\ ~(msg.what = "DISCONNECT" /\ msg.id = i) => Surplus(n.conns[i]) = Surplus(mgr.conns[i]),
                    msg.what = "SUCCESS" => mgr.conns[msg.id].unclaimed = 1,
                    called' = called, btOn' \in BOOLEAN, events' \in 0..MaxEvents, faults' = faults
             PROVE  Inv'
  <2> USE <1>PostStep
  <2> DEFINE p == mgr'
             t == thread'
  <2>1. mgr \in Manager /\ Told(mgr, thread) /\ Tally(mgr, thread) /\ thread \in Seq(ThreadState)
    BY DEF Inv, Typed, Good, Core
  <2>2. /\ n \in Manager /\ SameEnds(n, mgr) /\ SameDevices(n, mgr) /\ SameTimes(n, mgr)
        /\ n.answers = mgr.answers /\ n.msgs = mgr.msgs
        /\ \A i \in DOMAIN mgr.conns : n.conns[i].unclaimed = mgr.conns[i].unclaimed
    BY DEF Plain
  <2>3. /\ p \in Manager /\ p.msgs = Append(n.msgs, msg)
        /\ SameDevices(p, n) /\ SameTimes(p, n) /\ p.conns = n.conns /\ p.answers = n.answers
    <3> DEFINE q == Post(n, msg)
    <3>1. n \in Manager
      BY <2>2
    <3>2. /\ q \in Manager /\ q.msgs = Append(n.msgs, msg)
          /\ SameDevices(q, n) /\ SameTimes(q, n) /\ q.conns = n.conns /\ q.answers = n.answers
      BY <3>1, PostIs
    <3> HIDE DEF q
    <3>3. p = q
      BY DEF q
    <3> QED
      BY <3>2, <3>3
  <2>4. t \in Seq(ThreadState) /\ Further(t, thread) /\ MayPost(mgr, t, msg)
    OBVIOUS
  <2>5. /\ msg.what \in {"SUCCESS", "FAIL"} => Reported(t, thread, msg.id)
        /\ msg.what \notin {"SUCCESS", "FAIL"} =>
             \A j \in DOMAIN mgr.conns :
               mgr.conns[j].side = "client" /\ thread[j] \in {"connecting", "open"} => t[j] \in {"connecting", "open"}
    OBVIOUS
  <2>6. \A i \in DOMAIN mgr.conns :
          /\ msg.what = "DISCONNECT" /\ msg.id = i => Surplus(p.conns[i]) = Surplus(mgr.conns[i]) + 1
          /\ ~(msg.what = "DISCONNECT" /\ msg.id = i) => Surplus(p.conns[i]) = Surplus(mgr.conns[i])
    <3>1. p.conns = n.conns
      BY <2>3
    <3> HIDE DEF p
    <3> QED
      BY <3>1
  <2> HIDE DEF p, t
  <2>7. Posted(p, mgr, msg)
    <3>1. p.msgs = Append(mgr.msgs, msg)
      BY <2>2, <2>3
    <3> QED
      BY <2>1, <3>1, <1>PostedIs
  <2>8. /\ SameEnds(p, mgr) /\ SameDevices(p, mgr) /\ SameTimes(p, mgr) /\ p.answers = mgr.answers
        /\ \A i \in DOMAIN mgr.conns : p.conns[i].unclaimed = mgr.conns[i].unclaimed
    BY <2>2, <2>3 DEF SameEnds, SameDevices, SameTimes
  <2>9. SameButTimeouts(p, mgr) /\ SameAlarms(p, mgr)
    BY <2>8, SameTimesAre
  <2>10. /\ \A what, id : Sent(p, what, id) <=> Sent(mgr, what, id) \/ (msg.what = what /\ msg.id = id)
         /\ Schedules(mgr) => Schedules(p)
         /\ SameAsks(p, mgr)
    BY SMT, <2>7, <1>PostedSame
  <2>11. Told(mgr, t)
    BY <2>1, <2>4, <1>ToldFurther
  <2>12. Told(p, t)
    <3>1. SameEnds(p, mgr) /\ \A f : f.what = "FAIL" => (f \in p.timers <=> f \in mgr.timers)
      BY <2>8, <2>9 DEF SameButTimeouts
    <3> QED
      BY SMT, <2>4, <2>7, <2>11, <3>1, <1>ToldPost
  <2>13. Tally(p, t)
    <3>1. Tally(mgr, t)
      BY <2>1, <2>4, <1>TallyFurther
    <3> QED
      BY SMT, <2>1, <2>6, <2>7, <2>8, <3>1, <1>TallyPost
  <2>14. Aside(p, mgr)
    <3>1. SameUnpends(p, mgr)
      BY <2>9 DEF SameButTimeouts
    <3>2. \A f \in mgr.timers : f.what = "TIMEOUT" => f \in p.timers
      BY <2>8 DEF SameTimes
    <3> QED
      BY <2>3, <2>8, <2>10, <3>1, <3>2 DEF Aside
  <2>15. ASSUME NEW j \in DOMAIN mgr.conns, mgr.conns[j].side = "client", Due(mgr, thread, j) PROVE Due(p, t, j)
    <3>1. \A what : Sent(mgr, what, j) => Sent(p, what, j)
      BY <2>10
    <3>2. DelayedFail(mgr, j) => DelayedFail(p, j)
      BY <2>8 DEF SameTimes, DelayedFail
    <3>3. CASE thread[j] \in {"connecting", "open"} /\ msg.what \notin {"SUCCESS", "FAIL"}
      BY <2>5, <2>15, <3>3 DEF Due
    <3>4. CASE thread[j] \in {"connecting", "open"} /\ msg.what \in {"SUCCESS", "FAIL"}
      <4>1. j \in DOMAIN thread
        BY <2>1 DEF Told, Known
      <4>2. t[j] \in {"connecting", "open"} \/ j = msg.id
        BY <2>5, <3>4, <4>1 DEF Reported
      <4>3. CASE j = msg.id
        <5>1. Sent(p, msg.what, j)
          BY <2>10, <4>3
        <5> QED
          BY <3>4, <5>1 DEF Due, Failed
      <4> QED
        BY <4>2, <4>3 DEF Due
    <3>5. CASE Sent(mgr, "SUCCESS", j) \/ Failed(mgr, j)
      BY <3>1, <3>2, <3>5 DEF Due, Failed
    <3> QED
      BY <2>15, <3>3, <3>4, <3>5 DEF Due
  <2>16. /\ Aside(mgr', mgr) /\ SameAsks(mgr', mgr) /\ Told(mgr', thread') /\ Tally(mgr', thread')
         /\ thread' \in Seq(ThreadState)
         /\ \A j \in DOMAIN mgr.conns :
              mgr.conns[j].side = "client" /\ Due(mgr, thread, j) => Due(mgr', thread', j)
    BY <2>4, <2>10, <2>12, <2>13, <2>14, <2>15 DEF p, t
  <2> QED
    BY <2>16, <1>AsideStep
<1>AtThread. ASSUME Inv, NEW id \in DOMAIN thread, thread[id] # "done"
             PROVE  /\ id \in DOMAIN mgr.conns /\ id \in Id /\ ~Failed(mgr, id) /\ ~Sent(mgr, "EXCEPTION", id)
                    /\ thread[id] = "connecting" => mgr.conns[id].side = "client"
                    /\ thread[id] \in {"connecting", "open"} => ~Sent(mgr, "SUCCESS", id)
  <2> USE <1>AtThread
  <2>1. mgr \in Manager /\ Told(mgr, thread)
    BY DEF Inv, Typed, Good, Core
  <2>2. id \in DOMAIN mgr.conns /\ (thread[id] = "connecting" => mgr.conns[id].side = "client")
    BY <2>1 DEF Told, Running
  <2>3. mgr.conns \in Conns
    BY <2>1, FieldTypes
  <2>4. id \in Id
    BY <2>2, <2>3 DEF Conns
  <2>5. /\ Sent(mgr, "SUCCESS", id) => thread[id] \in {"reading", "done"}
        /\ Sent(mgr, "EXCEPTION", id) => thread[id] = "done"
        /\ Failed(mgr, id) => thread[id] = "done"
    BY <2>1 DEF Told, Outcomes
  <2> QED
    BY <2>2, <2>4, <2>5
<1>ReportTypes. ASSUME NEW id \in Id, NEW what \in Reports
                PROVE  [what |-> what, id |-> id] \in Message /\ [what |-> "FAIL", id |-> id] \in Timer
  BY SMT DEF Reports, Message, Timer
<1>LaterStep. \A n : \A id \in DOMAIN thread :
                 /\ Inv
                 /\ Plain(n, mgr)
                 /\ \A i \in DOMAIN mgr.conns : Surplus(n.conns[i]) = Surplus(mgr.conns[i])
                 /\ thread[id] = "connecting"
                 /\ thread' = [thread EXCEPT ![id] = "done"]
                 /\ mgr' = PostLater(n, [what |-> "FAIL", id |-> id])
                 /\ UNCHANGED <<called, btOn, events, faults>>
                => Inv'
  <2>ToldLater. ASSUME NEW m, NEW n, NEW t, NEW id \in DOMAIN t, Told(m, t), n.msgs = m.msgs, SameEnds(n, m),
                       t[id] = "done", ~Sent(m, "SUCCESS", id), ~Sent(m, "EXCEPTION", id),
                       \A f \in n.timers : f.what = "FAIL" => f \in m.timers \/ f.id = id
                PROVE  Told(n, t)
    <3> USE <2>ToldLater
    <3>1. Known(n, t)
      BY DEF Told, Known, SameEnds
    <3>2. Running(n, t)
      BY DEF Told, Running, SameEnds
    <3>3. \A i, what, j : At(n, i, what, j) <=> At(m, i, what, j)
      BY DEF At
    <3>4. \A what, j : Sent(n, what, j) <=> Sent(m, what, j)
      BY <3>3 DEF Sent
    <3>5. \A j : Failed(n, j) => Failed(m, j) \/ j = id
      BY <3>4 DEF Failed, DelayedFail
    <3>6. ASSUME NEW j \in DOMAIN t
          PROVE  /\ Sent(n, "SUCCESS", j) =>
                      /\ t[j] \in {"reading", "done"}
                      /\ j \in DOMAIN n.conns /\ n.conns[j].side = "client"
                 /\ \A i, k \in DOMAIN n.msgs : At(n, i, "SUCCESS", j) /\ At(n, k, "SUCCESS", j) => i = k
                 /\ \A i, k \in DOMAIN n.msgs : At(n, i, "SUCCESS", j) /\ At(n, k, "EXCEPTION", j) => i < k
                 /\ Sent(n, "EXCEPTION", j) => t[j] = "done"
                 /\ Failed(n, j) => t[j] = "done" /\ ~Sent(n, "SUCCESS", j) /\ ~Sent(n, "EXCEPTION", j)
      <4>1. /\ Sent(m, "SUCCESS", j) =>
                 /\ t[j] \in {"reading", "done"}
                 /\ j \in DOMAIN m.conns /\ m.conns[j].side = "client"
            /\ \A i, k \in DOMAIN m.msgs : At(m, i, "SUCCESS", j) /\ At(m, k, "SUCCESS", j) => i = k
            /\ \A i, k \in DOMAIN m.msgs : At(m, i, "SUCCESS", j) /\ At(m, k, "EXCEPTION", j) => i < k
            /\ Sent(m, "EXCEPTION", j) => t[j] = "done"
            /\ Failed(m, j) => t[j] = "done" /\ ~Sent(m, "SUCCESS", j) /\ ~Sent(m, "EXCEPTION", j)
        BY DEF Told, Outcomes
      <4>2. Sent(n, "SUCCESS", j) => /\ t[j] \in {"reading", "done"}
                                     /\ j \in DOMAIN n.conns /\ n.conns[j].side = "client"
        BY <3>4, <4>1 DEF SameEnds
      <4>3. /\ \A i, k \in DOMAIN n.msgs : At(n, i, "SUCCESS", j) /\ At(n, k, "SUCCESS", j) => i = k
            /\ \A i, k \in DOMAIN n.msgs : At(n, i, "SUCCESS", j) /\ At(n, k, "EXCEPTION", j) => i < k
        BY <3>3, <4>1
      <4>4. Sent(n, "EXCEPTION", j) => t[j] = "done"
        BY <3>4, <4>1
      <4>5. Failed(n, j) => t[j] = "done" /\ ~Sent(n, "SUCCESS", j) /\ ~Sent(n, "EXCEPTION", j)
        BY <3>4, <3>5, <4>1
      <4> QED
        BY <4>2, <4>3, <4>4, <4>5
    <3>7. Outcomes(n, t)
      BY <3>6 DEF Outcomes
    <3> QED
      BY <3>1, <3>2, <3>7 DEF Told
  <2> TAKE n
  <2> TAKE id \in DOMAIN thread
  <2> HAVE /\ Inv
           /\ Plain(n, mgr)
           /\ \A i \in DOMAIN mgr.conns : Surplus(n.conns[i]) = Surplus(mgr.conns[i])
           /\ thread[id] = "connecting"
           /\ thread' = [thread EXCEPT ![id] = "done"]
           /\ mgr' = PostLater(n, [what |-> "FAIL", id |-> id])
           /\ UNCHANGED <<called, btOn, events, faults>>
  <2> DEFINE p == mgr'
             t == thread'
             fail == [what |-> "FAIL", id |-> id]
  <2>1. /\ mgr \in Manager /\ Told(mgr, thread) /\ Tally(mgr, thread) /\ thread \in Seq(ThreadState)
        /\ btOn \in BOOLEAN /\ events \in 0..MaxEvents
    BY DEF Inv, Typed, Good, Core
  <2>2. /\ n \in Manager /\ SameEnds(n, mgr) /\ SameDevices(n, mgr) /\ SameTimes(n, mgr)
        /\ n.answers = mgr.answers /\ n.msgs = mgr.msgs
        /\ \A i \in DOMAIN mgr.conns : n.conns[i].unclaimed = mgr.conns[i].unclaimed
    BY DEF Plain
  <2>3. id \in Id /\ ~Sent(mgr, "EXCEPTION", id) /\ ~Sent(mgr, "SUCCESS", id)
    BY <1>AtThread
  <2>4. fail \in Timer /\ fail.what = "FAIL" /\ fail.id = id
    <3>1. "FAIL" \in Reports
      BY DEF Reports
    <3> QED
      BY <2>3, <3>1, <1>ReportTypes
  <2> HIDE DEF fail
  <2>5. /\ p \in Manager /\ p.timers = n.timers \cup {fail} /\ p.pendings = n.pendings
        /\ SameDevices(p, n) /\ p.conns = n.conns /\ p.answers = n.answers /\ p.msgs = n.msgs
    <3> DEFINE q == PostLater(n, fail)
    <3>1. n \in Manager
      BY <2>2
    <3>2. /\ q \in Manager /\ q.timers = n.timers \cup {fail} /\ q.pendings = n.pendings
          /\ SameDevices(q, n) /\ q.conns = n.conns /\ q.answers = n.answers /\ q.msgs = n.msgs
      BY <2>4, <3>1, PostLaterIs
    <3> HIDE DEF q
    <3>3. p = q
      BY DEF q, fail
    <3> QED
      BY <3>2, <3>3
  <2>6. t \in Seq(ThreadState) /\ Further(t, thread) /\ t[id] = "done" /\ \A i \in DOMAIN thread : i # id => t[i] = thread[i]
    <3> DEFINE done == "done"
               u == [thread EXCEPT ![id] = done]
    <3>1. done \in ThreadState /\ thread[id] # "done" /\ done # "connecting" /\ done # "open" /\ t = u
      BY DEF ThreadState
    <3> HIDE DEF done
    <3>2. u \in Seq(ThreadState) /\ Further(u, thread) /\ u[id] = done /\ \A i \in DOMAIN thread : i # id => u[i] = thread[i]
      BY <2>1, <3>1, <1>FurtherIs
    <3> HIDE DEF u
    <3> QED
      BY <3>1, <3>2 DEF done
  <2>7. \A i \in DOMAIN mgr.conns : Surplus(p.conns[i]) = Surplus(mgr.conns[i])
    BY <2>5
  <2> HIDE DEF p, t
  <2>8. /\ SameEnds(p, mgr) /\ SameDevices(p, mgr) /\ p.pendings = mgr.pendings /\ p.timers = mgr.timers \cup {fail}
        /\ p.msgs = mgr.msgs /\ p.answers = mgr.answers
        /\ \A i \in DOMAIN mgr.conns : p.conns[i].unclaimed = mgr.conns[i].unclaimed
    BY <2>2, <2>5 DEF SameEnds, SameDevices, SameTimes
  <2>9. Told(mgr, t) /\ Tally(mgr, t)
    BY <2>1, <2>6, <1>ToldFurther, <1>TallyFurther
  <2>10. Told(p, t)
    <3>1. id \in DOMAIN t
      BY <2>6 DEF Further
    <3>2. \A f \in p.timers : f.what = "FAIL" => f \in mgr.timers \/ f.id = id
      BY <2>4, <2>8
    <3> QED
      BY <2>3, <2>6, <2>8, <2>9, <3>1, <3>2, <2>ToldLater
  <2>11. Grown(p, mgr)
    BY <2>8, GrownSame
  <2>12. Tally(p, t)
    <3>1. DOMAIN p.conns \subseteq DOMAIN mgr.conns
      BY <2>8 DEF SameEnds
    <3>2. \A i \in DOMAIN p.conns : /\ p.conns[i].side = mgr.conns[i].side
                                    /\ Surplus(p.conns[i]) = Surplus(mgr.conns[i])
                                    /\ p.conns[i].unclaimed = mgr.conns[i].unclaimed
      BY <2>7, <2>8 DEF SameEnds
    <3> QED
      BY <2>9, <2>11, <3>1, <3>2, TallyFrame
  <2>13. SameAsks(p, mgr) /\ (Schedules(mgr) => Schedules(p))
    BY <2>8, <2>11, GrownAsks DEF Schedules
  <2>14. Aside(p, mgr)
    <3>1. \A addr : Unpend(addr) # fail
      BY <2>4, UnpendApart
    <3>2. SameUnpends(p, mgr)
      BY <2>8, <3>1 DEF SameUnpends
    <3>3. \A f \in mgr.timers : f.what = "TIMEOUT" => f \in p.timers
      BY <2>8
    <3> QED
      BY <2>5, <2>8, <2>13, <3>2, <3>3 DEF Aside
  <2>15. ASSUME NEW j \in DOMAIN mgr.conns, Due(mgr, thread, j) PROVE Due(p, t, j)
    <3>1. \A what : Sent(mgr, what, j) => Sent(p, what, j)
      BY <2>8 DEF Sent, At
    <3>2. DelayedFail(mgr, j) \/ j = id => DelayedFail(p, j)
      BY <2>4, <2>8 DEF DelayedFail
    <3>3. j \in DOMAIN thread
      BY <2>1 DEF Told, Known
    <3>4. CASE j = id
      BY <3>2, <3>4 DEF Due, Failed
    <3>5. CASE j # id
      BY <2>6, <2>15, <3>1, <3>2, <3>3, <3>5 DEF Due, Failed
    <3> QED
      BY <3>4, <3>5
  <2>16. /\ Aside(mgr', mgr) /\ SameAsks(mgr', mgr) /\ Told(mgr', thread') /\ Tally(mgr', thread')
         /\ thread' \in Seq(ThreadState)
         /\ \A j \in DOMAIN mgr.conns : Due(mgr, thread, j) => Due(mgr', thread', j)
    BY <2>6, <2>10, <2>12, <2>13, <2>14, <2>15 DEF p, t
  <2>17. called' = called /\ btOn' \in BOOLEAN /\ events' \in 0..MaxEvents /\ faults' = faults
    BY <2>1
  <2> QED
    BY <2>16, <2>17, <1>AsideStep
<1>ThreadTo. ASSUME Inv, NEW id \in DOMAIN thread, NEW x \in {"open", "reading", "done"}, thread[id] # "done",
                    x = "open" => thread[id] = "connecting", thread' = [thread EXCEPT ![id] = x]
             PROVE  /\ thread' \in Seq(ThreadState) /\ Further(thread', thread) /\ thread'[id] = x
                    /\ Reported(thread', thread, id) /\ \A i \in DOMAIN thread : i # id => thread'[i] = thread[i]
                    /\ id \in DOMAIN thread'
  <2> USE <1>ThreadTo
  <2> DEFINE u == [thread EXCEPT ![id] = x]
  <2>1. x \in ThreadState /\ x # "connecting" /\ thread \in Seq(ThreadState)
    BY DEF ThreadState, Inv, Typed
  <2>2. u \in Seq(ThreadState) /\ Further(u, thread) /\ u[id] = x /\ \A i \in DOMAIN thread : i # id => u[i] = thread[i]
    BY <2>1, <1>FurtherIs
  <2>3. thread' = u
    OBVIOUS
  <2> HIDE DEF u
  <2>4. Reported(u, thread, id) /\ id \in DOMAIN u
    BY <2>2 DEF Reported, Further
  <2> QED
    BY <2>2, <2>3, <2>4
<1>NoSocketStep. ASSUME Inv, NEW n, Plain(n, mgr), \A i \in DOMAIN mgr.conns : Surplus(n.conns[i]) = Surplus(mgr.conns[i]),
                        NEW id \in DOMAIN thread, thread[id] = "connecting", thread' = [thread EXCEPT ![id] = "done"],
                        mgr' = Post(n, [what |-> "FAIL", id |-> id]), UNCHANGED <<called, btOn, events, faults>>
                 PROVE  Inv'
  <2> USE <1>NoSocketStep
  <2> DEFINE msg == [what |-> "FAIL", id |-> id]
  <2>1. /\ id \in Id /\ ~Failed(mgr, id) /\ ~Sent(mgr, "EXCEPTION", id) /\ ~Sent(mgr, "SUCCESS", id)
    BY <1>AtThread
  <2>2. msg \in Message /\ msg.what = "FAIL" /\ msg.id = id
    <3>1. "FAIL" \in Reports
      BY DEF Reports
    <3> QED
      BY <2>1, <3>1, <1>ReportTypes
  <2>3. mgr' = Post(n, msg)
    OBVIOUS
  <2> HIDE DEF msg
  <2>4. /\ thread' \in Seq(ThreadState) /\ Further(thread', thread) /\ thread'[id] = "done"
        /\ Reported(thread', thread, id) /\ id \in DOMAIN thread'
    <3> DEFINE done == "done"
    <3>1. done \in {"open", "reading", "done"} /\ thread[id] # "done" /\ done # "open" /\ thread' = [thread EXCEPT ![id] = done]
      OBVIOUS
    <3> HIDE DEF done
    <3>2. /\ thread' \in Seq(ThreadState) /\ Further(thread', thread) /\ thread'[id] = done
          /\ Reported(thread', thread, id) /\ id \in DOMAIN thread'
      BY <3>1, <1>ThreadTo
    <3> QED
      BY <3>2 DEF done
  <2>5. MayPost(mgr, thread', msg)
    BY <2>1, <2>2, <2>4 DEF MayPost
  <2>6. msg.what \in {"SUCCESS", "FAIL"} /\ msg.what # "CONNECT_REQUEST" /\ msg.what # "DISCONNECT"
        /\ msg.what # "SUCCESS"
    BY <2>2
  <2>7. called' = called /\ btOn' \in BOOLEAN /\ events' \in 0..MaxEvents /\ faults' = faults
    BY DEF Inv, Typed
  <2>8. msg.what \in {"SUCCESS", "FAIL"} => Reported(thread', thread, msg.id)
    BY <2>2, <2>4
  <2>9. \A i \in DOMAIN mgr.conns :
          /\ msg.what = "DISCONNECT" /\ msg.id = i => Surplus(n.conns[i]) = Surplus(mgr.conns[i]) + 1
          /\ ~(msg.what = "DISCONNECT" /\ msg.id = i) => Surplus(n.conns[i]) = Surplus(mgr.conns[i])
    BY <2>6
  <2>10. msg.what \notin {"SUCCESS", "FAIL"} =>
           \A j \in DOMAIN mgr.conns : thread[j] \in {"connecting", "open"} => thread'[j] \in {"connecting", "open"}
    BY <2>6
  <2>11. msg.what = "SUCCESS" => mgr.conns[msg.id].unclaimed = 1
    BY <2>6
  <2> QED
    BY <2>2, <2>3, <2>4, <2>5, <2>6, <2>7, <2>8, <2>9, <2>10, <2>11, <1>PostStep
<1>Here. Inv => mgr \in Manager /\ Plain(mgr, mgr)
  <2>PlainSame. ASSUME NEW m \in Manager PROVE Plain(m, m)
    BY DEF Plain, SameEnds, SameDevices, SameTimes
  <2> QED
  BY <2>PlainSame DEF Inv, Typed
<1>ClientNoSocketStep. ASSUME Inv, NEW id \in DOMAIN thread, ClientNoSocket(id) PROVE Inv'
  <2> USE <1>ClientNoSocketStep
  <2> DEFINE fail == [what |-> "FAIL", id |-> id]
  <2>1. /\ thread[id] = "connecting" /\ thread' = [thread EXCEPT ![id] = "done"]
        /\ mgr' = Post(mgr, fail) \/ mgr' = PostLater(mgr, fail)
        /\ UNCHANGED <<called, btOn, events, faults>>
    BY DEF ClientNoSocket
  <2>2. Plain(mgr, mgr) /\ \A i \in DOMAIN mgr.conns : Surplus(mgr.conns[i]) = Surplus(mgr.conns[i])
    BY <1>Here
  <2>3. CASE mgr' = Post(mgr, fail)
    BY <2>1, <2>2, <2>3, <1>NoSocketStep
  <2>4. CASE mgr' = PostLater(mgr, fail)
    BY <2>1, <2>2, <2>4, <1>LaterStep
  <2> QED
    BY <2>1, <2>3, <2>4
\* A new link with the same count.
<1>PlainLink. \A id \in DOMAIN mgr.conns, link \in Connection :
                 /\ Inv
                 /\ link.rc = mgr.conns[id].link.rc
                => /\ Plain(SetLink(mgr, id, link), mgr)
                   /\ \A i \in DOMAIN mgr.conns : Surplus(SetLink(mgr, id, link).conns[i]) = Surplus(mgr.conns[i])
  <2>RelinkPlain. ASSUME NEW m \in Manager, NEW n, NEW id \in DOMAIN m.conns, Relinked(n, m, id, 0)
                  PROVE  Plain(n, m) /\ \A i \in DOMAIN m.conns : Surplus(n.conns[i]) = Surplus(m.conns[i])
    <3> USE <2>RelinkPlain
    <3>1. SameCounts(n, m)
      BY RelinkSame
    <3> QED
      BY <3>1 DEF Relinked, Plain, SameCounts
  <2> TAKE id \in DOMAIN mgr.conns, link \in Connection
  <2> HAVE /\ Inv
           /\ link.rc = mgr.conns[id].link.rc
  <2> DEFINE n == SetLink(mgr, id, link)
  <2>1. mgr \in Manager
    BY <1>Here
  <2>2. mgr.conns[id].link.rc \in Int
    <3>1. mgr.conns \in Conns
      BY <2>1, FieldTypes
    <3>2. mgr.conns[id] \in Saved
      BY <3>1 DEF Conns
    <3> QED
      BY <3>2, SavedTypes
  <2>3. 0 \in Int /\ link.rc = mgr.conns[id].link.rc + 0
    BY SMT, <2>2
  <2>4. Relinked(n, mgr, id, 0)
    BY <2>1, <2>3, RelinkIs
  <2> HIDE DEF n
  <2>5. Plain(n, mgr) /\ \A i \in DOMAIN mgr.conns : Surplus(n.conns[i]) = Surplus(mgr.conns[i])
    BY <2>1, <2>4, <2>RelinkPlain
  <2> QED
    BY <2>5 DEF n
<1>QuietStep. ASSUME Inv, Plain(mgr', mgr), \A i \in DOMAIN mgr.conns : Surplus(mgr'.conns[i]) = Surplus(mgr.conns[i]),
                     thread' \in Seq(ThreadState), Further(thread', thread),
                     \A j \in DOMAIN thread : thread[j] \in {"connecting", "open"} => thread'[j] \in {"connecting", "open"},
                     called' = called, btOn' \in BOOLEAN, events' \in 0..MaxEvents, faults' = faults
              PROVE  Inv'
  <2> USE <1>QuietStep
  <2> DEFINE p == mgr'
             t == thread'
  <2>1. mgr \in Manager /\ Told(mgr, thread) /\ Tally(mgr, thread) /\ thread \in Seq(ThreadState)
    BY DEF Inv, Typed, Good, Core
  <2>2. /\ p \in Manager /\ SameEnds(p, mgr) /\ SameDevices(p, mgr) /\ SameTimes(p, mgr)
        /\ p.answers = mgr.answers /\ p.msgs = mgr.msgs
        /\ \A i \in DOMAIN mgr.conns : p.conns[i].unclaimed = mgr.conns[i].unclaimed
    BY DEF Plain
  <2>3. /\ t \in Seq(ThreadState) /\ Further(t, thread)
        /\ \A j \in DOMAIN thread : thread[j] \in {"connecting", "open"} => t[j] \in {"connecting", "open"}
    OBVIOUS
  <2>4. \A i \in DOMAIN mgr.conns : Surplus(p.conns[i]) = Surplus(mgr.conns[i])
    OBVIOUS
  <2> HIDE DEF p, t
  <2>5. Told(mgr, t) /\ Tally(mgr, t)
    BY <2>1, <2>3, <1>ToldFurther, <1>TallyFurther
  <2>6. Grown(p, mgr) /\ SameButTimeouts(p, mgr)
    BY <2>2, GrownSame, SameTimesAre
  <2>7. /\ DOMAIN p.conns \subseteq DOMAIN mgr.conns
        /\ \A i \in DOMAIN p.conns : /\ p.conns[i].side = mgr.conns[i].side
                                     /\ Surplus(p.conns[i]) = Surplus(mgr.conns[i])
                                     /\ p.conns[i].unclaimed = mgr.conns[i].unclaimed
        /\ \A i \in DOMAIN mgr.conns : i \notin DOMAIN p.conns => t[i] = "done" /\ ~Sent(mgr, "SUCCESS", i)
    BY <2>2, <2>4 DEF SameEnds
  <2>8. Tally(p, t)
    BY <2>5, <2>6, <2>7, TallyFrame
  <2>9. Told(p, t)
    <3>1. \A f \in p.timers : f.what = "FAIL" => f \in mgr.timers
      BY <2>2 DEF SameTimes
    <3>2. \A i \in DOMAIN p.conns : p.conns[i].side = mgr.conns[i].side
      BY <2>7
    <3> QED
      BY <2>5, <2>6, <2>7, <3>1, <3>2, ToldFrame
  <2>10. SameAsks(p, mgr) /\ (Schedules(mgr) => Schedules(p))
    BY <2>2, <2>6, GrownAsks DEF Schedules
  <2>11. Aside(p, mgr)
    <3>1. \A f \in mgr.timers : f.what = "TIMEOUT" => f \in p.timers
      BY <2>2 DEF SameTimes
    <3> QED
      BY <2>2, <2>6, <2>10, <3>1 DEF Aside, SameButTimeouts
  <2>12. ASSUME NEW j \in DOMAIN mgr.conns, Due(mgr, thread, j) PROVE Due(p, t, j)
    <3>1. \A what : Sent(mgr, what, j) => Sent(p, what, j)
      BY <2>2 DEF Sent, At
    <3>2. DelayedFail(mgr, j) => DelayedFail(p, j)
      BY <2>2 DEF DelayedFail, SameTimes
    <3>3. j \in DOMAIN thread
      BY <2>1 DEF Told, Known
    <3> QED
      BY <2>3, <2>12, <3>1, <3>2, <3>3 DEF Due, Failed
  <2>13. /\ Aside(mgr', mgr) /\ SameAsks(mgr', mgr) /\ Told(mgr', thread') /\ Tally(mgr', thread')
         /\ \A j \in DOMAIN mgr.conns : Due(mgr, thread, j) => Due(mgr', thread', j)
    BY <2>8, <2>9, <2>10, <2>11, <2>12 DEF p, t
  <2> QED
    BY <2>13, <1>AsideStep
<1>ClientSocketStep. ASSUME Inv, NEW id \in DOMAIN thread, ClientSocket(id) PROVE Inv'
  <2> USE <1>ClientSocketStep
  <2>1. thread[id] = "connecting" /\ called' = called /\ btOn' = btOn /\ events' = events /\ faults' = faults
    BY DEF ClientSocket
  <2>2. id \in DOMAIN mgr.conns
    BY <2>1, <1>AtThread
  <2>3. /\ called' = called /\ btOn' \in BOOLEAN /\ events' \in 0..MaxEvents /\ faults' = faults
    BY <2>1 DEF Inv, Typed
  <2>4. CASE mgr.conns[id].link.state = "CONNECTING"
    <3> DEFINE link == ClientSocketReady(mgr.conns[id].link)
               open == "open"
    <3>1. mgr' = SetLink(mgr, id, link) /\ thread' = [thread EXCEPT ![id] = open]
      BY <2>4 DEF ClientSocket
    <3>2. link \in Connection /\ link.rc = mgr.conns[id].link.rc
      BY <2>2, <1>LinksKept
    <3>3. open \in {"open", "reading", "done"} /\ thread[id] # "done"
      BY <2>1
    <3> HIDE DEF link, open
    <3>4. /\ Plain(SetLink(mgr, id, link), mgr)
          /\ \A i \in DOMAIN mgr.conns : Surplus(SetLink(mgr, id, link).conns[i]) = Surplus(mgr.conns[i])
      BY <2>2, <3>2, <1>PlainLink
    <3>5. /\ thread' \in Seq(ThreadState) /\ Further(thread', thread) /\ thread'[id] = open
          /\ \A i \in DOMAIN thread : i # id => thread'[i] = thread[i]
      BY <2>1, <3>1, <3>3, <1>ThreadTo
    <3>6. \A j \in DOMAIN thread : thread[j] \in {"connecting", "open"} => thread'[j] \in {"connecting", "open"}
      BY <3>5 DEF open
    <3>7. Plain(mgr', mgr) /\ \A i \in DOMAIN mgr.conns : Surplus(mgr'.conns[i]) = Surplus(mgr.conns[i])
      BY <3>1, <3>4
    <3> QED
      BY <2>3, <3>5, <3>6, <3>7, <1>QuietStep
  <2>5. CASE mgr.conns[id].link.state # "CONNECTING"
    <3> DEFINE link == DisconnectNow(mgr.conns[id].link)
               n == SetLink(mgr, id, link)
               fail == [what |-> "FAIL", id |-> id]
    <3>1. (mgr' = Post(n, fail) \/ mgr' = PostLater(n, fail)) /\ thread' = [thread EXCEPT ![id] = "done"]
      BY <2>5 DEF ClientSocket
    <3>2. link \in Connection /\ link.rc = mgr.conns[id].link.rc
      BY <2>2, <1>LinksKept
    <3> HIDE DEF link
    <3>3. Plain(n, mgr) /\ \A i \in DOMAIN mgr.conns : Surplus(n.conns[i]) = Surplus(mgr.conns[i])
      BY <2>2, <3>2, <1>PlainLink
    <3>4. UNCHANGED <<called, btOn, events, faults>>
      BY <2>1
    <3> HIDE DEF n
    <3>5. CASE mgr' = Post(n, fail)
      BY <2>1, <3>1, <3>3, <3>4, <3>5, <1>NoSocketStep
    <3>6. CASE mgr' = PostLater(n, fail)
      BY <2>1, <3>1, <3>3, <3>4, <3>6, <1>LaterStep
    <3> QED
      BY <3>1, <3>5, <3>6
  <2> QED
    BY <2>4, <2>5
<1>AnnounceStep. ASSUME Inv, NEW id \in DOMAIN thread, Announce(id) PROVE Inv'
  <2> USE <1>AnnounceStep
  <2> DEFINE what == IF mgr.conns[id].side = "client" THEN "SUCCESS" ELSE "ACCEPTED"
             msg == [what |-> what, id |-> id]
             reading == "reading"
  <2>1. /\ thread[id] = "open" /\ thread' = [thread EXCEPT ![id] = reading] /\ mgr' = Post(mgr, msg)
        /\ called' = called /\ btOn' = btOn /\ events' = events /\ faults' = faults
    BY DEF Announce
  <2>2. /\ id \in DOMAIN mgr.conns /\ id \in Id /\ ~Failed(mgr, id) /\ ~Sent(mgr, "EXCEPTION", id)
        /\ ~Sent(mgr, "SUCCESS", id)
    BY <2>1, <1>AtThread
  <2>3. /\ what \in {"SUCCESS", "ACCEPTED"} /\ what \in Reports
        /\ what = "SUCCESS" => mgr.conns[id].side = "client"
        /\ what # "SUCCESS" => mgr.conns[id].side # "client"
    BY DEF Reports
  <2> HIDE DEF what
  <2>4. msg \in Message /\ msg.what = what /\ msg.id = id
    BY <2>2, <2>3, <1>ReportTypes
  <2>5. reading \in {"open", "reading", "done"} /\ thread[id] # "done" /\ reading # "open"
    BY <2>1
  <2> HIDE DEF msg, reading
  <2>6. /\ thread' \in Seq(ThreadState) /\ Further(thread', thread) /\ thread'[id] = reading
        /\ Reported(thread', thread, id) /\ id \in DOMAIN thread'
        /\ \A i \in DOMAIN thread : i # id => thread'[i] = thread[i]
    BY <2>1, <2>5, <1>ThreadTo
  <2>7. thread'[id] = "reading"
    BY <2>6 DEF reading
  <2>8. MayPost(mgr, thread', msg)
    BY <2>2, <2>3, <2>4, <2>6, <2>7 DEF MayPost
  <2>9. called' = called /\ btOn' \in BOOLEAN /\ events' \in 0..MaxEvents /\ faults' = faults
    BY <2>1 DEF Inv, Typed
  <2>10. Plain(mgr, mgr) /\ msg.what # "CONNECT_REQUEST" /\ msg.what # "DISCONNECT"
    BY <2>3, <2>4, <1>Here
  <2>11. \A i \in DOMAIN mgr.conns :
          /\ msg.what = "DISCONNECT" /\ msg.id = i => Surplus(mgr.conns[i]) = Surplus(mgr.conns[i]) + 1
          /\ ~(msg.what = "DISCONNECT" /\ msg.id = i) => Surplus(mgr.conns[i]) = Surplus(mgr.conns[i])
    BY <2>10
  <2>12. msg.what = "SUCCESS" => mgr.conns[msg.id].unclaimed = 1
    <3>1. Tally(mgr, thread)
      BY DEF Inv, Good, Core
    <3> QED
      BY <2>1, <2>2, <2>3, <2>4, <3>1 DEF Tally, Unclaimed
  <2>13. msg.what \in {"SUCCESS", "FAIL"} => Reported(thread', thread, msg.id)
    BY <2>4, <2>6
  <2>14. msg.what \notin {"SUCCESS", "FAIL"} =>
           \A j \in DOMAIN mgr.conns :
             mgr.conns[j].side = "client" /\ thread[j] \in {"connecting", "open"} => thread'[j] \in {"connecting", "open"}
    <3>1. DOMAIN mgr.conns \subseteq DOMAIN thread
      BY DEF Inv, Good, Core, Told, Known
    <3> QED
      BY <2>3, <2>4, <2>6, <3>1
  <2> QED
    BY <2>1, <2>4, <2>6, <2>8, <2>9, <2>10, <2>11, <2>12, <2>13, <2>14, <1>PostStep
<1>StopReadingStep. ASSUME Inv, NEW id \in DOMAIN thread, StopReading(id), events' \in 0..MaxEvents PROVE Inv'
  <2> USE <1>StopReadingStep
  <2> DEFINE msg == [what |-> "EXCEPTION", id |-> id]
             done == "done"
  <2>1. /\ thread[id] = "reading" /\ thread' = [thread EXCEPT ![id] = done]
        /\ called' = called /\ btOn' = btOn /\ faults' = faults
    BY DEF StopReading
  <2>2. PICK err \in ReaderExitStates(mgr.conns[id].side) :
          mgr' = Post(SetLink(mgr, id, ReaderExit(mgr.conns[id].link, err)), msg)
    BY DEF StopReading
  <2> DEFINE link == ReaderExit(mgr.conns[id].link, err)
             n == SetLink(mgr, id, link)
  <2>3. id \in DOMAIN mgr.conns /\ id \in Id /\ ~Failed(mgr, id) /\ ~Sent(mgr, "EXCEPTION", id)
    BY <2>1, <1>AtThread
  <2>4. link \in Connection /\ link.rc = mgr.conns[id].link.rc
    BY <2>2, <2>3, <1>LinksKept
  <2>5. mgr' = Post(n, msg)
    BY <2>2
  <2> HIDE DEF link
  <2>6. Plain(n, mgr) /\ \A i \in DOMAIN mgr.conns : Surplus(n.conns[i]) = Surplus(mgr.conns[i])
    BY <2>3, <2>4, <1>PlainLink
  <2> HIDE DEF n
  <2>7. msg \in Message /\ msg.what = "EXCEPTION" /\ msg.id = id
    <3>1. "EXCEPTION" \in Reports
      BY DEF Reports
    <3> QED
      BY <2>3, <3>1, <1>ReportTypes
  <2>8. done \in {"open", "reading", "done"} /\ thread[id] # "done" /\ done # "open"
    BY <2>1
  <2> HIDE DEF msg, done
  <2>9. /\ thread' \in Seq(ThreadState) /\ Further(thread', thread) /\ thread'[id] = done /\ id \in DOMAIN thread'
        /\ \A i \in DOMAIN thread : i # id => thread'[i] = thread[i]
    BY <2>1, <2>8, <1>ThreadTo
  <2>10. thread'[id] = "done"
    BY <2>9 DEF done
  <2>11. MayPost(mgr, thread', msg)
    BY <2>3, <2>7, <2>9, <2>10 DEF MayPost
  <2>12. called' = called /\ btOn' \in BOOLEAN /\ faults' = faults
    BY <2>1 DEF Inv, Typed
  <2>13. msg.what # "CONNECT_REQUEST" /\ msg.what # "DISCONNECT" /\ msg.what # "SUCCESS" /\ msg.what # "FAIL"
    BY <2>7
  <2>14. \A i \in DOMAIN mgr.conns :
          /\ msg.what = "DISCONNECT" /\ msg.id = i => Surplus(n.conns[i]) = Surplus(mgr.conns[i]) + 1
          /\ ~(msg.what = "DISCONNECT" /\ msg.id = i) => Surplus(n.conns[i]) = Surplus(mgr.conns[i])
    BY <2>6, <2>13
  <2>15. /\ msg.what = "SUCCESS" => mgr.conns[msg.id].unclaimed = 1
         /\ msg.what \in {"SUCCESS", "FAIL"} => Reported(thread', thread, msg.id)
    BY <2>13
  <2>16. msg.what \notin {"SUCCESS", "FAIL"} =>
           \A j \in DOMAIN mgr.conns :
             mgr.conns[j].side = "client" /\ thread[j] \in {"connecting", "open"} => thread'[j] \in {"connecting", "open"}
    <3>1. DOMAIN mgr.conns \subseteq DOMAIN thread
      BY DEF Inv, Good, Core, Told, Known
    <3> QED
      BY <2>1, <2>9, <3>1
  <2> QED
    BY <2>5, <2>6, <2>7, <2>9, <2>11, <2>12, <2>13, <2>14, <2>15, <2>16, <1>PostStep
\* Threads that do not move.
<1>StillThreads. ASSUME Inv, thread' = thread
                 PROVE  /\ thread' \in Seq(ThreadState) /\ Further(thread', thread)
                        /\ \A j \in DOMAIN thread : thread[j] \in {"connecting", "open"} => thread'[j] \in {"connecting", "open"}
                        /\ \A j \in DOMAIN mgr.conns :
                             mgr.conns[j].side = "client" /\ thread[j] \in {"connecting", "open"} => thread'[j] \in {"connecting", "open"}
  <2> USE <1>StillThreads
  <2>1. thread \in Seq(ThreadState)
    BY DEF Inv, Typed
  <2>2. Further(thread, thread)
    BY DEF Further
  <2> QED
    BY <2>1, <2>2
<1>TellStep. ASSUME Inv, NEW n, Plain(n, mgr), NEW msg \in Message, mgr' = Post(n, msg), thread' = thread,
                    msg.what \in {"RESET", "RESUME", "DISCONNECT"}, msg.what # "RESET" => msg.id \in DOMAIN thread,
                    \A i \in DOMAIN mgr.conns :
                      /\ msg.what = "DISCONNECT" /\ msg.id = i => Surplus(n.conns[i]) = Surplus(mgr.conns[i]) + 1
                      /\ ~(msg.what = "DISCONNECT" /\ msg.id = i) => Surplus(n.conns[i]) = Surplus(mgr.conns[i]),
                    called' = called, btOn' \in BOOLEAN, events' \in 0..MaxEvents, faults' = faults
             PROVE  Inv'
  <2> USE <1>TellStep
  <2>1. /\ thread' \in Seq(ThreadState) /\ Further(thread', thread)
        /\ \A j \in DOMAIN mgr.conns :
             mgr.conns[j].side = "client" /\ thread[j] \in {"connecting", "open"} => thread'[j] \in {"connecting", "open"}
    BY SMT, <1>StillThreads
  <2>2. /\ msg.what # "CONNECT_REQUEST" /\ msg.what # "SUCCESS" /\ msg.what # "FAIL" /\ msg.what # "EXCEPTION"
        /\ msg.what = "RESET" => msg.what \notin Reports
    BY DEF Reports
  <2>3. MayPost(mgr, thread', msg)
    BY <2>2 DEF MayPost
  <2>4. /\ msg.what = "SUCCESS" => mgr.conns[msg.id].unclaimed = 1
        /\ msg.what \in {"SUCCESS", "FAIL"} => Reported(thread', thread, msg.id)
    BY <2>2
  <2> QED
    BY <2>1, <2>2, <2>3, <2>4, <1>PostStep
<1>BtStateChangedStep. ASSUME Inv, BtStateChanged PROVE Inv'
  <2> USE <1>BtStateChangedStep
  <2> DEFINE msg == [what |-> "RESET"]
  <2>1. /\ events < MaxEvents /\ events' = events + 1 /\ btOn' = ~btOn
        /\ called' = called /\ thread' = thread /\ faults' = faults
        /\ mgr' = IF btOn THEN Post(mgr, msg) ELSE mgr
    BY DEF BtStateChanged
  <2>2. btOn' \in BOOLEAN /\ events' \in 0..MaxEvents
    BY <2>1, <1>OneMore DEF Inv
  <2>3. mgr \in Manager /\ Plain(mgr, mgr)
    BY <1>Here
  <2>4. msg \in Message /\ msg.what = "RESET"
    BY SMT DEF Message
  <2>5. CASE mgr' = Post(mgr, msg)
    <3> HIDE DEF msg
    <3>1. \A i \in DOMAIN mgr.conns :
            /\ msg.what = "DISCONNECT" /\ msg.id = i => Surplus(mgr.conns[i]) = Surplus(mgr.conns[i]) + 1
            /\ ~(msg.what = "DISCONNECT" /\ msg.id = i) => Surplus(mgr.conns[i]) = Surplus(mgr.conns[i])
      BY <2>4
    <3>2. msg.what \in {"RESET", "RESUME", "DISCONNECT"} /\ (msg.what # "RESET" => msg.id \in DOMAIN thread)
      BY <2>4
    <3> QED
      BY <2>1, <2>2, <2>3, <2>4, <2>5, <3>1, <3>2, <1>TellStep
  <2>6. CASE mgr' = mgr
    <3>1. /\ thread' \in Seq(ThreadState) /\ Further(thread', thread)
          /\ \A j \in DOMAIN thread : thread[j] \in {"connecting", "open"} => thread'[j] \in {"connecting", "open"}
      BY <2>1, <1>StillThreads
    <3>2. Plain(mgr', mgr) /\ \A i \in DOMAIN mgr.conns : Surplus(mgr'.conns[i]) = Surplus(mgr.conns[i])
      BY <2>3, <2>6
    <3> QED
      BY <2>1, <2>2, <3>1, <3>2, <1>QuietStep
  <2> QED
    BY <2>1, <2>5, <2>6
<1>DisconnectDeviceStep. ASSUME Inv, NEW id, DisconnectDevice(id) PROVE Inv'
  <2> USE <1>DisconnectDeviceStep
  <2> DEFINE msg == [what |-> "DISCONNECT", id |-> id]
             less == -1
             n == [mgr EXCEPT !.conns[id].mine = mgr.conns[id].mine + less]
  <2>0. mgr \in Manager /\ thread \in Seq(ThreadState) /\ Told(mgr, thread)
    BY DEF Inv, Typed, Good, Core
  <2>1. /\ id \in DOMAIN mgr.conns /\ mgr.conns[id].mine > 0
        /\ mgr' = Post([mgr EXCEPT !.conns[id].mine = mgr.conns[id].mine - 1], msg)
        /\ called' = called /\ thread' = thread /\ btOn' = btOn /\ events' = events /\ faults' = faults
    BY DEF DisconnectDevice
  <2>2. mgr.conns \in Conns
    BY <2>0, FieldTypes
  <2>3. mgr.conns[id] \in Saved /\ id \in Id
    BY <2>1, <2>2 DEF Conns
  <2>4. mgr.conns[id].mine \in Nat /\ Surplus(mgr.conns[id]) \in Int
    BY <2>3, SavedTypes
  <2>5. mgr.conns[id].mine - 1 = mgr.conns[id].mine + less /\ mgr.conns[id].mine + less \in Nat /\ less \in Int
    BY SMT, <2>1, <2>4
  <2> HIDE DEF less
  <2>6. mgr' = Post(n, msg)
    BY <2>1, <2>5
  <2>7. /\ n \in Manager /\ SameEnds(n, mgr) /\ n.conns[id].unclaimed = mgr.conns[id].unclaimed
        /\ Surplus(n.conns[id]) = Surplus(mgr.conns[id]) - less
        /\ \A i \in DOMAIN mgr.conns : i # id => n.conns[i] = mgr.conns[i]
        /\ SameDevices(n, mgr) /\ SameTimes(n, mgr) /\ n.answers = mgr.answers /\ n.msgs = mgr.msgs
    <3>1. mgr \in Manager /\ id \in DOMAIN mgr.conns /\ less \in Int /\ mgr.conns[id].mine + less \in Nat
      BY <2>0, <2>1, <2>5
    <3> QED
      BY ZenonT(60), <3>1, MineIs
  <2> HIDE DEF n
  <2>8. Plain(n, mgr)
    BY <2>7 DEF Plain
  <2>9. Surplus(n.conns[id]) = Surplus(mgr.conns[id]) + 1
    BY SMT, <2>4, <2>7 DEF less
  <2>10. msg \in Message /\ msg.what = "DISCONNECT" /\ msg.id = id
    <3>1. "DISCONNECT" \in Reports
      BY DEF Reports
    <3> QED
      BY <2>3, <3>1, <1>ReportTypes
  <2> HIDE DEF msg
  <2>11. \A i \in DOMAIN mgr.conns :
           /\ msg.what = "DISCONNECT" /\ msg.id = i => Surplus(n.conns[i]) = Surplus(mgr.conns[i]) + 1
           /\ ~(msg.what = "DISCONNECT" /\ msg.id = i) => Surplus(n.conns[i]) = Surplus(mgr.conns[i])
    BY <2>7, <2>9, <2>10
  <2>12. msg.what \in {"RESET", "RESUME", "DISCONNECT"} /\ (msg.what # "RESET" => msg.id \in DOMAIN thread)
    BY <2>0, <2>1, <2>10 DEF Told, Known
  <2>13. btOn' \in BOOLEAN /\ events' \in 0..MaxEvents
    BY <2>1 DEF Inv, Typed
  <2> QED
    BY <2>1, <2>6, <2>8, <2>10, <2>11, <2>12, <2>13, <1>TellStep
<1>PeerMessageStep. \A id :
                       /\ Inv
                       /\ PeerMessage(id)
                      => Inv'
  <2>ReceivedStep. \A id \in DOMAIN mgr.conns, link \in Connection, delta \in Int :
                      /\ Inv
                      /\ link.rc = mgr.conns[id].link.rc + delta
                      /\ mgr.conns[id].peers + delta \in Nat
                      /\ ReceivedControlData(id, link, delta)
                      /\ UNCHANGED <<called, thread, btOn, faults>>
                      /\ events' \in 0..MaxEvents
                     => Inv'
    <3>PeersIs. \A m \in Manager : \A id \in DOMAIN m.conns, link \in Connection, delta \in Int :
                   /\ link.rc = m.conns[id].link.rc + delta
                   /\ m.conns[id].peers + delta \in Nat
                  => /\ Plain(Repeered(m, id, link, delta), m)
                     /\ \A i \in DOMAIN m.conns : Surplus(Repeered(m, id, link, delta).conns[i]) = Surplus(m.conns[i])
      <4>PeersAre. ASSUME NEW m \in Manager, NEW id \in DOMAIN m.conns, NEW delta \in Int, m.conns[id].peers + delta \in Nat
                   PROVE  LET n == [m EXCEPT !.conns[id].peers = m.conns[id].peers + delta]
                          IN  /\ n \in Manager /\ SameEnds(n, m)
                              /\ n.conns[id].unclaimed = m.conns[id].unclaimed
                              /\ Surplus(n.conns[id]) = Surplus(m.conns[id]) - delta
                              /\ \A i \in DOMAIN m.conns : i # id => n.conns[i] = m.conns[i]
                              /\ SameDevices(n, m) /\ SameTimes(n, m) /\ n.answers = m.answers /\ n.msgs = m.msgs
        <5> USE <4>PeersAre
        <5> DEFINE k == m.conns[id].peers + delta
                   c == [m.conns[id] EXCEPT !.peers = k]
                   n == [m EXCEPT !.conns = [m.conns EXCEPT ![id] = c]]
        <5> HIDE DEF k
        <5>1. [m EXCEPT !.conns[id].peers = k] = n
          BY SMT DEF Manager
        <5>2. m.conns[id] \in Saved
          BY DomainIs
        <5>3. k \in Nat
          BY DEF k
        <5>4. /\ c \in Saved /\ c.link = m.conns[id].link /\ c.addr = m.conns[id].addr
              /\ c.side = m.conns[id].side /\ c.mine = m.conns[id].mine
              /\ c.peers = k /\ c.unclaimed = m.conns[id].unclaimed
          BY <5>2, <5>3 DEF Saved
        <5> HIDE DEF c
        <5>5. /\ n \in Manager /\ DOMAIN n.conns = DOMAIN m.conns /\ n.conns[id] = c
              /\ \A i \in DOMAIN m.conns : i # id => n.conns[i] = m.conns[i]
              /\ SameDevices(n, m) /\ SameTimes(n, m) /\ n.answers = m.answers /\ n.msgs = m.msgs
          <6>1. c \in Saved
            BY <5>4
          <6> QED
            BY ZenonT(60), <6>1, ConnBecomes
        <5>6. /\ m.conns[id].mine \in Nat /\ m.conns[id].peers \in Nat /\ m.conns[id].unclaimed \in Int
              /\ m.conns[id].link.rc \in Int
          BY <5>2, SavedTypes
        <5>7. Surplus(c) = Surplus(m.conns[id]) - delta
          BY SMT, <5>4, <5>6 DEF Surplus, k
        <5> HIDE DEF n
        <5>8. SameEnds(n, m)
          BY <5>4, <5>5 DEF SameEnds
        <5>9. n.conns[id].unclaimed = m.conns[id].unclaimed /\ Surplus(n.conns[id]) = Surplus(m.conns[id]) - delta
          BY <5>4, <5>5, <5>7
        <5>10. [m EXCEPT !.conns[id].peers = m.conns[id].peers + delta] = n
          BY <5>1 DEF k
        <5> QED
          BY <5>5, <5>8, <5>9, <5>10
      <4> TAKE m \in Manager
      <4> TAKE id \in DOMAIN m.conns, link \in Connection, delta \in Int
      <4> HAVE /\ link.rc = m.conns[id].link.rc + delta
               /\ m.conns[id].peers + delta \in Nat
      <4> DEFINE a == SetLink(m, id, link)
                 n == [a EXCEPT !.conns[id].peers = a.conns[id].peers + delta]
      <4>1. Relinked(a, m, id, delta)
        BY RelinkIs
      <4>2. a.conns[id].peers = m.conns[id].peers
        BY SetLinkIs
      <4>3. Repeered(m, id, link, delta) = n
        BY DEF Repeered
      <4> HIDE DEF a
      <4>4. /\ a \in Manager /\ SameEnds(a, m)
            /\ \A i \in DOMAIN m.conns : i # id => a.conns[i] = m.conns[i]
            /\ \A i \in DOMAIN m.conns : a.conns[i].unclaimed = m.conns[i].unclaimed
            /\ Surplus(a.conns[id]) = Surplus(m.conns[id]) + delta
            /\ SameDevices(a, m) /\ SameTimes(a, m) /\ a.answers = m.answers /\ a.msgs = m.msgs
        BY <4>1 DEF Relinked
      <4>5. id \in DOMAIN a.conns /\ a.conns[id].peers + delta \in Nat
        BY <4>2, <4>4 DEF SameEnds
      <4>6. a \in Manager
        BY <4>4
      <4>7. /\ n \in Manager /\ SameEnds(n, a)
            /\ n.conns[id].unclaimed = a.conns[id].unclaimed
            /\ Surplus(n.conns[id]) = Surplus(a.conns[id]) - delta
            /\ \A i \in DOMAIN a.conns : i # id => n.conns[i] = a.conns[i]
            /\ SameDevices(n, a) /\ SameTimes(n, a) /\ n.answers = a.answers /\ n.msgs = a.msgs
        BY <4>5, <4>6, <4>PeersAre
      <4> HIDE DEF n
      <4>8. Surplus(m.conns[id]) \in Int
        <5>1. m.conns[id] \in Saved
          BY DomainIs
        <5> QED
          BY <5>1, SavedTypes
      <4>9. Surplus(n.conns[id]) = Surplus(m.conns[id])
        BY SMT, <4>4, <4>7, <4>8
      <4>10. SameEnds(n, m) /\ SameDevices(n, m) /\ SameTimes(n, m)
        BY ZenonT(60), <4>4, <4>7 DEF SameEnds, SameDevices, SameTimes
      <4>11. DOMAIN a.conns = DOMAIN m.conns
        BY <4>4 DEF SameEnds
      <4>12. \A i \in DOMAIN m.conns : /\ n.conns[i].unclaimed = m.conns[i].unclaimed
                                       /\ Surplus(n.conns[i]) = Surplus(m.conns[i])
        BY <4>4, <4>7, <4>9, <4>11
      <4>13. Plain(n, m)
        BY <4>4, <4>7, <4>10, <4>12 DEF Plain
      <4> QED
        BY <4>3, <4>12, <4>13
    <3> TAKE id \in DOMAIN mgr.conns, link \in Connection, delta \in Int
    <3> HAVE /\ Inv
             /\ link.rc = mgr.conns[id].link.rc + delta
             /\ mgr.conns[id].peers + delta \in Nat
             /\ ReceivedControlData(id, link, delta)
             /\ UNCHANGED <<called, thread, btOn, faults>>
             /\ events' \in 0..MaxEvents
    <3> DEFINE n == Repeered(mgr, id, link, delta)
               msg == [what |-> "RESUME", id |-> id]
    <3>1. mgr' = n \/ mgr' = Post(n, msg)
      BY DEF ReceivedControlData, Repeered
    <3>2. mgr \in Manager /\ btOn \in BOOLEAN /\ Told(mgr, thread)
      BY DEF Inv, Typed, Good, Core
    <3>3. Plain(n, mgr) /\ \A i \in DOMAIN mgr.conns : Surplus(n.conns[i]) = Surplus(mgr.conns[i])
      BY <3>2, <3>PeersIs
    <3> HIDE DEF n
    <3>4. id \in Id /\ id \in DOMAIN thread
      <4>1. mgr.conns \in Conns
        BY <3>2, FieldTypes
      <4> QED
        BY <3>2, <4>1 DEF Conns, Told, Known
    <3>5. msg \in Message /\ msg.what = "RESUME" /\ msg.id = id
      <4>1. "RESUME" \in Reports
        BY DEF Reports
      <4> QED
        BY <3>4, <4>1, <1>ReportTypes
    <3> HIDE DEF msg
    <3>6. called' = called /\ thread' = thread /\ btOn' \in BOOLEAN /\ faults' = faults
      BY <3>2
    <3>7. CASE mgr' = Post(n, msg)
      <4>1. \A i \in DOMAIN mgr.conns :
              /\ msg.what = "DISCONNECT" /\ msg.id = i => Surplus(n.conns[i]) = Surplus(mgr.conns[i]) + 1
              /\ ~(msg.what = "DISCONNECT" /\ msg.id = i) => Surplus(n.conns[i]) = Surplus(mgr.conns[i])
        BY <3>3, <3>5
      <4>2. msg.what \in {"RESET", "RESUME", "DISCONNECT"} /\ (msg.what # "RESET" => msg.id \in DOMAIN thread)
        BY <3>4, <3>5
      <4> QED
        BY <3>3, <3>5, <3>6, <3>7, <4>1, <4>2, <1>TellStep
    <3>8. CASE mgr' = n
      <4>1. /\ thread' \in Seq(ThreadState) /\ Further(thread', thread)
            /\ \A j \in DOMAIN thread : thread[j] \in {"connecting", "open"} => thread'[j] \in {"connecting", "open"}
        BY <3>6, <1>StillThreads
      <4>2. Plain(mgr', mgr) /\ \A i \in DOMAIN mgr.conns : Surplus(mgr'.conns[i]) = Surplus(mgr.conns[i])
        BY <3>3, <3>8
      <4> QED
        BY <3>6, <4>1, <4>2, <1>QuietStep
    <3> QED
      BY <3>1, <3>7, <3>8
  <2> TAKE id
  <2> HAVE /\ Inv
           /\ PeerMessage(id)
  <2> DEFINE c == mgr.conns[id].link
  <2>1. /\ id \in DOMAIN mgr.conns /\ events < MaxEvents /\ events' = events + 1
        /\ UNCHANGED <<called, thread, btOn, faults>>
    BY DEF PeerMessage
  <2>2. events' \in 0..MaxEvents
    BY <2>1, <1>OneMore DEF Inv
  <2>3. mgr.conns[id] \in Saved
    <3>1. mgr.conns \in Conns
      BY <1>Here, FieldTypes
    <3> QED
      BY <2>1, <3>1 DEF Conns
  <2>4. c \in Connection /\ mgr.conns[id].peers \in Nat /\ c.rc \in Int
    BY <2>3, SavedTypes
  <2>5. ASSUME NEW delta \in {-1, 1}, NEW peerRc \in {0, 1}, mgr.conns[id].peers + delta >= 0,
               ReceivedControlData(id, NotifyReferenceRequest(c, delta, peerRc), delta)
        PROVE  Inv'
    <3> DEFINE link == NotifyReferenceRequest(c, delta, peerRc)
    <3>1. delta \in Int /\ peerRc \in Int /\ mgr.conns[id].peers + delta \in Nat
      BY SMT, <2>4, <2>5
    <3>2. link \in Connection /\ link.rc = c.rc + delta
      <4> HIDE DEF c
      <4> QED
        BY ZenonT(60), <2>4, <3>1, LinkTypes
    <3>3. ReceivedControlData(id, link, delta)
      BY <2>5
    <3> HIDE DEF link
    <3> QED
      BY <2>1, <2>2, <3>1, <3>2, <3>3, <2>ReceivedStep
  <2>6. ASSUME ReceivedControlData(id, NotifyReferenceResponse(c, 1), 0) PROVE Inv'
    <3> DEFINE link == NotifyReferenceResponse(c, 1)
               zero == 0
    <3>1. 1 \in Int /\ zero \in Int /\ mgr.conns[id].peers + zero \in Nat /\ c.rc = c.rc + zero
      BY SMT, <2>4
    <3>2. ReceivedControlData(id, link, zero)
      BY <2>6
    <3> HIDE DEF zero
    <3>3. link \in Connection /\ link.rc = c.rc
      <4> HIDE DEF c
      <4> QED
        BY <2>4, <3>1, LinkTypes
    <3> HIDE DEF link
    <3>4. link.rc = mgr.conns[id].link.rc + zero
      BY <3>1, <3>3
    <3> QED
      BY <2>1, <2>2, <3>1, <3>2, <3>3, <3>4, <2>ReceivedStep
  <2>7. \/ \E delta \in {-1, 1}, peerRc \in {0, 1} :
             /\ mgr.conns[id].peers + delta >= 0
             /\ ReceivedControlData(id, NotifyReferenceRequest(c, delta, peerRc), delta)
        \/ ReceivedControlData(id, NotifyReferenceResponse(c, 1), 0)
    BY DEF PeerMessage
  <2> QED
    BY <2>5, <2>6, <2>7
<1>ConnectDeviceStep. \A r \in Req, addr \in Addr :
                         /\ Inv
                         /\ ConnectDevice(r, addr)
                        => Inv'
  <2>OnceAsk. ASSUME NEW m, NEW n, NEW C, NEW msg, NEW r \in Req, Once(m, C, {}), r \notin C, Posted(n, m, msg),
                     msg.what = "CONNECT_REQUEST", msg.req = r, SameDevices(n, m), n.answers = m.answers
              PROVE  Once(n, C \cup {r}, {})
    <3> USE <2>OnceAsk
    <3> DEFINE k == Len(m.msgs) + 1
    <3> HIDE DEF k
    <3>1. /\ k \notin DOMAIN m.msgs /\ DOMAIN n.msgs = DOMAIN m.msgs \cup {k} /\ n.msgs[k] = msg
          /\ \A i \in DOMAIN m.msgs : n.msgs[i] = m.msgs[i]
      BY DEF Posted, k
    <3>2. \A i \in DOMAIN m.msgs : \A q : Asks(n, i, q) <=> Asks(m, i, q)
      BY <3>1 DEF Asks
    <3>3. \A q : Asks(n, k, q) <=> q = r
      BY <3>1 DEF Asks
    <3>4. n.waitings = m.waitings /\ n.connecting = m.connecting
      BY DEF SameDevices
    <3> SUFFICES ASSUME NEW q \in Req
                 PROVE  AskedOnce(n, q) /\ WaitedOnce(n, q) /\ Placed(n, C \cup {r}, {}, q)
      BY DEF Once
    <3>5. AskedOnce(m, q) /\ WaitedOnce(m, q) /\ Placed(m, C, {}, q)
      BY DEF Once
    <3>6. WaitedOnce(n, q) /\ (Waited(n, q) <=> Waited(m, q)) /\ (Dialed(n, q) <=> Dialed(m, q))
      BY <3>4, <3>5 DEF WaitedOnce, Waited, Dialed
    <3>7. Asked(n, q) <=> Asked(m, q) \/ q = r
      <4>1. Asked(m, q) => Asked(n, q)
        BY <3>1, <3>2 DEF Asked
      <4>2. q = r => Asked(n, q)
        BY <3>1, <3>3 DEF Asked
      <4>3. ASSUME Asked(n, q) PROVE Asked(m, q) \/ q = r
        <5>1. PICK i \in DOMAIN n.msgs : Asks(n, i, q)
          BY <4>3 DEF Asked
        <5> QED
          BY <3>1, <3>2, <3>3, <5>1 DEF Asked
      <4> QED
        BY <4>1, <4>2, <4>3
    <3>8. CASE q # r
      <4>1. Asked(n, q) <=> Asked(m, q)
        BY <3>7, <3>8
      <4>2. Placed(n, C \cup {r}, {}, q)
        BY <3>5, <3>6, <3>8, <4>1 DEF Placed
      <4>3. AskedOnce(n, q)
        BY <3>1, <3>2, <3>3, <3>5, <3>8 DEF AskedOnce
      <4> QED
        BY <3>6, <4>2, <4>3
    <3>9. CASE q = r
      <4>1. ~Asked(m, q) /\ ~Waited(m, q) /\ ~Dialed(m, q) /\ m.answers[q] = 0
        BY <3>5, <3>9 DEF Placed
      <4>2. Placed(n, C \cup {r}, {}, q)
        BY <3>6, <3>7, <3>9, <4>1 DEF Placed
      <4>3. \A i \in DOMAIN n.msgs : Asks(n, i, q) => i = k
        BY <3>1, <3>2, <4>1 DEF Asked
      <4>4. AskedOnce(n, q)
        BY <4>3 DEF AskedOnce
      <4> QED
        BY <3>6, <4>2, <4>4
    <3> QED
      BY <3>8, <3>9
  <2> TAKE r \in Req, addr \in Addr
  <2> HAVE /\ Inv
           /\ ConnectDevice(r, addr)
  <2> DEFINE msg == [what |-> "CONNECT_REQUEST", req |-> r, addr |-> addr]
             p == Post(mgr, msg)
  <2>1. /\ r \notin called /\ called' = called \cup {r} /\ mgr' = p
        /\ thread' = thread /\ btOn' = btOn /\ events' = events /\ faults' = faults
    BY DEF ConnectDevice
  <2>2. /\ mgr \in Manager /\ thread \in Seq(ThreadState) /\ called \subseteq Req
        /\ Told(mgr, thread) /\ Tally(mgr, thread) /\ Once(mgr, called, {})
    BY DEF Inv, Typed, Good, Core
  <2>3. msg \in Message /\ msg.what = "CONNECT_REQUEST" /\ msg.req = r
    BY SMT DEF Message
  <2> HIDE DEF msg
  <2>4. /\ p \in Manager /\ p.msgs = Append(mgr.msgs, msg)
        /\ SameDevices(p, mgr) /\ SameTimes(p, mgr) /\ p.conns = mgr.conns /\ p.answers = mgr.answers
    BY <2>2, <2>3, PostIs
  <2> HIDE DEF p
  <2>5. Posted(p, mgr, msg)
    BY <2>2, <2>4, <1>PostedIs
  <2>6. Once(p, called \cup {r}, {})
    BY <2>1, <2>2, <2>3, <2>4, <2>5, <2>OnceAsk
  <2>7. SameEnds(p, mgr) /\ SameButTimeouts(p, mgr)
    BY <2>4, SameConns, SameTimesAre
  <2>8. msg.what \notin Reports
    BY <2>3 DEF Reports
  <2>9. Told(p, thread)
    <3>1. MayPost(mgr, thread, msg)
      BY <2>3, <2>8 DEF MayPost
    <3>2. \A f : f.what = "FAIL" => (f \in p.timers <=> f \in mgr.timers)
      BY <2>7 DEF SameButTimeouts
    <3> QED
      BY SMT, <2>2, <2>5, <2>7, <3>1, <3>2, <1>ToldPost
  <2>10. Tally(p, thread)
    <3>1. \A i \in DOMAIN mgr.conns : p.conns[i].unclaimed = mgr.conns[i].unclaimed
      BY <2>4
    <3>2. \A i \in DOMAIN mgr.conns :
            /\ msg.what = "DISCONNECT" /\ msg.id = i => Surplus(p.conns[i]) = Surplus(mgr.conns[i]) + 1
            /\ ~(msg.what = "DISCONNECT" /\ msg.id = i) => Surplus(p.conns[i]) = Surplus(mgr.conns[i])
      BY <2>3, <2>4
    <3>3. msg.what = "SUCCESS" => mgr.conns[msg.id].unclaimed = 1
      BY <2>3
    <3> QED
      BY SMT, <2>2, <2>5, <2>7, <3>1, <3>2, <3>3, <1>TallyPost
  <2>11. /\ \A what, id : Sent(p, what, id) <=> Sent(mgr, what, id) \/ (msg.what = what /\ msg.id = id)
         /\ Schedules(mgr) => Schedules(p)
    BY SMT, <2>5, <1>PostedSame
  <2>12. Aside(p, mgr)
    <3>1. \A f \in mgr.timers : f.what = "TIMEOUT" => f \in p.timers
      BY <2>4 DEF SameTimes
    <3> QED
      BY <2>4, <2>7, <2>11, <3>1 DEF Aside, SameButTimeouts
  <2>13. ASSUME NEW j \in DOMAIN mgr.conns, Due(mgr, thread, j) PROVE Due(p, thread, j)
    <3>1. \A what : Sent(mgr, what, j) => Sent(p, what, j)
      BY <2>11
    <3>2. DelayedFail(mgr, j) => DelayedFail(p, j)
      BY <2>4 DEF DelayedFail, SameTimes
    <3> QED
      BY <2>13, <3>1, <3>2 DEF Due, Failed
  <2>14. /\ Aside(mgr', mgr) /\ Once(mgr', called', {}) /\ Told(mgr', thread') /\ Tally(mgr', thread')
         /\ \A j \in DOMAIN mgr.conns :
              mgr.conns[j].side = "client" /\ Due(mgr, thread, j) => Due(mgr', thread', j)
    BY <2>1, <2>6, <2>9, <2>10, <2>12, <2>13
  <2>15. thread' \in Seq(ThreadState) /\ called' \subseteq Req /\ btOn' \in BOOLEAN /\ events' \in 0..MaxEvents
    BY <2>1, <2>2 DEF Inv, Typed
  <2> QED
    BY <2>1, <2>14, <2>15, <1>AsideInv
<1>ServerSocketStep. ASSUME Inv, NEW addr \in Addr, ServerSocket(addr) PROVE Inv'
  <2> USE <1>ServerSocketStep
  <2> DEFINE id == Len(thread) + 1
             side == "server"
             t == Append(thread, "open")
             p == SaveConnection(mgr, id, addr, side)
  <2>1. /\ id \in Id /\ events < MaxEvents /\ events' = events + 1 /\ thread' = t /\ mgr' = p
        /\ called' = called /\ btOn' = btOn /\ faults' = faults
    BY DEF ServerSocket
  <2>2. /\ mgr \in Manager /\ thread \in Seq(ThreadState) /\ Good(mgr, thread, called, {})
        /\ Shape(mgr) /\ Told(mgr, thread) /\ Tally(mgr, thread) /\ Once(mgr, called, {})
        /\ Matched(mgr) /\ Timed(mgr, thread)
    BY DEF Inv, Typed, Good, Core
  <2>3. /\ t \in Seq(ThreadState) /\ id \in DOMAIN t /\ t[id] = "open" /\ id \notin DOMAIN thread
        /\ \A i \in DOMAIN thread : i \in DOMAIN t /\ t[i] = thread[i]
        /\ \A i \in DOMAIN t : i \in DOMAIN thread \/ i = id
    <3> DEFINE open == "open"
    <3>1. open \in ThreadState
      BY DEF ThreadState
    <3> HIDE DEF open
    <3>2. LET u == Append(thread, open)
          IN  /\ u \in Seq(ThreadState) /\ id \in DOMAIN u /\ u[id] = open /\ id \notin DOMAIN thread
              /\ \A i \in DOMAIN thread : i \in DOMAIN u /\ u[i] = thread[i] /\ i # id
              /\ \A i \in DOMAIN u : i \in DOMAIN thread \/ i = id
      BY <2>2, <3>1, ThreadAdded
    <3> QED
      BY <3>2 DEF open
  <2>4. id \notin DOMAIN mgr.conns
    BY <2>2, <2>3 DEF Told, Known
  <2>5. side \in {"client", "server"} /\ side # "client"
    OBVIOUS
  <2> HIDE DEF id, side, t
  <2>6. /\ p \in Manager /\ DOMAIN p.conns = DOMAIN mgr.conns \cup {id}
        /\ \A i \in DOMAIN mgr.conns : p.conns[i] = mgr.conns[i]
        /\ p.conns[id].side = side /\ Surplus(p.conns[id]) = 0
        /\ SameDevices(p, mgr) /\ SameTimes(p, mgr) /\ p.answers = mgr.answers /\ p.msgs = mgr.msgs
    <3>1. mgr \in Manager /\ id \in Id /\ id \notin DOMAIN mgr.conns /\ side \in {"client", "server"}
      BY <2>1, <2>2, <2>4, <2>5
    <3> QED
      BY SMT, <3>1, SaveConnectionIs
  <2> HIDE DEF p
  <2>7. SameButTimeouts(p, mgr) /\ Grown(p, mgr) /\ SameAsks(p, mgr)
    BY <2>6, SameTimesAre, GrownSame, GrownAsks
  <2>8. Told(p, t)
    <3>1. \A f : f.what = "FAIL" => (f \in p.timers <=> f \in mgr.timers)
      BY <2>7 DEF SameButTimeouts
    <3>2. t[id] = "connecting" => p.conns[id].side = "client"
      BY <2>3
    <3> QED
      BY SMT, <2>2, <2>3, <2>6, <3>1, <3>2, ToldNew
  <2>9. Tally(p, t)
    <3>1. p.conns[id].side = "client" => p.conns[id].unclaimed = 1
      BY <2>5, <2>6
    <3>2. \A i \in DOMAIN thread : t[i] = thread[i]
      BY <2>3
    <3> QED
      BY SMT, <2>2, <2>3, <2>6, <3>1, <3>2, TallyNew
  <2>10. p.waitings = mgr.waitings /\ p.connecting = mgr.connecting /\ p.state = mgr.state
    BY <2>6 DEF SameDevices
  <2>11. Shape(p)
    <3>1. p.conns[id].side = "client" => ~Connected(mgr, p.conns[id].addr)
      BY <2>5, <2>6
    <3>2. \A i \in DOMAIN mgr.waitings : mgr.waitings[i].addr # p.connecting.addr
      BY <2>2, <2>10 DEF Shape, OneDevice
    <3>3. SameUnpends(p, mgr)
      BY <2>7 DEF SameButTimeouts
    <3> QED
      BY <2>2, <2>4, <2>6, <2>10, <3>1, <3>2, <3>3, ShapeNew
  <2>12. Once(p, called, {})
    <3>1. SameReqs(p, mgr) /\ p.connecting.reqs = mgr.connecting.reqs
      BY <2>10 DEF SameReqs
    <3> QED
      BY <2>2, <2>6, <2>7, <3>1, OnceFrame
  <2>13. Timed(p, t)
    <3> SUFFICES ASSUME p.state = "CONNECTING" PROVE \E j \in Id : Attempt(p, t, j)
      BY DEF Timed
    <3>1. PICK j \in Id : Attempt(mgr, thread, j)
      BY <2>2, <2>10 DEF Timed
    <3>2. j \in DOMAIN mgr.conns
      BY <3>1 DEF Attempt
    <3>3. /\ j \in DOMAIN p.conns /\ p.conns[j].side = mgr.conns[j].side /\ p.conns[j].addr = mgr.conns[j].addr
          /\ p.connecting.addr = mgr.connecting.addr
      BY <2>6, <2>10, <3>2
    <3>4. \A f \in mgr.timers : f.what \in {"TIMEOUT", "FAIL"} /\ f.id = j => f \in p.timers
      BY <2>6 DEF SameTimes
    <3>5. Attempt(p, thread, j)
      BY <2>7, <3>1, <3>3, <3>4, AttemptFrame
    <3>6. t[j] = thread[j]
      BY <2>2, <2>3, <3>2 DEF Told, Known
    <3>7. Attempt(p, t, j)
      BY <3>5, <3>6 DEF Attempt, Due
    <3> QED
      BY <3>7
  <2>14. Matched(p)
    BY <2>2, <2>10 DEF Matched
  <2>15. Good(p, t, called, {})
    BY <2>8, <2>9, <2>11, <2>12, <2>13, <2>14 DEF Good, Core
  <2>16. Awake(mgr) => Awake(p)
    <3>1. Schedules(mgr) => Schedules(p)
      BY <2>6 DEF Schedules
    <3> QED
      BY <2>6, <3>1, AwakeFrame
  <2>17. events' \in 0..MaxEvents
    BY <2>1, <1>OneMore DEF Inv
  <2>18. Typed'
    BY <2>1, <2>3, <2>6, <2>17 DEF Inv, Typed
  <2>19. Good(mgr', thread', called', {})
    BY <2>1, <2>15
  <2>20. faults' = 0 => Awake(mgr')
    BY <2>1, <2>16 DEF Inv
  <2> QED
    BY <2>18, <2>19, <2>20 DEF Inv
<1>ConnectionInv. ASSUME Inv, NEW id \in DOMAIN thread,
                         \/ NegotiationTimeout(id) \/ RetryNotifyReference(id) \/ PeerMessage(id) \/ ClientSocket(id)
                         \/ ClientNoSocket(id) \/ Announce(id) \/ NoticeClosed(id) \/ ReadFails(id)
                         \/ DisconnectDevice(id) \/ DisconnectDeviceNow(id)
                  PROVE  Inv'
  <2> USE <1>ConnectionInv
  <2>1. CASE NegotiationTimeout(id)
    BY <2>1, <1>NegotiationTimeoutStep
  <2>2. CASE RetryNotifyReference(id)
    BY <2>2, <1>RetryNotifyReferenceStep
  <2>3. CASE PeerMessage(id)
    BY <2>3, <1>PeerMessageStep
  <2>4. CASE ClientSocket(id)
    BY <2>4, <1>ClientSocketStep
  <2>5. CASE ClientNoSocket(id)
    BY <2>5, <1>ClientNoSocketStep
  <2>6. CASE Announce(id)
    BY <2>6, <1>AnnounceStep
  <2>7. CASE NoticeClosed(id)
    <3>1. StopReading(id) /\ events' \in 0..MaxEvents
      BY <2>7 DEF NoticeClosed, Inv, Typed
    <3> QED
      BY <3>1, <1>StopReadingStep
  <2>8. CASE ReadFails(id)
    <3>1. StopReading(id) /\ events' \in 0..MaxEvents
      BY <2>8, <1>OneMore DEF ReadFails, Inv
    <3> QED
      BY <3>1, <1>StopReadingStep
  <2>9. CASE DisconnectDevice(id)
    BY <2>9, <1>DisconnectDeviceStep
  <2>10. CASE DisconnectDeviceNow(id)
    BY <2>10, <1>DisconnectDeviceNowStep
  <2> QED
    BY <2>1, <2>2, <2>3, <2>4, <2>5, <2>6, <2>7, <2>8, <2>9, <2>10
<1> HAVE /\ Inv
         /\ \/ BtStateChanged
            \/ \E r \in Req, addr \in Addr : ConnectDevice(r, addr)
            \/ \E addr \in Addr : ServerSocket(addr) \/ PendDeviceConnection(addr)
            \/ \E id \in DOMAIN thread :
                 \/ NegotiationTimeout(id) \/ RetryNotifyReference(id) \/ PeerMessage(id) \/ ClientSocket(id)
                 \/ ClientNoSocket(id) \/ Announce(id) \/ NoticeClosed(id) \/ ReadFails(id)
                 \/ DisconnectDevice(id) \/ DisconnectDeviceNow(id)
<1>1. CASE BtStateChanged
  BY <1>1, <1>BtStateChangedStep
<1>2. ASSUME NEW r \in Req, NEW addr \in Addr, ConnectDevice(r, addr) PROVE Inv'
  BY <1>2, <1>ConnectDeviceStep
<1>3. ASSUME NEW addr \in Addr, ServerSocket(addr) PROVE Inv'
  BY <1>3, <1>ServerSocketStep
<1>4. ASSUME NEW addr \in Addr, PendDeviceConnection(addr) PROVE Inv'
  BY <1>4, <1>PendDeviceConnectionStep
<1>5. ASSUME NEW id \in DOMAIN thread,
             \/ NegotiationTimeout(id) \/ RetryNotifyReference(id) \/ PeerMessage(id) \/ ClientSocket(id)
             \/ ClientNoSocket(id) \/ Announce(id) \/ NoticeClosed(id) \/ ReadFails(id)
             \/ DisconnectDevice(id) \/ DisconnectDeviceNow(id)
      PROVE  Inv'
  BY <1>5, <1>ConnectionInv
<1> QED
  BY <1>1, <1>2, <1>3, <1>4, <1>5

-----------------------------------------------------------------------------
(***************************************************************************)
(* The delayed messages of the looper.                                     *)
(***************************************************************************)
LEMMA SetWaitings ==
  ASSUME NEW m \in Manager, NEW x \in Seq(Device)
  PROVE  LET n == [m EXCEPT !.waitings = x]
         IN  /\ n \in Manager /\ n.waitings = x
             /\ n.state = m.state /\ n.connecting = m.connecting /\ n.pendings = m.pendings /\ n.conns = m.conns
             /\ n.msgs = m.msgs /\ n.timers = m.timers /\ n.answers = m.answers /\ n.passed = m.passed
BY DEF Manager

LEMMA FirstIs ==
  ASSUME SetLaws,
         NEW I \in SUBSET (Nat \ {0})
  PROVE  /\ First(I) = 0 => I = {}
         /\ First(I) # 0 => First(I) \in I
<1>1. I # {} => First(I) \in I
  BY DEF First, SetLaws
<1>2. I = {} => First(I) = 0
  BY DEF First
<1> QED
  BY <1>1, <1>2

\* The device of an address in waitings.
LEMMA WaitingIs ==
  ASSUME SetLaws,
         NEW m \in Manager, NEW addr
  PROVE  /\ Waiting(m, addr) = 0 => \A i \in DOMAIN m.waitings : m.waitings[i].addr # addr
         /\ Waiting(m, addr) # 0 => /\ Waiting(m, addr) \in DOMAIN m.waitings
                                    /\ m.waitings[Waiting(m, addr)].addr = addr
<1> DEFINE I == {i \in DOMAIN m.waitings : m.waitings[i].addr = addr}
<1>1. DOMAIN m.waitings \in SUBSET (Nat \ {0})
  <2>1. m.waitings \in Seq(Device)
    BY FieldTypes
  <2> QED
    BY <2>1, SMT
<1>2. I \in SUBSET (Nat \ {0})
  BY <1>1
<1>3. Waiting(m, addr) = First(I)
  BY DEF Waiting
<1>4. First(I) = 0 => I = {}
  BY <1>2, FirstIs
<1>5. First(I) # 0 => First(I) \in I
  BY <1>2, FirstIs
<1> QED
  BY <1>3, <1>4, <1>5

LEMMA NextMsgType == NextMsg \in Message
BY DEF NextMsg, Message

LEMMA NextCmdIs ==
  ASSUME NEW m \in Manager
  PROVE  LET n == NextCmd(m)
         IN  /\ n \in Manager /\ n.msgs = Append(m.msgs, NextMsg)
             /\ SameDevices(n, m) /\ SameTimes(n, m) /\ n.conns = m.conns /\ n.answers = m.answers
BY PostIs, NextMsgType DEF NextCmd, NextMsg

LEMMA CancelIs ==
  ASSUME NEW m \in Manager, NEW t
  PROVE  LET n == Cancel(m, t)
         IN  /\ n \in Manager /\ n.timers = m.timers \ {t} /\ n.pendings = m.pendings
             /\ SameDevices(n, m) /\ n.conns = m.conns /\ n.answers = m.answers /\ n.msgs = m.msgs
<1>1. m.timers \ {t} \in SUBSET Timer
  BY FieldTypes
<1> QED
  BY <1>1, SetTimers DEF Cancel, SameDevices

\* One waiting device becomes d.
LEMMA DeviceBecomes ==
  ASSUME NEW m \in Manager, NEW w \in DOMAIN m.waitings, NEW d \in Device
  PROVE  LET n == [m EXCEPT !.waitings = [m.waitings EXCEPT ![w] = d]]
         IN  /\ n \in Manager /\ DOMAIN n.waitings = DOMAIN m.waitings /\ n.waitings[w] = d
             /\ \A i \in DOMAIN m.waitings : i # w => n.waitings[i] = m.waitings[i]
             /\ n.state = m.state /\ n.connecting = m.connecting /\ n.passed = m.passed
             /\ SameTimes(n, m) /\ n.conns = m.conns /\ n.answers = m.answers /\ n.msgs = m.msgs
<1> DEFINE t == [m.waitings EXCEPT ![w] = d]
           n == [m EXCEPT !.waitings = t]
<1>1. m.waitings \in Seq(Device)
  BY FieldTypes
<1>2. /\ t \in Seq(Device) /\ DOMAIN t = DOMAIN m.waitings /\ t[w] = d
      /\ \A i \in DOMAIN m.waitings : i # w => t[i] = m.waitings[i]
  BY SMT, <1>1
<1> HIDE DEF t
<1>3. /\ n \in Manager /\ n.waitings = t
      /\ n.state = m.state /\ n.connecting = m.connecting /\ n.passed = m.passed
      /\ SameTimes(n, m) /\ n.conns = m.conns /\ n.answers = m.answers /\ n.msgs = m.msgs
  BY ZenonT(60), <1>2, SetWaitings DEF SameTimes
<1> HIDE DEF n
<1> QED
  BY <1>2, <1>3 DEF n, t

LEMMA RescheduleIs ==
  ASSUME SetLaws,
         NEW m \in Manager, OneDevice(m), NEW addr
  PROVE  LET n == Reschedule(m, addr)
         IN  /\ n \in Manager /\ DOMAIN n.waitings = DOMAIN m.waitings
             /\ \A i \in DOMAIN m.waitings :
                  /\ n.waitings[i].addr = m.waitings[i].addr /\ n.waitings[i].reqs = m.waitings[i].reqs
                  /\ m.waitings[i].addr # addr => n.waitings[i] = m.waitings[i]
                  /\ m.waitings[i].addr = addr => n.waitings[i].state = "WAIT_SCHEDULE"
             /\ n.state = m.state /\ n.connecting = m.connecting /\ n.passed = m.passed
             /\ SameTimes(n, m) /\ n.conns = m.conns /\ n.answers = m.answers /\ n.msgs = m.msgs
<1> DEFINE w == Waiting(m, addr)
<1>1. CASE w = 0
  <2>1. Reschedule(m, addr) = m
    BY <1>1 DEF Reschedule
  <2>2. \A i \in DOMAIN m.waitings : m.waitings[i].addr # addr
    BY <1>1, WaitingIs
  <2> QED
    BY <2>1, <2>2 DEF SameTimes
<1>2. CASE w # 0
  <2>1. w \in DOMAIN m.waitings /\ m.waitings[w].addr = addr /\ m.waitings[w] \in Device
    BY <1>2, WaitingIs, DevicesTyped
  <2> DEFINE d == [m.waitings[w] EXCEPT !.state = "WAIT_SCHEDULE"]
             n == [m EXCEPT !.waitings = [m.waitings EXCEPT ![w] = d]]
  <2>2. Reschedule(m, addr) = [m EXCEPT !.waitings[w].state = "WAIT_SCHEDULE"]
    BY <1>2 DEF Reschedule
  <2> HIDE DEF w
  <2>3. [m EXCEPT !.waitings[w].state = "WAIT_SCHEDULE"] = n
    BY SMT, <2>1 DEF Manager
  <2>4. d \in Device /\ d.addr = addr /\ d.reqs = m.waitings[w].reqs /\ d.state = "WAIT_SCHEDULE"
    BY <2>1, DeviceTypes
  <2> HIDE DEF d
  <2>5. /\ n \in Manager /\ DOMAIN n.waitings = DOMAIN m.waitings /\ n.waitings[w] = d
        /\ \A i \in DOMAIN m.waitings : i # w => n.waitings[i] = m.waitings[i]
        /\ n.state = m.state /\ n.connecting = m.connecting /\ n.passed = m.passed
        /\ SameTimes(n, m) /\ n.conns = m.conns /\ n.answers = m.answers /\ n.msgs = m.msgs
    BY ZenonT(60), <2>1, <2>4, DeviceBecomes
  <2> HIDE DEF n
  <2>6. \A i \in DOMAIN m.waitings : i # w => m.waitings[i].addr # addr
    BY <2>1 DEF OneDevice
  <2>7. \A i \in DOMAIN m.waitings :
          /\ n.waitings[i].addr = m.waitings[i].addr /\ n.waitings[i].reqs = m.waitings[i].reqs
          /\ m.waitings[i].addr # addr => n.waitings[i] = m.waitings[i]
          /\ m.waitings[i].addr = addr => n.waitings[i].state = "WAIT_SCHEDULE"
    BY <2>1, <2>4, <2>5, <2>6
  <2> QED
    BY <2>2, <2>3, <2>5, <2>7
<1> QED
  BY <1>1, <1>2

LEMMA GrownBy ==
  ASSUME NEW m \in Manager, NEW n, n.msgs = Append(m.msgs, NextMsg)
  PROVE  Grown(n, m) /\ Schedules(n)
<1>1. m.msgs \in Seq(Message) /\ NextMsg \in Message
  BY FieldTypes, NextMsgType
<1> DEFINE k == Len(m.msgs) + 1
<1>2. /\ k \in DOMAIN n.msgs /\ n.msgs[k] = NextMsg
      /\ \A i \in DOMAIN m.msgs : i \in DOMAIN n.msgs /\ n.msgs[i] = m.msgs[i]
      /\ \A i \in DOMAIN n.msgs : i \in DOMAIN m.msgs \/ i = k
  BY SMT, <1>1
<1> HIDE DEF k
<1>3. NextMsg.what = "NEXT_CMD"
  BY DEF NextMsg
<1> QED
  BY <1>2, <1>3 DEF Grown, Schedules

LEMMA UnpendIs ==
  ASSUME SetLaws,
         NEW m \in Manager, Shape(m), NEW addr \in Addr
  PROVE  LET n == UnpendConnection(m, addr)
         IN  /\ n \in Manager /\ Shape(n) /\ n.conns = m.conns /\ n.answers = m.answers
             /\ n.state = m.state /\ n.connecting = m.connecting /\ n.passed = m.passed
             /\ SameReqs(n, m) /\ SameAlarms(n, m) /\ Grown(n, m)
             /\ Schedules(n) \/ n.waitings = m.waitings
<1> DEFINE u == Unpend(addr)
           k == Cancel(m, u)
           x == k.pendings \ {addr}
           l == [k EXCEPT !.pendings = x]
           q == Reschedule(l, addr)
           n == UnpendConnection(m, addr)
<1>1. n = IF addr \in k.pendings THEN NextCmd(q) ELSE k
  BY DEF UnpendConnection, Unpend
<1>2. /\ k \in Manager /\ k.timers = m.timers \ {u} /\ k.pendings = m.pendings
      /\ SameDevices(k, m) /\ k.conns = m.conns /\ k.answers = m.answers /\ k.msgs = m.msgs
  BY CancelIs
<1> HIDE DEF k
<1>3. SameAlarms(k, m)
  BY <1>2, UnpendApart DEF SameAlarms, u
<1>4. \A a : a # addr => (Unpend(a) \in k.timers <=> Unpend(a) \in m.timers)
  BY <1>2, UnpendApart DEF u
<1>5. Unpend(addr) \notin k.timers
  BY <1>2 DEF u
<1>6. \A a \in Addr : a \in m.pendings <=> Unpend(a) \in m.timers
  BY DEF Shape, Wakers
<1>7. CASE addr \notin k.pendings
  <2>1. n = k
    BY <1>1, <1>7
  <2>2. SameUnpends(k, m)
    BY <1>2, <1>4, <1>5, <1>6, <1>7 DEF SameUnpends
  <2>3. SameEnds(k, m) /\ SameReqs(k, m) /\ k.waitings = m.waitings /\ k.connecting = m.connecting
    BY <1>2 DEF SameEnds, SameReqs, SameDevices
  <2>4. Shape(k)
    BY <2>2, <2>3, ShapeFrame
  <2>5. Grown(k, m)
    BY <1>2, GrownSame
  <2> QED
    BY <1>2, <1>3, <2>1, <2>3, <2>4, <2>5 DEF SameDevices, n
<1>8. CASE addr \in k.pendings
  <2>1. n = NextCmd(q)
    BY <1>1, <1>8
  <2>2. /\ l \in Manager /\ l.pendings = m.pendings \ {addr} /\ l.timers = k.timers
        /\ l.waitings = m.waitings /\ l.connecting = m.connecting /\ l.conns = m.conns
        /\ l.state = m.state /\ l.passed = m.passed /\ l.answers = m.answers /\ l.msgs = m.msgs
    <3>1. x \in SUBSET Addr
      BY <1>2, FieldTypes
    <3> HIDE DEF x
    <3>2. /\ l \in Manager /\ l.pendings = x /\ l.timers = k.timers
          /\ l.waitings = k.waitings /\ l.connecting = k.connecting /\ l.conns = k.conns
          /\ l.state = k.state /\ l.passed = k.passed /\ l.answers = k.answers /\ l.msgs = k.msgs
      <4>1. k \in Manager
        BY <1>2
      <4> QED
        BY <3>1, <4>1, SetPendings
    <3> QED
      BY <1>2, <3>2 DEF SameDevices, x
  <2> HIDE DEF l
  <2>3. OneDevice(m) /\ OneClient(m)
    BY DEF Shape
  <2>4. OneDevice(l)
    BY <2>2, <2>3 DEF OneDevice
  <2>5. /\ q \in Manager /\ DOMAIN q.waitings = DOMAIN l.waitings
        /\ \A i \in DOMAIN l.waitings :
             /\ q.waitings[i].addr = l.waitings[i].addr /\ q.waitings[i].reqs = l.waitings[i].reqs
             /\ l.waitings[i].addr # addr => q.waitings[i] = l.waitings[i]
             /\ l.waitings[i].addr = addr => q.waitings[i].state = "WAIT_SCHEDULE"
        /\ q.state = l.state /\ q.connecting = l.connecting /\ q.passed = l.passed
        /\ SameTimes(q, l) /\ q.conns = l.conns /\ q.answers = l.answers /\ q.msgs = l.msgs
    BY <2>2, <2>4, RescheduleIs
  <2> HIDE DEF q
  <2>6. /\ n \in Manager /\ n.msgs = Append(q.msgs, NextMsg)
        /\ SameDevices(n, q) /\ SameTimes(n, q) /\ n.conns = q.conns /\ n.answers = q.answers
    BY <2>1, <2>5, NextCmdIs
  <2> HIDE DEF n
  <2>7. /\ n.state = m.state /\ n.connecting = m.connecting /\ n.passed = m.passed /\ n.conns = m.conns
        /\ n.answers = m.answers /\ n.msgs = Append(m.msgs, NextMsg) /\ n.waitings = q.waitings
        /\ n.pendings = m.pendings \ {addr} /\ n.timers = k.timers
    BY <2>2, <2>5, <2>6 DEF SameDevices, SameTimes
  <2>8. Grown(n, m) /\ Schedules(n)
    BY <2>7, GrownBy
  <2>9. SameReqs(n, m) /\ SameAlarms(n, m)
    BY <1>3, <2>2, <2>5, <2>7 DEF SameReqs, SameAlarms
  <2>10. OneDevice(n)
    <3>1. /\ \A i, j \in DOMAIN m.waitings : m.waitings[i].addr = m.waitings[j].addr => i = j
          /\ \A i \in DOMAIN m.waitings : m.waitings[i].addr # m.connecting.addr
      BY <2>3 DEF OneDevice
    <3>2. /\ DOMAIN n.waitings = DOMAIN m.waitings
          /\ \A i \in DOMAIN m.waitings : n.waitings[i].addr = m.waitings[i].addr
      BY <2>2, <2>5, <2>7
    <3> QED
      BY <2>7, <3>1, <3>2 DEF OneDevice
  <2>11. OneClient(n)
    BY <2>3, <2>7 DEF OneClient
  <2>12. \A a \in Addr : a \in n.pendings <=> Unpend(a) \in n.timers
    BY <1>4, <1>5, <1>6, <2>7
  <2>13. ASSUME NEW i \in DOMAIN m.waitings
         PROVE  HasWaker(n, n.waitings[i].addr, n.waitings[i].state)
    <3>1. HasWaker(m, m.waitings[i].addr, m.waitings[i].state)
      BY DEF Shape, Wakers
    <3>2. CASE m.waitings[i].addr = addr
      BY <2>2, <2>5, <2>7, <3>2 DEF HasWaker
    <3>3. CASE m.waitings[i].addr # addr
      <4>1. n.waitings[i] = m.waitings[i]
        BY <2>2, <2>5, <2>7, <3>3
      <4> QED
        BY <2>7, <3>1, <3>3, <4>1 DEF HasWaker, Connected
    <3> QED
      BY <3>2, <3>3
  <2>14. Wakers(n)
    BY <2>2, <2>5, <2>7, <2>12, <2>13 DEF Wakers
  <2> QED
    BY <2>6, <2>7, <2>8, <2>9, <2>10, <2>11, <2>14 DEF Shape, n
<1> QED
  BY <1>7, <1>8

LEMMA AwakeSoon ==
  ASSUME NEW n, Schedules(n) \/ n.state = "CONNECTING" \/ ~Waits(n, {"WAIT_SCHEDULE"})
  PROVE  Awake(n)
BY DEF Awake

LEMMA UnpendSound ==
  ASSUME SetLaws
  PROVE  \A m \in Manager : \A th, C : \A addr \in Addr :
           Good(m, th, C, {})
           => Sound(UnpendConnection(m, addr), m, th, C)
<1>CoreUnpend. ASSUME NEW m \in Manager, NEW th, NEW C, NEW addr \in Addr, Core(m, th, C, {})
               PROVE  Core(UnpendConnection(m, addr), th, C, {})
  <2> USE <1>CoreUnpend
  <2> DEFINE n == UnpendConnection(m, addr)
  <2>0. Shape(m)
    BY DEF Core
  <2>1. /\ Shape(n) /\ n.conns = m.conns /\ n.answers = m.answers /\ n.connecting = m.connecting
        /\ SameReqs(n, m) /\ SameAlarms(n, m) /\ Grown(n, m)
    BY <2>0, UnpendIs
  <2> HIDE DEF n
  <2>2. Once(n, C, {})
    BY <2>1, GrownAsks, OnceFrame DEF Core
  <2>3. \A t \in n.timers : t.what = "FAIL" => t \in m.timers
    BY <2>1 DEF SameAlarms
  <2>4. /\ DOMAIN n.conns \subseteq DOMAIN m.conns
        /\ \A i \in DOMAIN n.conns : /\ n.conns[i].side = m.conns[i].side
                                     /\ Surplus(n.conns[i]) = Surplus(m.conns[i])
                                     /\ n.conns[i].unclaimed = m.conns[i].unclaimed
        /\ \A i \in DOMAIN m.conns : i \notin DOMAIN n.conns => th[i] = "done" /\ ~Sent(m, "SUCCESS", i)
    BY <2>1
  <2> QED
    BY <2>1, <2>2, <2>3, <2>4, CoreKeeps DEF n
<1> TAKE m \in Manager
<1> TAKE th, C
<1> TAKE addr \in Addr
<1> HAVE Good(m, th, C, {})
<1> DEFINE n == UnpendConnection(m, addr)
<1>0. Shape(m) /\ Core(m, th, C, {}) /\ Matched(m) /\ Timed(m, th)
  BY DEF Good, Core
<1>1. /\ n \in Manager /\ Shape(n) /\ n.conns = m.conns /\ n.answers = m.answers
      /\ n.state = m.state /\ n.connecting = m.connecting /\ n.passed = m.passed
      /\ SameReqs(n, m) /\ SameAlarms(n, m) /\ Grown(n, m)
      /\ Schedules(n) \/ n.waitings = m.waitings
  BY <1>0, UnpendIs
<1>2. Core(n, th, C, {})
  BY <1>0, <1>CoreUnpend
<1> HIDE DEF n
<1>3. Matched(n) /\ Timed(n, th)
  <2>1. Matched(n) /\ SameEnds(n, m)
    BY <1>0, <1>1, SameConns DEF Matched
  <2> QED
    BY <1>0, <1>1, <2>1, TimedSame
<1>4. Awake(m) => Awake(n)
  <2>1. CASE Schedules(n)
    BY <2>1, AwakeSoon
  <2>2. CASE n.waitings = m.waitings
    BY <1>1, <2>2, GrownKeeps, AwakeFrame DEF SameDevices
  <2> QED
    BY <1>1, <2>1, <2>2
<1> QED
  BY <1>1, <1>2, <1>3, <1>4 DEF Sound, Good, n

LEMMA StaysHere ==
  ASSUME Inv, Sound(mgr', mgr, thread, called), UNCHANGED <<called, thread, btOn, events, faults>>
  PROVE  Inv'
<1>1. called' = called /\ thread' = thread /\ btOn' = btOn /\ events' = events /\ faults' = faults
  OBVIOUS
<1>2. btOn \in BOOLEAN /\ events \in 0..MaxEvents
  BY DEF Inv, Typed
<1> QED
  BY <1>1, <1>2, Stays

LEMMA UnpendStep ==
  ASSUME SetLaws
  PROVE  /\ Inv
         /\ HandleUnpend
        => Inv'
<1>SameTimers. ASSUME NEW c \in Manager, NEW x, c.timers = x PROVE [c EXCEPT !.timers = x] = c
  <2> USE <1>SameTimers
  <2>1. "timers" \in DOMAIN c /\ c = [i \in DOMAIN c |-> c[i]]
    BY SMT DEF Manager
  <2>2. [c EXCEPT !.timers = x] = [i \in DOMAIN c |-> IF i = "timers" THEN x ELSE c[i]]
    OBVIOUS
  <2>3. [i \in DOMAIN c |-> IF i = "timers" THEN x ELSE c[i]] = [i \in DOMAIN c |-> c[i]]
    OBVIOUS
  <2> QED
    BY <2>1, <2>2, <2>3
<1> HAVE /\ Inv
         /\ HandleUnpend
<1>1. PICK t \in mgr.timers :
        /\ t.what = "UNPEND"
        /\ mgr' = UnpendConnection(Cancel(mgr, t), t.addr)
        /\ UNCHANGED <<called, thread, btOn, events, faults>>
  BY DEF HandleUnpend
<1>2. mgr \in Manager /\ Good(mgr, thread, called, {})
  BY DEF Inv, Typed
<1>3. t \in Timer
  BY <1>2, FieldTypes
<1> DEFINE addr == t.addr
           u == [what |-> "UNPEND", addr |-> addr]
<1>4. addr \in Addr /\ t = u
  BY SMT, <1>1, <1>3 DEF Timer
<1> HIDE DEF addr
<1>5. Cancel(Cancel(mgr, u), u) = Cancel(mgr, u)
  <2> DEFINE x == mgr.timers \ {u}
             c == [mgr EXCEPT !.timers = x]
  <2>1. Cancel(mgr, u) = c
    BY DEF Cancel
  <2>2. c.timers = x
    BY <1>2 DEF Manager
  <2>3. x \ {u} = x
    OBVIOUS
  <2> HIDE DEF x
  <2>4. [c EXCEPT !.timers = x] = c
    <3>1. c \in Manager
      <4>1. Cancel(mgr, u) \in Manager
        <5> HIDE DEF u
        <5> QED
          BY <1>2, CancelIs
      <4> HIDE DEF c
      <4> QED
        BY <2>1, <4>1
    <3> QED
      BY <2>2, <3>1, <1>SameTimers
  <2> HIDE DEF c
  <2>5. Cancel(c, u) = [c EXCEPT !.timers = c.timers \ {u}]
    BY DEF Cancel
  <2> HIDE DEF u
  <2> QED
    BY <2>1, <2>2, <2>3, <2>4, <2>5
<1>6. UnpendConnection(Cancel(mgr, u), addr) = UnpendConnection(mgr, addr)
  BY <1>5 DEF UnpendConnection
<1>7. Sound(UnpendConnection(mgr, addr), mgr, thread, called)
  BY <1>2, <1>4, UnpendSound
<1>8. Sound(mgr', mgr, thread, called)
  BY <1>1, <1>4, <1>6, <1>7 DEF addr
<1> QED
  BY <1>1, <1>8, StaysHere

LEMMA SetConnecting ==
  ASSUME NEW m \in Manager, NEW x \in Device \cup {None}
  PROVE  LET n == [m EXCEPT !.connecting = x]
         IN  /\ n \in Manager /\ n.connecting = x
             /\ n.state = m.state /\ n.waitings = m.waitings /\ n.pendings = m.pendings /\ n.conns = m.conns
             /\ n.msgs = m.msgs /\ n.timers = m.timers /\ n.answers = m.answers /\ n.passed = m.passed
BY DEF Manager

LEMMA AnsweredIs ==
  \A m \in Manager : \A reqs :
    LET n == Answered(m, reqs)
    IN  /\ n \in Manager
        /\ \A r \in Req : n.answers[r] = IF r \in reqs THEN m.answers[r] + 1 ELSE m.answers[r]
        /\ SameDevices(n, m) /\ SameTimes(n, m) /\ n.conns = m.conns /\ n.msgs = m.msgs
<1>SetAnswers. ASSUME NEW m \in Manager, NEW x \in [Req -> Nat]
               PROVE  LET n == [m EXCEPT !.answers = x]
                      IN  /\ n \in Manager /\ n.answers = x
                          /\ n.state = m.state /\ n.connecting = m.connecting /\ n.waitings = m.waitings /\ n.pendings = m.pendings
                          /\ n.conns = m.conns /\ n.msgs = m.msgs /\ n.timers = m.timers /\ n.passed = m.passed
  BY DEF Manager
<1> TAKE m \in Manager
<1> TAKE reqs
<1> DEFINE f == [r \in Req |-> IF r \in reqs THEN m.answers[r] + 1 ELSE m.answers[r]]
           n == [m EXCEPT !.answers = f]
<1>1. Answered(m, reqs) = n
  BY DEF Answered
<1>2. m.answers \in [Req -> Nat]
  BY FieldTypes
<1>3. f \in [Req -> Nat] /\ \A r \in Req : f[r] = IF r \in reqs THEN m.answers[r] + 1 ELSE m.answers[r]
  BY SMT, <1>2
<1> HIDE DEF f
<1>4. /\ n \in Manager /\ n.answers = f
      /\ SameDevices(n, m) /\ SameTimes(n, m) /\ n.conns = m.conns /\ n.msgs = m.msgs
  BY <1>3, <1>SetAnswers DEF SameDevices, SameTimes
<1> HIDE DEF n
<1> QED
  BY <1>1, <1>3, <1>4

\* The transition to the available state posts a NEXT_CMD.
LEMMA TransitionIs ==
  \A m \in Manager, target \in {"AVAILABLE", "CONNECTING"} :
    LET n == TransitionToState(m, target)
    IN  /\ n \in Manager /\ n.state = target
        /\ n.connecting = m.connecting /\ n.waitings = m.waitings /\ n.passed = m.passed
        /\ SameTimes(n, m) /\ n.conns = m.conns /\ n.answers = m.answers
        /\ IF m.state # target /\ target = "AVAILABLE"
           THEN n.msgs = Append(m.msgs, NextMsg) ELSE n.msgs = m.msgs
<1>SetState. ASSUME NEW m \in Manager, NEW x \in {"AVAILABLE", "CONNECTING"}
             PROVE  LET n == [m EXCEPT !.state = x]
                    IN  /\ n \in Manager /\ n.state = x
                        /\ n.connecting = m.connecting /\ n.waitings = m.waitings /\ n.pendings = m.pendings /\ n.conns = m.conns
                        /\ n.msgs = m.msgs /\ n.timers = m.timers /\ n.answers = m.answers /\ n.passed = m.passed
  BY DEF Manager
<1> TAKE m \in Manager, target \in {"AVAILABLE", "CONNECTING"}
<1> DEFINE k == [m EXCEPT !.state = target]
<1>1. /\ k \in Manager /\ k.state = target /\ k.connecting = m.connecting /\ k.waitings = m.waitings
      /\ k.passed = m.passed /\ SameTimes(k, m) /\ k.conns = m.conns /\ k.answers = m.answers
      /\ k.msgs = m.msgs
  BY <1>SetState DEF SameTimes
<1>2. TransitionToState(m, target) = IF m.state = target THEN m
                                     ELSE IF target = "AVAILABLE" THEN NextCmd(k) ELSE k
  BY DEF TransitionToState
<1> HIDE DEF k
<1>3. CASE m.state = target
  BY <1>2, <1>3 DEF SameTimes
<1>4. CASE m.state # target /\ target = "AVAILABLE"
  <2> DEFINE n == NextCmd(k)
  <2>1. /\ n \in Manager /\ n.msgs = Append(k.msgs, NextMsg)
        /\ SameDevices(n, k) /\ SameTimes(n, k) /\ n.conns = k.conns /\ n.answers = k.answers
    BY <1>1, NextCmdIs
  <2>2. TransitionToState(m, target) = n
    BY <1>2, <1>4
  <2> HIDE DEF n
  <2> QED
    BY <1>1, <1>4, <2>1, <2>2 DEF SameTimes, SameDevices
<1>5. CASE m.state # target /\ target # "AVAILABLE"
  BY <1>1, <1>2, <1>5
<1> QED
  BY <1>3, <1>4, <1>5

\* The requests in hand are answered.
LEMMA OnceAnswered ==
  ASSUME NEW m, NEW n, NEW C, NEW H, Once(m, C, H), SameAsks(n, m), SameReqs(n, m),
         n.connecting.reqs = m.connecting.reqs,
         \A r \in Req : n.answers[r] = IF r \in H THEN m.answers[r] + 1 ELSE m.answers[r]
  PROVE  Once(n, C, {})
<1> SUFFICES ASSUME NEW r \in Req PROVE AskedOnce(n, r) /\ WaitedOnce(n, r) /\ Placed(n, C, {}, r)
  BY DEF Once
<1>1. AskedOnce(m, r) /\ WaitedOnce(m, r) /\ Placed(m, C, H, r)
  BY DEF Once
<1>2. AskedOnce(n, r) /\ (Asked(n, r) <=> Asked(m, r))
  BY <1>1 DEF AskedOnce, Asked, SameAsks
<1>3. WaitedOnce(n, r) /\ (Waited(n, r) <=> Waited(m, r))
  BY <1>1 DEF WaitedOnce, Waited, SameReqs
<1>4. Dialed(n, r) <=> Dialed(m, r)
  BY DEF Dialed
<1>5. CASE r \in H
  <2>1. n.answers[r] = m.answers[r] + 1 /\ m.answers[r] = 0
    BY <1>1, <1>5 DEF Placed
  <2>2. n.answers[r] = 1 /\ n.answers[r] # 0
    BY <2>1, SMT
  <2>3. ~Asked(m, r) /\ ~Waited(m, r) /\ ~Dialed(m, r) /\ r \in C
    BY <1>1, <1>5 DEF Placed
  <2> QED
    BY <1>2, <1>3, <1>4, <2>2, <2>3 DEF Placed
<1>6. CASE r \notin H
  <2>1. n.answers[r] = m.answers[r]
    BY <1>6
  <2> QED
    BY <1>1, <1>2, <1>3, <1>4, <1>6, <2>1 DEF Placed
<1> QED
  BY <1>5, <1>6

LEMMA NoneIs == None.addr = "none" /\ None.reqs = {} /\ None.state = "INIT"
BY DEF None, DeviceOf

\* The messages, delayed messages and connections are the same.
LEMMA CoreSameConns ==
  ASSUME NEW m, NEW n, NEW th, NEW C, NEW H, NEW J, Core(m, th, C, H), Shape(n), Once(n, C, J),
         n.conns = m.conns, n.msgs = m.msgs, SameTimes(n, m)
  PROVE  Core(n, th, C, J)
<1>1. Grown(n, m)
  BY GrownSame
<1>2. \A t \in n.timers : t.what = "FAIL" => t \in m.timers
  BY DEF SameTimes
<1>3. /\ DOMAIN n.conns \subseteq DOMAIN m.conns
      /\ \A i \in DOMAIN n.conns : /\ n.conns[i].side = m.conns[i].side
                                   /\ Surplus(n.conns[i]) = Surplus(m.conns[i])
                                   /\ n.conns[i].unclaimed = m.conns[i].unclaimed
      /\ \A i \in DOMAIN m.conns : i \notin DOMAIN n.conns => th[i] = "done" /\ ~Sent(m, "SUCCESS", i)
  OBVIOUS
<1> QED
  BY <1>1, <1>2, <1>3, CoreKeeps

\* The requests in hand are answered.
LEMMA CoreAnswered ==
  ASSUME NEW m, NEW n, NEW th, NEW C, NEW H, Core(m, th, C, H), SameEnds(n, m), SameCounts(n, m),
         SameButTimeouts(n, m), Grown(n, m), n.waitings = m.waitings, n.connecting = m.connecting,
         \A r \in Req : n.answers[r] = IF r \in H THEN m.answers[r] + 1 ELSE m.answers[r]
  PROVE  Core(n, th, C, {})
<1>1. SameReqs(n, m) /\ SameAsks(n, m)
  BY GrownAsks DEF SameReqs
<1>2. n.connecting.reqs = m.connecting.reqs /\ Once(m, C, H)
  BY DEF Core
<1>3. Once(n, C, {})
  BY <1>1, <1>2, OnceAnswered
<1> QED
  BY <1>3, CoreFrame

LEMMA CoreFree ==
  \A m \in Manager : \A th, C :
    Core(m, th, C, {})
    => LET n == [m EXCEPT !.connecting = None]
       IN  n \in Manager /\ Core(n, th, C, m.connecting.reqs)
\* The requests of the connecting device are taken in hand.
<1>OnceFree. ASSUME NEW m, NEW n, NEW C, Once(m, C, {}), n.connecting = None,
                    n.msgs = m.msgs, n.waitings = m.waitings, n.answers = m.answers
             PROVE  Once(n, C, m.connecting.reqs)
  <2> USE <1>OnceFree
  <2> SUFFICES ASSUME NEW r \in Req
               PROVE  AskedOnce(n, r) /\ WaitedOnce(n, r) /\ Placed(n, C, m.connecting.reqs, r)
    BY DEF Once
  <2>1. AskedOnce(m, r) /\ WaitedOnce(m, r) /\ Placed(m, C, {}, r)
    BY DEF Once
  <2>2. AskedOnce(n, r) /\ (Asked(n, r) <=> Asked(m, r))
    BY <2>1 DEF AskedOnce, Asked, Asks
  <2>3. WaitedOnce(n, r) /\ (Waited(n, r) <=> Waited(m, r))
    BY <2>1 DEF WaitedOnce, Waited
  <2>4. ~Dialed(n, r) /\ (Dialed(m, r) <=> r \in m.connecting.reqs)
    BY NoneIs DEF Dialed
  <2>5. n.answers[r] = m.answers[r] /\ r \notin {}
    OBVIOUS
  <2> QED
    BY <2>1, <2>2, <2>3, <2>4, <2>5 DEF Placed
<1> TAKE m \in Manager
<1> TAKE th, C
<1> HAVE Core(m, th, C, {})
<1> DEFINE n == [m EXCEPT !.connecting = None]
<1>1. None \in Device \cup {None}
  OBVIOUS
<1>2. /\ n \in Manager /\ n.connecting = None
      /\ n.state = m.state /\ n.waitings = m.waitings /\ n.pendings = m.pendings /\ n.conns = m.conns
      /\ n.msgs = m.msgs /\ n.timers = m.timers /\ n.answers = m.answers /\ n.passed = m.passed
  BY <1>1, SetConnecting
<1> HIDE DEF n
<1>3. Shape(m) /\ Once(m, C, {})
  BY DEF Core
<1>4. Shape(n)
  <2>1. \A i \in DOMAIN m.waitings : m.waitings[i].addr # None.addr
    <3>1. None.addr = "none" /\ \A i \in DOMAIN m.waitings : m.waitings[i] \in Device
      BY DevicesTyped
    <3>2. \A d \in Device : d.addr # "none"
      BY DeviceTypes
    <3> QED
      BY <3>1, <3>2
  <2>2. OneDevice(n)
    BY <1>2, <1>3, <2>1 DEF Shape, OneDevice
  <2>3. OneClient(n)
    BY <1>2, <1>3 DEF Shape, OneClient
  <2>4. Wakers(n)
    BY <1>2, <1>3 DEF Shape, Wakers, HasWaker, Connected
  <2> QED
    BY <2>2, <2>3, <2>4 DEF Shape
<1>5. Once(n, C, m.connecting.reqs)
  BY <1>2, <1>3, <1>OnceFree
<1>6. SameTimes(n, m)
  BY <1>2 DEF SameTimes
<1>7. Core(n, th, C, m.connecting.reqs)
  BY <1>2, <1>4, <1>5, <1>6, CoreSameConns
<1> QED
  BY <1>2, <1>7 DEF n

\* What TransitionToState("AVAILABLE") does after a connecting device is freed.
LEMMA BackGood ==
  ASSUME NEW m \in Manager, NEW th, NEW C, Core(m, th, C, {}), m.connecting = None, m.state = "CONNECTING"
  PROVE  LET n == TransitionToState(m, "AVAILABLE")
         IN  n \in Manager /\ Good(n, th, C, {}) /\ Awake(n)
<1> DEFINE to == "AVAILABLE"
           n == TransitionToState(m, to)
<1>0. to = "AVAILABLE" /\ to \in {"AVAILABLE", "CONNECTING"}
  OBVIOUS
<1> HIDE DEF to
<1>1. /\ n \in Manager /\ n.state = to
      /\ n.connecting = m.connecting /\ n.waitings = m.waitings /\ n.passed = m.passed
      /\ SameTimes(n, m) /\ n.conns = m.conns /\ n.answers = m.answers
      /\ IF m.state # to /\ to = "AVAILABLE"
         THEN n.msgs = Append(m.msgs, NextMsg) ELSE n.msgs = m.msgs
  BY <1>0, TransitionIs
<1> HIDE DEF n
<1>2. n.msgs = Append(m.msgs, NextMsg)
  BY <1>0, <1>1
<1>3. Grown(n, m) /\ Schedules(n)
  BY <1>2, GrownBy
<1>4. SameEnds(n, m) /\ SameCounts(n, m) /\ SameButTimeouts(n, m)
  BY <1>1, SameConns, SameTimesAre
<1>5. Core(n, th, C, {})
  BY <1>1, <1>3, <1>4, CoreSame
<1>6. Matched(n) /\ Timed(n, th)
  BY <1>0, <1>1 DEF Matched, Timed
<1>7. Awake(n)
  BY <1>3, AwakeSoon
<1>8. n \in Manager /\ Good(n, th, C, {}) /\ Awake(n)
  BY <1>1, <1>5, <1>6, <1>7 DEF Good
<1> QED
  BY <1>8 DEF n, to

LEMMA CancelCore ==
  ASSUME NEW m \in Manager, NEW th, NEW C, NEW t, t.what \in {"FAIL", "TIMEOUT"}, Core(m, th, C, {})
  PROVE  Cancel(m, t) \in Manager /\ Core(Cancel(m, t), th, C, {})
<1> DEFINE n == Cancel(m, t)
<1>1. /\ n \in Manager /\ n.timers = m.timers \ {t} /\ n.pendings = m.pendings
      /\ SameDevices(n, m) /\ n.conns = m.conns /\ n.answers = m.answers /\ n.msgs = m.msgs
  BY CancelIs
<1> HIDE DEF n
<1>2. SameEnds(n, m) /\ SameCounts(n, m) /\ Grown(n, m)
  BY <1>1, SameConns, GrownSame
<1>3. n.waitings = m.waitings /\ n.connecting = m.connecting /\ n.connecting.addr = m.connecting.addr
  BY <1>1 DEF SameDevices
<1>4. Shape(m) /\ Once(m, C, {})
  BY DEF Core
<1>5. SameUnpends(n, m)
  <2>1. \A addr : Unpend(addr) # t
    <3>1. \A addr : Unpend(addr).what = "UNPEND"
      BY SMT DEF Unpend
    <3> QED
      BY <3>1
  <2>2. \A addr : Unpend(addr) \in n.timers <=> Unpend(addr) \in m.timers
    BY <1>1, <2>1
  <2> QED
    BY <1>1, <2>2 DEF SameUnpends
<1>6. Shape(n)
  BY <1>2, <1>3, <1>4, <1>5, ShapeFrame
<1>7. Once(n, C, {})
  <2>1. SameAsks(n, m) /\ SameReqs(n, m) /\ n.connecting.reqs = m.connecting.reqs
    BY <1>2, <1>3, GrownAsks DEF SameReqs
  <2> QED
    BY <1>1, <1>4, <2>1, OnceFrame
<1>8. Core(n, th, C, {})
  <2>1. \A f \in n.timers : f.what = "FAIL" => f \in m.timers
    BY <1>1
  <2>2. /\ DOMAIN n.conns \subseteq DOMAIN m.conns
        /\ \A i \in DOMAIN n.conns : /\ n.conns[i].side = m.conns[i].side
                                     /\ Surplus(n.conns[i]) = Surplus(m.conns[i])
                                     /\ n.conns[i].unclaimed = m.conns[i].unclaimed
        /\ \A i \in DOMAIN m.conns : i \notin DOMAIN n.conns => th[i] = "done" /\ ~Sent(m, "SUCCESS", i)
    BY <1>1
  <2> QED
    BY <1>2, <1>6, <1>7, <2>1, <2>2, CoreKeeps
<1> QED
  BY <1>1, <1>8 DEF n

LEMMA CancelAwake ==
  ASSUME NEW m \in Manager, NEW t
  PROVE  /\ Matched(m) => Matched(Cancel(m, t))
         /\ Awake(m) => Awake(Cancel(m, t))
<1> DEFINE n == Cancel(m, t)
<1>1. /\ n \in Manager /\ n.timers = m.timers \ {t} /\ n.pendings = m.pendings
      /\ SameDevices(n, m) /\ n.conns = m.conns /\ n.answers = m.answers /\ n.msgs = m.msgs
  BY CancelIs
<1> HIDE DEF n
<1>2. Schedules(m) => Schedules(n)
  BY <1>1 DEF Schedules
<1>3. Awake(m) => Awake(n)
  BY <1>1, <1>2, AwakeFrame
<1>4. Matched(m) => Matched(n)
  BY <1>1 DEF SameDevices, Matched
<1> QED
  BY <1>3, <1>4 DEF n

LEMMA ClientConnectTimeoutStep ==
   /\ Inv
   /\ HandleClientConnectTimeout
  => Inv'
<1>TimeoutSound. ASSUME NEW k \in Manager, NEW th, NEW C, NEW t \in k.timers, t.what = "TIMEOUT", Good(k, th, C, {})
                 PROVE  Sound(ClientConnectTimeoutOnConnectingState(Cancel(k, t), t.addr), k, th, C)
  <2> USE <1>TimeoutSound
  <2> DEFINE m == Cancel(k, t)
             d == m.connecting
             a == NotifyFailed(m, d)
             r == [a EXCEPT !.connecting = None]
             s == [m EXCEPT !.connecting = None]
             e == TransitionToState(r, "AVAILABLE")
  <2>1. Core(k, th, C, {}) /\ Matched(k) /\ Timed(k, th)
    BY DEF Good
  <2>2. m \in Manager /\ Core(m, th, C, {})
    <3>1. t.what \in {"FAIL", "TIMEOUT"} /\ k \in Manager /\ Core(k, th, C, {})
      BY <2>1
    <3> QED
      BY SMT, <3>1, CancelCore
  <2>3. Matched(m) /\ (Awake(k) => Awake(m))
    BY <2>1, CancelAwake
  <2>4. /\ m.timers = k.timers \ {t}
        /\ SameDevices(m, k) /\ m.conns = k.conns /\ m.msgs = k.msgs
    BY CancelIs
  <2>5. ClientConnectTimeoutOnConnectingState(m, t.addr)
          = IF m.state = "CONNECTING" /\ m.connecting.addr = t.addr THEN e ELSE m
    BY DEF ClientConnectTimeoutOnConnectingState
  <2> HIDE DEF m
  <2>6. ASSUME m.state = "CONNECTING" PROVE Sound(e, k, th, C)
    <3>1. /\ a \in Manager
          /\ \A q \in Req : a.answers[q] = IF q \in d.reqs THEN m.answers[q] + 1 ELSE m.answers[q]
          /\ SameDevices(a, m) /\ SameTimes(a, m) /\ a.conns = m.conns /\ a.msgs = m.msgs
      <4> HIDE DEF d
      <4>1. m \in Manager
        BY <2>2
      <4>2. a = Answered(m, d.reqs)
        BY DEF NotifyFailed
      <4> DEFINE R == d.reqs
                 b == Answered(m, R)
      <4> HIDE DEF R
      <4>3. /\ b \in Manager
            /\ \A q \in Req : b.answers[q] = IF q \in R THEN m.answers[q] + 1 ELSE m.answers[q]
            /\ SameDevices(b, m) /\ SameTimes(b, m) /\ b.conns = m.conns /\ b.msgs = m.msgs
        BY <4>1, AnsweredIs
      <4>4. a = b
        BY <4>2 DEF R
      <4> HIDE DEF a, b
      <4> QED
        BY <4>3, <4>4 DEF R
    <3> HIDE DEF a
    <3>2. None \in Device \cup {None} /\ a \in Manager /\ m \in Manager
      BY <2>2, <3>1
    <3>3. /\ r \in Manager /\ r.connecting = None
          /\ r.state = a.state /\ r.waitings = a.waitings /\ r.pendings = a.pendings /\ r.conns = a.conns
          /\ r.msgs = a.msgs /\ r.timers = a.timers /\ r.answers = a.answers /\ r.passed = a.passed
      BY <3>2, SetConnecting
    <3>4. /\ s \in Manager /\ s.connecting = None
          /\ s.state = m.state /\ s.waitings = m.waitings /\ s.pendings = m.pendings /\ s.conns = m.conns
          /\ s.msgs = m.msgs /\ s.timers = m.timers /\ s.answers = m.answers /\ s.passed = m.passed
      BY <3>2, SetConnecting
    <3>5. Core(s, th, C, d.reqs)
      BY <2>2, CoreFree
    <3> HIDE DEF r, s, d
    <3>6. r.conns = s.conns /\ r.msgs = s.msgs /\ r.waitings = s.waitings /\ r.connecting = s.connecting
      BY <3>1, <3>3, <3>4 DEF SameDevices
    <3>7. SameTimes(r, s)
      BY <3>1, <3>3, <3>4 DEF SameTimes
    <3>8. SameEnds(r, s) /\ SameCounts(r, s) /\ SameButTimeouts(r, s) /\ Grown(r, s)
      BY <3>6, <3>7, SameConns, SameTimesAre, GrownSame
    <3>9. \A q \in Req : r.answers[q] = IF q \in d.reqs THEN s.answers[q] + 1 ELSE s.answers[q]
      BY <3>1, <3>3, <3>4
    <3>10. Core(r, th, C, {})
      BY ZenonT(60), <3>5, <3>6, <3>8, <3>9, CoreAnswered
    <3>11. r \in Manager /\ r.connecting = None /\ r.state = "CONNECTING"
      BY <2>6, <3>1, <3>3 DEF SameDevices
    <3>12. e \in Manager /\ Good(e, th, C, {}) /\ Awake(e)
      BY <3>10, <3>11, BackGood
    <3> HIDE DEF e
    <3> QED
      BY <3>12 DEF Sound
  <2>7. ASSUME ~(m.state = "CONNECTING" /\ m.connecting.addr = t.addr) PROVE Sound(m, k, th, C)
    <3>0. m.state = k.state /\ m.connecting = k.connecting
      BY <2>4 DEF SameDevices
    <3>1. Timed(m, th)
      <4> SUFFICES ASSUME m.state = "CONNECTING" PROVE \E j \in Id : Attempt(m, th, j)
        BY DEF Timed
      <4>1. PICK j \in Id : Attempt(k, th, j)
        BY <2>1, <3>0 DEF Timed
      <4>2. PICK f \in k.timers : f.what = "TIMEOUT" /\ f.id = j /\ f.addr = k.connecting.addr
        BY <4>1 DEF Attempt
      <4>3. f \in m.timers
        BY <2>4, <2>7, <3>0, <4>2
      <4>4. \A g : g.what = "FAIL" /\ g \in k.timers => g \in m.timers
        BY <2>4
      <4>5. Due(k, th, j) => Due(m, th, j)
        <5>1. \A what : Sent(k, what, j) => Sent(m, what, j)
          BY <2>4 DEF Sent, At
        <5>2. DelayedFail(k, j) => DelayedFail(m, j)
          BY <4>4 DEF DelayedFail
        <5> QED
          BY <5>1, <5>2 DEF Due, Failed
      <4>6. /\ j \in DOMAIN k.conns /\ k.conns[j].side = "client" /\ k.conns[j].addr = k.connecting.addr
            /\ Due(k, th, j)
        BY <4>1 DEF Attempt
      <4>7. Attempt(m, th, j)
        BY <2>4, <3>0, <4>2, <4>3, <4>5, <4>6 DEF Attempt
      <4> QED
        BY <4>7
    <3> QED
      BY <2>2, <2>3, <3>1 DEF Sound, Good
  <2> HIDE DEF e, d
  <2> QED
    BY <2>5, <2>6, <2>7 DEF m
<1> HAVE /\ Inv
         /\ HandleClientConnectTimeout
<1>1. PICK t \in mgr.timers :
        /\ t.what = "TIMEOUT"
        /\ mgr' = ClientConnectTimeoutOnConnectingState(Cancel(mgr, t), t.addr)
        /\ UNCHANGED <<called, thread, btOn, events, faults>>
  BY DEF HandleClientConnectTimeout
<1>2. mgr \in Manager /\ Good(mgr, thread, called, {})
  BY DEF Inv, Typed
<1>3. Sound(mgr', mgr, thread, called)
  BY <1>1, <1>2, <1>TimeoutSound
<1> QED
  BY <1>1, <1>3, StaysHere

LEMMA ConnectionIs ==
  ASSUME SetLaws,
         NEW m \in Manager, NEW addr, NEW side
  PROVE  LET id == GetConnectionByAddr(m, addr, side)
         IN  /\ id = 0 => \A i \in DOMAIN m.conns : ~(m.conns[i].addr = addr /\ m.conns[i].side = side)
             /\ id # 0 => id \in DOMAIN m.conns /\ m.conns[id].addr = addr /\ m.conns[id].side = side
<1> DEFINE id == GetConnectionByAddr(m, addr, side)
           I == {i \in DOMAIN m.conns : m.conns[i].addr = addr /\ m.conns[i].side = side}
<1>1. I \in SUBSET (Nat \ {0})
  BY DomainIs
<1>2. id = First(I)
  BY DEF GetConnectionByAddr
<1>3. First(I) = 0 => I = {}
  BY <1>1, FirstIs
<1>4. First(I) # 0 => First(I) \in I
  BY <1>1, FirstIs
<1> QED
  BY <1>2, <1>3, <1>4

\* Only timeouts of connection id are cancelled.
LEMMA CancelTimeoutIs ==
  ASSUME NEW m \in Manager, NEW id
  PROVE  LET n == CancelTimeout(m, id)
         IN  /\ n \in Manager /\ n.timers \in SUBSET m.timers /\ n.pendings = m.pendings
             /\ \A t \in m.timers : t.what # "TIMEOUT" \/ t.id # id => t \in n.timers
             /\ SameDevices(n, m) /\ n.conns = m.conns /\ n.answers = m.answers /\ n.msgs = m.msgs
<1> DEFINE T == [what : {"TIMEOUT"}, id : {id}, addr : Addr]
<1>1. m.timers \ T \in SUBSET Timer
  BY FieldTypes
<1>2. \A t \in T : t.what = "TIMEOUT" /\ t.id = id
  OBVIOUS
<1>3. CancelTimeout(m, id) = [m EXCEPT !.timers = m.timers \ T]
  BY DEF CancelTimeout
<1> HIDE DEF T
<1> QED
  <2> DEFINE n == [m EXCEPT !.timers = m.timers \ T]
  <2>1. /\ n \in Manager /\ n.timers = m.timers \ T /\ n.pendings = m.pendings
        /\ SameDevices(n, m) /\ n.conns = m.conns /\ n.answers = m.answers /\ n.msgs = m.msgs
    BY <1>1, SetTimers DEF SameDevices
  <2> HIDE DEF n
  <2> QED
    BY <1>2, <1>3, <2>1 DEF n

LEMMA RemoveConnectionIs ==
  ASSUME NEW m \in Manager, NEW id
  PROVE  LET n == RemoveConnection(m, id)
         IN  /\ n \in Manager /\ DOMAIN n.conns = DOMAIN m.conns \ {id}
             /\ \A i \in DOMAIN m.conns : i # id => n.conns[i] = m.conns[i]
             /\ SameDevices(n, m) /\ SameTimes(n, m) /\ n.answers = m.answers /\ n.msgs = m.msgs
<1> DEFINE D == DOMAIN m.conns \ {id}
           f == [i \in D |-> m.conns[i]]
           n == [m EXCEPT !.conns = f]
<1>1. RemoveConnection(m, id) = n
  BY DEF RemoveConnection
<1>2. D \in SUBSET Id /\ f \in [D -> Saved] /\ \A i \in DOMAIN m.conns : i # id => f[i] = m.conns[i]
  BY DomainIs
<1> HIDE DEF f
<1>3. f \in Conns /\ DOMAIN f = D
  BY <1>2 DEF Conns
<1>4. /\ n \in Manager /\ n.conns = f
      /\ SameDevices(n, m) /\ SameTimes(n, m) /\ n.answers = m.answers /\ n.msgs = m.msgs
  BY ZenonT(60), <1>3, SetConns DEF SameDevices, SameTimes
<1> HIDE DEF n
<1> QED
  BY <1>1, <1>2, <1>3, <1>4

\* The three ways of PendingDevice.
MergedIntoConnecting(n, m, d) ==
  /\ n.waitings = m.waitings
  /\ m.connecting \in Device /\ n.connecting \in Device
  /\ m.connecting.addr = d.addr
  /\ n.connecting.reqs = m.connecting.reqs \cup d.reqs

MergedIntoWaiting(n, m, d, w) ==
  /\ n.connecting = m.connecting /\ m.connecting.addr # d.addr
  /\ w \in DOMAIN m.waitings /\ DOMAIN n.waitings = DOMAIN m.waitings
  /\ m.waitings[w].addr = d.addr
  /\ n.waitings[w].addr = d.addr /\ n.waitings[w].state = m.waitings[w].state
  /\ n.waitings[w].reqs = m.waitings[w].reqs \cup d.reqs
  /\ \A i \in DOMAIN m.waitings : i # w => n.waitings[i] = m.waitings[i]

Queues(n, m, d) ==
  /\ n.connecting = m.connecting /\ m.connecting.addr # d.addr
  /\ \A i \in DOMAIN m.waitings : m.waitings[i].addr # d.addr
  /\ n.waitings = Append(m.waitings, d)

LEMMA PendingDeviceIs ==
  ASSUME SetLaws
  PROVE  \A m \in Manager, d \in Device :
           LET n == PendingDevice(m, d)
           IN  /\ n \in Manager
               /\ \/ MergedIntoConnecting(n, m, d)
                  \/ \E w \in DOMAIN m.waitings : MergedIntoWaiting(n, m, d, w)
                  \/ Queues(n, m, d)
               /\ n.connecting.addr = m.connecting.addr /\ (n.connecting = None <=> m.connecting = None)
               /\ n.state = m.state /\ n.passed = m.passed
               /\ SameTimes(n, m) /\ n.conns = m.conns /\ n.answers = m.answers /\ n.msgs = m.msgs
<1>MergedDevice. ASSUME NEW d \in Device, NEW R \in SUBSET Req
                 PROVE  LET e == [d EXCEPT !.reqs = d.reqs \cup R]
                        IN  e \in Device /\ e.addr = d.addr /\ e.state = d.state /\ e.reqs = d.reqs \cup R
  <2>1. d.reqs \cup R \in (SUBSET Req) \ {{}}
    BY DEF Device
  <2> QED
    BY <2>1 DEF Device
<1> TAKE m \in Manager, d \in Device
<1>0. d.addr \in Addr /\ d.reqs \in SUBSET Req
  BY DeviceTypes
<1>1. CASE m.connecting.addr = d.addr
  <2> DEFINE c == [m.connecting EXCEPT !.reqs = m.connecting.reqs \cup d.reqs]
             n == [m EXCEPT !.connecting = c]
  <2>1. m.connecting \in Device
    BY <1>0, <1>1, DevicesTyped
  <2>2. PendingDevice(m, d) = [m EXCEPT !.connecting.reqs = m.connecting.reqs \cup d.reqs]
    BY <1>1 DEF PendingDevice
  <2>3. [m EXCEPT !.connecting.reqs = m.connecting.reqs \cup d.reqs] = n
    BY SMT DEF Manager
  <2>4. c \in Device /\ c.addr = m.connecting.addr /\ c.reqs = m.connecting.reqs \cup d.reqs
    BY <1>0, <2>1, <1>MergedDevice
  <2> HIDE DEF c
  <2>5. /\ n \in Manager /\ n.connecting = c /\ n.waitings = m.waitings /\ n.state = m.state
        /\ n.passed = m.passed /\ SameTimes(n, m) /\ n.conns = m.conns /\ n.answers = m.answers
        /\ n.msgs = m.msgs
    BY <2>4, SetConnecting DEF SameTimes
  <2> HIDE DEF n
  <2>6. MergedIntoConnecting(n, m, d)
    BY <1>1, <2>1, <2>4, <2>5 DEF MergedIntoConnecting
  <2>7. n.connecting # None /\ m.connecting # None /\ n.connecting.addr = m.connecting.addr
    BY <2>1, <2>4, <2>5, DeviceTypes
  <2>8. PendingDevice(m, d) = n
    BY <2>2, <2>3
  <2> QED
    BY <2>5, <2>6, <2>7, <2>8
<1>2. CASE m.connecting.addr # d.addr /\ Waiting(m, d.addr) # 0
  <2> DEFINE w == Waiting(m, d.addr)
             e == [m.waitings[w] EXCEPT !.reqs = m.waitings[w].reqs \cup d.reqs]
             n == [m EXCEPT !.waitings = [m.waitings EXCEPT ![w] = e]]
  <2>1. w \in DOMAIN m.waitings /\ m.waitings[w].addr = d.addr /\ m.waitings[w] \in Device
    BY <1>2, WaitingIs, DevicesTyped
  <2>2. PendingDevice(m, d) = [m EXCEPT !.waitings[w].reqs = m.waitings[w].reqs \cup d.reqs]
    BY <1>2 DEF PendingDevice
  <2> HIDE DEF w
  <2>3. [m EXCEPT !.waitings[w].reqs = m.waitings[w].reqs \cup d.reqs] = n
    BY SMT, <2>1 DEF Manager
  <2>4. /\ e \in Device /\ e.addr = d.addr /\ e.state = m.waitings[w].state
        /\ e.reqs = m.waitings[w].reqs \cup d.reqs
    BY <1>0, <2>1, <1>MergedDevice
  <2> HIDE DEF e
  <2>5. /\ n \in Manager /\ DOMAIN n.waitings = DOMAIN m.waitings /\ n.waitings[w] = e
        /\ \A i \in DOMAIN m.waitings : i # w => n.waitings[i] = m.waitings[i]
        /\ n.state = m.state /\ n.connecting = m.connecting /\ n.passed = m.passed
        /\ SameTimes(n, m) /\ n.conns = m.conns /\ n.answers = m.answers /\ n.msgs = m.msgs
    <3>1. w \in DOMAIN m.waitings /\ e \in Device
      BY <2>1, <2>4
    <3> QED
      BY ZenonT(60), <3>1, DeviceBecomes
  <2> HIDE DEF n
  <2>6. MergedIntoWaiting(n, m, d, w)
    BY <1>2, <2>1, <2>4, <2>5 DEF MergedIntoWaiting
  <2>7. PendingDevice(m, d) = n
    BY <2>2, <2>3
  <2> QED
    BY <2>1, <2>5, <2>6, <2>7
<1>3. CASE m.connecting.addr # d.addr /\ Waiting(m, d.addr) = 0
  <2> DEFINE n == [m EXCEPT !.waitings = Append(m.waitings, d)]
  <2>1. PendingDevice(m, d) = n
    BY <1>3 DEF PendingDevice
  <2>2. Append(m.waitings, d) \in Seq(Device)
    BY FieldTypes, AppendIs
  <2>3. /\ n \in Manager /\ n.waitings = Append(m.waitings, d) /\ n.connecting = m.connecting
        /\ n.state = m.state /\ n.passed = m.passed
        /\ SameTimes(n, m) /\ n.conns = m.conns /\ n.answers = m.answers /\ n.msgs = m.msgs
    BY <2>2, SetWaitings DEF SameTimes
  <2> HIDE DEF n
  <2>4. \A i \in DOMAIN m.waitings : m.waitings[i].addr # d.addr
    BY <1>3, WaitingIs
  <2>5. Queues(n, m, d)
    BY <1>3, <2>3, <2>4 DEF Queues
  <2> QED
    BY <2>1, <2>3, <2>5
<1> QED
  BY <1>1, <1>2, <1>3

\* The reference of the attempt, for the first request of a new connection.
Own(isReuse) == IF isReuse THEN 0 ELSE 1

Notified(n, m, d, id, isReuse) ==
  /\ n \in Manager /\ SameEnds(n, m)
  /\ \A i \in DOMAIN m.conns : i # id => n.conns[i] = m.conns[i]
  /\ n.conns[id].unclaimed = m.conns[id].unclaimed
  /\ Surplus(n.conns[id]) = Surplus(m.conns[id]) - Own(isReuse)
  /\ \A r \in Req : n.answers[r] = IF r \in d.reqs THEN m.answers[r] + 1 ELSE m.answers[r]
  /\ SameDevices(n, m) /\ SameTimes(n, m) /\ n.msgs = m.msgs

LEMMA NotifyConnectedIs ==
  ASSUME SetLaws,
         NEW m \in Manager, NEW id \in DOMAIN m.conns, NEW d \in Device, NEW isReuse
  PROVE  Notified(NotifyConnected(m, d, id, isReuse), m, d, id, isReuse)
<1> DEFINE k == Cardinality(d.reqs)
           one == Own(isReuse)
           added == k - one
           p == [m EXCEPT !.conns[id].mine = m.conns[id].mine + k]
           q == IF added > 0 THEN SetLink(p, id, NotifyUpdateConnectionRc(p.conns[id].link, added)) ELSE p
           n == Answered(q, d.reqs)
<1>1. NotifyConnected(m, d, id, isReuse) = n
  BY DEF NotifyConnected, Own
<1>2. k \in Nat \ {0}
  <2>1. d.reqs \in SUBSET Req /\ d.reqs # {}
    BY DEF Device
  <2>2. IsFiniteSet(d.reqs)
    BY <2>1, FewRequests DEF SetLaws
  <2> QED
    BY <2>1, <2>2 DEF SetLaws
<1> HIDE DEF k
<1>3. one \in {0, 1}
  BY DEF Own
<1>4. added \in Nat /\ added \in Int /\ k \in Int /\ one \in Int /\ (~(added > 0) => added = 0)
  BY SMT, <1>2, <1>3
<1>5. m.conns[id] \in Saved
  BY DomainIs
<1>6. m.conns[id].mine + k \in Nat
  <2>1. m.conns[id].mine \in Nat
    BY <1>5, SavedTypes
  <2> QED
    BY SMT, <1>2, <2>1
<1>7. /\ p \in Manager /\ SameEnds(p, m) /\ p.conns[id].link = m.conns[id].link
      /\ p.conns[id].mine = m.conns[id].mine + k /\ p.conns[id].peers = m.conns[id].peers
      /\ p.conns[id].unclaimed = m.conns[id].unclaimed
      /\ Surplus(p.conns[id]) = Surplus(m.conns[id]) - k
      /\ \A i \in DOMAIN m.conns : i # id => p.conns[i] = m.conns[i]
      /\ SameDevices(p, m) /\ SameTimes(p, m) /\ p.answers = m.answers /\ p.msgs = m.msgs
  BY <1>4, <1>6, MineIs
<1> HIDE DEF p, added, one
<1>8. id \in DOMAIN p.conns /\ DOMAIN p.conns = DOMAIN m.conns
  BY <1>7 DEF SameEnds
<1>9. p.conns[id] \in Saved
  BY <1>7, <1>8, DomainIs
<1>10. /\ p.conns[id].link \in Connection /\ p.conns[id].link.rc \in Int /\ p.conns[id].mine \in Nat
       /\ p.conns[id].peers \in Nat /\ p.conns[id].unclaimed \in Int
  BY <1>9, SavedTypes
<1>11. /\ q \in Manager /\ SameEnds(q, p)
       /\ \A i \in DOMAIN p.conns : i # id => q.conns[i] = p.conns[i]
       /\ q.conns[id].unclaimed = p.conns[id].unclaimed
       /\ Surplus(q.conns[id]) = Surplus(p.conns[id]) + added
       /\ SameDevices(q, p) /\ SameTimes(q, p) /\ q.answers = p.answers /\ q.msgs = p.msgs
  <2>1. CASE added > 0
    <3> DEFINE l == NotifyUpdateConnectionRc(p.conns[id].link, added)
               s == SetLink(p, id, l)
    <3>1. l \in Connection /\ l.rc = p.conns[id].link.rc + added
      BY <1>4, <1>10, LinkTypes
    <3>2. q = s
      BY <2>1
    <3> HIDE DEF l, q
    <3>3. /\ s \in Manager /\ SameEnds(s, p) /\ s.conns[id].link = l
          /\ s.conns[id].mine = p.conns[id].mine /\ s.conns[id].peers = p.conns[id].peers
          /\ \A i \in DOMAIN p.conns : s.conns[i].unclaimed = p.conns[i].unclaimed
          /\ \A i \in DOMAIN p.conns : i # id => s.conns[i] = p.conns[i]
          /\ SameDevices(s, p) /\ SameTimes(s, p) /\ s.answers = p.answers /\ s.msgs = p.msgs
      BY <1>7, <1>8, <3>1, SetLinkIs
    <3> HIDE DEF s
    <3>4. s.conns[id].unclaimed = p.conns[id].unclaimed
      BY <1>8, <3>3
    <3>5. Surplus(s.conns[id]) = Surplus(p.conns[id]) + added
      BY SMT, <1>4, <1>10, <3>1, <3>3, <3>4 DEF Surplus
    <3> QED
      BY <3>2, <3>3, <3>4, <3>5
  <2>2. CASE ~(added > 0)
    <3>1. q = p
      BY <2>2
    <3>2. Surplus(p.conns[id]) = Surplus(p.conns[id]) + added
      <4>1. Surplus(p.conns[id]) \in Int
        BY <1>9, SavedTypes
      <4> QED
        BY SMT, <1>4, <2>2, <4>1
    <3> QED
      BY <1>7, <3>1, <3>2 DEF SameEnds, SameDevices, SameTimes
  <2> QED
    BY <2>1, <2>2
<1> HIDE DEF q
<1>12. /\ n \in Manager
       /\ \A r \in Req : n.answers[r] = IF r \in d.reqs THEN q.answers[r] + 1 ELSE q.answers[r]
       /\ SameDevices(n, q) /\ SameTimes(n, q) /\ n.conns = q.conns /\ n.msgs = q.msgs
  BY <1>11, AnsweredIs
<1> HIDE DEF n
<1>13. Surplus(q.conns[id]) = Surplus(m.conns[id]) - one
  <2>1. Surplus(m.conns[id]) \in Int
    BY <1>5, SavedTypes
  <2> QED
    BY SMT, <1>2, <1>4, <1>7, <1>11, <2>1 DEF added
<1>14. SameEnds(n, m)
  BY <1>7, <1>11, <1>12 DEF SameEnds
<1>15. \A i \in DOMAIN m.conns : i # id => n.conns[i] = m.conns[i]
  BY <1>7, <1>8, <1>11, <1>12
<1>16. SameDevices(n, m) /\ SameTimes(n, m)
  BY <1>7, <1>11, <1>12 DEF SameDevices, SameTimes
<1>17. /\ n.conns[id].unclaimed = m.conns[id].unclaimed /\ n.msgs = m.msgs
       /\ Surplus(n.conns[id]) = Surplus(m.conns[id]) - one
       /\ \A r \in Req : n.answers[r] = IF r \in d.reqs THEN m.answers[r] + 1 ELSE m.answers[r]
  BY <1>7, <1>11, <1>12, <1>13
<1> QED
  BY <1>1, <1>12, <1>14, <1>15, <1>16, <1>17 DEF one, Notified

Shrunk(n, m) ==
  /\ 1 \in DOMAIN m.msgs
  /\ \A i \in DOMAIN n.msgs : i + 1 \in DOMAIN m.msgs /\ i + 1 # 1 /\ n.msgs[i] = m.msgs[i + 1]
  /\ \A i \in DOMAIN m.msgs : i # 1 => \E j \in DOMAIN n.msgs : j + 1 = i /\ n.msgs[j] = m.msgs[i]
  /\ \A i, j \in DOMAIN n.msgs : (i + 1 = j + 1 => i = j) /\ (i + 1 < j + 1 => i < j)

LEMMA SentRest ==
  ASSUME NEW m, NEW n, Shrunk(n, m)
  PROVE  /\ \A what, id : Sent(n, what, id) => Sent(m, what, id)
         /\ \A what, id : Sent(m, what, id) /\ ~At(m, 1, what, id) => Sent(n, what, id)
         /\ \A i, what, id : At(n, i, what, id) => At(m, i + 1, what, id)
         /\ Schedules(m) /\ m.msgs[1].what # "NEXT_CMD" => Schedules(n)
<1>1. \A i, what, id : At(n, i, what, id) => At(m, i + 1, what, id)
  BY DEF At, Shrunk
<1>2. \A what, id : Sent(n, what, id) => Sent(m, what, id)
  <2>1. \A i \in DOMAIN n.msgs : i + 1 \in DOMAIN m.msgs
    BY DEF Shrunk
  <2> QED
    BY <1>1, <2>1 DEF Sent
<1>3. ASSUME NEW what, NEW id, Sent(m, what, id), ~At(m, 1, what, id)
      PROVE  Sent(n, what, id)
  <2>1. PICK i \in DOMAIN m.msgs : At(m, i, what, id)
    BY <1>3 DEF Sent
  <2>2. i # 1
    BY <1>3, <2>1
  <2>3. PICK j \in DOMAIN n.msgs : n.msgs[j] = m.msgs[i]
    BY <2>2 DEF Shrunk
  <2> QED
    BY <2>1, <2>3 DEF Sent, At
<1>4. Schedules(m) /\ m.msgs[1].what # "NEXT_CMD" => Schedules(n)
  <2>1. \A i \in DOMAIN m.msgs : i # 1 => \E j \in DOMAIN n.msgs : n.msgs[j] = m.msgs[i]
    BY DEF Shrunk
  <2> QED
    BY <2>1 DEF Schedules
<1> QED
  BY <1>1, <1>2, <1>3, <1>4

LEMMA HeadFail ==
  ASSUME NEW m, NEW n, NEW th, NEW id \in DOMAIN th, Told(m, th), Failed(m, id),
         Shrunk(n, m) \/ n.msgs = m.msgs
  PROVE  th[id] = "done" /\ ~Sent(n, "SUCCESS", id)
<1>1. th[id] = "done" /\ ~Sent(m, "SUCCESS", id)
  BY DEF Told, Outcomes
<1>2. Sent(n, "SUCCESS", id) => Sent(m, "SUCCESS", id)
  <2>1. CASE Shrunk(n, m)
    BY <2>1, SentRest
  <2>2. CASE n.msgs = m.msgs
    BY <2>2 DEF Sent, At
  <2> QED
    BY <2>1, <2>2
<1> QED
  BY <1>1, <1>2

LEMMA CoreFailed ==
  ASSUME NEW m \in Manager, NEW th, NEW C, NEW d, Core(m, th, C, d.reqs)
  PROVE  LET n == NotifyFailed(m, d)
         IN  /\ n \in Manager /\ Core(n, th, C, {})
             /\ SameDevices(n, m) /\ SameTimes(n, m) /\ n.conns = m.conns /\ n.msgs = m.msgs
<1> DEFINE n == NotifyFailed(m, d)
<1>1. /\ n \in Manager
      /\ \A r \in Req : n.answers[r] = IF r \in d.reqs THEN m.answers[r] + 1 ELSE m.answers[r]
      /\ SameDevices(n, m) /\ SameTimes(n, m) /\ n.conns = m.conns /\ n.msgs = m.msgs
  BY AnsweredIs DEF NotifyFailed
<1> HIDE DEF n
<1>2. SameEnds(n, m) /\ SameCounts(n, m) /\ SameButTimeouts(n, m) /\ Grown(n, m)
  BY <1>1, SameConns, SameTimesAre, GrownSame
<1>3. n.waitings = m.waitings /\ n.connecting = m.connecting
  BY <1>1 DEF SameDevices
<1>4. Core(n, th, C, {})
  BY <1>1, <1>2, <1>3, CoreAnswered
<1> QED
  BY <1>1, <1>4 DEF n

LEMMA CoreReuse ==
  ASSUME SetLaws
  PROVE  \A m \in Manager : \A th, C : \A d \in Device, id \in DOMAIN m.conns :
           Core(m, th, C, d.reqs)
           => LET n == ReuseConnection(m, d, id)
              IN  /\ n \in Manager /\ Core(n, th, C, {}) /\ Grown(n, m) /\ Schedules(n)
                  /\ SameDevices(n, m) /\ SameTimes(n, m) /\ SameEnds(n, m)
<1>ReuseIs. ASSUME NEW m \in Manager, NEW id \in DOMAIN m.conns, NEW d \in Device
            PROVE  LET n == ReuseConnection(m, d, id)
                   IN  /\ n \in Manager /\ SameEnds(n, m) /\ SameCounts(n, m)
                       /\ \A r \in Req : n.answers[r] = IF r \in d.reqs THEN m.answers[r] + 1 ELSE m.answers[r]
                       /\ SameDevices(n, m) /\ SameTimes(n, m) /\ n.msgs = Append(m.msgs, NextMsg)
  <2> DEFINE k == NotifyConnected(m, d, id, TRUE)
             n == NextCmd(k)
  <2>1. ReuseConnection(m, d, id) = n
    BY DEF ReuseConnection
  <2>2. /\ k \in Manager /\ SameEnds(k, m)
        /\ \A i \in DOMAIN m.conns : i # id => k.conns[i] = m.conns[i]
        /\ k.conns[id].unclaimed = m.conns[id].unclaimed
        /\ Surplus(k.conns[id]) = Surplus(m.conns[id]) - Own(TRUE)
        /\ \A r \in Req : k.answers[r] = IF r \in d.reqs THEN m.answers[r] + 1 ELSE m.answers[r]
        /\ SameDevices(k, m) /\ SameTimes(k, m) /\ k.msgs = m.msgs
    <3>1. Notified(k, m, d, id, TRUE)
      BY NotifyConnectedIs
    <3> HIDE DEF k
    <3> QED
      BY <3>1 DEF Notified
  <2> HIDE DEF k
  <2>3. Surplus(k.conns[id]) = Surplus(m.conns[id])
    <3>1. Surplus(m.conns[id]) \in Int
      BY DomainIs, SavedTypes
    <3> QED
      BY SMT, <2>2, <3>1 DEF Own
  <2>4. /\ n \in Manager /\ n.msgs = Append(k.msgs, NextMsg)
        /\ SameDevices(n, k) /\ SameTimes(n, k) /\ n.conns = k.conns /\ n.answers = k.answers
    BY <2>2, NextCmdIs
  <2> HIDE DEF n
  <2>5. SameEnds(n, m) /\ SameCounts(n, m)
    BY <2>2, <2>3, <2>4 DEF SameEnds, SameCounts
  <2>6. SameDevices(n, m) /\ SameTimes(n, m)
    BY <2>2, <2>4 DEF SameDevices, SameTimes
  <2>7. \A r \in Req : n.answers[r] = IF r \in d.reqs THEN m.answers[r] + 1 ELSE m.answers[r]
    BY <2>2, <2>4
  <2> QED
    BY <2>1, <2>2, <2>4, <2>5, <2>6, <2>7
<1> TAKE m \in Manager
<1> TAKE th, C
<1> TAKE d \in Device, id \in DOMAIN m.conns
<1> HAVE Core(m, th, C, d.reqs)
<1> DEFINE n == ReuseConnection(m, d, id)
<1>1. /\ n \in Manager /\ SameEnds(n, m) /\ SameCounts(n, m)
      /\ \A r \in Req : n.answers[r] = IF r \in d.reqs THEN m.answers[r] + 1 ELSE m.answers[r]
      /\ SameDevices(n, m) /\ SameTimes(n, m) /\ n.msgs = Append(m.msgs, NextMsg)
  BY <1>ReuseIs
<1> HIDE DEF n
<1>2. SameButTimeouts(n, m) /\ Grown(n, m) /\ Schedules(n)
  BY <1>1, SameTimesAre, GrownBy
<1>3. n.waitings = m.waitings /\ n.connecting = m.connecting
  BY <1>1 DEF SameDevices
<1>4. Core(n, th, C, {})
  BY <1>1, <1>2, <1>3, CoreAnswered
<1> QED
  BY <1>1, <1>2, <1>4 DEF n

LEMMA CorePending ==
  ASSUME SetLaws
  PROVE  \A m \in Manager : \A th, C : \A d \in Device :
            /\ Core(m, th, C, d.reqs)
            /\ HasWaker(m, d.addr, d.state)
           => Core(PendingDevice(m, d), th, C, {})
<1>PendingShape. ASSUME NEW m \in Manager, NEW d \in Device, Shape(m), HasWaker(m, d.addr, d.state)
                 PROVE  Shape(PendingDevice(m, d))
  <2> USE <1>PendingShape
  <2> DEFINE n == PendingDevice(m, d)
  <2>1. /\ \/ MergedIntoConnecting(n, m, d)
           \/ \E w \in DOMAIN m.waitings : MergedIntoWaiting(n, m, d, w)
           \/ Queues(n, m, d)
        /\ n.connecting.addr = m.connecting.addr
        /\ SameTimes(n, m) /\ n.conns = m.conns
    BY PendingDeviceIs
  <2> HIDE DEF n
  <2>2. OneClient(n)
    BY <2>1 DEF Shape, OneClient
  <2>3. \A addr, s : HasWaker(m, addr, s) => HasWaker(n, addr, s)
    BY <2>1 DEF HasWaker, Connected, SameTimes
  <2>4. \A addr \in Addr : addr \in n.pendings <=> Unpend(addr) \in n.timers
    BY <2>1 DEF Shape, Wakers, SameTimes
  <2>5. OneDevice(n) /\ \A i \in DOMAIN n.waitings : HasWaker(m, n.waitings[i].addr, n.waitings[i].state)
    <3>1. CASE MergedIntoConnecting(n, m, d)
      BY <2>1, <3>1 DEF MergedIntoConnecting, Shape, OneDevice, Wakers
    <3>2. ASSUME NEW w \in DOMAIN m.waitings, MergedIntoWaiting(n, m, d, w)
          PROVE  OneDevice(n) /\ \A i \in DOMAIN n.waitings : HasWaker(m, n.waitings[i].addr, n.waitings[i].state)
      <4>1. /\ DOMAIN n.waitings = DOMAIN m.waitings
            /\ \A i \in DOMAIN m.waitings : /\ n.waitings[i].addr = m.waitings[i].addr
                                            /\ n.waitings[i].state = m.waitings[i].state
        BY <3>2 DEF MergedIntoWaiting
      <4>2. /\ \A i, j \in DOMAIN m.waitings : m.waitings[i].addr = m.waitings[j].addr => i = j
            /\ \A i \in DOMAIN m.waitings : m.waitings[i].addr # m.connecting.addr
            /\ \A i \in DOMAIN m.waitings : HasWaker(m, m.waitings[i].addr, m.waitings[i].state)
        BY DEF Shape, OneDevice, Wakers
      <4> QED
        BY <2>1, <4>1, <4>2 DEF OneDevice
    <3>3. CASE Queues(n, m, d)
      <4> DEFINE k == Len(m.waitings) + 1
      <4>0. m.waitings \in Seq(Device)
        BY FieldTypes
      <4>1. /\ k \in DOMAIN n.waitings /\ n.waitings[k] = d
            /\ \A i \in DOMAIN m.waitings : i \in DOMAIN n.waitings /\ n.waitings[i] = m.waitings[i]
            /\ \A i \in DOMAIN n.waitings : i \in DOMAIN m.waitings \/ i = k
        <5>1. n.waitings = Append(m.waitings, d)
          BY <3>3 DEF Queues
        <5> QED
          BY SMT, <4>0, <5>1
      <4> HIDE DEF k
      <4>2. /\ \A i \in DOMAIN m.waitings : m.waitings[i].addr # d.addr
            /\ n.connecting = m.connecting /\ m.connecting.addr # d.addr
        BY <3>3 DEF Queues
      <4>3. OneDevice(n)
        BY ZenonT(60), <4>1, <4>2 DEF Shape, OneDevice
      <4>4. \A i \in DOMAIN n.waitings : HasWaker(m, n.waitings[i].addr, n.waitings[i].state)
        BY <4>1 DEF Shape, Wakers
      <4> QED
        BY <4>3, <4>4
    <3> QED
      BY <2>1, <3>1, <3>2, <3>3
  <2>6. Wakers(n)
    BY <2>3, <2>4, <2>5 DEF Wakers
  <2> QED
    BY <2>2, <2>5, <2>6 DEF Shape, n
\* PendingDevice gives the requests in hand a place.
<1>OncePending. ASSUME NEW m \in Manager, NEW d \in Device, NEW C, Once(m, C, d.reqs)
                PROVE  Once(PendingDevice(m, d), C, {})
  <2> USE <1>OncePending
  <2> DEFINE n == PendingDevice(m, d)
  <2>1. /\ \/ MergedIntoConnecting(n, m, d)
           \/ \E w \in DOMAIN m.waitings : MergedIntoWaiting(n, m, d, w)
           \/ Queues(n, m, d)
        /\ n.answers = m.answers /\ n.msgs = m.msgs
    BY PendingDeviceIs
  <2> HIDE DEF n
  <2> SUFFICES ASSUME NEW r \in Req PROVE AskedOnce(n, r) /\ WaitedOnce(n, r) /\ Placed(n, C, {}, r)
    BY DEF Once, n
  <2>2. AskedOnce(m, r) /\ WaitedOnce(m, r) /\ Placed(m, C, d.reqs, r)
    BY DEF Once
  <2>3. AskedOnce(n, r) /\ (Asked(n, r) <=> Asked(m, r))
    BY <2>1, <2>2 DEF AskedOnce, Asked, Asks
  <2>4. r \in d.reqs => ~Waited(m, r)
    BY <2>2 DEF Placed
  <2>5. CASE MergedIntoConnecting(n, m, d)
    <3>1. WaitedOnce(n, r) /\ (Waited(n, r) <=> Waited(m, r))
      BY <2>2, <2>5 DEF WaitedOnce, Waited, MergedIntoConnecting
    <3>2. Dialed(n, r) <=> Dialed(m, r) \/ r \in d.reqs
      BY <2>5 DEF Dialed, MergedIntoConnecting
    <3> QED
      BY <2>1, <2>2, <2>3, <3>1, <3>2 DEF Placed
  <2>6. ASSUME NEW w \in DOMAIN m.waitings, MergedIntoWaiting(n, m, d, w)
        PROVE  AskedOnce(n, r) /\ WaitedOnce(n, r) /\ Placed(n, C, {}, r)
    <3>1. /\ DOMAIN n.waitings = DOMAIN m.waitings /\ n.connecting = m.connecting
          /\ \A i \in DOMAIN m.waitings :
               r \in n.waitings[i].reqs <=> r \in m.waitings[i].reqs \/ (i = w /\ r \in d.reqs)
      BY <2>6 DEF MergedIntoWaiting
    <3>2. WaitedOnce(n, r)
      <4>1. CASE r \in d.reqs
        <5>1. \A i \in DOMAIN m.waitings : r \notin m.waitings[i].reqs
          BY <2>4, <4>1 DEF Waited
        <5>2. \A i \in DOMAIN n.waitings : r \in n.waitings[i].reqs => i = w
          BY <3>1, <5>1
        <5> QED
          BY <5>2 DEF WaitedOnce
      <4>2. CASE r \notin d.reqs
        <5>1. \A i \in DOMAIN m.waitings : r \in n.waitings[i].reqs <=> r \in m.waitings[i].reqs
          BY <3>1, <4>2
        <5> QED
          BY <2>2, <3>1, <5>1 DEF WaitedOnce
      <4> QED
        BY <4>1, <4>2
    <3>3. Waited(n, r) <=> Waited(m, r) \/ r \in d.reqs
      BY <3>1 DEF Waited
    <3>4. Dialed(n, r) <=> Dialed(m, r)
      BY <3>1 DEF Dialed
    <3> QED
      BY <2>1, <2>2, <2>3, <3>2, <3>3, <3>4 DEF Placed
  <2>7. CASE Queues(n, m, d)
    <3> DEFINE k == Len(m.waitings) + 1
    <3>0. m.waitings \in Seq(Device) /\ n.waitings = Append(m.waitings, d)
      BY FieldTypes, <2>7 DEF Queues
    <3>1. /\ k \in DOMAIN n.waitings /\ n.waitings[k] = d
          /\ \A i \in DOMAIN m.waitings : i \in DOMAIN n.waitings /\ n.waitings[i] = m.waitings[i] /\ i # k
          /\ \A i \in DOMAIN n.waitings : i \in DOMAIN m.waitings \/ i = k
      BY SMT, <3>0
    <3> HIDE DEF k
    <3>2. WaitedOnce(n, r)
      BY <2>2, <2>4, <3>1 DEF WaitedOnce, Waited
    <3>3. Waited(n, r) <=> Waited(m, r) \/ r \in d.reqs
      BY <3>1 DEF Waited
    <3>4. Dialed(n, r) <=> Dialed(m, r)
      BY <2>7 DEF Dialed, Queues
    <3> QED
      BY <2>1, <2>2, <2>3, <3>2, <3>3, <3>4 DEF Placed
  <2> QED
    BY <2>1, <2>5, <2>6, <2>7
<1> TAKE m \in Manager
<1> TAKE th, C
<1> TAKE d \in Device
<1> HAVE /\ Core(m, th, C, d.reqs)
         /\ HasWaker(m, d.addr, d.state)
<1> DEFINE n == PendingDevice(m, d)
<1>1. n.conns = m.conns /\ n.msgs = m.msgs /\ SameTimes(n, m)
  BY PendingDeviceIs
<1>2. Shape(n) /\ Once(n, C, {})
  BY <1>PendingShape, <1>OncePending DEF Core
<1> HIDE DEF n
<1> QED
  BY <1>1, <1>2, CoreSameConns DEF n

\* The end of a connection that is not the one of the attempt.
LEMMA EndSound ==
  ASSUME SetLaws
  PROVE  \A m \in Manager : \A th, C : \A id \in DOMAIN m.conns :
            /\ Good(m, th, C, {})
            /\ th[id] = "done"
            /\ ~Sent(m, "SUCCESS", id)
            /\ ~Failed(m, id) \/ m.connecting.addr # m.conns[id].addr
           => Sound(NextCmd(RemoveConnection(Reschedule(m, m.conns[id].addr), id)), m, th, C)
\* The end of a connection wakes the device of its address.
<1>EndIs. ASSUME NEW m \in Manager, Shape(m), NEW id \in DOMAIN m.conns
          PROVE  LET n == RemoveConnection(Reschedule(m, m.conns[id].addr), id)
                 IN  /\ n \in Manager /\ Shape(n)
                     /\ DOMAIN n.conns = DOMAIN m.conns \ {id}
                     /\ \A i \in DOMAIN m.conns : i # id => n.conns[i] = m.conns[i]
                     /\ DOMAIN n.waitings = DOMAIN m.waitings
                     /\ \A i \in DOMAIN m.waitings : n.waitings[i].reqs = m.waitings[i].reqs
                     /\ n.state = m.state /\ n.connecting = m.connecting /\ n.passed = m.passed
                     /\ SameTimes(n, m) /\ n.answers = m.answers /\ n.msgs = m.msgs
  <2> USE <1>EndIs
  <2> DEFINE addr == m.conns[id].addr
             k == Reschedule(m, addr)
             n == RemoveConnection(k, id)
  <2>0. OneDevice(m)
    BY DEF Shape
  <2>1. /\ k \in Manager /\ DOMAIN k.waitings = DOMAIN m.waitings
        /\ \A i \in DOMAIN m.waitings :
             /\ k.waitings[i].addr = m.waitings[i].addr /\ k.waitings[i].reqs = m.waitings[i].reqs
             /\ m.waitings[i].addr # addr => k.waitings[i] = m.waitings[i]
             /\ m.waitings[i].addr = addr => k.waitings[i].state = "WAIT_SCHEDULE"
        /\ k.state = m.state /\ k.connecting = m.connecting /\ k.passed = m.passed
        /\ SameTimes(k, m) /\ k.conns = m.conns /\ k.answers = m.answers /\ k.msgs = m.msgs
    BY <2>0, RescheduleIs
  <2> HIDE DEF k
  <2>2. /\ n \in Manager /\ DOMAIN n.conns = DOMAIN k.conns \ {id}
        /\ \A i \in DOMAIN k.conns : i # id => n.conns[i] = k.conns[i]
        /\ SameDevices(n, k) /\ SameTimes(n, k) /\ n.answers = k.answers /\ n.msgs = k.msgs
    BY <2>1, RemoveConnectionIs
  <2> HIDE DEF n
  <2>3. /\ DOMAIN n.conns = DOMAIN m.conns \ {id}
        /\ \A i \in DOMAIN m.conns : i # id => n.conns[i] = m.conns[i]
    BY <2>1, <2>2
  <2>4. /\ n.state = m.state /\ n.connecting = m.connecting /\ n.passed = m.passed
        /\ SameTimes(n, m) /\ n.answers = m.answers /\ n.msgs = m.msgs /\ n.waitings = k.waitings
    BY <2>1, <2>2 DEF SameDevices, SameTimes
  <2>5. OneDevice(n)
    <3>1. /\ \A i, j \in DOMAIN m.waitings : m.waitings[i].addr = m.waitings[j].addr => i = j
          /\ \A i \in DOMAIN m.waitings : m.waitings[i].addr # m.connecting.addr
      BY <2>0 DEF OneDevice
    <3>2. /\ DOMAIN n.waitings = DOMAIN m.waitings /\ n.connecting = m.connecting
          /\ \A i \in DOMAIN m.waitings : n.waitings[i].addr = m.waitings[i].addr
      BY <2>1, <2>4
    <3> QED
      BY <3>1, <3>2 DEF OneDevice
  <2>6. OneClient(n)
    BY <2>3 DEF Shape, OneClient
  <2>7. \A a : Connected(m, a) /\ a # addr => Connected(n, a)
    BY <2>3 DEF Connected
  <2>8. ASSUME NEW i \in DOMAIN m.waitings
        PROVE  HasWaker(n, k.waitings[i].addr, k.waitings[i].state)
    <3>1. CASE m.waitings[i].addr = addr
      BY <2>1, <3>1 DEF HasWaker
    <3>2. CASE m.waitings[i].addr # addr
      BY <2>1, <2>4, <2>7, <3>2 DEF HasWaker, Shape, Wakers, SameTimes
    <3> QED
      BY <3>1, <3>2
  <2>9. Wakers(n)
    <3>1. \A a \in Addr : a \in n.pendings <=> Unpend(a) \in n.timers
      BY <2>4 DEF Shape, Wakers, SameTimes
    <3> QED
      BY <2>1, <2>4, <2>8, <3>1 DEF Wakers
  <2>10. Shape(n)
    BY <2>5, <2>6, <2>9 DEF Shape
  <2>11. /\ DOMAIN n.waitings = DOMAIN m.waitings
         /\ \A i \in DOMAIN m.waitings : n.waitings[i].reqs = m.waitings[i].reqs
    BY <2>1, <2>4
  <2> QED
    BY <2>2, <2>3, <2>4, <2>10, <2>11 DEF n, k, addr
<1> TAKE m \in Manager
<1> TAKE th, C
<1> TAKE id \in DOMAIN m.conns
<1> HAVE /\ Good(m, th, C, {})
         /\ th[id] = "done"
         /\ ~Sent(m, "SUCCESS", id)
         /\ ~Failed(m, id) \/ m.connecting.addr # m.conns[id].addr
<1> DEFINE k == RemoveConnection(Reschedule(m, m.conns[id].addr), id)
           n == NextCmd(k)
<1>0. Shape(m) /\ Core(m, th, C, {}) /\ Matched(m) /\ Timed(m, th)
  BY DEF Good, Core
<1>1. /\ k \in Manager /\ Shape(k)
      /\ DOMAIN k.conns = DOMAIN m.conns \ {id}
      /\ \A i \in DOMAIN m.conns : i # id => k.conns[i] = m.conns[i]
      /\ DOMAIN k.waitings = DOMAIN m.waitings
      /\ \A i \in DOMAIN m.waitings : k.waitings[i].reqs = m.waitings[i].reqs
      /\ k.state = m.state /\ k.connecting = m.connecting /\ k.passed = m.passed
      /\ SameTimes(k, m) /\ k.answers = m.answers /\ k.msgs = m.msgs
  BY <1>0, <1>EndIs
<1>2. k \in Manager
  BY <1>1
<1> HIDE DEF k
<1>3. /\ n \in Manager /\ n.msgs = Append(k.msgs, NextMsg)
      /\ SameDevices(n, k) /\ SameTimes(n, k) /\ n.conns = k.conns /\ n.answers = k.answers
  BY <1>2, NextCmdIs
<1> HIDE DEF n
<1>4. /\ n.msgs = Append(m.msgs, NextMsg) /\ n.state = m.state /\ n.connecting = m.connecting
      /\ SameTimes(n, m) /\ n.answers = m.answers /\ n.waitings = k.waitings
  BY <1>1, <1>3 DEF SameDevices, SameTimes
<1>5. Grown(n, m) /\ Schedules(n)
  BY <1>4, GrownBy
<1>6. /\ DOMAIN n.conns \subseteq DOMAIN m.conns
      /\ \A i \in DOMAIN n.conns : /\ n.conns[i].side = m.conns[i].side
                                   /\ Surplus(n.conns[i]) = Surplus(m.conns[i])
                                   /\ n.conns[i].unclaimed = m.conns[i].unclaimed
      /\ \A i \in DOMAIN m.conns : i \notin DOMAIN n.conns => th[i] = "done" /\ ~Sent(m, "SUCCESS", i)
  BY <1>1, <1>3
<1>7. Shape(n)
  <2>1. n.connecting.addr = k.connecting.addr /\ n.waitings = k.waitings /\ SameEnds(n, k) /\ SameUnpends(n, k)
    BY <1>3, SameConns, SameTimesAre DEF SameDevices, SameButTimeouts
  <2> QED
    BY <1>1, <2>1, ShapeFrame
<1>8. Once(n, C, {})
  <2>1. SameReqs(n, m) /\ SameAsks(n, m)
    BY <1>1, <1>4, <1>5, GrownAsks DEF SameReqs
  <2> QED
    BY <1>0, <1>4, <2>1, OnceFrame DEF Core
<1>9. Core(n, th, C, {})
  <2>1. \A t \in n.timers : t.what = "FAIL" => t \in m.timers
    BY <1>4 DEF SameTimes
  <2> QED
    BY <1>0, <1>5, <1>6, <1>7, <1>8, <2>1, CoreKeeps
<1>10. Matched(n)
  BY <1>0, <1>4 DEF Matched
<1>11. Timed(n, th)
  <2> SUFFICES ASSUME m.state = "CONNECTING" PROVE \E i \in Id : Attempt(n, th, i)
    BY <1>4 DEF Timed
  <2>1. PICK i \in Id : Attempt(m, th, i)
    BY <1>0 DEF Timed
  <2>2. i # id /\ i \in DOMAIN m.conns
    BY <2>1 DEF Attempt, Due
  <2>3. i \in DOMAIN n.conns /\ n.conns[i] = m.conns[i]
    BY <1>1, <1>3, <2>2
  <2>4. \A t \in m.timers : t.what \in {"TIMEOUT", "FAIL"} /\ t.id = i => t \in n.timers
    BY <1>4 DEF SameTimes
  <2>5. n.conns[i].side = m.conns[i].side /\ n.conns[i].addr = m.conns[i].addr /\ n.connecting.addr = m.connecting.addr
    BY <1>4, <2>3
  <2>6. Attempt(n, th, i)
    BY <1>5, <2>1, <2>3, <2>4, <2>5, AttemptFrame
  <2> QED
    BY <2>6
<1> QED
  BY <1>3, <1>5, <1>9, <1>10, <1>11, AwakeSoon DEF Sound, Good, n, k

\* The timeout of connection id is cancelled and its socket closed.
Cut(n, m, id) ==
  /\ n \in Manager /\ SameEnds(n, m) /\ SameCounts(n, m) /\ SameButTimeouts(n, m)
  /\ SameDevices(n, m) /\ n.answers = m.answers /\ n.msgs = m.msgs
  /\ \A f \in m.timers : f.what # "TIMEOUT" \/ f.id # id => f \in n.timers

\* The connecting device has been taken care of, its connection id is to go.
Freed(x, th, C, id, addr) ==
  /\ x \in Manager /\ Core(x, th, C, {}) /\ x.connecting = None /\ x.state = "CONNECTING"
  /\ id \in DOMAIN x.conns /\ x.conns[id].addr = addr /\ ~Sent(x, "SUCCESS", id)
  /\ \A i \in DOMAIN x.waitings : x.waitings[i].addr # addr \/ x.waitings[i].state # "WAIT_EVENT"

LEMMA FailStep ==
  ASSUME SetLaws
  PROVE  \A m \in Manager : \A id :
            /\ Inv
            /\ Fail(m, id)
            /\ Core(m, thread, called, {})
            /\ Matched(m)
            /\ thread[id] = "done"
            /\ ~Sent(m, "SUCCESS", id)
            /\ id \notin DOMAIN m.conns \/ m.connecting.addr # m.conns[id].addr => Timed(m, thread)
            /\ Awake(mgr) => Awake(m)
           => Inv'
<1>ClientConnectFailedSound. \A m \in Manager : \A th, C, id, collision :
                                /\ Core(m, th, C, {})
                                /\ Matched(m)
                                /\ th[id] = "done"
                                /\ ~Sent(m, "SUCCESS", id)
                                /\ id \notin DOMAIN m.conns \/ m.connecting.addr # m.conns[id].addr => Timed(m, th)
                               => Sound(ClientConnectFailed(m, id, collision), m, th, C)
  <2>CutIs. ASSUME NEW m \in Manager, NEW id \in DOMAIN m.conns
            PROVE  Cut(SetLink(CancelTimeout(m, id), id, DisconnectNow(m.conns[id].link)), m, id)
    <3> DEFINE a == CancelTimeout(m, id)
               link == DisconnectNow(m.conns[id].link)
               n == SetLink(a, id, link)
    <3>1. /\ a \in Manager /\ a.timers \in SUBSET m.timers /\ a.pendings = m.pendings
          /\ \A t \in m.timers : t.what # "TIMEOUT" \/ t.id # id => t \in a.timers
          /\ SameDevices(a, m) /\ a.conns = m.conns /\ a.answers = m.answers /\ a.msgs = m.msgs
      BY CancelTimeoutIs
    <3> HIDE DEF a
    <3>2. m.conns[id] \in Saved
      BY DomainIs
    <3>3. m.conns[id].link \in Connection /\ m.conns[id].link.rc \in Int
      BY <3>2, SavedTypes
    <3>4. 0 \in Int
      BY SMT
    <3>5. link \in Connection /\ link.rc = m.conns[id].link.rc
      BY <3>3, <3>4, LinkTypes
    <3> HIDE DEF link
    <3>6. link.rc = a.conns[id].link.rc + 0
      <4>1. link.rc = m.conns[id].link.rc + 0
        BY SMT, <3>3, <3>5
      <4> QED
        BY <3>1, <4>1
    <3>7. a \in Manager /\ id \in DOMAIN a.conns /\ link \in Connection
      BY <3>1, <3>5
    <3>8. Relinked(n, a, id, 0)
      BY <3>4, <3>6, <3>7, RelinkIs
    <3> HIDE DEF n
    <3>9. SameEnds(n, a) /\ SameCounts(n, a)
      BY <3>7, <3>8, RelinkSame
    <3>10. SameEnds(n, m) /\ SameCounts(n, m)
      BY <3>1, <3>9 DEF SameEnds, SameCounts
    <3>11. n \in Manager /\ SameDevices(n, a) /\ SameTimes(n, a) /\ n.answers = a.answers /\ n.msgs = a.msgs
      BY <3>8 DEF Relinked
    <3>12. SameDevices(n, m) /\ n.answers = m.answers /\ n.msgs = m.msgs
      BY <3>1, <3>11 DEF SameDevices
    <3>13. n.timers = a.timers /\ n.pendings = m.pendings
      BY <3>1, <3>11 DEF SameTimes
    <3>14. SameButTimeouts(n, m)
      <4>1. \A f : f \in n.timers => f \in m.timers
        BY <3>1, <3>13
      <4>2. \A f : f.what # "TIMEOUT" /\ f \in m.timers => f \in n.timers
        BY <3>1, <3>13
      <4>3. \A addr : Unpend(addr).what # "TIMEOUT"
        BY SMT DEF Unpend
      <4>4. \A f : f.what = "FAIL" => f.what # "TIMEOUT"
        OBVIOUS
      <4>5. SameUnpends(n, m)
        BY SMT, <3>13, <4>1, <4>2, <4>3 DEF SameUnpends
      <4>6. \A f : f.what = "FAIL" => (f \in n.timers <=> f \in m.timers)
        BY <4>1, <4>2, <4>4
      <4> QED
        BY <4>5, <4>6 DEF SameButTimeouts
    <3>15. \A f \in m.timers : f.what # "TIMEOUT" \/ f.id # id => f \in n.timers
      BY <3>1, <3>13
    <3>16. Cut(n, m, id)
      BY <3>10, <3>11, <3>12, <3>14, <3>15 DEF Cut
    <3> QED
      BY <3>16 DEF n, a, link
  <2>CutCore. ASSUME NEW m \in Manager, NEW n, NEW id, Cut(n, m, id), NEW th, NEW C, Core(m, th, C, {})
              PROVE  n \in Manager /\ Core(n, th, C, {})
    <3> USE <2>CutCore
    <3>1. /\ n \in Manager /\ SameEnds(n, m) /\ SameCounts(n, m) /\ SameButTimeouts(n, m)
          /\ SameDevices(n, m) /\ n.answers = m.answers /\ n.msgs = m.msgs
      BY DEF Cut
    <3>2. n.waitings = m.waitings /\ n.connecting = m.connecting /\ Grown(n, m)
      BY <3>1, GrownSame DEF SameDevices
    <3> QED
      BY <3>1, <3>2, CoreSame
  \* The failure of an attempt that has timed out.
  <2>StrayFailSound. ASSUME NEW m \in Manager, NEW n, NEW id \in DOMAIN m.conns, Cut(n, m, id), NEW th, NEW C, Good(m, th, C, {}),
                            th[id] = "done", ~Sent(m, "SUCCESS", id), m.connecting.addr # m.conns[id].addr
                     PROVE  Sound(NextCmd(RemoveConnection(Reschedule(n, m.conns[id].addr), id)), m, th, C)
    <3> USE <2>StrayFailSound
    <3>1. Core(m, th, C, {}) /\ Matched(m) /\ Timed(m, th)
      BY DEF Good
    <3>2. n \in Manager /\ Core(n, th, C, {})
      BY <3>1, <2>CutCore
    <3>3. /\ SameEnds(n, m) /\ SameDevices(n, m) /\ n.msgs = m.msgs /\ SameButTimeouts(n, m)
          /\ \A f \in m.timers : f.what # "TIMEOUT" \/ f.id # id => f \in n.timers
      BY DEF Cut
    <3>4. n.state = m.state /\ n.connecting = m.connecting /\ n.connecting.addr = m.connecting.addr
      BY <3>3 DEF SameDevices
    <3>5. Matched(n)
      BY <3>1, <3>4 DEF Matched
    <3>6. Timed(n, th)
      <4> SUFFICES ASSUME n.state = "CONNECTING" PROVE \E j \in Id : Attempt(n, th, j)
        BY DEF Timed
      <4>1. PICK j \in Id : Attempt(m, th, j)
        BY <3>1, <3>4 DEF Timed
      <4>2. j \in DOMAIN m.conns /\ m.conns[j].addr = m.connecting.addr
        BY <4>1 DEF Attempt
      <4>3. j # id
        BY <4>2
      <4>4. \A f \in m.timers : f.what \in {"TIMEOUT", "FAIL"} /\ f.id = j => f \in n.timers
        BY <3>3, <4>3
      <4>5. j \in DOMAIN n.conns /\ n.conns[j].side = m.conns[j].side /\ n.conns[j].addr = m.conns[j].addr
        BY <3>3, <4>2 DEF SameEnds
      <4>6. Grown(n, m)
        BY <3>3, GrownSame
      <4>7. Attempt(n, th, j)
        BY <3>4, <4>1, <4>4, <4>5, <4>6, AttemptFrame
      <4> QED
        BY <4>7
    <3>7. Good(n, th, C, {})
      BY <3>2, <3>5, <3>6 DEF Good
    <3>8. id \in DOMAIN n.conns /\ n.conns[id].addr = m.conns[id].addr /\ ~Sent(n, "SUCCESS", id)
      BY <3>3 DEF SameEnds, Sent, At
    <3>9. n.connecting.addr # n.conns[id].addr
      BY <3>4, <3>8
    <3>10. Sound(NextCmd(RemoveConnection(Reschedule(n, n.conns[id].addr), id)), n, th, C)
      BY <3>2, <3>7, <3>8, <3>9, EndSound
    <3>11. Awake(m) => Awake(n)
      <4>1. Schedules(m) => Schedules(n)
        BY <3>3 DEF Schedules
      <4> QED
        BY <3>3, <4>1, AwakeFrame
    <3>12. Sound(NextCmd(RemoveConnection(Reschedule(n, m.conns[id].addr), id)), n, th, C)
      BY <3>8, <3>10
    <3> QED
      BY <3>11, <3>12 DEF Sound
  \* The failure of the attempt of the connecting device.
  <2>DialFailSound. \A m \in Manager : \A n : \A id \in DOMAIN m.conns : \A th, C, retry :
                       /\ Cut(n, m, id)
                       /\ Core(m, th, C, {})
                       /\ Matched(m)
                       /\ th[id] = "done"
                       /\ ~Sent(m, "SUCCESS", id)
                       /\ m.connecting.addr = m.conns[id].addr
                      => LET server == GetConnectionByAddr(n, m.conns[id].addr, "server")
                             free == [n EXCEPT !.connecting = None]
                             d == m.connecting
                         IN  Sound(TransitionToState(RemoveConnection(
                                     IF Reusable(n, server) THEN ReuseConnection(free, d, server)
                                     ELSE IF retry THEN PendDevice(free, d)
                                     ELSE NotifyFailed(free, d), id), "AVAILABLE"), m, th, C)
    <3>FreedSound. \A x, th, C, id, addr, m :
                      /\ Freed(x, th, C, id, addr)
                      /\ th[id] = "done"
                     => Sound(TransitionToState(RemoveConnection(x, id), "AVAILABLE"), m, th, C)
      <4>CoreRemove. ASSUME NEW m \in Manager, NEW th, NEW C, NEW H, NEW id \in DOMAIN m.conns, Core(m, th, C, H),
                            th[id] = "done", ~Sent(m, "SUCCESS", id),
                            \A i \in DOMAIN m.waitings :
                              m.waitings[i].addr # m.conns[id].addr \/ m.waitings[i].state # "WAIT_EVENT"
                     PROVE  LET n == RemoveConnection(m, id)
                            IN  /\ n \in Manager /\ Core(n, th, C, H)
                                /\ SameDevices(n, m) /\ SameTimes(n, m) /\ n.answers = m.answers /\ n.msgs = m.msgs
        <5> USE <4>CoreRemove
        <5> DEFINE n == RemoveConnection(m, id)
        <5>1. /\ n \in Manager /\ DOMAIN n.conns = DOMAIN m.conns \ {id}
              /\ \A i \in DOMAIN m.conns : i # id => n.conns[i] = m.conns[i]
              /\ SameDevices(n, m) /\ SameTimes(n, m) /\ n.answers = m.answers /\ n.msgs = m.msgs
          BY RemoveConnectionIs
        <5> HIDE DEF n
        <5>2. Shape(n)
          <6>1. OneDevice(n)
            BY <5>1 DEF Core, Shape, OneDevice, SameDevices
          <6>5. OneClient(n)
            BY <5>1 DEF Core, Shape, OneClient
          <6>2. \A addr \in Addr : addr \in n.pendings <=> Unpend(addr) \in n.timers
            BY <5>1 DEF Core, Shape, Wakers, SameTimes
          <6>3. \A addr : Connected(m, addr) /\ addr # m.conns[id].addr => Connected(n, addr)
            BY <5>1 DEF Connected
          <6>4. ASSUME NEW i \in DOMAIN m.waitings
                PROVE  HasWaker(n, m.waitings[i].addr, m.waitings[i].state)
            <7>1. HasWaker(m, m.waitings[i].addr, m.waitings[i].state)
              BY DEF Core, Shape, Wakers
            <7> QED
              BY <5>1, <6>3, <7>1 DEF HasWaker, SameTimes
          <6> QED
            BY <5>1, <6>1, <6>2, <6>4, <6>5 DEF Shape, Wakers, SameDevices
        <5>3. Once(n, C, H)
          <6>1. Grown(n, m) /\ SameReqs(n, m) /\ n.connecting = m.connecting
            BY <5>1, GrownSame DEF SameReqs, SameDevices
          <6> QED
            BY <5>1, <6>1, GrownAsks, OnceFrame DEF Core
        <5>4. Grown(n, m) /\ \A t \in n.timers : t.what = "FAIL" => t \in m.timers
          BY <5>1, GrownSame DEF SameTimes
        <5>5. /\ DOMAIN n.conns \subseteq DOMAIN m.conns
              /\ \A i \in DOMAIN n.conns : /\ n.conns[i].side = m.conns[i].side
                                           /\ Surplus(n.conns[i]) = Surplus(m.conns[i])
                                           /\ n.conns[i].unclaimed = m.conns[i].unclaimed
              /\ \A i \in DOMAIN m.conns : i \notin DOMAIN n.conns => th[i] = "done" /\ ~Sent(m, "SUCCESS", i)
          BY <5>1
        <5>6. Core(n, th, C, H)
          BY <5>2, <5>3, <5>4, <5>5, CoreKeeps
        <5> QED
          BY <5>1, <5>6 DEF n
      <4> TAKE x, th, C, id, addr, m
      <4> HAVE /\ Freed(x, th, C, id, addr)
               /\ th[id] = "done"
      <4> DEFINE y == RemoveConnection(x, id)
                 t == TransitionToState(y, "AVAILABLE")
      <4>1. /\ x \in Manager /\ Core(x, th, C, {}) /\ x.connecting = None /\ x.state = "CONNECTING"
            /\ id \in DOMAIN x.conns /\ ~Sent(x, "SUCCESS", id)
            /\ \A i \in DOMAIN x.waitings : x.waitings[i].addr # x.conns[id].addr \/ x.waitings[i].state # "WAIT_EVENT"
        BY DEF Freed
      <4>2. y \in Manager /\ Core(y, th, C, {}) /\ SameDevices(y, x)
        BY <4>1, <4>CoreRemove
      <4> HIDE DEF y
      <4>3. y.connecting = None /\ y.state = "CONNECTING"
        BY <4>1, <4>2 DEF SameDevices
      <4>4. t \in Manager /\ Good(t, th, C, {}) /\ Awake(t)
        BY <4>2, <4>3, BackGood
      <4> HIDE DEF t
      <4>5. Sound(t, m, th, C)
        BY <4>4 DEF Sound
      <4> QED
        BY <4>5 DEF t, y
    \* PendDevice: nothing else has the address.
    <3>PendDeviceIs. \A m \in Manager : \A th, C : \A d \in Device :
                        /\ Core(m, th, C, d.reqs)
                        /\ m.connecting = None
                        /\ \A i \in DOMAIN m.waitings : m.waitings[i].addr # d.addr
                       => LET n == PendDevice(m, d)
                          IN  /\ n \in Manager /\ Core(n, th, C, {}) /\ n.connecting = None /\ n.state = m.state
                              /\ n.conns = m.conns /\ n.msgs = m.msgs
                              /\ \A i \in DOMAIN n.waitings : n.waitings[i].addr # d.addr \/ n.waitings[i].state # "WAIT_EVENT"
      <4>PendedDevice. ASSUME NEW d \in Device
                       PROVE  LET e == [d EXCEPT !.state = "PENDING", !.retries = @ + 1]
                              IN  e \in Device /\ e.state = "PENDING" /\ e.addr = d.addr /\ e.reqs = d.reqs
        <5> DEFINE x == d.retries + 1
        <5>1. d.retries \in Nat
          BY DeviceTypes
        <5>2. x \in Nat
          BY SMT, <5>1
        <5> HIDE DEF x
        <5>3. LET e == [d EXCEPT !.state = "PENDING", !.retries = x]
              IN  e \in Device /\ e.state = "PENDING" /\ e.addr = d.addr /\ e.reqs = d.reqs
          BY <5>2 DEF Device
        <5>4. [d EXCEPT !.state = "PENDING", !.retries = @ + 1] = [d EXCEPT !.state = "PENDING", !.retries = x]
          BY SMT DEF x, Device
        <5> QED
          BY <5>3, <5>4
      <4> TAKE m \in Manager
      <4> TAKE th, C
      <4> TAKE d \in Device
      <4> HAVE /\ Core(m, th, C, d.reqs)
               /\ m.connecting = None
               /\ \A i \in DOMAIN m.waitings : m.waitings[i].addr # d.addr
      <4> DEFINE a == PendConnection(m, d.addr)
                 e == [d EXCEPT !.state = "PENDING", !.retries = @ + 1]
                 n == PendingDevice(a, e)
      <4>0. PendDevice(m, d) = n
        BY DEF PendDevice
      <4>1. e \in Device /\ e.state = "PENDING" /\ e.addr = d.addr /\ e.reqs = d.reqs
        BY <4>PendedDevice
      <4> HIDE DEF e
      <4>2. d.addr \in Addr /\ d.addr # "none" /\ Shape(m)
        BY DeviceTypes DEF Core
      <4>3. /\ a \in Manager /\ Shape(a) /\ a.conns = m.conns /\ a.answers = m.answers
            /\ SameDevices(a, m) /\ a.msgs = m.msgs /\ SameAlarms(a, m) /\ d.addr \in a.pendings
        BY <4>2, PendIs
      <4>4. Core(a, th, C, d.reqs)
        BY <4>2, CorePend
      <4> HIDE DEF a
      <4>5. HasWaker(a, e.addr, e.state)
        BY <4>1, <4>3 DEF HasWaker
      <4>6. Core(a, th, C, e.reqs) /\ a \in Manager /\ e \in Device
        BY <4>1, <4>3, <4>4
      <4>7. Core(n, th, C, {})
        BY <4>5, <4>6, CorePending
      <4>8. /\ n \in Manager
            /\ \/ MergedIntoConnecting(n, a, e)
               \/ \E w \in DOMAIN a.waitings : MergedIntoWaiting(n, a, e, w)
               \/ Queues(n, a, e)
            /\ n.connecting.addr = a.connecting.addr /\ (n.connecting = None <=> a.connecting = None)
            /\ n.state = a.state /\ n.passed = a.passed
            /\ SameTimes(n, a) /\ n.conns = a.conns /\ n.answers = a.answers /\ n.msgs = a.msgs
        BY <4>6, PendingDeviceIs
      <4> HIDE DEF n
      <4>9. a.waitings = m.waitings /\ a.connecting = None /\ a.state = m.state
        BY <4>3 DEF SameDevices
      <4>10. None.addr = "none"
        BY DevicesTyped
      <4>11. n.waitings = Append(m.waitings, e)
        <5>1. a.connecting.addr # e.addr
          BY <4>1, <4>2, <4>9, <4>10
        <5>2. \A w \in DOMAIN a.waitings : a.waitings[w].addr # e.addr
          BY <4>1, <4>9
        <5>3. Queues(n, a, e)
          BY <4>8, <5>1, <5>2 DEF MergedIntoConnecting, MergedIntoWaiting
        <5> QED
          BY <4>9, <5>3 DEF Queues
      <4>12. \A i \in DOMAIN n.waitings : n.waitings[i].addr # d.addr \/ n.waitings[i].state # "WAIT_EVENT"
        <5>1. m.waitings \in Seq(Device)
          BY FieldTypes
        <5>2. \A i \in DOMAIN n.waitings : (i \in DOMAIN m.waitings /\ n.waitings[i] = m.waitings[i]) \/ n.waitings[i] = e
          BY SMT, <4>1, <4>11, <5>1
        <5>3. e.state # "WAIT_EVENT"
          BY <4>1
        <5> QED
          BY <5>2, <5>3
      <4> QED
        BY <4>0, <4>3, <4>7, <4>8, <4>9, <4>12
    <3> TAKE m \in Manager
    <3> TAKE n
    <3> TAKE id \in DOMAIN m.conns
    <3> TAKE th, C, retry
    <3> HAVE /\ Cut(n, m, id)
             /\ Core(m, th, C, {})
             /\ Matched(m)
             /\ th[id] = "done"
             /\ ~Sent(m, "SUCCESS", id)
             /\ m.connecting.addr = m.conns[id].addr
    <3> DEFINE addr == m.conns[id].addr
               server == GetConnectionByAddr(n, addr, "server")
               free == [n EXCEPT !.connecting = None]
               d == m.connecting
               x == IF Reusable(n, server) THEN ReuseConnection(free, d, server)
                    ELSE IF retry THEN PendDevice(free, d) ELSE NotifyFailed(free, d)
    <3>1. n \in Manager /\ Core(n, th, C, {})
      BY <2>CutCore
    <3>2. SameEnds(n, m) /\ SameDevices(n, m) /\ n.msgs = m.msgs
      BY DEF Cut
    <3>3. n.state = m.state /\ n.connecting = m.connecting /\ n.waitings = m.waitings
      BY <3>2 DEF SameDevices
    <3>4. addr \in Addr
      BY DomainIs, SavedTypes
    <3>5. d \in Device /\ d # None /\ d.addr = addr
      <4>1. m.connecting.addr \in Addr
        BY <3>4
      <4> QED
        BY <4>1, DevicesTyped
    <3>6. m.state = "CONNECTING"
      BY <3>5 DEF Matched
    <3>7. \A i \in DOMAIN m.waitings : m.waitings[i].addr # d.addr
      BY DEF Core, Shape, OneDevice
    <3>8. free \in Manager /\ Core(free, th, C, n.connecting.reqs)
      BY <3>1, CoreFree
    <3>9. None \in Device \cup {None}
      OBVIOUS
    <3>10. /\ free.connecting = None
           /\ free.state = n.state /\ free.waitings = n.waitings /\ free.pendings = n.pendings /\ free.conns = n.conns
           /\ free.msgs = n.msgs /\ free.timers = n.timers /\ free.answers = n.answers
      <4>1. n \in Manager
        BY <3>1
      <4> QED
        BY <3>9, <4>1, SetConnecting
    <3> HIDE DEF free
    <3>11. Core(free, th, C, d.reqs) /\ \A i \in DOMAIN free.waitings : free.waitings[i].addr # d.addr
      BY <3>3, <3>7, <3>8, <3>10
    <3>12. server # 0 => server \in DOMAIN free.conns
      BY <3>1, <3>10, ConnectionIs
    <3>13. id \in DOMAIN free.conns /\ free.conns[id].addr = addr /\ ~Sent(free, "SUCCESS", id)
      BY <3>2, <3>10 DEF SameEnds, Sent, At
    <3>14. free.state = "CONNECTING"
      BY <3>3, <3>6, <3>10
    <3> HIDE DEF d, addr
    <3>15. ASSUME Reusable(n, server) PROVE Freed(ReuseConnection(free, d, server), th, C, id, addr)
      <4> DEFINE k == ReuseConnection(free, d, server)
      <4>1. server \in DOMAIN free.conns
        BY <3>12, <3>15 DEF Reusable
      <4> HIDE DEF server
      <4>2. /\ k \in Manager /\ Core(k, th, C, {}) /\ Grown(k, free) /\ Schedules(k)
            /\ SameDevices(k, free) /\ SameTimes(k, free) /\ SameEnds(k, free)
        BY <3>5, <3>8, <3>11, <4>1, CoreReuse
      <4> HIDE DEF k
      <4>3. ~Sent(k, "SUCCESS", id)
        <5>1. "SUCCESS" \in Reports
          BY DEF Reports
        <5> QED
          BY <3>13, <4>2, <5>1, GrownKeeps
      <4>4. id \in DOMAIN k.conns /\ k.conns[id].addr = addr
        BY <3>13, <4>2 DEF SameEnds
      <4>5. k.connecting = None /\ k.state = "CONNECTING" /\ k.waitings = free.waitings
        BY <3>10, <3>14, <4>2 DEF SameDevices
      <4>6. \A i \in DOMAIN k.waitings : k.waitings[i].addr # addr
        BY <3>5, <3>11, <4>5
      <4>7. Freed(k, th, C, id, addr)
        BY <4>2, <4>3, <4>4, <4>5, <4>6 DEF Freed
      <4> QED
        BY <4>7 DEF k
    <3>16. Freed(PendDevice(free, d), th, C, id, addr)
      <4> DEFINE k == PendDevice(free, d)
      <4>1. /\ k \in Manager /\ Core(k, th, C, {}) /\ k.connecting = None /\ k.state = free.state
            /\ k.conns = free.conns /\ k.msgs = free.msgs
            /\ \A i \in DOMAIN k.waitings : k.waitings[i].addr # d.addr \/ k.waitings[i].state # "WAIT_EVENT"
        BY <3>5, <3>8, <3>10, <3>11, <3>PendDeviceIs
      <4> HIDE DEF k
      <4>2. ~Sent(k, "SUCCESS", id)
        BY <3>13, <4>1 DEF Sent, At
      <4>3. Freed(k, th, C, id, addr)
        BY <3>5, <3>13, <3>14, <4>1, <4>2 DEF Freed
      <4> QED
        BY <4>3 DEF k
    <3>17. Freed(NotifyFailed(free, d), th, C, id, addr)
      <4> DEFINE k == NotifyFailed(free, d)
      <4>1. /\ k \in Manager /\ Core(k, th, C, {})
            /\ SameDevices(k, free) /\ SameTimes(k, free) /\ k.conns = free.conns /\ k.msgs = free.msgs
        BY <3>8, <3>11, CoreFailed
      <4> HIDE DEF k
      <4>2. ~Sent(k, "SUCCESS", id)
        BY <3>13, <4>1 DEF Sent, At
      <4>3. k.connecting = None /\ k.state = "CONNECTING" /\ k.waitings = free.waitings
        BY <3>10, <3>14, <4>1 DEF SameDevices
      <4>4. \A i \in DOMAIN k.waitings : k.waitings[i].addr # addr
        BY <3>5, <3>11, <4>3
      <4>5. Freed(k, th, C, id, addr)
        BY <3>13, <4>1, <4>2, <4>3, <4>4 DEF Freed
      <4> QED
        BY <4>5 DEF k
    <3> HIDE DEF server
    <3>18. Freed(x, th, C, id, addr)
      BY <3>15, <3>16, <3>17
    <3> HIDE DEF x
    <3>19. Sound(TransitionToState(RemoveConnection(x, id), "AVAILABLE"), m, th, C)
      BY <3>18, <3>FreedSound
    <3> QED
      BY <3>19 DEF x, server, free, d, addr
  <2> TAKE m \in Manager
  <2> TAKE th, C, id, collision
  <2> HAVE /\ Core(m, th, C, {})
           /\ Matched(m)
           /\ th[id] = "done"
           /\ ~Sent(m, "SUCCESS", id)
           /\ id \notin DOMAIN m.conns \/ m.connecting.addr # m.conns[id].addr => Timed(m, th)
  <2> DEFINE addr == m.conns[id].addr
             d == m.connecting
             n == SetLink(CancelTimeout(m, id), id, DisconnectNow(m.conns[id].link))
             server == GetConnectionByAddr(n, addr, "server")
             free == [n EXCEPT !.connecting = None]
             retry == RetryAfterCollision(n, id, collision)
             stray == NextCmd(RemoveConnection(Reschedule(n, addr), id))
             dial == TransitionToState(RemoveConnection(
                       IF Reusable(n, server) THEN ReuseConnection(free, d, server)
                       ELSE IF retry THEN PendDevice(free, d)
                       ELSE NotifyFailed(free, d), id), "AVAILABLE")
  <2>1. ClientConnectFailed(m, id, collision)
          = IF id \notin DOMAIN m.conns THEN m ELSE IF d.addr # addr THEN stray ELSE dial
    BY DEF ClientConnectFailed
  <2>2. id \in DOMAIN m.conns => Cut(n, m, id)
    BY <2>CutIs
  <2> HIDE DEF n, retry
  <2>3. ASSUME id \notin DOMAIN m.conns PROVE Sound(m, m, th, C)
    BY <2>3 DEF Sound, Good
  <2>4. ASSUME id \in DOMAIN m.conns, d.addr # addr PROVE Sound(stray, m, th, C)
    <3>1. Good(m, th, C, {})
      BY <2>4 DEF Good
    <3> QED
      BY <2>2, <2>4, <3>1, <2>StrayFailSound
  <2>5. ASSUME id \in DOMAIN m.conns, d.addr = addr PROVE Sound(dial, m, th, C)
    BY <2>2, <2>5, <2>DialFailSound
  <2> HIDE DEF stray, dial, addr, d
  <2> QED
    BY <2>1, <2>3, <2>4, <2>5
<1> TAKE m \in Manager
<1> TAKE id
<1> HAVE /\ Inv
         /\ Fail(m, id)
         /\ Core(m, thread, called, {})
         /\ Matched(m)
         /\ thread[id] = "done"
         /\ ~Sent(m, "SUCCESS", id)
         /\ id \notin DOMAIN m.conns \/ m.connecting.addr # m.conns[id].addr => Timed(m, thread)
         /\ Awake(mgr) => Awake(m)
<1>1. PICK collision \in BOOLEAN :
        /\ collision => events < MaxEvents
        /\ events' = events + (IF collision THEN 1 ELSE 0)
        /\ mgr' = ClientConnectFailed(m, id, collision)
        /\ UNCHANGED <<called, thread, btOn, faults>>
  BY DEF Fail
<1>2. Sound(mgr', m, thread, called)
  BY <1>1, <1>ClientConnectFailedSound
<1>3. Sound(mgr', mgr, thread, called)
  BY <1>2 DEF Sound
<1>4. events \in 0..MaxEvents /\ btOn \in BOOLEAN /\ MaxEvents \in Nat
  BY BoundsNat DEF Inv, Typed
<1>5. events' \in 0..MaxEvents
  BY SMT, <1>1, <1>4
<1>6. called' = called /\ thread' = thread /\ btOn' = btOn /\ faults' = faults
  BY <1>1
<1> QED
  BY <1>3, <1>4, <1>5, <1>6, Stays

LEMMA DelayedFailStep ==
  ASSUME SetLaws,
         Inv, HandleDelayedFail PROVE Inv'
<1>1. PICK t \in mgr.timers : t.what = "FAIL" /\ Fail(Cancel(mgr, t), t.id)
  BY DEF HandleDelayedFail
<1> DEFINE id == t.id
           m == Cancel(mgr, t)
<1>2. mgr \in Manager /\ Core(mgr, thread, called, {}) /\ Matched(mgr) /\ Timed(mgr, thread)
  BY DEF Inv, Typed, Good
<1>3. m \in Manager /\ Core(m, thread, called, {})
  <2>1. t.what \in {"FAIL", "TIMEOUT"} /\ mgr \in Manager /\ Core(mgr, thread, called, {})
    BY <1>1, <1>2
  <2> QED
    BY SMT, <2>1, CancelCore
<1>4. Matched(m) /\ (Awake(mgr) => Awake(m))
  BY <1>2, CancelAwake
<1>5. /\ m.timers = mgr.timers \ {t}
      /\ SameDevices(m, mgr) /\ m.conns = mgr.conns /\ m.msgs = mgr.msgs
  BY <1>2, CancelIs
<1> HIDE DEF m
<1>6. Told(mgr, thread) /\ Failed(mgr, id)
  BY <1>1, <1>2 DEF Core, Failed, DelayedFail
<1>7. id \in DOMAIN thread
  BY <1>1, <1>6 DEF Told, Known
<1>8. thread[id] = "done" /\ ~Sent(m, "SUCCESS", id)
  BY <1>5, <1>6, <1>7, HeadFail
<1>9. ASSUME id \notin DOMAIN m.conns \/ m.connecting.addr # m.conns[id].addr PROVE Timed(m, thread)
  <2>0. m.state = mgr.state /\ m.connecting = mgr.connecting
    BY <1>5 DEF SameDevices
  <2> SUFFICES ASSUME m.state = "CONNECTING" PROVE \E j \in Id : Attempt(m, thread, j)
    BY DEF Timed
  <2>1. PICK j \in Id : Attempt(mgr, thread, j)
    BY <1>2, <2>0 DEF Timed
  <2>2. j \in DOMAIN mgr.conns /\ mgr.conns[j].addr = mgr.connecting.addr
    BY <2>1 DEF Attempt
  <2>3. j # id
    BY <1>5, <1>9, <2>0, <2>2
  <2>4. \A f \in mgr.timers : f.what \in {"TIMEOUT", "FAIL"} /\ f.id = j => f \in m.timers
    BY <1>5, <2>3
  <2>5. j \in DOMAIN m.conns /\ m.conns[j].side = mgr.conns[j].side /\ m.conns[j].addr = mgr.conns[j].addr
    BY <1>5, <2>2
  <2>6. Grown(m, mgr) /\ m.connecting.addr = mgr.connecting.addr
    BY <1>5, <2>0, GrownSame
  <2>7. Attempt(m, thread, j)
    BY <2>1, <2>4, <2>5, <2>6, AttemptFrame
  <2> QED
    BY <2>7
<1>10. Fail(m, id)
  BY <1>1 DEF m
<1> HIDE DEF id
<1> QED
  BY <1>3, <1>4, <1>8, <1>9, <1>10, FailStep

=============================================================================
