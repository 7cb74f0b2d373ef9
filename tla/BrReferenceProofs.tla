------------------------- MODULE BrReferenceProofs --------------------------
(***************************************************************************)
(* Proofs about BrReference, for every bound on the calls of the users:    *)
(* type correctness, the conservation of the counts, the timer of the      *)
(* closing negotiation, and what the two ends of a link know of each other *)
(* when one of them cuts it.                                               *)
(***************************************************************************)
EXTENDS BrReference, FiniteSetTheorems, TLAPS

\* Every operation on the connection object keeps the object's type.
LEMMA ConnectionClosed ==
  ASSUME NEW c \in Connection
  PROVE  /\ \A delta \in Int : NotifyUpdateConnectionRc(c, delta) \in Connection
         /\ \A delta, rc \in Int : NotifyReferenceRequest(c, delta, rc) \in Connection
         /\ \A rc \in Int : NotifyReferenceResponse(c, rc) \in Connection
         /\ \A err \in {"CLOSED", "EXCEPTION"} : ReaderExit(c, err) \in Connection
         /\ \A b \in BOOLEAN : SetOccupied(c, b) \in Connection
         /\ DisconnectNow(c) \in Connection
         /\ BeginDisconnectNow(c) \in Connection
         /\ EndDisconnectNow(c) \in Connection
         /\ NegotiationTimeoutHandler(c) \in Connection
BY DEF Connection, ConnState, ConnOf, NotifyUpdateConnectionRc, ResumeFromNegotiation,
       DisconnectNow, BeginDisconnectNow, NotifyReferenceRequest, ReaderExit,
       NotifyReferenceResponse, NegotiationTimeoutHandler, SetOccupied, EndDisconnectNow

\* What p posts is a message, and the exchange keeps the wire's type.
LEMMA ExchangeType ==
  ASSUME TypeOK, NEW p \in Peer, NEW taken, NEW posted \in SUBSET Message,
         Exchange(p, taken, posted)
  PROVE  net' \in [Peer -> SUBSET Message] /\ seq' \in [Peer -> Nat]
BY DEF TypeOK, Exchange, Peer, Other

LEMMA PostedType ==
  ASSUME TypeOK, NEW p \in Peer, NEW rc \in Int
  PROVE  /\ \A delta \in {-1, 0, 1}, flag \in {"HIGH", "LOW"} :
              Posted(p, "REQUEST", delta, rc, flag) \in SUBSET Message
         /\ Posted(p, "RESPONSE", 0, rc, "HIGH") \in SUBSET Message
<1>1. Other(p) \in Peer
  BY Zenon DEF Other, Peer
<1>2. seq[Other(p)] + 1 \in Nat
  BY <1>1 DEF TypeOK
<1> QED
  BY <1>2 DEF Posted, Message

LEMMA NotifyUpdateRcType ==
  ASSUME TypeOK, NEW p \in Peer, NEW delta \in {-1, 0, 1}, NotifyUpdateRc(p, delta)
  PROVE  /\ conn' \in [Peer -> Connection]
         /\ negTimers' \in [Peer -> Nat]
         /\ net' \in [Peer -> SUBSET Message]
         /\ seq' \in [Peer -> Nat]
<1> DEFINE c == NotifyUpdateConnectionRc(conn[p], delta)
<1>1. conn[p] \in Connection /\ negTimers[p] \in Nat
  BY Zenon DEF TypeOK
<1>2. c \in Connection
  BY <1>1, ConnectionClosed
<1>3. c.rc \in Int
  BY Zenon, <1>2 DEF Connection
<1>4. conn' = [conn EXCEPT ![p] = c]
      /\ negTimers' = [negTimers EXCEPT ![p] = @ + (IF c.rc <= 0 THEN 1 ELSE 0)]
      /\ Exchange(p, {}, Posted(p, "REQUEST", delta, c.rc,
                                IF delta >= 0 THEN "HIGH" ELSE "LOW"))
  BY Zenon DEF NotifyUpdateRc
<1> HIDE DEF c
<1>5. Posted(p, "REQUEST", delta, c.rc, IF delta >= 0 THEN "HIGH" ELSE "LOW")
        \in SUBSET Message
  BY Zenon, <1>3, PostedType
<1> QED
  BY <1>1, <1>2, <1>4, <1>5, ExchangeType DEF TypeOK

LEMMA HandleRequestType ==
  ASSUME TypeOK, NEW p \in Peer, NEW m \in Message, HandleRequest(p, m)
  PROVE  /\ conn' \in [Peer -> Connection]
         /\ negTimers' \in [Peer -> Nat]
         /\ retries' \in [Peer -> Nat]
         /\ net' \in [Peer -> SUBSET Message]
         /\ seq' \in [Peer -> Nat]
<1>1. conn[p] \in Connection /\ m.delta \in Int /\ m.rc \in Int
  BY DEF TypeOK, Message
<1>2. conn[p].rc + m.delta \in Int
  BY <1>1 DEF Connection
<1>3. NotifyReferenceRequest(conn[p], m.delta, m.rc) \in Connection
  BY Zenon, <1>1, ConnectionClosed
<1>4. (IF m.rc <= 0 /\ conn[p].rc + m.delta > 0
       THEN Posted(p, "RESPONSE", 0, conn[p].rc + m.delta, "HIGH") ELSE {})
        \in SUBSET Message
  BY Zenon, <1>2, PostedType
<1>5. net' \in [Peer -> SUBSET Message] /\ seq' \in [Peer -> Nat]
  BY Zenon, <1>4, ExchangeType DEF HandleRequest
<1>6. conn' \in [Peer -> Connection]
  BY Zenon, <1>3 DEF HandleRequest, TypeOK
<1> QED
  BY <1>5, <1>6 DEF HandleRequest, TypeOK

\* Every step of the two ends keeps the types of BrReference's variables.
THEOREM TypeStep == TypeOK /\ [Next]_vars => TypeOK'
<1> SUFFICES ASSUME TypeOK, [Next]_vars PROVE TypeOK'
  BY Zenon
<1>1. CASE UNCHANGED vars
  BY Zenon, <1>1 DEF TypeOK, vars
<1>2. ASSUME NEW p \in Peer, Acquire(p) PROVE TypeOK'
  <2>1. calls' \in 0..MaxCalls /\ held' \in [Peer -> Nat]
    BY <1>2, MaxCallsNat DEF Acquire, TypeOK
  <2> QED
    BY Zenon, <1>2, <2>1, NotifyUpdateRcType DEF Acquire, TypeOK
<1>3. ASSUME NEW p \in Peer, Release(p) PROVE TypeOK'
  <2>1. held' \in [Peer -> Nat]
    BY <1>3 DEF Release, TypeOK
  <2>2. CASE conn[p].occupied
    BY <1>3, <2>1, <2>2 DEF Release, UpdateConnectionRc, TypeOK
  <2>3. CASE ~conn[p].occupied
    BY Zenon, <1>3, <2>1, <2>3, NotifyUpdateRcType DEF Release, UpdateConnectionRc, TypeOK
  <2> QED
    BY Zenon, <2>2, <2>3
<1>4. ASSUME NEW p \in Peer, UpdateLocalRc(p) PROVE TypeOK'
  BY <1>4, NotifyUpdateRcType DEF UpdateLocalRc, TypeOK
<1>5. ASSUME NEW p \in Peer, RetryNotifyReference(p) PROVE TypeOK'
  BY <1>5, NotifyUpdateRcType DEF RetryNotifyReference, TypeOK
<1>6. ASSUME NEW p \in Peer, ReceiveRequest(p) PROVE TypeOK'
  <2>1. PICK m \in net[p] :
          /\ \/ /\ peerRc' = [peerRc EXCEPT ![p] = @ \cup {m}]
                /\ Exchange(p, {m}, {})
                /\ UNCHANGED <<conn, retries, negTimers>>
             \/ HandleRequest(p, m) /\ UNCHANGED peerRc
          /\ UNCHANGED <<alive, reading, cutting, held, calls, localRc>>
    BY <1>6, Zenon DEF ReceiveRequest
  <2>2. m \in Message
    BY Zenon DEF TypeOK
  <2>3. CASE HandleRequest(p, m) /\ UNCHANGED peerRc
    BY Zenon, <2>1, <2>2, <2>3, HandleRequestType DEF TypeOK
  <2>4. CASE /\ peerRc' = [peerRc EXCEPT ![p] = @ \cup {m}]
             /\ Exchange(p, {m}, {})
             /\ UNCHANGED <<conn, retries, negTimers>>
    BY <2>1, <2>2, <2>4, ExchangeType DEF TypeOK
  <2> QED
    BY Zenon, <2>1, <2>3, <2>4
<1>7. ASSUME NEW p \in Peer, UpdatePeerRc(p) PROVE TypeOK'
  <2>1. PICK m \in peerRc[p] :
          /\ peerRc' = [peerRc EXCEPT ![p] = @ \ {m}]
          /\ HandleRequest(p, m)
          /\ UNCHANGED <<alive, reading, cutting, held, calls, localRc>>
    BY <1>7, Zenon DEF UpdatePeerRc
  <2> QED
    BY Zenon, <2>1, HandleRequestType DEF TypeOK
<1>8. ASSUME NEW p \in Peer, ReceiveResponse(p) PROVE TypeOK'
  <2>1. PICK m \in net[p] :
          /\ conn' = [conn EXCEPT ![p] = NotifyReferenceResponse(@, m.rc)]
          /\ negTimers' = [negTimers EXCEPT
               ![p] = IF m.rc > 0 /\ conn[p].state = "NEGOTIATION_CLOSING" THEN 0 ELSE @]
          /\ Exchange(p, {m}, {})
          /\ UNCHANGED <<alive, reading, cutting, held, calls, retries, localRc, peerRc>>
    BY <1>8, Zenon DEF ReceiveResponse
  <2>2. m.rc \in Int /\ conn[p] \in Connection
    BY DEF TypeOK, Message
  <2>3. NotifyReferenceResponse(conn[p], m.rc) \in Connection
    BY Zenon, <2>2, ConnectionClosed
  <2>4. net' \in [Peer -> SUBSET Message] /\ seq' \in [Peer -> Nat]
    BY <2>1, ExchangeType
  <2> QED
    BY <2>1, <2>3, <2>4, Zenon DEF TypeOK
<1>9. ASSUME NEW p \in Peer, NegotiationTimeout(p) PROVE TypeOK'
  <2>1. NegotiationTimeoutHandler(conn[p]) \in Connection
    BY Zenon, ConnectionClosed DEF TypeOK
  <2> QED
    BY <1>9, <2>1 DEF NegotiationTimeout, TypeOK
<1>10. ASSUME NEW p \in Peer, Occupy(p) \/ OccupyRelease(p) PROVE TypeOK'
  <2>1. \A b \in BOOLEAN : SetOccupied(conn[p], b) \in Connection
    BY Zenon, ConnectionClosed DEF TypeOK
  <2>2. CASE Occupy(p)
    <3>1. calls' \in 0..MaxCalls
      BY <2>2, MaxCallsNat DEF Occupy, TypeOK
    <3>2. conn' \in [Peer -> Connection]
      BY <2>1, <2>2, Zenon DEF Occupy, TypeOK
    <3> QED
      BY <2>2, <3>1, <3>2, Zenon DEF Occupy, TypeOK
  <2>3. CASE OccupyRelease(p)
    BY <2>1, <2>3, Zenon DEF OccupyRelease, TypeOK
  <2> QED
    BY Zenon, <1>10, <2>2, <2>3
<1>11. ASSUME NEW p \in Peer, BeginCut(p) \/ EndCut(p) PROVE TypeOK'
  <2>1. conn[p] \in Connection /\ conn[p].sock \in BOOLEAN
    BY Zenon DEF TypeOK, Connection
  <2>2. BeginDisconnectNow(conn[p]) \in Connection
        /\ EndDisconnectNow(conn[p]) \in Connection
    BY Zenon, <2>1, ConnectionClosed
  <2> QED
    BY <1>11, <2>1, <2>2, Zenon DEF BeginCut, EndCut, TypeOK
<1>12. ASSUME NEW p \in Peer, StopReading(p) \/ ConnectionException(p) PROVE TypeOK'
  <2>1. /\ DisconnectNow(conn[p]) \in Connection
        /\ \A err \in {"CLOSED", "EXCEPTION"} : ReaderExit(conn[p], err) \in Connection
    BY Zenon, ConnectionClosed DEF TypeOK
  <2>2. CASE StopReading(p)
    <3>1. PICK err \in {"CLOSED", "EXCEPTION"} : conn' = [conn EXCEPT ![p] = ReaderExit(@, err)]
      BY <2>2, Zenon DEF StopReading, ReaderExitStates
    <3> QED
      BY Zenon, <2>1, <2>2, <3>1 DEF StopReading, TypeOK
  <2>3. CASE ConnectionException(p)
    BY Zenon, <2>1, <2>3 DEF ConnectionException, TypeOK
  <2> QED
    BY Zenon, <1>12, <2>2, <2>3
<1> QED
  BY Zenon, <1>1, <1>2, <1>3, <1>4, <1>5, <1>6, <1>7, <1>8, <1>9, <1>10, <1>11, <1>12
     DEF Next, Handle

-----------------------------------------------------------------------------
(***************************************************************************)
(* The reference counts of BrReference: the inductive invariant, and what  *)
(* an update, a request and a deferral do to it.                           *)
(***************************************************************************)
(***************************************************************************)
(* Counting messages.                                                      *)
(***************************************************************************)
Late(S, delta, n) == {m \in S : m.delta = delta /\ m.seq >= n}

LEMMA LateType ==
  ASSUME NEW S \in SUBSET Message, IsFiniteSet(S), NEW delta, NEW n
  PROVE  IsFiniteSet(Late(S, delta, n)) /\ Cardinality(Late(S, delta, n)) \in Nat
<1>1. Late(S, delta, n) \in SUBSET S
  BY Zenon DEF Late
<1>2. IsFiniteSet(Late(S, delta, n))
  BY Zenon, <1>1, FS_Subset
<1> QED
  BY Zenon, <1>2, FS_CardinalityType

\* A message that joins a set is counted once.
LEMMA LateAdd ==
  ASSUME NEW S \in SUBSET Message, IsFiniteSet(S), NEW m \in Message, m \notin S,
         NEW delta, NEW n
  PROVE  Cardinality(Late(S \cup {m}, delta, n)) =
           IF m.delta = delta /\ m.seq >= n THEN Cardinality(Late(S, delta, n)) + 1
                                            ELSE Cardinality(Late(S, delta, n))
<1>1. IsFiniteSet(Late(S, delta, n))
  BY Zenon, LateType
<1>2. CASE m.delta = delta /\ m.seq >= n
  <2>1. Late(S \cup {m}, delta, n) = Late(S, delta, n) \cup {m}
    BY Zenon, <1>2 DEF Late
  <2>2. m \notin Late(S, delta, n)
    BY Zenon DEF Late
  <2> QED
    BY <1>1, <1>2, <2>1, <2>2, FS_AddElement, Zenon
<1>3. CASE ~(m.delta = delta /\ m.seq >= n)
  <2>1. Late(S \cup {m}, delta, n) = Late(S, delta, n)
    BY Zenon, <1>3 DEF Late
  <2> QED
    BY Zenon, <1>3, <2>1
<1> QED
  BY Zenon, <1>2, <1>3

\* A message that leaves a set is no longer counted.
LEMMA LateRemove ==
  ASSUME NEW S \in SUBSET Message, IsFiniteSet(S), NEW m \in S, NEW delta, NEW n
  PROVE  Cardinality(Late(S \ {m}, delta, n)) =
           IF m.delta = delta /\ m.seq >= n THEN Cardinality(Late(S, delta, n)) - 1
                                            ELSE Cardinality(Late(S, delta, n))
<1>1. IsFiniteSet(Late(S, delta, n))
  BY Zenon, LateType
<1>2. CASE m.delta = delta /\ m.seq >= n
  <2>1. Late(S \ {m}, delta, n) = Late(S, delta, n) \ {m}
    BY Zenon, <1>2 DEF Late
  <2>2. m \in Late(S, delta, n)
    BY Zenon, <1>2 DEF Late
  <2>3. Cardinality(Late(S, delta, n) \ {m}) = Cardinality(Late(S, delta, n)) - 1
    <3> HIDE DEF Late
    <3> QED
      BY <1>1, <2>2, FS_RemoveElement, Zenon
  <2> QED
    BY Zenon, <1>2, <2>1, <2>3
<1>3. CASE ~(m.delta = delta /\ m.seq >= n)
  <2>1. Late(S \ {m}, delta, n) = Late(S, delta, n)
    BY Zenon, <1>3 DEF Late
  <2> QED
    BY Zenon, <1>3, <2>1
<1> QED
  BY Zenon, <1>2, <1>3

LEMMA InFlightLate ==
  ASSUME NEW S \in SUBSET Message, IsFiniteSet(S)
  PROVE  /\ InFlight(S) = Cardinality(Late(S, 1, 0)) - Cardinality(Late(S, -1, 0))
         /\ InFlight(S) \in Int
<1>1. \A delta : WithDelta(S, delta) = Late(S, delta, 0)
  BY DEF WithDelta, Late, Message
<1>2. Cardinality(Late(S, 1, 0)) \in Nat /\ Cardinality(Late(S, -1, 0)) \in Nat
  BY Zenon, LateType
<1> QED
  BY <1>1, <1>2 DEF InFlight

\* A message on its way counts with its delta.
LEMMA InFlightAdd ==
  ASSUME NEW S \in SUBSET Message, IsFiniteSet(S), NEW m \in Message, m \notin S
  PROVE  InFlight(S \cup {m}) = InFlight(S) + m.delta
<1>1. IsFiniteSet(S \cup {m}) /\ S \cup {m} \in SUBSET Message
  BY Zenon, FS_AddElement
<1>2. m.delta \in {-1, 0, 1} /\ m.seq \in Nat
  BY Zenon DEF Message
<1>3. Cardinality(Late(S, 1, 0)) \in Nat /\ Cardinality(Late(S, -1, 0)) \in Nat
  BY Zenon, LateType
<1>4. Cardinality(Late(S \cup {m}, 1, 0)) =
        IF m.delta = 1 /\ m.seq >= 0 THEN Cardinality(Late(S, 1, 0)) + 1
                                     ELSE Cardinality(Late(S, 1, 0))
  BY LateAdd
<1>5. Cardinality(Late(S \cup {m}, -1, 0)) =
        IF m.delta = -1 /\ m.seq >= 0 THEN Cardinality(Late(S, -1, 0)) + 1
                                      ELSE Cardinality(Late(S, -1, 0))
  BY LateAdd
<1> QED
  BY <1>1, <1>2, <1>3, <1>4, <1>5, InFlightLate

LEMMA InFlightRemove ==
  ASSUME NEW S \in SUBSET Message, IsFiniteSet(S), NEW m \in S
  PROVE  InFlight(S \ {m}) = InFlight(S) - m.delta
<1>1. IsFiniteSet(S \ {m}) /\ S \ {m} \in SUBSET Message
  BY Zenon, FS_RemoveElement
<1>2. (S \ {m}) \cup {m} = S /\ m \notin S \ {m} /\ m \in Message
  BY Zenon
<1>3. InFlight(S) = InFlight(S \ {m}) + m.delta
  BY Zenon, <1>1, <1>2, InFlightAdd
<1>4. InFlight(S \ {m}) \in Int /\ m.delta \in Int
  BY <1>1, <1>2, InFlightLate DEF Message
<1> QED
  BY <1>3, <1>4

-----------------------------------------------------------------------------
(***************************************************************************)
(* The inductive invariant.  Wire: what is on its way to an end has        *)
(* distinct, already used sequence numbers; increments are HIGH and        *)
(* decrements LOW; a deferred message is a decrement that no increment on  *)
(* the wire precedes.  InOrder: of the messages sent since any moment, the *)
(* increments are matched by references still held and by decrements that  *)
(* follow; this is what keeps the count above the end's own references.    *)
(***************************************************************************)
Flagged(m) == (m.delta = 1 => m.flag = "HIGH") /\ (m.delta = -1 => m.flag = "LOW")

WireAt(p) ==
  /\ IsFiniteSet(net[p])
  /\ IsFiniteSet(peerRc[p])
  /\ net[p] \cap peerRc[p] = {}
  /\ \A m \in Pending(p) : m.seq <= seq[p] /\ Flagged(m)
  /\ \A m, n \in Pending(p) : m.seq = n.seq => m = n
  /\ \A m \in peerRc[p] : /\ m.delta = -1
                          /\ \A n \in net[p] : n.delta = 1 => m.seq < n.seq

Wire == \A p \in Peer : WireAt(p)

Balance(p) ==
  conn[p].rc + InFlight(Pending(p)) = References("client") + References("server")

InOrder(p) == \A n \in Nat :
  Cardinality(Late(Pending(p), 1, n))
    <= References(Other(p)) + Cardinality(Late(Pending(p), -1, n))

Counted == Linked => \A p \in Peer : Balance(p) /\ InOrder(p)

\* The same seen from one open end, whatever has become of the other: e is what
\* the last update of the other end left it with.
Ordered(S, e) == \A n \in Nat :
  Cardinality(Late(S, 1, n)) <= e + Cardinality(Late(S, -1, n))

Sane(p) == conn[p].sock => \E e \in Nat :
  /\ conn[p].rc + InFlight(Pending(p)) = References(p) + e
  /\ Ordered(Pending(p), e)

\* An end that negotiates the disconnection has no reference of its own.
Released(p) == conn[p].sock /\ conn[p].state = "NEGOTIATION_CLOSING" => held[p] = 0

OpenEnds == \A p \in Peer : Sane(p) /\ Released(p)

IInv == TypeOK /\ Wire /\ Counted /\ NegotiationHasTimer /\ OpenEnds

LEMMA PeerFacts ==
  ASSUME NEW p \in Peer
  PROVE  /\ Other(p) \in Peer /\ Other(p) # p /\ Other(Other(p)) = p
         /\ \A r \in Peer : r = p \/ r = Other(p)
         /\ \A f \in [Peer -> Int] : f["client"] + f["server"] = f[p] + f[Other(p)]
BY DEF Peer, Other

\* Taking messages off the wire and posting fresh ones keeps it in order.
LEMMA ExchangeWire ==
  ASSUME TypeOK, Wire, NEW p \in Peer, NEW taken, NEW posted \in SUBSET Message,
         IsFiniteSet(posted), \A m, n \in posted : m = n,
         \A m \in posted : m.seq = seq[Other(p)] + 1 /\ Flagged(m),
         Exchange(p, taken, posted),
         \A r \in Peer : peerRc'[r] \subseteq peerRc[r]
  PROVE  Wire'
<1> DEFINE q == Other(p)
<1>1. q \in Peer /\ q # p /\ \A r \in Peer : r = p \/ r = q
  BY Zenon, PeerFacts
<1>2. /\ net'[p] = net[p] \ taken /\ net'[q] = net[q] \cup posted
      /\ seq'[p] = seq[p] /\ seq'[q] = IF posted = {} THEN seq[q] ELSE seq[q] + 1
      /\ seq[p] \in Nat /\ seq[q] \in Nat
      /\ net[p] \subseteq Message /\ net[q] \subseteq Message
      /\ peerRc[p] \subseteq Message /\ peerRc[q] \subseteq Message
  BY Zenon, <1>1 DEF Exchange, TypeOK
<1> HIDE DEF q
<1>3. WireAt(p) /\ WireAt(q)
  BY Zenon, <1>1 DEF Wire
<1>4. IsFiniteSet(net[p] \ taken) /\ IsFiniteSet(net[q] \cup posted)
  BY <1>3, FS_Subset, FS_Union, Zenon DEF WireAt
<1>5. \A r \in Peer : IsFiniteSet(peerRc'[r])
  BY Zenon, <1>1, <1>3, FS_Subset DEF WireAt
<1>6. WireAt(p)'
  BY Zenon, <1>1, <1>2, <1>3, <1>4, <1>5 DEF WireAt, Pending
<1>7. \A m \in Message : m.seq \in Nat
  BY Zenon DEF Message
<1>8. \A m \in posted : m \notin Pending(q) /\ \A n \in Pending(q) : n.seq < m.seq
  BY <1>2, <1>3, <1>7 DEF WireAt, Pending, q
<1>9. WireAt(q)'
  <2>1. net'[q] \cap peerRc'[q] = {}
    BY Zenon, <1>1, <1>2, <1>3, <1>8 DEF WireAt, Pending
  <2>2. Pending(q)' \subseteq Pending(q) \cup posted
    BY Zenon, <1>1, <1>2 DEF Pending
  <2>3. \A m \in Pending(q)' : m.seq <= seq'[q] /\ Flagged(m)
    <3>1. \A m \in Pending(q) : m.seq <= seq'[q] /\ Flagged(m)
      BY <1>2, <1>3, <1>7 DEF WireAt, Pending
    <3>2. \A m \in posted : m.seq <= seq'[q] /\ Flagged(m)
      BY <1>2 DEF q
    <3> QED
      BY Zenon, <2>2, <3>1, <3>2
  <2>4. \A m, n \in Pending(q)' : m.seq = n.seq => m = n
    <3>1. \A m, n \in Pending(q) : m.seq = n.seq => m = n
      BY Zenon, <1>3 DEF WireAt
    <3>2. Pending(q) \subseteq Message
      BY Zenon, <1>2 DEF Pending
    <3> QED
      BY <1>7, <1>8, <2>2, <3>1, <3>2
  <2>5. \A m \in peerRc'[q] : m.delta = -1 /\ \A n \in net'[q] : n.delta = 1 => m.seq < n.seq
    BY Zenon, <1>1, <1>2, <1>3, <1>8 DEF WireAt, Pending
  <2> QED
    BY Zenon, <1>1, <1>2, <1>4, <1>5, <2>1, <2>3, <2>4, <2>5 DEF WireAt
<1> QED
  BY Zenon, <1>1, <1>6, <1>9 DEF Wire

\* What one end posts, in the form ExchangeWire asks for.
LEMMA PostedFresh ==
  ASSUME TypeOK, NEW p \in Peer, NEW rc \in Int, NEW method, NEW delta, NEW flag,
         \/ method = "REQUEST" /\ delta \in {-1, 0, 1}
            /\ flag = (IF delta >= 0 THEN "HIGH" ELSE "LOW")
         \/ method = "RESPONSE" /\ delta = 0 /\ flag = "HIGH"
  PROVE  LET P == Posted(p, method, delta, rc, flag)
         IN  /\ P \in SUBSET Message
             /\ IsFiniteSet(P)
             /\ \A m, n \in P : m = n
             /\ \A m \in P : /\ m.seq = seq[Other(p)] + 1
                            /\ m.delta = delta
                            /\ Flagged(m)
             /\ conn[p].sock => \E m \in P : P = {m}
<1>1. flag \in {"HIGH", "LOW"}
  BY Zenon
<1>2. Posted(p, method, delta, rc, flag) \in SUBSET Message
  BY Zenon, <1>1, PostedType
<1>3. IsFiniteSet(Posted(p, method, delta, rc, flag))
  BY FS_EmptySet, FS_Singleton, Zenon DEF Posted
<1>4. Other(p) \in Peer /\ seq[Other(p)] \in Nat
  BY Zenon, PeerFacts DEF TypeOK
<1> QED
  BY <1>2, <1>3, <1>4 DEF Posted, Flagged

LEMMA PendingFacts ==
  ASSUME TypeOK, Wire, NEW p \in Peer
  PROVE  /\ Pending(p) \in SUBSET Message
         /\ IsFiniteSet(Pending(p))
         /\ References(p) \in Nat
         /\ conn[p].rc \in Int
         /\ seq[p] \in Nat
         /\ \A m \in Pending(p) : m.seq \in Nat /\ m.seq <= seq[p]
         /\ InFlight(Pending(p)) \in Int
         /\ \A delta, n : Cardinality(Late(Pending(p), delta, n)) \in Nat
<1>1. Pending(p) \in SUBSET Message /\ References(p) \in Nat /\ seq[p] \in Nat
  BY DEF TypeOK, Pending, References
<1>2. IsFiniteSet(Pending(p)) /\ \A m \in Pending(p) : m.seq <= seq[p]
  BY FS_Union, Zenon DEF Wire, WireAt, Pending
<1>3. conn[p].rc \in Int
  BY Zenon DEF TypeOK, Connection
<1>4. \A m \in Pending(p) : m.seq \in Nat
  BY Zenon, <1>1 DEF Message
<1> QED
  BY Zenon, <1>1, <1>2, <1>3, <1>4, LateType, InFlightLate

\* An update of the local count, with the reference that it accounts for,
\* keeps both ends balanced and in order.
LEMMA UpdateStep ==
  ASSUME TypeOK, Wire, Counted, Linked, NEW p \in Peer, NEW delta \in {-1, 0, 1},
         NotifyUpdateRc(p, delta), peerRc' = peerRc,
         References(p)' = References(p) + delta, References(p)' \in Nat,
         References(Other(p))' = References(Other(p))
  PROVE  Counted'
<1> DEFINE q == Other(p)
           c == NotifyUpdateConnectionRc(conn[p], delta)
           flag == IF delta >= 0 THEN "HIGH" ELSE "LOW"
           P == Posted(p, "REQUEST", delta, c.rc, flag)
<1>1. q \in Peer /\ q # p /\ Other(q) = p /\ \A r \in Peer : r = p \/ r = q
  BY Zenon, PeerFacts
<1>2. /\ conn[p] \in Connection /\ conn[p].rc \in Int
      /\ c.rc = conn[p].rc + delta
  BY Zenon DEF TypeOK, Connection, NotifyUpdateConnectionRc, ConnOf
<1>3. conn' = [conn EXCEPT ![p] = c] /\ Exchange(p, {}, P)
  BY Zenon DEF NotifyUpdateRc
<1>4. c.rc \in Int
  BY <1>2
<1>5. conn'[p].rc = conn[p].rc + delta /\ conn'[q] = conn[q]
  BY Zenon, <1>1, <1>2, <1>3 DEF TypeOK
<1> HIDE DEF c
<1>6. /\ P \in SUBSET Message
      /\ IsFiniteSet(P)
      /\ \A m, n \in P : m = n
      /\ \A m \in P : m.seq = seq[q] + 1 /\ m.delta = delta /\ Flagged(m)
      /\ conn[p].sock => \E m \in P : P = {m}
  BY <1>4, PostedFresh
<1>7. PICK m \in P : P = {m}
  BY Zenon, <1>6 DEF Linked
<1> HIDE DEF P
<1>8. net'[p] = net[p] /\ net'[q] = net[q] \cup {m}
  BY Zenon, <1>1, <1>3, <1>7 DEF Exchange, TypeOK
<1>10. m \in Message /\ m.delta = delta /\ m.seq = seq[q] + 1
  BY Zenon, <1>6, <1>7
<1>11. m \notin Pending(q) /\ Pending(q)' = Pending(q) \cup {m} /\ Pending(p)' = Pending(p)
  <2>1. seq[q] \in Nat /\ \A n \in Pending(q) : n.seq \in Nat /\ n.seq <= seq[q]
    BY Zenon, <1>1, PendingFacts
  <2>2. m \notin Pending(q)
    BY <1>10, <2>1
  <2> QED
    BY Zenon, <1>8, <2>2 DEF Pending
<1>12. \A r \in Peer : Balance(r) /\ InOrder(r)
  BY Zenon DEF Counted
<1>13. References("client")' + References("server")'
         = References("client") + References("server") + delta
  <2>1. References("client") \in Nat /\ References("server") \in Nat
    BY Zenon, PendingFacts DEF Peer
  <2> QED
    BY <2>1 DEF Peer, Other
<1>14. Balance(p)'
  <2>1. conn[p].rc + InFlight(Pending(p)) = References("client") + References("server")
    BY Zenon, <1>12 DEF Balance
  <2>2. InFlight(Pending(p)) \in Int /\ References("client") \in Nat /\ References("server") \in Nat
    BY Zenon, PendingFacts DEF Peer
  <2>3. InFlight(Pending(p)') = InFlight(Pending(p))
    BY Zenon, <1>11
  <2> QED
    BY <1>2, <1>5, <1>13, <2>1, <2>2, <2>3 DEF Balance, InFlight, WithDelta
<1>15. Balance(q)'
  <2>1. conn[q].rc + InFlight(Pending(q)) = References("client") + References("server")
    BY Zenon, <1>1, <1>12 DEF Balance
  <2>2. /\ InFlight(Pending(q)) \in Int /\ conn[q].rc \in Int
        /\ References("client") \in Nat /\ References("server") \in Nat
    BY Zenon, <1>1, PendingFacts DEF Peer
  <2>3. InFlight(Pending(q) \cup {m}) = InFlight(Pending(q)) + delta
    BY Zenon, <1>1, <1>10, <1>11, PendingFacts, InFlightAdd
  <2> QED
    BY <1>5, <1>11, <1>13, <2>1, <2>2, <2>3 DEF Balance, InFlight, WithDelta
<1>16. InOrder(p)'
  BY Zenon, <1>1, <1>11, <1>12 DEF InOrder, q
<1>17. InOrder(q)'
  <2> SUFFICES ASSUME NEW n \in Nat
               PROVE  Cardinality(Late(Pending(q)', 1, n))
                        <= References(p)' + Cardinality(Late(Pending(q)', -1, n))
    BY Zenon, <1>1 DEF InOrder, Late
  <2> DEFINE up == Cardinality(Late(Pending(q), 1, n))
             down == Cardinality(Late(Pending(q), -1, n))
  <2>1. up <= References(p) + down
    BY Zenon, <1>1, <1>12 DEF InOrder
  <2>2. up \in Nat /\ down \in Nat /\ References(p) \in Nat
    BY Zenon, <1>1, PendingFacts
  <2>3. Pending(q) \in SUBSET Message /\ IsFiniteSet(Pending(q)) /\ seq[q] \in Nat
    BY Zenon, <1>1, PendingFacts
  <2>4. /\ Cardinality(Late(Pending(q)', 1, n)) =
             IF m.delta = 1 /\ m.seq >= n THEN up + 1 ELSE up
        /\ Cardinality(Late(Pending(q)', -1, n)) =
             IF m.delta = -1 /\ m.seq >= n THEN down + 1 ELSE down
    BY <1>10, <1>11, <2>3, LateAdd
  <2>5. CASE m.seq >= n
    <3> HIDE DEF up, down
    <3> QED
      BY <1>10, <2>1, <2>2, <2>4, <2>5
  <2>6. CASE ~(m.seq >= n)
    <3>1. Late(Pending(q), 1, n) = {}
      BY <1>1, <1>10, <2>3, <2>6, PendingFacts DEF Late
    <3>2. up = 0
      BY Zenon, <3>1, FS_EmptySet
    <3> HIDE DEF up, down
    <3> QED
      BY <2>2, <2>4, <2>6, <3>2
  <2> QED
    BY Zenon, <2>5, <2>6
<1> QED
  BY Zenon, <1>1, <1>14, <1>15, <1>16, <1>17 DEF Counted

\* A message that is counted leaves the rest in order, if the increments that
\* it undoes have been counted before.
LEMMA TakeOrdered ==
  ASSUME NEW S \in SUBSET Message, IsFiniteSet(S), NEW m \in S, NEW e \in Nat,
         Ordered(S, e),
         m.delta = -1 => \A n \in S : n.delta = 1 => m.seq < n.seq
  PROVE  Ordered(S \ {m}, e)
<1>1. m \in Message /\ m.delta \in {-1, 0, 1} /\ m.seq \in Nat /\ \A x \in S : x.seq \in Nat
  BY Zenon DEF Message
<1> SUFFICES ASSUME NEW n \in Nat
             PROVE  Cardinality(Late(S \ {m}, 1, n)) <= e + Cardinality(Late(S \ {m}, -1, n))
  BY Zenon DEF Ordered
<1> DEFINE Up(k) == Cardinality(Late(S, 1, k))
           Down(k) == Cardinality(Late(S, -1, k))
<1>2. \A k \in Nat : Up(k) <= e + Down(k) /\ Up(k) \in Nat /\ Down(k) \in Nat
  BY Zenon, LateType DEF Ordered
<1>3. /\ Cardinality(Late(S \ {m}, 1, n)) =
           IF m.delta = 1 /\ m.seq >= n THEN Up(n) - 1 ELSE Up(n)
      /\ Cardinality(Late(S \ {m}, -1, n)) =
           IF m.delta = -1 /\ m.seq >= n THEN Down(n) - 1 ELSE Down(n)
  BY LateRemove
<1>4. CASE ~(m.delta = -1 /\ m.seq >= n)
  <2> HIDE DEF Up, Down
  <2> QED
    BY <1>1, <1>2, <1>3, <1>4
<1>5. CASE m.delta = -1 /\ m.seq >= n
  <2> DEFINE k == m.seq + 1
  <2>1. k \in Nat /\ k > n
    BY <1>1, <1>5
  <2>2. Late(S, 1, n) = Late(S, 1, k)
    BY <1>1, <1>5, <2>1 DEF Late
  <2>3. Late(S, -1, k) \subseteq Late(S \ {m}, -1, n)
    BY <1>1, <2>1 DEF Late
  <2>4. IsFiniteSet(Late(S \ {m}, -1, n))
    BY FS_RemoveElement, LateType, Zenon
  <2>5. Down(k) <= Cardinality(Late(S \ {m}, -1, n))
    BY <2>3, <2>4, FS_Subset, Zenon
  <2>6. Up(n) = Up(k)
    BY Zenon, <2>2
  <2>7. Down(k) <= Down(n) - 1 /\ Up(k) <= e + Down(k)
    BY Zenon, <1>2, <1>3, <1>5, <2>1, <2>5
  <2>8. Up(k) \in Nat /\ Down(k) \in Nat /\ Down(n) \in Nat
    BY Zenon, <1>2, <2>1
  <2> HIDE DEF Up, Down, k
  <2> QED
    BY <1>3, <1>5, <2>6, <2>7, <2>8
<1> QED
  BY Zenon, <1>4, <1>5

\* A request that reaches the count it was on its way to keeps both ends
\* balanced; no increment that would have to be counted first is left behind.
LEMMA HandleStep ==
  ASSUME TypeOK, Wire, Counted, Linked, NEW p \in Peer, NEW m \in Pending(p),
         m.delta = -1 => \A n \in Pending(p) : n.delta = 1 => m.seq < n.seq,
         conn'[p].rc = conn[p].rc + m.delta,
         conn'[Other(p)].rc = conn[Other(p)].rc,
         Pending(p)' = Pending(p) \ {m},
         \A n \in Pending(Other(p))' \ Pending(Other(p)) : n.delta = 0,
         Pending(Other(p)) \subseteq Pending(Other(p))',
         held' = held, localRc' = localRc
  PROVE  Counted'
<1> DEFINE q == Other(p)
<1>1. q \in Peer /\ Other(q) = p /\ \A r \in Peer : r = p \/ r = q
  BY Zenon, PeerFacts
<1>2. \A r \in Peer : References(r)' = References(r) /\ References(r) \in Nat
  BY Zenon, PendingFacts DEF References
<1>3. References("client")' + References("server")'
        = References("client") + References("server")
      /\ References("client") + References("server") \in Nat
  BY <1>2 DEF Peer
<1>4. \A r \in Peer : Balance(r) /\ InOrder(r)
  BY Zenon DEF Counted
<1>5. Pending(p) \in SUBSET Message /\ IsFiniteSet(Pending(p)) /\ conn[p].rc \in Int
      /\ InFlight(Pending(p)) \in Int
  BY Zenon, PendingFacts
<1>6. m \in Message /\ m.delta \in {-1, 0, 1} /\ m.seq \in Nat
  BY Zenon, <1>5 DEF Message
<1>7. Balance(p)'
  <2>1. InFlight(Pending(p) \ {m}) = InFlight(Pending(p)) - m.delta
    BY Zenon, <1>5, InFlightRemove
  <2>2. InFlight(Pending(p))' = InFlight(Pending(p) \ {m})
    BY Zenon DEF InFlight, WithDelta
  <2> QED
    BY <1>3, <1>4, <1>5, <1>6, <2>1, <2>2 DEF Balance
<1>8. \A delta \in {-1, 1} : WithDelta(Pending(q)', delta) = WithDelta(Pending(q), delta)
                             /\ \A n \in Nat : Late(Pending(q)', delta, n) = Late(Pending(q), delta, n)
  BY DEF WithDelta, Late
<1>9. Balance(q)' /\ InOrder(q)'
  <2>1. Balance(q)'
    BY Zenon, <1>1, <1>3, <1>4, <1>8 DEF Balance, InFlight
  <2>2. InOrder(q)'
    BY Zenon, <1>1, <1>2, <1>4, <1>8 DEF InOrder
  <2> QED
    BY Zenon, <2>1, <2>2
<1>10. InOrder(p)'
  <2>1. Ordered(Pending(p), References(q)) /\ References(q) \in Nat
    BY Zenon, <1>1, <1>2, <1>4 DEF InOrder, Ordered
  <2>2. Ordered(Pending(p) \ {m}, References(q))
    BY Zenon, <1>5, <2>1, TakeOrdered
  <2> QED
    BY Zenon, <1>1, <1>2, <2>2 DEF InOrder, Ordered
<1> QED
  BY Zenon, <1>1, <1>7, <1>9, <1>10 DEF Counted

LEMMA UpdateWire ==
  ASSUME TypeOK, Wire, NEW p \in Peer, NEW delta \in {-1, 0, 1},
         NotifyUpdateRc(p, delta), peerRc' = peerRc
  PROVE  Wire'
<1> DEFINE c == NotifyUpdateConnectionRc(conn[p], delta)
           P == Posted(p, "REQUEST", delta, c.rc, IF delta >= 0 THEN "HIGH" ELSE "LOW")
<1>1. conn[p] \in Connection /\ delta \in Int
  BY DEF TypeOK
<1>2. c.rc \in Int
  BY Zenon, <1>1, ConnectionClosed DEF Connection
<1>3. Exchange(p, {}, P)
  BY Zenon DEF NotifyUpdateRc
<1> HIDE DEF c
<1>4. /\ P \in SUBSET Message /\ IsFiniteSet(P) /\ \A m, n \in P : m = n
      /\ \A m \in P : m.seq = seq[Other(p)] + 1 /\ Flagged(m)
  BY <1>2, PostedFresh
<1> HIDE DEF P
<1>5. \A r \in Peer : peerRc'[r] \subseteq peerRc[r]
  BY Zenon
<1> QED
  BY Zenon, <1>3, <1>4, <1>5, ExchangeWire

\* A decrement that reaches the count, from the wire or deferred, has no
\* increment before it.
LEMMA DecrementFirst ==
  ASSUME TypeOK, Wire, NEW p \in Peer, NEW m \in Pending(p), m.delta = -1,
         m \in peerRc[p] \/ Deliverable(p, m)
  PROVE  \A n \in Pending(p) : n.delta = 1 => m.seq < n.seq
<1>1. WireAt(p)
  BY Zenon DEF Wire
<1>2. \A n \in Pending(p) : n.seq \in Nat
  BY Zenon, PendingFacts
<1>3. \A n \in Pending(p) : n.delta = 1 => n \in net[p] /\ n.flag = "HIGH" /\ n.seq # m.seq
  BY Zenon, <1>1 DEF WireAt, Pending, Flagged
<1> QED
  BY <1>1, <1>2, <1>3 DEF WireAt, Deliverable

LEMMA RequestStep ==
  ASSUME TypeOK, Wire, Counted, NEW p \in Peer, NEW m \in Pending(p),
         m \in peerRc[p] \/ Deliverable(p, m),
         HandleRequest(p, m), peerRc' = [peerRc EXCEPT ![p] = @ \ {m}],
         held' = held, localRc' = localRc
  PROVE  Wire' /\ (Linked => Counted')
<1> DEFINE q == Other(p)
           rc == conn[p].rc + m.delta
           P == IF m.rc <= 0 /\ rc > 0 THEN Posted(p, "RESPONSE", 0, rc, "HIGH") ELSE {}
<1>1. q \in Peer /\ q # p
  BY Zenon, PeerFacts
<1>2. m \in Message /\ m.delta \in {-1, 0, 1} /\ rc \in Int
  BY PendingFacts DEF Message
<1>3. conn' = [conn EXCEPT ![p] = NotifyReferenceRequest(conn[p], m.delta, m.rc)]
      /\ Exchange(p, {m}, P)
  BY Zenon DEF HandleRequest
<1>4. conn'[p].rc = conn[p].rc + m.delta /\ conn'[q].rc = conn[q].rc
  BY Zenon, <1>1, <1>3 DEF TypeOK, NotifyReferenceRequest, ResumeFromNegotiation, DisconnectNow, ConnOf
<1> HIDE DEF rc
<1>5. /\ P \in SUBSET Message /\ IsFiniteSet(P) /\ \A x, y \in P : x = y
      /\ \A x \in P : x.seq = seq[Other(p)] + 1 /\ Flagged(x) /\ x.delta = 0
  <2> DEFINE R == Posted(p, "RESPONSE", 0, rc, "HIGH")
  <2>1. P = {} \/ P = R
    BY Zenon
  <2>2. /\ R \in SUBSET Message /\ IsFiniteSet(R) /\ \A x, y \in R : x = y
        /\ \A x \in R : x.seq = seq[Other(p)] + 1 /\ Flagged(x) /\ x.delta = 0
    BY <1>2, PostedFresh
  <2> HIDE DEF P, R
  <2> QED
    BY Zenon, <2>1, <2>2, FS_EmptySet
<1> HIDE DEF P
<1>6. \A r \in Peer : peerRc'[r] \subseteq peerRc[r]
  BY Zenon DEF TypeOK
<1>7. Wire'
  BY Zenon, <1>3, <1>5, <1>6, ExchangeWire
<1>8. /\ Pending(p)' = Pending(p) \ {m}
      /\ Pending(q)' = Pending(q) \cup P
  BY Zenon, <1>1, <1>3 DEF Pending, Exchange, TypeOK, q
<1>9. m.delta = -1 => \A n \in Pending(p) : n.delta = 1 => m.seq < n.seq
  BY Zenon, DecrementFirst
<1>10. ASSUME Linked PROVE Counted'
  BY Zenon, <1>4, <1>5, <1>8, <1>9, <1>10, HandleStep
<1> QED
  BY Zenon, <1>7, <1>10

\* A step that changes no count and nothing that is pending.
LEMMA CalmCounted ==
  ASSUME Counted,
         \A r \in Peer : conn'[r].rc = conn[r].rc /\ Pending(r)' = Pending(r),
         Linked' => Linked /\ \A r \in Peer : References(r)' = References(r)
  PROVE  Counted'
<1>1. "client" \in Peer /\ "server" \in Peer /\ \A r \in Peer : Other(r) \in Peer
  BY Zenon DEF Peer, Other
<1>2. ASSUME Linked' PROVE \A r \in Peer : Balance(r)' /\ InOrder(r)'
  <2>1. \A r \in Peer : Balance(r) /\ InOrder(r) /\ References(r)' = References(r)
    BY Zenon, <1>2 DEF Counted
  <2>2. \A r \in Peer : Balance(r)'
    BY <1>1, <2>1, Zenon DEF Balance, InFlight, WithDelta
  <2>3. \A r \in Peer : InOrder(r)'
    BY Zenon, <1>1, <2>1 DEF InOrder, Late
  <2> QED
    BY Zenon, <2>2, <2>3
<1> QED
  BY Zenon, <1>2 DEF Counted

LEMMA CalmWire ==
  ASSUME Wire, net' = net, seq' = seq, peerRc' = peerRc
  PROVE  Wire' /\ \A r \in Peer : Pending(r)' = Pending(r)
BY Zenon DEF Wire, WireAt, Pending

\* An occupied connection sets a decrement aside: it is still pending.
LEMMA DeferStep ==
  ASSUME TypeOK, Wire, Counted, NEW p \in Peer, NEW m \in net[p],
         Deliverable(p, m), m.delta = -1, Exchange(p, {m}, {}),
         peerRc' = [peerRc EXCEPT ![p] = @ \cup {m}],
         conn' = conn, held' = held, localRc' = localRc
  PROVE  Wire' /\ Counted'
<1> DEFINE q == Other(p)
<1>1. q \in Peer /\ q # p /\ \A r \in Peer : r = p \/ r = q
  BY Zenon, PeerFacts
<1>2. /\ net'[p] = net[p] \ {m} /\ net'[q] = net[q] /\ seq' = seq
      /\ peerRc'[p] = peerRc[p] \cup {m} /\ peerRc'[q] = peerRc[q]
  BY Zenon, <1>1 DEF Exchange, TypeOK
<1> HIDE DEF q
<1>3. Pending(p)' = Pending(p) /\ Pending(q)' = Pending(q)
  BY Zenon, <1>2 DEF Pending
<1>4. WireAt(p) /\ WireAt(q)
  BY Zenon, <1>1 DEF Wire
<1>5. WireAt(q)'
  BY <1>2, <1>3, <1>4, SMTT(30) DEF WireAt
<1>6. IsFiniteSet(net[p] \ {m}) /\ IsFiniteSet(peerRc[p] \cup {m})
  BY Zenon, <1>4, FS_RemoveElement, FS_AddElement DEF WireAt
<1>7. m \in Pending(p) /\ \A n \in Pending(p) : n.delta = 1 => m.seq < n.seq
  BY Zenon, DecrementFirst DEF Pending
<1>8. WireAt(p)'
  <2>1. net'[p] \cap peerRc'[p] = {}
    BY Zenon, <1>2, <1>4 DEF WireAt
  <2>2. \A k \in peerRc'[p] : k.delta = -1 /\ \A n \in net'[p] : n.delta = 1 => k.seq < n.seq
    BY Zenon, <1>2, <1>4, <1>7 DEF WireAt, Pending
  <2>3. \A k \in Pending(p)' : k.seq <= seq'[p] /\ Flagged(k)
    BY Zenon, <1>2, <1>3, <1>4 DEF WireAt
  <2>4. \A k, n \in Pending(p)' : k.seq = n.seq => k = n
    BY Zenon, <1>3, <1>4 DEF WireAt
  <2>5. IsFiniteSet(net'[p]) /\ IsFiniteSet(peerRc'[p])
    BY Zenon, <1>2, <1>6
  <2> QED
    BY Zenon, <2>1, <2>2, <2>3, <2>4, <2>5 DEF WireAt
<1>9. Counted'
  <2>1. \A r \in Peer : /\ Pending(r)' = Pending(r) /\ References(r)' = References(r)
                       /\ conn'[r].rc = conn[r].rc
    BY Zenon, <1>1, <1>3 DEF References
  <2>2. Linked' => Linked
    BY Zenon DEF Linked
  <2> QED
    BY Zenon, <2>1, <2>2, CalmCounted
<1> QED
  BY Zenon, <1>1, <1>5, <1>8, <1>9 DEF Wire

-----------------------------------------------------------------------------
(***************************************************************************)
(* Proofs about the reference negotiation of BrReference, for every bound  *)
(* on the calls of the modules.                                            *)
(***************************************************************************)
\* No operation opens a socket.
LEMMA SocketOnlyCloses ==
  ASSUME NEW c \in Connection
  PROVE  /\ \A delta : NotifyUpdateConnectionRc(c, delta).sock = c.sock
         /\ \A delta, rc : NotifyReferenceRequest(c, delta, rc).sock \in {FALSE, c.sock}
         /\ \A rc : /\ NotifyReferenceResponse(c, rc).sock = c.sock
                   /\ NotifyReferenceResponse(c, rc).rc = c.rc
         /\ \A err : ReaderExit(c, err).sock = FALSE /\ ReaderExit(c, err).rc = c.rc
         /\ \A b : SetOccupied(c, b).sock = c.sock /\ SetOccupied(c, b).rc = c.rc
         /\ DisconnectNow(c).sock = FALSE /\ DisconnectNow(c).rc = c.rc
         /\ BeginDisconnectNow(c).sock = FALSE /\ BeginDisconnectNow(c).rc = c.rc
         /\ EndDisconnectNow(c).sock = c.sock /\ EndDisconnectNow(c).rc = c.rc
         /\ NegotiationTimeoutHandler(c).sock \in {FALSE, c.sock}
         /\ NegotiationTimeoutHandler(c).rc = c.rc
BY Zenon DEF Connection, ConnOf, NotifyUpdateConnectionRc, ResumeFromNegotiation,
       DisconnectNow, BeginDisconnectNow, NotifyReferenceRequest, ReaderExit,
       NotifyReferenceResponse, NegotiationTimeoutHandler, SetOccupied, EndDisconnectNow

LEMMA LinkedBefore ==
  ASSUME TypeOK, NEW p \in Peer, NEW c, conn' = [conn EXCEPT ![p] = c],
         c.sock \in {FALSE, conn[p].sock}
  PROVE  Linked' => Linked
BY Zenon DEF Linked, TypeOK

LEMMA UpdateKeeps ==
  ASSUME TypeOK, Wire, Counted, NEW p \in Peer, NEW delta \in {-1, 0, 1},
         NotifyUpdateRc(p, delta), peerRc' = peerRc,
         References(p)' = References(p) + delta, References(p)' \in Nat,
         References(Other(p))' = References(Other(p))
  PROVE  Wire' /\ Counted'
<1>1. Wire'
  BY Zenon, UpdateWire
<1>2. Linked => Counted'
  BY Zenon, UpdateStep
<1>3. conn' = [conn EXCEPT ![p] = NotifyUpdateConnectionRc(conn[p], delta)]
      /\ conn[p] \in Connection
  BY Zenon DEF NotifyUpdateRc, TypeOK
<1>4. NotifyUpdateConnectionRc(conn[p], delta).sock = conn[p].sock
  BY <1>3, SocketOnlyCloses, Zenon
<1>5. Linked' => Linked
  BY <1>3, <1>4, LinkedBefore, Zenon
<1> QED
  BY Zenon, <1>1, <1>2, <1>5 DEF Counted

LEMMA CountedStep ==
  ASSUME TypeOK, Wire, Counted, [Next]_vars
  PROVE  Wire' /\ Counted'
<1>1. CASE UNCHANGED vars
  <2>1. \A r \in Peer : conn'[r].rc = conn[r].rc /\ References(r)' = References(r)
    BY Zenon, <1>1 DEF vars, References
  <2>2. Linked' => Linked
    BY Zenon, <1>1 DEF vars, Linked
  <2>3. net' = net /\ seq' = seq /\ peerRc' = peerRc
    BY Zenon, <1>1 DEF vars
  <2> QED
    BY Zenon, <2>1, <2>2, <2>3, CalmWire, CalmCounted
<1> SUFFICES ASSUME NEW p \in Peer,
                    \/ Acquire(p) \/ Release(p) \/ Handle(p) \/ Occupy(p)
                    \/ BeginCut(p) \/ StopReading(p)
             PROVE  Wire' /\ Counted'
  BY Zenon, <1>1 DEF Next
<1>2. /\ conn[p] \in Connection /\ Other(p) \in Peer /\ Other(p) # p
      /\ \A r \in Peer : r = p \/ r = Other(p)
      /\ held \in [Peer -> Nat] /\ localRc \in [Peer -> Nat]
      /\ conn \in [Peer -> Connection]
      /\ \A r \in Peer : net[r] \subseteq Message /\ peerRc[r] \subseteq Message
  BY Zenon, PeerFacts DEF TypeOK
<1>3. CASE Acquire(p)
  <2>1. held'[p] = held[p] + 1 /\ held'[Other(p)] = held[Other(p)] /\ localRc' = localRc
    BY Zenon, <1>2, <1>3 DEF Acquire
  <2>2. /\ References(p)' = References(p) + 1 /\ References(p)' \in Nat
        /\ References(Other(p))' = References(Other(p))
    BY <1>2, <2>1 DEF References
  <2> QED
    BY Zenon, <1>3, <2>2, UpdateKeeps DEF Acquire
<1>4. CASE Release(p)
  <2>1. held'[p] = held[p] - 1 /\ held'[Other(p)] = held[Other(p)] /\ held'[p] \in Nat
    BY <1>2, <1>4 DEF Release
  <2>2. CASE conn[p].occupied
    <3>1. /\ localRc'[p] = localRc[p] + 1 /\ localRc'[Other(p)] = localRc[Other(p)]
          /\ conn' = conn /\ net' = net /\ seq' = seq /\ peerRc' = peerRc
      BY Zenon, <1>2, <1>4, <2>2 DEF Release, UpdateConnectionRc
    <3>2. \A r \in Peer : References(r)' = References(r) /\ conn'[r].rc = conn[r].rc
      BY <1>2, <2>1, <3>1 DEF References
    <3>3. Linked' => Linked
      BY Zenon, <3>1 DEF Linked
    <3> QED
      BY Zenon, <3>1, <3>2, <3>3, CalmWire, CalmCounted
  <2>3. CASE ~conn[p].occupied
    <3>1. localRc' = localRc /\ NotifyUpdateRc(p, -1) /\ peerRc' = peerRc
      BY Zenon, <1>4, <2>3 DEF Release, UpdateConnectionRc
    <3>2. /\ References(p)' = References(p) + (-1) /\ References(p)' \in Nat
          /\ References(Other(p))' = References(Other(p))
      BY <1>2, <2>1, <3>1 DEF References
    <3> QED
      BY Zenon, <3>1, <3>2, UpdateKeeps
  <2> QED
    BY Zenon, <2>2, <2>3
<1>5. CASE UpdateLocalRc(p)
  <2>1. /\ localRc'[p] = localRc[p] - 1 /\ localRc'[Other(p)] = localRc[Other(p)]
        /\ held' = held /\ localRc'[p] \in Nat
    BY <1>2, <1>5 DEF UpdateLocalRc
  <2>2. /\ References(p)' = References(p) + (-1) /\ References(p)' \in Nat
        /\ References(Other(p))' = References(Other(p))
    BY <1>2, <2>1 DEF References
  <2> QED
    BY Zenon, <1>5, <2>2, UpdateKeeps DEF UpdateLocalRc
<1>6. CASE RetryNotifyReference(p)
  <2>1. /\ References(p)' = References(p) + 0 /\ References(p)' \in Nat
        /\ References(Other(p))' = References(Other(p))
    BY <1>2, <1>6 DEF References, RetryNotifyReference
  <2> QED
    BY Zenon, <1>6, <2>1, UpdateKeeps DEF RetryNotifyReference
<1>7. ASSUME NEW m \in Pending(p), HandleRequest(p, m),
             m \in peerRc[p] \/ Deliverable(p, m),
             peerRc' = [peerRc EXCEPT ![p] = @ \ {m}], held' = held, localRc' = localRc
      PROVE  Wire' /\ Counted'
  <2>1. Wire' /\ (Linked => Counted')
    BY <1>7, RequestStep, Zenon
  <2>2. conn' = [conn EXCEPT ![p] = NotifyReferenceRequest(conn[p], m.delta, m.rc)]
    BY Zenon, <1>7 DEF HandleRequest
  <2>3. NotifyReferenceRequest(conn[p], m.delta, m.rc).sock \in {FALSE, conn[p].sock}
    BY <1>2, SocketOnlyCloses, Zenon
  <2>4. Linked' => Linked
    BY <2>2, <2>3, LinkedBefore, Zenon
  <2> QED
    BY Zenon, <2>1, <2>4 DEF Counted
<1>8. CASE ReceiveRequest(p)
  <2>1. PICK m \in net[p] :
          /\ Deliverable(p, m) /\ m.method = "REQUEST"
          /\ IF m.delta < 0 /\ conn[p].occupied
             THEN /\ peerRc' = [peerRc EXCEPT ![p] = @ \cup {m}]
                  /\ Exchange(p, {m}, {}) /\ conn' = conn
             ELSE HandleRequest(p, m) /\ peerRc' = peerRc
          /\ held' = held /\ localRc' = localRc
    BY <1>8, Zenon DEF ReceiveRequest
  <2>2. m \in Pending(p) /\ m.delta \in {-1, 0, 1} /\ m \notin peerRc[p]
    <3>1. m \in Message
      BY Zenon, <1>2
    <3>2. m.delta \in {-1, 0, 1}
      BY Zenon, <3>1 DEF Message
    <3>3. net[p] \cap peerRc[p] = {}
      BY Zenon DEF Wire, WireAt
    <3> QED
      BY Zenon, <3>2, <3>3 DEF Pending
  <2>3. CASE m.delta < 0 /\ conn[p].occupied
    <3>1. m.delta = -1
      BY <2>2, <2>3
    <3> QED
      BY <2>1, <2>3, <3>1, DeferStep, Zenon
  <2>4. CASE ~(m.delta < 0 /\ conn[p].occupied)
    <3>1. peerRc' = [peerRc EXCEPT ![p] = @ \ {m}]
      BY Zenon, <2>1, <2>2, <2>4 DEF TypeOK
    <3> QED
      BY <1>7, <2>1, <2>2, <2>4, <3>1, Zenon
  <2> QED
    BY Zenon, <2>3, <2>4
<1>9. CASE UpdatePeerRc(p)
  <2>1. PICK m \in peerRc[p] :
          /\ peerRc' = [peerRc EXCEPT ![p] = @ \ {m}] /\ HandleRequest(p, m)
          /\ held' = held /\ localRc' = localRc
    BY <1>9, Zenon DEF UpdatePeerRc
  <2>2. m \in Pending(p)
    BY ZenonT(30) DEF Pending
  <2> QED
    BY <1>7, <2>1, <2>2, Zenon
<1>10. CASE ReceiveResponse(p)
  <2>1. PICK m \in net[p] :
          /\ Deliverable(p, m) /\ m.method = "RESPONSE"
          /\ conn' = [conn EXCEPT ![p] = NotifyReferenceResponse(conn[p], m.rc)]
          /\ Exchange(p, {m}, {})
          /\ held' = held /\ localRc' = localRc /\ peerRc' = peerRc
    BY <1>10, Zenon DEF ReceiveResponse
  <2>2. m \in Pending(p) /\ m.delta = 0 /\ m \notin peerRc[p]
    <3>1. m \in Message
      BY Zenon, <1>2
    <3>2. m.delta = 0
      BY Zenon, <2>1, <3>1 DEF Message
    <3>3. net[p] \cap peerRc[p] = {}
      BY Zenon DEF Wire, WireAt
    <3> QED
      BY Zenon, <3>2, <3>3 DEF Pending
  <2>3. Wire'
    <3>1. {} \in SUBSET Message /\ IsFiniteSet({})
      BY Zenon, FS_EmptySet
    <3>2. \A r \in Peer : peerRc'[r] \subseteq peerRc[r]
      BY <2>1, Zenon
    <3> QED
      BY <2>1, <3>1, <3>2, ExchangeWire, Zenon
  <2>4. /\ NotifyReferenceResponse(conn[p], m.rc).sock = conn[p].sock
        /\ NotifyReferenceResponse(conn[p], m.rc).rc = conn[p].rc
    BY <1>2, SocketOnlyCloses, Zenon
  <2>5. Linked' => Linked
    BY <2>1, <2>4, LinkedBefore, Zenon
  <2>6. conn'[p].rc = conn[p].rc + m.delta /\ conn'[Other(p)].rc = conn[Other(p)].rc
    <3>1. conn[p].rc \in Int
      BY Zenon, <1>2 DEF Connection
    <3>2. conn'[p].rc = conn[p].rc /\ conn'[Other(p)] = conn[Other(p)]
      BY Zenon, <1>2, <2>1, <2>4
    <3> QED
      BY <2>2, <3>1, <3>2
  <2>7. Pending(p)' = Pending(p) \ {m} /\ Pending(Other(p))' = Pending(Other(p))
    BY Zenon, <1>2, <2>1, <2>2 DEF Pending, Exchange, TypeOK
  <2>8. ASSUME Linked PROVE Counted'
    <3>1. m.delta = -1 => \A n \in Pending(p) : n.delta = 1 => m.seq < n.seq
      BY <2>2
    <3>2. /\ \A n \in Pending(Other(p))' \ Pending(Other(p)) : n.delta = 0
          /\ Pending(Other(p)) \subseteq Pending(Other(p))'
      BY Zenon, <2>7
    <3>3. m \in Pending(p) /\ held' = held /\ localRc' = localRc
      BY Zenon, <2>1, <2>2
    <3>4. Pending(p)' = Pending(p) \ {m}
      BY Zenon, <2>7
    <3> QED
      BY <2>6, <2>8, <3>1, <3>2, <3>3, <3>4, HandleStep, Zenon
  <2> QED
    BY Zenon, <2>3, <2>5, <2>8 DEF Counted
<1>11. ASSUME NEW c, c.rc = conn[p].rc, c.sock \in {FALSE, conn[p].sock},
              conn' = [conn EXCEPT ![p] = c], net' = net, seq' = seq, peerRc' = peerRc,
              localRc' = localRc, held' = held \/ ~c.sock
       PROVE  Wire' /\ Counted'
  <2>1. Linked' => Linked
    BY <1>11, LinkedBefore, Zenon
  <2>2. \A r \in Peer : conn'[r].rc = conn[r].rc
    BY Zenon, <1>2, <1>11
  <2>3. Linked' => c.sock
    BY ZenonT(30), <1>2, <1>11 DEF Linked
  <2>4. Linked' => \A r \in Peer : References(r)' = References(r)
    BY ZenonT(30), <1>11, <2>3 DEF References
  <2> QED
    BY Zenon, <1>11, <2>1, <2>2, <2>4, CalmWire, CalmCounted
<1>12. CASE NegotiationTimeout(p)
  <2> DEFINE c == NegotiationTimeoutHandler(conn[p])
  <2>1. c.rc = conn[p].rc /\ c.sock \in {FALSE, conn[p].sock}
    BY <1>2, SocketOnlyCloses, Zenon
  <2> HIDE DEF c
  <2> QED
    BY <1>11, <1>12, <2>1, Zenon DEF NegotiationTimeout, c
<1>13. CASE Occupy(p) \/ OccupyRelease(p)
  <2>1. PICK b \in BOOLEAN : conn' = [conn EXCEPT ![p] = SetOccupied(conn[p], b)]
    BY <1>13, Zenon DEF Occupy, OccupyRelease
  <2> DEFINE c == SetOccupied(conn[p], b)
  <2>2. c.rc = conn[p].rc /\ c.sock \in {FALSE, conn[p].sock}
    BY <1>2, SocketOnlyCloses, Zenon
  <2>3. net' = net /\ seq' = seq /\ peerRc' = peerRc /\ localRc' = localRc /\ held' = held
    BY <1>13, Zenon DEF Occupy, OccupyRelease
  <2> HIDE DEF c
  <2> QED
    BY <1>11, <2>1, <2>2, <2>3, Zenon DEF c
<1>14. CASE BeginCut(p) \/ EndCut(p)
  <2>1. PICK c \in {BeginDisconnectNow(conn[p]), EndDisconnectNow(conn[p])} :
          conn' = [conn EXCEPT ![p] = c]
    BY <1>14, Zenon DEF BeginCut, EndCut
  <2>2. c.rc = conn[p].rc /\ c.sock \in {FALSE, conn[p].sock}
    BY <1>2, SocketOnlyCloses, Zenon
  <2>3. net' = net /\ seq' = seq /\ peerRc' = peerRc /\ localRc' = localRc /\ held' = held
    BY <1>14, Zenon DEF BeginCut, EndCut
  <2> QED
    BY <1>11, <2>1, <2>2, <2>3, Zenon
<1>15. CASE StopReading(p) \/ ConnectionException(p)
  <2>1. PICK c \in {DisconnectNow(conn[p]), ReaderExit(conn[p], "CLOSED"),
                    ReaderExit(conn[p], "EXCEPTION")} : conn' = [conn EXCEPT ![p] = c]
    BY Zenon, <1>15 DEF StopReading, ReaderExitStates, ConnectionException
  <2>2. c.rc = conn[p].rc /\ c.sock = FALSE
    <3>1. DisconnectNow(conn[p]).rc = conn[p].rc /\ DisconnectNow(conn[p]).sock = FALSE
      BY <1>2, SocketOnlyCloses, Zenon
    <3>2. \A err : /\ ReaderExit(conn[p], err).rc = conn[p].rc
                   /\ ReaderExit(conn[p], err).sock = FALSE
      BY <1>2, SocketOnlyCloses, Zenon
    <3> QED
      BY Zenon, <2>1, <3>1, <3>2
  <2>3. net' = net /\ seq' = seq /\ peerRc' = peerRc /\ localRc' = localRc
    BY Zenon, <1>15 DEF StopReading, ConnectionException
  <2> QED
    BY <1>11, <2>1, <2>2, <2>3, Zenon
<1> QED
  BY Zenon, <1>3, <1>4, <1>5, <1>6, <1>8, <1>9, <1>10, <1>12, <1>13, <1>14, <1>15 DEF Handle

-----------------------------------------------------------------------------
(***************************************************************************)
(* The closing negotiation and its timer.                                  *)
(***************************************************************************)
LEMMA TimerStep ==
  ASSUME TypeOK, NegotiationHasTimer, [Next]_vars
  PROVE  NegotiationHasTimer'
<1>1. CASE UNCHANGED vars
  BY Zenon, <1>1 DEF vars, NegotiationHasTimer
<1> DEFINE Waits(c) == c.state = "NEGOTIATION_CLOSING"
<1> SUFFICES ASSUME NEW p \in Peer,
                    \/ Acquire(p) \/ Release(p) \/ Handle(p) \/ Occupy(p)
                    \/ BeginCut(p) \/ StopReading(p)
             PROVE  NegotiationHasTimer'
  BY Zenon, <1>1 DEF Next
<1>2. /\ conn \in [Peer -> Connection] /\ conn[p] \in Connection /\ conn[p].rc \in Int
      /\ negTimers \in [Peer -> Nat] /\ negTimers[p] \in Nat
      /\ Waits(conn[p]) => negTimers[p] > 0
      /\ \A r \in Peer : conn[r].state = "NEGOTIATION_CLOSING" => negTimers[r] > 0
  BY Zenon DEF TypeOK, Connection, NegotiationHasTimer
\* Only p moves, so only p has to be looked at.
<1>3. ASSUME NEW c, NEW n, conn' = [conn EXCEPT ![p] = c],
             negTimers' = [negTimers EXCEPT ![p] = n], Waits(c) => n > 0
      PROVE  NegotiationHasTimer'
  BY Zenon, <1>2, <1>3 DEF NegotiationHasTimer
<1>4. ASSUME NEW delta \in {-1, 0, 1}, NotifyUpdateRc(p, delta) PROVE NegotiationHasTimer'
  <2> DEFINE c == NotifyUpdateConnectionRc(conn[p], delta)
             n == negTimers[p] + (IF c.rc <= 0 THEN 1 ELSE 0)
  <2>1. conn' = [conn EXCEPT ![p] = c] /\ negTimers' = [negTimers EXCEPT ![p] = n]
    BY Zenon, <1>4 DEF NotifyUpdateRc
  <2>2. c.rc = conn[p].rc + delta /\ (Waits(c) => c.rc <= 0 \/ Waits(conn[p]))
    BY Zenon, <1>2 DEF NotifyUpdateConnectionRc, ConnOf
  <2> HIDE DEF c
  <2>3. Waits(c) => n > 0
    BY <1>2, <2>2
  <2> HIDE DEF n
  <2> QED
    BY <1>3, <2>1, <2>3, Zenon
\* A step that does not touch the timers may leave the negotiation, not enter it.
<1>5. ASSUME NEW c, conn' = [conn EXCEPT ![p] = c], negTimers' = negTimers,
             Waits(c) => Waits(conn[p])
      PROVE  NegotiationHasTimer'
  BY Zenon, <1>2, <1>5 DEF NegotiationHasTimer
<1>6. ASSUME NEW m, HandleRequest(p, m) PROVE NegotiationHasTimer'
  <2> DEFINE c == NotifyReferenceRequest(conn[p], m.delta, m.rc)
             n == IF m.rc > 0 /\ Waits(conn[p]) THEN 0 ELSE negTimers[p]
  <2>1. conn' = [conn EXCEPT ![p] = c] /\ negTimers' = [negTimers EXCEPT ![p] = n]
    BY Zenon, <1>6 DEF HandleRequest
  <2>2. Waits(c) => Waits(conn[p]) /\ ~(m.rc > 0)
    BY Zenon DEF NotifyReferenceRequest, ResumeFromNegotiation, DisconnectNow, ConnOf
  <2> HIDE DEF c
  <2>3. Waits(c) => n > 0
    BY Zenon, <1>2, <2>2
  <2> HIDE DEF n
  <2> QED
    BY <1>3, <2>1, <2>3, Zenon
<1>7. CASE Acquire(p) \/ UpdateLocalRc(p) \/ RetryNotifyReference(p)
  BY Zenon, <1>4, <1>7 DEF Acquire, UpdateLocalRc, RetryNotifyReference
<1>8. CASE Release(p)
  <2>1. NotifyUpdateRc(p, -1) \/ (conn' = conn /\ negTimers' = negTimers)
    BY Zenon, <1>8 DEF Release, UpdateConnectionRc
  <2> QED
    BY ZenonT(30), <1>2, <1>4, <2>1 DEF NegotiationHasTimer
<1>9. CASE ReceiveRequest(p) \/ UpdatePeerRc(p)
  <2>1. (\E m : HandleRequest(p, m)) \/ (conn' = conn /\ negTimers' = negTimers)
    BY <1>9, Zenon DEF ReceiveRequest, UpdatePeerRc
  <2> QED
    BY Zenon, <1>2, <1>6, <2>1 DEF NegotiationHasTimer
<1>10. CASE ReceiveResponse(p)
  <2>1. PICK m :
          /\ conn' = [conn EXCEPT ![p] = NotifyReferenceResponse(conn[p], m.rc)]
          /\ negTimers' = [negTimers EXCEPT
               ![p] = IF m.rc > 0 /\ Waits(conn[p]) THEN 0 ELSE negTimers[p]]
    BY <1>10, Zenon DEF ReceiveResponse
  <2> DEFINE c == NotifyReferenceResponse(conn[p], m.rc)
             n == IF m.rc > 0 /\ Waits(conn[p]) THEN 0 ELSE negTimers[p]
  <2>2. Waits(c) => Waits(conn[p]) /\ ~(m.rc > 0)
    BY Zenon DEF NotifyReferenceResponse, ResumeFromNegotiation, ConnOf
  <2> HIDE DEF c
  <2>3. Waits(c) => n > 0
    BY Zenon, <1>2, <2>2
  <2> HIDE DEF n
  <2> QED
    BY <1>3, <2>1, <2>3, Zenon DEF c, n
<1>11. CASE NegotiationTimeout(p)
  <2>1. ~Waits(NegotiationTimeoutHandler(conn[p]))
    BY Zenon DEF NegotiationTimeoutHandler, DisconnectNow, ConnOf
  <2> QED
    BY <1>3, <1>11, <2>1, Zenon DEF NegotiationTimeout
<1>12. CASE Occupy(p) \/ OccupyRelease(p)
  <2>1. PICK b \in BOOLEAN : conn' = [conn EXCEPT ![p] = SetOccupied(conn[p], b)]
                            /\ negTimers' = negTimers
    BY <1>12, Zenon DEF Occupy, OccupyRelease
  <2>2. Waits(SetOccupied(conn[p], b)) => Waits(conn[p])
    BY Zenon DEF SetOccupied, ConnOf
  <2> QED
    BY <1>5, <2>1, <2>2, Zenon
<1>13. CASE BeginCut(p) \/ EndCut(p) \/ ConnectionException(p)
  <2>1. PICK c \in {BeginDisconnectNow(conn[p]), EndDisconnectNow(conn[p]), DisconnectNow(conn[p])} :
          conn' = [conn EXCEPT ![p] = c] /\ negTimers' = negTimers
    BY <1>13, Zenon DEF BeginCut, EndCut, ConnectionException
  <2>2. ~Waits(c)
    BY <2>1 DEF BeginDisconnectNow, EndDisconnectNow, DisconnectNow, ConnOf
  <2> QED
    BY <1>5, <2>1, <2>2, Zenon
<1>14. CASE StopReading(p)
  <2>1. PICK err \in {"CLOSED", "EXCEPTION"} :
          conn' = [conn EXCEPT ![p] = ReaderExit(conn[p], err)] /\ negTimers' = negTimers
    BY <1>14, Zenon DEF StopReading, ReaderExitStates
  <2>2. ~Waits(ReaderExit(conn[p], err))
    BY Zenon DEF ReaderExit, ConnOf
  <2> QED
    BY <1>5, <2>1, <2>2, Zenon
<1> QED
  BY Zenon, <1>7, <1>8, <1>9, <1>10, <1>11, <1>12, <1>13, <1>14 DEF Handle

-----------------------------------------------------------------------------
(***************************************************************************)
(* What an open end knows of its count when the other one may have closed. *)
(***************************************************************************)
\* Messages without a change of the count are not counted.
Same(S, T) == \A delta \in {-1, 1} : WithDelta(S, delta) = WithDelta(T, delta)

LEMMA SameCounts ==
  ASSUME NEW S, NEW T, Same(S, T)
  PROVE  InFlight(S) = InFlight(T) /\ \A e : Ordered(S, e) <=> Ordered(T, e)
<1>1. WithDelta(S, 1) = WithDelta(T, 1) /\ WithDelta(S, -1) = WithDelta(T, -1)
  BY Zenon DEF Same
<1>2. \A n : Late(S, 1, n) = Late(T, 1, n) /\ Late(S, -1, n) = Late(T, -1, n)
  BY Zenon, <1>1 DEF WithDelta, Late
<1> QED
  BY Zenon, <1>1, <1>2 DEF InFlight, Ordered

\* The count covers the end's own references.
LEMMA CountCovers ==
  ASSUME NEW S \in SUBSET Message, IsFiniteSet(S), NEW e \in Nat, NEW r \in Nat, NEW rc \in Int,
         rc + InFlight(S) = r + e, Ordered(S, e)
  PROVE  rc >= r
<1> DEFINE up == Cardinality(Late(S, 1, 0))
           down == Cardinality(Late(S, -1, 0))
<1>1. InFlight(S) = up - down /\ up \in Nat /\ down \in Nat
  BY Zenon, InFlightLate, LateType
<1>2. up <= e + down
  BY Zenon DEF Ordered
<1> HIDE DEF up, down
<1> QED
  BY <1>1, <1>2

\* A request that reaches its count, from the wire or deferred.
LEMMA CountedRequest ==
  ASSUME TypeOK, Wire, NEW p \in Peer, Sane(p), conn[p].sock, NEW m \in Pending(p),
         m \in peerRc[p] \/ Deliverable(p, m)
  PROVE  /\ conn[p].rc + m.delta >= References(p)
         /\ \E e \in Nat :
              /\ (conn[p].rc + m.delta) + InFlight(Pending(p) \ {m}) = References(p) + e
              /\ Ordered(Pending(p) \ {m}, e)
<1>1. /\ Pending(p) \in SUBSET Message /\ IsFiniteSet(Pending(p))
      /\ References(p) \in Nat /\ conn[p].rc \in Int /\ InFlight(Pending(p)) \in Int
  BY Zenon, PendingFacts
<1>2. m.delta \in {-1, 0, 1} /\ IsFiniteSet(Pending(p) \ {m})
  BY Zenon, <1>1, FS_RemoveElement DEF Message
<1>3. PICK e \in Nat : conn[p].rc + InFlight(Pending(p)) = References(p) + e /\ Ordered(Pending(p), e)
  BY Zenon DEF Sane
<1>4. InFlight(Pending(p) \ {m}) = InFlight(Pending(p)) - m.delta
  BY Zenon, <1>1, InFlightRemove
<1>5. m.delta = -1 => \A n \in Pending(p) : n.delta = 1 => m.seq < n.seq
  BY Zenon, DecrementFirst
<1>6. Ordered(Pending(p) \ {m}, e)
  BY Zenon, <1>1, <1>3, <1>5, TakeOrdered
<1>7. (conn[p].rc + m.delta) + InFlight(Pending(p) \ {m}) = References(p) + e
  BY <1>1, <1>2, <1>3, <1>4
<1>8. conn[p].rc + m.delta \in Int
  BY <1>1, <1>2
<1>9. conn[p].rc + m.delta >= References(p)
  BY Zenon, <1>1, <1>2, <1>6, <1>7, <1>8, CountCovers
<1> QED
  BY Zenon, <1>6, <1>7, <1>9

\* The end that does not move.
LEMMA OtherEnd ==
  ASSUME TypeOK', Wire', Counted', OpenEnds, NEW p \in Peer, NEW q \in Peer, q = Other(p),
         conn'[q] = conn[q], held'[q] = held[q], localRc'[q] = localRc[q],
         ~conn'[p].sock => Same(Pending(q)', Pending(q))
  PROVE  Sane(q)' /\ Released(q)'
<1>1. Released(q)'
  BY Zenon DEF OpenEnds, Released
<1>2. CASE conn'[p].sock /\ conn'[q].sock
  <2>1. Linked'
    BY Zenon, <1>2, PeerFacts DEF Linked
  <2>2. Balance(q)' /\ InOrder(q)'
    BY Zenon, <2>1 DEF Counted
  <2>3. p = Other(q) /\ References("client")' + References("server")' = References(q)' + References(p)'
        /\ References(p)' \in Nat
    BY DEF Peer, Other, TypeOK, References
  <2>4. Ordered(Pending(q)', References(p)')
    BY Zenon, <2>2, <2>3 DEF InOrder, Ordered
  <2>5. conn'[q].rc + InFlight(Pending(q)') = References(q)' + References(p)'
    BY ZenonT(30), <2>2, <2>3 DEF Balance
  <2> QED
    BY Zenon, <1>1, <2>3, <2>4, <2>5 DEF Sane
<1>3. CASE ~conn'[p].sock
  <2>1. References(q)' = References(q)
    BY Zenon DEF References
  <2>2. InFlight(Pending(q)') = InFlight(Pending(q))
        /\ \A e : Ordered(Pending(q)', e) <=> Ordered(Pending(q), e)
    BY Zenon, <1>3, SameCounts
  <2>3. Sane(q)
    BY Zenon DEF OpenEnds
  <2> QED
    BY Zenon, <1>1, <2>1, <2>2, <2>3 DEF Sane
<1>4. CASE ~conn'[q].sock
  BY Zenon, <1>1, <1>4 DEF Sane
<1> QED
  BY Zenon, <1>2, <1>3, <1>4

\* The end that changes its count, and the references that it counts.
LEMMA UpdateOpen ==
  ASSUME TypeOK, Wire, TypeOK', Wire', Counted', OpenEnds, NEW p \in Peer,
         NEW delta \in {-1, 0, 1}, NotifyUpdateRc(p, delta), peerRc' = peerRc,
         References(p)' = References(p) + delta,
         held'[p] <= held[p] \/ conn[p].state = "CONNECTED",
         held'[Other(p)] = held[Other(p)], localRc'[Other(p)] = localRc[Other(p)]
  PROVE  OpenEnds'
<1> DEFINE q == Other(p)
           c == NotifyUpdateConnectionRc(conn[p], delta)
<1>1. q \in Peer /\ q # p /\ \A r \in Peer : r = p \/ r = q
  BY Zenon, PeerFacts
<1>2. /\ conn[p].rc \in Int /\ References(p) \in Nat /\ InFlight(Pending(p)) \in Int
      /\ Pending(p) \in SUBSET Message /\ IsFiniteSet(Pending(p))
      /\ held[p] \in Nat /\ held'[p] \in Nat /\ localRc'[p] \in Nat
      /\ conn \in [Peer -> Connection] /\ net \in [Peer -> SUBSET Message]
  BY Zenon, PendingFacts DEF TypeOK
<1>3. /\ conn' = [conn EXCEPT ![p] = c] /\ c.sock = conn[p].sock /\ c.rc = conn[p].rc + delta
      /\ c.state = (IF c.rc <= 0 THEN "NEGOTIATION_CLOSING" ELSE conn[p].state)
  BY Zenon DEF NotifyUpdateRc, NotifyUpdateConnectionRc, ConnOf
<1> HIDE DEF c
<1>4. conn'[p] = c /\ conn'[q] = conn[q]
  BY ZenonT(30), <1>1, <1>2, <1>3
<1>5. net'[p] = net[p] /\ (~conn[p].sock => net'[q] = net[q])
  BY Zenon, <1>1, <1>2 DEF NotifyUpdateRc, Exchange, Posted
<1>6. Pending(p)' = Pending(p) /\ (~conn[p].sock => Pending(q)' = Pending(q))
  BY Zenon, <1>5 DEF Pending
<1>7. ASSUME conn[p].sock
      PROVE  /\ \E e \in Nat : /\ conn'[p].rc + InFlight(Pending(p)') = References(p)' + e
                               /\ Ordered(Pending(p)', e)
             /\ conn'[p].rc >= References(p)'
  <2>1. PICK e \in Nat : conn[p].rc + InFlight(Pending(p)) = References(p) + e /\ Ordered(Pending(p), e)
    BY Zenon, <1>7 DEF OpenEnds, Sane
  <2>2. (conn[p].rc + delta) + InFlight(Pending(p)) = (References(p) + delta) + e
    BY <1>2, <2>1
  <2>3. References(p) + delta \in Nat /\ conn[p].rc + delta \in Int
    BY <1>2 DEF References
  <2>4. conn[p].rc + delta >= References(p) + delta
    BY Zenon, <1>2, <2>1, <2>2, <2>3, CountCovers
  <2>5. conn'[p].rc = conn[p].rc + delta
    BY Zenon, <1>3, <1>4
  <2> QED
    BY Zenon, <1>6, <2>1, <2>2, <2>4, <2>5
<1>8. Sane(p)'
  BY Zenon, <1>3, <1>4, <1>7 DEF Sane, InFlight, WithDelta
<1>9. Released(p)'
  <2> SUFFICES ASSUME conn'[p].sock, conn'[p].state = "NEGOTIATION_CLOSING" PROVE held'[p] = 0
    BY Zenon DEF Released
  <2>1. CASE c.rc <= 0
    <3>1. References(p)' = held'[p] + localRc'[p]
      BY Zenon DEF References
    <3>2. c.rc >= References(p)' /\ c.rc \in Int
      BY <1>2, <1>3, <1>4, <1>7
    <3> QED
      BY <1>2, <2>1, <3>1, <3>2
  <2>2. CASE ~(c.rc <= 0)
    <3>1. conn[p].sock /\ conn[p].state = "NEGOTIATION_CLOSING"
      BY Zenon, <1>3, <1>4, <2>2
    <3>2. held[p] = 0
      BY Zenon, <3>1 DEF OpenEnds, Released
    <3> QED
      BY <1>2, <3>1, <3>2
  <2> QED
    BY Zenon, <2>1, <2>2
<1>10. ~conn'[p].sock => Same(Pending(q)', Pending(q))
  BY Zenon, <1>3, <1>4, <1>6 DEF Same
<1>11. Sane(q)' /\ Released(q)'
  BY Zenon, <1>1, <1>4, <1>10, OtherEnd
<1> QED
  BY Zenon, <1>1, <1>8, <1>9, <1>11 DEF OpenEnds

\* The end that handles a request.
LEMMA RequestOpen ==
  ASSUME TypeOK, Wire, TypeOK', Wire', Counted', OpenEnds, NEW p \in Peer, NEW m \in Pending(p),
         m \in peerRc[p] \/ Deliverable(p, m),
         HandleRequest(p, m), peerRc' = [peerRc EXCEPT ![p] = @ \ {m}],
         held' = held, localRc' = localRc
  PROVE  OpenEnds'
<1> DEFINE q == Other(p)
           c == NotifyReferenceRequest(conn[p], m.delta, m.rc)
           rc == conn[p].rc + m.delta
           P == IF m.rc <= 0 /\ rc > 0 THEN Posted(p, "RESPONSE", 0, rc, "HIGH") ELSE {}
<1>1. q \in Peer /\ q # p /\ \A r \in Peer : r = p \/ r = q
  BY Zenon, PeerFacts
<1>2. conn' = [conn EXCEPT ![p] = c] /\ Exchange(p, {m}, P)
  BY Zenon DEF HandleRequest
<1>3. /\ c.rc = rc /\ c.sock \in {FALSE, conn[p].sock}
      /\ c.state = "NEGOTIATION_CLOSING" => conn[p].state = "NEGOTIATION_CLOSING"
  BY Zenon DEF NotifyReferenceRequest, ResumeFromNegotiation, DisconnectNow, ConnOf
<1>4. \A x \in P : x.delta = 0
  BY DEF Posted
<1> HIDE DEF c, P
<1>5. conn'[p] = c /\ conn'[q] = conn[q]
  BY Zenon, <1>1, <1>2 DEF TypeOK
<1>6. Pending(p)' = Pending(p) \ {m} /\ Pending(q)' = Pending(q) \cup P
  BY Zenon, <1>1, <1>2 DEF Pending, Exchange, TypeOK, q
<1>7. References(p)' = References(p)
  BY Zenon DEF References
<1>8. Sane(p)'
  <2> SUFFICES ASSUME conn'[p].sock
               PROVE  \E e \in Nat : /\ conn'[p].rc + InFlight(Pending(p)') = References(p)' + e
                                     /\ Ordered(Pending(p)', e)
    BY Zenon DEF Sane, InFlight, WithDelta
  <2>1. conn[p].sock /\ Sane(p)
    BY Zenon, <1>3, <1>5 DEF OpenEnds
  <2>2. PICK e \in Nat : /\ (conn[p].rc + m.delta) + InFlight(Pending(p) \ {m}) = References(p) + e
                         /\ Ordered(Pending(p) \ {m}, e)
    BY Zenon, <2>1, CountedRequest
  <2> QED
    BY Zenon, <1>3, <1>5, <1>6, <1>7, <2>2
<1>9. Released(p)'
  BY ZenonT(30), <1>3, <1>5 DEF OpenEnds, Released
<1>10. Same(Pending(q)', Pending(q))
  BY <1>4, <1>6 DEF Same, WithDelta
<1>11. Sane(q)' /\ Released(q)'
  BY Zenon, <1>1, <1>5, <1>10, OtherEnd
<1> QED
  BY Zenon, <1>1, <1>8, <1>9, <1>11 DEF OpenEnds

\* A step of p that changes no count.
LEMMA CalmOpen ==
  ASSUME TypeOK, TypeOK', Wire', Counted', OpenEnds, NEW p \in Peer, NEW c,
         conn' = [conn EXCEPT ![p] = c], c.rc = conn[p].rc, c.sock \in {FALSE, conn[p].sock},
         c.sock /\ c.state = "NEGOTIATION_CLOSING" =>
           conn[p].state = "NEGOTIATION_CLOSING" /\ held'[p] <= held[p],
         c.sock => References(p)' = References(p),
         held'[Other(p)] = held[Other(p)], localRc'[Other(p)] = localRc[Other(p)],
         \A r \in Peer : Same(Pending(r)', Pending(r))
  PROVE  OpenEnds'
<1> DEFINE q == Other(p)
<1>1. q \in Peer /\ q # p /\ \A r \in Peer : r = p \/ r = q
  BY Zenon, PeerFacts
<1>2. conn'[p] = c /\ conn'[q] = conn[q] /\ held[p] \in Nat /\ held'[p] \in Nat
  BY Zenon, <1>1 DEF TypeOK
<1>3. InFlight(Pending(p)') = InFlight(Pending(p))
      /\ \A e : Ordered(Pending(p)', e) <=> Ordered(Pending(p), e)
  BY ZenonT(30), SameCounts
<1>4. Sane(p)'
  BY Zenon, <1>2, <1>3 DEF OpenEnds, Sane
<1>5. Released(p)'
  <2> SUFFICES ASSUME c.sock, c.state = "NEGOTIATION_CLOSING" PROVE held'[p] = 0
    BY Zenon, <1>2 DEF Released
  <2>1. conn[p].sock /\ conn[p].state = "NEGOTIATION_CLOSING" /\ held'[p] <= held[p]
    BY ZenonT(30)
  <2>2. held[p] = 0
    BY Zenon, <2>1 DEF OpenEnds, Released
  <2> QED
    BY <1>2, <2>1, <2>2
<1>6. Sane(q)' /\ Released(q)'
  BY Zenon, <1>1, <1>2, OtherEnd
<1> QED
  BY ZenonT(30), <1>1, <1>4, <1>5, <1>6 DEF OpenEnds

LEMMA OpenStep ==
  ASSUME TypeOK, Wire, TypeOK', Wire', Counted', OpenEnds, [Next]_vars
  PROVE  OpenEnds'
<1>1. CASE UNCHANGED vars
  BY Zenon, <1>1 DEF vars, OpenEnds, Sane, Released, References, Pending, InFlight, WithDelta
<1> SUFFICES ASSUME NEW p \in Peer,
                    \/ Acquire(p) \/ Release(p) \/ Handle(p) \/ Occupy(p)
                    \/ BeginCut(p) \/ StopReading(p)
             PROVE  OpenEnds'
  BY Zenon, <1>1 DEF Next
<1>2. /\ conn[p] \in Connection /\ Other(p) \in Peer /\ Other(p) # p
      /\ \A r \in Peer : r = p \/ r = Other(p)
      /\ held \in [Peer -> Nat] /\ localRc \in [Peer -> Nat]
      /\ conn \in [Peer -> Connection]
      /\ \A r \in Peer : net[r] \subseteq Message /\ peerRc[r] \subseteq Message
  BY Zenon, PeerFacts DEF TypeOK
<1>3. CASE Acquire(p)
  <2>1. held'[p] = held[p] + 1 /\ held'[Other(p)] = held[Other(p)] /\ localRc' = localRc
    BY ZenonT(30), <1>2, <1>3 DEF Acquire
  <2>2. References(p)' = References(p) + 1
    BY <1>2, <2>1 DEF References
  <2> QED
    BY Zenon, <1>3, <2>1, <2>2, UpdateOpen DEF Acquire
<1>4. ASSUME NotifyUpdateRc(p, -1), peerRc' = peerRc, held'[p] <= held[p],
             References(p)' = References(p) + (-1),
             held'[Other(p)] = held[Other(p)], localRc'[Other(p)] = localRc[Other(p)]
      PROVE  OpenEnds'
  BY Zenon, <1>4, UpdateOpen
<1>5. ASSUME NEW c, conn' = [conn EXCEPT ![p] = c], c.rc = conn[p].rc,
             c.sock \in {FALSE, conn[p].sock},
             c.sock /\ c.state = "NEGOTIATION_CLOSING" => conn[p].state = "NEGOTIATION_CLOSING",
             net' = net, peerRc' = peerRc, localRc' = localRc,
             held' = held \/ (~c.sock /\ held'[Other(p)] = held[Other(p)])
      PROVE  OpenEnds'
  <2>1. \A r \in Peer : Same(Pending(r)', Pending(r))
    BY Zenon, <1>5 DEF Same, Pending
  <2>2. c.sock => References(p)' = References(p) /\ held'[p] <= held[p]
    BY <1>2, <1>5 DEF References
  <2>3. held'[Other(p)] = held[Other(p)] /\ localRc'[Other(p)] = localRc[Other(p)]
    BY Zenon, <1>5
  <2> QED
    BY ZenonT(30), <1>5, <2>1, <2>2, <2>3, CalmOpen
<1>6. CASE Release(p)
  <2>1. held'[p] = held[p] - 1 /\ held'[Other(p)] = held[Other(p)] /\ held'[p] <= held[p]
    BY <1>2, <1>6 DEF Release
  <2>2. CASE conn[p].occupied
    <3>1. /\ localRc'[p] = localRc[p] + 1 /\ localRc'[Other(p)] = localRc[Other(p)]
          /\ conn' = conn /\ net' = net /\ peerRc' = peerRc
      BY Zenon, <1>2, <1>6, <2>2 DEF Release, UpdateConnectionRc
    <3>2. References(p)' = References(p)
      BY <1>2, <2>1, <3>1 DEF References
    <3>3. \A r \in Peer : Same(Pending(r)', Pending(r))
      BY Zenon, <3>1 DEF Same, Pending
    <3>4. conn' = [conn EXCEPT ![p] = conn[p]]
      BY Zenon, <1>2, <3>1
    <3> QED
      BY ZenonT(30), <2>1, <3>1, <3>2, <3>3, <3>4, CalmOpen
  <2>3. CASE ~conn[p].occupied
    <3>1. localRc' = localRc /\ NotifyUpdateRc(p, -1) /\ peerRc' = peerRc
      BY ZenonT(30), <1>6, <2>3 DEF Release, UpdateConnectionRc
    <3>2. References(p)' = References(p) + (-1)
      BY <1>2, <2>1, <3>1 DEF References
    <3> QED
      BY Zenon, <1>4, <2>1, <3>1, <3>2
  <2> QED
    BY Zenon, <2>2, <2>3
<1>7. CASE UpdateLocalRc(p)
  <2>1. /\ localRc'[p] = localRc[p] - 1 /\ localRc'[Other(p)] = localRc[Other(p)]
        /\ held' = held /\ held'[p] <= held[p] /\ NotifyUpdateRc(p, -1) /\ peerRc' = peerRc
    BY <1>2, <1>7 DEF UpdateLocalRc
  <2>2. References(p)' = References(p) + (-1)
    BY <1>2, <2>1 DEF References
  <2> QED
    BY Zenon, <1>4, <2>1, <2>2
<1>8. CASE RetryNotifyReference(p)
  <2>1. References(p)' = References(p) + 0 /\ held'[p] <= held[p]
    BY <1>2, <1>8 DEF References, RetryNotifyReference
  <2> QED
    BY ZenonT(30), <1>8, <2>1, UpdateOpen DEF RetryNotifyReference
<1>9. CASE ReceiveRequest(p)
  <2>1. PICK m \in net[p] :
          /\ Deliverable(p, m)
          /\ IF m.delta < 0 /\ conn[p].occupied
             THEN /\ peerRc' = [peerRc EXCEPT ![p] = @ \cup {m}]
                  /\ Exchange(p, {m}, {}) /\ conn' = conn
             ELSE HandleRequest(p, m) /\ peerRc' = peerRc
          /\ held' = held /\ localRc' = localRc
    BY ZenonT(30), <1>9 DEF ReceiveRequest
  <2>2. m \in Pending(p) /\ m \notin peerRc[p]
    BY Zenon DEF Pending, Wire, WireAt
  <2>3. CASE m.delta < 0 /\ conn[p].occupied
    <3>1. /\ net'[p] = net[p] \ {m} /\ net'[Other(p)] = net[Other(p)]
          /\ peerRc'[p] = peerRc[p] \cup {m} /\ peerRc'[Other(p)] = peerRc[Other(p)]
      BY <1>2, <2>1, <2>3 DEF Exchange, TypeOK
    <3>2. \A r \in Peer : Pending(r)' = Pending(r)
      BY ZenonT(30), <1>2, <3>1 DEF Pending
    <3>3. \A r \in Peer : Same(Pending(r)', Pending(r))
      BY ZenonT(30), <3>2 DEF Same
    <3>4. /\ conn' = [conn EXCEPT ![p] = conn[p]] /\ held'[p] <= held[p]
          /\ References(p)' = References(p)
      BY <1>2, <2>1, <2>3 DEF References
    <3> QED
      BY ZenonT(30), <2>1, <3>3, <3>4, CalmOpen
  <2>4. CASE ~(m.delta < 0 /\ conn[p].occupied)
    <3>1. peerRc' = [peerRc EXCEPT ![p] = @ \ {m}]
      BY Zenon, <2>1, <2>2, <2>4 DEF TypeOK
    <3> QED
      BY Zenon, <2>1, <2>2, <2>4, <3>1, RequestOpen
  <2> QED
    BY Zenon, <2>3, <2>4
<1>10. CASE UpdatePeerRc(p)
  <2>1. PICK m \in peerRc[p] :
          /\ peerRc' = [peerRc EXCEPT ![p] = @ \ {m}] /\ HandleRequest(p, m)
          /\ held' = held /\ localRc' = localRc
    BY <1>10, Zenon DEF UpdatePeerRc
  <2>2. m \in Pending(p)
    BY Zenon DEF Pending
  <2> QED
    BY Zenon, <2>1, <2>2, RequestOpen
<1>11. CASE ReceiveResponse(p)
  <2>1. PICK m \in net[p] :
          /\ m.method = "RESPONSE"
          /\ conn' = [conn EXCEPT ![p] = NotifyReferenceResponse(conn[p], m.rc)]
          /\ Exchange(p, {m}, {})
          /\ held' = held /\ localRc' = localRc /\ peerRc' = peerRc
    BY <1>11, Zenon DEF ReceiveResponse
  <2>2. m.delta = 0
    BY Zenon, <1>2, <2>1 DEF Message
  <2>3. net'[p] = net[p] \ {m} /\ net'[Other(p)] = net[Other(p)]
    BY <1>2, <2>1 DEF Exchange, TypeOK
  <2>4. \A r \in Peer : Same(Pending(r)', Pending(r))
    BY <1>2, <2>1, <2>2, <2>3 DEF Same, WithDelta, Pending
  <2> DEFINE c == NotifyReferenceResponse(conn[p], m.rc)
  <2>5. /\ c.sock = conn[p].sock /\ c.rc = conn[p].rc
        /\ c.state = "NEGOTIATION_CLOSING" => conn[p].state = "NEGOTIATION_CLOSING"
    BY Zenon DEF NotifyReferenceResponse, ResumeFromNegotiation, ConnOf
  <2>6. held'[p] <= held[p] /\ References(p)' = References(p)
    BY <1>2, <2>1 DEF References
  <2>7. conn' = [conn EXCEPT ![p] = c]
    BY Zenon, <2>1
  <2> HIDE DEF c
  <2> QED
    BY Zenon, <2>1, <2>4, <2>5, <2>6, <2>7, CalmOpen
<1>12. CASE NegotiationTimeout(p)
  <2> DEFINE c == NegotiationTimeoutHandler(conn[p])
  <2>1. c.rc = conn[p].rc /\ c.sock \in {FALSE, conn[p].sock}
    BY <1>2, SocketOnlyCloses, Zenon
  <2>2. c.state = "NEGOTIATION_CLOSING" => conn[p].state = "NEGOTIATION_CLOSING"
    BY Zenon DEF NegotiationTimeoutHandler, DisconnectNow, ConnOf
  <2> HIDE DEF c
  <2> QED
    BY <1>5, <1>12, <2>1, <2>2, Zenon DEF NegotiationTimeout, c
<1>13. CASE Occupy(p) \/ OccupyRelease(p)
  <2>1. PICK b \in BOOLEAN : conn' = [conn EXCEPT ![p] = SetOccupied(conn[p], b)]
    BY <1>13, Zenon DEF Occupy, OccupyRelease
  <2> DEFINE c == SetOccupied(conn[p], b)
  <2>2. c.rc = conn[p].rc /\ c.sock \in {FALSE, conn[p].sock}
    BY <1>2, SocketOnlyCloses, Zenon
  <2>3. c.state = "NEGOTIATION_CLOSING" => conn[p].state = "NEGOTIATION_CLOSING"
    BY Zenon DEF SetOccupied, ConnOf
  <2>4. net' = net /\ peerRc' = peerRc /\ localRc' = localRc /\ held' = held
    BY <1>13, Zenon DEF Occupy, OccupyRelease
  <2> HIDE DEF c
  <2> QED
    BY <1>5, <2>1, <2>2, <2>3, <2>4, Zenon DEF c
<1>14. CASE BeginCut(p) \/ EndCut(p)
  <2>1. PICK c \in {BeginDisconnectNow(conn[p]), EndDisconnectNow(conn[p])} :
          conn' = [conn EXCEPT ![p] = c]
    BY <1>14, Zenon DEF BeginCut, EndCut
  <2>2. c.rc = conn[p].rc /\ c.sock \in {FALSE, conn[p].sock}
    BY <1>2, SocketOnlyCloses, Zenon
  <2>3. c.state # "NEGOTIATION_CLOSING"
    BY <2>1 DEF BeginDisconnectNow, EndDisconnectNow, ConnOf
  <2>4. net' = net /\ peerRc' = peerRc /\ localRc' = localRc /\ held' = held
    BY <1>14, Zenon DEF BeginCut, EndCut
  <2> QED
    BY <1>5, <2>1, <2>2, <2>3, <2>4, Zenon
<1>15. CASE StopReading(p) \/ ConnectionException(p)
  <2>1. PICK c \in {DisconnectNow(conn[p]), ReaderExit(conn[p], "CLOSED"),
                    ReaderExit(conn[p], "EXCEPTION")} : conn' = [conn EXCEPT ![p] = c]
    BY Zenon, <1>15 DEF StopReading, ReaderExitStates, ConnectionException
  <2>2. c.rc = conn[p].rc /\ c.sock = FALSE
    BY <2>1 DEF DisconnectNow, ReaderExit, ConnOf
  <2>3. net' = net /\ peerRc' = peerRc /\ localRc' = localRc
    BY Zenon, <1>15 DEF StopReading, ConnectionException
  <2>4. held'[Other(p)] = held[Other(p)]
    BY Zenon, <1>2, <1>15 DEF StopReading, ConnectionException
  <2> QED
    BY <1>5, <2>1, <2>2, <2>3, <2>4, Zenon
<1> QED
  BY Zenon, <1>3, <1>6, <1>7, <1>8, <1>9, <1>10, <1>11, <1>12, <1>13, <1>14, <1>15 DEF Handle

-----------------------------------------------------------------------------
LEMMA InitIInv == Init => IInv
<1> SUFFICES ASSUME Init PROVE IInv
  BY Zenon
<1>1. /\ \A p \in Peer : conn[p] = ConnOf("CONNECTED", TRUE, 1, FALSE)
      /\ conn \in [Peer -> Connection]
  BY DEF Init, NewConnection, ClientSocketReady, ConnOf, Connection, ConnState
<1>2. TypeOK
  BY <1>1, MaxCallsNat DEF Init, TypeOK
<1>3. \A p \in Peer : net[p] = {} /\ peerRc[p] = {} /\ Pending(p) = {}
  BY Zenon DEF Init, Pending
<1>4. Wire
  BY Zenon, <1>3, FS_EmptySet DEF Wire, WireAt
<1>5. References("client") = 1 /\ References("server") = 0
  BY DEF Init, References, Peer
<1>6. \A p \in Peer : InFlight(Pending(p)) = 0
  <2>1. \A delta : WithDelta({}, delta) = {}
    BY Zenon DEF WithDelta
  <2> QED
    BY <1>3, <2>1, FS_EmptySet DEF InFlight
<1>7. \A p \in Peer : Balance(p)
  BY <1>1, <1>5, <1>6 DEF Balance, ConnOf
<1>8. \A p \in Peer : InOrder(p)
  <2>1. \A delta, n : Late({}, delta, n) = {}
    BY Zenon DEF Late
  <2>2. \A p \in Peer : References(Other(p)) \in Nat
    BY <1>5 DEF Peer, Other
  <2>3. Cardinality({}) = 0
    BY Zenon, FS_EmptySet
  <2>4. \A p \in Peer, n \in Nat : Late(Pending(p), 1, n) = {} /\ Late(Pending(p), -1, n) = {}
    BY Zenon, <1>3, <2>1
  <2> QED
    BY <2>2, <2>3, <2>4 DEF InOrder
<1>9. NegotiationHasTimer /\ \A p \in Peer : Released(p)
  BY <1>1 DEF NegotiationHasTimer, Released, ConnOf
<1>10. ASSUME NEW p \in Peer PROVE Sane(p)
  <2>1. conn[p].rc + InFlight(Pending(p)) = References(p) + References(Other(p))
    BY <1>5, <1>7 DEF Balance, Peer, Other
  <2>2. Ordered(Pending(p), References(Other(p))) /\ References(Other(p)) \in Nat
    BY <1>5, <1>8 DEF InOrder, Ordered, Peer, Other
  <2> QED
    BY Zenon, <2>1, <2>2 DEF Sane
<1> QED
  BY Zenon, <1>2, <1>4, <1>7, <1>8, <1>9, <1>10 DEF IInv, Counted, OpenEnds

\* Every variable of the negotiation keeps its type, for every number of calls.
THEOREM TypeCorrect == Spec => []TypeOK
<1>1. Init => TypeOK
  BY Zenon, InitIInv DEF IInv
<1>2. TypeOK /\ [Next]_vars => TypeOK'
  BY Zenon, TypeStep
<1> QED
  BY <1>1, <1>2, PTL DEF Spec

\* The inductive invariant: the wire is in order and both counts agree with
\* the references once what is pending is taken into account.
THEOREM Invariance == Spec => []IInv
<1>1. IInv /\ [Next]_vars => IInv'
  BY Zenon, TypeStep, CountedStep, TimerStep, OpenStep DEF IInv
<1> QED
  BY <1>1, InitIInv, PTL DEF Spec

\* No update of the reference count is lost, doubled or misdirected.
THEOREM CountsConserved == Spec => []Conservation
<1>1. IInv => Conservation
  BY Zenon DEF IInv, Counted, Balance, Conservation
<1> QED
  BY <1>1, Invariance, PTL

\* No message order lets an end's count fall below its own references.
THEOREM OwnCountSafe == Spec => []OwnReferencesCounted
<1>1. ASSUME IInv, Linked, NEW p \in Peer PROVE conn[p].rc >= References(p)
  <2> DEFINE q == Other(p)
  <2>1. q \in Peer /\ References("client") + References("server") = References(p) + References(q)
    <3>1. References("client") \in Nat /\ References("server") \in Nat
      BY Zenon, <1>1, PendingFacts DEF IInv, Peer
    <3> QED
      BY <3>1 DEF Peer, Other
  <2>2. /\ References(p) \in Nat /\ References(q) \in Nat /\ conn[p].rc \in Int
        /\ Pending(p) \in SUBSET Message /\ IsFiniteSet(Pending(p))
        /\ \A delta, n : Cardinality(Late(Pending(p), delta, n)) \in Nat
    BY Zenon, <1>1, <2>1, PendingFacts DEF IInv
  <2>3. Balance(p) /\ InOrder(p)
    BY ZenonT(30), <1>1 DEF IInv, Counted
  <2>4. InFlight(Pending(p))
          = Cardinality(Late(Pending(p), 1, 0)) - Cardinality(Late(Pending(p), -1, 0))
    BY Zenon, <2>2, InFlightLate
  <2>5. Cardinality(Late(Pending(p), 1, 0))
          <= References(q) + Cardinality(Late(Pending(p), -1, 0))
    BY Zenon, <2>3 DEF InOrder
  <2>6. conn[p].rc + InFlight(Pending(p)) = References(p) + References(q)
    BY Zenon, <2>1, <2>3 DEF Balance
  <2> HIDE DEF q
  <2> QED
    BY <2>2, <2>4, <2>5, <2>6
<1>2. IInv => OwnReferencesCounted
  BY Zenon, <1>1 DEF OwnReferencesCounted
<1> QED
  BY <1>2, Invariance, PTL

\* A closing negotiation always has a timer that ends it.
THEOREM NegotiationEnds == Spec => []NegotiationHasTimer
<1>1. IInv => NegotiationHasTimer
  BY Zenon DEF IInv
<1> QED
  BY <1>1, Invariance, PTL

\* The negotiation, by a request of the peer or by its timer, cuts the link only
\* at an end whose modules hold no reference.
THEOREM NoOwnCut == Spec => NoCutUnderOwnReference
<1> DEFINE Cuts(p) == NegotiatedCut(p) => held[p] = 0
<1>1. ASSUME IInv, Next, NEW p \in Peer, NegotiatedCut(p) PROVE held[p] = 0
  <2>1. /\ conn \in [Peer -> Connection] /\ Sane(p) /\ Released(p)
        /\ \A r \in Peer : conn[r] \in Connection
        /\ held[p] \in Nat /\ localRc[p] \in Nat /\ conn[p].rc \in Int
        /\ \A r \in Peer : net[r] \subseteq Message /\ peerRc[r] \subseteq Message
    BY Zenon, <1>1 DEF IInv, TypeOK, OpenEnds, Connection
  <2>2. conn[p].sock /\ ~conn'[p].sock /\ alive'[p] /\ reading'[p] /\ ~cutting'[p]
    BY Zenon, <1>1 DEF NegotiatedCut
  <2>3. PICK r \in Peer : \/ Acquire(r) \/ Release(r) \/ Handle(r) \/ Occupy(r)
                          \/ BeginCut(r) \/ StopReading(r)
    BY Zenon, <1>1 DEF Next
  <2>4. ASSUME NEW c, conn' = [conn EXCEPT ![r] = c] PROVE r = p /\ conn'[p] = c /\ ~c.sock
    BY Zenon, <2>1, <2>2, <2>4
  <2>5. ASSUME NEW m \in Pending(r), HandleRequest(r, m), m \in peerRc[r] \/ Deliverable(r, m)
        PROVE  held[p] = 0
    <3> DEFINE c == NotifyReferenceRequest(conn[r], m.delta, m.rc)
    <3>1. conn' = [conn EXCEPT ![r] = c]
      BY Zenon, <2>5 DEF HandleRequest
    <3>2. r = p /\ ~c.sock
      BY <2>4, <3>1, Zenon
    <3>3. conn[p].rc + m.delta <= 0
      BY Zenon, <2>2, <3>2 DEF NotifyReferenceRequest, ResumeFromNegotiation, DisconnectNow, ConnOf
    <3>4. conn[p].rc + m.delta >= References(p)
      BY ZenonT(30), <1>1, <2>1, <2>2, <2>5, <3>2, CountedRequest DEF IInv
    <3>5. m.delta \in Int
      BY <2>1, <2>5 DEF Pending, Message
    <3>6. References(p) = held[p] + localRc[p] /\ conn[p].rc + m.delta \in Int
      BY <2>1, <3>5 DEF References
    <3> HIDE DEF c
    <3> QED
      BY <2>1, <3>3, <3>4, <3>6
  <2>6. CASE ReceiveRequest(r) \/ UpdatePeerRc(r)
    <3>1. \/ conn' = conn
          \/ \E m \in Pending(r) : HandleRequest(r, m) /\ (m \in peerRc[r] \/ Deliverable(r, m))
      BY <2>6, Zenon DEF ReceiveRequest, UpdatePeerRc, Pending
    <3> QED
      BY Zenon, <2>2, <2>5, <3>1
  <2>7. CASE NegotiationTimeout(r)
    <3>1. conn' = [conn EXCEPT ![r] = NegotiationTimeoutHandler(conn[r])]
      BY Zenon, <2>7 DEF NegotiationTimeout
    <3>2. r = p /\ ~NegotiationTimeoutHandler(conn[p]).sock
      BY <2>4, <3>1, Zenon
    <3>3. conn[p].state = "NEGOTIATION_CLOSING"
      BY Zenon, <2>2, <3>2 DEF NegotiationTimeoutHandler
    <3> QED
      BY Zenon, <2>1, <2>2, <3>3 DEF Released
  <2>8. ASSUME NEW delta \in {-1, 0, 1}, NotifyUpdateRc(r, delta) PROVE FALSE
    <3>1. conn' = [conn EXCEPT ![r] = NotifyUpdateConnectionRc(conn[r], delta)]
      BY Zenon, <2>8 DEF NotifyUpdateRc
    <3>2. r = p /\ ~NotifyUpdateConnectionRc(conn[p], delta).sock
      BY <2>4, <3>1, Zenon
    <3> QED
      BY Zenon, <2>2, <3>2 DEF NotifyUpdateConnectionRc, ConnOf
  <2>9. CASE Acquire(r) \/ Release(r) \/ UpdateLocalRc(r) \/ RetryNotifyReference(r)
    <3>1. conn' = conn \/ \E delta \in {-1, 0, 1} : NotifyUpdateRc(r, delta)
      BY Zenon, <2>9 DEF Acquire, Release, UpdateConnectionRc, UpdateLocalRc, RetryNotifyReference
    <3> QED
      BY Zenon, <2>2, <2>8, <3>1
  <2>10. CASE ReceiveResponse(r) \/ Occupy(r) \/ OccupyRelease(r) \/ EndCut(r)
    <3>1. PICK c : conn' = [conn EXCEPT ![r] = c] /\ c.sock = conn[r].sock
      <4>1. \/ \E rc : conn' = [conn EXCEPT ![r] = NotifyReferenceResponse(conn[r], rc)]
            \/ \E b : conn' = [conn EXCEPT ![r] = SetOccupied(conn[r], b)]
            \/ conn' = [conn EXCEPT ![r] = EndDisconnectNow(conn[r])]
        BY <2>10, Zenon DEF ReceiveResponse, Occupy, OccupyRelease, EndCut
      <4>2. /\ \A rc : NotifyReferenceResponse(conn[r], rc).sock = conn[r].sock
            /\ \A b : SetOccupied(conn[r], b).sock = conn[r].sock
            /\ EndDisconnectNow(conn[r]).sock = conn[r].sock
        BY <2>1, SocketOnlyCloses, Zenon
      <4> QED
        BY <4>1, <4>2, Zenon
    <3>2. r = p /\ ~c.sock
      BY <2>4, <3>1, Zenon
    <3> QED
      BY Zenon, <2>2, <3>1, <3>2
  <2>11. CASE BeginCut(r)
    <3>1. conn' = [conn EXCEPT ![r] = BeginDisconnectNow(conn[r])]
          /\ cutting' = [cutting EXCEPT ![r] = conn[r].sock]
      BY Zenon, <2>11 DEF BeginCut
    <3>2. r = p
      BY <2>4, <3>1, Zenon
    <3> QED
      BY Zenon, <1>1, <2>2, <3>1, <3>2 DEF IInv, TypeOK
  <2>12. CASE StopReading(r) \/ ConnectionException(r)
    <3>1. \E c : conn' = [conn EXCEPT ![r] = c]
      BY <2>12, Zenon DEF StopReading, ConnectionException
    <3>2. r = p
      BY <2>4, <3>1, Zenon
    <3> QED
      BY Zenon, <1>1, <2>2, <2>12, <3>2 DEF StopReading, ConnectionException, IInv, TypeOK
  <2> QED
    BY <2>3, <2>6, <2>7, <2>9, <2>10, <2>11, <2>12, Zenon DEF Handle
<1>2. IInv /\ [Next]_vars => [\A p \in Peer : Cuts(p)]_vars
  BY Zenon, <1>1
<1> QED
  BY <1>2, Invariance, PTL DEF Spec, NoCutUnderOwnReference
=============================================================================
