----------------------------- MODULE BrReference ----------------------------
(***************************************************************************)
(* Reference negotiation over one established BR connection.               *)
(*                                                                         *)
(* Each end keeps its own count of the references that the modules of both *)
(* ends hold on the link.  An end that changes the count tells the other   *)
(* with NOTIFY_REQUEST(delta, rc); an end that reaches 0 negotiates the    *)
(* physical disconnection, guarded by a timer.  Handlers of one end run on *)
(* one looper thread, so each is one action; the reader and the sender     *)
(* threads of an end interleave with them.                                 *)
(*                                                                         *)
(* The wire: control messages go to the sender's priority queue with the   *)
(* flag HIGH or LOW and then to a FIFO socket.  A message therefore keeps  *)
(* its place, except that a HIGH one overtakes LOW ones before it.         *)
(*                                                                         *)
(* Not modelled here: failure of lock, allocation and ConnPostMsgToLooper. *)
(***************************************************************************)
EXTENDS BrConnection, FiniteSets

CONSTANT MaxCalls   \* bound: calls of Acquire and Occupy after the establishment

ASSUME MaxCallsNat == MaxCalls \in Nat

VARIABLES
  conn,      \* conn[p]: the ConnBrConnection object of end p
  alive,     \* alive[p]: the object is in g_brManager.connections
  reading,   \* reading[p]: the reader thread is in LoopRead
  cutting,   \* cutting[p]: a non-looper thread is inside ConnBrDisconnectNow
  held,      \* held[p]: references that modules of end p hold (ghost)
  calls,     \* calls of Acquire and Occupy so far (bound)
  net,       \* net[p]: control messages on their way to p
  seq,       \* seq[p]: the sequence number of the last message to p
  negTimers, \* negTimers[p]: pending WAIT_NEGOTIATION_CLOSING_TIMEOUT messages
  retries,   \* retries[p]: pending RETRY_NOTIFY_REFERENCE messages
  localRc,   \* localRc[p]: pending UPDATE_LOCAL_RC messages, each of delta -1
  peerRc     \* peerRc[p]: pending UPDATE_PEER_RC messages, deferred requests

vars == <<conn, alive, reading, cutting, held, calls, net, seq, negTimers,
          retries, localRc, peerRc>>

Peer == {"client", "server"}
Other(p) == IF p = "client" THEN "server" ELSE "client"

Message ==
  [seq : Nat, method : {"REQUEST"}, delta : {-1, 0, 1}, rc : Int, flag : {"HIGH", "LOW"}]
    \cup
  [seq : Nat, method : {"RESPONSE"}, delta : {0}, rc : Int, flag : {"HIGH"}]

TypeOK ==
  /\ conn \in [Peer -> Connection]
  /\ alive \in [Peer -> BOOLEAN]
  /\ reading \in [Peer -> BOOLEAN]
  /\ cutting \in [Peer -> BOOLEAN]
  /\ held \in [Peer -> Nat]
  /\ calls \in 0..MaxCalls
  /\ net \in [Peer -> SUBSET Message]
  /\ seq \in [Peer -> Nat]
  /\ negTimers \in [Peer -> Nat]
  /\ retries \in [Peer -> Nat]
  /\ localRc \in [Peer -> Nat]
  /\ peerRc \in [Peer -> SUBSET Message]

\* Both ends have created the connection and the client thread has stored its
\* socket; the client's first request took the initial reference.
Init ==
  /\ conn = [p \in Peer |-> ClientSocketReady(NewConnection(p))]
  /\ alive = [p \in Peer |-> TRUE]
  /\ reading = [p \in Peer |-> TRUE]
  /\ cutting = [p \in Peer |-> FALSE]
  /\ held = [p \in Peer |-> IF p = "client" THEN 1 ELSE 0]
  /\ calls = 0
  /\ net = [p \in Peer |-> {}]
  /\ seq = [p \in Peer |-> 0]
  /\ negTimers = [p \in Peer |-> 0]
  /\ retries = [p \in Peer |-> 0]
  /\ localRc = [p \in Peer |-> 0]
  /\ peerRc = [p \in Peer |-> {}]

-----------------------------------------------------------------------------
(***************************************************************************)
(* Sending.  ConnBrPostBytes lets a control message through in any state;  *)
(* it leaves this end only if the socket is still open.                    *)
(***************************************************************************)
Posted(p, method, delta, rc, flag) ==
  IF conn[p].sock
  THEN {[seq |-> seq[Other(p)] + 1, method |-> method, delta |-> delta,
         rc |-> rc, flag |-> flag]}
  ELSE {}

\* p takes the messages of taken off the wire and puts those of posted on it.
Exchange(p, taken, posted) ==
  /\ net' = [net EXCEPT ![p] = @ \ taken, ![Other(p)] = @ \cup posted]
  /\ seq' = [seq EXCEPT ![Other(p)] = IF posted = {} THEN @ ELSE @ + 1]

\* m is the next message that reaches p: it is behind nothing, or it is HIGH
\* and only behind LOW ones.
Deliverable(p, m) ==
  \A n \in net[p] : n.seq < m.seq => n.flag = "LOW" /\ m.flag = "HIGH"

\* Mutant: the queue flags of increments and decrements exchanged.
NotifyUpdateRcFlagsSwapped(p, delta) ==
  LET c == NotifyUpdateConnectionRc(conn[p], delta)
  IN  /\ conn' = [conn EXCEPT ![p] = c]
      /\ negTimers' = [negTimers EXCEPT ![p] = @ + (IF c.rc <= 0 THEN 1 ELSE 0)]
      /\ Exchange(p, {}, Posted(p, "REQUEST", delta, c.rc,
                                IF delta >= 0 THEN "LOW" ELSE "HIGH"))

\* Mutant: the closing timer is posted only for a negative count.
NotifyUpdateRcLateTimer(p, delta) ==
  LET c == NotifyUpdateConnectionRc(conn[p], delta)
  IN  /\ conn' = [conn EXCEPT ![p] = c]
      /\ negTimers' = [negTimers EXCEPT ![p] = @ + (IF c.rc < 0 THEN 1 ELSE 0)]
      /\ Exchange(p, {}, Posted(p, "REQUEST", delta, c.rc,
                                IF delta >= 0 THEN "HIGH" ELSE "LOW"))

(***************************************************************************)
(* NotifyUpdateConnectionRc: change the count, enter the negotiation with  *)
(* a fresh timer if nothing is left, tell the peer.                        *)
(***************************************************************************)
NotifyUpdateRc(p, delta) ==
  LET c == NotifyUpdateConnectionRc(conn[p], delta)
  IN  /\ conn' = [conn EXCEPT ![p] = c]
      /\ negTimers' = [negTimers EXCEPT ![p] = @ + (IF c.rc <= 0 THEN 1 ELSE 0)]
      /\ Exchange(p, {}, Posted(p, "REQUEST", delta, c.rc,
                                IF delta >= 0 THEN "HIGH" ELSE "LOW"))

\* BrReuseConnection: a connect request is answered with this connection.
Acquire(p) ==
  /\ alive[p]
  /\ conn[p].state = "CONNECTED"
  /\ calls < MaxCalls
  /\ calls' = calls + 1
  /\ held' = [held EXCEPT ![p] = @ + 1]
  /\ NotifyUpdateRc(p, 1)
  /\ UNCHANGED <<alive, reading, cutting, retries, localRc, peerRc>>

\* Mutant: an occupied connection forgets the update.
UpdateConnectionRcDropped(p) ==
  IF conn[p].occupied
  THEN UNCHANGED <<conn, negTimers, net, seq, localRc>>
  ELSE NotifyUpdateRc(p, -1) /\ UNCHANGED localRc

\* BrUpdateConnectionRc with delta -1: an occupied connection tries again later.
UpdateConnectionRc(p) ==
  IF conn[p].occupied
  THEN /\ localRc' = [localRc EXCEPT ![p] = @ + 1]
       /\ UNCHANGED <<conn, negTimers, net, seq>>
  ELSE NotifyUpdateRc(p, -1) /\ UNCHANGED localRc

\* DisconnectRequest: a module gives its reference back.
Release(p) ==
  /\ alive[p]
  /\ held[p] > 0
  /\ held' = [held EXCEPT ![p] = @ - 1]
  /\ UpdateConnectionRc(p)
  /\ UNCHANGED <<alive, reading, cutting, calls, retries, peerRc>>

\* MSG_CONNECTION_UPDATE_LOCAL_RC: re-posted while the connection is occupied.
UpdateLocalRc(p) ==
  /\ alive[p]
  /\ localRc[p] > 0
  /\ ~conn[p].occupied
  /\ localRc' = [localRc EXCEPT ![p] = @ - 1]
  /\ NotifyUpdateRc(p, -1)
  /\ UNCHANGED <<alive, reading, cutting, held, calls, retries, peerRc>>

\* Mutant: the handler passes the count for the difference.
RetryNotifyReferenceCount(p) ==
  /\ alive[p]
  /\ retries[p] > 0
  /\ retries' = [retries EXCEPT ![p] = @ - 1]
  /\ NotifyUpdateRc(p, conn[p].rc)
  /\ UNCHANGED <<alive, reading, cutting, held, calls, localRc, peerRc>>

\* RetryNotifyReferenceHandler: delta 0 is never deferred.
RetryNotifyReference(p) ==
  /\ alive[p]
  /\ retries[p] > 0
  /\ retries' = [retries EXCEPT ![p] = @ - 1]
  /\ NotifyUpdateRc(p, 0)
  /\ UNCHANGED <<alive, reading, cutting, held, calls, localRc, peerRc>>

-----------------------------------------------------------------------------
\* Mutant: no RETRY_NOTIFY_REFERENCE for a count that a request brought to 0.
HandleRequestNoRetry(p, m) ==
  LET rc == conn[p].rc + m.delta
  IN  /\ conn' = [conn EXCEPT ![p] = NotifyReferenceRequest(@, m.delta, m.rc)]
      /\ negTimers' = [negTimers EXCEPT
           ![p] = IF m.rc > 0 /\ conn[p].state = "NEGOTIATION_CLOSING" THEN 0 ELSE @]
      /\ Exchange(p, {m}, IF m.rc <= 0 /\ rc > 0
                          THEN Posted(p, "RESPONSE", 0, rc, "HIGH") ELSE {})
      /\ UNCHANGED retries

(***************************************************************************)
(* NotifyReferenceRequest at p for the request m, with what it posts: the  *)
(* retry of a count that fell to 0, the removal of the negotiation timer,  *)
(* the response.                                                           *)
(***************************************************************************)
HandleRequest(p, m) ==
  LET rc == conn[p].rc + m.delta
  IN  /\ conn' = [conn EXCEPT ![p] = NotifyReferenceRequest(@, m.delta, m.rc)]
      /\ retries' = [retries EXCEPT
           ![p] = @ + (IF m.rc > 0 /\ rc = 0 THEN 1 ELSE 0)]
      /\ negTimers' = [negTimers EXCEPT
           ![p] = IF m.rc > 0 /\ conn[p].state = "NEGOTIATION_CLOSING" THEN 0 ELSE @]
      /\ Exchange(p, {m}, IF m.rc <= 0 /\ rc > 0
                          THEN Posted(p, "RESPONSE", 0, rc, "HIGH") ELSE {})

\* BrOnReferenceRequest: an occupied connection handles a decrement later.
ReceiveRequest(p) == \E m \in net[p] :
  /\ alive[p]
  /\ Deliverable(p, m)
  /\ m.method = "REQUEST"
  /\ IF m.delta < 0 /\ conn[p].occupied
     THEN /\ peerRc' = [peerRc EXCEPT ![p] = @ \cup {m}]
          /\ Exchange(p, {m}, {})
          /\ UNCHANGED <<conn, retries, negTimers>>
     ELSE HandleRequest(p, m) /\ UNCHANGED peerRc
  /\ UNCHANGED <<alive, reading, cutting, held, calls, localRc>>

\* MSG_CONNECTION_UPDATE_PEER_RC: re-posted while the connection is occupied.
UpdatePeerRc(p) == \E m \in peerRc[p] :
  /\ alive[p]
  /\ ~conn[p].occupied
  /\ peerRc' = [peerRc EXCEPT ![p] = @ \ {m}]
  /\ HandleRequest(p, m)
  /\ UNCHANGED <<alive, reading, cutting, held, calls, localRc>>

\* ConnBrOnReferenceResponse
ReceiveResponse(p) == \E m \in net[p] :
  /\ alive[p]
  /\ Deliverable(p, m)
  /\ m.method = "RESPONSE"
  /\ conn' = [conn EXCEPT ![p] = NotifyReferenceResponse(@, m.rc)]
  /\ negTimers' = [negTimers EXCEPT
       ![p] = IF m.rc > 0 /\ conn[p].state = "NEGOTIATION_CLOSING" THEN 0 ELSE @]
  /\ Exchange(p, {m}, {})
  /\ UNCHANGED <<alive, reading, cutting, held, calls, retries, localRc, peerRc>>

\* WaitNegotiationClosingTimeoutHandler
NegotiationTimeout(p) ==
  /\ alive[p]
  /\ negTimers[p] > 0
  /\ negTimers' = [negTimers EXCEPT ![p] = @ - 1]
  /\ conn' = [conn EXCEPT ![p] = NegotiationTimeoutHandler(@)]
  /\ UNCHANGED <<alive, reading, cutting, held, calls, net, seq, retries, localRc, peerRc>>

-----------------------------------------------------------------------------
\* BrCheckActiveConnection with needOccupy, ConnBrOccupy.  The caller's thread
\* read the state without the lock before it came here, when the connection
\* was CONNECTED; it may be in any state by now.
Occupy(p) ==
  /\ alive[p]
  /\ calls < MaxCalls
  /\ calls' = calls + 1
  /\ conn' = [conn EXCEPT ![p] = SetOccupied(@, TRUE)]
  /\ UNCHANGED <<alive, reading, cutting, held, net, seq, negTimers,
                 retries, localRc, peerRc>>

\* BrOnOccupyRelease, the timer that every Occupy re-arms.
OccupyRelease(p) ==
  /\ alive[p]
  /\ conn[p].occupied
  /\ conn' = [conn EXCEPT ![p] = SetOccupied(@, FALSE)]
  /\ UNCHANGED <<alive, reading, cutting, held, calls, net, seq, negTimers,
                 retries, localRc, peerRc>>

\* ConnBrDisconnectNow from a thread that is not the looper: OnPostByteFinshed
\* after a failed send, BrDisconnectDeviceNow; and the idle timer.
BeginCut(p) ==
  /\ alive[p]
  /\ ~cutting[p]
  /\ cutting' = [cutting EXCEPT ![p] = conn[p].sock]
  /\ conn' = [conn EXCEPT ![p] = BeginDisconnectNow(@)]
  /\ UNCHANGED <<alive, reading, held, calls, net, seq, negTimers, retries,
                 localRc, peerRc>>

EndCut(p) ==
  /\ cutting[p]
  /\ cutting' = [cutting EXCEPT ![p] = FALSE]
  /\ conn' = [conn EXCEPT ![p] = EndDisconnectNow(@)]
  /\ UNCHANGED <<alive, reading, held, calls, net, seq, negTimers, retries,
                 localRc, peerRc>>

\* The reader thread leaves LoopRead, because the handle is invalid, the peer
\* has closed the link, or the read failed; it posts the exception.
StopReading(p) ==
  /\ reading[p]
  /\ reading' = [reading EXCEPT ![p] = FALSE]
  /\ \E err \in ReaderExitStates(p) : conn' = [conn EXCEPT ![p] = ReaderExit(@, err)]
  /\ UNCHANGED <<alive, cutting, held, calls, net, seq, negTimers, retries,
                 localRc, peerRc>>

\* The manager's ConnectionException: the object is removed, OnDisconnected
\* takes every reference of this end with it.
ConnectionException(p) ==
  /\ alive[p]
  /\ ~reading[p]
  /\ alive' = [alive EXCEPT ![p] = FALSE]
  /\ conn' = [conn EXCEPT ![p] = DisconnectNow(@)]
  /\ held' = [held EXCEPT ![p] = 0]
  /\ UNCHANGED <<reading, cutting, calls, net, seq, negTimers, retries,
                 localRc, peerRc>>

Handle(p) ==
  \/ UpdateLocalRc(p)
  \/ RetryNotifyReference(p)
  \/ ReceiveRequest(p)
  \/ UpdatePeerRc(p)
  \/ ReceiveResponse(p)
  \/ NegotiationTimeout(p)
  \/ OccupyRelease(p)
  \/ EndCut(p)
  \/ ConnectionException(p)

Next == \E p \in Peer :
  \/ Acquire(p)
  \/ Release(p)
  \/ Handle(p)
  \/ Occupy(p)
  \/ BeginCut(p)
  \/ StopReading(p)

Spec == Init /\ [][Next]_vars

(***************************************************************************)
(* Fairness.  The looper serves every due message, the sockets deliver     *)
(* while both ends are open, and a reader notices that an end has closed.  *)
(* No module is obliged to call, and no link has to fail.                  *)
(***************************************************************************)
NoticeClosed(p) == ~(conn[p].sock /\ conn[Other(p)].sock) /\ StopReading(p)

Fairness == \A p \in Peer :
  /\ WF_vars(UpdateLocalRc(p))
  /\ WF_vars(RetryNotifyReference(p))
  /\ WF_vars(ReceiveRequest(p))
  /\ WF_vars(UpdatePeerRc(p))
  /\ WF_vars(ReceiveResponse(p))
  /\ WF_vars(NegotiationTimeout(p))
  /\ WF_vars(OccupyRelease(p))
  /\ WF_vars(EndCut(p))
  /\ WF_vars(ConnectionException(p))
  /\ WF_vars(NoticeClosed(p))

FairSpec == Spec /\ Fairness

-----------------------------------------------------------------------------
Linked == \A p \in Peer : conn[p].sock

\* The messages on their way to p's count, on the wire or deferred, and the
\* change that the messages of a set will make to it.
Pending(p) == net[p] \cup peerRc[p]
WithDelta(S, delta) == {m \in S : m.delta = delta}
InFlight(S) == Cardinality(WithDelta(S, 1)) - Cardinality(WithDelta(S, -1))

\* References in use, and references given back whose update is deferred.
References(p) == held[p] + localRc[p]

\* While the link is up, each end's count, corrected by the requests still on
\* their way to it, is the number of references both ends hold: no update of
\* NotifyUpdateConnectionRc is lost, doubled or applied to the wrong end,
\* whatever is deferred by an occupied connection or overtaken in the queue.
Conservation ==
  Linked => \A p \in Peer :
    conn[p].rc + InFlight(Pending(p)) = References("client") + References("server")

\* An end's count never falls below the references of its own modules: the
\* HIGH flag of increments keeps each one ahead of the decrement that undoes it.
OwnReferencesCounted ==
  Linked => \A p \in Peer : conn[p].rc >= References(p)

\* A connection that waits for the outcome of a closing negotiation always has
\* a timer that ends the wait; removing the timers leaves the state too.
NegotiationHasTimer ==
  \A p \in Peer : conn[p].state = "NEGOTIATION_CLOSING" => negTimers[p] > 0

\* The looper of p cuts the link in this step, as the negotiation's outcome.
NegotiatedCut(p) ==
  conn[p].sock /\ ~conn'[p].sock /\ alive'[p] /\ reading'[p] /\ ~cutting'[p]

\* The negotiation (NotifyReferenceRequest, the closing timer) never cuts the
\* link under a module of the end that cuts it.
NoCutUnderOwnReference ==
  [][\A p \in Peer : NegotiatedCut(p) => held[p] = 0]_vars

\* "disconnect the physical connection when the logical connection reference is
\* zero": a request of the peer cuts the link only if no module of either end
\* holds a reference.
CutOnlyAtZero ==
  [][\A p \in Peer : NegotiatedCut(p) /\ negTimers'[p] = negTimers[p]
        => held["client"] = 0 /\ held["server"] = 0]_vars

\* Once every reference has been given back for good, the link is physically
\* disconnected, without the help of the idle timer.
ReleasedLinkCloses ==
  <>[](\A p \in Peer : held[p] = 0) => <>(\A p \in Peer : ~conn[p].sock)
=============================================================================
