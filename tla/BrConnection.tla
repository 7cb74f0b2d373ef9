---------------------------- MODULE BrConnection ----------------------------
(***************************************************************************)
(* The ConnBrConnection object of the classic Bluetooth (BR) transport,    *)
(* core/connection/br/src/softbus_conn_br_connection.c, as a record:       *)
(*   state     connection->state                                           *)
(*   sock      connection->socketHandle # INVALID_SOCKET_HANDLE            *)
(*   rc        connection->connectionRc, the reference count of the link   *)
(*   occupied  connection->isOccupied                                      *)
(* Each operator is what one function of that file does to the object      *)
(* while it holds connection->lock.  The modules BrReference and BrManager *)
(* build their actions from these operators.                               *)
(***************************************************************************)
EXTENDS Integers

ConnState == {"CONNECTING", "CONNECTED", "NEGOTIATION_CLOSING",
              "CLOSING", "CLOSED", "EXCEPTION"}

Connection == [state : ConnState, sock : BOOLEAN, rc : Int, occupied : BOOLEAN]

ConnOf(state, sock, rc, occupied) ==
  [state |-> state, sock |-> sock, rc |-> rc, occupied |-> occupied]

\* ConnBrCreateConnection: the count starts at 1 on both sides, "br connection
\* do not need exchange connection reference when establish first time".
NewConnection(side) ==
  ConnOf(IF side = "client" THEN "CONNECTING" ELSE "CONNECTED", side = "server", 1, FALSE)

\* StartBrClientConnect: the driver returned a socket for a CONNECTING object.
ClientSocketReady(c) == ConnOf("CONNECTED", TRUE, c.rc, c.occupied)

\* The critical section of NotifyUpdateConnectionRc.
NotifyUpdateConnectionRc(c, delta) ==
  ConnOf(IF c.rc + delta <= 0 THEN "NEGOTIATION_CLOSING" ELSE c.state,
         c.sock, c.rc + delta, c.occupied)

\* The closing negotiation is abandoned: the peer still has references.
ResumeFromNegotiation(c) ==
  ConnOf(IF c.state = "NEGOTIATION_CLOSING" THEN "CONNECTED" ELSE c.state,
         c.sock, c.rc, c.occupied)

\* ConnBrDisconnectNow, seen by a thread that waits for it to return.
DisconnectNow(c) == ConnOf("CLOSED", FALSE, c.rc, c.occupied)

\* ConnBrDisconnectNow up to SoftBusSleepMs: the handle is gone, the state is
\* CONNECTING, and the lock is free until the driver has disconnected.
BeginDisconnectNow(c) ==
  ConnOf(IF c.sock THEN "CONNECTING" ELSE "CLOSED", FALSE, c.rc, c.occupied)

\* ConnBrDisconnectNow after the driver's DisConnect.
EndDisconnectNow(c) == ConnOf("CLOSED", c.sock, c.rc, c.occupied)

\* Mutant: the last reference counts as none.
NotifyReferenceRequestEager(c, delta, peerRc) ==
  LET d == ConnOf(c.state, c.sock, c.rc + delta, c.occupied)
  IN  IF peerRc > 0 THEN ResumeFromNegotiation(d)
      ELSE IF d.rc <= 1 THEN DisconnectNow(d)
      ELSE d

\* The locked part of NotifyReferenceRequest.  A peer with references keeps
\* the link; without any on both sides the link is cut at once.
NotifyReferenceRequest(c, delta, peerRc) ==
  LET d == ConnOf(c.state, c.sock, c.rc + delta, c.occupied)
  IN  IF peerRc > 0 THEN ResumeFromNegotiation(d)
      ELSE IF d.rc <= 0 THEN DisconnectNow(d)
      ELSE d

\* ConnBrOnReferenceResponse
NotifyReferenceResponse(c, peerRc) == IF peerRc > 0 THEN ResumeFromNegotiation(c) ELSE c

\* WaitNegotiationClosingTimeoutHandler
NegotiationTimeoutHandler(c) ==
  IF c.state = "NEGOTIATION_CLOSING" THEN DisconnectNow(c) ELSE c

\* ConnBrOccupy (TRUE) and BrOnOccupyRelease (FALSE).
SetOccupied(c, occupied) == ConnOf(c.state, c.sock, c.rc, occupied)

\* The reader thread leaves LoopRead: the socket is released.  The state of a
\* client tells a closed socket from a read error; StartServerServe overwrites
\* the result of LoopRead with that of the lock, so a server's never does.
ReaderExitStates(side) ==
  IF side = "client" THEN {"CLOSED", "EXCEPTION"} ELSE {"EXCEPTION"}
ReaderExit(c, err) == ConnOf(err, FALSE, c.rc, c.occupied)
=============================================================================
