----------------------------- MODULE BrAckWindow ----------------------------
(***************************************************************************)
(* The acknowledgement window of a BR connection.  Every window-th message *)
(* is preceded by an ack request and leaves a pending packet behind; the   *)
(* last message before the next request waits for the answer.  The window  *)
(* grows when the answer was there before the wait and shrinks when        *)
(* answers fail to come (softbus_conn_br_trans.c, WaitAck).  The list of   *)
(* pending packets is softbus_conn_br_pending_packet.c; the steps are      *)
(* taken by the send task (BrSend) and by the reader of the connection.    *)
(***************************************************************************)
EXTENDS Integers, FiniteSets

CONSTANTS
  MIN_WINDOW, DEFAULT_WINDOW, MAX_WINDOW,
  TIMEOUT_TIMES,     \* the waits in vain that shrink the window by one
  ACK_FAILED_TIMES   \* the waits in vain that are tolerated below the default

ASSUME WindowsOrdered ==
  /\ MIN_WINDOW \in Nat /\ DEFAULT_WINDOW \in Nat /\ MAX_WINDOW \in Nat
  /\ 1 < MIN_WINDOW /\ MIN_WINDOW <= DEFAULT_WINDOW /\ DEFAULT_WINDOW <= MAX_WINDOW
  /\ TIMEOUT_TIMES \in Nat \ {0} /\ ACK_FAILED_TIMES \in Nat

VARIABLES
  window, sequence, waitSequence, ackTimeoutCount,  \* of the connection
  pending   \* g_pendingList: [seq, finded, refCnt]

ack == <<window, sequence, waitSequence, ackTimeoutCount, pending>>

AckInit ==
  /\ window = DEFAULT_WINDOW
  /\ sequence = 0
  /\ waitSequence = 0
  /\ ackTimeoutCount = 0
  /\ pending = {}

Packet(s) == {k \in pending : k.seq = s}

\* ConnBrCreateBrPendingPacket
Create(s) ==
  IF Packet(s) # {} THEN pending
  ELSE pending \cup {[seq |-> s, finded |-> FALSE, refCnt |-> 1]}

\* Mutant: a packet in use leaves the list too.
DereferenceAlways(ks) == pending \ ks
\* the list after Dereference of each packet of a set
Dereference(ks) ==
  (pending \ ks) \cup
    {[k EXCEPT !.refCnt = @ - 1] : k \in {k \in ks : k.refCnt > 1}}

\* the list after Reference
Reference(k) == (pending \ {k}) \cup {[k EXCEPT !.refCnt = @ + 1]}

\* ConnBrDelBrPendingPacket
DelPacket(s) == Dereference(Packet(s))
\* ConnBrDelBrPendingPacketById
DelPacketsById == Dereference(pending)

\* ConnBrOnAckResponse, ConnBrSetBrPendingPacket: the answer to request s
SetPacket(s) ==
  {IF k.seq = s THEN [k EXCEPT !.finded = TRUE] ELSE k : k \in pending}

\* the next message is preceded by an ack request
AckDue(s) == s % window = 0
\* message s waits for the answer to the last request
WaitDue(s, waited) == window > 1 /\ s % window = window - 1 /\ waited # 0

\* the window after an answer that came before the wait
Grown == IF window < MAX_WINDOW THEN window + 1 ELSE MAX_WINDOW

\* the window after the count-th wait in vain, before the default is restored
Shrunk(count) ==
  IF window > MIN_WINDOW /\ count % TIMEOUT_TIMES = 0 THEN window - 1 ELSE window

\* the end of WaitAck
AckResult(result) ==
  LET count == ackTimeoutCount + 1
      shrunk == Shrunk(count)
  IN
  /\ ackTimeoutCount' = IF result = "timeout" THEN count ELSE 0
  /\ window' = CASE result = "already" -> Grown
                 [] result = "timeout" ->
                      IF shrunk < DEFAULT_WINDOW /\ count > ACK_FAILED_TIMES
                      THEN DEFAULT_WINDOW ELSE shrunk
                 [] OTHER -> window
  /\ waitSequence' = 0

AckTypeOK ==
  /\ window \in Nat
  /\ sequence \in Nat
  /\ waitSequence \in 0 .. sequence
  /\ ackTimeoutCount \in Nat
  /\ \A k \in pending : k.seq \in 1 .. sequence /\ k.refCnt \in 1 .. 2
  /\ IsFiniteSet(pending)
=============================================================================
