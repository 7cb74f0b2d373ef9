------------------------------ MODULE TimedQueue ----------------------------
(***************************************************************************)
(* What a message loop promises to the modules that post to it: a message  *)
(* is handled at most once, never before its time, one at a time, in the   *)
(* order of the times and, at equal times, of the posts; a message that    *)
(* has been removed is not handled; once the loop is closed no message is  *)
(* begun, and what is left is discarded after the last handler has         *)
(* returned.                                                               *)
(***************************************************************************)
EXTENDS Naturals, Sequences

CONSTANTS
  Message,  \* identities of messages
  Time      \* the times a message may have

VARIABLES
  now,      \* the clock
  posted,   \* the messages accepted so far, each with its time, in order
  waiting,  \* the messages accepted and not begun, removed or discarded
  current,  \* the message being handled (a set of at most one)
  closed    \* the loop has been told to stop

tqVars == <<now, posted, waiting, current, closed>>

Position(m) == CHOOSE i \in DOMAIN posted : posted[i].msg = m
Before(m, n) ==
  LET a == Position(m)
      b == Position(n)
  IN  \/ posted[a].time < posted[b].time
      \/ posted[a].time = posted[b].time /\ a < b

TQInit ==
  /\ now = 0
  /\ posted = <<>>
  /\ waiting = {}
  /\ current = {}
  /\ closed = FALSE

TQTick == now' = now + 1 /\ UNCHANGED <<posted, waiting, current, closed>>

TQPost(m) ==
  /\ ~closed
  /\ \A i \in DOMAIN posted : posted[i].msg # m
  /\ \E t \in Time : posted' = Append(posted, [msg |-> m, time |-> t])
  /\ waiting' = waiting \cup {m}
  /\ UNCHANGED <<now, current, closed>>

TQBegin(m) ==
  /\ ~closed
  /\ current = {}
  /\ m \in waiting
  /\ posted[Position(m)].time <= now
  /\ \A n \in waiting \ {m} : Before(m, n)
  /\ current' = {m}
  /\ waiting' = waiting \ {m}
  /\ UNCHANGED <<now, posted, closed>>

TQEnd ==
  /\ current # {}
  /\ current' = {}
  /\ UNCHANGED <<now, posted, waiting, closed>>

TQRemove ==
  /\ ~closed
  /\ waiting' \in SUBSET waiting
  /\ UNCHANGED <<now, posted, current, closed>>

TQClose == closed' = TRUE /\ UNCHANGED <<now, posted, waiting, current>>

TQDiscard ==
  /\ closed
  /\ current = {}
  /\ waiting' = {}
  /\ UNCHANGED <<now, posted, current, closed>>

TQNext ==
  \/ \E m \in Message : TQPost(m) \/ TQBegin(m)
  \/ TQTick \/ TQEnd \/ TQRemove \/ TQClose \/ TQDiscard

TQSpec == TQInit /\ [][TQNext]_tqVars
=============================================================================
