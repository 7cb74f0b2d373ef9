----------------------------- MODULE BoundedFifo ----------------------------
(***************************************************************************)
(* What a queue of softbus_queue.h promises to threads that use it at the  *)
(* same time: the queue is a sequence, an item is appended and taken in    *)
(* one step each, and a call reports "full" or "empty" only with reason.   *)
(***************************************************************************)
EXTENDS Integers, Sequences, FiniteSets

CONSTANTS
  Producer,  \* threads that enqueue
  Consumer,  \* threads that dequeue
  Item,      \* what is enqueued
  None,      \* not an item
  Capacity   \* the number of items the queue holds

VARIABLES
  fifo,  \* the items in the queue
  busy,  \* the threads inside a call
  taken  \* taken[c]: the item that c's call has taken

vars == <<fifo, busy, taken>>

Init ==
  /\ fifo = <<>>
  /\ busy = {}
  /\ taken = [c \in Consumer |-> None]

Begin(t) ==
  /\ t \notin busy
  /\ busy' = busy \cup {t}
  /\ taken' = IF t \in Consumer THEN [taken EXCEPT ![t] = None] ELSE taken
  /\ UNCHANGED fifo

Put(p) ==
  /\ p \in busy
  /\ Len(fifo) < Capacity
  /\ \E x \in Item : fifo' = Append(fifo, x)
  /\ busy' = busy \ {p}
  /\ UNCHANGED taken

\* A slot may be held by a call that is still on its way.
PutFull(p) ==
  /\ p \in busy
  /\ Len(fifo) + Cardinality(busy \ {p}) >= Capacity
  /\ busy' = busy \ {p}
  /\ UNCHANGED <<fifo, taken>>

Get(c) ==
  /\ c \in busy
  /\ taken[c] = None
  /\ fifo # <<>>
  /\ fifo' = Tail(fifo)
  /\ taken' = [taken EXCEPT ![c] = Head(fifo)]
  /\ UNCHANGED busy

GetReturns(c) ==
  /\ c \in busy
  /\ taken[c] # None \/ fifo = <<>>
  /\ busy' = busy \ {c}
  /\ UNCHANGED <<fifo, taken>>

Next ==
  \/ \E t \in Producer \cup Consumer : Begin(t)
  \/ \E p \in Producer : Put(p) \/ PutFull(p)
  \/ \E c \in Consumer : Get(c) \/ GetReturns(c)

Spec == Init /\ [][Next]_vars
=============================================================================
