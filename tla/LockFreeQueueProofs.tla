------------------------ MODULE LockFreeQueueProofs -------------------------
(***************************************************************************)
(* Proofs about the ring of LockFreeQueue, for every number of threads,    *)
(* every size and every modulus: its counters stay in order, its count is  *)
(* exact, and it is first in, first out.                                   *)
(***************************************************************************)
EXTENDS LockFreeQueue, FiniteSetTheorems, SequenceTheorems, TLAPS

-----------------------------------------------------------------------------
(***************************************************************************)
(* Arithmetic modulo w.                                                    *)
(***************************************************************************)
\* Quotient and remainder.
LEMMA DivMod ==
  ASSUME NEW a \in Int, NEW w \in Nat \ {0}
  PROVE  a % w \in 0..(w - 1) /\ a \div w \in Int /\ a = w * (a \div w) + (a % w)
BY SMT

\* Two numbers that differ by less than the modulus, and agree modulo it, are
\* equal: a counter that has not come round is compared exactly.
LEMMA ModSame ==
  ASSUME NEW a \in Int, NEW b \in Int, NEW w \in Nat \ {0},
         a % w = b % w, a - b < w, b - a < w
  PROVE  a = b
<1> DEFINE qa == a \div w
           qb == b \div w
<1>1. a = w * qa + (a % w) /\ qa \in Int BY Zenon, DivMod
<1>2. b = w * qb + (b % w) /\ qb \in Int BY Zenon, DivMod
<1>3. a % w \in Int BY DivMod
<1> HIDE DEF qa, qb
<1>4. a - b = w * (qa - qb) BY <1>1, <1>2, <1>3
<1>5. CASE qa >= qb + 1
  <2>1. w * (qa - qb) >= w BY <1>1, <1>2, <1>5
  <2> QED BY <2>1, <1>4
<1>6. CASE qb >= qa + 1
  <2>1. w * (qb - qa) >= w BY <1>1, <1>2, <1>6
  <2>2. b - a = w * (qb - qa) BY <1>1, <1>2, <1>3
  <2> QED BY <2>1, <2>2
<1>7. CASE qa = qb BY Zenon, <1>7, <1>1, <1>2
<1> QED BY <1>5, <1>6, <1>7, <1>1, <1>2

\* The unsigned difference is the difference, if that is less than the modulus.
LEMMA DifferenceExact ==
  ASSUME NEW a \in Nat, NEW b \in Nat, b <= a, a < b + Wrap
  PROVE  Difference(a, b) = a - b
<1> DEFINE ra == a % Wrap
           rb == b % Wrap
           d == ra - rb
           qa == a \div Wrap
           qb == b \div Wrap
           qd == d \div Wrap
<1>0. Wrap \in Nat \ {0} BY SizeAssumption
<1>1. a = Wrap * qa + ra /\ qa \in Int /\ ra \in Int BY <1>0, DivMod
<1>2. b = Wrap * qb + rb /\ qb \in Int /\ rb \in Int BY <1>0, DivMod
<1>3. d \in Int BY <1>1, <1>2
<1>4. d = Wrap * qd + (d % Wrap) /\ qd \in Int /\ d % Wrap \in 0..(Wrap - 1)
  BY Zenon, <1>0, <1>3, DivMod
<1>5. Difference(a, b) = d % Wrap BY Zenon DEF Difference
<1> DEFINE e == d % Wrap
           k == qa - qb + qd
<1>6. d = ra - rb BY Zenon
<1> HIDE DEF ra, rb, qa, qb, qd, d, e
<1>7. (a - b) - e = Wrap * (qa - qb + qd)
  BY <1>0, <1>1, <1>2, <1>3, <1>4, <1>6 DEF e
<1>8. k \in Int BY <1>1, <1>2, <1>4
<1>9. e \in 0..(Wrap - 1) BY Zenon, <1>4 DEF e
<1>10. (a - b) - e = Wrap * k BY Zenon, <1>7
<1> HIDE DEF k
<1>11. CASE k >= 1
  <2>1. Wrap * k >= Wrap BY <1>0, <1>8, <1>11
  <2> QED BY <2>1, <1>10, <1>9, <1>0
<1>12. CASE k <= -1
  <2>1. Wrap * k <= -Wrap BY <1>0, <1>8, <1>12
  <2> QED BY <2>1, <1>10, <1>9, <1>0
<1>13. CASE k = 0
  <2>1. (a - b) - e = 0 BY <1>13, <1>10, <1>0
  <2> QED BY <2>1, <1>5, <1>9 DEF e
<1> QED BY <1>8, <1>11, <1>12, <1>13
-----------------------------------------------------------------------------
(***************************************************************************)
(* The inductive invariant for the counters.  A thread that holds a slot   *)
(* ("copy", "publish") has reserved a number between tail and head that no *)
(* other thread of its side has.  A thread that is about to reserve knows  *)
(* that there is room, unless its head is out of date.                     *)
(***************************************************************************)
Holds(t) == pc[t] \in {"copy", "publish"}

ProducerInv(p) ==
  /\ pc[p] \in {"check", "swap"} => head[p] <= prodHead /\ prodHead + Mask < head[p] + Wrap
  /\ pc[p] = "swap" /\ head[p] = prodHead => prodHead < consTail + Mask
  /\ Holds(p) => prodTail <= head[p] /\ head[p] < prodHead
  /\ \A q \in Producer : Holds(p) /\ Holds(q) /\ head[p] = head[q] => p = q

ConsumerInv(c) ==
  /\ pc[c] \in {"check", "swap"} => head[c] <= consHead /\ consHead + Mask < head[c] + Wrap
  /\ pc[c] = "swap" /\ head[c] = consHead => consHead < prodTail
  /\ Holds(c) => consTail <= head[c] /\ head[c] < consHead
  /\ \A d \in Consumer : Holds(c) /\ Holds(d) /\ head[c] = head[d] => c = d

Called ==
  /\ \A t \in Thread : pc[t] # "idle" => calls[t] >= 1
  /\ \A p \in Producer : calls[p] <= MaxEnqueues

RingInv ==
  /\ TypeOK
  /\ Ordered
  /\ Called
  /\ \A p \in Producer : ProducerInv(p)
  /\ \A c \in Consumer : ConsumerInv(c)

LEMMA Constants ==
  /\ Size \in Nat \ {0} /\ Mask \in Nat /\ Size = Mask + 1
  /\ Wrap \in Nat \ {0} /\ Wrap > Size
BY SizeAssumption DEF Mask

LEMMA SlotType == ASSUME NEW a \in Nat PROVE a % Size \in 0..Mask
<1>1. Size \in Nat \ {0} /\ a \in Int BY Constants
<1>2. a % Size \in 0..(Size - 1) BY Zenon, <1>1, DivMod
<1> QED BY Zenon, <1>2 DEF Mask

\* The initial ring is empty.
LEMMA RingInit == Init => RingInv
<1> SUFFICES ASSUME Init PROVE RingInv BY Zenon
<1>1. TypeOK BY Zenon, SizeAssumption DEF Init, TypeOK
<1>2. Ordered BY Constants, SizeAssumption DEF Init, Ordered
<1>3. \A p \in Producer : ProducerInv(p) BY Zenon DEF Init, ProducerInv, Holds, Thread
<1>4. \A c \in Consumer : ConsumerInv(c) BY Zenon DEF Init, ConsumerInv, Holds, Thread
<1>5. Called BY SizeAssumption DEF Init, Called, Thread
<1> QED BY Zenon, <1>1, <1>2, <1>3, <1>4, <1>5 DEF RingInv

\* Counters that are less than Wrap apart are compared exactly.
LEMMA SameExact ==
  ASSUME NEW a \in Nat, NEW b \in Nat, Same(a, b), a - b < Wrap, b - a < Wrap
  PROVE  a = b
<1>1. a % Wrap = b % Wrap BY Zenon DEF Same
<1>2. Wrap \in Nat \ {0} /\ a \in Int /\ b \in Int BY Constants
<1> QED BY <1>1, <1>2, ModSame, Zenon

\* A producer whose compare-and-swap succeeds has read the current head.
LEMMA ProducerSame ==
  ASSUME RingInv, NEW p \in Producer, pc[p] = "swap", Same(prodHead, head[p])
  PROVE  head[p] = prodHead /\ prodHead < consTail + Mask
<1>1. head[p] <= prodHead /\ prodHead + Mask < head[p] + Wrap BY Zenon DEF RingInv, ProducerInv
<1>2. head[p] \in Nat /\ prodHead \in Nat BY Zenon DEF RingInv, TypeOK, Thread
<1>3. head[p] - prodHead < Wrap /\ prodHead - head[p] < Wrap BY <1>1, <1>2, Constants
<1>4. head[p] = prodHead BY Zenon, <1>2, <1>3, SameExact
<1> QED BY Zenon, <1>4 DEF RingInv, ProducerInv

\* A producer publishes when it is its turn exactly.
LEMMA ProducerTurn ==
  ASSUME RingInv, NEW p \in Producer, Holds(p), Same(prodTail, head[p])
  PROVE  head[p] = prodTail
<1>1. prodTail <= head[p] /\ head[p] < prodHead BY Zenon DEF RingInv, ProducerInv
<1>2. head[p] \in Nat /\ prodHead \in Nat /\ prodTail \in Nat /\ consTail \in Nat /\ consHead \in Nat
  BY Zenon DEF RingInv, TypeOK, Thread
<1>4. consTail <= prodTail /\ prodHead <= consTail + Mask BY <1>2 DEF RingInv, Ordered
<1>5. head[p] - prodTail < Wrap /\ prodTail - head[p] < Wrap BY <1>1, <1>2, <1>4, Constants
<1> QED BY Zenon, <1>5, <1>2, SameExact

LEMMA ConsumerSame ==
  ASSUME RingInv, NEW c \in Consumer, pc[c] = "swap", Same(consHead, head[c])
  PROVE  head[c] = consHead /\ consHead < prodTail
<1>1. head[c] <= consHead /\ consHead + Mask < head[c] + Wrap BY Zenon DEF RingInv, ConsumerInv
<1>2. head[c] \in Nat /\ consHead \in Nat BY Zenon DEF RingInv, TypeOK, Thread
<1>3. head[c] - consHead < Wrap /\ consHead - head[c] < Wrap BY <1>1, <1>2, Constants
<1>4. head[c] = consHead BY Zenon, <1>2, <1>3, SameExact
<1> QED BY Zenon, <1>4 DEF RingInv, ConsumerInv

LEMMA ConsumerTurn ==
  ASSUME RingInv, NEW c \in Consumer, Holds(c), Same(consTail, head[c])
  PROVE  head[c] = consTail
<1>1. consTail <= head[c] /\ head[c] < consHead BY Zenon DEF RingInv, ConsumerInv
<1>2. head[c] \in Nat /\ prodHead \in Nat /\ prodTail \in Nat /\ consTail \in Nat /\ consHead \in Nat
  BY Zenon DEF RingInv, TypeOK, Thread
<1>4. consHead <= consTail + Mask BY <1>2, Constants DEF RingInv, Ordered
<1>5. head[c] - consTail < Wrap /\ consTail - head[c] < Wrap BY <1>1, <1>2, <1>4, Constants
<1> QED BY Zenon, <1>5, <1>2, SameExact

\* Every step preserves the invariant.
LEMMA RingStep == RingInv /\ [Next]_vars => RingInv'
<1> SUFFICES ASSUME RingInv, [Next]_vars PROVE RingInv' BY Zenon
<1> USE DEF Mask, Thread, counters, Go
<1>0. /\ TypeOK /\ Ordered /\ Called
      /\ \A p \in Producer : ProducerInv(p)
      /\ \A c \in Consumer : ConsumerInv(c)
  BY Zenon DEF RingInv
<1>1. ASSUME NEW t \in Thread, Begin(t) PROVE RingInv'
  <2>1. TypeOK'
    <3>1. calls' \in [Thread -> Nat] BY <1>0, <1>1 DEF Begin, TypeOK
    <3>2. out' \in [Consumer -> Item \cup {None}] BY Zenon, <1>0, <1>1 DEF Begin, TypeOK
    <3> QED BY Zenon, <1>0, <1>1, <3>1, <3>2 DEF Begin, TypeOK
  <2>2. Ordered' BY Zenon, <1>0, <1>1, Constants, ThreadAssumption DEF Begin, Ordered, TypeOK
  <2>3. ASSUME NEW q \in Producer PROVE ProducerInv(q)'
    BY Zenon, <1>0, <1>1, Constants, ThreadAssumption DEF Begin, ProducerInv, Holds, TypeOK, Ordered
  <2>4. ASSUME NEW e \in Consumer PROVE ConsumerInv(e)'
    BY Zenon, <1>0, <1>1, Constants, ThreadAssumption DEF Begin, ConsumerInv, Holds, TypeOK, Ordered
  <2>5. Called' BY <1>0, <1>1, SizeAssumption DEF Begin, Called, TypeOK
  <2> QED BY Zenon, <2>1, <2>2, <2>3, <2>4, <2>5 DEF RingInv
<1>2. ASSUME NEW p \in Producer, LoadProducerHead(p) PROVE RingInv'
  <2>1. TypeOK' BY Zenon, <1>0, <1>2, Constants, ThreadAssumption DEF LoadProducerHead, TypeOK
  <2>2. Ordered'
    BY Zenon, <1>0, <1>2, Constants, ThreadAssumption DEF LoadProducerHead, Ordered, TypeOK
  <2>3. ASSUME NEW q \in Producer PROVE ProducerInv(q)'
    BY <1>0, <1>2, Constants, ThreadAssumption
      DEF LoadProducerHead, ProducerInv, Holds, TypeOK, Ordered
  <2>4. ASSUME NEW e \in Consumer PROVE ConsumerInv(e)'
    BY Zenon, <1>0, <1>2, Constants, ThreadAssumption
      DEF LoadProducerHead, ConsumerInv, Holds, TypeOK, Ordered
  <2>5. Called' BY Zenon, <1>0, <1>2, Constants, ThreadAssumption DEF LoadProducerHead, Called, TypeOK
  <2> QED BY Zenon, <2>1, <2>2, <2>3, <2>4, <2>5 DEF RingInv
<1>3. ASSUME NEW p \in Producer, CheckFull(p) PROVE RingInv'
  <2>0. head[p] = prodHead /\ ~(FreeSlots(p) < 1) => prodHead < consTail + Mask
    <3> SUFFICES ASSUME head[p] = prodHead, ~(FreeSlots(p) < 1) PROVE prodHead < consTail + Mask
      BY Zenon
    <3>1. Mask + consTail \in Nat /\ prodHead \in Nat /\ consTail \in Nat
      BY <1>0, Constants DEF TypeOK
    <3>2. prodHead <= Mask + consTail BY <1>0, <3>1, Constants DEF Ordered
    <3>3. Mask + consTail < prodHead + Wrap BY <1>0, <3>1, Constants DEF Ordered, TypeOK
    <3>4. Difference(Mask + consTail, prodHead) = (Mask + consTail) - prodHead
      BY Zenon, <3>1, <3>2, <3>3, DifferenceExact
    <3> QED BY <3>1, <3>4, Constants DEF FreeSlots
  <2>1. TypeOK' BY Zenon, <1>0, <1>3, Constants, ThreadAssumption, <2>0 DEF CheckFull, TypeOK
  <2>2. Ordered' BY Zenon, <1>0, <1>3, Constants, ThreadAssumption, <2>0 DEF CheckFull, Ordered, TypeOK
  <2>3. ASSUME NEW q \in Producer PROVE ProducerInv(q)'
    BY Zenon, <1>0, <1>3, Constants, ThreadAssumption, <2>0
      DEF CheckFull, ProducerInv, Holds, TypeOK, Ordered
  <2>4. ASSUME NEW e \in Consumer PROVE ConsumerInv(e)'
    BY Zenon, <1>0, <1>3, Constants, ThreadAssumption, <2>0
      DEF CheckFull, ConsumerInv, Holds, TypeOK, Ordered
  <2>5. Called' BY Zenon, <1>0, <1>3, Constants, ThreadAssumption DEF CheckFull, Called, TypeOK
  <2> QED BY Zenon, <2>1, <2>2, <2>3, <2>4, <2>5 DEF RingInv
<1>4. ASSUME NEW p \in Producer, SwapProducerHead(p) PROVE RingInv'
  <2>0. Same(prodHead, head[p]) => head[p] = prodHead /\ prodHead < consTail + Mask
    BY Zenon, <1>4, ProducerSame DEF SwapProducerHead
  <2>1. TypeOK'
    <3>1. prodHead' \in Nat BY <1>0, <1>4 DEF SwapProducerHead, TypeOK
    <3>2. pc' \in [Thread -> {"idle", "load", "check", "swap", "copy", "publish"}]
      BY <1>0, <1>4, Zenon DEF SwapProducerHead, TypeOK
    <3> QED BY Zenon, <1>0, <1>4, <3>1, <3>2 DEF SwapProducerHead, TypeOK
  <2>2. Ordered'
    BY <1>0, <1>4, Constants, ThreadAssumption, <2>0
      DEF SwapProducerHead, NotOvertaken, Ordered, TypeOK
  <2>3. ASSUME NEW q \in Producer PROVE ProducerInv(q)'
    <3>1. CASE Same(prodHead, head[p])
      <4>1. /\ prodHead' = prodHead + 1
            /\ pc' = [pc EXCEPT ![p] = "copy"]
            /\ NotOvertaken(Producer, prodHead)
            /\ UNCHANGED <<head, prodTail, consTail>>
        BY Zenon, <1>4, <3>1 DEF SwapProducerHead
      <4> QED BY <1>0, <4>1, <2>0, <3>1, Constants, SMTT(30)
              DEF NotOvertaken, ProducerInv, Holds, TypeOK, Ordered
    <3>2. CASE ~Same(prodHead, head[p])
      BY Zenon, <1>0, <1>4, <3>2, Constants DEF SwapProducerHead, ProducerInv, Holds, TypeOK
    <3> QED BY Zenon, <3>1, <3>2
  <2>4. ASSUME NEW e \in Consumer PROVE ConsumerInv(e)'
    BY <1>0, <1>4, Constants, ThreadAssumption, <2>0, Zenon
      DEF SwapProducerHead, NotOvertaken, ConsumerInv, Holds, TypeOK, Ordered
  <2>5. Called'
    BY Zenon, <1>0, <1>4, Constants, ThreadAssumption
      DEF SwapProducerHead, NotOvertaken, Called, TypeOK
  <2> QED BY Zenon, <2>1, <2>2, <2>3, <2>4, <2>5 DEF RingInv
<1>5. ASSUME NEW p \in Producer, WriteNode(p) PROVE RingInv'
  <2>1. TypeOK'
    <3>1. head[p] % Size \in 0..Mask BY Zenon, <1>0, SlotType DEF TypeOK
    <3>2. <<p, calls[p]>> \in Item BY <1>0, <1>5 DEF TypeOK, Called, Item, WriteNode
    <3> QED BY Zenon, <1>0, <1>5, <3>1, <3>2 DEF WriteNode, TypeOK
  <2>2. Ordered' BY Zenon, <1>0, <1>5, Constants, ThreadAssumption DEF WriteNode, Ordered, TypeOK
  <2>3. ASSUME NEW q \in Producer PROVE ProducerInv(q)'
    BY Zenon, <1>0, <1>5, Constants, ThreadAssumption
      DEF WriteNode, ProducerInv, Holds, TypeOK, Ordered
  <2>4. ASSUME NEW e \in Consumer PROVE ConsumerInv(e)'
    BY Zenon, <1>0, <1>5, Constants, ThreadAssumption
      DEF WriteNode, ConsumerInv, Holds, TypeOK, Ordered
  <2>5. Called' BY Zenon, <1>0, <1>5, Constants, ThreadAssumption DEF WriteNode, Called, TypeOK
  <2> QED BY Zenon, <2>1, <2>2, <2>3, <2>4, <2>5 DEF RingInv
<1>6. ASSUME NEW p \in Producer, PublishNode(p) PROVE RingInv'
  <2>0. head[p] = prodTail BY Zenon, <1>6, ProducerTurn DEF PublishNode, Holds
  <2>1. TypeOK' BY <1>0, <1>6, Constants, ThreadAssumption, <2>0 DEF PublishNode, TypeOK
  <2>2. Ordered'
    BY <1>0, <1>6, Constants, ThreadAssumption, <2>0
      DEF PublishNode, Ordered, TypeOK, ProducerInv, Holds
  <2>3. ASSUME NEW q \in Producer PROVE ProducerInv(q)'
    BY <1>0, <1>6, Constants, ThreadAssumption, <2>0
      DEF PublishNode, ProducerInv, Holds, TypeOK, Ordered
  <2>4. ASSUME NEW e \in Consumer PROVE ConsumerInv(e)'
    BY <1>0, <1>6, Constants, ThreadAssumption, <2>0
      DEF PublishNode, ConsumerInv, Holds, TypeOK, Ordered
  <2>5. Called' BY Zenon, <1>0, <1>6, Constants, ThreadAssumption DEF PublishNode, Called, TypeOK
  <2> QED BY Zenon, <2>1, <2>2, <2>3, <2>4, <2>5 DEF RingInv
<1>7. ASSUME NEW c \in Consumer, LoadConsumerHead(c) PROVE RingInv'
  <2>1. TypeOK' BY Zenon, <1>0, <1>7, Constants, ThreadAssumption DEF LoadConsumerHead, TypeOK
  <2>2. Ordered'
    BY Zenon, <1>0, <1>7, Constants, ThreadAssumption DEF LoadConsumerHead, Ordered, TypeOK
  <2>3. ASSUME NEW q \in Producer PROVE ProducerInv(q)'
    BY Zenon, <1>0, <1>7, Constants, ThreadAssumption
      DEF LoadConsumerHead, ProducerInv, Holds, TypeOK, Ordered
  <2>4. ASSUME NEW e \in Consumer PROVE ConsumerInv(e)'
    BY <1>0, <1>7, Constants, ThreadAssumption
      DEF LoadConsumerHead, ConsumerInv, Holds, TypeOK, Ordered
  <2>5. Called' BY Zenon, <1>0, <1>7, Constants, ThreadAssumption DEF LoadConsumerHead, Called, TypeOK
  <2> QED BY Zenon, <2>1, <2>2, <2>3, <2>4, <2>5 DEF RingInv
<1>8. ASSUME NEW c \in Consumer, CheckEmpty(c) PROVE RingInv'
  <2>0. head[c] = consHead /\ ~(Difference(prodTail, head[c]) < 1) => consHead < prodTail
    <3> SUFFICES ASSUME head[c] = consHead, ~(Difference(prodTail, head[c]) < 1)
                 PROVE  consHead < prodTail
      BY Zenon
    <3>1. prodTail \in Nat /\ consHead \in Nat BY Zenon, <1>0 DEF TypeOK
    <3>2. consHead <= prodTail BY Zenon, <1>0 DEF Ordered
    <3>3. prodTail < consHead + Wrap BY <1>0, <3>1, Constants DEF Ordered, TypeOK
    <3>4. Difference(prodTail, consHead) = prodTail - consHead
      BY Zenon, <3>1, <3>2, <3>3, DifferenceExact
    <3> QED BY <3>1, <3>4
  <2>1. TypeOK' BY Zenon, <1>0, <1>8, Constants, ThreadAssumption, <2>0 DEF CheckEmpty, TypeOK
  <2>2. Ordered'
    BY Zenon, <1>0, <1>8, Constants, ThreadAssumption, <2>0 DEF CheckEmpty, Ordered, TypeOK
  <2>3. ASSUME NEW q \in Producer PROVE ProducerInv(q)'
    BY Zenon, <1>0, <1>8, Constants, ThreadAssumption, <2>0
      DEF CheckEmpty, ProducerInv, Holds, TypeOK, Ordered
  <2>4. ASSUME NEW e \in Consumer PROVE ConsumerInv(e)'
    BY Zenon, <1>0, <1>8, Constants, ThreadAssumption, <2>0
      DEF CheckEmpty, ConsumerInv, Holds, TypeOK, Ordered
  <2>5. Called' BY Zenon, <1>0, <1>8, Constants, ThreadAssumption DEF CheckEmpty, Called, TypeOK
  <2> QED BY Zenon, <2>1, <2>2, <2>3, <2>4, <2>5 DEF RingInv
<1>9. ASSUME NEW c \in Consumer, SwapConsumerHead(c) PROVE RingInv'
  <2>0. Same(consHead, head[c]) => head[c] = consHead /\ consHead < prodTail
    BY Zenon, <1>9, ConsumerSame DEF SwapConsumerHead
  <2>1. TypeOK'
    <3>1. consHead' \in Nat BY <1>0, <1>9 DEF SwapConsumerHead, TypeOK
    <3>2. pc' \in [Thread -> {"idle", "load", "check", "swap", "copy", "publish"}]
      BY <1>0, <1>9, Zenon DEF SwapConsumerHead, TypeOK
    <3> QED BY Zenon, <1>0, <1>9, <3>1, <3>2 DEF SwapConsumerHead, TypeOK
  <2>2. Ordered'
    BY <1>0, <1>9, Constants, ThreadAssumption, <2>0
      DEF SwapConsumerHead, NotOvertaken, Ordered, TypeOK
  <2>3. ASSUME NEW q \in Producer PROVE ProducerInv(q)'
    BY Zenon, <1>0, <1>9, Constants, ThreadAssumption, <2>0
      DEF SwapConsumerHead, NotOvertaken, ProducerInv, Holds, TypeOK, Ordered
  <2>4. ASSUME NEW e \in Consumer PROVE ConsumerInv(e)'
    <3>1. CASE Same(consHead, head[c])
      <4>1. /\ head[c] = consHead /\ consHead' = consHead + 1 /\ consTail' = consTail
            /\ prodTail' = prodTail /\ head' = head /\ pc'[c] = "copy"
            /\ \A d \in Consumer : d # c => pc'[d] = pc[d]
        BY Zenon, <1>0, <1>9, <2>0, <3>1 DEF SwapConsumerHead, TypeOK
      <4>2. /\ consHead \in Nat /\ consTail \in Nat /\ consTail <= consHead
            /\ \A d \in Consumer : head[d] \in Nat
        BY Zenon, <1>0 DEF TypeOK, Ordered
      <4>3. pc'[e] \in {"check", "swap"} =>
              head[e] <= consHead /\ consHead + 1 + Mask < head[e] + Wrap
        BY <1>0, <1>9, <3>1, <4>1, <4>2, Constants
          DEF SwapConsumerHead, NotOvertaken, ConsumerInv
      <4>4. pc'[e] \in {"copy", "publish"} => consTail <= head[e] /\ head[e] < consHead + 1
        BY <1>0, <4>1, <4>2 DEF ConsumerInv, Holds
      <4>5. \A d \in Consumer : pc'[e] \in {"copy", "publish"} /\ pc'[d] \in {"copy", "publish"}
                                /\ head[e] = head[d] => e = d
        BY <1>0, <4>1, <4>2 DEF ConsumerInv, Holds
      <4> QED BY <4>1, <4>2, <4>3, <4>4, <4>5, Constants DEF ConsumerInv, Holds
    <3>2. CASE ~Same(consHead, head[c])
      BY Zenon, <1>0, <1>9, Constants, <3>2
        DEF SwapConsumerHead, ConsumerInv, Holds, TypeOK
    <3> QED BY Zenon, <3>1, <3>2
  <2>5. Called'
    BY Zenon, <1>0, <1>9, Constants, ThreadAssumption
      DEF SwapConsumerHead, NotOvertaken, Called, TypeOK
  <2> QED BY Zenon, <2>1, <2>2, <2>3, <2>4, <2>5 DEF RingInv
<1>10. ASSUME NEW c \in Consumer, ReadNode(c) PROVE RingInv'
  <2>1. TypeOK' BY <1>0, <1>10, Constants, ThreadAssumption DEF ReadNode, TypeOK
  <2>2. Ordered' BY Zenon, <1>0, <1>10, Constants, ThreadAssumption DEF ReadNode, Ordered, TypeOK
  <2>3. ASSUME NEW q \in Producer PROVE ProducerInv(q)'
    BY Zenon, <1>0, <1>10, Constants, ThreadAssumption
      DEF ReadNode, ProducerInv, Holds, TypeOK, Ordered
  <2>4. ASSUME NEW e \in Consumer PROVE ConsumerInv(e)'
    BY Zenon, <1>0, <1>10, Constants, ThreadAssumption
      DEF ReadNode, ConsumerInv, Holds, TypeOK, Ordered
  <2>5. Called' BY Zenon, <1>0, <1>10, Constants, ThreadAssumption DEF ReadNode, Called, TypeOK
  <2> QED BY Zenon, <2>1, <2>2, <2>3, <2>4, <2>5 DEF RingInv
<1>11. ASSUME NEW c \in Consumer, ReleaseNode(c) PROVE RingInv'
  <2>0. head[c] = consTail BY Zenon, <1>11, ConsumerTurn DEF ReleaseNode, Holds
  <2>1. TypeOK' BY <1>0, <1>11, Constants, ThreadAssumption, <2>0 DEF ReleaseNode, TypeOK
  <2>2. Ordered'
    BY <1>0, <1>11, Constants, ThreadAssumption, <2>0
      DEF ReleaseNode, Ordered, TypeOK, ConsumerInv, Holds
  <2>3. ASSUME NEW q \in Producer PROVE ProducerInv(q)'
    BY <1>0, <1>11, Constants, ThreadAssumption, <2>0, SMTT(30)
      DEF ReleaseNode, ProducerInv, Holds, TypeOK, Ordered
  <2>4. ASSUME NEW e \in Consumer PROVE ConsumerInv(e)'
    BY <1>0, <1>11, Constants, ThreadAssumption, <2>0
      DEF ReleaseNode, ConsumerInv, Holds, TypeOK, Ordered
  <2>5. Called' BY Zenon, <1>0, <1>11, Constants, ThreadAssumption DEF ReleaseNode, Called, TypeOK
  <2> QED BY Zenon, <2>1, <2>2, <2>3, <2>4, <2>5 DEF RingInv
<1>12. CASE UNCHANGED vars
  BY Zenon, <1>0, <1>12 DEF vars, RingInv, Called, TypeOK, Ordered, ProducerInv, ConsumerInv, Holds
<1> QED
  BY Zenon, <1>1, <1>2, <1>3, <1>4, <1>5, <1>6, <1>7, <1>8, <1>9, <1>10, <1>11, <1>12
    DEF Next, Enqueue, Dequeue

\* The counters of the ring never overtake each other (softbus_queue.h), for
\* any number of threads and any size.
THEOREM CountersOrdered == Spec => []Ordered
<1>1. Spec => []RingInv BY RingInit, RingStep, PTL DEF Spec
<1>2. RingInv => Ordered BY Zenon DEF RingInv
<1> QED BY <1>1, <1>2, PTL

\* A number below the modulus is its own remainder.
LEMMA ModSmall ==
  ASSUME NEW a \in Nat, NEW w \in Nat \ {0}, a < w
  PROVE  a % w = a
<1>1. a % w \in 0..(w - 1) /\ a \div w \in Int /\ a = w * (a \div w) + (a % w) BY DivMod
<1> DEFINE q == a \div w
           r == a % w
<1> HIDE DEF q, r
<1>2. a = w * q + r /\ q \in Int /\ r \in 0..(w - 1) BY Zenon, <1>1 DEF q, r
<1>3. CASE q >= 1
  <2>1. w * q >= w BY <1>2, <1>3
  <2> QED BY <2>1, <1>2
<1>4. CASE q <= -1
  <2>1. w * q <= -w BY <1>2, <1>4
  <2> QED BY <2>1, <1>2
<1>5. CASE q = 0
  <2>1. a = r BY <1>2, <1>5
  <2> QED BY Zenon, <2>1 DEF r
<1> QED BY <1>2, <1>3, <1>4, <1>5

\* QueueCountGet counts the items exactly.
THEOREM CountIsExact == Spec => []CountExact
<1>1. Spec => []RingInv BY RingInit, RingStep, PTL DEF Spec
<1>2. RingInv => CountExact
  <2> SUFFICES ASSUME RingInv PROVE CountExact BY Zenon
  <2>1. prodTail - consTail \in Nat /\ prodTail - consTail < Size
    BY Constants DEF RingInv, TypeOK, Ordered
  <2>2. (prodTail - consTail) % Size = prodTail - consTail BY Zenon, <2>1, Constants, ModSmall
  <2> QED BY Zenon, <2>2 DEF CountExact, QueueCountGet
<1> QED BY <1>1, <1>2, PTL

-----------------------------------------------------------------------------
(***************************************************************************)
(* The ring of LockFreeQueue implements BoundedFifo, for every number of   *)
(* threads, every size and every modulus.                                  *)
(***************************************************************************)
(***************************************************************************)
(* The inductive invariant for the contents: a published slot holds an     *)
(* item until it is released, and the slots between tail and head are      *)
(* those of the threads that hold one.                                     *)
(***************************************************************************)
NodeInv ==
  /\ \A p \in Producer : pc[p] = "publish" => nodes[head[p] % Size] \in Item
  /\ \A i \in Nat : consTail <= i /\ i < prodTail => nodes[i % Size] \in Item
  /\ \A c \in Consumer : /\ pc[c] \in {"load", "check", "swap"} => out[c] = None
                         /\ pc[c] = "publish" => out[c] \in Item

Holders(threads) == {t \in threads : Holds(t)}

CountInv ==
  /\ Cardinality(Holders(Producer)) = prodHead - prodTail
  /\ Cardinality(Holders(Consumer)) = consHead - consTail

QueueInv == RingInv /\ NodeInv /\ CountInv

\* Slots of numbers that are less than Size apart are different.
LEMMA SlotsDistinct ==
  ASSUME NEW a \in Nat, NEW b \in Nat, a % Size = b % Size, a - b < Size, b - a < Size
  PROVE  a = b
<1>1. Size \in Nat \ {0} /\ a \in Int /\ b \in Int BY Constants
<1> QED BY <1>1, ModSame, Zenon

\* A producer writes into a slot that nobody reads and no other producer has.
LEMMA WriteIsPrivate ==
  ASSUME RingInv, NEW p \in Producer, Holds(p)
  PROVE  /\ \A i \in Nat : consTail <= i /\ i < prodTail => i % Size # head[p] % Size
         /\ \A q \in Producer : Holds(q) /\ q # p => head[q] % Size # head[p] % Size
<1> USE DEF Thread
<1>1. prodTail <= head[p] /\ head[p] < prodHead /\ head[p] \in Nat
  BY Zenon DEF RingInv, ProducerInv, TypeOK
<1>2. {prodHead, prodTail, consHead, consTail} \subseteq Nat BY Zenon DEF RingInv, TypeOK
<1>3. consTail <= prodTail /\ prodHead <= consTail + Mask
  BY <1>2, Constants DEF RingInv, Ordered
<1>4. ASSUME NEW i \in Nat, consTail <= i, i < prodTail, i % Size = head[p] % Size PROVE FALSE
  <2>1. i - head[p] < Size /\ head[p] - i < Size BY <1>1, <1>2, <1>3, <1>4, Constants
  <2>2. i = head[p] BY Zenon, <2>1, <1>1, <1>4, SlotsDistinct
  <2> QED BY <2>2, <1>1, <1>2, <1>4
<1>5. ASSUME NEW q \in Producer, Holds(q), q # p, head[q] % Size = head[p] % Size PROVE FALSE
  <2>1. prodTail <= head[q] /\ head[q] < prodHead /\ head[q] \in Nat
    BY Zenon, <1>5 DEF RingInv, ProducerInv, TypeOK
  <2>2. head[q] - head[p] < Size /\ head[p] - head[q] < Size
    BY <1>1, <1>2, <1>3, <2>1, Constants
  <2>3. head[q] = head[p] BY Zenon, <2>1, <2>2, <1>1, <1>5, SlotsDistinct
  <2> QED BY Zenon, <2>3, <1>5 DEF RingInv, ProducerInv
<1> QED BY Zenon, <1>4, <1>5

LEMMA QueueInit == Init => QueueInv
<1> SUFFICES ASSUME Init PROVE QueueInv BY Zenon
<1>1. RingInv BY Zenon, RingInit
<1>2. NodeInv BY SizeAssumption DEF Init, NodeInv, Thread
<1>3. Holders(Producer) = {} /\ Holders(Consumer) = {} BY Zenon DEF Init, Holders, Holds, Thread
<1>4. CountInv BY <1>3, FS_EmptySet, SizeAssumption DEF Init, CountInv
<1> QED BY Zenon, <1>1, <1>2, <1>4 DEF QueueInv

\* The contents survive every step.
LEMMA NodeStep == QueueInv /\ [Next]_vars => NodeInv'
<1> SUFFICES ASSUME QueueInv, [Next]_vars PROVE NodeInv' BY Zenon
<1> USE DEF Thread, counters, Go
<1>0. RingInv /\ NodeInv /\ TypeOK /\ Ordered /\ Called BY Zenon DEF QueueInv, RingInv
<1>1. ASSUME NEW t \in Thread, Begin(t) PROVE NodeInv'
  BY Zenon, <1>0, <1>1, ThreadAssumption DEF Begin, NodeInv, TypeOK
<1>2. ASSUME NEW p \in Producer, LoadProducerHead(p) PROVE NodeInv'
  BY Zenon, <1>0, <1>2, ThreadAssumption DEF LoadProducerHead, NodeInv, TypeOK
<1>3. ASSUME NEW p \in Producer, CheckFull(p) PROVE NodeInv'
  BY Zenon, <1>0, <1>3, ThreadAssumption DEF CheckFull, NodeInv, TypeOK
<1>4. ASSUME NEW p \in Producer, SwapProducerHead(p) PROVE NodeInv'
  BY Zenon, <1>0, <1>4, ThreadAssumption DEF SwapProducerHead, NodeInv, TypeOK
<1>5. ASSUME NEW p \in Producer, WriteNode(p) PROVE NodeInv'
  <2>1. Holds(p) BY Zenon, <1>5 DEF WriteNode, Holds
  <2>2. <<p, calls[p]>> \in Item BY <1>0, <1>5 DEF TypeOK, Called, Item, WriteNode
  <2>3. head[p] % Size \in 0..Mask BY Zenon, <1>0, SlotType DEF TypeOK
  <2>4. /\ nodes' = [nodes EXCEPT ![head[p] % Size] = <<p, calls[p]>>]
        /\ pc' = [pc EXCEPT ![p] = "publish"]
        /\ UNCHANGED <<counters, head, out>>
    BY Zenon, <1>5 DEF WriteNode
  <2>5. nodes'[head[p] % Size] = <<p, calls[p]>> BY Zenon, <1>0, <2>3, <2>4 DEF TypeOK
  <2>6. \A j \in 0..Mask : j # head[p] % Size => nodes'[j] = nodes[j] BY Zenon, <1>0, <2>4 DEF TypeOK
  <2>7. ASSUME NEW q \in Producer, pc'[q] = "publish" PROVE nodes'[head'[q] % Size] \in Item
    <3>1. CASE q = p BY Zenon, <3>1, <2>2, <2>4, <2>5
    <3>2. CASE q # p
      <4>1. pc[q] = "publish" /\ head'[q] = head[q] BY Zenon, <1>0, <2>4, <2>7, <3>2 DEF TypeOK
      <4>2. head[q] % Size # head[p] % Size BY Zenon, <1>0, <2>1, <3>2, <4>1, WriteIsPrivate DEF Holds
      <4>3. head[q] % Size \in 0..Mask BY Zenon, <1>0, SlotType DEF TypeOK
      <4> QED BY Zenon, <1>0, <2>6, <4>1, <4>2, <4>3 DEF NodeInv
    <3> QED BY Zenon, <3>1, <3>2
  <2>8. ASSUME NEW j \in Nat, consTail' <= j, j < prodTail' PROVE nodes'[j % Size] \in Item
    <3>1. consTail <= j /\ j < prodTail BY Zenon, <2>4, <2>8
    <3>2. j % Size # head[p] % Size BY Zenon, <1>0, <2>1, <3>1, WriteIsPrivate
    <3>3. j % Size \in 0..Mask BY Zenon, SlotType
    <3> QED BY Zenon, <1>0, <2>6, <3>1, <3>2, <3>3 DEF NodeInv
  <2>9. \A c \in Consumer : pc'[c] = pc[c] BY Zenon, <1>0, <2>4, ThreadAssumption DEF TypeOK
  <2> QED BY Zenon, <1>0, <2>4, <2>7, <2>8, <2>9 DEF NodeInv
<1>6. ASSUME NEW p \in Producer, PublishNode(p) PROVE NodeInv'
  <2>1. head[p] = prodTail BY Zenon, <1>0, <1>6, ProducerTurn DEF PublishNode, Holds
  <2>2. nodes[prodTail % Size] \in Item BY Zenon, <1>0, <1>6, <2>1 DEF NodeInv, PublishNode
  <2>3. \A j \in Nat : j < prodTail + 1 => j < prodTail \/ j = prodTail BY <1>0 DEF TypeOK
  <2>4. \A j \in Nat : consTail <= j /\ j < prodTail + 1 => nodes[j % Size] \in Item
    BY Zenon, <1>0, <2>2, <2>3 DEF NodeInv
  <2> QED BY Zenon, <1>0, <1>6, <2>4, ThreadAssumption DEF PublishNode, NodeInv, TypeOK
<1>7. ASSUME NEW c \in Consumer, LoadConsumerHead(c) PROVE NodeInv'
  BY Zenon, <1>0, <1>7, ThreadAssumption DEF LoadConsumerHead, NodeInv, TypeOK
<1>8. ASSUME NEW c \in Consumer, CheckEmpty(c) PROVE NodeInv'
  BY Zenon, <1>0, <1>8, ThreadAssumption DEF CheckEmpty, NodeInv, TypeOK
<1>9. ASSUME NEW c \in Consumer, SwapConsumerHead(c) PROVE NodeInv'
  BY Zenon, <1>0, <1>9, ThreadAssumption DEF SwapConsumerHead, NodeInv, TypeOK
<1>10. ASSUME NEW c \in Consumer, ReadNode(c) PROVE NodeInv'
  <2>1. consTail <= head[c] /\ head[c] < consHead /\ head[c] \in Nat
    BY Zenon, <1>0, <1>10 DEF RingInv, ConsumerInv, Holds, ReadNode, TypeOK
  <2>2. head[c] < prodTail BY <1>0, <2>1 DEF TypeOK, Ordered
  <2>3. nodes[head[c] % Size] \in Item BY Zenon, <1>0, <2>1, <2>2 DEF NodeInv
  <2> QED BY Zenon, <1>0, <1>10, <2>3, ThreadAssumption DEF ReadNode, NodeInv, TypeOK
<1>11. ASSUME NEW c \in Consumer, ReleaseNode(c) PROVE NodeInv'
  <2>1. \A j \in Nat : consTail + 1 <= j => consTail <= j BY <1>0 DEF TypeOK
  <2> QED BY Zenon, <1>0, <1>11, <2>1, ThreadAssumption DEF ReleaseNode, NodeInv, TypeOK
<1>12. CASE UNCHANGED vars BY Zenon, <1>0, <1>12 DEF vars, NodeInv
<1> QED
  BY Zenon, <1>1, <1>2, <1>3, <1>4, <1>5, <1>6, <1>7, <1>8, <1>9, <1>10, <1>11, <1>12
    DEF Next, Enqueue, Dequeue

\* One more, or one less, of the threads of one side holds a slot.
LEMMA HoldersFinite ==
  ASSUME NEW S, IsFiniteSet(S) PROVE IsFiniteSet(Holders(S)) /\ Cardinality(Holders(S)) \in Nat
<1>1. Holders(S) \subseteq S BY Zenon DEF Holders
<1> QED BY Zenon, <1>1, FS_Subset, FS_CardinalityType

LEMMA CountStep == QueueInv /\ [Next]_vars => CountInv'
<1> SUFFICES ASSUME QueueInv, [Next]_vars PROVE CountInv' BY Zenon
<1> USE DEF Thread, counters, Go
<1>0. RingInv /\ CountInv /\ TypeOK BY Zenon DEF QueueInv, RingInv
<1>f. /\ IsFiniteSet(Holders(Producer)) /\ Cardinality(Holders(Producer)) \in Nat
      /\ IsFiniteSet(Holders(Consumer)) /\ Cardinality(Holders(Consumer)) \in Nat
  BY Zenon, HoldersFinite, ThreadAssumption
<1>n. {prodHead, prodTail, consHead, consTail} \subseteq Nat BY Zenon, <1>0 DEF TypeOK
<1>s. ASSUME Holders(Producer)' = Holders(Producer), Holders(Consumer)' = Holders(Consumer),
             UNCHANGED counters
      PROVE  CountInv'
  BY Zenon, <1>0, <1>s DEF CountInv
<1>1. ASSUME NEW t \in Thread, Begin(t) PROVE CountInv'
  <2>1. Holders(Producer)' = Holders(Producer) /\ Holders(Consumer)' = Holders(Consumer)
    BY Zenon, <1>0, <1>1, ThreadAssumption DEF Begin, Holders, Holds, TypeOK
  <2> QED BY Zenon, <2>1, <1>1, <1>s DEF Begin
<1>2. ASSUME NEW p \in Producer, LoadProducerHead(p) PROVE CountInv'
  <2>1. Holders(Producer)' = Holders(Producer) /\ Holders(Consumer)' = Holders(Consumer)
    BY Zenon, <1>0, <1>2, ThreadAssumption DEF LoadProducerHead, Holders, Holds, TypeOK
  <2> QED BY Zenon, <2>1, <1>2, <1>s DEF LoadProducerHead
<1>3. ASSUME NEW p \in Producer, CheckFull(p) PROVE CountInv'
  <2>1. Holders(Producer)' = Holders(Producer) /\ Holders(Consumer)' = Holders(Consumer)
    BY Zenon, <1>0, <1>3, ThreadAssumption DEF CheckFull, Holders, Holds, TypeOK
  <2> QED BY Zenon, <2>1, <1>3, <1>s DEF CheckFull
<1>4. ASSUME NEW p \in Producer, SwapProducerHead(p) PROVE CountInv'
  <2>1. CASE Same(prodHead, head[p])
    <3>1. p \notin Holders(Producer) BY Zenon, <1>4 DEF SwapProducerHead, Holders, Holds
    <3>2. Holders(Producer)' = Holders(Producer) \cup {p}
      BY Zenon, <1>0, <1>4, <2>1 DEF SwapProducerHead, Holders, Holds, TypeOK
    <3>3. Holders(Consumer)' = Holders(Consumer)
      BY Zenon, <1>0, <1>4, <2>1, ThreadAssumption DEF SwapProducerHead, Holders, Holds, TypeOK
    <3>4. Cardinality(Holders(Producer)') = Cardinality(Holders(Producer)) + 1
      BY <1>f, <3>1, <3>2, FS_AddElement, Zenon
    <3> QED BY <1>0, <1>4, <1>n, <1>f, <2>1, <3>3, <3>4 DEF SwapProducerHead, CountInv
  <2>2. CASE ~Same(prodHead, head[p])
    <3>1. Holders(Producer)' = Holders(Producer) /\ Holders(Consumer)' = Holders(Consumer)
      BY Zenon, <1>0, <1>4, <2>2, ThreadAssumption DEF SwapProducerHead, Holders, Holds, TypeOK
    <3> QED BY Zenon, <3>1, <1>4, <1>s, <2>2 DEF SwapProducerHead
  <2> QED BY Zenon, <2>1, <2>2
<1>5. ASSUME NEW p \in Producer, WriteNode(p) PROVE CountInv'
  <2>1. Holders(Producer)' = Holders(Producer) /\ Holders(Consumer)' = Holders(Consumer)
    BY Zenon, <1>0, <1>5, ThreadAssumption DEF WriteNode, Holders, Holds, TypeOK
  <2> QED BY Zenon, <2>1, <1>5, <1>s DEF WriteNode
<1>6. ASSUME NEW p \in Producer, PublishNode(p) PROVE CountInv'
  <2>1. p \in Holders(Producer) BY Zenon, <1>6 DEF PublishNode, Holders, Holds
  <2>2. Holders(Producer)' = Holders(Producer) \ {p}
    BY Zenon, <1>0, <1>6 DEF PublishNode, Holders, Holds, TypeOK
  <2>3. Holders(Consumer)' = Holders(Consumer)
    BY Zenon, <1>0, <1>6, ThreadAssumption DEF PublishNode, Holders, Holds, TypeOK
  <2>4. Cardinality(Holders(Producer)') = Cardinality(Holders(Producer)) - 1
    BY <1>f, <2>1, <2>2, FS_RemoveElement, Zenon
  <2> QED BY <1>0, <1>6, <1>n, <1>f, <2>3, <2>4 DEF PublishNode, CountInv
<1>7. ASSUME NEW c \in Consumer, LoadConsumerHead(c) PROVE CountInv'
  <2>1. Holders(Producer)' = Holders(Producer) /\ Holders(Consumer)' = Holders(Consumer)
    BY Zenon, <1>0, <1>7, ThreadAssumption DEF LoadConsumerHead, Holders, Holds, TypeOK
  <2> QED BY Zenon, <2>1, <1>7, <1>s DEF LoadConsumerHead
<1>8. ASSUME NEW c \in Consumer, CheckEmpty(c) PROVE CountInv'
  <2>1. Holders(Producer)' = Holders(Producer) /\ Holders(Consumer)' = Holders(Consumer)
    BY Zenon, <1>0, <1>8, ThreadAssumption DEF CheckEmpty, Holders, Holds, TypeOK
  <2> QED BY Zenon, <2>1, <1>8, <1>s DEF CheckEmpty
<1>9. ASSUME NEW c \in Consumer, SwapConsumerHead(c) PROVE CountInv'
  <2>1. CASE Same(consHead, head[c])
    <3>1. c \notin Holders(Consumer) BY Zenon, <1>9 DEF SwapConsumerHead, Holders, Holds
    <3>2. Holders(Consumer)' = Holders(Consumer) \cup {c}
      BY Zenon, <1>0, <1>9, <2>1 DEF SwapConsumerHead, Holders, Holds, TypeOK
    <3>3. Holders(Producer)' = Holders(Producer)
      BY Zenon, <1>0, <1>9, <2>1, ThreadAssumption DEF SwapConsumerHead, Holders, Holds, TypeOK
    <3>4. Cardinality(Holders(Consumer)') = Cardinality(Holders(Consumer)) + 1
      BY <1>f, <3>1, <3>2, FS_AddElement, Zenon
    <3> QED BY <1>0, <1>9, <1>n, <1>f, <2>1, <3>3, <3>4 DEF SwapConsumerHead, CountInv
  <2>2. CASE ~Same(consHead, head[c])
    <3>1. Holders(Producer)' = Holders(Producer) /\ Holders(Consumer)' = Holders(Consumer)
      BY Zenon, <1>0, <1>9, <2>2, ThreadAssumption DEF SwapConsumerHead, Holders, Holds, TypeOK
    <3> QED BY Zenon, <3>1, <1>9, <1>s, <2>2 DEF SwapConsumerHead
  <2> QED BY Zenon, <2>1, <2>2
<1>10. ASSUME NEW c \in Consumer, ReadNode(c) PROVE CountInv'
  <2>1. Holders(Producer)' = Holders(Producer) /\ Holders(Consumer)' = Holders(Consumer)
    BY Zenon, <1>0, <1>10, ThreadAssumption DEF ReadNode, Holders, Holds, TypeOK
  <2> QED BY Zenon, <2>1, <1>10, <1>s DEF ReadNode
<1>11. ASSUME NEW c \in Consumer, ReleaseNode(c) PROVE CountInv'
  <2>1. c \in Holders(Consumer) BY Zenon, <1>11 DEF ReleaseNode, Holders, Holds
  <2>2. Holders(Consumer)' = Holders(Consumer) \ {c}
    BY Zenon, <1>0, <1>11 DEF ReleaseNode, Holders, Holds, TypeOK
  <2>3. Holders(Producer)' = Holders(Producer)
    BY Zenon, <1>0, <1>11, ThreadAssumption DEF ReleaseNode, Holders, Holds, TypeOK
  <2>4. Cardinality(Holders(Consumer)') = Cardinality(Holders(Consumer)) - 1
    BY <1>f, <2>1, <2>2, FS_RemoveElement, Zenon
  <2> QED BY <1>0, <1>11, <1>n, <1>f, <2>3, <2>4 DEF ReleaseNode, CountInv
<1>12. CASE UNCHANGED vars
  <2>1. Holders(Producer)' = Holders(Producer) /\ Holders(Consumer)' = Holders(Consumer)
    BY Zenon, <1>12 DEF vars, Holders, Holds
  <2> QED BY Zenon, <2>1, <1>12, <1>s DEF vars
<1> QED
  BY Zenon, <1>1, <1>2, <1>3, <1>4, <1>5, <1>6, <1>7, <1>8, <1>9, <1>10, <1>11, <1>12
    DEF Next, Enqueue, Dequeue

\* The whole invariant
LEMMA QueueStep == QueueInv /\ [Next]_vars => QueueInv'
BY Zenon, RingStep, NodeStep, CountStep DEF QueueInv

-----------------------------------------------------------------------------
(***************************************************************************)
(* The refinement.  What of the sequence and of the items taken a step     *)
(* leaves alone follows from the two lemmas on nodes; each step that shows *)
(* is then one of BoundedFifo.                                             *)
(***************************************************************************)
LEMMA ContentsType ==
  ASSUME QueueInv
  PROVE  Contents \in Seq(Item) /\ Len(Contents) = prodTail - consHead
<1>1. {prodHead, prodTail, consHead, consTail} \subseteq Nat BY Zenon DEF QueueInv, RingInv, TypeOK
<1>2. prodTail - consHead \in Nat BY <1>1 DEF QueueInv, RingInv, Ordered
<1>3. ASSUME NEW i \in 1..(prodTail - consHead) PROVE nodes[(consHead + i - 1) % Size] \in Item
  <2>1. consHead + i - 1 \in Nat /\ consTail <= consHead + i - 1 /\ consHead + i - 1 < prodTail
    BY <1>1 DEF QueueInv, RingInv, Ordered
  <2> QED BY Zenon, <2>1 DEF QueueInv, NodeInv
<1>4. Contents \in [1..(prodTail - consHead) -> Item] BY Zenon, <1>3 DEF Contents
<1> QED BY <1>2, <1>4

\* A step that moves no counter and writes no node leaves the sequence alone.
LEMMA SameContents ==
  ASSUME UNCHANGED <<counters, nodes>> PROVE Contents' = Contents
BY Zenon DEF Contents, counters

\* A step that writes no node and is not a consumer's leaves what is taken alone.
LEMMA SameTaken ==
  ASSUME TypeOK, NEW t \in Thread \ Consumer, NEW s, Go(t, s), UNCHANGED <<nodes, out>>,
         head' = head \/ \E h : head' = [head EXCEPT ![t] = h]
  PROVE  Taken' = Taken
<1>1. \A c \in Consumer : pc'[c] = pc[c] /\ head'[c] = head[c] BY Zenon DEF TypeOK, Go, Thread
<1> QED BY Zenon, <1>1 DEF Taken

\* A thread between two steps of its call stays in the call.
LEMMA SameBusy ==
  ASSUME TypeOK, NEW t \in Thread, NEW s, Go(t, s), pc[t] # "idle", s # "idle"
  PROVE  Busy' = Busy
BY Zenon DEF TypeOK, Go, Busy

LEMMA LeavesBusy ==
  ASSUME TypeOK, NEW t \in Thread, Go(t, "idle"), pc[t] # "idle"
  PROVE  t \in Busy /\ Busy' = Busy \ {t}
BY Zenon DEF TypeOK, Go, Busy

LEMMA NoneIsNoItem == None \notin Item
BY DEF None, Item

LEMMA SameCardinality == ASSUME NEW S PROVE Fifo!Cardinality(S) = Cardinality(S)
BY Zenon DEF Fifo!Cardinality, Cardinality

LEMMA RefineInit == Init => Fifo!Init
<1> SUFFICES ASSUME Init PROVE Fifo!Init BY Zenon
<1>1. Contents = <<>> BY SizeAssumption DEF Init, Contents
<1>2. Busy = {} BY Zenon DEF Init, Busy
<1>3. Taken = [c \in Consumer |-> None] BY Zenon DEF Init, Taken, Thread
<1> QED BY Zenon, <1>1, <1>2, <1>3 DEF Fifo!Init

LEMMA RefineBegin ==
  ASSUME QueueInv, NEW t \in Thread, Begin(t) PROVE Fifo!Begin(t)
<1>0. TypeOK BY Zenon DEF QueueInv, RingInv
<1>1. t \notin Busy /\ Busy' = Busy \cup {t} BY Zenon, <1>0 DEF Begin, Busy, Go, TypeOK
<1>2. Contents' = Contents BY Zenon, SameContents DEF Begin
<1>3. CASE t \in Consumer
  <2>1. /\ pc'[t] = "load" /\ out'[t] = None
        /\ \A c \in Consumer : c # t => pc'[c] = pc[c] /\ out'[c] = out[c]
        /\ head' = head /\ nodes' = nodes
    BY Zenon, <1>0, <1>3 DEF Begin, Go, TypeOK, Thread
  <2>2. Taken' = [Taken EXCEPT ![t] = None] BY <1>3, <2>1, Zenon DEF Taken
  <2> QED BY Zenon, <1>1, <1>2, <1>3, <2>2 DEF Fifo!Begin
<1>4. CASE t \notin Consumer
  <2>1. Taken' = Taken BY Zenon, <1>0, <1>4, SameTaken DEF Begin
  <2> QED BY Zenon, <1>1, <1>2, <1>4, <2>1 DEF Fifo!Begin
<1> QED BY Zenon, <1>3, <1>4

\* A producer reports "full" when the items and the calls under way fill the ring.
LEMMA RefineFull ==
  ASSUME QueueInv, NEW p \in Producer, CheckFull(p), FreeSlots(p) < 1 PROVE Fifo!PutFull(p)
<1>0. TypeOK /\ Ordered /\ CountInv BY Zenon DEF QueueInv, RingInv
<1>1. {prodHead, prodTail, consHead, consTail} \subseteq Nat /\ head[p] \in Nat
  BY Zenon, <1>0 DEF TypeOK, Thread
<1>2. head[p] <= prodHead /\ prodHead + Mask < head[p] + Wrap
  BY Zenon DEF QueueInv, RingInv, ProducerInv, CheckFull
<1>3. /\ Mask + consTail \in Nat /\ head[p] <= Mask + consTail
      /\ Mask + consTail < head[p] + Wrap
  BY <1>0, <1>1, <1>2, Constants DEF Ordered
<1>4. FreeSlots(p) = (Mask + consTail) - head[p]
  <2>1. Difference(Mask + consTail, head[p]) = (Mask + consTail) - head[p]
    BY Zenon, <1>1, <1>3, DifferenceExact
  <2> QED BY Zenon, <2>1 DEF FreeSlots
<1>5. prodHead = consTail + Mask BY <1>0, <1>1, <1>2, <1>3, <1>4, Constants DEF Ordered
<1>6. pc[p] = "check" /\ Go(p, "idle") /\ UNCHANGED <<counters, nodes, head, out>>
  BY Zenon DEF CheckFull
<1>7. p \in Thread \ Consumer /\ p \in Thread BY Zenon, ThreadAssumption DEF Thread
<1>8. p \in Busy /\ Busy' = Busy \ {p} BY Zenon, <1>0, <1>6, <1>7, LeavesBusy
<1>9. Contents' = Contents /\ Taken' = Taken
  BY Zenon, <1>0, <1>6, <1>7, SameContents, SameTaken
<1> DEFINE P == Holders(Producer)
           C == Holders(Consumer)
<1>10. /\ IsFiniteSet(P) /\ IsFiniteSet(C) /\ P \cap C = {}
       /\ Cardinality(P) \in Nat /\ Cardinality(C) \in Nat
  BY Zenon, HoldersFinite, ThreadAssumption DEF Holders
<1>11. P \cup C \subseteq Busy \ {p} BY Zenon, <1>6 DEF Holders, Holds, Busy, Thread
<1>12. IsFiniteSet(Busy \ {p})
  <2>1. IsFiniteSet(Thread) BY ThreadAssumption, FS_Union, Zenon DEF Thread
  <2>2. Busy \ {p} \subseteq Thread BY Zenon DEF Busy
  <2> QED BY Zenon, <2>1, <2>2, FS_Subset
<1>13. Cardinality(P \cup C) <= Cardinality(Busy \ {p}) BY Zenon, <1>11, <1>12, FS_Subset
<1>14. Cardinality(P \cup C) = Cardinality(P) + Cardinality(C)
  <2>1. Cardinality(P \cap C) = 0 BY Zenon, <1>10, FS_EmptySet
  <2>2. Cardinality(P \cup C) = Cardinality(P) + Cardinality(C) - Cardinality(P \cap C)
    BY Zenon, <1>10, FS_Union
  <2> QED BY <1>10, <2>1, <2>2
<1>15. Cardinality(Busy \ {p}) \in Nat BY Zenon, <1>12, FS_CardinalityType
<1>16. Len(Contents) = prodTail - consHead BY Zenon, ContentsType
<1>17. Cardinality(P) = prodHead - prodTail /\ Cardinality(C) = consHead - consTail
  BY Zenon, <1>0 DEF CountInv
<1> HIDE DEF P, C
<1>18. Len(Contents) + Cardinality(Busy \ {p}) >= Mask
  <2>1. (prodTail - consHead) + ((prodHead - prodTail) + (consHead - consTail)) = Mask
    BY <1>1, <1>5, Constants
  <2> DEFINE k == Cardinality(Busy \ {p})
             u == Cardinality(P \cup C)
             n == Len(Contents)
  <2>2. u <= k /\ k \in Nat /\ u = (prodHead - prodTail) + (consHead - consTail)
    BY Zenon, <1>13, <1>14, <1>15, <1>17
  <2>3. n = prodTail - consHead BY Zenon, <1>16
  <2> HIDE DEF k, u, n
  <2>4. n + k >= Mask BY <1>1, <2>1, <2>2, <2>3, Constants
  <2> QED BY Zenon, <2>4 DEF k, n
<1> QED BY Zenon, <1>8, <1>9, <1>18, SameCardinality DEF Fifo!PutFull

\* Publishing the node of the producer whose turn it is appends it.
LEMMA RefinePut ==
  ASSUME QueueInv, NEW p \in Producer, PublishNode(p) PROVE Fifo!Put(p)
<1>0. RingInv /\ TypeOK /\ Ordered /\ NodeInv BY Zenon DEF QueueInv, RingInv
<1>1. {prodHead, prodTail, consHead, consTail} \subseteq Nat BY Zenon, <1>0 DEF TypeOK
<1>2. /\ pc[p] = "publish" /\ Go(p, "idle") /\ prodTail' = prodTail + 1
      /\ UNCHANGED <<consHead, nodes, head, out>>
  BY Zenon DEF PublishNode
<1>3. head[p] = prodTail /\ prodTail < prodHead
  <2>1. Holds(p) BY Zenon, <1>2 DEF Holds
  <2>2. head[p] = prodTail BY Zenon, <1>0, <2>1, ProducerTurn DEF PublishNode
  <2> QED BY Zenon, <1>0, <2>1, <2>2 DEF RingInv, ProducerInv
<1>4. p \in Thread \ Consumer /\ p \in Thread BY Zenon, ThreadAssumption DEF Thread
<1>5. p \in Busy /\ Busy' = Busy \ {p} BY Zenon, <1>0, <1>2, <1>4, LeavesBusy
<1>6. Taken' = Taken BY Zenon, <1>0, <1>2, <1>4, SameTaken
<1> DEFINE n == prodTail - consHead
           x == nodes[prodTail % Size]
<1>7. n \in Nat /\ n < Mask /\ prodTail' - consHead' = n + 1 /\ consHead + (n + 1) - 1 = prodTail
  BY <1>0, <1>1, <1>2, <1>3, Constants DEF Ordered
<1>8. x \in Item BY Zenon, <1>0, <1>2, <1>3 DEF NodeInv
<1>9. Contents \in Seq(Item) /\ Len(Contents) = n BY Zenon, ContentsType
<1>10. Contents' = Append(Contents, x)
  <2>1. Contents' = [i \in 1..(n + 1) |-> nodes[(consHead + i - 1) % Size]]
    BY Zenon, <1>2, <1>7 DEF Contents
  <2>2. Contents = [i \in 1..n |-> nodes[(consHead + i - 1) % Size]] BY Zenon DEF Contents
  <2>3. nodes[(consHead + (n + 1) - 1) % Size] = x BY Zenon, <1>7
  <2> HIDE DEF n, x
  <2>4. /\ Append(Contents, x) \in Seq(Item) /\ Len(Append(Contents, x)) = n + 1
        /\ \A i \in 1..n : Append(Contents, x)[i] = Contents[i]
        /\ Append(Contents, x)[n + 1] = x
    BY <1>8, <1>9, AppendProperties
  <2>5. \A i \in 1..(n + 1) : i # n + 1 => i \in 1..n BY <1>7
  <2>6. \A i \in 1..(n + 1) : Contents'[i] = Append(Contents, x)[i]
    BY <2>1, <2>2, <2>3, <2>4, <2>5, Zenon
  <2>7. DOMAIN Contents' = 1..(n + 1) /\ Contents' = [i \in 1..(n + 1) |-> Contents'[i]] BY Zenon, <2>1
  <2>8. Append(Contents, x) \in [1..(n + 1) -> Item] BY <2>4, LenProperties, Zenon
  <2> QED BY <2>6, <2>7, <2>8, Zenon
<1> QED BY Zenon, <1>5, <1>6, <1>7, <1>8, <1>9, <1>10 DEF Fifo!Put

\* Moving consumer.head takes the first item of the sequence.
LEMMA RefineGet ==
  ASSUME QueueInv, NEW c \in Consumer, SwapConsumerHead(c), Same(consHead, head[c])
  PROVE  Fifo!Get(c)
<1>0. RingInv /\ TypeOK /\ Ordered /\ NodeInv BY Zenon DEF QueueInv, RingInv
<1>1. {prodHead, prodTail, consHead, consTail} \subseteq Nat BY Zenon, <1>0 DEF TypeOK
<1>2. /\ pc[c] = "swap" /\ Go(c, "copy") /\ consHead' = consHead + 1
      /\ UNCHANGED <<prodTail, nodes, head, out>>
  BY Zenon DEF SwapConsumerHead
<1>3. head[c] = consHead /\ consHead < prodTail BY Zenon, <1>0, <1>2, ConsumerSame
<1>4. c \in Thread BY Zenon DEF Thread
<1>5. c \in Busy /\ Busy' = Busy BY Zenon, <1>0, <1>2, <1>4, SameBusy DEF Busy
<1>6. out[c] = None BY Zenon, <1>0, <1>2 DEF NodeInv
<1>7. Taken[c] = None BY Zenon, <1>2, <1>6 DEF Taken
<1> DEFINE n == prodTail - consHead
<1>8. n \in Nat /\ n >= 1 /\ prodTail' - consHead' = n - 1 BY <1>1, <1>2, <1>3
<1>9. Contents \in Seq(Item) /\ Len(Contents) = n BY Zenon, ContentsType
<1>10. Contents # <<>> BY <1>8, <1>9
<1>11. Contents = [i \in 1..n |-> nodes[(consHead + i - 1) % Size]] BY Zenon DEF Contents
<1>12. Contents' = [i \in 1..(n - 1) |-> nodes[((consHead + 1) + i - 1) % Size]]
  BY Zenon, <1>2, <1>8 DEF Contents
<1> HIDE DEF n
<1>13. Contents' = Tail(Contents)
  <2>1. /\ Tail(Contents) \in Seq(Item) /\ Len(Tail(Contents)) = n - 1
        /\ \A i \in 1..(n - 1) : Tail(Contents)[i] = Contents[i + 1]
    BY Zenon, <1>9, <1>10, HeadTailProperties
  <2>2. \A i \in 1..(n - 1) : i + 1 \in 1..n /\ (consHead + 1) + i - 1 = consHead + (i + 1) - 1
    BY <1>1, <1>8
  <2>3. \A i \in 1..(n - 1) : Contents[i + 1] = nodes[(consHead + (i + 1) - 1) % Size]
    BY Zenon, <1>11, <2>2
  <2>4. \A i \in 1..(n - 1) : Contents'[i] = Tail(Contents)[i] BY Zenon, <1>12, <2>1, <2>2, <2>3
  <2>5. DOMAIN Contents' = 1..(n - 1) /\ Contents' = [i \in 1..(n - 1) |-> Contents'[i]]
    BY Zenon, <1>12
  <2>6. Tail(Contents) \in [1..(n - 1) -> Item] BY <2>1, LenProperties, Zenon
  <2> QED BY <2>4, <2>5, <2>6, Zenon
<1>14. Head(Contents) = nodes[head[c] % Size]
  <2>1. 1 \in 1..n /\ consHead + 1 - 1 = consHead BY <1>1, <1>8
  <2>2. Contents[1] = nodes[consHead % Size] BY Zenon, <1>11, <2>1
  <2>3. Head(Contents) = Contents[1] BY <1>9, <1>10
  <2> QED BY Zenon, <1>3, <2>2, <2>3
<1>15. Taken' = [Taken EXCEPT ![c] = Head(Contents)]
  <2>1. pc'[c] = "copy" /\ \A d \in Consumer : d # c => pc'[d] = pc[d]
    BY Zenon, <1>0, <1>2 DEF Go, TypeOK, Thread
  <2> QED BY <1>2, <1>14, <2>1, Zenon DEF Taken
<1> QED BY Zenon, <1>5, <1>7, <1>10, <1>13, <1>15 DEF Fifo!Get

\* A consumer that reports "empty" has found an empty sequence.
LEMMA RefineEmpty ==
  ASSUME QueueInv, NEW c \in Consumer, CheckEmpty(c), Difference(prodTail, head[c]) < 1
  PROVE  Fifo!GetReturns(c)
<1>0. TypeOK /\ Ordered BY Zenon DEF QueueInv, RingInv
<1>1. {prodHead, prodTail, consHead, consTail} \subseteq Nat /\ head[c] \in Nat
  BY Zenon, <1>0 DEF TypeOK, Thread
<1>2. head[c] <= consHead /\ consHead + Mask < head[c] + Wrap
  BY Zenon DEF QueueInv, RingInv, ConsumerInv, CheckEmpty
<1>3. head[c] <= prodTail /\ prodTail < head[c] + Wrap
  BY <1>0, <1>1, <1>2, Constants DEF Ordered
<1>4. Difference(prodTail, head[c]) = prodTail - head[c] BY Zenon, <1>1, <1>3, DifferenceExact
<1>5. prodTail = consHead BY <1>0, <1>1, <1>2, <1>3, <1>4 DEF Ordered
<1>6. Contents = <<>>
  <2>1. Contents \in Seq(Item) /\ Len(Contents) = prodTail - consHead BY Zenon, ContentsType
  <2>2. Len(Contents) = 0 BY <1>1, <1>5, <2>1
  <2> QED BY Zenon, <2>1, <2>2, EmptySeq
<1>7. pc[c] = "check" /\ Go(c, "idle") /\ UNCHANGED <<counters, nodes, head, out>>
  BY Zenon DEF CheckEmpty
<1>8. c \in Thread BY Zenon DEF Thread
<1>9. c \in Busy /\ Busy' = Busy \ {c} BY Zenon, <1>0, <1>7, <1>8, LeavesBusy
<1>10. Contents' = Contents BY Zenon, <1>7, SameContents
<1>11. Taken' = Taken BY Zenon, <1>0, <1>7 DEF Taken, Go, TypeOK, Thread
<1> QED BY Zenon, <1>6, <1>9, <1>10, <1>11 DEF Fifo!GetReturns

\* A consumer that releases its slot returns with the item it has taken.
LEMMA RefineRelease ==
  ASSUME QueueInv, NEW c \in Consumer, ReleaseNode(c) PROVE Fifo!GetReturns(c)
<1>0. TypeOK /\ NodeInv BY Zenon DEF QueueInv, RingInv
<1>1. pc[c] = "publish" /\ Go(c, "idle") /\ UNCHANGED <<prodTail, consHead, nodes, head, out>>
  BY Zenon DEF ReleaseNode
<1>2. Taken[c] # None BY Zenon, <1>0, <1>1, NoneIsNoItem DEF NodeInv, Taken
<1>3. c \in Thread BY Zenon DEF Thread
<1>4. c \in Busy /\ Busy' = Busy \ {c} BY Zenon, <1>0, <1>1, <1>3, LeavesBusy
<1>5. Contents' = Contents BY Zenon, <1>1 DEF Contents
<1>6. Taken' = Taken BY Zenon, <1>0, <1>1 DEF Taken, Go, TypeOK, Thread
<1> QED BY Zenon, <1>2, <1>4, <1>5, <1>6 DEF Fifo!GetReturns

\* Writing a node changes none that is in the sequence or about to be read.
LEMMA RefineWrite ==
  ASSUME QueueInv, NEW p \in Producer, WriteNode(p) PROVE UNCHANGED Fifo!vars
<1>0. RingInv /\ TypeOK /\ Ordered BY Zenon DEF QueueInv, RingInv
<1>1. {prodHead, prodTail, consHead, consTail} \subseteq Nat BY Zenon, <1>0 DEF TypeOK
<1>2. /\ pc[p] = "copy" /\ Go(p, "publish") /\ UNCHANGED <<counters, head, out>>
      /\ nodes' = [nodes EXCEPT ![head[p] % Size] = <<p, calls[p]>>]
  BY Zenon DEF WriteNode
<1>3. ASSUME NEW j \in Nat, consTail <= j, j < prodTail PROVE nodes'[j % Size] = nodes[j % Size]
  <2>1. j % Size # head[p] % Size BY Zenon, <1>0, <1>2, <1>3, WriteIsPrivate DEF Holds
  <2>2. j % Size \in 0..Mask BY Zenon, SlotType
  <2> QED BY Zenon, <1>0, <1>2, <2>1, <2>2 DEF TypeOK
<1>4. Contents' = Contents
  <2>1. ASSUME NEW i \in 1..(prodTail - consHead)
        PROVE  nodes'[(consHead + i - 1) % Size] = nodes[(consHead + i - 1) % Size]
    <3>1. consHead + i - 1 \in Nat /\ consTail <= consHead + i - 1 /\ consHead + i - 1 < prodTail
      BY <1>0, <1>1 DEF Ordered
    <3> QED BY Zenon, <1>3, <3>1
  <2> QED BY Zenon, <1>2, <2>1 DEF Contents, counters
<1>5. Taken' = Taken
  <2>1. \A c \in Consumer : pc'[c] = pc[c]
    BY Zenon, <1>0, <1>2, ThreadAssumption DEF Go, TypeOK, Thread
  <2>2. ASSUME NEW c \in Consumer, pc[c] = "copy"
        PROVE  nodes'[head[c] % Size] = nodes[head[c] % Size]
    <3>1. head[c] \in Nat /\ consTail <= head[c] /\ head[c] < consHead
      BY Zenon, <1>0, <2>2 DEF RingInv, ConsumerInv, Holds, TypeOK, Thread
    <3>2. head[c] < prodTail BY <1>0, <1>1, <3>1 DEF Ordered
    <3> QED BY Zenon, <1>3, <3>1, <3>2
  <2> QED BY Zenon, <1>2, <2>1, <2>2 DEF Taken
<1>6. Busy' = Busy BY Zenon, <1>0, <1>2, SameBusy DEF Thread
<1> QED BY Zenon, <1>4, <1>5, <1>6 DEF Fifo!vars

\* The other steps inside a call do not show.
LEMMA RefineProducerStutter ==
  ASSUME QueueInv, NEW p \in Producer, NEW s, s # "idle", pc[p] # "idle", Go(p, s),
         UNCHANGED <<prodTail, consHead, consTail, nodes, out>>,
         head' = head \/ \E h : head' = [head EXCEPT ![p] = h]
  PROVE  UNCHANGED Fifo!vars
<1>0. TypeOK BY Zenon DEF QueueInv, RingInv
<1>1. p \in Thread \ Consumer /\ p \in Thread BY Zenon, ThreadAssumption DEF Thread
<1>2. Contents' = Contents BY Zenon DEF Contents
<1>3. Taken' = Taken BY Zenon, <1>0, <1>1, SameTaken
<1>4. Busy' = Busy BY Zenon, <1>0, <1>1, SameBusy
<1> QED BY Zenon, <1>2, <1>3, <1>4 DEF Fifo!vars

LEMMA RefineConsumerStutter ==
  ASSUME QueueInv, NEW c \in Consumer, NEW s, s \notin {"idle", "copy"},
         pc[c] \notin {"idle", "copy"}, Go(c, s), UNCHANGED <<counters, nodes, out>>,
         head' = head \/ \E h : head' = [head EXCEPT ![c] = h]
  PROVE  UNCHANGED Fifo!vars
<1>0. TypeOK BY Zenon DEF QueueInv, RingInv
<1>1. c \in Thread BY Zenon DEF Thread
<1>2. Contents' = Contents BY Zenon, SameContents
<1>3. Busy' = Busy BY Zenon, <1>0, <1>1, SameBusy
<1>4. \A d \in Consumer : d # c => pc'[d] = pc[d] /\ head'[d] = head[d]
  BY Zenon, <1>0 DEF Go, TypeOK, Thread
<1>5. pc'[c] # "copy" BY Zenon, <1>0, <1>1 DEF Go, TypeOK
<1>6. Taken' = Taken BY Zenon, <1>4, <1>5 DEF Taken
<1> QED BY Zenon, <1>2, <1>3, <1>6 DEF Fifo!vars

\* The consumer holds in *node what it has taken.
LEMMA RefineRead ==
  ASSUME QueueInv, NEW c \in Consumer, ReadNode(c) PROVE UNCHANGED Fifo!vars
<1>0. TypeOK BY Zenon DEF QueueInv, RingInv
<1>1. /\ pc[c] = "copy" /\ Go(c, "publish") /\ UNCHANGED <<counters, nodes, head>>
      /\ out' = [out EXCEPT ![c] = nodes[head[c] % Size]]
  BY Zenon DEF ReadNode
<1>2. Contents' = Contents BY Zenon, <1>1, SameContents
<1>3. c \in Thread BY Zenon DEF Thread
<1>4. Busy' = Busy BY Zenon, <1>0, <1>1, <1>3, SameBusy
<1>5. /\ pc'[c] = "publish" /\ out'[c] = nodes[head[c] % Size]
      /\ \A d \in Consumer : d # c => pc'[d] = pc[d] /\ out'[d] = out[d]
  BY <1>0, <1>1, <1>3 DEF Go, TypeOK
<1>6. Taken' = Taken BY Zenon, <1>1, <1>5 DEF Taken
<1> QED BY Zenon, <1>2, <1>4, <1>6 DEF Fifo!vars

LEMMA RefineStep == QueueInv /\ [Next]_vars => [Fifo!Next]_(Fifo!vars)
<1> SUFFICES ASSUME QueueInv, [Next]_vars PROVE [Fifo!Next]_(Fifo!vars) BY Zenon
<1>1. ASSUME NEW t \in Thread, Begin(t) PROVE Fifo!Next
  BY Zenon, <1>1, RefineBegin DEF Fifo!Next, Thread
<1>2. ASSUME NEW p \in Producer, Enqueue(p) PROVE Fifo!Next \/ UNCHANGED Fifo!vars
  <2>1. CASE LoadProducerHead(p)
    BY <2>1, RefineProducerStutter, Zenon DEF LoadProducerHead, counters
  <2>2. CASE CheckFull(p) /\ FreeSlots(p) < 1 BY Zenon, <2>2, RefineFull DEF Fifo!Next
  <2>3. CASE CheckFull(p) /\ ~(FreeSlots(p) < 1)
    BY Zenon, <2>3, RefineProducerStutter DEF CheckFull, counters
  <2>4. CASE SwapProducerHead(p)
    <3>1. PICK s \in {"copy", "load"} : Go(p, s) BY Zenon, <2>4 DEF SwapProducerHead
    <3> QED BY Zenon, <2>4, <3>1, RefineProducerStutter DEF SwapProducerHead
  <2>5. CASE WriteNode(p) BY Zenon, <2>5, RefineWrite
  <2>6. CASE PublishNode(p) BY Zenon, <2>6, RefinePut DEF Fifo!Next
  <2> QED BY Zenon, <1>2, <2>1, <2>2, <2>3, <2>4, <2>5, <2>6 DEF Enqueue
<1>3. ASSUME NEW c \in Consumer, Dequeue(c) PROVE Fifo!Next \/ UNCHANGED Fifo!vars
  <2>1. CASE LoadConsumerHead(c) BY <2>1, RefineConsumerStutter, Zenon DEF LoadConsumerHead
  <2>2. CASE CheckEmpty(c) /\ Difference(prodTail, head[c]) < 1
    BY Zenon, <2>2, RefineEmpty DEF Fifo!Next
  <2>3. CASE CheckEmpty(c) /\ ~(Difference(prodTail, head[c]) < 1)
    BY Zenon, <2>3, RefineConsumerStutter DEF CheckEmpty
  <2>4. CASE SwapConsumerHead(c) /\ Same(consHead, head[c]) BY Zenon, <2>4, RefineGet DEF Fifo!Next
  <2>5. CASE SwapConsumerHead(c) /\ ~Same(consHead, head[c])
    BY Zenon, <2>5, RefineConsumerStutter DEF SwapConsumerHead, counters
  <2>6. CASE ReadNode(c) BY Zenon, <2>6, RefineRead
  <2>7. CASE ReleaseNode(c) BY Zenon, <2>7, RefineRelease DEF Fifo!Next
  <2> QED BY Zenon, <1>3, <2>1, <2>2, <2>3, <2>4, <2>5, <2>6, <2>7 DEF Dequeue
<1>4. CASE UNCHANGED vars
  BY Zenon, <1>4 DEF vars, Fifo!vars, Contents, Busy, Taken
<1> QED BY Zenon, <1>1, <1>2, <1>3, <1>4 DEF Next

\* The ring of softbus_queue.h is a bounded first-in-first-out queue for any
\* number of producers and consumers, any ring size and any counter modulus.
THEOREM RingIsFifo == Spec => ImplementsFifo
<1>1. Spec => []QueueInv BY QueueInit, QueueStep, PTL DEF Spec
<1> QED BY <1>1, RefineInit, RefineStep, PTL DEF Spec, ImplementsFifo, Fifo!Spec
=============================================================================
