------------------------ MODULE BytesDeliveryProofs -------------------------
(***************************************************************************)
(* Proofs about BytesDelivery, for every set of posters and lanes and      *)
(* every ring size.  First what ConnEnqueue and ConnDequeue make of a      *)
(* sound queue (FairPriorityQueue), then the delivery task around it.      *)
(***************************************************************************)
EXTENDS BytesDelivery, WellFoundedInduction, FiniteSetTheorems, TLAPS

(***************************************************************************)
(* What a priority queue holds belongs there, in the order of the calls of *)
(* each poster, and leaves a slot of each ring free; the lists have        *)
(* different ids.                                                          *)
(***************************************************************************)
Filed(pq) ==
  \A p \in Priority : \A k \in DOMAIN pq.queue[p] :
    pq.queue[p][k].id = pq.id /\ pq.queue[p][k].priority = p

InCallOrder(pq) ==
  \A p \in Priority : \A k, l \in DOMAIN pq.queue[p] :
    k < l /\ pq.queue[p][k].poster = pq.queue[p][l].poster
      => pq.queue[p][k].n < pq.queue[p][l].n

Small(pq) == \A p \in Priority : Len(pq.queue[p]) < Size

Sound(pq) == Filed(pq) /\ InCallOrder(pq) /\ Small(pq)

SoundQueue(q) ==
  /\ q \in Queue(Item)
  /\ q.inner.id = 0 /\ Sound(q.inner)
  /\ \A i \in DOMAIN q.queues : q.queues[i].id # 0 /\ Sound(q.queues[i])
  /\ \A i, j \in DOMAIN q.queues : q.queues[i].id = q.queues[j].id => i = j

-----------------------------------------------------------------------------
(***************************************************************************)
(* Facts about the queue.                                                  *)
(***************************************************************************)
\* A set of positions has a first one.
LEMMA FirstIs ==
  ASSUME NEW I \in SUBSET (Nat \ {0})
  PROVE  /\ First(I) = 0 <=> I = {}
         /\ I # {} => First(I) \in I /\ \A j \in I : First(I) <= j
<1>1. CASE I = {}
  BY Zenon, <1>1 DEF First
<1>2. CASE I # {}
  <2> DEFINE R == {ss \in Nat \X Nat : ss[1] < ss[2]}
  <2>1. IsWellFoundedOn(R, Nat)
    BY Zenon, NatLessThanWellFounded DEF OpToRel
  <2> HIDE DEF R
  <2>2. PICK x \in I : \A y \in I : ~(<<y, x>> \in R)
    BY Zenon, <1>2, <2>1, WFMin
  <2>3. \A y \in I : ~(y < x)
    BY Zenon, <2>2 DEF R
  <2>4. \A y \in I : x <= y
    BY <2>3
  <2>5. Min(I) \in I /\ \A j \in I : Min(I) <= j
    BY Zenon, <2>4 DEF Min
  <2> QED
    BY Zenon, <1>2, <2>5 DEF First
<1> QED
  BY Zenon, <1>1, <1>2

LEMMA PriorityQueueItem ==
  ASSUME NEW pq, NEW x
  PROVE  x \in PriorityQueueItems(pq)
           <=> \E p \in Priority : \E k \in DOMAIN pq.queue[p] : x = pq.queue[p][k]
BY DEF PriorityQueueItems, Range

LEMMA QueueItem ==
  ASSUME NEW q, NEW x
  PROVE  x \in QueueItems(q)
           <=> \/ x \in PriorityQueueItems(q.inner)
               \/ \E i \in DOMAIN q.queues : x \in PriorityQueueItems(q.queues[i])
BY Zenon DEF QueueItems, Range

\* The fields of a sound queue.
LEMMA QueueFields ==
  ASSUME NEW q, SoundQueue(q)
  PROVE  /\ q = [inner |-> q.inner, queues |-> q.queues]
         /\ q.inner \in PriorityQueue(Item) /\ q.inner.id = 0 /\ Sound(q.inner)
         /\ q.queues \in Seq(PriorityQueue(Item))
         /\ \A i \in DOMAIN q.queues :
              /\ q.queues[i] \in PriorityQueue(Item)
              /\ q.queues[i].id \in Nat \ {0}
              /\ Sound(q.queues[i])
         /\ \A i, j \in DOMAIN q.queues : q.queues[i].id = q.queues[j].id => i = j
<1>1. /\ q \in Queue(Item)
      /\ q.inner \in PriorityQueue(Item)
      /\ q.queues \in Seq(PriorityQueue(Item))
  BY Zenon DEF SoundQueue, Queue
<1>2. \A i \in DOMAIN q.queues : q.queues[i] \in PriorityQueue(Item)
  BY <1>1
<1>3. \A pq \in PriorityQueue(Item) : pq.id \in Nat
  BY Zenon DEF PriorityQueue
<1> QED
  BY Zenon, <1>1, <1>2, <1>3 DEF SoundQueue, Queue

LEMMA QueueExcept ==
  ASSUME NEW q, SoundQueue(q), NEW v
  PROVE  /\ [q EXCEPT !.queues = v] = [inner |-> q.inner, queues |-> v]
         /\ [q EXCEPT !.inner = v] = [inner |-> v, queues |-> q.queues]
BY DEF SoundQueue, Queue

\* A queue made of sound parts is sound.
LEMMA SoundParts ==
  ASSUME NEW a \in PriorityQueue(Item), a.id = 0, Sound(a),
         NEW s \in Seq(PriorityQueue(Item)),
         \A i \in DOMAIN s : s[i].id # 0 /\ Sound(s[i]),
         \A i, j \in DOMAIN s : s[i].id = s[j].id => i = j
  PROVE  SoundQueue([inner |-> a, queues |-> s])
BY Zenon DEF SoundQueue, Queue

LEMMA CreatedSound ==
  ASSUME NEW id \in Nat
  PROVE  /\ CreatePriorityQueue(id) \in PriorityQueue(Item)
         /\ CreatePriorityQueue(id).id = id
         /\ Sound(CreatePriorityQueue(id))
         /\ PriorityQueueItems(CreatePriorityQueue(id)) = {}
<1>1. /\ CreatePriorityQueue(id).id = id
      /\ \A p \in Priority : CreatePriorityQueue(id).queue[p] = <<>>
  BY Zenon DEF CreatePriorityQueue
<1>2. Len(<<>>) = 0 /\ DOMAIN <<>> = {} /\ <<>> \in Seq(Item)
  OBVIOUS
<1>3. CreatePriorityQueue(id) \in PriorityQueue(Item)
  BY Zenon, <1>2 DEF CreatePriorityQueue, PriorityQueue
<1>4. Sound(CreatePriorityQueue(id))
  BY <1>1, <1>2, SizeAssumption DEF Sound, Filed, InCallOrder, Small
<1>5. PriorityQueueItems(CreatePriorityQueue(id)) = {}
  BY Zenon, <1>1, <1>2, PriorityQueueItem
<1> QED
  BY Zenon, <1>1, <1>3, <1>4, <1>5

LEMMA FindIs ==
  ASSUME NEW q, SoundQueue(q), NEW id
  PROVE  /\ Find(q, id) = 0 => \A i \in DOMAIN q.queues : q.queues[i].id # id
         /\ Find(q, id) # 0 => Find(q, id) \in DOMAIN q.queues /\ q.queues[Find(q, id)].id = id
<1> DEFINE I == {i \in DOMAIN q.queues : q.queues[i].id = id}
<1>1. I \in SUBSET (Nat \ {0})
  BY QueueFields
<1>2. Find(q, id) = First(I)
  BY Zenon DEF Find
<1> QED
  BY Zenon, <1>1, <1>2, FirstIs

-----------------------------------------------------------------------------
(***************************************************************************)
(* Enqueueing.                                                             *)
(***************************************************************************)
\* The lists of r are those of q, and perhaps a last one for an id without
\* items in q.
Extends(q, r) ==
  \A i \in DOMAIN r.queues :
    \/ i \in DOMAIN q.queues /\ r.queues[i].id = q.queues[i].id
    \/ i = Len(q.queues) + 1 /\ \A x \in QueueItems(q) : x.id # r.queues[i].id

\* An item is filed under its id.
LEMMA FiledItem ==
  ASSUME NEW q, SoundQueue(q), NEW x \in QueueItems(q), x.id # 0
  PROVE  \E i \in DOMAIN q.queues : q.queues[i].id = x.id /\ x \in PriorityQueueItems(q.queues[i])
<1>1. \A pq, y : Sound(pq) /\ y \in PriorityQueueItems(pq) => y.id = pq.id
  BY PriorityQueueItem DEF Sound, Filed
<1>2. x \notin PriorityQueueItems(q.inner)
  BY <1>1, QueueFields
<1>3. PICK i \in DOMAIN q.queues : x \in PriorityQueueItems(q.queues[i])
  BY Zenon, <1>2, QueueItem
<1> QED
  BY <1>1, <1>3, QueueFields

LEMMA GetOrCreateIs ==
  ASSUME NEW q, SoundQueue(q), NEW id \in Nat,
         NEW r, r = GetOrCreatePriorityQueue(q, id)
  PROVE  /\ SoundQueue(r)
         /\ r.inner = q.inner
         /\ QueueItems(r) = QueueItems(q)
         /\ id # 0 => Find(r, id) # 0
         /\ Extends(q, r)
<1>1. CASE id = 0 \/ Find(q, id) # 0
  <2>1. r = q
    BY Zenon, <1>1 DEF GetOrCreatePriorityQueue
  <2> QED
    BY Zenon, <1>1, <2>1 DEF Extends
<1>2. CASE id # 0 /\ Find(q, id) = 0
  <2> DEFINE c == CreatePriorityQueue(id)
             s == Append(q.queues, c)
  <2>1. r = [inner |-> q.inner, queues |-> s]
    <3>1. r = [q EXCEPT !.queues = s]
      BY Zenon, <1>2 DEF GetOrCreatePriorityQueue
    <3> QED
      BY Zenon, <3>1, QueueExcept
  <2>2. /\ c \in PriorityQueue(Item) /\ c.id = id /\ Sound(c)
        /\ PriorityQueueItems(c) = {}
    BY Zenon, CreatedSound
  <2>3. \A i \in DOMAIN q.queues : q.queues[i].id # id
    BY Zenon, <1>2, FindIs
  <2> HIDE DEF c
  <2>4. /\ s \in Seq(PriorityQueue(Item))
        /\ Len(s) = Len(q.queues) + 1
        /\ DOMAIN s = 1..Len(s) /\ DOMAIN q.queues = 1..Len(q.queues)
        /\ Len(q.queues) \in Nat
        /\ s[Len(s)] = c
        /\ \A i \in DOMAIN q.queues : s[i] = q.queues[i]
    BY <2>2, QueueFields
  <2>5. \A i \in DOMAIN s : i \in DOMAIN q.queues \/ i = Len(s)
    BY <2>4
  <2> HIDE DEF s
  <2>6. \A i \in DOMAIN s : s[i].id # 0 /\ Sound(s[i])
    BY <1>2, <2>2, <2>4, <2>5, QueueFields
  <2>7. \A i, j \in DOMAIN s : s[i].id = s[j].id => i = j
    BY <2>2, <2>3, <2>4, <2>5, QueueFields
  <2>8. SoundQueue(r)
    <3>1. q.inner \in PriorityQueue(Item) /\ q.inner.id = 0 /\ Sound(q.inner)
      BY Zenon, QueueFields
    <3> QED
      BY Zenon, <2>1, <2>4, <2>6, <2>7, <3>1, SoundParts
  <2>9. r.inner = q.inner /\ r.queues = s
    BY <2>1
  <2>10. \A x : x \in QueueItems(r) <=> x \in QueueItems(q)
    <3> TAKE x
    <3>1. (\E i \in DOMAIN s : x \in PriorityQueueItems(s[i]))
            <=> \E i \in DOMAIN q.queues : x \in PriorityQueueItems(q.queues[i])
      BY <2>2, <2>4, <2>5
    <3> QED
      BY Zenon, <2>9, <3>1, QueueItem
  <2>11. Find(r, id) # 0
    BY <2>2, <2>4, <2>8, <2>9, FindIs
  <2>12. \A x \in QueueItems(q) : x.id # id
    BY <1>2, <2>3, FiledItem
  <2>13. Extends(q, r)
    BY <2>2, <2>4, <2>5, <2>9, <2>12 DEF Extends
  <2> QED
    BY Zenon, <2>8, <2>9, <2>10, <2>11, <2>13
<1> QED
  BY Zenon, <1>1, <1>2

LEMMA RingFields ==
  ASSUME NEW pq \in PriorityQueue(Item)
  PROVE  /\ pq.id \in Nat
         /\ pq.queue \in [Priority -> Seq(Item)]
         /\ \A p \in Priority : /\ pq.queue[p] \in Seq(Item)
                                /\ Len(pq.queue[p]) \in Nat
                                /\ DOMAIN pq.queue[p] = 1..Len(pq.queue[p])
                                /\ \A k \in DOMAIN pq.queue[p] : pq.queue[p][k] \in Item
<1>1. pq.id \in Nat /\ pq.queue \in [Priority -> Seq(Item)]
  BY Zenon DEF PriorityQueue
<1>2. \A p \in Priority : pq.queue[p] \in Seq(Item)
  BY Zenon, <1>1
<1> QED
  BY <1>1, <1>2

LEMMA ItemFields ==
  ASSUME NEW x \in Item
  PROVE  /\ x.poster \in Poster /\ x.n \in Nat
         /\ x.id \in Nat /\ x.id \in Ids /\ x.priority \in Priority
<1>1. Ids \subseteq Nat
  BY Zenon, LaneAssumption DEF Ids
<1>2. 1..MaxPosts \subseteq Nat
  BY BoundsNat
<1>3. /\ x.poster \in Poster /\ x.n \in 1..MaxPosts
      /\ x.id \in Ids /\ x.priority \in Priority
  BY Zenon DEF Item
<1> QED
  BY Zenon, <1>1, <1>2, <1>3

\* Putting the next item of a poster at the end of its ring.
LEMMA AppendSound ==
  ASSUME NEW pq \in PriorityQueue(Item), Sound(pq),
         NEW x \in Item, x.id = pq.id,
         NEW p \in Priority, x.priority = p,
         Len(pq.queue[p]) < Size - 1,
         \A y \in PriorityQueueItems(pq) : y.poster = x.poster => y.n < x.n,
         NEW r \in PriorityQueue(Item), r.id = pq.id,
         \A o \in Priority :
           r.queue[o] = IF o = p THEN Append(pq.queue[p], x) ELSE pq.queue[o]
  PROVE  /\ Sound(r)
         /\ \A y : y \in PriorityQueueItems(r) <=> y \in PriorityQueueItems(pq) \/ y = x
<1> DEFINE w == pq.queue[p]
           s == Append(w, x)
<1>1. w \in Seq(Item) /\ Len(w) \in Nat /\ DOMAIN w = 1..Len(w)
  BY Zenon, RingFields
<1>2. /\ s \in Seq(Item)
      /\ Len(s) = Len(w) + 1
      /\ DOMAIN s = 1..Len(s)
      /\ s[Len(s)] = x
      /\ \A k \in DOMAIN w : s[k] = w[k]
  BY <1>1
<1>4. \A o \in Priority : r.queue[o] = IF o = p THEN s ELSE pq.queue[o]
  BY Zenon
<1> HIDE DEF s
<1>5. /\ \A k \in DOMAIN s : k \in DOMAIN w \/ k = Len(s)
      /\ \A k \in DOMAIN w : k \in DOMAIN s
      /\ Len(s) \in DOMAIN s
  BY <1>1, <1>2
<1>6. \A k \in DOMAIN w : w[k] \in PriorityQueueItems(pq)
  BY Zenon, PriorityQueueItem
<1>7. Filed(r)
  BY <1>2, <1>4, <1>5 DEF Sound, Filed
<1>8. InCallOrder(r)
  <2>1. \A o \in Priority : \A k, l \in DOMAIN pq.queue[o] :
          k < l /\ pq.queue[o][k].poster = pq.queue[o][l].poster
            => pq.queue[o][k].n < pq.queue[o][l].n
    BY Zenon DEF Sound, InCallOrder
  <2> SUFFICES ASSUME NEW o \in Priority, NEW k \in DOMAIN r.queue[o], NEW l \in DOMAIN r.queue[o],
                      k < l, r.queue[o][k].poster = r.queue[o][l].poster
               PROVE  r.queue[o][k].n < r.queue[o][l].n
    BY Zenon DEF InCallOrder
  <2>2. CASE o # p
    BY Zenon, <1>4, <2>1, <2>2
  <2>3. CASE o = p
    <3>1. r.queue[o] = s
      BY Zenon, <1>4, <2>3
    <3>2. k \in DOMAIN w
      BY <1>1, <1>2, <1>5, <3>1
    <3>3. CASE l \in DOMAIN w
      BY SMTT(20), <1>2, <2>1, <3>1, <3>2, <3>3
    <3>4. CASE l = Len(s)
      BY Zenon, <1>2, <1>6, <3>1, <3>2, <3>4
    <3> QED
      BY Zenon, <1>5, <3>1, <3>3, <3>4
  <2> QED
    BY Zenon, <2>2, <2>3
<1>9. Small(r)
  BY <1>1, <1>2, <1>4, SizeAssumption DEF Sound, Small
<1>10. ASSUME NEW y
       PROVE  y \in PriorityQueueItems(r) <=> y \in PriorityQueueItems(pq) \/ y = x
  <2>1. /\ y \in PriorityQueueItems(r)
             <=> \E o \in Priority : \E k \in DOMAIN r.queue[o] : y = r.queue[o][k]
        /\ y \in PriorityQueueItems(pq)
             <=> \E o \in Priority : \E k \in DOMAIN pq.queue[o] : y = pq.queue[o][k]
    BY PriorityQueueItem
  <2>2. (\E k \in DOMAIN s : y = s[k]) <=> (\E k \in DOMAIN w : y = w[k]) \/ y = x
    BY <1>2, <1>5
  <2> QED
    BY <1>4, <2>1, <2>2
<1> QED
  BY Zenon, <1>7, <1>8, <1>9, <1>10 DEF Sound

\* Putting a priority queue in place of another one with the same id.
LEMMA ReplaceSound ==
  ASSUME NEW q, SoundQueue(q), NEW i \in DOMAIN q.queues,
         NEW a \in PriorityQueue(Item), a.id = q.queues[i].id, Sound(a),
         NEW r, r.inner = q.inner, r = [inner |-> r.inner, queues |-> r.queues],
         r.queues = [q.queues EXCEPT ![i] = a]
  PROVE  /\ SoundQueue(r)
         /\ DOMAIN r.queues = DOMAIN q.queues
         /\ \A k \in DOMAIN q.queues : r.queues[k] = IF k = i THEN a ELSE q.queues[k]
         /\ \A k \in DOMAIN q.queues : r.queues[k].id = q.queues[k].id
<1> DEFINE s == r.queues
<1>1. q.queues \in Seq(PriorityQueue(Item))
  BY Zenon, QueueFields
<1>2. /\ s \in Seq(PriorityQueue(Item))
      /\ DOMAIN s = DOMAIN q.queues
      /\ \A k \in DOMAIN q.queues : s[k] = IF k = i THEN a ELSE q.queues[k]
  BY <1>1
<1> HIDE DEF s
<1>3. \A k \in DOMAIN q.queues : s[k].id = q.queues[k].id
  BY Zenon, <1>2
<1>4. \A k \in DOMAIN s : s[k].id # 0 /\ Sound(s[k])
  BY Zenon, <1>2, QueueFields
<1>5. \A k, j \in DOMAIN s : s[k].id = s[j].id => k = j
  BY <1>2, <1>3, QueueFields
<1>6. q.inner \in PriorityQueue(Item) /\ q.inner.id = 0 /\ Sound(q.inner)
  BY Zenon, QueueFields
<1>7. SoundQueue([inner |-> q.inner, queues |-> s])
  BY Zenon, <1>2, <1>4, <1>5, <1>6, SoundParts
<1> QED
  BY Zenon, <1>2, <1>3, <1>7 DEF s

\* Enqueueing the next item of a poster adds the item.
LEMMA EnqueueIs ==
  ASSUME NEW q, SoundQueue(q), NEW x \in Item, HasRoom(q, x),
         \A y \in QueueItems(q) : y.poster = x.poster => y.n < x.n
  PROVE  /\ SoundQueue(Enqueue(q, x))
         /\ \A y : y \in QueueItems(Enqueue(q, x)) <=> y \in QueueItems(q) \/ y = x
         /\ Extends(q, Enqueue(q, x))
<1> DEFINE g == GetOrCreatePriorityQueue(q, x.id)
           pr == x.priority
           e == Enqueue(q, x)
<1>1. /\ SoundQueue(g)
      /\ g.inner = q.inner
      /\ QueueItems(g) = QueueItems(q)
      /\ x.id # 0 => Find(g, x.id) # 0
      /\ Extends(q, g)
  BY Zenon, GetOrCreateIs, ItemFields
<1>2. Len(PriorityQueueOf(g, x.id).queue[pr]) < Size - 1
  BY Zenon DEF HasRoom
<1>3. e = IF x.id = 0 THEN [g EXCEPT !.inner.queue[pr] = Append(@, x)]
          ELSE [g EXCEPT !.queues[Find(g, x.id)].queue[pr] = Append(@, x)]
  BY Zenon DEF Enqueue
<1>4. pr \in Priority /\ x.priority = pr
  BY Zenon, ItemFields
<1> HIDE DEF g, pr, e
<1>5. CASE x.id = 0
  <2> DEFINE a == [g.inner EXCEPT !.queue[pr] = Append(@, x)]
  <2>1. e = [inner |-> a, queues |-> g.queues]
    <3>1. e = [g EXCEPT !.inner = a]
      BY Zenon, <1>3, <1>5
    <3> QED
      BY Zenon, <1>1, <3>1, QueueExcept
  <2>2. /\ g.inner \in PriorityQueue(Item) /\ Sound(g.inner) /\ g.inner.id = x.id
        /\ Len(g.inner.queue[pr]) < Size - 1
        /\ \A y \in PriorityQueueItems(g.inner) : y.poster = x.poster => y.n < x.n
    BY Zenon, <1>1, <1>2, <1>5, QueueFields, QueueItem DEF PriorityQueueOf
  <2>3. /\ a \in PriorityQueue(Item)
        /\ a.id = g.inner.id
        /\ \A o \in Priority :
             a.queue[o] = IF o = pr THEN Append(g.inner.queue[pr], x) ELSE g.inner.queue[o]
    <3>1. Append(g.inner.queue[pr], x) \in Seq(Item)
      BY <1>4, <2>2, RingFields
    <3> QED
      BY Zenon, <1>4, <2>2, <3>1 DEF PriorityQueue
  <2> HIDE DEF a
  <2>4. /\ Sound(a)
        /\ \A y : y \in PriorityQueueItems(a) <=> y \in PriorityQueueItems(g.inner) \/ y = x
    BY <1>4, <2>2, <2>3, AppendSound
  <2>5. SoundQueue(e)
    <3>1. /\ g.queues \in Seq(PriorityQueue(Item))
          /\ \A i \in DOMAIN g.queues : g.queues[i].id # 0 /\ Sound(g.queues[i])
          /\ \A i, j \in DOMAIN g.queues : g.queues[i].id = g.queues[j].id => i = j
      BY Zenon, <1>1, QueueFields
    <3> QED
      BY Zenon, <1>5, <2>1, <2>2, <2>3, <2>4, <3>1, SoundParts
  <2>6. e.inner = a /\ e.queues = g.queues
    BY Zenon, <2>1
  <2>7. \A y : y \in QueueItems(e) <=> y \in QueueItems(q) \/ y = x
    BY Zenon, <1>1, <2>4, <2>6, QueueItem
  <2>8. Extends(q, e)
    BY Zenon, <1>1, <2>6 DEF Extends
  <2> QED
    BY Zenon, <2>5, <2>7, <2>8 DEF e
<1>6. CASE x.id # 0
  <2> DEFINE i == Find(g, x.id)
             a == [g.queues[i] EXCEPT !.queue[pr] = Append(@, x)]
  <2>1. /\ i \in DOMAIN g.queues /\ g.queues[i].id = x.id
        /\ g.queues[i] \in PriorityQueue(Item) /\ Sound(g.queues[i])
    BY Zenon, <1>1, <1>6, FindIs, QueueFields
  <2>2. e = [inner |-> g.inner, queues |-> [g.queues EXCEPT ![i] = a]]
    <3> DEFINE v == [g.queues EXCEPT ![i] = a]
    <3>1. e = [g EXCEPT !.queues = v]
      BY Zenon, <1>3, <1>6
    <3> HIDE DEF v
    <3>2. e = [inner |-> g.inner, queues |-> v]
      BY Zenon, <1>1, <3>1, QueueExcept
    <3> QED
      BY Zenon, <3>2 DEF v
  <2>3. Len(g.queues[i].queue[pr]) < Size - 1
    BY ZenonT(30), <1>2, <1>6 DEF PriorityQueueOf
  <2>4. /\ a \in PriorityQueue(Item)
        /\ a.id = g.queues[i].id
        /\ \A o \in Priority :
             a.queue[o] = IF o = pr THEN Append(g.queues[i].queue[pr], x) ELSE g.queues[i].queue[o]
    <3>1. Append(g.queues[i].queue[pr], x) \in Seq(Item)
      BY <1>4, <2>1, RingFields
    <3> DEFINE b == g.queues[i]
    <3>2. b \in PriorityQueue(Item) /\ Append(b.queue[pr], x) \in Seq(Item)
      BY Zenon, <2>1, <3>1
    <3> HIDE DEF b
    <3>3. LET c == [b EXCEPT !.queue[pr] = Append(@, x)]
          IN  /\ c \in PriorityQueue(Item)
              /\ c.id = b.id
              /\ \A o \in Priority : c.queue[o] = IF o = pr THEN Append(b.queue[pr], x) ELSE b.queue[o]
      BY Zenon, <1>4, <3>2 DEF PriorityQueue
    <3> QED
      BY Zenon, <3>3 DEF b
  <2> HIDE DEF a, i
  <2>5. \A y \in PriorityQueueItems(g.queues[i]) : y.poster = x.poster => y.n < x.n
    BY Zenon, <1>1, <2>1, QueueItem
  <2>6. /\ Sound(a)
        /\ \A y : y \in PriorityQueueItems(a) <=> y \in PriorityQueueItems(g.queues[i]) \/ y = x
    BY <1>4, <2>1, <2>3, <2>4, <2>5, AppendSound
  <2>7. e.inner = g.inner /\ e.queues = [g.queues EXCEPT ![i] = a]
    BY Zenon, <2>2
  <2>8. /\ SoundQueue(e)
        /\ DOMAIN e.queues = DOMAIN g.queues
        /\ \A k \in DOMAIN g.queues : e.queues[k] = IF k = i THEN a ELSE g.queues[k]
        /\ \A k \in DOMAIN g.queues : e.queues[k].id = g.queues[k].id
    BY Zenon, <1>1, <2>1, <2>2, <2>4, <2>6, <2>7, ReplaceSound
  <2>9. \A y : y \in QueueItems(e) <=> y \in QueueItems(q) \/ y = x
    BY Zenon, <1>1, <2>1, <2>6, <2>7, <2>8, QueueItem
  <2>10. Extends(q, e)
    BY Zenon, <1>1, <2>8 DEF Extends
  <2> QED
    BY Zenon, <2>8, <2>9, <2>10 DEF e
<1> QED
  BY Zenon, <1>5, <1>6

-----------------------------------------------------------------------------
(***************************************************************************)
(* Dequeueing.                                                             *)
(***************************************************************************)
\* x is the earliest item of its poster in its ring.
Earliest(x, S) ==
  \A y \in S : y.poster = x.poster /\ y.id = x.id /\ y.priority = x.priority => x.n <= y.n

\* Taking the head of a ring.
LEMMA TailSound ==
  ASSUME NEW pq \in PriorityQueue(Item), Sound(pq),
         NEW p \in Priority, pq.queue[p] # <<>>,
         NEW x, x = Head(pq.queue[p]),
         NEW r \in PriorityQueue(Item), r.id = pq.id,
         \A o \in Priority : r.queue[o] = IF o = p THEN Tail(pq.queue[p]) ELSE pq.queue[o]
  PROVE  /\ Sound(r)
         /\ x \in Item /\ x.id = pq.id /\ x.priority = p
         /\ x \in PriorityQueueItems(pq)
         /\ \A y : y \in PriorityQueueItems(r) <=> y \in PriorityQueueItems(pq) /\ y # x
         /\ Earliest(x, PriorityQueueItems(pq))
<1> DEFINE w == pq.queue[p]
           s == Tail(w)
<1>1. w \in Seq(Item) /\ Len(w) \in Nat /\ DOMAIN w = 1..Len(w)
  BY Zenon, RingFields
<1>2. /\ s \in Seq(Item)
      /\ Len(w) > 0 /\ Len(s) = Len(w) - 1
      /\ DOMAIN s = 1..Len(s)
      /\ 1 \in DOMAIN w /\ w[1] = x
      /\ \A k \in DOMAIN s : k + 1 \in DOMAIN w /\ s[k] = w[k + 1]
  BY <1>1
<1>3. \A o \in Priority : r.queue[o] = IF o = p THEN s ELSE pq.queue[o]
  BY Zenon
<1> HIDE DEF s
<1>4. /\ \A o \in Priority : \A k \in DOMAIN pq.queue[o] :
           pq.queue[o][k].id = pq.id /\ pq.queue[o][k].priority = o
      /\ \A o \in Priority : \A k, l \in DOMAIN pq.queue[o] :
           k < l /\ pq.queue[o][k].poster = pq.queue[o][l].poster
             => pq.queue[o][k].n < pq.queue[o][l].n
      /\ \A o \in Priority : Len(pq.queue[o]) < Size
  BY Zenon DEF Sound, Filed, InCallOrder, Small
<1>5. x \in Item /\ x.id = pq.id /\ x.priority = p
  BY <1>1, <1>2, <1>4
<1>6. x \in PriorityQueueItems(pq)
  BY Zenon, <1>2, PriorityQueueItem
<1>7. Filed(r)
  <2> SUFFICES ASSUME NEW o \in Priority, NEW k \in DOMAIN r.queue[o]
               PROVE  r.queue[o][k].id = r.id /\ r.queue[o][k].priority = o
    BY Zenon DEF Filed
  <2>1. CASE o # p
    BY <1>3, <1>4, <2>1
  <2>2. CASE o = p
    <3>1. r.queue[o] = s
      BY Zenon, <1>3, <2>2
    <3>2. k + 1 \in DOMAIN w /\ s[k] = w[k + 1]
      BY Zenon, <1>2, <3>1
    <3> QED
      BY <1>4, <2>2, <3>1, <3>2
  <2> QED
    BY Zenon, <2>1, <2>2
<1>8. InCallOrder(r)
  <2> SUFFICES ASSUME NEW o \in Priority, NEW k \in DOMAIN r.queue[o], NEW l \in DOMAIN r.queue[o],
                      k < l, r.queue[o][k].poster = r.queue[o][l].poster
               PROVE  r.queue[o][k].n < r.queue[o][l].n
    BY Zenon DEF InCallOrder
  <2>1. CASE o # p
    BY ZenonT(30), <1>3, <1>4, <2>1
  <2>2. CASE o = p
    <3>1. r.queue[o] = s
      BY Zenon, <1>3, <2>2
    <3>2. /\ k + 1 \in DOMAIN w /\ s[k] = w[k + 1]
          /\ l + 1 \in DOMAIN w /\ s[l] = w[l + 1]
      BY Zenon, <1>2, <3>1
    <3>3. k + 1 < l + 1
      BY <1>2, <3>1
    <3> QED
      BY <1>4, <3>1, <3>2, <3>3
  <2> QED
    BY Zenon, <2>1, <2>2
<1>9. Small(r)
  BY <1>1, <1>2, <1>3, <1>4, SizeAssumption DEF Small
<1>10. \A y \in PriorityQueueItems(pq) :
         y.poster = x.poster /\ y.priority = p /\ y # x => x.n < y.n
  <2> SUFFICES ASSUME NEW y \in PriorityQueueItems(pq), y.poster = x.poster, y.priority = p, y # x
               PROVE  x.n < y.n
    BY Zenon
  <2>1. PICK o \in Priority : \E k \in DOMAIN pq.queue[o] : y = pq.queue[o][k]
    BY PriorityQueueItem
  <2>2. PICK k \in DOMAIN pq.queue[o] : y = pq.queue[o][k]
    BY Zenon, <2>1
  <2>3. o = p
    BY Zenon, <1>4, <2>2
  <2>4. 1 < k
    BY <1>1, <1>2, <2>2, <2>3
  <2> QED
    BY <1>2, <1>4, <2>2, <2>3, <2>4
<1>11. ASSUME NEW y
       PROVE  y \in PriorityQueueItems(r) <=> y \in PriorityQueueItems(pq) /\ y # x
  <2>1. /\ y \in PriorityQueueItems(r)
             <=> \E o \in Priority : \E k \in DOMAIN r.queue[o] : y = r.queue[o][k]
        /\ y \in PriorityQueueItems(pq)
             <=> \E o \in Priority : \E k \in DOMAIN pq.queue[o] : y = pq.queue[o][k]
    BY PriorityQueueItem
  <2>2. (\E k \in DOMAIN s : y = s[k]) <=> (\E k \in DOMAIN w : y = w[k]) /\ y # x
    <3>1. ASSUME NEW k \in DOMAIN s, y = s[k]
          PROVE  (\E l \in DOMAIN w : y = w[l]) /\ y # x
      <4>1. k + 1 \in DOMAIN w /\ y = w[k + 1] /\ 1 < k + 1
        BY <1>2, <3>1
      <4>2. y \in Item
        BY <1>1, <4>1
      <4>3. w[1].poster = w[k + 1].poster => w[1].n < w[k + 1].n
        BY Zenon, <1>2, <1>4, <4>1
      <4>4. x.n \in Nat
        BY Zenon, <1>5, ItemFields
      <4> QED
        BY <1>2, <4>1, <4>3, <4>4
    <3>2. ASSUME NEW k \in DOMAIN w, y = w[k], y # x
          PROVE  \E l \in DOMAIN s : y = s[l]
      <4>1. k # 1
        BY Zenon, <1>2, <3>2
      <4>2. k - 1 \in DOMAIN s /\ (k - 1) + 1 = k
        BY <1>1, <1>2, <4>1
      <4> QED
        BY Zenon, <1>2, <3>2, <4>2
    <3> QED
      BY Zenon, <3>1, <3>2
  <2>3. \A o \in Priority : o # p => \A k \in DOMAIN pq.queue[o] : pq.queue[o][k] # x
    BY <1>4, <1>5
  <2> QED
    BY ZenonT(30), <1>3, <2>1, <2>2, <2>3
<1>12. Earliest(x, PriorityQueueItems(pq))
  <2>1. x.n \in Nat
    BY Zenon, <1>5, ItemFields
  <2>2. \A y \in PriorityQueueItems(pq) : y \in Item
    BY RingFields, PriorityQueueItem
  <2>3. \A y \in PriorityQueueItems(pq) : y.n \in Nat
    BY Zenon, <2>2, ItemFields
  <2> QED
    BY <1>5, <1>10, <2>1, <2>3 DEF Earliest
<1> QED
  BY Zenon, <1>5, <1>6, <1>7, <1>8, <1>9, <1>11, <1>12 DEF Sound

LEMMA ReadyItem ==
  ASSUME NEW pq \in PriorityQueue(Item), Sound(pq), NEW least \in Priority
  PROVE  Ready(pq, least) = {} <=> \A x \in PriorityQueueItems(pq) : x.priority > least
<1>1. \A p \in Priority : pq.queue[p] = <<>> <=> DOMAIN pq.queue[p] = {}
  BY RingFields
<1>2. \A p \in Priority : \A k \in DOMAIN pq.queue[p] : pq.queue[p][k].priority = p
  BY Zenon DEF Sound, Filed
<1>3. ASSUME NEW p \in Ready(pq, least)
      PROVE  \E x \in PriorityQueueItems(pq) : ~(x.priority > least)
  <2>1. p \in Priority /\ p <= least /\ pq.queue[p] # <<>>
    BY Zenon DEF Ready
  <2>2. PICK k \in DOMAIN pq.queue[p] : TRUE
    BY Zenon, <1>1, <2>1
  <2>3. pq.queue[p][k] \in PriorityQueueItems(pq)
    BY Zenon, <2>1, <2>2, PriorityQueueItem
  <2>4. ~(p > least)
    BY <2>1 DEF Priority, HIGH, LOW
  <2> QED
    BY Zenon, <1>2, <2>1, <2>2, <2>3, <2>4
<1>4. ASSUME NEW x \in PriorityQueueItems(pq), ~(x.priority > least)
      PROVE  Ready(pq, least) # {}
  <2>1. PICK p \in Priority : \E k \in DOMAIN pq.queue[p] : x = pq.queue[p][k]
    BY PriorityQueueItem
  <2>2. x.priority = p /\ pq.queue[p] # <<>>
    BY Zenon, <1>1, <1>2, <2>1
  <2>3. p <= least
    BY <1>4, <2>2 DEF Priority, HIGH, LOW
  <2> QED
    BY Zenon, <2>2, <2>3 DEF Ready
<1> QED
  BY Zenon, <1>3, <1>4

LEMMA DequeueMiss ==
  ASSUME NEW pq, NEW least, Ready(pq, least) = {}
  PROVE  Dequeue(pq, least) = [pq |-> pq, out |-> {}]
BY Zenon DEF Dequeue

\* A priority queue gives the earliest item of one of its rings.
LEMMA DequeueIs ==
  ASSUME NEW pq \in PriorityQueue(Item), Sound(pq), NEW least \in Priority,
         Ready(pq, least) # {}
  PROVE  LET r == Dequeue(pq, least).pq
         IN  /\ r \in PriorityQueue(Item) /\ r.id = pq.id /\ Sound(r)
             /\ \E x \in Item :
                  /\ Dequeue(pq, least).out = {x}
                  /\ x.id = pq.id
                  /\ x \in PriorityQueueItems(pq)
                  /\ \A y : y \in PriorityQueueItems(r) <=> y \in PriorityQueueItems(pq) /\ y # x
                  /\ Earliest(x, PriorityQueueItems(pq))
<1> DEFINE p == CHOOSE p \in Ready(pq, least) : \A o \in Ready(pq, least) : p <= o
           r == [pq EXCEPT !.queue[p] = Tail(@)]
           x == Head(pq.queue[p])
<1>1. Ready(pq, least) \subseteq {0, 1, 2}
  BY DEF Ready, Priority, HIGH, LOW
<1>2. \E o \in Ready(pq, least) : \A u \in Ready(pq, least) : o <= u
  <2>1. CASE 0 \in Ready(pq, least)
    BY <1>1, <2>1
  <2>2. CASE 0 \notin Ready(pq, least) /\ 1 \in Ready(pq, least)
    BY <1>1, <2>2
  <2>3. CASE 0 \notin Ready(pq, least) /\ 1 \notin Ready(pq, least)
    BY <1>1, <2>3
  <2> QED
    BY Zenon, <2>1, <2>2, <2>3
<1>3. p \in Ready(pq, least)
  BY Zenon, <1>2
<1>4. Dequeue(pq, least) = [pq |-> r, out |-> {x}]
  BY Zenon DEF Dequeue
<1> HIDE DEF p
<1>5. p \in Priority /\ pq.queue[p] # <<>>
  BY Zenon, <1>3 DEF Ready
<1>6. Tail(pq.queue[p]) \in Seq(Item)
  BY <1>5, RingFields
<1>7. /\ r \in PriorityQueue(Item) /\ r.id = pq.id
      /\ \A o \in Priority : r.queue[o] = IF o = p THEN Tail(pq.queue[p]) ELSE pq.queue[o]
  BY Zenon, <1>5, <1>6 DEF PriorityQueue
<1> HIDE DEF r
<1>8. /\ Sound(r)
      /\ x \in Item /\ x.id = pq.id
      /\ x \in PriorityQueueItems(pq)
      /\ \A y : y \in PriorityQueueItems(r) <=> y \in PriorityQueueItems(pq) /\ y # x
      /\ Earliest(x, PriorityQueueItems(pq))
  BY <1>5, <1>7, TailSound
<1> HIDE DEF x
<1> QED
  BY <1>4, <1>7, <1>8

\* Serving x moves its list behind all the others and keeps their order.
Rotates(q, r, x) ==
  \A a, b \in DOMAIN r.queues : r.queues[a].id # x.id =>
    \/ r.queues[b].id = x.id /\ a < b
    \/ /\ r.queues[b].id # x.id
       /\ \E c, d \in DOMAIN q.queues : /\ q.queues[c].id = r.queues[a].id
                                        /\ q.queues[d].id = r.queues[b].id
                                        /\ c < d => a < b

\* The list of a process that is served comes before those of the others that
\* have items.
ServesFirst(q, x) ==
  x.id # 0 => \A y \in QueueItems(q) : y.id \notin {0, x.id} =>
    \E a, b \in DOMAIN q.queues : q.queues[a].id = x.id /\ q.queues[b].id = y.id /\ a < b

\* r is q after x has been taken from it.
Taken(q, r, x) ==
  /\ SoundQueue(r)
  /\ x \in Item /\ x \in QueueItems(q)
  /\ \A y : y \in QueueItems(r) <=> y \in QueueItems(q) /\ y # x
  /\ Earliest(x, QueueItems(q))
  /\ Rotates(q, r, x)
  /\ ServesFirst(q, x)

LEMMA FiledId ==
  ASSUME NEW pq, Sound(pq), NEW y \in PriorityQueueItems(pq)
  PROVE  y.id = pq.id
BY PriorityQueueItem DEF Sound, Filed

\* An item of id 0 is in the inner queue.
LEMMA InnerItem ==
  ASSUME NEW q, SoundQueue(q), NEW y \in QueueItems(q)
  PROVE  /\ y.id = 0 <=> y \in PriorityQueueItems(q.inner)
         /\ \A i \in DOMAIN q.queues :
              y.id = q.queues[i].id <=> y \in PriorityQueueItems(q.queues[i])
<1>1. \A i \in DOMAIN q.queues : y \in PriorityQueueItems(q.queues[i]) => y.id = q.queues[i].id
  BY Zenon, QueueFields, FiledId
<1>2. y \in PriorityQueueItems(q.inner) => y.id = 0
  BY Zenon, QueueFields, FiledId
<1>3. \/ y \in PriorityQueueItems(q.inner)
      \/ \E i \in DOMAIN q.queues : y \in PriorityQueueItems(q.queues[i])
  BY Zenon, QueueItem
<1> QED
  BY Zenon, <1>1, <1>2, <1>3, QueueFields

LEMMA DequeueInnerIs ==
  ASSUME NEW q, SoundQueue(q), NEW least \in Priority
  PROVE  /\ Ready(q.inner, least) = {} => DequeueInner(q, least) = [queue |-> q, out |-> {}]
         /\ Ready(q.inner, least) # {} =>
              \E x \in Item : /\ DequeueInner(q, least).out = {x}
                              /\ Taken(q, DequeueInner(q, least).queue, x)
<1> DEFINE d == Dequeue(q.inner, least)
           r == DequeueInner(q, least).queue
<1>1. q.inner \in PriorityQueue(Item) /\ q.inner.id = 0 /\ Sound(q.inner)
  BY Zenon, QueueFields
<1>2. DequeueInner(q, least) = [queue |-> [q EXCEPT !.inner = d.pq], out |-> d.out]
  BY Zenon DEF DequeueInner
<1>3. DequeueInner(q, least) = [queue |-> [inner |-> d.pq, queues |-> q.queues], out |-> d.out]
  BY Zenon, <1>2, QueueExcept
<1>4. CASE Ready(q.inner, least) = {}
  <2>1. d.pq = q.inner /\ d.out = {}
    BY <1>4, DequeueMiss
  <2> HIDE DEF d
  <2> QED
    BY Zenon, <1>3, <1>4, <2>1, QueueFields
<1>5. CASE Ready(q.inner, least) # {}
  <2>1. /\ d.pq \in PriorityQueue(Item) /\ d.pq.id = q.inner.id /\ Sound(d.pq)
        /\ \E x \in Item :
             /\ d.out = {x}
             /\ x.id = q.inner.id
             /\ x \in PriorityQueueItems(q.inner)
             /\ \A y : y \in PriorityQueueItems(d.pq) <=> y \in PriorityQueueItems(q.inner) /\ y # x
             /\ Earliest(x, PriorityQueueItems(q.inner))
    BY Zenon, <1>1, <1>5, DequeueIs
  <2> HIDE DEF d
  <2>2. PICK x \in Item :
             /\ d.out = {x}
             /\ x.id = q.inner.id
             /\ x \in PriorityQueueItems(q.inner)
             /\ \A y : y \in PriorityQueueItems(d.pq) <=> y \in PriorityQueueItems(q.inner) /\ y # x
             /\ Earliest(x, PriorityQueueItems(q.inner))
    BY Zenon, <2>1
  <2>3. r = [inner |-> d.pq, queues |-> q.queues] /\ DequeueInner(q, least).out = {x}
    BY <1>3, <2>2
  <2> HIDE DEF r
  <2>4. r.inner = d.pq /\ r.queues = q.queues
    BY Zenon, <2>3
  <2>5. SoundQueue(r)
    <3>1. /\ q.queues \in Seq(PriorityQueue(Item))
          /\ \A i \in DOMAIN q.queues : q.queues[i].id # 0 /\ Sound(q.queues[i])
          /\ \A i, j \in DOMAIN q.queues : q.queues[i].id = q.queues[j].id => i = j
      BY Zenon, QueueFields
    <3> QED
      BY Zenon, <1>1, <2>1, <2>3, <3>1, SoundParts
  <2>6. x \in QueueItems(q)
    BY Zenon, <2>2, QueueItem
  <2>7. \A i \in DOMAIN q.queues : x \notin PriorityQueueItems(q.queues[i])
    BY <1>1, <2>2, QueueFields, FiledId
  <2>8. \A y : y \in QueueItems(r) <=> y \in QueueItems(q) /\ y # x
    BY Zenon, <2>2, <2>4, <2>7, QueueItem
  <2>9. Earliest(x, QueueItems(q))
    BY Zenon, <1>1, <2>2, InnerItem DEF Earliest
  <2>10. Rotates(q, r, x) /\ ServesFirst(q, x)
    <3>1. x.id = 0 /\ \A i \in DOMAIN q.queues : q.queues[i].id # 0
      BY Zenon, <1>1, <2>2, QueueFields
    <3> QED
      BY Zenon, <2>4, <3>1 DEF Rotates, ServesFirst
  <2>11. Taken(q, r, x)
    BY Zenon, <2>5, <2>6, <2>8, <2>9, <2>10 DEF Taken
  <2> QED
    BY Zenon, <1>5, <2>3, <2>11 DEF r
<1> QED
  BY Zenon, <1>4, <1>5

\* No list has items.
LEMMA FairlyMiss ==
  ASSUME NEW q, SoundQueue(q),
         \A k \in DOMAIN q.queues : Ready(q.queues[k], LOW) = {}
  PROVE  /\ DequeueFairly(q) = [queue |-> [inner |-> q.inner, queues |-> <<>>], out |-> {}]
         /\ SoundQueue(DequeueFairly(q).queue)
         /\ QueueItems(q) = PriorityQueueItems(q.inner)
<1> DEFINE K == {k \in DOMAIN q.queues : Ready(q.queues[k], LOW) # {}}
<1>1. First(K) = 0
  BY Zenon DEF First
<1>2. DequeueFairly(q) = [queue |-> [q EXCEPT !.queues = <<>>], out |-> {}]
  BY Zenon, <1>1 DEF DequeueFairly
<1>3. DequeueFairly(q) = [queue |-> [inner |-> q.inner, queues |-> <<>>], out |-> {}]
  BY ZenonT(30), <1>2, QueueExcept
<1>4. SoundQueue([inner |-> q.inner, queues |-> <<>>])
  <2>1. <<>> \in Seq(PriorityQueue(Item)) /\ DOMAIN <<>> = {}
    OBVIOUS
  <2>2. q.inner \in PriorityQueue(Item) /\ q.inner.id = 0 /\ Sound(q.inner)
    BY Zenon, QueueFields
  <2> QED
    BY Zenon, <2>1, <2>2, SoundParts
<1>5. \A k \in DOMAIN q.queues : PriorityQueueItems(q.queues[k]) = {}
  <2> SUFFICES ASSUME NEW k \in DOMAIN q.queues, NEW x \in PriorityQueueItems(q.queues[k])
               PROVE  FALSE
    BY Zenon
  <2>1. q.queues[k] \in PriorityQueue(Item) /\ Sound(q.queues[k])
    BY Zenon, QueueFields
  <2>2. x \in Item
    BY <2>1, RingFields, PriorityQueueItem
  <2>3. LOW \in Priority /\ ~(x.priority > LOW)
    BY <2>2, ItemFields DEF Priority, HIGH, LOW
  <2> QED
    BY Zenon, <2>1, <2>3, ReadyItem
<1>6. QueueItems(q) = PriorityQueueItems(q.inner)
  BY Zenon, <1>5, QueueItem
<1> QED
  BY <1>3, <1>4, <1>6

\* The lists that come after position i, and one that is put behind them.
LEMMA RotatedList ==
  ASSUME NEW S, NEW s \in Seq(S), NEW i \in DOMAIN s, NEW c \in S,
         NEW w, w = Append(SubSeq(s, i + 1, Len(s)), c)
  PROVE  /\ w \in Seq(S)
         /\ Len(w) = Len(s) - i + 1
         /\ DOMAIN w = 1..Len(w)
         /\ w[Len(w)] = c
         /\ \A k \in DOMAIN w : \/ k = Len(w)
                                \/ k < Len(w) /\ i + k \in DOMAIN s /\ w[k] = s[i + k]
<1> DEFINE u == SubSeq(s, i + 1, Len(s))
<1>1. Len(s) \in Nat /\ i \in 1..Len(s) /\ DOMAIN s = 1..Len(s)
  OBVIOUS
<1>2. /\ u \in Seq(S)
      /\ Len(u) = Len(s) - i
      /\ \A k \in 1..(Len(s) - i) : u[k] = s[i + k]
  <2>1. i + 1 \in Int /\ Len(s) \in Int /\ \A k \in (i + 1)..Len(s) : s[k] \in S
    BY <1>1
  <2>2. /\ u \in Seq(S)
        /\ Len(u) = IF i + 1 <= Len(s) THEN Len(s) - (i + 1) + 1 ELSE 0
        /\ \A k \in 1..(Len(s) - (i + 1) + 1) : u[k] = s[(i + 1) + k - 1]
    BY <2>1
  <2>3. Len(s) - (i + 1) + 1 = Len(s) - i /\ \A k \in 1..(Len(s) - i) : (i + 1) + k - 1 = i + k
    BY <1>1
  <2> QED
    BY <1>1, <2>2, <2>3
<1> HIDE DEF u
<1>3. /\ w \in Seq(S)
      /\ Len(w) = Len(u) + 1
      /\ DOMAIN w = 1..Len(w)
      /\ w[Len(w)] = c
      /\ \A k \in 1..Len(u) : w[k] = u[k]
  BY <1>2 DEF u
<1>4. Len(w) = Len(s) - i + 1
  BY Zenon, <1>2, <1>3
<1>5. ASSUME NEW k \in DOMAIN w, k # Len(w)
      PROVE  k < Len(w) /\ i + k \in DOMAIN s /\ w[k] = s[i + k]
  <2>1. k < Len(w) /\ k \in 1..Len(u) /\ k \in 1..(Len(s) - i) /\ i + k \in 1..Len(s)
    BY <1>1, <1>2, <1>3, <1>5
  <2> QED
    BY Zenon, <1>1, <1>2, <1>3, <2>1
<1> QED
  BY Zenon, <1>3, <1>4, <1>5

LEMMA ReadyLow ==
  ASSUME NEW pq \in PriorityQueue(Item), Sound(pq)
  PROVE  Ready(pq, LOW) = {} <=> PriorityQueueItems(pq) = {}
<1>1. \A x \in PriorityQueueItems(pq) : x \in Item
  BY RingFields, PriorityQueueItem
<1>2. LOW \in Priority /\ \A p \in Priority : ~(p > LOW)
  BY DEF Priority, HIGH, LOW
<1> QED
  BY Zenon, <1>1, <1>2, ItemFields, ReadyItem

\* The first list with items is served and goes to the end.
LEMMA FairlyTaken ==
  ASSUME NEW q, SoundQueue(q),
         \E k \in DOMAIN q.queues : Ready(q.queues[k], LOW) # {}
  PROVE  \E x \in Item : DequeueFairly(q).out = {x} /\ Taken(q, DequeueFairly(q).queue, x)
<1> DEFINE K == {k \in DOMAIN q.queues : Ready(q.queues[k], LOW) # {}}
           i == First(K)
           s == q.queues
           d == Dequeue(s[i], LOW)
           w == Append(SubSeq(s, i + 1, Len(s)), d.pq)
           r == DequeueFairly(q).queue
<1>1. /\ s \in Seq(PriorityQueue(Item)) /\ Len(s) \in Nat /\ DOMAIN s = 1..Len(s)
      /\ \A k \in DOMAIN s : /\ s[k] \in PriorityQueue(Item)
                             /\ s[k].id \in Nat \ {0}
                             /\ Sound(s[k])
      /\ \A k, l \in DOMAIN s : s[k].id = s[l].id => k = l
  BY QueueFields
<1>2. /\ i \in DOMAIN s /\ Ready(s[i], LOW) # {} /\ i # 0
      /\ \A k \in K : i <= k
  <2>1. DOMAIN s \subseteq Nat \ {0}
    BY <1>1
  <2>2. K # {} /\ K \in SUBSET (Nat \ {0})
    BY Zenon, <2>1
  <2>3. i \in K /\ \A k \in K : i <= k
    BY Zenon, <2>2, FirstIs
  <2> HIDE DEF i
  <2> QED
    BY Zenon, <2>1, <2>3
<1>3. /\ r = [inner |-> q.inner, queues |-> w]
      /\ DequeueFairly(q).out = d.out
  <2>1. DequeueFairly(q) = [queue |-> [q EXCEPT !.queues = w], out |-> d.out]
    BY Zenon, <1>2 DEF DequeueFairly
  <2>2. [q EXCEPT !.queues = w] = [inner |-> q.inner, queues |-> w]
    BY Zenon, QueueExcept
  <2> QED
    BY <2>1, <2>2
<1>4. \A k \in DOMAIN s : k < i => PriorityQueueItems(s[k]) = {}
  <2> SUFFICES ASSUME NEW k \in DOMAIN s, k < i PROVE PriorityQueueItems(s[k]) = {}
    BY Zenon
  <2> HIDE DEF i
  <2>1. ~(i <= k)
    BY <1>1, <1>2
  <2>2. Ready(s[k], LOW) = {}
    BY Zenon, <1>2, <2>1
  <2> QED
    BY Zenon, <1>1, <2>2, ReadyLow
<1>5. /\ d.pq \in PriorityQueue(Item) /\ d.pq.id = s[i].id /\ Sound(d.pq)
      /\ \E x \in Item :
           /\ d.out = {x}
           /\ x.id = s[i].id
           /\ x \in PriorityQueueItems(s[i])
           /\ \A y : y \in PriorityQueueItems(d.pq) <=> y \in PriorityQueueItems(s[i]) /\ y # x
           /\ Earliest(x, PriorityQueueItems(s[i]))
  <2>1. LOW \in Priority
    BY DEF Priority, HIGH, LOW
  <2> QED
    BY Zenon, <1>1, <1>2, <2>1, DequeueIs
<1> HIDE DEF d, i
<1>6. /\ w \in Seq(PriorityQueue(Item))
      /\ Len(w) = Len(s) - i + 1
      /\ DOMAIN w = 1..Len(w)
      /\ w[Len(w)] = d.pq
      /\ \A k \in DOMAIN w : \/ k = Len(w)
                             \/ k < Len(w) /\ i + k \in DOMAIN s /\ w[k] = s[i + k]
  <2>1. s \in Seq(PriorityQueue(Item)) /\ i \in DOMAIN s /\ d.pq \in PriorityQueue(Item)
    BY Zenon, <1>1, <1>2, <1>5
  <2>2. w = Append(SubSeq(s, i + 1, Len(s)), d.pq)
    BY Zenon
  <2> HIDE DEF s, w
  <2> QED
    BY <2>1, <2>2, RotatedList
<1> HIDE DEF w, r
<1>7. r.inner = q.inner /\ r.queues = w
  BY Zenon, <1>3
<1>8. PICK x \in Item :
           /\ d.out = {x}
           /\ x.id = s[i].id
           /\ x \in PriorityQueueItems(s[i])
           /\ \A y : y \in PriorityQueueItems(d.pq) <=> y \in PriorityQueueItems(s[i]) /\ y # x
           /\ Earliest(x, PriorityQueueItems(s[i]))
  BY Zenon, <1>5
<1>9. \A k \in DOMAIN w : k # Len(w) => w[k].id # x.id /\ i + k # i
  <2> SUFFICES ASSUME NEW k \in DOMAIN w, k # Len(w) PROVE w[k].id # x.id /\ i + k # i
    BY Zenon
  <2>1. i + k \in DOMAIN s /\ w[k] = s[i + k]
    BY Zenon, <1>6
  <2>2. i + k # i
    BY SMTT(20), <1>1, <1>2, <1>6
  <2> QED
    BY Zenon, <1>1, <1>2, <1>8, <2>1, <2>2
<1>10. Len(w) \in DOMAIN w /\ w[Len(w)].id = x.id
  BY SMTT(20), <1>1, <1>2, <1>5, <1>6, <1>8
<1>11. SoundQueue(r)
  <2>1. \A k \in DOMAIN w : w[k].id # 0 /\ Sound(w[k])
    <3> SUFFICES ASSUME NEW k \in DOMAIN w PROVE w[k].id # 0 /\ Sound(w[k])
      BY Zenon
    <3>1. w[k] = d.pq \/ \E j \in DOMAIN s : w[k] = s[j]
      BY Zenon, <1>6
    <3> QED
      BY Zenon, <1>1, <1>2, <1>5, <3>1
  <2>2. ASSUME NEW k \in DOMAIN w, NEW l \in DOMAIN w, w[k].id = w[l].id
        PROVE  k = l
    <3>1. CASE k = Len(w) \/ l = Len(w)
      BY Zenon, <1>9, <1>10, <2>2, <3>1
    <3>2. CASE k # Len(w) /\ l # Len(w)
      <4>1. /\ i + k \in DOMAIN s /\ i + l \in DOMAIN s
            /\ s[i + k].id = s[i + l].id
        BY Zenon, <1>6, <2>2, <3>2
      <4>2. i + k = i + l
        BY Zenon, <1>1, <4>1
      <4> QED
        BY SMTT(20), <1>1, <1>2, <1>6, <4>2
    <3> QED
      BY Zenon, <3>1, <3>2
  <2>3. q.inner \in PriorityQueue(Item) /\ q.inner.id = 0 /\ Sound(q.inner)
    BY Zenon, QueueFields
  <2> QED
    BY Zenon, <1>3, <1>6, <2>1, <2>2, <2>3, SoundParts
<1>12. x \in QueueItems(q) /\ x \notin PriorityQueueItems(q.inner)
  BY <1>1, <1>2, <1>8, QueueFields, QueueItem, FiledId
<1>13. ASSUME NEW y
       PROVE  y \in QueueItems(r) <=> y \in QueueItems(q) /\ y # x
  <2>1. ASSUME NEW k \in DOMAIN w, y \in PriorityQueueItems(w[k])
        PROVE  y # x /\ \E j \in DOMAIN s : y \in PriorityQueueItems(s[j])
    <3>1. CASE k = Len(w)
      BY Zenon, <1>2, <1>6, <1>8, <2>1, <3>1
    <3>2. CASE k # Len(w)
      <4>1. i + k \in DOMAIN s /\ w[k] = s[i + k]
        BY Zenon, <1>6, <3>2
      <4>2. y.id = w[k].id
        BY Zenon, <1>1, <2>1, <4>1, FiledId
      <4> QED
        BY Zenon, <1>9, <2>1, <3>2, <4>1, <4>2
    <3> QED
      BY Zenon, <3>1, <3>2
  <2>2. ASSUME NEW j \in DOMAIN s, y \in PriorityQueueItems(s[j]), y # x
        PROVE  \E k \in DOMAIN w : y \in PriorityQueueItems(w[k])
    <3>1. ~(j < i)
      BY Zenon, <1>4, <2>2
    <3>2. CASE j = i
      BY Zenon, <1>6, <1>8, <1>10, <2>2, <3>2
    <3>3. CASE j > i
      <4>1. j - i \in DOMAIN w /\ j - i # Len(w) /\ i + (j - i) = j
        BY SMTT(20), <1>1, <1>2, <1>6, <3>3
      <4> QED
        BY Zenon, <1>6, <2>2, <4>1
    <3> QED
      BY <1>1, <1>2, <3>1, <3>2, <3>3
  <2> QED
    BY Zenon, <1>7, <1>12, <2>1, <2>2, QueueItem
<1>14. Earliest(x, QueueItems(q))
  BY Zenon, <1>2, <1>8, InnerItem DEF Earliest
<1>15. Rotates(q, r, x)
  <2> SUFFICES ASSUME NEW a \in DOMAIN w, NEW b \in DOMAIN w, w[a].id # x.id
               PROVE  \/ w[b].id = x.id /\ a < b
                      \/ /\ w[b].id # x.id
                         /\ \E c, e \in DOMAIN s : /\ s[c].id = w[a].id
                                                   /\ s[e].id = w[b].id
                                                   /\ c < e => a < b
    BY <1>7 DEF Rotates
  <2>1. a < Len(w) /\ i + a \in DOMAIN s /\ w[a] = s[i + a]
    BY Zenon, <1>6, <1>10
  <2>2. CASE b = Len(w)
    BY Zenon, <1>10, <2>1, <2>2
  <2>3. CASE b # Len(w)
    <3>1. i + b \in DOMAIN s /\ w[b] = s[i + b] /\ w[b].id # x.id
      BY Zenon, <1>6, <1>9, <2>3
    <3>2. i + a < i + b => a < b
      BY <1>1, <1>2, <1>6
    <3> QED
      BY Zenon, <2>1, <3>1, <3>2
  <2> QED
    BY Zenon, <2>2, <2>3
<1>16. ServesFirst(q, x)
  <2> SUFFICES ASSUME NEW y \in QueueItems(q), y.id \notin {0, x.id}
               PROVE  \E a, b \in DOMAIN s : s[a].id = x.id /\ s[b].id = y.id /\ a < b
    BY Zenon DEF ServesFirst
  <2>1. PICK b \in DOMAIN s : s[b].id = y.id /\ y \in PriorityQueueItems(s[b])
    BY Zenon, FiledItem
  <2>2. ~(b < i) /\ b # i
    BY Zenon, <1>4, <1>8, <2>1
  <2>3. i < b
    BY <1>1, <1>2, <2>2
  <2> QED
    BY Zenon, <1>2, <1>8, <2>1, <2>3
<1>17. Taken(q, r, x)
  BY Zenon, <1>11, <1>12, <1>13, <1>14, <1>15, <1>16 DEF Taken
<1> QED
  BY Zenon, <1>3, <1>8, <1>17 DEF r

\* ConnDequeue gives an item as long as there is one.
LEMMA ConnDequeueIs ==
  ASSUME NEW q, SoundQueue(q)
  PROVE  LET r == ConnDequeue(q).queue
         IN  \/ /\ ConnDequeue(q).out = {}
                /\ QueueItems(q) = {}
                /\ SoundQueue(r) /\ QueueItems(r) = {} /\ r.queues = <<>>
             \/ \E x \in Item : ConnDequeue(q).out = {x} /\ Taken(q, r, x)
<1> DEFINE urgent == DequeueInner(q, MIDDLE)
           fair == DequeueFairly(q)
           last == DequeueInner(fair.queue, LOW)
<1>1. ConnDequeue(q) = IF urgent.out # {} THEN urgent ELSE IF fair.out # {} THEN fair ELSE last
  BY Zenon DEF ConnDequeue
<1>2. MIDDLE \in Priority /\ LOW \in Priority
  BY DEF Priority, HIGH, MIDDLE, LOW
<1>3. CASE Ready(q.inner, MIDDLE) # {}
  <2>1. PICK x \in Item : urgent.out = {x} /\ Taken(q, urgent.queue, x)
    BY Zenon, <1>2, <1>3, DequeueInnerIs
  <2> HIDE DEF urgent, fair, last
  <2>2. ConnDequeue(q) = urgent
    BY Zenon, <1>1, <2>1
  <2> QED
    BY Zenon, <2>1, <2>2
<1>4. CASE Ready(q.inner, MIDDLE) = {}
  <2>1. urgent.out = {}
    BY <1>2, <1>4, DequeueInnerIs
  <2>2. CASE \E k \in DOMAIN q.queues : Ready(q.queues[k], LOW) # {}
    <3>1. PICK x \in Item : fair.out = {x} /\ Taken(q, fair.queue, x)
      BY Zenon, <2>2, FairlyTaken
    <3> HIDE DEF urgent, fair, last
    <3>2. ConnDequeue(q) = fair
      BY Zenon, <1>1, <2>1, <3>1
    <3> QED
      BY Zenon, <3>1, <3>2
  <2>3. CASE \A k \in DOMAIN q.queues : Ready(q.queues[k], LOW) = {}
    <3> DEFINE f == fair.queue
    <3>1. /\ fair = [queue |-> [inner |-> q.inner, queues |-> <<>>], out |-> {}]
          /\ SoundQueue(f)
          /\ QueueItems(q) = PriorityQueueItems(q.inner)
      BY Zenon, <2>3, FairlyMiss
    <3>2. f.inner = q.inner /\ f.queues = <<>> /\ fair.out = {}
      BY <3>1
    <3>3. QueueItems(f) = QueueItems(q)
      <4> HIDE DEF f
      <4>1. DOMAIN f.queues = {}
        BY <3>2
      <4> QED
        BY Zenon, <3>1, <3>2, <4>1, QueueItem
    <3> HIDE DEF fair, urgent
    <3>4. ConnDequeue(q) = last
      BY Zenon, <1>1, <2>1, <3>2
    <3>5. CASE Ready(f.inner, LOW) = {}
      <4>1. last = [queue |-> f, out |-> {}]
        BY Zenon, <1>2, <3>1, <3>5, DequeueInnerIs
      <4>2. PriorityQueueItems(f.inner) = {}
        BY Zenon, <3>1, <3>5, QueueFields, ReadyLow
      <4> QED
        BY Zenon, <3>1, <3>2, <3>3, <3>4, <4>1, <4>2
    <3>6. CASE Ready(f.inner, LOW) # {}
      <4>1. PICK x \in Item : last.out = {x} /\ Taken(f, last.queue, x)
        BY Zenon, <1>2, <3>1, <3>6, DequeueInnerIs
      <4> DEFINE r == last.queue
      <4> HIDE DEF r, last, f
      <4>2. Taken(f, r, x)
        BY Zenon, <4>1 DEF r
      <4>3. /\ SoundQueue(r)
            /\ x \in QueueItems(q)
            /\ \A y : y \in QueueItems(r) <=> y \in QueueItems(q) /\ y # x
            /\ Earliest(x, QueueItems(q))
        BY Zenon, <3>3, <4>2 DEF Taken
      <4>4. Rotates(q, r, x)
        <5>1. \A a \in DOMAIN r.queues : r.queues[a].id = x.id
          BY <3>2, <4>2 DEF Taken, Rotates
        <5> QED
          BY Zenon, <5>1 DEF Rotates
      <4>5. x.id = 0
        BY <3>1, <4>3, InnerItem
      <4>6. Taken(q, r, x)
        BY Zenon, <4>3, <4>4, <4>5 DEF Taken, ServesFirst
      <4> QED
        BY Zenon, <3>4, <4>1, <4>6 DEF r
    <3> QED
      BY Zenon, <3>5, <3>6
  <2> QED
    BY ZenonT(30), <2>2, <2>3
<1> QED
  BY Zenon, <1>3, <1>4

-----------------------------------------------------------------------------
(***************************************************************************)
(* Proofs about the delivery task and its posters, for every set of        *)
(* posters, tasks and lanes, every ring size and every bound on the calls. *)
(***************************************************************************)
(***************************************************************************)
(* The inductive invariant, beside the soundness of the queue.             *)
(***************************************************************************)
\* At most one task is at work, the flag tells, and the lock is the task's in
\* its exclusive wait.
OneTask ==
  /\ running <=> \E t \in Task : task[t] # "off"
  /\ \A t, u \in Task : task[t] # "off" /\ task[u] # "off" => t = u
  /\ ~crashed => \A t \in Task : lock = t <=> task[t] = "exclusive"

\* The calls of a poster are numbered, and only the call at work has an item
\* that is neither in the queue nor with the handler.
Seen == Items \cup handled \cup UNION {hand[t] : t \in Task}

Numbered ==
  /\ \A p \in Poster : \A x \in item[p] : x.poster = p /\ x.n = posts[p]
  /\ \A x \in Seen :
       /\ x.n <= posts[x.poster]
       /\ poster[x.poster] \in {"pulled", "full"} => x.n < posts[x.poster]
  /\ Items \cap handled = {}
  /\ \A t \in Task : Items \cap hand[t] = {}

\* A poster that is about to enqueue has left its mark, and the task heeds it.
Marked ==
  ~crashed /\ ~overlap =>
    /\ \A p \in Poster : poster[p] \in {"pulled", "full"} => running /\ posting
    /\ Items # {} => running
    /\ \A t \in Task : task[t] = "exclusive" /\ Items # {} => posting

\* The lists of the ids served while i waits come after the list of i.
Rotated ==
  ~crashed => \A i \in Ids :
    /\ (\A x \in Items : x.id # i) => turns[i] = {}
    /\ \A a, b \in DOMAIN queue.queues :
         queue.queues[a].id = i /\ queue.queues[b].id \in turns[i] => a < b

IInv == TypeOK /\ SoundQueue(queue) /\ OneTask /\ Numbered /\ Marked /\ Rotated

-----------------------------------------------------------------------------
(***************************************************************************)
(* What the steps do to the queue.                                         *)
(***************************************************************************)
LEMMA NextItem ==
  ASSUME TypeOK, Numbered, NEW p \in Poster, poster[p] \in {"pulled", "full"}, NEW x \in item[p]
  PROVE  /\ x \in Item /\ x.poster = p /\ x.n = posts[p]
         /\ \A y \in Seen : y.poster = p => y.n < x.n
<1>1. x \in Item
  BY Zenon DEF TypeOK
<1>2. x.poster = p /\ x.n = posts[p]
  BY Zenon DEF Numbered
<1>3. \A y \in Seen : y.poster = p => y.n < posts[p]
  BY Zenon DEF Numbered
<1> QED
  BY Zenon, <1>1, <1>2, <1>3

LEMMA EnqueueStep ==
  ASSUME TypeOK, SoundQueue(queue), Numbered,
         NEW p \in Poster, poster[p] \in {"pulled", "full"}, NEW x \in item[p],
         \/ HasRoom(queue, x) /\ queue' = Enqueue(queue, x)
         \/ queue' = GetOrCreatePriorityQueue(queue, x.id)
  PROVE  /\ SoundQueue(queue')
         /\ Extends(queue, queue')
         /\ Items \subseteq Items' /\ Items' \subseteq Items \cup {x}
<1>1. x \in Item /\ \A y \in Items : y.poster = x.poster => y.n < x.n
  BY Zenon, NextItem DEF Seen
<1>2. CASE HasRoom(queue, x) /\ queue' = Enqueue(queue, x)
  BY Zenon, <1>1, <1>2, EnqueueIs DEF Items
<1>3. CASE queue' = GetOrCreatePriorityQueue(queue, x.id)
  BY Zenon, <1>1, <1>3, ItemFields, GetOrCreateIs DEF Items
<1> QED
  BY Zenon, <1>2, <1>3

LEMMA DequeueStep ==
  ASSUME SoundQueue(queue), queue' = ConnDequeue(queue).queue
  PROVE  /\ SoundQueue(queue')
         /\ ConnDequeue(queue).out = {} =>
              Items = {} /\ Items' = {} /\ queue'.queues = <<>>
         /\ ConnDequeue(queue).out # {} =>
              \E x \in Item : ConnDequeue(queue).out = {x} /\ Taken(queue, queue', x)
<1>1. \/ /\ ConnDequeue(queue).out = {}
         /\ QueueItems(queue) = {}
         /\ SoundQueue(queue') /\ QueueItems(queue') = {} /\ queue'.queues = <<>>
      \/ \E x \in Item : ConnDequeue(queue).out = {x} /\ Taken(queue, queue', x)
  BY Zenon, ConnDequeueIs
<1> QED
  BY Zenon, <1>1 DEF Items, Taken

\* The rings of a sound queue have room for one more.
LEMMA QueueTyped ==
  ASSUME NEW q, SoundQueue(q)
  PROVE  /\ q \in Queue(Item)
         /\ \A pq \in Range(q.queues) \cup {q.inner} : \A p \in Priority : Len(pq.queue[p]) < Size
BY Zenon DEF SoundQueue, Sound, Small, Range

LEMMA QueueStep ==
  ASSUME TypeOK, SoundQueue(queue), Numbered, [Next]_vars
  PROVE  SoundQueue(queue')
<1>1. CASE UNCHANGED queue
  BY Zenon, <1>1
<1>2. ASSUME NEW p \in Poster, ConnEnqueue(p) \/ EnqueueAfterWait(p)
      PROVE  SoundQueue(queue')
  <2>1. poster[p] \in {"pulled", "full"}
    BY Zenon, <1>2 DEF ConnEnqueue, EnqueueAfterWait
  <2>2. \E x \in item[p] : \/ HasRoom(queue, x) /\ queue' = Enqueue(queue, x)
                           \/ queue' = GetOrCreatePriorityQueue(queue, x.id)
    BY Zenon, <1>2 DEF ConnEnqueue, EnqueueAfterWait
  <2> QED
    BY Zenon, <2>1, <2>2, EnqueueStep
<1>3. CASE queue' = ConnDequeue(queue).queue
  BY Zenon, <1>3, DequeueStep
<1>4. ASSUME NEW p \in Poster, PullDeliverTaskIfNeed(p) \/ CreateItemFails(p) \/ EnqueueTimeout(p)
                                 \/ MarkPostMessageDone(p)
      PROVE  UNCHANGED queue
  BY Zenon, <1>4 DEF PullDeliverTaskIfNeed, CreateItemFails, EnqueueTimeout, MarkPostMessageDone
<1>5. ASSUME NEW t \in Task, DeliverTask(t)
      PROVE  UNCHANGED queue \/ queue' = ConnDequeue(queue).queue
  BY Zenon, <1>5 DEF DeliverTask, DequeueFirst, DequeueAfterWait, IdleTimeout, RetryDequeueExclusive,
              ExclusiveAfterWait, ExclusiveTimeout, Handle, Take, Miss, TakeIntoParameter
<1>6. UNCHANGED vars => UNCHANGED queue
  BY Zenon DEF vars
<1> QED
  BY Zenon, <1>1, <1>2, <1>3, <1>4, <1>5, <1>6 DEF Next, Deliver

\* The type invariant but for the queue.
Typed ==
  /\ running \in BOOLEAN /\ posting \in BOOLEAN /\ crashed \in BOOLEAN
  /\ lock \in Task \cup {"free"}
  /\ poster \in [Poster -> {"idle", "pulled", "full", "done"}]
  /\ posts \in [Poster -> 0..MaxPosts]
  /\ item \in [Poster -> SUBSET Item]
  /\ \A p \in Poster : item[p] # {} <=> poster[p] # "idle"
  /\ task \in [Task -> {"off", "dequeue", "waiting", "retry", "exclusive", "handle"}]
  /\ hand \in [Task -> SUBSET Item]
  /\ \A t \in Task : hand[t] # {} <=> task[t] = "handle"
  /\ faults \in 0..MaxFaults
  /\ handled \subseteq Item
  /\ turns \in [Ids -> SUBSET Ids]
  /\ overlap \in BOOLEAN

LEMMA DequeuedItems ==
  ASSUME SoundQueue(queue)
  PROVE  ConnDequeue(queue).out \subseteq Item
BY Zenon, ConnDequeueIs

LEMMA TypeStep ==
  ASSUME TypeOK, SoundQueue(queue), Numbered, [Next]_vars
  PROVE  TypeOK'
<1>1. SoundQueue(queue')
  BY Zenon, QueueStep
<1>2. Typed
  BY Zenon DEF TypeOK, Typed
<1>3. MaxPosts \in Nat /\ MaxFaults \in Nat
  BY Zenon, BoundsNat
<1>4. ASSUME NEW p \in Poster, PullDeliverTaskIfNeed(p) PROVE Typed'
  <2>1. posts'[p] \in 1..MaxPosts /\ posts' \in [Poster -> 0..MaxPosts]
    BY <1>2, <1>3, <1>4 DEF PullDeliverTaskIfNeed, Typed
  <2>2. /\ UNCHANGED <<lock, hand, crashed, handled, turns, overlap>>
        /\ posting' = TRUE
    BY Zenon, <1>4 DEF PullDeliverTaskIfNeed, ghosts
  <2>3. CASE UNCHANGED <<running, task, poster, item>> /\ faults < MaxFaults /\ faults' = faults + 1
    BY SMTT(20), <1>2, <1>3, <2>1, <2>2, <2>3 DEF Typed
  <2>4. CASE /\ \/ running /\ UNCHANGED <<running, task>>
                \/ /\ \E t \in Task : task[t] = "off" /\ task' = [task EXCEPT ![t] = "dequeue"]
                   /\ running' = TRUE
             /\ poster' = [poster EXCEPT ![p] = "pulled"]
             /\ \E lane \in Lane :
                  item' = [item EXCEPT ![p] = {[poster |-> p, n |-> posts'[p],
                                                id |-> lane[1], priority |-> lane[2]]}]
             /\ UNCHANGED faults
    <3>1. PICK lane \in Lane :
                  item' = [item EXCEPT ![p] = {[poster |-> p, n |-> posts'[p],
                                                id |-> lane[1], priority |-> lane[2]]}]
      BY Zenon, <2>4
    <3>2. [poster |-> p, n |-> posts'[p], id |-> lane[1], priority |-> lane[2]] \in Item
      BY Zenon, <2>1, LaneAssumption DEF Item, Ids
    <3>3. /\ item' \in [Poster -> SUBSET Item]
          /\ item'[p] # {} /\ \A o \in Poster \ {p} : item'[o] = item[o]
      BY Zenon, <1>2, <3>1, <3>2 DEF Typed
    <3>4. /\ poster' \in [Poster -> {"idle", "pulled", "full", "done"}]
          /\ poster'[p] = "pulled" /\ \A o \in Poster \ {p} : poster'[o] = poster[o]
      BY Zenon, <1>2, <2>4 DEF Typed
    <3>5. /\ running' \in BOOLEAN
          /\ task' \in [Task -> {"off", "dequeue", "waiting", "retry", "exclusive", "handle"}]
          /\ \A t \in Task : task'[t] = "handle" <=> task[t] = "handle"
      BY Zenon, <1>2, <2>4 DEF Typed
    <3> QED
      BY <1>2, <2>1, <2>2, <2>4, <3>3, <3>4, <3>5 DEF Typed
  <2> QED
    BY Zenon, <1>4, <2>3, <2>4 DEF PullDeliverTaskIfNeed
<1>5. ASSUME NEW p \in Poster, CreateItemFails(p) PROVE Typed'
  BY <1>2, <1>3, <1>5 DEF CreateItemFails, Typed, delivery, ghosts
<1>6. ASSUME NEW p \in Poster, ConnEnqueue(p) PROVE Typed'
  <2>1. /\ poster[p] = "pulled"
        /\ poster' = [poster EXCEPT ![p] = "done"] \/ poster' = [poster EXCEPT ![p] = "full"]
        /\ UNCHANGED <<running, posting, lock, item, posts, task, hand, crashed, faults, handled,
                       turns, overlap>>
    BY Zenon, <1>6 DEF ConnEnqueue, delivery, ghosts
  <2> QED
    BY Zenon, <1>2, <2>1 DEF Typed
<1>7. ASSUME NEW p \in Poster, EnqueueAfterWait(p) \/ EnqueueTimeout(p) PROVE Typed'
  <2>1. /\ poster[p] = "full"
        /\ poster' = [poster EXCEPT ![p] = "done"]
        /\ UNCHANGED <<running, posting, lock, item, posts, task, hand, crashed, faults, handled,
                       turns, overlap>>
    BY Zenon, <1>7 DEF EnqueueAfterWait, EnqueueTimeout, delivery, ghosts
  <2> QED
    BY Zenon, <1>2, <2>1 DEF Typed
<1>8. ASSUME NEW p \in Poster, MarkPostMessageDone(p) PROVE Typed'
  BY Zenon, <1>2, <1>8 DEF MarkPostMessageDone, Typed
<1>9. ASSUME NEW t \in Task, task[t] # "handle", Take(t) PROVE Typed'
  <2>1. /\ ConnDequeue(queue).out # {} /\ ConnDequeue(queue).out \subseteq Item
        /\ hand' = [hand EXCEPT ![t] = ConnDequeue(queue).out]
        /\ task' = [task EXCEPT ![t] = "handle"]
        /\ UNCHANGED <<running, posting, lock, poster, item, posts, faults, overlap, crashed, handled>>
    BY Zenon, <1>9, DequeuedItems DEF Take, delivery, caller
  <2>2. PICK x \in ConnDequeue(queue).out : turns' = Served(x)
    BY Zenon, <1>9 DEF Take
  <2>3. turns' \in [Ids -> SUBSET Ids]
    BY ZenonT(30), <1>2, <2>1, <2>2, ItemFields DEF Served, Typed
  <2> QED
    BY Zenon, <1>2, <2>1, <2>3 DEF Typed
<1>10. ASSUME NEW t \in Task, NEW next \in {"waiting", "dequeue"}, task[t] # "handle", Miss(t, next)
       PROVE  Typed'
  BY Zenon, <1>2, <1>10 DEF Miss, delivery, caller, Typed
<1>11. ASSUME NEW t \in Task, IdleTimeout(t) PROVE Typed'
  BY Zenon, <1>2, <1>11 DEF IdleTimeout, delivery, caller, Typed
<1>12. ASSUME NEW t \in Task, TakeIntoParameter(t) PROVE Typed'
  BY Zenon, <1>2, <1>12 DEF TakeIntoParameter, caller, Typed
<1>13. ASSUME NEW t \in Task, RetryDequeueExclusive(t) \/ ExclusiveAfterWait(t), ~TakeIntoParameter(t)
       PROVE  Typed'
  BY Zenon, <1>2, <1>13 DEF RetryDequeueExclusive, ExclusiveAfterWait, caller, Typed
<1>14. ASSUME NEW t \in Task, ExclusiveTimeout(t) PROVE Typed'
  BY Zenon, <1>2, <1>14 DEF ExclusiveTimeout, caller, Typed
<1>15. ASSUME NEW t \in Task, Handle(t) PROVE Typed'
  BY Zenon, <1>2, <1>15 DEF Handle, delivery, caller, Typed
<1>16. ASSUME UNCHANGED vars PROVE Typed'
  BY Zenon, <1>2, <1>16 DEF vars, Typed
<1>17. ASSUME NEW t \in Task, DeliverTask(t) PROVE Typed'
  BY Zenon, <1>9, <1>10, <1>11, <1>12, <1>13, <1>14, <1>15, <1>17
     DEF DeliverTask, DequeueFirst, DequeueAfterWait, RetryDequeueExclusive, ExclusiveAfterWait
<1>18. Typed'
  <2>1. ASSUME NEW p \in Poster, PullDeliverTaskIfNeed(p) \/ Deliver(p) PROVE Typed'
    BY Zenon, <1>4, <1>5, <1>6, <1>7, <1>8, <2>1 DEF Deliver
  <2> QED
    BY Zenon, <1>16, <1>17, <2>1 DEF Next
<1> QED
  BY Zenon, <1>1, <1>18, QueueTyped DEF Typed, TypeOK

-----------------------------------------------------------------------------
(***************************************************************************)
(* The task and its lock.                                                  *)
(***************************************************************************)
\* A step of the task at work that leaves it at work.
LEMMA GoesOn ==
  ASSUME TypeOK, OneTask, NEW t \in Task, task[t] # "off", NEW v, v # "off",
         task' = [task EXCEPT ![t] = v], running' = running,
         crashed' \/ (\A u \in Task : lock' = u <=> u = t /\ v = "exclusive")
  PROVE  OneTask'
<1>1. task'[t] = v /\ \A u \in Task \ {t} : task'[u] = task[u] /\ task[u] = "off"
  BY DEF TypeOK, OneTask
<1>2. running'
  BY Zenon DEF OneTask
<1> QED
  BY Zenon, <1>1, <1>2 DEF OneTask

LEMMA OneTaskStep ==
  ASSUME TypeOK, OneTask, [Next]_vars
  PROVE  OneTask'
<1>1. CASE UNCHANGED <<running, task, lock, crashed>>
  BY Zenon, <1>1 DEF OneTask
<1>2. \A t \in Task : "free" # t
  BY Zenon, TaskAssumption
<1>3. \A t \in Task : ~crashed => (lock = t <=> task[t] = "exclusive")
  BY Zenon DEF OneTask
<1>4. ASSUME NEW p \in Poster, PullDeliverTaskIfNeed(p), ~crashed
      PROVE  OneTask'
  <2>1. CASE UNCHANGED <<running, task>>
    BY Zenon, <1>1, <1>4, <2>1 DEF PullDeliverTaskIfNeed
  <2>2. CASE ~running /\ running' = TRUE
               /\ \E t \in Task : task[t] = "off" /\ task' = [task EXCEPT ![t] = "dequeue"]
    <3>1. PICK t \in Task : task[t] = "off" /\ task' = [task EXCEPT ![t] = "dequeue"]
      BY ZenonT(30), <2>2
    <3>2. \A u \in Task : task[u] = "off"
      BY Zenon, <2>2 DEF OneTask
    <3>3. task'[t] = "dequeue" /\ \A u \in Task \ {t} : task'[u] = "off"
      BY Zenon, <3>1, <3>2 DEF TypeOK
    <3>4. lock = "free" /\ lock' = lock
      BY Zenon, <1>4 DEF PullDeliverTaskIfNeed
    <3> QED
      BY Zenon, <1>2, <2>2, <3>3, <3>4 DEF OneTask
  <2> QED
    BY Zenon, <1>4, <2>1, <2>2 DEF PullDeliverTaskIfNeed
<1>5. ASSUME NEW p \in Poster, Deliver(p)
      PROVE  UNCHANGED <<running, task, lock, crashed>>
  BY Zenon, <1>5 DEF Deliver, CreateItemFails, ConnEnqueue, EnqueueAfterWait, EnqueueTimeout,
              MarkPostMessageDone, delivery
<1>6. ASSUME NEW t \in Task, DequeueFirst(t) \/ DequeueAfterWait(t) \/ IdleTimeout(t) \/ Handle(t),
             ~crashed
      PROVE  OneTask'
  <2>1. /\ task[t] \in {"dequeue", "waiting", "handle"}
        /\ UNCHANGED <<running, lock>>
        /\ \E v \in {"dequeue", "waiting", "retry", "handle"} : task' = [task EXCEPT ![t] = v]
    BY Zenon, <1>6 DEF DequeueFirst, DequeueAfterWait, IdleTimeout, Handle, Take, Miss, delivery
  <2>2. \A u \in Task : lock # u
    BY Zenon, <1>3, <1>6, <2>1 DEF OneTask
  <2> QED
    BY Zenon, <2>1, <2>2, GoesOn
<1>7. ASSUME NEW t \in Task, task[t] # "off", TakeIntoParameter(t)
      PROVE  OneTask'
  BY Zenon, <1>7 DEF TakeIntoParameter, OneTask
<1>8. ASSUME NEW t \in Task, RetryDequeueExclusive(t), ~TakeIntoParameter(t)
      PROVE  OneTask'
  <2>1. /\ task[t] = "retry" /\ task' = [task EXCEPT ![t] = "exclusive"]
        /\ lock' = t /\ running' = running
    BY Zenon, <1>8 DEF RetryDequeueExclusive
  <2> QED
    BY Zenon, <2>1, GoesOn
<1>9. ASSUME NEW t \in Task, ExclusiveAfterWait(t), ~TakeIntoParameter(t)
      PROVE  OneTask'
  <2>1. /\ task[t] = "exclusive" /\ task' = [task EXCEPT ![t] = "dequeue"]
        /\ lock' = "free" /\ running' = running
    BY Zenon, <1>9 DEF ExclusiveAfterWait
  <2>2. \A u \in Task : lock' = u <=> u = t /\ "dequeue" = "exclusive"
    BY Zenon, <1>2, <2>1
  <2> QED
    BY Zenon, <2>1, <2>2, GoesOn
<1>10. ASSUME NEW t \in Task, ExclusiveTimeout(t)
       PROVE  OneTask'
  <2>1. /\ task[t] = "exclusive" /\ lock' = "free" /\ running' = posting
        /\ task' = [task EXCEPT ![t] = IF posting THEN "dequeue" ELSE "off"]
    BY Zenon, <1>10 DEF ExclusiveTimeout
  <2>2. CASE posting
    <3>1. running /\ running' = running
      BY Zenon, <2>1, <2>2 DEF OneTask, TypeOK
    <3>2. task' = [task EXCEPT ![t] = "dequeue"]
      BY Zenon, <2>1, <2>2
    <3>3. \A u \in Task : lock' = u <=> u = t /\ "dequeue" = "exclusive"
      BY Zenon, <1>2, <2>1
    <3> QED
      BY Zenon, <2>1, <3>1, <3>2, <3>3, GoesOn
  <2>3. CASE ~posting
    <3>1. \A u \in Task : task'[u] = "off"
      BY <2>1, <2>3 DEF OneTask, TypeOK
    <3> QED
      BY Zenon, <1>2, <2>1, <2>3, <3>1 DEF OneTask
  <2> QED
    BY Zenon, <2>2, <2>3
<1>11. ASSUME NEW t \in Task, DeliverTask(t), ~crashed
       PROVE  OneTask'
  <2>1. CASE RetryDequeueExclusive(t)
    BY Zenon, <1>7, <1>8, <2>1 DEF RetryDequeueExclusive
  <2>2. CASE ExclusiveAfterWait(t)
    BY Zenon, <1>7, <1>9, <2>2 DEF ExclusiveAfterWait
  <2> QED
    BY Zenon, <1>6, <1>10, <1>11, <2>1, <2>2 DEF DeliverTask
<1>12. UNCHANGED vars => UNCHANGED <<running, task, lock, crashed>>
  BY Zenon DEF vars
<1> QED
  BY Zenon, <1>1, <1>4, <1>5, <1>11, <1>12 DEF Next

-----------------------------------------------------------------------------
(***************************************************************************)
(* The numbers of the items.                                               *)
(***************************************************************************)
LEMMA ItemsTyped ==
  ASSUME NEW q, SoundQueue(q)
  PROVE  QueueItems(q) \subseteq Item
<1> SUFFICES ASSUME NEW x \in QueueItems(q) PROVE x \in Item
  BY Zenon
<1>1. \A pq \in PriorityQueue(Item) : x \in PriorityQueueItems(pq) => x \in Item
  BY RingFields, PriorityQueueItem
<1> QED
  BY Zenon, <1>1, QueueItem, QueueFields

LEMMA SeenIs ==
  ASSUME NEW x
  PROVE  x \in Seen <=> x \in Items \/ x \in handled \/ \E t \in Task : x \in hand[t]
BY Zenon DEF Seen

LEMMA SeenTyped ==
  ASSUME TypeOK, SoundQueue(queue), NEW x \in Seen
  PROVE  x \in Item /\ x.n \in Nat /\ x.poster \in Poster
<1>1. x \in Item
  BY Zenon, SeenIs, ItemsTyped DEF TypeOK, Items
<1> QED
  BY Zenon, <1>1, ItemFields

\* A step that brings no new item.
LEMMA NumberedFrame ==
  ASSUME TypeOK, SoundQueue(queue), Numbered, posts' = posts,
         \A p \in Poster : /\ item'[p] \subseteq item[p]
                           /\ poster'[p] \in {"pulled", "full"} => poster[p] \in {"pulled", "full"},
         Seen' \subseteq Seen,
         Items' \cap handled' = {},
         \A t \in Task : Items' \cap hand'[t] = {}
  PROVE  Numbered'
<1>1. \A x \in Seen' : x.poster \in Poster
  BY Zenon, SeenTyped
<1> QED
  BY Zenon, <1>1 DEF Numbered

LEMMA NumberedStep ==
  ASSUME TypeOK, SoundQueue(queue), Numbered, [Next]_vars
  PROVE  Numbered'
<1>1. \A p \in Poster : posts[p] \in Nat
  BY BoundsNat DEF TypeOK
<1>2. ASSUME NEW p \in Poster, PullDeliverTaskIfNeed(p)
      PROVE  Numbered'
  <2>1. /\ poster[p] = "idle" /\ item[p] = {}
        /\ posts' = [posts EXCEPT ![p] = @ + 1]
        /\ UNCHANGED <<queue, hand, handled>>
    BY Zenon, <1>2 DEF PullDeliverTaskIfNeed, ghosts, TypeOK
  <2>2. Items' = Items /\ Seen' = Seen
    BY Zenon, <2>1 DEF Items, Seen
  <2>3. posts'[p] = posts[p] + 1 /\ \A o \in Poster \ {p} : posts'[o] = posts[o]
    BY Zenon, <2>1 DEF TypeOK
  <2>4. /\ \A o \in Poster \ {p} : item'[o] = item[o] /\ poster'[o] = poster[o]
        /\ \A x \in item'[p] : x.poster = p /\ x.n = posts'[p]
    BY SMTT(20), <1>2, <2>1 DEF PullDeliverTaskIfNeed, TypeOK
  <2>5. \A o \in Poster : \A x \in item'[o] : x.poster = o /\ x.n = posts'[o]
    BY ZenonT(30), <2>3, <2>4 DEF Numbered
  <2>6. ASSUME NEW x \in Seen
        PROVE  /\ x.n <= posts'[x.poster]
               /\ poster'[x.poster] \in {"pulled", "full"} => x.n < posts'[x.poster]
    <3>1. x.n \in Nat /\ x.poster \in Poster
      BY Zenon, SeenTyped
    <3>2. x.n <= posts[x.poster]
      BY Zenon DEF Numbered
    <3>3. CASE x.poster = p
      BY <1>1, <2>3, <3>1, <3>2, <3>3
    <3>4. CASE x.poster # p
      BY Zenon, <2>3, <2>4, <3>1, <3>4 DEF Numbered
    <3> QED
      BY Zenon, <3>3, <3>4
  <2> QED
    BY Zenon, <2>1, <2>2, <2>5, <2>6 DEF Numbered
<1>3. ASSUME NEW p \in Poster, CreateItemFails(p) \/ MarkPostMessageDone(p) \/ EnqueueTimeout(p)
      PROVE  Numbered'
  <2>1. /\ UNCHANGED <<queue, hand, handled, posts>>
        /\ \A o \in Poster : /\ item'[o] \subseteq item[o]
                             /\ poster'[o] \in {"pulled", "full"} => poster[o] \in {"pulled", "full"}
    BY Zenon, <1>3 DEF CreateItemFails, MarkPostMessageDone, EnqueueTimeout, ghosts, TypeOK
  <2>2. Items' = Items /\ Seen' = Seen
    BY Zenon, <2>1 DEF Items, Seen
  <2>3. Items' \cap handled' = {} /\ \A t \in Task : Items' \cap hand'[t] = {}
    BY Zenon, <2>1, <2>2 DEF Numbered
  <2> QED
    BY Zenon, <2>1, <2>2, <2>3, NumberedFrame
<1>4. ASSUME NEW p \in Poster, ConnEnqueue(p) \/ EnqueueAfterWait(p)
      PROVE  Numbered'
  <2>1. /\ UNCHANGED <<hand, handled, posts, item>>
        /\ poster[p] \in {"pulled", "full"}
        /\ \A o \in Poster : poster'[o] \in {"pulled", "full"} => poster[o] \in {"pulled", "full"}
    BY Zenon, <1>4 DEF ConnEnqueue, EnqueueAfterWait, ghosts, TypeOK
  <2>2. PICK x \in item[p] :
          \/ HasRoom(queue, x) /\ queue' = Enqueue(queue, x) /\ poster'[p] = "done"
          \/ queue' = GetOrCreatePriorityQueue(queue, x.id)
    BY Zenon, <1>4 DEF ConnEnqueue, EnqueueAfterWait, TypeOK
  <2>3. /\ x \in Item /\ x.poster = p /\ x.n = posts[p]
        /\ \A y \in Seen : y.poster = p => y.n < x.n
    BY ZenonT(30), <2>1, NextItem
  <2>4. Items \subseteq Items' /\ Items' \subseteq Items \cup {x}
    BY Zenon, <2>1, <2>2, EnqueueStep
  <2>5. x \notin Seen
    BY <1>1, <2>3
  <2>6. Items' \cap handled' = {} /\ \A t \in Task : Items' \cap hand'[t] = {}
    BY <2>1, <2>4, <2>5, SeenIs DEF Numbered
  <2>7. CASE queue' = GetOrCreatePriorityQueue(queue, x.id)
    <3>1. Items' = Items
      BY Zenon, <2>3, <2>7, ItemFields, GetOrCreateIs DEF Items
    <3>2. Seen' = Seen
      BY Zenon, <2>1, <3>1 DEF Seen
    <3> QED
      BY Zenon, <2>1, <2>6, <3>2, NumberedFrame
  <2>8. CASE poster'[p] = "done"
    <3>1. Seen' \subseteq Seen \cup {x}
      BY Zenon, <2>1, <2>4 DEF Seen
    <3>2. \A y \in Seen : y.poster \in Poster
      BY Zenon, SeenTyped
    <3>3. \A y \in Seen' : /\ y.n <= posts'[y.poster]
                           /\ poster'[y.poster] \in {"pulled", "full"} => y.n < posts'[y.poster]
      BY SMTT(20), <1>1, <2>1, <2>3, <2>8, <3>1, <3>2 DEF Numbered
    <3>4. \A o \in Poster : \A y \in item'[o] : y.poster = o /\ y.n = posts'[o]
      BY Zenon, <2>1 DEF Numbered
    <3> QED
      BY Zenon, <2>6, <3>3, <3>4 DEF Numbered
  <2> QED
    BY Zenon, <2>2, <2>7, <2>8
<1>5. ASSUME NEW t \in Task, queue' = ConnDequeue(queue).queue, UNCHANGED <<handled, caller>>,
             \/ UNCHANGED hand
             \/ hand' = [hand EXCEPT ![t] = ConnDequeue(queue).out]
      PROVE  Numbered'
  <2>1. \/ ConnDequeue(queue).out = {} /\ Items' = {}
        \/ \E x : /\ ConnDequeue(queue).out = {x} /\ x \in Items
                  /\ \A y : y \in Items' <=> y \in Items /\ y # x
    BY ZenonT(30), <1>5, DequeueStep DEF Taken, Items
  <2>2. Items' \subseteq Items /\ ConnDequeue(queue).out \subseteq Items \ Items'
    BY Zenon, <2>1
  <2>3. \A u \in Task : hand'[u] = hand[u] \/ hand'[u] = ConnDequeue(queue).out
    BY Zenon, <1>5 DEF TypeOK
  <2>4. Seen' \subseteq Seen
    <3>1. \A x : x \in Seen' => x \in Items' \/ x \in handled' \/ \E u \in Task : x \in hand'[u]
      BY Zenon DEF Seen
    <3> QED
      BY Zenon, <1>5, <2>2, <2>3, <3>1, SeenIs
  <2>5. Items' \cap handled' = {} /\ \A u \in Task : Items' \cap hand'[u] = {}
    BY Zenon, <1>5, <2>2, <2>3 DEF Numbered
  <2>6. posts' = posts /\ item' = item /\ poster' = poster
    BY Zenon, <1>5 DEF caller
  <2>7. \A p \in Poster : /\ item'[p] \subseteq item[p]
                          /\ poster'[p] \in {"pulled", "full"} => poster[p] \in {"pulled", "full"}
    BY Zenon, <2>6
  <2> QED
    BY Zenon, <2>4, <2>5, <2>6, <2>7, NumberedFrame
<1>6. ASSUME NEW t \in Task, IdleTimeout(t) \/ ExclusiveTimeout(t) \/ Handle(t)
      PROVE  Numbered'
  <2>1. /\ UNCHANGED <<queue, caller>>
        /\ \/ UNCHANGED <<hand, handled>>
           \/ handled' = handled \cup hand[t] /\ hand' = [hand EXCEPT ![t] = {}]
    BY Zenon, <1>6 DEF IdleTimeout, ExclusiveTimeout, Handle
  <2>2. Items' = Items
    BY Zenon, <2>1 DEF Items
  <2>3. \A u \in Task : hand'[u] \subseteq hand[u]
    BY Zenon, <2>1 DEF TypeOK
  <2>4. Seen' \subseteq Seen
    <3>1. \A x : x \in Seen' => x \in Items' \/ x \in handled' \/ \E u \in Task : x \in hand'[u]
      BY Zenon DEF Seen
    <3> QED
      BY Zenon, <2>1, <2>2, <2>3, <3>1, SeenIs
  <2>5. Items' \cap handled' = {} /\ \A u \in Task : Items' \cap hand'[u] = {}
    BY Zenon, <2>1, <2>2, <2>3 DEF Numbered
  <2>6. posts' = posts /\ item' = item /\ poster' = poster
    BY Zenon, <2>1 DEF caller
  <2>7. \A p \in Poster : /\ item'[p] \subseteq item[p]
                          /\ poster'[p] \in {"pulled", "full"} => poster[p] \in {"pulled", "full"}
    BY Zenon, <2>6
  <2> QED
    BY Zenon, <2>4, <2>5, <2>6, <2>7, NumberedFrame
<1>7. ASSUME NEW t \in Task, DeliverTask(t)
      PROVE  Numbered'
  <2>1. \/ IdleTimeout(t) \/ ExclusiveTimeout(t) \/ Handle(t)
        \/ /\ queue' = ConnDequeue(queue).queue /\ UNCHANGED <<handled, caller>>
           /\ \/ UNCHANGED hand
              \/ hand' = [hand EXCEPT ![t] = ConnDequeue(queue).out]
    BY ZenonT(30), <1>7 DEF DeliverTask, DequeueFirst, DequeueAfterWait, RetryDequeueExclusive,
                ExclusiveAfterWait, Take, Miss, TakeIntoParameter
  <2> QED
    BY Zenon, <1>5, <1>6, <2>1
<1>8. CASE UNCHANGED vars
  <2>1. UNCHANGED <<queue, hand, handled, posts, item, poster>>
    BY Zenon, <1>8 DEF vars
  <2>2. Items' = Items
    BY Zenon, <2>1 DEF Items
  <2>3. Seen' = Seen
    BY Zenon, <2>1, <2>2 DEF Seen
  <2> QED
    BY Zenon, <2>1, <2>2, <2>3 DEF Numbered
<1>9. ASSUME NEW p \in Poster, Deliver(p)
      PROVE  Numbered'
  BY Zenon, <1>3, <1>4, <1>9 DEF Deliver
<1> QED
  BY Zenon, <1>2, <1>7, <1>8, <1>9 DEF Next

-----------------------------------------------------------------------------
(***************************************************************************)
(* The mark of the posters, and the turns.                                 *)
(***************************************************************************)
LEMMA MarkedStep ==
  ASSUME TypeOK, SoundQueue(queue), OneTask, Numbered, Marked, [Next]_vars
  PROVE  Marked'
<1> SUFFICES ASSUME ~crashed', ~overlap'
             PROVE  /\ \A p \in Poster : poster'[p] \in {"pulled", "full"} => running' /\ posting'
                    /\ Items' # {} => running'
                    /\ \A t \in Task : task'[t] = "exclusive" /\ Items' # {} => posting'
  BY Zenon DEF Marked
<1> DEFINE Goal == /\ \A p \in Poster : poster'[p] \in {"pulled", "full"} => running' /\ posting'
                   /\ Items' # {} => running'
                   /\ \A t \in Task : task'[t] = "exclusive" /\ Items' # {} => posting'
<1>1. ASSUME UNCHANGED vars PROVE Goal
  <2>1. UNCHANGED <<queue, running, posting, poster, task, crashed, overlap>>
    BY Zenon, <1>1 DEF vars
  <2> QED
    BY Zenon, <2>1 DEF Marked, Items
<1>2. ASSUME NEW p \in Poster, PullDeliverTaskIfNeed(p) PROVE Goal
  <2>1. /\ posting' = TRUE /\ UNCHANGED <<queue, crashed, overlap>>
        /\ \A o \in Poster \ {p} : poster'[o] = poster[o]
        /\ running => running'
        /\ running' \/ poster' = poster
    BY <1>2 DEF PullDeliverTaskIfNeed, ghosts, TypeOK
  <2>2. Items' = Items
    BY Zenon, <2>1 DEF Items
  <2>3. poster[p] = "idle"
    BY Zenon, <1>2 DEF PullDeliverTaskIfNeed
  <2> QED
    BY Zenon, <2>1, <2>2, <2>3 DEF Marked
<1>3. ASSUME NEW p \in Poster, CreateItemFails(p) \/ EnqueueTimeout(p) PROVE Goal
  <2>1. /\ UNCHANGED <<queue, running, posting, task, crashed, overlap>>
        /\ \A o \in Poster : poster'[o] \in {"pulled", "full"} => poster[o] \in {"pulled", "full"}
    BY Zenon, <1>3 DEF CreateItemFails, EnqueueTimeout, delivery, ghosts, TypeOK
  <2>2. Items' = Items
    BY ZenonT(30), <2>1 DEF Items
  <2> QED
    BY Zenon, <2>1, <2>2 DEF Marked
<1>4. ASSUME NEW p \in Poster, ConnEnqueue(p) \/ EnqueueAfterWait(p) PROVE Goal
  <2>1. /\ UNCHANGED <<running, posting, task, crashed, overlap>>
        /\ poster[p] \in {"pulled", "full"}
        /\ \A o \in Poster : poster'[o] \in {"pulled", "full"} => poster[o] \in {"pulled", "full"}
    BY Zenon, <1>4 DEF ConnEnqueue, EnqueueAfterWait, delivery, ghosts, TypeOK
  <2>2. running /\ posting
    BY Zenon, <2>1 DEF Marked
  <2> QED
    BY Zenon, <2>1, <2>2
<1>5. ASSUME NEW p \in Poster, MarkPostMessageDone(p) PROVE Goal
  <2>1. /\ UNCHANGED <<queue, running, task, lock, crashed>>
        /\ ~overlap /\ \A o \in Poster \ {p} : poster[o] \notin {"pulled", "full"}
        /\ lock = "free" /\ poster' = [poster EXCEPT ![p] = "idle"]
    BY ZenonT(30), <1>5 DEF MarkPostMessageDone
  <2>2. \A o \in Poster : poster'[o] \notin {"pulled", "full"}
    BY Zenon, <2>1 DEF TypeOK
  <2>3. \A t \in Task : task'[t] # "exclusive"
    BY Zenon, <2>1, TaskAssumption DEF OneTask
  <2>4. Items' = Items
    BY Zenon, <2>1 DEF Items
  <2> QED
    BY Zenon, <2>1, <2>2, <2>3, <2>4 DEF Marked
<1>6. ASSUME NEW t \in Task, DeliverTask(t), ~ExclusiveTimeout(t) PROVE Goal
  <2>1. UNCHANGED <<running, posting, poster, overlap>> /\ ~crashed
    <3>1. CASE DequeueFirst(t) \/ DequeueAfterWait(t)
      <4>1. Take(t) \/ \E next : Miss(t, next)
        BY Zenon, <3>1 DEF DequeueFirst, DequeueAfterWait
      <4>2. UNCHANGED <<delivery, caller, crashed>>
        BY Zenon, <4>1 DEF Take, Miss
      <4> QED
        BY Zenon, <4>2 DEF delivery, caller
    <3>2. CASE IdleTimeout(t) \/ Handle(t)
      BY <3>2 DEF IdleTimeout, Handle, delivery, caller
    <3>3. CASE RetryDequeueExclusive(t) \/ ExclusiveAfterWait(t)
      BY <3>3 DEF RetryDequeueExclusive, ExclusiveAfterWait, TakeIntoParameter, caller
    <3> QED
      BY Zenon, <1>6, <3>1, <3>2, <3>3 DEF DeliverTask
  <2>2. CASE IdleTimeout(t) \/ Handle(t)
    <3>1. \A u \in Task : task'[u] = "exclusive" => task[u] = "exclusive"
      BY Zenon, <2>2 DEF IdleTimeout, Handle, TypeOK
    <3>2. Items' = Items
      BY Zenon, <2>2 DEF IdleTimeout, Handle, Items
    <3> QED
      BY Zenon, <2>1, <3>1, <3>2 DEF Marked
  <2>3. CASE queue' = ConnDequeue(queue).queue /\ ConnDequeue(queue).out = {}
    <3>1. Items' = {}
      BY Zenon, <2>3, DequeueStep
    <3> QED
      BY Zenon, <2>1, <3>1 DEF Marked
  <2>4. CASE queue' = ConnDequeue(queue).queue /\ ConnDequeue(queue).out # {}
    <3>1. Items' \subseteq Items
      BY Zenon, <2>4, DequeueStep DEF Items, Taken
    <3>2. \A u \in Task : task'[u] = "exclusive" => task[u] = "exclusive"
      BY ZenonT(30), <1>6, <2>4
         DEF DeliverTask, DequeueFirst, DequeueAfterWait, IdleTimeout, Handle, Take, Miss,
                        RetryDequeueExclusive, ExclusiveAfterWait, TakeIntoParameter, TypeOK
    <3> QED
      BY ZenonT(30), <2>1, <3>1, <3>2 DEF Marked
  <2> QED
    BY ZenonT(30), <1>6, <2>2, <2>3, <2>4
       DEF DeliverTask, DequeueFirst, DequeueAfterWait, Take, Miss, RetryDequeueExclusive,
           ExclusiveAfterWait, TakeIntoParameter
<1>7. ASSUME NEW t \in Task, ExclusiveTimeout(t) PROVE Goal
  <2>1. /\ UNCHANGED <<queue, posting, poster, overlap, crashed>>
        /\ task[t] = "exclusive" /\ running' = posting
    BY Zenon, <1>7 DEF ExclusiveTimeout, caller
  <2>2. Items' = Items
    BY Zenon, <2>1 DEF Items
  <2> QED
    BY Zenon, <2>1, <2>2 DEF Marked
<1> QED
  BY Zenon, <1>1, <1>2, <1>3, <1>4, <1>5, <1>6, <1>7 DEF Next, Deliver

LEMMA RotatedStep ==
  ASSUME TypeOK, SoundQueue(queue), Numbered, Rotated, [Next]_vars
  PROVE  Rotated'
<1> SUFFICES ASSUME ~crashed', NEW i \in Ids
             PROVE  /\ (\A x \in Items' : x.id # i) => turns'[i] = {}
                    /\ \A a, b \in DOMAIN queue'.queues :
                         queue'.queues[a].id = i /\ queue'.queues[b].id \in turns'[i] => a < b
  BY Zenon DEF Rotated
<1> DEFINE Goal == /\ (\A x \in Items' : x.id # i) => turns'[i] = {}
                   /\ \A a, b \in DOMAIN queue'.queues :
                        queue'.queues[a].id = i /\ queue'.queues[b].id \in turns'[i] => a < b
<1>1. ~crashed =>
        /\ (\A x \in Items : x.id # i) => turns[i] = {}
        /\ \A a, b \in DOMAIN queue.queues :
             queue.queues[a].id = i /\ queue.queues[b].id \in turns[i] => a < b
  BY Zenon DEF Rotated
<1>2. ASSUME UNCHANGED <<queue, turns, crashed>> PROVE Goal
  BY Zenon, <1>1, <1>2 DEF Items
<1>3. ASSUME NEW p \in Poster, ConnEnqueue(p) \/ EnqueueAfterWait(p) PROVE Goal
  <2>1. UNCHANGED <<turns, crashed>> /\ poster[p] \in {"pulled", "full"}
    BY Zenon, <1>3 DEF ConnEnqueue, EnqueueAfterWait, ghosts
  <2>2. \E x \in item[p] : \/ HasRoom(queue, x) /\ queue' = Enqueue(queue, x)
                           \/ queue' = GetOrCreatePriorityQueue(queue, x.id)
    BY ZenonT(30), <1>3 DEF ConnEnqueue, EnqueueAfterWait
  <2>3. Extends(queue, queue') /\ Items \subseteq Items'
    BY Zenon, <2>1, <2>2, EnqueueStep
  <2>4. (\A x \in Items' : x.id # i) => turns'[i] = {}
    BY Zenon, <1>1, <2>1, <2>3
  <2>5. ASSUME NEW a \in DOMAIN queue'.queues, NEW b \in DOMAIN queue'.queues,
               queue'.queues[a].id = i, queue'.queues[b].id \in turns'[i]
        PROVE  a < b
    <3>1. turns[i] # {}
      BY Zenon, <2>1, <2>5
    <3>2. a \in DOMAIN queue.queues /\ queue'.queues[a].id = queue.queues[a].id
      BY Zenon, <1>1, <2>1, <2>3, <2>5, <3>1 DEF Extends, Items
    <3>3. CASE b \in DOMAIN queue.queues /\ queue'.queues[b].id = queue.queues[b].id
      BY Zenon, <1>1, <2>1, <2>5, <3>2, <3>3
    <3>4. CASE b = Len(queue.queues) + 1
      <4>1. queue.queues \in Seq(PriorityQueue(Item))
        BY Zenon, QueueFields
      <4>2. a \in 1..Len(queue.queues) /\ Len(queue.queues) \in Nat
        BY <3>2, <4>1
      <4> QED
        BY <3>4, <4>2
    <3> QED
      BY Zenon, <2>3, <3>3, <3>4 DEF Extends
  <2> QED
    BY Zenon, <2>4, <2>5
<1>4. ASSUME ~crashed, queue' = ConnDequeue(queue).queue, ConnDequeue(queue).out = {}, UNCHANGED turns
      PROVE  Goal
  <2>1. Items = {} /\ Items' = {} /\ queue'.queues = <<>>
    BY Zenon, <1>4, DequeueStep
  <2>2. DOMAIN queue'.queues = {}
    BY <2>1
  <2> QED
    BY Zenon, <1>1, <1>4, <2>1, <2>2
<1>5. ASSUME ~crashed, NEW t \in Task, Take(t) PROVE Goal
  <2>1. PICK x \in Item : ConnDequeue(queue).out = {x} /\ Taken(queue, queue', x)
    BY Zenon, <1>5, DequeueStep DEF Take
  <2>2. turns' = Served(x)
    BY Zenon, <1>5, <2>1 DEF Take
  <2>3. turns'[i] = IF i # x.id /\ i \in {y.id : y \in Items} THEN turns[i] \cup {x.id} ELSE {}
    BY Zenon, <2>2 DEF Served, Items
  <2>4. \A y : y \in Items' <=> y \in Items /\ y # x
    BY Zenon, <2>1 DEF Taken, Items
  <2>5. (\A y \in Items' : y.id # i) => turns'[i] = {}
    BY Zenon, <2>3, <2>4
  <2>6. ASSUME NEW a \in DOMAIN queue'.queues, NEW b \in DOMAIN queue'.queues,
               queue'.queues[a].id = i, queue'.queues[b].id \in turns'[i]
        PROVE  a < b
    <3>1. i # x.id /\ queue'.queues[b].id \in turns[i] \cup {x.id}
      BY Zenon, <2>3, <2>6
    <3>2. \/ queue'.queues[b].id = x.id /\ a < b
          \/ /\ queue'.queues[b].id # x.id
             /\ \E c, d \in DOMAIN queue.queues : /\ queue.queues[c].id = i
                                                  /\ queue.queues[d].id = queue'.queues[b].id
                                                  /\ c < d => a < b
      BY ZenonT(30), <2>1, <2>6, <3>1 DEF Taken, Rotates
    <3> QED
      BY ZenonT(30), <1>1, <1>5, <3>1, <3>2
  <2> QED
    BY Zenon, <2>5, <2>6
<1>6. ASSUME NEW t \in Task, DeliverTask(t), ~crashed PROVE Goal
  <2>1. \/ UNCHANGED <<queue, turns, crashed>>
        \/ Take(t)
        \/ queue' = ConnDequeue(queue).queue /\ ConnDequeue(queue).out = {} /\ UNCHANGED turns
    BY ZenonT(30), <1>6
       DEF DeliverTask, DequeueFirst, DequeueAfterWait, IdleTimeout, Handle, Miss,
                RetryDequeueExclusive, ExclusiveAfterWait, ExclusiveTimeout, TakeIntoParameter
  <2> QED
    BY Zenon, <1>2, <1>4, <1>5, <1>6, <2>1
<1>7. ASSUME NEW p \in Poster, PullDeliverTaskIfNeed(p) \/ CreateItemFails(p) \/ EnqueueTimeout(p)
                                 \/ MarkPostMessageDone(p)
      PROVE  UNCHANGED <<queue, turns, crashed>>
  BY Zenon, <1>7
     DEF PullDeliverTaskIfNeed, CreateItemFails, EnqueueTimeout, MarkPostMessageDone, ghosts
<1>8. UNCHANGED vars => UNCHANGED <<queue, turns, crashed>>
  BY Zenon DEF vars
<1> QED
  BY ZenonT(30), <1>2, <1>3, <1>6, <1>7, <1>8 DEF Next, Deliver

-----------------------------------------------------------------------------
(***************************************************************************)
(* The theorems.                                                           *)
(***************************************************************************)
LEMMA InitInv == Init => IInv
<1> SUFFICES ASSUME Init PROVE IInv
  BY Zenon
<1> USE DEF Init
<1>1. ConnCreateQueue = [inner |-> CreatePriorityQueue(0), queues |-> <<>>]
  BY Zenon DEF ConnCreateQueue
<1>2. SoundQueue(queue)
  <2>1. <<>> \in Seq(PriorityQueue(Item)) /\ DOMAIN <<>> = {}
    BY SMTT(20)
  <2> QED
    BY Zenon, <1>1, <2>1, CreatedSound, SoundParts
<1>3. Items = {} /\ DOMAIN queue.queues = {}
  <2>1. queue.inner = CreatePriorityQueue(0) /\ queue.queues = <<>>
    BY ZenonT(30), <1>1
  <2>2. DOMAIN queue.queues = {}
    BY <2>1
  <2> QED
    BY Zenon, <2>1, <2>2, CreatedSound, QueueItem DEF Items
<1>4. TypeOK
  <2>1. /\ queue \in Queue(Item)
        /\ \A pq \in Range(queue.queues) \cup {queue.inner} :
             \A p \in Priority : Len(pq.queue[p]) < Size
    BY Zenon, <1>2, QueueTyped
  <2>2. 0 \in 0..MaxPosts /\ 0 \in 0..MaxFaults
    BY BoundsNat
  <2> QED
    BY Zenon, <2>1, <2>2 DEF TypeOK
<1>5. OneTask
  BY Zenon, TaskAssumption DEF OneTask
<1>6. Seen = {}
  BY Zenon, <1>3 DEF Seen
<1>7. Numbered
  BY Zenon, <1>3, <1>6 DEF Numbered
<1>8. Marked
  BY Zenon, <1>3 DEF Marked
<1>9. Rotated
  BY Zenon, <1>3 DEF Rotated
<1> QED
  BY Zenon, <1>2, <1>4, <1>5, <1>7, <1>8, <1>9 DEF IInv

LEMMA InvStep == IInv /\ [Next]_vars => IInv'
<1> SUFFICES ASSUME IInv, [Next]_vars PROVE IInv'
  BY Zenon
<1>1. TypeOK /\ SoundQueue(queue) /\ OneTask /\ Numbered /\ Marked /\ Rotated
  BY Zenon DEF IInv
<1>2. TypeOK' /\ SoundQueue(queue')
  BY Zenon, <1>1, TypeStep, QueueStep
<1>3. OneTask' /\ Numbered'
  BY Zenon, <1>1, OneTaskStep, NumberedStep
<1>4. Marked' /\ Rotated'
  BY Zenon, <1>1, MarkedStep, RotatedStep
<1> QED
  BY Zenon, <1>2, <1>3, <1>4 DEF IInv

\* IInv is an invariant of the delivery.
THEOREM Invariance == Spec => []IInv
<1> QED
  BY InitInv, InvStep, PTL DEF Spec

\* Every variable keeps its type, and no ring of the queue is ever filled to its
\* last slot (ConnEnqueue).
THEOREM TypeCorrect == Spec => []TypeOK
<1>1. IInv => TypeOK
  BY Zenon DEF IInv
<1> QED
  BY <1>1, Invariance, PTL

\* There is never more than one delivery task, and deliveryTaskRunning is set
\* exactly while there is one (PullDeliverTaskIfNeed, DeliverTask).
THEOREM OneConsumer == Spec => []SingleConsumer
<1>1. IInv => SingleConsumer
  <2> SUFFICES ASSUME IInv PROVE SingleConsumer
    BY Zenon
  <2> DEFINE S == {t \in Task : task[t] # "off"}
  <2>1. CASE running
    <3>1. PICK t \in Task : S = {t}
      BY <2>1 DEF IInv, OneTask
    <3> QED
      BY Zenon, <2>1, <3>1, FS_Singleton DEF SingleConsumer
  <2>2. CASE ~running
    <3>1. S = {}
      BY Zenon, <2>2 DEF IInv, OneTask
    <3> QED
      BY Zenon, <2>2, <3>1, FS_EmptySet DEF SingleConsumer
  <2> QED
    BY Zenon, <2>1, <2>2
<1> QED
  BY <1>1, Invariance, PTL

\* An item in the queue has a task that will take it, unless one poster has
\* cleared deliveryMessagePosting while another one was about to enqueue: the
\* task's last look at the queue, under the lock, misses nothing.
THEOREM NoItemStranded == Spec => []ItemHasTask
<1>1. IInv => ItemHasTask
  BY Zenon DEF IInv, Marked, ItemHasTask
<1> QED
  BY <1>1, Invariance, PTL

\* What a step puts into a task's hand is what ConnDequeue takes.
LEMMA HandedIsTaken ==
  ASSUME IInv, [Next]_vars, NEW t \in Task, NEW x \in hand'[t] \ hand[t]
  PROVE  Taken(queue, queue', x) /\ ~crashed
<1>1. TypeOK /\ SoundQueue(queue)
  BY ZenonT(30) DEF IInv
<1>2. ASSUME NEW u \in Task, Take(u), ~crashed
      PROVE  Taken(queue, queue', x) /\ ~crashed
  <2>1. x \in ConnDequeue(queue).out /\ queue' = ConnDequeue(queue).queue
    BY ZenonT(30), <1>1, <1>2 DEF Take, TypeOK
  <2> QED
    BY Zenon, <1>1, <1>2, <2>1, DequeueStep
<1>3. ASSUME NEW u \in Task, DeliverTask(u)
      PROVE  Take(u) \/ hand'[t] \subseteq hand[t]
  BY ZenonT(30), <1>1, <1>3
     DEF DeliverTask, DequeueFirst, DequeueAfterWait, IdleTimeout, Handle, Miss, TypeOK,
                    RetryDequeueExclusive, ExclusiveAfterWait, ExclusiveTimeout, TakeIntoParameter
<1>4. ASSUME NEW p \in Poster, PullDeliverTaskIfNeed(p) \/ Deliver(p)
      PROVE  UNCHANGED hand
  BY ZenonT(30), <1>4
     DEF PullDeliverTaskIfNeed, Deliver, CreateItemFails, ConnEnqueue, EnqueueAfterWait,
              EnqueueTimeout, MarkPostMessageDone
<1>5. UNCHANGED vars => UNCHANGED hand
  BY Zenon DEF vars
<1> QED
  BY Zenon, <1>2, <1>3, <1>4, <1>5 DEF Next

\* No item reaches the handler twice, and the items of one poster with the same
\* id and priority reach it in the order of the calls (ConnEnqueue, ConnDequeue).
THEOREM OrderKept == Spec => InOrder
<1>1. IInv /\ [Next]_vars =>
        [\A t \in Task : \A x \in hand'[t] \ hand[t] :
           /\ x \notin handled
           /\ \A y \in Items : <<y.poster, y.id, y.priority>> = <<x.poster, x.id, x.priority>>
                                 => x.n <= y.n]_vars
  <2> SUFFICES ASSUME IInv, [Next]_vars, NEW t \in Task, NEW x \in hand'[t] \ hand[t]
               PROVE  /\ x \notin handled
                      /\ \A y \in Items :
                           <<y.poster, y.id, y.priority>> = <<x.poster, x.id, x.priority>>
                             => x.n <= y.n
    BY Zenon
  <2>1. x \in Items /\ Earliest(x, Items)
    BY Zenon, HandedIsTaken DEF Taken, Items
  <2>2. x \notin handled
    BY Zenon, <2>1 DEF IInv, Numbered
  <2> QED
    BY Zenon, <2>1, <2>2 DEF Earliest
<1> QED
  BY <1>1, Invariance, PTL DEF Spec, InOrder

\* While items of one process wait, no other process is served twice
\* (QueueDequeue of the fair queue).
THEOREM TurnsKept == Spec => RoundRobin
<1>1. IInv /\ [Next]_vars =>
        [\A t \in Task : \A x \in hand'[t] \ hand[t] :
           x.id # 0 => \A y \in Items : y.id \notin {0, x.id} => x.id \notin turns[y.id]]_vars
  <2> SUFFICES ASSUME IInv, [Next]_vars, NEW t \in Task, NEW x \in hand'[t] \ hand[t],
                      x.id # 0, NEW y \in Items, y.id \notin {0, x.id}
               PROVE  x.id \notin turns[y.id]
    BY Zenon
  <2>1. ServesFirst(queue, x) /\ ~crashed
    BY Zenon, HandedIsTaken DEF Taken
  <2>2. PICK a, b \in DOMAIN queue.queues :
               queue.queues[a].id = x.id /\ queue.queues[b].id = y.id /\ a < b
    BY Zenon, <2>1 DEF ServesFirst, Items
  <2>3. y.id \in Ids
    BY Zenon, ItemsTyped, ItemFields DEF IInv, Items
  <2>4. queue.queues \in Seq(PriorityQueue(Item))
    BY Zenon, QueueFields DEF IInv
  <2>5. a \in Nat /\ b \in Nat /\ ~(b < a)
    BY <2>2, <2>4
  <2> QED
    BY Zenon, <2>1, <2>2, <2>3, <2>5 DEF IInv, Rotated
<1> QED
  BY <1>1, Invariance, PTL DEF Spec, RoundRobin
=============================================================================
