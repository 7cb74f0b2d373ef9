---------------------------- MODULE LooperProofs ----------------------------
(***************************************************************************)
(* Proofs about the message loops, for any number of loopers and messages. *)
(*                                                                         *)
(* The inductive invariant has five parts beside the types.  Owned says    *)
(* where each message is.  Chronological says how the list of a looper and *)
(* the order of the posts fit together.  Alive says which loopers exist    *)
(* and what has been destroyed.  Exclusive holds while LooperDeinit did    *)
(* not come too early: one thread at a time destroys, and it meets no      *)
(* thread of a looper that has not ended.  Removals says where the         *)
(* removals under way are.                                                 *)
(***************************************************************************)
EXTENDS Looper, FiniteSetTheorems, WellFoundedInduction, TLAPS

Codes == {What[m] : m \in Message}
InLoop == {"loop", "wait", "sleep", "handle", "exit"}

\* the variables that describe a looper and its messages
MessagesTyped ==
  /\ now \in 0..MaxTime
  /\ stop \in [Loop -> BOOLEAN] /\ running \in [Loop -> BOOLEAN]
  /\ list \in [Loop -> Seq(Message)]
  /\ current \in [Loop -> SUBSET Message]
  /\ thread \in [Loop -> {"none", "start", "over"} \cup InLoop]
  /\ post \in [Message -> {"none", "verify", "insert", "done"}]
  /\ time \in [Message -> Due]
  /\ freed \in [Message -> {0, 1}]
  /\ posted \in [Loop -> Seq(Message)]
  /\ quiet \in [Loop -> SUBSET Codes]

\* the variables of LooperInit and LooperDeinit
LoopersTyped ==
  /\ creating \in 1..(Len(Loops) + 1)
  /\ context \in [Loop -> {"none", "live", "null", "freed"}]
  /\ config = {l \in Loop : context[l] \in {"live", "null"}}
  /\ looperCnt = Cardinality(config)
  /\ started \in BOOLEAN /\ needDestroy \in BOOLEAN
  /\ early \in BOOLEAN /\ overlap \in BOOLEAN
  /\ destroy \in [Destroyer -> {"idle", "scan", "stop", "wait", "asleep", "free",
                                 "release", "done"}]
  /\ at \in [Destroyer -> 1..(Len(Loops) + 1)]

\* a message that is posted is in the list, being handled or freed, and only
\* one of these
Owned ==
  /\ \A l \in Loop : IsInjective(list[l])
  /\ \A l \in Loop : \A m \in Range(list[l]) :
       Home[m] = l /\ post[m] = "done" /\ freed[m] = 0 /\ m \notin current[l]
  /\ \A l \in Loop : \A m \in current[l] :
       Home[m] = l /\ post[m] = "done" /\ freed[m] = 0 /\ thread[l] = "handle"
  /\ \A m \in Message :
       IF post[m] = "done"
       THEN freed[m] = 1 \/ m \in Range(list[Home[m]]) \/ m \in current[Home[m]]
       ELSE freed[m] = 0

\* m comes before n in p
Precedes(p, m, n) == \E a, b \in DOMAIN p : p[a] = m /\ p[b] = n /\ a < b

\* a list is in the order of the times and, at equal times, of the posts, and
\* holds no message with a code that has been removed since
Chronological ==
  /\ \A l \in Loop : IsInjective(posted[l])
  /\ \A l \in Loop : \A m \in Range(posted[l]) : Home[m] = l /\ post[m] = "done"
  /\ \A l \in Loop : Range(list[l]) \subseteq Range(posted[l])
  /\ \A l \in Loop : \A i, j \in DOMAIN list[l] : i < j =>
       \/ time[list[l][i]] < time[list[l][j]]
       \/ time[list[l][i]] = time[list[l][j]] /\ Precedes(posted[l], list[l][i], list[l][j])
  /\ \A l \in Loop : ~stop[l] =>
       \A m \in Range(list[l]) : What[m] \notin quiet[l]

\* d is in DestroyLooper
Destroying(d) == destroy[d] \in {"stop", "wait", "asleep", "free", "release"}
Active(d) == destroy[d] = "scan" \/ Destroying(d)

\* a removal that has begun is at a live context, unless it overlapped its end
Removals ==
  /\ removing \in [Loop -> SUBSET Codes]
  /\ overlap \/ \A l \in Loop : removing[l] # {} => context[l] = "live"

\* the loopers that exist, their threads, and what LooperDeinit has come to
Alive ==
  /\ \A i \in DOMAIN Loops : i >= creating => context[Loops[i]] = "none"
  /\ \A l \in Loop : thread[l] = "none" <=> context[l] = "none"
  /\ \A l \in Loop : running[l] <=> thread[l] \in InLoop
  /\ started <=> \E l \in Loop : thread[l] \notin {"none", "start"}
  /\ \A l \in Loop : context[l] \in {"null", "freed"} => started
  /\ creating <= Len(Loops) => destroy["app"] = "idle"
  /\ destroy["app"] = "idle" => \A l \in Loop : context[l] \in {"none", "live"}
  /\ needDestroy => destroy["app"] = "done"
  /\ \A l \in Loop : destroy[l] # "idle" => needDestroy /\ thread[l] = "over"
  /\ \A d \in Destroyer : Destroying(d) => at[d] <= Len(Loops) /\ started
  /\ \A d \in Destroyer : destroy[d] \in {"wait", "asleep", "free"} => stop[Entry(d)]
  /\ \A d \in Destroyer : destroy[d] = "free" => current[Entry(d)] = {}
  /\ overlap \/ \A m \in Message : post[m] \in {"verify", "insert"} => context[Home[m]] = "live"

\* LooperInit has created one looper
OneLooper ==
  \A k, l \in Loop : context[k] # "none" /\ context[l] # "none" => k = l

\* who destroys, unless LooperDeinit came too early
Exclusive ==
  early \/
    /\ destroy["app"] # "idle" => Unstarted = {} \/ OneLooper
    /\ needDestroy => OneLooper
    /\ \A d, e \in Destroyer : Active(d) /\ Active(e) => d = e
    /\ \A d \in Destroyer : Destroying(d) =>
         context[Entry(d)] = IF destroy[d] = "release" THEN "null" ELSE "live"
    /\ \A d \in Destroyer : destroy[d] = "free" => thread[Entry(d)] = "over"
    /\ \A l \in Loop : context[l] = "null" =>
         \E d \in Destroyer : destroy[d] = "release" /\ Entry(d) = l
    /\ \A l \in Loop : context[l] \in {"null", "freed"} => thread[l] = "over"

-----------------------------------------------------------------------------
(* The lists of messages *)

\* A set of numbers that is not empty has a least element.
LEMMA LeastIs ==
  ASSUME NEW I \in SUBSET Nat, I # {}
  PROVE  \E i \in I : \A j \in I : i <= j
<1> DEFINE R == {ss \in Nat \X Nat : ss[1] < ss[2]}
<1>1. IsWellFoundedOn(R, Nat)
  BY Zenon, NatLessThanWellFounded DEF OpToRel
<1>2. \A i, j \in Nat : <<j, i>> \in R <=> j < i
  BY Zenon
<1> HIDE DEF R
<1>3. PICK i \in I : \A j \in I : ~(<<j, i>> \in R)
  BY Zenon, <1>1, WFMin
<1>4. \A j \in I : ~(j < i)
  BY Zenon, <1>2, <1>3
<1>5. \A j \in I : i <= j
  BY <1>4
<1> QED
  BY Zenon, <1>5

\* one entry of the walk of LoopRemoveMessageCustom, and the walk over n of them
Keep(s, gone, i, x) == IF s[i] \in gone THEN x ELSE Append(x, s[i])
Walk(k, s, gone, n) ==
  [i \in 0..n |-> IF i = 0 THEN <<>> ELSE Keep(s, gone, i, k[i - 1])]

\* There is a walk over any number of entries.
LEMMA WalkExists ==
  ASSUME NEW s, NEW gone
  PROVE  \A n \in Nat : \E k : k = Walk(k, s, gone, n)
<1> DEFINE Bad == {n \in Nat : ~\E k : k = Walk(k, s, gone, n)}
<1> SUFFICES ASSUME Bad # {} PROVE FALSE
  BY Zenon
<1>1. PICK n \in Bad : \A j \in Bad : n <= j
  <2>1. Bad \in SUBSET Nat
    BY Zenon
  <2> HIDE DEF Bad
  <2> QED
    BY Zenon, <2>1, LeastIs
<1>2. n \in Nat /\ ~\E k : k = Walk(k, s, gone, n)
  BY Zenon
<1>3. n # 0
  <2>1. [i \in 0..0 |-> <<>>] = Walk([i \in 0..0 |-> <<>>], s, gone, 0)
    BY DEF Walk
  <2> QED
    BY Zenon, <1>2, <2>1
<1>4. n - 1 \in Nat /\ n - 1 \notin Bad
  BY <1>1, <1>2, <1>3
<1>5. PICK k : k = Walk(k, s, gone, n - 1)
  BY Zenon, <1>4
<1> HIDE DEF Bad
<1>6. \A i \in 0..(n - 1) : k[i] = IF i = 0 THEN <<>> ELSE Keep(s, gone, i, k[i - 1])
  BY Zenon, <1>5 DEF Walk
<1> DEFINE e == [i \in 0..n |-> IF i = 0 THEN <<>> ELSE Keep(s, gone, i, k[i - 1])]
<1>7. \A i \in 0..(n - 1) : i \in 0..n
  BY <1>2
<1>8. \A i \in 0..(n - 1) : e[i] = k[i]
  BY Zenon, <1>6, <1>7
<1>9. \A i \in 0..n : i # 0 => i - 1 \in 0..(n - 1)
  BY <1>2
<1>10. \A i \in 0..n : i # 0 => Keep(s, gone, i, k[i - 1]) = Keep(s, gone, i, e[i - 1])
  BY Zenon, <1>8, <1>9
<1>11. e = Walk(e, s, gone, n)
  <2> DEFINE f == Walk(e, s, gone, n)
  <2>1. \A i \in 0..n : e[i] = f[i]
    BY Zenon, <1>10 DEF Walk
  <2>2. f = [i \in 0..n |-> f[i]] /\ e = [i \in 0..n |-> e[i]]
    BY DEF Walk
  <2> HIDE DEF e, f
  <2>3. e = f
    BY Zenon, <2>1, <2>2
  <2> QED
    BY Zenon, <2>3 DEF f
<1> QED
  BY Zenon, <1>2, <1>11

\* The walk as a function of the number of entries it has passed.
LEMMA WithoutWalks ==
  ASSUME NEW s \in Seq(Message), NEW gone
  PROVE  \E k : /\ Without(s, gone) = k[Len(s)]
                /\ k[0] = <<>>
                /\ \A i \in 1..Len(s) : k[i] = Keep(s, gone, i, k[i - 1])
<1> DEFINE k == CHOOSE k : k = Walk(k, s, gone, Len(s))
<1>1. Without(s, gone) = k[Len(s)]
  BY Zenon DEF Without, Walk, Keep
<1>2. Len(s) \in Nat
  OBVIOUS
<1>3. \E j : j = Walk(j, s, gone, Len(s))
  BY Zenon, <1>2, WalkExists
<1>4. k = Walk(k, s, gone, Len(s))
  BY Zenon, <1>3
<1> HIDE DEF k
<1>5. \A i \in 0..Len(s) : k[i] = IF i = 0 THEN <<>> ELSE Keep(s, gone, i, k[i - 1])
  BY Zenon, <1>4 DEF Walk
<1>6. 0 \in 0..Len(s) /\ \A i \in 1..Len(s) : i \in 0..Len(s) /\ i # 0
  OBVIOUS
<1>7. k[0] = <<>> /\ \A i \in 1..Len(s) : k[i] = Keep(s, gone, i, k[i - 1])
  BY Zenon, <1>5, <1>6
<1> QED
  BY Zenon, <1>1, <1>7

\* what the walk has kept of the first n entries: those outside gone, in order
Sifted(r, s, gone, n) ==
  /\ r \in Seq(Message)
  /\ \A a \in 1..n : s[a] \notin gone => \E i \in DOMAIN r : r[i] = s[a]
  /\ \A i \in DOMAIN r : \E a \in 1..n : s[a] = r[i] /\ r[i] \notin gone
  /\ \A i, j \in DOMAIN r : i < j => \E a, b \in 1..n : a < b /\ s[a] = r[i] /\ s[b] = r[j]

\* One more entry.
LEMMA SiftedStep ==
  ASSUME NEW s \in Seq(Message), NEW gone, NEW n \in 1..Len(s), NEW r,
         Sifted(r, s, gone, n - 1)
  PROVE  Sifted(Keep(s, gone, n, r), s, gone, n)
<1>1. CASE s[n] \in gone
  BY <1>1 DEF Sifted, Keep
<1>2. CASE s[n] \notin gone
  <2> DEFINE q == Append(r, s[n])
  <2>1. Keep(s, gone, n, r) = q
    BY Zenon, <1>2 DEF Keep
  <2>2. r \in Seq(Message) /\ q \in Seq(Message) /\ DOMAIN r = 1..Len(r)
    BY DEF Sifted
  <2>3. DOMAIN q = 1..(Len(r) + 1) /\ q[Len(r) + 1] = s[n]
        /\ \A i \in DOMAIN r : i \in DOMAIN q /\ q[i] = r[i]
    BY <2>2
  <2> HIDE DEF q
  <2>4. \A i \in DOMAIN q : i \in DOMAIN r \/ i = Len(r) + 1
    BY <2>2, <2>3
  <2>5. \A a \in 1..n : s[a] \notin gone => \E i \in DOMAIN q : q[i] = s[a]
    <3> SUFFICES ASSUME NEW a \in 1..n, s[a] \notin gone
                 PROVE  \E i \in DOMAIN q : q[i] = s[a]
      BY Zenon
    <3>1. CASE a = n
      <4>1. Len(r) + 1 \in DOMAIN q
        BY <2>2, <2>3
      <4> QED
        BY Zenon, <2>3, <3>1, <4>1
    <3>2. CASE a \in 1..(n - 1)
      <4>1. PICK i \in DOMAIN r : r[i] = s[a]
        BY Zenon, <3>2 DEF Sifted
      <4> QED
        BY Zenon, <2>3, <4>1
    <3> QED
      BY <3>1, <3>2
  <2>6. \A i \in DOMAIN q : \E a \in 1..n : s[a] = q[i] /\ q[i] \notin gone
    <3> SUFFICES ASSUME NEW i \in DOMAIN q
                 PROVE  \E a \in 1..n : s[a] = q[i] /\ q[i] \notin gone
      BY Zenon
    <3>1. CASE i = Len(r) + 1
      <4>1. n \in 1..n
        OBVIOUS
      <4> QED
        BY Zenon, <1>2, <2>3, <3>1, <4>1
    <3>2. CASE i \in DOMAIN r
      <4>1. PICK a \in 1..(n - 1) : s[a] = r[i] /\ r[i] \notin gone
        BY Zenon, <3>2 DEF Sifted
      <4>2. a \in 1..n
        OBVIOUS
      <4> QED
        BY Zenon, <2>3, <3>2, <4>1, <4>2
    <3> QED
      BY Zenon, <2>4, <3>1, <3>2
  <2>7. \A i, j \in DOMAIN q : i < j => \E a, b \in 1..n : a < b /\ s[a] = q[i] /\ s[b] = q[j]
    <3> SUFFICES ASSUME NEW i \in DOMAIN q, NEW j \in DOMAIN q, i < j
                 PROVE  \E a, b \in 1..n : a < b /\ s[a] = q[i] /\ s[b] = q[j]
      BY Zenon
    <3>1. i \in DOMAIN r
      BY <2>2, <2>3
    <3>2. CASE j \in DOMAIN r
      <4>1. PICK a, b \in 1..(n - 1) : a < b /\ s[a] = r[i] /\ s[b] = r[j]
        BY Zenon, <3>1, <3>2 DEF Sifted
      <4>2. a \in 1..n /\ b \in 1..n
        OBVIOUS
      <4> QED
        BY Zenon, <2>3, <3>1, <3>2, <4>1, <4>2
    <3>3. CASE j = Len(r) + 1
      <4>1. PICK a \in 1..(n - 1) : s[a] = r[i]
        BY Zenon, <3>1 DEF Sifted
      <4>2. a \in 1..n /\ n \in 1..n /\ a < n
        OBVIOUS
      <4> QED
        BY Zenon, <2>3, <3>1, <3>3, <4>1, <4>2
    <3> QED
      BY Zenon, <2>4, <3>2, <3>3
  <2>8. Sifted(q, s, gone, n)
    BY Zenon, <2>2, <2>5, <2>6, <2>7 DEF Sifted
  <2> QED
    BY Zenon, <2>1, <2>8
<1> QED
  BY Zenon, <1>1, <1>2

\* A removal keeps the messages outside gone, and their order.
LEMMA WithoutIs ==
  ASSUME NEW s \in Seq(Message), NEW gone
  PROVE  Sifted(Without(s, gone), s, gone, Len(s))
<1>1. PICK k : /\ Without(s, gone) = k[Len(s)]
               /\ k[0] = <<>>
               /\ \A i \in 1..Len(s) : k[i] = Keep(s, gone, i, k[i - 1])
  BY Zenon, WithoutWalks
<1> DEFINE Bad == {n \in 0..Len(s) : ~Sifted(k[n], s, gone, n)}
<1>2. Bad = {}
  <2> SUFFICES ASSUME Bad # {} PROVE FALSE
    BY Zenon
  <2>1. PICK n \in Bad : \A j \in Bad : n <= j
    <3>1. Bad \in SUBSET Nat
      OBVIOUS
    <3> HIDE DEF Bad
    <3> QED
      BY Zenon, <3>1, LeastIs
  <2>2. n \in 0..Len(s) /\ ~Sifted(k[n], s, gone, n)
    BY Zenon
  <2>3. n # 0
    <3>1. Sifted(<<>>, s, gone, 0)
      BY DEF Sifted
    <3> QED
      BY Zenon, <1>1, <2>2, <3>1
  <2>4. n - 1 \in 0..Len(s) /\ n - 1 \notin Bad /\ n \in 1..Len(s)
    BY <2>1, <2>2, <2>3
  <2>5. Sifted(k[n - 1], s, gone, n - 1)
    BY Zenon, <2>4
  <2>6. Sifted(Keep(s, gone, n, k[n - 1]), s, gone, n)
    BY Zenon, <2>4, <2>5, SiftedStep
  <2> QED
    BY Zenon, <1>1, <2>2, <2>4, <2>6
<1>3. Len(s) \in 0..Len(s)
  OBVIOUS
<1> QED
  BY Zenon, <1>1, <1>2, <1>3

\* r is s with m at position k
Inserted(r, s, m, k) ==
  /\ k \in 1..(Len(s) + 1)
  /\ r \in Seq(Message) /\ Len(r) = Len(s) + 1
  /\ r[k] = m
  /\ \A i \in 1..(k - 1) : r[i] = s[i]
  /\ \A i \in (k + 1)..(Len(s) + 1) : r[i] = s[i - 1]

\* A message is put before the first of the later ones.
LEMMA InsertIs ==
  ASSUME NEW s \in Seq(Message), NEW m \in Message, NEW later \in SUBSET DOMAIN s
  PROVE  \E k : /\ Inserted(InsertAt(s, later, m), s, m, k)
                /\ \A i \in 1..(k - 1) : i \notin later
                /\ k \in later \/ k = Len(s) + 1
<1> DEFINE k == IF later = {} THEN Len(s) + 1 ELSE Min(later)
           r == [i \in 1..(Len(s) + 1) |-> IF i < k THEN s[i] ELSE IF i = k THEN m ELSE s[i - 1]]
<1>1. InsertAt(s, later, m) = r
  BY Zenon DEF InsertAt
<1>2. /\ k \in 1..(Len(s) + 1)
      /\ \A i \in 1..(k - 1) : i \notin later
      /\ k \in later \/ k = Len(s) + 1
  <2>1. CASE later = {}
    BY <2>1
  <2>2. CASE later # {}
    <3>1. later \in SUBSET Nat
      OBVIOUS
    <3>2. \E i \in later : \A j \in later : i <= j
      BY Zenon, <2>2, <3>1, LeastIs
    <3>3. Min(later) \in later /\ \A j \in later : Min(later) <= j
      BY Zenon, <3>2 DEF Min
    <3> QED
      BY <2>2, <3>1, <3>3
  <2> QED
    BY Zenon, <2>1, <2>2
<1> HIDE DEF k
<1>3. r \in Seq(Message) /\ Len(r) = Len(s) + 1
  <2>1. r \in [1..(Len(s) + 1) -> Message]
    BY <1>2
  <2> QED
    BY <2>1
<1>4. r[k] = m /\ (\A i \in 1..(k - 1) : r[i] = s[i])
        /\ \A i \in (k + 1)..(Len(s) + 1) : r[i] = s[i - 1]
  BY <1>2
<1> HIDE DEF r
<1>5. Inserted(r, s, m, k)
  BY Zenon, <1>2, <1>3, <1>4 DEF Inserted
<1> QED
  BY Zenon, <1>1, <1>2, <1>5

\* The messages of a list after an insertion, and where they were.
LEMMA InsertedIs ==
  ASSUME NEW s \in Seq(Message), NEW m \in Message, NEW r, NEW k,
         Inserted(r, s, m, k)
  PROVE  /\ Range(r) = Range(s) \cup {m}
         /\ IsInjective(s) /\ m \notin Range(s) => IsInjective(r)
<1> DEFINE old(i) == IF i < k THEN i ELSE i - 1
<1>1. k \in 1..(Len(s) + 1) /\ DOMAIN r = 1..(Len(s) + 1) /\ DOMAIN s = 1..Len(s) /\ r[k] = m
  BY DEF Inserted
<1>2. \A i \in DOMAIN r : i # k => old(i) \in DOMAIN s /\ r[i] = s[old(i)]
  BY <1>1 DEF Inserted
<1>3. \A i, j \in DOMAIN r : i # k /\ j # k /\ old(i) = old(j) => i = j
  BY <1>1
<1>4. \A a \in DOMAIN s : \E i \in DOMAIN r : i # k /\ old(i) = a
  <2> SUFFICES ASSUME NEW a \in DOMAIN s PROVE \E i \in DOMAIN r : i # k /\ old(i) = a
    BY Zenon
  <2>1. CASE a < k
    BY <1>1, <2>1
  <2>2. CASE a >= k
    <3>1. a + 1 \in DOMAIN r /\ a + 1 # k /\ old(a + 1) = a
      BY <1>1, <2>2
    <3> QED
      BY Zenon, <3>1
  <2> QED
    BY <1>1, <2>1, <2>2
<1> HIDE DEF old
<1>5. k \in DOMAIN r
  BY Zenon, <1>1
<1>6. Range(r) = Range(s) \cup {m}
  <2>1. \A x \in Range(r) : x \in Range(s) \cup {m}
    BY Zenon, <1>1, <1>2 DEF Range
  <2>2. \A x \in Range(s) : x \in Range(r)
    <3> SUFFICES ASSUME NEW a \in DOMAIN s PROVE s[a] \in Range(r)
      BY Zenon DEF Range
    <3>1. PICK i \in DOMAIN r : i # k /\ old(i) = a
      BY Zenon, <1>4
    <3>2. r[i] = s[a]
      BY Zenon, <1>2, <3>1
    <3> QED
      BY Zenon, <3>2 DEF Range
  <2>3. m \in Range(r)
    BY Zenon, <1>1, <1>5 DEF Range
  <2> QED
    BY Zenon, <2>1, <2>2, <2>3
<1>7. ASSUME IsInjective(s), m \notin Range(s) PROVE IsInjective(r)
  <2> SUFFICES ASSUME NEW i \in DOMAIN r, NEW j \in DOMAIN r, r[i] = r[j] PROVE i = j
    BY Zenon DEF IsInjective
  <2>1. \A i1 \in DOMAIN r : i1 # k => r[i1] # m
    BY Zenon, <1>2, <1>7 DEF Range
  <2>2. CASE i = k \/ j = k
    BY Zenon, <1>1, <2>1, <2>2
  <2>3. CASE i # k /\ j # k
    BY Zenon, <1>2, <1>3, <1>7, <2>3 DEF IsInjective
  <2> QED
    BY Zenon, <2>2, <2>3
<1> QED
  BY Zenon, <1>6, <1>7

-----------------------------------------------------------------------------
(* The messages *)

Messages == MessagesTyped /\ Owned /\ Chronological
messageVars == <<list, current, post, time, freed, posted, quiet>>

\* The constants, and the range of a sequence.
LEMMA HomeIs == \A m \in Message : Home[m] \in Loop
BY Zenon, LooperConstants

LEMMA CodeIs == \A l \in Loop : \A w \in Code(l) : w \in Codes
BY Zenon DEF Code, Codes

LEMMA RangeIs ==
  ASSUME NEW s \in Seq(Message)
  PROVE  /\ Range(s) \subseteq Message
         /\ \A m \in Range(s) : \E i \in DOMAIN s : s[i] = m
         /\ \A i \in DOMAIN s : s[i] \in Range(s)
BY DEF Range

\* A step that leaves the messages alone, and no handler of a message.
LEMMA MessagesFrame ==
  ASSUME Messages, UNCHANGED messageVars,
         now' \in 0..MaxTime,
         stop' \in [Loop -> BOOLEAN], running' \in [Loop -> BOOLEAN],
         thread' \in [Loop -> {"none", "start", "over"} \cup InLoop],
         \A l \in Loop : thread[l] = "handle" => thread'[l] = "handle",
         \A l \in Loop : stop[l] => stop'[l]
  PROVE  Messages'
<1>1. MessagesTyped'
  BY Zenon DEF Messages, MessagesTyped, messageVars
<1>2. Owned'
  BY DEF Messages, Owned, messageVars
<1>3. Chronological'
  <2>1. \A l \in Loop : ~stop'[l] => ~stop[l]
    BY Zenon DEF Messages, MessagesTyped
  <2>2. \A l \in Loop : ~stop'[l] => \A m \in Range(list[l]) : What[m] \notin quiet[l]
    BY Zenon, <2>1 DEF Messages, Chronological
  <2> QED
    BY <2>2 DEF Messages, Chronological, messageVars
<1> QED
  BY Zenon, <1>1, <1>2, <1>3 DEF Messages

\* The steps of a thread between two messages.
LEMMA ThreadKeepsMessages ==
  ASSUME Messages, NEW l \in Loop,
         LoopStart(l) \/ LoopBreak(l) \/ LoopWait(l) \/ LoopTimeout(l)
           \/ LoopSpuriousWakeup(l) \/ LoopExit(l)
  PROVE  Messages'
<1> USE DEF messageVars, globals, threads, posts, deinit
<1>1. UNCHANGED <<messageVars, now, stop>>
  BY Zenon DEF LoopStart, LoopBreak, LoopWait, LoopTimeout, LoopSpuriousWakeup, LoopExit
<1>2. thread[l] # "handle" /\ \E p \in {"loop", "wait", "sleep", "exit", "over"} :
        thread' = [thread EXCEPT ![l] = p]
  BY Zenon DEF LoopStart, LoopBreak, LoopWait, LoopTimeout, LoopSpuriousWakeup, LoopExit, Awake
<1>3. running' \in [Loop -> BOOLEAN]
  BY Zenon DEF Messages, MessagesTyped, LoopStart, LoopBreak, LoopWait, LoopTimeout,
         LoopSpuriousWakeup, LoopExit
<1>4. thread' \in [Loop -> {"none", "start", "over"} \cup InLoop]
  BY Zenon, <1>2 DEF Messages, MessagesTyped, InLoop
<1>5. \A k \in Loop : thread[k] = "handle" => thread'[k] = "handle"
  BY Zenon, <1>2 DEF Messages, MessagesTyped
<1> QED
  BY Zenon, <1>1, <1>3, <1>4, <1>5, MessagesFrame DEF Messages, MessagesTyped

\* A broadcast disturbs no handler.
LEMMA BroadcastIs ==
  ASSUME Messages, NEW l \in Loop, Broadcast(l)
  PROVE  /\ thread' \in [Loop -> {"none", "start", "over"} \cup InLoop]
         /\ \A k \in Loop : thread[k] = "handle" <=> thread'[k] = "handle"
         /\ \A k \in Loop : thread[k] \in InLoop <=> thread'[k] \in InLoop
         /\ \A k \in Loop : thread[k] \notin InLoop => thread'[k] = thread[k]
BY Zenon DEF Messages, MessagesTyped, Broadcast, Awake, InLoop

\* The entry of a destroyer and the one LooperInit creates are loopers.
LEMMA EntryIs ==
  ASSUME LoopersTyped, Alive
  PROVE  /\ \A i \in 1..Len(Loops) : Loops[i] \in Loop
         /\ \A l \in Loop : \E i \in 1..Len(Loops) : Loops[i] = l
         /\ \A i, j \in 1..Len(Loops) : Loops[i] = Loops[j] => i = j
         /\ creating <= Len(Loops) =>
              creating \in 1..Len(Loops) /\ Loops[creating] \in Loop /\ context[Loops[creating]] = "none"
         /\ \A d \in Destroyer : at[d] <= Len(Loops) => at[d] \in 1..Len(Loops) /\ Entry(d) \in Loop
         /\ \A d \in Destroyer : Destroying(d) => at[d] \in 1..Len(Loops) /\ Entry(d) \in Loop
<1>1. DOMAIN Loops = 1..Len(Loops) /\ Len(Loops) \in Nat
  BY LooperConstants
<1>2. \A i \in 1..Len(Loops) : Loops[i] \in Loop
  BY LooperConstants
<1>3. \A l \in Loop : \E i \in 1..Len(Loops) : Loops[i] = l
  BY Zenon, <1>1 DEF Loop, Range
<1>4. \A i, j \in 1..Len(Loops) : Loops[i] = Loops[j] => i = j
  BY Zenon, <1>1, LooperConstants
<1>5. creating <= Len(Loops) => creating \in 1..Len(Loops) /\ creating >= creating
  BY <1>1 DEF LoopersTyped
<1>6. creating <= Len(Loops) => context[Loops[creating]] = "none"
  BY Zenon, <1>1, <1>5 DEF Alive
<1>7. \A d \in Destroyer : at[d] <= Len(Loops) => at[d] \in 1..Len(Loops)
  BY <1>1 DEF LoopersTyped
<1>8. \A d \in Destroyer : Destroying(d) => at[d] <= Len(Loops)
  BY Zenon DEF Alive
<1> QED
  BY Zenon, <1>2, <1>3, <1>4, <1>5, <1>6, <1>7, <1>8 DEF Entry

\* The steps of LooperInit, LooperDeinit and the clock, and the start of a
\* removal.
LEMMA OthersKeepMessages ==
  ASSUME Messages, LoopersTyped, Alive,
         CreateNewLooper \/ CreateFails \/ LooperDeinit \/ Tick
           \/ (\E l \in Loop : \E w \in Codes : RemoveBegin(l, w))
           \/ \E d \in Destroyer : DeinitScan(d) \/ DestroyStop(d) \/ DestroyWait(d)
                                     \/ DestroyRelease(d)
  PROVE  Messages'
<1> USE DEF messageVars, globals, threads, posts, deinit
<1>1. CASE CreateNewLooper
  <2>1. Loops[creating] \in Loop /\ thread[Loops[creating]] = "none"
    BY Zenon, <1>1, EntryIs DEF CreateNewLooper, Alive
  <2> QED
    BY Zenon, <1>1, <2>1, MessagesFrame DEF CreateNewLooper, Messages, MessagesTyped
<1>2. CASE CreateFails
  BY Zenon, <1>2, MessagesFrame DEF CreateFails, Messages, MessagesTyped
<1>3. CASE LooperDeinit
  BY Zenon, <1>3, MessagesFrame DEF LooperDeinit, Messages, MessagesTyped
<1>4. CASE Tick
  <2>1. now' \in 0..MaxTime
    BY <1>4, LooperConstants DEF Tick, Messages, MessagesTyped
  <2> QED
    BY Zenon, <1>4, <2>1, MessagesFrame DEF Tick, Messages, MessagesTyped
<1>5. ASSUME NEW d \in Destroyer, DeinitScan(d) PROVE Messages'
  BY Zenon, <1>5, MessagesFrame DEF DeinitScan, Messages, MessagesTyped
<1>6. ASSUME NEW d \in Destroyer, DestroyStop(d) PROVE Messages'
  <2>1. CASE context[Entry(d)] = "null"
    BY Zenon, <1>6, <2>1, MessagesFrame DEF DestroyStop, Messages, MessagesTyped
  <2>2. CASE context[Entry(d)] = "live"
    <3>1. Entry(d) \in Loop
      BY Zenon, <1>6, EntryIs DEF DestroyStop, Destroying
    <3> QED
      BY Zenon, <1>6, <2>2, <3>1, BroadcastIs, MessagesFrame
         DEF DestroyStop, Messages, MessagesTyped
  <2> QED
    BY Zenon, <1>6, <2>1, <2>2 DEF DestroyStop
<1>7. ASSUME NEW d \in Destroyer, DestroyWait(d) PROVE Messages'
  BY Zenon, <1>7, MessagesFrame DEF DestroyWait, Messages, MessagesTyped
<1>8. ASSUME NEW d \in Destroyer, DestroyRelease(d) PROVE Messages'
  BY Zenon, <1>8, MessagesFrame DEF DestroyRelease, Messages, MessagesTyped
<1>9. ASSUME NEW l \in Loop, NEW w \in Codes, RemoveBegin(l, w) PROVE Messages'
  BY Zenon, <1>9, MessagesFrame DEF RemoveBegin, Messages, MessagesTyped
<1> QED
  BY Zenon, <1>1, <1>2, <1>3, <1>4, <1>5, <1>6, <1>7, <1>8, <1>9

\* The head of a list and its tail.
LEMMA HeadIs ==
  ASSUME NEW s \in Seq(Message), s # <<>>, IsInjective(s)
  PROVE  /\ Head(s) \in Range(s) /\ Head(s) = s[1] /\ 1 \in DOMAIN s
         /\ Tail(s) \in Seq(Message)
         /\ IsInjective(Tail(s))
         /\ Range(Tail(s)) = Range(s) \ {Head(s)}
         /\ \A i \in DOMAIN Tail(s) : i + 1 \in DOMAIN s /\ Tail(s)[i] = s[i + 1]
<1>1. Len(s) \in Nat /\ Len(s) > 0 /\ DOMAIN s = 1..Len(s) /\ Head(s) = s[1] /\ 1 \in DOMAIN s
  OBVIOUS
<1>2. Tail(s) \in Seq(Message) /\ DOMAIN Tail(s) = 1..(Len(s) - 1)
      /\ \A i \in 1..(Len(s) - 1) : Tail(s)[i] = s[i + 1]
  OBVIOUS
<1> DEFINE t == Tail(s)
<1> HIDE DEF t
<1>3. \A i \in DOMAIN t : i + 1 \in DOMAIN s /\ t[i] = s[i + 1]
  BY <1>1, <1>2 DEF t
<1>4. IsInjective(t)
  <2> SUFFICES ASSUME NEW i \in DOMAIN t, NEW j \in DOMAIN t, t[i] = t[j] PROVE i = j
    BY Zenon DEF IsInjective
  <2>1. i + 1 = j + 1
    BY Zenon, <1>3 DEF IsInjective
  <2> QED
    BY <1>2, <2>1 DEF t
<1>5. Range(t) = Range(s) \ {Head(s)}
  <2>1. \A x \in Range(t) : x \in Range(s) \ {Head(s)}
    <3> SUFFICES ASSUME NEW i \in DOMAIN t PROVE t[i] \in Range(s) \ {Head(s)}
      BY Zenon DEF Range
    <3>1. i + 1 # 1
      BY <1>2 DEF t
    <3>2. t[i] # Head(s)
      BY Zenon, <1>1, <1>3, <3>1 DEF IsInjective
    <3> QED
      BY Zenon, <1>3, <3>2 DEF Range
  <2>2. \A x \in Range(s) \ {Head(s)} : x \in Range(t)
    <3> SUFFICES ASSUME NEW i \in DOMAIN s, s[i] # Head(s) PROVE s[i] \in Range(t)
      BY Zenon DEF Range
    <3>1. i - 1 \in DOMAIN t /\ (i - 1) + 1 = i
      BY <1>1, <1>2 DEF t
    <3> QED
      BY Zenon, <1>3, <3>1 DEF Range
  <2> QED
    BY Zenon, <2>1, <2>2
<1> QED
  BY Zenon, <1>1, <1>2, <1>3, <1>4, <1>5 DEF t, Range

\* LoopTask takes a message.
LEMMA TakeKeepsMessages ==
  ASSUME Messages, NEW l \in Loop, LoopTake(l)
  PROVE  Messages'
<1> USE DEF messageVars, globals, threads, posts, deinit
<1> DEFINE s == list[l]
           h == Head(list[l])
<1>1. s \in Seq(Message) /\ s # <<>> /\ IsInjective(s)
  BY ZenonT(30) DEF Messages, MessagesTyped, Owned, LoopTake
<1>2. /\ h \in Range(s) /\ h = s[1] /\ h \in Message /\ Home[h] = l
      /\ Tail(s) \in Seq(Message) /\ IsInjective(Tail(s))
      /\ Range(Tail(s)) = Range(s) \ {h}
      /\ \A i \in DOMAIN Tail(s) : i + 1 \in DOMAIN s /\ Tail(s)[i] = s[i + 1]
  BY <1>1, HeadIs, RangeIs DEF Messages, Owned
<1>3. /\ list' = [list EXCEPT ![l] = Tail(s)]
      /\ current' = [current EXCEPT ![l] = {h}]
      /\ thread' = [thread EXCEPT ![l] = "handle"]
      /\ current[l] = {}
      /\ UNCHANGED <<now, stop, running, post, time, freed, posted, quiet>>
  BY SMTT(20) DEF LoopTake, Messages, MessagesTyped, Owned
<1> HIDE DEF s, h
<1>4. MessagesTyped'
  BY Zenon, <1>2, <1>3 DEF Messages, MessagesTyped, InLoop
<1>5. /\ \A k \in Loop : k # l => list'[k] = list[k] /\ current'[k] = current[k] /\ thread'[k] = thread[k]
      /\ list'[l] = Tail(s) /\ current'[l] = {h} /\ thread'[l] = "handle"
  BY Zenon, <1>3 DEF Messages, MessagesTyped
<1>6. Owned'
  <2>1. ASSUME NEW k \in Loop PROVE IsInjective(list'[k])
    <3>1. CASE k = l
      BY Zenon, <1>2, <1>5, <3>1
    <3>2. CASE k # l
      BY Zenon, <1>5, <3>2 DEF Messages, Owned
    <3> QED
      BY Zenon, <3>1, <3>2
  <2>2. \A k \in Loop : \A m \in Range(list'[k]) :
          Home[m] = k /\ post[m] = "done" /\ freed[m] = 0 /\ m \notin current'[k]
    BY <1>2, <1>5 DEF Messages, Owned, s
  <2>3. \A k \in Loop : \A m \in current'[k] :
          Home[m] = k /\ post[m] = "done" /\ freed[m] = 0 /\ thread'[k] = "handle"
    BY <1>2, <1>5 DEF Messages, Owned, s
  <2>4. ASSUME NEW m \in Message, post[m] = "done", freed[m] # 1
        PROVE  m \in Range(list'[Home[m]]) \/ m \in current'[Home[m]]
    BY <1>2, <1>3, <1>5, <2>4, HomeIs DEF Messages, Owned, s
  <2>5. \A m \in Message : post[m] # "done" => freed[m] = 0
    BY Zenon DEF Messages, Owned
  <2> QED
    BY <1>3, <2>1, <2>2, <2>3, <2>4, <2>5 DEF Owned
<1>7. Chronological'
  <2>1. \A k \in Loop : Range(list'[k]) \subseteq Range(list[k])
    BY Zenon, <1>2, <1>5 DEF s
  <2>2. ASSUME NEW k \in Loop, NEW i \in DOMAIN list'[k], NEW j \in DOMAIN list'[k], i < j
        PROVE  \/ time[list'[k][i]] < time[list'[k][j]]
               \/ time[list'[k][i]] = time[list'[k][j]]
                  /\ Precedes(posted[k], list'[k][i], list'[k][j])
    <3>1. CASE k # l
      BY <1>5, <2>2, <3>1 DEF Messages, Chronological
    <3>2. CASE k = l
      <4>1. i \in Nat /\ j \in Nat /\ i + 1 < j + 1
        BY <1>2, <1>5, <2>2, <3>2
      <4>2. i + 1 \in DOMAIN s /\ j + 1 \in DOMAIN s /\ list'[k][i] = s[i + 1] /\ list'[k][j] = s[j + 1]
        BY Zenon, <1>2, <1>5, <2>2, <3>2
      <4> QED
        BY <3>2, <4>1, <4>2 DEF Messages, Chronological, s
    <3> QED
      BY Zenon, <3>1, <3>2
  <2>3. UNCHANGED <<posted, post, time, quiet, stop>>
    BY Zenon, <1>3
  <2> QED
    BY ZenonT(30), <2>1, <2>2, <2>3 DEF Messages, Chronological
<1> QED
  BY Zenon, <1>4, <1>6, <1>7 DEF Messages

\* The handler returns.
LEMMA HandledKeepsMessages ==
  ASSUME Messages, NEW l \in Loop, LoopHandled(l)
  PROVE  Messages'
<1> USE DEF messageVars, globals, threads, posts, deinit
<1>1. /\ current' = [current EXCEPT ![l] = {}]
      /\ thread' = [thread EXCEPT ![l] = "loop"]
      /\ freed' = [m \in Message |-> IF m \in current[l] THEN freed[m] + 1 ELSE freed[m]]
      /\ UNCHANGED <<now, stop, running, list, post, time, posted, quiet>>
  BY Zenon DEF LoopHandled, Free
<1>2. /\ \A k \in Loop : k # l => current'[k] = current[k] /\ thread'[k] = thread[k]
      /\ current'[l] = {}
  BY Zenon, <1>1 DEF Messages, MessagesTyped
<1>3. \A m \in Message : freed'[m] = IF m \in current[l] THEN 1 ELSE freed[m]
  BY <1>1 DEF Messages, MessagesTyped, Owned
<1>4. MessagesTyped'
  BY Zenon, <1>1, <1>3 DEF Messages, MessagesTyped, InLoop
<1>5. Owned'
  <2>1. \A k \in Loop : \A m \in Range(list[k]) :
          Home[m] = k /\ post[m] = "done" /\ freed'[m] = 0 /\ m \notin current'[k]
    <3> SUFFICES ASSUME NEW k \in Loop, NEW m \in Range(list[k])
                 PROVE  Home[m] = k /\ post[m] = "done" /\ freed'[m] = 0 /\ m \notin current'[k]
      BY Zenon
    <3>1. m \in Message
      BY Zenon, RangeIs DEF Messages, MessagesTyped
    <3>2. Home[m] = k /\ post[m] = "done" /\ freed[m] = 0 /\ m \notin current[k]
      BY Zenon DEF Messages, Owned
    <3>3. m \notin current[l]
      BY <3>2 DEF Messages, Owned
    <3> QED
      BY Zenon, <1>2, <1>3, <3>1, <3>2, <3>3
  <2>2. \A k \in Loop : \A m \in current'[k] :
          Home[m] = k /\ post[m] = "done" /\ freed'[m] = 0 /\ thread'[k] = "handle"
    <3> SUFFICES ASSUME NEW k \in Loop, NEW m \in current'[k]
                 PROVE  Home[m] = k /\ post[m] = "done" /\ freed'[m] = 0 /\ thread'[k] = "handle"
      BY Zenon
    <3>1. k # l /\ m \in current[k] /\ m \in Message
      BY Zenon, <1>2 DEF Messages, MessagesTyped
    <3>2. m \notin current[l]
      BY <3>1 DEF Messages, Owned
    <3> QED
      BY <1>2, <1>3, <3>1, <3>2 DEF Messages, Owned
  <2>3. ASSUME NEW m \in Message, post[m] = "done", freed'[m] # 1
        PROVE  m \in Range(list[Home[m]]) \/ m \in current'[Home[m]]
    BY <1>2, <1>3, <2>3, HomeIs DEF Messages, Owned
  <2>4. \A m \in Message : post[m] # "done" => freed'[m] = 0
    BY <1>3 DEF Messages, Owned
  <2> QED
    BY <1>1, <2>1, <2>2, <2>3, <2>4 DEF Messages, Owned
<1>6. Chronological'
  BY <1>1 DEF Messages, Chronological
<1> QED
  BY Zenon, <1>4, <1>5, <1>6 DEF Messages

\* A message gets its time.
LEMMA PostKeepsMessages ==
  ASSUME Messages, NEW m \in Message, PostMessage(m)
  PROVE  Messages'
<1> USE DEF messageVars, globals, threads, posts, deinit
<1>1. PICK t \in Due : time' = [time EXCEPT ![m] = t]
  <2>1. PICK t \in Delay : now + t <= MaxTime /\ time' = [time EXCEPT ![m] = now + t]
    BY Zenon DEF PostMessage, TimeOf
  <2>2. now + t \in Due
    BY SMTT(20), <2>1, LooperConstants DEF Due, Messages, MessagesTyped
  <2> QED
    BY Zenon, <2>1, <2>2
<1>2. /\ post[m] = "none" /\ post' = [post EXCEPT ![m] = "verify"]
      /\ UNCHANGED <<now, stop, running, list, current, thread, freed, posted, quiet>>
  BY Zenon DEF PostMessage
<1>3. MessagesTyped'
  BY Zenon, <1>1, <1>2 DEF Messages, MessagesTyped
<1>4. \A n \in Message : n # m => post'[n] = post[n] /\ time'[n] = time[n]
  BY Zenon, <1>1, <1>2 DEF Messages, MessagesTyped
<1>5. post'[m] = "verify"
  BY Zenon, <1>2 DEF Messages, MessagesTyped
<1>6. Owned'
  <2>1. \A l \in Loop : \A n \in Range(list[l]) : n \in Message /\ n # m
    BY <1>2, RangeIs DEF Messages, MessagesTyped, Owned
  <2>2. \A l \in Loop : \A n \in current[l] : n \in Message /\ n # m
    BY <1>2 DEF Messages, MessagesTyped, Owned
  <2>3. \A n \in Message :
          IF post'[n] = "done"
          THEN freed[n] = 1 \/ n \in Range(list[Home[n]]) \/ n \in current[Home[n]]
          ELSE freed[n] = 0
    BY <1>2, <1>4, <1>5 DEF Messages, Owned
  <2>4. ASSUME NEW l \in Loop, NEW n \in Range(list'[l])
        PROVE  Home[n] = l /\ post'[n] = "done" /\ freed'[n] = 0 /\ n \notin current'[l]
    <3>1. Home[n] = l /\ post[n] = "done" /\ freed[n] = 0 /\ n \notin current[l]
      BY Zenon, <1>2 DEF Messages, Owned
    <3> QED
      BY Zenon, <1>2, <1>4, <2>1, <3>1
  <2>5. ASSUME NEW l \in Loop, NEW n \in current'[l]
        PROVE  Home[n] = l /\ post'[n] = "done" /\ freed'[n] = 0 /\ thread'[l] = "handle"
    <3>1. Home[n] = l /\ post[n] = "done" /\ freed[n] = 0 /\ thread[l] = "handle"
      BY Zenon, <1>2 DEF Messages, Owned
    <3> QED
      BY Zenon, <1>2, <1>4, <2>2, <3>1
  <2>6. \A l \in Loop : IsInjective(list'[l])
    BY Zenon, <1>2 DEF Messages, Owned
  <2>7. \A n \in Message :
          IF post'[n] = "done"
          THEN freed'[n] = 1 \/ n \in Range(list'[Home[n]]) \/ n \in current'[Home[n]]
          ELSE freed'[n] = 0
    BY Zenon, <1>2, <2>3
  <2> QED
    BY Zenon, <2>4, <2>5, <2>6, <2>7 DEF Owned
<1>7. Chronological'
  <2>1. \A l \in Loop : \A n \in Range(posted[l]) : n \in Message /\ n # m
    BY Zenon, <1>2, RangeIs DEF Messages, MessagesTyped, Chronological
  <2>2. \A l \in Loop : \A i \in DOMAIN list[l] : list[l][i] \in Message /\ list[l][i] # m
    BY SMTT(20), <2>1, RangeIs DEF Messages, MessagesTyped, Chronological
  <2>3. \A l \in Loop : \A i \in DOMAIN list[l] : time'[list[l][i]] = time[list[l][i]]
    BY Zenon, <1>4, <2>2
  <2>4. \A l \in Loop : \A n \in Range(posted[l]) : post'[n] = "done"
    BY <1>4, <2>1 DEF Messages, Chronological
  <2> QED
    BY SMTT(20), <1>2, <2>3, <2>4 DEF Messages, Chronological
<1> QED
  BY Zenon, <1>3, <1>6, <1>7 DEF Messages

\* A post ends here, with the message freed: no list or handler has it.
LEMMA FreeKeepsMessages ==
  ASSUME Messages, NEW m \in Message, post[m] # "done",
         post' = [post EXCEPT ![m] = "done"],
         freed' = [freed EXCEPT ![m] = @ + 1],
         UNCHANGED <<now, stop, running, list, current, thread, time, posted, quiet>>
  PROVE  Messages'
<1>1. freed[m] = 0
  BY Zenon DEF Messages, Owned
<1>2. /\ \A n \in Message : n # m => post'[n] = post[n] /\ freed'[n] = freed[n]
      /\ post'[m] = "done" /\ freed'[m] = 1
  BY <1>1 DEF Messages, MessagesTyped
<1>3. MessagesTyped'
  BY <1>1 DEF Messages, MessagesTyped
<1>4. Owned'
  <2>1. \A l \in Loop : \A n \in Range(list[l]) : n \in Message /\ n # m
    BY RangeIs DEF Messages, MessagesTyped, Owned
  <2>2. \A l \in Loop : \A n \in current[l] : n \in Message /\ n # m
    BY DEF Messages, MessagesTyped, Owned
  <2>3. \A n \in Message :
          IF post'[n] = "done"
          THEN freed'[n] = 1 \/ n \in Range(list[Home[n]]) \/ n \in current[Home[n]]
          ELSE freed'[n] = 0
    BY SMTT(20), <1>2 DEF Messages, Owned
  <2> QED
    BY SMTT(20), <1>2, <2>1, <2>2, <2>3 DEF Messages, Owned
<1>5. Chronological'
  <2>1. \A l \in Loop : \A n \in Range(posted[l]) : n \in Message /\ n # m
    BY SMTT(20), RangeIs DEF Messages, MessagesTyped, Chronological
  <2> QED
    BY SMTT(20), <1>2, <2>1 DEF Messages, Chronological
<1> QED
  BY Zenon, <1>3, <1>4, <1>5 DEF Messages

\* PostMessageAtTimeParamVerify.
LEMMA VerifyKeepsMessages ==
  ASSUME Messages, NEW m \in Message, PostVerify(m)
  PROVE  Messages'
<1> USE DEF messageVars, globals, threads, posts, deinit
<1>1. CASE context[Home[m]] = "null"
  BY Zenon, <1>1, FreeKeepsMessages DEF PostVerify
<1>2. CASE context[Home[m]] = "live"
  <2>1. /\ post[m] = "verify" /\ post' = [post EXCEPT ![m] = "insert"]
        /\ UNCHANGED <<now, stop, running, list, current, thread, time, freed, posted, quiet>>
    BY Zenon, <1>2 DEF PostVerify
  <2>2. \A n \in Message : post'[n] = "done" <=> post[n] = "done"
    BY Zenon, <2>1 DEF Messages, MessagesTyped
  <2>3. MessagesTyped'
    BY Zenon, <2>1 DEF Messages, MessagesTyped
  <2>4. Owned'
    <3>1. \A l \in Loop : Range(list[l]) \subseteq Message /\ current[l] \subseteq Message
      BY Zenon, RangeIs DEF Messages, MessagesTyped
    <3> QED
      BY <2>1, <2>2, <3>1 DEF Messages, Owned
  <2>5. Chronological'
    <3>1. \A l \in Loop : Range(posted[l]) \subseteq Message
      BY Zenon, RangeIs DEF Messages, MessagesTyped
    <3> QED
      BY <2>1, <2>2, <3>1 DEF Messages, Chronological
  <2> QED
    BY Zenon, <2>3, <2>4, <2>5 DEF Messages
<1> QED
  BY Zenon, <1>1, <1>2 DEF PostVerify

\* What is left of a list after a removal.
LEMMA SiftedIs ==
  ASSUME NEW s \in Seq(Message), NEW gone, NEW r, Sifted(r, s, gone, Len(s))
  PROVE  /\ r \in Seq(Message)
         /\ Range(r) = Range(s) \ gone
         /\ IsInjective(s) => IsInjective(r)
<1>1. DOMAIN s = 1..Len(s) /\ r \in Seq(Message) /\ DOMAIN r = 1..Len(r)
  BY DEF Sifted
<1>2. Range(r) = Range(s) \ gone
  <2>1. \A x \in Range(r) : x \in Range(s) \ gone
    BY ZenonT(30), <1>1 DEF Sifted, Range
  <2>2. \A x \in Range(s) \ gone : x \in Range(r)
    BY <1>1 DEF Sifted, Range
  <2> QED
    BY Zenon, <2>1, <2>2
<1>3. ASSUME IsInjective(s), NEW i \in DOMAIN r, NEW j \in DOMAIN r, i < j
      PROVE  r[i] # r[j]
  <2>1. PICK a, b \in 1..Len(s) : a < b /\ s[a] = r[i] /\ s[b] = r[j]
    BY Zenon, <1>3 DEF Sifted
  <2> QED
    BY <1>1, <1>3, <2>1 DEF IsInjective
<1>4. \A i, j \in DOMAIN r : i < j \/ i = j \/ j < i
  BY <1>1
<1> QED
  BY Zenon, <1>1, <1>2, <1>3, <1>4 DEF IsInjective

\* Two entries of a list are in the order of their times and of their posts.
LEMMA OrderIs ==
  ASSUME Messages, NEW l \in Loop, NEW i \in DOMAIN list[l], NEW j \in DOMAIN list[l], i < j
  PROVE  \/ time[list[l][i]] < time[list[l][j]]
         \/ time[list[l][i]] = time[list[l][j]] /\ Precedes(posted[l], list[l][i], list[l][j])
BY Zenon DEF Messages, Chronological

\* Messages are taken out of a list and freed.
LEMMA CutKeepsMessages ==
  ASSUME Messages, NEW l \in Loop, NEW gone \in SUBSET Range(list[l]), NEW r,
         Sifted(r, list[l], gone, Len(list[l])),
         list' = [list EXCEPT ![l] = r],
         Free(gone),
         quiet' \in [Loop -> SUBSET Codes],
         \A k \in Loop : k # l => quiet'[k] = quiet[k],
         ~stop[l] => \A m \in Range(list[l]) \ gone : What[m] \notin quiet'[l],
         UNCHANGED <<now, stop, running, current, thread, post, time, posted>>
  PROVE  Messages'
<1>1. list[l] \in Seq(Message) /\ IsInjective(list[l])
  BY ZenonT(30) DEF Messages, MessagesTyped, Owned
<1>2. r \in Seq(Message) /\ Range(r) = Range(list[l]) \ gone /\ IsInjective(r)
  BY Zenon, <1>1, SiftedIs
<1>3. (\A k \in Loop : k # l => list'[k] = list[k]) /\ list'[l] = r
  BY Zenon DEF Messages, MessagesTyped
<1>4. gone \subseteq Message
        /\ \A m \in gone : Home[m] = l /\ freed[m] = 0 /\ post[m] = "done" /\ m \notin current[l]
  BY <1>1, RangeIs DEF Messages, Owned
<1>5. freed' = [m \in Message |-> IF m \in gone THEN 1 ELSE freed[m]]
  BY <1>4 DEF Free
<1>6. MessagesTyped'
  BY ZenonT(30), <1>2, <1>5 DEF Messages, MessagesTyped
<1>7. Owned'
  <2>1. ASSUME NEW k \in Loop PROVE IsInjective(list'[k])
    <3>1. CASE k = l
      BY Zenon, <1>2, <1>3, <3>1
    <3>2. CASE k # l
      BY Zenon, <1>3, <3>2 DEF Messages, Owned
    <3> QED
      BY ZenonT(30), <3>1, <3>2
  <2>2. ASSUME NEW k \in Loop, NEW m \in Range(list'[k])
        PROVE  Home[m] = k /\ post[m] = "done" /\ freed'[m] = 0 /\ m \notin current[k]
    <3>1. m \in Range(list[k]) /\ m \in Message /\ m \notin gone
      <4>1. CASE k = l
        BY Zenon, <1>1, <1>2, <1>3, <2>2, <4>1, RangeIs
      <4>2. CASE k # l
        <5>1. m \in Range(list[k]) /\ list[k] \in Seq(Message)
          BY Zenon, <1>3, <2>2, <4>2 DEF Messages, MessagesTyped
        <5>2. Home[m] = k
          BY <5>1 DEF Messages, Owned
        <5> QED
          BY Zenon, <1>4, <4>2, <5>1, <5>2, RangeIs
      <4> QED
        BY Zenon, <4>1, <4>2
    <3> QED
      BY SMTT(20), <1>5, <3>1 DEF Messages, Owned
  <2>3. ASSUME NEW k \in Loop, NEW m \in current[k]
        PROVE  Home[m] = k /\ post[m] = "done" /\ freed'[m] = 0 /\ thread[k] = "handle"
    <3>1. m \in Message /\ Home[m] = k /\ post[m] = "done" /\ freed[m] = 0 /\ thread[k] = "handle"
      BY ZenonT(30), <2>3 DEF Messages, MessagesTyped, Owned
    <3>2. m \notin gone
      BY Zenon, <1>4, <2>3, <3>1
    <3> QED
      BY Zenon, <1>5, <3>1, <3>2
  <2>4. ASSUME NEW m \in Message, post[m] = "done", freed'[m] # 1
        PROVE  m \in Range(list'[Home[m]]) \/ m \in current[Home[m]]
    <3>1. m \notin gone /\ freed[m] # 1 /\ Home[m] \in Loop
      BY Zenon, <1>5, <2>4, HomeIs
    <3>2. m \in Range(list[Home[m]]) \/ m \in current[Home[m]]
      BY ZenonT(30), <2>4, <3>1 DEF Messages, Owned
    <3> QED
      BY Zenon, <1>2, <1>3, <3>1, <3>2
  <2>5. \A m \in Message : post[m] # "done" => freed'[m] = 0
    <3>1. \A m \in Message : post[m] # "done" => freed[m] = 0
      BY Zenon DEF Messages, Owned
    <3> QED
      BY Zenon, <1>4, <1>5, <3>1
  <2> QED
    BY <2>1, <2>2, <2>3, <2>4, <2>5 DEF Owned
<1>8. Chronological'
  <2>1. \A k \in Loop : Range(list'[k]) \subseteq Range(list[k])
    BY Zenon, <1>2, <1>3
  <2>2. ASSUME NEW k \in Loop, NEW i \in DOMAIN list'[k], NEW j \in DOMAIN list'[k], i < j
        PROVE  \/ time[list'[k][i]] < time[list'[k][j]]
               \/ time[list'[k][i]] = time[list'[k][j]]
                  /\ Precedes(posted[k], list'[k][i], list'[k][j])
    <3>1. CASE k # l
      <4>1. list'[k] = list[k]
        BY Zenon, <1>3, <3>1
      <4> QED
        BY <2>2, <4>1, OrderIs
    <3>2. CASE k = l
      <4>1. PICK a, b \in 1..Len(list[l]) : a < b /\ list[l][a] = r[i] /\ list[l][b] = r[j]
        <5>1. i \in DOMAIN r /\ j \in DOMAIN r /\ i < j
          BY ZenonT(30), <1>3, <2>2, <3>2
        <5> QED
          BY Zenon, <5>1 DEF Sifted
      <4>2. a \in DOMAIN list[l] /\ b \in DOMAIN list[l]
        BY SMTT(20), <1>1
      <4> QED
        <5>1. \/ time[list[l][a]] < time[list[l][b]]
              \/ time[list[l][a]] = time[list[l][b]]
                 /\ Precedes(posted[l], list[l][a], list[l][b])
          BY Zenon, <4>1, <4>2, OrderIs
        <5>2. list'[k][i] = list[l][a] /\ list'[k][j] = list[l][b]
          BY Zenon, <1>3, <3>2, <4>1
        <5> QED
          BY Zenon, <3>2, <5>1, <5>2
    <3> QED
      BY ZenonT(30), <3>1, <3>2
  <2>3. ASSUME NEW k \in Loop, ~stop[k], NEW m \in Range(list'[k])
        PROVE  What[m] \notin quiet'[k]
    BY ZenonT(30), <1>2, <1>3, <2>3 DEF Messages, Chronological
  <2> QED
    <3>1. /\ \A k \in Loop : IsInjective(posted[k])
          /\ \A k \in Loop : \A m \in Range(posted[k]) : Home[m] = k /\ post[m] = "done"
          /\ \A k \in Loop : Range(list'[k]) \subseteq Range(posted[k])
      BY Zenon, <2>1 DEF Messages, Chronological
    <3> QED
      BY <2>2, <2>3, <3>1 DEF Chronological
<1> QED
  BY Zenon, <1>6, <1>7, <1>8 DEF Messages

\* LoopRemoveMessageCustom.
LEMMA RemoveKeepsMessages ==
  ASSUME Messages, NEW l \in Loop, NEW w \in Codes, RemoveMessage(l, w)
  PROVE  Messages'
<1> USE DEF messageVars, globals, threads, posts, deinit
<1> DEFINE gone == Matching(l, w)
           r == Without(list[l], gone)
<1>1. gone \in SUBSET Range(list[l])
  BY Zenon DEF Matching
<1>2. Sifted(r, list[l], gone, Len(list[l]))
  BY Zenon, WithoutIs DEF Messages, MessagesTyped
<1>3. list' = [list EXCEPT ![l] = r] /\ Free(gone)
      /\ UNCHANGED <<now, stop, running, current, thread, post, time, posted>>
  BY Zenon DEF RemoveMessage
<1>4. quiet' \in [Loop -> SUBSET Codes]
  BY Zenon DEF RemoveMessage, Messages, MessagesTyped
<1>5. \A k \in Loop : k # l => quiet'[k] = quiet[k]
  BY Zenon DEF RemoveMessage, Messages, MessagesTyped
<1>6. ASSUME ~stop[l], NEW m \in Range(list[l]) \ gone
      PROVE  What[m] \notin quiet'[l]
  <2>1. What[m] \notin quiet[l]
    BY Zenon, <1>6 DEF Messages, Chronological
  <2>2. CASE running[l]
    <3>1. What[m] # w
      BY Zenon, <1>6, <2>2 DEF Matching
    <3>2. quiet'[l] = quiet[l] \cup {w}
      BY Zenon, <2>2 DEF RemoveMessage, Messages, MessagesTyped
    <3> QED
      BY Zenon, <2>1, <3>1, <3>2
  <2>3. CASE ~running[l]
    BY ZenonT(30), <2>1, <2>3 DEF RemoveMessage
  <2> QED
    BY Zenon, <2>2, <2>3
<1> HIDE DEF gone, r
<1> QED
  BY Zenon, <1>1, <1>2, <1>3, <1>4, <1>5, <1>6, CutKeepsMessages

\* DestroyLooper frees what is left.
LEMMA DestroyKeepsMessages ==
  ASSUME Messages, LoopersTyped, Alive, NEW d \in Destroyer, DestroyFree(d)
  PROVE  Messages'
<1> USE DEF messageVars, globals, threads, posts, deinit
<1> DEFINE l == Entry(d)
           gone == Range(list[l])
<1>1. l \in Loop
  BY Zenon, EntryIs DEF DestroyFree, Destroying
<1>2. list[l] \in Seq(Message)
  BY Zenon, <1>1 DEF Messages, MessagesTyped
<1>3. gone \in SUBSET Range(list[l]) /\ Sifted(<<>>, list[l], gone, Len(list[l]))
  BY <1>2 DEF Sifted, Range
<1>4. list' = [list EXCEPT ![l] = <<>>] /\ Free(gone)
      /\ UNCHANGED <<now, stop, running, current, thread, post, time, posted, quiet>>
  BY Zenon DEF DestroyFree
<1>5. quiet' \in [Loop -> SUBSET Codes] /\ (\A k \in Loop : k # l => quiet'[k] = quiet[k])
      /\ \A m \in Range(list[l]) \ gone : What[m] \notin quiet'[l]
  BY Zenon, <1>4 DEF Messages, MessagesTyped
<1> HIDE DEF gone, l
<1> QED
  BY ZenonT(30), <1>1, <1>3, <1>4, <1>5, CutKeepsMessages

\* The order of a list with a message at its place among the times.
LEMMA InsertKeepsOrder ==
  ASSUME Messages, NEW l \in Loop, NEW m \in Message, NEW r,
         r = InsertByTime(list[l], m), m \notin Range(posted[l])
  PROVE  /\ \E k : Inserted(r, list[l], m, k)
         /\ \A i, j \in DOMAIN r : i < j =>
              \/ time[r[i]] < time[r[j]]
              \/ time[r[i]] = time[r[j]] /\ Precedes(Append(posted[l], m), r[i], r[j])
<1> DEFINE s == list[l]
           p == posted[l]
           q == Append(posted[l], m)
           later == {i \in DOMAIN s : time[s[i]] > time[m]}
<1>1. s \in Seq(Message) /\ p \in Seq(Message) /\ time \in [Message -> Int]
  BY LooperConstants DEF Messages, MessagesTyped, Due
<1>2. r = InsertAt(s, later, m)
  BY Zenon DEF InsertByTime
<1>3. later \in SUBSET DOMAIN s
  BY Zenon
<1>4. PICK k : /\ Inserted(r, s, m, k)
               /\ \A i \in 1..(k - 1) : i \notin later
               /\ k \in later \/ k = Len(s) + 1
  <2> HIDE DEF later, s
  <2>1. \E k : /\ Inserted(InsertAt(s, later, m), s, m, k)
               /\ \A i \in 1..(k - 1) : i \notin later
               /\ k \in later \/ k = Len(s) + 1
    BY Zenon, <1>1, <1>3, InsertIs
  <2> QED
    BY Zenon, <1>2, <2>1
<1>5. /\ Len(p) \in Nat /\ DOMAIN p = 1..Len(p) /\ DOMAIN q = 1..(Len(p) + 1)
      /\ q[Len(p) + 1] = m
      /\ \A a \in DOMAIN p : a \in DOMAIN q /\ q[a] = p[a]
  BY <1>1
<1> HIDE DEF p, q, s
<1>6. \A x, y : Precedes(p, x, y) => Precedes(q, x, y)
  <2> SUFFICES ASSUME NEW a \in DOMAIN p, NEW b \in DOMAIN p, a < b
               PROVE  Precedes(q, p[a], p[b])
    BY Zenon DEF Precedes
  <2> QED
    BY Zenon, <1>5 DEF Precedes
<1>7. \A i \in DOMAIN s : Precedes(q, s[i], m)
  <2> SUFFICES ASSUME NEW i \in DOMAIN s PROVE Precedes(q, s[i], m)
    BY Zenon
  <2>1. s[i] \in Range(p)
    BY ZenonT(30), <1>1, RangeIs DEF Messages, Chronological, s, p
  <2>2. PICK a \in DOMAIN p : p[a] = s[i]
    BY Zenon, <1>1, <2>1, RangeIs
  <2>3. a < Len(p) + 1 /\ Len(p) + 1 \in DOMAIN q
    BY SMTT(20), <1>5
  <2> QED
    BY Zenon, <1>5, <2>2, <2>3 DEF Precedes
<1>8. \A i, j \in DOMAIN s : i < j =>
        \/ time[s[i]] < time[s[j]]
        \/ time[s[i]] = time[s[j]] /\ Precedes(q, s[i], s[j])
  BY SMTT(30), <1>6 DEF Messages, Chronological, s, p
<1>9. k \in 1..(Len(s) + 1) /\ Len(s) \in Nat /\ DOMAIN s = 1..Len(s) /\ DOMAIN r = 1..(Len(s) + 1)
  BY SMTT(30), <1>1, <1>4 DEF Inserted
<1>10. \A i \in DOMAIN s : s[i] \in Message /\ time[s[i]] \in Int
  BY <1>1
<1>11. time[m] \in Int /\ r[k] = m
  BY Zenon, <1>1, <1>4 DEF Inserted
<1>12. \A i \in 1..(k - 1) : i \in DOMAIN s /\ r[i] = s[i] /\ time[s[i]] <= time[m]
  <2>1. \A i \in 1..(k - 1) : i \in DOMAIN s /\ r[i] = s[i]
    BY <1>4, <1>9 DEF Inserted
  <2> QED
    BY <1>4, <1>10, <1>11, <2>1
<1>13. \A i \in (k + 1)..(Len(s) + 1) : i - 1 \in DOMAIN s /\ r[i] = s[i - 1] /\ time[m] < time[s[i - 1]]
  <2> SUFFICES ASSUME NEW i \in (k + 1)..(Len(s) + 1)
               PROVE  i - 1 \in DOMAIN s /\ r[i] = s[i - 1] /\ time[m] < time[s[i - 1]]
    BY Zenon
  <2>1. i - 1 \in DOMAIN s /\ r[i] = s[i - 1] /\ k \in DOMAIN s /\ k <= i - 1
    BY SMTT(20), <1>4, <1>9 DEF Inserted
  <2>2. time[m] < time[s[k]]
    BY <1>4, <1>9, <1>10, <1>11, <2>1
  <2>3. k = i - 1 \/ time[s[k]] <= time[s[i - 1]]
    BY SMTT(20), <1>8, <1>9, <1>10, <2>1
  <2> QED
    BY <1>10, <1>11, <2>1, <2>2, <2>3
<1> HIDE DEF later
<1>14. ASSUME NEW i \in DOMAIN r, NEW j \in DOMAIN r, i < j
       PROVE  \/ time[r[i]] < time[r[j]]
              \/ time[r[i]] = time[r[j]] /\ Precedes(q, r[i], r[j])
  <2>1. CASE i < k /\ j < k
    <3>1. i \in 1..(k - 1) /\ j \in 1..(k - 1)
      BY <1>9, <2>1
    <3> QED
      BY <1>8, <1>12, <1>14, <3>1
  <2>2. CASE i < k /\ j = k
    <3>1. i \in 1..(k - 1)
      BY SMTT(20), <1>9, <2>2
    <3>2. time[r[i]] <= time[m] /\ time[r[i]] \in Int /\ Precedes(q, r[i], m)
      BY Zenon, <1>7, <1>10, <1>12, <3>1
    <3> QED
      BY <1>11, <2>2, <3>2
  <2>3. CASE i < k /\ j > k
    <3>1. i \in 1..(k - 1) /\ j \in (k + 1)..(Len(s) + 1)
      BY SMTT(20), <1>9, <2>3
    <3> QED
      BY <1>10, <1>11, <1>12, <1>13, <3>1
  <2>4. CASE i = k /\ j > k
    <3>1. j \in (k + 1)..(Len(s) + 1)
      BY <1>9, <2>4
    <3> QED
      BY Zenon, <1>11, <1>13, <2>4, <3>1
  <2>5. CASE i > k /\ j > k
    <3>1. i \in (k + 1)..(Len(s) + 1) /\ j \in (k + 1)..(Len(s) + 1) /\ i - 1 < j - 1
      BY <1>9, <1>14, <2>5
    <3> QED
      BY <1>8, <1>13, <3>1
  <2>6. \/ i < k /\ j < k
        \/ i < k /\ j = k
        \/ i < k /\ j > k
        \/ i = k /\ j > k
        \/ i > k /\ j > k
    BY <1>9, <1>14
  <2> QED
    BY Zenon, <2>1, <2>2, <2>3, <2>4, <2>5, <2>6
<1> QED
  BY Zenon, <1>4, <1>14 DEF s, q

\* PostMessageAtTime.
LEMMA InsertKeepsMessages ==
  ASSUME Messages, NEW m \in Message, PostInsert(m)
  PROVE  Messages'
<1> USE DEF messageVars, globals, threads, posts, deinit
<1> DEFINE l == Home[m]
<1>1. CASE stop[l]
  BY Zenon, <1>1, FreeKeepsMessages DEF PostInsert, Refuse
<1>2. CASE ~stop[l]
  <2> DEFINE r == InsertByTime(list[l], m)
             q == Append(posted[l], m)
  <2>1. /\ post[m] = "insert" /\ post' = [post EXCEPT ![m] = "done"]
        /\ list' = [list EXCEPT ![l] = r]
        /\ posted' = [posted EXCEPT ![l] = q]
        /\ quiet' = [quiet EXCEPT ![l] = @ \ {What[m]}]
        /\ Broadcast(l)
        /\ UNCHANGED <<now, stop, running, current, time, freed>>
    BY Zenon, <1>2 DEF PostInsert
  <2>2. l \in Loop
    BY Zenon, HomeIs
  <2>3. list[l] \in Seq(Message) /\ posted[l] \in Seq(Message)
    BY Zenon, <2>2 DEF Messages, MessagesTyped
  <2>4. /\ \A k \in Loop : m \notin Range(list[k]) /\ m \notin current[k] /\ m \notin Range(posted[k])
        /\ freed[m] = 0
    BY ZenonT(30), <2>1 DEF Messages, Owned, Chronological
  <2> HIDE DEF l
  <2>5. /\ \E k : Inserted(r, list[l], m, k)
        /\ \A i, j \in DOMAIN r : i < j =>
             \/ time[r[i]] < time[r[j]]
             \/ time[r[i]] = time[r[j]] /\ Precedes(q, r[i], r[j])
    BY Zenon, <2>2, <2>4, InsertKeepsOrder
  <2> HIDE DEF r
  <2>6. r \in Seq(Message) /\ Range(r) = Range(list[l]) \cup {m} /\ IsInjective(r)
    <3>1. PICK k : Inserted(r, list[l], m, k)
      BY Zenon, <2>5
    <3>2. IsInjective(list[l])
      BY Zenon, <2>2 DEF Messages, Owned
    <3>3. r \in Seq(Message)
      BY Zenon, <3>1 DEF Inserted
    <3> QED
      BY Zenon, <2>2, <2>3, <2>4, <3>1, <3>2, <3>3, InsertedIs
  <2>7. q \in Seq(Message) /\ Range(q) = Range(posted[l]) \cup {m} /\ IsInjective(q)
    <3>1. q \in Seq(Message) /\ DOMAIN q = 1..(Len(posted[l]) + 1) /\ q[Len(posted[l]) + 1] = m
          /\ \A i \in 1..Len(posted[l]) : q[i] = posted[l][i]
      BY SMTT(20), <2>3
    <3>2. DOMAIN posted[l] = 1..Len(posted[l]) /\ Len(posted[l]) \in Nat /\ IsInjective(posted[l])
      BY SMTT(30), <2>2, <2>3 DEF Messages, Chronological
    <3>3. \A i \in DOMAIN q : i \in DOMAIN posted[l] \/ i = Len(posted[l]) + 1
      BY SMTT(30), <3>1, <3>2
    <3> HIDE DEF q
    <3>4. Range(q) = Range(posted[l]) \cup {m}
      <4>1. \A x \in Range(q) : x \in Range(posted[l]) \cup {m}
        BY Zenon, <3>1, <3>2, <3>3 DEF Range
      <4>2. \A x \in Range(posted[l]) : x \in Range(q)
        BY <3>1, <3>2 DEF Range
      <4>3. m \in Range(q)
        BY <3>1, <3>2 DEF Range
      <4> QED
        BY Zenon, <4>1, <4>2, <4>3
    <3>5. \A i \in DOMAIN posted[l] : q[i] # m
      BY Zenon, <2>2, <2>4, <3>1, <3>2 DEF Range
    <3>6. IsInjective(q)
      BY Zenon, <3>1, <3>2, <3>3, <3>5 DEF IsInjective
    <3> QED
      BY Zenon, <3>1, <3>4, <3>6
  <2> HIDE DEF q
  <2>8. /\ \A k \in Loop : k # l => list'[k] = list[k] /\ posted'[k] = posted[k] /\ quiet'[k] = quiet[k]
        /\ list'[l] = r /\ posted'[l] = q /\ quiet'[l] = quiet[l] \ {What[m]}
        /\ \A n \in Message : n # m => post'[n] = post[n]
        /\ post'[m] = "done"
    BY Zenon, <2>1, <2>2 DEF Messages, MessagesTyped
  <2>9. /\ thread' \in [Loop -> {"none", "start", "over"} \cup InLoop]
        /\ \A k \in Loop : thread[k] = "handle" => thread'[k] = "handle"
    BY Zenon, <2>1, <2>2, BroadcastIs
  <2>10. MessagesTyped'
    BY Zenon, <2>1, <2>6, <2>7, <2>9 DEF Messages, MessagesTyped
  <2>11. \A k \in Loop : Range(list[k]) \subseteq Message /\ current[k] \subseteq Message
           /\ Range(posted[k]) \subseteq Message
    BY Zenon, RangeIs DEF Messages, MessagesTyped
  <2>12. Owned'
    <3>1. ASSUME NEW k \in Loop PROVE IsInjective(list'[k])
      <4>1. CASE k = l
        BY Zenon, <2>6, <2>8, <4>1
      <4>2. CASE k # l
        BY Zenon, <2>8, <4>2 DEF Messages, Owned
      <4> QED
        BY Zenon, <4>1, <4>2
    <3>2. ASSUME NEW k \in Loop, NEW n \in Range(list'[k])
          PROVE  Home[n] = k /\ post'[n] = "done" /\ freed[n] = 0 /\ n \notin current[k]
      <4>1. n \in Range(list[k]) \/ (n = m /\ k = l)
        <5>1. CASE k = l
          BY Zenon, <2>6, <2>8, <3>2, <5>1
        <5>2. CASE k # l
          BY Zenon, <2>8, <3>2, <5>2
        <5> QED
          BY Zenon, <5>1, <5>2
      <4>2. CASE n \in Range(list[k])
        <5>1. Home[n] = k /\ post[n] = "done" /\ freed[n] = 0 /\ n \notin current[k]
          BY Zenon, <4>2 DEF Messages, Owned
        <5>2. n \in Message
          BY Zenon, <2>11, <4>2
        <5> QED
          BY Zenon, <2>8, <5>1, <5>2
      <4>3. CASE n = m /\ k = l
        BY Zenon, <2>2, <2>4, <2>8, <4>3 DEF l
      <4> QED
        BY Zenon, <4>1, <4>2, <4>3
    <3>3. ASSUME NEW k \in Loop, NEW n \in current[k]
          PROVE  Home[n] = k /\ post'[n] = "done" /\ freed[n] = 0 /\ thread'[k] = "handle"
      <4>1. n # m /\ n \in Message
        BY Zenon, <2>4, <2>11, <3>3
      <4>2. Home[n] = k /\ post[n] = "done" /\ freed[n] = 0 /\ thread[k] = "handle"
        BY Zenon, <3>3 DEF Messages, Owned
      <4> QED
        BY Zenon, <2>8, <2>9, <4>1, <4>2
    <3>4. ASSUME NEW n \in Message, post'[n] = "done", freed[n] # 1
          PROVE  n \in Range(list'[Home[n]]) \/ n \in current[Home[n]]
      <4>1. CASE n = m
        BY Zenon, <2>6, <2>8, <4>1 DEF l
      <4>2. CASE n # m
        <5>1. post[n] = "done" /\ Home[n] \in Loop
          BY Zenon, <2>8, <3>4, <4>2, HomeIs
        <5>2. n \in Range(list[Home[n]]) \/ n \in current[Home[n]]
          BY Zenon, <3>4, <5>1 DEF Messages, Owned
        <5> QED
          BY Zenon, <2>6, <2>8, <5>1, <5>2
      <4> QED
        BY Zenon, <4>1, <4>2
    <3>5. \A n \in Message : post'[n] # "done" => freed[n] = 0
      <4>1. \A n \in Message : post[n] # "done" => freed[n] = 0
        BY Zenon DEF Messages, Owned
      <4> QED
        BY Zenon, <2>8, <4>1
    <3>6. UNCHANGED <<freed, current>>
      BY Zenon, <2>1
    <3> QED
      BY <3>1, <3>2, <3>3, <3>4, <3>5, <3>6 DEF Owned
  <2>13. Chronological'
    <3>1. ASSUME NEW k \in Loop PROVE IsInjective(posted'[k])
      <4>1. CASE k = l
        BY Zenon, <2>7, <2>8, <4>1
      <4>2. CASE k # l
        BY ZenonT(30), <2>8, <4>2 DEF Messages, Chronological
      <4> QED
        BY Zenon, <4>1, <4>2
    <3>2. ASSUME NEW k \in Loop, NEW n \in Range(posted'[k])
          PROVE  Home[n] = k /\ post'[n] = "done"
      <4>1. n \in Range(posted[k]) \/ (n = m /\ k = l)
        BY ZenonT(30), <2>7, <2>8, <3>2
      <4> QED
        BY ZenonT(30), <2>4, <2>8, <2>11, <4>1 DEF Messages, Chronological, l
    <3>3. \A k \in Loop : Range(list'[k]) \subseteq Range(posted'[k])
      BY ZenonT(30), <2>6, <2>7, <2>8 DEF Messages, Chronological
    <3>4. ASSUME NEW k \in Loop, NEW i \in DOMAIN list'[k], NEW j \in DOMAIN list'[k], i < j
          PROVE  \/ time[list'[k][i]] < time[list'[k][j]]
                 \/ time[list'[k][i]] = time[list'[k][j]]
                    /\ Precedes(posted'[k], list'[k][i], list'[k][j])
      <4>1. CASE k = l
        <5>1. list'[k] = r /\ posted'[k] = q
          BY Zenon, <2>8, <4>1
        <5> QED
          BY Zenon, <2>5, <3>4, <5>1
      <4>2. CASE k # l
        <5>1. list'[k] = list[k] /\ posted'[k] = posted[k]
          BY Zenon, <2>8, <4>2
        <5> QED
          BY <3>4, <5>1, OrderIs
      <4> QED
        BY Zenon, <4>1, <4>2
    <3>5. ASSUME NEW k \in Loop, ~stop[k], NEW n \in Range(list'[k])
          PROVE  What[n] \notin quiet'[k]
      <4> HIDE DEF messageVars, globals, threads, posts, deinit
      <4>0. \A x \in Range(list[k]) : What[x] \notin quiet[k]
        BY Zenon, <3>5 DEF Messages, Chronological
      <4>1. CASE k = l
        <5>1. n \in Range(list[k]) \cup {m} /\ quiet'[k] = quiet[k] \ {What[m]}
          BY Zenon, <2>6, <2>8, <3>5, <4>1
        <5> QED
          BY Zenon, <4>0, <5>1
      <4>2. CASE k # l
        BY Zenon, <2>8, <3>5, <4>0, <4>2
      <4> QED
        BY Zenon, <4>1, <4>2
    <3>6. UNCHANGED <<time, stop>>
      BY Zenon, <2>1
    <3> QED
      BY ZenonT(30), <3>1, <3>2, <3>3, <3>4, <3>5, <3>6 DEF Chronological
  <2> QED
    BY Zenon, <2>10, <2>12, <2>13 DEF Messages
<1> QED
  BY Zenon, <1>1, <1>2

\* Every step keeps the messages in order.
LEMMA MessagesStep ==
  ASSUME Messages, LoopersTyped, Alive, Next
  PROVE  Messages'
<1>1. ASSUME NEW l \in Loop, ThreadStep(l) \/ LoopSpuriousWakeup(l) PROVE Messages'
  BY Zenon, <1>1, ThreadKeepsMessages, TakeKeepsMessages, HandledKeepsMessages DEF ThreadStep
<1>2. ASSUME NEW m \in Message, PostMessage(m) \/ PosterStep(m) PROVE Messages'
  BY Zenon, <1>2, PostKeepsMessages, VerifyKeepsMessages, InsertKeepsMessages DEF PosterStep
<1>3. ASSUME NEW d \in Destroyer, DestroyerStep(d) PROVE Messages'
  BY Zenon, <1>3, OthersKeepMessages, DestroyKeepsMessages DEF DestroyerStep
<1>4. ASSUME NEW l \in Loop, NEW w \in Code(l), RemoveBegin(l, w) \/ RemoveMessage(l, w)
      PROVE  Messages'
  BY Zenon, <1>4, CodeIs, RemoveKeepsMessages, OthersKeepMessages
<1>5. ASSUME CreateNewLooper \/ CreateFails \/ LooperDeinit \/ Tick PROVE Messages'
  BY Zenon, <1>5, OthersKeepMessages
<1> QED
  BY Zenon, <1>1, <1>2, <1>3, <1>4, <1>5 DEF Next

-----------------------------------------------------------------------------
(* The first looper as a timed queue *)

first == Loops[1]
View == [i \in DOMAIN posted[first] |->
           [msg |-> posted[first][i], time |-> time[posted[first][i]]]]

\* The first looper, and the types of its part of the state.
LEMMA FirstIs ==
  ASSUME Messages
  PROVE  /\ first \in Loop
         /\ list[first] \in Seq(Message) /\ posted[first] \in Seq(Message)
         /\ DOMAIN View = DOMAIN posted[first]
         /\ \A i \in DOMAIN posted[first] :
              View[i].msg = posted[first][i] /\ View[i].time = time[posted[first][i]]
<1>1. 1 \in 1..Len(Loops)
  BY LooperConstants
<1>2. first \in Loop
  BY <1>1, LooperConstants DEF first
<1> QED
  BY Zenon, <1>2 DEF Messages, MessagesTyped, View

\* The position of a message among the posts.
LEMMA PositionIs ==
  ASSUME Messages, NEW m \in Range(posted[first])
  PROVE  /\ Queue!Position(m) \in DOMAIN posted[first]
         /\ \A i \in DOMAIN posted[first] : posted[first][i] = m <=> i = Queue!Position(m)
<1>1. PICK i \in DOMAIN posted[first] : posted[first][i] = m
  BY Zenon DEF Range
<1>2. IsInjective(posted[first])
  BY Zenon, FirstIs DEF Messages, Chronological
<1>3. Queue!Position(m) = CHOOSE j \in DOMAIN View : View[j].msg = m
  BY Zenon DEF Queue!Position, View, first
<1>4. i \in DOMAIN View /\ View[i].msg = m
  BY Zenon, <1>1, FirstIs
<1>5. Queue!Position(m) \in DOMAIN View /\ View[Queue!Position(m)].msg = m
  BY Zenon, <1>3, <1>4
<1>6. Queue!Position(m) \in DOMAIN posted[first] /\ posted[first][Queue!Position(m)] = m
  BY Zenon, <1>5, FirstIs
<1> QED
  BY Zenon, <1>2, <1>6 DEF IsInjective

\* A step that the first looper does not take part in.
LEMMA Stutters ==
  ASSUME UNCHANGED <<now, View, Range(list[first]), current[first], stop[first]>>
  PROVE  UNCHANGED Queue!tqVars
BY ZenonT(30) DEF Queue!tqVars, View, first

\* The posts look the same when they and the times of their messages do.
LEMMA ViewKept ==
  ASSUME Messages, UNCHANGED posted[first],
         \A m \in Message : post[m] = "done" => time'[m] = time[m]
  PROVE  UNCHANGED View
<1>1. \A i \in DOMAIN posted[first] :
        posted[first][i] \in Message /\ post[posted[first][i]] = "done"
  BY Zenon, FirstIs, RangeIs DEF Messages, Chronological
<1>2. \A i \in DOMAIN posted[first] : time'[posted[first][i]] = time[posted[first][i]]
  BY Zenon, <1>1
<1>3. first' = first
  BY Zenon DEF first
<1> QED
  BY Zenon, <1>2, <1>3 DEF View

\* LoopTake begins the message that the timed queue would.
LEMMA TakeRefines ==
  ASSUME Messages, LoopTake(first)
  PROVE  \E m \in Message : Queue!TQBegin(m)
<1> USE DEF globals, threads, posts, deinit
<1> DEFINE s == list[first]
           p == posted[first]
           h == Head(list[first])
<1>1. first \in Loop /\ s \in Seq(Message) /\ p \in Seq(Message) /\ IsInjective(s)
  BY ZenonT(30), FirstIs DEF Messages, Owned
<1>2. /\ ~stop[first] /\ s # <<>> /\ now >= time[h] /\ current[first] = {}
      /\ list' = [list EXCEPT ![first] = Tail(s)]
      /\ current' = [current EXCEPT ![first] = {h}]
      /\ UNCHANGED <<now, stop, posted, time>>
  BY ZenonT(30), <1>1 DEF LoopTake, Messages, Owned
<1>3. /\ h \in Range(s) /\ h = s[1] /\ 1 \in DOMAIN s
      /\ Range(Tail(s)) = Range(s) \ {h}
  BY Zenon, <1>1, <1>2, HeadIs
<1>4. h \in Message /\ h \in Range(p) /\ Range(s) \subseteq Range(p) /\ Range(s) \subseteq Message
  BY ZenonT(30), <1>1, <1>3, RangeIs DEF Messages, Chronological
<1>5. View[Queue!Position(h)].time = time[h]
  BY ZenonT(30), <1>4, PositionIs, FirstIs
<1>6. View[Queue!Position(h)].time <= now
  <2>1. time[h] \in Int /\ now \in Int
    BY SMTT(20), <1>4, LooperConstants DEF Messages, MessagesTyped, Due
  <2> QED
    BY Zenon, <1>2, <1>5, <2>1
<1>7. ASSUME NEW n \in Range(s) \ {h} PROVE Queue!Before(h, n)
  <2>1. PICK j \in DOMAIN s : s[j] = n
    BY Zenon, <1>1, <1>7, RangeIs
  <2>2. 1 < j
    BY SMTT(20), <1>1, <1>3, <1>7, <2>1
  <2>3. time[h] < time[n] \/ (time[h] = time[n] /\ Precedes(p, h, n))
    BY SMTT(30), <1>1, <1>3, <2>1, <2>2 DEF Messages, Chronological
  <2>4. n \in Range(p)
    BY Zenon, <1>4, <1>7
  <2>5. View[Queue!Position(n)].time = time[n]
    BY Zenon, <2>4, PositionIs, FirstIs
  <2>6. Precedes(p, h, n) => Queue!Position(h) < Queue!Position(n)
    BY Zenon, <1>4, <2>4, PositionIs DEF Precedes
  <2> HIDE DEF s, p, h
  <2>7. \/ View[Queue!Position(h)].time < View[Queue!Position(n)].time
        \/ /\ View[Queue!Position(h)].time = View[Queue!Position(n)].time
           /\ Queue!Position(h) < Queue!Position(n)
    BY Zenon, <1>5, <2>3, <2>5, <2>6
  <2> QED
    BY Zenon, <2>7 DEF Queue!Before, View, first
<1>8. list'[first] = Tail(s) /\ current'[first] = {h} /\ stop'[first] = stop[first]
  BY ZenonT(30), <1>1, <1>2 DEF Messages, MessagesTyped
<1>9. UNCHANGED View
  BY ZenonT(30), <1>2 DEF View, first
<1> HIDE DEF h, s, p
<1>10. Queue!TQBegin(h)
  <2>1. Range(list[first])' = Range(list[first]) \ {h}
    BY ZenonT(30), <1>3, <1>8 DEF s, first
  <2> QED
    BY ZenonT(30), <1>2, <1>3, <1>6, <1>7, <1>8, <1>9, <2>1 DEF Queue!TQBegin, View, first, s
<1> QED
  BY Zenon, <1>4, <1>10

\* PostInsert posts to the timed queue.
LEMMA InsertRefines ==
  ASSUME Messages, NEW m \in Message, PostInsert(m), Home[m] = first, ~stop[first]
  PROVE  Queue!TQPost(m)
<1> USE DEF globals, threads, posts, deinit
<1> DEFINE s == list[first]
           p == posted[first]
           e == [msg |-> m, time |-> time[m]]
<1>1. first \in Loop /\ s \in Seq(Message) /\ p \in Seq(Message)
  BY Zenon, FirstIs
<1>2. /\ post[m] = "insert"
      /\ list' = [list EXCEPT ![first] = InsertByTime(s, m)]
      /\ posted' = [posted EXCEPT ![first] = Append(p, m)]
      /\ UNCHANGED <<now, stop, current, time>>
  BY ZenonT(30) DEF PostInsert
<1>3. m \notin Range(p)
  BY ZenonT(30), <1>1, <1>2 DEF Messages, Chronological
<1>4. \A i \in DOMAIN View : View[i].msg # m
  BY <1>3, FirstIs DEF Range
<1>5. list'[first] = InsertByTime(s, m) /\ posted'[first] = Append(p, m) /\ stop'[first] = stop[first]
      /\ current'[first] = current[first]
  BY Zenon, <1>1, <1>2 DEF Messages, MessagesTyped
<1>6. Range(InsertByTime(s, m)) = Range(s) \cup {m}
  <2>1. PICK k : Inserted(InsertByTime(s, m), s, m, k)
    BY Zenon, <1>1, <1>3, InsertKeepsOrder
  <2> QED
    BY ZenonT(30), <1>1, <2>1, InsertedIs
<1>7. View' = Append(View, e)
  <2>1. DOMAIN p = 1..Len(p) /\ Len(p) \in Nat /\ DOMAIN Append(p, m) = 1..(Len(p) + 1)
        /\ Append(p, m)[Len(p) + 1] = m /\ \A i \in 1..Len(p) : Append(p, m)[i] = p[i]
    BY SMTT(20), <1>1
  <2>2. View' = [i \in 1..(Len(p) + 1) |->
                   [msg |-> Append(p, m)[i], time |-> time[Append(p, m)[i]]]]
    BY ZenonT(30), <1>2, <1>5, <2>1 DEF View, first
  <2>3. View = [i \in 1..Len(p) |-> [msg |-> p[i], time |-> time[p[i]]]]
    BY Zenon, <2>1 DEF View
  <2>4. View \in Seq([msg : Message, time : Due]) /\ Len(View) = Len(p)
    <3>1. \A i \in 1..Len(p) : p[i] \in Message /\ time[p[i]] \in Due
      BY <1>1 DEF Messages, MessagesTyped
    <3>2. View \in [1..Len(p) -> [msg : Message, time : Due]]
      BY Zenon, <2>3, <3>1
    <3>3. \A S, n, f : n \in Nat /\ f \in [1..n -> S] => f \in Seq(S) /\ Len(f) = n
      OBVIOUS
    <3>4. Len(p) \in Nat
      BY Zenon, <2>1
    <3> HIDE DEF p
    <3> QED
      BY Zenon, <3>2, <3>3, <3>4
  <2>5. e \in [msg : Message, time : Due]
    BY Zenon DEF Messages, MessagesTyped
  <2> DEFINE w == Append(View, e)
  <2>6. w = [i \in 1..(Len(p) + 1) |-> w[i]] /\ w[Len(p) + 1] = e
        /\ \A i \in 1..Len(p) : w[i] = View[i]
    BY SMTT(20), <2>1, <2>4, <2>5
  <2> HIDE DEF w
  <2>7. ASSUME NEW i \in 1..(Len(p) + 1)
        PROVE  w[i] = [msg |-> Append(p, m)[i], time |-> time[Append(p, m)[i]]]
    <3>1. CASE i = Len(p) + 1
      BY Zenon, <2>1, <2>6, <3>1
    <3>2. CASE i \in 1..Len(p)
      BY ZenonT(30), <2>1, <2>3, <2>6, <3>2
    <3> QED
      BY <2>1, <3>1, <3>2
  <2>8. View' = w
    BY Zenon, <2>2, <2>6, <2>7
  <2> QED
    BY Zenon, <2>8 DEF w
<1>8. time[m] \in Due
  BY Zenon DEF Messages, MessagesTyped
<1>9. Range(list[first])' = Range(list[first]) \cup {m}
  BY Zenon, <1>5, <1>6 DEF first
<1>10. \E t \in Due : View' = Append(View, [msg |-> m, time |-> t])
  BY Zenon, <1>7, <1>8
<1> HIDE DEF s, p, e
<1> QED
  BY ZenonT(30), <1>2, <1>4, <1>5, <1>9, <1>10 DEF Queue!TQPost, View, first

-----------------------------------------------------------------------------
(* The loopers, and the inductive invariant *)

Loopers == LoopersTyped /\ Alive /\ Exclusive

\* the inductive invariant
IInv == Messages /\ Loopers /\ Removals

-----------------------------------------------------------------------------
(* The loopers *)

\* The loopers are finitely many.
LEMMA LoopFinite == IsFiniteSet(Loop)
<1>1. Loops \in Seq(Loop) /\ Len(Loops) \in Nat /\ DOMAIN Loops = 1..Len(Loops)
  BY LooperConstants
<1>2. IsFiniteSet(1..Len(Loops))
  BY <1>1, FS_Interval
<1>3. Loops \in [1..Len(Loops) -> Loop] /\ \A l \in Loop : \E i \in 1..Len(Loops) : Loops[i] = l
  BY <1>1 DEF Loop, Range
<1>4. Loops \in Surjection(1..Len(Loops), Loop)
  BY Zenon, <1>3 DEF Surjection
<1> QED
  BY Zenon, <1>2, <1>4, FS_Surjection

\* Exclusive is about the deinitialisation and the contexts, and the threads
\* may go on.
LEMMA ExclusiveFrame ==
  ASSUME Loopers, UNCHANGED <<context, destroy, at, needDestroy, early>>,
         Unstarted = {} => Unstarted' = {},
         \A l \in Loop : thread[l] = "over" => thread'[l] = "over"
  PROVE  Exclusive'
<1>1. Exclusive /\ (OneLooper' <=> OneLooper)
  BY Zenon DEF Loopers, OneLooper
<1>2. \A d \in Destroyer : /\ Entry(d)' = Entry(d)
                           /\ Destroying(d)' <=> Destroying(d)
                           /\ Active(d)' <=> Active(d)
  BY Zenon DEF Entry, Destroying, Active
<1>3. CASE early
  BY Zenon, <1>3 DEF Exclusive
<1>4. CASE ~early
  <2>1. /\ destroy["app"] # "idle" => Unstarted' = {} \/ OneLooper'
        /\ needDestroy => OneLooper'
    BY Zenon, <1>1, <1>4 DEF Exclusive
  <2>2. \A d, e \in Destroyer : Active(d)' /\ Active(e)' => d = e
    BY Zenon, <1>1, <1>2, <1>4 DEF Exclusive
  <2>3. \A d \in Destroyer : Destroying(d)' =>
          context[Entry(d)'] = IF destroy[d] = "release" THEN "null" ELSE "live"
    <3>1. \A d \in Destroyer : Destroying(d) =>
            context[Entry(d)] = IF destroy[d] = "release" THEN "null" ELSE "live"
      BY Zenon, <1>1, <1>4 DEF Exclusive
    <3> QED
      BY Zenon, <1>2, <3>1
  <2>4. \A d \in Destroyer : destroy[d] = "free" => thread'[Entry(d)'] = "over"
    <3>1. \A d \in Destroyer : destroy[d] = "free" => Entry(d) \in Loop
      BY Zenon, EntryIs DEF Loopers, Destroying
    <3>2. \A d \in Destroyer : destroy[d] = "free" => thread[Entry(d)] = "over"
      BY Zenon, <1>1, <1>4 DEF Exclusive
    <3> QED
      BY Zenon, <1>2, <3>1, <3>2
  <2>5. \A l \in Loop : context[l] = "null" =>
          \E d \in Destroyer : destroy[d] = "release" /\ Entry(d)' = l
    <3>1. \A l \in Loop : context[l] = "null" =>
            \E d \in Destroyer : destroy[d] = "release" /\ Entry(d) = l
      BY Zenon, <1>1, <1>4 DEF Exclusive
    <3> QED
      BY Zenon, <1>2, <3>1
  <2>6. \A l \in Loop : context[l] \in {"null", "freed"} => thread'[l] = "over"
    BY Zenon, <1>1, <1>4 DEF Exclusive
  <2> QED
    BY Zenon, <2>1, <2>2, <2>3, <2>4, <2>5, <2>6 DEF Exclusive
<1> QED
  BY ZenonT(30), <1>3, <1>4

\* A step that only moves a thread within LoopTask, ends a post or ends a
\* handler.
LEMMA LoopersFrame ==
  ASSUME Loopers, MessagesTyped,
         UNCHANGED <<creating, context, config, looperCnt, started, needDestroy,
                     early, overlap, destroy, at, running, stop>>,
         \A l \in Loop : thread'[l] \in InLoop <=> thread[l] \in InLoop,
         \A l \in Loop : thread[l] \notin InLoop => thread'[l] = thread[l],
         \A l \in Loop : stop[l] => current'[l] \subseteq current[l],
         \A m \in Message : post'[m] \in {"verify", "insert"} => post[m] \in {"verify", "insert"}
  PROVE  Loopers'
<1>1. LoopersTyped'
  BY Zenon DEF Loopers, LoopersTyped
<1>2. \A d \in Destroyer : Entry(d)' = Entry(d)
  BY Zenon DEF Entry
<1>3. \A d \in Destroyer : /\ Destroying(d)' <=> Destroying(d)
                           /\ Active(d)' <=> Active(d)
  BY Zenon DEF Destroying, Active
<1>4. \A l \in Loop : \A p \in {"none", "start", "over"} : thread'[l] = p <=> thread[l] = p
  BY Zenon DEF InLoop
<1>5. \A d \in Destroyer : destroy[d] = "free" => Entry(d) \in Loop
  BY Zenon, EntryIs DEF Loopers, Destroying
<1>6. Alive'
  <2>1. \A d \in Destroyer : destroy[d] = "free" => current'[Entry(d)] = {}
    BY Zenon, <1>5 DEF Loopers, Alive
  <2>2. started <=> \E l \in Loop : thread'[l] \notin {"none", "start"}
    BY Zenon, <1>4 DEF Loopers, Alive
  <2>3. overlap \/ \A m \in Message : post'[m] \in {"verify", "insert"} => context[Home[m]] = "live"
    BY Zenon DEF Loopers, Alive
  <2> QED
    BY ZenonT(30), <1>2, <1>3, <1>4, <2>1, <2>2, <2>3 DEF Loopers, Alive, Destroying, Entry
<1>7. Exclusive'
  <2>1. Unstarted = {} => Unstarted' = {}
    BY Zenon, <1>4 DEF Unstarted
  <2> QED
    BY Zenon, <1>4, <2>1, ExclusiveFrame
<1> QED
  BY Zenon, <1>1, <1>6, <1>7 DEF Loopers

\* The steps within LoopTask, of a post after its start, of a removal and of
\* the clock.
LEMMA WithinKeepsLoopers ==
  ASSUME Loopers, Messages, Next,
         \/ Tick
         \/ \E l \in Loop : \/ LoopBreak(l) \/ LoopWait(l) \/ LoopTimeout(l)
                            \/ LoopSpuriousWakeup(l) \/ LoopTake(l) \/ LoopHandled(l)
         \/ \E l \in Loop, w \in Codes : RemoveMessage(l, w)
         \/ \E m \in Message : PosterStep(m)
  PROVE  Loopers'
<1> USE DEF globals, threads, posts, deinit
<1>1. MessagesTyped
  BY Zenon DEF Messages
<1>2. CASE Tick
  BY Zenon, <1>1, <1>2, LoopersFrame DEF Tick
<1>3. ASSUME NEW l \in Loop,
             \/ LoopBreak(l) \/ LoopWait(l) \/ LoopTimeout(l)
             \/ LoopSpuriousWakeup(l) \/ LoopTake(l) \/ LoopHandled(l)
      PROVE  Loopers'
  <2>1. UNCHANGED <<creating, context, config, looperCnt, started, needDestroy,
                    early, overlap, destroy, at, running, stop, post>>
    BY Zenon, <1>3 DEF LoopBreak, LoopWait, LoopTimeout, LoopSpuriousWakeup, LoopTake, LoopHandled
  <2>2. thread[l] \in InLoop
          /\ \E p \in InLoop : thread' = [thread EXCEPT ![l] = p]
    BY Zenon, <1>3 DEF LoopBreak, LoopWait, LoopTimeout, LoopSpuriousWakeup, LoopTake, LoopHandled,
                Awake, InLoop
  <2>3. \A k \in Loop : stop[k] => current'[k] \subseteq current[k]
    BY Zenon, <1>1, <1>3 DEF LoopBreak, LoopWait, LoopTimeout, LoopSpuriousWakeup, LoopTake,
                      LoopHandled, MessagesTyped
  <2>4. \A k \in Loop : thread'[k] \in InLoop <=> thread[k] \in InLoop
    BY Zenon, <1>1, <2>2 DEF MessagesTyped
  <2>5. \A k \in Loop : thread[k] \notin InLoop => thread'[k] = thread[k]
    BY Zenon, <1>1, <2>2 DEF MessagesTyped
  <2> QED
    BY Zenon, <1>1, <2>1, <2>3, <2>4, <2>5, LoopersFrame
<1>4. ASSUME NEW l \in Loop, NEW w \in Codes, RemoveMessage(l, w) PROVE Loopers'
  BY Zenon, <1>1, <1>4, LoopersFrame DEF RemoveMessage
<1>5. ASSUME NEW m \in Message, PostVerify(m) PROVE Loopers'
  <2>1. \A n \in Message : post'[n] \in {"verify", "insert"} => post[n] \in {"verify", "insert"}
    BY Zenon, <1>1, <1>5 DEF PostVerify, MessagesTyped
  <2> QED
    BY Zenon, <1>1, <1>5, <2>1, LoopersFrame DEF PostVerify
<1>6. ASSUME NEW m \in Message, PostInsert(m) PROVE Loopers'
  <2>1. \A n \in Message : post'[n] \in {"verify", "insert"} => post[n] \in {"verify", "insert"}
    BY Zenon, <1>1, <1>6 DEF PostInsert, MessagesTyped
  <2>2. UNCHANGED <<creating, context, config, looperCnt, started, needDestroy,
                    early, overlap, destroy, at, running, stop, current>>
    BY Zenon, <1>6 DEF PostInsert
  <2>3. UNCHANGED thread \/ Broadcast(Home[m])
    BY Zenon, <1>6 DEF PostInsert
  <2>4. /\ \A k \in Loop : thread'[k] \in InLoop <=> thread[k] \in InLoop
        /\ \A k \in Loop : thread[k] \notin InLoop => thread'[k] = thread[k]
    BY Zenon, <2>3, BroadcastIs, HomeIs
  <2> QED
    BY Zenon, <1>1, <2>1, <2>2, <2>4, LoopersFrame
<1> QED
  BY Zenon, <1>2, <1>3, <1>4, <1>5, <1>6 DEF PosterStep

\* CreateNewLooper.
LEMMA CreateKeepsLoopers ==
  ASSUME Loopers, Messages, CreateNewLooper
  PROVE  Loopers'
<1> USE DEF globals, threads, posts, deinit
<1> DEFINE l == Loops[creating]
<1>1. /\ creating \in 1..Len(Loops) /\ l \in Loop /\ context[l] = "none" /\ thread[l] = "none"
      /\ destroy["app"] = "idle" /\ "app" \in Destroyer
  BY Zenon, EntryIs DEF Loopers, CreateNewLooper, Alive, Destroyer
<1>2. /\ context' = [context EXCEPT ![l] = "live"]
      /\ thread' = [thread EXCEPT ![l] = "start"]
      /\ config' = config \cup {l}
      /\ looperCnt' = looperCnt + 1
      /\ creating' = creating + 1
      /\ UNCHANGED <<started, needDestroy, early, overlap, destroy, at, running, stop, current, post>>
  BY Zenon DEF CreateNewLooper
<1> HIDE DEF l
<1>3. /\ \A k \in Loop : k # l => context'[k] = context[k] /\ thread'[k] = thread[k]
      /\ context'[l] = "live" /\ thread'[l] = "start"
  BY Zenon, <1>1, <1>2 DEF Loopers, LoopersTyped, Messages, MessagesTyped
<1>4. LoopersTyped'
  <2>1. IsFiniteSet(config) /\ l \notin config
    BY Zenon, <1>1, LoopFinite, FS_Subset DEF Loopers, LoopersTyped
  <2>2. Cardinality(config') = Cardinality(config) + 1
    BY Zenon, <1>2, <2>1, FS_AddElement
  <2>3. config' = {k \in Loop : context'[k] \in {"live", "null"}}
    BY Zenon, <1>1, <1>2, <1>3 DEF Loopers, LoopersTyped
  <2>4. creating' \in 1..(Len(Loops) + 1)
    BY <1>1, <1>2, LooperConstants
  <2> QED
    BY Zenon, <1>1, <1>2, <2>2, <2>3, <2>4 DEF Loopers, LoopersTyped
<1>5. ~needDestroy /\ \A d \in Destroyer : destroy[d] = "idle"
  BY Zenon, <1>1 DEF Loopers, Alive, Destroyer
<1>6. \A d \in Destroyer : Entry(d)' = Entry(d) /\ ~Destroying(d)' /\ ~Active(d)'
  BY Zenon, <1>2, <1>5 DEF Entry, Destroying, Active
<1>7. Alive'
  <2>1. ASSUME NEW i \in DOMAIN Loops, i >= creating' PROVE context'[Loops[i]] = "none"
    <3>1. i \in 1..Len(Loops) /\ i >= creating /\ i # creating
      BY <1>1, <1>2, <2>1, LooperConstants
    <3>2. Loops[i] \in Loop /\ Loops[i] # l
      BY Zenon, <1>1, <3>1, EntryIs DEF Loopers, l
    <3>3. context[Loops[i]] = "none"
      BY Zenon, <2>1, <3>1 DEF Loopers, Alive
    <3> QED
      BY Zenon, <1>3, <3>2, <3>3
  <2>2. ASSUME NEW k \in Loop
        PROVE  /\ thread'[k] = "none" <=> context'[k] = "none"
               /\ running[k] <=> thread'[k] \in InLoop
               /\ context'[k] \in {"none", "live"}
    <3>1. /\ thread[k] = "none" <=> context[k] = "none"
          /\ running[k] <=> thread[k] \in InLoop
          /\ context[k] \in {"none", "live"}
      BY Zenon, <1>1 DEF Loopers, Alive
    <3>2. CASE k = l
      BY Zenon, <1>1, <1>3, <3>1, <3>2 DEF InLoop
    <3>3. CASE k # l
      BY Zenon, <1>3, <3>1, <3>3
    <3> QED
      BY Zenon, <3>2, <3>3
  <2>3. started <=> \E k \in Loop : thread'[k] \notin {"none", "start"}
    BY Zenon, <1>1, <1>3 DEF Loopers, Alive
  <2>4. overlap \/ \A m \in Message : post[m] \in {"verify", "insert"} => context'[Home[m]] = "live"
    <3>1. overlap \/ \A m \in Message : post[m] \in {"verify", "insert"} => context[Home[m]] = "live"
      BY Zenon DEF Loopers, Alive
    <3> QED
      BY Zenon, <1>3, <3>1, HomeIs
  <2> QED
    BY Zenon, <1>1, <1>2, <1>5, <1>6, <2>1, <2>2, <2>3, <2>4 DEF Alive, Destroyer
<1>8. Exclusive'
  <2>1. \A k \in Loop : context'[k] \in {"none", "live"}
    BY Zenon, <1>1, <1>3 DEF Loopers, Alive
  <2> QED
    BY Zenon, <1>1, <1>2, <1>5, <1>6, <2>1 DEF Exclusive
<1> QED
  BY Zenon, <1>4, <1>7, <1>8 DEF Loopers

\* LooperInit gives up.
LEMMA FailKeepsLoopers ==
  ASSUME Loopers, Messages, CreateFails
  PROVE  Loopers'
<1> USE DEF globals, threads, posts, deinit
<1>1. /\ creating' = Len(Loops) + 1 /\ creating <= Len(Loops)
      /\ UNCHANGED <<context, config, looperCnt, started, needDestroy, early, overlap, destroy, at,
                     running, stop, current, thread, post>>
  BY Zenon DEF CreateFails
<1>2. Len(Loops) \in Nat /\ DOMAIN Loops = 1..Len(Loops)
  BY LooperConstants
<1>3. LoopersTyped'
  BY <1>1, <1>2 DEF Loopers, LoopersTyped
<1>4. \A i \in DOMAIN Loops : ~(i >= creating')
  BY <1>1, <1>2
<1>5. ~(creating' <= Len(Loops))
  BY <1>1, <1>2
<1>6. Alive'
  BY Zenon, <1>1, <1>4, <1>5 DEF Loopers, Alive, Destroying, Entry
<1>7. Exclusive'
  BY Zenon, <1>1, ExclusiveFrame DEF Unstarted
<1> QED
  BY Zenon, <1>3, <1>6, <1>7 DEF Loopers

\* The start of LoopTask.
LEMMA StartKeepsLoopers ==
  ASSUME Loopers, Messages, NEW l \in Loop, LoopStart(l)
  PROVE  Loopers'
<1> USE DEF globals, threads, posts, deinit
<1>1. /\ thread[l] = "start" /\ context[l] \in {"live", "null"}
      /\ UNCHANGED <<creating, context, config, looperCnt, needDestroy, early, overlap, destroy, at,
                     stop, current, post>>
  BY Zenon DEF LoopStart
<1>2. /\ \A k \in Loop : k # l => thread'[k] = thread[k] /\ running'[k] = running[k]
      /\ thread'[l] \in {"loop", "over"}
      /\ running'[l] <=> thread'[l] = "loop"
      /\ started' = TRUE
  <2>1. CASE context[l] = "live"
    BY Zenon, <2>1 DEF LoopStart, Messages, MessagesTyped
  <2>2. CASE context[l] = "null"
    <3>1. started /\ started \in BOOLEAN /\ ~running[l]
      BY Zenon, <1>1, <2>2 DEF Loopers, LoopersTyped, Alive, InLoop
    <3>2. thread' = [thread EXCEPT ![l] = "over"] /\ UNCHANGED <<running, started>>
      BY Zenon, <2>2 DEF LoopStart
    <3> QED
      BY Zenon, <3>1, <3>2 DEF Messages, MessagesTyped
  <2> QED
    BY Zenon, <1>1, <2>1, <2>2
<1>3. LoopersTyped'
  BY Zenon, <1>1, <1>2 DEF Loopers, LoopersTyped
<1>4. \A d \in Destroyer : /\ Entry(d)' = Entry(d)
                           /\ Destroying(d)' <=> Destroying(d)
                           /\ Active(d)' <=> Active(d)
  BY Zenon, <1>1 DEF Entry, Destroying, Active
<1>5. Alive'
  <2>1. ASSUME NEW k \in Loop
        PROVE  /\ thread'[k] = "none" <=> context[k] = "none"
               /\ running'[k] <=> thread'[k] \in InLoop
    <3>1. /\ thread[k] = "none" <=> context[k] = "none"
          /\ running[k] <=> thread[k] \in InLoop
      BY Zenon DEF Loopers, Alive
    <3>2. CASE k = l
      BY Zenon, <1>1, <1>2, <3>1, <3>2 DEF InLoop
    <3>3. CASE k # l
      BY Zenon, <1>2, <3>1, <3>3
    <3> QED
      BY Zenon, <3>2, <3>3
  <2>2. \A k \in Loop : destroy[k] # "idle" => needDestroy /\ thread'[k] = "over"
    <3>1. \A k \in Loop : destroy[k] # "idle" => needDestroy /\ thread[k] = "over"
      BY Zenon DEF Loopers, Alive
    <3> QED
      BY Zenon, <1>1, <1>2, <3>1
  <2>3. \E k \in Loop : thread'[k] \notin {"none", "start"}
    BY Zenon, <1>2
  <2> QED
    BY ZenonT(30), <1>1, <1>2, <1>4, <2>1, <2>2, <2>3 DEF Loopers, Alive
<1>6. Exclusive'
  <2>1. Unstarted = {} => Unstarted' = {}
    BY Zenon, <1>1 DEF Unstarted
  <2>2. \A k \in Loop : thread[k] = "over" => thread'[k] = "over"
    BY Zenon, <1>1, <1>2
  <2> QED
    BY Zenon, <1>1, <2>1, <2>2, ExclusiveFrame
<1> QED
  BY Zenon, <1>3, <1>5, <1>6 DEF Loopers

\* The end of LoopTask.
LEMMA ExitKeepsLoopers ==
  ASSUME Loopers, Messages, NEW l \in Loop, LoopExit(l)
  PROVE  Loopers'
<1> USE DEF globals, threads, posts, deinit
<1>1. /\ thread[l] = "exit"
      /\ running' = [running EXCEPT ![l] = FALSE]
      /\ thread' = [thread EXCEPT ![l] = "over"]
      /\ destroy' = [d \in Destroyer |->
                       IF d = l /\ needDestroy THEN "scan" ELSE Announce(l, d)]
      /\ UNCHANGED <<creating, context, config, looperCnt, started, needDestroy, early, overlap,
                     at, stop, current, post>>
  BY Zenon DEF LoopExit
<1>2. /\ \A k \in Loop : k # l => thread'[k] = thread[k] /\ running'[k] = running[k]
      /\ thread'[l] = "over" /\ running'[l] = FALSE
  BY Zenon, <1>1 DEF Messages, MessagesTyped
<1>3. l \in Destroyer /\ l # "app" /\ "app" \in Destroyer
  BY Zenon, LooperConstants DEF Destroyer
<1>4. destroy[l] = "idle" /\ started
  BY Zenon, <1>1 DEF Loopers, Alive
<1>5. /\ \A d \in Destroyer : d # l =>
           destroy'[d] = destroy[d] \/ (destroy[d] = "asleep" /\ destroy'[d] = "wait")
      /\ destroy'[l] = IF needDestroy THEN "scan" ELSE "idle"
  BY Zenon, <1>1, <1>3, <1>4 DEF Announce
<1>6. LoopersTyped'
  BY Zenon, <1>1, <1>5 DEF Loopers, LoopersTyped, Announce
<1>7. \A d \in Destroyer : /\ Entry(d)' = Entry(d)
                           /\ Destroying(d)' <=> Destroying(d)
                           /\ d # l => (Active(d)' <=> Active(d))
                           /\ destroy'[d] \in {"wait", "asleep", "free"} <=> destroy[d] \in {"wait", "asleep", "free"}
                           /\ destroy'[d] = "free" <=> destroy[d] = "free"
                           /\ destroy'[d] = "release" <=> destroy[d] = "release"
                           /\ d # l => (destroy'[d] = "idle" <=> destroy[d] = "idle")
                           /\ d # l => (destroy'[d] = "done" <=> destroy[d] = "done")
  BY Zenon, <1>1, <1>4, <1>5 DEF Entry, Destroying, Active
<1>8. Alive'
  <2>1. ASSUME NEW k \in Loop
        PROVE  /\ thread'[k] = "none" <=> context[k] = "none"
               /\ running'[k] <=> thread'[k] \in InLoop
    <3>1. /\ thread[k] = "none" <=> context[k] = "none"
          /\ running[k] <=> thread[k] \in InLoop
      BY Zenon DEF Loopers, Alive
    <3>2. CASE k = l
      BY Zenon, <1>1, <1>2, <3>1, <3>2 DEF InLoop
    <3>3. CASE k # l
      BY Zenon, <1>2, <3>1, <3>3
    <3> QED
      BY Zenon, <3>2, <3>3
  <2>2. \A k \in Loop : destroy'[k] # "idle" => needDestroy /\ thread'[k] = "over"
    <3>1. \A k \in Loop : destroy[k] # "idle" => needDestroy /\ thread[k] = "over"
      BY Zenon DEF Loopers, Alive
    <3>2. \A k \in Loop : k # l => (destroy'[k] = "idle" <=> destroy[k] = "idle")
      BY Zenon, <1>7 DEF Destroyer
    <3>3. destroy'[l] # "idle" => needDestroy
      BY Zenon, <1>5
    <3> QED
      BY Zenon, <1>2, <3>1, <3>2, <3>3
  <2>3. \E k \in Loop : thread'[k] \notin {"none", "start"}
    BY Zenon, <1>2
  <2> QED
    <3>1. /\ creating <= Len(Loops) => destroy'["app"] = "idle"
          /\ destroy'["app"] = "idle" => \A k \in Loop : context[k] \in {"none", "live"}
          /\ needDestroy => destroy'["app"] = "done"
      BY Zenon, <1>3, <1>7 DEF Loopers, Alive
    <3>2. \A d \in Destroyer : Destroying(d)' => at[d] <= Len(Loops) /\ started
      BY Zenon, <1>7 DEF Loopers, Alive
    <3>3. /\ \A d \in Destroyer : destroy'[d] \in {"wait", "asleep", "free"} => stop[Entry(d)']
          /\ \A d \in Destroyer : destroy'[d] = "free" => current[Entry(d)'] = {}
      <4>1. /\ \A d \in Destroyer : destroy[d] \in {"wait", "asleep", "free"} => stop[Entry(d)]
            /\ \A d \in Destroyer : destroy[d] = "free" => current[Entry(d)] = {}
        BY Zenon DEF Loopers, Alive
      <4> QED
        BY Zenon, <1>7, <4>1
    <3>4. /\ \A i \in DOMAIN Loops : i >= creating => context[Loops[i]] = "none"
          /\ \A k \in Loop : context[k] \in {"null", "freed"} => started
          /\ overlap \/ \A m \in Message : post[m] \in {"verify", "insert"} => context[Home[m]] = "live"
      BY Zenon DEF Loopers, Alive
    <3> QED
      BY Zenon, <1>1, <1>4, <2>1, <2>2, <2>3, <3>1, <3>2, <3>3, <3>4 DEF Alive
<1>9. Exclusive'
  <2>1. Unstarted = {} => Unstarted' = {}
    BY Zenon, <1>2 DEF Unstarted
  <2>2. OneLooper' <=> OneLooper
    BY Zenon, <1>1 DEF OneLooper
  <2>3. \A k \in Loop : thread[k] = "over" => thread'[k] = "over"
    BY Zenon, <1>2
  <2>4. \A d \in Destroyer : destroy[d] = "free" => Entry(d) \in Loop
    BY Zenon, EntryIs DEF Loopers, Destroying
  <2>5. ASSUME ~early, NEW d \in Destroyer, NEW e \in Destroyer, Active(d)', Active(e)'
        PROVE  d = e
    <3>1. CASE needDestroy
      <4>1. OneLooper /\ destroy["app"] = "done"
        BY Zenon, <2>5, <3>1 DEF Loopers, Alive, Exclusive
      <4>2. ASSUME NEW f \in Destroyer, f # l PROVE ~Active(f)'
        <5>1. CASE f = "app"
          BY Zenon, <1>3, <1>5, <4>1, <4>2, <5>1 DEF Active, Destroying
        <5>2. CASE f \in Loop
          <6>1. context[l] # "none"
            BY Zenon, <1>1 DEF Loopers, Alive
          <6>2. context[f] = "none"
            BY Zenon, <4>1, <4>2, <5>2, <6>1 DEF OneLooper
          <6>3. thread[f] = "none"
            BY Zenon, <5>2, <6>2 DEF Loopers, Alive
          <6>4. destroy[f] = "idle"
            BY Zenon, <5>2, <6>3 DEF Loopers, Alive
          <6> QED
            BY Zenon, <1>5, <4>2, <6>4 DEF Active, Destroying
        <5> QED
          BY Zenon, <5>1, <5>2 DEF Destroyer
      <4> QED
        BY Zenon, <2>5, <4>2
    <3>2. CASE ~needDestroy
      <4>1. ~Active(l)'
        BY Zenon, <1>3, <1>5, <3>2 DEF Active, Destroying
      <4>2. Active(d) /\ Active(e)
        BY Zenon, <1>7, <2>5, <4>1
      <4> QED
        BY Zenon, <2>5, <4>2 DEF Loopers, Exclusive
    <3> QED
      BY Zenon, <3>1, <3>2 DEF Loopers, LoopersTyped
  <2> QED
    <3>1. CASE early
      BY Zenon, <1>1, <3>1 DEF Exclusive
    <3>2. CASE ~early
      <4>1. /\ destroy'["app"] # "idle" => Unstarted' = {} \/ OneLooper'
            /\ needDestroy => OneLooper'
        BY Zenon, <1>3, <1>7, <2>1, <2>2, <3>2 DEF Loopers, Exclusive
      <4>2. \A d \in Destroyer : Destroying(d)' =>
              context[Entry(d)'] = IF destroy'[d] = "release" THEN "null" ELSE "live"
        <5>1. \A d \in Destroyer : Destroying(d) =>
                context[Entry(d)] = IF destroy[d] = "release" THEN "null" ELSE "live"
          BY Zenon, <3>2 DEF Loopers, Exclusive
        <5> QED
          BY Zenon, <1>7, <5>1
      <4>3. \A d \in Destroyer : destroy'[d] = "free" => thread'[Entry(d)'] = "over"
        <5>1. \A d \in Destroyer : destroy[d] = "free" => thread[Entry(d)] = "over"
          BY Zenon, <3>2 DEF Loopers, Exclusive
        <5> QED
          BY Zenon, <1>7, <2>3, <2>4, <5>1
      <4>4. \A k \in Loop : context[k] = "null" =>
              \E d \in Destroyer : destroy'[d] = "release" /\ Entry(d)' = k
        <5>1. \A k \in Loop : context[k] = "null" =>
                \E d \in Destroyer : destroy[d] = "release" /\ Entry(d) = k
          BY Zenon, <3>2 DEF Loopers, Exclusive
        <5>2. \A d \in Destroyer : Entry(d)' = Entry(d) /\ (destroy'[d] = "release" <=> destroy[d] = "release")
          BY Zenon, <1>7
        <5> QED
          BY Zenon, <5>1, <5>2
      <4>5. \A k \in Loop : context[k] \in {"null", "freed"} => thread'[k] = "over"
        BY Zenon, <2>3, <3>2 DEF Loopers, Exclusive
      <4>6. \A d, e \in Destroyer : Active(d)' /\ Active(e)' => d = e
        BY Zenon, <2>5, <3>2
      <4> QED
        BY Zenon, <1>1, <4>1, <4>2, <4>3, <4>4, <4>5, <4>6 DEF Exclusive
    <3> QED
      BY Zenon, <3>1, <3>2
<1> QED
  BY Zenon, <1>6, <1>8, <1>9 DEF Loopers

\* A post begins.
LEMMA PostKeepsLoopers ==
  ASSUME Loopers, Messages, NEW m \in Message, PostMessage(m)
  PROVE  Loopers'
<1> USE DEF globals, threads, posts, deinit
<1>1. /\ post' = [post EXCEPT ![m] = "verify"]
      /\ overlap' = (overlap \/ context[Home[m]] # "live")
      /\ UNCHANGED <<creating, context, config, looperCnt, started, needDestroy, early, destroy, at,
                     running, stop, current, thread>>
  BY Zenon DEF PostMessage
<1>2. LoopersTyped'
  BY Zenon, <1>1 DEF Loopers, LoopersTyped
<1>3. \A n \in Message : n # m => post'[n] = post[n]
  BY Zenon, <1>1 DEF Messages, MessagesTyped
<1>4. overlap' \/ \A n \in Message : post'[n] \in {"verify", "insert"} => context[Home[n]] = "live"
  BY ZenonT(30), <1>1, <1>3 DEF Loopers, Alive
<1>5. Alive'
  BY ZenonT(30), <1>1, <1>4 DEF Loopers, Alive, Destroying, Entry
<1>6. Exclusive'
  BY Zenon, <1>1, ExclusiveFrame DEF Unstarted
<1> QED
  BY Zenon, <1>2, <1>5, <1>6 DEF Loopers

\* A removal begins.
LEMMA BeginKeepsLoopers ==
  ASSUME Loopers, Messages, NEW l \in Loop, NEW w \in Codes, RemoveBegin(l, w)
  PROVE  Loopers'
<1> USE DEF globals, threads, posts, deinit
<1>1. /\ overlap' = (overlap \/ context[l] # "live")
      /\ UNCHANGED <<creating, context, config, looperCnt, started, needDestroy, early, destroy, at,
                     running, stop, current, thread, post>>
  BY Zenon DEF RemoveBegin
<1>2. LoopersTyped'
  BY Zenon, <1>1 DEF Loopers, LoopersTyped
<1>3. overlap' \/ \A n \in Message : post[n] \in {"verify", "insert"} => context[Home[n]] = "live"
  BY Zenon, <1>1 DEF Loopers, Alive
<1>4. Alive'
  BY ZenonT(30), <1>1, <1>3 DEF Loopers, Alive, Destroying, Entry
<1>5. Exclusive'
  BY Zenon, <1>1, ExclusiveFrame DEF Unstarted
<1> QED
  BY Zenon, <1>2, <1>4, <1>5 DEF Loopers

\* LooperDeinit is called: it is early unless every thread has started or
\* there is one looper.
LEMMA DeinitKeepsLoopers ==
  ASSUME Loopers, Messages, LooperDeinit
  PROVE  Loopers'
<1> USE DEF globals, threads, posts, deinit
<1>1. /\ creating > Len(Loops) /\ destroy["app"] = "idle"
      /\ destroy' = [destroy EXCEPT !["app"] = "scan"]
      /\ early' = (Unstarted # {} /\ Cardinality(config) > 1)
      /\ UNCHANGED <<creating, context, config, looperCnt, started, needDestroy, overlap, at,
                     running, stop, current, thread, post>>
  BY Zenon DEF LooperDeinit
<1>2. LoopersTyped'
  BY Zenon, <1>1 DEF Loopers, LoopersTyped
<1>3. "app" \in Destroyer /\ "app" \notin Loop /\ Loop \subseteq Destroyer
  BY Zenon, LooperConstants DEF Destroyer
<1>4. ~needDestroy /\ \A d \in Destroyer : destroy[d] = "idle"
  BY Zenon, <1>1 DEF Loopers, Alive, Destroyer
<1>5. \A d \in Destroyer : destroy'[d] = IF d = "app" THEN "scan" ELSE "idle"
  BY Zenon, <1>1, <1>4 DEF Loopers, LoopersTyped
<1>6. \A d \in Destroyer : ~Destroying(d)' /\ (Active(d)' => d = "app")
  BY Zenon, <1>5 DEF Active, Destroying
<1>7. \A l \in Loop : context[l] \in {"none", "live"}
  BY Zenon, <1>1 DEF Loopers, Alive
<1>8. Alive'
  <2>1. Len(Loops) \in Nat /\ creating \in Int
    BY LooperConstants DEF Loopers, LoopersTyped
  <2>2. ~(creating <= Len(Loops))
    BY <1>1, <2>1
  <2> QED
    <3>1. /\ \A i \in DOMAIN Loops : i >= creating => context[Loops[i]] = "none"
          /\ \A l \in Loop : thread[l] = "none" <=> context[l] = "none"
          /\ \A l \in Loop : running[l] <=> thread[l] \in InLoop
          /\ started <=> \E l \in Loop : thread[l] \notin {"none", "start"}
          /\ \A l \in Loop : context[l] \in {"null", "freed"} => started
          /\ overlap \/ \A m \in Message : post[m] \in {"verify", "insert"} => context[Home[m]] = "live"
      BY Zenon DEF Loopers, Alive
    <3>2. /\ destroy'["app"] = "scan"
          /\ \A l \in Loop : destroy'[l] = "idle"
      BY Zenon, <1>3, <1>5
    <3>3. \A d \in Destroyer : destroy'[d] \notin {"wait", "asleep", "free"}
      BY Zenon, <1>5
    <3> QED
      BY Zenon, <1>1, <1>4, <1>6, <2>2, <3>1, <3>2, <3>3 DEF Alive
<1>9. Exclusive'
  <2>1. ASSUME ~early', Unstarted # {} PROVE OneLooper
    <3>1. IsFiniteSet(config) /\ config = {l \in Loop : context[l] # "none"}
      BY Zenon, <1>7, LoopFinite, FS_Subset DEF Loopers, LoopersTyped
    <3>2. Cardinality(config) \in Nat /\ ~(Cardinality(config) > 1)
      BY Zenon, <1>1, <2>1, <3>1, FS_CardinalityType
    <3>3. Cardinality(config) = 0 \/ Cardinality(config) = 1
      BY <3>2
    <3>4. config = {} \/ \E l : config = {l}
      BY Zenon, <3>1, <3>3, FS_EmptySet, FS_Singleton
    <3> QED
      BY <3>1, <3>4 DEF OneLooper
  <2>2. Unstarted' = Unstarted /\ (OneLooper' <=> OneLooper)
    BY Zenon, <1>1 DEF Unstarted, OneLooper
  <2>3. \A d, e \in Destroyer : Active(d)' /\ Active(e)' => d = e
    BY Zenon, <1>6
  <2> QED
    <3>1. early' \/ Unstarted' = {} \/ OneLooper'
      BY Zenon, <2>1, <2>2
    <3>2. \A d \in Destroyer : destroy'[d] # "free"
      BY Zenon, <1>5
    <3>3. \A l \in Loop : context[l] # "null" /\ context[l] # "freed"
      BY Zenon, <1>7
    <3>4. ~needDestroy'
      BY Zenon, <1>1, <1>4
    <3> QED
      BY ZenonT(30), <1>1, <1>6, <2>3, <3>1, <3>2, <3>3, <3>4 DEF Exclusive
<1> QED
  BY Zenon, <1>2, <1>8, <1>9 DEF Loopers

\* A destroyer that is in DestroyLooper when LooperDeinit did not come early
\* works alone, and every thread has started.
LEMMA DestroyerAlone ==
  ASSUME Loopers, ~early, NEW d \in Destroyer, Active(d)
  PROVE  /\ destroy["app"] # "idle"
         /\ \A e \in Destroyer : e # d => ~Active(e)
         /\ started => \A l \in Loop : thread[l] # "start"
         /\ \A l \in Loop : context[l] = "null" => destroy[d] = "release" /\ Entry(d) = l
<1>1. destroy["app"] # "idle"
  BY Zenon DEF Loopers, Alive, Active, Destroying, Destroyer
<1>2. \A e \in Destroyer : e # d => ~Active(e)
  BY Zenon DEF Loopers, Exclusive
<1>3. ASSUME started, NEW l \in Loop, thread[l] = "start" PROVE FALSE
  <2>1. OneLooper
    BY Zenon, <1>1, <1>3 DEF Loopers, Exclusive, Unstarted
  <2>2. PICK k \in Loop : thread[k] \notin {"none", "start"}
    BY Zenon, <1>3 DEF Loopers, Alive
  <2>3. context[k] # "none" /\ context[l] # "none"
    BY Zenon, <1>3, <2>2 DEF Loopers, Alive
  <2> QED
    BY Zenon, <1>3, <2>1, <2>2, <2>3 DEF OneLooper
<1>4. ASSUME NEW l \in Loop, context[l] = "null" PROVE destroy[d] = "release" /\ Entry(d) = l
  <2>1. PICK e \in Destroyer : destroy[e] = "release" /\ Entry(e) = l
    BY Zenon, <1>4 DEF Loopers, Exclusive
  <2>2. e = d
    BY Zenon, <1>2, <2>1 DEF Active, Destroying
  <2> QED
    BY Zenon, <2>1, <2>2
<1> QED
  BY Zenon, <1>1, <1>2, <1>3, <1>4

\* One destroyer moves, and it is not a step from or to the end of a looper.
LEMMA DestroyerFrame ==
  ASSUME Loopers, Messages, NEW d \in Destroyer, Active(d), NEW p,
         p \in {"scan", "stop", "wait", "asleep", "free", "done"},
         destroy[d] # "release",
         destroy' = [destroy EXCEPT ![d] = p],
         Destroying(d)' => at'[d] <= Len(Loops) /\ started,
         Destroying(d)' /\ ~early => context[Entry(d)'] = "live",
         destroy'[d] \in {"wait", "asleep", "free"} => stop'[Entry(d)'],
         destroy'[d] = "free" => current[Entry(d)'] = {},
         destroy'[d] = "free" /\ ~early => thread'[Entry(d)'] = "over",
         needDestroy' => destroy'["app"] = "done" /\ (early \/ OneLooper),
         needDestroy => needDestroy',
         at' \in [Destroyer -> 1..(Len(Loops) + 1)], needDestroy' \in BOOLEAN,
         \A e \in Destroyer : e # d => at'[e] = at[e],
         \A l \in Loop : thread'[l] \in InLoop <=> thread[l] \in InLoop,
         \A l \in Loop : thread[l] \notin InLoop => thread'[l] = thread[l],
         \A l \in Loop : stop[l] => stop'[l],
         UNCHANGED <<creating, context, config, looperCnt, started, early, overlap, running,
                     current, post>>
  PROVE  Loopers'
<1>1. /\ \A e \in Destroyer : e # d => destroy'[e] = destroy[e] /\ Entry(e)' = Entry(e)
      /\ destroy'[d] = p /\ p # "release" /\ p # "idle"
  BY Zenon DEF Loopers, LoopersTyped, Entry
<1>2. LoopersTyped'
  BY ZenonT(30) DEF Loopers, LoopersTyped
<1>3. \A l \in Loop : \A q \in {"none", "start", "over"} : thread'[l] = q <=> thread[l] = q
  BY Zenon DEF InLoop
<1>4. /\ \A e \in Destroyer : e # d => (Destroying(e)' <=> Destroying(e)) /\ (Active(e)' <=> Active(e))
      /\ destroy[d] # "idle"
      /\ \A e \in Destroyer : destroy'[e] = "idle" <=> destroy[e] = "idle"
  BY Zenon, <1>1 DEF Destroying, Active
<1>5. "app" \in Destroyer /\ Loop \subseteq Destroyer
  BY Zenon DEF Destroyer
<1>6. \A e \in Destroyer : destroy[e] \in {"wait", "asleep", "free"} => Entry(e) \in Loop
  BY ZenonT(30), EntryIs DEF Loopers, Destroying
<1>7. Alive'
  <2>1. /\ \A i \in DOMAIN Loops : i >= creating => context[Loops[i]] = "none"
        /\ \A l \in Loop : thread'[l] = "none" <=> context[l] = "none"
        /\ \A l \in Loop : running[l] <=> thread'[l] \in InLoop
        /\ \A l \in Loop : context[l] \in {"null", "freed"} => started
        /\ overlap \/ \A m \in Message : post[m] \in {"verify", "insert"} => context[Home[m]] = "live"
    BY Zenon, <1>3 DEF Loopers, Alive
  <2>2. started <=> \E l \in Loop : thread'[l] \notin {"none", "start"}
    BY Zenon, <1>3 DEF Loopers, Alive
  <2>3. /\ creating <= Len(Loops) => destroy'["app"] = "idle"
        /\ destroy'["app"] = "idle" => \A l \in Loop : context[l] \in {"none", "live"}
        /\ \A l \in Loop : destroy'[l] # "idle" => needDestroy' /\ thread'[l] = "over"
    BY Zenon, <1>3, <1>4, <1>5 DEF Loopers, Alive
  <2>4. \A e \in Destroyer : Destroying(e)' => at'[e] <= Len(Loops) /\ started
    BY Zenon, <1>4 DEF Loopers, Alive
  <2>5. \A e \in Destroyer : destroy'[e] \in {"wait", "asleep", "free"} => stop'[Entry(e)']
    BY ZenonT(30), <1>1, <1>6 DEF Loopers, Alive
  <2>6. \A e \in Destroyer : destroy'[e] = "free" => current[Entry(e)'] = {}
    <3>1. \A e \in Destroyer : destroy[e] = "free" => current[Entry(e)] = {}
      BY Zenon DEF Loopers, Alive
    <3> QED
      BY Zenon, <1>1, <3>1
  <2> QED
    BY Zenon, <2>1, <2>2, <2>3, <2>4, <2>5, <2>6 DEF Alive
<1>8. ASSUME ~early PROVE Exclusive'
  <2>1. /\ destroy["app"] # "idle"
        /\ \A e \in Destroyer : e # d => ~Active(e)
        /\ \A l \in Loop : context[l] = "null" => destroy[d] = "release"
    BY Zenon, <1>8, DestroyerAlone
  <2>2. Unstarted' = Unstarted /\ (OneLooper' <=> OneLooper)
    BY Zenon, <1>3 DEF Unstarted, OneLooper
  <2>3. \A e \in Destroyer : e # d => ~Active(e)' /\ ~Destroying(e)'
    BY Zenon, <1>4, <2>1 DEF Active
  <2>4. \A e, f \in Destroyer : Active(e)' /\ Active(f)' => e = f
    BY Zenon, <2>3
  <2>5. \A e \in Destroyer : Destroying(e)' =>
          context[Entry(e)'] = IF destroy'[e] = "release" THEN "null" ELSE "live"
    BY Zenon, <1>1, <1>8, <2>3
  <2>6. \A e \in Destroyer : destroy'[e] = "free" => thread'[Entry(e)'] = "over"
    BY Zenon, <1>1, <1>8, <2>3 DEF Destroying
  <2>7. \A l \in Loop : context[l] # "null"
    BY Zenon, <2>1
  <2>8. \A l \in Loop : context[l] = "freed" => thread'[l] = "over"
    BY Zenon, <1>3, <1>8 DEF Loopers, Exclusive
  <2>9. Unstarted = {} \/ OneLooper
    BY Zenon, <1>8, <2>1 DEF Loopers, Exclusive
  <2> QED
    BY Zenon, <1>8, <2>2, <2>4, <2>5, <2>6, <2>7, <2>8, <2>9 DEF Exclusive
<1>9. early => Exclusive'
  BY Zenon DEF Exclusive
<1> QED
  BY Zenon, <1>2, <1>7, <1>8, <1>9 DEF Loopers

\* The loop of LooperDeinit.
LEMMA ScanKeepsLoopers ==
  ASSUME Loopers, Messages, NEW d \in Destroyer, DeinitScan(d)
  PROVE  Loopers'
<1> USE DEF globals, threads, posts, deinit
<1>1. /\ destroy[d] = "scan" /\ Active(d)
      /\ UNCHANGED <<creating, context, config, looperCnt, started, early, overlap, running, stop,
                     current, thread, post>>
  BY Zenon DEF DeinitScan, Active
<1>2. /\ destroy \in [Destroyer -> {"idle", "scan", "stop", "wait", "asleep", "free", "release", "done"}]
      /\ at \in [Destroyer -> 1..(Len(Loops) + 1)] /\ Len(Loops) \in Nat
      /\ needDestroy \in BOOLEAN /\ started \in BOOLEAN
      /\ "app" \in Destroyer
  BY LooperConstants DEF Loopers, LoopersTyped, Destroyer
<1>3. needDestroy => d # "app" /\ destroy["app"] = "done" /\ (early \/ OneLooper)
  BY Zenon, <1>1 DEF Loopers, Alive, Exclusive
<1>4. CASE at[d] > Len(Loops)
  <2>1. destroy' = [destroy EXCEPT ![d] = "done"] /\ UNCHANGED <<at, needDestroy>>
    BY <1>2, <1>4 DEF DeinitScan
  <2>2. ~Destroying(d)' /\ (needDestroy => destroy'["app"] = "done")
    BY Zenon, <1>2, <1>3, <2>1 DEF Destroying
  <2>3. destroy'[d] = "done"
    BY Zenon, <1>2, <2>1
  <2> QED
    BY Zenon, <1>1, <1>2, <1>3, <2>1, <2>2, <2>3, DestroyerFrame
<1>5. CASE at[d] <= Len(Loops) /\ Entry(d) \notin config
  <2>1. at' = [at EXCEPT ![d] = @ + 1] /\ UNCHANGED <<destroy, needDestroy>>
    BY <1>2, <1>5 DEF DeinitScan
  <2>2. destroy' = [destroy EXCEPT ![d] = "scan"] /\ destroy'[d] = "scan"
    BY Zenon, <1>1, <1>2, <2>1
  <2>3. ~Destroying(d)'
    BY Zenon, <2>2 DEF Destroying
  <2>4. at' \in [Destroyer -> 1..(Len(Loops) + 1)] /\ \A e \in Destroyer : e # d => at'[e] = at[e]
    BY <1>2, <1>5, <2>1
  <2> QED
    BY Zenon, <1>1, <1>2, <1>3, <2>1, <2>2, <2>3, <2>4, DestroyerFrame
<1>6. CASE at[d] <= Len(Loops) /\ Entry(d) \in config
  <2>1. /\ context[Entry(d)] = "live"
        /\ needDestroy' = (needDestroy \/ ~started)
        /\ destroy' = [destroy EXCEPT ![d] = IF started THEN "stop" ELSE "done"]
        /\ UNCHANGED at
    BY <1>2, <1>6 DEF DeinitScan
  <2>2. Entry(d)' = Entry(d)
    BY Zenon, <2>1 DEF Entry
  <2>3. CASE started
    <3>1. destroy' = [destroy EXCEPT ![d] = "stop"] /\ destroy'[d] = "stop" /\ needDestroy' = needDestroy
      BY Zenon, <1>2, <2>1, <2>3
    <3>2. needDestroy => destroy'["app"] = "done"
      BY ZenonT(30), <1>2, <1>3, <3>1
    <3> QED
      BY ZenonT(30), <1>1, <1>2, <1>3, <1>6, <2>1, <2>2, <2>3, <3>1, <3>2, DestroyerFrame
  <2>4. CASE ~started
    <3>1. d = "app"
      BY Zenon, <1>1, <2>4 DEF Loopers, Alive, Destroyer
    <3>2. destroy' = [destroy EXCEPT ![d] = "done"] /\ destroy'[d] = "done" /\ needDestroy'
      BY Zenon, <1>2, <2>1, <2>4
    <3>3. early \/ OneLooper
      <4>1. Entry(d) \in Loop /\ thread[Entry(d)] # "none"
        BY Zenon, <1>6, <2>1, EntryIs DEF Loopers, Alive
      <4>2. thread[Entry(d)] = "start"
        BY Zenon, <2>4, <4>1 DEF Loopers, Alive
      <4> QED
        BY Zenon, <1>1, <3>1, <4>1, <4>2 DEF Loopers, Exclusive, Unstarted
    <3>4. ~Destroying(d)'
      BY Zenon, <3>2 DEF Destroying
    <3>5. needDestroy' = TRUE
      BY ZenonT(30), <2>1, <2>4
    <3> QED
      BY ZenonT(30), <1>1, <1>2, <2>1, <3>1, <3>2, <3>3, <3>4, <3>5, DestroyerFrame
  <2> QED
    BY Zenon, <2>3, <2>4
<1> QED
  BY <1>2, <1>4, <1>5, <1>6

\* What holds when a destroyer is in DestroyLooper.
LEMMA DestroyingIs ==
  ASSUME Loopers, NEW d \in Destroyer, Destroying(d)
  PROVE  /\ destroy \in [Destroyer -> {"idle", "scan", "stop", "wait", "asleep", "free", "release", "done"}]
         /\ at \in [Destroyer -> 1..(Len(Loops) + 1)] /\ needDestroy \in BOOLEAN
         /\ Active(d) /\ Entry(d) \in Loop /\ at[d] \in 1..Len(Loops) /\ started
         /\ needDestroy => d # "app" /\ destroy["app"] = "done" /\ (early \/ OneLooper)
         /\ "app" \in Destroyer
<1>1. Active(d) /\ "app" \in Destroyer
  BY Zenon DEF Active, Destroyer
<1>2. Entry(d) \in Loop /\ at[d] \in 1..Len(Loops) /\ started
  BY Zenon, EntryIs DEF Loopers, Alive
<1>3. needDestroy => d # "app" /\ destroy["app"] = "done" /\ (early \/ OneLooper)
  BY Zenon DEF Loopers, Alive, Exclusive, Destroying
<1> QED
  BY Zenon, <1>1, <1>2, <1>3 DEF Loopers, LoopersTyped

\* DestroyLooper tells the looper to stop.
LEMMA StopKeepsLoopers ==
  ASSUME Loopers, Messages, NEW d \in Destroyer, DestroyStop(d)
  PROVE  Loopers'
<1> USE DEF globals, threads, posts, deinit
<1> DEFINE l == Entry(d)
<1>1. destroy[d] = "stop" /\ Destroying(d)
      /\ UNCHANGED <<creating, context, config, looperCnt, started, early, overlap, running,
                     current, post, needDestroy, at>>
  BY Zenon DEF DestroyStop, Destroying
<1>2. /\ destroy \in [Destroyer -> {"idle", "scan", "stop", "wait", "asleep", "free", "release", "done"}]
      /\ at \in [Destroyer -> 1..(Len(Loops) + 1)] /\ needDestroy \in BOOLEAN
      /\ Active(d) /\ l \in Loop /\ at[d] \in 1..Len(Loops) /\ started
      /\ needDestroy => d # "app" /\ destroy["app"] = "done" /\ (early \/ OneLooper)
      /\ "app" \in Destroyer
  BY Zenon, <1>1, DestroyingIs
<1>3. Entry(d)' = l
  BY Zenon, <1>1 DEF Entry
<1>4. at[d] <= Len(Loops) /\ at'[d] = at[d]
  BY <1>1, <1>2, LooperConstants
<1> HIDE DEF l
<1>5. CASE context[l] = "live"
  <2>1. /\ stop' = [stop EXCEPT ![l] = TRUE]
        /\ Broadcast(l)
        /\ destroy' = [destroy EXCEPT ![d] = "wait"]
    BY Zenon, <1>5 DEF DestroyStop, l
  <2>2. stop'[l] /\ \A k \in Loop : stop[k] => stop'[k]
    BY Zenon, <1>2, <2>1 DEF Messages, MessagesTyped
  <2>3. /\ \A k \in Loop : thread'[k] \in InLoop <=> thread[k] \in InLoop
        /\ \A k \in Loop : thread[k] \notin InLoop => thread'[k] = thread[k]
    BY Zenon, <1>2, <2>1, BroadcastIs
  <2>4. destroy'[d] = "wait" /\ (needDestroy => destroy'["app"] = "done")
    BY Zenon, <1>2, <2>1
  <2> QED
    BY Zenon, <1>1, <1>2, <1>3, <1>4, <1>5, <2>1, <2>2, <2>3, <2>4, DestroyerFrame
<1>6. CASE context[l] = "null"
  <2>1. /\ destroy' = [destroy EXCEPT ![d] = "release"]
        /\ UNCHANGED <<stop, thread>>
    BY Zenon, <1>6 DEF DestroyStop, l
  <2>2. early
    BY Zenon, <1>1, <1>6 DEF Loopers, Exclusive, l
  <2>3. LoopersTyped'
    BY Zenon, <1>1, <2>1 DEF Loopers, LoopersTyped
  <2>4. Alive'
    <3>1. /\ \A e \in Destroyer : e # d => destroy'[e] = destroy[e]
          /\ destroy'[d] = "release"
      BY Zenon, <1>2, <2>1
    <3>2. \A e \in Destroyer : Entry(e)' = Entry(e)
      BY Zenon, <1>1 DEF Entry
    <3>3. \A e \in Destroyer : Destroying(e)' <=> Destroying(e)
      BY Zenon, <1>1, <3>1 DEF Destroying
    <3>4. /\ creating <= Len(Loops) => destroy'["app"] = "idle"
          /\ destroy'["app"] = "idle" => \A k \in Loop : context[k] \in {"none", "live"}
          /\ needDestroy => destroy'["app"] = "done"
          /\ \A k \in Loop : destroy'[k] # "idle" => needDestroy /\ thread[k] = "over"
      <4>1. \A e \in Destroyer : destroy'[e] = "idle" <=> destroy[e] = "idle"
        BY Zenon, <1>1, <3>1
      <4>2. /\ creating <= Len(Loops) => destroy["app"] = "idle"
            /\ destroy["app"] = "idle" => \A k \in Loop : context[k] \in {"none", "live"}
            /\ \A k \in Loop : destroy[k] # "idle" => needDestroy /\ thread[k] = "over"
        BY Zenon DEF Loopers, Alive
      <4>3. needDestroy => destroy'["app"] = "done"
        BY Zenon, <1>2, <3>1
      <4> QED
        BY Zenon, <1>2, <4>1, <4>2, <4>3 DEF Destroyer
    <3>5. /\ \A e \in Destroyer : Destroying(e)' => at[e] <= Len(Loops) /\ started
          /\ \A e \in Destroyer : destroy'[e] \in {"wait", "asleep", "free"} => stop[Entry(e)]
          /\ \A e \in Destroyer : destroy'[e] = "free" => current[Entry(e)] = {}
      <4>1. /\ \A e \in Destroyer : Destroying(e) => at[e] <= Len(Loops) /\ started
            /\ \A e \in Destroyer : destroy[e] \in {"wait", "asleep", "free"} => stop[Entry(e)]
            /\ \A e \in Destroyer : destroy[e] = "free" => current[Entry(e)] = {}
        BY Zenon DEF Loopers, Alive
      <4> QED
        BY Zenon, <3>1, <3>3, <4>1
    <3> QED
      BY Zenon, <1>1, <2>1, <3>2, <3>4, <3>5 DEF Loopers, Alive
  <2>5. Exclusive'
    BY Zenon, <1>1, <2>2 DEF Exclusive
  <2> QED
    BY Zenon, <2>3, <2>4, <2>5 DEF Loopers
<1> QED
  BY Zenon, <1>5, <1>6 DEF DestroyStop, l

\* DestroyLooper waits.
LEMMA WaitKeepsLoopers ==
  ASSUME Loopers, Messages, NEW d \in Destroyer, DestroyWait(d)
  PROVE  Loopers'
<1> USE DEF globals, threads, posts, deinit
<1> DEFINE l == Entry(d)
           p == IF Ended(l) THEN "free" ELSE "asleep"
<1>1. /\ destroy[d] = "wait" /\ Destroying(d) /\ context[l] = "live"
      /\ destroy' = [destroy EXCEPT ![d] = p]
      /\ UNCHANGED <<creating, context, config, looperCnt, started, early, overlap, running, thread,
                     stop, current, post, needDestroy, at>>
  BY Zenon DEF DestroyWait, Destroying
<1>2. /\ destroy \in [Destroyer -> {"idle", "scan", "stop", "wait", "asleep", "free", "release", "done"}]
      /\ at \in [Destroyer -> 1..(Len(Loops) + 1)] /\ needDestroy \in BOOLEAN
      /\ Active(d) /\ l \in Loop /\ at[d] \in 1..Len(Loops) /\ started
      /\ needDestroy => d # "app" /\ destroy["app"] = "done" /\ (early \/ OneLooper)
      /\ "app" \in Destroyer
  BY Zenon, <1>1, DestroyingIs
<1>3. Entry(d)' = l
  BY Zenon, <1>1 DEF Entry
<1>4. at[d] <= Len(Loops) /\ at'[d] = at[d]
  BY SMTT(20), <1>1, <1>2, LooperConstants
<1>5. stop[l]
  BY Zenon, <1>1 DEF Loopers, Alive
<1>6. ASSUME Ended(l) PROVE current[l] = {} /\ (early \/ thread[l] = "over")
  <2>1. thread[l] \notin InLoop /\ thread[l] # "none"
    BY ZenonT(30), <1>1, <1>2, <1>6 DEF Loopers, Alive, Ended
  <2>2. current[l] = {}
    BY Zenon, <1>2, <2>1 DEF Messages, Owned, InLoop
  <2>3. ~early => thread[l] # "start"
    BY Zenon, <1>2, DestroyerAlone
  <2>4. thread[l] \in {"none", "start", "over"} \cup InLoop
    BY Zenon, <1>2 DEF Messages, MessagesTyped
  <2> QED
    BY Zenon, <2>1, <2>2, <2>3, <2>4
<1>7. /\ p \in {"free", "asleep"} /\ destroy'[d] = p
      /\ needDestroy => destroy'["app"] = "done"
      /\ p = "free" => Ended(l)
  BY Zenon, <1>1, <1>2
<1> HIDE DEF l, p
<1> QED
  BY ZenonT(30), <1>1, <1>2, <1>3, <1>4, <1>5, <1>6, <1>7, DestroyerFrame

\* DestroyLooper frees the context, or its caller the looper.
LEMMA EndFrame ==
  ASSUME Loopers, Messages, NEW d \in Destroyer, Destroying(d), NEW l, l = Entry(d),
         NEW p \in {"release", "scan"}, NEW c \in {"null", "freed"},
         p = "release" <=> c = "null",
         context[l] # "none",
         destroy' = [destroy EXCEPT ![d] = p],
         context' = [context EXCEPT ![l] = c],
         LoopersTyped',
         \A e \in Destroyer : e # d => at'[e] = at[e],
         p = "release" => at' = at,
         early \/ thread[l] = "over",
         overlap => overlap',
         ~overlap' => \A m \in Message : post[m] \in {"verify", "insert"} => Home[m] # l,
         UNCHANGED <<creating, started, needDestroy, early, running, thread, stop, current, post>>
  PROVE  Loopers'
<1>1. /\ destroy \in [Destroyer -> {"idle", "scan", "stop", "wait", "asleep", "free", "release", "done"}]
      /\ Active(d) /\ l \in Loop /\ at[d] \in 1..Len(Loops) /\ started
      /\ needDestroy => d # "app" /\ destroy["app"] = "done" /\ (early \/ OneLooper)
      /\ "app" \in Destroyer
  BY Zenon, DestroyingIs
<1>2. /\ \A e \in Destroyer : e # d => destroy'[e] = destroy[e]
      /\ destroy'[d] = p
      /\ \A k \in Loop : k # l => context'[k] = context[k]
      /\ context'[l] = c
  BY ZenonT(30), <1>1 DEF Loopers, LoopersTyped
<1>3. \A e \in Destroyer : e # d =>
        Entry(e)' = Entry(e) /\ (Destroying(e)' <=> Destroying(e)) /\ (Active(e)' <=> Active(e))
  BY Zenon, <1>2 DEF Entry, Destroying, Active
<1>4. \A k \in Loop : context'[k] = "none" <=> context[k] = "none"
  <2>1. c # "none"
    BY Zenon
  <2> QED
    BY Zenon, <1>2, <2>1
<1>5. destroy["app"] # "idle" /\ ~(creating <= Len(Loops))
  BY Zenon, <1>1 DEF Loopers, Alive, Active, Destroying, Destroyer
<1>6. p = "release" => Destroying(d)' /\ Entry(d)' = l
  BY Zenon, <1>2 DEF Destroying, Entry
<1>7. p = "scan" => ~Destroying(d)'
  BY ZenonT(30), <1>2 DEF Destroying
<1>8. Alive'
  <2>1. \A i \in DOMAIN Loops : i >= creating => context'[Loops[i]] = "none"
    <3>1. \A i \in DOMAIN Loops : Loops[i] \in Loop
      BY SMTT(20), LooperConstants
    <3> QED
      BY ZenonT(30), <1>4, <3>1 DEF Loopers, Alive
  <2>2. /\ \A k \in Loop : thread[k] = "none" <=> context'[k] = "none"
        /\ \A k \in Loop : running[k] <=> thread[k] \in InLoop
        /\ started <=> \E k \in Loop : thread[k] \notin {"none", "start"}
        /\ \A k \in Loop : context'[k] \in {"null", "freed"} => started
    BY ZenonT(30), <1>1, <1>4 DEF Loopers, Alive
  <2>3. /\ destroy'["app"] # "idle"
        /\ needDestroy => destroy'["app"] = "done"
        /\ \A k \in Loop : destroy'[k] # "idle" => needDestroy /\ thread[k] = "over"
    BY ZenonT(30), <1>1, <1>2, <1>5 DEF Loopers, Alive, Destroyer, Destroying
  <2>4. \A e \in Destroyer : Destroying(e)' => at'[e] <= Len(Loops) /\ started
    BY ZenonT(30), <1>1, <1>3, <1>7 DEF Loopers, Alive
  <2>5. /\ \A e \in Destroyer : destroy'[e] \in {"wait", "asleep", "free"} => stop[Entry(e)']
        /\ \A e \in Destroyer : destroy'[e] = "free" => current[Entry(e)'] = {}
    <3>1. destroy'[d] \notin {"wait", "asleep", "free"}
      BY Zenon, <1>2
    <3>2. ASSUME NEW e \in Destroyer, e # d
          PROVE  /\ destroy'[e] \in {"wait", "asleep", "free"} => stop[Entry(e)']
                 /\ destroy'[e] = "free" => current[Entry(e)'] = {}
      <4>1. /\ destroy[e] \in {"wait", "asleep", "free"} => stop[Entry(e)]
            /\ destroy[e] = "free" => current[Entry(e)] = {}
        BY Zenon DEF Loopers, Alive
      <4>2. destroy'[e] = destroy[e] /\ Entry(e)' = Entry(e)
        BY Zenon, <1>2, <1>3, <3>2
      <4> QED
        BY ZenonT(30), <4>1, <4>2
    <3> QED
      BY Zenon, <3>1, <3>2
  <2>6. overlap' \/ \A m \in Message : post[m] \in {"verify", "insert"} => context'[Home[m]] = "live"
    <3>1. \A m \in Message : Home[m] \in Loop
      BY Zenon, HomeIs
    <3> QED
      <4>1. overlap \/ \A m \in Message : post[m] \in {"verify", "insert"} => context[Home[m]] = "live"
        BY Zenon DEF Loopers, Alive
      <4> QED
        BY Zenon, <1>2, <3>1, <4>1
  <2> QED
    BY ZenonT(30), <1>5, <2>1, <2>2, <2>3, <2>4, <2>5, <2>6 DEF Alive
<1>9. ASSUME ~early PROVE Exclusive'
  <2>1. /\ \A e \in Destroyer : e # d => ~Active(e)
        /\ \A k \in Loop : context[k] = "null" => Entry(d) = k
    BY ZenonT(30), <1>1, <1>9, DestroyerAlone
  <2>2. Unstarted' = Unstarted /\ (OneLooper' <=> OneLooper)
    BY ZenonT(30), <1>4 DEF Unstarted, OneLooper
  <2>3. \A e \in Destroyer : e # d => ~Active(e)' /\ ~Destroying(e)'
    BY ZenonT(30), <1>3, <2>1 DEF Active
  <2>4. \A e, f \in Destroyer : Active(e)' /\ Active(f)' => e = f
    BY ZenonT(30), <2>3
  <2>5. \A e \in Destroyer : Destroying(e)' =>
          context'[Entry(e)'] = IF destroy'[e] = "release" THEN "null" ELSE "live"
    BY ZenonT(30), <1>2, <1>6, <1>7, <2>3
  <2>6. \A e \in Destroyer : destroy'[e] # "free"
    BY ZenonT(30), <1>2, <2>3 DEF Destroying
  <2>7. \A k \in Loop : context'[k] = "null" =>
          \E e \in Destroyer : destroy'[e] = "release" /\ Entry(e)' = k
    BY ZenonT(30), <1>2, <1>6, <2>1
  <2>8. \A k \in Loop : context'[k] \in {"null", "freed"} => thread[k] = "over"
    BY Zenon, <1>2, <1>9 DEF Loopers, Exclusive
  <2>9. (Unstarted = {} \/ OneLooper) /\ (needDestroy => OneLooper)
    BY Zenon, <1>5, <1>9 DEF Loopers, Exclusive
  <2> QED
    BY ZenonT(30), <1>9, <2>2, <2>4, <2>5, <2>6, <2>7, <2>8, <2>9 DEF Exclusive
<1>10. early => Exclusive'
  BY Zenon DEF Exclusive
<1> QED
  BY Zenon, <1>8, <1>9, <1>10 DEF Loopers

\* The context is freed.
LEMMA FreeKeepsLoopers ==
  ASSUME Loopers, Messages, NEW d \in Destroyer, DestroyFree(d)
  PROVE  Loopers'
<1> USE DEF globals, threads, posts, deinit
<1> DEFINE l == Entry(d)
<1>1. /\ destroy[d] = "free" /\ Destroying(d) /\ context[l] = "live"
      /\ destroy' = [destroy EXCEPT ![d] = "release"]
      /\ context' = [context EXCEPT ![l] = "null"]
      /\ overlap' = (overlap \/ Posting(l, {"verify", "insert"}) \/ removing[l] # {})
      /\ UNCHANGED <<creating, config, looperCnt, started, early, running, thread,
                     stop, current, post, needDestroy, at>>
  BY Zenon DEF DestroyFree, Destroying
<1>2. l \in Loop
  BY Zenon, <1>1, DestroyingIs
<1>3. early \/ thread[l] = "over"
  BY ZenonT(30), <1>1 DEF Loopers, Exclusive
<1>4. ~overlap' => \A m \in Message : post[m] \in {"verify", "insert"} => Home[m] # l
  BY ZenonT(30), <1>1 DEF Posting
<1> HIDE DEF l
<1>5. LoopersTyped'
  BY ZenonT(30), <1>1, <1>2 DEF Loopers, LoopersTyped
<1> QED
  BY Zenon, <1>1, <1>2, <1>3, <1>4, <1>5, EndFrame DEF l

\* The looper is freed.
LEMMA ReleaseKeepsLoopers ==
  ASSUME Loopers, Messages, NEW d \in Destroyer, DestroyRelease(d)
  PROVE  Loopers'
<1> USE DEF globals, threads, posts, deinit
<1> DEFINE l == Entry(d)
<1>1. /\ destroy[d] = "release" /\ Destroying(d) /\ context[l] = "null"
      /\ destroy' = [destroy EXCEPT ![d] = "scan"]
      /\ context' = [context EXCEPT ![l] = "freed"]
      /\ config' = config \ {l}
      /\ looperCnt' = IF looperCnt = 0 THEN 0 ELSE looperCnt - 1
      /\ at' = [at EXCEPT ![d] = @ + 1]
      /\ UNCHANGED <<creating, started, early, running, thread, stop, current, post, needDestroy,
                     overlap>>
  BY Zenon DEF DestroyRelease, Destroying
<1>2. l \in Loop /\ at[d] \in 1..Len(Loops)
  BY Zenon, <1>1, DestroyingIs
<1>3. early \/ thread[l] = "over"
  BY Zenon, <1>1, <1>2 DEF Loopers, Exclusive
<1>4. ~overlap => \A m \in Message : post[m] \in {"verify", "insert"} => Home[m] # l
  BY Zenon, <1>1 DEF Loopers, Alive
<1> HIDE DEF l
<1>5. LoopersTyped'
  <2>1. IsFiniteSet(config) /\ l \in config
    BY Zenon, <1>1, <1>2, LoopFinite, FS_Subset DEF Loopers, LoopersTyped
  <2>2. Cardinality(config') = Cardinality(config) - 1 /\ Cardinality(config) \in Nat
    BY Zenon, <1>1, <2>1, FS_RemoveElement, FS_CardinalityType
  <2>3. Cardinality(config) # 0
    BY Zenon, <2>1, FS_EmptySet
  <2>4. looperCnt' = Cardinality(config')
    BY Zenon, <1>1, <2>2, <2>3 DEF Loopers, LoopersTyped
  <2>5. at' \in [Destroyer -> 1..(Len(Loops) + 1)]
    BY <1>1, <1>2, LooperConstants DEF Loopers, LoopersTyped
  <2>6. config' = {k \in Loop : context'[k] \in {"live", "null"}}
    BY Zenon, <1>1, <1>2 DEF Loopers, LoopersTyped
  <2> QED
    BY Zenon, <1>1, <2>4, <2>5, <2>6 DEF Loopers, LoopersTyped
<1>6. \A e \in Destroyer : e # d => at'[e] = at[e]
  BY Zenon, <1>1 DEF Loopers, LoopersTyped
<1> QED
  BY ZenonT(30), <1>1, <1>2, <1>3, <1>4, <1>5, <1>6, EndFrame DEF l

\* Every step keeps the loopers in order.
LEMMA LoopersStep ==
  ASSUME Loopers, Messages, Next
  PROVE  Loopers'
<1>1. ASSUME NEW l \in Loop, ThreadStep(l) \/ LoopSpuriousWakeup(l) PROVE Loopers'
  BY Zenon, <1>1, WithinKeepsLoopers, StartKeepsLoopers, ExitKeepsLoopers DEF ThreadStep
<1>2. ASSUME NEW m \in Message, PostMessage(m) \/ PosterStep(m) PROVE Loopers'
  BY Zenon, <1>2, PostKeepsLoopers, WithinKeepsLoopers
<1>3. ASSUME NEW d \in Destroyer, DestroyerStep(d) PROVE Loopers'
  BY Zenon, <1>3, ScanKeepsLoopers, StopKeepsLoopers, WaitKeepsLoopers, FreeKeepsLoopers,
     ReleaseKeepsLoopers DEF DestroyerStep
<1>4. ASSUME NEW l \in Loop, NEW w \in Code(l), RemoveBegin(l, w) \/ RemoveMessage(l, w)
      PROVE  Loopers'
  BY Zenon, <1>4, CodeIs, BeginKeepsLoopers, WithinKeepsLoopers
<1>5. ASSUME CreateNewLooper \/ CreateFails \/ LooperDeinit \/ Tick PROVE Loopers'
  BY Zenon, <1>5, CreateKeepsLoopers, FailKeepsLoopers, DeinitKeepsLoopers, WithinKeepsLoopers
<1> QED
  BY Zenon, <1>1, <1>2, <1>3, <1>4, <1>5 DEF Next

\* A step that neither begins nor ends a removal and frees nothing.
LEMMA RemovalsFrame ==
  ASSUME Removals, UNCHANGED <<removing, context>>, overlap => overlap'
  PROVE  Removals'
BY Zenon DEF Removals

\* Every step keeps the removals at live contexts, or notes the overlap.
LEMMA RemovalsStep ==
  ASSUME Loopers, Removals, Next
  PROVE  Removals'
<1> USE DEF globals, threads, posts, deinit
<1>1. ASSUME NEW l \in Loop, ThreadStep(l) \/ LoopSpuriousWakeup(l) PROVE Removals'
  <2>1. UNCHANGED <<removing, context, overlap>>
    BY ZenonT(30), <1>1 DEF ThreadStep, LoopStart, LoopBreak, LoopWait, LoopTimeout, LoopTake,
       LoopHandled, LoopExit, LoopSpuriousWakeup
  <2> QED
    BY Zenon, <2>1, RemovalsFrame
<1>2. ASSUME NEW m \in Message, PostMessage(m) \/ PosterStep(m) PROVE Removals'
  <2>1. UNCHANGED <<removing, context>> /\ (overlap => overlap')
    <3>1. CASE PostMessage(m)
      <4>1. overlap' = (overlap \/ context[Home[m]] # "live")
        BY Zenon, <3>1 DEF PostMessage
      <4>2. UNCHANGED <<removing, context>>
        BY Zenon, <3>1 DEF PostMessage
      <4> QED
        BY Zenon, <4>1, <4>2
    <3>2. CASE PostVerify(m)
      BY Zenon, <3>2 DEF PostVerify
    <3>3. CASE PostInsert(m)
      BY Zenon, <3>3 DEF PostInsert
    <3> QED
      BY Zenon, <1>2, <3>1, <3>2, <3>3 DEF PosterStep
  <2> QED
    BY Zenon, <2>1, RemovalsFrame
<1>3. ASSUME NEW d \in Destroyer, DeinitScan(d) \/ DestroyStop(d) \/ DestroyWait(d) PROVE Removals'
  <2>1. UNCHANGED <<removing, context, overlap>>
    BY ZenonT(30), <1>3 DEF DeinitScan, DestroyStop, DestroyWait
  <2> QED
    BY Zenon, <2>1, RemovalsFrame
<1>4. ASSUME CreateFails \/ LooperDeinit \/ Tick PROVE Removals'
  <2>1. UNCHANGED <<removing, context, overlap>>
    BY ZenonT(30), <1>4 DEF CreateFails, LooperDeinit, Tick
  <2> QED
    BY Zenon, <2>1, RemovalsFrame
<1>5. ASSUME CreateNewLooper PROVE Removals'
  <2>1. context' = [context EXCEPT ![Loops[creating]] = "live"] /\ UNCHANGED <<removing, overlap>>
    BY Zenon, <1>5 DEF CreateNewLooper
  <2>2. \A k \in Loop : context[k] = "live" => context'[k] = "live"
    BY Zenon, <2>1 DEF Loopers, LoopersTyped
  <2> QED
    BY Zenon, <2>1, <2>2 DEF Removals
<1>6. ASSUME NEW d \in Destroyer, DestroyFree(d) \/ DestroyRelease(d) PROVE Removals'
  <2> DEFINE l == Entry(d)
  <2>1. /\ \E c \in {"null", "freed"} : context' = [context EXCEPT ![l] = c]
        /\ UNCHANGED removing /\ (overlap => overlap')
    <3>1. CASE DestroyFree(d)
      <4>1. /\ context' = [context EXCEPT ![l] = "null"] /\ UNCHANGED removing
            /\ overlap' = (overlap \/ Posting(l, {"verify", "insert"}) \/ removing[l] # {})
        BY Zenon, <3>1 DEF DestroyFree
      <4> HIDE DEF l
      <4> QED
        BY Zenon, <4>1
    <3>2. CASE DestroyRelease(d)
      <4>1. context' = [context EXCEPT ![l] = "freed"] /\ UNCHANGED <<removing, overlap>>
        BY Zenon, <3>2 DEF DestroyRelease
      <4> HIDE DEF l
      <4> QED
        BY Zenon, <4>1
    <3> QED
      BY Zenon, <1>6, <3>1, <3>2
  <2>2. \A k \in Loop : k # l => context'[k] = context[k]
    BY Zenon, <2>1 DEF Loopers, LoopersTyped
  <2>3. overlap' \/ removing[l] = {} \/ l \notin Loop
    <3>1. CASE DestroyFree(d)
      BY ZenonT(30), <3>1 DEF DestroyFree
    <3>2. CASE DestroyRelease(d)
      <4>1. context[l] = "null" /\ UNCHANGED overlap
        BY Zenon, <3>2 DEF DestroyRelease
      <4> HIDE DEF l
      <4> QED
        BY ZenonT(30), <4>1 DEF Removals
    <3> QED
      BY Zenon, <1>6, <3>1, <3>2
  <2> HIDE DEF l
  <2> QED
    BY ZenonT(30), <2>1, <2>2, <2>3 DEF Removals
<1>7. ASSUME NEW l \in Loop, NEW w \in Code(l), RemoveBegin(l, w) PROVE Removals'
  <2>1. /\ removing' = [removing EXCEPT ![l] = @ \cup {w}]
        /\ overlap' = (overlap \/ context[l] # "live") /\ UNCHANGED context
    BY Zenon, <1>7 DEF RemoveBegin
  <2>2. w \in Codes
    BY Zenon, CodeIs
  <2>3. removing' \in [Loop -> SUBSET Codes]
    BY Zenon, <2>1, <2>2 DEF Removals
  <2>4. \A k \in Loop : k # l => removing'[k] = removing[k]
    BY Zenon, <2>1 DEF Removals
  <2> QED
    BY ZenonT(30), <2>1, <2>3, <2>4 DEF Removals
<1>8. ASSUME NEW l \in Loop, NEW w \in Code(l), RemoveMessage(l, w) PROVE Removals'
  <2>1. /\ removing' = [removing EXCEPT ![l] = @ \ {w}]
        /\ context[l] = "live" /\ UNCHANGED <<context, overlap>>
    BY Zenon, <1>8 DEF RemoveMessage
  <2>2. removing' \in [Loop -> SUBSET Codes]
    BY Zenon, <2>1 DEF Removals
  <2>3. \A k \in Loop : k # l => removing'[k] = removing[k]
    BY Zenon, <2>1 DEF Removals
  <2> QED
    BY ZenonT(30), <2>1, <2>2, <2>3 DEF Removals
<1> QED
  BY ZenonT(30), <1>1, <1>2, <1>3, <1>4, <1>5, <1>6, <1>7, <1>8 DEF Next, DestroyerStep

-----------------------------------------------------------------------------
(* The theorems *)

\* The invariant holds at the start.
LEMMA InitInv ==
  ASSUME Init
  PROVE  IInv
<1>1. Loop # {} /\ Len(Loops) \in Nat /\ MaxTime \in Nat /\ "app" \in Destroyer /\ "app" \notin Loop
  BY LooperConstants DEF Loop, Range, Destroyer
<1>2. MessagesTyped
  BY <1>1 DEF Init, MessagesTyped, Due
<1>3. \A l \in Loop : Range(list[l]) = {} /\ Range(posted[l]) = {}
  BY DEF Init, Range
<1>4. \A l \in Loop : IsInjective(list[l]) /\ IsInjective(posted[l])
  BY DEF Init, IsInjective
<1>5. Owned
  BY Zenon, <1>3, <1>4 DEF Init, Owned
<1>6. Chronological
  <2>1. \A l \in Loop : DOMAIN list[l] = {}
    BY DEF Init
  <2> QED
    BY Zenon, <1>3, <1>4, <2>1 DEF Init, Chronological
<1>7. LoopersTyped
  <2>1. Cardinality({}) = 0
    BY Zenon, FS_EmptySet
  <2>2. {l \in Loop : context[l] \in {"live", "null"}} = {} /\ config = {} /\ looperCnt = 0
    BY Zenon DEF Init
  <2>3. config = {l \in Loop : context[l] \in {"live", "null"}} /\ looperCnt = Cardinality(config)
    BY Zenon, <2>1, <2>2
  <2>4. creating \in 1..(Len(Loops) + 1) /\ at \in [Destroyer -> 1..(Len(Loops) + 1)]
    BY <1>1 DEF Init
  <2>5. context \in [Loop -> {"none", "live", "null", "freed"}]
    BY Zenon DEF Init
  <2>6. destroy \in [Destroyer -> {"idle", "scan", "stop", "wait", "asleep", "free", "release", "done"}]
    BY Zenon DEF Init
  <2>7. {started, needDestroy, early, overlap} \subseteq BOOLEAN
    BY ZenonT(30) DEF Init
  <2> QED
    BY Zenon, <2>3, <2>4, <2>5, <2>6, <2>7 DEF LoopersTyped
<1>8. \A d \in Destroyer : destroy[d] = "idle" /\ ~Destroying(d) /\ ~Active(d)
  BY Zenon DEF Init, Destroying, Active
<1>9. \A i \in DOMAIN Loops : Loops[i] \in Loop
  BY LooperConstants
<1>10. Alive
  BY Zenon, <1>1, <1>8, <1>9 DEF Init, Alive, InLoop, Destroyer
<1>11. Exclusive
  BY Zenon, <1>1, <1>8 DEF Init, Exclusive
<1>12. Removals
  BY Zenon DEF Init, Removals
<1> QED
  BY Zenon, <1>2, <1>5, <1>6, <1>7, <1>10, <1>11, <1>12 DEF IInv, Messages, Loopers

\* Every step keeps it.
LEMMA InvStep ==
  ASSUME IInv, [Next]_vars
  PROVE  IInv'
<1>1. CASE Next
  BY Zenon, <1>1, MessagesStep, LoopersStep, RemovalsStep DEF IInv, Loopers
<1>2. CASE UNCHANGED vars
  <2> USE <1>2 DEF vars, globals, threads, posts, deinit
  <2>1. MessagesTyped' /\ Owned' /\ Chronological'
    <3>1. MessagesTyped'
      BY Zenon DEF IInv, Messages, MessagesTyped
    <3>2. Owned'
      BY DEF IInv, Messages, Owned
    <3>3. Chronological'
      <4>1. /\ \A l \in Loop : IsInjective(posted[l])
            /\ \A l \in Loop : \A m \in Range(posted[l]) : Home[m] = l /\ post[m] = "done"
            /\ \A l \in Loop : Range(list[l]) \subseteq Range(posted[l])
        BY Zenon DEF IInv, Messages, Chronological
      <4>2. \A l \in Loop : \A i, j \in DOMAIN list[l] : i < j =>
              \/ time[list[l][i]] < time[list[l][j]]
              \/ time[list[l][i]] = time[list[l][j]] /\ Precedes(posted[l], list[l][i], list[l][j])
        BY Zenon DEF IInv, Messages, Chronological
      <4>3. \A l \in Loop : ~stop[l] => \A m \in Range(list[l]) : What[m] \notin quiet[l]
        BY Zenon DEF IInv, Messages, Chronological
      <4> QED
        BY <4>1, <4>2, <4>3 DEF Chronological
    <3> QED
      BY Zenon, <3>1, <3>2, <3>3
  <2>2. LoopersTyped'
    BY Zenon DEF IInv, Loopers, LoopersTyped
  <2>3. Alive'
    BY Zenon DEF IInv, Loopers, Alive, Destroying, Entry
  <2>4. Exclusive'
    BY Zenon, ExclusiveFrame DEF IInv, Unstarted
  <2>5. Removals'
    BY Zenon, RemovalsFrame DEF IInv
  <2> QED
    BY Zenon, <2>1, <2>2, <2>3, <2>4, <2>5 DEF IInv, Messages, Loopers
<1> QED
  BY Zenon, <1>1, <1>2

\* The messages, the lists, the loopers and the destroyers agree in every
\* state that the message loops reach.
THEOREM Invariance == Spec => []IInv
<1>1. Init => IInv
  BY Zenon, InitInv
<1>2. IInv /\ [Next]_vars => IInv'
  BY Zenon, InvStep
<1> QED
  BY <1>1, <1>2, PTL DEF Spec

\* A posted message has one owner, and none is freed twice: what
\* PostMessageAtTime, LoopTask, LoopRemoveMessageCustom and DestroyLooper do
\* with it, whatever their order.
THEOREM OwnedOnce == Spec => []OneOwner
<1>1. IInv => OneOwner
  <2> SUFFICES ASSUME IInv, NEW m \in Message, post[m] = "done"
               PROVE  freed[m] + Cardinality({l \in Loop : m \in Range(list[l])})
                        + Cardinality({l \in Loop : m \in current[l]}) = 1
    BY Zenon DEF OneOwner
  <2> DEFINE h == Home[m]
             L == {l \in Loop : m \in Range(list[l])}
             C == {l \in Loop : m \in current[l]}
  <2>1. h \in Loop
    BY Zenon, HomeIs
  <2>2. \A l \in L : l = h /\ freed[m] = 0 /\ m \notin current[l]
    BY DEF IInv, Messages, Owned
  <2>3. \A l \in C : l = h /\ freed[m] = 0
    BY DEF IInv, Messages, Owned
  <2>4. freed[m] \in {0, 1} /\ (freed[m] = 1 \/ h \in L \/ h \in C)
    BY Zenon, <2>1 DEF IInv, Messages, MessagesTyped, Owned
  <2>5. Cardinality({}) = 0 /\ Cardinality({h}) = 1
    BY Zenon, FS_EmptySet, FS_Singleton
  <2> HIDE DEF h
  <2>6. CASE freed[m] = 1
    <3>1. L = {} /\ C = {}
      BY <2>2, <2>3, <2>6
    <3> QED
      BY <2>5, <2>6, <3>1
  <2>7. CASE h \in L
    <3>1. L = {h} /\ C = {} /\ freed[m] = 0
      BY Zenon, <2>2, <2>3, <2>7
    <3>2. Cardinality(L) = 1 /\ Cardinality(C) = 0
      BY Zenon, <2>5, <3>1
    <3> QED
      BY <3>1, <3>2
  <2>8. CASE h \in C
    <3>1. L = {} /\ C = {h} /\ freed[m] = 0
      BY Zenon, <2>2, <2>3, <2>8
    <3>2. Cardinality(L) = 0 /\ Cardinality(C) = 1
      BY Zenon, <2>5, <3>1
    <3> QED
      BY <3>1, <3>2
  <2> QED
    BY Zenon, <2>4, <2>6, <2>7, <2>8
<1> QED
  BY <1>1, Invariance, PTL

\* Unless LooperDeinit came before the threads of several loopers had started,
\* neither LoopTask nor DestroyLooper follows a pointer to a freed context or
\* looper, and g_looperCnt is right: their handshake holds whatever is posted
\* and removed meanwhile.  A post or a removal follows such a pointer only when
\* it overlapped the end of its looper.
THEOREM FreedUnused == Spec => []NoUseAfterFree
<1>1. IInv => NoUseAfterFree
  <2> SUFFICES ASSUME IInv, ~early
               PROVE  /\ \A l \in Loop : ~OwnerDangles(l)
                      /\ (\E l \in Loop : CallerDangles(l)) => overlap
                      /\ looperCnt = Cardinality({l \in Loop : context[l] \in {"live", "null"}})
    BY Zenon DEF NoUseAfterFree
  <2>1. looperCnt = Cardinality({l \in Loop : context[l] \in {"live", "null"}})
    BY Zenon DEF IInv, Loopers, LoopersTyped
  <2>2. ASSUME NEW l \in Loop, context[l] \in {"null", "freed"} PROVE ~ThreadIn(l)
    <3>1. thread[l] = "over"
      BY Zenon, <2>2 DEF IInv, Loopers, Exclusive
    <3> QED
      BY Zenon, <3>1 DEF ThreadIn
  <2>3. ASSUME NEW l \in Loop, context[l] = "freed" PROVE ~DestroyerIn(l)
    <3>1. l \notin config
      BY Zenon, <2>3 DEF IInv, Loopers, LoopersTyped
    <3>2. \A d \in Destroyer : Destroying(d) => Entry(d) # l
      BY Zenon, <2>3 DEF IInv, Loopers, Exclusive
    <3> QED
      BY Zenon, <3>1, <3>2 DEF DestroyerIn, Destroying
  <2>4. ASSUME NEW l \in Loop, context[l] = "null", NEW d \in Destroyer,
               destroy[d] \in {"scan", "wait", "asleep", "free"}
        PROVE  FALSE
    <3>1. Active(d)
      BY ZenonT(30), <2>4 DEF Active, Destroying
    <3> QED
      BY Zenon, <2>4, <3>1, DestroyerAlone DEF IInv
  <2>5. \A l \in Loop : ~OwnerDangles(l)
    BY Zenon, <2>2, <2>3, <2>4 DEF OwnerDangles
  <2>6. ASSUME NEW l \in Loop, CallerDangles(l), ~overlap PROVE FALSE
    <3>1. context[l] \in {"null", "freed"}
      BY Zenon, <2>6 DEF CallerDangles
    <3>2. removing[l] = {}
      BY Zenon, <2>6, <3>1 DEF IInv, Removals
    <3>3. \A m \in Message : post[m] \in {"verify", "insert"} => Home[m] # l
      BY Zenon, <2>6, <3>1 DEF IInv, Loopers, Alive
    <3> QED
      BY Zenon, <2>6, <3>2, <3>3 DEF CallerDangles, Posting
  <2> QED
    BY Zenon, <2>1, <2>5, <2>6
<1> QED
  BY <1>1, Invariance, PTL

\* No message with a code that has been removed is begun until one is posted
\* again: LoopRemoveMessageCustom against LoopTask.
THEOREM RemovedStaysQuiet == Spec => QuietAfterRemove
<1> DEFINE Quiet == \A l \in Loop : \A m \in current'[l] \ current[l] : What[m] \notin quiet[l]
<1>1. IInv /\ [Next]_vars => [Quiet]_vars
  <2> SUFFICES ASSUME IInv, Next PROVE Quiet
    BY Zenon
  <2> USE DEF globals, threads, posts, deinit
  <2>1. ASSUME NEW l \in Loop, LoopTake(l) PROVE Quiet
    <3>1. list[l] \in Seq(Message) /\ IsInjective(list[l])
      BY DEF IInv, Messages, MessagesTyped, Owned
    <3>2. ~stop[l] /\ list[l] # <<>> /\ current' = [current EXCEPT ![l] = {Head(list[l])}]
      BY Zenon, <2>1 DEF LoopTake
    <3>3. Head(list[l]) \in Range(list[l])
      BY Zenon, <3>1, <3>2, HeadIs
    <3>4. What[Head(list[l])] \notin quiet[l]
      BY ZenonT(30), <3>2, <3>3 DEF IInv, Messages, Chronological
    <3> QED
      BY Zenon, <3>2, <3>4 DEF IInv, Messages, MessagesTyped
  <2>2. ASSUME NEW l \in Loop, LoopHandled(l) PROVE Quiet
    BY Zenon, <2>2 DEF LoopHandled, IInv, Messages, MessagesTyped
  <2>3. ASSUME UNCHANGED current PROVE Quiet
    BY ZenonT(30), <2>3
  <2>4. ASSUME NEW l \in Loop,
               LoopStart(l) \/ LoopBreak(l) \/ LoopWait(l) \/ LoopTimeout(l)
                 \/ LoopSpuriousWakeup(l) \/ LoopExit(l)
        PROVE  UNCHANGED current
    BY ZenonT(30), <2>4
       DEF LoopStart, LoopBreak, LoopWait, LoopTimeout, LoopSpuriousWakeup, LoopExit
  <2>5. ASSUME NEW m \in Message, PostMessage(m) \/ PosterStep(m) PROVE UNCHANGED current
    BY ZenonT(30), <2>5 DEF PostMessage, PosterStep, PostVerify, PostInsert
  <2>6. ASSUME NEW d \in Destroyer, DestroyerStep(d) PROVE UNCHANGED current
    BY ZenonT(30), <2>6
       DEF DestroyerStep, DeinitScan, DestroyStop, DestroyWait, DestroyFree, DestroyRelease
  <2>7. ASSUME NEW l \in Loop, NEW w \in Code(l), RemoveBegin(l, w) \/ RemoveMessage(l, w)
        PROVE  UNCHANGED current
    BY ZenonT(30), <2>7 DEF RemoveBegin, RemoveMessage
  <2>8. ASSUME CreateNewLooper \/ CreateFails \/ LooperDeinit \/ Tick PROVE UNCHANGED current
    BY Zenon, <2>8 DEF CreateNewLooper, CreateFails, LooperDeinit, Tick
  <2> HIDE DEF Quiet
  <2> QED
    BY Zenon, <2>1, <2>2, <2>3, <2>4, <2>5, <2>6, <2>7, <2>8 DEF Next, ThreadStep
<1> QED
  BY <1>1, Invariance, PTL DEF Spec, QuietAfterRemove

-----------------------------------------------------------------------------
(* The refinement of the timed queue, by the first looper *)

\* Steps that touch neither the posts nor the list, the message and the stop
\* flag of any looper.
LEMMA OthersStutter ==
  ASSUME UNCHANGED <<now, posted, time, list, current, stop>>
  PROVE  UNCHANGED Queue!tqVars
<1>1. UNCHANGED <<View, Range(list[first]), current[first], stop[first]>>
  BY Zenon DEF View, first
<1> QED
  BY ZenonT(30), <1>1, Stutters

\* A thread's step is the beginning or the end of a handler of the first looper.
LEMMA ThreadRefines ==
  ASSUME Messages, NEW l \in Loop, ThreadStep(l) \/ LoopSpuriousWakeup(l)
  PROVE  Queue!TQNext \/ UNCHANGED Queue!tqVars
<1> USE DEF globals, threads, posts, deinit
<1>1. CASE LoopTake(l) /\ l = first
  BY Zenon, <1>1, TakeRefines DEF Queue!TQNext
<1>2. CASE LoopTake(l) /\ l # first
  <2>1. UNCHANGED <<now, posted, time, stop, list[first], current[first]>>
    BY <1>2 DEF LoopTake, Messages, MessagesTyped, first
  <2>2. UNCHANGED <<View, Range(list[first]), stop[first]>>
    BY Zenon, <2>1 DEF View, first
  <2> QED
    BY Zenon, <2>1, <2>2, Stutters
<1>3. CASE LoopHandled(l)
  <2>1. /\ UNCHANGED <<now, posted, time, stop, list>>
        /\ current' = [current EXCEPT ![l] = {}]
    BY Zenon, <1>3 DEF LoopHandled
  <2>2. UNCHANGED <<View, Range(list[first]), stop[first]>>
    BY Zenon, <2>1 DEF View, first
  <2>3. CASE l = first /\ current[first] # {}
    <3>1. current[first]' = {}
      BY ZenonT(30), <2>1, <2>3 DEF Messages, MessagesTyped, first
    <3>2. Queue!TQEnd
      BY Zenon, <2>1, <2>2, <2>3, <3>1 DEF Queue!TQEnd, View, first
    <3> QED
      BY Zenon, <3>2 DEF Queue!TQNext
  <2>4. CASE l # first \/ current[first] = {}
    <3>1. UNCHANGED current[first]
      BY Zenon, <2>1, <2>4, FirstIs DEF Messages, MessagesTyped, first
    <3> QED
      BY ZenonT(30), <2>1, <2>2, <3>1, Stutters
  <2> QED
    BY Zenon, <2>3, <2>4
<1>4. CASE \/ LoopStart(l) \/ LoopBreak(l) \/ LoopWait(l) \/ LoopTimeout(l) \/ LoopExit(l)
           \/ LoopSpuriousWakeup(l)
  <2>1. UNCHANGED <<now, posted, time, list, current, stop>>
    BY Zenon, <1>4 DEF LoopStart, LoopBreak, LoopWait, LoopTimeout, LoopExit, LoopSpuriousWakeup
  <2> QED
    BY ZenonT(30), <2>1, OthersStutter
<1> QED
  BY Zenon, <1>1, <1>2, <1>3, <1>4 DEF ThreadStep

\* A post is one at its insertion into the first looper.
LEMMA PostRefines ==
  ASSUME Messages, NEW m \in Message, PostMessage(m) \/ PosterStep(m)
  PROVE  Queue!TQNext \/ UNCHANGED Queue!tqVars
<1> USE DEF globals, threads, posts, deinit
<1>1. CASE PostMessage(m)
  <2>1. UNCHANGED <<now, posted, list, current, stop>>
    BY ZenonT(30), <1>1 DEF PostMessage
  <2>2. \A n \in Message : post[n] = "done" => time'[n] = time[n]
    BY ZenonT(30), <1>1 DEF PostMessage, Messages, MessagesTyped
  <2>3. UNCHANGED <<posted[first], Range(list[first]), current[first], stop[first]>>
    BY Zenon, <2>1 DEF first
  <2>4. UNCHANGED View
    BY Zenon, <2>2, <2>3, ViewKept
  <2> QED
    BY ZenonT(30), <2>1, <2>3, <2>4, Stutters
<1>2. CASE PostVerify(m)
  <2>1. UNCHANGED <<now, posted, time, list, current, stop>>
    BY Zenon, <1>2 DEF PostVerify
  <2> QED
    BY Zenon, <2>1, OthersStutter
<1>3. CASE PostInsert(m) /\ stop[Home[m]]
  <2>1. UNCHANGED <<now, posted, time, list, current, stop>>
    BY ZenonT(30), <1>3 DEF PostInsert
  <2> QED
    BY ZenonT(30), <2>1, OthersStutter
<1>4. CASE PostInsert(m) /\ ~stop[Home[m]] /\ Home[m] # first
  <2>1. /\ UNCHANGED <<now, time, current, stop>>
        /\ \E s : list' = [list EXCEPT ![Home[m]] = s]
        /\ \E p : posted' = [posted EXCEPT ![Home[m]] = p]
    BY Zenon, <1>4 DEF PostInsert
  <2>2. list'[first] = list[first] /\ posted'[first] = posted[first]
    BY ZenonT(30), <1>4, <2>1, FirstIs DEF Messages, MessagesTyped
  <2>3. UNCHANGED <<View, Range(list[first]), current[first], stop[first]>>
    BY Zenon, <2>1, <2>2 DEF View, first
  <2> QED
    BY Zenon, <2>1, <2>3, Stutters
<1>5. CASE PostInsert(m) /\ ~stop[Home[m]] /\ Home[m] = first
  BY Zenon, <1>5, InsertRefines DEF Queue!TQNext
<1> QED
  BY Zenon, <1>1, <1>2, <1>3, <1>4, <1>5 DEF PosterStep

\* A removal takes messages out while the first looper is open.
LEMMA RemoveRefines ==
  ASSUME Messages, NEW l \in Loop, NEW w \in Codes, RemoveMessage(l, w)
  PROVE  Queue!TQNext \/ UNCHANGED Queue!tqVars
<1> USE DEF globals, threads, posts, deinit
<1> DEFINE gone == Matching(l, w)
           r == Without(list[l], gone)
<1>1. /\ UNCHANGED <<now, posted, time, current, stop>>
      /\ list' = [list EXCEPT ![l] = r]
  BY ZenonT(30) DEF RemoveMessage
<1>2. UNCHANGED <<View, current[first], stop[first]>>
  BY Zenon, <1>1 DEF View, first
<1>3. list[l] \in Seq(Message)
  BY Zenon DEF Messages, MessagesTyped
<1>4. Range(r) = Range(list[l]) \ gone
  BY Zenon, <1>3, WithoutIs, SiftedIs
<1>5. stop[l] => gone = {}
  BY ZenonT(30) DEF Matching
<1> HIDE DEF gone, r
<1>6. CASE l # first \/ stop[first]
  <2>1. Range(list[first])' = Range(list[first])
    <3>1. CASE l # first
      BY SMTT(20), <1>1, <3>1 DEF Messages, MessagesTyped, first
    <3>2. CASE l = first
      <4>1. list'[first] = r
        BY Zenon, <1>1, <3>2 DEF Messages, MessagesTyped
      <4> QED
        BY ZenonT(30), <1>4, <1>5, <1>6, <3>2, <4>1 DEF first
    <3> QED
      BY Zenon, <3>1, <3>2
  <2> QED
    BY Zenon, <1>1, <1>2, <2>1, Stutters
<1>7. CASE l = first /\ ~stop[first]
  <2>1. list'[first] = r
    BY Zenon, <1>1, <1>7 DEF Messages, MessagesTyped
  <2>2. Range(list[first])' \in SUBSET Range(list[first])
    BY ZenonT(30), <1>4, <1>7, <2>1 DEF first
  <2>3. Queue!TQRemove
    BY Zenon, <1>1, <1>2, <1>7, <2>2 DEF Queue!TQRemove, View, first
  <2> QED
    BY Zenon, <2>3 DEF Queue!TQNext
<1> QED
  BY Zenon, <1>6, <1>7

\* DestroyLooper closes the first looper, and later discards its list.
LEMMA DestroyRefines ==
  ASSUME Messages, Loopers, NEW d \in Destroyer, DestroyerStep(d)
  PROVE  Queue!TQNext \/ UNCHANGED Queue!tqVars
<1> USE DEF globals, threads, posts, deinit
<1> DEFINE l == Entry(d)
<1>1. CASE DestroyStop(d)
  <2>1. UNCHANGED <<now, posted, time, list, current>>
        /\ (stop' = [stop EXCEPT ![l] = TRUE] \/ UNCHANGED stop)
    BY ZenonT(30), <1>1 DEF DestroyStop
  <2>2. UNCHANGED <<View, Range(list[first]), current[first]>>
    BY Zenon, <2>1 DEF View, first
  <2>3. UNCHANGED stop[first] \/ stop[first]' = TRUE
    BY ZenonT(30), <2>1, FirstIs DEF Messages, MessagesTyped, first
  <2>4. CASE UNCHANGED stop[first]
    BY Zenon, <2>1, <2>2, <2>4, Stutters
  <2>5. CASE stop[first]' = TRUE
    <3>1. Queue!TQClose
      BY Zenon, <2>1, <2>2, <2>5 DEF Queue!TQClose, View, first
    <3> QED
      BY Zenon, <3>1 DEF Queue!TQNext
  <2> QED
    BY ZenonT(30), <2>3, <2>4, <2>5
<1>2. CASE DestroyFree(d)
  <2>1. UNCHANGED <<now, posted, time, current, stop>>
        /\ list' = [list EXCEPT ![l] = <<>>] /\ destroy[d] = "free"
    BY Zenon, <1>2 DEF DestroyFree
  <2>2. UNCHANGED <<View, current[first], stop[first]>>
    BY Zenon, <2>1 DEF View, first
  <2>3. stop[l] /\ current[l] = {}
    BY Zenon, <2>1 DEF Loopers, Alive
  <2> HIDE DEF l
  <2>4. CASE l = first
    <3>1. list'[first] = <<>>
      BY Zenon, <2>1, <2>4, FirstIs DEF Messages, MessagesTyped
    <3>2. Range(list[first])' = {}
      BY SMTT(20), <3>1 DEF first, Range
    <3>3. Queue!TQDiscard
      BY ZenonT(30), <2>1, <2>2, <2>3, <2>4, <3>2 DEF Queue!TQDiscard, View, first
    <3> QED
      BY Zenon, <3>3 DEF Queue!TQNext
  <2>5. CASE l # first
    <3>1. Range(list[first])' = Range(list[first])
      BY <2>1, <2>5 DEF Messages, MessagesTyped, first
    <3> QED
      BY ZenonT(30), <2>1, <2>2, <3>1, Stutters
  <2> QED
    BY Zenon, <2>4, <2>5
<1>3. CASE DeinitScan(d) \/ DestroyWait(d) \/ DestroyRelease(d)
  <2>1. UNCHANGED <<now, posted, time, list, current, stop>>
    BY Zenon, <1>3 DEF DeinitScan, DestroyWait, DestroyRelease
  <2> QED
    BY Zenon, <2>1, OthersStutter
<1> QED
  BY Zenon, <1>1, <1>2, <1>3 DEF DestroyerStep

\* The first looper starts as an empty open queue.
LEMMA RefineInit ==
  ASSUME Init
  PROVE  Queue!TQInit
<1>1. first \in Loop
  BY SMTT(20), LooperConstants DEF first
<1>2. /\ now = 0 /\ list[first] = <<>> /\ posted[first] = <<>>
      /\ current[first] = {} /\ stop[first] = FALSE
  BY Zenon, <1>1 DEF Init
<1>3. View = <<>> /\ Range(list[first]) = {}
  BY SMTT(30), <1>2 DEF View, Range
<1> QED
  BY Zenon, <1>2, <1>3 DEF Queue!TQInit, View, first

\* Every step is one of the timed queue, or none.
LEMMA RefineStep ==
  ASSUME IInv, [Next]_vars
  PROVE  [Queue!TQNext]_(Queue!tqVars)
<1> USE DEF globals, threads, posts, deinit
<1>1. CASE UNCHANGED vars
  <2>1. UNCHANGED <<now, posted, time, list, current, stop>>
    BY Zenon, <1>1 DEF vars
  <2> QED
    BY Zenon, <2>1, OthersStutter
<1>2. CASE CreateNewLooper \/ CreateFails \/ LooperDeinit
  <2>1. UNCHANGED <<now, posted, time, list, current, stop>>
    BY Zenon, <1>2 DEF CreateNewLooper, CreateFails, LooperDeinit
  <2> QED
    BY Zenon, <2>1, OthersStutter
<1>3. CASE Tick
  <2>1. now' = now + 1 /\ UNCHANGED <<posted, time, list, current, stop>>
    BY Zenon, <1>3 DEF Tick
  <2>2. Queue!TQTick
    BY Zenon, <2>1 DEF Queue!TQTick
  <2> QED
    BY Zenon, <2>2 DEF Queue!TQNext
<1>4. Messages /\ Loopers
  BY Zenon DEF IInv
<1>5. ASSUME NEW l \in Loop, NEW w \in Code(l), RemoveBegin(l, w)
      PROVE  UNCHANGED Queue!tqVars
  <2>1. UNCHANGED <<now, posted, time, list, current, stop>>
    BY Zenon, <1>5 DEF RemoveBegin
  <2> QED
    BY Zenon, <2>1, OthersStutter
<1>6. ASSUME NEW l \in Loop, NEW w \in Code(l), RemoveMessage(l, w)
      PROVE  Queue!TQNext \/ UNCHANGED Queue!tqVars
  BY Zenon, <1>4, <1>6, CodeIs, RemoveRefines
<1> QED
  BY Zenon, <1>1, <1>2, <1>3, <1>4, <1>5, <1>6, ThreadRefines, PostRefines, DestroyRefines
     DEF Next

\* LoopTask with its list is a timed queue: the messages of a looper are handled
\* one at a time, at most once, in the order of their times and of their posts.
THEOREM LooperIsTimedQueue == Spec => ImplementsTimedQueue
<1>1. IInv /\ [Next]_vars => [Queue!TQNext]_(Queue!tqVars)
  BY Zenon, RefineStep
<1>2. Init => Queue!TQInit
  BY Zenon, RefineInit
<1> QED
  BY <1>1, <1>2, Invariance, PTL DEF Spec, ImplementsTimedQueue, Queue!TQSpec
=============================================================================
