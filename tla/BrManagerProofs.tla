-------------------------- MODULE BrManagerProofs --------------------------
(***************************************************************************)
(* BrManager: the messages of the looper keep the inductive invariant, and *)
(* what the invariant shows of every reachable state.                      *)
(***************************************************************************)
EXTENDS BrManagerSteps

USE Zenon

Taken(m) == [m EXCEPT !.msgs = Tail(m.msgs)]

LEMMA TakenIs ==
  \A m \in Manager :
    m.msgs # <<>>
    => LET n == Taken(m)
       IN  /\ n \in Manager /\ Shrunk(n, m) /\ Head(m.msgs) = m.msgs[1] /\ m.msgs[1] \in Message
           /\ SameDevices(n, m) /\ SameTimes(n, m) /\ n.conns = m.conns /\ n.answers = m.answers
<1>TailIs. ASSUME NEW S, NEW s \in Seq(S), s # <<>>
           PROVE  LET t == Tail(s)
                  IN  /\ t \in Seq(S) /\ 1 \in DOMAIN s /\ Head(s) = s[1] /\ Head(s) \in S
                      /\ \A i \in DOMAIN t : i + 1 \in DOMAIN s /\ i + 1 # 1 /\ t[i] = s[i + 1]
                      /\ \A i \in DOMAIN s : i # 1 => \E j \in DOMAIN t : j + 1 = i /\ t[j] = s[i]
                      /\ \A i, j \in DOMAIN t : (i + 1 = j + 1 => i = j) /\ (i + 1 < j + 1 => i < j)
  <2> USE <1>TailIs
  <2>1. /\ Tail(s) \in Seq(S) /\ Len(Tail(s)) = Len(s) - 1 /\ Len(s) \in Nat \ {0}
        /\ Head(s) = s[1] /\ 1 \in DOMAIN s /\ Head(s) \in S
        /\ \A i \in 1..(Len(s) - 1) : Tail(s)[i] = s[i + 1]
        /\ DOMAIN s = 1..Len(s) /\ DOMAIN Tail(s) = 1..(Len(s) - 1)
    BY SMT
  <2>2. ASSUME NEW i \in DOMAIN s, i # 1
        PROVE  \E j \in DOMAIN Tail(s) : j + 1 = i /\ Tail(s)[j] = s[i]
    <3>1. i - 1 \in DOMAIN Tail(s) /\ (i - 1) + 1 = i
      BY <2>1, <2>2, SMT
    <3> QED
      BY <2>1, <3>1
  <2>3. \A i \in DOMAIN Tail(s) : i + 1 \in DOMAIN s /\ i + 1 # 1 /\ Tail(s)[i] = s[i + 1]
    BY <2>1, SMT
  <2>4. \A i, j \in DOMAIN Tail(s) : (i + 1 = j + 1 => i = j) /\ (i + 1 < j + 1 => i < j)
    BY <2>1, SMT
  <2> QED
    BY <2>1, <2>2, <2>3, <2>4
<1> TAKE m \in Manager
<1> HAVE m.msgs # <<>>
<1> DEFINE t == Tail(m.msgs)
           n == Taken(m)
<1>1. m.msgs \in Seq(Message)
  BY FieldTypes
<1>2. /\ t \in Seq(Message) /\ 1 \in DOMAIN m.msgs /\ Head(m.msgs) = m.msgs[1] /\ Head(m.msgs) \in Message
      /\ \A i \in DOMAIN t : i + 1 \in DOMAIN m.msgs /\ i + 1 # 1 /\ t[i] = m.msgs[i + 1]
      /\ \A i \in DOMAIN m.msgs : i # 1 => \E j \in DOMAIN t : j + 1 = i /\ t[j] = m.msgs[i]
      /\ \A i, j \in DOMAIN t : (i + 1 = j + 1 => i = j) /\ (i + 1 < j + 1 => i < j)
  BY <1>1, <1>TailIs
<1>3. t \in Seq(Message)
  BY <1>2
<1> DEFINE k == [m EXCEPT !.msgs = t]
<1>4. n = k
  BY DEF Taken
<1> HIDE DEF t
<1>7. /\ k \in Manager /\ k.msgs = t
      /\ SameDevices(k, m) /\ SameTimes(k, m) /\ k.conns = m.conns /\ k.answers = m.answers
  BY <1>3, SetMsgs DEF SameDevices, SameTimes
<1> HIDE DEF n, k
<1>5. /\ n \in Manager /\ n.msgs = t
      /\ SameDevices(n, m) /\ SameTimes(n, m) /\ n.conns = m.conns /\ n.answers = m.answers
  BY <1>4, <1>7
<1>6. Shrunk(n, m)
  BY <1>2, <1>5 DEF Shrunk
<1> QED
  BY <1>2, <1>5, <1>6 DEF n

LEMMA AttemptRest ==
  ASSUME NEW m, NEW n, NEW th, NEW id, Attempt(m, th, id), Shrunk(n, m),
         n.conns = m.conns, n.connecting = m.connecting, n.timers = m.timers,
         ~At(m, 1, "SUCCESS", id), ~At(m, 1, "FAIL", id)
  PROVE  Attempt(n, th, id)
<1>1. Due(n, th, id)
  <2>1. Sent(m, "SUCCESS", id) => Sent(n, "SUCCESS", id)
    BY SentRest
  <2>2. Failed(m, id) => Failed(n, id)
    BY SentRest DEF Failed, DelayedFail
  <2> QED
    BY <2>1, <2>2 DEF Attempt, Due
<1> QED
  BY <1>1 DEF Attempt

LEMMA TallyRest ==
  ASSUME SetLaws
  PROVE  \A m \in Manager, n \in Manager : \A th :
            /\ Tally(m, th)
            /\ Shrunk(n, m)
            /\ n.conns = m.conns
           => /\ Unclaimed(n, th)
              /\ \A id \in DOMAIN m.conns :
                   Surplus(m.conns[id]) = Cardinality(Releases(n, id)) + (IF At(m, 1, "DISCONNECT", id) THEN 1 ELSE 0)
              /\ m.msgs[1].what # "DISCONNECT" => Tally(n, th)
\* A release is counted until it is handled.
<1>ReleasesRest. ASSUME NEW m \in Manager, NEW n \in Manager, Shrunk(n, m), NEW id
                 PROVE  Cardinality(Releases(n, id))
                          = IF At(m, 1, "DISCONNECT", id) THEN Cardinality(Releases(m, id)) - 1
                            ELSE Cardinality(Releases(m, id))
  <2> USE <1>ReleasesRest
  <2> DEFINE A == Releases(n, id)
             B == Releases(m, id) \ {1}
             f == [i \in A |-> i + 1]
  <2>1. \A i \in A : i \in DOMAIN n.msgs /\ At(n, i, "DISCONNECT", id)
    BY DEF Releases
  <2>2. \A i \in A : f[i] \in B
    <3> SUFFICES ASSUME NEW i \in A PROVE i + 1 \in B
      OBVIOUS
    <3>1. At(m, i + 1, "DISCONNECT", id) /\ i + 1 # 1
      BY <2>1, SentRest DEF Shrunk
    <3> QED
      BY <3>1 DEF Releases, At
  <2>3. \A i, j \in A : f[i] = f[j] => i = j
    <3> SUFFICES ASSUME NEW i \in A, NEW j \in A, i + 1 = j + 1 PROVE i = j
      OBVIOUS
    <3> QED
      BY <2>1 DEF Shrunk
  <2>4. \A k \in B : \E i \in A : f[i] = k
    <3> SUFFICES ASSUME NEW k \in B PROVE \E i \in A : i + 1 = k
      OBVIOUS
    <3>1. k \in DOMAIN m.msgs /\ k # 1 /\ At(m, k, "DISCONNECT", id)
      BY DEF Releases
    <3>2. PICK i \in DOMAIN n.msgs : i + 1 = k /\ n.msgs[i] = m.msgs[k]
      BY <3>1 DEF Shrunk
    <3>3. i \in A
      BY <3>1, <3>2 DEF Releases, At
    <3> QED
      BY <3>2, <3>3
  <2>5. f \in [A -> B]
    BY <2>2
  <2>6. IsFiniteSet(A) /\ IsFiniteSet(Releases(m, id))
    BY ReleasesFinite
  <2> HIDE DEF A, B, f
  <2>7. Cardinality(B) = Cardinality(A)
    <3>1. \A S, T : \A g \in [S -> T] :
            /\ IsFiniteSet(S)
            /\ \A i, j \in S : g[i] = g[j] => i = j
            /\ \A k \in T : \E i \in S : g[i] = k
            => Cardinality(T) = Cardinality(S)
      BY DEF SetLaws
    <3> QED
      BY <2>3, <2>4, <2>5, <2>6, <3>1
  <2>8. Cardinality(B) = IF 1 \in Releases(m, id) THEN Cardinality(Releases(m, id)) - 1
                         ELSE Cardinality(Releases(m, id))
    BY <2>6 DEF B, SetLaws
  <2>9. 1 \in Releases(m, id) <=> At(m, 1, "DISCONNECT", id)
    BY DEF Releases, At
  <2> QED
    BY <2>7, <2>8, <2>9 DEF A
<1> TAKE m \in Manager, n \in Manager
<1> TAKE th
<1> HAVE /\ Tally(m, th)
         /\ Shrunk(n, m)
         /\ n.conns = m.conns
<1>1. Unclaimed(n, th)
  BY SentRest DEF Tally, Unclaimed
<1>2. ASSUME NEW id \in DOMAIN m.conns
      PROVE  Surplus(m.conns[id]) = Cardinality(Releases(n, id)) + (IF At(m, 1, "DISCONNECT", id) THEN 1 ELSE 0)
  <2>1. Surplus(m.conns[id]) = Cardinality(Releases(m, id))
    BY DEF Tally, Counted
  <2>2. Cardinality(Releases(m, id)) \in Nat
    BY ReleasesFinite
  <2>3. Cardinality(Releases(n, id))
           = IF At(m, 1, "DISCONNECT", id) THEN Cardinality(Releases(m, id)) - 1
             ELSE Cardinality(Releases(m, id))
    BY <1>ReleasesRest
  <2> QED
    BY SMT, <2>1, <2>2, <2>3
<1>3. ASSUME m.msgs[1].what # "DISCONNECT"
      PROVE  Counted(n)
  <2> SUFFICES ASSUME NEW id \in DOMAIN m.conns
               PROVE  Surplus(m.conns[id]) = Cardinality(Releases(n, id))
    BY DEF Counted
  <2>1. ~At(m, 1, "DISCONNECT", id)
    BY <1>3 DEF At
  <2>2. Surplus(m.conns[id]) = Cardinality(Releases(n, id)) + 0 /\ Cardinality(Releases(n, id)) \in Nat
    BY <1>2, <2>1, ReleasesFinite
  <2> QED
    BY SMT, <2>2
<1> QED
  BY <1>1, <1>2, <1>3 DEF Tally

\* The state of the looper after it has taken a message.
LEMMA GoodRest ==
  ASSUME SetLaws
  PROVE  \A m \in Manager : \A th, C :
            /\ m.msgs # <<>>
            /\ Good(m, th, C, {})
           => LET n == Taken(m)
              IN  /\ n \in Manager /\ Shape(n) /\ Matched(n) /\ Told(n, th) /\ Unclaimed(n, th)
                  /\ m.msgs[1] \in Message
                  /\ m.msgs[1].what # "CONNECT_REQUEST" => Once(n, C, {})
                  /\ m.msgs[1].what = "CONNECT_REQUEST" => Once(n, C, {m.msgs[1].req})
                  /\ m.msgs[1].what \notin {"SUCCESS", "FAIL"} => Timed(n, th)
                  /\ m.msgs[1].what # "DISCONNECT" => Tally(n, th)
                  /\ m.msgs[1].what # "NEXT_CMD" => (Awake(m) => Awake(n))
<1>OnceRest. ASSUME NEW m, NEW n, NEW C, Once(m, C, {}), Shrunk(n, m), SameDevices(n, m), n.answers = m.answers
             PROVE  /\ m.msgs[1].what # "CONNECT_REQUEST" => Once(n, C, {})
                    /\ m.msgs[1].what = "CONNECT_REQUEST" => Once(n, C, {m.msgs[1].req})
  <2> USE <1>OnceRest
  <2> DEFINE H == IF m.msgs[1].what = "CONNECT_REQUEST" THEN {m.msgs[1].req} ELSE {}
  <2> SUFFICES ASSUME NEW r \in Req PROVE AskedOnce(n, r) /\ WaitedOnce(n, r) /\ Placed(n, C, H, r)
    BY DEF Once
  <2>1. r \in H <=> Asks(m, 1, r)
    BY DEF Asks
  <2> HIDE DEF H
  <2>2. AskedOnce(m, r) /\ WaitedOnce(m, r) /\ Placed(m, C, {}, r)
    BY DEF Once
  <2>3. AskedOnce(n, r)
    <3> SUFFICES ASSUME NEW i \in DOMAIN n.msgs, NEW j \in DOMAIN n.msgs, Asks(n, i, r), Asks(n, j, r)
                 PROVE  i = j
      BY DEF AskedOnce
    <3>1. i + 1 \in DOMAIN m.msgs /\ j + 1 \in DOMAIN m.msgs /\ Asks(m, i + 1, r) /\ Asks(m, j + 1, r)
      BY DEF Shrunk, Asks
    <3>2. i + 1 = j + 1
      BY <2>2, <3>1 DEF AskedOnce
    <3> QED
      BY <3>2 DEF Shrunk
  <2>4. r \in H => ~Asked(n, r)
    <3> SUFFICES ASSUME Asks(m, 1, r), NEW i \in DOMAIN n.msgs, Asks(n, i, r) PROVE FALSE
      BY <2>1 DEF Asked
    <3>1. i + 1 \in DOMAIN m.msgs /\ i + 1 # 1 /\ Asks(m, i + 1, r) /\ 1 \in DOMAIN m.msgs
      BY DEF Shrunk, Asks
    <3> QED
      BY <2>2, <3>1 DEF AskedOnce
  <2>5. Asked(m, r) <=> Asked(n, r) \/ r \in H
    <3>1. Asked(n, r) => Asked(m, r)
      <4>1. \A i \in DOMAIN n.msgs : i + 1 \in DOMAIN m.msgs /\ n.msgs[i] = m.msgs[i + 1]
        BY DEF Shrunk
      <4> QED
        BY <4>1 DEF Asked, Asks
    <3>2. r \in H => Asked(m, r)
      BY <2>1 DEF Asked, Shrunk
    <3>3. ASSUME NEW i \in DOMAIN m.msgs, Asks(m, i, r), r \notin H
          PROVE  Asked(n, r)
      <4>1. i # 1
        BY <2>1, <3>3
      <4>2. PICK j \in DOMAIN n.msgs : n.msgs[j] = m.msgs[i]
        BY <4>1 DEF Shrunk
      <4> QED
        BY <3>3, <4>2 DEF Asked, Asks
    <3> QED
      BY <3>1, <3>2, <3>3 DEF Asked
  <2>6. WaitedOnce(n, r) /\ (Waited(n, r) <=> Waited(m, r)) /\ (Dialed(n, r) <=> Dialed(m, r))
    BY <2>2 DEF WaitedOnce, Waited, Dialed, SameDevices
  <2>7. n.answers[r] = m.answers[r] /\ r \notin {}
    OBVIOUS
  <2> QED
    BY <2>2, <2>3, <2>4, <2>5, <2>6, <2>7 DEF Placed
<1>ToldRest. ASSUME NEW m, NEW n, NEW th, Told(m, th), Shrunk(n, m), n.timers = m.timers, n.conns = m.conns
             PROVE  Told(n, th)
  <2> USE <1>ToldRest
  <2>1. Known(n, th)
    <3>1. \A i \in DOMAIN n.msgs : i + 1 \in DOMAIN m.msgs /\ n.msgs[i] = m.msgs[i + 1]
      BY DEF Shrunk
    <3> QED
      BY <3>1 DEF Told, Known
  <2>2. Running(n, th)
    BY DEF Told, Running
  <2>3. ASSUME NEW id \in DOMAIN th
        PROVE  /\ Sent(n, "SUCCESS", id) =>
                    /\ th[id] \in {"reading", "done"}
                    /\ id \in DOMAIN n.conns /\ n.conns[id].side = "client"
               /\ Sent(n, "EXCEPTION", id) => th[id] = "done"
               /\ Failed(n, id) => th[id] = "done" /\ ~Sent(n, "SUCCESS", id) /\ ~Sent(n, "EXCEPTION", id)
    BY SentRest DEF Told, Outcomes, Failed, DelayedFail
  <2>4. ASSUME NEW id \in DOMAIN th, NEW i \in DOMAIN n.msgs, NEW j \in DOMAIN n.msgs
        PROVE  /\ At(n, i, "SUCCESS", id) /\ At(n, j, "SUCCESS", id) => i = j
               /\ At(n, i, "SUCCESS", id) /\ At(n, j, "EXCEPTION", id) => i < j
    <3>1. i + 1 \in DOMAIN m.msgs /\ j + 1 \in DOMAIN m.msgs
      BY DEF Shrunk
    <3>2. /\ At(m, i + 1, "SUCCESS", id) /\ At(m, j + 1, "SUCCESS", id) => i + 1 = j + 1
          /\ At(m, i + 1, "SUCCESS", id) /\ At(m, j + 1, "EXCEPTION", id) => i + 1 < j + 1
      BY <3>1 DEF Told, Outcomes
    <3>3. (i + 1 = j + 1 => i = j) /\ (i + 1 < j + 1 => i < j)
      BY DEF Shrunk
    <3> QED
      BY <3>2, <3>3, SentRest
  <2>5. Outcomes(n, th)
    BY <2>3, <2>4 DEF Outcomes
  <2> QED
    BY <2>1, <2>2, <2>5 DEF Told
<1>TimedRest. ASSUME NEW m, NEW n, NEW th, Timed(m, th), Shrunk(n, m), SameDevices(n, m), n.conns = m.conns,
                     n.timers = m.timers, m.msgs[1].what \notin {"SUCCESS", "FAIL"}
              PROVE  Timed(n, th)
  <2> USE <1>TimedRest
  <2>1. \A id : ~At(m, 1, "SUCCESS", id) /\ ~At(m, 1, "FAIL", id)
    BY DEF At
  <2>2. n.connecting = m.connecting /\ n.state = m.state
    BY DEF SameDevices
  <2>3. \A id \in Id : Attempt(m, th, id) => Attempt(n, th, id)
    BY <2>1, <2>2, AttemptRest
  <2> QED
    BY <2>2, <2>3 DEF Timed
<1> TAKE m \in Manager
<1> TAKE th, C
<1> HAVE /\ m.msgs # <<>>
         /\ Good(m, th, C, {})
<1> DEFINE n == Taken(m)
<1>1. /\ n \in Manager /\ Shrunk(n, m) /\ m.msgs[1] \in Message
      /\ SameDevices(n, m) /\ SameTimes(n, m) /\ n.conns = m.conns /\ n.answers = m.answers
  BY TakenIs
<1> HIDE DEF n
<1>2. Shape(m) /\ Told(m, th) /\ Once(m, C, {}) /\ Tally(m, th) /\ Matched(m) /\ Timed(m, th)
  BY DEF Good, Core
<1>3. n.timers = m.timers /\ n.connecting = m.connecting /\ n.waitings = m.waitings /\ n.state = m.state
  BY <1>1 DEF SameDevices, SameTimes
<1>4. Shape(n)
  <2>1. SameEnds(n, m) /\ SameUnpends(n, m)
    BY <1>1, SameConns, SameTimesAre DEF SameButTimeouts
  <2> QED
    BY <1>2, <1>3, <2>1, ShapeFrame
<1>5. Matched(n)
  BY <1>2, <1>3 DEF Matched
<1>6. Told(n, th)
  BY <1>1, <1>2, <1>3, <1>ToldRest
<1>7. /\ m.msgs[1].what # "CONNECT_REQUEST" => Once(n, C, {})
      /\ m.msgs[1].what = "CONNECT_REQUEST" => Once(n, C, {m.msgs[1].req})
  BY <1>1, <1>2, <1>OnceRest
<1>8. m.msgs[1].what \notin {"SUCCESS", "FAIL"} => Timed(n, th)
  BY <1>1, <1>2, <1>3, <1>TimedRest
<1>9. Unclaimed(n, th) /\ (m.msgs[1].what # "DISCONNECT" => Tally(n, th))
  BY <1>1, <1>2, TallyRest
<1>10. m.msgs[1].what # "NEXT_CMD" => (Awake(m) => Awake(n))
  BY <1>1, SentRest, AwakeFrame
<1> QED
  BY <1>1, <1>4, <1>5, <1>6, <1>7, <1>8, <1>9, <1>10 DEF n

LEMMA RestIs == Rest = Taken(mgr) /\ Current = Head(mgr.msgs)
BY DEF Rest, Taken, Current

LEMMA RestGood ==
  ASSUME SetLaws,
         Inv, mgr.msgs # <<>>
  PROVE  /\ mgr \in Manager /\ Good(mgr, thread, called, {})
         /\ Rest \in Manager /\ Rest.conns = mgr.conns /\ Rest.connecting = mgr.connecting
         /\ Rest.state = mgr.state /\ Rest.timers = mgr.timers /\ Shrunk(Rest, mgr)
         /\ Current = mgr.msgs[1] /\ Current \in Message
         /\ Shape(Rest) /\ Matched(Rest) /\ Told(Rest, thread) /\ Unclaimed(Rest, thread)
         /\ Current.what # "CONNECT_REQUEST" => Once(Rest, called, {})
         /\ Current.what = "CONNECT_REQUEST" => Once(Rest, called, {Current.req})
         /\ Current.what \notin {"SUCCESS", "FAIL"} => Timed(Rest, thread)
         /\ Current.what # "DISCONNECT" => Tally(Rest, thread)
         /\ Current.what # "NEXT_CMD" => (Awake(mgr) => Awake(Rest))
<1> DEFINE n == Taken(mgr)
<1>1. Rest = n /\ Current = Head(mgr.msgs)
  BY RestIs
<1>2. mgr \in Manager /\ Good(mgr, thread, called, {})
  BY DEF Inv, Typed
<1>3. /\ n \in Manager /\ Shape(n) /\ Matched(n) /\ Told(n, thread) /\ Unclaimed(n, thread)
      /\ mgr.msgs[1] \in Message
      /\ mgr.msgs[1].what # "CONNECT_REQUEST" => Once(n, called, {})
      /\ mgr.msgs[1].what = "CONNECT_REQUEST" => Once(n, called, {mgr.msgs[1].req})
      /\ mgr.msgs[1].what \notin {"SUCCESS", "FAIL"} => Timed(n, thread)
      /\ mgr.msgs[1].what # "DISCONNECT" => Tally(n, thread)
      /\ mgr.msgs[1].what # "NEXT_CMD" => (Awake(mgr) => Awake(n))
  BY <1>2, GoodRest
<1>4. /\ n \in Manager /\ Shrunk(n, mgr) /\ Head(mgr.msgs) = mgr.msgs[1] /\ mgr.msgs[1] \in Message
      /\ SameDevices(n, mgr) /\ SameTimes(n, mgr) /\ n.conns = mgr.conns /\ n.answers = mgr.answers
  BY <1>2, TakenIs
<1> HIDE DEF n
<1>5. Current = mgr.msgs[1]
  BY <1>1, <1>4
<1>6. n.connecting = mgr.connecting /\ n.state = mgr.state /\ n.timers = mgr.timers
  BY <1>4 DEF SameDevices, SameTimes
<1> QED
  BY <1>1, <1>2, <1>3, <1>4, <1>5, <1>6

\* The handler of the first message, after it is taken.
LEMMA Handled ==
  ASSUME SetLaws,
         Inv, NEW n, Sound(n, Rest, thread, called), mgr.msgs # <<>>, Current.what # "NEXT_CMD"
  PROVE  Sound(n, mgr, thread, called)
BY RestGood DEF Sound

\* Messages whose handlers need nothing but the invariant.
LEMMA PlainRest ==
  ASSUME SetLaws,
         Inv, mgr.msgs # <<>>, Current.what \in {"ACCEPTED", "RESUME", "EXCEPTION", "RESET"}
  PROVE  Rest \in Manager /\ Good(Rest, thread, called, {})
<1>1. /\ Current.what # "CONNECT_REQUEST" /\ Current.what \notin {"SUCCESS", "FAIL"}
      /\ Current.what # "DISCONNECT"
  OBVIOUS
<1>2. Rest \in Manager /\ Shape(Rest) /\ Matched(Rest) /\ Told(Rest, thread)
  BY RestGood
<1>3. Once(Rest, called, {}) /\ Timed(Rest, thread) /\ Tally(Rest, thread)
  BY <1>1, RestGood
<1> QED
  BY <1>2, <1>3 DEF Good, Core

\* What Reset leaves, before the change of state.
Cleared(b, tm, cs) ==
  [b EXCEPT !.connecting = None, !.waitings = <<>>, !.pendings = {}, !.timers = tm, !.conns = cs]

\* Every socket of the list is closed.
AllCut(m) == DisconnectAll(m.conns)

LEMMA ResetStep ==
  ASSUME SetLaws
  PROVE  /\ Inv
         /\ HandleReset
        => Inv'
<1>ResetSound. \A m \in Manager : \A th, C :
                 Good(m, th, C, {})
                 => Sound(Reset(m), m, th, C)
  \* A reset answers the requests of all devices.
  <2>OnceReset. ASSUME NEW m, NEW n, NEW C, NEW R, Once(m, C, {}), SameAsks(n, m), n.connecting = None,
                       n.waitings = <<>>, \A r \in Req : r \in R <=> Dialed(m, r) \/ Waited(m, r),
                       \A r \in Req : n.answers[r] = IF r \in R THEN m.answers[r] + 1 ELSE m.answers[r]
                PROVE  Once(n, C, {})
    <3> USE <2>OnceReset
    <3> SUFFICES ASSUME NEW r \in Req
                 PROVE  AskedOnce(n, r) /\ WaitedOnce(n, r) /\ Placed(n, C, {}, r)
      BY DEF Once
    <3>1. AskedOnce(m, r) /\ WaitedOnce(m, r) /\ Placed(m, C, {}, r)
      BY DEF Once
    <3>2. AskedOnce(n, r) /\ (Asked(n, r) <=> Asked(m, r))
      BY <3>1 DEF AskedOnce, Asked, SameAsks
    <3>3. WaitedOnce(n, r) /\ ~Waited(n, r)
      <4>1. DOMAIN n.waitings = {}
        BY SMT
      <4> QED
        BY <4>1 DEF WaitedOnce, Waited
    <3>4. ~Dialed(n, r)
      BY NoneIs DEF Dialed
    <3>5. CASE r \in R
      <4>1. n.answers[r] = m.answers[r] + 1 /\ m.answers[r] = 0 /\ ~Asked(m, r) /\ r \in C
        BY <3>1, <3>5 DEF Placed
      <4>2. n.answers[r] = 1 /\ n.answers[r] # 0
        BY <4>1, SMT
      <4> QED
        BY <3>2, <3>3, <3>4, <4>1, <4>2 DEF Placed
    <3>6. CASE r \notin R
      <4>1. n.answers[r] = m.answers[r] /\ ~Dialed(m, r) /\ ~Waited(m, r)
        BY <3>6
      <4> QED
        BY <3>1, <3>2, <3>3, <3>4, <4>1 DEF Placed
    <3> QED
      BY <3>5, <3>6
  <2>ClearedIs. ASSUME NEW b \in Manager, NEW tm \in SUBSET Timer, NEW cs \in Conns
                PROVE  LET n == Cleared(b, tm, cs)
                       IN  /\ n \in Manager /\ n.connecting = None /\ n.waitings = <<>> /\ n.pendings = {}
                           /\ n.timers = tm /\ n.conns = cs
                           /\ n.state = b.state /\ n.msgs = b.msgs /\ n.answers = b.answers /\ n.passed = b.passed
    <3>1. None \in Device \cup {None} /\ {} \in SUBSET Addr
      OBVIOUS
    <3>2. <<>> \in Seq(Device)
      BY SMT
    <3> QED
      BY <3>1, <3>2 DEF Cleared, Manager
  <2>AllCutIs. ASSUME NEW m \in Manager, NEW n, n.conns = AllCut(m)
               PROVE  AllCut(m) \in Conns /\ SameEnds(n, m) /\ SameCounts(n, m)
    <3> USE <2>AllCutIs
    <3> DEFINE cs == AllCut(m)
    <3>1. m.conns \in Conns
      BY FieldTypes
    <3>2. PICK D \in SUBSET Id : m.conns \in [D -> Saved]
      BY <3>1 DEF Conns
    <3>3. ASSUME NEW i \in DOMAIN m.conns
          PROVE  /\ cs[i] \in Saved /\ cs[i].addr = m.conns[i].addr /\ cs[i].side = m.conns[i].side
                 /\ cs[i].unclaimed = m.conns[i].unclaimed /\ Surplus(cs[i]) = Surplus(m.conns[i])
      <4> DEFINE c == m.conns[i]
                 link == DisconnectNow(c.link)
                 e == [c EXCEPT !.link = link]
      <4>1. c \in Saved
        BY <3>2
      <4>2. cs[i] = e
        BY DEF AllCut, DisconnectAll
      <4> HIDE DEF c
      <4>3. c.link \in Connection
        BY <4>1, SavedTypes
      <4>4. link \in Connection /\ link.rc = c.link.rc
        <5>1. 0 \in Int
          BY SMT
        <5> QED
          BY <4>3, <5>1, LinkTypes
      <4> HIDE DEF link
      <4>5. /\ e \in Saved /\ e.addr = c.addr /\ e.side = c.side /\ e.unclaimed = c.unclaimed
            /\ e.link = link /\ e.mine = c.mine /\ e.peers = c.peers
        BY <4>1, <4>4 DEF Saved
      <4>6. Surplus(e) = Surplus(c)
        BY <4>4, <4>5 DEF Surplus
      <4> HIDE DEF e, cs
      <4> QED
        BY <4>2, <4>5, <4>6 DEF c
    <3>4. DOMAIN cs = DOMAIN m.conns
      BY DEF AllCut, DisconnectAll
    <3>5. cs \in [DOMAIN m.conns -> Saved] /\ DOMAIN m.conns \in SUBSET Id
      BY <3>2, <3>3 DEF AllCut, DisconnectAll
    <3>6. cs \in Conns
      BY <3>5 DEF Conns
    <3> HIDE DEF cs
    <3>7. n.conns = cs
      BY DEF cs
    <3>8. SameEnds(n, m) /\ SameCounts(n, m)
      BY <3>3, <3>4, <3>7 DEF SameEnds, SameCounts
    <3> QED
      BY <3>6, <3>8 DEF cs
  <2>ResetShape. ASSUME NEW m, NEW n, Shape(m), SameEnds(n, m), n.waitings = <<>>, n.pendings = {},
                        \A addr \in m.pendings : Unpend(addr) \notin n.timers, n.timers \in SUBSET m.timers
                 PROVE  Shape(n)
    <3> USE <2>ResetShape
    <3>1. DOMAIN n.waitings = {}
      BY SMT
    <3>2. OneDevice(n)
      BY <3>1 DEF OneDevice
    <3>3. OneClient(n)
      BY DEF Shape, OneClient, SameEnds
    <3>4. Wakers(n)
      <4>1. \A addr \in Addr : Unpend(addr) \notin n.timers
        BY DEF Shape, Wakers
      <4> QED
        BY <3>1, <4>1 DEF Wakers
    <3> QED
      BY <3>2, <3>3, <3>4 DEF Shape
  <2> TAKE m \in Manager
  <2> TAKE th, C
  <2> HAVE Good(m, th, C, {})
  <2> DEFINE client == GetConnectionByAddr(m, m.connecting.addr, "client")
             reqs == m.connecting.reqs \cup UNION {m.waitings[i].reqs : i \in DOMAIN m.waitings}
             a == Answered(m, reqs)
             b == CancelTimeout(a, client)
             tm == b.timers \ [what : {"UNPEND"}, addr : m.pendings]
             r == Cleared(b, tm, AllCut(b))
             e == TransitionToState(r, "AVAILABLE")
  <2>1. Reset(m) = e
    BY DEF Reset, Cleared, AllCut
  <2>2. \A q : q \in reqs <=> Dialed(m, q) \/ Waited(m, q)
    BY DEF Dialed, Waited
  <2> HIDE DEF reqs, client
  <2>3. /\ a \in Manager
        /\ \A q \in Req : a.answers[q] = IF q \in reqs THEN m.answers[q] + 1 ELSE m.answers[q]
        /\ SameDevices(a, m) /\ SameTimes(a, m) /\ a.conns = m.conns /\ a.msgs = m.msgs
    BY AnsweredIs
  <2> HIDE DEF a
  <2>4. a \in Manager
    BY <2>3
  <2>5. /\ b \in Manager /\ b.timers \in SUBSET a.timers
        /\ SameDevices(b, a) /\ b.conns = a.conns /\ b.answers = a.answers /\ b.msgs = a.msgs
    BY <2>4, CancelTimeoutIs
  <2> HIDE DEF b
  <2>6. b \in Manager /\ tm \in SUBSET b.timers /\ b.timers \in SUBSET Timer
    BY <2>5, FieldTypes
  <2>7. \A addr \in m.pendings : Unpend(addr) \notin tm
    BY DEF Unpend
  <2> HIDE DEF tm
  <2>8. AllCut(b) \in Conns
    <3>1. [conns |-> AllCut(b)].conns = AllCut(b)
      OBVIOUS
    <3> QED
      BY <2>6, <3>1, <2>AllCutIs
  <2>9. tm \in SUBSET Timer
    BY <2>6
  <2>10. /\ r \in Manager /\ r.connecting = None /\ r.waitings = <<>> /\ r.pendings = {}
         /\ r.timers = tm /\ r.conns = AllCut(b)
         /\ r.state = b.state /\ r.msgs = b.msgs /\ r.answers = b.answers /\ r.passed = b.passed
    <3> DEFINE cs == AllCut(b)
    <3> HIDE DEF cs
    <3>1. b \in Manager /\ cs \in Conns
      BY <2>6, <2>8 DEF cs
    <3>2. LET n == Cleared(b, tm, cs)
          IN  /\ n \in Manager /\ n.connecting = None /\ n.waitings = <<>> /\ n.pendings = {}
              /\ n.timers = tm /\ n.conns = cs
              /\ n.state = b.state /\ n.msgs = b.msgs /\ n.answers = b.answers /\ n.passed = b.passed
      BY SMT, <3>1, <2>9, <2>ClearedIs
    <3> QED
      BY <3>2 DEF cs
  <2> HIDE DEF r
  <2>11. SameEnds(r, b) /\ SameCounts(r, b)
    BY <2>6, <2>10, <2>AllCutIs
  <2>12. SameEnds(r, m) /\ SameCounts(r, m)
    BY <2>3, <2>5, <2>11 DEF SameEnds, SameCounts
  <2>13. r.timers \in SUBSET m.timers
    BY <2>3, <2>5, <2>6, <2>10 DEF SameTimes
  <2>14. Core(m, th, C, {}) /\ Shape(m) /\ Once(m, C, {}) /\ Matched(m)
    BY DEF Good, Core
  <2>15. Shape(r)
    BY <2>7, <2>10, <2>12, <2>13, <2>14, <2>ResetShape
  <2>16. Grown(r, m)
    BY <2>3, <2>5, <2>10, GrownSame
  <2>17. Once(r, C, {})
    <3>1. SameAsks(r, m)
      BY <2>16, GrownAsks
    <3>2. \A q \in Req : r.answers[q] = IF q \in reqs THEN m.answers[q] + 1 ELSE m.answers[q]
      BY <2>3, <2>5, <2>10
    <3> QED
      BY <2>2, <2>10, <2>14, <3>1, <3>2, <2>OnceReset
  <2>18. Core(r, th, C, {})
    <3>1. /\ DOMAIN r.conns \subseteq DOMAIN m.conns
          /\ \A i \in DOMAIN r.conns : /\ r.conns[i].side = m.conns[i].side
                                       /\ Surplus(r.conns[i]) = Surplus(m.conns[i])
                                       /\ r.conns[i].unclaimed = m.conns[i].unclaimed
          /\ \A i \in DOMAIN m.conns : i \notin DOMAIN r.conns => th[i] = "done" /\ ~Sent(m, "SUCCESS", i)
      BY <2>12 DEF SameEnds, SameCounts
    <3>2. \A t \in r.timers : t.what = "FAIL" => t \in m.timers
      BY <2>13
    <3> QED
      BY <2>14, <2>15, <2>16, <2>17, <3>1, <3>2, CoreKeeps
  <2>19. r \in Manager /\ r.connecting = None
    BY <2>10
  <2>20. CASE r.state = "CONNECTING"
    <3>1. e \in Manager /\ Good(e, th, C, {}) /\ Awake(e)
      BY <2>18, <2>19, <2>20, BackGood
    <3> HIDE DEF e
    <3> QED
      BY <2>1, <3>1 DEF Sound
  <2>21. CASE r.state = "AVAILABLE"
    <3>1. e = r
      BY <2>21 DEF TransitionToState
    <3>2. ~Waits(r, {"WAIT_SCHEDULE"})
      <4>1. DOMAIN r.waitings = {}
        BY SMT, <2>10
      <4> QED
        BY <4>1 DEF Waits
    <3>3. Awake(r)
      BY <3>2, AwakeSoon
    <3>4. Matched(r) /\ Timed(r, th)
      BY <2>19, <2>21 DEF Matched, Timed
    <3> HIDE DEF e
    <3> QED
      BY <2>1, <2>18, <2>19, <3>1, <3>3, <3>4 DEF Sound, Good
  <2>22. r.state \in {"AVAILABLE", "CONNECTING"}
    BY <2>19, FieldTypes
  <2> QED
    BY <2>20, <2>21, <2>22
<1> HAVE /\ Inv
         /\ HandleReset
<1>1. /\ mgr.msgs # <<>> /\ Current.what = "RESET" /\ mgr' = Reset(Rest)
      /\ UNCHANGED <<called, thread, btOn, events, faults>>
  BY DEF HandleReset, Arrived, Current
<1>2. Rest \in Manager /\ Good(Rest, thread, called, {})
  <2>1. Current.what \in {"ACCEPTED", "RESUME", "EXCEPTION", "RESET"}
    BY <1>1
  <2> QED
    BY <1>1, <2>1, PlainRest
<1>3. Sound(mgr', Rest, thread, called)
  BY <1>1, <1>2, <1>ResetSound
<1>4. Sound(mgr', mgr, thread, called)
  BY <1>1, <1>3, Handled
<1> QED
  BY <1>1, <1>4, StaysHere

\* Position j of a list from which position i is taken was this one.
Shift(i, j) == IF j < i THEN j ELSE j + 1

LEMMA DropWaitingIs ==
  ASSUME NEW m \in Manager, NEW i \in DOMAIN m.waitings
  PROVE  LET n == DropWaiting(m, i)
         IN  /\ n \in Manager
             /\ \A j \in DOMAIN n.waitings : /\ Shift(i, j) \in DOMAIN m.waitings /\ Shift(i, j) # i
                                             /\ n.waitings[j] = m.waitings[Shift(i, j)]
             /\ \A j, k \in DOMAIN n.waitings : Shift(i, j) = Shift(i, k) => j = k
             /\ \A k \in DOMAIN m.waitings : k # i =>
                  \E j \in DOMAIN n.waitings : n.waitings[j] = m.waitings[k]
             /\ n.state = m.state /\ n.connecting = m.connecting /\ n.passed = m.passed
             /\ SameTimes(n, m) /\ n.conns = m.conns /\ n.answers = m.answers /\ n.msgs = m.msgs
<1> DEFINE s == m.waitings
           t == [j \in 1..(Len(s) - 1) |-> IF j < i THEN s[j] ELSE s[j + 1]]
           n == [m EXCEPT !.waitings = t]
<1>1. DropWaiting(m, i) = n
  BY DEF DropWaiting
<1>2. s \in Seq(Device)
  BY FieldTypes
<1> HIDE DEF s
<1>3. i \in DOMAIN s
  BY DEF s
<1>4. /\ Len(s) \in Nat /\ DOMAIN s = 1..Len(s) /\ i \in 1..Len(s)
      /\ \A j \in 1..Len(s) : s[j] \in Device
  BY SMT, <1>2, <1>3
<1>5. \A j \in 1..(Len(s) - 1) : Shift(i, j) \in 1..Len(s) /\ Shift(i, j) # i
  BY SMT, <1>4 DEF Shift
<1>6. \A j \in 1..(Len(s) - 1) : t[j] = s[Shift(i, j)]
  BY DEF Shift
<1>7. \A j \in 1..(Len(s) - 1) : t[j] \in Device
  BY <1>4, <1>5, <1>6
<1>8. DOMAIN t = 1..(Len(s) - 1) /\ Len(s) - 1 \in Nat
  <2>1. Len(s) - 1 \in Nat
    BY SMT, <1>4
  <2> QED
    BY <2>1
<1>9. \A j, k \in 1..(Len(s) - 1) : Shift(i, j) = Shift(i, k) => j = k
  BY SMT, <1>4 DEF Shift
<1>10. \A k \in 1..Len(s) : k # i => \E j \in 1..(Len(s) - 1) : Shift(i, j) = k
  <2> SUFFICES ASSUME NEW k \in 1..Len(s), k # i PROVE \E j \in 1..(Len(s) - 1) : Shift(i, j) = k
    OBVIOUS
  <2>1. CASE k < i
    <3>1. k \in 1..(Len(s) - 1) /\ Shift(i, k) = k
      BY SMT, <1>4, <2>1 DEF Shift
    <3> QED
      BY <3>1
  <2>2. CASE ~(k < i)
    <3>1. k - 1 \in 1..(Len(s) - 1) /\ Shift(i, k - 1) = k
      BY SMT, <1>4, <2>2 DEF Shift
    <3> QED
      BY <3>1
  <2> QED
    BY <2>1, <2>2
<1> HIDE DEF t
<1>11. t \in Seq(Device)
  <2>1. t \in [1..(Len(s) - 1) -> Device]
    BY <1>7, <1>8 DEF t
  <2> QED
    BY SMT, <1>8, <2>1
<1>12. /\ n \in Manager /\ n.waitings = t
       /\ n.state = m.state /\ n.connecting = m.connecting /\ n.passed = m.passed
       /\ SameTimes(n, m) /\ n.conns = m.conns /\ n.answers = m.answers /\ n.msgs = m.msgs
  BY <1>11, SetWaitings DEF SameTimes
<1> HIDE DEF n
<1>13. /\ DOMAIN n.waitings = 1..(Len(s) - 1) /\ DOMAIN m.waitings = 1..Len(s) /\ m.waitings = s
  BY <1>4, <1>8, <1>12 DEF s
<1>14. \A k \in 1..Len(s) : k # i => \E j \in 1..(Len(s) - 1) : t[j] = s[k]
  BY <1>6, <1>10
<1> QED
  BY <1>1, <1>5, <1>6, <1>9, <1>12, <1>13, <1>14

LEMMA DropShape ==
  ASSUME NEW m \in Manager, NEW i \in DOMAIN m.waitings, Shape(m)
  PROVE  LET n == DropWaiting(m, i)
         IN  Shape(n) /\ \A j \in DOMAIN n.waitings : n.waitings[j].addr # m.waitings[i].addr
<1> DEFINE n == DropWaiting(m, i)
<1>1. /\ n \in Manager
      /\ \A j \in DOMAIN n.waitings : /\ Shift(i, j) \in DOMAIN m.waitings /\ Shift(i, j) # i
                                      /\ n.waitings[j] = m.waitings[Shift(i, j)]
      /\ \A j, k \in DOMAIN n.waitings : Shift(i, j) = Shift(i, k) => j = k
      /\ n.connecting = m.connecting /\ SameTimes(n, m) /\ n.conns = m.conns
  BY DropWaitingIs
<1> HIDE DEF n
<1>5. /\ \A j, k \in DOMAIN m.waitings : m.waitings[j].addr = m.waitings[k].addr => j = k
      /\ \A j \in DOMAIN m.waitings : m.waitings[j].addr # m.connecting.addr
      /\ \A j \in DOMAIN m.waitings : HasWaker(m, m.waitings[j].addr, m.waitings[j].state)
  BY DEF Shape, OneDevice, Wakers
<1>6. ASSUME NEW j \in DOMAIN n.waitings
      PROVE  /\ n.waitings[j].addr # m.waitings[i].addr
             /\ n.waitings[j].addr # n.connecting.addr
             /\ HasWaker(m, n.waitings[j].addr, n.waitings[j].state)
  BY ZenonT(60), <1>1, <1>5
<1>7. ASSUME NEW j \in DOMAIN n.waitings, NEW k \in DOMAIN n.waitings, n.waitings[j].addr = n.waitings[k].addr
      PROVE  j = k
  <2>1. /\ Shift(i, j) \in DOMAIN m.waitings /\ n.waitings[j] = m.waitings[Shift(i, j)]
        /\ Shift(i, k) \in DOMAIN m.waitings /\ n.waitings[k] = m.waitings[Shift(i, k)]
    BY <1>1
  <2>2. Shift(i, j) = Shift(i, k)
    BY <1>5, <1>7, <2>1
  <2> QED
    BY <1>1, <2>2
<1>2. OneDevice(n) /\ \A j \in DOMAIN n.waitings : n.waitings[j].addr # m.waitings[i].addr
  BY <1>6, <1>7 DEF OneDevice
<1>3. OneClient(n)
  BY <1>1 DEF Shape, OneClient
<1>8. \A addr, s : HasWaker(m, addr, s) => HasWaker(n, addr, s)
  BY <1>1 DEF HasWaker, Connected, SameTimes
<1>9. \A addr \in Addr : addr \in n.pendings <=> Unpend(addr) \in n.timers
  BY <1>1 DEF Shape, Wakers, SameTimes
<1>4. Wakers(n)
  BY <1>6, <1>8, <1>9 DEF Wakers
<1> QED
  BY <1>2, <1>3, <1>4 DEF Shape, n

LEMMA CoreDrop ==
  \A m \in Manager : \A th, C : \A i \in DOMAIN m.waitings :
    Core(m, th, C, {})
    => Core(DropWaiting(m, i), th, C, m.waitings[i].reqs)
\* DropWaiting takes a device's requests in hand.
<1>OnceDrop. ASSUME NEW m \in Manager, NEW i \in DOMAIN m.waitings, NEW C, Once(m, C, {})
             PROVE  Once(DropWaiting(m, i), C, m.waitings[i].reqs)
  <2> USE <1>OnceDrop
  <2> DEFINE n == DropWaiting(m, i)
             H == m.waitings[i].reqs
  <2>1. /\ \A j \in DOMAIN n.waitings : /\ Shift(i, j) \in DOMAIN m.waitings /\ Shift(i, j) # i
                                        /\ n.waitings[j] = m.waitings[Shift(i, j)]
        /\ \A j, k \in DOMAIN n.waitings : Shift(i, j) = Shift(i, k) => j = k
        /\ \A k \in DOMAIN m.waitings : k # i => \E j \in DOMAIN n.waitings : n.waitings[j] = m.waitings[k]
        /\ n.connecting = m.connecting /\ n.answers = m.answers /\ n.msgs = m.msgs
    BY DropWaitingIs
  <2> HIDE DEF n, H
  <2> SUFFICES ASSUME NEW r \in Req PROVE AskedOnce(n, r) /\ WaitedOnce(n, r) /\ Placed(n, C, H, r)
    BY DEF Once, n, H
  <2>2. AskedOnce(m, r) /\ WaitedOnce(m, r) /\ Placed(m, C, {}, r)
    BY DEF Once
  <2>3. AskedOnce(n, r) /\ (Asked(n, r) <=> Asked(m, r)) /\ (Dialed(n, r) <=> Dialed(m, r))
    BY <2>1, <2>2 DEF AskedOnce, Asked, Asks, Dialed
  <2>4. WaitedOnce(n, r)
    <3> SUFFICES ASSUME NEW j \in DOMAIN n.waitings, NEW k \in DOMAIN n.waitings,
                        r \in n.waitings[j].reqs, r \in n.waitings[k].reqs
                 PROVE  j = k
      BY DEF WaitedOnce
    <3>1. /\ Shift(i, j) \in DOMAIN m.waitings /\ n.waitings[j] = m.waitings[Shift(i, j)]
          /\ Shift(i, k) \in DOMAIN m.waitings /\ n.waitings[k] = m.waitings[Shift(i, k)]
      BY <2>1
    <3>2. Shift(i, j) = Shift(i, k)
      BY <2>2, <3>1 DEF WaitedOnce
    <3> QED
      BY <2>1, <3>2
  <2>5. Waited(m, r) <=> Waited(n, r) \/ r \in H
    <3>1. Waited(n, r) => Waited(m, r)
      BY <2>1 DEF Waited
    <3>2. r \in H => Waited(m, r)
      BY DEF Waited, H
    <3>3. ASSUME NEW k \in DOMAIN m.waitings, r \in m.waitings[k].reqs, r \notin H
          PROVE  Waited(n, r)
      <4>1. k # i
        BY <3>3 DEF H
      <4> QED
        BY <2>1, <3>3, <4>1 DEF Waited
    <3> QED
      BY <3>1, <3>2, <3>3 DEF Waited
  <2>6. r \in H => ~Waited(n, r)
    <3> SUFFICES ASSUME r \in m.waitings[i].reqs, NEW j \in DOMAIN n.waitings, r \in n.waitings[j].reqs
                 PROVE  FALSE
      BY DEF Waited, H
    <3>1. Shift(i, j) \in DOMAIN m.waitings /\ Shift(i, j) # i /\ n.waitings[j] = m.waitings[Shift(i, j)]
      BY <2>1
    <3> QED
      BY <2>2, <3>1 DEF WaitedOnce
  <2>7. n.answers[r] = m.answers[r] /\ r \notin {}
    BY <2>1
  <2> QED
    BY <2>2, <2>3, <2>4, <2>5, <2>6, <2>7 DEF Placed
<1> TAKE m \in Manager
<1> TAKE th, C
<1> TAKE i \in DOMAIN m.waitings
<1> HAVE Core(m, th, C, {})
<1> DEFINE n == DropWaiting(m, i)
<1>1. n.conns = m.conns /\ n.msgs = m.msgs /\ SameTimes(n, m)
  BY DropWaitingIs
<1>2. Shape(n) /\ Once(n, C, m.waitings[i].reqs)
  BY DropShape, <1>OnceDrop DEF Core
<1> HIDE DEF n
<1> QED
  BY <1>1, <1>2, CoreSameConns DEF n

LEMMA SameSound == ASSUME NEW m \in Manager, NEW th, NEW C, Good(m, th, C, {}) PROVE Sound(m, m, th, C)
BY DEF Sound

LEMMA ReuseForWaitingSound ==
  ASSUME SetLaws
  PROVE  \A m \in Manager : \A th, C, addr : \A id \in DOMAIN m.conns :
           Good(m, th, C, {})
           => Sound(ReuseForWaiting(m, addr, id), m, th, C)
<1>GrownTwice. ASSUME NEW m, NEW n, NEW k, Grown(n, k), Grown(k, m) PROVE Grown(n, m)
  BY <1>GrownTwice DEF Grown
<1> TAKE m \in Manager
<1> TAKE th, C, addr
<1> TAKE id \in DOMAIN m.conns
<1> HAVE Good(m, th, C, {})
<1>1. CASE ~(Waiting(m, addr) # 0 /\ Reusable(m, id))
  <2>1. ReuseForWaiting(m, addr, id) = m
    BY <1>1 DEF ReuseForWaiting
  <2> QED
    BY <2>1, SameSound
<1>2. CASE Waiting(m, addr) # 0 /\ Reusable(m, id)
  <2> DEFINE i == Waiting(m, addr)
             d == m.waitings[i]
             k == DropWaiting(m, i)
             n == ReuseConnection(k, d, id)
  <2>1. ReuseForWaiting(m, addr, id) = n
    BY <1>2 DEF ReuseForWaiting
  <2>2. i \in DOMAIN m.waitings
    BY <1>2, WaitingIs
  <2> HIDE DEF i
  <2>3. d \in Device
    BY <2>2, DevicesTyped
  <2>4. Core(m, th, C, {}) /\ Matched(m) /\ Timed(m, th)
    BY DEF Good
  <2>5. Core(k, th, C, d.reqs)
    BY <2>2, <2>4, CoreDrop
  <2>6. /\ k \in Manager /\ k.state = m.state /\ k.connecting = m.connecting
        /\ SameTimes(k, m) /\ k.conns = m.conns /\ k.msgs = m.msgs
    BY <2>2, DropWaitingIs
  <2>7. k \in Manager /\ id \in DOMAIN k.conns
    BY <2>6
  <2> HIDE DEF k, d
  <2>8. /\ n \in Manager /\ Core(n, th, C, {}) /\ Grown(n, k) /\ Schedules(n)
        /\ SameDevices(n, k) /\ SameTimes(n, k) /\ SameEnds(n, k)
    BY <2>3, <2>5, <2>7, CoreReuse
  <2> HIDE DEF n
  <2>9. n.state = m.state /\ n.connecting = m.connecting /\ SameTimes(n, m) /\ SameEnds(n, m)
    BY <2>6, <2>8 DEF SameDevices, SameTimes, SameEnds
  <2>10. Grown(n, m)
    BY <2>6, <2>8, GrownSame, <1>GrownTwice
  <2>11. Matched(n) /\ Timed(n, th)
    <3>1. Matched(n) /\ SameAlarms(n, m)
      BY <2>4, <2>9, SameTimesAre DEF Matched
    <3> QED
      BY <2>4, <2>9, <2>10, <3>1, TimedSame
  <2> QED
    BY <2>1, <2>8, <2>11, AwakeSoon DEF Sound, Good
<1> QED
  BY <1>1, <1>2

LEMMA ConnectionResumeStep ==
  ASSUME SetLaws
  PROVE  /\ Inv
         /\ HandleConnectionResume
        => Inv'
<1>ConnectionResumeSound. ASSUME NEW m \in Manager, NEW th, NEW C, NEW id, Good(m, th, C, {})
                          PROVE  Sound(ConnectionResume(m, id), m, th, C)
  <2> USE <1>ConnectionResumeSound
  <2>1. CASE id \notin DOMAIN m.conns
    <3>1. ConnectionResume(m, id) = m
      BY <2>1 DEF ConnectionResume
    <3> QED
      BY <3>1, SameSound
  <2>2. CASE id \in DOMAIN m.conns
    <3>1. ConnectionResume(m, id) = ReuseForWaiting(m, m.conns[id].addr, id)
      BY <2>2 DEF ConnectionResume
    <3> QED
      BY <2>2, <3>1, ReuseForWaitingSound
  <2> QED
    BY <2>1, <2>2
<1> HAVE /\ Inv
         /\ HandleConnectionResume
<1>1. mgr.msgs # <<>> /\ Current.what = "RESUME"
  BY DEF HandleConnectionResume, Arrived, Current
<1>2. mgr' = ConnectionResume(Rest, Current.id) /\ UNCHANGED <<called, thread, btOn, events, faults>>
  BY DEF HandleConnectionResume
<1>3. Rest \in Manager /\ Good(Rest, thread, called, {})
  BY <1>1, PlainRest
<1>4. Sound(mgr', Rest, thread, called)
  BY <1>2, <1>3, <1>ConnectionResumeSound
<1>5. Current.what # "NEXT_CMD"
  BY <1>1
<1> QED
  BY <1>1, <1>2, <1>4, <1>5, Handled, StaysHere

\* A report is about the connection of a thread.
LEMMA CurrentReport ==
  ASSUME SetLaws,
         Inv, mgr.msgs # <<>>, Current.what \in Reports
  PROVE  Current.id \in DOMAIN thread /\ At(mgr, 1, Current.what, Current.id) /\ Sent(mgr, Current.what, Current.id)
<1>1. Current = mgr.msgs[1] /\ Shrunk(Rest, mgr) /\ Good(mgr, thread, called, {})
  BY RestGood
<1>2. 1 \in DOMAIN mgr.msgs
  BY <1>1 DEF Shrunk
<1>3. Known(mgr, thread)
  BY <1>1 DEF Good, Core, Told
<1> QED
  BY <1>1, <1>2, <1>3 DEF Known, At, Sent

LEMMA DisconnectRequestStep ==
  ASSUME SetLaws
  PROVE  /\ Inv
         /\ HandleDisconnectRequest
        => Inv'
\* The release of a reference is handled: the count loses what the message held.
<1>ReleaseGood. ASSUME NEW k \in Manager, NEW m \in Manager, NEW n \in Manager, NEW th, NEW C, NEW id,
                       Tally(k, th), Shrunk(m, k), m.conns = k.conns, At(k, 1, "DISCONNECT", id),
                       Shape(m), Told(m, th), Once(m, C, {}), Matched(m), Timed(m, th),
                       n = m \/ Relinked(n, m, id, -1), id \in DOMAIN m.conns => Relinked(n, m, id, -1)
                PROVE  Sound(n, m, th, C)
  <2> USE <1>ReleaseGood
  <2>0. /\ SameEnds(n, m) /\ SameDevices(n, m) /\ SameTimes(n, m) /\ n.answers = m.answers /\ n.msgs = m.msgs
        /\ \A i \in DOMAIN m.conns : n.conns[i].unclaimed = m.conns[i].unclaimed
        /\ \A i \in DOMAIN m.conns : i # id => n.conns[i] = m.conns[i]
    <3>1. CASE n = m
      BY <3>1 DEF SameEnds, SameDevices, SameTimes
    <3>2. CASE Relinked(n, m, id, -1)
      BY <3>2 DEF Relinked
    <3> QED
      BY <3>1, <3>2
  <2>1. Unclaimed(m, th) /\ \A i \in DOMAIN k.conns :
          Surplus(k.conns[i]) = Cardinality(Releases(m, i)) + (IF At(k, 1, "DISCONNECT", i) THEN 1 ELSE 0)
    BY TallyRest
  <2>2. \A i : Releases(n, i) = Releases(m, i)
    BY <2>0 DEF Releases, At
  <2>3. \A what, i : Sent(n, what, i) <=> Sent(m, what, i)
    BY <2>0 DEF Sent, At
  <2>4. Counted(n)
    <3> SUFFICES ASSUME NEW i \in DOMAIN n.conns PROVE Surplus(n.conns[i]) = Cardinality(Releases(n, i))
      BY DEF Counted
    <3>1. i \in DOMAIN m.conns /\ i \in DOMAIN k.conns /\ m.conns[i] = k.conns[i]
      BY <2>0 DEF SameEnds
    <3>2. Cardinality(Releases(m, i)) \in Nat
      BY ReleasesFinite
    <3>3. CASE i = id
      <4>1. Surplus(n.conns[i]) = Surplus(m.conns[i]) + (-1)
        BY <3>1, <3>3 DEF Relinked
      <4>2. Surplus(m.conns[i]) = Cardinality(Releases(m, i)) + 1
        BY <2>1, <3>1, <3>3
      <4>3. Surplus(n.conns[i]) = Cardinality(Releases(m, i))
        BY SMT, <3>2, <4>1, <4>2
      <4> QED
        BY <2>2, <4>3
    <3>4. CASE i # id
      <4>1. ~At(k, 1, "DISCONNECT", i)
        BY <3>4 DEF At
      <4>2. Surplus(m.conns[i]) = Cardinality(Releases(m, i)) + 0
        BY <2>1, <3>1, <4>1
      <4>3. Surplus(m.conns[i]) = Cardinality(Releases(m, i))
        BY SMT, <3>2, <4>2
      <4> QED
        BY <2>0, <2>2, <3>1, <3>4, <4>3
    <3> QED
      BY <3>3, <3>4
  <2>5. Unclaimed(n, th)
    BY <2>0, <2>1, <2>3 DEF Unclaimed, SameEnds
  <2>6. Tally(n, th)
    BY <2>4, <2>5 DEF Tally
  <2>7. SameButTimeouts(n, m) /\ SameAlarms(n, m) /\ Grown(n, m)
    BY <2>0, SameTimesAre, GrownSame
  <2>8. n.waitings = m.waitings /\ n.connecting = m.connecting /\ n.state = m.state
        /\ n.connecting.addr = m.connecting.addr /\ n.connecting.reqs = m.connecting.reqs
    BY <2>0 DEF SameDevices
  <2>9. Shape(n)
    <3>1. SameUnpends(n, m)
      BY <2>7 DEF SameButTimeouts
    <3> QED
      BY <2>0, <2>8, <3>1, ShapeFrame
  <2>10. Told(n, th)
    <3>1. \A t \in n.timers : t.what = "FAIL" => t \in m.timers
      BY <2>0 DEF SameTimes
    <3>2. /\ DOMAIN n.conns \subseteq DOMAIN m.conns
          /\ \A i \in DOMAIN n.conns : n.conns[i].side = m.conns[i].side
          /\ \A i \in DOMAIN m.conns : i \notin DOMAIN n.conns => th[i] = "done" /\ ~Sent(m, "SUCCESS", i)
      BY <2>0 DEF SameEnds
    <3> QED
      BY <2>7, <3>1, <3>2, ToldFrame
  <2>11. Once(n, C, {})
    <3>1. SameAsks(n, m) /\ SameReqs(n, m)
      BY <2>7, <2>8, GrownAsks DEF SameReqs
    <3> QED
      BY <2>0, <2>8, <3>1, OnceFrame
  <2>12. Matched(n)
    BY <2>8 DEF Matched
  <2>13. Timed(n, th)
    BY <2>0, <2>7, <2>8, TimedSame
  <2>14. Awake(m) => Awake(n)
    <3>1. Schedules(m) => Schedules(n)
      BY <2>0 DEF Schedules
    <3> QED
      BY <2>0, <3>1, AwakeFrame
  <2> QED
    BY <2>6, <2>9, <2>10, <2>11, <2>12, <2>13, <2>14 DEF Sound, Good, Core
<1> HAVE /\ Inv
         /\ HandleDisconnectRequest
<1> DEFINE id == Current.id
           m == Rest
           link == NotifyUpdateConnectionRc(m.conns[id].link, -1)
           n == DisconnectRequest(m, id)
<1>1. mgr.msgs # <<>> /\ Current.what = "DISCONNECT" /\ Current.what \in Reports
  BY DEF HandleDisconnectRequest, Arrived, Current, Reports
<1>2. mgr' = n /\ UNCHANGED <<called, thread, btOn, events, faults>>
  BY DEF HandleDisconnectRequest
<1>3. At(mgr, 1, "DISCONNECT", id)
  BY <1>1, CurrentReport
<1>4. /\ Current.what # "CONNECT_REQUEST" /\ Current.what \notin {"SUCCESS", "FAIL"}
      /\ Current.what # "NEXT_CMD"
  BY <1>1
<1>5. /\ mgr \in Manager /\ m \in Manager /\ m.conns = mgr.conns /\ Shrunk(m, mgr)
      /\ Shape(m) /\ Told(m, thread) /\ Matched(m)
  BY <1>1, RestGood
<1>6. Once(m, called, {}) /\ Timed(m, thread)
  BY <1>1, <1>4, RestGood
<1>7. Tally(mgr, thread)
  BY <1>1, RestGood DEF Good, Core
<1> HIDE DEF id, m
<1>8. ASSUME id \in DOMAIN m.conns PROVE Relinked(n, m, id, -1)
  <2>1. m.conns[id] \in Saved
    BY <1>5, <1>8, DomainIs
  <2>2. m.conns[id].link \in Connection
    BY <2>1, SavedTypes
  <2>3. -1 \in Int
    BY SMT
  <2>4. link \in Connection /\ link.rc = m.conns[id].link.rc + (-1)
    BY <2>2, <2>3, LinkTypes
  <2> HIDE DEF link
  <2>5. Relinked(SetLink(m, id, link), m, id, -1)
    BY <1>5, <1>8, <2>3, <2>4, RelinkIs
  <2> QED
    BY <1>8, <2>5 DEF DisconnectRequest, link
<1>9. id \notin DOMAIN m.conns => n = m
  BY DEF DisconnectRequest
<1>10. n \in Manager /\ (n = m \/ Relinked(n, m, id, -1))
  BY <1>5, <1>8, <1>9 DEF Relinked
<1> HIDE DEF n
<1>11. Sound(n, m, thread, called)
  BY <1>3, <1>5, <1>6, <1>7, <1>8, <1>10, <1>ReleaseGood
<1>12. Sound(mgr', Rest, thread, called)
  BY <1>2, <1>11 DEF m
<1> QED
  BY <1>1, <1>2, <1>4, <1>12, Handled, StaysHere

\* A connection whose attempt has succeeded, before its device is answered.
Ready(m, id) == [[m EXCEPT !.conns[id].unclaimed = 0] EXCEPT !.conns[id].retryCount = 0]

LEMMA ClientConnectedStep ==
  ASSUME SetLaws
  PROVE  /\ Inv
         /\ HandleClientConnected
        => Inv'
\* What is known of a report when it is handled.
<1>HeadSuccess. ASSUME NEW m, NEW n, NEW th, NEW id \in DOMAIN th, Told(m, th), Shrunk(n, m), At(m, 1, "SUCCESS", id),
                       n.timers = m.timers
                PROVE  /\ th[id] \in {"reading", "done"} /\ id \in DOMAIN m.conns /\ m.conns[id].side = "client"
                       /\ ~Sent(n, "SUCCESS", id) /\ ~Failed(n, id)
  <2> USE <1>HeadSuccess
  <2>1. 1 \in DOMAIN m.msgs /\ Sent(m, "SUCCESS", id)
    BY DEF At, Sent
  <2>2. /\ th[id] \in {"reading", "done"} /\ id \in DOMAIN m.conns /\ m.conns[id].side = "client"
        /\ ~Failed(m, id)
        /\ \A i, j \in DOMAIN m.msgs : At(m, i, "SUCCESS", id) /\ At(m, j, "SUCCESS", id) => i = j
    BY <2>1 DEF Told, Outcomes
  <2>3. ~Sent(n, "SUCCESS", id)
    <3> SUFFICES ASSUME NEW i \in DOMAIN n.msgs, At(n, i, "SUCCESS", id) PROVE FALSE
      BY DEF Sent
    <3>1. At(m, i + 1, "SUCCESS", id) /\ i + 1 \in DOMAIN m.msgs /\ i + 1 # 1
      BY SentRest DEF Shrunk
    <3> QED
      BY <2>1, <2>2, <3>1
  <2>4. ~Failed(n, id)
    BY <2>2, SentRest DEF Failed, DelayedFail
  <2> QED
    BY <2>2, <2>3, <2>4
<1>ClientConnectedSound. \A m \in Manager : \A th, C : \A id \in DOMAIN m.conns :
                            /\ Core(m, th, C, {})
                            /\ Matched(m)
                            /\ m.connecting.addr # m.conns[id].addr => Timed(m, th)
                            /\ th[id] \in {"reading", "done"}
                            /\ ~Sent(m, "SUCCESS", id)
                            /\ m.conns[id].unclaimed = 1
                           => Sound(ClientConnected(m, id), m, th, C)
  <2>ClaimIs. ASSUME NEW m \in Manager, NEW id \in DOMAIN m.conns, m.conns[id].unclaimed = 1
              PROVE  LET n == [m EXCEPT !.conns[id].unclaimed = 0]
                     IN  /\ n \in Manager /\ SameEnds(n, m) /\ Surplus(n.conns[id]) = Surplus(m.conns[id]) + 1
                         /\ n.conns[id].link = m.conns[id].link
                         /\ \A i \in DOMAIN m.conns : i # id => n.conns[i] = m.conns[i]
                         /\ SameDevices(n, m) /\ SameTimes(n, m) /\ n.answers = m.answers /\ n.msgs = m.msgs
    <3> USE <2>ClaimIs
    <3> DEFINE c == [m.conns[id] EXCEPT !.unclaimed = 0]
               n == [m EXCEPT !.conns = [m.conns EXCEPT ![id] = c]]
    <3>1. [m EXCEPT !.conns[id].unclaimed = 0] = n
      BY SMT DEF Manager
    <3>2. m.conns[id] \in Saved
      BY DomainIs
    <3>0. 0 \in 0..1
      BY SMT
    <3>3. /\ c \in Saved /\ c.link = m.conns[id].link /\ c.addr = m.conns[id].addr
          /\ c.side = m.conns[id].side /\ c.mine = m.conns[id].mine
          /\ c.peers = m.conns[id].peers /\ c.unclaimed = 0
      BY <3>0, <3>2 DEF Saved
    <3> HIDE DEF c
    <3>4. /\ n \in Manager /\ DOMAIN n.conns = DOMAIN m.conns /\ n.conns[id] = c
          /\ \A i \in DOMAIN m.conns : i # id => n.conns[i] = m.conns[i]
          /\ SameDevices(n, m) /\ SameTimes(n, m) /\ n.answers = m.answers /\ n.msgs = m.msgs
      <4>1. c \in Saved
        BY <3>3
      <4> QED
        BY SMT, <4>1, ConnBecomes
    <3>5. m.conns[id].mine \in Nat /\ m.conns[id].peers \in Nat /\ m.conns[id].link.rc \in Int
      BY <3>2, SavedTypes
    <3>6. Surplus(c) = Surplus(m.conns[id]) + 1
      BY SMT, <3>3, <3>5 DEF Surplus
    <3> HIDE DEF n
    <3> QED
      BY <3>1, <3>3, <3>4, <3>6 DEF SameEnds
  \* The reference of the attempt goes to a caller, or is given back.
  <2>ClaimedCore. ASSUME NEW s, NEW r, NEW th, NEW C, NEW H, NEW id, Core(s, th, C, H), SameEnds(r, s),
                         \A i \in DOMAIN s.conns : Surplus(r.conns[i]) = Surplus(s.conns[i]),
                         \A i \in DOMAIN s.conns : i # id => r.conns[i].unclaimed = s.conns[i].unclaimed,
                         th[id] \notin {"connecting", "open"}, ~Sent(s, "SUCCESS", id),
                         SameButTimeouts(r, s), Grown(r, s), r.waitings = s.waitings, r.connecting = s.connecting,
                         \A q \in Req : r.answers[q] = IF q \in H THEN s.answers[q] + 1 ELSE s.answers[q]
                  PROVE  Core(r, th, C, {})
    <3> USE <2>ClaimedCore
    <3>0. Shape(s) /\ Told(s, th) /\ Once(s, C, H) /\ Tally(s, th)
      BY DEF Core
    <3>1. Shape(r)
      BY <3>0, ShapeFrame DEF SameButTimeouts
    <3>2. Told(r, th)
      <4>1. \A t \in r.timers : t.what = "FAIL" => t \in s.timers
        BY DEF SameButTimeouts
      <4>2. /\ DOMAIN r.conns \subseteq DOMAIN s.conns
            /\ \A i \in DOMAIN r.conns : r.conns[i].side = s.conns[i].side
            /\ \A i \in DOMAIN s.conns : i \notin DOMAIN r.conns => th[i] = "done" /\ ~Sent(s, "SUCCESS", i)
        BY DEF SameEnds
      <4> QED
        BY <3>0, <4>1, <4>2, ToldFrame
    <3>3. Once(r, C, {})
      <4>1. SameAsks(r, s) /\ SameReqs(r, s) /\ r.connecting.reqs = s.connecting.reqs
        BY GrownAsks DEF SameReqs
      <4> QED
        BY <3>0, <4>1, OnceAnswered
    <3>4. Tally(r, th)
      <4>1. /\ \A i, what, j : what \in Reports => (At(r, i, what, j) <=> At(s, i, what, j))
            /\ \A what, j : what \in Reports => (Sent(r, what, j) <=> Sent(s, what, j))
        BY GrownKeeps
      <4>2. "DISCONNECT" \in Reports /\ "SUCCESS" \in Reports
        BY DEF Reports
      <4>3. \A j : Releases(r, j) = Releases(s, j)
        <5> SUFFICES ASSUME NEW j, NEW i
                     PROVE  i \in DOMAIN r.msgs /\ At(r, i, "DISCONNECT", j)
                              <=> i \in DOMAIN s.msgs /\ At(s, i, "DISCONNECT", j)
          BY DEF Releases
        <5>1. At(r, i, "DISCONNECT", j) <=> At(s, i, "DISCONNECT", j)
          BY <4>1, <4>2
        <5> QED
          BY <5>1 DEF At
      <4>4. Counted(r)
        BY <3>0, <4>3 DEF Tally, Counted, SameEnds
      <4>5. Unclaimed(r, th)
        <5> SUFFICES ASSUME NEW i \in DOMAIN r.conns,
                            \/ th[i] \in {"connecting", "open"} /\ r.conns[i].side = "client"
                            \/ Sent(r, "SUCCESS", i)
                     PROVE  r.conns[i].unclaimed = 1
          BY DEF Unclaimed
        <5>1. i \in DOMAIN s.conns /\ r.conns[i].side = s.conns[i].side
          BY DEF SameEnds
        <5>2. i # id
          BY <4>1, <4>2
        <5>3. s.conns[i].unclaimed = 1
          BY <3>0, <4>1, <4>2, <5>1 DEF Tally, Unclaimed
        <5> QED
          BY <5>1, <5>2, <5>3
      <4> QED
        BY <4>4, <4>5 DEF Tally
    <3> QED
      BY <3>1, <3>2, <3>3, <3>4 DEF Core
  \* The success finds another attempt, or none, and no device: its reference is
  \* given back.
  <2>UnwantedSound. \A m \in Manager : \A th, C : \A id \in DOMAIN m.conns :
                       /\ Good(m, th, C, {})
                       /\ th[id] \in {"reading", "done"}
                       /\ ~Sent(m, "SUCCESS", id)
                       /\ m.conns[id].unclaimed = 1
                      => LET n == [m EXCEPT !.conns[id].unclaimed = 0]
                         IN  Sound(SetLink(n, id, NotifyUpdateConnectionRc(n.conns[id].link, -1)), m, th, C)
    <3>NoHand. ASSUME NEW m, NEW n, n.answers = m.answers
               PROVE  \A q \in Req : n.answers[q] = IF q \in {} THEN m.answers[q] + 1 ELSE m.answers[q]
      BY <3>NoHand
    <3> TAKE m \in Manager
    <3> TAKE th, C
    <3> TAKE id \in DOMAIN m.conns
    <3> HAVE /\ Good(m, th, C, {})
             /\ th[id] \in {"reading", "done"}
             /\ ~Sent(m, "SUCCESS", id)
             /\ m.conns[id].unclaimed = 1
    <3> DEFINE n == [m EXCEPT !.conns[id].unclaimed = 0]
               link == NotifyUpdateConnectionRc(n.conns[id].link, -1)
               r == SetLink(n, id, link)
    <3>1. /\ n \in Manager /\ SameEnds(n, m) /\ Surplus(n.conns[id]) = Surplus(m.conns[id]) + 1
          /\ \A i \in DOMAIN m.conns : i # id => n.conns[i] = m.conns[i]
          /\ SameDevices(n, m) /\ SameTimes(n, m) /\ n.answers = m.answers /\ n.msgs = m.msgs
      BY <2>ClaimIs
    <3> HIDE DEF n
    <3>2. id \in DOMAIN n.conns
      BY <3>1 DEF SameEnds
    <3>3. n.conns[id] \in Saved
      BY <3>1, <3>2, DomainIs
    <3>4. /\ n.conns[id].link \in Connection /\ n.conns[id].link.rc \in Int /\ n.conns[id].mine \in Nat
          /\ n.conns[id].peers \in Nat /\ n.conns[id].unclaimed \in Int
      BY <3>3, SavedTypes
    <3>5. link \in Connection /\ link.rc = n.conns[id].link.rc - 1
      <4>1. -1 \in Int
        BY SMT
      <4>2. link \in Connection /\ link.rc = n.conns[id].link.rc + (-1)
        BY <3>4, <4>1, LinkTypes
      <4> HIDE DEF link
      <4> QED
        BY SMT, <3>4, <4>2
    <3> HIDE DEF link
    <3>6. /\ r \in Manager /\ SameEnds(r, n) /\ r.conns[id].link = link
          /\ r.conns[id].mine = n.conns[id].mine /\ r.conns[id].peers = n.conns[id].peers
          /\ \A i \in DOMAIN n.conns : r.conns[i].unclaimed = n.conns[i].unclaimed
          /\ \A i \in DOMAIN n.conns : i # id => r.conns[i] = n.conns[i]
          /\ SameDevices(r, n) /\ SameTimes(r, n) /\ r.answers = n.answers /\ r.msgs = n.msgs
      <4>1. n \in Manager
        BY <3>1
      <4>2. link \in Connection
        BY <3>5
      <4> QED
        BY <3>2, <4>1, <4>2, SetLinkIs
    <3> HIDE DEF r
    <3>7. Surplus(r.conns[id]) = Surplus(m.conns[id])
      <4>1. Surplus(r.conns[id]) = Surplus(n.conns[id]) - 1
        <5>1. r.conns[id].unclaimed = n.conns[id].unclaimed
          BY <3>2, <3>6
        <5> DEFINE x == r.conns[id]
                   y == n.conns[id]
        <5>2. /\ x.link.rc = y.link.rc - 1 /\ x.mine = y.mine /\ x.peers = y.peers /\ x.unclaimed = y.unclaimed
              /\ y.link.rc \in Int /\ y.mine \in Nat /\ y.peers \in Nat /\ y.unclaimed \in Int
          BY <3>4, <3>5, <3>6, <5>1
        <5> HIDE DEF x, y
        <5>3. Surplus(x) = Surplus(y) - 1
          BY SMT, <5>2 DEF Surplus
        <5> QED
          BY <5>3 DEF x, y
      <4>2. Surplus(m.conns[id]) \in Int
        BY DomainIs, SavedTypes
      <4> QED
        BY SMT, <3>1, <4>1, <4>2
    <3>8. SameEnds(r, m) /\ \A i \in DOMAIN m.conns : i # id => r.conns[i] = m.conns[i]
      BY <3>1, <3>6 DEF SameEnds
    <3>9. SameDevices(r, m) /\ SameTimes(r, m) /\ r.answers = m.answers /\ r.msgs = m.msgs
      BY <3>1, <3>6 DEF SameDevices, SameTimes
    <3>10. SameButTimeouts(r, m) /\ SameAlarms(r, m) /\ Grown(r, m)
      BY <3>9, SameTimesAre, GrownSame
    <3>11. r.waitings = m.waitings /\ r.connecting = m.connecting /\ r.state = m.state
      BY <3>9 DEF SameDevices
    <3>12. Core(m, th, C, {}) /\ Timed(m, th) /\ Matched(m)
      BY DEF Good
    <3>13. Core(r, th, C, {})
      <4>1. /\ \A i \in DOMAIN m.conns : Surplus(r.conns[i]) = Surplus(m.conns[i])
            /\ \A i \in DOMAIN m.conns : i # id => r.conns[i].unclaimed = m.conns[i].unclaimed
        BY <3>7, <3>8
      <4>2. th[id] \notin {"connecting", "open"}
        OBVIOUS
      <4>3. \A q \in Req : r.answers[q] = IF q \in {} THEN m.answers[q] + 1 ELSE m.answers[q]
        BY <3>9, <3>NoHand
      <4>4. SameEnds(r, m)
        BY <3>8
      <4> QED
        BY SMT, <3>10, <3>11, <3>12, <4>1, <4>2, <4>3, <4>4, <2>ClaimedCore
    <3>14. Timed(r, th)
      <4>1. r.connecting.addr = m.connecting.addr /\ SameEnds(r, m)
        BY <3>8, <3>11
      <4> QED
        BY <3>10, <3>11, <3>12, <4>1, TimedSame
    <3>15. Matched(r)
      BY <3>11, <3>12 DEF Matched
    <3>16. Awake(m) => Awake(r)
      <4>1. Schedules(m) => Schedules(r)
        BY <3>9 DEF Schedules
      <4> QED
        BY <3>9, <4>1, AwakeFrame
    <3>17. Sound(r, m, th, C)
      BY <3>6, <3>13, <3>14, <3>15, <3>16 DEF Sound, Good
    <3> QED
      BY <3>17 DEF r, link, n
  <2>ReadyIs. \A m \in Manager : \A id \in DOMAIN m.conns :
                m.conns[id].unclaimed = 1
                => LET k == Ready(m, id)
                   IN  /\ k \in Manager /\ SameEnds(k, m) /\ Surplus(k.conns[id]) = Surplus(m.conns[id]) + 1
                       /\ \A i \in DOMAIN m.conns : i # id => k.conns[i] = m.conns[i]
                       /\ SameDevices(k, m) /\ SameTimes(k, m) /\ k.answers = m.answers /\ k.msgs = m.msgs
    <3>FreshRetry. ASSUME NEW m \in Manager, NEW id \in DOMAIN m.conns
                   PROVE  LET n == [m EXCEPT !.conns[id].retryCount = 0]
                          IN  /\ n \in Manager /\ SameEnds(n, m) /\ Surplus(n.conns[id]) = Surplus(m.conns[id])
                              /\ \A i \in DOMAIN m.conns : i # id => n.conns[i] = m.conns[i]
                              /\ SameDevices(n, m) /\ SameTimes(n, m) /\ n.answers = m.answers /\ n.msgs = m.msgs
      <4> DEFINE c == [m.conns[id] EXCEPT !.retryCount = 0]
                 n == [m EXCEPT !.conns = [m.conns EXCEPT ![id] = c]]
      <4>1. [m EXCEPT !.conns[id].retryCount = 0] = n
        BY SMT DEF Manager
      <4>2. m.conns[id] \in Saved
        BY DomainIs
      <4>0. 0 \in 0..MAX_RETRY_COUNT
        BY SMT DEF MAX_RETRY_COUNT
      <4>3. /\ c \in Saved /\ c.link = m.conns[id].link /\ c.addr = m.conns[id].addr
            /\ c.side = m.conns[id].side /\ c.mine = m.conns[id].mine
            /\ c.peers = m.conns[id].peers /\ c.unclaimed = m.conns[id].unclaimed
        BY <4>0, <4>2 DEF Saved
      <4> HIDE DEF c
      <4>4. /\ n \in Manager /\ DOMAIN n.conns = DOMAIN m.conns /\ n.conns[id] = c
            /\ \A i \in DOMAIN m.conns : i # id => n.conns[i] = m.conns[i]
            /\ SameDevices(n, m) /\ SameTimes(n, m) /\ n.answers = m.answers /\ n.msgs = m.msgs
        <5>1. c \in Saved
          BY <4>3
        <5> QED
          BY SMT, <5>1, ConnBecomes
      <4>6. Surplus(c) = Surplus(m.conns[id])
        BY <4>3 DEF Surplus
      <4> HIDE DEF n
      <4> QED
        BY <4>1, <4>3, <4>4, <4>6 DEF SameEnds
    <3> TAKE m \in Manager
    <3> TAKE id \in DOMAIN m.conns
    <3> HAVE m.conns[id].unclaimed = 1
    <3> DEFINE n == [m EXCEPT !.conns[id].unclaimed = 0]
               k == [n EXCEPT !.conns[id].retryCount = 0]
    <3>1. /\ n \in Manager /\ SameEnds(n, m) /\ Surplus(n.conns[id]) = Surplus(m.conns[id]) + 1
          /\ \A i \in DOMAIN m.conns : i # id => n.conns[i] = m.conns[i]
          /\ SameDevices(n, m) /\ SameTimes(n, m) /\ n.answers = m.answers /\ n.msgs = m.msgs
      BY <2>ClaimIs
    <3> HIDE DEF n
    <3>2. n \in Manager /\ id \in DOMAIN n.conns
      BY <3>1 DEF SameEnds
    <3>3. /\ k \in Manager /\ SameEnds(k, n) /\ Surplus(k.conns[id]) = Surplus(n.conns[id])
          /\ \A i \in DOMAIN n.conns : i # id => k.conns[i] = n.conns[i]
          /\ SameDevices(k, n) /\ SameTimes(k, n) /\ k.answers = n.answers /\ k.msgs = n.msgs
      BY SMT, <3>2, <3>FreshRetry
    <3> HIDE DEF k
    <3>4. SameEnds(k, m) /\ \A i \in DOMAIN m.conns : i # id => k.conns[i] = m.conns[i]
      BY <3>1, <3>3 DEF SameEnds
    <3>5. SameDevices(k, m) /\ SameTimes(k, m) /\ k.answers = m.answers /\ k.msgs = m.msgs
      BY <3>1, <3>3 DEF SameDevices, SameTimes
    <3>6. k \in Manager /\ Surplus(k.conns[id]) = Surplus(m.conns[id]) + 1
      BY <3>1, <3>3
    <3> QED
      BY <3>4, <3>5, <3>6 DEF Ready, k, n
  \* A success that answers the device waiting at position w.
  <2>LateSound. \A m \in Manager : \A th, C : \A id \in DOMAIN m.conns, w \in DOMAIN m.waitings :
                   /\ Good(m, th, C, {})
                   /\ th[id] \in {"reading", "done"}
                   /\ ~Sent(m, "SUCCESS", id)
                   /\ m.conns[id].unclaimed = 1
                  => Sound(DropWaiting(NotifyConnected(PassedOver(Ready(m, id), w), m.waitings[w], id, FALSE), w), m, th, C)
    <3>PassedOverIs. \A m \in Manager : \A i :
                       LET n == PassedOver(m, i)
                       IN  /\ n \in Manager
                           /\ ~n.passed => /\ ~m.passed
                                           /\ \/ m.state # "AVAILABLE" \/ m.waitings[i].state = "WAIT_SCHEDULE"
                                              \/ ~Waits(m, {"WAIT_SCHEDULE"})
                           /\ n.state = m.state /\ n.connecting = m.connecting /\ n.waitings = m.waitings
                           /\ SameTimes(n, m) /\ n.conns = m.conns /\ n.answers = m.answers /\ n.msgs = m.msgs
      <4>SetPassed. ASSUME NEW m \in Manager, NEW x \in BOOLEAN
                    PROVE  LET n == [m EXCEPT !.passed = x]
                           IN  /\ n \in Manager /\ n.passed = x
                               /\ n.state = m.state /\ n.connecting = m.connecting /\ n.waitings = m.waitings /\ n.pendings = m.pendings
                               /\ n.conns = m.conns /\ n.msgs = m.msgs /\ n.timers = m.timers /\ n.answers = m.answers
        BY DEF Manager
      <4> TAKE m \in Manager
      <4> TAKE i
      <4> DEFINE p == m.passed \/ /\ m.state = "AVAILABLE"
                                  /\ m.waitings[i].state # "WAIT_SCHEDULE"
                                  /\ \E d \in DOMAIN m.waitings : m.waitings[d].state = "WAIT_SCHEDULE"
                 n == [m EXCEPT !.passed = p]
      <4>1. PassedOver(m, i) = n
        BY DEF PassedOver
      <4>2. p \in BOOLEAN
        BY FieldTypes
      <4>3. ~p => /\ ~m.passed
                  /\ \/ m.state # "AVAILABLE" \/ m.waitings[i].state = "WAIT_SCHEDULE"
                     \/ ~Waits(m, {"WAIT_SCHEDULE"})
        BY DEF Waits
      <4> HIDE DEF p
      <4>4. /\ n \in Manager /\ n.passed = p
            /\ n.state = m.state /\ n.connecting = m.connecting /\ n.waitings = m.waitings /\ n.pendings = m.pendings
            /\ n.conns = m.conns /\ n.msgs = m.msgs /\ n.timers = m.timers /\ n.answers = m.answers
        BY <4>2, <4>SetPassed
      <4> HIDE DEF n
      <4> QED
        BY <4>1, <4>3, <4>4 DEF SameTimes
    <3>DropSame. ASSUME NEW m \in Manager, NEW n \in Manager, NEW i \in DOMAIN m.waitings, n.waitings = m.waitings
                 PROVE  DropWaiting(n, i).waitings = DropWaiting(m, i).waitings
      <4> USE <3>DropSame
      <4> DEFINE x == [j \in 1..(Len(m.waitings) - 1) |-> IF j < i THEN m.waitings[j] ELSE m.waitings[j + 1]]
      <4>1. DropWaiting(m, i) = [m EXCEPT !.waitings = x] /\ DropWaiting(n, i) = [n EXCEPT !.waitings = x]
        BY DEF DropWaiting
      <4> HIDE DEF x
      <4>2. [m EXCEPT !.waitings = x].waitings = x /\ [n EXCEPT !.waitings = x].waitings = x
        BY ZenonT(60) DEF Manager
      <4> QED
        BY <4>1, <4>2
    <3> TAKE m \in Manager
    <3> TAKE th, C
    <3> TAKE id \in DOMAIN m.conns, w \in DOMAIN m.waitings
    <3> HAVE /\ Good(m, th, C, {})
             /\ th[id] \in {"reading", "done"}
             /\ ~Sent(m, "SUCCESS", id)
             /\ m.conns[id].unclaimed = 1
    <3> DEFINE k == Ready(m, id)
               p == PassedOver(k, w)
               d == m.waitings[w]
               no == FALSE
               q == NotifyConnected(p, d, id, no)
               r == DropWaiting(q, w)
               s == DropWaiting(m, w)
    <3>1. /\ k \in Manager /\ SameEnds(k, m) /\ Surplus(k.conns[id]) = Surplus(m.conns[id]) + 1
          /\ \A i \in DOMAIN m.conns : i # id => k.conns[i] = m.conns[i]
          /\ SameDevices(k, m) /\ SameTimes(k, m) /\ k.answers = m.answers /\ k.msgs = m.msgs
      BY <2>ReadyIs
    <3>2. k \in Manager
      BY <3>1
    <3> HIDE DEF k
    <3>3. /\ p \in Manager
          /\ ~p.passed => /\ ~k.passed
                          /\ \/ k.state # "AVAILABLE" \/ k.waitings[w].state = "WAIT_SCHEDULE"
                             \/ ~Waits(k, {"WAIT_SCHEDULE"})
          /\ p.state = k.state /\ p.connecting = k.connecting /\ p.waitings = k.waitings
          /\ SameTimes(p, k) /\ p.conns = k.conns /\ p.answers = k.answers /\ p.msgs = k.msgs
      BY <3>2, <3>PassedOverIs
    <3>4. p \in Manager /\ id \in DOMAIN p.conns
      BY <3>1, <3>3 DEF SameEnds
    <3>5. d \in Device
      BY DevicesTyped
    <3>6. Own(no) = 1
      BY DEF Own
    <3> HIDE DEF p, d, no
    <3>7. /\ q \in Manager /\ SameEnds(q, p)
          /\ \A i \in DOMAIN p.conns : i # id => q.conns[i] = p.conns[i]
          /\ Surplus(q.conns[id]) = Surplus(p.conns[id]) - 1
          /\ \A a \in Req : q.answers[a] = IF a \in d.reqs THEN p.answers[a] + 1 ELSE p.answers[a]
          /\ SameDevices(q, p) /\ SameTimes(q, p) /\ q.msgs = p.msgs
      <4>1. Notified(q, p, d, id, no)
        BY <3>4, <3>5, NotifyConnectedIs
      <4> HIDE DEF q
      <4> QED
        BY <3>6, <4>1 DEF Notified
    <3> HIDE DEF q
    <3>8. q \in Manager /\ q.waitings = m.waitings /\ w \in DOMAIN q.waitings
      BY <3>1, <3>3, <3>7 DEF SameDevices
    <3>9. /\ r \in Manager
          /\ \A j \in DOMAIN r.waitings : /\ Shift(w, j) \in DOMAIN q.waitings
                                          /\ r.waitings[j] = q.waitings[Shift(w, j)]
          /\ \A j \in DOMAIN q.waitings : j # w => \E i \in DOMAIN r.waitings : r.waitings[i] = q.waitings[j]
          /\ r.state = q.state /\ r.connecting = q.connecting /\ r.passed = q.passed
          /\ SameTimes(r, q) /\ r.conns = q.conns /\ r.answers = q.answers /\ r.msgs = q.msgs
      <4>1. q \in Manager /\ w \in DOMAIN q.waitings
        BY <3>8
      <4> QED
        BY SMT, <4>1, DropWaitingIs
    <3>10. Core(m, th, C, {}) /\ Timed(m, th) /\ Matched(m)
      BY DEF Good
    <3>11. Core(s, th, C, d.reqs)
      BY <3>10, CoreDrop DEF d
    <3>12. /\ s.state = m.state /\ s.connecting = m.connecting /\ s.passed = m.passed
           /\ SameTimes(s, m) /\ s.conns = m.conns /\ s.answers = m.answers /\ s.msgs = m.msgs
      BY DropWaitingIs
    <3>13. r.waitings = s.waitings
      BY <3>8, <3>DropSame
    <3> HIDE DEF r, s
    <3>14. /\ r.state = m.state /\ r.connecting = m.connecting /\ r.passed = p.passed
           /\ SameTimes(r, m) /\ r.msgs = m.msgs /\ r.conns = q.conns
           /\ \A a \in Req : r.answers[a] = IF a \in d.reqs THEN m.answers[a] + 1 ELSE m.answers[a]
      <4>1. \A a \in Req : r.answers[a] = IF a \in d.reqs THEN m.answers[a] + 1 ELSE m.answers[a]
        BY <3>1, <3>3, <3>7, <3>9
      <4> QED
        <5>1. r.msgs = m.msgs /\ r.conns = q.conns
          BY <3>1, <3>3, <3>7, <3>9
        <5>2. SameTimes(r, m)
          BY <3>1, <3>3, <3>7, <3>9 DEF SameTimes
        <5> QED
          BY <3>1, <3>3, <3>7, <3>9, <4>1, <5>1, <5>2 DEF SameDevices
    <3>15. SameEnds(r, m) /\ \A i \in DOMAIN m.conns : i # id => r.conns[i] = m.conns[i]
      <4>1. p.conns = k.conns /\ r.conns = q.conns
        BY <3>3, <3>9
      <4>2. SameEnds(q, p) /\ SameEnds(k, m)
        BY <3>1, <3>7
      <4>3. SameEnds(r, m)
        BY <4>1, <4>2 DEF SameEnds
      <4>4. DOMAIN p.conns = DOMAIN m.conns
        BY <4>1, <4>2 DEF SameEnds
      <4> QED
        BY <3>1, <3>7, <4>1, <4>3, <4>4
    <3>16. Surplus(r.conns[id]) = Surplus(m.conns[id])
      <4>1. Surplus(r.conns[id]) = Surplus(k.conns[id]) - 1 /\ Surplus(k.conns[id]) = Surplus(m.conns[id]) + 1
        BY <3>1, <3>3, <3>7, <3>9
      <4>2. Surplus(m.conns[id]) \in Int
        BY DomainIs, SavedTypes
      <4> QED
        BY SMT, <4>1, <4>2
    <3>17. Core(r, th, C, {})
      <4>1. /\ \A i \in DOMAIN s.conns : Surplus(r.conns[i]) = Surplus(s.conns[i])
            /\ \A i \in DOMAIN s.conns : i # id => r.conns[i].unclaimed = s.conns[i].unclaimed
        BY <3>12, <3>15, <3>16
      <4>2. th[id] \notin {"connecting", "open"}
        OBVIOUS
      <4>3. \A a \in Req : r.answers[a] = IF a \in d.reqs THEN s.answers[a] + 1 ELSE s.answers[a]
        BY <3>12, <3>14
      <4>4. SameEnds(r, s) /\ r.connecting = s.connecting
        BY <3>12, <3>14, <3>15 DEF SameEnds
      <4>5. r.msgs = s.msgs /\ SameTimes(r, s)
        BY <3>12, <3>14 DEF SameTimes
      <4>6. Grown(r, s) /\ SameButTimeouts(r, s)
        BY <4>5, GrownSame, SameTimesAre
      <4>7. ~Sent(s, "SUCCESS", id)
        BY <3>12 DEF Sent, At
      <4> QED
        BY SMT, <3>11, <3>13, <4>1, <4>2, <4>3, <4>4, <4>6, <4>7, <2>ClaimedCore
    <3>18. Timed(r, th)
      <4>1. r.connecting.addr = m.connecting.addr /\ SameEnds(r, m) /\ r.state = m.state
        BY <3>14, <3>15
      <4>2. SameAlarms(r, m) /\ Grown(r, m)
        BY <3>14, SameTimesAre, GrownSame
      <4> QED
        BY <3>10, <4>1, <4>2, TimedSame
    <3>19. Matched(r)
      BY <3>10, <3>14 DEF Matched
    <3>20. Awake(m) => Awake(r)
      <4> SUFFICES ASSUME Awake(m), r.state = "AVAILABLE", Waits(r, {"WAIT_SCHEDULE"}), ~r.passed
                   PROVE  Schedules(r) \/ Waits(r, {"PENDING", "WAIT_EVENT"})
        BY DEF Awake
      <4>0. /\ \A j \in DOMAIN r.waitings : /\ Shift(w, j) \in DOMAIN m.waitings
                                            /\ r.waitings[j] = m.waitings[Shift(w, j)]
            /\ \A j \in DOMAIN m.waitings : j # w => \E i \in DOMAIN r.waitings : r.waitings[i] = m.waitings[j]
        BY <3>8, <3>9
      <4>1. Waits(m, {"WAIT_SCHEDULE"})
        BY <4>0 DEF Waits
      <4>2. k.waitings = m.waitings /\ k.state = m.state /\ k.passed = m.passed
        BY <3>1 DEF SameDevices
      <4>3. m.state = "AVAILABLE" /\ ~p.passed
        BY <3>14
      <4>4. m.waitings[w].state = "WAIT_SCHEDULE" /\ ~m.passed
        BY <3>3, <4>1, <4>2, <4>3 DEF Waits
      <4>5. Schedules(m) \/ Waits(m, {"PENDING", "WAIT_EVENT"})
        BY <4>1, <4>3, <4>4 DEF Awake
      <4>6. Schedules(m) => Schedules(r)
        BY <3>14 DEF Schedules
      <4>7. Waits(m, {"PENDING", "WAIT_EVENT"}) => Waits(r, {"PENDING", "WAIT_EVENT"})
        <5> SUFFICES ASSUME NEW j \in DOMAIN m.waitings, m.waitings[j].state \in {"PENDING", "WAIT_EVENT"}
                     PROVE  Waits(r, {"PENDING", "WAIT_EVENT"})
          BY DEF Waits
        <5>1. j # w
          BY <4>4
        <5>2. PICK i \in DOMAIN r.waitings : r.waitings[i] = m.waitings[j]
          BY <4>0, <5>1
        <5> QED
          BY <5>2 DEF Waits
      <4> QED
        BY <4>5, <4>6, <4>7
    <3>21. Sound(r, m, th, C)
      BY <3>9, <3>17, <3>18, <3>19, <3>20 DEF Sound, Good
    <3> QED
      BY <3>21 DEF r, q, no, p, d, k
  \* The success of the attempt of the connecting device.
  <2>WantedSound. ASSUME NEW m \in Manager, NEW th, NEW C, NEW id \in DOMAIN m.conns, Core(m, th, C, {}), Matched(m),
                         m.connecting.addr = m.conns[id].addr,
                         th[id] \in {"reading", "done"}, ~Sent(m, "SUCCESS", id), m.conns[id].unclaimed = 1
                  PROVE  Sound(TransitionToState(
                                 [NotifyConnected(CancelTimeout(Ready(m, id), id), m.connecting, id, FALSE) EXCEPT !.connecting = None],
                                 "AVAILABLE"), m, th, C)
    <3> USE <2>WantedSound
    <3> DEFINE k == Ready(m, id)
               p == CancelTimeout(k, id)
               d == m.connecting
               no == FALSE
               q == NotifyConnected(p, d, id, no)
               r == [q EXCEPT !.connecting = None]
               s == [m EXCEPT !.connecting = None]
               t == TransitionToState(r, "AVAILABLE")
    <3>1. /\ k \in Manager /\ SameEnds(k, m) /\ Surplus(k.conns[id]) = Surplus(m.conns[id]) + 1
          /\ \A i \in DOMAIN m.conns : i # id => k.conns[i] = m.conns[i]
          /\ SameDevices(k, m) /\ SameTimes(k, m) /\ k.answers = m.answers /\ k.msgs = m.msgs
      BY <2>ReadyIs
    <3>2. k \in Manager
      BY <3>1
    <3> HIDE DEF k
    <3>3. /\ p \in Manager /\ p.timers \in SUBSET k.timers /\ p.pendings = k.pendings
          /\ \A f \in k.timers : f.what # "TIMEOUT" \/ f.id # id => f \in p.timers
          /\ SameDevices(p, k) /\ p.conns = k.conns /\ p.answers = k.answers /\ p.msgs = k.msgs
      BY <3>2, CancelTimeoutIs
    <3>4. p \in Manager /\ id \in DOMAIN p.conns
      BY <3>1, <3>3 DEF SameEnds
    <3>5. d \in Device /\ d # None
      <4>1. m.conns[id].addr \in Addr
        BY DomainIs, SavedTypes
      <4>2. m.connecting.addr \in Addr
        BY <4>1
      <4> QED
        BY <4>2, DevicesTyped
    <3>6. Own(no) = 1
      BY DEF Own
    <3> HIDE DEF p, d, no
    <3>7. Notified(q, p, d, id, no)
      BY <3>4, <3>5, NotifyConnectedIs
    <3> HIDE DEF q
    <3>8. /\ q \in Manager /\ SameEnds(q, p)
          /\ \A i \in DOMAIN p.conns : i # id => q.conns[i] = p.conns[i]
          /\ Surplus(q.conns[id]) = Surplus(p.conns[id]) - 1
          /\ \A a \in Req : q.answers[a] = IF a \in d.reqs THEN p.answers[a] + 1 ELSE p.answers[a]
          /\ SameDevices(q, p) /\ SameTimes(q, p) /\ q.msgs = p.msgs
      BY <3>6, <3>7 DEF Notified
    <3>9. q \in Manager /\ None \in Device \cup {None}
      BY <3>8
    <3>10. /\ r \in Manager /\ r.connecting = None
           /\ r.state = q.state /\ r.waitings = q.waitings /\ r.pendings = q.pendings /\ r.conns = q.conns
           /\ r.msgs = q.msgs /\ r.timers = q.timers /\ r.answers = q.answers /\ r.passed = q.passed
      BY <3>9, SetConnecting
    <3>11. s \in Manager /\ Core(s, th, C, d.reqs)
      BY CoreFree DEF d
    <3>12. /\ s.connecting = None
           /\ s.state = m.state /\ s.waitings = m.waitings /\ s.pendings = m.pendings /\ s.conns = m.conns
           /\ s.msgs = m.msgs /\ s.timers = m.timers /\ s.answers = m.answers
      BY <3>9, SetConnecting
    <3> HIDE DEF r, s
    <3>13. r.waitings = s.waitings /\ r.connecting = s.connecting /\ r.msgs = s.msgs /\ r.pendings = s.pendings
      BY <3>1, <3>3, <3>8, <3>10, <3>12 DEF SameDevices, SameTimes
    <3>14. r.timers = p.timers /\ k.timers = s.timers /\ r.state = m.state
      BY <3>1, <3>3, <3>8, <3>10, <3>12 DEF SameTimes, SameDevices
    <3>15. \A a \in Req : r.answers[a] = IF a \in d.reqs THEN s.answers[a] + 1 ELSE s.answers[a]
      <4>1. p.answers = s.answers /\ r.answers = q.answers
        BY <3>1, <3>3, <3>10, <3>12
      <4> QED
        BY <3>8, <4>1
    <3>16. SameEnds(r, s) /\ \A i \in DOMAIN s.conns : i # id => r.conns[i] = s.conns[i]
      <4>1. p.conns = k.conns /\ r.conns = q.conns /\ s.conns = m.conns
        BY <3>3, <3>10, <3>12
      <4>2. SameEnds(q, p) /\ SameEnds(k, m)
        BY <3>1, <3>8
      <4>3. SameEnds(r, s)
        BY <4>1, <4>2 DEF SameEnds
      <4>4. DOMAIN p.conns = DOMAIN m.conns
        BY <4>1, <4>2 DEF SameEnds
      <4>5. \A i \in DOMAIN m.conns : i # id => q.conns[i] = k.conns[i] /\ k.conns[i] = m.conns[i]
        BY <3>1, <3>8, <4>1, <4>4
      <4> QED
        BY <4>1, <4>3, <4>5
    <3>17. Surplus(r.conns[id]) = Surplus(s.conns[id])
      <4>1. Surplus(r.conns[id]) = Surplus(k.conns[id]) - 1 /\ Surplus(k.conns[id]) = Surplus(m.conns[id]) + 1
        BY <3>1, <3>3, <3>8, <3>10
      <4>2. Surplus(m.conns[id]) \in Int
        BY DomainIs, SavedTypes
      <4> QED
        BY SMT, <3>12, <4>1, <4>2
    <3>18. SameButTimeouts(r, s)
      <4>1. \A f : f \in r.timers => f \in s.timers
        BY <3>3, <3>14
      <4>2. \A f : f.what # "TIMEOUT" /\ f \in s.timers => f \in r.timers
        BY <3>3, <3>14
      <4>3. \A addr : Unpend(addr).what # "TIMEOUT"
        BY UnpendApart
      <4>4. \A f : f.what = "FAIL" => f.what # "TIMEOUT"
        OBVIOUS
      <4> QED
        BY <3>13, <4>1, <4>2, <4>3, <4>4 DEF SameButTimeouts, SameUnpends
    <3>19. Core(r, th, C, {})
      <4>1. /\ \A i \in DOMAIN s.conns : Surplus(r.conns[i]) = Surplus(s.conns[i])
            /\ \A i \in DOMAIN s.conns : i # id => r.conns[i].unclaimed = s.conns[i].unclaimed
        BY <3>16, <3>17
      <4>2. th[id] \notin {"connecting", "open"}
        OBVIOUS
      <4>3. Grown(r, s) /\ ~Sent(s, "SUCCESS", id)
        BY <3>12, <3>13, GrownSame DEF Sent, At
      <4>4. Core(s, th, C, d.reqs) /\ SameEnds(r, s) /\ r.waitings = s.waitings /\ r.connecting = s.connecting
        BY <3>11, <3>13, <3>16
      <4> QED
        BY SMT, <3>15, <3>18, <4>1, <4>2, <4>3, <4>4, <2>ClaimedCore
    <3>20. r \in Manager /\ r.connecting = None /\ r.state = "CONNECTING"
      BY <3>5, <3>10, <3>14 DEF Matched, d
    <3>21. t \in Manager /\ Good(t, th, C, {}) /\ Awake(t)
      BY <3>19, <3>20, BackGood
    <3> HIDE DEF t
    <3>22. Sound(t, m, th, C)
      BY <3>21 DEF Sound
    <3> QED
      BY <3>22 DEF t, r, q, no, p, d, k
  <2> TAKE m \in Manager
  <2> TAKE th, C
  <2> TAKE id \in DOMAIN m.conns
  <2> HAVE /\ Core(m, th, C, {})
           /\ Matched(m)
           /\ m.connecting.addr # m.conns[id].addr => Timed(m, th)
           /\ th[id] \in {"reading", "done"}
           /\ ~Sent(m, "SUCCESS", id)
           /\ m.conns[id].unclaimed = 1
  <2> DEFINE addr == m.conns[id].addr
             w == Waiting(m, addr)
             n == [m EXCEPT !.conns[id].unclaimed = 0]
             ready == Ready(m, id)
             late == DropWaiting(NotifyConnected(PassedOver(ready, w), m.waitings[w], id, FALSE), w)
             unwanted == SetLink(n, id, NotifyUpdateConnectionRc(n.conns[id].link, -1))
             wanted == TransitionToState(
                         [NotifyConnected(CancelTimeout(ready, id), m.connecting, id, FALSE) EXCEPT !.connecting = None],
                         "AVAILABLE")
  <2>1. ClientConnected(m, id)
          = IF w # 0 THEN late ELSE IF m.connecting.addr # addr THEN unwanted ELSE wanted
    BY DEF ClientConnected, Ready
  <2>2. w # 0 => w \in DOMAIN m.waitings /\ m.waitings[w].addr = addr
    BY WaitingIs
  <2>3. OneDevice(m)
    BY DEF Core, Shape
  <2> HIDE DEF w
  <2>4. ASSUME w # 0 PROVE Sound(late, m, th, C)
    <3>1. m.connecting.addr # addr /\ w \in DOMAIN m.waitings
      BY <2>2, <2>3, <2>4 DEF OneDevice
    <3>2. Good(m, th, C, {})
      BY <3>1 DEF Good
    <3> QED
      BY <3>1, <3>2, <2>LateSound
  <2>5. ASSUME m.connecting.addr # addr PROVE Sound(unwanted, m, th, C)
    <3>1. Good(m, th, C, {})
      BY <2>5 DEF Good
    <3> QED
      BY <3>1, <2>UnwantedSound
  <2>6. ASSUME m.connecting.addr = addr PROVE Sound(wanted, m, th, C)
    BY <2>6, <2>WantedSound
  <2> HIDE DEF late, unwanted, wanted, addr
  <2> QED
    BY <2>1, <2>4, <2>5, <2>6
<1> HAVE /\ Inv
         /\ HandleClientConnected
<1> DEFINE id == Current.id
           m == Rest
<1>1. mgr.msgs # <<>> /\ Current.what = "SUCCESS" /\ Current.what \in Reports
  BY DEF HandleClientConnected, Arrived, Current, Reports
<1>2. mgr' = ClientConnected(m, id) /\ UNCHANGED <<called, thread, btOn, events, faults>>
  BY DEF HandleClientConnected
<1>3. id \in DOMAIN thread /\ At(mgr, 1, "SUCCESS", id) /\ Sent(mgr, "SUCCESS", id)
  BY <1>1, CurrentReport
<1>4. Current.what # "CONNECT_REQUEST" /\ Current.what # "DISCONNECT" /\ Current.what # "NEXT_CMD"
  BY <1>1
<1>5. /\ m \in Manager /\ m.conns = mgr.conns /\ m.connecting = mgr.connecting /\ m.state = mgr.state
      /\ m.timers = mgr.timers /\ Shrunk(m, mgr) /\ Matched(m) /\ Current = mgr.msgs[1]
  BY <1>1, RestGood
<1>6. Core(m, thread, called, {})
  BY <1>1, <1>4, RestGood DEF Core
<1>7. Told(mgr, thread) /\ Tally(mgr, thread) /\ Timed(mgr, thread)
  BY <1>1, RestGood DEF Good, Core
<1> HIDE DEF id, m
<1>8. /\ thread[id] \in {"reading", "done"} /\ id \in DOMAIN m.conns /\ ~Sent(m, "SUCCESS", id)
  BY <1>3, <1>5, <1>7, <1>HeadSuccess
<1>9. m.conns[id].unclaimed = 1
  BY <1>3, <1>5, <1>7, <1>8 DEF Tally, Unclaimed
<1>10. ASSUME m.connecting.addr # m.conns[id].addr PROVE Timed(m, thread)
  <2> SUFFICES ASSUME m.state = "CONNECTING" PROVE \E j \in Id : Attempt(m, thread, j)
    BY DEF Timed
  <2>1. PICK j \in Id : Attempt(mgr, thread, j)
    BY <1>5, <1>7 DEF Timed
  <2>2. mgr.conns[j].addr = mgr.connecting.addr
    BY <2>1 DEF Attempt
  <2>3. j # id
    BY <1>5, <1>10, <2>2
  <2>4. ~At(mgr, 1, "SUCCESS", j)
    BY <1>3, <2>3 DEF At
  <2>5. ~At(mgr, 1, "FAIL", j)
    BY <1>3 DEF At
  <2>6. Attempt(m, thread, j)
    BY <1>5, <2>1, <2>4, <2>5, AttemptRest
  <2> QED
    BY <2>6
<1>11. Sound(ClientConnected(m, id), m, thread, called)
  BY <1>5, <1>6, <1>8, <1>9, <1>10, <1>ClientConnectedSound
<1>12. Sound(mgr', Rest, thread, called)
  BY <1>2, <1>11 DEF m
<1> QED
  BY <1>1, <1>2, <1>4, <1>12, Handled, StaysHere

LEMMA FailedGood ==
  ASSUME NEW m \in Manager, NEW th, NEW C, NEW d, Good(m, th, C, d.reqs)
  PROVE  Sound(NotifyFailed(m, d), m, th, C)
<1> DEFINE n == NotifyFailed(m, d)
<1>0. Core(m, th, C, d.reqs) /\ Matched(m) /\ Timed(m, th)
  BY DEF Good
<1>1. /\ n \in Manager /\ Core(n, th, C, {})
      /\ SameDevices(n, m) /\ SameTimes(n, m) /\ n.conns = m.conns /\ n.msgs = m.msgs
  BY <1>0, CoreFailed
<1> HIDE DEF n
<1>2. n.state = m.state /\ n.connecting = m.connecting /\ Grown(n, m)
  BY <1>1, GrownSame DEF SameDevices
<1>3. SameEnds(n, m) /\ SameAlarms(n, m)
  BY <1>1, SameConns, SameTimesAre
<1>4. Matched(n)
  BY <1>0, <1>2 DEF Matched
<1>5. Timed(n, th)
  BY <1>0, <1>2, <1>3, TimedSame
<1>6. Awake(m) => Awake(n)
  BY <1>1, <1>2, GrownKeeps, AwakeFrame
<1> QED
  BY <1>1, <1>4, <1>5, <1>6 DEF Sound, Good, n

LEMMA PendingGood ==
  ASSUME SetLaws,
         NEW m \in Manager, NEW th, NEW C, NEW d \in Device, Good(m, th, C, d.reqs),
         HasWaker(m, d.addr, d.state)
  PROVE  LET n == PendingDevice(m, d)
         IN  n \in Manager /\ Good(n, th, C, {}) /\ n.state = m.state
<1> DEFINE n == PendingDevice(m, d)
<1>0. Core(m, th, C, d.reqs) /\ Matched(m) /\ Timed(m, th)
  BY DEF Good
<1>1. /\ n \in Manager /\ n.connecting.addr = m.connecting.addr /\ (n.connecting = None <=> m.connecting = None)
      /\ n.state = m.state /\ SameTimes(n, m) /\ n.conns = m.conns /\ n.msgs = m.msgs
  BY PendingDeviceIs
<1>2. Core(n, th, C, {})
  BY <1>0, CorePending
<1> HIDE DEF n
<1>3. Matched(n)
  BY <1>0, <1>1 DEF Matched
<1>4. SameEnds(n, m) /\ SameAlarms(n, m) /\ Grown(n, m)
  BY <1>1, SameConns, SameTimesAre, GrownSame
<1>5. Timed(n, th)
  BY <1>0, <1>1, <1>4, TimedSame
<1> QED
  BY <1>1, <1>2, <1>3, <1>5 DEF Good, n

LEMMA DeviceState ==
  ASSUME NEW d \in Device, NEW s \in {"WAIT_EVENT", "PENDING"}
  PROVE  LET e == [d EXCEPT !.state = s]
         IN  e \in Device /\ e.state = s /\ e.addr = d.addr /\ e.reqs = d.reqs
BY DEF Device

LEMMA AttempGood ==
  ASSUME SetLaws
  PROVE  \A m \in Manager : \A th, C : \A d \in Device : \A absent :
           Good(m, th, C, d.reqs)
           => LET n == AttempReuseConnect(m, d, absent)
              IN  \/ /\ n \in Manager /\ Good(n, th, C, {}) /\ DOMAIN n.conns = DOMAIN m.conns
                     /\ \/ Schedules(n)
                        \/ /\ n.state = m.state
                           /\ \E s \in {"WAIT_EVENT", "PENDING"} : n = PendingDevice(m, [d EXCEPT !.state = s])
                  \/ n = absent /\ ~Connected(m, d.addr)
\* The outcomes of AttempReuseConnect.
<1>AttempIs. ASSUME NEW m \in Manager, NEW d \in Device, NEW absent
             PROVE  LET n == AttempReuseConnect(m, d, absent)
                    IN  \/ \E id \in DOMAIN m.conns : n = ReuseConnection(m, d, id)
                        \/ \E s \in {"WAIT_EVENT", "PENDING"} :
                             HasWaker(m, d.addr, s) /\ n = PendingDevice(m, [d EXCEPT !.state = s])
                        \/ n = absent /\ ~Connected(m, d.addr)
  <2> DEFINE client == GetConnectionByAddr(m, d.addr, "client")
             server == GetConnectionByAddr(m, d.addr, "server")
             n == AttempReuseConnect(m, d, absent)
  <2>1. /\ client = 0 => \A i \in DOMAIN m.conns : ~(m.conns[i].addr = d.addr /\ m.conns[i].side = "client")
        /\ client # 0 => client \in DOMAIN m.conns /\ m.conns[client].addr = d.addr
    BY SMT, ConnectionIs
  <2>2. /\ server = 0 => \A i \in DOMAIN m.conns : ~(m.conns[i].addr = d.addr /\ m.conns[i].side = "server")
        /\ server # 0 => server \in DOMAIN m.conns /\ m.conns[server].addr = d.addr
    BY SMT, ConnectionIs
  <2>3. \A i \in DOMAIN m.conns : m.conns[i].side \in {"client", "server"}
    BY DomainIs, SavedTypes
  <2>4. \/ Reusable(m, client) /\ n = ReuseConnection(m, d, client)
        \/ Reusable(m, server) /\ n = ReuseConnection(m, d, server)
        \/ {client, server} # {0} /\ n = PendingDevice(m, [d EXCEPT !.state = "WAIT_EVENT"])
        \/ d.addr \in m.pendings /\ n = PendingDevice(m, [d EXCEPT !.state = "PENDING"])
        \/ {client, server} = {0} /\ n = absent
    <3>1. CASE Reusable(m, client)
      BY SMT, <3>1 DEF AttempReuseConnect
    <3>2. CASE ~Reusable(m, client) /\ Reusable(m, server)
      BY SMT, <3>2 DEF AttempReuseConnect
    <3>3. CASE ~Reusable(m, client) /\ ~Reusable(m, server) /\ {client, server} # {0}
      BY SMT, <3>3 DEF AttempReuseConnect
    <3>4. CASE {client, server} = {0}
      <4>1. client = 0 /\ server = 0
        BY <3>4
      <4>2. ~Reusable(m, client) /\ ~Reusable(m, server)
        BY <4>1 DEF Reusable
      <4>3. CASE d.addr \in m.pendings
        BY SMT, <3>4, <4>2, <4>3 DEF AttempReuseConnect
      <4>4. CASE d.addr \notin m.pendings
        BY SMT, <3>4, <4>2, <4>4 DEF AttempReuseConnect
      <4> QED
        BY <4>3, <4>4
    <3> QED
      BY <3>1, <3>2, <3>3, <3>4
  <2> HIDE DEF n, client, server
  <2>5. CASE Reusable(m, client) /\ n = ReuseConnection(m, d, client)
    BY <2>1, <2>5 DEF Reusable, n
  <2>6. CASE Reusable(m, server) /\ n = ReuseConnection(m, d, server)
    BY <2>2, <2>6 DEF Reusable, n
  <2>7. CASE {client, server} # {0} /\ n = PendingDevice(m, [d EXCEPT !.state = "WAIT_EVENT"])
    <3>1. client # 0 \/ server # 0
      BY <2>7
    <3>2. HasWaker(m, d.addr, "WAIT_EVENT")
      BY <2>1, <2>2, <3>1 DEF HasWaker, Connected
    <3> QED
      BY <2>7, <3>2 DEF n
  <2>8. CASE d.addr \in m.pendings /\ n = PendingDevice(m, [d EXCEPT !.state = "PENDING"])
    <3>1. HasWaker(m, d.addr, "PENDING")
      BY <2>8 DEF HasWaker
    <3> QED
      BY <2>8, <3>1 DEF n
  <2>9. CASE {client, server} = {0} /\ n = absent
    <3>1. client = 0 /\ server = 0
      BY <2>9
    <3>2. ~Connected(m, d.addr)
      BY <2>1, <2>2, <2>3, <3>1 DEF Connected
    <3> QED
      BY <2>9, <3>2 DEF n
  <2> QED
    BY <2>4, <2>5, <2>6, <2>7, <2>8, <2>9
<1>ReuseGood. ASSUME NEW m \in Manager, NEW th, NEW C, NEW d \in Device, NEW id \in DOMAIN m.conns,
                     Good(m, th, C, d.reqs)
              PROVE  LET n == ReuseConnection(m, d, id)
                     IN  n \in Manager /\ Good(n, th, C, {}) /\ Schedules(n) /\ DOMAIN n.conns = DOMAIN m.conns
  <2> USE <1>ReuseGood
  <2> DEFINE n == ReuseConnection(m, d, id)
  <2>0. Core(m, th, C, d.reqs) /\ Matched(m) /\ Timed(m, th)
    BY DEF Good
  <2>1. /\ n \in Manager /\ Core(n, th, C, {}) /\ Grown(n, m) /\ Schedules(n)
        /\ SameDevices(n, m) /\ SameTimes(n, m) /\ SameEnds(n, m)
    BY <2>0, CoreReuse
  <2> HIDE DEF n
  <2>2. n.state = m.state /\ n.connecting = m.connecting /\ SameAlarms(n, m) /\ DOMAIN n.conns = DOMAIN m.conns
    BY <2>1, SameTimesAre DEF SameDevices, SameEnds
  <2>3. Matched(n)
    BY <2>0, <2>2 DEF Matched
  <2>4. Timed(n, th)
    BY <2>0, <2>1, <2>2, TimedSame
  <2> QED
    BY <2>1, <2>2, <2>3, <2>4 DEF Good, n
<1> TAKE m \in Manager
<1> TAKE th, C
<1> TAKE d \in Device
<1> TAKE absent
<1> HAVE Good(m, th, C, d.reqs)
<1> DEFINE n == AttempReuseConnect(m, d, absent)
<1>1. \/ \E id \in DOMAIN m.conns : n = ReuseConnection(m, d, id)
      \/ \E s \in {"WAIT_EVENT", "PENDING"} :
           HasWaker(m, d.addr, s) /\ n = PendingDevice(m, [d EXCEPT !.state = s])
      \/ n = absent /\ ~Connected(m, d.addr)
  BY <1>AttempIs
<1> HIDE DEF n
<1>2. ASSUME NEW id \in DOMAIN m.conns, n = ReuseConnection(m, d, id)
      PROVE  n \in Manager /\ Good(n, th, C, {}) /\ Schedules(n) /\ DOMAIN n.conns = DOMAIN m.conns
  <2> DEFINE r == ReuseConnection(m, d, id)
  <2>1. r \in Manager /\ Good(r, th, C, {}) /\ Schedules(r) /\ DOMAIN r.conns = DOMAIN m.conns
    BY SMT, <1>ReuseGood
  <2>2. n = r
    BY <1>2
  <2> HIDE DEF r
  <2> QED
    BY <2>1, <2>2
<1>3. ASSUME NEW s \in {"WAIT_EVENT", "PENDING"}, HasWaker(m, d.addr, s),
             n = PendingDevice(m, [d EXCEPT !.state = s])
      PROVE  n \in Manager /\ Good(n, th, C, {}) /\ n.state = m.state /\ DOMAIN n.conns = DOMAIN m.conns
  <2> DEFINE e == [d EXCEPT !.state = s]
  <2>1. e \in Device /\ e.state = s /\ e.addr = d.addr /\ e.reqs = d.reqs
    BY DeviceState
  <2>2. n = PendingDevice(m, e)
    BY <1>3
  <2> HIDE DEF e
  <2>3. e \in Device /\ HasWaker(m, e.addr, e.state) /\ Good(m, th, C, e.reqs)
    BY <1>3, <2>1
  <2>4. n \in Manager /\ Good(n, th, C, {}) /\ n.state = m.state
    BY <2>2, <2>3, PendingGood
  <2>5. n.conns = m.conns
    BY <2>2, <2>3, PendingDeviceIs
  <2> QED
    BY <2>4, <2>5
<1>4. CASE \E id \in DOMAIN m.conns : n = ReuseConnection(m, d, id)
  BY <1>2, <1>4 DEF n
<1>5. CASE \E s \in {"WAIT_EVENT", "PENDING"} :
             HasWaker(m, d.addr, s) /\ n = PendingDevice(m, [d EXCEPT !.state = s])
  BY <1>3, <1>5 DEF n
<1>6. CASE n = absent /\ ~Connected(m, d.addr)
  BY <1>6 DEF n
<1> QED
  BY <1>1, <1>4, <1>5, <1>6

LEMMA NextCmdKeeps ==
  ASSUME SetLaws
  PROVE  /\ Inv
         /\ HandleNextCmd
        => Inv'
<1>NextCmdStep. /\ Typed
                /\ Good(mgr, thread, called, {})
                /\ HandleNextCmd
               => /\ mgr' \in Manager /\ thread' \in Seq(ThreadState) /\ faults' \in 0..MaxFaults
                  /\ Good(mgr', thread', called, {}) /\ (faults' = 0 => Awake(mgr'))
  <2>DropGood. ASSUME NEW m \in Manager, NEW th, NEW C, NEW i \in DOMAIN m.waitings, Good(m, th, C, {})
               PROVE  LET n == DropWaiting(m, i)
                      IN  /\ n \in Manager /\ Good(n, th, C, m.waitings[i].reqs)
                          /\ n.state = m.state /\ n.connecting = m.connecting
                          /\ \A j \in DOMAIN n.waitings : n.waitings[j].addr # m.waitings[i].addr
                          /\ n.conns = m.conns
    <3> USE <2>DropGood
    <3> DEFINE n == DropWaiting(m, i)
    <3>0. Core(m, th, C, {}) /\ Shape(m) /\ Matched(m) /\ Timed(m, th)
      BY DEF Good, Core
    <3>1. /\ n \in Manager /\ n.state = m.state /\ n.connecting = m.connecting
          /\ SameTimes(n, m) /\ n.conns = m.conns /\ n.msgs = m.msgs
      BY DropWaitingIs
    <3>2. Core(n, th, C, m.waitings[i].reqs)
      BY <3>0, CoreDrop
    <3>3. \A j \in DOMAIN n.waitings : n.waitings[j].addr # m.waitings[i].addr
      BY <3>0, DropShape
    <3> HIDE DEF n
    <3>4. SameEnds(n, m) /\ SameAlarms(n, m) /\ Grown(n, m)
      BY <3>1, SameConns, SameTimesAre, GrownSame
    <3>5. Matched(n)
      BY <3>0, <3>1 DEF Matched
    <3>6. Timed(n, th)
      BY <3>0, <3>1, <3>4, TimedSame
    <3> QED
      BY <3>1, <3>2, <3>3, <3>5, <3>6 DEF Good, n
  \* ConnectDeviceDirectly for a device in hand.
  <2>DialGood. \A m \in Manager, th \in Seq(ThreadState) : \A C : \A d \in Device :
                  /\ Core(m, th, C, d.reqs)
                  /\ m.state = "AVAILABLE"
                  /\ m.connecting = None
                  /\ ~Connected(m, d.addr)
                  /\ \A i \in DOMAIN m.waitings : m.waitings[i].addr # d.addr
                  /\ Len(th) + 1 \in Id
                 => LET n == ConnectDeviceDirectly(m, d, Len(th) + 1)
                        t == Append(th, "connecting")
                    IN  n \in Manager /\ Good(n, t, C, {}) /\ n.state = "CONNECTING"
                        /\ t \in Seq(ThreadState) /\ Len(th) + 1 \in DOMAIN n.conns
    \* The requests in hand are dialed.
    <3>OnceDial. ASSUME NEW m, NEW n, NEW C, NEW d, Once(m, C, d.reqs), m.connecting = None, n.connecting = d,
                        n.msgs = m.msgs, n.waitings = m.waitings, n.answers = m.answers
                 PROVE  Once(n, C, {})
      <4> USE <3>OnceDial
      <4> SUFFICES ASSUME NEW r \in Req
                   PROVE  AskedOnce(n, r) /\ WaitedOnce(n, r) /\ Placed(n, C, {}, r)
        BY DEF Once
      <4>1. AskedOnce(m, r) /\ WaitedOnce(m, r) /\ Placed(m, C, d.reqs, r)
        BY DEF Once
      <4>2. AskedOnce(n, r) /\ (Asked(n, r) <=> Asked(m, r))
        BY <4>1 DEF AskedOnce, Asked, Asks
      <4>3. WaitedOnce(n, r) /\ (Waited(n, r) <=> Waited(m, r))
        BY <4>1 DEF WaitedOnce, Waited
      <4>4. ~Dialed(m, r) /\ (Dialed(n, r) <=> r \in d.reqs)
        BY NoneIs DEF Dialed
      <4>5. n.answers[r] = m.answers[r] /\ r \notin {}
        OBVIOUS
      <4> QED
        BY <4>1, <4>2, <4>3, <4>4, <4>5 DEF Placed
    <3> TAKE m \in Manager, th \in Seq(ThreadState)
    <3> TAKE C
    <3> TAKE d \in Device
    <3> HAVE /\ Core(m, th, C, d.reqs)
             /\ m.state = "AVAILABLE"
             /\ m.connecting = None
             /\ ~Connected(m, d.addr)
             /\ \A i \in DOMAIN m.waitings : m.waitings[i].addr # d.addr
             /\ Len(th) + 1 \in Id
    <3> DEFINE id == Len(th) + 1
               t == Append(th, "connecting")
               a == SaveConnection(m, id, d.addr, "client")
               b == [a EXCEPT !.connecting = d]
               timer == [what |-> "TIMEOUT", id |-> id, addr |-> d.addr]
               c == PostLater(b, timer)
               n == ConnectDeviceDirectly(m, d, id)
    <3>0. Shape(m) /\ Told(m, th) /\ Once(m, C, d.reqs) /\ Tally(m, th)
      BY DEF Core
    <3>1. n = TransitionToState(c, "CONNECTING")
      BY DEF ConnectDeviceDirectly
    <3>2. "connecting" \in ThreadState
      BY DEF ThreadState
    <3>3. /\ t \in Seq(ThreadState) /\ id \in DOMAIN t /\ t[id] = "connecting" /\ id \notin DOMAIN th
          /\ \A i \in DOMAIN th : i \in DOMAIN t /\ t[i] = th[i] /\ i # id
          /\ \A i \in DOMAIN t : i \in DOMAIN th \/ i = id
      BY <3>2, ThreadAdded
    <3>4. id \in Id /\ d.addr \in Addr
      BY DeviceTypes
    <3> HIDE DEF id, t
    <3>5. id \notin DOMAIN m.conns
      BY <3>0, <3>3, FreshId
    <3>6. /\ a \in Manager /\ DOMAIN a.conns = DOMAIN m.conns \cup {id}
          /\ \A i \in DOMAIN m.conns : a.conns[i] = m.conns[i]
          /\ a.conns[id].addr = d.addr /\ a.conns[id].side = "client" /\ Surplus(a.conns[id]) = 0
          /\ a.conns[id].unclaimed = 1
          /\ SameDevices(a, m) /\ SameTimes(a, m) /\ a.answers = m.answers /\ a.msgs = m.msgs
      <4> DEFINE n0 == SaveConnection(m, id, d.addr, "client")
      <4>0. "client" \in {"client", "server"}
        OBVIOUS
      <4>1. /\ n0 \in Manager /\ DOMAIN n0.conns = DOMAIN m.conns \cup {id}
            /\ \A i \in DOMAIN m.conns : n0.conns[i] = m.conns[i]
            /\ n0.conns[id].addr = d.addr /\ n0.conns[id].side = "client" /\ Surplus(n0.conns[id]) = 0
            /\ "client" = "client" => n0.conns[id].unclaimed = 1
            /\ SameDevices(n0, m) /\ SameTimes(n0, m) /\ n0.answers = m.answers /\ n0.msgs = m.msgs
        BY SMT, <3>4, <3>5, <4>0, SaveConnectionIs
      <4> HIDE DEF a
      <4>2. a = n0
        BY DEF a
      <4> HIDE DEF n0
      <4> QED
        BY <4>1, <4>2
    <3>7. a \in Manager
      BY <3>6
    <3> HIDE DEF a
    <3>8. /\ b \in Manager /\ b.connecting = d
          /\ b.state = a.state /\ b.waitings = a.waitings /\ b.pendings = a.pendings /\ b.conns = a.conns
          /\ b.msgs = a.msgs /\ b.timers = a.timers /\ b.answers = a.answers /\ b.passed = a.passed
      BY <3>7, SetConnecting
    <3>9. b \in Manager
      BY <3>8
    <3>10. timer \in Timer /\ timer.what = "TIMEOUT" /\ timer.id = id /\ timer.addr = d.addr
      BY <3>4 DEF Timer
    <3> HIDE DEF b, timer
    <3>11. /\ c \in Manager /\ c.timers = b.timers \cup {timer} /\ c.pendings = b.pendings
           /\ SameDevices(c, b) /\ c.conns = b.conns /\ c.answers = b.answers /\ c.msgs = b.msgs
      BY <3>9, <3>10, PostLaterIs
    <3>12. c \in Manager
      BY <3>11
    <3> HIDE DEF c
    <3>13. /\ n \in Manager /\ n.state = "CONNECTING"
           /\ n.connecting = c.connecting /\ n.waitings = c.waitings /\ n.passed = c.passed
           /\ SameTimes(n, c) /\ n.conns = c.conns /\ n.answers = c.answers
           /\ n.msgs = c.msgs
      <4> DEFINE e == TransitionToState(c, "CONNECTING")
      <4>1. /\ e \in Manager /\ e.state = "CONNECTING"
            /\ e.connecting = c.connecting /\ e.waitings = c.waitings /\ e.passed = c.passed
            /\ SameTimes(e, c) /\ e.conns = c.conns /\ e.answers = c.answers
            /\ IF c.state # "CONNECTING" /\ "CONNECTING" = "AVAILABLE"
               THEN e.msgs = Append(c.msgs, NextMsg) ELSE e.msgs = c.msgs
        BY <3>12, TransitionIs
      <4>2. n = e
        BY <3>1
      <4> HIDE DEF e, n
      <4> QED
        BY <4>1, <4>2
    <3> HIDE DEF n
    <3>14. /\ n.connecting = d /\ n.waitings = m.waitings /\ n.answers = m.answers /\ n.msgs = m.msgs
           /\ n.pendings = m.pendings /\ n.timers = m.timers \cup {timer} /\ n.conns = a.conns
      BY ZenonT(60), <3>6, <3>8, <3>11, <3>13 DEF SameDevices, SameTimes
    <3>15. SameUnpends(n, m) /\ \A f : f.what = "FAIL" => (f \in n.timers <=> f \in m.timers)
      BY <3>10, <3>14, UnpendApart DEF SameUnpends
    <3>16. Shape(n)
      <4>1. /\ DOMAIN n.conns = DOMAIN m.conns \cup {id} /\ \A i \in DOMAIN m.conns : n.conns[i] = m.conns[i]
            /\ n.conns[id].side = "client" => ~Connected(m, n.conns[id].addr)
            /\ \A i \in DOMAIN m.waitings : m.waitings[i].addr # n.connecting.addr
        BY <3>6, <3>14
      <4> QED
        <5>1. Shape(m) /\ n.waitings = m.waitings
          BY <3>0, <3>14
        <5>2. SameUnpends(n, m)
          BY <3>15
        <5> QED
          BY <3>5, <4>1, <5>1, <5>2, ShapeNew
    <3>17. Told(n, t)
      <4>1. /\ DOMAIN n.conns = DOMAIN m.conns \cup {id} /\ \A i \in DOMAIN m.conns : n.conns[i] = m.conns[i]
            /\ t[id] = "connecting" => n.conns[id].side = "client"
        BY <3>6, <3>14
      <4> QED
        <5>1. n.msgs = m.msgs /\ id \notin DOMAIN th /\ id \in DOMAIN t
          BY <3>3, <3>14
        <5>2. Told(m, th) /\ \A i \in DOMAIN th : i \in DOMAIN t /\ t[i] = th[i]
          BY <3>0, <3>3
        <5>3. \A i \in DOMAIN t : i \in DOMAIN th \/ i = id
          BY <3>3
        <5>4. \A f : f.what = "FAIL" => (f \in n.timers <=> f \in m.timers)
          BY <3>15
        <5> QED
          BY SMT, <4>1, <5>1, <5>2, <5>3, <5>4, ToldNew
    <3>18. Tally(n, t)
      <4>1. /\ DOMAIN n.conns = DOMAIN m.conns \cup {id} /\ \A i \in DOMAIN m.conns : n.conns[i] = m.conns[i]
            /\ Surplus(n.conns[id]) = 0 /\ (n.conns[id].side = "client" => n.conns[id].unclaimed = 1)
        BY <3>6, <3>14
      <4>2. \A i \in DOMAIN th : t[i] = th[i]
        BY <3>3
      <4> QED
        <5>1. n.msgs = m.msgs /\ id \notin DOMAIN th
          BY <3>3, <3>14
        <5>2. Told(m, th) /\ Tally(m, th)
          BY <3>0
        <5> QED
          BY SMT, <4>1, <4>2, <5>1, <5>2, TallyNew
    <3>19. Once(n, C, {})
      BY <3>0, <3>14, <3>OnceDial
    <3>20. Matched(n)
      <4>1. d # None
        BY DeviceTypes
      <4> QED
        BY <3>13, <3>14, <4>1 DEF Matched
    <3>21. Timed(n, t)
      <4>1. id \in DOMAIN n.conns /\ n.conns[id].side = "client" /\ n.conns[id].addr = n.connecting.addr
        BY <3>6, <3>14
      <4>2. timer \in n.timers /\ timer.what = "TIMEOUT" /\ timer.id = id /\ timer.addr = n.connecting.addr
        BY <3>10, <3>14
      <4>3. Due(n, t, id)
        BY <3>3 DEF Due
      <4>4. Attempt(n, t, id)
        BY <4>1, <4>2, <4>3 DEF Attempt
      <4> QED
        BY <3>4, <4>4 DEF Timed
    <3>22. Good(n, t, C, {})
      BY <3>16, <3>17, <3>18, <3>19, <3>20, <3>21 DEF Good, Core
    <3>23. id \in DOMAIN n.conns
      BY <3>6, <3>14
    <3> QED
      BY <3>3, <3>13, <3>22, <3>23 DEF n, t, id
  \* A device that is queued while no other one has its address waits.
  <2>PendingWaits. ASSUME NEW m \in Manager, NEW d \in Device, m.connecting.addr # d.addr,
                          \A i \in DOMAIN m.waitings : m.waitings[i].addr # d.addr, d.state \in {"PENDING", "WAIT_EVENT"}
                   PROVE  Waits(PendingDevice(m, d), {"PENDING", "WAIT_EVENT"})
    <3> USE <2>PendingWaits
    <3> DEFINE n == PendingDevice(m, d)
               k == Len(m.waitings) + 1
    <3>1. \/ MergedIntoConnecting(n, m, d)
          \/ \E w \in DOMAIN m.waitings : MergedIntoWaiting(n, m, d, w)
          \/ Queues(n, m, d)
      BY PendingDeviceIs
    <3>2. n.waitings = Append(m.waitings, d)
      BY <3>1 DEF MergedIntoConnecting, MergedIntoWaiting, Queues
    <3>3. m.waitings \in Seq(Device)
      BY FieldTypes
    <3>4. k \in DOMAIN n.waitings /\ n.waitings[k] = d
      BY SMT, <3>2, <3>3
    <3> HIDE DEF n, k
    <3>5. Waits(n, {"PENDING", "WAIT_EVENT"})
      BY <3>4 DEF Waits
    <3> QED
      BY <3>5 DEF n
  <2>DialHas. ASSUME NEW m \in Manager, NEW d, NEW id
              PROVE  id \in DOMAIN ConnectDeviceDirectly(m, d, id).conns
    <3> DEFINE a == SaveConnection(m, id, d.addr, "client")
               b == [a EXCEPT !.connecting = d]
               c == PostLater(b, [what |-> "TIMEOUT", id |-> id, addr |-> d.addr])
    <3>0. DOMAIN m = {"state", "connecting", "waitings", "pendings", "conns", "msgs", "timers", "answers", "passed"}
      BY SMT DEF Manager
    <3>1. DOMAIN a = DOMAIN m /\ id \in DOMAIN a.conns
      BY <3>0 DEF SaveConnection
    <3> HIDE DEF a
    <3>2. DOMAIN b = DOMAIN m /\ b.conns = a.conns
      BY <3>0, <3>1
    <3> HIDE DEF b
    <3>3. DOMAIN c = DOMAIN m /\ c.conns = b.conns
      BY <3>0, <3>2 DEF PostLater
    <3> HIDE DEF c
    <3>4. TransitionToState(c, "CONNECTING").conns = c.conns
      <4>1. [c EXCEPT !.state = "CONNECTING"].conns = c.conns
        BY <3>0, <3>3
      <4>2. "CONNECTING" # "AVAILABLE"
        OBVIOUS
      <4> QED
        BY <4>1, <4>2 DEF TransitionToState
    <3> QED
      BY <3>1, <3>2, <3>3, <3>4 DEF ConnectDeviceDirectly, c, b, a
  <2>SchedulableIs. ASSUME mgr \in Manager
                    PROVE  /\ Schedulable = 0 => ~Waits(mgr, {"WAIT_SCHEDULE"})
                           /\ Schedulable # 0 => Schedulable \in DOMAIN mgr.waitings
    <3> USE <2>SchedulableIs
    <3> DEFINE I == {i \in DOMAIN mgr.waitings : mgr.waitings[i].state = "WAIT_SCHEDULE"}
    <3>1. mgr.waitings \in Seq(Device)
      BY FieldTypes
    <3>2. I \in SUBSET (Nat \ {0})
      BY SMT, <3>1
    <3>3. Schedulable = First(I)
      BY DEF Schedulable
    <3> HIDE DEF I
    <3>4. (First(I) = 0 => I = {}) /\ (First(I) # 0 => First(I) \in I)
      BY <3>2, FirstIs
    <3> QED
      BY <3>3, <3>4 DEF I, Waits
  <2> HAVE /\ Typed
           /\ Good(mgr, thread, called, {})
           /\ HandleNextCmd
  <2> DEFINE m == Rest
  <2>1. mgr \in Manager /\ thread \in Seq(ThreadState)
    BY DEF Typed
  <2>2. mgr.msgs # <<>> /\ Head(mgr.msgs).what = "NEXT_CMD"
    BY DEF HandleNextCmd, Arrived
  <2>3. m = Taken(mgr)
    BY RestIs
  <2>4. /\ m \in Manager /\ SameDevices(m, mgr) /\ Head(mgr.msgs) = mgr.msgs[1]
    BY <2>1, <2>2, <2>3, TakenIs
  <2>5. /\ Shape(m) /\ Matched(m) /\ Told(m, thread) /\ Once(m, called, {}) /\ Timed(m, thread) /\ Tally(m, thread)
    <3>1. mgr.msgs[1].what = "NEXT_CMD"
      BY <2>2, <2>4
    <3>2. /\ mgr.msgs[1].what # "CONNECT_REQUEST" /\ mgr.msgs[1].what \notin {"SUCCESS", "FAIL"}
          /\ mgr.msgs[1].what # "DISCONNECT"
      BY <3>1
    <3> HIDE DEF m
    <3> QED
      BY <2>1, <2>2, <2>3, <3>2, GoodRest
  <2>6. Good(m, thread, called, {})
    BY <2>5 DEF Good, Core
  <2>7. m.state = mgr.state /\ m.waitings = mgr.waitings /\ m.connecting = mgr.connecting
    BY <2>4 DEF SameDevices
  <2>8. /\ Schedulable = 0 => ~Waits(mgr, {"WAIT_SCHEDULE"})
        /\ Schedulable # 0 => Schedulable \in DOMAIN mgr.waitings
    BY <2>1, <2>SchedulableIs
  <2>9. faults \in 0..MaxFaults /\ MaxFaults \in Nat
    BY BoundsNat DEF Typed
  <2> HIDE DEF m
  <2>10. CASE mgr.state = "CONNECTING" \/ Schedulable = 0
    <3>1. mgr' = m /\ thread' = thread /\ faults' = faults
      BY <2>10 DEF HandleNextCmd, m
    <3>2. Awake(m)
      <4>1. m.state = "CONNECTING" \/ ~Waits(m, {"WAIT_SCHEDULE"})
        BY <2>7, <2>8, <2>10 DEF Waits
      <4> QED
        BY <4>1, AwakeSoon
    <3> QED
      BY <2>1, <2>4, <2>6, <2>9, <3>1, <3>2
  <2>11. CASE ~(mgr.state = "CONNECTING" \/ Schedulable = 0)
    <3> DEFINE i == Schedulable
               d == mgr.waitings[i]
               n == DropWaiting(m, i)
               id == Len(thread) + 1
               absent == ConnectDeviceDirectly(n, d, id)
               tried == AttempReuseConnect(n, d, absent)
    <3>1. \/ /\ mgr' = tried
             /\ id \in DOMAIN mgr'.conns => id \in Id
             /\ thread' = IF id \in DOMAIN mgr'.conns THEN Append(thread, "connecting") ELSE thread
             /\ faults' = faults
          \/ /\ id \in DOMAIN tried.conns
             /\ faults < MaxFaults
             /\ faults' = faults + 1
             /\ mgr' = NotifyFailed(n, d)
             /\ thread' = thread
      BY <2>11 DEF HandleNextCmd, m
    <3>2. i \in DOMAIN m.waitings /\ d = m.waitings[i] /\ m.state = "AVAILABLE"
      BY <2>4, <2>7, <2>8, <2>11, FieldTypes
    <3> HIDE DEF i
    <3>3. d \in Device
      BY <2>4, <3>2, DevicesTyped
    <3>4. /\ n \in Manager /\ Good(n, thread, called, m.waitings[i].reqs)
          /\ n.state = m.state /\ n.connecting = m.connecting
          /\ \A j \in DOMAIN n.waitings : n.waitings[j].addr # m.waitings[i].addr
          /\ n.conns = m.conns
      BY <2>4, <2>6, <3>2, <2>DropGood
    <3>5. Good(n, thread, called, d.reqs) /\ \A j \in DOMAIN n.waitings : n.waitings[j].addr # d.addr
      BY <3>2, <3>4
    <3> HIDE DEF d, n
    <3>6. Core(n, thread, called, d.reqs) /\ Matched(n) /\ Told(n, thread)
      BY <3>5 DEF Good, Core
    <3>7. n.state = "AVAILABLE" /\ n.connecting = None
      BY <3>2, <3>4, <3>6 DEF Matched
    <3>8. n.connecting.addr # d.addr
      BY <3>3, <3>4, <3>7, DeviceTypes, DevicesTyped
    <3>9. id \notin DOMAIN n.conns
      <4>1. "open" \in ThreadState
        BY DEF ThreadState
      <4>2. id \notin DOMAIN thread
        BY <2>1, <4>1, ThreadAdded
      <4> QED
        BY <3>6, <4>2, FreshId
    <3>10. \/ /\ tried \in Manager /\ Good(tried, thread, called, {}) /\ DOMAIN tried.conns = DOMAIN n.conns
              /\ \/ Schedules(tried)
                 \/ /\ tried.state = n.state
                    /\ \E s \in {"WAIT_EVENT", "PENDING"} : tried = PendingDevice(n, [d EXCEPT !.state = s])
           \/ tried = absent /\ ~Connected(n, d.addr)
      <4> HIDE DEF absent
      <4>1. n \in Manager
        BY <3>4
      <4> QED
        BY <3>3, <3>5, <4>1, AttempGood
    <3>11. id \in DOMAIN absent.conns
      BY <3>4, <2>DialHas
    <3>12. CASE faults' = faults + 1 /\ faults < MaxFaults /\ mgr' = NotifyFailed(n, d) /\ thread' = thread
      <4>1. Sound(NotifyFailed(n, d), n, thread, called)
        BY <3>4, <3>5, FailedGood
      <4>2. faults' # 0 /\ faults' \in 0..MaxFaults
        BY SMT, <2>9, <3>12
      <4> QED
        BY <2>1, <3>12, <4>1, <4>2 DEF Sound
    <3>13. CASE /\ mgr' = tried /\ faults' = faults
                /\ id \in DOMAIN mgr'.conns => id \in Id
                /\ thread' = IF id \in DOMAIN mgr'.conns THEN Append(thread, "connecting") ELSE thread
      <4>1. CASE tried \in Manager /\ Good(tried, thread, called, {}) /\ DOMAIN tried.conns = DOMAIN n.conns
                 /\ \/ Schedules(tried)
                    \/ /\ tried.state = n.state
                       /\ \E s \in {"WAIT_EVENT", "PENDING"} : tried = PendingDevice(n, [d EXCEPT !.state = s])
        <5> HIDE DEF tried, id
        <5>1. thread' = thread
          BY <3>9, <3>13, <4>1
        <5>2. Awake(tried)
          <6>1. CASE Schedules(tried)
            BY <6>1, AwakeSoon
          <6>2. CASE \E s \in {"WAIT_EVENT", "PENDING"} : tried = PendingDevice(n, [d EXCEPT !.state = s])
            <7> PICK s \in {"WAIT_EVENT", "PENDING"} : tried = PendingDevice(n, [d EXCEPT !.state = s])
              BY <6>2
            <7> DEFINE e == [d EXCEPT !.state = s]
            <7>1. e \in Device /\ e.state = s /\ e.addr = d.addr
              BY <3>3, DeviceState
            <7>2. tried = PendingDevice(n, e)
              OBVIOUS
            <7> HIDE DEF e
            <7>3. e.state \in {"PENDING", "WAIT_EVENT"}
              BY <7>1
            <7>4. n.connecting.addr # e.addr /\ \A j \in DOMAIN n.waitings : n.waitings[j].addr # e.addr
              BY <3>5, <3>8, <7>1
            <7>5. n \in Manager /\ e \in Device
              BY <3>4, <7>1
            <7>6. Waits(PendingDevice(n, e), {"PENDING", "WAIT_EVENT"})
              BY <7>3, <7>4, <7>5, <2>PendingWaits
            <7> QED
              BY <7>2, <7>6 DEF Awake
          <6> QED
            BY <4>1, <6>1, <6>2
        <5> QED
          BY <2>1, <2>9, <3>13, <4>1, <5>1, <5>2
      <4>2. CASE tried = absent /\ ~Connected(n, d.addr)
        <5>1. id \in Id /\ thread' = Append(thread, "connecting")
          BY <3>11, <3>13, <4>2
        <5>2. absent \in Manager /\ Good(absent, Append(thread, "connecting"), called, {})
              /\ absent.state = "CONNECTING" /\ Append(thread, "connecting") \in Seq(ThreadState)
          <6>1. n \in Manager /\ thread \in Seq(ThreadState) /\ d \in Device /\ Core(n, thread, called, d.reqs)
            BY <2>1, <3>3, <3>4, <3>6
          <6>2. ~Connected(n, d.addr) /\ \A j \in DOMAIN n.waitings : n.waitings[j].addr # d.addr
            BY <3>5, <4>2
          <6> QED
            BY <3>7, <5>1, <6>1, <6>2, <2>DialGood
        <5> HIDE DEF absent, tried
        <5>3. Awake(absent)
          BY <5>2, AwakeSoon
        <5> QED
          BY <2>9, <3>13, <4>2, <5>1, <5>2, <5>3
      <4> QED
        BY <3>10, <4>1, <4>2
    <3> QED
      BY <3>1, <3>12, <3>13
  <2> QED
    BY <2>10, <2>11
<1> HAVE /\ Inv
         /\ HandleNextCmd
<1>1. Typed /\ Good(mgr, thread, called, {})
  BY DEF Inv
<1>2. /\ mgr' \in Manager /\ thread' \in Seq(ThreadState) /\ faults' \in 0..MaxFaults
      /\ Good(mgr', thread', called, {}) /\ (faults' = 0 => Awake(mgr'))
  BY <1>1, <1>NextCmdStep
<1>3. called' = called /\ btOn' = btOn /\ events' = events
  BY DEF HandleNextCmd
<1>4. Typed'
  BY <1>1, <1>2, <1>3 DEF Typed
<1>5. Good(mgr', thread', called', {})
  BY <1>2, <1>3
<1> QED
  BY <1>2, <1>4, <1>5 DEF Inv

LEMMA ConnectRequestStep ==
  ASSUME SetLaws
  PROVE  /\ Inv
         /\ HandleConnectRequest
        => Inv'
\* A connect request is handled in the available or in the connecting state.
<1>ConnectRequestGood. \A m \in Manager : \A th, C : \A d \in Device :
                          /\ d.state = "WAIT_SCHEDULE"
                          /\ Good(m, th, C, d.reqs)
                         => /\ Sound(ConnectRequestOnAvailableState(m, d), m, th, C)
                            /\ m.state # "AVAILABLE" => Sound(ConnectRequestOnConnectingState(m, d), m, th, C)
  <2>NextCmdGood. ASSUME NEW m \in Manager, NEW th, NEW C, NEW H, Good(m, th, C, H)
                  PROVE  NextCmd(m) \in Manager /\ Good(NextCmd(m), th, C, H) /\ Schedules(NextCmd(m))
    <3> USE <2>NextCmdGood
    <3> DEFINE n == NextCmd(m)
    <3>0. Core(m, th, C, H) /\ Matched(m) /\ Timed(m, th)
      BY DEF Good
    <3>1. /\ n \in Manager /\ n.msgs = Append(m.msgs, NextMsg)
          /\ SameDevices(n, m) /\ SameTimes(n, m) /\ n.conns = m.conns /\ n.answers = m.answers
      BY NextCmdIs
    <3> HIDE DEF n
    <3>2. /\ n.state = m.state /\ n.connecting = m.connecting /\ n.waitings = m.waitings
          /\ Grown(n, m) /\ Schedules(n)
      BY <3>1, GrownBy DEF SameDevices
    <3>3. SameEnds(n, m) /\ SameCounts(n, m) /\ SameButTimeouts(n, m) /\ SameAlarms(n, m)
      BY <3>1, SameConns, SameTimesAre
    <3>4. Core(n, th, C, H)
      BY <3>0, <3>1, <3>2, <3>3, CoreSame
    <3>5. Matched(n)
      BY <3>0, <3>2 DEF Matched
    <3>6. Timed(n, th)
      BY <3>0, <3>2, <3>3, TimedSame
    <3> QED
      BY <3>1, <3>2, <3>4, <3>5, <3>6 DEF Good, n
  <2> TAKE m \in Manager
  <2> TAKE th, C
  <2> TAKE d \in Device
  <2> HAVE /\ d.state = "WAIT_SCHEDULE"
           /\ Good(m, th, C, d.reqs)
  <2> DEFINE p == PendingDevice(m, d)
  <2>1. HasWaker(m, d.addr, d.state)
    BY DEF HasWaker
  <2>2. p \in Manager /\ Good(p, th, C, {}) /\ p.state = m.state
    BY <2>1, PendingGood
  <2>3. NextCmd(p) \in Manager /\ Good(NextCmd(p), th, C, {}) /\ Schedules(NextCmd(p))
    BY <2>2, <2>NextCmdGood
  <2>4. Sound(ConnectRequestOnAvailableState(m, d), m, th, C)
    <3>1. Sound(NextCmd(p), m, th, C)
      BY <2>3, AwakeSoon DEF Sound
    <3>2. Sound(NotifyFailed(m, d), m, th, C)
      BY FailedGood
    <3> QED
      BY <3>1, <3>2 DEF ConnectRequestOnAvailableState
  <2>5. ASSUME m.state # "AVAILABLE"
        PROVE  Sound(ConnectRequestOnConnectingState(m, d), m, th, C)
    <3> DEFINE n == AttempReuseConnect(m, d, p)
    <3>0. m.state = "CONNECTING"
      BY <2>5, FieldTypes
    <3> HIDE DEF p
    <3>4. \/ /\ n \in Manager /\ Good(n, th, C, {}) /\ DOMAIN n.conns = DOMAIN m.conns
             /\ \/ Schedules(n)
                \/ /\ n.state = m.state
                   /\ \E s \in {"WAIT_EVENT", "PENDING"} : n = PendingDevice(m, [d EXCEPT !.state = s])
          \/ n = p /\ ~Connected(m, d.addr)
      BY AttempGood
    <3> HIDE DEF n
    <3>1. \/ n \in Manager /\ Good(n, th, C, {}) /\ (Schedules(n) \/ n.state = m.state)
          \/ n = p
      BY <3>4
    <3>2. CASE n = p
      BY <2>2, <3>0, <3>2, AwakeSoon DEF Sound, ConnectRequestOnConnectingState, n, p
    <3>3. CASE n \in Manager /\ Good(n, th, C, {}) /\ (Schedules(n) \/ n.state = m.state)
      BY <3>0, <3>3, AwakeSoon DEF Sound, ConnectRequestOnConnectingState, n, p
    <3> QED
      BY <3>1, <3>2, <3>3
  <2> QED
    BY <2>4, <2>5
<1> HAVE /\ Inv
         /\ HandleConnectRequest
<1> DEFINE d == DeviceOf(Current.addr, {Current.req}, "WAIT_SCHEDULE")
<1>1. mgr.msgs # <<>> /\ Current.what = "CONNECT_REQUEST"
  BY DEF HandleConnectRequest, Arrived, Current
<1>2. /\ mgr' = IF mgr.state = "AVAILABLE" THEN ConnectRequestOnAvailableState(Rest, d)
                ELSE ConnectRequestOnConnectingState(Rest, d)
      /\ UNCHANGED <<called, thread, btOn, events, faults>>
  BY DEF HandleConnectRequest
<1>3. Rest \in Manager /\ Current \in Message /\ Rest.state = mgr.state
  BY <1>1, RestGood
<1>4. Shape(Rest) /\ Matched(Rest) /\ Told(Rest, thread) /\ Once(Rest, called, {Current.req})
  BY <1>1, RestGood
<1>5. Current.what \notin {"SUCCESS", "FAIL"} /\ Current.what # "DISCONNECT" /\ Current.what # "NEXT_CMD"
  BY <1>1
<1>6. Timed(Rest, thread) /\ Tally(Rest, thread)
  BY <1>1, <1>5, RestGood
<1>7. Current.addr \in Addr /\ Current.req \in Req
  BY SMT, <1>1, <1>3 DEF Message
<1>8. d \in Device /\ d.state = "WAIT_SCHEDULE" /\ d.reqs = {Current.req}
  <2>1. {Current.req} \in (SUBSET Req) \ {{}} /\ 0 \in Nat /\ "WAIT_SCHEDULE" \in {"WAIT_SCHEDULE", "WAIT_EVENT", "PENDING"}
    BY SMT, <1>7
  <2> QED
    BY <1>7, <2>1 DEF DeviceOf, Device
<1> HIDE DEF d
<1>9. Good(Rest, thread, called, d.reqs)
  BY <1>4, <1>6, <1>8 DEF Good, Core
<1>10. /\ Sound(ConnectRequestOnAvailableState(Rest, d), Rest, thread, called)
       /\ Rest.state # "AVAILABLE" => Sound(ConnectRequestOnConnectingState(Rest, d), Rest, thread, called)
  BY <1>3, <1>8, <1>9, <1>ConnectRequestGood
<1>11. Sound(mgr', Rest, thread, called)
  BY <1>2, <1>3, <1>10
<1>12. Sound(mgr', mgr, thread, called)
  BY <1>1, <1>5, <1>11, Handled
<1> QED
  BY <1>2, <1>12, StaysHere

LEMMA ServerAcceptedStep ==
  ASSUME SetLaws
  PROVE  /\ Inv
         /\ HandleServerAccepted
        => Inv'
<1>ServerAcceptedSound. \A m \in Manager : \A th, C, id :
                          Good(m, th, C, {})
                          => Sound(ServerAccepted(m, id), m, th, C)
  <2>SoundTwice. ASSUME NEW m, NEW k, NEW n, NEW th, NEW C, Sound(k, m, th, C), Sound(n, k, th, C) PROVE Sound(n, m, th, C)
    BY <2>SoundTwice DEF Sound
  <2> TAKE m \in Manager
  <2> TAKE th, C, id
  <2> HAVE Good(m, th, C, {})
  <2>1. CASE id \notin DOMAIN m.conns
    <3>1. ServerAccepted(m, id) = m
      BY <2>1 DEF ServerAccepted
    <3> QED
      BY <3>1, SameSound
  <2>2. CASE id \in DOMAIN m.conns
    <3> DEFINE addr == m.conns[id].addr
               k == UnpendConnection(m, addr)
    <3>1. ServerAccepted(m, id) = IF k.connecting.addr = addr THEN k ELSE ReuseForWaiting(k, addr, id)
      BY <2>2 DEF ServerAccepted
    <3>2. addr \in Addr
      BY <2>2, DomainIs, SavedTypes
    <3> HIDE DEF addr
    <3>3. Sound(k, m, th, C)
      BY <3>2, UnpendSound
    <3>4. k.conns = m.conns
      BY <3>2, UnpendIs DEF Good, Core
    <3> HIDE DEF k
    <3>5. k \in Manager /\ Good(k, th, C, {}) /\ id \in DOMAIN k.conns
      BY <2>2, <3>3, <3>4 DEF Sound
    <3>6. Sound(ReuseForWaiting(k, addr, id), k, th, C)
      BY <3>5, ReuseForWaitingSound
    <3>7. Sound(ReuseForWaiting(k, addr, id), m, th, C)
      BY <3>3, <3>6, <2>SoundTwice
    <3> QED
      BY <3>1, <3>3, <3>7
  <2> QED
    BY <2>1, <2>2
<1> HAVE /\ Inv
         /\ HandleServerAccepted
<1>1. mgr.msgs # <<>> /\ Current.what = "ACCEPTED"
  BY DEF HandleServerAccepted, Arrived, Current
<1>2. mgr' = ServerAccepted(Rest, Current.id) /\ UNCHANGED <<called, thread, btOn, events, faults>>
  BY DEF HandleServerAccepted
<1>3. Rest \in Manager /\ Good(Rest, thread, called, {})
  BY <1>1, PlainRest
<1>4. Sound(mgr', Rest, thread, called)
  BY <1>2, <1>3, <1>ServerAcceptedSound
<1>5. Current.what # "NEXT_CMD"
  BY <1>1
<1> QED
  BY <1>1, <1>2, <1>4, <1>5, Handled, StaysHere

LEMMA ConnectionExceptionStep ==
  ASSUME SetLaws
  PROVE  /\ Inv
         /\ HandleConnectionException
        => Inv'
<1>HeadException. ASSUME NEW m \in Manager, NEW n, NEW th, NEW id \in DOMAIN th, Told(m, th), Shrunk(n, m),
                         At(m, 1, "EXCEPTION", id), n.timers = m.timers
                  PROVE  th[id] = "done" /\ ~Sent(m, "SUCCESS", id) /\ ~Sent(n, "SUCCESS", id) /\ ~Failed(m, id)
  <2> USE <1>HeadException
  <2>1. 1 \in DOMAIN m.msgs /\ Sent(m, "EXCEPTION", id)
    BY DEF At, Sent
  <2>2. /\ th[id] = "done" /\ ~Failed(m, id)
        /\ \A i \in DOMAIN m.msgs : At(m, i, "SUCCESS", id) => i < 1
    BY <2>1 DEF Told, Outcomes
  <2>3. m.msgs \in Seq(Message)
    BY FieldTypes
  <2>4. \A i \in DOMAIN m.msgs : ~(i < 1)
    BY SMT, <2>3
  <2>5. ~Sent(m, "SUCCESS", id)
    BY <2>2, <2>4 DEF Sent
  <2> QED
    BY <2>2, <2>5, SentRest
<1>ConnectionExceptionSound. ASSUME NEW m \in Manager, NEW th, NEW C, NEW id, Good(m, th, C, {}),
                                    th[id] = "done", ~Sent(m, "SUCCESS", id), ~Failed(m, id)
                             PROVE  Sound(ConnectionException(m, id), m, th, C)
  <2> USE <1>ConnectionExceptionSound
  <2>1. CASE id \notin DOMAIN m.conns
    <3>1. ConnectionException(m, id) = m
      BY <2>1 DEF ConnectionException
    <3> QED
      BY <3>1, SameSound
  <2>2. CASE id \in DOMAIN m.conns
    <3>1. ConnectionException(m, id) = NextCmd(RemoveConnection(Reschedule(m, m.conns[id].addr), id))
      BY <2>2 DEF ConnectionException
    <3> QED
      BY <2>2, <3>1, EndSound
  <2> QED
    BY <2>1, <2>2
<1> HAVE /\ Inv
         /\ HandleConnectionException
<1>1. mgr.msgs # <<>> /\ Current.what = "EXCEPTION" /\ Current.what \in Reports
  BY DEF HandleConnectionException, Arrived, Current, Reports
<1>2. mgr' = ConnectionException(Rest, Current.id) /\ UNCHANGED <<called, thread, btOn, events, faults>>
  BY DEF HandleConnectionException
<1>3. Rest \in Manager /\ Good(Rest, thread, called, {})
  BY <1>1, PlainRest
<1>4. Current.id \in DOMAIN thread /\ At(mgr, 1, "EXCEPTION", Current.id)
  BY <1>1, CurrentReport
<1>5. mgr \in Manager /\ Told(mgr, thread) /\ Shrunk(Rest, mgr) /\ Rest.timers = mgr.timers
  BY <1>1, RestGood DEF Good, Core
<1>6. /\ thread[Current.id] = "done" /\ ~Sent(Rest, "SUCCESS", Current.id) /\ ~Failed(mgr, Current.id)
  BY <1>4, <1>5, <1>HeadException
<1>7. ~Failed(Rest, Current.id)
  BY <1>5, <1>6, SentRest DEF Failed, DelayedFail
<1>8. Sound(mgr', Rest, thread, called)
  BY <1>2, <1>3, <1>6, <1>7, <1>ConnectionExceptionSound
<1>9. Current.what # "NEXT_CMD"
  BY <1>1
<1> QED
  BY <1>1, <1>2, <1>8, <1>9, Handled, StaysHere

LEMMA ClientConnectFailedStep ==
  ASSUME SetLaws
  PROVE  /\ Inv
         /\ HandleClientConnectFailed
        => Inv'
\* The attempt of the connecting device outlasts a report on another thread.
<1>OtherAttempt. ASSUME Inv, mgr.msgs # <<>>, Current.what \in {"SUCCESS", "FAIL"},
                        \/ Current.id \notin DOMAIN mgr.conns
                        \/ mgr.connecting.addr # mgr.conns[Current.id].addr
                 PROVE  Timed(Rest, thread)
  <2> USE <1>OtherAttempt
  <2> DEFINE id == Current.id
             m == Rest
  <2>1. /\ m.conns = mgr.conns /\ m.connecting = mgr.connecting /\ m.state = mgr.state
        /\ m.timers = mgr.timers /\ Shrunk(m, mgr) /\ Current = mgr.msgs[1]
    BY RestGood
  <2>2. Timed(mgr, thread)
    BY RestGood DEF Good
  <2> HIDE DEF m
  <2>3. SUFFICES ASSUME m.state = "CONNECTING" PROVE \E j \in Id : Attempt(m, thread, j)
    BY DEF Timed, m
  <2>4. PICK j \in Id : Attempt(mgr, thread, j)
    BY <2>1, <2>2, <2>3 DEF Timed
  <2>5. j \in DOMAIN mgr.conns /\ mgr.conns[j].addr = mgr.connecting.addr
    BY <2>4 DEF Attempt
  <2>6. j # id
    BY <2>5
  <2>7. mgr.msgs[1].id # j
    BY <2>1, <2>6
  <2>8. ~At(mgr, 1, "SUCCESS", j) /\ ~At(mgr, 1, "FAIL", j)
    BY <2>7 DEF At
  <2>9. Attempt(m, thread, j)
    BY <2>1, <2>4, <2>8, AttemptRest
  <2> QED
    BY <2>9
<1> HAVE /\ Inv
         /\ HandleClientConnectFailed
<1> DEFINE id == Current.id
           m == Rest
<1>1. mgr.msgs # <<>> /\ Current.what = "FAIL" /\ Current.what \in Reports
  BY DEF HandleClientConnectFailed, Arrived, Current, Reports
<1>2. Fail(m, id)
  BY DEF HandleClientConnectFailed
<1>3. id \in DOMAIN thread /\ Sent(mgr, "FAIL", id)
  BY <1>1, CurrentReport
<1>4. /\ Current.what # "CONNECT_REQUEST" /\ Current.what # "DISCONNECT" /\ Current.what # "NEXT_CMD"
      /\ Current.what \in {"SUCCESS", "FAIL"}
  BY <1>1
<1>5. /\ m \in Manager /\ m.conns = mgr.conns /\ m.connecting = mgr.connecting
      /\ Shrunk(m, mgr) /\ Matched(m) /\ (Awake(mgr) => Awake(m))
  BY <1>1, <1>4, RestGood
<1>6. Core(m, thread, called, {})
  BY <1>1, <1>4, RestGood DEF Core
<1>7. Told(mgr, thread)
  BY <1>1, RestGood DEF Good, Core
<1>8. Failed(mgr, id)
  BY <1>3 DEF Failed
<1>9. thread[id] = "done" /\ ~Sent(m, "SUCCESS", id)
  BY <1>3, <1>5, <1>7, <1>8, HeadFail
<1>10. id \notin DOMAIN m.conns \/ m.connecting.addr # m.conns[id].addr => Timed(m, thread)
  BY <1>1, <1>4, <1>5, <1>OtherAttempt
<1> HIDE DEF id, m
<1> QED
  BY <1>2, <1>5, <1>6, <1>9, <1>10, FailStep

LEMMA MessageInv ==
  ASSUME SetLaws,
         Inv, HandleMessage PROVE Inv'
<1>1. CASE HandleConnectRequest
  BY <1>1, ConnectRequestStep
<1>2. CASE HandleNextCmd
  BY <1>2, NextCmdKeeps
<1>3. CASE HandleServerAccepted
  BY <1>3, ServerAcceptedStep
<1>4. CASE HandleClientConnected
  BY <1>4, ClientConnectedStep
<1>5. CASE HandleClientConnectFailed
  BY <1>5, ClientConnectFailedStep
<1>6. CASE HandleConnectionException
  BY <1>6, ConnectionExceptionStep
<1>7. CASE HandleConnectionResume
  BY <1>7, ConnectionResumeStep
<1>8. CASE HandleDisconnectRequest
  BY <1>8, DisconnectRequestStep
<1>9. CASE HandleReset
  BY <1>9, ResetStep
<1> QED
  BY <1>1, <1>2, <1>3, <1>4, <1>5, <1>6, <1>7, <1>8, <1>9 DEF HandleMessage

-----------------------------------------------------------------------------
(***************************************************************************)
(* The facts about sets, from the library.                                 *)
(***************************************************************************)
INSTANCE FiniteSetTheorems

LEMMA SetLawsHold == SetLaws
\* A set of numbers has a least one.
<1>LeastIs. ASSUME NEW I \in SUBSET Nat, I # {}
            PROVE  \E i \in I : \A j \in I : i <= j
  <2> USE <1>LeastIs
  <2> DEFINE R == {ss \in Nat \X Nat : ss[1] < ss[2]}
  <2>1. IsWellFoundedOn(R, Nat)
    BY NatLessThanWellFounded DEF OpToRel
  <2>2. \A i, j \in Nat : <<j, i>> \in R <=> j < i
    OBVIOUS
  <2> HIDE DEF R
  <2>3. PICK i \in I : \A j \in I : ~(<<j, i>> \in R)
    BY <2>1, WFMin
  <2>4. \A j \in I : ~(j < i)
    BY <2>2, <2>3
  <2>5. \A j \in I : i <= j
    BY <2>4, SMT
  <2> QED
    BY <2>5
<1>0. \A I \in SUBSET Nat : I # {} => \E i \in I : \A j \in I : i <= j
  BY <1>LeastIs
<1>1. \A i, j \in Int : IsFiniteSet(i..j)
  BY FS_Interval
<1>2. \A S : IsFiniteSet(S) => Cardinality(S) \in Nat /\ \A T \in SUBSET S : IsFiniteSet(T)
  BY FS_CardinalityType, FS_Subset
<1>3. Cardinality({}) = 0 /\ \A S : IsFiniteSet(S) /\ Cardinality(S) = 0 => S = {}
  BY FS_EmptySet
<1>4. \A S, x : IsFiniteSet(S) /\ x \notin S => Cardinality(S \cup {x}) = Cardinality(S) + 1
  BY FS_AddElement
<1>5. \A S, x : IsFiniteSet(S) =>
        Cardinality(S \ {x}) = IF x \in S THEN Cardinality(S) - 1 ELSE Cardinality(S)
  BY FS_RemoveElement
<1>6. ASSUME NEW S, NEW T, NEW f \in [S -> T], IsFiniteSet(S),
             \A i, j \in S : f[i] = f[j] => i = j, \A k \in T : \E i \in S : f[i] = k
      PROVE  Cardinality(T) = Cardinality(S)
  <2>1. f \in Injection(S, T)
    <3>1. DOMAIN f = S
      OBVIOUS
    <3> QED
      BY <1>6, <3>1 DEF Injection, IsInjective
  <2>2. f \in Surjection(S, T)
    BY <1>6 DEF Surjection
  <2>3. ExistsBijection(S, T)
    BY <2>1, <2>2 DEF Bijection, ExistsBijection
  <2> QED
    BY <1>6, <2>3, FS_Bijection
<1>7. \A S, T : \A f \in [S -> T] :
        /\ IsFiniteSet(S)
        /\ \A i, j \in S : f[i] = f[j] => i = j
        /\ \A k \in T : \E i \in S : f[i] = k
        => Cardinality(T) = Cardinality(S)
  BY <1>6
<1> QED
  BY <1>0, <1>1, <1>2, <1>3, <1>4, <1>5, <1>7 DEF SetLaws

USE SetLawsHold

-----------------------------------------------------------------------------
(***************************************************************************)
(* The invariant holds, and what it shows.                                 *)
(***************************************************************************)
LEMMA NextInv == Inv /\ [Next]_vars => Inv'
<1> SUFFICES ASSUME Inv, [Next]_vars PROVE Inv'
  OBVIOUS
<1>1. CASE HandleMessage
  BY <1>1, MessageInv
<1>2. CASE HandleClientConnectTimeout
  BY <1>2, ClientConnectTimeoutStep
<1>3. CASE HandleDelayedFail
  BY <1>3, DelayedFailStep
<1>4. CASE HandleUnpend
  BY <1>4, UnpendStep
<1>5. CASE
       \/ BtStateChanged
       \/ \E r \in Req, addr \in Addr : ConnectDevice(r, addr)
       \/ \E addr \in Addr : ServerSocket(addr) \/ PendDeviceConnection(addr)
       \/ \E id \in DOMAIN thread :
            \/ NegotiationTimeout(id) \/ RetryNotifyReference(id) \/ PeerMessage(id) \/ ClientSocket(id)
            \/ ClientNoSocket(id) \/ Announce(id) \/ NoticeClosed(id) \/ ReadFails(id)
            \/ DisconnectDevice(id) \/ DisconnectDeviceNow(id)
  BY <1>5, OutsideInv
<1>6. CASE UNCHANGED vars
  BY <1>6, StutterInv
<1> QED
  BY <1>1, <1>2, <1>3, <1>4, <1>5, <1>6 DEF Next

LEMMA SpecInv == Spec => []Inv
BY InitInv, NextInv, PTL DEF Spec

\* The state that InitBrManager sets up, every handler of the looper, and every
\* step of a connection's thread, a caller, a peer or Bluetooth leave values of
\* the declared types: no message or timer names a connection that was never
\* created, and no count of callbacks leaves its range.
THEOREM TypeOKHolds == Spec => []TypeOK
<1>1. Inv => TypeOK
  <2> SUFFICES ASSUME Inv PROVE TypeOK
    OBVIOUS
  <2>1. /\ mgr \in Manager /\ called \subseteq Req /\ thread \in Seq(ThreadState) /\ btOn \in BOOLEAN
        /\ events \in 0..MaxEvents /\ faults \in 0..MaxFaults
    BY DEF Inv, Typed
  <2>2. mgr.conns \in Conns
    BY <2>1, FieldTypes
  <2>3. DOMAIN mgr.conns \subseteq Id /\ \A id \in DOMAIN mgr.conns : mgr.conns[id] \in Saved
    BY <2>2 DEF Conns
  <2>4. /\ mgr.state \in {"AVAILABLE", "CONNECTING"} /\ mgr.connecting \in Device \cup {None}
        /\ mgr.waitings \in Seq(Device) /\ mgr.pendings \subseteq Addr /\ mgr.msgs \in Seq(Message)
        /\ mgr.timers \subseteq Timer /\ mgr.answers \in [Req -> Nat] /\ mgr.passed \in BOOLEAN
    BY <2>1, FieldTypes
  <2> QED
    BY <2>1, <2>3, <2>4 DEF TypeOK, ThreadState
<1> QED
  BY <1>1, SpecInv, PTL

\* PendingDevice, ConnectDeviceDirectly and the handlers that put a device back
\* never make a second device for an address, nor a second client connection
\* while the first is in the list, for any number of addresses and requests.
THEOREM OneDevicePerAddrHolds == Spec => []OneDevicePerAddr
<1>1. Inv => OneDevicePerAddr
  <2> SUFFICES ASSUME Inv PROVE OneDevicePerAddr
    OBVIOUS
  <2>1. OneDevice(mgr) /\ OneClient(mgr)
    BY DEF Inv, Good, Core, Shape
  <2>2. ASSUME NEW i \in DOMAIN mgr.conns, NEW j \in DOMAIN mgr.conns,
               {mgr.conns[i].side, mgr.conns[j].side} = {"client"}, mgr.conns[i].addr = mgr.conns[j].addr
        PROVE  i = j
    <3>1. mgr.conns[i].side = "client" /\ mgr.conns[j].side = "client"
      BY <2>2
    <3> QED
      BY <2>1, <2>2, <3>1 DEF OneClient
  <2> QED
    BY <2>1, <2>2 DEF OneDevicePerAddr, OneDevice
<1> QED
  BY <1>1, SpecInv, PTL

\* Every change of g_brManager.state goes with the device that is connecting, and
\* a connecting device keeps the delayed MSG_CONNECT_TIMEOUT of its own client
\* connection: an attempt that never reports is still given up.
THEOREM ConnectingTimedHolds == Spec => []ConnectingTimed
<1>1. Inv => ConnectingTimed
  <2> SUFFICES ASSUME Inv PROVE ConnectingTimed
    OBVIOUS
  <2>1. mgr \in Manager /\ Matched(mgr) /\ Timed(mgr, thread) /\ OneClient(mgr)
    BY DEF Inv, Typed, Good, Core, Shape
  <2>2. ASSUME mgr.state = "CONNECTING"
        PROVE  \E t \in mgr.timers : /\ t.what = "TIMEOUT"
                                     /\ t.addr = mgr.connecting.addr
                                     /\ t.id = GetConnectionByAddr(mgr, t.addr, "client")
    <3>1. PICK id \in Id : Attempt(mgr, thread, id)
      BY <2>1, <2>2 DEF Timed
    <3>2. /\ id \in DOMAIN mgr.conns /\ mgr.conns[id].side = "client"
          /\ mgr.conns[id].addr = mgr.connecting.addr
      BY <3>1 DEF Attempt
    <3>3. PICK t \in mgr.timers : t.what = "TIMEOUT" /\ t.id = id /\ t.addr = mgr.connecting.addr
      BY <3>1 DEF Attempt
    <3> DEFINE addr == t.addr
               side == "client"
               j == GetConnectionByAddr(mgr, addr, side)
    <3>4. mgr.conns[id].side = side /\ mgr.conns[id].addr = addr
      BY <3>2, <3>3
    <3> HIDE DEF addr, side
    <3>5. /\ j = 0 => \A i \in DOMAIN mgr.conns : ~(mgr.conns[i].addr = addr /\ mgr.conns[i].side = side)
          /\ j # 0 => j \in DOMAIN mgr.conns /\ mgr.conns[j].addr = addr /\ mgr.conns[j].side = side
      BY <2>1, ConnectionIs
    <3> HIDE DEF j
    <3>6. j \in DOMAIN mgr.conns /\ mgr.conns[j].addr = mgr.conns[id].addr /\ mgr.conns[j].side = "client"
      BY <3>2, <3>4, <3>5
    <3>7. j = id
      BY <2>1, <3>2, <3>6 DEF OneClient
    <3> QED
      BY <3>3, <3>7 DEF j, addr, side
  <2>3. (mgr.state = "CONNECTING") = (mgr.connecting # None)
    BY <2>1 DEF Matched
  <2> QED
    BY <2>2, <2>3 DEF ConnectingTimed
<1> QED
  BY <1>1, SpecInv, PTL

\* A pended address and its delayed MSG_UNPEND come and go together, and a device
\* that AttempReuseConnect or a collision sent to wait always has the address or
\* the connection whose end wakes it.
THEOREM WaitersHaveWakerHolds == Spec => []WaitersHaveWaker
<1>1. Inv => WaitersHaveWaker
  <2> SUFFICES ASSUME Inv PROVE WaitersHaveWaker
    OBVIOUS
  <2>1. Wakers(mgr)
    BY DEF Inv, Good, Core, Shape
  <2>2. \A addr \in Addr : addr \in mgr.pendings <=> [what |-> "UNPEND", addr |-> addr] \in mgr.timers
    BY <2>1 DEF Wakers, Unpend
  <2>3. ASSUME NEW d \in Devices \ {mgr.connecting}
        PROVE  /\ d.state = "PENDING" => d.addr \in mgr.pendings
               /\ d.state = "WAIT_EVENT" => \E id \in DOMAIN mgr.conns : mgr.conns[id].addr = d.addr
    <3>1. PICK i \in DOMAIN mgr.waitings : d = mgr.waitings[i]
      BY DEF Devices
    <3>2. HasWaker(mgr, d.addr, d.state)
      BY <2>1, <3>1 DEF Wakers
    <3> QED
      BY <3>2 DEF HasWaker, Connected
  <2> QED
    BY <2>2, <2>3 DEF WaitersHaveWaker
<1> QED
  BY <1>1, SpecInv, PTL

\* No order of the handlers leaves a device that may be scheduled without a
\* MSG_NEXT_CMD or a waiting device whose wake-up brings one, but for the two
\* branches of the code that schedule nothing.
THEOREM SchedulerAwakeHolds == Spec => []SchedulerAwake
<1>1. Inv => SchedulerAwake
  <2> SUFFICES ASSUME Inv, faults = 0, ~mgr.passed, mgr.state = "AVAILABLE",
                      \E d \in Devices : d.state = "WAIT_SCHEDULE"
               PROVE  \/ Queued("NEXT_CMD") # {}
                      \/ \E d \in Devices : d.state \in {"PENDING", "WAIT_EVENT"}
    BY DEF SchedulerAwake
  <2>1. Awake(mgr) /\ Matched(mgr)
    BY DEF Inv, Good
  <2>2. mgr.connecting = None
    BY <2>1 DEF Matched
  <2>3. PICK d \in Devices : d.state = "WAIT_SCHEDULE"
    OBVIOUS
  <2>4. PICK i \in DOMAIN mgr.waitings : d = mgr.waitings[i]
    BY <2>2, <2>3 DEF Devices
  <2>5. Waits(mgr, {"WAIT_SCHEDULE"})
    BY <2>3, <2>4 DEF Waits
  <2>6. Schedules(mgr) \/ Waits(mgr, {"PENDING", "WAIT_EVENT"})
    BY <2>1, <2>5 DEF Awake
  <2>7. CASE Schedules(mgr)
    BY <2>7 DEF Schedules, Queued
  <2>8. CASE Waits(mgr, {"PENDING", "WAIT_EVENT"})
    BY <2>8 DEF Waits, Devices
  <2> QED
    BY <2>6, <2>7, <2>8
<1> QED
  BY <1>1, SpecInv, PTL

\* Every request is answered at most once and is never lost before it is
\* answered: merging, the reuse of a connection, a timeout and the late outcome
\* after it, a collision and Reset each take a request from one place only and
\* put it into exactly one other or answer it.
THEOREM AnsweredOnceHolds == Spec => []AnsweredOnce
\* The places of a request, counted.
<1>OneOrNone. ASSUME NEW S, \A i, j \in S : i = j PROVE Cardinality(S) = IF S = {} THEN 0 ELSE 1
  <2> USE <1>OneOrNone
  <2>1. CASE S = {}
    BY <2>1, FS_EmptySet
  <2>2. CASE S # {}
    <3>0. PICK i \in S : TRUE
      BY <2>2
    <3>1. S = {i}
      BY <3>0
    <3>2. Cardinality(S) = 1
      BY <3>1, FS_Singleton
    <3> QED
      BY <2>2, <3>2
  <2> QED
    BY <2>1, <2>2
<1>1. Inv => AnsweredOnce
  <2> SUFFICES ASSUME Inv, NEW r \in Req
               PROVE  Places(r) + mgr.answers[r] = IF r \in called THEN 1 ELSE 0
    BY DEF AnsweredOnce
  <2> DEFINE A == {i \in Queued("CONNECT_REQUEST") : mgr.msgs[i].req = r}
             B == {i \in DOMAIN mgr.waitings : r \in mgr.waitings[i].reqs}
             a == Cardinality(A)
             b == Cardinality(B)
             d == IF r \in mgr.connecting.reqs THEN 1 ELSE 0
  <2>1. AskedOnce(mgr, r) /\ WaitedOnce(mgr, r) /\ Placed(mgr, called, {}, r)
    BY DEF Inv, Good, Core, Once
  <2>2. Places(r) = a + b + d
    BY DEF Places
  <2>3. A # {} <=> Asked(mgr, r)
    BY DEF Queued, Asked, Asks
  <2>4. B # {} <=> Waited(mgr, r)
    BY DEF Waited
  <2>5. \A i, j \in A : i = j
    BY <2>1 DEF Queued, AskedOnce, Asks
  <2>6. \A i, j \in B : i = j
    BY <2>1 DEF WaitedOnce
  <2> HIDE DEF A, B
  <2>7. a = (IF A = {} THEN 0 ELSE 1) /\ b = (IF B = {} THEN 0 ELSE 1)
    BY <2>5, <2>6, <1>OneOrNone
  <2>8. a = (IF Asked(mgr, r) THEN 1 ELSE 0) /\ b = (IF Waited(mgr, r) THEN 1 ELSE 0)
        /\ d = (IF Dialed(mgr, r) THEN 1 ELSE 0)
    BY <2>3, <2>4, <2>7 DEF Dialed
  <2> HIDE DEF a, b, d
  <2>9. /\ Asked(mgr, r) => ~Waited(mgr, r) /\ ~Dialed(mgr, r) /\ mgr.answers[r] = 0
        /\ Waited(mgr, r) => ~Dialed(mgr, r) /\ mgr.answers[r] = 0
        /\ Dialed(mgr, r) => mgr.answers[r] = 0
        /\ mgr.answers[r] \in {0, 1}
        /\ r \in called <=> Asked(mgr, r) \/ Waited(mgr, r) \/ Dialed(mgr, r) \/ mgr.answers[r] = 1
    BY <2>1 DEF Placed
  <2>10. a + b + d + mgr.answers[r] = IF r \in called THEN 1 ELSE 0
    BY SMT, <2>8, <2>9
  <2> QED
    BY <2>2, <2>10
<1> QED
  BY <1>1, SpecInv, PTL

\* ConnBrUpdateConnectionRc and NotifyDeviceConnectResult keep the count of every
\* listed connection equal to its owners, whatever the number of requests that a
\* device has gathered when it is answered and whoever releases when.
THEOREM CountMatchesOwnersHolds == Spec => []CountMatchesOwners
<1>1. Inv => CountMatchesOwners
  <2> SUFFICES ASSUME Inv, NEW id \in DOMAIN mgr.conns
               PROVE  mgr.conns[id].link.rc
                        = mgr.conns[id].mine + mgr.conns[id].peers + mgr.conns[id].unclaimed
                            + Cardinality({i \in Queued("DISCONNECT") : mgr.msgs[i].id = id})
    BY DEF CountMatchesOwners
  <2> DEFINE k == Cardinality({i \in Queued("DISCONNECT") : mgr.msgs[i].id = id})
  <2>1. mgr \in Manager /\ Counted(mgr)
    BY DEF Inv, Typed, Good, Core, Tally
  <2>2. {i \in Queued("DISCONNECT") : mgr.msgs[i].id = id} = Releases(mgr, id)
    BY DEF Queued, Releases, At
  <2>3. k = Cardinality(Releases(mgr, id))
    BY <2>2
  <2>4. Surplus(mgr.conns[id]) = Cardinality(Releases(mgr, id))
    BY <2>1 DEF Counted
  <2>5. Cardinality(Releases(mgr, id)) \in Nat
    BY <2>1, ReleasesFinite
  <2>6. mgr.conns[id] \in Saved
    <3>1. mgr.conns \in Conns
      BY <2>1, FieldTypes
    <3> QED
      BY <3>1 DEF Conns
  <2>7. /\ mgr.conns[id].link.rc \in Int /\ mgr.conns[id].mine \in Nat /\ mgr.conns[id].peers \in Nat
        /\ mgr.conns[id].unclaimed \in Int
    BY <2>6, SavedTypes
  <2> HIDE DEF k
  <2>8. mgr.conns[id].link.rc = mgr.conns[id].mine + mgr.conns[id].peers + mgr.conns[id].unclaimed + k
    BY SMT, <2>3, <2>4, <2>5, <2>7 DEF Surplus
  <2> QED
    BY <2>8 DEF k
<1> QED
  BY <1>1, SpecInv, PTL

=============================================================================
