---------------------------- MODULE EspPingProofs ----------------------------
(***************************************************************************)
(* Proofs about EspPing, for any number of sessions, counts and intervals: *)
(* the order in which lwIP's timers fire protects the sessions that        *)
(* ping_coarse_tmr frees without cancelling their ping_timeout.            *)
(***************************************************************************)
EXTENDS EspPing, SeqFacts

-----------------------------------------------------------------------------
(* The list of timers, as a value. *)

Handlers == {"ping_timeout", "ping_coarse_tmr"}
Timers == [h : Handlers, s : Pings, left : Nat]
Timer(h, s, ms) == [h |-> h, s |-> s, left |-> ms]

Has(q, h, s) == \E i \in 1 .. Len(q) : q[i].h = h /\ q[i].s = s
Ordered(q) == \A i, j \in 1 .. Len(q) : i < j => q[i].left <= q[j].left
Once(q) == \A i, j \in 1 .. Len(q) : q[i].h = q[j].h /\ q[i].s = q[j].s => i = j

\* The timeouts of q, but for the sessions in E, are followed by the coarse
\* timer of their session.
Guarded(q, E) ==
    \A i \in 1 .. Len(q) : q[i].h = "ping_timeout" /\ q[i].s \notin E =>
        \E j \in 1 .. Len(q) : i < j /\ q[j].h = "ping_coarse_tmr" /\ q[j].s = q[i].s

\* Every timer of a list has a time left.
LEMMA TimerFields ==
  ASSUME NEW q \in Seq(Timers)
  PROVE  \A i \in 1 .. Len(q) :
           q[i].h \in Handlers /\ q[i].s \in Pings /\ q[i].left \in Nat
<1>1. \A i \in 1 .. Len(q) : q[i] \in Timers
  OBVIOUS
<1>2. QED
  BY <1>1 DEF Timers

\* sys_timeout inserts the timer behind those that expire no later.
LEMMA SysTimeoutInserts ==
  ASSUME NEW q \in Seq(Timers), Ordered(q),
         NEW ms \in Nat, NEW h \in Handlers, NEW s \in Pings
  PROVE  /\ sys_timeout(q, ms, h, s) \in Seq(Timers)
         /\ \E k : /\ Inserted(q, sys_timeout(q, ms, h, s), k, Timer(h, s, ms))
                   /\ \A i \in 1 .. Len(q) : i < k <=> q[i].left <= ms
<1> DEFINE I == {i \in 1 .. Len(q) : q[i].left > ms}
           new == Timer(h, s, ms)
<1>1. Len(q) \in Nat /\ I \subseteq 1 .. Len(q) /\ new \in Timers
  BY DEF Timer, Timers
<1>2. \A i \in 1 .. Len(q) : q[i].left \in Nat
  BY TimerFields
<1>3. sys_timeout(q, ms, h, s) = IF I = {} THEN Append(q, new) ELSE InsertAt(q, Min(I), new)
  <2>1. ASSUME I # {} PROVE Min(I) # 0
    <3>1. Min(I) \in I
      BY <1>1, <2>1, FirstPosition
    <3>2. QED
      BY <1>1, <3>1
  <2>2. QED
    BY <2>1 DEF sys_timeout, SelectInSeq, Timer
<1>4. CASE I = {}
  <2>1. \A i \in 1 .. Len(q) : i < Len(q) + 1 /\ q[i].left <= ms
    BY <1>1, <1>2, <1>4
  <2>2. QED
    BY <1>1, <1>3, <1>4, <2>1, AppendInserts
<1>5. CASE I # {}
  <2> DEFINE k == Min(I)
  <2>1. k \in I /\ \A j \in I : k <= j
    BY <1>1, <1>5, FirstPosition
  <2> HIDE DEF k
  <2>2. ASSUME NEW i \in 1 .. Len(q) PROVE i < k <=> q[i].left <= ms
    <3>1. CASE i < k
      BY <1>2, <2>1, <3>1
    <3>2. CASE i = k
      BY <1>2, <2>1, <3>2
    <3>3. CASE i > k
      <4>1. q[k].left <= q[i].left
        BY <2>1, <3>3 DEF Ordered
      <4>2. QED
        BY <1>2, <2>1, <3>3, <4>1
    <3>4. QED
      BY <1>1, <2>1, <3>1, <3>2, <3>3
  <2>3. sys_timeout(q, ms, h, s) = InsertAt(q, k, new)
    BY <1>3, <1>5 DEF k
  <2>4. QED
    BY <1>1, <2>1, <2>2, <2>3, InsertAtInserts
<1>6. QED
  BY <1>4, <1>5

\* sys_untimeout deletes the timer, if there is one.
LEMMA SysUntimeoutDeletes ==
  ASSUME NEW q \in Seq(Timers), NEW h, NEW s
  PROVE  /\ sys_untimeout(q, h, s) \in Seq(Timers)
         /\ \/ sys_untimeout(q, h, s) = q /\ ~Has(q, h, s)
            \/ \E k : /\ Deleted(q, sys_untimeout(q, h, s), k)
                      /\ q[k].h = h /\ q[k].s = s
<1> DEFINE I == {i \in 1 .. Len(q) : q[i].h = h /\ q[i].s = s}
<1>1. Len(q) \in Nat /\ I \subseteq 1 .. Len(q)
  OBVIOUS
<1>2. sys_untimeout(q, h, s) = IF I = {} THEN q ELSE RemoveAt(q, Min(I))
  <2>1. ASSUME I # {} PROVE Min(I) # 0
    <3>1. Min(I) \in I
      BY <1>1, <2>1, FirstPosition
    <3>2. QED
      BY <1>1, <3>1
  <2>2. QED
    BY <2>1 DEF sys_untimeout, SelectInSeq
<1>3. CASE I = {}
  BY <1>2, <1>3 DEF Has
<1>4. CASE I # {}
  <2>1. Min(I) \in I
    BY <1>1, <1>4, FirstPosition
  <2>2. QED
    BY <1>2, <1>4, <2>1, RemoveAtDeletes
<1>5. QED
  BY <1>3, <1>4

\* What a new timer changes.
LEMMA ArmingOne ==
  ASSUME NEW q \in Seq(Timers), NEW r \in Seq(Timers), NEW h \in Handlers, NEW s \in Pings,
         NEW ms \in Nat, NEW k, Inserted(q, r, k, Timer(h, s, ms)),
         \A i \in 1 .. Len(q) : i < k <=> q[i].left <= ms,
         Ordered(q), Once(q), ~Has(q, h, s)
  PROVE  /\ Ordered(r) /\ Once(r)
         /\ \A g, t : Has(r, g, t) <=> Has(q, g, t) \/ (g = h /\ t = s)
<1>0. Extends(q, r, k, Timer(h, s, ms)) /\ Len(q) \in Nat
  <2>1. Len(q) \in Nat
    OBVIOUS
  <2>2. QED
    BY <2>1, InsertedElements
<1>1. /\ k \in 1 .. Len(r) /\ r[k] = Timer(h, s, ms)
      /\ \A i \in 1 .. Len(q) : After(k, i) \in 1 .. Len(r) /\ r[After(k, i)] = q[i]
      /\ \A i, j \in 1 .. Len(q) : i < j <=> After(k, i) < After(k, j)
      /\ \A j \in 1 .. Len(r) : j = k \/ \E i \in 1 .. Len(q) : j = After(k, i)
      /\ \A i \in 1 .. Len(q) : After(k, i) < k <=> i < k
      /\ \A i \in 1 .. Len(q) : After(k, i) # k
  BY <1>0 DEF Extends
<1>2. \A i \in 1 .. Len(q) : q[i].left \in Nat
  BY TimerFields
<1>3. r[k].h = h /\ r[k].s = s /\ r[k].left = ms
  BY <1>1 DEF Timer
<1>4. ASSUME NEW i \in 1 .. Len(r), NEW j \in 1 .. Len(r), i < j
      PROVE  r[i].left <= r[j].left
  <2>1. CASE i = k
    <3>1. PICK b \in 1 .. Len(q) : j = After(k, b)
      BY <1>1, <1>4, <2>1
    <3>2. ~(b < k)
      BY <1>1, <1>4, <2>1, <3>1
    <3>3. QED
      BY <1>1, <1>2, <1>3, <2>1, <3>1, <3>2
  <2>2. CASE j = k
    <3>1. PICK a \in 1 .. Len(q) : i = After(k, a)
      BY <1>1, <1>4, <2>2
    <3>2. a < k
      BY <1>1, <1>4, <2>2, <3>1
    <3>3. QED
      BY <1>1, <1>2, <1>3, <2>2, <3>1, <3>2
  <2>3. CASE i # k /\ j # k
    <3>1. PICK a \in 1 .. Len(q) : i = After(k, a)
      BY <1>1, <2>3
    <3>2. PICK b \in 1 .. Len(q) : j = After(k, b)
      BY <1>1, <2>3
    <3>3. a < b
      BY <1>1, <1>4, <3>1, <3>2
    <3>4. QED
      BY <1>1, <3>1, <3>2, <3>3 DEF Ordered
  <2>4. QED
    BY <2>1, <2>2, <2>3
<1>5. ASSUME NEW i \in 1 .. Len(r), NEW j \in 1 .. Len(r), r[i].h = r[j].h, r[i].s = r[j].s
      PROVE  i = j
  <2>1. ASSUME NEW a \in 1 .. Len(q) PROVE ~(q[a].h = h /\ q[a].s = s)
    BY DEF Has
  <2>2. CASE i = k \/ j = k
    BY <1>1, <1>3, <1>5, <2>1, <2>2
  <2>3. CASE i # k /\ j # k
    <3>1. PICK a \in 1 .. Len(q) : i = After(k, a)
      BY <1>1, <2>3
    <3>2. PICK b \in 1 .. Len(q) : j = After(k, b)
      BY <1>1, <2>3
    <3>3. r[i] = q[a] /\ r[j] = q[b]
      BY <1>1, <3>1, <3>2
    <3>4. a = b
      BY <1>5, <3>3 DEF Once
    <3>5. QED
      BY <3>1, <3>2, <3>4
  <2>4. QED
    BY <2>2, <2>3
<1>6. ASSUME NEW g, NEW t
      PROVE  Has(r, g, t) <=> Has(q, g, t) \/ (g = h /\ t = s)
  BY <1>1, <1>3 DEF Has
<1>7. QED
  BY <1>4, <1>5, <1>6 DEF Ordered, Once

\* What a timer that fires or is cancelled changes.
LEMMA DisarmingOne ==
  ASSUME NEW q \in Seq(Timers), NEW r \in Seq(Timers), NEW k, Deleted(q, r, k),
         Ordered(q), Once(q), Guarded(q, {}),
         k = 1 \/ q[k].h = "ping_timeout"
  PROVE  /\ Ordered(r) /\ Once(r) /\ Guarded(r, {})
         /\ \A g, t : Has(r, g, t) <=> Has(q, g, t) /\ ~(g = q[k].h /\ t = q[k].s)
<1>0. Shrinks(q, r, k) /\ Len(q) \in Nat
  <2>1. Len(q) \in Nat
    OBVIOUS
  <2>2. QED
    BY <2>1, DeletedElements
<1>1. /\ k \in 1 .. Len(q)
      /\ \A i \in 1 .. Len(r) :
           After(k, i) \in 1 .. Len(q) /\ q[After(k, i)] = r[i] /\ After(k, i) # k
      /\ \A i, j \in 1 .. Len(r) : i < j <=> After(k, i) < After(k, j)
      /\ \A j \in 1 .. Len(q) : j = k \/ \E i \in 1 .. Len(r) : j = After(k, i)
  BY <1>0 DEF Shrinks
<1>2. Ordered(r)
  BY <1>1 DEF Ordered
<1>3. ASSUME NEW i \in 1 .. Len(r), NEW j \in 1 .. Len(r), r[i].h = r[j].h, r[i].s = r[j].s
      PROVE  i = j
  <2>0. /\ After(k, i) \in 1 .. Len(q) /\ q[After(k, i)] = r[i]
        /\ After(k, j) \in 1 .. Len(q) /\ q[After(k, j)] = r[j]
    BY <1>1
  <2>1. After(k, i) = After(k, j)
    BY <1>3, <2>0 DEF Once
  <2>2. /\ i < j <=> After(k, i) < After(k, j)
        /\ j < i <=> After(k, j) < After(k, i)
    BY <1>1
  <2>3. QED
    BY <2>0, <2>1, <2>2
<1>4. ASSUME NEW i \in 1 .. Len(r), r[i].h = "ping_timeout"
      PROVE  \E j \in 1 .. Len(r) : i < j /\ r[j].h = "ping_coarse_tmr" /\ r[j].s = r[i].s
  <2>1. PICK b \in 1 .. Len(q) : After(k, i) < b /\ q[b].h = "ping_coarse_tmr" /\ q[b].s = r[i].s
    BY <1>1, <1>4 DEF Guarded
  <2>2. b # k
    BY <1>1, <2>1
  <2>3. PICK j \in 1 .. Len(r) : b = After(k, j)
    BY <1>1, <2>2
  <2>4. QED
    BY <1>1, <2>1, <2>3
<1>5. ASSUME NEW g, NEW t
      PROVE  Has(r, g, t) <=> Has(q, g, t) /\ ~(g = q[k].h /\ t = q[k].s)
  <2>1. ASSUME Has(r, g, t) PROVE Has(q, g, t) /\ ~(g = q[k].h /\ t = q[k].s)
    <3>1. PICK i \in 1 .. Len(r) : r[i].h = g /\ r[i].s = t
      BY <2>1 DEF Has
    <3>2. q[After(k, i)].h = g /\ q[After(k, i)].s = t
      BY <1>1, <3>1
    <3>3. Has(q, g, t)
      BY <1>1, <3>2 DEF Has
    <3>4. ~(g = q[k].h /\ t = q[k].s)
      BY <1>1, <3>2 DEF Once
    <3>5. QED
      BY <3>3, <3>4
  <2>2. ASSUME Has(q, g, t), ~(g = q[k].h /\ t = q[k].s) PROVE Has(r, g, t)
    BY <1>1, <2>2 DEF Has
  <2>3. QED
    BY <2>1, <2>2
<1>6. QED
  BY <1>2, <1>3, <1>4, <1>5 DEF Once, Guarded

\* A round's timers are armed in the order that protects the session: the
\* coarse timer expires no sooner than the timeout armed before it.
LEMMA ArmFacts ==
  ASSUME NEW q \in Seq(Timers), Ordered(q), Once(q), Guarded(q, {}),
         NEW s \in Pings, NEW ms \in Nat, PING_TIMEOUT_MS <= ms,
         \A h : ~Has(q, h, s)
  PROVE  /\ Arm(q, s, ms) \in Seq(Timers)
         /\ Ordered(Arm(q, s, ms)) /\ Once(Arm(q, s, ms)) /\ Guarded(Arm(q, s, ms), {})
         /\ \A g, t : Has(Arm(q, s, ms), g, t) <=> Has(q, g, t) \/ (g \in Handlers /\ t = s)
<1> DEFINE q1 == sys_timeout(q, PING_TIMEOUT_MS, "ping_timeout", s)
           q2 == sys_timeout(q1, ms, "ping_coarse_tmr", s)
<1>0. PING_TIMEOUT_MS \in Nat /\ "ping_timeout" \in Handlers /\ "ping_coarse_tmr" \in Handlers
  BY PingTimesAssumption DEF Handlers
<1>1. q1 \in Seq(Timers) /\ \E k : /\ Inserted(q, q1, k, Timer("ping_timeout", s, PING_TIMEOUT_MS))
                                   /\ \A i \in 1 .. Len(q) : i < k <=> q[i].left <= PING_TIMEOUT_MS
  BY <1>0, SysTimeoutInserts
<1> HIDE DEF q1
<1>2. PICK k1 : /\ Inserted(q, q1, k1, Timer("ping_timeout", s, PING_TIMEOUT_MS))
                /\ \A i \in 1 .. Len(q) : i < k1 <=> q[i].left <= PING_TIMEOUT_MS
  BY <1>1
<1>3. /\ Ordered(q1) /\ Once(q1)
      /\ \A g, t : Has(q1, g, t) <=> Has(q, g, t) \/ (g = "ping_timeout" /\ t = s)
  BY <1>0, <1>1, <1>2, ArmingOne
<1>4. ~Has(q1, "ping_coarse_tmr", s)
  BY <1>3
<1>5. q2 \in Seq(Timers) /\ \E k : /\ Inserted(q1, q2, k, Timer("ping_coarse_tmr", s, ms))
                                   /\ \A i \in 1 .. Len(q1) : i < k <=> q1[i].left <= ms
  BY <1>0, <1>1, <1>3, SysTimeoutInserts
<1> HIDE DEF q2
<1>6. PICK k2 : /\ Inserted(q1, q2, k2, Timer("ping_coarse_tmr", s, ms))
                /\ \A i \in 1 .. Len(q1) : i < k2 <=> q1[i].left <= ms
  BY <1>5
<1>7. /\ Ordered(q2) /\ Once(q2)
      /\ \A g, t : Has(q2, g, t) <=> Has(q1, g, t) \/ (g = "ping_coarse_tmr" /\ t = s)
  BY <1>0, <1>1, <1>3, <1>4, <1>5, <1>6, ArmingOne
<1>8. Len(q) \in Nat /\ Len(q1) \in Nat
  BY <1>1
<1>9. Extends(q, q1, k1, Timer("ping_timeout", s, PING_TIMEOUT_MS))
  BY <1>2, <1>8, InsertedElements
<1>10. Extends(q1, q2, k2, Timer("ping_coarse_tmr", s, ms))
  BY <1>6, <1>8, InsertedElements
<1>11. /\ q1[k1].h = "ping_timeout" /\ q1[k1].s = s /\ q1[k1].left = PING_TIMEOUT_MS
       /\ k1 \in 1 .. Len(q1)
  BY <1>9 DEF Extends, Timer
<1>12. q2[k2].h = "ping_coarse_tmr" /\ q2[k2].s = s /\ k2 \in 1 .. Len(q2)
  BY <1>10 DEF Extends, Timer
<1>13. k1 < k2
  BY <1>6, <1>11
<1>14. ASSUME NEW i \in 1 .. Len(q1), q1[i].h = "ping_timeout", q1[i].s # s
       PROVE  \E j \in 1 .. Len(q1) : i < j /\ q1[j].h = "ping_coarse_tmr" /\ q1[j].s = q1[i].s
  <2>1. i # k1
    BY <1>11, <1>14
  <2>2. PICK a \in 1 .. Len(q) : i = After(k1, a)
    BY <1>9, <2>1 DEF Extends
  <2>3. q1[i] = q[a]
    BY <1>9, <2>2 DEF Extends
  <2>4. PICK b \in 1 .. Len(q) : a < b /\ q[b].h = "ping_coarse_tmr" /\ q[b].s = q1[i].s
    BY <1>14, <2>3 DEF Guarded
  <2>5. After(k1, b) \in 1 .. Len(q1) /\ q1[After(k1, b)] = q[b] /\ After(k1, a) < After(k1, b)
    BY <1>9, <2>4 DEF Extends
  <2>6. QED
    BY <2>2, <2>4, <2>5
<1>15. ASSUME NEW i \in 1 .. Len(q2), q2[i].h = "ping_timeout"
       PROVE  \E j \in 1 .. Len(q2) : i < j /\ q2[j].h = "ping_coarse_tmr" /\ q2[j].s = q2[i].s
  <2>1. i # k2
    BY <1>12, <1>15
  <2>2. PICK a \in 1 .. Len(q1) : i = After(k2, a)
    BY <1>10, <2>1 DEF Extends
  <2>3. q2[i] = q1[a]
    BY <1>10, <2>2 DEF Extends
  <2>4. CASE q1[a].s = s
    <3>1. a = k1
      BY <1>3, <1>11, <1>15, <2>3, <2>4 DEF Once
    <3>2. i < k2
      BY <1>10, <1>13, <2>2, <3>1 DEF Extends
    <3>3. QED
      BY <1>12, <2>3, <2>4, <3>2
  <2>5. CASE q1[a].s # s
    <3>1. PICK b \in 1 .. Len(q1) : a < b /\ q1[b].h = "ping_coarse_tmr" /\ q1[b].s = q1[a].s
      BY <1>14, <1>15, <2>3, <2>5
    <3>2. After(k2, b) \in 1 .. Len(q2) /\ q2[After(k2, b)] = q1[b] /\ After(k2, a) < After(k2, b)
      BY <1>10, <3>1 DEF Extends
    <3>3. QED
      BY <2>2, <2>3, <3>1, <3>2
  <2>6. QED
    BY <2>4, <2>5
<1>16. Guarded(q2, {})
  BY <1>15 DEF Guarded
<1>17. Arm(q, s, ms) = q2
  BY DEF Arm, q1, q2
<1>18. \A g, t : Has(q2, g, t) <=> Has(q, g, t) \/ (g \in Handlers /\ t = s)
  BY <1>3, <1>7 DEF Handlers
<1>19. QED
  BY <1>5, <1>7, <1>16, <1>17, <1>18

-----------------------------------------------------------------------------
(* The invariant, in terms of these. *)

\* A list of timers in order, each once, timeouts before coarse timers.
GoodQueue(q) == q \in Seq(Timers) /\ Ordered(q) /\ Once(q) /\ Guarded(q, {})

\* What holds of session s with block m, reports t and timers q.
Session(m, t, q, s) ==
    /\ m.live => /\ m.left > 0 /\ m.coarse >= PING_TIMEOUT_MS
                 /\ Has(q, "ping_timeout", s) \/ t.ok + t.late > 0
    /\ Has(q, "ping_timeout", s) => t = NothingTold
    /\ \A h : Has(q, h, s) => m.live

\* The types of the variables but for the list of timers.
Blocks == [live : BOOLEAN, left : Nat, max : Nat, lost : Nat, coarse : Nat]
Reports == [ok : Nat, late : Nat]
Typed ==
    /\ msg \in [Pings -> Blocks] /\ told \in [Pings -> Reports]
    /\ ping_seq_num \in 0 .. MaxSeq - 1 /\ seqno \in 0 .. MaxSeq - 1

View == Typed /\ GoodQueue(queue) /\ \A s \in Pings : Session(msg[s], told[s], queue, s)

\* It is the inductive invariant.
LEMMA IInvView == IInv <=> View
<1>1. TypeOK <=> Typed /\ queue \in Seq(Timers)
  BY DEF TypeOK, Typed, Blocks, Reports, Timers, Handlers
<1>2. ASSUME queue \in Seq(Timers)
      PROVE  /\ InOrder <=> Ordered(queue)
             /\ ArmedOnce <=> Once(queue)
             /\ TimeoutFirst <=> Guarded(queue, {})
             /\ Running /\ NoDanglingTimer <=> \A s \in Pings : Session(msg[s], told[s], queue, s)
  <2>1. DOMAIN queue = 1 .. Len(queue)
    BY <1>2
  <2>2. (InOrder <=> Ordered(queue)) /\ (ArmedOnce <=> Once(queue))
    BY <2>1 DEF InOrder, Ordered, ArmedOnce, Once
  <2>3. TimeoutFirst <=> Guarded(queue, {})
    BY <2>1 DEF TimeoutFirst, Guarded
  <2>4. \A h, s : Armed(h, s) <=> Has(queue, h, s)
    BY <2>1 DEF Armed, Has
  <2>5. NoDanglingTimer <=> \A s \in Pings : \A h : Has(queue, h, s) => msg[s].live
    <3>1. \A i \in 1 .. Len(queue) : queue[i].s \in Pings
      BY <1>2, TimerFields
    <3>2. QED
      BY <2>1, <3>1 DEF NoDanglingTimer, Has
  <2>6. QED
    BY <2>2, <2>3, <2>4, <2>5 DEF Running, Session
<1>3. QED
  BY <1>1, <1>2 DEF IInv, View, GoodQueue

\* The same in the next state.
LEMMA IInvViewNext == IInv' <=> View'
BY IInvView, PTL

-----------------------------------------------------------------------------
(* The steps. *)

\* A timer that fires leaves the others in order; when the coarse timer of a
\* session fires, no timeout of that session is pending any more.
LEMMA FiringFacts ==
  ASSUME GoodQueue(queue), NEW h \in Handlers, NEW s \in Pings, Fires(h, s)
  PROVE  /\ GoodQueue(Tail(queue))
         /\ Has(queue, h, s)
         /\ \A g, t : Has(Tail(queue), g, t) <=> Has(queue, g, t) /\ ~(g = h /\ t = s)
         /\ h = "ping_coarse_tmr" => ~Has(queue, "ping_timeout", s)
<1> USE DEF GoodQueue
<1>1. queue # <<>> /\ queue[1].h = h /\ queue[1].s = s /\ 1 \in 1 .. Len(queue)
  BY DEF Fires
<1>2. Tail(queue) \in Seq(Timers) /\ Deleted(queue, Tail(queue), 1)
  BY <1>1, TailDeletes
<1>3. /\ Ordered(Tail(queue)) /\ Once(Tail(queue)) /\ Guarded(Tail(queue), {})
      /\ \A g, t : Has(Tail(queue), g, t) <=> Has(queue, g, t) /\ ~(g = queue[1].h /\ t = queue[1].s)
  BY <1>2, DisarmingOne
<1>4. Has(queue, h, s)
  BY <1>1 DEF Has
<1>5. ASSUME h = "ping_coarse_tmr", Has(queue, "ping_timeout", s)
      PROVE  FALSE
  <2>1. PICK i \in 1 .. Len(queue) : queue[i].h = "ping_timeout" /\ queue[i].s = s
    BY <1>5 DEF Has
  <2>2. PICK j \in 1 .. Len(queue) : i < j /\ queue[j].h = "ping_coarse_tmr" /\ queue[j].s = s
    BY <2>1 DEF Guarded
  <2>3. j = 1
    BY <1>1, <1>5, <2>2 DEF Once
  <2>4. QED
    BY <2>2, <2>3
<1>6. QED
  BY <1>1, <1>2, <1>3, <1>4, <1>5

\* Cancelling the timeout of a session cancels exactly that.
LEMMA CancelFacts ==
  ASSUME NEW q, GoodQueue(q), NEW s \in Pings
  PROVE  /\ GoodQueue(sys_untimeout(q, "ping_timeout", s))
         /\ \A g, t : Has(sys_untimeout(q, "ping_timeout", s), g, t)
                          <=> Has(q, g, t) /\ ~(g = "ping_timeout" /\ t = s)
<1> USE DEF GoodQueue
<1> DEFINE r == sys_untimeout(q, "ping_timeout", s)
<1>1. /\ r \in Seq(Timers)
      /\ \/ r = q /\ ~Has(q, "ping_timeout", s)
         \/ \E k : Deleted(q, r, k) /\ q[k].h = "ping_timeout" /\ q[k].s = s
  BY SysUntimeoutDeletes
<1> HIDE DEF r
<1>2. ASSUME r = q /\ ~Has(q, "ping_timeout", s)
      PROVE  GoodQueue(r) /\ \A g, t : Has(r, g, t) <=> Has(q, g, t) /\ ~(g = "ping_timeout" /\ t = s)
  BY <1>1, <1>2
<1>3. ASSUME \E k : Deleted(q, r, k) /\ q[k].h = "ping_timeout" /\ q[k].s = s
      PROVE  GoodQueue(r) /\ \A g, t : Has(r, g, t) <=> Has(q, g, t) /\ ~(g = "ping_timeout" /\ t = s)
  <2>1. PICK k : Deleted(q, r, k) /\ q[k].h = "ping_timeout" /\ q[k].s = s
    BY <1>3
  <2>2. /\ Ordered(r) /\ Once(r) /\ Guarded(r, {})
        /\ \A g, t : Has(r, g, t) <=> Has(q, g, t) /\ ~(g = q[k].h /\ t = q[k].s)
    BY <1>1, <2>1, DisarmingOne
  <2>3. QED
    BY <1>1, <2>1, <2>2
<1>4. GoodQueue(r) /\ \A g, t : Has(r, g, t) <=> Has(q, g, t) /\ ~(g = "ping_timeout" /\ t = s)
  BY <1>1, <1>2, <1>3
<1>5. QED
  BY <1>4 DEF r

\* A round is at least as long as an answer may take.
LEMMA RoundLength ==
  ASSUME NEW c \in Coarses
  PROVE  CoarseTime(c) \in Nat /\ CoarseTime(c) >= PING_TIMEOUT_MS
<1>1. /\ PING_COARSE \in Nat /\ PING_TIMEOUT_MS \in Nat /\ PING_TIMEOUT_MS <= PING_COARSE
      /\ c \in Nat
  BY PingTimesAssumption, PingCountsAssumption
<1>2. CASE c = 0
  BY <1>1, <1>2 DEF CoarseTime
<1>3. CASE c # 0
  <2>1. PICK d \in Nat : c = d + 1
    <3>1. c - 1 \in Nat /\ c = (c - 1) + 1
      BY <1>1, <1>3
    <3>2. QED
      BY <3>1
  <2>2. d * PING_COARSE \in Nat
    BY <1>1
  <2>3. c * PING_COARSE = d * PING_COARSE + PING_COARSE
    BY <1>1, <2>1
  <2>4. CoarseTime(c) = d * PING_COARSE + PING_COARSE
    BY <1>3, <2>3 DEF CoarseTime
  <2>5. QED
    BY <1>1, <2>2, <2>4
<1>4. QED
  BY <1>2, <1>3

\* Sequence numbers stay in their range.
LEMMA SequenceNumber ==
  ASSUME ping_seq_num \in 0 .. MaxSeq - 1, ping_send
  PROVE  ping_seq_num' \in 0 .. MaxSeq - 1
BY PingCountsAssumption DEF ping_send, ping_prepare_echo

\* Nothing is running at first.
LEMMA InitView == Init => View
<1> SUFFICES ASSUME Init PROVE View
  OBVIOUS
<1> USE DEF Init
<1>1. Typed
  BY PingCountsAssumption DEF Typed, Blocks, Reports, NoMsg, NothingTold
<1>2. queue \in Seq(Timers) /\ Len(queue) = 0
  OBVIOUS
<1>3. GoodQueue(queue)
  BY <1>2 DEF GoodQueue, Ordered, Once, Guarded
<1>4. \A s \in Pings : Session(msg[s], told[s], queue, s)
  BY <1>2 DEF Session, Has, NoMsg
<1>5. QED
  BY <1>1, <1>3, <1>4 DEF View

\* A new round of session s: its block is live, its timers are armed and it
\* has reported nothing.
LEMMA RoundKeepsView ==
  ASSUME View, NEW s \in Pings, NEW q, NEW m \in Blocks,
         GoodQueue(q), \A h : ~Has(q, h, s),
         \A t \in Pings : t # s => \A h : Has(q, h, t) <=> Has(queue, h, t),
         m.left > 0, m.coarse >= PING_TIMEOUT_MS, m.live,
         msg' = [msg EXCEPT ![s] = m], told' = NewRound(s),
         queue' = Arm(q, s, m.coarse), ping_send, seqno' = seqno
  PROVE  View'
<1> USE DEF View
<1>1. m.coarse \in Nat
  BY DEF Blocks
<1>2. /\ queue' \in Seq(Timers) /\ Ordered(queue') /\ Once(queue') /\ Guarded(queue', {})
      /\ \A g, t : Has(queue', g, t) <=> Has(q, g, t) \/ (g \in Handlers /\ t = s)
  BY <1>1, ArmFacts DEF GoodQueue
<1>3. NothingTold \in Reports
  BY DEF NothingTold, Reports
<1>4. told' = [told EXCEPT ![s] = NothingTold]
  BY DEF NewRound
<1>5. Typed'
  BY <1>3, <1>4, SequenceNumber DEF Typed
<1>6. msg'[s] = m /\ told'[s] = NothingTold
  BY <1>4 DEF Typed
<1>7. \A t \in Pings : t # s => msg'[t] = msg[t] /\ told'[t] = told[t]
  BY <1>4 DEF Typed
<1>8. Session(msg'[s], told'[s], queue', s)
  <2>1. Has(queue', "ping_timeout", s)
    BY <1>2 DEF Handlers
  <2>2. QED
    BY <1>6, <2>1 DEF Session
<1>9. ASSUME NEW t \in Pings, t # s
      PROVE  Session(msg'[t], told'[t], queue', t)
  <2>1. \A h : Has(queue', h, t) <=> Has(queue, h, t)
    BY <1>2, <1>9
  <2>2. QED
    BY <1>7, <1>9, <2>1 DEF Session
<1>10. QED
  BY <1>2, <1>5, <1>8, <1>9 DEF GoodQueue

\* ping_start.
LEMMA StartView ==
  ASSUME View, NEW s \in Pings, NEW n \in Counts, NEW c \in Coarses, ping_start(s, n, c)
  PROVE  View'
<1> USE DEF View
<1> DEFINE m == [live |-> TRUE, left |-> MaxCount(n), max |-> MaxCount(n), lost |-> 0,
                 coarse |-> CoarseTime(c)]
<1>1. MaxCount(n) \in Nat /\ MaxCount(n) > 0
  BY PingCountsAssumption DEF MaxCount
<1>2. CoarseTime(c) \in Nat /\ CoarseTime(c) >= PING_TIMEOUT_MS
  BY RoundLength
<1>3. /\ m \in Blocks /\ m.live /\ m.left > 0
      /\ m.coarse = CoarseTime(c)
  BY <1>1, <1>2 DEF Blocks
<1>4. /\ msg' = [msg EXCEPT ![s] = m] /\ told' = NewRound(s) /\ ping_send
      /\ seqno' = seqno /\ ~msg[s].live
      /\ queue' = Arm(queue, s, CoarseTime(c))
  BY DEF ping_start
<1> HIDE DEF m
<1>5. \A h : ~Has(queue, h, s)
  BY <1>4 DEF Session
<1>6. QED
  BY <1>2, <1>3, <1>4, <1>5, RoundKeepsView

\* ping_coarse_tmr: the next request, or the end.
LEMMA CoarseView ==
  ASSUME View, NEW s \in Pings, ping_coarse_tmr(s)
  PROVE  View'
<1> USE DEF View
<1> DEFINE q == Tail(queue)
<1>0. "ping_coarse_tmr" \in Handlers
  BY DEF Handlers
<1>1. /\ GoodQueue(q) /\ Has(queue, "ping_coarse_tmr", s)
      /\ \A g, t : Has(q, g, t) <=> Has(queue, g, t) /\ ~(g = "ping_coarse_tmr" /\ t = s)
      /\ ~Has(queue, "ping_timeout", s)
  BY <1>0, FiringFacts DEF ping_coarse_tmr
<1>2. \A h : Has(q, h, s) => h \in Handlers
  BY <1>1, TimerFields DEF GoodQueue, Has
<1>3. \A h : ~Has(q, h, s)
  BY <1>1, <1>2 DEF Handlers
<1>4. /\ msg[s] \in Blocks /\ msg[s].live /\ msg[s].left > 0 /\ msg[s].left \in Nat
      /\ msg[s].coarse >= PING_TIMEOUT_MS
  BY <1>1 DEF Session, Typed, Blocks
<1>5. seqno' = seqno /\ (ping_next_round(s, q) \/ ping_end(s, q))
  BY DEF ping_coarse_tmr
<1> HIDE DEF q
<1>6. CASE ping_next_round(s, q)
  <2> DEFINE m == [msg[s] EXCEPT !.left = @ - 1]
  <2>1. /\ msg[s].left - 1 # 0 /\ msg' = [msg EXCEPT ![s] = m]
        /\ ping_send /\ queue' = Arm(q, s, msg[s].coarse) /\ told' = NewRound(s)
    BY <1>6 DEF ping_next_round, Typed
  <2>2. msg[s].left - 1 \in Nat /\ msg[s].left - 1 > 0
    BY <1>4, <2>1
  <2>3. m \in Blocks /\ m.live = msg[s].live /\ m.left > 0 /\ m.coarse = msg[s].coarse
    BY <1>4, <2>2 DEF Blocks
  <2> HIDE DEF m
  <2>4. \A t \in Pings : t # s => \A h : Has(q, h, t) <=> Has(queue, h, t)
    BY <1>1
  <2>5. QED
    BY <1>1, <1>3, <1>4, <1>5, <2>1, <2>3, <2>4, RoundKeepsView
<1>7. CASE ping_end(s, q)
  <2>1. /\ msg' = [msg EXCEPT ![s] = NoMsg] /\ UNCHANGED <<ping_seq_num, told>>
        /\ queue' = sys_untimeout(q, "ping_coarse_tmr", s)
    BY <1>7 DEF ping_end
  <2>2. q \in Seq(Timers)
    BY <1>1 DEF GoodQueue
  <2>3. queue' = q
    <3>1. sys_untimeout(q, "ping_coarse_tmr", s) = q
          \/ \E k : Deleted(q, queue', k) /\ q[k].h = "ping_coarse_tmr" /\ q[k].s = s
      BY <2>1, <2>2, SysUntimeoutDeletes
    <3>2. \A k : ~(Deleted(q, queue', k) /\ q[k].h = "ping_coarse_tmr" /\ q[k].s = s)
      <4>1. ASSUME NEW k, Deleted(q, queue', k), q[k].h = "ping_coarse_tmr", q[k].s = s
            PROVE  FALSE
        <5>1. k \in 1 .. Len(q)
          <6>1. Len(q) \in Nat
            BY <2>2
          <6>2. QED
            BY <4>1, <6>1, DeletedElements DEF Shrinks
        <5>2. QED
          BY <1>3, <4>1, <5>1 DEF Has
      <4>2. QED
        BY <4>1
    <3>3. QED
      BY <2>1, <3>1, <3>2
  <2>4. NoMsg \in Blocks /\ ~NoMsg.live
    BY DEF NoMsg, Blocks
  <2>5. Typed'
    BY <1>5, <2>1, <2>4 DEF Typed
  <2>6. msg'[s] = NoMsg /\ \A t \in Pings : t # s => msg'[t] = msg[t]
    BY <2>1 DEF Typed
  <2>7. Session(msg'[s], told'[s], queue', s)
    BY <1>3, <2>3, <2>4, <2>6 DEF Session
  <2>8. ASSUME NEW t \in Pings, t # s
        PROVE  Session(msg'[t], told'[t], queue', t)
    <3>1. \A h : Has(queue', h, t) <=> Has(queue, h, t)
      BY <1>1, <2>3, <2>8
    <3>2. QED
      BY <2>1, <2>6, <2>8, <3>1 DEF Session
  <2>9. QED
    BY <1>1, <2>3, <2>5, <2>7, <2>8
<1>8. QED
  BY <1>5, <1>6, <1>7

\* A timeout of session s is gone and its round reported.
LEMMA ReportKeepsView ==
  ASSUME View, NEW s \in Pings, NEW m \in Blocks, NEW t \in Reports, t.ok + t.late > 0,
         m.live = msg[s].live, m.left = msg[s].left, m.coarse = msg[s].coarse,
         msg' = [msg EXCEPT ![s] = m], told' = [told EXCEPT ![s] = t],
         GoodQueue(queue'),
         \A g, u : Has(queue', g, u) <=> Has(queue, g, u) /\ ~(g = "ping_timeout" /\ u = s),
         ping_seq_num' = ping_seq_num, seqno' \in 0 .. MaxSeq - 1
  PROVE  View'
<1> USE DEF View
<1>1. Typed'
  BY DEF Typed
<1>2. /\ msg'[s] = m /\ told'[s] = t
      /\ \A u \in Pings : u # s => msg'[u] = msg[u] /\ told'[u] = told[u]
  BY DEF Typed
<1>3. Session(msg'[s], told'[s], queue', s)
  BY <1>2 DEF Session
<1>4. ASSUME NEW u \in Pings, u # s
      PROVE  Session(msg'[u], told'[u], queue', u)
  <2>1. \A h : Has(queue', h, u) <=> Has(queue, h, u)
    BY <1>4
  <2>2. QED
    BY <1>2, <1>4, <2>1 DEF Session
<1>5. QED
  BY <1>1, <1>3, <1>4

\* ping_timeout.
LEMMA TimeoutView ==
  ASSUME View, NEW s \in Pings, ping_timeout(s)
  PROVE  View'
<1> USE DEF View
<1> DEFINE m == [msg[s] EXCEPT !.lost = @ + 1]
           t == [told[s] EXCEPT !.late = @ + 1]
<1>0. "ping_timeout" \in Handlers
  BY DEF Handlers
<1>1. /\ GoodQueue(Tail(queue))
      /\ \A g, u : Has(Tail(queue), g, u) <=> Has(queue, g, u) /\ ~(g = "ping_timeout" /\ u = s)
  BY <1>0, FiringFacts DEF ping_timeout
<1>2. /\ msg' = [msg EXCEPT ![s] = m] /\ told' = [told EXCEPT ![s] = t]
      /\ queue' = Tail(queue) /\ UNCHANGED <<ping_seq_num, seqno>>
  BY DEF ping_timeout, Typed
<1>3. msg[s] \in Blocks /\ told[s] \in Reports /\ seqno \in 0 .. MaxSeq - 1
  BY DEF Typed
<1>4. /\ m \in Blocks /\ m.live = msg[s].live /\ m.left = msg[s].left
      /\ m.coarse = msg[s].coarse
  BY <1>3 DEF Blocks
<1>5. t \in Reports /\ t.ok + t.late > 0
  BY <1>3 DEF Reports
<1> HIDE DEF m, t
<1>6. QED
  BY <1>1, <1>2, <1>3, <1>4, <1>5, ReportKeepsView

\* ping_recv.
LEMMA RecvView ==
  ASSUME View, NEW s \in Pings, ping_recv(s)
  PROVE  View'
<1> USE DEF View
<1> DEFINE t == [told[s] EXCEPT !.ok = @ + 1]
<1>1. /\ GoodQueue(queue')
      /\ \A g, u : Has(queue', g, u) <=> Has(queue, g, u) /\ ~(g = "ping_timeout" /\ u = s)
  BY CancelFacts DEF ping_recv
<1>2. /\ msg' = [msg EXCEPT ![s] = msg[s]] /\ told' = [told EXCEPT ![s] = t]
      /\ ping_seq_num' = ping_seq_num /\ seqno' = ping_seq_num
  BY DEF ping_recv, Typed
<1>3. msg[s] \in Blocks /\ told[s] \in Reports /\ seqno' \in 0 .. MaxSeq - 1
  BY <1>2 DEF Typed
<1>4. t \in Reports /\ t.ok + t.late > 0
  BY <1>3 DEF Reports
<1> HIDE DEF t
<1>5. QED
  BY <1>1, <1>2, <1>3, <1>4, ReportKeepsView

\* Time passes: every timer keeps its place.
LEMMA ElapseView ==
  ASSUME View, Elapse
  PROVE  View'
<1> USE DEF View, GoodQueue
<1> DEFINE Less1(n) == IF n = 0 THEN 0 ELSE n - 1
<1>1. /\ Len(queue) \in Nat /\ DOMAIN queue = 1 .. Len(queue)
      /\ UNCHANGED <<msg, ping_seq_num, seqno, told>>
      /\ queue' = [i \in 1 .. Len(queue) |-> [queue[i] EXCEPT !.left = Less1(@)]]
  BY DEF Elapse
<1>2. \A i \in 1 .. Len(queue) : queue[i] \in Timers /\ queue[i].left \in Nat
  <2>1. \A i \in 1 .. Len(queue) : queue[i] \in Timers
    OBVIOUS
  <2>2. QED
    BY <2>1 DEF Timers
<1>3. \A n \in Nat : Less1(n) \in Nat
  OBVIOUS
<1>4. \A n, p \in Nat : n <= p => Less1(n) <= Less1(p)
  OBVIOUS
<1> HIDE DEF Less1
<1>5. ASSUME NEW i \in 1 .. Len(queue)
      PROVE  /\ queue'[i] \in Timers /\ queue'[i].h = queue[i].h /\ queue'[i].s = queue[i].s
             /\ queue'[i].left = Less1(queue[i].left)
  <2>1. queue'[i] = [queue[i] EXCEPT !.left = Less1(@)]
    BY <1>1
  <2>2. Less1(queue[i].left) \in Nat /\ queue[i] \in Timers
    BY <1>2, <1>3
  <2>3. QED
    BY <2>1, <2>2 DEF Timers
<1>6. queue' \in Seq(Timers) /\ Len(queue') = Len(queue)
  <2>1. queue' \in [1 .. Len(queue) -> Timers]
    BY <1>1, <1>5
  <2>2. QED
    BY <1>1, <2>1
<1>7. ASSUME NEW i \in 1 .. Len(queue), NEW j \in 1 .. Len(queue), i < j
      PROVE  queue'[i].left <= queue'[j].left
  <2>1. queue[i].left <= queue[j].left
    BY <1>7 DEF Ordered
  <2>2. QED
    BY <1>2, <1>4, <1>5, <2>1
<1>8. Ordered(queue') /\ Once(queue') /\ Guarded(queue', {})
  <2>1. Ordered(queue')
    BY <1>6, <1>7 DEF Ordered
  <2>2. Once(queue')
    BY <1>5, <1>6 DEF Once
  <2>3. Guarded(queue', {})
    BY <1>5, <1>6 DEF Guarded
  <2>4. QED
    BY <2>1, <2>2, <2>3
<1>9. \A h, s : Has(queue', h, s) <=> Has(queue, h, s)
  BY <1>5, <1>6 DEF Has
<1>10. ASSUME NEW s \in Pings
       PROVE  Session(msg'[s], told'[s], queue', s)
  <2>1. Session(msg[s], told[s], queue, s)
    OBVIOUS
  <2>2. QED
    BY <1>1, <1>9, <2>1 DEF Session
<1>11. QED
  BY <1>1, <1>6, <1>8, <1>10 DEF Typed

\* The invariant is inductive.
LEMMA NextView == View /\ [Next]_vars => View'
<1> SUFFICES ASSUME View, [Next]_vars PROVE View'
  OBVIOUS
<1>1. CASE Next
  BY <1>1, StartView, TimeoutView, RecvView, CoarseView, ElapseView DEF Next
<1>2. CASE UNCHANGED vars
  BY <1>2 DEF vars, View, Typed, GoodQueue
<1>3. QED
  BY <1>1, <1>2

\* The ping sender never leaves its inductive invariant.
THEOREM SpecIInv == Spec => []IInv
<1>1. Spec => []View
  BY InitView, NextView, PTL DEF Spec
<1>2. QED
  BY <1>1, IInvView, PTL

\* Every variable keeps its type: sequence numbers stay below the one that
\* ping_prepare_echo turns into 0, and sent_count never goes below zero.
THEOREM TypeCorrect == Spec => []TypeOK
<1>1. IInv => TypeOK
  BY DEF IInv
<1>2. QED
  BY <1>1, SpecIInv, PTL

\* No timer ever points to a freed session, for any number of sessions,
\* counts and intervals, although ping_coarse_tmr frees pingmsg without
\* cancelling ping_timeout.
THEOREM NoDanglingTimerHolds == Spec => []NoDanglingTimer
<1>1. IInv => NoDanglingTimer
  BY DEF IInv
<1>2. QED
  BY <1>1, SpecIInv, PTL

\* Every round is reported to the application before ping_coarse_tmr starts
\* the next one or ends the session.
THEOREM RoundReportedHolds == Spec => RoundReported
<1>1. View => \A s \in Pings : ping_coarse_tmr(s) => told[s].ok + told[s].late > 0
  <2> SUFFICES ASSUME View, NEW s \in Pings, ping_coarse_tmr(s)
               PROVE  told[s].ok + told[s].late > 0
    OBVIOUS
  <2>1. Has(queue, "ping_coarse_tmr", s) /\ ~Has(queue, "ping_timeout", s)
    BY FiringFacts DEF View, ping_coarse_tmr, Handlers
  <2>2. QED
    BY <2>1 DEF View, Session
<1>2. IInv => \A s \in Pings : ping_coarse_tmr(s) => told[s].ok + told[s].late > 0
  BY <1>1, IInvView
<1>3. QED
  BY <1>2, SpecIInv, PTL DEF RoundReported

\* A round reported as answered is never reported as lost: ping_recv cancels
\* the timeout it makes pointless, and no other.
THEOREM AnsweredNotLostHolds == Spec => AnsweredNotLost
<1>1. View => \A s \in Pings : ping_timeout(s) => told[s].ok = 0
  <2> SUFFICES ASSUME View, NEW s \in Pings, ping_timeout(s)
               PROVE  told[s].ok = 0
    OBVIOUS
  <2>1. Has(queue, "ping_timeout", s)
    BY FiringFacts DEF View, ping_timeout, Handlers
  <2>2. QED
    BY <2>1 DEF View, Session, NothingTold
<1>2. IInv => \A s \in Pings : ping_timeout(s) => told[s].ok = 0
  BY <1>1, IInvView
<1>3. QED
  BY <1>2, SpecIInv, PTL DEF AnsweredNotLost
=============================================================================
