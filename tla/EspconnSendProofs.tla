-------------------------- MODULE EspconnSendProofs --------------------------
(***************************************************************************)
(* Proofs about EspconnSend, for any lengths of packets and any sizes of   *)
(* lwIP's buffer and queue.                                                *)
(***************************************************************************)
EXTENDS EspconnSend, FiniteSetTheorems, SequenceTheorems, TLAPS

BufType == [len : Nat, off : Nat, unsent : Nat, tot : Nat]

\* Types of the queue of the connection, of lwIP's counts and of the ghosts.
TypeOK ==
    /\ buf \in [Packets -> BufType]
    /\ pbuf \in Seq(Packets)
    /\ ptail \in Packets \union {NULL}
    /\ write_flag \in BOOLEAN /\ nagle_off \in BOOLEAN
    /\ pc \in {"idle", "write", "finish", "callback"}
    /\ ret \in {"idle", "finish", "callback"}
    /\ carry \in Nat /\ posts \in Nat
    /\ next \in 0 .. MaxSends
    /\ base \in [Packets -> Nat]
    /\ wrote \in Nat /\ acked \in Nat
    /\ sentcb \in Seq(Packets)

\* The first packet that has not been reported.
head == Len(sentcb) + 1

End(p) == base[p] + buf[p].len

\* The length of the stream, and where a packet starts in it, the one that is
\* accepted next included.
Total == IF next = 0 THEN 0 ELSE End(next)
Start(p) == IF p > next THEN Total ELSE base[p]

\* The packets reported are the first ones, and the list holds the others.
QueueExact ==
    /\ \A i \in 1 .. Len(sentcb) : sentcb[i] = i
    /\ next = Len(sentcb) + Len(pbuf)
    /\ \A i \in 1 .. Len(pbuf) : pbuf[i] = Len(sentcb) + i

\* The packets follow each other in the stream.
LaidOut ==
    /\ \A p \in Accepted : buf[p].len \in Lengths /\ Start(p + 1) = End(p)
    /\ \A p, q \in Accepted : p < q => End(p) <= base[q]

\* lwIP holds what was written and not acknowledged.
LwipExact ==
    /\ acked <= wrote /\ wrote <= Total /\ wrote - acked <= TCP_SND_BUF
    /\ segs \subseteq acked + 1 .. wrote

\* What has been written ends in the packet of ptail, or at its end.
TailExact ==
    IF ptail = NULL THEN wrote = Total
    ELSE ptail \in head .. next /\ base[ptail] <= wrote /\ wrote <= End(ptail)

\* The running call is part of an acknowledgement.
Acking == pc \in {"finish", "callback"} \/ (pc = "write" /\ ret # "idle")

\* The count of the first packet, with what the loop carries, is what was
\* acknowledged of the rest of the stream.
CountExact ==
    /\ Start(head) <= acked
    /\ head <= next =>
          IF Acking THEN buf[head].tot + carry = acked - base[head] /\ acked - base[head] < Word
          ELSE buf[head].tot = acked - base[head] /\ acked < End(head)
    /\ Acking /\ head > next => carry = 0
    /\ \A p \in Accepted : p > head => buf[p].tot = 0

\* Once espconn_tcp_write has run, ptail is not at a packet that is complete.
TailAhead ==
    pc \in {"finish", "callback"} \/ (pc = "write" /\ ret = "callback") =>
        ptail = NULL \/ acked < wrote \/ wrote < End(ptail)

\* The inductive invariant.
IInv ==
    TypeOK /\ QueueExact /\ LaidOut /\ LwipExact /\ TailExact /\ CountExact /\ TailAhead
    /\ StreamInOrder

\* A packet that took write_flag down is not completely written.
FlagExact == ~write_flag => Copies /\ next > 0 /\ buf[next].unsent > 0

-----------------------------------------------------------------------------
(* The stream. *)

\* Arithmetic of tot_len: a count below 2^16 is kept.
LEMMA ModSmall ==
  ASSUME NEW x \in Nat, NEW w \in Nat, x < w
  PROVE  x % w = x
OBVIOUS

\* Packets, and the first one of the list.
LEMMA QueueFacts ==
  ASSUME TypeOK, QueueExact
  PROVE  /\ Len(sentcb) \in Nat /\ Len(pbuf) \in Nat /\ head \in Nat \ {0}
         /\ next \in Nat /\ Accepted \subseteq Packets
         /\ pbuf = <<>> <=> head > next
         /\ pbuf # <<>> => Head(pbuf) = head /\ head \in Accepted
         /\ next < head => head = next + 1
<1>1. Len(sentcb) \in Nat /\ Len(pbuf) \in Nat /\ next \in Nat
  BY LwipAssumption DEF TypeOK
<1>2. Accepted \subseteq Packets
  BY LwipAssumption DEF TypeOK, Accepted, Packets
<1>3. pbuf = <<>> <=> Len(pbuf) = 0
  BY DEF TypeOK
<1>4. pbuf # <<>> => Head(pbuf) = pbuf[1] /\ 1 \in 1 .. Len(pbuf)
  BY <1>1, <1>3 DEF TypeOK
<1>5. QED
  BY <1>1, <1>2, <1>3, <1>4 DEF QueueExact, head, Accepted

\* Types of a packet that was accepted.
LEMMA PacketFacts ==
  ASSUME TypeOK, QueueExact, LaidOut, NEW p \in Accepted
  PROVE  /\ p \in Nat \ {0} /\ p <= next
         /\ base[p] \in Nat /\ buf[p].len \in Nat \ {0} /\ buf[p].len + TCP_SND_BUF < Word
         /\ buf[p].off \in Nat /\ buf[p].unsent \in Nat /\ buf[p].tot \in Nat
         /\ End(p) = base[p] + buf[p].len /\ End(p) \in Nat
<1>1. p \in Packets /\ p \in Nat \ {0} /\ p <= next
  BY QueueFacts DEF Accepted
<1>2. buf[p] \in BufType /\ base[p] \in Nat
  BY <1>1 DEF TypeOK
<1>3. buf[p].len \in Lengths
  BY DEF LaidOut
<1>4. QED
  BY <1>1, <1>2, <1>3, LengthsAssumption DEF BufType, End

\* The length of the stream, and the places of the packets in it.
LEMMA StreamFacts ==
  ASSUME TypeOK, QueueExact, LaidOut
  PROVE  /\ Total \in Nat
         /\ \A p \in Accepted : End(p) <= Total
         /\ \A p, q \in Accepted : p < q => End(p) <= base[q]
         /\ \A p \in Accepted : Start(p) = base[p]
         /\ \A p \in Accepted : p = next => End(p) = Total
         /\ \A p \in Accepted : p < next => p + 1 \in Accepted /\ base[p + 1] = End(p)
<1>1. next \in Nat
  BY QueueFacts
<1>2. next # 0 => next \in Accepted /\ End(next) = Total
  BY <1>1 DEF Accepted, Total
<1>3. Total \in Nat
  BY <1>2, PacketFacts DEF Total
<1>4. \A p, q \in Accepted : p < q => End(p) <= base[q]
  BY DEF LaidOut
<1>5. ASSUME NEW p \in Accepted PROVE End(p) <= Total
  <2>1. next \in Accepted /\ p <= next /\ End(next) = Total
    <3>1. p \in Nat \ {0} /\ p <= next
      BY PacketFacts
    <3>2. QED
      BY <1>1, <1>2, <3>1
  <2>2. base[next] <= End(next) /\ End(next) \in Nat /\ End(p) \in Nat /\ base[next] \in Nat
    BY <2>1, PacketFacts
  <2>3. CASE p = next
    BY <1>2, <2>1, <2>2, <2>3
  <2>4. CASE p < next
    <3>1. End(p) <= base[next]
      BY <1>4, <2>1, <2>4
    <3>2. QED
      BY <1>2, <2>1, <2>2, <3>1
  <2>5. QED
    BY <1>1, <2>1, <2>3, <2>4, PacketFacts
<1>6. ASSUME NEW p \in Accepted PROVE Start(p) = base[p]
  BY <1>1 DEF Start, Accepted
<1>7. ASSUME NEW p \in Accepted, p < next PROVE p + 1 \in Accepted /\ base[p + 1] = End(p)
  <2>1. p + 1 \in Accepted
    BY <1>1, <1>7 DEF Accepted
  <2>2. QED
    BY <1>6, <2>1 DEF LaidOut
<1>8. QED
  BY <1>1, <1>2, <1>3, <1>4, <1>5, <1>6, <1>7 DEF Accepted, Total

\* What is written of the packet of ptail, and what is left.
LEMMA TailFacts ==
  ASSUME IInv, ptail # NULL
  PROVE  /\ ptail \in Accepted /\ ptail \in Packets
         /\ buf[ptail].off = wrote - base[ptail]
         /\ buf[ptail].unsent = End(ptail) - wrote
<1>1. ptail \in Accepted /\ ptail \in Packets
  BY QueueFacts DEF IInv, TailExact, TypeOK, Accepted
<1>2. base[ptail] <= wrote /\ wrote <= End(ptail) /\ wrote \in Nat
  BY DEF IInv, TailExact, TypeOK
<1>3. /\ base[ptail] \in Nat /\ buf[ptail].len \in Nat
      /\ End(ptail) = base[ptail] + buf[ptail].len
  BY <1>1, PacketFacts DEF IInv
<1>4. /\ buf[ptail].off = Clamp(wrote - base[ptail], buf[ptail].len)
      /\ buf[ptail].unsent = buf[ptail].len - buf[ptail].off
  BY <1>1 DEF IInv, StreamInOrder
<1>5. Clamp(wrote - base[ptail], buf[ptail].len) = wrote - base[ptail]
  BY <1>2, <1>3 DEF Clamp
<1>6. QED
  BY <1>1, <1>2, <1>3, <1>4, <1>5

\* Steps that keep the packets accepted, their places and their lengths.
LEMMA SameStream ==
  ASSUME TypeOK, QueueExact, LaidOut, UNCHANGED <<next, base>>,
         \A p \in Accepted : buf'[p].len = buf[p].len
  PROVE  /\ Accepted' = Accepted /\ Total' = Total
         /\ \A p \in Accepted : End(p)' = End(p)
         /\ \A p \in Accepted : Start(p)' = Start(p) /\ Start(p + 1)' = Start(p + 1)
         /\ LaidOut'
<1>1. next \in Nat
  BY QueueFacts
<1>2. Accepted' = Accepted
  BY DEF Accepted
<1>3. \A p \in Accepted : End(p)' = End(p)
  BY DEF End
<1>4. next # 0 => next \in Accepted
  BY <1>1 DEF Accepted
<1>5. Total' = Total
  BY <1>3, <1>4 DEF Total, End
<1>6. \A p \in Accepted : Start(p)' = Start(p) /\ Start(p + 1)' = Start(p + 1)
  BY <1>5 DEF Start
<1>7. LaidOut'
  BY <1>2, <1>3, <1>6 DEF LaidOut
<1>8. QED
  BY <1>2, <1>3, <1>5, <1>6, <1>7

-----------------------------------------------------------------------------
(* One lemma per step. *)

\* A new connection has nothing to send.
LEMMA InitIInv == Init => IInv /\ FlagExact
<1> SUFFICES ASSUME Init PROVE IInv /\ FlagExact
  OBVIOUS
<1> USE DEF Init
<1>1. Len(sentcb) = 0 /\ Len(pbuf) = 0 /\ Accepted = {} /\ head = 1
  BY DEF Accepted, head
<1>2. TypeOK
  <2>1. NoBuf \in BufType
    BY DEF NoBuf, BufType
  <2>2. buf \in [Packets -> BufType] /\ base \in [Packets -> Nat]
    BY <2>1
  <2>3. pbuf \in Seq(Packets) /\ sentcb \in Seq(Packets)
    BY EmptySeq
  <2>4. next \in 0 .. MaxSends
    BY LwipAssumption
  <2>5. QED
    BY <2>2, <2>3, <2>4 DEF TypeOK
<1>3. QueueExact /\ LaidOut /\ StreamInOrder
  BY <1>1 DEF QueueExact, LaidOut, StreamInOrder
<1>4. Total = 0 /\ Start(head) = 0
  BY <1>1 DEF Total, Start
<1>5. LwipExact /\ TailExact /\ CountExact /\ TailAhead
  BY <1>1, <1>4, LwipAssumption DEF LwipExact, TailExact, CountExact, TailAhead, Acking
<1>6. QED
  BY <1>2, <1>3, <1>5 DEF IInv, FlagExact

\* Steps that only change where the code is, the options and the messages.
LEMMA ControlIInv ==
  ASSUME IInv, UNCHANGED <<lists, lwip, carry, app, sentcb>>,
         write_flag' \in BOOLEAN, nagle_off' \in BOOLEAN, posts' \in Nat,
         pc' \in {"idle", "write", "finish", "callback"}, ret' \in {"idle", "finish", "callback"},
         \/ Acking' <=> Acking
         \/ ~Acking' /\ head > next,
         TailAhead'
  PROVE  IInv'
<1> USE DEF IInv, lists, lwip, app
<1>1. TypeOK'
  BY DEF TypeOK
<1>2. QueueExact'
  BY DEF QueueExact
<1>3. /\ Accepted' = Accepted /\ Total' = Total /\ LaidOut' /\ head' = head
      /\ \A p \in Accepted : End(p)' = End(p)
      /\ Start(head)' = Start(head)
  BY SameStream DEF head, Start, End, Total
<1>4. LwipExact' /\ TailExact' /\ StreamInOrder'
  BY <1>3 DEF LwipExact, TailExact, StreamInOrder, Accepted, End, head
<1>5. CountExact'
  <2>1. head \in Nat \ {0} /\ next \in Nat
    BY QueueFacts
  <2>2. head <= next => head \in Accepted /\ End(head)' = End(head)
    BY <1>3, <2>1 DEF Accepted
  <2>3. QED
    BY <1>3, <2>1, <2>2 DEF CountExact
<1>6. QED
  BY <1>1, <1>2, <1>3, <1>4, <1>5

\* Options, the number of packets, and the task.
LEMMA SettingIInv ==
  ASSUME IInv, \/ \E o \in Options : espconn_set_opt(o) \/ espconn_clear_opt(o)
               \/ \E n \in 1 .. TCP_SND_QUEUELEN : espconn_tcp_set_buf_count(n)
               \/ espconn_Task
               \/ UNCHANGED vars
  PROVE  IInv'
<1>1. /\ UNCHANGED <<lists, lwip, carry, app, sentcb>> /\ UNCHANGED <<pc, ret>>
      /\ write_flag' \in BOOLEAN /\ nagle_off' \in BOOLEAN /\ posts' \in Nat
  <2>1. write_flag \in BOOLEAN /\ nagle_off \in BOOLEAN /\ posts \in Nat
    BY DEF IInv, TypeOK
  <2>2. ASSUME NEW o \in Options, espconn_set_opt(o) \/ espconn_clear_opt(o)
        PROVE  /\ UNCHANGED <<lists, lwip, carry, app, sentcb>> /\ UNCHANGED <<pc, ret>>
               /\ write_flag' \in BOOLEAN /\ nagle_off' \in BOOLEAN /\ posts' \in Nat
    BY <2>1, <2>2 DEF espconn_set_opt, espconn_clear_opt
  <2>3. ASSUME NEW n \in 1 .. TCP_SND_QUEUELEN, espconn_tcp_set_buf_count(n)
        PROVE  /\ UNCHANGED <<lists, lwip, carry, app, sentcb>> /\ UNCHANGED <<pc, ret>>
               /\ write_flag' \in BOOLEAN /\ nagle_off' \in BOOLEAN /\ posts' \in Nat
    BY <2>1, <2>3 DEF espconn_tcp_set_buf_count
  <2>4. CASE espconn_Task
    BY <2>1, <2>4 DEF espconn_Task, opts
  <2>5. CASE UNCHANGED vars
    BY <2>1, <2>5 DEF vars, opts
  <2>6. QED
    BY <2>2, <2>3, <2>4, <2>5
<1>2. pc' \in {"idle", "write", "finish", "callback"} /\ ret' \in {"idle", "finish", "callback"}
  BY <1>1 DEF IInv, TypeOK
<1>3. (Acking' <=> Acking) /\ TailAhead'
  BY <1>1 DEF Acking, TailAhead, IInv, End, lists, lwip, app
<1>4. QED
  BY <1>1, <1>2, <1>3, ControlIInv

\* espconn_tcp_write ends: there is no packet left, lwIP's buffer is full, or
\* lwIP refuses; in none of these cases is ptail at a packet that the running
\* acknowledgement completes.
LEMMA WriteEndsIInv ==
  ASSUME IInv, WriteDone \/ WriteFails
  PROVE  IInv'
<1>1. /\ UNCHANGED <<lists, lwip, carry, app, sentcb>> /\ UNCHANGED <<write_flag, opts, posts, ret>>
      /\ pc = "write" /\ pc' = ret
  BY DEF WriteDone, WriteFails
<1>2. /\ write_flag' \in BOOLEAN /\ nagle_off' \in BOOLEAN /\ posts' \in Nat
      /\ pc' \in {"idle", "write", "finish", "callback"} /\ ret' \in {"idle", "finish", "callback"}
  BY <1>1 DEF IInv, TypeOK, opts
<1>3. Acking' <=> Acking
  BY <1>1, <1>2 DEF Acking
<1>4. ptail = NULL \/ acked < wrote \/ wrote < End(ptail)
  <2>1. wrote \in Nat /\ acked \in Nat
    BY DEF IInv, TypeOK
  <2>2. CASE WriteDone
    BY <2>1, <2>2, LwipAssumption DEF WriteDone, tcp_sndbuf, InFlight
  <2>3. CASE WriteFails
    <3>1. ptail # NULL => ptail \in Accepted /\ buf[ptail].unsent = End(ptail) - wrote
      BY TailFacts
    <3>2. ptail # NULL => End(ptail) \in Nat /\ wrote <= End(ptail)
      BY <3>1, PacketFacts DEF IInv, TailExact
    <3>3. QED
      BY <2>1, <2>3, <3>1, <3>2 DEF WriteFails
  <2>4. QED
    BY <2>2, <2>3
<1>5. TailAhead'
  BY <1>1, <1>4 DEF TailAhead, End, lists, lwip, app
<1>6. QED
  BY <1>1, <1>2, <1>3, <1>5, ControlIInv

\* espconn_tcp_finish comes to the end of the list, or goes on.
LEMMA FinishTurnsIInv ==
  ASSUME IInv, FinishDone \/ CallbackReturns
  PROVE  IInv'
<1>1. /\ UNCHANGED <<lists, lwip, carry, app, sentcb>> /\ UNCHANGED <<write_flag, opts, posts, ret>>
  BY DEF FinishDone, CallbackReturns
<1>2. /\ write_flag' \in BOOLEAN /\ nagle_off' \in BOOLEAN /\ posts' \in Nat
      /\ pc' \in {"idle", "write", "finish", "callback"} /\ ret' \in {"idle", "finish", "callback"}
  BY <1>1 DEF IInv, TypeOK, opts, FinishDone, CallbackReturns
<1>3. CASE FinishDone
  <2>1. ~Acking' /\ TailAhead' /\ head > next
    BY <1>3, QueueFacts DEF FinishDone, Acking, TailAhead, IInv
  <2>2. QED
    BY <1>1, <1>2, <2>1, ControlIInv
<1>4. CASE CallbackReturns
  <2>1. (Acking' <=> Acking) /\ TailAhead'
    BY <1>1, <1>4 DEF CallbackReturns, Acking, TailAhead, IInv, End, lists, lwip, app
  <2>2. QED
    BY <1>1, <1>2, <2>1, ControlIInv
<1>5. QED
  BY <1>3, <1>4

\* The next packet of the list.
LEMMA NextOfFacts ==
  ASSUME TypeOK, QueueExact, NEW p \in head .. next
  PROVE  NextOf(p) = IF p = next THEN NULL ELSE p + 1
<1> DEFINE after == {i \in 1 .. Len(pbuf) - 1 : pbuf[i] = p}
<1>1. Len(sentcb) \in Nat /\ Len(pbuf) \in Nat /\ next \in Nat /\ next = Len(sentcb) + Len(pbuf)
  BY QueueFacts DEF QueueExact
<1>2. p \in Nat /\ p > Len(sentcb) /\ p <= next
  BY <1>1 DEF head
<1>3. \A i \in 1 .. Len(pbuf) : pbuf[i] = Len(sentcb) + i
  BY DEF QueueExact
<1>4. CASE p = next
  <2>1. after = {}
    BY <1>1, <1>2, <1>3, <1>4
  <2>2. QED
    BY <1>4, <2>1 DEF NextOf
<1>5. CASE p # next
  <2>1. p - Len(sentcb) \in 1 .. Len(pbuf) - 1
    BY <1>1, <1>2, <1>5
  <2>2. \A i \in after : i = p - Len(sentcb)
    BY <1>1, <1>2, <1>3
  <2>3. p - Len(sentcb) \in after
    BY <1>1, <1>2, <1>3, <2>1
  <2>4. (CHOOSE i \in after : TRUE) = p - Len(sentcb)
    BY <2>2, <2>3
  <2>5. pbuf[p - Len(sentcb) + 1] = p + 1
    BY <1>1, <1>2, <1>3, <2>1
  <2> HIDE DEF after
  <2>6. NextOf(p) = pbuf[(CHOOSE i \in after : TRUE) + 1]
    BY <2>3 DEF NextOf, after
  <2>7. QED
    BY <1>5, <2>4, <2>5, <2>6
<1>6. QED
  BY <1>4, <1>5

\* ptail leaves a packet that is completely written.
LEMMA WriteAdvanceIInv ==
  ASSUME IInv, WriteAdvance
  PROVE  IInv'
<1> USE DEF IInv, lwip, app
<1>1. /\ UNCHANGED <<buf, pbuf, write_flag, opts, lwip, posts, pc, ret, carry, app, sentcb>>
      /\ ptail # NULL /\ buf[ptail].unsent = 0 /\ ptail' = NextOf(ptail) /\ pc = "write"
  BY DEF WriteAdvance
<1>2. /\ ptail \in Accepted /\ ptail \in Packets /\ ptail \in head .. next
      /\ buf[ptail].unsent = End(ptail) - wrote
  BY <1>1, TailFacts DEF TailExact
<1>3. End(ptail) \in Nat /\ wrote \in Nat /\ next \in Nat /\ head \in Nat /\ ptail \in Nat
  BY <1>2, PacketFacts, QueueFacts DEF TypeOK
<1>4. wrote = End(ptail)
  BY <1>1, <1>2, <1>3
<1>5. ptail' = IF ptail = next THEN NULL ELSE ptail + 1
  BY <1>1, <1>2, NextOfFacts
<1>6. ptail # next => ptail + 1 \in Accepted /\ base[ptail + 1] = wrote /\ ptail + 1 # NULL
  BY <1>2, <1>3, <1>4, StreamFacts, QueueFacts, FlagsAssumption
<1>7. ptail = next => wrote = Total
  BY <1>2, <1>4, StreamFacts
<1>8. TypeOK'
  BY <1>1, <1>5, <1>6, QueueFacts DEF TypeOK, opts
<1>9. /\ Accepted' = Accepted /\ Total' = Total /\ LaidOut' /\ head' = head
      /\ \A p \in Accepted : End(p)' = End(p)
      /\ Start(head)' = Start(head)
  BY <1>1, SameStream DEF head, Start, End, Total
<1>10. QueueExact' /\ LwipExact' /\ StreamInOrder'
  BY <1>1, <1>9 DEF QueueExact, LwipExact, StreamInOrder
<1>11. ptail # next => wrote < End(ptail + 1) /\ wrote <= End(ptail + 1)
  <2> SUFFICES ASSUME ptail # next PROVE wrote < End(ptail + 1) /\ wrote <= End(ptail + 1)
    OBVIOUS
  <2>1. ptail + 1 \in Accepted /\ base[ptail + 1] = wrote
    BY <1>6
  <2>2. buf[ptail + 1].len \in Nat \ {0} /\ End(ptail + 1) = base[ptail + 1] + buf[ptail + 1].len
    BY <2>1, PacketFacts
  <2>3. QED
    BY <1>3, <2>1, <2>2
<1>12. TailExact'
  <2>1. CASE ptail = next
    BY <1>1, <1>5, <1>7, <1>9, <2>1 DEF TailExact
  <2>2. CASE ptail # next
    <3>1. wrote' <= End(ptail)' /\ ptail' = ptail + 1
      BY <1>1, <1>5, <1>11, <2>2 DEF End
    <3>2. ptail' \in (head .. next)' /\ base'[ptail'] <= wrote' /\ ptail' # NULL
      BY <1>1, <1>2, <1>3, <1>6, <1>9, <2>2, <3>1
    <3>3. QED
      BY <3>1, <3>2 DEF TailExact
  <2>3. QED
    BY <2>1, <2>2
<1>13. CountExact'
  <2>1. head <= next => End(head)' = End(head)
    BY <1>9, QueueFacts DEF Accepted
  <2>2. QED
    BY <1>1, <1>9, <2>1 DEF CountExact, Acking
<1>14. TailAhead'
  <2>1. CASE ptail = next
    BY <1>5, <2>1 DEF TailAhead
  <2>2. CASE ptail # next
    <3>1. wrote' < End(ptail)'
      BY <1>1, <1>5, <1>11, <2>2 DEF End
    <3>2. QED
      BY <3>1 DEF TailAhead
  <2>3. QED
    BY <2>1, <2>2
<1>15. QED
  BY <1>8, <1>9, <1>10, <1>12, <1>13, <1>14

\* The part of a packet that is written.
LEMMA ClampFacts ==
  ASSUME NEW x \in Int, NEW len \in Nat
  PROVE  /\ x <= 0 => Clamp(x, len) = 0
         /\ x >= len => Clamp(x, len) = len
         /\ 0 <= x /\ x <= len => Clamp(x, len) = x
BY DEF Clamp

\* No attempt of espconn_tcp_sent is longer than what is left of the packet or
\* than the room in lwIP's buffer.
LEMMA AttemptsFit ==
  ASSUME IInv, ptail # NULL, tcp_sndbuf # 0,
         NEW n \in Attempts(FirstTry(buf[ptail].unsent))
  PROVE  n \in Nat \ {0} /\ n <= buf[ptail].unsent /\ n <= tcp_sndbuf
<1> DEFINE first == FirstTry(buf[ptail].unsent)
<1>1. ptail \in Accepted
  BY TailFacts
<1>2. buf[ptail].unsent \in Nat
  BY <1>1, PacketFacts DEF IInv
<1>3. tcp_sndbuf \in Nat
  BY LwipAssumption DEF IInv, TypeOK, LwipExact, tcp_sndbuf, InFlight
<1>4. first \in Nat /\ first <= buf[ptail].unsent /\ first <= tcp_sndbuf
  BY <1>2, <1>3, LwipAssumption DEF FirstTry
<1> HIDE DEF first
<1>5. n \in 1 .. first
  BY DEF Attempts, first
<1>6. QED
  BY <1>2, <1>3, <1>4, <1>5

\* espconn_tcp_sent hands the next n bytes of the packet of ptail to lwIP.
LEMMA WriteSendIInv ==
  ASSUME IInv, NEW n, WriteSend(n)
  PROVE  IInv'
<1> USE DEF IInv
<1>1. /\ pc = "write" /\ ptail # NULL /\ tcp_sndbuf # 0
      /\ n \in Attempts(FirstTry(buf[ptail].unsent))
      /\ buf' = [buf EXCEPT ![ptail] = Sent(buf[ptail], n)]
      /\ segs' = segs \union {wrote + n} /\ wrote' = wrote + n
      /\ pc' \in {"write", ret}
      /\ UNCHANGED <<pbuf, ptail, opts, acked, ret, carry, next, base, sentcb>>
  BY DEF WriteSend, app
<1>2. n \in Nat \ {0} /\ n <= buf[ptail].unsent /\ n <= tcp_sndbuf
  BY <1>1, AttemptsFit
<1>3. /\ ptail \in Accepted /\ ptail \in Packets
      /\ buf[ptail].off = wrote - base[ptail] /\ buf[ptail].unsent = End(ptail) - wrote
  BY <1>1, TailFacts
<1>4. /\ wrote \in Nat /\ acked \in Nat /\ acked <= wrote /\ next \in Nat /\ head \in Nat
      /\ base[ptail] <= wrote /\ wrote <= End(ptail) /\ Total \in Nat /\ End(ptail) <= Total
  BY <1>1, <1>3, QueueFacts, StreamFacts DEF TypeOK, LwipExact, TailExact
<1>5. /\ buf[ptail] \in BufType /\ base[ptail] \in Nat /\ End(ptail) \in Nat
      /\ End(ptail) = base[ptail] + buf[ptail].len
  BY <1>3, PacketFacts DEF TypeOK
<1>6. wrote + n <= End(ptail) /\ wrote + n - acked <= TCP_SND_BUF
  BY <1>2, <1>3, <1>4, <1>5, LwipAssumption DEF tcp_sndbuf, InFlight
<1>7. /\ \A p \in Packets : p # ptail => buf'[p] = buf[p]
      /\ \A p \in Packets : buf'[p].len = buf[p].len /\ buf'[p].tot = buf[p].tot
      /\ buf'[ptail].off = wrote + n - base[ptail]
      /\ buf'[ptail].unsent = End(ptail) - wrote - n
      /\ buf' \in [Packets -> BufType]
  <2>1. /\ Sent(buf[ptail], n) = [buf[ptail] EXCEPT !.off = buf[ptail].off + n,
                                                   !.unsent = buf[ptail].unsent - n]
    BY DEF Sent
  <2>2. /\ Sent(buf[ptail], n) \in BufType
        /\ Sent(buf[ptail], n).len = buf[ptail].len /\ Sent(buf[ptail], n).tot = buf[ptail].tot
        /\ Sent(buf[ptail], n).off = wrote + n - base[ptail]
        /\ Sent(buf[ptail], n).unsent = End(ptail) - wrote - n
    <3>1. /\ buf[ptail].off + n = wrote + n - base[ptail]
          /\ buf[ptail].unsent - n = End(ptail) - wrote - n
          /\ wrote + n - base[ptail] \in Nat /\ End(ptail) - wrote - n \in Nat
      BY <1>2, <1>3, <1>4, <1>5, <1>6
    <3>2. QED
      BY <1>5, <2>1, <3>1 DEF BufType
  <2>3. buf \in [Packets -> BufType]
    BY DEF TypeOK
  <2>4. /\ \A p \in Packets : buf'[p] = IF p = ptail THEN Sent(buf[ptail], n) ELSE buf[p]
        /\ buf' \in [Packets -> BufType]
    BY <1>1, <2>2, <2>3
  <2>5. QED
    BY <1>3, <2>2, <2>4
<1>8. Accepted \subseteq Packets
  BY QueueFacts
<1>9. /\ Accepted' = Accepted /\ Total' = Total /\ LaidOut' /\ head' = head
      /\ \A p \in Accepted : End(p)' = End(p)
  BY <1>1, <1>7, <1>8, SameStream DEF head
<1>10. Start(head)' = Start(head)
  BY <1>1, <1>9 DEF Start
<1>11. TypeOK'
  <2>1. /\ pbuf' \in Seq(Packets) /\ ptail' \in Packets \union {NULL}
        /\ nagle_off' \in BOOLEAN /\ ret' \in {"idle", "finish", "callback"} /\ carry' \in Nat
        /\ next' \in 0 .. MaxSends /\ base' \in [Packets -> Nat] /\ acked' \in Nat
        /\ sentcb' \in Seq(Packets)
    BY <1>1 DEF TypeOK, opts
  <2>2. pc' \in {"idle", "write", "finish", "callback"}
    BY <1>1 DEF TypeOK
  <2>3. wrote' \in Nat
    BY <1>1, <1>2, <1>4
  <2>4. write_flag' \in BOOLEAN /\ posts' \in Nat
    <3>1. (write_flag' = TRUE /\ posts' = ets_post) \/ UNCHANGED <<write_flag, posts>>
      BY Zenon DEF WriteSend
    <3>2. write_flag \in BOOLEAN /\ posts \in Nat /\ ets_post \in Nat
      BY DEF ets_post, TypeOK
    <3>3. QED
      BY <3>1, <3>2
  <2>5. QED
    BY <1>7, <2>1, <2>2, <2>3, <2>4 DEF TypeOK
<1>12. QueueExact'
  BY <1>1 DEF QueueExact
<1>13. LwipExact'
  <2>1. segs' \subseteq acked' + 1 .. wrote'
    BY <1>1, <1>2, <1>4 DEF LwipExact
  <2>2. QED
    BY <1>1, <1>2, <1>4, <1>5, <1>6, <1>9, <2>1 DEF LwipExact
<1>14. TailExact'
  <2>1. End(ptail)' = End(ptail)
    BY <1>1, <1>3, <1>7 DEF End
  <2>2. QED
    BY <1>1, <1>2, <1>4, <1>5, <1>6, <1>9, <2>1 DEF TailExact
<1>15. CountExact'
  <2>1. head <= next => head \in Accepted /\ End(head)' = End(head) /\ buf'[head].tot = buf[head].tot
    BY <1>7, <1>8, <1>1, <1>9, QueueFacts DEF Accepted, End
  <2>2. Acking' <=> Acking
    BY <1>1 DEF Acking, TypeOK
  <2>3. \A p \in Accepted : buf'[p].tot = buf[p].tot
    BY <1>7, <1>8
  <2>4. QED
    BY <1>1, <1>9, <1>10, <2>1, <2>2, <2>3 DEF CountExact
<1>16. TailAhead'
  <2>1. acked' < wrote'
    BY <1>1, <1>2, <1>4
  <2>2. QED
    BY <2>1 DEF TailAhead
<1>17. StreamInOrder'
  <2> SUFFICES ASSUME NEW p \in Accepted
               PROVE  /\ buf'[p].off = Clamp(wrote' - base[p], buf[p].len)
                      /\ buf'[p].unsent = buf[p].len - buf'[p].off
    BY <1>1, <1>7, <1>8, <1>9 DEF StreamInOrder, Clamp
  <2>1. /\ p \in Nat /\ base[p] \in Nat /\ buf[p].len \in Nat /\ End(p) = base[p] + buf[p].len
        /\ ptail \in Nat
    BY <1>3, PacketFacts
  <2>2. wrote' - base[p] \in Int /\ wrote - base[p] \in Int
    BY <1>1, <1>2, <1>4, <2>1
  <2>3. CASE p = ptail
    <3>1. Clamp(wrote' - base[p], buf[p].len) = wrote' - base[p]
      BY <1>1, <1>2, <1>4, <1>5, <1>6, <2>1, <2>2, <2>3, ClampFacts
    <3>2. QED
      BY <1>1, <1>2, <1>4, <1>5, <1>7, <2>1, <2>3, <3>1
  <2>4. CASE p # ptail
    <3>1. buf'[p] = buf[p] /\ buf[p].off = Clamp(wrote - base[p], buf[p].len)
          /\ buf[p].unsent = buf[p].len - buf[p].off
      BY <1>7, <1>8, <2>4 DEF StreamInOrder
    <3>2. CASE p < ptail
      <4>1. End(p) <= base[ptail]
        BY <1>3, <3>2 DEF LaidOut
      <4>2. wrote - base[p] >= buf[p].len /\ wrote' - base[p] >= buf[p].len
        BY <1>1, <1>2, <1>4, <1>5, <2>1, <4>1
      <4>3. QED
        BY <2>1, <2>2, <3>1, <4>2, ClampFacts
    <3>3. CASE ptail < p
      <4>1. End(ptail) <= base[p]
        BY <1>3, <3>3 DEF LaidOut
      <4>2. wrote - base[p] <= 0 /\ wrote' - base[p] <= 0
        BY <1>1, <1>2, <1>4, <1>5, <1>6, <2>1, <4>1
      <4>3. QED
        BY <2>1, <2>2, <3>1, <4>2, ClampFacts
    <3>4. QED
      BY <2>1, <2>4, <3>2, <3>3
  <2>5. QED
    BY <2>3, <2>4
<1>18. QED
  BY <1>9, <1>11, <1>12, <1>13, <1>14, <1>15, <1>16, <1>17

\* espconn_sent accepts a packet: it follows the others in the stream and in
\* the list, and ptail points to it when everything else is written.
LEMMA SentIInv ==
  ASSUME IInv, NEW l \in Lengths, espconn_sent(l)
  PROVE  IInv'
<1> USE DEF IInv
<1> DEFINE new == next + 1
           b   == [len |-> l, off |-> 0, unsent |-> l, tot |-> 0]
<1>1. /\ MayCall /\ new \in Packets
      /\ buf' = [buf EXCEPT ![new] = b] /\ pbuf' = Append(pbuf, new)
      /\ ptail' = IF ptail = NULL THEN new ELSE ptail
      /\ write_flag' = ~Copies
      /\ next' = new
      /\ base' = [base EXCEPT ![new] = IF next = 0 THEN 0 ELSE base[next] + buf[next].len]
      /\ EnterWrite(pc)
      /\ UNCHANGED <<opts, segs, wrote, acked, posts, carry, sentcb>>
  BY DEF espconn_sent, lwip
<1>2. /\ l \in Nat \ {0} /\ 0 < Word /\ Word \in Nat
      /\ b \in BufType /\ b.len = l /\ b.off = 0 /\ b.unsent = l /\ b.tot = 0
  BY LengthsAssumption, LwipAssumption DEF BufType
<1>3. /\ Len(sentcb) \in Nat /\ Len(pbuf) \in Nat /\ next \in Nat /\ head \in Nat \ {0}
      /\ head <= next + 1 /\ Accepted \subseteq Packets /\ Total \in Nat
      /\ wrote \in Nat /\ acked \in Nat /\ acked <= wrote /\ wrote <= Total
  BY QueueFacts, StreamFacts DEF TypeOK, LwipExact
<1>4. /\ buf' \in [Packets -> BufType] /\ buf'[new] = b
      /\ \A p \in Packets : p # new => buf'[p] = buf[p]
  BY <1>1, <1>2 DEF TypeOK
<1>5. /\ base' \in [Packets -> Nat] /\ base'[new] = Total
      /\ \A p \in Packets : p # new => base'[p] = base[p]
  <2>1. Total = IF next = 0 THEN 0 ELSE base[next] + buf[next].len
    BY DEF Total, End
  <2>2. base' = [base EXCEPT ![new] = Total] /\ base \in [Packets -> Nat]
    BY <1>1, <2>1 DEF TypeOK
  <2>3. QED
    BY <1>1, <1>3, <2>2
<1> HIDE DEF b
<1>6. /\ Accepted' = Accepted \union {new} /\ new \notin Accepted /\ head' = head
      /\ \A p \in Accepted : p \in Nat /\ p <= next
  BY <1>1, <1>3 DEF Accepted, head
<1>7. /\ \A p \in Accepted : buf'[p] = buf[p] /\ base'[p] = base[p] /\ End(p)' = End(p)
      /\ base'[new] + buf'[new].len = Total + l
  BY <1>2, <1>3, <1>4, <1>5, <1>6 DEF End
<1>8. Total' = Total + l
  BY <1>1, <1>3, <1>7 DEF Total, End
<1>9. Start(head)' = Start(head)
  <2>1. CASE head <= next
    <3>1. head \in Accepted
      BY <1>3, <2>1 DEF Accepted
    <3>2. base'[head] = base[head]
      BY <1>7, <3>1
    <3>3. QED
      BY <1>1, <1>3, <1>6, <2>1, <3>2 DEF Start
  <2>2. CASE head = new
    BY <1>1, <1>3, <1>5, <1>6, <2>2 DEF Start
  <2>3. QED
    BY <1>3, <2>1, <2>2
<1>10. new # NULL
  BY <1>1, FlagsAssumption
<1>11. TypeOK'
  <2>1. pbuf' \in Seq(Packets)
    BY <1>1 DEF TypeOK
  <2>2. next' \in 0 .. MaxSends
    BY <1>1, <1>3, LwipAssumption DEF Packets
  <2>3. ptail' \in Packets \union {NULL}
    BY <1>1 DEF TypeOK
  <2>4. pc' \in {"idle", "write", "finish", "callback"} /\ ret' \in {"idle", "finish", "callback"}
    BY <1>1 DEF EnterWrite, MayCall
  <2>5. /\ write_flag' \in BOOLEAN /\ nagle_off' \in BOOLEAN /\ carry' \in Nat /\ posts' \in Nat
        /\ wrote' \in Nat /\ acked' \in Nat /\ sentcb' \in Seq(Packets)
    BY <1>1 DEF TypeOK, opts
  <2>6. QED
    BY <1>4, <1>5, <2>1, <2>2, <2>3, <2>4, <2>5 DEF TypeOK
<1>12. QueueExact'
  <2>1. /\ Len(pbuf') = Len(pbuf) + 1 /\ pbuf'[Len(pbuf) + 1] = new
        /\ \A i \in 1 .. Len(pbuf) : pbuf'[i] = pbuf[i]
    BY <1>1 DEF TypeOK
  <2>2. ASSUME NEW i \in 1 .. Len(pbuf') PROVE pbuf'[i] = Len(sentcb) + i
    <3>1. i \in 1 .. Len(pbuf) \/ i = Len(pbuf) + 1
      BY <1>3, <2>1
    <3>2. CASE i \in 1 .. Len(pbuf)
      BY <2>1, <3>2 DEF QueueExact
    <3>3. CASE i = Len(pbuf) + 1
      BY <1>3, <2>1, <3>3 DEF QueueExact
    <3>4. QED
      BY <3>1, <3>2, <3>3
  <2>3. QED
    BY <1>1, <1>3, <2>1, <2>2 DEF QueueExact
<1>13. LaidOut'
  <2>1. ASSUME NEW p \in Accepted' PROVE buf'[p].len \in Lengths /\ Start(p + 1)' = End(p)'
    <3>1. CASE p = new
      BY <1>1, <1>2, <1>3, <1>4, <1>7, <1>8, <3>1 DEF Start, End
    <3>2. CASE p \in Accepted
      <4>1. buf'[p].len \in Lengths /\ End(p)' = End(p)
        BY <1>7, <3>2 DEF LaidOut
      <4>2. Start(p + 1)' = base'[p + 1]
        BY <1>1, <1>3, <1>6, <3>2 DEF Start
      <4>3. CASE p = next
        BY <1>5, <3>2, <4>1, <4>2, <4>3, StreamFacts
      <4>4. CASE p # next
        <5>1. p + 1 \in Accepted /\ base[p + 1] = End(p)
          BY <1>3, <1>6, <3>2, <4>4, StreamFacts
        <5>2. base'[p + 1] = base[p + 1]
          BY <1>7, <5>1
        <5>3. QED
          BY <4>1, <4>2, <5>1, <5>2
      <4>5. QED
        BY <4>3, <4>4
    <3>3. QED
      BY <1>6, <3>1, <3>2
  <2>2. ASSUME NEW p \in Accepted', NEW q \in Accepted', p < q PROVE End(p)' <= base'[q]
    <3>1. p \in Accepted
      BY <1>3, <1>6, <2>2
    <3>2. End(p)' = End(p)
      BY <1>7, <3>1
    <3>3. CASE q = new
      <4>1. End(p) <= Total
        BY <3>1, StreamFacts
      <4>2. base'[q] = Total
        BY <1>5, <3>3
      <4>3. QED
        BY <3>2, <4>1, <4>2
    <3>4. CASE q \in Accepted
      <4>1. End(p) <= base[q]
        BY <2>2, <3>1, <3>4 DEF LaidOut
      <4>2. base'[q] = base[q]
        BY <1>7, <3>4
      <4>3. QED
        BY <3>2, <4>1, <4>2
    <3>5. QED
      BY <1>6, <3>3, <3>4
  <2>3. QED
    BY <2>1, <2>2 DEF LaidOut
<1>14. LwipExact'
  BY <1>1, <1>2, <1>3, <1>8 DEF LwipExact
<1>15. TailExact'
  <2>1. CASE ptail = NULL
    <3>1. ptail' = new /\ wrote = Total
      BY <1>1, <2>1 DEF TailExact
    <3>2. End(ptail)' = Total + l /\ base'[ptail'] = Total
      BY <1>5, <1>7, <3>1 DEF End
    <3>3. next' = next + 1 /\ head' = head /\ ptail' = next + 1 /\ wrote' = wrote
      BY <1>1, <1>6, <3>1
    <3>4. ptail' \in head' .. next'
      BY <1>3, <3>3
    <3>5. wrote' <= End(ptail)' /\ base'[ptail'] <= wrote' /\ ptail' # NULL
      BY <1>2, <1>3, <1>10, <3>1, <3>2, <3>3
    <3>6. QED
      BY <3>4, <3>5 DEF TailExact
  <2>2. CASE ptail # NULL
    <3>1. ptail' = ptail /\ ptail \in Accepted /\ ptail \in head .. next
      BY <1>1, <2>2, TailFacts DEF TailExact
    <3>2. End(ptail)' = End(ptail) /\ base'[ptail] = base[ptail]
      BY <1>7, <3>1 DEF End
    <3>3. ptail' \in (head .. next)'
      BY <1>1, <1>3, <1>6, <3>1
    <3>4. wrote' <= End(ptail)' /\ base'[ptail'] <= wrote' /\ ptail' # NULL
      BY <1>1, <2>2, <3>1, <3>2 DEF TailExact
    <3>5. QED
      BY <3>3, <3>4 DEF TailExact
  <2>3. QED
    BY <2>1, <2>2
<1>16. Acking' <=> Acking
  BY <1>1 DEF EnterWrite, MayCall, Acking
<1>17. CountExact'
  <2>1. Start(head)' <= acked'
    BY <1>1, <1>9 DEF CountExact
  <2>2. \A p \in Accepted' : p > head' => buf'[p].tot = 0
    BY <1>2, <1>4, <1>6, <1>7 DEF CountExact
  <2>3. CASE head <= next
    <3>1. head \in Accepted
      BY <1>3, <2>3 DEF Accepted
    <3>2. buf'[head] = buf[head] /\ base'[head] = base[head] /\ End(head)' = End(head)
      BY <1>6, <1>7, <3>1 DEF End
    <3>3. QED
      <4>1. carry' = carry /\ acked' = acked /\ head' = head /\ ~(head' > next')
        BY <1>1, <1>3, <1>6, <2>3
      <4>2. IF Acking THEN buf[head].tot + carry = acked - base[head] /\ acked - base[head] < Word
            ELSE buf[head].tot = acked - base[head] /\ acked < End(head)
        BY <2>3 DEF CountExact
      <4>3. IF Acking' THEN buf'[head'].tot + carry' = acked' - base'[head'] /\ acked' - base'[head'] < Word
            ELSE buf'[head'].tot = acked' - base'[head'] /\ acked' < End(head)'
        BY <1>16, <3>2, <4>1, <4>2
      <4>4. QED
        BY <2>1, <2>2, <4>1, <4>3 DEF CountExact
  <2>4. CASE head = new
    <3>1. acked = Total
      BY <1>3, <2>4 DEF CountExact, Start
    <3>2. Acking => carry = 0
      BY <1>3, <2>4 DEF CountExact
    <3>3. buf'[head'].tot = 0 /\ base'[head'] = Total /\ End(head)' = Total + l
      BY <1>2, <1>4, <1>5, <1>6, <1>7, <2>4 DEF End
    <3>4. carry' = carry /\ acked' = acked /\ head' <= next'
      BY <1>1, <1>3, <1>6, <2>4
    <3>5. acked' - base'[head'] = 0 /\ acked' < End(head)'
      BY <1>2, <1>3, <3>1, <3>3, <3>4
    <3>6. IF Acking' THEN buf'[head'].tot + carry' = acked' - base'[head'] /\ acked' - base'[head'] < Word
          ELSE buf'[head'].tot = acked' - base'[head'] /\ acked' < End(head)'
      BY <1>2, <1>16, <3>2, <3>3, <3>4, <3>5
    <3>7. ~(head' > next')
      BY <1>1, <1>3, <3>4, <1>6
    <3>8. QED
      BY <2>1, <2>2, <3>6, <3>7 DEF CountExact
  <2>5. QED
    BY <1>3, <2>3, <2>4
<1>18. TailAhead'
  <2>1. CASE ptail = NULL
    <3>1. wrote' < End(ptail)'
      BY <1>1, <1>2, <1>3, <1>7, <2>1 DEF TailExact, End
    <3>2. QED
      BY <3>1 DEF TailAhead
  <2>2. CASE ptail # NULL /\ pc = "callback"
    <3>1. acked < wrote \/ wrote < End(ptail)
      BY <2>2 DEF TailAhead
    <3>2. ptail' = ptail /\ ptail \in Accepted
      BY <1>1, <2>2, TailFacts
    <3>3. End(ptail)' = End(ptail)
      BY <1>7, <3>2 DEF End
    <3>4. QED
      BY <1>1, <3>1, <3>2, <3>3 DEF TailAhead
  <2>3. CASE pc = "idle"
    BY <1>1, <2>3 DEF EnterWrite, TailAhead
  <2>4. QED
    BY <1>1, <2>1, <2>2, <2>3 DEF MayCall
<1>19. StreamInOrder'
  <2>1. ASSUME NEW p \in Accepted
        PROVE  /\ buf'[p].off = Clamp(wrote' - base'[p], buf'[p].len)
               /\ buf'[p].unsent = buf'[p].len - buf'[p].off
    <3>1. buf'[p] = buf[p] /\ base'[p] = base[p] /\ wrote' = wrote
      BY <1>1, <1>7
    <3>2. QED
      BY <3>1 DEF StreamInOrder
  <2>2. /\ buf'[new].off = Clamp(wrote' - base'[new], buf'[new].len)
        /\ buf'[new].unsent = buf'[new].len - buf'[new].off
    <3>1. Clamp(wrote - Total, l) = 0
      BY <1>2, <1>3, ClampFacts
    <3>2. QED
      BY <1>1, <1>2, <1>4, <1>5, <3>1
  <2> DEFINE P(p) == /\ buf'[p].off = Clamp(wrote' - base'[p], buf'[p].len)
                     /\ buf'[p].unsent = buf'[p].len - buf'[p].off
  <2>3. \A p \in Accepted' : P(p)
    BY <1>6, <2>1, <2>2
  <2>4. QED
    BY <2>3 DEF StreamInOrder, Clamp
<1>20. QED
  BY <1>11, <1>12, <1>13, <1>14, <1>15, <1>17, <1>18, <1>19

-----------------------------------------------------------------------------
(* Acknowledgements. *)

\* A step that sets the count of the first packet of the list.
LEMMA CountStep ==
  ASSUME IInv, head \in Accepted, NEW t \in Nat, UNCHANGED <<next, base, wrote>>,
         buf' = [buf EXCEPT ![head].tot = t]
  PROVE  /\ buf' \in [Packets -> BufType] /\ buf'[head].tot = t
         /\ \A p \in Accepted : p # head => buf'[p] = buf[p]
         /\ \A p \in Accepted : buf'[p].len = buf[p].len /\ buf'[p].unsent = buf[p].unsent
         /\ Accepted' = Accepted /\ Total' = Total /\ LaidOut' /\ StreamInOrder'
         /\ \A p \in Accepted : End(p)' = End(p) /\ Start(p)' = Start(p) /\ Start(p + 1)' = Start(p + 1)
<1> USE DEF IInv
<1>1. buf \in [Packets -> BufType] /\ Accepted \subseteq Packets
  BY QueueFacts DEF TypeOK
<1>2. buf[head] \in BufType /\ head \in Packets
  BY <1>1
<1>3. buf' = [buf EXCEPT ![head] = [buf[head] EXCEPT !.tot = t]]
  OBVIOUS
<1> DEFINE b == [buf[head] EXCEPT !.tot = t]
<1>4. b \in BufType /\ b.tot = t /\ b.len = buf[head].len /\ b.off = buf[head].off /\ b.unsent = buf[head].unsent
  BY <1>2 DEF BufType
<1> HIDE DEF b
<1>5. buf' \in [Packets -> BufType] /\ \A p \in Packets : buf'[p] = IF p = head THEN b ELSE buf[p]
  BY <1>1, <1>3, <1>4 DEF b
<1>6. \A p \in Accepted : /\ buf'[p].len = buf[p].len /\ buf'[p].off = buf[p].off
                          /\ buf'[p].unsent = buf[p].unsent
  BY <1>1, <1>4, <1>5
<1>7. /\ Accepted' = Accepted /\ Total' = Total /\ LaidOut'
      /\ \A p \in Accepted : End(p)' = End(p)
      /\ \A p \in Accepted : Start(p)' = Start(p) /\ Start(p + 1)' = Start(p + 1)
  BY <1>6, SameStream
<1>8. StreamInOrder'
  BY <1>6, <1>7 DEF StreamInOrder, Clamp
<1>9. QED
  BY <1>1, <1>2, <1>4, <1>5, <1>6, <1>7, <1>8

\* The state of an acknowledgement: the first packet has been counted.
LEMMA AckIInv ==
  ASSUME IInv, NEW n, espconn_client_sent(n)
  PROVE  IInv'
<1> USE DEF IInv
<1>1. /\ pc = "idle" /\ n \in 1 .. InFlight
      /\ segs' = Unacked(n) /\ acked' = acked + n
      /\ buf' = [buf EXCEPT ![Head(pbuf)].tot = (buf[Head(pbuf)].tot + n) % Word]
      /\ carry' = 0 /\ ret' = "finish"
      /\ pc' = IF nagle_off /\ Cardinality(segs') >= TCP_SND_QUEUELEN THEN "finish" ELSE "write"
      /\ UNCHANGED <<pbuf, ptail, write_flag, opts, wrote, posts, next, base, sentcb>>
  BY DEF espconn_client_sent, app
<1>2. /\ wrote \in Nat /\ acked \in Nat /\ acked <= wrote /\ wrote <= Total /\ Total \in Nat
      /\ wrote - acked <= TCP_SND_BUF /\ TCP_SND_BUF \in Nat /\ Word \in Nat
      /\ next \in Nat /\ head \in Nat \ {0}
  BY QueueFacts, StreamFacts, LwipAssumption DEF TypeOK, LwipExact
<1>3. n \in Nat \ {0} /\ acked + n <= wrote /\ n <= TCP_SND_BUF
  BY <1>1, <1>2 DEF InFlight
<1>4. head <= next
  <2>1. CASE head > next
    BY <1>2, <1>3, <2>1 DEF CountExact, Start
  <2>2. QED
    BY <1>2, <2>1
<1>5. Head(pbuf) = head /\ head \in Accepted
  BY <1>2, <1>4, QueueFacts
<1>6. /\ base[head] \in Nat /\ buf[head].len \in Nat /\ buf[head].tot \in Nat
      /\ buf[head].len + TCP_SND_BUF < Word
      /\ End(head) = base[head] + buf[head].len /\ End(head) \in Nat
  BY <1>5, PacketFacts
<1>7. buf[head].tot = acked - base[head] /\ acked < End(head) /\ Start(head) <= acked
  BY <1>1, <1>4 DEF CountExact, Acking
<1> DEFINE t == buf[head].tot + n
<1>8. t \in Nat /\ t = acked + n - base[head] /\ t < Word
  BY <1>2, <1>3, <1>6, <1>7
<1>9. t % Word = t
  BY <1>2, <1>8, ModSmall
<1> HIDE DEF t
<1>10. buf' = [buf EXCEPT ![head].tot = t]
  BY <1>1, <1>5, <1>9 DEF t
<1>11. /\ buf' \in [Packets -> BufType] /\ buf'[head].tot = t
       /\ \A p \in Accepted : p # head => buf'[p] = buf[p]
       /\ Accepted' = Accepted /\ Total' = Total /\ LaidOut' /\ StreamInOrder'
       /\ \A p \in Accepted : End(p)' = End(p) /\ Start(p)' = Start(p)
  BY <1>1, <1>5, <1>8, <1>10, CountStep
<1>12. head' = head
  BY <1>1 DEF head
<1>13. TypeOK'
  <2>1. acked' \in Nat /\ carry' \in Nat
    BY <1>1, <1>2, <1>3
  <2>2. pc' \in {"idle", "write", "finish", "callback"} /\ ret' \in {"idle", "finish", "callback"}
    BY <1>1
  <2>3. QED
    BY <1>1, <1>11, <2>1, <2>2 DEF TypeOK, opts
<1>14. QueueExact'
  BY <1>1 DEF QueueExact
<1>15. segs' \subseteq acked' + 1 .. wrote'
  BY <1>1, <1>2, <1>3 DEF LwipExact, Unacked
<1>16. LwipExact'
  BY <1>1, <1>2, <1>3, <1>11, <1>15 DEF LwipExact
<1>17. TailExact'
  <2>1. ptail # NULL => ptail \in Accepted /\ End(ptail)' = End(ptail)
    BY <1>1, <1>11, TailFacts DEF End
  <2>2. QED
    BY <1>1, <1>11, <1>12, <2>1 DEF TailExact
<1>18. CountExact'
  <2>1. Start(head)' = Start(head)
    BY <1>5, <1>11, <1>12 DEF Start
  <2>2. Start(head)' <= acked'
    <3>1. Start(head) \in Nat
      BY <1>2, <1>5, <1>6, StreamFacts
    <3>2. QED
      BY <1>1, <1>2, <1>3, <1>7, <2>1, <3>1
  <2>3. Acking'
    BY <1>1 DEF Acking
  <2>4. buf'[head'].tot + carry' = acked' - base'[head'] /\ acked' - base'[head'] < Word
    BY <1>1, <1>2, <1>3, <1>6, <1>8, <1>11, <1>12
  <2>5. carry' = 0
    BY <1>1
  <2>6. \A p \in Accepted' : p > head' => buf'[p].tot = 0
    BY <1>2, <1>11, <1>12 DEF CountExact
  <2>7. QED
    BY <2>2, <2>3, <2>4, <2>5, <2>6 DEF CountExact
<1>19. TailAhead'
  <2>1. CASE pc' = "write"
    BY <1>1, <2>1 DEF TailAhead
  <2>2. CASE pc' = "finish"
    <3>1. Cardinality(segs') >= TCP_SND_QUEUELEN
      BY <1>1, <2>2
    <3>2. segs' # {}
      BY <3>1, LwipAssumption, FS_EmptySet
    <3>3. acked' < wrote'
      BY <1>1, <1>2, <1>3, <1>15, <3>2
    <3>4. QED
      BY <3>3 DEF TailAhead
  <2>3. QED
    BY <1>1, <2>1, <2>2
<1>20. QED
  BY <1>11, <1>13, <1>14, <1>16, <1>17, <1>18, <1>19

\* One turn of espconn_tcp_finish: the first packet gets what is carried; when
\* it is complete it leaves the list, and ptail does not point to it.
LEMMA FinishLoopIInv ==
  ASSUME IInv, FinishLoop
  PROVE  IInv'
<1> USE DEF IInv
<1>1. /\ pc = "finish" /\ pbuf # <<>>
      /\ UNCHANGED <<ptail, write_flag, opts, segs, wrote, acked, posts, ret, next, base>>
  BY DEF FinishLoop, lwip, app
<1>2. /\ wrote \in Nat /\ acked \in Nat /\ acked <= wrote /\ wrote <= Total /\ Total \in Nat
      /\ Word \in Nat /\ carry \in Nat
      /\ next \in Nat /\ head \in Nat \ {0} /\ Len(sentcb) \in Nat /\ Len(pbuf) \in Nat
      /\ Head(pbuf) = head /\ head \in Accepted /\ head <= next
  BY <1>1, QueueFacts, StreamFacts, LwipAssumption DEF TypeOK, LwipExact, Accepted
<1>3. /\ base[head] \in Nat /\ buf[head].len \in Nat /\ buf[head].tot \in Nat
      /\ End(head) = base[head] + buf[head].len /\ End(head) \in Nat /\ End(head) <= Total
  BY <1>2, PacketFacts, StreamFacts
<1> DEFINE t == buf[head].tot + carry
<1>4. t \in Nat /\ t = acked - base[head] /\ t < Word
  <2>1. buf[head].tot + carry = acked - base[head] /\ acked - base[head] < Word
    BY <1>1, <1>2 DEF CountExact, Acking
  <2>2. acked \in Nat /\ carry \in Nat /\ base[head] \in Nat /\ buf[head].tot \in Nat
    BY <1>2, <1>3
  <2>3. QED
    BY <2>1, <2>2
<1>5. t % Word = t
  BY <1>2, <1>4, ModSmall
<1> HIDE DEF t
<1>6. /\ buf' = [buf EXCEPT ![head].tot = t]
      /\ IF Complete(head, t)
         THEN /\ pbuf' = Tail(pbuf) /\ carry' = Excess(t, buf[head].len)
              /\ sentcb' = Append(sentcb, head) /\ pc' = "callback"
         ELSE pc' = "idle" /\ UNCHANGED <<pbuf, carry, sentcb>>
  BY <1>2, <1>5 DEF FinishLoop, t
<1>7. /\ buf' \in [Packets -> BufType] /\ buf'[head].tot = t
      /\ \A p \in Accepted : p # head => buf'[p] = buf[p]
      /\ Accepted' = Accepted /\ Total' = Total /\ LaidOut' /\ StreamInOrder'
      /\ \A p \in Accepted : End(p)' = End(p) /\ Start(p)' = Start(p) /\ Start(p + 1)' = Start(p + 1)
  BY <1>1, <1>2, <1>4, <1>6, CountStep
<1>8. LwipExact'
  BY <1>1, <1>7 DEF LwipExact
<1>9. ptail # NULL => ptail \in Accepted /\ End(ptail)' = End(ptail)
  BY <1>1, <1>7, TailFacts DEF End
<1>10. CASE Complete(head, t)
  <2>1. /\ pbuf' = Tail(pbuf) /\ carry' = t - buf[head].len
        /\ sentcb' = Append(sentcb, head) /\ pc' = "callback" /\ t >= buf[head].len
    BY <1>6, <1>10 DEF Complete, Excess
  <2>2. acked >= End(head) /\ carry' = acked - End(head) /\ carry' \in Nat /\ carry' < Word
    <3>1. carry' = t - buf[head].len /\ t >= buf[head].len
      BY <2>1
    <3>2. acked \in Nat /\ base[head] \in Nat /\ End(head) = base[head] + buf[head].len /\ buf[head].len \in Nat
      BY <1>2, <1>3
    <3>3. QED
      BY <1>4, <3>1, <3>2, LwipAssumption
  <2>3. /\ Len(sentcb') = Len(sentcb) + 1 /\ sentcb'[Len(sentcb) + 1] = head
        /\ \A i \in 1 .. Len(sentcb) : sentcb'[i] = sentcb[i]
        /\ sentcb' \in Seq(Packets)
    BY <1>2, <2>1, QueueFacts DEF TypeOK
  <2>4. /\ Len(pbuf') = Len(pbuf) - 1 /\ pbuf' \in Seq(Packets)
        /\ \A i \in 1 .. Len(pbuf') : pbuf'[i] = pbuf[i + 1]
    BY <1>1, <2>1 DEF TypeOK
  <2>5. head' = head + 1
    BY <1>2, <2>3 DEF head
  <2>6. TypeOK'
    BY <1>1, <1>7, <2>1, <2>2, <2>3, <2>4 DEF TypeOK, opts
  <2>7. QueueExact'
    <3>1. ASSUME NEW i \in 1 .. Len(sentcb') PROVE sentcb'[i] = i
      <4>1. i \in 1 .. Len(sentcb) \/ i = Len(sentcb) + 1
        BY <1>2, <2>3
      <4>2. QED
        BY <2>3, <4>1 DEF QueueExact, head
    <3>2. ASSUME NEW i \in 1 .. Len(pbuf') PROVE pbuf'[i] = Len(sentcb') + i
      <4>1. i + 1 \in 1 .. Len(pbuf) /\ i \in Nat
        BY <1>2, <2>4
      <4>2. pbuf[i + 1] = Len(sentcb) + (i + 1)
        BY <4>1 DEF QueueExact
      <4>3. QED
        BY <1>2, <2>3, <2>4, <4>1, <4>2
    <3>3. next' = Len(sentcb') + Len(pbuf')
      BY <1>1, <1>2, <2>3, <2>4 DEF QueueExact
    <3>4. QED
      BY <3>1, <3>2, <3>3 DEF QueueExact
  <2>8. ptail # head
    <3>1. ptail = head => ptail # NULL
      BY <1>2, QueueFacts, FlagsAssumption
    <3>2. ptail = head => (acked < wrote \/ wrote < End(head)) /\ wrote <= End(head)
      BY <1>1, <3>1 DEF TailAhead, TailExact
    <3>3. QED
      BY <1>2, <1>3, <2>2, <3>2
  <2>9. TailExact'
    <3>1. ptail # NULL => ptail \in head + 1 .. next
      BY <1>2, <2>8 DEF TailExact
    <3>2. QED
      BY <1>1, <1>7, <1>9, <2>5, <3>1 DEF TailExact
  <2>10. CountExact'
    <3>1. Start(head + 1) = End(head)
      BY <1>2 DEF LaidOut
    <3>2. Start(head)' = End(head)
      <4>1. \A p \in Accepted : Start(p + 1)' = Start(p + 1)
        BY <1>7
      <4>2. Start(head)' = Start(head + 1)
        BY <1>1, <1>2, <1>7, <2>5 DEF Start
      <4>3. QED
        BY <3>1, <4>2
    <3>3. Start(head)' <= acked'
      BY <1>1, <1>2, <1>3, <2>2, <3>2
    <3>4. Acking'
      BY <2>1 DEF Acking
    <3>5. CASE head + 1 <= next
      <4>1. head + 1 \in Accepted /\ base[head + 1] = End(head)
        BY <1>2, <3>5, StreamFacts
      <4>2. buf'[head + 1] = buf[head + 1] /\ buf[head + 1].tot = 0
        BY <1>2, <1>7, <4>1 DEF CountExact
      <4>3. buf'[head'].tot + carry' = acked' - base'[head'] /\ acked' - base'[head'] < Word
        BY <1>1, <1>2, <1>3, <2>2, <2>5, <4>1, <4>2
      <4>4. ~(head' > next')
        BY <1>1, <1>2, <2>5, <3>5
      <4>5. \A p \in Accepted' : p > head' => buf'[p].tot = 0
        <5>1. ASSUME NEW p \in Accepted, p > head + 1 PROVE buf'[p].tot = 0
          <6>1. p \in Nat /\ p > head /\ p # head
            BY <1>2, <5>1 DEF Accepted
          <6>2. QED
            BY <1>7, <5>1, <6>1 DEF CountExact
        <5>2. QED
          BY <1>7, <2>5, <5>1
      <4>6. QED
        BY <3>3, <3>4, <4>3, <4>4, <4>5 DEF CountExact
    <3>6. CASE head + 1 > next
      <4>1. head = next
        BY <1>2, <3>6
      <4>2. carry' = 0
        BY <1>2, <1>3, <2>2, <4>1, StreamFacts
      <4>3. ~(head' <= next') /\ \A p \in Accepted' : ~(p > head')
        BY <1>1, <1>2, <1>7, <2>5, <4>1 DEF Accepted
      <4>4. QED
        BY <3>3, <4>2, <4>3 DEF CountExact
    <3>7. QED
      BY <1>2, <3>5, <3>6
  <2>11. TailAhead'
    BY <1>1, <1>9 DEF TailAhead
  <2>12. QED
    BY <1>7, <1>8, <2>6, <2>7, <2>9, <2>10, <2>11
<1>11. CASE ~Complete(head, t)
  <2>1. pc' = "idle" /\ UNCHANGED <<pbuf, carry, sentcb>> /\ ~(t >= buf[head].len) /\ head' = head
    BY <1>6, <1>11 DEF Complete, head
  <2>2. acked < End(head)
    BY <1>2, <1>3, <1>4, <2>1
  <2>3. TypeOK'
    BY <1>1, <1>7, <2>1 DEF TypeOK, opts
  <2>4. QueueExact'
    BY <1>1, <2>1 DEF QueueExact
  <2>5. TailExact'
    BY <1>1, <1>7, <1>9, <2>1 DEF TailExact
  <2>6. CountExact'
    <3>1. Start(head)' <= acked'
      <4>1. Start(head)' = Start(head)
        BY <1>1, <1>7, <2>1 DEF Start
      <4>2. QED
        BY <1>1, <4>1 DEF CountExact
    <3>2. ~Acking'
      BY <2>1 DEF Acking
    <3>3. End(head)' = End(head)
      BY <1>2, <1>7, <2>1 DEF End
    <3>4. buf'[head'].tot = acked' - base'[head'] /\ acked' < End(head)'
      BY <1>1, <1>4, <1>7, <2>1, <2>2, <3>3
    <3>5. \A p \in Accepted' : p > head' => buf'[p].tot = 0
      BY <1>2, <1>7, <2>1 DEF CountExact
    <3>6. QED
      BY <3>1, <3>2, <3>4, <3>5 DEF CountExact
  <2>7. TailAhead'
    BY <2>1 DEF TailAhead
  <2>8. QED
    BY <1>7, <1>8, <2>3, <2>4, <2>5, <2>6, <2>7
<1>12. QED
  BY <1>10, <1>11

\* Every step keeps the inductive invariant.
LEMMA NextIInv == IInv /\ [Next]_vars => IInv'
<1> SUFFICES ASSUME IInv, [Next]_vars PROVE IInv'
  OBVIOUS
<1>1. CASE \E l \in Lengths : espconn_sent(l)
  BY <1>1, SentIInv
<1>2. CASE \/ \E o \in Options : espconn_set_opt(o) \/ espconn_clear_opt(o)
           \/ \E n \in 1 .. TCP_SND_QUEUELEN : espconn_tcp_set_buf_count(n)
           \/ espconn_Task
           \/ UNCHANGED vars
  BY <1>2, SettingIInv
<1>3. CASE WriteLoop
  BY <1>3, WriteEndsIInv, WriteAdvanceIInv, WriteSendIInv DEF WriteLoop
<1>4. CASE Ack
  BY <1>4, AckIInv DEF Ack
<1>5. CASE Finish
  BY <1>5, FinishTurnsIInv, FinishLoopIInv DEF Finish
<1>6. QED
  BY <1>1, <1>2, <1>3, <1>4, <1>5 DEF Next

-----------------------------------------------------------------------------
(* The theorems. *)

\* Every reachable state satisfies the inductive invariant.
LEMMA SpecIInv == Spec => []IInv
BY InitIInv, NextIInv, PTL DEF Spec

\* Every variable keeps its type: the counts of bytes stay natural numbers, so
\* no subtraction on unsent, carry or the room in lwIP goes below zero.
THEOREM TypeCorrect == Spec => []TypeOK
<1>1. IInv => TypeOK
  BY DEF IInv
<1>2. QED
  BY <1>1, SpecIInv, PTL

\* The bytes given to lwIP are the packets accepted by espconn_sent, in order,
\* none twice and none left out, whatever lwIP takes at a time, whenever it
\* refuses, and wherever sent_callback sends again.
THEOREM StreamInOrderHolds == Spec => []StreamInOrder
<1>1. IInv => StreamInOrder
  BY DEF IInv
<1>2. QED
  BY <1>1, SpecIInv, PTL

\* ptail never points to a packet that espconn_tcp_finish has freed.
THEOREM PtailValidHolds == Spec => []PtailValid
<1>1. IInv => PtailValid
  <2> SUFFICES ASSUME IInv, ptail # NULL PROVE \E i \in 1 .. Len(pbuf) : pbuf[i] = ptail
    BY DEF PtailValid
  <2>1. ptail \in head .. next
    BY DEF IInv, TailExact
  <2>2. /\ Len(sentcb) \in Nat /\ Len(pbuf) \in Nat /\ next = Len(sentcb) + Len(pbuf)
        /\ \A i \in 1 .. Len(pbuf) : pbuf[i] = Len(sentcb) + i
    BY QueueFacts DEF IInv, QueueExact
  <2>3. ptail - Len(sentcb) \in 1 .. Len(pbuf) /\ Len(sentcb) + (ptail - Len(sentcb)) = ptail
    BY <2>1, <2>2 DEF head
  <2>4. QED
    BY <2>2, <2>3
<1>2. QED
  BY <1>1, SpecIInv, PTL

\* sent_callback is called once for each packet, in order, never before all of
\* its bytes are acknowledged and never later than the acknowledgement that
\* completes it, however acknowledgements split and join packets.
THEOREM ReportedWhenAckedHolds == Spec => []ReportedWhenAcked
<1>1. IInv => ReportedWhenAcked
  <2> SUFFICES ASSUME IInv PROVE ReportedWhenAcked
    OBVIOUS
  <2> USE DEF IInv
  <2>1. next \in Nat /\ head \in Nat \ {0} /\ head = Len(sentcb) + 1 /\ Len(sentcb) \in Nat /\ acked \in Nat
    BY QueueFacts DEF head, TypeOK
  <2>2. ASSUME NEW p \in Accepted, p <= Len(sentcb) PROVE acked >= End(p)
    <3>1. p \in Nat /\ p < head /\ p <= next /\ End(p) \in Nat
      BY <2>1, <2>2, PacketFacts
    <3>2. CASE head <= next
      <4>1. head \in Accepted
        BY <2>1, <3>2 DEF Accepted
      <4>2. End(p) <= base[head] /\ Start(head) = base[head] /\ base[head] \in Nat
        BY <2>2, <3>1, <4>1, StreamFacts, PacketFacts
      <4>3. QED
        BY <2>1, <3>1, <4>2 DEF CountExact
    <3>3. CASE head > next
      <4>1. End(p) <= Total /\ Total \in Nat
        BY <2>2, StreamFacts
      <4>2. Start(head) = Total
        BY <3>3 DEF Start
      <4>3. QED
        BY <2>1, <3>1, <4>1, <4>2 DEF CountExact
    <3>4. QED
      BY <2>1, <3>2, <3>3
  <2>3. ASSUME NEW p \in Accepted, pc = "idle", acked >= End(p) PROVE p <= Len(sentcb)
    <3>1. p \in Nat /\ p <= next /\ End(p) \in Nat /\ base[p] <= End(p) /\ base[p] \in Nat
      BY PacketFacts
    <3>2. CASE p >= head
      <4>1. head \in Accepted /\ head <= next
        BY <2>1, <3>1, <3>2 DEF Accepted
      <4>2. acked < End(head) /\ End(head) \in Nat
        BY <2>3, <4>1, PacketFacts DEF CountExact, Acking
      <4>3. p # head => End(head) <= base[p]
        BY <2>1, <3>1, <3>2, <4>1, StreamFacts
      <4>4. QED
        BY <2>1, <2>3, <3>1, <4>2, <4>3
    <3>3. QED
      BY <2>1, <3>1, <3>2
  <2>4. QED
    BY <2>2, <2>3 DEF ReportedWhenAcked, QueueExact, End
<1>2. QED
  BY <1>1, SpecIInv, PTL

\* The packet accepted last is written last: while any waits, it does.
LEMMA LastWaits ==
  ASSUME IInv
  PROVE  Temporary <=> FlagExact
<1>1. ASSUME NEW p \in Accepted, buf[p].unsent > 0
      PROVE  next > 0 /\ buf[next].unsent > 0
  <2>1. next \in Accepted /\ p <= next /\ next > 0
    BY PacketFacts, QueueFacts DEF IInv, Accepted
  <2>2. CASE p = next
    BY <1>1, <2>1, <2>2
  <2>3. CASE p < next
    <3>1. /\ base[p] \in Nat /\ buf[p].len \in Nat /\ End(p) = base[p] + buf[p].len
          /\ base[next] \in Nat /\ buf[next].len \in Nat \ {0} /\ wrote \in Nat
      BY <2>1, PacketFacts DEF IInv, TypeOK
    <3>2. End(p) <= base[next]
      BY <2>1, <2>3 DEF IInv, LaidOut
    <3>3. /\ buf[p].unsent = buf[p].len - Clamp(wrote - base[p], buf[p].len)
          /\ buf[next].unsent = buf[next].len - Clamp(wrote - base[next], buf[next].len)
      BY <2>1 DEF IInv, StreamInOrder
    <3>4. Clamp(wrote - base[p], buf[p].len) # buf[p].len
      BY <1>1, <3>1, <3>3
    <3>5. wrote - base[p] < buf[p].len
      BY <3>1, <3>4 DEF Clamp
    <3>6. wrote - base[next] <= 0
      BY <3>1, <3>2, <3>5
    <3>7. Clamp(wrote - base[next], buf[next].len) = 0
      BY <3>1, <3>6 DEF Clamp
    <3>8. QED
      BY <2>1, <3>1, <3>3, <3>7
  <2>4. p \in Nat /\ next \in Nat
    BY <2>1, PacketFacts DEF IInv
  <2>5. QED
    BY <2>1, <2>2, <2>3, <2>4
<1>2. next > 0 => next \in Accepted
  BY QueueFacts DEF IInv, Accepted
<1>3. QED
  BY <1>1, <1>2 DEF Temporary, FlagExact

\* A packet that took write_flag down keeps it down only until it is written,
\* unless the application clears ESPCONN_COPY meanwhile.
LEMMA NextFlagExact ==
  ASSUME IInv, FlagExact, [Next]_vars, ~(~write_flag /\ espconn_clear_opt("COPY"))
  PROVE  FlagExact'
<1> SUFFICES ASSUME ~write_flag' PROVE Copies' /\ next' > 0 /\ buf'[next'].unsent > 0
  BY DEF FlagExact
<1>0. buf \in [Packets -> BufType] /\ next \in Nat
  BY QueueFacts DEF IInv, TypeOK
<1>1. ASSUME NEW l \in Lengths, espconn_sent(l)
      PROVE  Copies' /\ next' > 0 /\ buf'[next'].unsent > 0
  <2> DEFINE b == [len |-> l, off |-> 0, unsent |-> l, tot |-> 0]
  <2>1. /\ next + 1 \in Packets /\ next' = next + 1 /\ write_flag' = ~Copies /\ opt' = opt
        /\ buf' = [buf EXCEPT ![next + 1] = b]
    BY <1>1 DEF espconn_sent, opts
  <2>2. b.unsent = l /\ l \in Nat \ {0}
    BY LengthsAssumption
  <2> HIDE DEF b
  <2>3. Copies'
    BY <2>1 DEF Copies
  <2>4. buf'[next'] = b
    BY <1>0, <2>1
  <2>5. QED
    BY <1>0, <2>1, <2>2, <2>3, <2>4
<1>2. ASSUME NEW o \in Options, espconn_set_opt(o) \/ espconn_clear_opt(o)
      PROVE  Copies' /\ next' > 0 /\ buf'[next'].unsent > 0
  <2>1. ~write_flag /\ UNCHANGED <<buf, write_flag, next>>
    BY <1>2 DEF espconn_set_opt, espconn_clear_opt, lists, app
  <2>2. "COPY" \in opt'
    <3>1. "COPY" \in opt
      BY <2>1 DEF FlagExact, Copies
    <3>2. CASE espconn_set_opt(o)
      BY <3>1, <3>2 DEF espconn_set_opt
    <3>3. CASE espconn_clear_opt(o)
      <4>1. o # "COPY"
        BY <2>1, <3>3
      <4>2. QED
        BY <3>1, <3>3, <4>1 DEF espconn_clear_opt
    <3>4. QED
      BY <1>2, <3>2, <3>3
  <2>3. QED
    BY <2>1, <2>2 DEF FlagExact, Copies
<1>3. ASSUME UNCHANGED <<write_flag, opt, next>>, UNCHANGED buf
      PROVE  Copies' /\ next' > 0 /\ buf'[next'].unsent > 0
  BY <1>3 DEF FlagExact, Copies
<1>4. ASSUME NEW n, WriteSend(n)
      PROVE  Copies' /\ next' > 0 /\ buf'[next'].unsent > 0
  <2>1. /\ ptail # NULL /\ tcp_sndbuf # 0 /\ n \in Attempts(FirstTry(buf[ptail].unsent))
        /\ buf' = [buf EXCEPT ![ptail] = Sent(buf[ptail], n)]
        /\ UNCHANGED <<opt, next>>
    BY <1>4 DEF WriteSend, opts, app
  <2>2. ~write_flag /\ ~WriteFinished(n)
    BY <1>4, Zenon DEF WriteSend
  <2>3. Copies /\ next > 0 /\ buf[next].unsent > 0
    BY <2>2 DEF FlagExact
  <2>4. n # buf[ptail].unsent
    BY <2>2, <2>3 DEF WriteFinished
  <2>5. n \in Nat \ {0} /\ n <= buf[ptail].unsent
    BY <2>1, AttemptsFit
  <2>6. ptail \in Packets /\ buf[ptail] \in BufType
    BY <1>0, <2>1, TailFacts
  <2>7. Sent(buf[ptail], n).unsent = buf[ptail].unsent - n /\ buf[ptail].unsent \in Nat
    BY <2>5, <2>6 DEF Sent, BufType
  <2>8. next \in Packets
    BY <1>0, <2>3, LwipAssumption DEF IInv, TypeOK, Packets
  <2>9. buf'[next].unsent > 0
    <3>1. CASE ptail = next
      <4>1. buf'[next] = Sent(buf[ptail], n)
        BY <1>0, <2>1, <2>6, <3>1
      <4>2. QED
        BY <2>4, <2>5, <2>7, <4>1
    <3>2. CASE ptail # next
      BY <1>0, <2>1, <2>3, <2>8, <3>2
    <3>3. QED
      BY <3>1, <3>2
  <2>10. QED
    BY <2>1, <2>3, <2>9 DEF Copies
<1>5. ASSUME UNCHANGED <<write_flag, opt, next>>, NEW x, NEW y, buf' = [buf EXCEPT ![x].tot = y]
      PROVE  Copies' /\ next' > 0 /\ buf'[next'].unsent > 0
  <2>1. Copies /\ next > 0 /\ buf[next].unsent > 0
    BY <1>5 DEF FlagExact
  <2>2. next \in Packets
    BY <1>0, <2>1, LwipAssumption DEF IInv, TypeOK, Packets
  <2>3. buf[next] \in BufType
    BY <1>0, <2>2
  <2>4. buf'[next].unsent = buf[next].unsent
    <3>1. buf' = [buf EXCEPT ![x] = [buf[x] EXCEPT !.tot = y]]
      BY <1>5
    <3>2. CASE x = next
      <4>1. buf'[next] = [buf[next] EXCEPT !.tot = y]
        BY <1>0, <2>2, <3>1, <3>2
      <4>2. QED
        BY <2>3, <4>1 DEF BufType
    <3>3. CASE x # next
      BY <1>0, <2>2, <3>1, <3>3
    <3>4. QED
      BY <3>2, <3>3
  <2>5. QED
    BY <1>5, <2>1, <2>4 DEF Copies
<1>6. CASE \E n \in 1 .. TCP_SND_QUEUELEN : espconn_tcp_set_buf_count(n)
  BY <1>3, <1>6 DEF espconn_tcp_set_buf_count, lists, app
<1>7. CASE WriteDone \/ WriteFails \/ WriteAdvance
  BY <1>3, <1>7 DEF WriteDone, WriteFails, WriteAdvance, lists, app, opts
<1>8. CASE FinishDone \/ CallbackReturns
  BY <1>3, <1>8 DEF FinishDone, CallbackReturns, lists, app, opts
<1>9. CASE espconn_Task \/ UNCHANGED vars
  BY <1>3, <1>9 DEF espconn_Task, vars, lists, app, opts
<1>10. CASE Ack
  <2>1. PICK n \in 1 .. InFlight : espconn_client_sent(n)
    BY <1>10 DEF Ack
  <2>2. UNCHANGED <<write_flag, opt, next>> /\ \E x, y : buf' = [buf EXCEPT ![x].tot = y]
    BY <2>1 DEF espconn_client_sent, app, opts
  <2>3. QED
    BY <1>5, <2>2
<1>11. CASE FinishLoop
  <2>1. UNCHANGED <<write_flag, opt, next>> /\ \E x, y : buf' = [buf EXCEPT ![x].tot = y]
    BY <1>11 DEF FinishLoop, app, opts
  <2>2. QED
    BY <1>5, <2>1
<1>12. QED
  BY <1>1, <1>2, <1>4, <1>6, <1>7, <1>8, <1>9, <1>10, <1>11 DEF Next, WriteLoop, Finish

\* While write_flag refuses the application, a packet that is copied still has
\* bytes to write, and the flag goes up again when they are written: no step of
\* lwIP, of the task or of the application makes it otherwise, but one, the
\* application that clears ESPCONN_COPY while it is refused.
THEOREM RefusalIsTemporaryHolds == Spec => RefusalIsTemporary
<1>1. Spec => []IInv
  BY SpecIInv
<1>2. IInv /\ IInv' /\ [Next]_vars
        => [Temporary /\ ~Temporary' => ~write_flag /\ espconn_clear_opt("COPY")]_vars
  <2> SUFFICES ASSUME IInv, IInv', [Next]_vars, Temporary, ~Temporary',
                      ~(~write_flag /\ espconn_clear_opt("COPY"))
               PROVE  FALSE
    OBVIOUS
  <2>1. FlagExact
    BY LastWaits
  <2>2. FlagExact'
    BY <2>1, NextFlagExact
  <2>3. next' > 0 => next' \in Accepted'
    <3>1. next' \in Nat
      BY LwipAssumption DEF IInv, TypeOK
    <3>2. QED
      BY <3>1 DEF Accepted
  <2>4. QED
    BY <2>2, <2>3 DEF FlagExact, Temporary
<1>3. QED
  BY <1>1, <1>2, PTL DEF Spec, RefusalIsTemporary
=============================================================================
