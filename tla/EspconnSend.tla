----------------------------- MODULE EspconnSend -----------------------------
(***************************************************************************)
(* The send queue of one TCP connection of espconn (espconn_sent in        *)
(* glue-lwip/espconn.c; espconn_tcp_write, espconn_tcp_sent,               *)
(* espconn_tcp_finish and the sent callbacks in glue-lwip/espconn_tcp.c).  *)
(*                                                                         *)
(* A packet given by the application stays on a list until every byte of   *)
(* it has been acknowledged; ptail points into that list, at the packet    *)
(* being handed to lwIP.  Acknowledgements arrive as byte counts and are   *)
(* shared out over the list.  sent_callback runs in the middle of that     *)
(* loop and may call espconn_sent.  The code is single threaded: pc says   *)
(* where the running call is, and lwIP and the task run when it is idle.   *)
(***************************************************************************)
EXTENDS Integers, Sequences, FiniteSets

CONSTANTS
    Lengths,           \* lengths of the packets the application sends
    MaxSends,          \* bound on the number of packets accepted
    TCP_SND_BUF,       \* bytes lwIP holds for a connection
    TCP_SND_QUEUELEN,  \* segments lwIP holds for a connection
    Mss2,              \* 2 * mss
    Word,              \* 2^16, the range of tot_len
    TaskQueueLen,      \* espconn_TaskQueueLen
    Options,           \* options the application sets and clears
    MemFailsIdle,      \* tcp_write fails although nothing is in flight
    NULL               \* no packet

Packets == 1 .. MaxSends

\* A longer packet could make tot_len wrap before it is compared with len.
ASSUME LengthsAssumption ==
    /\ Lengths \subseteq Nat \ {0}
    /\ \A l \in Lengths : l + TCP_SND_BUF < Word
ASSUME LwipAssumption ==
    /\ MaxSends \in Nat /\ TCP_SND_BUF \in Nat \ {0} /\ Mss2 \in Nat \ {0}
    /\ TCP_SND_QUEUELEN \in Nat \ {0} /\ Word \in Nat /\ TaskQueueLen \in Nat
ASSUME FlagsAssumption ==
    /\ Options \subseteq {"COPY", "NODELAY", "KEEPALIVE"}
    /\ MemFailsIdle \in BOOLEAN
    /\ NULL \notin Packets

VARIABLES
    buf,         \* struct espconn_buf: [len, off, unsent, tot]; punsent is payload + off
    pbuf,        \* pcommon.pbuf: the list of packets not acknowledged
    ptail,       \* pcommon.ptail
    write_flag,  \* pcommon.write_flag
    pbuf_num,    \* pcommon.pbuf_num
    opt,         \* pcommon.espconn_opt, and whether Nagle is off in the pcb
    nagle_off,
    segs,        \* lwIP: where in the stream the segments not acknowledged end
    posts,       \* SIG_ESPCONN_WRITE messages in the task queue
    pc, ret,     \* the running call, and where espconn_tcp_write returns to
    carry,       \* len of espconn_tcp_finish
    next,        \* ghost: number of packets accepted
    base,        \* ghost: position of each packet in the stream
    wrote, acked,\* ghost: bytes given to lwIP, bytes acknowledged
    sentcb       \* ghost: packets sent_callback was called for

lists == <<buf, pbuf, ptail>>
lwip == <<segs, wrote, acked>>
opts == <<pbuf_num, opt, nagle_off>>
app == <<next, base>>
vars == <<lists, write_flag, opts, lwip, posts, pc, ret, carry, app, sentcb>>

\* espconn_copy_disabled: the COPY bit is set, tcp_write copies the data.
Copies == "COPY" \in opt

InFlight == wrote - acked
tcp_sndbuf == TCP_SND_BUF - InFlight
snd_queuelen == Cardinality(segs)

NoBuf == [len |-> 0, off |-> 0, unsent |-> 0, tot |-> 0]

\* espconn_client_connect and espconn_tcp_accept: the connection starts with
\* one packet at most, and Nagle's algorithm off.
Init ==
    /\ buf = [p \in Packets |-> NoBuf]
    /\ pbuf = <<>>
    /\ ptail = NULL
    /\ write_flag = TRUE
    /\ pbuf_num = 1
    /\ opt = {}
    /\ nagle_off = TRUE
    /\ segs = {}
    /\ posts = 0
    /\ pc = "idle" /\ ret = "idle" /\ carry = 0
    /\ next = 0
    /\ base = [p \in Packets |-> 0]
    /\ wrote = 0 /\ acked = 0
    /\ sentcb = <<>>

-----------------------------------------------------------------------------
(* The application: calls are made when nothing runs, or in sent_callback. *)

MayCall == pc \in {"idle", "callback"}

\* Entry of espconn_tcp_write: the send buffer of the connection is limited.
EnterWrite(from) ==
    /\ ret' = from
    /\ pc' = IF nagle_off /\ snd_queuelen >= TCP_SND_QUEUELEN THEN from ELSE "write"

\* The limit on packets waiting; its two forms depend on the COPY option.
QueueFull ==
    IF Copies THEN snd_queuelen >= TCP_SND_QUEUELEN ELSE Len(pbuf) >= pbuf_num

\* espconn_sent: the refusals (ESPCONN_ARG while write_flag is down,
\* ESPCONN_MAXNUM, ESPCONN_MEM) change nothing.
espconn_sent(l) ==
    LET p == next + 1
    IN  /\ MayCall /\ write_flag /\ ~QueueFull /\ p \in Packets
        /\ buf' = [buf EXCEPT ![p] = [len |-> l, off |-> 0, unsent |-> l, tot |-> 0]]
        /\ pbuf' = Append(pbuf, p)
        /\ ptail' = IF ptail = NULL THEN p ELSE ptail
        /\ write_flag' = ~Copies
        /\ next' = p
        /\ base' = [base EXCEPT ![p] = IF next = 0 THEN 0 ELSE base[next] + buf[next].len]
        /\ EnterWrite(pc)
        /\ UNCHANGED <<opts, lwip, posts, carry, sentcb>>

\* NODELAY switches Nagle's algorithm off; clearing any option switches it on
\* unless NODELAY is set.
espconn_set_opt(o) ==
    /\ MayCall
    /\ opt' = opt \union {o}
    /\ nagle_off' = (nagle_off \/ "NODELAY" \in opt')
    /\ UNCHANGED <<lists, write_flag, pbuf_num, lwip, posts, pc, ret, carry, app, sentcb>>

espconn_clear_opt(o) ==
    /\ MayCall
    /\ opt' = opt \ {o}
    /\ nagle_off' = (nagle_off /\ "NODELAY" \in opt')
    /\ UNCHANGED <<lists, write_flag, pbuf_num, lwip, posts, pc, ret, carry, app, sentcb>>

espconn_tcp_set_buf_count(n) ==
    /\ MayCall
    /\ n <= TCP_SND_QUEUELEN
    /\ pbuf_num' = n
    /\ UNCHANGED <<lists, write_flag, opt, nagle_off, lwip, posts, pc, ret, carry, app, sentcb>>

-----------------------------------------------------------------------------
(* The loop of espconn_tcp_write, one iteration per step. *)

\* The list ends, or lwIP's buffer is full.
WriteDone ==
    /\ pc = "write"
    /\ tcp_sndbuf = 0 \/ ptail = NULL
    /\ pc' = ret
    /\ UNCHANGED <<lists, write_flag, opts, lwip, posts, ret, carry, app, sentcb>>

\* ptail->pnext
NextOf(p) ==
    LET after == {i \in 1 .. Len(pbuf) - 1 : pbuf[i] = p}
    IN  IF after = {} THEN NULL ELSE pbuf[(CHOOSE i \in after : TRUE) + 1]

WriteAdvance ==
    /\ pc = "write"
    /\ tcp_sndbuf # 0 /\ ptail # NULL
    /\ buf[ptail].unsent = 0
    /\ ptail' = NextOf(ptail)
    /\ UNCHANGED <<buf, pbuf, write_flag, opts, lwip, posts, pc, ret, carry, app, sentcb>>

\* espconn_tcp_sent: what it first tries to write, and the lengths it falls
\* back to while tcp_write says ERR_MEM: the half each time, down to one byte.
FirstTry(length) ==
    LET len == IF tcp_sndbuf < length THEN tcp_sndbuf ELSE length
    IN  IF len > Mss2 THEN Mss2 ELSE len

Attempts(len) == {n \in 1 .. len : \E halved \in 0 .. len : n = len \div 2^halved}

\* ets_post: a message that finds the queue full is lost.
ets_post == IF posts < TaskQueueLen THEN posts + 1 ELSE posts

\* Mutant: the unsent part starts where the packet starts.
Sent_rewinds(b, n) == [b EXCEPT !.unsent = @ - n]

\* The next write starts where this one ended.
Sent(b, n) == [b EXCEPT !.off = @ + n, !.unsent = @ - n]

\* Mutant: the packet is taken to be written only when it went in one piece.
WriteFinished_whole(n) == Copies /\ n = buf[ptail].len

\* espconn_tcp_sent has handed over the last byte of a packet that is copied.
WriteFinished(n) == Copies /\ n = buf[ptail].unsent

\* tcp_write takes n bytes; an error of tcp_output ends the loop.
WriteSend(n) ==
    /\ pc = "write"
    /\ tcp_sndbuf # 0 /\ ptail # NULL
    /\ n \in Attempts(FirstTry(buf[ptail].unsent))
    /\ snd_queuelen < TCP_SND_QUEUELEN
    /\ buf' = [buf EXCEPT ![ptail] = Sent(@, n)]
    /\ segs' = segs \union {wrote + n}
    /\ wrote' = wrote + n
    /\ IF WriteFinished(n)
       THEN write_flag' = TRUE /\ posts' = ets_post
       ELSE UNCHANGED <<write_flag, posts>>
    /\ pc' \in {"write", ret}
    /\ UNCHANGED <<pbuf, ptail, opts, acked, ret, carry, app, sentcb>>

\* No length can be written; what is left waits for the next acknowledgement.
WriteFails ==
    /\ pc = "write"
    /\ tcp_sndbuf # 0 /\ ptail # NULL
    /\ buf[ptail].unsent # 0
    /\ MemFailsIdle \/ segs # {}
    /\ pc' = ret
    /\ UNCHANGED <<lists, write_flag, opts, lwip, posts, ret, carry, app, sentcb>>

-----------------------------------------------------------------------------
(* Acknowledgements. *)

\* lwIP: the segments left when n more bytes are acknowledged (external).
Unacked(n) == {e \in segs : e > acked + n}

\* Mutant: acknowledged packets are released before the queue is written on.
espconn_client_sent_late(n) ==
    /\ pc = "idle" /\ n \in 1 .. InFlight
    /\ segs' = Unacked(n)
    /\ acked' = acked + n
    /\ buf' = [buf EXCEPT ![Head(pbuf)].tot = (@ + n) % Word]
    /\ carry' = 0
    /\ pc' = "finish" /\ ret' = "finish"
    /\ UNCHANGED <<pbuf, ptail, write_flag, opts, wrote, posts, app, sentcb>>

\* espconn_client_sent and espconn_server_sent, up to the loop of
\* espconn_tcp_finish: the head of the list gets the count, more is written.
espconn_client_sent(n) ==
    /\ pc = "idle" /\ n \in 1 .. InFlight
    /\ segs' = Unacked(n)
    /\ acked' = acked + n
    /\ buf' = [buf EXCEPT ![Head(pbuf)].tot = (@ + n) % Word]
    /\ carry' = 0
    /\ ret' = "finish"
    /\ pc' = IF nagle_off /\ Cardinality(segs') >= TCP_SND_QUEUELEN THEN "finish" ELSE "write"
    /\ UNCHANGED <<pbuf, ptail, write_flag, opts, wrote, posts, app, sentcb>>

FinishDone ==
    /\ pc = "finish" /\ pbuf = <<>>
    /\ pc' = "idle"
    /\ UNCHANGED <<lists, write_flag, opts, lwip, posts, ret, carry, app, sentcb>>

\* Mutant: the acknowledged bytes beyond the packet are lost.
Excess_lost(tot, len) == 0

\* What the packet does not need goes to the next one.
Excess(tot, len) == tot - len

\* Mutant: a packet is complete when it was written.
Complete_written(p, tot) == tot > 0 /\ buf[p].unsent = 0

\* All of the packet has been acknowledged.
Complete(p, tot) == tot >= buf[p].len

\* One iteration of espconn_tcp_finish: release the head, call the
\* application; or stop at a head that is not complete.
FinishLoop ==
    /\ pc = "finish" /\ pbuf # <<>>
    /\ LET p   == Head(pbuf)
           tot == (buf[p].tot + carry) % Word
       IN  /\ buf' = [buf EXCEPT ![p].tot = tot]
           /\ IF Complete(p, tot)
              THEN /\ pbuf' = Tail(pbuf)
                   /\ carry' = Excess(tot, buf[p].len)
                   /\ sentcb' = Append(sentcb, p)
                   /\ pc' = "callback"
              ELSE /\ pc' = "idle"
                   /\ UNCHANGED <<pbuf, carry, sentcb>>
    /\ UNCHANGED <<ptail, write_flag, opts, lwip, posts, ret, app>>

CallbackReturns ==
    /\ pc = "callback"
    /\ pc' = "finish"
    /\ UNCHANGED <<lists, write_flag, opts, lwip, posts, ret, carry, app, sentcb>>

\* espconn_Task, SIG_ESPCONN_WRITE: write_finish_fn is called.
espconn_Task ==
    /\ pc = "idle" /\ posts > 0
    /\ posts' = posts - 1
    /\ UNCHANGED <<lists, write_flag, opts, lwip, pc, ret, carry, app, sentcb>>

Ack == \E n \in 1 .. InFlight : espconn_client_sent(n)
WriteLoop ==
    \/ WriteDone \/ WriteAdvance \/ WriteFails
    \/ \E n \in 1 .. TCP_SND_BUF : WriteSend(n)
Finish == FinishDone \/ FinishLoop \/ CallbackReturns

Next ==
    \/ \E l \in Lengths : espconn_sent(l)
    \/ \E o \in Options : espconn_set_opt(o) \/ espconn_clear_opt(o)
    \/ \E n \in 1 .. TCP_SND_QUEUELEN : espconn_tcp_set_buf_count(n)
    \/ WriteLoop
    \/ Ack
    \/ Finish
    \/ espconn_Task

Spec == Init /\ [][Next]_vars

\* Calls run to their end, the remote host acknowledges what it gets, and the
\* task queue is served.
FairSpec == Spec /\ WF_vars(WriteLoop) /\ WF_vars(Finish) /\ WF_vars(Ack) /\ WF_vars(espconn_Task)

-----------------------------------------------------------------------------
(* Properties. *)

Accepted == 1 .. next
Clamp(n, len) == IF n < 0 THEN 0 ELSE IF n > len THEN len ELSE n

\* The bytes given to lwIP are the packets accepted, in order, none twice and
\* none left out: of each packet exactly the part that lies in the first
\* "wrote" bytes of the stream has been written, and the rest is still to be
\* written (punsent, unsent and the walk of ptail).
StreamInOrder ==
    \A p \in Accepted :
        /\ buf[p].off = Clamp(wrote - base[p], buf[p].len)
        /\ buf[p].unsent = buf[p].len - buf[p].off

\* ptail never points to a packet that espconn_tcp_finish has freed.
PtailValid ==
    ptail # NULL => \E i \in 1 .. Len(pbuf) : pbuf[i] = ptail

\* sent_callback is called in the order of the packets, once for each, when
\* all bytes of the packet have been acknowledged, and no later than the end
\* of the acknowledgement that completes it.
ReportedWhenAcked ==
    /\ \A i \in 1 .. Len(sentcb) : sentcb[i] = i
    /\ \A p \in Accepted :
          /\ p <= Len(sentcb) => acked >= base[p] + buf[p].len
          /\ (pc = "idle" /\ acked >= base[p] + buf[p].len) => p <= Len(sentcb)

\* A refusal that ends: write_flag is down for a packet that is not completely
\* written, and writing it will raise the flag.
Temporary ==
    ~write_flag => Copies /\ \E p \in Accepted : buf[p].unsent > 0

\* An application that is refused will be able to send again (espconn.c: "make
\* sure last packet has been backup or sent fully"): nothing makes a refusal
\* last but the application itself, when it clears ESPCONN_COPY while a packet
\* waits.
RefusalIsTemporary ==
    [][Temporary /\ ~Temporary' => ~write_flag /\ espconn_clear_opt("COPY")]_vars

\* Every packet accepted is reported as sent: a packet that waits always has
\* an acknowledgement to wait for, because nothing else makes the code write
\* again (espconn_tcp_write is called by espconn_sent and espconn_tcp_finish).
AcceptedIsReported ==
    \A p \in Packets : (p <= next) ~> (p <= Len(sentcb))
=============================================================================
