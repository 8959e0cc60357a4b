------------------------------- MODULE EspPing -------------------------------
(***************************************************************************)
(* The ping sender (glue-lwip/esp-ping.c).  A session is a heap block      *)
(* (pingmsg) that two kinds of lwIP timers and a raw control block point   *)
(* to.  Each round sends one echo request and arms both timers; the last   *)
(* round's coarse timer frees the block, without cancelling a pending      *)
(* ping_timeout, and relies on the order in which timers fire.             *)
(*                                                                         *)
(* Timers are the list of lwIP 2 (timeouts.c, external), in firing order,  *)
(* each with the time left; expired ones wait, in order, until the main    *)
(* loop polls the list.                                                    *)
(***************************************************************************)
EXTENDS Naturals, SequencesExt

CONSTANTS
    Pings,            \* ping sessions
    MaxSeq,           \* 0x7fff: where ping_seq_num goes back to 0
    Counts,           \* ping_option.count; 0 asks for the default
    Coarses,          \* ping_option.coarse_time; 0 asks for the default
    MAX_COUNT,        \* DEFAULT_PING_MAX_COUNT
    PING_COARSE,      \* milliseconds per unit of coarse_time
    PING_TIMEOUT_MS   \* how long an answer may take

\* PING_TIMEOUT_MS and PING_COARSE are both 1000 in ping.h; coarse_time is
\* small enough for coarse_time * PING_COARSE to fit in 32 bits.
ASSUME PingTimesAssumption ==
    /\ PING_COARSE \in Nat \ {0} /\ PING_TIMEOUT_MS \in Nat \ {0}
    /\ PING_TIMEOUT_MS <= PING_COARSE
ASSUME PingCountsAssumption ==
    /\ Counts \subseteq Nat /\ Coarses \subseteq Nat /\ MAX_COUNT \in Nat \ {0}
    /\ MaxSeq \in Nat /\ MaxSeq > 1

VARIABLES
    msg,           \* struct ping_msg of each session: [live, left, max, lost, coarse]
    queue,         \* pending lwIP timers: [h, s, left]
    ping_seq_num,  \* sequence number of the last request, of any session
    seqno,         \* the static seqno of ping_recv: last answer reported
    told           \* reports of this round (ghost): [ok, late]

vars == <<msg, queue, ping_seq_num, seqno, told>>

NoMsg == [live |-> FALSE, left |-> 0, max |-> 0, lost |-> 0, coarse |-> 0]
NothingTold == [ok |-> 0, late |-> 0]

\* A round of session s starts.
NewRound(s) == [told EXCEPT ![s] = NothingTold]

Init ==
    /\ msg = [s \in Pings |-> NoMsg]
    /\ queue = <<>>
    /\ ping_seq_num = 0
    /\ seqno = 0
    /\ told = [s \in Pings |-> NothingTold]

-----------------------------------------------------------------------------
(* lwIP 2 timers (external). *)

\* A timer is inserted before the first one that expires later.
sys_timeout(q, ms, h, s) ==
    LET k == SelectInSeq(q, LAMBDA e : e.left > ms)
        new == [h |-> h, s |-> s, left |-> ms]
    IN  IF k = 0 THEN Append(q, new) ELSE InsertAt(q, k, new)

\* The first timer with this handler and argument, if any, is removed.
sys_untimeout(q, h, s) ==
    LET k == SelectInSeq(q, LAMBDA e : e.h = h /\ e.s = s)
    IN  IF k = 0 THEN q ELSE RemoveAt(q, k)

\* Time passes, whether or not the main loop has polled the timers.
Elapse ==
    /\ \E i \in DOMAIN queue : queue[i].left > 0
    /\ queue' = [i \in DOMAIN queue |->
                    [queue[i] EXCEPT !.left = IF @ = 0 THEN 0 ELSE @ - 1]]
    /\ UNCHANGED <<msg, ping_seq_num, seqno, told>>

\* sys_check_timeouts takes the first timer off the list and calls it.
Fires(h, s) == queue # <<>> /\ Head(queue) = [h |-> h, s |-> s, left |-> 0]

-----------------------------------------------------------------------------

ping_prepare_echo(n) == IF n + 1 = MaxSeq THEN 0 ELSE n + 1

\* ping_send: without memory for the request the number is not even taken.
ping_send == ping_seq_num' \in {ping_prepare_echo(ping_seq_num), ping_seq_num}

CoarseTime(c) == IF c = 0 THEN PING_COARSE ELSE c * PING_COARSE

MaxCount(c) == IF c = 0 THEN MAX_COUNT ELSE c

\* The timers of a round, in the order they are armed.
Arm(q, s, coarse) ==
    sys_timeout(sys_timeout(q, PING_TIMEOUT_MS, "ping_timeout", s),
                coarse, "ping_coarse_tmr", s)

\* ping_start and ping_raw_init, with memory for the session and its
\* control block.
ping_start(s, count, coarse) ==
    LET ms == CoarseTime(coarse)
    IN  /\ ~msg[s].live
        /\ msg' = [msg EXCEPT ![s] = [live |-> TRUE, left |-> MaxCount(count),
                                      max |-> MaxCount(count), lost |-> 0,
                                      coarse |-> ms]]
        /\ ping_send
        /\ queue' = Arm(queue, s, ms)
        /\ told' = NewRound(s)
        /\ seqno' = seqno

\* Mutant: the timeout waits for the answer once more.
ping_timeout_rearms(s) ==
    /\ Fires("ping_timeout", s)
    /\ queue' = sys_timeout(Tail(queue), PING_TIMEOUT_MS, "ping_timeout", s)
    /\ msg' = [msg EXCEPT ![s].lost = @ + 1]
    /\ told' = [told EXCEPT ![s].late = @ + 1]
    /\ UNCHANGED <<ping_seq_num, seqno>>

\* No answer in time: counted, and reported with ping_err = -1.
ping_timeout(s) ==
    /\ Fires("ping_timeout", s)
    /\ queue' = Tail(queue)
    /\ msg' = [msg EXCEPT ![s].lost = @ + 1]
    /\ told' = [told EXCEPT ![s].late = @ + 1]
    /\ UNCHANGED <<ping_seq_num, seqno>>

\* Mutant: the timeout stays armed.
ping_recv_keeps_timer(s) ==
    /\ msg[s].live
    /\ seqno # ping_seq_num
    /\ told' = [told EXCEPT ![s].ok = @ + 1]
    /\ seqno' = ping_seq_num
    /\ UNCHANGED <<msg, ping_seq_num, queue>>

\* Mutant: the timeout is cancelled before the answer is known to be new.
ping_recv_cancels_first(s) ==
    /\ msg[s].live
    /\ queue' = sys_untimeout(queue, "ping_timeout", s)
    /\ told' = IF seqno # ping_seq_num THEN [told EXCEPT ![s].ok = @ + 1] ELSE told
    /\ seqno' = ping_seq_num
    /\ UNCHANGED <<msg, ping_seq_num>>

\* ping_recv, for an answer with the last sequence number sent: any session's
\* control block may see it first and eat it.  An answer is reported when the
\* last one reported had another number; other answers change nothing.
ping_recv(s) ==
    /\ msg[s].live
    /\ seqno # ping_seq_num
    /\ queue' = sys_untimeout(queue, "ping_timeout", s)
    /\ told' = [told EXCEPT ![s].ok = @ + 1]
    /\ seqno' = ping_seq_num
    /\ UNCHANGED <<msg, ping_seq_num>>

\* Mutant: sent_count is tested, not decremented.
ping_next_round_for_ever(s, q) ==
    /\ msg[s].left # 0
    /\ msg' = msg
    /\ ping_send
    /\ queue' = Arm(q, s, msg[s].coarse)
    /\ told' = NewRound(s)

\* ping_coarse_tmr, while requests remain to be sent.
ping_next_round(s, q) ==
    /\ msg[s].left - 1 # 0
    /\ msg' = [msg EXCEPT ![s].left = @ - 1]
    /\ ping_send
    /\ queue' = Arm(q, s, msg[s].coarse)
    /\ told' = NewRound(s)

\* ping_coarse_tmr after the last one: the control block and the session are
\* freed, then sent_function is called.
ping_end(s, q) ==
    /\ msg[s].left - 1 = 0
    /\ queue' = sys_untimeout(q, "ping_coarse_tmr", s)
    /\ msg' = [msg EXCEPT ![s] = NoMsg]
    /\ UNCHANGED <<ping_seq_num, told>>

ping_coarse_tmr(s) ==
    /\ Fires("ping_coarse_tmr", s)
    /\ ping_next_round(s, Tail(queue)) \/ ping_end(s, Tail(queue))
    /\ seqno' = seqno

Next ==
    \/ \E s \in Pings, n \in Counts, c \in Coarses : ping_start(s, n, c)
    \/ \E s \in Pings : ping_timeout(s)
    \/ \E s \in Pings : ping_recv(s)
    \/ \E s \in Pings : ping_coarse_tmr(s)
    \/ Elapse

Spec == Init /\ [][Next]_vars

\* Time passes and the main loop keeps polling lwIP's timers.
FairSpec ==
    /\ Spec
    /\ WF_vars(Elapse)
    /\ WF_vars(\E s \in Pings : ping_timeout(s) \/ ping_coarse_tmr(s))

-----------------------------------------------------------------------------
(* Properties. *)

\* Types; sequence numbers stay below MaxSeq.
TypeOK ==
    /\ msg \in [Pings -> [live : BOOLEAN, left : Nat, max : Nat, lost : Nat, coarse : Nat]]
    /\ queue \in Seq([h : {"ping_timeout", "ping_coarse_tmr"}, s : Pings, left : Nat])
    /\ ping_seq_num \in 0 .. MaxSeq - 1
    /\ seqno \in 0 .. MaxSeq - 1
    /\ told \in [Pings -> [ok : Nat, late : Nat]]

\* No timer points to a freed session.  ping_coarse_tmr frees pingmsg without
\* cancelling ping_timeout: this holds only because the timeout of a round
\* always fires, or is cancelled, before the coarse timer armed after it.
NoDanglingTimer == \A i \in DOMAIN queue : msg[queue[i].s].live

\* Each round is reported to the application before the next one starts or
\* the session ends, whatever is lost, repeated or late, and also when a
\* request could not be sent.
RoundReported ==
    [][\A s \in Pings : ping_coarse_tmr(s) => told[s].ok + told[s].late > 0]_vars

\* A round that was reported as answered is not reported as lost afterwards.
AnsweredNotLost ==
    [][\A s \in Pings : ping_timeout(s) => told[s].ok = 0]_vars

\* Every session ends, frees its memory and calls sent_function.
PingEnds == \A s \in Pings : msg[s].live ~> ~msg[s].live

-----------------------------------------------------------------------------
(* The inductive invariant. *)

\* A timer with this handler and session is pending.
Armed(h, s) == \E i \in DOMAIN queue : queue[i].h = h /\ queue[i].s = s

\* Timers fire in the order in which they expire.
InOrder == \A i, j \in DOMAIN queue : i < j => queue[i].left <= queue[j].left

\* No timer is armed twice.
ArmedOnce ==
    \A i, j \in DOMAIN queue : queue[i].h = queue[j].h /\ queue[i].s = queue[j].s => i = j

\* The timeout of a round fires before the coarse timer of that round.
TimeoutFirst ==
    \A i \in DOMAIN queue : queue[i].h = "ping_timeout" =>
        \E j \in DOMAIN queue :
            i < j /\ queue[j].h = "ping_coarse_tmr" /\ queue[j].s = queue[i].s

\* What a session keeps while it lives: requests left to send, rounds no
\* shorter than the time an answer may take, and either a report of the
\* running round or a timeout that will make it, never a report and both.
Running ==
    \A s \in Pings :
        /\ msg[s].live => /\ msg[s].left > 0 /\ msg[s].coarse >= PING_TIMEOUT_MS
                          /\ Armed("ping_timeout", s) \/ told[s].ok + told[s].late > 0
        /\ Armed("ping_timeout", s) => told[s] = NothingTold

IInv == TypeOK /\ InOrder /\ ArmedOnce /\ TimeoutFirst /\ Running /\ NoDanglingTimer
=============================================================================
