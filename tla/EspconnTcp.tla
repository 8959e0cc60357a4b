----------------------------- MODULE EspconnTcp -----------------------------
(***************************************************************************)
(* The life of connections in espconn (glue-lwip/espconn.c,                *)
(* espconn_tcp.c, and the creation and deletion of UDP entries of          *)
(* espconn_udp.c).                                                         *)
(*                                                                         *)
(* A connection is an espconn_msg on the list plink_active and a protocol  *)
(* control block (pcb) of lwIP whose argument points back to it.  lwIP     *)
(* calls the functions registered in the pcb; they, and the application,   *)
(* end a connection by posting a message with the address of the           *)
(* espconn_msg, and espconn_Task later reports the end to the application  *)
(* and frees it.  Both kinds of blocks are reused, so an address alone     *)
(* does not tell which connection is meant.  One server listens; calls     *)
(* that an application makes in a callback are modelled as made after it.  *)
(***************************************************************************)
EXTENDS Integers, Sequences, FiniteSets

CONSTANTS
    Nodes,           \* blocks of memory for espconn_msg
    Pcbs,            \* control blocks of lwIP
    Clients,         \* espconn structures of the application, one port each
    MEMP_NUM_TCP_PCB,
    TaskQueueLen,    \* espconn_TaskQueueLen
    Timeouts,        \* values given to espconn_regist_time
    Limits,          \* values given to espconn_tcp_set_max_con_allow
    DefaultTimeout,  \* the time limit a server starts with
    OptionSets,      \* sets of options that applications give a connection
    CloseMayFail,    \* tcp_close returns an error at times
    Redisconnect,    \* the application ends a connection in state ESPCONN_CLOSE
    EndConnecting,   \* the application ends a client that is not connected yet
    NULL

ASSUME PcbAssumption ==
    /\ IsFiniteSet(Nodes) /\ IsFiniteSet(Pcbs)
    /\ MEMP_NUM_TCP_PCB = Cardinality(Pcbs)
    /\ NULL # "listen" /\ {NULL, "listen"} \intersect (Nodes \union Pcbs \union Clients) = {}
\* The queue has room for the end of every connection (see EspconnSend for
\* the messages that a write posts).
ASSUME TaskAssumption == TaskQueueLen \in Nat /\ TaskQueueLen >= Cardinality(Nodes)
ASSUME EnvAssumption ==
    /\ Timeouts \subseteq Nat /\ DefaultTimeout \in Nat
    /\ Limits \subseteq 0 .. MEMP_NUM_TCP_PCB
    /\ OptionSets \subseteq SUBSET {"MANUALRECV", "REUSEADDR"}
    /\ {CloseMayFail, Redisconnect, EndConnecting} \subseteq BOOLEAN

VARIABLES
    msg,       \* espconn_msg: what it is for, the state of its espconn, its pcb, ...
    active,    \* plink_active
    pcb,       \* lwIP: state, argument, registered functions, local port of each
               \* pcb, and the node with the same addresses
    posts,     \* the task queue
    listening, \* the server is on pserver_list
    count_opt, \* its limit of connections
    timeout    \* its time limit

server == <<listening, count_opt, timeout>>
vars == <<msg, active, pcb, posts, server>>

NoMsg == [kind |-> "free", state |-> "NONE", pcb |-> NULL, espconn |-> NULL,
          local_ip |-> FALSE, opt |-> {}, recv_check |-> 0]
NoPcb == [state |-> "FREE", arg |-> NULL, tuple |-> NULL, port |-> NULL,
          recv |-> FALSE, err |-> FALSE, poll |-> FALSE]

Init ==
    /\ msg = [n \in Nodes |-> NoMsg]
    /\ active = <<>>
    /\ pcb = [p \in Pcbs |-> NoPcb]
    /\ posts = <<>>
    /\ listening = FALSE /\ count_opt = MEMP_NUM_TCP_PCB /\ timeout = 0

-----------------------------------------------------------------------------
(* Lists, messages and lwIP. *)

OnList(n) == \E i \in 1 .. Len(active) : active[i] = n
Of(kinds) == {n \in Nodes : OnList(n) /\ msg[n].kind \in kinds}

\* espconn_get_connection_info: the connections of the server, ended ones
\* included until espconn_Task has handled them.
link_cnt == Cardinality(Of({"server"}))

espconn_list_creat(l, n) == Append(l, n)

\* espconn_list_delete: the node, which is on the list, is unlinked.
espconn_list_delete(l, n) ==
    LET at == CHOOSE i \in 1 .. Len(l) : l[i] = n
    IN  [i \in 1 .. Len(l) - 1 |-> IF i < at THEN l[i] ELSE l[i + 1]]

\* ets_post: a message that finds the queue full is lost.
ets_post(sig, n) ==
    IF Len(posts) < TaskQueueLen THEN Append(posts, [sig |-> sig, par |-> n]) ELSE posts

\* The pcbs that tcp_new may hand out: free ones, or, without any, one that
\* only waits for the end of its connection (external).
Available ==
    LET free == {p \in Pcbs : pcb[p].state = "FREE"}
    IN  IF free # {} THEN free ELSE {p \in Pcbs : pcb[p].state \in {"TIME_WAIT", "LAST_ACK"}}

Silent(q) == [q EXCEPT !.recv = FALSE, !.err = FALSE, !.poll = FALSE]

\* lwIP's tcp_close: the pcb afterwards, and whether it succeeded.  With data
\* that was not read, and before the connection is up, the pcb is freed
\* (external).
tcp_close(q) ==
    {[ok |-> TRUE, pcb |-> r] :
        r \in CASE q.state = "ESTABLISHED" -> {[Silent(q) EXCEPT !.state = "FIN_WAIT"], NoPcb}
                [] q.state = "CLOSE_WAIT" -> {[Silent(q) EXCEPT !.state = "LAST_ACK"], NoPcb}
                [] q.state \in {"SYN_SENT", "CLOSED"} -> {NoPcb}
                [] OTHER -> {Silent(q)}}
    \union
    {[ok |-> FALSE, pcb |-> [q EXCEPT !.recv = TRUE]] :
        x \in {y \in {CloseMayFail} : y /\ q.state \in {"ESTABLISHED", "CLOSE_WAIT"}}}

\* A node after the attempt to close its connection.
Stopped(m, closed, check) ==
    [m EXCEPT !.state = IF closed THEN "CLOSE" ELSE @, !.recv_check = check]

\* Mutant: the functions stay registered in a pcb that is closing.
Ended_loud(n, out, check) ==
    /\ pcb' = [pcb EXCEPT ![msg[n].pcb] =
                 IF out.ok /\ out.pcb # NoPcb THEN [out.pcb EXCEPT !.err = TRUE] ELSE out.pcb]
    /\ msg' = [msg EXCEPT ![n] = Stopped(@, out.ok, check)]
    /\ posts' = IF out.ok THEN ets_post("CLOSE", n) ELSE posts

\* What espconn_client_close and espconn_server_close do with the result:
\* closing failed, try again later; or take the functions out of the pcb and
\* leave the rest to the task.
Ended(n, out, check) ==
    /\ pcb' = [pcb EXCEPT ![msg[n].pcb] = out.pcb]
    /\ msg' = [msg EXCEPT ![n] = Stopped(@, out.ok, check)]
    /\ posts' = IF out.ok THEN ets_post("CLOSE", n) ELSE posts

\* espconn_client_close, espconn_server_close with type 0, after the caller
\* has set recv_check, and with type 1.
espconn_close(n, check) ==
    \E out \in tcp_close(pcb[msg[n].pcb]) : Ended(n, out, check)
espconn_close_abort(n) == Ended(n, [ok |-> TRUE, pcb |-> NoPcb], msg[n].recv_check)

-----------------------------------------------------------------------------
(* The application. *)

\* espconn_connect: the limit of active connections, one connection for a port.
MayConnect(c) ==
    /\ Cardinality(Of({"client", "server"})) < MEMP_NUM_TCP_PCB
    /\ \A m \in Of({"client"}) : msg[m].espconn # c

\* espconn_kill_pcb: every pcb of the port is freed.
espconn_kill_pcb(port) == [p \in Pcbs |-> IF pcb[p].port = port THEN NoPcb ELSE pcb[p]]

\* espconn_connect, espconn_tcp_client.  tcp_connect may fail for want of
\* memory: then the node stays, with a pcb that does nothing.
espconn_connect(c, n, p) ==
    /\ MayConnect(c)
    /\ msg[n].kind = "free" /\ p \in Available
    /\ \E s \in {"SYN_SENT", "CLOSED"}, opt \in OptionSets :
          /\ msg' = [msg EXCEPT ![n] = [NoMsg EXCEPT !.kind = "client", !.state = "WAIT",
                                            !.pcb = p, !.espconn = c, !.opt = opt]]
          /\ pcb' = [pcb EXCEPT ![p] = [NoPcb EXCEPT !.state = s, !.arg = n, !.tuple = n,
                                            !.port = c, !.err = TRUE]]
    /\ active' = espconn_list_creat(active, n)
    /\ UNCHANGED <<posts, server>>

\* Without a route to the remote host the node is taken back, and all pcbs of
\* the port with it.
espconn_connect_noroute(c) ==
    /\ MayConnect(c)
    /\ pcb' = espconn_kill_pcb(c)
    /\ UNCHANGED <<msg, active, posts, server>>

\* espconn_accept, espconn_tcp_server.  Environment: there is one server, which
\* is not started again (the code does not look for another one).
espconn_accept ==
    /\ ~listening
    /\ Of({"server"}) = {}
    /\ listening' = TRUE
    /\ count_opt' = MEMP_NUM_TCP_PCB
    /\ timeout' = DefaultTimeout
    /\ UNCHANGED <<msg, active, pcb, posts>>

\* espconn_tcp_delete, once all connections have been disconnected.
espconn_tcp_delete ==
    /\ listening
    /\ link_cnt = 0
    /\ listening' = FALSE
    /\ pcb' = espconn_kill_pcb("listen")
    /\ count_opt' = MEMP_NUM_TCP_PCB /\ timeout' = 0
    /\ UNCHANGED <<msg, active, posts>>

espconn_tcp_set_max_con_allow(num) ==
    /\ listening
    /\ count_opt' = num
    /\ UNCHANGED <<msg, active, pcb, posts, listening, timeout>>

\* espconn_regist_time for all connections of the server.
espconn_regist_time(t) ==
    /\ listening
    /\ timeout' = t
    /\ UNCHANGED <<msg, active, pcb, posts, listening, count_opt>>

MayEnd(n) ==
    /\ n \in Of({"client", "server"})
    /\ Redisconnect \/ msg[n].state # "CLOSE"
    /\ EndConnecting \/ msg[n].kind = "server" \/ msg[n].local_ip

\* The protection for redisconnection of espconn_disconnect: clients only.
Protected(n) == msg[n].kind = "client" /\ msg[n].state = "CLOSE"

espconn_disconnect(n) ==
    /\ MayEnd(n)
    /\ ~Protected(n)
    /\ espconn_close(n, msg[n].recv_check)
    /\ UNCHANGED <<active, server>>

espconn_abort(n) ==
    /\ MayEnd(n)
    /\ msg[n].state # "CLOSE"
    /\ espconn_close_abort(n)
    /\ UNCHANGED <<active, server>>

\* espconn_sent, whatever it returns, sets the state; the acknowledgement
\* (espconn_tcp_finish) sets it back.  Environment: not once the connection
\* has ended, when its pcb may be gone; espconn_sent has no test for that.
espconn_sent(n) ==
    /\ n \in Of({"client", "server"})
    /\ msg[n].state # "CLOSE"
    /\ msg' = [msg EXCEPT ![n].state = "WRITE"]
    /\ UNCHANGED <<active, pcb, posts, server>>

\* espconn_create and espconn_delete of a UDP entry: the node is freed at once.
espconn_create(n) ==
    /\ Of({"udp"}) = {}
    /\ msg[n].kind = "free"
    /\ msg' = [msg EXCEPT ![n] = [NoMsg EXCEPT !.kind = "udp"]]
    /\ active' = espconn_list_creat(active, n)
    /\ UNCHANGED <<pcb, posts, server>>

espconn_udp_disconnect(n) ==
    /\ n \in Of({"udp"})
    /\ msg' = [msg EXCEPT ![n] = NoMsg]
    /\ active' = espconn_list_delete(active, n)
    /\ UNCHANGED <<pcb, posts, server>>

-----------------------------------------------------------------------------
(* lwIP calls the functions registered in a pcb. *)

\* espconn_client_connect
espconn_client_connect(p) ==
    LET n == pcb[p].arg
    IN  /\ pcb[p].state = "SYN_SENT" /\ n # NULL
        /\ msg' = [msg EXCEPT ![n].state = "CONNECT", ![n].local_ip = TRUE]
        /\ pcb' = [pcb EXCEPT ![p].state = "ESTABLISHED", ![p].recv = TRUE]
        /\ UNCHANGED <<active, posts, server>>

\* Mutant: the limit is compared with the connections that are not ended.
Full_open == Cardinality({n \in Of({"server"}) : msg[n].state # "CLOSE"}) = count_opt

\* The test of espconn_tcp_accept for the limit of the server.
Full == link_cnt = count_opt

\* espconn_tcp_accept: beyond the limit, or without memory, lwIP aborts the
\* pcb, whose argument is still NULL.
espconn_tcp_accept(n, p) ==
    /\ listening /\ ~Full
    /\ msg[n].kind = "free" /\ p \in Available
    /\ \E opt \in OptionSets :
          msg' = [msg EXCEPT ![n] = [NoMsg EXCEPT !.kind = "server", !.state = "CONNECT",
                                         !.pcb = p, !.local_ip = TRUE, !.opt = opt]]
    /\ pcb' = [pcb EXCEPT ![p] = [state |-> "ESTABLISHED", arg |-> n, tuple |-> n,
                                  port |-> "listen", recv |-> TRUE, err |-> TRUE, poll |-> TRUE]]
    /\ active' = espconn_list_creat(active, n)
    /\ UNCHANGED <<posts, server>>

\* The remote host closes: the receive function is called without data and
\* closes the connection.  espconn_tcp_recv does so only with memory for a
\* ring buffer.
RemoteFin(p) ==
    LET n == pcb[p].arg
    IN  /\ pcb[p].state = "ESTABLISHED"
        /\ pcb[p].recv /\ n # NULL
        /\ \/ \E out \in tcp_close([pcb[p] EXCEPT !.state = "CLOSE_WAIT"]) :
                 Ended(n, out, IF "MANUALRECV" \in msg[n].opt THEN 0 ELSE msg[n].recv_check)
           \/ /\ "MANUALRECV" \in msg[n].opt
              /\ pcb' = [pcb EXCEPT ![p].state = "CLOSE_WAIT"]
              /\ UNCHANGED <<msg, posts>>
        /\ UNCHANGED <<active, server>>

\* Data or an acknowledgement arrives (espconn_server_recv, espconn_server_sent).
Traffic(n) ==
    /\ n \in Of({"server", "client"})
    /\ msg[n].state = "WRITE" \/ msg[n].recv_check > 0
    /\ pcb[msg[n].pcb].recv /\ pcb[msg[n].pcb].arg = n
    /\ msg' = [msg EXCEPT ![n].state = "CONNECT", ![n].recv_check = 0]
    /\ UNCHANGED <<active, pcb, posts, server>>

\* espconn_client_err and esponn_server_err: lwIP has freed the pcb.
ConnectionError(p) ==
    LET n == pcb[p].arg
    IN  /\ pcb[p].state \notin {"FREE", "CLOSED", "TIME_WAIT"}
        /\ pcb' = [pcb EXCEPT ![p] = NoPcb]
        /\ IF pcb[p].err /\ n # NULL
           THEN /\ msg' = [msg EXCEPT ![n].state = "CLOSE"]
                /\ posts' = ets_post("ERRER", n)
           ELSE UNCHANGED <<msg, posts>>
        /\ UNCHANGED <<active, server>>

\* Mutant: only connections that are up are looked at.
PollCloses_up(q, check) == q.state = "ESTABLISHED" /\ timeout # 0 /\ check >= timeout

\* When espconn_server_poll closes.
PollCloses(q, check) ==
    \/ q.state # "ESTABLISHED"
    \/ timeout # 0 /\ check >= timeout

\* espconn_server_poll: called about once a second.  The count of a
\* connection that is up starts again before it is closed.
espconn_server_poll(p) ==
    LET n     == pcb[p].arg
        check == msg[n].recv_check + 1
    IN  /\ pcb[p].poll /\ pcb[p].state # "FREE" /\ n # NULL
        /\ IF PollCloses(pcb[p], check)
           THEN espconn_close(n, IF pcb[p].state = "ESTABLISHED" THEN 0 ELSE msg[n].recv_check)
           ELSE /\ msg' = [msg EXCEPT ![n].recv_check = IF timeout = 0 THEN 0 ELSE check]
                /\ UNCHANGED <<pcb, posts>>
        /\ UNCHANGED <<active, server>>

\* lwIP: a connection that was closed on this side comes to its end (external).
lwip_closing(p) ==
    /\ \/ pcb[p].state = "FIN_WAIT" /\ pcb' = [pcb EXCEPT ![p].state = "TIME_WAIT"]
       \/ pcb[p].state \in {"TIME_WAIT", "LAST_ACK"} /\ pcb' = [pcb EXCEPT ![p] = NoPcb]
    /\ UNCHANGED <<msg, active, posts, server>>

-----------------------------------------------------------------------------
(* espconn_Task. *)

InStates(q, states) == {p \in Pcbs : q[p].state \in states}

\* espconn_kill_oldest_pcb: when all pcbs only wait for their end, the oldest
\* one of each kind is freed.
Killed ==
    IF \/ InStates(pcb, {"FIN_WAIT", "LAST_ACK"}) = Pcbs
       \/ InStates(pcb, {"TIME_WAIT"}) = Pcbs
    THEN {V \in SUBSET Pcbs :
            \A s \in {"FIN_WAIT", "LAST_ACK", "TIME_WAIT"} :
               LET W == InStates(pcb, {s})
               IN  Cardinality(V \intersect W) = IF W = {} THEN 0 ELSE 1}
    ELSE {{}}

\* Mutant: the pcb noted in the node is always taken.
espconn_find_current_pcb_noted(n, q) == {msg[n].pcb}

\* espconn_find_current_pcb: by the addresses of the connection; a client
\* that never was connected has none, and its pcb is the one noted in the node.
\* Environment: no two connections have the same addresses, so no peer connects
\* again from the address and port of a connection that espconn_Task has not freed.
espconn_find_current_pcb(n, q) ==
    IF msg[n].kind = "client" /\ ~msg[n].local_ip THEN {msg[n].pcb}
    ELSE {p \in Pcbs : q[p].tuple = n /\ q[p].state # "FREE"}

\* espconn_tcp_disconnect_successful takes the pcb away from the node, or
\* frees the pcbs of its port that are in TIME_WAIT; espconn_tcp_reconnect
\* has no pcb any more.  No pcb has the addresses of a node that is freed.
Detached(n, sig, q) ==
    LET found == IF sig = "CLOSE" THEN espconn_find_current_pcb(n, q) ELSE {}
        reuse == "REUSEADDR" \in msg[n].opt
        After(p) ==
          CASE ~reuse /\ p \in found -> [q[p] EXCEPT !.arg = NULL, !.err = FALSE]
            [] reuse /\ q[p].state = "TIME_WAIT" /\ (\E f \in found : q[f].port = q[p].port) -> NoPcb
            [] OTHER -> q[p]
    IN  [p \in Pcbs |-> IF After(p).tuple = n THEN [After(p) EXCEPT !.tuple = NULL] ELSE After(p)]

\* With or without ESPCONN_MANUALRECV the node leaves the list, before or
\* after the application is told (espconn_Task, espconn_tcp_memp_free).
Unlisted(n) == espconn_list_delete(active, n)

\* A message for a node that is not on the list is dropped.
espconn_Task ==
    /\ posts # <<>>
    /\ posts' = Tail(posts)
    /\ LET n   == Head(posts).par
           sig == Head(posts).sig
       IN  IF OnList(n)
           THEN /\ \E V \in Killed :
                     pcb' = Detached(n, sig, [p \in Pcbs |-> IF p \in V THEN NoPcb ELSE pcb[p]])
                /\ msg' = [msg EXCEPT ![n] = NoMsg]
                /\ active' = Unlisted(n)
           ELSE UNCHANGED <<pcb, msg, active>>
    /\ UNCHANGED server

Application ==
    \/ \E c \in Clients, n \in Nodes, p \in Pcbs : espconn_connect(c, n, p)
    \/ \E c \in Clients : espconn_connect_noroute(c)
    \/ espconn_accept
    \/ espconn_tcp_delete
    \/ \E num \in Limits : espconn_tcp_set_max_con_allow(num)
    \/ \E t \in Timeouts : espconn_regist_time(t)
    \/ \E n \in Nodes : espconn_disconnect(n) \/ espconn_abort(n) \/ espconn_sent(n)
    \/ \E n \in Nodes : espconn_create(n) \/ espconn_udp_disconnect(n)

Lwip ==
    \/ \E p \in Pcbs : espconn_client_connect(p) \/ RemoteFin(p) \/ ConnectionError(p)
    \/ \E p \in Pcbs : espconn_server_poll(p) \/ lwip_closing(p)
    \/ \E n \in Nodes, p \in Pcbs : espconn_tcp_accept(n, p)
    \/ \E n \in Nodes : Traffic(n)

Next == Application \/ Lwip \/ espconn_Task

Spec == Init /\ [][Next]_vars

\* The task is served, lwIP polls, and tcp_close does not fail for ever.
FairSpec ==
    /\ Spec
    /\ WF_vars(espconn_Task)
    /\ \A p \in Pcbs : WF_vars(espconn_server_poll(p) /\ msg'[pcb[p].arg].state = "CLOSE")

-----------------------------------------------------------------------------
(* Properties. *)

EndsOf(n) == {i \in 1 .. Len(posts) : posts[i].par = n}

\* Every connection that ended has one message for the task, and no other node
\* has any: a second one would end the connection that gets the block next.
OneEndMessage ==
    \A n \in Nodes :
        Cardinality(EndsOf(n)) =
            IF n \in Of({"client", "server"}) /\ msg[n].state = "CLOSE" THEN 1 ELSE 0

\* A connection that has not ended keeps its pcb: the pcb is in use, points
\* back to the node and has the error function, so that lwIP can report an
\* end.  Neither the end of another connection nor the deletion of the server
\* takes the pcb away (espconn_find_current_pcb, espconn_kill_pcb).
LinkIntact ==
    \A n \in Of({"client", "server"}) : msg[n].state # "CLOSE" =>
        LET q == pcb[msg[n].pcb]
        IN  q.state \notin {"FREE", "TIME_WAIT", "LAST_ACK", "FIN_WAIT"} /\ q.arg = n /\ q.err

\* lwIP never calls a function with a node that was freed: a pcb with a
\* function registered points to a connection on the list whose pcb it is.
NoDanglingArg ==
    \A p \in Pcbs : (pcb[p].recv \/ pcb[p].err \/ pcb[p].poll) =>
        LET n == pcb[p].arg
        IN  n = NULL \/ (n \in Of({"client", "server"}) /\ msg[n].pcb = p)

\* The connections of the server stay within the number that
\* espconn_tcp_set_max_con_allow gave, also while ended ones wait for
\* espconn_Task: nothing takes the server beyond it but that function itself,
\* when it lowers the limit below what there is.
AcceptWithinLimit ==
    [][link_cnt <= count_opt /\ link_cnt' > count_opt' =>
         \E num \in Limits : num < link_cnt /\ espconn_tcp_set_max_con_allow(num)]_vars

\* A connection of the server whose remote host has closed is ended, also when
\* closing fails or is forgotten at first: espconn_server_poll tries again.
DeadPeerEnded ==
    \A n \in Nodes :
        (msg[n].kind = "server" /\ pcb[msg[n].pcb].state = "CLOSE_WAIT" /\ pcb[msg[n].pcb].arg = n)
            ~> (msg[n].kind = "free")
=============================================================================
