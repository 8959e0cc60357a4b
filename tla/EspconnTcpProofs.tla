-------------------------- MODULE EspconnTcpProofs --------------------------
(***************************************************************************)
(* Proofs about EspconnTcp, for any number of nodes, control blocks and    *)
(* clients.                                                                *)
(***************************************************************************)
EXTENDS EspconnTcp, FiniteSetTheorems, SequenceTheorems, TLAPS

Conn == {"client", "server"}

\* Connections that have not ended.
Open(n) == msg[n].kind \in Conn /\ msg[n].state # "CLOSE"

\* States in which a pcb belongs to an open connection.
UpStates == {"SYN_SENT", "CLOSED", "ESTABLISHED", "CLOSE_WAIT"}
DownStates == {"FREE", "FIN_WAIT", "TIME_WAIT", "LAST_ACK"}

MsgType == [kind : {"free", "udp"} \union Conn,
            state : {"NONE", "WAIT", "CONNECT", "WRITE", "CLOSE"},
            pcb : Pcbs \union {NULL}, espconn : Clients \union {NULL},
            local_ip : BOOLEAN, opt : OptionSets \union {{}}, recv_check : Nat]
PcbType == [state : UpStates \union DownStates, arg : Nodes \union {NULL},
            tuple : Nodes \union {NULL}, port : Clients \union {NULL, "listen"},
            recv : BOOLEAN, err : BOOLEAN, poll : BOOLEAN]
PostType == [sig : {"CLOSE", "ERRER"}, par : Nodes]

\* Types of the state of espconn, of lwIP and of the server.
TypeOK ==
    /\ msg \in [Nodes -> MsgType]
    /\ active \in Seq(Nodes)
    /\ pcb \in [Pcbs -> PcbType]
    /\ posts \in Seq(PostType)
    /\ listening \in BOOLEAN /\ count_opt \in Nat /\ timeout \in Nat

\* plink_active holds each block in use once, and no free one.
ListExact ==
    /\ \A i, j \in 1 .. Len(active) : active[i] = active[j] => i = j
    /\ \A n \in Nodes : OnList(n) <=> msg[n].kind # "free"

\* The invariant of every application.
ListInv ==
    /\ msg \in [Nodes -> MsgType] /\ active \in Seq(Nodes) /\ count_opt \in Nat
    /\ ListExact

\* The task queue holds each connection that ended once, and nothing else.
PostsExact ==
    /\ \A i, j \in 1 .. Len(posts) : posts[i].par = posts[j].par => i = j
    /\ \A n \in Nodes : (\E i \in 1 .. Len(posts) : posts[i].par = n) <=>
                            msg[n].kind \in Conn /\ msg[n].state = "CLOSE"

\* A connection notes a pcb, which may be another one's by then.
Noted == \A n \in Nodes : msg[n].kind \in Conn => msg[n].pcb \in Pcbs

\* A pcb that can call a function has an open connection that notes it, or
\* no connection any more.
Callers ==
    \A p \in Pcbs :
        IF pcb[p].state \in UpStates
        THEN pcb[p].arg = NULL \/
             (pcb[p].arg \in Nodes /\ Open(pcb[p].arg) /\ msg[pcb[p].arg].pcb = p)
        ELSE ~pcb[p].recv /\ ~pcb[p].err /\ ~pcb[p].poll

\* The invariant of an application that does not disconnect twice.
EndInv == TypeOK /\ ListExact /\ PostsExact /\ Noted /\ Callers

\* A connection whose end is not an error has its addresses, by which
\* espconn_find_current_pcb looks for its pcb.
EndsWithAddress ==
    /\ \A i \in 1 .. Len(posts) : posts[i].sig = "CLOSE" => msg[posts[i].par].local_ip
    /\ \A n \in Nodes : msg[n].kind = "server" => msg[n].local_ip

\* An open connection has its pcb ...
Forward ==
    \A n \in Nodes : Open(n) =>
        /\ pcb[msg[n].pcb].state \in UpStates
        /\ pcb[msg[n].pcb].arg = n /\ pcb[msg[n].pcb].tuple = n /\ pcb[msg[n].pcb].err
        /\ pcb[msg[n].pcb].port = IF msg[n].kind = "client" THEN msg[n].espconn ELSE "listen"
        /\ msg[n].local_ip <=> pcb[msg[n].pcb].state \in {"ESTABLISHED", "CLOSE_WAIT"}
        /\ pcb[msg[n].pcb].poll => msg[n].kind = "server"

\* ... and a pcb that is up has its connection.
Attached == \A p \in Pcbs : pcb[p].state \in UpStates => pcb[p].arg # NULL

Linked == EndsWithAddress /\ Forward /\ Attached

\* The invariant of an application that ends no connecting client either.
LinkInv == EndInv /\ Linked

\* The application disconnects a connection that has ended and still waits
\* for espconn_Task.
SecondDisconnect == \E n \in Nodes : msg[n].state = "CLOSE" /\ espconn_disconnect(n)

\* The application ends a client that is not connected yet.
EndsConnecting ==
    \E n \in Nodes : /\ msg[n].kind = "client" /\ ~msg[n].local_ip
                     /\ espconn_disconnect(n) \/ espconn_abort(n)

-----------------------------------------------------------------------------
(* Lists and the task queue. *)

Distinct(l) == \A i, j \in 1 .. Len(l) : l[i] = l[j] => i = j
In(l, v) == \E i \in 1 .. Len(l) : l[i] = v

\* espconn_list_creat adds exactly the node it is given.
LEMMA CreatFacts ==
  ASSUME NEW l \in Seq(Nodes), NEW n \in Nodes, Distinct(l), ~In(l, n)
  PROVE  /\ espconn_list_creat(l, n) \in Seq(Nodes)
         /\ Distinct(espconn_list_creat(l, n))
         /\ \A v : In(espconn_list_creat(l, n), v) <=> In(l, v) \/ v = n
<1>1. /\ Append(l, n) \in Seq(Nodes)
      /\ Len(Append(l, n)) = Len(l) + 1
      /\ \A i \in 1 .. Len(l) : Append(l, n)[i] = l[i]
      /\ Append(l, n)[Len(l) + 1] = n
      /\ Len(l) \in Nat
  OBVIOUS
<1>2. Distinct(Append(l, n))
  BY <1>1 DEF Distinct, In
<1>3. ASSUME NEW v PROVE In(Append(l, n), v) <=> In(l, v) \/ v = n
  BY <1>1 DEF In
<1>4. QED
  BY <1>1, <1>2, <1>3 DEF espconn_list_creat

\* espconn_list_delete removes exactly the node it is given.
LEMMA DeleteFacts ==
  ASSUME NEW l \in Seq(Nodes), NEW n \in Nodes, Distinct(l), In(l, n)
  PROVE  /\ espconn_list_delete(l, n) \in Seq(Nodes)
         /\ Distinct(espconn_list_delete(l, n))
         /\ \A v : In(espconn_list_delete(l, n), v) <=> In(l, v) /\ v # n
<1> DEFINE at == CHOOSE i \in 1 .. Len(l) : l[i] = n
           d == [i \in 1 .. Len(l) - 1 |-> IF i < at THEN l[i] ELSE l[i + 1]]
<1>1. at \in 1 .. Len(l) /\ l[at] = n
  BY DEF In
<1>2. espconn_list_delete(l, n) = d
  BY DEF espconn_list_delete
<1>3. Len(l) \in Nat \ {0}
  BY <1>1
<1> HIDE DEF at
<1>4. /\ d \in Seq(Nodes)
      /\ Len(d) = Len(l) - 1
      /\ \A i \in 1 .. Len(l) - 1 : d[i] = IF i < at THEN l[i] ELSE l[i + 1]
  <2>1. \A i \in 1 .. Len(l) - 1 : l[i] \in Nodes /\ l[i + 1] \in Nodes
    BY <1>3
  <2>2. Len(l) - 1 \in Nat
    BY <1>3
  <2>3. d \in [1 .. Len(l) - 1 -> Nodes]
    BY <2>1
  <2>4. QED
    BY <2>2, <2>3
<1> HIDE DEF d
<1>5. Distinct(d)
  <2>1. SUFFICES ASSUME NEW i \in 1 .. Len(d), NEW j \in 1 .. Len(d), d[i] = d[j]
                 PROVE  i = j
    BY DEF Distinct
  <2>2. \A a, b \in 1 .. Len(l) : l[a] = l[b] => a = b
    BY DEF Distinct
  <2>3. QED
    BY <1>1, <1>3, <1>4, <2>1, <2>2
<1>6. ASSUME NEW v PROVE In(d, v) <=> In(l, v) /\ v # n
  <2>1. \A a, b \in 1 .. Len(l) : l[a] = l[b] => a = b
    BY DEF Distinct
  <2>2. ASSUME In(d, v) PROVE In(l, v) /\ v # n
    <3>1. PICK i \in 1 .. Len(d) : d[i] = v
      BY <2>2 DEF In
    <3>2. CASE i < at
      <4>1. i \in 1 .. Len(l) /\ l[i] = v /\ i # at
        BY <1>1, <1>3, <1>4, <3>1, <3>2
      <4>2. QED
        BY <1>1, <2>1, <4>1 DEF In
    <3>3. CASE ~(i < at)
      <4>1. i + 1 \in 1 .. Len(l) /\ l[i + 1] = v /\ i + 1 # at
        BY <1>1, <1>3, <1>4, <3>1, <3>3
      <4>2. QED
        BY <1>1, <2>1, <4>1 DEF In
    <3>4. QED
      BY <3>2, <3>3
  <2>3. ASSUME In(l, v), v # n PROVE In(d, v)
    <3>1. PICK i \in 1 .. Len(l) : l[i] = v
      BY <2>3 DEF In
    <3>2. CASE i < at
      <4>1. i \in 1 .. Len(d) /\ d[i] = v
        BY <1>1, <1>3, <1>4, <3>1, <3>2
      <4>2. QED
        BY <4>1 DEF In
    <3>3. CASE ~(i < at)
      <4>1. i # at
        BY <1>1, <2>3, <3>1
      <4>2. i - 1 \in 1 .. Len(d) /\ d[i - 1] = v
        BY <1>1, <1>3, <1>4, <3>1, <3>3, <4>1
      <4>3. QED
        BY <4>2 DEF In
    <3>4. QED
      BY <3>2, <3>3
  <2>4. QED
    BY <2>2, <2>3
<1>7. QED
  BY <1>2, <1>4, <1>5, <1>6

\* What is in the task queue.
LEMMA PostsType ==
  ASSUME TypeOK
  PROVE  \A i \in 1 .. Len(posts) : posts[i].par \in Nodes /\ posts[i].sig \in {"CLOSE", "ERRER"}
<1>1. \A i \in 1 .. Len(posts) : posts[i] \in PostType
  BY DEF TypeOK
<1>2. QED
  BY <1>1 DEF PostType

\* The queue never is full when a connection ends: it holds one message at
\* most for each of the other nodes.
LEMMA PostRoom ==
  ASSUME TypeOK, PostsExact, NEW n \in Nodes, Open(n)
  PROVE  Len(posts) < TaskQueueLen
<1> DEFINE f == [i \in 1 .. Len(posts) |-> posts[i].par]
<1>1. Len(posts) \in Nat
  BY DEF TypeOK
<1>2. \A i \in 1 .. Len(posts) : posts[i].par \in Nodes \ {n}
  <2>1. \A i \in 1 .. Len(posts) : posts[i].par # n
    BY DEF PostsExact, Open
  <2>2. QED
    BY <2>1, PostsType
<1>3. f \in [1 .. Len(posts) -> Nodes \ {n}]
  BY <1>2
<1>4. \A i, j \in 1 .. Len(posts) : f[i] = f[j] => i = j
  BY DEF PostsExact
<1>5. f \in Injection(1 .. Len(posts), Nodes \ {n})
  BY <1>3, <1>4 DEF Injection, IsInjective
<1>6. IsFiniteSet(Nodes)
  BY PcbAssumption
<1>7. /\ IsFiniteSet(Nodes \ {n})
      /\ Cardinality(Nodes \ {n}) = Cardinality(Nodes) - 1
      /\ Cardinality(Nodes) \in Nat
  BY <1>6, FS_RemoveElement, FS_CardinalityType
<1>8. Cardinality(1 .. Len(posts)) <= Cardinality(Nodes \ {n})
  BY <1>5, <1>7, FS_Injection
<1>9. Cardinality(1 .. Len(posts)) = Len(posts)
  <2>1. 1 \in Int /\ Len(posts) \in Int
    BY <1>1
  <2>2. Cardinality(1 .. Len(posts)) = IF 1 > Len(posts) THEN 0 ELSE Len(posts) - 1 + 1
    BY <2>1, FS_Interval, Zenon
  <2>3. QED
    BY <1>1, <2>2
<1>10. QED
  BY <1>1, <1>7, <1>8, <1>9, TaskAssumption

-----------------------------------------------------------------------------
(* What the steps have in common. *)

\* Which nodes are on the list depends on the list alone.
LEMMA OnListIn == \A n : (OnList(n) <=> In(active, n)) /\ (OnList(n)' <=> In(active', n))
BY DEF OnList, In

\* The nodes of some kinds, by what they are used for.
LEMMA OfKind ==
  ASSUME ListExact, NEW kinds, "free" \notin kinds
  PROVE  Of(kinds) = {n \in Nodes : msg[n].kind \in kinds}
BY DEF ListExact, Of

\* A pcb that belongs to no open connection and calls nothing.
Quiet(q) == q.state \notin UpStates /\ ~q.recv /\ ~q.err /\ ~q.poll

\* What EndInv says of open connections.
LEMMA CallerFacts ==
  ASSUME EndInv, NEW p \in Pcbs
  PROVE  /\ pcb[p].state \in UpStates /\ pcb[p].arg # NULL =>
              pcb[p].arg \in Nodes /\ Open(pcb[p].arg) /\ msg[pcb[p].arg].pcb = p
         /\ pcb[p].state \notin UpStates => Quiet(pcb[p])
BY DEF EndInv, Callers, Quiet

\* espconn_client_close and espconn_server_close change nothing but the state
\* and the timer of the node.
LEMMA StoppedFacts ==
  ASSUME NEW m \in MsgType, NEW closed, NEW check \in Nat
  PROVE  /\ Stopped(m, closed, check) \in MsgType
         /\ Stopped(m, closed, check).kind = m.kind
         /\ Stopped(m, closed, check).pcb = m.pcb
         /\ Stopped(m, closed, check).espconn = m.espconn
         /\ Stopped(m, closed, check).local_ip = m.local_ip
         /\ closed => Stopped(m, closed, check).state = "CLOSE"
         /\ ~closed => Stopped(m, closed, check).state = m.state
<1> DEFINE s == IF closed THEN "CLOSE" ELSE m.state
<1>1. s \in {"NONE", "WAIT", "CONNECT", "WRITE", "CLOSE"}
  BY DEF MsgType
<1>2. Stopped(m, closed, check) = [m EXCEPT !.state = s, !.recv_check = check]
  BY DEF Stopped
<1>3. (closed => s = "CLOSE") /\ (~closed => s = m.state)
  OBVIOUS
<1> HIDE DEF s
<1>4. QED
  BY <1>1, <1>2, <1>3 DEF MsgType

\* A connection ends: its pcb is gone or silent, its state is ESPCONN_CLOSE,
\* and a message is posted (espconn_client_close, espconn_server_close,
\* espconn_client_err, esponn_server_err).
LEMMA EndsInv ==
  ASSUME EndInv, NEW n \in Nodes, Open(n), NEW sig \in {"CLOSE", "ERRER"},
         NEW m \in MsgType, m.state = "CLOSE", m.kind = msg[n].kind, m.pcb = msg[n].pcb,
         m.espconn = msg[n].espconn, m.local_ip = msg[n].local_ip,
         NEW q \in PcbType, Quiet(q),
         msg' = [msg EXCEPT ![n] = m],
         posts' = ets_post(sig, n),
         pcb' = [pcb EXCEPT ![msg[n].pcb] = q],
         UNCHANGED <<active, server>>
  PROVE  /\ EndInv'
         /\ Linked /\ (sig = "CLOSE" => msg[n].local_ip) => Linked'
<1> USE DEF EndInv
<1>1. Len(posts) < TaskQueueLen
  BY PostRoom
<1> DEFINE e == [sig |-> sig, par |-> n]
<1>2. posts' = Append(posts, e) /\ e \in PostType
  BY <1>1 DEF ets_post, PostType
<1>3. /\ posts' \in Seq(PostType)
      /\ Len(posts') = Len(posts) + 1 /\ Len(posts) \in Nat
      /\ \A i \in 1 .. Len(posts) : posts'[i] = posts[i]
      /\ posts'[Len(posts) + 1] = e
  <2>1. posts \in Seq(PostType)
    BY DEF TypeOK
  <2>2. QED
    BY <1>2, <2>1, AppendProperties, LenProperties
<1>4. TypeOK'
  BY <1>3 DEF TypeOK, server
<1>5. /\ \A k \in Nodes : /\ msg'[k].kind = msg[k].kind /\ msg'[k].local_ip = msg[k].local_ip
                          /\ msg'[k].pcb = msg[k].pcb /\ msg'[k].espconn = msg[k].espconn
                          /\ k # n => msg'[k].state = msg[k].state
      /\ msg'[n].state = "CLOSE"
  BY DEF TypeOK
<1>6. ListExact'
  BY <1>5 DEF ListExact, OnList
<1>7. \A i \in 1 .. Len(posts) : posts[i].par # n
  BY DEF PostsExact, Open
<1>8. PostsExact'
  <2>1. \A i, j \in 1 .. Len(posts') : posts'[i].par = posts'[j].par => i = j
    <3>1. \A i, j \in 1 .. Len(posts) : posts[i].par = posts[j].par => i = j
      BY DEF PostsExact
    <3>2. posts'[Len(posts) + 1].par = n
      BY <1>3
    <3>3. \A i \in 1 .. Len(posts') : i = Len(posts) + 1 \/ i \in 1 .. Len(posts)
      BY <1>3
    <3> HIDE DEF e
    <3>4. QED
      BY <1>3, <1>7, <3>1, <3>2, <3>3
  <2>2. ASSUME NEW k \in Nodes
        PROVE  (\E i \in 1 .. Len(posts') : posts'[i].par = k) <=>
                  (\E i \in 1 .. Len(posts) : posts[i].par = k) \/ k = n
    BY <1>3
  <2>3. QED
    BY <1>5, <2>1, <2>2 DEF PostsExact, Open
<1>9. Noted'
  BY <1>5 DEF Noted
<1>10. \A k \in Nodes : Open(k)' <=> Open(k) /\ k # n
  BY <1>5 DEF Open
<1>11. /\ msg[n].pcb \in Pcbs /\ pcb'[msg[n].pcb] = q
       /\ \A p \in Pcbs : p # msg[n].pcb => pcb'[p] = pcb[p]
  BY DEF TypeOK, Noted, Open
<1>12. Callers'
  <2>1. \A p \in Pcbs : p # msg[n].pcb /\ pcb[p].state \in UpStates => pcb[p].arg # n
    BY PcbAssumption DEF Callers
  <2>2. QED
    BY <1>5, <1>10, <1>11, <2>1 DEF Callers, Quiet
<1>13. EndInv'
  BY <1>4, <1>6, <1>8, <1>9, <1>12
<1>14. ASSUME Linked, sig = "CLOSE" => msg[n].local_ip PROVE Linked'
  <2> USE <1>14 DEF Linked
  <2>1. \A i \in 1 .. Len(posts) : posts[i].par \in Nodes
    BY PostsType
  <2>2. ASSUME NEW i \in 1 .. Len(posts'), posts'[i].sig = "CLOSE"
        PROVE  msg'[posts'[i].par].local_ip
    <3>1. CASE i = Len(posts) + 1
      BY <1>3, <1>5, <2>2, <3>1
    <3>2. CASE i \in 1 .. Len(posts)
      BY <1>3, <1>5, <2>1, <2>2, <3>2 DEF EndsWithAddress
    <3>3. QED
      BY <1>3, <3>1, <3>2
  <2>3. EndsWithAddress'
    BY <1>5, <2>2 DEF EndsWithAddress
  <2>4. \A k \in Nodes : Open(k) /\ k # n => msg[k].pcb \in Pcbs /\ msg[k].pcb # msg[n].pcb
    BY DEF Forward, Noted, Open
  <2>5. Forward'
    BY <1>5, <1>10, <1>11, <2>4 DEF Forward
  <2>6. Attached'
    BY <1>11 DEF Attached, Quiet
  <2>7. QED
    BY <2>3, <2>5, <2>6
<1>15. QED
  BY <1>13, <1>14

\* A connection stays open and keeps its pcb: what it is sent, its timer, or
\* that the remote host has closed changes only (espconn_sent, Traffic,
\* espconn_server_poll, and a tcp_close that failed).
LEMMA StaysInv ==
  ASSUME EndInv, NEW n \in Nodes, Open(n),
         NEW m \in MsgType, m.state # "CLOSE", m.kind = msg[n].kind, m.pcb = msg[n].pcb,
         m.espconn = msg[n].espconn, m.local_ip = msg[n].local_ip,
         NEW p \in Pcbs, NEW q \in PcbType,
         q = pcb[p] \/ /\ {q.state, pcb[p].state} \subseteq {"ESTABLISHED", "CLOSE_WAIT"}
                       /\ q.arg = pcb[p].arg /\ q.tuple = pcb[p].tuple /\ q.port = pcb[p].port
                       /\ q.err = pcb[p].err /\ q.poll = pcb[p].poll,
         msg' = [msg EXCEPT ![n] = m],
         pcb' = [pcb EXCEPT ![p] = q],
         UNCHANGED <<active, posts, server>>
  PROVE  EndInv' /\ (Linked => Linked')
<1> USE DEF EndInv
<1>1. TypeOK'
  BY DEF TypeOK, server
<1>2. \A k \in Nodes : /\ msg'[k].kind = msg[k].kind /\ msg'[k].local_ip = msg[k].local_ip
                       /\ msg'[k].pcb = msg[k].pcb /\ msg'[k].espconn = msg[k].espconn
                       /\ msg'[k].state = "CLOSE" <=> msg[k].state = "CLOSE"
  BY DEF TypeOK, Open
<1>3. ListExact' /\ PostsExact' /\ Noted'
  BY <1>2 DEF ListExact, OnList, PostsExact, Noted
<1>4. \A k \in Nodes : Open(k)' <=> Open(k)
  BY <1>2 DEF Open
<1>5. pcb'[p] = q /\ \A r \in Pcbs : r # p => pcb'[r] = pcb[r]
  BY DEF TypeOK
<1>6. \A r \in Pcbs : /\ pcb'[r].arg = pcb[r].arg /\ pcb'[r].tuple = pcb[r].tuple
                      /\ pcb'[r].port = pcb[r].port /\ pcb'[r].err = pcb[r].err
                      /\ pcb'[r].poll = pcb[r].poll
                      /\ pcb'[r].state \in UpStates <=> pcb[r].state \in UpStates
                      /\ pcb'[r].state \in {"ESTABLISHED", "CLOSE_WAIT"} <=>
                            pcb[r].state \in {"ESTABLISHED", "CLOSE_WAIT"}
                      /\ pcb'[r] = pcb[r] \/ pcb'[r].state \in UpStates
  BY <1>5 DEF UpStates
<1>7. Callers'
  BY <1>2, <1>4, <1>6 DEF Callers
<1>8. ASSUME Linked PROVE Linked'
  <2> USE <1>8 DEF Linked
  <2>1. \A i \in 1 .. Len(posts) : posts[i].par \in Nodes
    BY PostsType
  <2>2. EndsWithAddress'
    BY <1>2, <2>1 DEF EndsWithAddress
  <2>3. \A k \in Nodes : Open(k) => msg[k].pcb \in Pcbs
    BY DEF Noted, Open
  <2>4. Forward'
    BY <1>2, <1>4, <1>6, <2>3 DEF Forward
  <2>5. Attached'
    BY <1>6 DEF Attached
  <2>6. QED
    BY <2>2, <2>4, <2>5
<1>9. QED
  BY <1>1, <1>3, <1>7, <1>8

\* The same, when no pcb changes.
LEMMA SameInv ==
  ASSUME EndInv, NEW n \in Nodes, Open(n),
         NEW m \in MsgType, m.state # "CLOSE", m.kind = msg[n].kind, m.pcb = msg[n].pcb,
         m.espconn = msg[n].espconn, m.local_ip = msg[n].local_ip,
         msg' = [msg EXCEPT ![n] = m],
         UNCHANGED <<active, pcb, posts, server>>
  PROVE  EndInv' /\ (Linked => Linked')
<1> DEFINE p == msg[n].pcb
           q == pcb[p]
<1>1. p \in Pcbs /\ q \in PcbType /\ pcb' = [pcb EXCEPT ![p] = q]
  BY DEF EndInv, Noted, TypeOK, Open
<1>2. q = pcb[p]
  OBVIOUS
<1> HIDE DEF p, q
<1>3. QED
  BY <1>1, <1>2, StaysInv

\* Steps that touch pcbs only: some pcbs lose their function or their node.
LEMMA PcbsInv ==
  ASSUME EndInv, pcb' \in [Pcbs -> PcbType],
         \A p \in Pcbs : pcb'[p] = pcb[p] \/ Quiet(pcb'[p]),
         UNCHANGED <<msg, active, posts>>,
         listening' \in BOOLEAN, count_opt' \in Nat, timeout' \in Nat
  PROVE  /\ EndInv'
         /\ Linked /\ (\A p \in Pcbs : pcb[p].state \in UpStates => pcb'[p] = pcb[p]) => Linked'
<1> USE DEF EndInv
<1>1. TypeOK'
  BY DEF TypeOK
<1>2. ListExact' /\ PostsExact' /\ Noted'
  BY DEF ListExact, OnList, PostsExact, Noted
<1>3. \A k \in Nodes : Open(k)' <=> Open(k)
  BY DEF Open
<1>4. Callers'
  BY <1>3 DEF Callers, Quiet
<1>5. ASSUME Linked, \A p \in Pcbs : pcb[p].state \in UpStates => pcb'[p] = pcb[p]
      PROVE  Linked'
  <2> USE <1>5 DEF Linked
  <2>1. EndsWithAddress'
    BY DEF EndsWithAddress
  <2>2. \A k \in Nodes : Open(k) => msg[k].pcb \in Pcbs
    BY DEF Noted, Open
  <2>3. Forward'
    BY <1>3, <2>2 DEF Forward
  <2>4. Attached'
    BY DEF Attached, Quiet
  <2>5. QED
    BY <2>1, <2>3, <2>4
<1>6. QED
  BY <1>1, <1>2, <1>4, <1>5

\* Records of a free node and of a free pcb.
LEMMA NoneType == NoMsg \in MsgType /\ NoPcb \in PcbType /\ Quiet(NoPcb)
BY DEF NoMsg, NoPcb, MsgType, PcbType, DownStates, UpStates, Quiet

\* tcp_new hands out a pcb without an open connection.
LEMMA AvailableDown ==
  ASSUME NEW p \in Available
  PROVE  p \in Pcbs /\ pcb[p].state \notin UpStates
BY DEF Available, UpStates

\* A connection starts in a free node and a pcb that nobody uses
\* (espconn_tcp_client, espconn_tcp_accept).
LEMMA StartInv ==
  ASSUME EndInv, NEW n \in Nodes, msg[n].kind = "free", NEW p \in Available,
         NEW m \in MsgType, m.kind \in Conn, m.state # "CLOSE", m.pcb = p,
         m.kind = "server" => m.local_ip,
         NEW q \in PcbType, q.state \in UpStates, q.arg = n, q.tuple = n, q.err,
         q.port = IF m.kind = "client" THEN m.espconn ELSE "listen",
         m.local_ip <=> q.state \in {"ESTABLISHED", "CLOSE_WAIT"},
         q.poll => m.kind = "server",
         msg' = [msg EXCEPT ![n] = m],
         pcb' = [pcb EXCEPT ![p] = q],
         active' = espconn_list_creat(active, n),
         UNCHANGED <<posts, server>>
  PROVE  EndInv' /\ (Linked => Linked')
<1> USE DEF EndInv
<1>1. p \in Pcbs /\ pcb[p].state \notin UpStates
  BY AvailableDown
<1>2. Distinct(active) /\ ~In(active, n)
  BY OnListIn DEF ListExact, Distinct
<1>3. /\ active' \in Seq(Nodes)
      /\ Distinct(active')
      /\ \A v : In(active', v) <=> In(active, v) \/ v = n
  BY <1>2, CreatFacts DEF TypeOK
<1>4. TypeOK'
  BY <1>1, <1>3 DEF TypeOK, server
<1>5. (\A k \in Nodes : k # n => msg'[k] = msg[k]) /\ msg'[n] = m
  BY DEF TypeOK
<1>6. (\A r \in Pcbs : r # p => pcb'[r] = pcb[r]) /\ pcb'[p] = q
  BY <1>1 DEF TypeOK
<1>7. ListExact'
  <2>1. \A k \in Nodes : In(active', k) <=> msg'[k].kind # "free"
    BY <1>3, <1>5, OnListIn DEF ListExact, Conn
  <2>2. QED
    BY <1>3, <2>1, OnListIn DEF ListExact, Distinct
<1>8. \A i \in 1 .. Len(posts) : posts[i].par \in Nodes /\ posts[i].par # n
  BY PostsType DEF PostsExact, Conn
<1>9. PostsExact'
  <2>1. \A k \in Nodes : (\E i \in 1 .. Len(posts) : posts[i].par = k) <=>
                              msg'[k].kind \in Conn /\ msg'[k].state = "CLOSE"
    BY <1>5, <1>8 DEF PostsExact
  <2>2. QED
    BY <2>1 DEF PostsExact
<1>10. Noted'
  BY <1>1, <1>5 DEF Noted
<1>11. \A k \in Nodes : Open(k)' <=> Open(k) \/ k = n
  BY <1>5 DEF Open, Conn
<1>12. ~Open(n)
  BY DEF Open, Conn
<1>13. Callers'
  <2>1. \A r \in Pcbs : pcb[r].state \in UpStates => pcb[r].arg # n
    BY <1>12, PcbAssumption DEF Callers
  <2>2. QED
    BY <1>1, <1>5, <1>6, <1>11, <2>1 DEF Callers
<1>14. ASSUME Linked PROVE Linked'
  <2> USE <1>14 DEF Linked
  <2>1. EndsWithAddress'
    BY <1>5, <1>8 DEF EndsWithAddress
  <2>2. \A k \in Nodes : Open(k) => k # n /\ msg[k].pcb # p /\ msg[k].pcb \in Pcbs
    BY <1>1, <1>12 DEF Forward, Noted, Open
  <2>3. Forward'
    BY <1>1, <1>5, <1>6, <1>11, <2>2 DEF Forward
  <2>4. Attached'
    BY <1>6, PcbAssumption DEF Attached
  <2>5. QED
    BY <2>1, <2>3, <2>4
<1>15. QED
  BY <1>4, <1>7, <1>9, <1>10, <1>13, <1>14

\* What tcp_close leaves of a pcb.
LEMMA CloseFacts ==
  ASSUME NEW q \in PcbType, NEW out \in tcp_close(q)
  PROVE  /\ out.pcb \in PcbType /\ out.ok \in BOOLEAN
         /\ out.ok => Quiet(out.pcb)
         /\ ~out.ok => /\ {out.pcb.state, q.state} \subseteq {"ESTABLISHED", "CLOSE_WAIT"}
                       /\ out.pcb.arg = q.arg
                       /\ out.pcb.tuple = q.tuple /\ out.pcb.port = q.port
                       /\ out.pcb.err = q.err /\ out.pcb.poll = q.poll
<1> DEFINE F == [Silent(q) EXCEPT !.state = "FIN_WAIT"]
           L == [Silent(q) EXCEPT !.state = "LAST_ACK"]
           S == Silent(q)
           R == [q EXCEPT !.recv = TRUE]
<1>1. \/ out \in {[ok |-> TRUE, pcb |-> r] : r \in {F, L, NoPcb}}
      \/ out \in {[ok |-> TRUE, pcb |-> r] : r \in {S}} /\ q.state \in DownStates
      \/ out = [ok |-> FALSE, pcb |-> R] /\ q.state \in {"ESTABLISHED", "CLOSE_WAIT"}
  <2>1. CASE q.state = "ESTABLISHED"
    BY <2>1 DEF tcp_close
  <2>2. CASE q.state = "CLOSE_WAIT"
    BY <2>2 DEF tcp_close
  <2>3. CASE q.state \in {"SYN_SENT", "CLOSED"}
    BY <2>3 DEF tcp_close
  <2>4. CASE q.state \in DownStates
    BY <2>4 DEF tcp_close, DownStates
  <2>5. q.state \in UpStates \union DownStates
    BY DEF PcbType
  <2>6. QED
    BY <2>1, <2>2, <2>3, <2>4, <2>5 DEF UpStates
<1>2. F \in PcbType /\ Quiet(F)
  BY DEF PcbType, Silent, DownStates, UpStates, Quiet
<1>3. L \in PcbType /\ Quiet(L)
  BY DEF PcbType, Silent, DownStates, UpStates, Quiet
<1>4. S \in PcbType /\ (q.state \in DownStates => Quiet(S))
  BY DEF PcbType, Silent, DownStates, UpStates, Quiet
<1>5. /\ R \in PcbType /\ R.state = q.state /\ R.arg = q.arg /\ R.tuple = q.tuple
      /\ R.port = q.port /\ R.err = q.err /\ R.poll = q.poll
  BY DEF PcbType
<1> HIDE DEF F, L, R, S
<1>6. CASE out = [ok |-> FALSE, pcb |-> R] /\ q.state \in {"ESTABLISHED", "CLOSE_WAIT"}
  <2>1. out.ok = FALSE /\ out.pcb = R
    BY <1>6
  <2>2. QED
    BY <1>5, <1>6, <2>1
<1>7. ASSUME NEW r \in PcbType, Quiet(r), out = [ok |-> TRUE, pcb |-> r]
      PROVE  out.ok = TRUE /\ out.pcb \in PcbType /\ Quiet(out.pcb)
  <2>1. out.ok = TRUE /\ out.pcb = r
    BY <1>7
  <2>2. QED
    BY <1>7, <2>1
<1>8. CASE out \in {[ok |-> TRUE, pcb |-> r] : r \in {F, L, NoPcb}}
  <2>1. PICK r \in {F, L, NoPcb} : out = [ok |-> TRUE, pcb |-> r]
    BY <1>8
  <2>2. r \in PcbType /\ Quiet(r)
    BY <1>2, <1>3, NoneType
  <2>3. QED
    BY <1>7, <2>1, <2>2
<1>9. CASE out \in {[ok |-> TRUE, pcb |-> r] : r \in {S}} /\ q.state \in DownStates
  <2>1. out = [ok |-> TRUE, pcb |-> S]
    BY <1>9
  <2>2. QED
    BY <1>4, <1>7, <1>9, <2>1
<1>10. QED
  BY <1>1, <1>6, <1>8, <1>9

\* espconn_client_close and espconn_server_close of an open connection, with
\* the pcb q in place of its pcb.
LEMMA EndedInv ==
  ASSUME EndInv, NEW n \in Nodes, Open(n), NEW check \in Nat,
         NEW q \in PcbType,
         q = pcb[msg[n].pcb] \/
            /\ {q.state, pcb[msg[n].pcb].state} \subseteq {"ESTABLISHED", "CLOSE_WAIT"}
            /\ q.arg = pcb[msg[n].pcb].arg /\ q.tuple = pcb[msg[n].pcb].tuple
            /\ q.port = pcb[msg[n].pcb].port /\ q.err = pcb[msg[n].pcb].err
            /\ q.poll = pcb[msg[n].pcb].poll,
         NEW out \in tcp_close(q), Ended(n, out, check), UNCHANGED <<active, server>>
  PROVE  EndInv' /\ (Linked /\ msg[n].local_ip => Linked')
<1> DEFINE m == Stopped(msg[n], out.ok, check)
<1>1. msg[n].pcb \in Pcbs /\ msg[n] \in MsgType
  BY DEF EndInv, Noted, TypeOK, Open
<1>2. /\ m \in MsgType /\ m.kind = msg[n].kind /\ m.pcb = msg[n].pcb
      /\ m.espconn = msg[n].espconn /\ m.local_ip = msg[n].local_ip
      /\ out.ok => m.state = "CLOSE"
      /\ ~out.ok => m.state = msg[n].state
  BY <1>1, StoppedFacts
<1>3. /\ pcb' = [pcb EXCEPT ![msg[n].pcb] = out.pcb]
      /\ msg' = [msg EXCEPT ![n] = m]
      /\ out.ok => posts' = ets_post("CLOSE", n)
      /\ ~out.ok => posts' = posts
  BY DEF Ended
<1> HIDE DEF m
<1>4. out.pcb \in PcbType
  BY CloseFacts
<1>5. CASE out.ok
  <2>1. Quiet(out.pcb)
    BY <1>5, CloseFacts
  <2>2. QED
    BY <1>2, <1>3, <1>4, <1>5, <2>1, EndsInv
<1>6. CASE ~out.ok
  <2>1. /\ {out.pcb.state, q.state} \subseteq {"ESTABLISHED", "CLOSE_WAIT"}
        /\ out.pcb.arg = q.arg /\ out.pcb.tuple = q.tuple /\ out.pcb.port = q.port
        /\ out.pcb.err = q.err /\ out.pcb.poll = q.poll
    BY <1>6, CloseFacts
  <2>2. /\ {out.pcb.state, pcb[msg[n].pcb].state} \subseteq {"ESTABLISHED", "CLOSE_WAIT"}
        /\ out.pcb.arg = pcb[msg[n].pcb].arg /\ out.pcb.tuple = pcb[msg[n].pcb].tuple
        /\ out.pcb.port = pcb[msg[n].pcb].port /\ out.pcb.err = pcb[msg[n].pcb].err
        /\ out.pcb.poll = pcb[msg[n].pcb].poll
    BY <2>1
  <2>3. m.state # "CLOSE"
    BY <1>2, <1>6 DEF Open
  <2>4. UNCHANGED <<active, posts, server>>
    BY <1>3, <1>6
  <2>5. QED
    BY <1>1, <1>2, <1>3, <1>4, <2>2, <2>3, <2>4, StaysInv
<1>7. QED
  BY <1>5, <1>6

-----------------------------------------------------------------------------
(* One lemma per step. *)

\* The program starts without connections.
LEMMA InitInv == Init => LinkInv
<1> SUFFICES ASSUME Init PROVE LinkInv
  OBVIOUS
<1> USE DEF Init
<1>1. Len(active) = 0 /\ Len(posts) = 0
  OBVIOUS
<1>2. MEMP_NUM_TCP_PCB \in Nat
  BY PcbAssumption, FS_CardinalityType
<1>3. TypeOK
  <2>1. msg \in [Nodes -> MsgType] /\ pcb \in [Pcbs -> PcbType]
    BY NoneType
  <2>2. active \in Seq(Nodes) /\ posts \in Seq(PostType)
    BY EmptySeq
  <2>3. listening \in BOOLEAN /\ count_opt \in Nat /\ timeout \in Nat
    BY <1>2
  <2>4. QED
    BY <2>1, <2>2, <2>3 DEF TypeOK
<1>4. ListExact /\ PostsExact /\ EndsWithAddress
  BY <1>1 DEF ListExact, OnList, PostsExact, EndsWithAddress, NoMsg, Conn
<1>5. Noted /\ Callers /\ Forward /\ Attached
  BY DEF Noted, Callers, Forward, Attached, Open, NoMsg, NoPcb, Conn, UpStates
<1>6. QED
  BY <1>3, <1>4, <1>5 DEF LinkInv, Linked, EndInv

\* espconn_connect, with a connection that lwIP starts or fails to start.
LEMMA ConnectInv ==
  ASSUME EndInv, NEW c \in Clients, NEW n \in Nodes, NEW p \in Pcbs, espconn_connect(c, n, p)
  PROVE  EndInv' /\ (Linked => Linked')
<1>1. PICK s \in {"SYN_SENT", "CLOSED"}, opt \in OptionSets :
        /\ msg' = [msg EXCEPT ![n] = [NoMsg EXCEPT !.kind = "client", !.state = "WAIT",
                                          !.pcb = p, !.espconn = c, !.opt = opt]]
        /\ pcb' = [pcb EXCEPT ![p] = [NoPcb EXCEPT !.state = s, !.arg = n, !.tuple = n,
                                          !.port = c, !.err = TRUE]]
  BY DEF espconn_connect
<1> DEFINE m == [NoMsg EXCEPT !.kind = "client", !.state = "WAIT",
                              !.pcb = p, !.espconn = c, !.opt = opt]
           q == [NoPcb EXCEPT !.state = s, !.arg = n, !.tuple = n, !.port = c, !.err = TRUE]
<1>2. /\ m \in MsgType /\ m.kind = "client" /\ m.state = "WAIT" /\ m.pcb = p
      /\ m.espconn = c /\ m.local_ip = FALSE
  BY DEF NoMsg, MsgType, Conn
<1>3. /\ q \in PcbType /\ q.state = s /\ q.arg = n /\ q.tuple = n /\ q.port = c
      /\ q.err = TRUE /\ q.poll = FALSE
  BY DEF NoPcb, PcbType, UpStates
<1>4. /\ msg[n].kind = "free" /\ p \in Available
      /\ active' = espconn_list_creat(active, n) /\ UNCHANGED <<posts, server>>
      /\ msg' = [msg EXCEPT ![n] = m] /\ pcb' = [pcb EXCEPT ![p] = q]
  BY <1>1 DEF espconn_connect
<1> HIDE DEF m, q
<1>5. m.kind \in Conn /\ q.state \in UpStates
  BY <1>2, <1>3 DEF Conn, UpStates
<1>6. QED
  BY <1>2, <1>3, <1>4, <1>5, StartInv

\* espconn_kill_pcb touches no pcb of an open connection when no connection
\* of the port is open.
LEMMA KillInv ==
  ASSUME EndInv, NEW port, pcb' = espconn_kill_pcb(port), UNCHANGED <<msg, active, posts>>,
         listening' \in BOOLEAN, count_opt' \in Nat, timeout' \in Nat
  PROVE  /\ EndInv'
         /\ Linked /\ (\A n \in Nodes : Open(n) => pcb[msg[n].pcb].port # port) => Linked'
<1>1. pcb' \in [Pcbs -> PcbType]
  BY NoneType DEF espconn_kill_pcb, EndInv, TypeOK
<1>2. \A p \in Pcbs : pcb'[p] = pcb[p] \/ (pcb[p].port = port /\ pcb'[p] = NoPcb)
  BY DEF espconn_kill_pcb
<1>3. \A p \in Pcbs : pcb'[p] = pcb[p] \/ Quiet(pcb'[p])
  BY <1>2, NoneType
<1>4. ASSUME Linked, \A n \in Nodes : Open(n) => pcb[msg[n].pcb].port # port
      PROVE  \A p \in Pcbs : pcb[p].state \in UpStates => pcb'[p] = pcb[p]
  <2>1. \A p \in Pcbs : pcb[p].state \in UpStates => pcb[p].port # port
    BY <1>4, CallerFacts DEF Linked, Attached
  <2>2. QED
    BY <1>2, <2>1
<1>5. QED
  BY <1>1, <1>3, <1>4, PcbsInv

\* espconn_connect without a route: no client of the port is connected.
LEMMA NoRouteInv ==
  ASSUME EndInv, NEW c \in Clients, espconn_connect_noroute(c)
  PROVE  EndInv' /\ (Linked => Linked')
<1>1. \A n \in Nodes : msg[n].kind = "client" => msg[n].espconn # c
  <2>1. Of({"client"}) = {n \in Nodes : msg[n].kind \in {"client"}}
    BY OfKind DEF EndInv
  <2>2. QED
    BY <2>1 DEF espconn_connect_noroute, MayConnect
<1>2. Linked => \A n \in Nodes : Open(n) => pcb[msg[n].pcb].port # c
  BY <1>1, PcbAssumption DEF Linked, Forward
<1>3. /\ pcb' = espconn_kill_pcb(c) /\ UNCHANGED <<msg, active, posts>>
      /\ listening' \in BOOLEAN /\ count_opt' \in Nat /\ timeout' \in Nat
  BY DEF espconn_connect_noroute, server, EndInv, TypeOK
<1>4. QED
  BY <1>2, <1>3, KillInv

\* espconn_tcp_delete: the server has no connection.
LEMMA DeleteInv ==
  ASSUME EndInv, espconn_tcp_delete
  PROVE  EndInv' /\ (Linked => Linked')
<1>1. Of({"server"}) = {n \in Nodes : msg[n].kind \in {"server"}}
  BY OfKind DEF EndInv
<1>2. IsFiniteSet(Of({"server"}))
  BY <1>1, PcbAssumption, FS_Subset
<1>3. Of({"server"}) = {}
  BY <1>2, FS_EmptySet DEF espconn_tcp_delete, link_cnt
<1>4. \A n \in Nodes : Open(n) => msg[n].kind = "client"
  BY <1>1, <1>3 DEF Open, Conn
<1>5. \A n \in Nodes : msg[n].espconn # "listen"
  BY PcbAssumption DEF EndInv, TypeOK, MsgType
<1>6. Linked => \A n \in Nodes : Open(n) => pcb[msg[n].pcb].port # "listen"
  BY <1>4, <1>5 DEF Linked, Forward
<1>7. MEMP_NUM_TCP_PCB \in Nat
  BY PcbAssumption, FS_CardinalityType
<1>8. /\ pcb' = espconn_kill_pcb("listen") /\ UNCHANGED <<msg, active, posts>>
      /\ listening' \in BOOLEAN /\ count_opt' \in Nat /\ timeout' \in Nat
  BY <1>7 DEF espconn_tcp_delete
<1>9. QED
  BY <1>6, <1>8, KillInv

\* Settings of the server.
LEMMA SettingInv ==
  ASSUME EndInv, UNCHANGED <<msg, active, pcb, posts>>,
         listening' \in BOOLEAN, count_opt' \in Nat, timeout' \in Nat
  PROVE  EndInv' /\ (Linked => Linked')
<1>1. pcb' \in [Pcbs -> PcbType] /\ \A p \in Pcbs : pcb'[p] = pcb[p]
  BY DEF EndInv, TypeOK
<1>2. QED
  BY <1>1, PcbsInv

\* espconn_disconnect of a connection that has not ended.
LEMMA DisconnectInv ==
  ASSUME EndInv, NEW n \in Nodes, msg[n].state # "CLOSE", espconn_disconnect(n)
  PROVE  EndInv' /\ (Linked /\ msg[n].local_ip => Linked')
<1>1. Open(n)
  BY DEF espconn_disconnect, MayEnd, Of, Open, Conn
<1>2. /\ msg[n].pcb \in Pcbs
      /\ pcb[msg[n].pcb] \in PcbType
      /\ msg[n].recv_check \in Nat
  BY <1>1 DEF EndInv, Noted, TypeOK, Open, MsgType
<1>3. PICK out \in tcp_close(pcb[msg[n].pcb]) : Ended(n, out, msg[n].recv_check)
  BY DEF espconn_disconnect, espconn_close
<1>4. UNCHANGED <<active, server>>
  BY DEF espconn_disconnect
<1>5. QED
  BY <1>1, <1>2, <1>3, <1>4, EndedInv

\* espconn_abort of a connection that has not ended.
LEMMA AbortInv ==
  ASSUME EndInv, NEW n \in Nodes, espconn_abort(n)
  PROVE  EndInv' /\ (Linked /\ msg[n].local_ip => Linked')
<1>1. Open(n)
  BY DEF espconn_abort, MayEnd, Of, Open, Conn
<1> DEFINE out == [ok |-> TRUE, pcb |-> NoPcb]
           m == Stopped(msg[n], out.ok, msg[n].recv_check)
<1>2. msg[n] \in MsgType /\ msg[n].recv_check \in Nat
  BY DEF EndInv, TypeOK, MsgType
<1>3. Ended(n, out, msg[n].recv_check) /\ UNCHANGED <<active, server>>
  BY DEF espconn_abort, espconn_close_abort
<1>4. out.ok /\ out.pcb = NoPcb
  OBVIOUS
<1> HIDE DEF out
<1>5. /\ m \in MsgType /\ m.kind = msg[n].kind /\ m.pcb = msg[n].pcb
      /\ m.espconn = msg[n].espconn /\ m.local_ip = msg[n].local_ip
      /\ out.ok => m.state = "CLOSE"
  BY <1>2, StoppedFacts
<1>6. /\ pcb' = [pcb EXCEPT ![msg[n].pcb] = NoPcb]
      /\ msg' = [msg EXCEPT ![n] = m]
      /\ posts' = ets_post("CLOSE", n)
  BY <1>3, <1>4 DEF Ended
<1> HIDE DEF m
<1>7. QED
  BY <1>1, <1>3, <1>4, <1>5, <1>6, NoneType, EndsInv

\* espconn_sent marks the connection.
LEMMA SentInv ==
  ASSUME EndInv, NEW n \in Nodes, espconn_sent(n)
  PROVE  EndInv' /\ (Linked => Linked')
<1>1. Open(n)
  BY DEF espconn_sent, Of, Open, Conn
<1> DEFINE m == [msg[n] EXCEPT !.state = "WRITE"]
<1>2. msg[n] \in MsgType
  BY DEF EndInv, TypeOK
<1>3. /\ m \in MsgType /\ m.state = "WRITE" /\ m.kind = msg[n].kind /\ m.pcb = msg[n].pcb
      /\ m.espconn = msg[n].espconn /\ m.local_ip = msg[n].local_ip
  BY <1>2 DEF MsgType
<1>4. msg' = [msg EXCEPT ![n] = m] /\ UNCHANGED <<active, pcb, posts, server>>
  BY DEF espconn_sent
<1> HIDE DEF m
<1>5. QED
  BY <1>1, <1>3, <1>4, SameInv

\* Nodes without a connection do not matter to lwIP.
LEMMA UnlinkedLinked ==
  ASSUME EndInv, Linked,
         \A k \in Nodes : msg[k].kind \in Conn \/ msg'[k].kind \in Conn => msg'[k] = msg[k],
         \A k \in Nodes : (Open(k)' <=> Open(k)) /\ (Open(k) => msg'[k] = msg[k]),
         UNCHANGED <<pcb, posts>>
  PROVE  Linked'
<1>1. EndsWithAddress'
  <2>1. \A i \in 1 .. Len(posts) : posts[i].par \in Nodes /\ msg[posts[i].par].kind \in Conn
    BY PostsType DEF EndInv, PostsExact
  <2>2. QED
    BY <2>1 DEF Linked, EndsWithAddress, Conn
<1>2. Forward' /\ Attached'
  BY DEF Linked, Forward, Attached
<1>3. QED
  BY <1>1, <1>2 DEF Linked

\* espconn_create takes a free node for UDP.
LEMMA CreateInv ==
  ASSUME EndInv, NEW n \in Nodes, espconn_create(n)
  PROVE  EndInv' /\ (Linked => Linked')
<1> USE DEF EndInv
<1> DEFINE m == [NoMsg EXCEPT !.kind = "udp"]
<1>1. m \in MsgType /\ m.kind = "udp"
  BY DEF NoMsg, MsgType
<1>2. /\ msg[n].kind = "free" /\ msg' = [msg EXCEPT ![n] = m]
      /\ active' = espconn_list_creat(active, n) /\ UNCHANGED <<pcb, posts, server>>
  BY DEF espconn_create
<1> HIDE DEF m
<1>3. (\A k \in Nodes : k # n => msg'[k] = msg[k]) /\ msg'[n] = m
  BY <1>2 DEF TypeOK
<1>4. Distinct(active) /\ ~In(active, n)
  BY <1>2, OnListIn DEF ListExact, Distinct
<1>5. /\ active' \in Seq(Nodes)
      /\ Distinct(active')
      /\ \A v : In(active', v) <=> In(active, v) \/ v = n
  BY <1>2, <1>4, CreatFacts DEF TypeOK
<1>6. TypeOK'
  BY <1>1, <1>2, <1>5 DEF TypeOK, server
<1>7. ListExact'
  <2>1. \A k \in Nodes : In(active', k) <=> msg'[k].kind # "free"
    BY <1>1, <1>3, <1>5, OnListIn DEF ListExact
  <2>2. QED
    BY <1>5, <2>1, OnListIn DEF ListExact, Distinct
<1>8. \A k \in Nodes : msg[k].kind \in Conn \/ msg'[k].kind \in Conn => k # n /\ msg'[k] = msg[k]
  BY <1>1, <1>2, <1>3 DEF Conn
<1>9. PostsExact' /\ Noted'
  BY <1>2, <1>8 DEF PostsExact, Noted
<1>10. \A k \in Nodes : (Open(k)' <=> Open(k)) /\ (Open(k) => msg'[k] = msg[k])
  BY <1>8 DEF Open
<1>11. Callers'
  BY <1>2, <1>10 DEF Callers
<1>12. ASSUME Linked PROVE Linked'
  BY <1>2, <1>8, <1>10, <1>12, UnlinkedLinked
<1>13. QED
  BY <1>6, <1>7, <1>9, <1>11, <1>12

\* espconn_delete of a UDP entry frees its node.
LEMMA UdpDisconnectInv ==
  ASSUME EndInv, NEW n \in Nodes, espconn_udp_disconnect(n)
  PROVE  EndInv' /\ (Linked => Linked')
<1> USE DEF EndInv
<1>1. /\ msg[n].kind = "udp" /\ OnList(n) /\ msg' = [msg EXCEPT ![n] = NoMsg]
      /\ active' = espconn_list_delete(active, n) /\ UNCHANGED <<pcb, posts, server>>
  BY DEF espconn_udp_disconnect, Of
<1>2. (\A k \in Nodes : k # n => msg'[k] = msg[k]) /\ msg'[n].kind = "free"
  BY <1>1 DEF TypeOK, NoMsg
<1>3. Distinct(active) /\ In(active, n)
  BY <1>1, OnListIn DEF ListExact, Distinct
<1>4. /\ active' \in Seq(Nodes)
      /\ Distinct(active')
      /\ \A v : In(active', v) <=> In(active, v) /\ v # n
  BY <1>1, <1>3, DeleteFacts DEF TypeOK
<1>5. TypeOK'
  BY <1>1, <1>4, NoneType DEF TypeOK, server
<1>6. ListExact'
  <2>1. \A k \in Nodes : In(active', k) <=> msg'[k].kind # "free"
    BY <1>2, <1>4, OnListIn DEF ListExact
  <2>2. QED
    BY <1>4, <2>1, OnListIn DEF ListExact, Distinct
<1>7. \A k \in Nodes : msg[k].kind \in Conn \/ msg'[k].kind \in Conn => k # n /\ msg'[k] = msg[k]
  BY <1>1, <1>2 DEF Conn
<1>8. PostsExact' /\ Noted'
  BY <1>1, <1>7 DEF PostsExact, Noted
<1>9. \A k \in Nodes : (Open(k)' <=> Open(k)) /\ (Open(k) => msg'[k] = msg[k])
  BY <1>7 DEF Open
<1>10. Callers'
  BY <1>1, <1>9 DEF Callers
<1>11. ASSUME Linked PROVE Linked'
  BY <1>1, <1>7, <1>9, <1>11, UnlinkedLinked
<1>12. QED
  BY <1>5, <1>6, <1>8, <1>10, <1>11

\* espconn_client_connect: lwIP calls it with the node of an open client.
LEMMA ClientConnectInv ==
  ASSUME EndInv, NEW p \in Pcbs, espconn_client_connect(p)
  PROVE  EndInv' /\ (Linked => Linked')
<1> USE DEF EndInv
<1> DEFINE n == pcb[p].arg
           m == [msg[n] EXCEPT !.state = "CONNECT", !.local_ip = TRUE]
           q == [pcb[p] EXCEPT !.state = "ESTABLISHED", !.recv = TRUE]
<1>1. pcb[p].state = "SYN_SENT" /\ n \in Nodes /\ Open(n) /\ msg[n].pcb = p
  BY CallerFacts DEF espconn_client_connect, UpStates
<1>2. msg[n] \in MsgType /\ pcb[p] \in PcbType
  BY <1>1 DEF TypeOK
<1>3. /\ m \in MsgType /\ m.state = "CONNECT" /\ m.local_ip = TRUE /\ m.kind = msg[n].kind
      /\ m.pcb = msg[n].pcb /\ m.espconn = msg[n].espconn
  BY <1>2 DEF MsgType
<1>4. /\ q \in PcbType /\ q.state = "ESTABLISHED" /\ q.arg = n /\ q.tuple = pcb[p].tuple
      /\ q.port = pcb[p].port /\ q.err = pcb[p].err /\ q.poll = pcb[p].poll
  BY <1>2 DEF PcbType, UpStates
<1>5. /\ msg' = [msg EXCEPT ![n] = m] /\ pcb' = [pcb EXCEPT ![p] = q]
      /\ UNCHANGED <<active, posts, server>>
  BY DEF espconn_client_connect
<1> HIDE DEF n, m, q
<1>6. TypeOK'
  BY <1>1, <1>3, <1>4, <1>5 DEF TypeOK, server
<1>7. (\A k \in Nodes : k # n => msg'[k] = msg[k]) /\ msg'[n] = m
  BY <1>1, <1>5 DEF TypeOK
<1>8. (\A r \in Pcbs : r # p => pcb'[r] = pcb[r]) /\ pcb'[p] = q
  BY <1>5 DEF TypeOK
<1>9. \A k \in Nodes : /\ msg'[k].kind = msg[k].kind
                       /\ msg'[k].state = "CLOSE" <=> msg[k].state = "CLOSE"
  BY <1>1, <1>3, <1>7 DEF Open
<1>10. ListExact' /\ PostsExact' /\ Noted'
  <2>1. \A k \in Nodes : msg'[k].pcb = msg[k].pcb
    BY <1>3, <1>7
  <2>2. QED
    BY <1>5, <1>9, <2>1 DEF ListExact, OnList, PostsExact, Noted
<1>11. \A k \in Nodes : Open(k)' <=> Open(k)
  BY <1>9 DEF Open
<1>12. Callers'
  BY <1>1, <1>3, <1>4, <1>7, <1>8, <1>11 DEF Callers, UpStates
<1>13. ASSUME Linked PROVE Linked'
  <2> USE <1>13 DEF Linked
  <2>1. EndsWithAddress'
    BY <1>1, <1>3, <1>5, <1>7, PostsType DEF EndsWithAddress
  <2>2. \A k \in Nodes : Open(k) /\ k # n => msg[k].pcb # p /\ msg[k].pcb \in Pcbs
    BY <1>1 DEF Forward, Noted, Open
  <2>3. ASSUME NEW k \in Nodes, Open(k)', k # n
        PROVE  /\ Open(k) /\ msg'[k] = msg[k]
               /\ msg[k].pcb \in Pcbs /\ pcb'[msg[k].pcb] = pcb[msg[k].pcb]
    BY <1>7, <1>8, <1>11, <2>2, <2>3
  <2>4. /\ pcb[p].tuple = n /\ pcb[p].err
        /\ pcb[p].port = IF msg[n].kind = "client" THEN msg[n].espconn ELSE "listen"
        /\ pcb[p].poll => msg[n].kind = "server"
    BY <1>1 DEF Forward
  <2>5. /\ msg'[n].pcb = p /\ p \in Pcbs /\ pcb'[p].state = "ESTABLISHED" /\ msg'[n].local_ip
        /\ pcb'[p].arg = n /\ pcb'[p].tuple = n /\ pcb'[p].err
        /\ pcb'[p].port = IF msg'[n].kind = "client" THEN msg'[n].espconn ELSE "listen"
        /\ pcb'[p].poll => msg'[n].kind = "server"
    <3>1. msg'[n] = m /\ pcb'[p] = q
      BY <1>7, <1>8
    <3>2. msg'[n].pcb = p /\ msg'[n].local_ip
      BY <1>1, <1>3, <3>1
    <3>3. pcb'[p].state = "ESTABLISHED" /\ pcb'[p].arg = n /\ pcb'[p].tuple = n /\ pcb'[p].err
      BY <1>4, <2>4, <3>1
    <3>4. pcb'[p].port = IF msg'[n].kind = "client" THEN msg'[n].espconn ELSE "listen"
      BY <1>3, <1>4, <2>4, <3>1
    <3>5. pcb'[p].poll => msg'[n].kind = "server"
      BY <1>3, <1>4, <2>4, <3>1
    <3>6. QED
      BY <3>2, <3>3, <3>4, <3>5
  <2>6. Forward'
    BY <2>3, <2>5 DEF Forward, UpStates
  <2>7. Attached'
    BY <1>1, <1>4, <1>8, PcbAssumption DEF Attached, UpStates
  <2>8. QED
    BY <2>1, <2>6, <2>7
<1>14. QED
  BY <1>6, <1>10, <1>12, <1>13

\* The remote host closes: the receive function is called with the node of an
\* open connection.
LEMMA RemoteFinInv ==
  ASSUME EndInv, NEW p \in Pcbs, RemoteFin(p)
  PROVE  EndInv' /\ (Linked => Linked')
<1> DEFINE n == pcb[p].arg
           w == [pcb[p] EXCEPT !.state = "CLOSE_WAIT"]
           check == IF "MANUALRECV" \in msg[n].opt THEN 0 ELSE msg[n].recv_check
<1>1. n \in Nodes /\ Open(n) /\ msg[n].pcb = p /\ pcb[p].state = "ESTABLISHED"
  BY CallerFacts DEF RemoteFin, UpStates
<1>2. Linked => msg[n].local_ip
  BY <1>1 DEF Linked, Forward
<1>3. pcb[p] \in PcbType /\ msg[n] \in MsgType
  BY <1>1 DEF EndInv, TypeOK
<1>4. /\ w \in PcbType /\ w.state = "CLOSE_WAIT" /\ w.arg = pcb[p].arg /\ w.tuple = pcb[p].tuple
      /\ w.port = pcb[p].port /\ w.err = pcb[p].err /\ w.poll = pcb[p].poll
  BY <1>3 DEF PcbType, UpStates
<1>5. check \in Nat
  BY <1>3 DEF MsgType
<1>6. UNCHANGED <<active, server>>
  BY DEF RemoteFin
<1>7. CASE \E out \in tcp_close(w) : Ended(n, out, check)
  <2>1. PICK out \in tcp_close(w) : Ended(n, out, check)
    BY <1>7
  <2> HIDE DEF n, w, check
  <2>2. QED
    BY <1>1, <1>2, <1>4, <1>5, <1>6, <2>1, EndedInv
<1>8. CASE pcb' = [pcb EXCEPT ![p].state = "CLOSE_WAIT"] /\ UNCHANGED <<msg, posts>>
  <2> DEFINE m == msg[n]
  <2>1. pcb' = [pcb EXCEPT ![p] = w] /\ msg' = [msg EXCEPT ![n] = m]
    BY <1>8 DEF EndInv, TypeOK
  <2>2. /\ m \in MsgType /\ m.state # "CLOSE" /\ m.kind = msg[n].kind /\ m.pcb = msg[n].pcb
        /\ m.espconn = msg[n].espconn /\ m.local_ip = msg[n].local_ip
    BY <1>1, <1>3 DEF Open
  <2>3. {w.state, pcb[p].state} \subseteq {"ESTABLISHED", "CLOSE_WAIT"}
    BY <1>1, <1>4
  <2> HIDE DEF n, w, m
  <2>4. UNCHANGED <<active, posts, server>>
    BY <1>6, <1>8
  <2>5. EndInv' /\ (Linked => Linked')
    BY <1>1, <1>4, <2>1, <2>2, <2>3, <2>4, StaysInv
  <2>6. QED
    BY <2>5
<1>9. QED
  BY <1>7, <1>8 DEF RemoteFin

\* Data or an acknowledgement arrives for an open connection.
LEMMA TrafficInv ==
  ASSUME EndInv, NEW n \in Nodes, Traffic(n)
  PROVE  EndInv' /\ (Linked => Linked')
<1>1. msg[n] \in MsgType /\ msg[n].kind \in Conn
  BY DEF Traffic, Of, Conn, EndInv, TypeOK
<1>2. msg[n].pcb \in Pcbs /\ pcb[msg[n].pcb].state \in UpStates
  BY <1>1, CallerFacts DEF Traffic, EndInv, Noted, Quiet
<1>3. Open(n)
  BY <1>2, CallerFacts, PcbAssumption DEF Traffic
<1> DEFINE m == [msg[n] EXCEPT !.state = "CONNECT", !.recv_check = 0]
<1>4. /\ m \in MsgType /\ m.state = "CONNECT" /\ m.kind = msg[n].kind /\ m.pcb = msg[n].pcb
      /\ m.espconn = msg[n].espconn /\ m.local_ip = msg[n].local_ip
  BY <1>1 DEF MsgType
<1>5. msg' = [msg EXCEPT ![n] = m] /\ UNCHANGED <<active, pcb, posts, server>>
  BY DEF Traffic
<1> HIDE DEF m
<1>6. QED
  BY <1>3, <1>4, <1>5, SameInv

\* An error ends the connection of the pcb, if it has one.
LEMMA ErrorInv ==
  ASSUME EndInv, NEW p \in Pcbs, ConnectionError(p)
  PROVE  EndInv' /\ (Linked => Linked')
<1> DEFINE n == pcb[p].arg
<1>1. pcb' = [pcb EXCEPT ![p] = NoPcb] /\ UNCHANGED <<active, server>>
  BY DEF ConnectionError
<1>2. CASE pcb[p].err /\ n # NULL
  <2>1. n \in Nodes /\ Open(n) /\ msg[n].pcb = p
    BY <1>2, CallerFacts DEF Quiet
  <2> DEFINE m == [msg[n] EXCEPT !.state = "CLOSE"]
  <2>2. msg[n] \in MsgType
    BY <2>1 DEF EndInv, TypeOK
  <2>3. /\ m \in MsgType /\ m.state = "CLOSE" /\ m.kind = msg[n].kind /\ m.pcb = msg[n].pcb
        /\ m.espconn = msg[n].espconn /\ m.local_ip = msg[n].local_ip
    BY <2>2 DEF MsgType
  <2>4. msg' = [msg EXCEPT ![n] = m] /\ posts' = ets_post("ERRER", n)
    BY <1>2 DEF ConnectionError
  <2> HIDE DEF n, m
  <2>5. QED
    BY <1>1, <2>1, <2>3, <2>4, NoneType, EndsInv
<1>3. CASE ~(pcb[p].err /\ n # NULL)
  <2>1. UNCHANGED <<msg, posts>>
    BY <1>3 DEF ConnectionError
  <2>2. pcb' \in [Pcbs -> PcbType]
    BY <1>1, NoneType DEF EndInv, TypeOK
  <2>3. \A r \in Pcbs : pcb'[r] = pcb[r] \/ (r = p /\ pcb'[r] = NoPcb)
    BY <1>1 DEF EndInv, TypeOK
  <2>4. Linked => pcb[p].state \notin UpStates
    BY <1>3, CallerFacts DEF Linked, Attached, Forward
  <2>5. listening' \in BOOLEAN /\ count_opt' \in Nat /\ timeout' \in Nat
    BY <1>1 DEF server, EndInv, TypeOK
  <2>6. QED
    BY <1>1, <2>1, <2>2, <2>3, <2>4, <2>5, NoneType, PcbsInv
<1>4. QED
  BY <1>2, <1>3

\* espconn_server_poll is called with the node of an open connection, and ends
\* it or counts.
LEMMA PollInv ==
  ASSUME EndInv, NEW p \in Pcbs, espconn_server_poll(p)
  PROVE  EndInv' /\ (Linked => Linked')
<1> DEFINE n == pcb[p].arg
           check == msg[n].recv_check + 1
<1>1. n \in Nodes /\ Open(n) /\ msg[n].pcb = p
  BY CallerFacts DEF espconn_server_poll, Quiet
<1>2. msg[n] \in MsgType /\ msg[n].recv_check \in Nat /\ check \in Nat /\ pcb[p] \in PcbType
  BY <1>1 DEF EndInv, TypeOK, MsgType
<1>3. Linked => msg[n].local_ip
  BY <1>1 DEF espconn_server_poll, Linked, EndsWithAddress, Forward
<1>4. UNCHANGED <<active, server>>
  BY DEF espconn_server_poll
<1>5. CASE PollCloses(pcb[p], check)
  <2> DEFINE c == IF pcb[p].state = "ESTABLISHED" THEN 0 ELSE msg[n].recv_check
             q == pcb[p]
  <2>1. espconn_close(n, c) /\ c \in Nat /\ q = pcb[msg[n].pcb] /\ q \in PcbType
    BY <1>1, <1>2, <1>5 DEF espconn_server_poll
  <2>2. PICK out \in tcp_close(q) : Ended(n, out, c)
    BY <2>1 DEF espconn_close
  <2> HIDE DEF n, c, q
  <2>3. QED
    BY <1>1, <1>3, <1>4, <2>1, <2>2, EndedInv
<1>6. CASE ~PollCloses(pcb[p], check)
  <2> DEFINE m == [msg[n] EXCEPT !.recv_check = IF timeout = 0 THEN 0 ELSE check]
  <2>1. msg' = [msg EXCEPT ![n] = m] /\ UNCHANGED <<pcb, posts>>
    BY <1>6 DEF espconn_server_poll
  <2>2. /\ m \in MsgType /\ m.state = msg[n].state /\ m.kind = msg[n].kind
        /\ m.pcb = msg[n].pcb /\ m.espconn = msg[n].espconn /\ m.local_ip = msg[n].local_ip
    BY <1>2 DEF MsgType
  <2>3. m.state # "CLOSE"
    BY <1>1, <2>2 DEF Open
  <2> HIDE DEF n, m
  <2>4. QED
    BY <1>1, <1>4, <2>1, <2>2, <2>3, SameInv
<1>7. QED
  BY <1>5, <1>6

\* A closed connection comes to its end in lwIP.
LEMMA ClosingInv ==
  ASSUME EndInv, NEW p \in Pcbs, lwip_closing(p)
  PROVE  EndInv' /\ (Linked => Linked')
<1>1. pcb[p] \in PcbType /\ Quiet(pcb[p])
  BY CallerFacts DEF lwip_closing, EndInv, TypeOK, UpStates
<1> DEFINE w == [pcb[p] EXCEPT !.state = "TIME_WAIT"]
<1>2. w \in PcbType /\ Quiet(w)
  BY <1>1 DEF PcbType, DownStates, UpStates, Quiet
<1>3. /\ pcb' = [pcb EXCEPT ![p] = w] \/ pcb' = [pcb EXCEPT ![p] = NoPcb]
      /\ UNCHANGED <<msg, active, posts, server>>
  BY DEF lwip_closing
<1> HIDE DEF w
<1>4. pcb' \in [Pcbs -> PcbType]
  BY <1>2, <1>3, NoneType DEF EndInv, TypeOK
<1>5. \A r \in Pcbs : pcb'[r] = pcb[r] \/ (r = p /\ pcb'[r] \in {w, NoPcb})
  BY <1>3 DEF EndInv, TypeOK
<1>6. listening' \in BOOLEAN /\ count_opt' \in Nat /\ timeout' \in Nat
  BY <1>3 DEF server, EndInv, TypeOK
<1>7. /\ \A r \in Pcbs : pcb'[r] = pcb[r] \/ Quiet(pcb'[r])
      /\ \A r \in Pcbs : pcb[r].state \in UpStates => pcb'[r] = pcb[r]
  BY <1>1, <1>2, <1>5, NoneType DEF Quiet
<1>8. QED
  BY <1>3, <1>4, <1>6, <1>7, PcbsInv

\* espconn_tcp_accept takes a free node and the pcb that lwIP hands over.
LEMMA AcceptInv ==
  ASSUME EndInv, NEW n \in Nodes, NEW p \in Pcbs, espconn_tcp_accept(n, p)
  PROVE  EndInv' /\ (Linked => Linked')
<1>1. PICK opt \in OptionSets :
        msg' = [msg EXCEPT ![n] = [NoMsg EXCEPT !.kind = "server", !.state = "CONNECT",
                                       !.pcb = p, !.local_ip = TRUE, !.opt = opt]]
  BY DEF espconn_tcp_accept
<1> DEFINE m == [NoMsg EXCEPT !.kind = "server", !.state = "CONNECT",
                              !.pcb = p, !.local_ip = TRUE, !.opt = opt]
           q == [state |-> "ESTABLISHED", arg |-> n, tuple |-> n, port |-> "listen",
                 recv |-> TRUE, err |-> TRUE, poll |-> TRUE]
<1>2. /\ m \in MsgType /\ m.kind = "server" /\ m.state = "CONNECT" /\ m.pcb = p
      /\ m.local_ip = TRUE
  BY DEF NoMsg, MsgType, Conn
<1>3. /\ q \in PcbType /\ q.state = "ESTABLISHED" /\ q.arg = n /\ q.tuple = n
      /\ q.port = "listen" /\ q.err = TRUE
  BY DEF PcbType, UpStates
<1>4. /\ msg[n].kind = "free" /\ p \in Available
      /\ active' = espconn_list_creat(active, n) /\ UNCHANGED <<posts, server>>
      /\ msg' = [msg EXCEPT ![n] = m] /\ pcb' = [pcb EXCEPT ![p] = q]
  BY <1>1 DEF espconn_tcp_accept
<1> HIDE DEF m, q
<1>5. m.kind \in Conn /\ q.state \in UpStates
  BY <1>2, <1>3 DEF Conn, UpStates
<1>6. QED
  BY <1>2, <1>3, <1>4, <1>5, StartInv

\* espconn_kill_oldest_pcb kills no pcb of an open connection.
LEMMA KilledDown ==
  ASSUME NEW V \in Killed, NEW p \in Pcbs, p \in V
  PROVE  pcb[p].state \notin UpStates
<1>1. \/ InStates(pcb, {"FIN_WAIT", "LAST_ACK"}) = Pcbs
      \/ InStates(pcb, {"TIME_WAIT"}) = Pcbs
  BY DEF Killed
<1>2. QED
  BY <1>1 DEF InStates, UpStates

\* The end of a connection ends no other one: at worst it takes the node from
\* a pcb.  From the pcb of an open connection it takes nothing, although pcbs
\* and nodes are reused, when the ended one has addresses: found by them, a pcb
\* is one of the ended connection (espconn_tcp_disconnect_successful).
LEMMA DetachedFacts ==
  ASSUME EndInv, NEW n \in Nodes, msg[n].kind \in Conn, msg[n].state = "CLOSE", NEW sig,
         NEW V \in Killed,
         pcb' = Detached(n, sig, [p \in Pcbs |-> IF p \in V THEN NoPcb ELSE pcb[p]])
  PROVE  /\ pcb' \in [Pcbs -> PcbType]
         /\ \A p \in Pcbs : \/ Quiet(pcb'[p])
                            \/ /\ pcb'[p].state \in UpStates /\ pcb[p].state \in UpStates
                               /\ pcb'[p].arg = NULL \/ pcb'[p].arg = pcb[p].arg
         /\ Linked /\ (sig = "CLOSE" => msg[n].local_ip) =>
                \A p \in Pcbs : pcb[p].state \in UpStates => pcb'[p] = pcb[p]
<1> DEFINE q == [p \in Pcbs |-> IF p \in V THEN NoPcb ELSE pcb[p]]
           found == IF sig = "CLOSE" THEN espconn_find_current_pcb(n, q) ELSE {}
           reuse == "REUSEADDR" \in msg[n].opt
           After(p) ==
             CASE ~reuse /\ p \in found -> [q[p] EXCEPT !.arg = NULL, !.err = FALSE]
               [] reuse /\ q[p].state = "TIME_WAIT" /\ (\E f \in found : q[f].port = q[p].port) -> NoPcb
               [] OTHER -> q[p]
           Kept(r, p) == Quiet(r) \/ /\ r.state \in UpStates /\ pcb[p].state \in UpStates
                                     /\ r.arg = NULL \/ r.arg = pcb[p].arg
           d == pcb'
<1>1. d = [p \in Pcbs |-> IF After(p).tuple = n THEN [After(p) EXCEPT !.tuple = NULL] ELSE After(p)]
  BY DEF Detached
<1>2. \A p \in Pcbs : q[p] \in PcbType
  BY NoneType DEF EndInv, TypeOK
<1>3. \A p \in Pcbs : pcb[p].state \in UpStates => q[p] = pcb[p]
  BY KilledDown
<1>4. \A p \in Pcbs : Quiet(q[p]) \/ (pcb[p].state \in UpStates /\ q[p] = pcb[p])
  BY NoneType, CallerFacts
<1>5. (sig = "CLOSE" => msg[n].local_ip) => \A p \in found : q[p].tuple = n
  BY DEF espconn_find_current_pcb
<1>6. Linked => \A p \in Pcbs : pcb[p].state \in UpStates => pcb[p].tuple # n
  <2>1. SUFFICES ASSUME Linked, NEW p \in Pcbs, pcb[p].state \in UpStates
                 PROVE  pcb[p].tuple # n
    OBVIOUS
  <2>2. /\ pcb[p].arg \in Nodes /\ Open(pcb[p].arg) /\ msg[pcb[p].arg].pcb = p
    BY <2>1, CallerFacts DEF Linked, Attached
  <2>3. pcb[p].tuple = pcb[p].arg
    BY <2>1, <2>2 DEF Linked, Forward
  <2>4. QED
    BY <2>2, <2>3 DEF Open
<1> HIDE DEF d, q, found, reuse
<1>7. ASSUME NEW p \in Pcbs, Linked, sig = "CLOSE" => msg[n].local_ip, pcb[p].state \in UpStates
      PROVE  After(p) = pcb[p]
  <2>1. p \notin found /\ q[p].state # "TIME_WAIT"
    BY <1>3, <1>5, <1>6, <1>7 DEF UpStates
  <2>2. QED
    BY <1>3, <1>7, <2>1
<1>8. ASSUME NEW p \in Pcbs
      PROVE  After(p) \in PcbType /\ Kept(After(p), p)
  <2> DEFINE c == [q[p] EXCEPT !.arg = NULL, !.err = FALSE]
  <2>1. After(p) \in {c, NoPcb, q[p]}
    OBVIOUS
  <2>2. /\ c \in PcbType /\ c.state = q[p].state /\ c.arg = NULL /\ c.recv = q[p].recv
        /\ c.err = FALSE /\ c.poll = q[p].poll
    BY <1>2 DEF PcbType
  <2> HIDE DEF c, After
  <2>3. CASE After(p) = c
    BY <1>4, <2>2, <2>3 DEF Quiet
  <2>4. CASE After(p) = NoPcb
    BY <2>4, NoneType
  <2>5. CASE After(p) = q[p]
    BY <1>2, <1>4, <2>5
  <2>6. QED
    BY <2>1, <2>3, <2>4, <2>5
<1> HIDE DEF After
<1>9. ASSUME NEW p \in Pcbs
      PROVE  /\ d[p] \in PcbType /\ Kept(d[p], p)
             /\ Linked /\ (sig = "CLOSE" => msg[n].local_ip) /\ pcb[p].state \in UpStates
                    => d[p] = pcb[p]
  <2>1. CASE After(p).tuple = n
    <3> DEFINE e == [After(p) EXCEPT !.tuple = NULL]
    <3>1. d[p] = e
      BY <1>1, <2>1
    <3>2. Linked /\ (sig = "CLOSE" => msg[n].local_ip) => pcb[p].state \notin UpStates
      BY <1>6, <1>7, <2>1
    <3>3. /\ e \in PcbType /\ e.state = After(p).state /\ e.arg = After(p).arg
          /\ e.recv = After(p).recv /\ e.err = After(p).err /\ e.poll = After(p).poll
      BY <1>8 DEF PcbType
    <3> HIDE DEF e
    <3>4. QED
      BY <1>8, <3>1, <3>2, <3>3 DEF Quiet
  <2>2. CASE After(p).tuple # n
    <3>1. d[p] = After(p)
      BY <1>1, <2>2
    <3>2. QED
      BY <1>7, <1>8, <3>1
  <2>3. QED
    BY <2>1, <2>2
<1>10. d \in [Pcbs -> PcbType]
  <2>1. DOMAIN d = Pcbs /\ d = [p \in Pcbs |-> d[p]]
    BY <1>1
  <2>2. QED
    BY <1>9, <2>1
<1>11. QED
  BY <1>9, <1>10 DEF d

\* espconn_Task reports the end of a connection and frees its node: only the
\* message that is handled concerned this node.
LEMMA TaskInv ==
  ASSUME EndInv, espconn_Task
  PROVE  EndInv' /\ (Linked => Linked')
<1> USE DEF EndInv
<1> DEFINE n == Head(posts).par
           sig == Head(posts).sig
<1>1. posts \in Seq(PostType) /\ posts # <<>> /\ posts' = Tail(posts)
  BY DEF espconn_Task, TypeOK
<1>2. Len(posts) \in Nat /\ 1 \in 1 .. Len(posts) /\ Head(posts) = posts[1]
  BY <1>1
<1>3. /\ posts' \in Seq(PostType) /\ Len(posts') = Len(posts) - 1
      /\ \A i \in 1 .. Len(posts') : posts'[i] = posts[i + 1] /\ i + 1 \in 1 .. Len(posts)
  BY <1>1, <1>2, HeadTailProperties
<1>4. n \in Nodes /\ msg[n].kind \in Conn /\ msg[n].state = "CLOSE"
  BY <1>2, PostsType DEF PostsExact
<1>5. Linked /\ sig = "CLOSE" => msg[n].local_ip
  BY <1>2 DEF Linked, EndsWithAddress
<1>6. OnList(n)
  BY <1>4 DEF ListExact, Conn
<1>7. PICK V \in Killed :
        pcb' = Detached(n, sig, [p \in Pcbs |-> IF p \in V THEN NoPcb ELSE pcb[p]])
  BY <1>6 DEF espconn_Task
<1>8. /\ msg' = [msg EXCEPT ![n] = NoMsg] /\ active' = espconn_list_delete(active, n)
      /\ UNCHANGED server
  BY <1>6 DEF espconn_Task, Unlisted
<1> HIDE DEF n, sig
<1>9. /\ pcb' \in [Pcbs -> PcbType]
      /\ \A p \in Pcbs : \/ Quiet(pcb'[p])
                         \/ /\ pcb'[p].state \in UpStates /\ pcb[p].state \in UpStates
                            /\ pcb'[p].arg = NULL \/ pcb'[p].arg = pcb[p].arg
      /\ Linked => \A p \in Pcbs : pcb[p].state \in UpStates => pcb'[p] = pcb[p]
  BY <1>4, <1>5, <1>7, DetachedFacts
<1>10. (\A k \in Nodes : k # n => msg'[k] = msg[k]) /\ msg'[n].kind = "free"
  BY <1>4, <1>8 DEF TypeOK, NoMsg
<1>11. /\ active' \in Seq(Nodes)
       /\ Distinct(active')
       /\ \A v : In(active', v) <=> In(active, v) /\ v # n
  <2>1. Distinct(active) /\ In(active, n)
    BY <1>6, OnListIn DEF ListExact, Distinct
  <2>2. QED
    BY <1>4, <1>8, <2>1, DeleteFacts DEF TypeOK
<1>12. TypeOK'
  BY <1>3, <1>8, <1>9, <1>11, NoneType DEF TypeOK, server
<1>13. ListExact'
  <2>1. \A k \in Nodes : In(active', k) <=> msg'[k].kind # "free"
    BY <1>4, <1>10, <1>11, OnListIn DEF ListExact
  <2>2. QED
    BY <1>11, <2>1, OnListIn DEF ListExact, Distinct
<1>14. \A i \in 1 .. Len(posts') : posts'[i].par \in Nodes /\ posts'[i].par # n
  <2>1. \A i \in 1 .. Len(posts) : posts[i].par = n => i = 1
    BY <1>2 DEF PostsExact, n
  <2>2. QED
    BY <1>3, <2>1, PostsType
<1>15. PostsExact'
  <2>1. \A i, j \in 1 .. Len(posts') : posts'[i].par = posts'[j].par => i = j
    <3>1. SUFFICES ASSUME NEW i \in 1 .. Len(posts'), NEW j \in 1 .. Len(posts'),
                          posts'[i].par = posts'[j].par
                   PROVE  i = j
      OBVIOUS
    <3>2. posts[i + 1].par = posts[j + 1].par /\ i + 1 \in 1 .. Len(posts) /\ j + 1 \in 1 .. Len(posts)
      BY <1>3, <3>1
    <3>3. i + 1 = j + 1
      BY <3>2 DEF PostsExact
    <3>4. QED
      BY <1>2, <1>3, <3>3
  <2>2. ASSUME NEW k \in Nodes
        PROVE  (\E i \in 1 .. Len(posts') : posts'[i].par = k) <=>
                  (\E i \in 1 .. Len(posts) : posts[i].par = k) /\ k # n
    <3>1. ASSUME NEW i \in 1 .. Len(posts), posts[i].par = k, k # n
          PROVE  \E j \in 1 .. Len(posts') : posts'[j].par = k
      <4>1. i # 1
        BY <1>2, <3>1 DEF n
      <4>2. i - 1 \in 1 .. Len(posts') /\ i - 1 + 1 = i
        BY <1>2, <1>3, <4>1
      <4>3. posts'[i - 1].par = k
        BY <1>3, <3>1, <4>2
      <4>4. QED
        BY <4>2, <4>3
    <3>2. QED
      BY <1>3, <1>14, <3>1
  <2>3. ASSUME NEW k \in Nodes
        PROVE  (\E i \in 1 .. Len(posts') : posts'[i].par = k) <=>
                  msg'[k].kind \in Conn /\ msg'[k].state = "CLOSE"
    <3>1. CASE k = n
      BY <1>10, <2>2, <3>1 DEF Conn
    <3>2. CASE k # n
      BY <1>10, <2>2, <3>2 DEF PostsExact
    <3>3. QED
      BY <3>1, <3>2
  <2>4. QED
    BY <2>1, <2>3 DEF PostsExact
<1>16. Noted'
  BY <1>10 DEF Noted, Conn
<1>17. \A k \in Nodes : (Open(k)' <=> Open(k)) /\ (Open(k) => k # n)
  BY <1>4, <1>10 DEF Open, Conn
<1>18. Callers'
  BY <1>9, <1>10, <1>17 DEF Callers, Quiet
<1>19. ASSUME Linked PROVE Linked'
  <2> USE <1>19 DEF Linked
  <2>1. \A i \in 1 .. Len(posts') : posts'[i].sig = "CLOSE" => msg'[posts'[i].par].local_ip
    BY <1>3, <1>10, <1>14 DEF EndsWithAddress
  <2>2. EndsWithAddress'
    BY <1>10, <2>1 DEF EndsWithAddress, Conn
  <2>3. \A k \in Nodes : Open(k) => msg[k].pcb \in Pcbs
    BY DEF Noted, Open
  <2>4. Forward'
    BY <1>9, <1>10, <1>17, <2>3 DEF Forward
  <2>5. Attached'
    BY <1>9 DEF Attached, Quiet
  <2>6. QED
    BY <2>2, <2>4, <2>5
<1>20. QED
  BY <1>12, <1>13, <1>15, <1>16, <1>18, <1>19

-----------------------------------------------------------------------------
(* Whole steps. *)

\* What a step leaves of the invariants, whatever the application does.
LEMMA NextInv ==
  ASSUME EndInv, [Next]_vars, ~SecondDisconnect
  PROVE  EndInv' /\ (Linked /\ ~EndsConnecting => Linked')
<1>1. CASE Application
  <2>1. ASSUME NEW c \in Clients, NEW n \in Nodes, NEW p \in Pcbs, espconn_connect(c, n, p)
        PROVE  EndInv' /\ (Linked => Linked')
    BY <2>1, ConnectInv
  <2>2. ASSUME NEW c \in Clients, espconn_connect_noroute(c)
        PROVE  EndInv' /\ (Linked => Linked')
    BY <2>2, NoRouteInv
  <2>3. ASSUME \/ espconn_accept
               \/ \E num \in Limits : espconn_tcp_set_max_con_allow(num)
               \/ \E t \in Timeouts : espconn_regist_time(t)
        PROVE  EndInv' /\ (Linked => Linked')
    <3>1. listening \in BOOLEAN /\ count_opt \in Nat /\ timeout \in Nat
      BY DEF EndInv, TypeOK
    <3>2. MEMP_NUM_TCP_PCB \in Nat /\ Limits \subseteq Nat
      BY PcbAssumption, EnvAssumption, FS_CardinalityType
    <3>3. /\ listening' \in BOOLEAN /\ count_opt' \in Nat /\ timeout' \in Nat
          /\ UNCHANGED <<msg, active, pcb, posts>>
      BY <2>3, <3>1, <3>2, EnvAssumption
         DEF espconn_accept, espconn_tcp_set_max_con_allow, espconn_regist_time
    <3>4. QED
      BY <3>3, SettingInv
  <2>4. CASE espconn_tcp_delete
    BY <2>4, DeleteInv
  <2>5. ASSUME NEW n \in Nodes, espconn_disconnect(n) \/ espconn_abort(n)
        PROVE  EndInv' /\ (Linked /\ ~EndsConnecting => Linked')
    <3>1. msg[n].kind \in Conn
      BY <2>5 DEF espconn_disconnect, espconn_abort, MayEnd, Of, Conn
    <3>2. Linked /\ ~EndsConnecting => msg[n].local_ip
      BY <2>5, <3>1 DEF EndsConnecting, Linked, EndsWithAddress, Conn
    <3>3. CASE espconn_abort(n)
      BY <3>2, <3>3, AbortInv
    <3>4. CASE espconn_disconnect(n)
      <4>1. msg[n].state # "CLOSE"
        BY <3>4 DEF SecondDisconnect
      <4>2. QED
        BY <3>2, <3>4, <4>1, DisconnectInv
    <3>5. QED
      BY <2>5, <3>3, <3>4
  <2>6. ASSUME NEW n \in Nodes, espconn_sent(n)
        PROVE  EndInv' /\ (Linked => Linked')
    BY <2>6, SentInv
  <2>7. ASSUME NEW n \in Nodes, espconn_create(n) \/ espconn_udp_disconnect(n)
        PROVE  EndInv' /\ (Linked => Linked')
    BY <2>7, CreateInv, UdpDisconnectInv
  <2>8. QED
    BY <1>1, <2>1, <2>2, <2>3, <2>4, <2>5, <2>6, <2>7 DEF Application
<1>2. CASE Lwip
  <2>1. ASSUME NEW p \in Pcbs, espconn_client_connect(p) \/ RemoteFin(p) \/ ConnectionError(p)
        PROVE  EndInv' /\ (Linked => Linked')
    BY <2>1, ClientConnectInv, RemoteFinInv, ErrorInv
  <2>2. ASSUME NEW p \in Pcbs, espconn_server_poll(p) \/ lwip_closing(p)
        PROVE  EndInv' /\ (Linked => Linked')
    BY <2>2, PollInv, ClosingInv
  <2>3. ASSUME NEW n \in Nodes, NEW p \in Pcbs, espconn_tcp_accept(n, p)
        PROVE  EndInv' /\ (Linked => Linked')
    BY <2>3, AcceptInv
  <2>4. ASSUME NEW n \in Nodes, Traffic(n)
        PROVE  EndInv' /\ (Linked => Linked')
    BY <2>4, TrafficInv
  <2>5. QED
    BY <1>2, <2>1, <2>2, <2>3, <2>4 DEF Lwip
<1>3. CASE espconn_Task
  BY <1>3, TaskInv
<1>4. CASE UNCHANGED vars
  <2>1. UNCHANGED <<msg, active, pcb, posts>> /\ UNCHANGED server
    BY <1>4 DEF vars
  <2>2. listening' \in BOOLEAN /\ count_opt' \in Nat /\ timeout' \in Nat /\ pcb' \in [Pcbs -> PcbType]
    BY <2>1 DEF server, EndInv, TypeOK
  <2>3. QED
    BY <2>1, <2>2, PcbsInv
<1>5. QED
  BY <1>1, <1>2, <1>3, <1>4 DEF Next

\* What EndInv says of the task queue.
LEMMA EndInvMessage ==
  ASSUME EndInv
  PROVE  OneEndMessage
<1>1. ASSUME NEW n \in Nodes
      PROVE  Cardinality(EndsOf(n)) =
                 IF n \in Of({"client", "server"}) /\ msg[n].state = "CLOSE" THEN 1 ELSE 0
  <2>1. n \in Of({"client", "server"}) <=> msg[n].kind \in Conn
    <3>1. Of({"client", "server"}) = {k \in Nodes : msg[k].kind \in {"client", "server"}}
      BY OfKind DEF EndInv
    <3>2. QED
      BY <3>1 DEF Conn
  <2>2. CASE msg[n].kind \in Conn /\ msg[n].state = "CLOSE"
    <3>1. PICK i \in 1 .. Len(posts) : posts[i].par = n
      BY <2>2 DEF EndInv, PostsExact
    <3>2. EndsOf(n) = {i}
      BY <3>1 DEF EndsOf, EndInv, PostsExact
    <3>3. Cardinality(EndsOf(n)) = 1
      BY <3>2, FS_Singleton
    <3>4. QED
      BY <2>1, <2>2, <3>3
  <2>3. CASE ~(msg[n].kind \in Conn /\ msg[n].state = "CLOSE")
    <3>1. EndsOf(n) = {}
      BY <2>3 DEF EndsOf, EndInv, PostsExact
    <3>2. Cardinality(EndsOf(n)) = 0
      BY <3>1, FS_EmptySet
    <3>3. QED
      BY <2>1, <2>3, <3>2
  <2>4. QED
    BY <2>2, <2>3
<1>2. QED
  BY <1>1 DEF OneEndMessage

\* What EndInv says of the arguments of pcbs.
LEMMA EndInvArg ==
  ASSUME EndInv
  PROVE  NoDanglingArg
<1>1. ASSUME NEW p \in Pcbs, pcb[p].recv \/ pcb[p].err \/ pcb[p].poll, pcb[p].arg # NULL
      PROVE  pcb[p].arg \in Of({"client", "server"}) /\ msg[pcb[p].arg].pcb = p
  <2>1. pcb[p].arg \in Nodes /\ Open(pcb[p].arg) /\ msg[pcb[p].arg].pcb = p
    BY <1>1, CallerFacts DEF Quiet
  <2>2. Of({"client", "server"}) = {k \in Nodes : msg[k].kind \in {"client", "server"}}
    BY OfKind DEF EndInv
  <2>3. QED
    BY <2>1, <2>2 DEF Open, Conn
<1>2. QED
  BY <1>1 DEF NoDanglingArg

\* What LinkInv says of open connections.
LEMMA LinkInvIntact ==
  ASSUME LinkInv
  PROVE  LinkIntact
<1>1. ASSUME NEW n \in Of({"client", "server"}), msg[n].state # "CLOSE"
      PROVE  /\ pcb[msg[n].pcb].state \notin {"FREE", "TIME_WAIT", "LAST_ACK", "FIN_WAIT"}
             /\ pcb[msg[n].pcb].arg = n /\ pcb[msg[n].pcb].err
  <2>1. n \in Nodes /\ Open(n)
    BY <1>1 DEF Of, Open, Conn
  <2>2. QED
    BY <2>1 DEF LinkInv, Linked, Forward, UpStates
<1>2. QED
  BY <1>1 DEF LinkIntact

-----------------------------------------------------------------------------
(* The list of connections, in every run of the program: no application,   *)
(* however it calls espconn, makes the list and the blocks disagree.       *)

\* A step that changes one node, or none, and keeps what it is used for.
LEMMA KeptNode ==
  ASSUME msg \in [Nodes -> MsgType], NEW n, NEW m,
         n \in Nodes => m \in MsgType /\ m.kind = msg[n].kind,
         msg' = [msg EXCEPT ![n] = m]
  PROVE  msg' \in [Nodes -> MsgType] /\ \A k \in Nodes : msg'[k].kind = msg[k].kind
OBVIOUS

\* The end of a connection keeps what its node is used for.
LEMMA KeptEnded ==
  ASSUME msg \in [Nodes -> MsgType], NEW n, NEW out, NEW check,
         n \in Nodes => check \in Nat, Ended(n, out, check)
  PROVE  msg' \in [Nodes -> MsgType] /\ \A k \in Nodes : msg'[k].kind = msg[k].kind
<1> DEFINE m == Stopped(msg[n], out.ok, check)
<1>1. n \in Nodes => m \in MsgType /\ m.kind = msg[n].kind
  BY StoppedFacts
<1>2. msg' = [msg EXCEPT ![n] = m]
  BY DEF Ended
<1> HIDE DEF m
<1>3. QED
  BY <1>1, <1>2, KeptNode

\* Steps of the application and of lwIP that leave the list alone.
LEMMA KeptStep ==
  ASSUME msg \in [Nodes -> MsgType],
         \/ \E c \in Clients : espconn_connect_noroute(c)
         \/ espconn_accept \/ espconn_tcp_delete
         \/ \E num \in Limits : espconn_tcp_set_max_con_allow(num)
         \/ \E t \in Timeouts : espconn_regist_time(t)
         \/ \E n \in Nodes : espconn_disconnect(n) \/ espconn_abort(n) \/ espconn_sent(n) \/ Traffic(n)
         \/ \E p \in Pcbs : \/ espconn_client_connect(p) \/ RemoteFin(p) \/ ConnectionError(p)
                            \/ espconn_server_poll(p) \/ lwip_closing(p)
         \/ UNCHANGED vars
  PROVE  /\ msg' \in [Nodes -> MsgType] /\ active' = active
         /\ \A k \in Nodes : msg'[k].kind = msg[k].kind
<1> DEFINE Kept == /\ msg' \in [Nodes -> MsgType] /\ active' = active
                   /\ \A k \in Nodes : msg'[k].kind = msg[k].kind
<1>1. \A k \in Nodes : msg[k] \in MsgType /\ msg[k].recv_check \in Nat
  BY DEF MsgType
<1>2. CASE \/ \E c \in Clients : espconn_connect_noroute(c)
           \/ espconn_accept \/ espconn_tcp_delete
           \/ \E num \in Limits : espconn_tcp_set_max_con_allow(num)
           \/ \E t \in Timeouts : espconn_regist_time(t)
           \/ \E p \in Pcbs : lwip_closing(p)
           \/ UNCHANGED vars
  BY <1>2 DEF espconn_connect_noroute, espconn_accept, espconn_tcp_delete,
     espconn_tcp_set_max_con_allow, espconn_regist_time, lwip_closing, vars
<1>3. ASSUME NEW n \in Nodes, espconn_disconnect(n)
      PROVE  Kept
  <2>1. PICK out \in tcp_close(pcb[msg[n].pcb]) : Ended(n, out, msg[n].recv_check)
    BY <1>3 DEF espconn_disconnect, espconn_close
  <2>2. QED
    BY <1>1, <1>3, <2>1, KeptEnded DEF espconn_disconnect
<1>4. ASSUME NEW n \in Nodes, espconn_abort(n)
      PROVE  Kept
  <2>1. \E out : Ended(n, out, msg[n].recv_check)
    BY <1>4 DEF espconn_abort, espconn_close_abort
  <2>2. QED
    BY <1>1, <1>4, <2>1, KeptEnded DEF espconn_abort
<1>5. ASSUME NEW n \in Nodes, espconn_sent(n)
      PROVE  Kept
  <2> DEFINE m == [msg[n] EXCEPT !.state = "WRITE"]
  <2>1. m \in MsgType /\ m.kind = msg[n].kind
    BY <1>1 DEF MsgType
  <2>2. msg' = [msg EXCEPT ![n] = m] /\ active' = active
    BY <1>5 DEF espconn_sent
  <2> HIDE DEF m
  <2>3. QED
    BY <2>1, <2>2, KeptNode
<1>6. ASSUME NEW n \in Nodes, Traffic(n)
      PROVE  Kept
  <2> DEFINE m == [msg[n] EXCEPT !.state = "CONNECT", !.recv_check = 0]
  <2>1. m \in MsgType /\ m.kind = msg[n].kind
    BY <1>1 DEF MsgType
  <2>2. msg' = [msg EXCEPT ![n] = m] /\ active' = active
    BY <1>6 DEF Traffic
  <2> HIDE DEF m
  <2>3. QED
    BY <2>1, <2>2, KeptNode
<1>7. ASSUME NEW p \in Pcbs, espconn_client_connect(p)
      PROVE  Kept
  <2> DEFINE n == pcb[p].arg
             m == [msg[n] EXCEPT !.state = "CONNECT", !.local_ip = TRUE]
  <2>1. n \in Nodes => m \in MsgType /\ m.kind = msg[n].kind
    BY <1>1 DEF MsgType
  <2>2. msg' = [msg EXCEPT ![n] = m] /\ active' = active
    BY <1>7 DEF espconn_client_connect
  <2> HIDE DEF n, m
  <2>3. QED
    BY <2>1, <2>2, KeptNode
<1>8. ASSUME NEW p \in Pcbs, ConnectionError(p)
      PROVE  Kept
  <2> DEFINE n == pcb[p].arg
             m == [msg[n] EXCEPT !.state = "CLOSE"]
  <2>1. n \in Nodes => m \in MsgType /\ m.kind = msg[n].kind
    BY <1>1 DEF MsgType
  <2>2. (msg' = [msg EXCEPT ![n] = m] \/ msg' = msg) /\ active' = active
    BY <1>8 DEF ConnectionError
  <2> HIDE DEF n, m
  <2>3. QED
    BY <2>1, <2>2, KeptNode
<1>9. ASSUME NEW p \in Pcbs, RemoteFin(p)
      PROVE  Kept
  <2> DEFINE n == pcb[p].arg
             check == IF "MANUALRECV" \in msg[n].opt THEN 0 ELSE msg[n].recv_check
  <2>1. n \in Nodes => check \in Nat
    BY <1>1
  <2>2. ((\E out : Ended(n, out, check)) \/ msg' = msg) /\ active' = active
    BY <1>9 DEF RemoteFin
  <2> HIDE DEF n, check
  <2>3. QED
    BY <2>1, <2>2, KeptEnded
<1>10. ASSUME NEW p \in Pcbs, espconn_server_poll(p)
       PROVE  Kept
  <2> DEFINE n == pcb[p].arg
             c == IF pcb[p].state = "ESTABLISHED" THEN 0 ELSE msg[n].recv_check
             m == [msg[n] EXCEPT !.recv_check = IF timeout = 0 THEN 0 ELSE @ + 1]
  <2>1. n \in Nodes => c \in Nat /\ m \in MsgType /\ m.kind = msg[n].kind
    BY <1>1 DEF MsgType
  <2>2. active' = active /\ ((\E out : Ended(n, out, c)) \/ msg' = [msg EXCEPT ![n] = m])
    BY <1>10 DEF espconn_server_poll, espconn_close
  <2> HIDE DEF n, c, m
  <2>3. QED
    BY <2>1, <2>2, KeptEnded, KeptNode
<1>11. QED
  BY <1>2, <1>3, <1>4, <1>5, <1>6, <1>7, <1>8, <1>9, <1>10

\* A step takes a free block for a connection and puts it on the list, frees
\* one and takes it from the list, or leaves the list alone.
LEMMA BookStep ==
  ASSUME msg \in [Nodes -> MsgType], active \in Seq(Nodes), [Next]_vars
  PROVE  \/ /\ msg' \in [Nodes -> MsgType] /\ active' = active
            /\ \A k \in Nodes : msg'[k].kind = msg[k].kind
         \/ \E n \in Nodes, m \in MsgType :
              /\ msg[n].kind = "free" /\ m.kind # "free"
              /\ msg' = [msg EXCEPT ![n] = m] /\ active' = espconn_list_creat(active, n)
              /\ m.kind = "server" => \E p \in Pcbs : espconn_tcp_accept(n, p)
         \/ \E n \in Nodes :
              /\ OnList(n)
              /\ msg' = [msg EXCEPT ![n] = NoMsg] /\ active' = espconn_list_delete(active, n)
<1> DEFINE Kept == /\ msg' \in [Nodes -> MsgType] /\ active' = active
                   /\ \A k \in Nodes : msg'[k].kind = msg[k].kind
           Taken == \E n \in Nodes, m \in MsgType :
                      /\ msg[n].kind = "free" /\ m.kind # "free"
                      /\ msg' = [msg EXCEPT ![n] = m] /\ active' = espconn_list_creat(active, n)
                      /\ m.kind = "server" => \E p \in Pcbs : espconn_tcp_accept(n, p)
           Freed == \E n \in Nodes :
                      /\ OnList(n)
                      /\ msg' = [msg EXCEPT ![n] = NoMsg] /\ active' = espconn_list_delete(active, n)
<1>1. ASSUME NEW c \in Clients, NEW n \in Nodes, NEW p \in Pcbs, espconn_connect(c, n, p)
      PROVE  Taken
  <2>1. PICK opt \in OptionSets :
          msg' = [msg EXCEPT ![n] = [NoMsg EXCEPT !.kind = "client", !.state = "WAIT",
                                         !.pcb = p, !.espconn = c, !.opt = opt]]
    BY <1>1 DEF espconn_connect
  <2> DEFINE m == [NoMsg EXCEPT !.kind = "client", !.state = "WAIT",
                                !.pcb = p, !.espconn = c, !.opt = opt]
  <2>2. m \in MsgType /\ m.kind = "client"
    BY DEF NoMsg, MsgType, Conn
  <2>3. msg[n].kind = "free" /\ msg' = [msg EXCEPT ![n] = m] /\ active' = espconn_list_creat(active, n)
    BY <1>1, <2>1 DEF espconn_connect
  <2> HIDE DEF m
  <2>4. QED
    BY <2>2, <2>3
<1>2. ASSUME NEW n \in Nodes, espconn_create(n)
      PROVE  Taken
  <2> DEFINE m == [NoMsg EXCEPT !.kind = "udp"]
  <2>1. m \in MsgType /\ m.kind = "udp"
    BY DEF NoMsg, MsgType
  <2>2. msg[n].kind = "free" /\ msg' = [msg EXCEPT ![n] = m] /\ active' = espconn_list_creat(active, n)
    BY <1>2 DEF espconn_create
  <2> HIDE DEF m
  <2>3. QED
    BY <2>1, <2>2
<1>3. ASSUME NEW n \in Nodes, NEW p \in Pcbs, espconn_tcp_accept(n, p)
      PROVE  Taken
  <2>1. PICK opt \in OptionSets :
          msg' = [msg EXCEPT ![n] = [NoMsg EXCEPT !.kind = "server", !.state = "CONNECT",
                                         !.pcb = p, !.local_ip = TRUE, !.opt = opt]]
    BY <1>3 DEF espconn_tcp_accept
  <2> DEFINE m == [NoMsg EXCEPT !.kind = "server", !.state = "CONNECT",
                                !.pcb = p, !.local_ip = TRUE, !.opt = opt]
  <2>2. m \in MsgType /\ m.kind = "server"
    BY DEF NoMsg, MsgType, Conn
  <2>3. msg[n].kind = "free" /\ msg' = [msg EXCEPT ![n] = m] /\ active' = espconn_list_creat(active, n)
    BY <1>3, <2>1 DEF espconn_tcp_accept
  <2> HIDE DEF m
  <2>4. QED
    BY <1>3, <2>2, <2>3
<1>4. ASSUME NEW n \in Nodes, espconn_udp_disconnect(n)
      PROVE  Freed
  BY <1>4 DEF espconn_udp_disconnect, Of
<1>5. ASSUME espconn_Task
      PROVE  Kept \/ Freed
  <2>1. CASE OnList(Head(posts).par)
    <3>1. Head(posts).par \in Nodes
      BY <2>1 DEF OnList
    <3>2. QED
      BY <1>5, <2>1, <3>1 DEF espconn_Task, Unlisted
  <2>2. CASE ~OnList(Head(posts).par)
    BY <1>5, <2>2 DEF espconn_Task
  <2>3. QED
    BY <2>1, <2>2
<1>6. ASSUME \/ \E c \in Clients : espconn_connect_noroute(c)
             \/ espconn_accept \/ espconn_tcp_delete
             \/ \E num \in Limits : espconn_tcp_set_max_con_allow(num)
             \/ \E t \in Timeouts : espconn_regist_time(t)
             \/ \E n \in Nodes : espconn_disconnect(n) \/ espconn_abort(n) \/ espconn_sent(n) \/ Traffic(n)
             \/ \E p \in Pcbs : \/ espconn_client_connect(p) \/ RemoteFin(p) \/ ConnectionError(p)
                                \/ espconn_server_poll(p) \/ lwip_closing(p)
             \/ UNCHANGED vars
      PROVE  Kept
  BY <1>6, KeptStep
<1> HIDE DEF Kept, Taken, Freed
<1>7. Kept \/ Taken \/ Freed
  BY <1>1, <1>2, <1>3, <1>4, <1>5, <1>6 DEF Next, Application, Lwip
<1>8. QED
  BY <1>7 DEF Kept, Taken, Freed

\* Every step keeps the list and the blocks in agreement.
LEMMA NextListInv ==
  ASSUME ListInv, [Next]_vars
  PROVE  ListInv'
<1> USE DEF ListInv
<1>1. MEMP_NUM_TCP_PCB \in Nat
  BY PcbAssumption, FS_CardinalityType
<1>2. count_opt' \in Nat
  <2>1. count_opt' = count_opt \/ count_opt' = MEMP_NUM_TCP_PCB \/ count_opt' \in Limits
    BY DEF Next, vars, Application, Lwip, espconn_connect, espconn_connect_noroute,
       espconn_accept, espconn_tcp_delete, espconn_tcp_set_max_con_allow,
       espconn_regist_time, espconn_disconnect, espconn_abort, espconn_sent, espconn_create,
       espconn_udp_disconnect, espconn_client_connect, RemoteFin, ConnectionError,
       espconn_server_poll, lwip_closing, espconn_tcp_accept, Traffic, espconn_Task, server
  <2>2. Limits \subseteq Nat
    BY <1>1, EnvAssumption
  <2>3. QED
    BY <1>1, <2>1, <2>2
<1>3. Distinct(active)
  BY DEF ListExact, Distinct
<1>4. CASE /\ msg' \in [Nodes -> MsgType] /\ active' = active
           /\ \A k \in Nodes : msg'[k].kind = msg[k].kind
  BY <1>2, <1>4 DEF ListExact, OnList
<1>5. ASSUME NEW n \in Nodes, NEW m \in MsgType, msg[n].kind = "free", m.kind # "free",
             msg' = [msg EXCEPT ![n] = m], active' = espconn_list_creat(active, n)
      PROVE  ListInv'
  <2>1. ~In(active, n)
    BY <1>5, OnListIn DEF ListExact
  <2>2. /\ active' \in Seq(Nodes) /\ Distinct(active')
        /\ \A v : In(active', v) <=> In(active, v) \/ v = n
    BY <1>3, <1>5, <2>1, CreatFacts
  <2>3. msg' \in [Nodes -> MsgType] /\ msg'[n] = m /\ \A k \in Nodes : k # n => msg'[k] = msg[k]
    BY <1>5
  <2>4. \A k \in Nodes : In(active', k) <=> msg'[k].kind # "free"
    BY <1>5, <2>2, <2>3, OnListIn DEF ListExact
  <2>5. QED
    BY <1>2, <2>2, <2>3, <2>4, OnListIn DEF ListExact, Distinct
<1>6. ASSUME NEW n \in Nodes, OnList(n), msg' = [msg EXCEPT ![n] = NoMsg],
             active' = espconn_list_delete(active, n)
      PROVE  ListInv'
  <2>1. In(active, n)
    BY <1>6, OnListIn
  <2>2. /\ active' \in Seq(Nodes) /\ Distinct(active')
        /\ \A v : In(active', v) <=> In(active, v) /\ v # n
    BY <1>3, <1>6, <2>1, DeleteFacts
  <2>3. /\ msg' \in [Nodes -> MsgType] /\ msg'[n].kind = "free"
        /\ \A k \in Nodes : k # n => msg'[k] = msg[k]
    BY <1>6, NoneType DEF NoMsg
  <2>4. \A k \in Nodes : In(active', k) <=> msg'[k].kind # "free"
    BY <2>2, <2>3, OnListIn DEF ListExact
  <2>5. QED
    BY <1>2, <2>2, <2>3, <2>4, OnListIn DEF ListExact, Distinct
<1>7. QED
  BY <1>4, <1>5, <1>6, BookStep

\* The list and the blocks agree in every state.
LEMMA SpecListInv == Spec => []ListInv
<1>1. Init => ListInv
  BY InitInv DEF LinkInv, EndInv, TypeOK, ListInv
<1>2. ListInv /\ [Next]_vars => ListInv'
  BY NextListInv
<1>3. QED
  BY <1>1, <1>2, PTL DEF Spec

-----------------------------------------------------------------------------
(* The limit of the server. *)

Servers == {n \in Nodes : msg[n].kind = "server"}

\* link_cnt is the number of nodes of the server.
LEMMA LinkCount ==
  ASSUME ListInv, ListInv'
  PROVE  /\ IsFiniteSet(Servers) /\ link_cnt = Cardinality(Servers) /\ link_cnt \in Nat
         /\ IsFiniteSet(Servers') /\ link_cnt' = Cardinality(Servers') /\ link_cnt' \in Nat
<1>1. IsFiniteSet(Servers) /\ IsFiniteSet(Servers')
  BY PcbAssumption, FS_Subset DEF Servers
<1>2. Of({"server"}) = Servers /\ Of({"server"})' = Servers'
  BY DEF ListInv, ListExact, Of, Servers
<1>3. QED
  BY <1>1, <1>2, FS_CardinalityType DEF link_cnt

\* A step adds one connection to the server, below its limit, or none.
LEMMA LinkCountStep ==
  ASSUME ListInv, ListInv', [Next]_vars
  PROVE  \/ link_cnt' <= link_cnt
         \/ link_cnt' = link_cnt + 1 /\ link_cnt # count_opt /\ count_opt' = count_opt
<1>1. /\ IsFiniteSet(Servers) /\ link_cnt = Cardinality(Servers) /\ link_cnt \in Nat
      /\ IsFiniteSet(Servers') /\ link_cnt' = Cardinality(Servers') /\ link_cnt' \in Nat
  BY LinkCount
<1>2. CASE Servers' \subseteq Servers
  BY <1>1, <1>2, FS_Subset
<1>3. ASSUME NEW n \in Nodes, NEW p \in Pcbs, espconn_tcp_accept(n, p),
             msg[n].kind = "free", Servers' = Servers \union {n}
      PROVE  link_cnt' = link_cnt + 1 /\ link_cnt # count_opt /\ count_opt' = count_opt
  <2>1. n \notin Servers
    BY <1>3 DEF Servers
  <2>2. Cardinality(Servers') = Cardinality(Servers) + 1
    BY <1>1, <1>3, <2>1, FS_AddElement
  <2>3. QED
    BY <1>1, <1>3, <2>2 DEF espconn_tcp_accept, Full, server
<1>4. \/ Servers' \subseteq Servers
      \/ \E n \in Nodes, p \in Pcbs :
           espconn_tcp_accept(n, p) /\ msg[n].kind = "free" /\ Servers' = Servers \union {n}
  <2>1. msg \in [Nodes -> MsgType] /\ active \in Seq(Nodes)
    BY DEF ListInv
  <2>2. ASSUME \A k \in Nodes : msg'[k].kind = msg[k].kind
        PROVE  Servers' \subseteq Servers
    BY <2>2 DEF Servers
  <2>3. ASSUME NEW n \in Nodes, NEW m \in MsgType, msg' = [msg EXCEPT ![n] = m],
               msg[n].kind = "free", m.kind # "free",
               m.kind = "server" => \E p \in Pcbs : espconn_tcp_accept(n, p)
        PROVE  \/ Servers' \subseteq Servers
               \/ \E p \in Pcbs :
                    espconn_tcp_accept(n, p) /\ msg[n].kind = "free" /\ Servers' = Servers \union {n}
    <3>1. msg'[n] = m /\ \A k \in Nodes : k # n => msg'[k] = msg[k]
      BY <2>1, <2>3
    <3>2. CASE m.kind = "server"
      <4>1. Servers' = Servers \union {n}
        BY <3>1, <3>2 DEF Servers
      <4>2. QED
        BY <2>3, <3>2, <4>1
    <3>3. CASE m.kind # "server"
      BY <3>1, <3>3 DEF Servers
    <3>4. QED
      BY <3>2, <3>3
  <2>4. ASSUME NEW n \in Nodes, msg' = [msg EXCEPT ![n] = NoMsg]
        PROVE  Servers' \subseteq Servers
    BY <2>1, <2>4 DEF Servers, NoMsg
  <2>5. QED
    BY <2>1, <2>2, <2>3, <2>4, BookStep
<1>5. QED
  BY <1>2, <1>3, <1>4

\* The number of connections comes to exceed the limit only when the limit
\* is lowered below it.
LEMMA LimitStep ==
  ASSUME ListInv, ListInv', [Next]_vars, link_cnt <= count_opt, link_cnt' > count_opt'
  PROVE  \E num \in Limits : num < link_cnt /\ espconn_tcp_set_max_con_allow(num)
<1>1. link_cnt \in Nat /\ count_opt \in Nat /\ link_cnt' \in Nat /\ count_opt' \in Nat
  BY LinkCount DEF ListInv
<1>2. link_cnt' <= link_cnt /\ count_opt' # count_opt
  <2>1. CASE link_cnt' = link_cnt + 1 /\ link_cnt # count_opt /\ count_opt' = count_opt
    BY <1>1, <2>1
  <2>2. CASE link_cnt' <= link_cnt
    BY <1>1, <2>2
  <2>3. QED
    BY <2>1, <2>2, LinkCountStep
<1>3. ~espconn_accept
  <2>1. SUFFICES ASSUME espconn_accept PROVE FALSE
    OBVIOUS
  <2>2. Of({"server"}) = {}
    BY <2>1 DEF espconn_accept
  <2>3. link_cnt = 0
    BY <2>2, FS_EmptySet DEF link_cnt
  <2>4. QED
    BY <1>1, <1>2, <2>3
<1>4. ~espconn_tcp_delete
  BY <1>1, <1>2 DEF espconn_tcp_delete
<1>5. PICK num \in Limits : espconn_tcp_set_max_con_allow(num)
  BY <1>2, <1>3, <1>4 DEF Next, vars, Application, Lwip, espconn_connect, espconn_connect_noroute,
     espconn_regist_time, espconn_disconnect, espconn_abort, espconn_sent, espconn_create,
     espconn_udp_disconnect, espconn_client_connect, RemoteFin, ConnectionError,
     espconn_server_poll, lwip_closing, espconn_tcp_accept, Traffic, espconn_Task, server
<1>6. count_opt' = num
  BY <1>5 DEF espconn_tcp_set_max_con_allow
<1>7. num < link_cnt
  BY <1>1, <1>2, <1>6
<1>8. QED
  BY <1>5, <1>7

-----------------------------------------------------------------------------
(* The theorems.  None restricts the application: the second and the third *)
(* name the calls of it that can break what they are about.                *)

\* plink_active holds every block in use once and no free one, whatever the
\* application calls and lwIP reports (espconn_list_creat, espconn_list_delete,
\* espconn_Task, which drops a message for a block that is not on the list).
THEOREM ListExactHolds == Spec => []ListExact
<1>1. ListInv => ListExact
  BY DEF ListInv
<1>2. QED
  BY <1>1, SpecListInv, PTL

\* The program starts with EndInv, under which every connection that ended has
\* one message in the task queue and no pcb calls a function with a node that
\* was freed; and no step of lwIP, of espconn_Task or of the application ends
\* EndInv but one: espconn_disconnect of a connection that has ended and waits
\* for espconn_Task.
THEOREM EndsOnceUnlessDisconnectedTwice ==
  /\ Init => EndInv
  /\ EndInv => OneEndMessage /\ NoDanglingArg
  /\ Spec => [][EndInv /\ ~EndInv' => SecondDisconnect]_vars
<1>1. Init => EndInv
  BY InitInv DEF LinkInv
<1>2. EndInv => OneEndMessage /\ NoDanglingArg
  BY EndInvMessage, EndInvArg
<1>3. [Next]_vars => [EndInv /\ ~EndInv' => SecondDisconnect]_vars
  BY NextInv
<1>4. QED
  BY <1>1, <1>2, <1>3, PTL DEF Spec

\* The program starts with LinkInv, under which every connection that has not
\* ended keeps its pcb, whatever ends elsewhere (espconn_find_current_pcb,
\* espconn_kill_pcb, espconn_kill_oldest_pcb); and two calls only can end
\* LinkInv: espconn_disconnect of a connection that has ended, and
\* espconn_disconnect or espconn_abort of a client that is not connected yet.
THEOREM LinkIntactUnlessEndedConnecting ==
  /\ Init => LinkInv
  /\ LinkInv => LinkIntact
  /\ Spec => [][LinkInv /\ ~LinkInv' => SecondDisconnect \/ EndsConnecting]_vars
<1>1. LinkInv => LinkIntact
  BY LinkInvIntact
<1>2. [Next]_vars => [LinkInv /\ ~LinkInv' => SecondDisconnect \/ EndsConnecting]_vars
  BY NextInv DEF LinkInv
<1>3. QED
  BY <1>1, <1>2, InitInv, PTL DEF Spec

\* Nothing takes the server beyond the limit of its connections but
\* espconn_tcp_set_max_con_allow itself, when it is lowered below what there
\* is: espconn_tcp_accept, which compares with ==, does not pass a limit that
\* was kept.
THEOREM AcceptWithinLimitHolds == Spec => AcceptWithinLimit
<1>1. ListInv /\ ListInv' /\ [Next]_vars
        => [link_cnt <= count_opt /\ link_cnt' > count_opt' =>
              \E num \in Limits : num < link_cnt /\ espconn_tcp_set_max_con_allow(num)]_vars
  BY LimitStep
<1>2. QED
  BY <1>1, SpecListInv, PTL DEF Spec, AcceptWithinLimit
=============================================================================
