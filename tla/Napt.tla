------------------------------- MODULE Napt -------------------------------
(***************************************************************************)
(* Network address and port translation, which patches/napt.patch adds to  *)
(* lwIP 2's ip4.c: the table of sessions, the table of mapped ports, and   *)
(* what ip4_forward and ip4_input do with a packet.                        *)
(*                                                                         *)
(* The sessions are entries of an array, linked by index: in use (newest   *)
(* first, in both directions) or free.  Entries that have timed out leave  *)
(* only when a search walks over them.  The bytes of a packet and its      *)
(* checksums are left out; time is the age of an entry since its last use. *)
(***************************************************************************)
EXTENDS Integers, Sequences, FiniteSets, SequencesExt

CONSTANTS
    Hosts,           \* addresses behind the access point
    Remotes,         \* addresses outside
    Sports,          \* source ports of the hosts
    Ids,             \* identifiers of their echo requests
    Rport,           \* the port of the remote hosts
    LowPorts,        \* ports below 1024
    MapProtos,       \* protocols and ports given to ip_portmap_add
    MappedPorts,
    RangeStart, RangeEnd,   \* IP_NAPT_PORT_RANGE_START, IP_NAPT_PORT_RANGE_END
    Listening,       \* [proto, port] of the pcbs of this node
    NaptMax,         \* napt_max
    PortmapMax,      \* portmap_max
    TimeoutTcp, TimeoutDiscon, TimeoutOther,  \* IP_NAPT_TIMEOUT_MS_*
    TcpFlags         \* the sets of flags of TCP packets

PortRange == RangeStart .. RangeEnd

ASSUME NaptAssumption == NaptMax \in Nat \ {0} /\ PortmapMax \in Nat

\* ip_napt_new_port searches until it has a port: there must be one.
ASSUME RangeAssumption ==
    Cardinality(PortRange) > NaptMax - 1 + Cardinality(Listening) + PortmapMax
ASSUME TimeoutAssumption ==
    /\ {TimeoutTcp, TimeoutDiscon, TimeoutOther} \subseteq Nat
    /\ TimeoutDiscon <= TimeoutTcp /\ TimeoutOther <= TimeoutTcp
\* Only these have ports; a mapped port may be one that sessions get, too.
ASSUME MappedAssumption == MapProtos \subseteq {"TCP", "UDP"}

Protos == {"TCP", "UDP", "ICMP"}
Idx == 0 .. NaptMax - 1
NO_IDX == -1
Link == Idx \union {NO_IDX}

VARIABLES
    napt_data,  \* [table, list, list_last, free, nr_active]
    portmap,    \* the valid entries of portmap_table, in order
    napt,       \* the flag of the access point's netif
    refused     \* the last packet asked for a session and got port 0

naptVars == <<napt_data, portmap, napt, refused>>

Entry == [proto |-> "TCP", src |-> 0, sport |-> 0, dest |-> 0, dport |-> 0, mport |-> 0,
          age |-> 0, flags |-> {}, next |-> NO_IDX, prev |-> NO_IDX]

\* What an entry, the table and a mapped port can hold.
FlagNames == {"fin1", "fin2", "finack1", "finack2", "synack"}
Entries == [proto : Protos, src : Hosts \union {0}, sport : Sports \union Ids \union {0},
            dest : Remotes \union {0}, dport : Ids \union {Rport, 0},
            mport : PortRange \union Ids \union {0}, age : Nat, flags : SUBSET FlagNames,
            next : Link, prev : Link]
Tables == [table : [Idx -> Entries], list : Link, list_last : Link, free : Link,
           nr_active : [Protos -> Int]]
Portmaps == [proto : MapProtos, mport : MappedPorts, daddr : Hosts, dport : Sports \ LowPorts]

ip_napt_init ==
    [table |-> [i \in Idx |-> [Entry EXCEPT !.next = IF i < NaptMax - 1 THEN i + 1 ELSE NO_IDX]],
     list |-> NO_IDX, list_last |-> NO_IDX, free |-> 0,
     nr_active |-> [p \in Protos |-> 0]]

NaptInit ==
    /\ napt_data = ip_napt_init
    /\ portmap = <<>>
    /\ napt = FALSE
    /\ refused = FALSE

-----------------------------------------------------------------------------
(* The two lists. *)

\* The links of the entries, by index.
Nexts(d) == [i \in Idx |-> d.table[i].next]
Prevs(d) == [i \in Idx |-> d.table[i].prev]

\* The entries from index head on, by their links, up to the first NO_IDX.
Walk(link, head) ==
    LET at[k \in 1 .. NaptMax] ==
          IF k = 1 THEN head
          ELSE LET last == at[k - 1] IN IF last = NO_IDX THEN NO_IDX ELSE link[last]
        met == {k \in 1 .. NaptMax : at[k] # NO_IDX}
    IN  SubSeq(at, 1, Cardinality(met))

Active(d) == Walk(Nexts(d), d.list)

\* Set a link of entry i, unless there is no such entry.
LinkNext(table, i, v) == IF i = NO_IDX THEN table ELSE [table EXCEPT ![i].next = v]
LinkPrev(table, i, v) == IF i = NO_IDX THEN table ELSE [table EXCEPT ![i].prev = v]

\* ip_napt_insert: entry i, the first free one, becomes the first in use.
ip_napt_insert(d, i) ==
    LET t == d.table[i]
    IN  [table     |-> LinkPrev([d.table EXCEPT ![i].prev = NO_IDX, ![i].next = d.list],
                                d.list, i),
         list      |-> i,
         list_last |-> IF d.list_last = NO_IDX THEN i ELSE d.list_last,
         free      |-> t.next,
         nr_active |-> [d.nr_active EXCEPT ![t.proto] = @ + 1]]

\* Mutant: the end of the list is forgotten.
ip_napt_free_no_last(d, i) ==
    LET t == d.table[i]
        unlinked == LinkNext(LinkPrev(d.table, t.next, t.prev), t.prev, t.next)
    IN  [table     |-> [unlinked EXCEPT ![i].prev = NO_IDX, ![i].next = d.free],
         list      |-> IF i = d.list THEN t.next ELSE d.list,
         list_last |-> d.list_last,
         free      |-> i,
         nr_active |-> [d.nr_active EXCEPT ![t.proto] = @ - 1]]

\* ip_napt_free: entry i becomes the first free one.
ip_napt_free(d, i) ==
    LET t == d.table[i]
        unlinked == LinkNext(LinkPrev(d.table, t.next, t.prev), t.prev, t.next)
    IN  [table     |-> [unlinked EXCEPT ![i].prev = NO_IDX, ![i].next = d.free],
         list      |-> IF i = d.list THEN t.next ELSE d.list,
         list_last |-> IF i = d.list_last THEN t.prev ELSE d.list_last,
         free      |-> i,
         nr_active |-> [d.nr_active EXCEPT ![t.proto] = @ - 1]]

-----------------------------------------------------------------------------
(* Mapped ports. *)

Mapped(proto, port) ==
    {k \in DOMAIN portmap : portmap[k].proto = proto /\ portmap[k].mport = port}

\* ip_portmap_find and ip_portmap_find_dest: the first entry, 0 for none.
ip_portmap_find(proto, port) ==
    SelectInSeq(portmap, LAMBDA m : m.proto = proto /\ m.mport = port)
ip_portmap_find_dest(proto, dport, daddr) ==
    SelectInSeq(portmap, LAMBDA m : m.proto = proto /\ m.dport = dport /\ m.daddr = daddr)

\* ip_portmap_add: entries for the port are changed on the way to the first
\* entry that is not valid, which is taken as well.
ip_portmap_add(proto, port, daddr, dport) ==
    LET new == [proto |-> proto, mport |-> port, daddr |-> daddr, dport |-> dport]
        changed == [k \in DOMAIN portmap |->
                      IF k \in Mapped(proto, port) THEN new ELSE portmap[k]]
    IN  /\ portmap' = IF Len(portmap) < PortmapMax THEN Append(changed, new) ELSE changed
        /\ refused' = FALSE
        /\ UNCHANGED <<napt_data, napt>>

\* ip_portmap_remove: the entries behind it move down.
ip_portmap_remove(proto, port) ==
    LET k == ip_portmap_find(proto, port)
    IN  /\ k # 0
        /\ portmap' = RemoveAt(portmap, k)
        /\ refused' = FALSE
        /\ UNCHANGED <<napt_data, napt>>

-----------------------------------------------------------------------------
(* Sessions. *)

\* tcp_listening, udp_listening
listening(proto, port) ==
    [proto |-> proto, port |-> port] \in Listening \/ ip_portmap_find(proto, port) # 0

\* Mutant: a port that an entry of the same protocol has is handed out again.
ip_napt_find_port_never(d, proto, port) == FALSE

ip_napt_find_port(d, proto, port) ==
    LET order == Active(d)
    IN  \E k \in DOMAIN order :
            LET t == d.table[order[k]] IN t.proto = proto /\ t.mport = port

\* ip_napt_new_port: the host's own port if it is in the range and not in use
\* (whatever the protocol, tcp_listening is asked), else any one.
ip_napt_new_port(d, proto, port) ==
    IF port \in PortRange /\ ~ip_napt_find_port(d, proto, port) /\ ~listening("TCP", port)
    THEN {port}
    ELSE {q \in PortRange : ~ip_napt_find_port(d, proto, q) /\ ~listening(proto, q)}

\* Has the entry not been used for too long?  The age does not wrap; in the code it
\* is a difference of 32-bit sys_now, which an idle entry outlives after 49 days.
Expired(t) ==
    IF t.proto = "TCP"
    THEN \/ ({"finack1", "finack2"} \subseteq t.flags \/ "synack" \notin t.flags)
               /\ t.age > TimeoutDiscon
         \/ t.age > TimeoutTcp
    ELSE t.age > TimeoutOther

\* Mutant: an entry that has timed out is passed over and keeps its place.
Reclaim_not(d, i) == d

\* An entry is freed for good.  Nothing reads what a free entry holds, and the
\* model forgets it.
Reclaim(d, i) ==
    LET f == ip_napt_free(d, i)
    IN  [f EXCEPT !.table[i] = [Entry EXCEPT !.next = f.table[i].next, !.prev = NO_IDX]]

\* Entry i, if there is one, has just been used.
Touched(d, i) == IF i = NO_IDX THEN d ELSE [d EXCEPT !.table[i].age = 0]

\* The walk of ip_napt_find: entries that have timed out are freed on the way
\* to the first of the entries looked for, whose age starts again.
Search(d, wanted) ==
    LET order == Active(d)
        hits  == {k \in DOMAIN order : order[k] \in wanted /\ ~Expired(d.table[order[k]])}
        last  == IF hits = {} THEN Len(order) ELSE Min(hits)
        hit   == IF hits = {} THEN NO_IDX ELSE order[last]
        freed[k \in 0 .. last] ==
            IF k = 0 THEN d
            ELSE IF Expired(d.table[order[k]]) THEN Reclaim(freed[k - 1], order[k])
            ELSE freed[k - 1]
    IN  [d |-> Touched(freed[last], hit), hit |-> hit]

\* ip_napt_find by the host's side (dest = 0) and by the remote side (dest = 1).
ip_napt_find_src(d, proto, src, sport) ==
    Search(d, {i \in Idx : LET t == d.table[i]
                           IN  t.proto = proto /\ t.src = src /\ t.sport = sport})
ip_napt_find_dest(d, proto, dest, dport, port) ==
    Search(d, {i \in Idx : LET t == d.table[i]
                           IN  t.proto = proto /\ t.dest = dest /\ t.dport = dport /\ t.mport = port})

\* ip_napt_add: the session moves to the top of the list, with its flags as
\* they are; a new one takes the first free entry, if there is one.
ip_napt_add(proto, src, sport, dest, dport) ==
    LET f == ip_napt_find_src(napt_data, proto, src, sport)
        i == f.d.free
        renewed == [f.d EXCEPT !.table[f.hit].dest = dest, !.table[f.hit].dport = dport]
        New(port) == [proto |-> proto, src |-> src, sport |-> sport, dest |-> dest,
                      dport |-> dport, mport |-> port, age |-> 0, flags |-> {},
                      next |-> f.d.table[i].next, prev |-> f.d.table[i].prev]
    IN  \/ /\ f.hit # NO_IDX
           /\ napt_data' = ip_napt_insert(ip_napt_free(renewed, f.hit), f.hit)
           /\ refused' = FALSE
        \/ /\ f.hit = NO_IDX /\ i # NO_IDX
           /\ refused' = FALSE
           /\ \E port \in IF proto = "ICMP" THEN {sport} ELSE ip_napt_new_port(f.d, proto, sport) :
                napt_data' = ip_napt_insert([f.d EXCEPT !.table[i] = New(port)], i)
        \/ /\ f.hit = NO_IDX /\ i = NO_IDX
           /\ napt_data' = f.d
           /\ refused' = TRUE

-----------------------------------------------------------------------------
(* Packets. *)

\* The flags of a session after a packet of its host, or of the remote host.
FlagsForward(old, flags) ==
    LET fin == old \union IF "FIN" \in flags THEN {"fin2"} ELSE {}
    IN  fin \union IF "fin1" \in fin /\ "ACK" \in flags THEN {"finack1"} ELSE {}
FlagsRecv(old, flags) ==
    LET fin == old \union IF "FIN" \in flags THEN {"fin1"} ELSE {}
                   \union IF {"SYN", "ACK"} \subseteq flags THEN {"synack"} ELSE {}
    IN  fin \union IF "fin2" \in fin /\ "ACK" \in flags THEN {"finack2"} ELSE {}

\* Does the packet of a host register a session?
Registers(proto, sport, flags) ==
    \/ proto = "ICMP"
    \/ sport \notin LowPorts
       /\ (proto = "TCP" => "SYN" \in flags /\ "ACK" \notin flags)

\* ip_napt_forward: a packet of a host with a mapped port is not tracked; one
\* of a session that is not known, or goes elsewhere, is dropped.
ip_napt_forward(proto, src, sport, dest, flags) ==
    LET f == ip_napt_find_src(napt_data, proto, src, sport)
        t == f.d.table[f.hit]
        known == f.hit # NO_IDX /\ t.dest = dest
    IN  /\ napt
        /\ proto = "ICMP" \/ ip_portmap_find_dest(proto, sport, src) = 0
        /\ IF Registers(proto, sport, flags)
           THEN ip_napt_add(proto, src, sport, dest, IF proto = "ICMP" THEN sport ELSE Rport)
           ELSE /\ napt_data' = IF known /\ proto = "TCP"
                                THEN [f.d EXCEPT !.table[f.hit].flags = FlagsForward(@, flags)]
                                ELSE f.d
                /\ refused' = FALSE
        /\ UNCHANGED <<portmap, napt>>

\* ip_napt_recv: an answer for the session with the port, unless it is mapped.
ip_napt_recv(proto, addr, port, flags) ==
    LET f == ip_napt_find_dest(napt_data, proto, addr, IF proto = "ICMP" THEN port ELSE Rport, port)
    IN  /\ proto = "ICMP" \/ ip_portmap_find(proto, port) = 0
        /\ napt_data' = IF f.hit # NO_IDX /\ proto = "TCP"
                        THEN [f.d EXCEPT !.table[f.hit].flags = FlagsRecv(@, flags)]
                        ELSE f.d
        /\ refused' = FALSE
        /\ UNCHANGED <<portmap, napt>>

\* ip_napt_enable, ip_napt_enable_no
ip_napt_enable(enable) ==
    /\ napt # enable
    /\ napt' = enable
    /\ refused' = FALSE
    /\ UNCHANGED <<napt_data, portmap>>

\* Time passes for the entries in use.
Older(t) == [t EXCEPT !.age = @ + 1]
TimePasses ==
    LET t == napt_data.table
        order == Active(napt_data)
    IN  /\ napt_data' = [napt_data EXCEPT !.table =
                            [i \in Idx |-> IF Contains(order, i) /\ ~Expired(t[i])
                                           THEN Older(t[i]) ELSE t[i]]]
        /\ refused' = FALSE
        /\ UNCHANGED <<portmap, napt>>

FlagsOf(proto) == IF proto = "TCP" THEN TcpFlags ELSE {{}}

NaptNext ==
    \/ \E proto \in Protos, src \in Hosts, dest \in Remotes :
          \E sport \in IF proto = "ICMP" THEN Ids ELSE Sports, flags \in FlagsOf(proto) :
              ip_napt_forward(proto, src, sport, dest, flags)
    \/ \E proto \in Protos, addr \in Remotes :
          \E port \in IF proto = "ICMP" THEN Ids ELSE PortRange, flags \in FlagsOf(proto) :
              ip_napt_recv(proto, addr, port, flags)
    \/ \E proto \in MapProtos, port \in MappedPorts, daddr \in Hosts, dport \in Sports \ LowPorts :
          ip_portmap_add(proto, port, daddr, dport)
    \/ \E proto \in MapProtos, port \in MappedPorts : ip_portmap_remove(proto, port)
    \/ \E enable \in BOOLEAN : ip_napt_enable(enable)
    \/ TimePasses

NaptSpec == NaptInit /\ [][NaptNext]_naptVars

-----------------------------------------------------------------------------
(* Properties. *)

\* The type invariant: links lead to entries, and no counter of the sessions
\* is decremented below zero.
NaptTypeOK ==
    /\ napt_data \in Tables
    /\ \A p \in Protos : napt_data.nr_active[p] >= 0
    /\ portmap \in Seq(Portmaps) /\ Len(portmap) <= PortmapMax
    /\ napt \in BOOLEAN
    /\ refused \in BOOLEAN

InUse == Range(Active(napt_data))

\* The table is always split between the two lists, the list in use reads the
\* same from both ends, and the counters say what is on it: whatever the order
\* in which searches free entries and sessions move to the top.
ListsIntact ==
    LET active == Active(napt_data)
        free   == Walk(Nexts(napt_data), napt_data.free)
    IN  /\ Len(active) + Len(free) = NaptMax
        /\ Range(active) \union Range(free) = Idx
        /\ Walk(Prevs(napt_data), napt_data.list_last) = Reverse(active)
        /\ \A p \in Protos :
              napt_data.nr_active[p] = Cardinality({i \in InUse : napt_data.table[i].proto = p})

\* The search for an answer to the port that a session has outside finds that
\* session and no other: ports are not handed out twice, however often entries are
\* reused.  (ip_napt_recv looks at mapped ports before it searches: a port mapped
\* inside the range, which ip_portmap_add accepts, hides a session that has it.)
AnswerReachesHost ==
    \A i \in InUse :
        LET t == napt_data.table[i]
            f == ip_napt_find_dest(napt_data, t.proto, t.dest, t.dport, t.mport)
        IN  t.proto # "ICMP" /\ ~Expired(t) => f.hit = i

\* A session that has not timed out keeps its entry and its port outside: no
\* search, no other session and no packet takes it.
SessionKeepsPort ==
    [][LET after == InUse'
       IN  \A i \in InUse :
              LET t == napt_data.table[i]
                  u == napt_data'.table[i]
              IN  ~Expired(t) => /\ i \in after
                                 /\ u.proto = t.proto /\ u.src = t.src
                                 /\ u.sport = t.sport /\ u.mport = t.mport]_naptVars

\* A packet leaves without a port of its own only when every entry is taken by
\* a session that has not timed out: ip_napt_add reclaims all others first.
RefusedWhenFull ==
    refused => /\ Len(Active(napt_data)) = NaptMax
                 /\ \A i \in Idx : ~Expired(napt_data.table[i])
=============================================================================
