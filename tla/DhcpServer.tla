----------------------------- MODULE DhcpServer -----------------------------
(***************************************************************************)
(* The DHCP server of the soft access point (glue-lwip/esp-dhcpserver.c):  *)
(* the lease table plist, the address range, and every call that changes   *)
(* them: messages from stations, the Wi-Fi blobs reporting a station's     *)
(* address or departure, the one-minute timer, and the application's       *)
(* configuration calls.  All of them run to completion in the lwIP context *)
(* (NO_SYS), so each call is one action.                                   *)
(*                                                                         *)
(* An address is its /24 segment and its last octet.  Addresses are kept   *)
(* in network order in little-endian words, so the code's < compares the   *)
(* last octet first.                                                       *)
(***************************************************************************)
EXTENDS Naturals, SequencesExt

CONSTANTS
    Macs,           \* the stations
    Octets,         \* values of the last octet (256)
    HalfOctet,      \* 0x80: where the default range moves below the AP
    MaxLease,       \* DHCPS_MAX_LEASE
    MaxStation,     \* MAX_STATION_NUM
    LeaseTimes,     \* lease times the application sets, in minutes
    Ranges,         \* ranges the application configures: [enable, start, end]
    ApIps,          \* addresses the application gives the access point
    Claims,         \* addresses stations claim (ciaddr, or a static address)
    Requests,       \* addresses in the "requested IP address" option
    AnyClaim,       \* may a station claim an address outside the range?
    ReserveAnytime  \* may leases be reserved once the table has gaps?

ASSUME OctetAssumption ==
    /\ Octets \in Nat /\ HalfOctet \in Nat /\ MaxLease \in Nat \ {0}
    /\ MaxLease < HalfOctet /\ HalfOctet + MaxLease < Octets
ASSUME MaxStationAssumption == MaxStation \in Nat /\ MaxStation >= 2
ASSUME LeaseTimesAssumption == LeaseTimes \subseteq Nat \ {0} /\ LeaseTimes # {}
ASSUME FlagAssumption == AnyClaim \in BOOLEAN /\ ReserveAnytime \in BOOLEAN

Addrs == [net : Nat, host : 0 .. Octets - 1]
ANY == [net |-> 0, host |-> 0]
BROADCAST == [net |-> Octets - 1, host |-> Octets - 1]

ASSUME AddrAssumption ==
    /\ ApIps \subseteq Addrs \ {ANY} /\ Claims \subseteq Addrs \ {ANY, BROADCAST}
    /\ Requests \subseteq Addrs
    /\ Ranges \subseteq [enable : BOOLEAN, start : Addrs, end : Addrs]
    /\ \A a \in ApIps : a.net # 0

VARIABLES
    plist,   \* the lease table: list of [mac, ip, timer, type, state]
    lease,   \* dhcps_lease: [enable, start, end]
    ltime,   \* dhcps_lease_time
    renew,   \* the file-scope flag renew
    status,  \* the SDK's "DHCP server started" flag
    ap,      \* address of the access point
    out      \* the reply sent by the last step: [kind, mac, ip]

cfgvars == <<lease, ltime, status, ap>>
vars == <<plist, lease, ltime, renew, status, ap, out>>

Node == [mac : Macs, ip : Addrs, timer : Nat \ {0},
         type : {"DYNAMIC", "STATIC"}, state : {"ONLINE", "OFFLINE"}]
NoReply == [kind |-> "none", mac |-> "none", ip |-> ANY]

Init ==
    /\ plist = <<>>
    /\ lease = [enable |-> FALSE, start |-> ANY, end |-> ANY]
    /\ ltime \in LeaseTimes
    /\ renew = FALSE
    /\ status = "stopped"
    /\ ap \in ApIps
    /\ out = NoReply

-----------------------------------------------------------------------------
(* Addresses and the list. *)

\* a < b on the raw 32-bit words.
Less(a, b) == a.host < b.host \/ (a.host = b.host /\ a.net < b.net)

\* htonl(ntohl(a) + 1), n times: the carry leaves the segment.
Plus(a, n) ==
    IF a.host + n < Octets THEN [a EXCEPT !.host = @ + n]
    ELSE [net |-> a.net + (a.host + n) \div Octets, host |-> (a.host + n) % Octets]

\* Mutant: only the head of the list is compared.
node_insert_to_list_append(list, n) ==
    IF list # <<>> /\ Less(n.ip, list[1].ip) THEN <<n>> \o list ELSE Append(list, n)

\* Insert before the first node with a larger address.
node_insert_to_list(list, n) ==
    LET k == SelectInSeq(list, LAMBDA x : Less(n.ip, x.ip))
    IN  IF k = 0 THEN Append(list, n) ELSE InsertAt(list, k, n)

\* Mutant: the head of the list is never unlinked.
node_remove_from_list_tail(list, i) == IF i <= 1 THEN list ELSE RemoveAt(list, i)

\* Unlink node i; nothing to do for NULL.
node_remove_from_list(list, i) == IF i = 0 THEN list ELSE RemoveAt(list, i)

-----------------------------------------------------------------------------
(* The address range. *)

\* A configured range lies in the AP's segment, is not too long (the
\* unsigned difference also rejects end < start) and excludes the AP.
RangeOK(r, ip) ==
    /\ r.start.net = ip.net /\ r.end.net = ip.net
    /\ r.start.host <= r.end.host /\ r.end.host - r.start.host <= MaxLease
    /\ ~(r.start.host <= ip.host /\ ip.host <= r.end.host)

\* The range next to the AP's address, above it or below it.
DefaultRange(ip) ==
    LET first == IF ip.host >= HalfOctet THEN ip.host - MaxLease ELSE ip.host + 1
    IN  [enable |-> FALSE, start |-> [ip EXCEPT !.host = first],
         end |-> [ip EXCEPT !.host = first + MaxLease - 1]]

\* Mutant: an enabled range is trusted without looking at the AP's address.
wifi_softap_init_dhcps_lease_trusts(ip) ==
    IF lease.enable THEN lease ELSE DefaultRange(ip)

wifi_softap_init_dhcps_lease(ip) ==
    IF lease.enable /\ RangeOK(lease, ip) THEN lease ELSE DefaultRange(ip)

-----------------------------------------------------------------------------
(* wifi_softap_dhcps_client_update: give station m an address. *)

\* First station node on the list, or the last one when an address is given.
PmacNode(m, a) ==
    IF a = ANY THEN SelectInSeq(plist, LAMBDA n : n.mac = m)
    ELSE SelectLastInSeq(plist, LAMBDA n : n.mac = m)

PipNode(a) ==
    IF a = ANY THEN 0 ELSE SelectLastInSeq(plist, LAMBDA n : n.ip = a)

\* Nodes where the search for a free address stops: the station's own node,
\* or the first one that does not continue start_ip, start_ip + 1, ...
Stops(m) == {i \in DOMAIN plist :
                \/ plist[i].mac = m
                \/ plist[i].ip # Plus(lease.start, i - 1)}

NextFree(m) ==
    Plus(lease.start, IF Stops(m) = {} THEN Len(plist) ELSE Min(Stops(m)) - 1)

Exhausted(m) == Stops(m) = {} /\ Less(lease.end, NextFree(m))

\* Mutant: the address of a station that is online can be taken over.
Used_never(i) == FALSE

\* The address of node i belongs to a station that is online.
Used(i) == plist[i].state # "OFFLINE"

wifi_softap_dhcps_client_update(m, a) ==
    LET pmac == PmacNode(m, a)
        pip  == PipNode(a)
        addr == IF a = ANY THEN NextFree(m) ELSE a
        Lease(ty) == [mac |-> m, ip |-> addr, timer |-> ltime,
                      type |-> ty, state |-> "ONLINE"]
        mine == Lease(IF a = ANY THEN "DYNAMIC" ELSE "STATIC")
        Grant(list, rn) == [plist |-> list, ip |-> addr, renew |-> rn]
        Refuse(rn) == [plist |-> plist, ip |-> ANY, renew |-> rn]
    IN  IF a = BROADCAST THEN Refuse(renew)
        ELSE IF a = ANY /\ Exhausted(m) THEN Refuse(FALSE)
        ELSE CASE pip # 0 /\ pip = pmac ->
                    Grant([plist EXCEPT ![pip] = Lease("DYNAMIC")], TRUE)
               [] pip # 0 /\ pip # pmac /\ Used(pip) -> Refuse(FALSE)
               [] pip # 0 /\ pip # pmac /\ ~Used(pip) ->
                    Grant(node_remove_from_list([plist EXCEPT ![pip] = mine], pmac), FALSE)
               [] pip = 0 /\ pmac # 0 ->
                    Grant(node_insert_to_list(node_remove_from_list(plist, pmac), mine), FALSE)
               [] pip = 0 /\ pmac = 0 /\ Less(lease.end, addr) -> Refuse(FALSE)
               [] OTHER -> Grant(node_insert_to_list(plist, mine), FALSE)

\* The node of station m with address a.
LeavingNode(list, m, a) == SelectInSeq(list, LAMBDA n : n.mac = m /\ n.ip = a)

\* wifi_softap_dhcps_client_leave: a static lease, or a forced one, is
\* deleted; a dynamic one is kept for the station's return.
wifi_softap_dhcps_client_leave(list, m, a, force) ==
    LET k == LeavingNode(list, m, a)
    IN  IF k = 0 THEN list
        ELSE IF force \/ list[k].type = "STATIC" THEN node_remove_from_list(list, k)
        ELSE [list EXCEPT ![k].state = "OFFLINE"]

-----------------------------------------------------------------------------
(* Messages from stations. *)

MsgTypes == {"DISCOVER", "REQUEST", "DECLINE", "RELEASE", "INFORM"}
Absent == [net |-> 0, host |-> Octets]   \* no such option in the message

\* What the options of a message ask for; client is the address granted.
parse_options(type, req, client, rn) ==
    LET asked == IF req = Absent THEN "IDLE"
                 ELSE IF req = client THEN "ACK" ELSE "NAK"
    IN  CASE type = "DISCOVER" -> "OFFER"
          [] type = "REQUEST"  -> IF asked # "IDLE" THEN asked
                                  ELSE IF rn THEN "ACK" ELSE "NAK"
          [] type = "DECLINE"  -> "IDLE"
          [] type = "RELEASE"  -> "RELEASE"
          [] OTHER             -> asked

\* A reply names the address granted, in broadcast.
create_msg(kind, m, ip) == [kind |-> kind, mac |-> m, ip |-> ip]

\* A reply is not sent when there is no memory for it; the table is not
\* changed back.
send_offer(m, ip) == {create_msg("OFFER", m, ip), NoReply}
send_nak(m, ip) == {create_msg("NAK", m, ip), NoReply}
send_ack(m, ip) == {create_msg("ACK", m, ip), NoReply}

Replies(st, m, ip) ==
    CASE st = "OFFER" -> send_offer(m, ip)
      [] st = "ACK"   -> send_ack(m, ip)
      [] st = "NAK"   -> send_nak(m, ip)
      [] OTHER        -> {NoReply}

\* Environment: a station claims an address of the range, unless AnyClaim.
MayClaim(a) ==
    AnyClaim \/ (a.net = lease.start.net /\ a.host >= lease.start.host)

\* Mutant: the reply names the address the station claimed.
handle_dhcp_echoes(m, type, a, req) ==
    LET u  == wifi_softap_dhcps_client_update(m, a)
        st == parse_options(type, req, u.ip, u.renew)
    IN  /\ status = "started"
        /\ renew' = u.renew
        /\ plist' = u.plist
        /\ out' \in Replies(st, m, a)
        /\ UNCHANGED cfgvars

\* handle_dhcp and parse_msg: update the table, answer, release last.
handle_dhcp(m, type, a, req) ==
    LET u  == wifi_softap_dhcps_client_update(m, a)
        st == parse_options(type, req, u.ip, u.renew)
    IN  /\ status = "started"
        /\ renew' = u.renew
        /\ plist' = IF st = "RELEASE"
                    THEN wifi_softap_dhcps_client_leave(u.plist, m, a, TRUE)
                    ELSE u.plist
        /\ out' \in Replies(st, m, u.ip)
        /\ UNCHANGED cfgvars

Message(m) ==
    \E type \in MsgTypes, req \in Requests \union {Absent} :
        \/ handle_dhcp(m, type, ANY, req)
        \/ handle_dhcp(m, type, BROADCAST, req)
        \/ \E a \in Claims : MayClaim(a) /\ handle_dhcp(m, type, a, req)

-----------------------------------------------------------------------------
(* Calls from the Wi-Fi blobs. *)

\* The blobs see station m use address a.
client_update(m, a) ==
    LET u == wifi_softap_dhcps_client_update(m, a)
    IN  /\ status = "started"
        /\ MayClaim(a)
        /\ plist' = u.plist
        /\ renew' = u.renew
        /\ out' = NoReply
        /\ UNCHANGED cfgvars

\* The blobs see station m disappear.
client_leave(m, a) ==
    /\ plist' = wifi_softap_dhcps_client_leave(plist, m, a, FALSE)
    /\ out' = NoReply
    /\ UNCHANGED <<renew, cfgvars>>

\* The oldest lease goes, the head of the list excepted; the last node of
\* the list is marked on the way.
kill_oldest_dhcps_pool(list) ==
    LET n   == Len(list)
        min == CHOOSE i \in 2 .. n :
                 /\ \A j \in 2 .. n : list[i].timer <= list[j].timer
                 /\ \A j \in 2 .. i - 1 : list[i].timer < list[j].timer
    IN  RemoveAt([list EXCEPT ![n].state = "OFFLINE"], min)

\* The list without its expired nodes: kept[n] is what is left of the first n.
Unexpired(list) ==
    LET kept[n \in 0 .. Len(list)] ==
          IF n = 0 THEN <<>>
          ELSE IF list[n].timer = 0 THEN kept[n - 1]
          ELSE Append(kept[n - 1], list[n])
    IN  kept[Len(list)]

\* Mutant: the wrong leases are counted down.
Tick_static(list) ==
    Unexpired([i \in DOMAIN list |->
                 IF list[i].type = "STATIC" THEN [list[i] EXCEPT !.timer = @ - 1]
                 ELSE list[i]])

\* One minute off every dynamic lease; expired ones are deleted.
Tick(list) ==
    Unexpired([i \in DOMAIN list |->
                 IF list[i].type = "DYNAMIC" THEN [list[i] EXCEPT !.timer = @ - 1]
                 ELSE list[i]])

dhcps_coarse_tmr ==
    LET kept == Tick(plist)
    IN  /\ plist' = IF Len(kept) >= MaxStation THEN kill_oldest_dhcps_pool(kept)
                    ELSE kept
        /\ out' = NoReply
        /\ UNCHANGED <<renew, cfgvars>>

-----------------------------------------------------------------------------
(* Calls from the application. *)

\* The AP's address can only change while the server is stopped (SDK).
set_ap_ip(a) ==
    /\ status = "stopped"
    /\ ap' = a
    /\ out' = NoReply
    /\ UNCHANGED <<plist, lease, ltime, renew, status>>

\* A second start without a stop keeps the leases.
dhcps_start ==
    /\ lease' = wifi_softap_init_dhcps_lease(ap)
    /\ status' = "started"
    /\ out' = NoReply
    /\ UNCHANGED <<plist, ltime, renew, ap>>

dhcps_stop ==
    /\ status = "started"
    /\ plist' = <<>>
    /\ status' = "stopped"
    /\ out' = NoReply
    /\ UNCHANGED <<lease, ltime, renew, ap>>

\* wifi_softap_set_dhcps_lease, when it returns true.
wifi_softap_set_dhcps_lease(r) ==
    /\ status = "stopped"
    /\ r.enable => RangeOK(r, ap)
    /\ lease' = IF r.enable THEN r ELSE [lease EXCEPT !.enable = FALSE]
    /\ out' = NoReply
    /\ UNCHANGED <<plist, ltime, renew, status, ap>>

wifi_softap_set_dhcps_lease_time(t) ==
    /\ status = "stopped"
    /\ ltime' = t
    /\ out' = NoReply
    /\ UNCHANGED <<plist, lease, renew, status, ap>>

\* Environment: leases are reserved on a running server whose table has no
\* gap, unless ReserveAnytime.
MayReserve ==
    \/ ReserveAnytime
    \/ status = "started" /\ \A i \in DOMAIN plist : plist[i].ip = Plus(lease.start, i - 1)

\* wifi_softap_add_dhcps_lease, when it returns true: the address is as far
\* from start_ip as the list is long.
wifi_softap_add_dhcps_lease(m) ==
    LET addr == Plus(lease.start, Len(plist))
    IN  /\ MayReserve
        /\ \A i \in DOMAIN plist : plist[i].mac # m
        /\ ~Less(lease.end, addr)
        /\ plist' = node_insert_to_list(plist,
                        [mac |-> m, ip |-> addr, timer |-> ltime,
                         type |-> "STATIC", state |-> "ONLINE"])
        /\ out' = NoReply
        /\ UNCHANGED <<renew, cfgvars>>

-----------------------------------------------------------------------------

Next ==
    \/ \E m \in Macs : Message(m)
    \/ \E m \in Macs, a \in Claims : client_update(m, a)
    \/ \E m \in Macs, a \in Claims \union {plist[i].ip : i \in DOMAIN plist} :
          client_leave(m, a)
    \/ dhcps_coarse_tmr
    \/ \E a \in ApIps : set_ap_ip(a)
    \/ dhcps_start
    \/ dhcps_stop
    \/ \E r \in Ranges : wifi_softap_set_dhcps_lease(r)
    \/ \E t \in LeaseTimes : wifi_softap_set_dhcps_lease_time(t)
    \/ \E m \in Macs : wifi_softap_add_dhcps_lease(m)

Spec == Init /\ [][Next]_vars

\* The SDK calls dhcps_coarse_tmr every minute, whatever the stations do.
FairSpec == Spec /\ WF_vars(dhcps_coarse_tmr)

-----------------------------------------------------------------------------
(* Properties. *)

\* Every field has its type.  A lease timer is never zero between two calls:
\* lease_timer is unsigned, and one more decrement would make it immortal.
TypeOK ==
    /\ plist \in Seq(Node)
    /\ lease \in [enable : BOOLEAN, start : Addrs, end : Addrs]
    /\ ltime \in LeaseTimes
    /\ renew \in BOOLEAN
    /\ status \in {"stopped", "started"}
    /\ ap \in ApIps
    /\ out.kind \in {"none", "OFFER", "ACK", "NAK"} /\ out.ip \in Addrs

\* client_update, add_dhcps_lease and the takeover of an offline node leave
\* at most one node per station on the list, so the "first" and the "last"
\* node of a station, which the code uses in turn, are the same one.
OneLeasePerStation ==
    \A i, j \in DOMAIN plist : plist[i].mac = plist[j].mac => i = j

\* No address is leased to two stations: client_update treats an address on
\* the list as used ("ip is used") unless its station is offline.
NoSharedAddress ==
    \A i, j \in DOMAIN plist : plist[i].ip = plist[j].ip => i = j

\* An offer or an acknowledgement that names an address is backed by a lease
\* of that address to that station, online, when the reply leaves.
ReplyBacked ==
    out.kind \in {"OFFER", "ACK"} /\ out.ip # ANY =>
        \E i \in DOMAIN plist : /\ plist[i].mac = out.mac
                                /\ plist[i].ip = out.ip
                                /\ plist[i].state = "ONLINE"

\* While the server runs, its range is not empty, is in the AP's segment and
\* does not contain the AP's address, however the AP was renumbered between
\* wifi_softap_set_dhcps_lease and dhcps_start.
RangeExcludesServer == status = "started" => RangeOK(lease, ap)

\* What station m does, or what the blobs report of it.
ByStation(m) ==
    \/ Message(m)
    \/ \E a \in Claims \union {plist[i].ip : i \in DOMAIN plist} :
          client_update(m, a) \/ client_leave(m, a)

\* An online lease changes or disappears only by an act of its own station,
\* by the timer, or when the server stops: no other station can take it.
OnlineLeaseKept ==
    [][\A i \in DOMAIN plist :
         plist[i].state = "ONLINE" /\ (\A j \in DOMAIN plist' : plist'[j] # plist[i])
         => dhcps_stop \/ dhcps_coarse_tmr \/ ByStation(plist[i].mac)]_vars

\* A reserved lease gets an address that no station has: the description of
\* wifi_softap_add_dhcps_lease promises "the next available @".
ReservesAvailable ==
    [][\A m \in Macs : wifi_softap_add_dhcps_lease(m) =>
         \A i \in DOMAIN plist : plist[i].ip # Plus(lease.start, Len(plist))]_vars

-----------------------------------------------------------------------------
(* The inductive invariants behind these properties. *)

\* A running server has the enabled range it was given, if that suits its
\* address, or the default one: a second start computes the same range again.
RangeKept ==
    status = "started" => \/ lease.enable /\ RangeOK(lease, ap)
                          \/ lease = DefaultRange(ap)

\* The list is in the order of the addresses, in the segment of the range,
\* from start_ip on, and ends before the last address of the segment.
Ordered(list, first) ==
    /\ \A i \in 1 .. Len(list) : /\ list[i].ip.net = first.net
                              /\ list[i].ip.host \in first.host .. Octets - 2
    /\ \A i, j \in 1 .. Len(list) : i < j => list[i].ip.host < list[j].ip.host

\* The range ends before the last address of the segment as well, and a
\* stopped server has no leases.
Table ==
    /\ Ordered(plist, lease.start)
    /\ lease.enable => lease.end.host < Octets - 1
    /\ status = "stopped" => plist = <<>>

\* What holds of any server, and what NoSharedAddress needs in addition.
LeaseInv == TypeOK /\ OneLeasePerStation /\ RangeKept
TableInv == LeaseInv /\ Table

-----------------------------------------------------------------------------

\* A dynamic lease of station m is on the list.
HoldsDynamic(m) ==
    \E i \in DOMAIN plist : plist[i].mac = m /\ plist[i].type = "DYNAMIC"

\* Station m's dynamic lease is renewed or granted again.
Renewed(m) ==
    \E i \in DOMAIN plist, j \in DOMAIN plist' :
        /\ plist[i].mac = m /\ plist'[j].mac = m
        /\ plist[i].timer < plist'[j].timer

\* The timer frees every dynamic lease its station stops renewing, so the
\* address returns to the range: no lease lasts for ever in silence.
SilentLeaseExpires ==
    \A m \in Macs : <>[]HoldsDynamic(m) => []<><<Renewed(m)>>_vars
=============================================================================
