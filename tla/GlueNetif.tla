------------------------------ MODULE GlueNetif ------------------------------
(***************************************************************************)
(* The two copies of each network interface.  The blobs own a lwIP 1.4     *)
(* netif (netif_esp, lwip-esp.c) and lwIP 2 owns another (netif_git,       *)
(* lwip-git.c).  The glue propagates what the blobs do to the lwIP 2 copy, *)
(* and what lwIP 2's DHCP client does to the blobs' copy, through the      *)
(* status callback of the station interface.                               *)
(*                                                                         *)
(* Calls nest: a handler changes one copy, calls into the other side,      *)
(* which may call back.  They all run to completion in one context, so a   *)
(* handler is one action, written as a composition of functions on the     *)
(* state record, in the order of the code.                                 *)
(***************************************************************************)
EXTENDS Naturals

CONSTANTS
    Addrs,   \* IPv4 addresses an interface can get
    Gws      \* gateway and netmask, set together; 0 is "no gateway"

ASSUME AddrAssumption == Addrs \subseteq Nat \ {0} /\ Gws \subseteq Nat

Ifs == {"sta", "ap"}   \* STATION_IF, SOFTAP_IF
Any == 0               \* IPADDR_ANY

VARIABLES
    esp,     \* netif_esp: [reg, up, link, ip, gw]; ~reg is the NULL pointer
    git,     \* netif_git: [up, link, ip, gw]
    dft,     \* netif_default of lwIP 2
    dhcp,    \* DHCP client on the station interface
    sntp,    \* address for which SNTP was last restarted
    told,    \* last system_station_got_ip_set: [old, new, was], was is ghost
    bcast    \* broadcast_dhcps: "subnet" of the AP, or "limited"

vars == <<esp, git, dft, dhcp, sntp, told, bcast>>

NoEsp == [reg |-> FALSE, up |-> FALSE, link |-> FALSE, ip |-> Any, gw |-> 0]
NoGit == [up |-> FALSE, link |-> FALSE, ip |-> Any, gw |-> 0]
NotTold == [old |-> Any, new |-> Any, was |-> Any]

\* esp2glue_lwip_init has added both lwIP 2 interfaces, without address.
Init ==
    /\ esp = [i \in Ifs |-> NoEsp]
    /\ git = [i \in Ifs |-> NoGit]
    /\ dft = "none"
    /\ dhcp = "off"
    /\ sntp = Any
    /\ told = NotTold
    /\ bcast = "none"

Now == [esp |-> esp, git |-> git, dft |-> dft, dhcp |-> dhcp,
        sntp |-> sntp, told |-> told, bcast |-> bcast]

Becomes(s) ==
    /\ esp' = s.esp /\ git' = s.git /\ dft' = s.dft /\ dhcp' = s.dhcp
    /\ sntp' = s.sntp /\ told' = s.told /\ bcast' = s.bcast

-----------------------------------------------------------------------------
(* From lwIP 2 to the blobs. *)

\* Mutant: the address is copied only when the interface gets one.
glue2esp_ifupdown_up_only(s, i) ==
    IF s.git[i].ip = Any THEN [s EXCEPT !.esp[i].up = FALSE]
    ELSE [s EXCEPT !.esp[i].ip = s.git[i].ip, !.esp[i].gw = s.git[i].gw,
                   !.esp[i].up = TRUE,
                   !.told = [old |-> s.esp[i].ip, new |-> s.git[i].ip, was |-> esp[i].ip]]

\* Mutant: the blobs' copy is not brought up.
glue2esp_ifupdown_no_up(s, i) ==
    [s EXCEPT !.esp[i].ip = s.git[i].ip, !.esp[i].gw = s.git[i].gw]

\* The blobs' copy takes the address; they are told of an address other
\* than 0 by means of the one their copy had.
glue2esp_ifupdown(s, i) ==
    LET ip == s.git[i].ip
    IN  [s EXCEPT !.esp[i] = [@ EXCEPT !.ip = ip, !.gw = s.git[i].gw, !.up = (ip # Any)],
                  !.told = IF ip = Any THEN @
                           ELSE [old |-> s.esp[i].ip, new |-> ip, was |-> esp[i].ip]]

\* The station interface becomes the default route if there is none and it
\* has a gateway, and stops being it when it goes down.
DefaultRoute(s) ==
    IF s.git["sta"].up
    THEN IF s.dft = "none" /\ s.git["sta"].gw # 0 THEN [s EXCEPT !.dft = "sta"] ELSE s
    ELSE IF s.dft = "sta" THEN [s EXCEPT !.dft = "none"] ELSE s

\* sntp_stop, sntp_init when the interface is up with an address.
RestartSntp(s) ==
    IF s.git["sta"].up /\ s.git["sta"].ip # Any
    THEN [s EXCEPT !.sntp = s.git["sta"].ip] ELSE s

netif_sta_status_callback(s) ==
    RestartSntp(DefaultRoute(glue2esp_ifupdown(s, "sta")))

-----------------------------------------------------------------------------
(* lwIP 2 (external): when it calls the status callback. *)

StatusCallback(s, i) == IF i = "sta" THEN netif_sta_status_callback(s) ELSE s

\* netif_set_addr: an address is removed before, and set after, the rest; a
\* changed address calls back.
GitSetAddr(s, i, ip, gw) ==
    LET Ip(t) == IF t.git[i].ip = ip THEN t
                 ELSE StatusCallback([t EXCEPT !.git[i].ip = ip], i)
        Gw(t) == [t EXCEPT !.git[i].gw = gw]
    IN  IF ip = Any THEN Gw(Ip(s)) ELSE Ip(Gw(s))

GitSetUp(s, i) ==
    IF s.git[i].up THEN s ELSE StatusCallback([s EXCEPT !.git[i].up = TRUE], i)

GitSetDown(s, i) ==
    IF s.git[i].up THEN StatusCallback([s EXCEPT !.git[i].up = FALSE], i) ELSE s

GitSetLink(s, i, b) == [s EXCEPT !.git[i].link = b]

\* dhcp_release_and_stop: a running client takes its address away.
GitDhcpStop(s, i) ==
    IF i = "sta" /\ s.dhcp # "off"
    THEN [GitSetAddr(s, i, Any, 0) EXCEPT !.dhcp = "off"] ELSE s

-----------------------------------------------------------------------------
(* From the blobs to lwIP 2. *)

\* Pulled up: the flag alone, so that there is no callback.
GlueUp(s, i) == [GitSetLink(s, i, TRUE) EXCEPT !.git[i].up = TRUE]

\* Mutant: both copies are cleared in place, without the callback.
GlueDown_in_place(s, i) ==
    [GitDhcpStop(s, i) EXCEPT !.git[i] = NoGit, !.esp[i] = [NoEsp EXCEPT !.reg = TRUE]]

\* Mutant: the DHCP client keeps running.
GlueDown_no_dhcp_stop(s, i) ==
    LET cleared == [s EXCEPT !.git[i].ip = Any, !.git[i].gw = 0]
        down == GitSetDown(GitSetLink(cleared, i, FALSE), i)
    IN  [down EXCEPT !.dft = IF @ = i THEN "none" ELSE @]

\* Pulled down: DHCP stopped, addresses cleared, then the callback.
GlueDown(s, i) ==
    LET cleared == [GitDhcpStop(s, i) EXCEPT !.git[i].ip = Any, !.git[i].gw = 0]
        down == GitSetDown(GitSetLink(cleared, i, FALSE), i)
    IN  [down EXCEPT !.dft = IF @ = i THEN "none" ELSE @]

\* Mutant: the UP flag is left to the end.
esp2glue_netif_update_late(s, i, ip, gw) ==
    GlueUp(GitSetAddr([s EXCEPT !.git[i].link = TRUE], i, ip, gw), i)

\* esp2glue_netif_update: flags by address, the address, then up in any case.
esp2glue_netif_update(s, i, ip, gw) ==
    GlueUp(GitSetAddr([s EXCEPT !.git[i] = [@ EXCEPT !.link = TRUE, !.up = (ip # Any)]],
                      i, ip, gw), i)

\* A new interface is registered, and then cleared by netif_add.
netif_is_new(s, i) ==
    IF s.esp[i].reg THEN s ELSE [s EXCEPT !.esp[i] = [NoEsp EXCEPT !.reg = TRUE]]

\* The blobs' netif_set_addr; what it writes with wifi_set_ip_info is what
\* the blobs asked for.
SetAddr(s, i, ip, gw) ==
    esp2glue_netif_update(
        [netif_is_new(s, i) EXCEPT !.esp[i].ip = ip, !.esp[i].gw = gw,
                                   !.esp[i].link = (ip # Any)],
        i, ip, gw)

-----------------------------------------------------------------------------
(* Actions of the blobs.  They use an interface only once it is known to   *)
(* the glue, add one only when it is down, and give the access point an    *)
(* address.                                                                *)

\* ok is what the blobs' init callback returns; if it fails the interface
\* is only cleared.
netif_add(i, ip, gw, ok) ==
    LET cleared == [Now EXCEPT !.esp[i] = [NoEsp EXCEPT !.reg = esp[i].reg]]
    IN  /\ ~git[i].up
        /\ i = "ap" => ip # Any
        /\ Becomes(IF ok THEN SetAddr(cleared, i, ip, gw) ELSE cleared)

netif_set_addr(i, ip, gw) == Becomes(SetAddr(Now, i, ip, gw))

netif_set_up(i) ==
    /\ esp[i].reg
    /\ Becomes(GlueUp([Now EXCEPT !.esp[i].up = TRUE, !.esp[i].link = TRUE], i))

\* Also netif_remove.
netif_set_down(i) ==
    /\ esp[i].reg
    /\ Becomes(GlueDown([Now EXCEPT !.esp[i].up = FALSE, !.esp[i].link = FALSE], i))

\* dhcp_start and esp2glue_dhcp_start; ok is lwIP 2's answer.
dhcp_start(ok) ==
    /\ esp["sta"].reg
    /\ Becomes([GitSetUp(GitSetLink([Now EXCEPT !.esp["sta"].link = TRUE],
                                    "sta", TRUE), "sta")
                  EXCEPT !.dhcp = IF ok THEN "selecting" ELSE "off"])

dhcp_stop ==
    /\ esp["sta"].reg
    /\ Becomes(GitDhcpStop(Now, "sta"))

\* dhcps_start of both sides: the interface is pulled up, the broadcast
\* address is computed from lwIP 2's copy, and wifi_set_ip_info makes the
\* blobs set the address of the access point.
dhcps_start(ip, gw) ==
    LET up == GlueUp(Now, "ap")
        on == [up EXCEPT !.bcast = IF up.git["ap"].ip = Any THEN "limited" ELSE "subnet"]
    IN  /\ esp["ap"].reg
        /\ Becomes(GlueUp(SetAddr(on, "ap", ip, gw), "ap"))

-----------------------------------------------------------------------------
(* Events of lwIP 2's DHCP client (external). *)

\* lwIP 2's client needs a linked interface of its own only: the answer may
\* come after the blobs cleared the address, and so the link, of theirs.
DhcpBound(ip, gw) ==
    /\ dhcp # "off" /\ git["sta"].up /\ git["sta"].link
    /\ Becomes([GitSetAddr(Now, "sta", ip, gw) EXCEPT !.dhcp = "bound"])

\* The lease expires or is refused.
DhcpLost ==
    /\ dhcp = "bound"
    /\ Becomes([GitSetAddr(Now, "sta", Any, 0) EXCEPT !.dhcp = "selecting"])

Next ==
    \/ \E i \in Ifs, ip \in Addrs \union {Any}, gw \in Gws, ok \in BOOLEAN :
          netif_add(i, ip, gw, ok)
    \/ \E i \in Ifs, ip \in Addrs, gw \in Gws : netif_set_addr(i, ip, gw)
    \/ netif_set_addr("sta", Any, 0)
    \/ \E i \in Ifs : netif_set_up(i)
    \/ \E i \in Ifs : netif_set_down(i)
    \/ \E ok \in BOOLEAN : dhcp_start(ok)
    \/ dhcp_stop
    \/ \E ip \in Addrs, gw \in Gws : dhcps_start(ip, gw)
    \/ \E ip \in Addrs, gw \in Gws : DhcpBound(ip, gw)
    \/ DhcpLost

Spec == Init /\ [][Next]_vars

-----------------------------------------------------------------------------
(* Properties. *)

\* Types of both copies; the default route is the station or none.
TypeOK ==
    /\ esp \in [Ifs -> [reg : BOOLEAN, up : BOOLEAN, link : BOOLEAN,
                        ip : Addrs \union {Any}, gw : Gws \union {0}]]
    /\ git \in [Ifs -> [up : BOOLEAN, link : BOOLEAN,
                        ip : Addrs \union {Any}, gw : Gws \union {0}]]
    /\ dft \in {"none", "sta"}
    /\ dhcp \in {"off", "selecting", "bound"}
    /\ sntp \in Addrs \union {Any}
    /\ told \in [old : Addrs \union {Any}, new : Addrs \union {Any}, was : Addrs \union {Any}]
    /\ bcast \in {"none", "subnet", "limited"}

\* Whoever changed it last, both copies of a known station interface have
\* the same address once the handler is over: callbacks are not lost when
\* lwIP 2 skips them because its own copy did not change.
AddressMirrored == esp["sta"].reg => esp["sta"].ip = git["sta"].ip

\* A station with an address can use it: both copies are up and linked, which
\* glue2esp_linkoutput and lwIP 2 require to send.
StationUsable ==
    git["sta"].ip # Any =>
        esp["sta"].up /\ esp["sta"].link /\ git["sta"].up /\ git["sta"].link

\* The address stays usable whatever either side does, but for one race: the
\* DHCP answer that netif_sta_status_callback passes on to a copy whose link
\* the blobs have cleared in the meantime.
AddressUsable ==
    [][StationUsable /\ ~StationUsable' =>
          /\ ~esp["sta"].link
          /\ \E ip \in Addrs, gw \in Gws : DhcpBound(ip, gw)]_vars

\* SNTP was restarted with the station's present address, whichever side
\* set it.
SntpFollowsAddress == git["sta"].ip # Any => sntp = git["sta"].ip

\* The default route never points at a station interface that is down.
DefaultRouteUp == dft = "sta" => git["sta"].up

\* netif_set_down leaves nothing of the station on either side: no address,
\* no gateway, no DHCP client, no default route, both copies down.
DownIsComplete ==
    [][netif_set_down("sta") =>
         /\ esp'["sta"] = [NoEsp EXCEPT !.reg = TRUE]
         /\ git'["sta"] = NoGit
         /\ dft' = "none" /\ dhcp' = "off"]_vars

\* The comment in glue2esp_ifupdown: "tell esp to check IP has changed (by
\* giving old IPs)": when the address of the blobs' copy changes, the old one
\* it is compared with is the one before the change.
GotIpGivesOld == told.old = told.was

\* The comment in dhcps_start: answers go to the AP's subnet broadcast, and
\* 255.255.255.255 is "wrong: answer will go to sta".
BroadcastOnAp == bcast # "limited"
=============================================================================
