--------------------------- MODULE GlueNetifProofs ---------------------------
(***************************************************************************)
(* Proofs about GlueNetif, for any addresses and gateways.                 *)
(***************************************************************************)
EXTENDS GlueNetif, TLAPS

Address == Addrs \union {Any}
Gateway == Gws \union {0}

EspRec == [reg : BOOLEAN, up : BOOLEAN, link : BOOLEAN, ip : Address, gw : Gateway]
GitRec == [up : BOOLEAN, link : BOOLEAN, ip : Address, gw : Gateway]

\* The state records that the handlers pass on.
State ==
    [esp : [Ifs -> EspRec], git : [Ifs -> GitRec],
     dft : {"none", "sta"}, dhcp : {"off", "selecting", "bound"}, sntp : Address,
     told : [old : Address, new : Address, was : Address],
     bcast : {"none", "subnet", "limited"}]

\* The properties of the station interface, of a state record.
Mirrored(s) == s.esp["sta"].reg => s.esp["sta"].ip = s.git["sta"].ip
Working(s) ==
    s.git["sta"].ip # Any => s.esp["sta"].up /\ s.git["sta"].up /\ s.git["sta"].link
Linked(s) == s.git["sta"].ip # Any => s.esp["sta"].link
Followed(s) == s.git["sta"].ip # Any => s.sntp = s.git["sta"].ip
RouteUp(s) == s.dft = "sta" => s.git["sta"].up

\* A station interface that the glue does not know has no address and no DHCP
\* client, and one that is down has no gateway.
Unknown(s) == ~s.esp["sta"].reg => s.git["sta"].ip = Any /\ s.dhcp = "off"
DownHasNoGw(s) == ~s.git["sta"].up => s.esp["sta"].gw = 0

\* The link of the blobs' copy is a part of its own: a late DHCP answer, and
\* nothing else, breaks it.  The lemmas hold with the part and without it.
Parts == {"linked", "any"}

Good(s, part) ==
    /\ Mirrored(s) /\ Working(s) /\ Followed(s) /\ RouteUp(s)
    /\ Unknown(s) /\ DownHasNoGw(s)
    /\ part = "linked" => Linked(s)

\* The inductive invariant.
IInv(part) == TypeOK /\ Good(Now, part)

\* What the properties say of a state record.
Station(s) == <<s.esp["sta"], s.git["sta"], s.dft, s.dhcp, s.sntp>>

-----------------------------------------------------------------------------
(* State records. *)

\* A handler writes one record of one of the two copies.
LEMMA PutGit ==
  ASSUME NEW s \in State, NEW i \in Ifs, NEW r \in GitRec
  PROVE  /\ [s EXCEPT !.git[i] = r] \in State
         /\ [s EXCEPT !.git[i] = r].git[i] = r
         /\ \A j \in Ifs \ {i} : [s EXCEPT !.git[i] = r].git[j] = s.git[j]
         /\ [s EXCEPT !.git[i] = r].esp = s.esp
         /\ [s EXCEPT !.git[i] = r].dft = s.dft
         /\ [s EXCEPT !.git[i] = r].dhcp = s.dhcp
         /\ [s EXCEPT !.git[i] = r].sntp = s.sntp
BY DEF State

LEMMA PutEsp ==
  ASSUME NEW s \in State, NEW i \in Ifs, NEW r \in EspRec
  PROVE  /\ [s EXCEPT !.esp[i] = r] \in State
         /\ [s EXCEPT !.esp[i] = r].esp[i] = r
         /\ \A j \in Ifs \ {i} : [s EXCEPT !.esp[i] = r].esp[j] = s.esp[j]
         /\ [s EXCEPT !.esp[i] = r].git = s.git
         /\ [s EXCEPT !.esp[i] = r].dft = s.dft
         /\ [s EXCEPT !.esp[i] = r].dhcp = s.dhcp
         /\ [s EXCEPT !.esp[i] = r].sntp = s.sntp
BY DEF State

\* glue2esp_ifupdown and the rest of the status callback of the station.
LEMMA IfupdownFacts ==
  ASSUME TypeOK, NEW s \in State
  PROVE  LET t == glue2esp_ifupdown(s, "sta")
             g == s.git["sta"]
         IN  /\ t \in State /\ t.git = s.git /\ t.dft = s.dft /\ t.dhcp = s.dhcp /\ t.sntp = s.sntp
             /\ t.esp["sta"].reg = s.esp["sta"].reg /\ t.esp["sta"].link = s.esp["sta"].link
             /\ t.esp["sta"].ip = g.ip /\ t.esp["sta"].gw = g.gw
             /\ t.esp["sta"].up <=> g.ip # Any
<1> DEFINE g == s.git["sta"]
           r == [s.esp["sta"] EXCEPT !.ip = g.ip, !.gw = g.gw, !.up = (g.ip # Any)]
           old == IF g.ip = Any THEN s.told
                  ELSE [old |-> s.esp["sta"].ip, new |-> g.ip, was |-> esp["sta"].ip]
<1>1. s.esp["sta"] \in EspRec /\ g \in GitRec /\ esp["sta"].ip \in Address
  BY DEF State, Ifs, TypeOK, Address
<1>2. r \in EspRec
  BY <1>1 DEF EspRec, GitRec
<1>3. /\ r.reg = s.esp["sta"].reg /\ r.link = s.esp["sta"].link
      /\ r.ip = g.ip /\ r.gw = g.gw /\ (r.up <=> g.ip # Any)
  BY <1>1 DEF EspRec, GitRec
<1>4. old \in [old : Address, new : Address, was : Address]
  BY <1>1 DEF EspRec, GitRec, State
<1>5. glue2esp_ifupdown(s, "sta") = [s EXCEPT !.esp["sta"] = r, !.told = old]
  BY DEF glue2esp_ifupdown
<1> HIDE DEF r, old
<1> DEFINE t == [s EXCEPT !.esp["sta"] = r, !.told = old]
<1>6. t \in State /\ t.git = s.git /\ t.dft = s.dft /\ t.dhcp = s.dhcp /\ t.sntp = s.sntp
  BY <1>2, <1>4 DEF State, Ifs
<1>7. t.esp["sta"] = r
  BY DEF State, Ifs
<1>8. QED
  BY <1>3, <1>5, <1>6, <1>7

LEMMA CallbackFacts ==
  ASSUME TypeOK, NEW s \in State
  PROVE  LET t == netif_sta_status_callback(s)
             g == s.git["sta"]
         IN  /\ t \in State /\ t.git = s.git /\ t.dhcp = s.dhcp
             /\ t.esp["sta"].reg = s.esp["sta"].reg /\ t.esp["sta"].link = s.esp["sta"].link
             /\ t.esp["sta"].ip = g.ip /\ t.esp["sta"].gw = g.gw
             /\ t.esp["sta"].up <=> g.ip # Any
             /\ t.dft = "sta" => g.up
             /\ t.sntp = IF g.up /\ g.ip # Any THEN g.ip ELSE s.sntp
<1> DEFINE g == s.git["sta"]
           a == glue2esp_ifupdown(s, "sta")
           b == DefaultRoute(a)
           c == RestartSntp(b)
<1>1. /\ a \in State /\ a.git = s.git /\ a.dft = s.dft /\ a.dhcp = s.dhcp /\ a.sntp = s.sntp
      /\ a.esp["sta"].reg = s.esp["sta"].reg /\ a.esp["sta"].link = s.esp["sta"].link
      /\ a.esp["sta"].ip = g.ip /\ a.esp["sta"].gw = g.gw
      /\ a.esp["sta"].up <=> g.ip # Any
  BY IfupdownFacts
<1> HIDE DEF a
<1>2. /\ b \in State /\ b.git = a.git /\ b.esp = a.esp /\ b.dhcp = a.dhcp /\ b.sntp = a.sntp
      /\ b.dft = "sta" => a.git["sta"].up
  BY <1>1 DEF DefaultRoute, State
<1> HIDE DEF b
<1>3. /\ c \in State /\ c.git = b.git /\ c.esp = b.esp /\ c.dhcp = b.dhcp /\ c.dft = b.dft
      /\ c.sntp = IF g.up /\ g.ip # Any THEN g.ip ELSE b.sntp
  <2>1. b.git["sta"] = g /\ g.ip \in Address
    BY <1>1, <1>2 DEF State, GitRec, Ifs
  <2>2. CASE g.up /\ g.ip # Any
    <3>1. c = [b EXCEPT !.sntp = g.ip]
      BY <2>1, <2>2 DEF RestartSntp
    <3>2. QED
      BY <1>2, <2>1, <2>2, <3>1 DEF State
  <2>3. CASE ~(g.up /\ g.ip # Any)
    <3>1. c = b
      BY <2>1, <2>3 DEF RestartSntp
    <3>2. QED
      BY <1>2, <2>3, <3>1
  <2>4. QED
    BY <2>2, <2>3
<1> HIDE DEF c
<1>4. netif_sta_status_callback(s) = c
  BY DEF netif_sta_status_callback, a, b, c
<1>5. QED
  BY <1>1, <1>2, <1>3, <1>4

\* What lwIP 2 does to the access point does not reach the station.
LEMMA ApSetAddr ==
  ASSUME NEW s \in State, NEW ip \in Address, NEW gw \in Gateway
  PROVE  LET t == GitSetAddr(s, "ap", ip, gw) IN t \in State /\ Station(t) = Station(s)
<1> DEFINE Ip(t) == IF t.git["ap"].ip = ip THEN t ELSE [t EXCEPT !.git["ap"].ip = ip]
           Gw(t) == [t EXCEPT !.git["ap"].gw = gw]
<1>1. ASSUME NEW t \in State PROVE Ip(t) \in State /\ Station(Ip(t)) = Station(t)
  BY DEF State, GitRec, Station, Ifs
<1>2. ASSUME NEW t \in State PROVE Gw(t) \in State /\ Station(Gw(t)) = Station(t)
  BY DEF State, GitRec, Station, Ifs
<1>3. GitSetAddr(s, "ap", ip, gw) = IF ip = Any THEN Gw(Ip(s)) ELSE Ip(Gw(s))
  BY DEF GitSetAddr, StatusCallback
<1> HIDE DEF Ip, Gw
<1>4. QED
  BY <1>1, <1>2, <1>3

\* lwIP 2 sets the station's address: when it changes, the blobs' copy gets
\* it, with the flag it asks for, and SNTP too.
LEMMA StaSetAddr ==
  ASSUME TypeOK, NEW s \in State, NEW ip \in Address, NEW gw \in Gateway
  PROVE  LET t == GitSetAddr(s, "sta", ip, gw)
             e == s.esp["sta"]
             g == s.git["sta"]
         IN  /\ t \in State /\ t.dhcp = s.dhcp
             /\ t.git["sta"].ip = ip /\ t.git["sta"].gw = gw
             /\ t.git["sta"].up = g.up /\ t.git["sta"].link = g.link
             /\ t.esp["sta"].reg = e.reg /\ t.esp["sta"].link = e.link
             /\ g.ip = ip => t.esp["sta"] = e /\ t.dft = s.dft /\ t.sntp = s.sntp
             /\ g.ip # ip => /\ t.esp["sta"].ip = ip
                             /\ t.esp["sta"].up <=> ip # Any
                             /\ t.dft = "sta" => g.up
                             /\ t.sntp = IF g.up /\ ip # Any THEN ip ELSE s.sntp
<1> DEFINE Set(t) == [t EXCEPT !.git["sta"].ip = ip]
           Ip(t) == IF t.git["sta"].ip = ip THEN t ELSE netif_sta_status_callback(Set(t))
           Gw(t) == [t EXCEPT !.git["sta"].gw = gw]
<1>1. ASSUME NEW t \in State
      PROVE  /\ Gw(t) \in State /\ Gw(t).git["sta"].gw = gw
             /\ Gw(t).git["sta"].up = t.git["sta"].up /\ Gw(t).git["sta"].link = t.git["sta"].link
             /\ Gw(t).git["sta"].ip = t.git["sta"].ip
             /\ Gw(t).esp = t.esp /\ Gw(t).dft = t.dft /\ Gw(t).dhcp = t.dhcp /\ Gw(t).sntp = t.sntp
  BY DEF State, GitRec, Ifs
<1>2. ASSUME NEW t \in State
      PROVE  /\ Set(t) \in State /\ Set(t).git["sta"].ip = ip
             /\ Set(t).git["sta"].up = t.git["sta"].up /\ Set(t).git["sta"].link = t.git["sta"].link
             /\ Set(t).git["sta"].gw = t.git["sta"].gw
             /\ Set(t).esp = t.esp /\ Set(t).dft = t.dft /\ Set(t).dhcp = t.dhcp /\ Set(t).sntp = t.sntp
  BY DEF State, GitRec, Ifs
<1>3. GitSetAddr(s, "sta", ip, gw) = IF ip = Any THEN Gw(Ip(s)) ELSE Ip(Gw(s))
  BY DEF GitSetAddr, StatusCallback
<1> HIDE DEF Gw, Set
<1>4. ASSUME NEW t \in State
      PROVE  /\ Ip(t) \in State /\ Ip(t).dhcp = t.dhcp
             /\ Ip(t).git["sta"].ip = ip /\ Ip(t).git["sta"].gw = t.git["sta"].gw
             /\ Ip(t).git["sta"].up = t.git["sta"].up /\ Ip(t).git["sta"].link = t.git["sta"].link
             /\ Ip(t).esp["sta"].reg = t.esp["sta"].reg /\ Ip(t).esp["sta"].link = t.esp["sta"].link
             /\ t.git["sta"].ip = ip => Ip(t) = t
             /\ t.git["sta"].ip # ip =>
                   /\ Ip(t).esp["sta"].ip = ip
                   /\ Ip(t).esp["sta"].up <=> ip # Any
                   /\ Ip(t).dft = "sta" => t.git["sta"].up
                   /\ Ip(t).sntp = IF t.git["sta"].up /\ ip # Any THEN ip ELSE t.sntp
  <2>1. CASE t.git["sta"].ip = ip
    BY <2>1
  <2>2. CASE t.git["sta"].ip # ip
    <3> DEFINE u == Set(t)
               c == netif_sta_status_callback(u)
    <3>1. /\ u \in State /\ u.git["sta"].ip = ip /\ u.git["sta"].up = t.git["sta"].up
          /\ u.git["sta"].link = t.git["sta"].link /\ u.git["sta"].gw = t.git["sta"].gw
          /\ u.esp = t.esp /\ u.dhcp = t.dhcp /\ u.sntp = t.sntp
      BY <1>2
    <3> HIDE DEF u
    <3>2. /\ c \in State /\ c.git = u.git /\ c.dhcp = u.dhcp
          /\ c.esp["sta"].reg = u.esp["sta"].reg /\ c.esp["sta"].link = u.esp["sta"].link
          /\ c.esp["sta"].ip = ip /\ (c.esp["sta"].up <=> ip # Any)
          /\ c.dft = "sta" => u.git["sta"].up
          /\ c.sntp = IF u.git["sta"].up /\ ip # Any THEN ip ELSE u.sntp
      BY <3>1, CallbackFacts
    <3>3. Ip(t) = c
      BY <2>2 DEF u
    <3> HIDE DEF Ip, c
    <3>4. QED
      BY <2>2, <3>1, <3>2, <3>3
  <2>3. QED
    BY <2>1, <2>2
<1> HIDE DEF Ip
<1>5. CASE ip = Any
  <2> DEFINE t == Ip(s)
  <2>1. GitSetAddr(s, "sta", ip, gw) = Gw(t) /\ t \in State
    BY <1>3, <1>4, <1>5
  <2>2. QED
    BY <1>1, <1>4, <2>1
<1>6. CASE ip # Any
  <2> DEFINE t == Gw(s)
  <2>1. GitSetAddr(s, "sta", ip, gw) = Ip(t) /\ t \in State
    BY <1>1, <1>3, <1>6
  <2>2. /\ t.git["sta"].ip = s.git["sta"].ip /\ t.git["sta"].up = s.git["sta"].up
        /\ t.git["sta"].link = s.git["sta"].link /\ t.git["sta"].gw = gw
        /\ t.esp = s.esp /\ t.dft = s.dft /\ t.dhcp = s.dhcp /\ t.sntp = s.sntp
    BY <1>1
  <2> HIDE DEF t
  <2>3. QED
    BY <1>4, <2>1, <2>2
<1>7. QED
  BY <1>5, <1>6

\* The flags of lwIP 2's copy.
LEMMA LinkFacts ==
  ASSUME NEW s \in State, NEW i \in Ifs, NEW b \in BOOLEAN
  PROVE  LET t == [s EXCEPT !.git[i].link = b]
         IN  /\ t \in State /\ (i = "ap" => Station(t) = Station(s))
             /\ t.esp = s.esp /\ t.dft = s.dft /\ t.dhcp = s.dhcp /\ t.sntp = s.sntp
             /\ t.git[i].ip = s.git[i].ip /\ t.git[i].gw = s.git[i].gw
             /\ t.git[i].up = s.git[i].up /\ t.git[i].link = b
BY DEF State, GitRec, Ifs, Station

LEMMA UpFacts ==
  ASSUME NEW s \in State, NEW i \in Ifs, NEW b \in BOOLEAN
  PROVE  LET t == [s EXCEPT !.git[i].up = b]
         IN  /\ t \in State /\ (i = "ap" => Station(t) = Station(s))
             /\ t.esp = s.esp /\ t.dft = s.dft /\ t.dhcp = s.dhcp /\ t.sntp = s.sntp
             /\ t.git[i].ip = s.git[i].ip /\ t.git[i].gw = s.git[i].gw
             /\ t.git[i].link = s.git[i].link /\ t.git[i].up = b
BY DEF State, GitRec, Ifs, Station

\* lwIP 2 brings the station up or down: the blobs' copy gets the address it
\* then has.
LEMMA StaSetUp ==
  ASSUME TypeOK, NEW s \in State
  PROVE  LET t == GitSetUp(s, "sta")
             e == s.esp["sta"]
             g == s.git["sta"]
         IN  /\ t \in State /\ t.dhcp = s.dhcp
             /\ t.git["sta"].ip = g.ip /\ t.git["sta"].gw = g.gw
             /\ t.git["sta"].up /\ t.git["sta"].link = g.link
             /\ t.esp["sta"].reg = e.reg /\ t.esp["sta"].link = e.link
             /\ g.up => t.esp["sta"] = e /\ t.dft = s.dft /\ t.sntp = s.sntp
             /\ ~g.up => /\ t.esp["sta"].ip = g.ip
                         /\ t.esp["sta"].up <=> g.ip # Any
                         /\ t.sntp = IF g.ip # Any THEN g.ip ELSE s.sntp
<1>1. CASE s.git["sta"].up
  BY <1>1 DEF GitSetUp
<1>2. CASE ~s.git["sta"].up
  <2> DEFINE u == [s EXCEPT !.git["sta"].up = TRUE]
             t == netif_sta_status_callback(u)
  <2>1. GitSetUp(s, "sta") = t
    BY <1>2 DEF GitSetUp, StatusCallback
  <2>2. /\ u \in State
        /\ u.esp = s.esp /\ u.dft = s.dft /\ u.dhcp = s.dhcp /\ u.sntp = s.sntp
        /\ u.git["sta"].ip = s.git["sta"].ip /\ u.git["sta"].gw = s.git["sta"].gw
        /\ u.git["sta"].link = s.git["sta"].link /\ u.git["sta"].up = TRUE
    BY UpFacts DEF Ifs
  <2> HIDE DEF u
  <2>3. /\ t \in State /\ t.git = u.git /\ t.dhcp = u.dhcp
        /\ t.esp["sta"].reg = u.esp["sta"].reg /\ t.esp["sta"].link = u.esp["sta"].link
        /\ t.esp["sta"].ip = u.git["sta"].ip
        /\ t.esp["sta"].up <=> u.git["sta"].ip # Any
        /\ t.sntp = IF u.git["sta"].up /\ u.git["sta"].ip # Any THEN u.git["sta"].ip ELSE u.sntp
    BY <2>2, CallbackFacts
  <2> HIDE DEF t
  <2>4. QED
    BY <1>2, <2>1, <2>2, <2>3
<1>3. QED
  BY <1>1, <1>2

LEMMA StaSetDown ==
  ASSUME TypeOK, NEW s \in State
  PROVE  LET t == GitSetDown(s, "sta")
             e == s.esp["sta"]
             g == s.git["sta"]
         IN  /\ t \in State /\ t.dhcp = s.dhcp
             /\ t.git["sta"].ip = g.ip /\ t.git["sta"].gw = g.gw
             /\ ~t.git["sta"].up /\ t.git["sta"].link = g.link
             /\ t.esp["sta"].reg = e.reg /\ t.esp["sta"].link = e.link
             /\ ~g.up => t.esp["sta"] = e /\ t.dft = s.dft
             /\ g.up => /\ t.esp["sta"].ip = g.ip /\ t.esp["sta"].gw = g.gw
                        /\ t.esp["sta"].up <=> g.ip # Any
                        /\ t.dft # "sta"
             /\ t.sntp = s.sntp
<1>1. CASE ~s.git["sta"].up
  BY <1>1 DEF GitSetDown
<1>2. CASE s.git["sta"].up
  <2> DEFINE u == [s EXCEPT !.git["sta"].up = FALSE]
             t == netif_sta_status_callback(u)
  <2>1. GitSetDown(s, "sta") = t
    BY <1>2 DEF GitSetDown, StatusCallback
  <2>2. /\ u \in State
        /\ u.esp = s.esp /\ u.dft = s.dft /\ u.dhcp = s.dhcp /\ u.sntp = s.sntp
        /\ u.git["sta"].ip = s.git["sta"].ip /\ u.git["sta"].gw = s.git["sta"].gw
        /\ u.git["sta"].link = s.git["sta"].link /\ u.git["sta"].up = FALSE
    BY UpFacts DEF Ifs
  <2> HIDE DEF u
  <2>3. /\ t \in State /\ t.git = u.git /\ t.dhcp = u.dhcp
        /\ t.esp["sta"].reg = u.esp["sta"].reg /\ t.esp["sta"].link = u.esp["sta"].link
        /\ t.esp["sta"].ip = u.git["sta"].ip /\ t.esp["sta"].gw = u.git["sta"].gw
        /\ t.esp["sta"].up <=> u.git["sta"].ip # Any
        /\ t.dft = "sta" => u.git["sta"].up
        /\ t.sntp = IF u.git["sta"].up /\ u.git["sta"].ip # Any THEN u.git["sta"].ip ELSE u.sntp
    BY <2>2, CallbackFacts
  <2> HIDE DEF t
  <2>4. QED
    BY <1>2, <2>1, <2>2, <2>3
<1>3. QED
  BY <1>1, <1>2

\* lwIP 2's DHCP client is stopped: a running one takes the address away.
LEMMA StaDhcpStop ==
  ASSUME TypeOK, NEW s \in State
  PROVE  LET t == GitDhcpStop(s, "sta")
             e == s.esp["sta"]
             g == s.git["sta"]
         IN  /\ t \in State /\ t.dhcp = "off"
             /\ s.dhcp = "off" => t = s
             /\ s.dhcp # "off" => t.git["sta"].ip = Any
             /\ t.git["sta"].up = g.up /\ t.git["sta"].link = g.link
             /\ t.esp["sta"].reg = e.reg /\ t.esp["sta"].link = e.link
             /\ t.git["sta"].ip = g.ip => t.esp["sta"] = e /\ t.dft = s.dft
             /\ t.git["sta"].ip # g.ip =>
                   t.esp["sta"].ip = Any /\ ~t.esp["sta"].up /\ (t.dft = "sta" => g.up)
<1>1. CASE s.dhcp = "off"
  BY <1>1 DEF GitDhcpStop
<1>2. CASE s.dhcp # "off"
  <2> DEFINE u == GitSetAddr(s, "sta", Any, 0)
             t == [u EXCEPT !.dhcp = "off"]
  <2>1. GitDhcpStop(s, "sta") = t
    BY <1>2 DEF GitDhcpStop
  <2>2. /\ u \in State
        /\ u.git["sta"].ip = Any
        /\ u.git["sta"].up = s.git["sta"].up /\ u.git["sta"].link = s.git["sta"].link
        /\ u.esp["sta"].reg = s.esp["sta"].reg /\ u.esp["sta"].link = s.esp["sta"].link
        /\ s.git["sta"].ip = Any => u.esp["sta"] = s.esp["sta"] /\ u.dft = s.dft
        /\ s.git["sta"].ip # Any =>
              u.esp["sta"].ip = Any /\ ~u.esp["sta"].up /\ (u.dft = "sta" => s.git["sta"].up)
    BY StaSetAddr DEF Address, Gateway
  <2> HIDE DEF u
  <2>3. /\ t \in State /\ t.dhcp = "off"
        /\ t.esp = u.esp /\ t.git = u.git /\ t.dft = u.dft
    BY <2>2 DEF State
  <2> HIDE DEF t
  <2>4. QED
    BY <1>2, <2>1, <2>2, <2>3
<1>3. QED
  BY <1>1, <1>2

-----------------------------------------------------------------------------
(* From the blobs to lwIP 2. *)

LEMMA GlueUpFacts ==
  ASSUME NEW s \in State, NEW i \in Ifs
  PROVE  LET t == GlueUp(s, i)
         IN  /\ t \in State /\ (i = "ap" => Station(t) = Station(s))
             /\ t.esp = s.esp /\ t.dft = s.dft /\ t.dhcp = s.dhcp /\ t.sntp = s.sntp
             /\ t.git[i].ip = s.git[i].ip /\ t.git[i].gw = s.git[i].gw
             /\ t.git[i].up = TRUE /\ t.git[i].link = TRUE
<1> DEFINE a == GitSetLink(s, i, TRUE)
           t == [a EXCEPT !.git[i].up = TRUE]
<1>1. /\ a \in State /\ (i = "ap" => Station(a) = Station(s))
      /\ a.esp = s.esp /\ a.dft = s.dft /\ a.dhcp = s.dhcp /\ a.sntp = s.sntp
      /\ a.git[i].ip = s.git[i].ip /\ a.git[i].gw = s.git[i].gw /\ a.git[i].link = TRUE
  BY LinkFacts DEF GitSetLink
<1> HIDE DEF a
<1>2. /\ t \in State /\ (i = "ap" => Station(t) = Station(a))
      /\ t.esp = a.esp /\ t.dft = a.dft /\ t.dhcp = a.dhcp /\ t.sntp = a.sntp
      /\ t.git[i].ip = a.git[i].ip /\ t.git[i].gw = a.git[i].gw
      /\ t.git[i].link = a.git[i].link /\ t.git[i].up = TRUE
  BY <1>1, UpFacts
<1>3. GlueUp(s, i) = t
  BY DEF GlueUp, a
<1> HIDE DEF t
<1>4. QED
  BY <1>1, <1>2, <1>3

\* esp2glue_netif_update: the flags before the address.
LEMMA StaUpdate ==
  ASSUME TypeOK, NEW s \in State, NEW ip \in Address, NEW gw \in Gateway
  PROVE  LET t == esp2glue_netif_update(s, "sta", ip, gw)
             e == s.esp["sta"]
             g == s.git["sta"]
         IN  /\ t \in State /\ t.dhcp = s.dhcp
             /\ t.git["sta"].ip = ip /\ t.git["sta"].up /\ t.git["sta"].link
             /\ t.esp["sta"].reg = e.reg /\ t.esp["sta"].link = e.link
             /\ g.ip = ip => t.esp["sta"] = e /\ t.sntp = s.sntp
             /\ g.ip # ip => /\ t.esp["sta"].ip = ip
                             /\ t.esp["sta"].up <=> ip # Any
                             /\ ip # Any => t.sntp = ip
<1> DEFINE r == [s.git["sta"] EXCEPT !.link = TRUE, !.up = (ip # Any)]
           a == [s EXCEPT !.git["sta"] = r]
           b == GitSetAddr(a, "sta", ip, gw)
           t == GlueUp(b, "sta")
<1>1. /\ a \in State /\ a.esp = s.esp /\ a.dhcp = s.dhcp /\ a.sntp = s.sntp
      /\ a.git["sta"].ip = s.git["sta"].ip /\ (a.git["sta"].up <=> ip # Any)
  <2>1. s.git["sta"] \in GitRec
    BY DEF State, Ifs
  <2>2. r \in GitRec /\ r.ip = s.git["sta"].ip /\ (r.up <=> ip # Any)
    BY <2>1 DEF GitRec
  <2> HIDE DEF r
  <2>3. QED
    BY <2>2, PutGit DEF Ifs
<1>2. esp2glue_netif_update(s, "sta", ip, gw) = t
  BY DEF esp2glue_netif_update
<1> HIDE DEF a
<1>3. /\ b \in State /\ b.dhcp = a.dhcp /\ b.git["sta"].ip = ip
      /\ b.esp["sta"].reg = a.esp["sta"].reg /\ b.esp["sta"].link = a.esp["sta"].link
      /\ a.git["sta"].ip = ip => b.esp["sta"] = a.esp["sta"] /\ b.sntp = a.sntp
      /\ a.git["sta"].ip # ip =>
            /\ b.esp["sta"].ip = ip
            /\ b.esp["sta"].up <=> ip # Any
            /\ b.sntp = IF a.git["sta"].up /\ ip # Any THEN ip ELSE a.sntp
  BY <1>1, StaSetAddr
<1> HIDE DEF b
<1>4. /\ t \in State /\ t.esp = b.esp /\ t.dhcp = b.dhcp /\ t.sntp = b.sntp
      /\ t.git["sta"].ip = b.git["sta"].ip /\ t.git["sta"].up = TRUE /\ t.git["sta"].link = TRUE
  BY <1>3, GlueUpFacts DEF Ifs
<1> HIDE DEF t
<1>5. QED
  BY <1>1, <1>2, <1>3, <1>4

LEMMA ApUpdate ==
  ASSUME NEW s \in State, NEW ip \in Address, NEW gw \in Gateway
  PROVE  LET t == esp2glue_netif_update(s, "ap", ip, gw)
         IN  t \in State /\ Station(t) = Station(s)
<1> DEFINE r == [s.git["ap"] EXCEPT !.link = TRUE, !.up = (ip # Any)]
           a == [s EXCEPT !.git["ap"] = r]
           b == GitSetAddr(a, "ap", ip, gw)
           t == GlueUp(b, "ap")
<1>1. a \in State /\ Station(a) = Station(s)
  <2>1. s.git["ap"] \in GitRec
    BY DEF State, Ifs
  <2>2. r \in GitRec
    BY <2>1 DEF GitRec
  <2> HIDE DEF r
  <2>3. QED
    BY <2>2, PutGit DEF Ifs, Station
<1>2. esp2glue_netif_update(s, "ap", ip, gw) = t
  BY DEF esp2glue_netif_update
<1> HIDE DEF a
<1>3. b \in State /\ Station(b) = Station(a)
  BY <1>1, ApSetAddr
<1> HIDE DEF b
<1>4. t \in State /\ Station(t) = Station(b)
  BY <1>3, GlueUpFacts DEF Ifs
<1> HIDE DEF t
<1>5. QED
  BY <1>1, <1>2, <1>3, <1>4

\* The blobs' own copy before esp2glue_netif_update.
Asked(s, i, ip, gw) ==
    [netif_is_new(s, i) EXCEPT !.esp[i].ip = ip, !.esp[i].gw = gw, !.esp[i].link = (ip # Any)]

LEMMA NewFacts ==
  ASSUME NEW s \in State, NEW i \in Ifs, NEW ip \in Address, NEW gw \in Gateway
  PROVE  LET t == Asked(s, i, ip, gw)
         IN  /\ t \in State /\ (i = "ap" => Station(t) = Station(s))
             /\ t.git = s.git /\ t.dft = s.dft /\ t.dhcp = s.dhcp /\ t.sntp = s.sntp
             /\ t.esp[i].reg /\ t.esp[i].ip = ip /\ (t.esp[i].link <=> ip # Any)
             /\ s.esp[i].reg => t.esp[i].up = s.esp[i].up
<1> DEFINE n == netif_is_new(s, i)
           r == [n.esp[i] EXCEPT !.ip = ip, !.gw = gw, !.link = (ip # Any)]
           t == [n EXCEPT !.esp[i] = r]
<1>1. /\ n \in State /\ (i = "ap" => Station(n) = Station(s))
      /\ n.git = s.git /\ n.dft = s.dft /\ n.dhcp = s.dhcp /\ n.sntp = s.sntp
      /\ n.esp[i].reg /\ (s.esp[i].reg => n = s)
  <2>1. CASE s.esp[i].reg
    BY <2>1 DEF netif_is_new
  <2>2. CASE ~s.esp[i].reg
    <3> DEFINE fresh == [NoEsp EXCEPT !.reg = TRUE]
    <3>1. fresh \in EspRec /\ fresh.reg
      BY DEF NoEsp, EspRec, Address, Gateway
    <3>2. n = [s EXCEPT !.esp[i] = fresh]
      BY <2>2 DEF netif_is_new
    <3> HIDE DEF fresh, n
    <3>3. QED
      BY <2>2, <3>1, <3>2, PutEsp DEF Station, Ifs
  <2>3. QED
    BY <2>1, <2>2
<1> HIDE DEF n
<1>2. n.esp[i] \in EspRec
  BY <1>1 DEF State
<1>3. r \in EspRec /\ r.reg = n.esp[i].reg /\ r.up = n.esp[i].up /\ r.ip = ip /\ (r.link <=> ip # Any)
  BY <1>2 DEF EspRec
<1>4. Asked(s, i, ip, gw) = t
  <2>1. Asked(s, i, ip, gw)
            = [n EXCEPT !.esp[i].ip = ip, !.esp[i].gw = gw, !.esp[i].link = (ip # Any)]
    BY DEF Asked, n
  <2>2. [n EXCEPT !.esp[i].ip = ip, !.esp[i].gw = gw, !.esp[i].link = (ip # Any)] = t
    BY <1>1, <1>2 DEF State, EspRec
  <2>3. QED
    BY <2>1, <2>2
<1> HIDE DEF r
<1>5. /\ t \in State /\ (i = "ap" => Station(t) = Station(n))
      /\ t.git = n.git /\ t.dft = n.dft /\ t.dhcp = n.dhcp /\ t.sntp = n.sntp /\ t.esp[i] = r
  BY <1>1, <1>3, PutEsp DEF Station, Ifs
<1> HIDE DEF t
<1>6. QED
  BY <1>1, <1>3, <1>4, <1>5 DEF n

\* The blobs set the station's address.  Before, the station had no address,
\* or one that both sides use.
LEMMA StaSetAddrGood ==
  ASSUME NEW part \in Parts, TypeOK, NEW s \in State, NEW ip \in Address, NEW gw \in Gateway,
         s.git["sta"].ip # Any =>
             s.esp["sta"].reg /\ s.esp["sta"].up /\ s.sntp = s.git["sta"].ip
  PROVE  LET t == SetAddr(s, "sta", ip, gw) IN t \in State /\ Good(t, part)
<1> DEFINE a == Asked(s, "sta", ip, gw)
           t == esp2glue_netif_update(a, "sta", ip, gw)
<1>1. /\ a \in State /\ a.git = s.git /\ a.dhcp = s.dhcp /\ a.sntp = s.sntp
      /\ a.esp["sta"].reg /\ a.esp["sta"].ip = ip /\ (a.esp["sta"].link <=> ip # Any)
      /\ s.esp["sta"].reg => a.esp["sta"].up = s.esp["sta"].up
  BY NewFacts DEF Ifs
<1>2. SetAddr(s, "sta", ip, gw) = t
  BY DEF SetAddr, Asked
<1> HIDE DEF a
<1>3. /\ t \in State
      /\ t.git["sta"].ip = ip /\ t.git["sta"].up /\ t.git["sta"].link
      /\ t.esp["sta"].reg = a.esp["sta"].reg /\ t.esp["sta"].link = a.esp["sta"].link
      /\ a.git["sta"].ip = ip => t.esp["sta"] = a.esp["sta"] /\ t.sntp = a.sntp
      /\ a.git["sta"].ip # ip => /\ t.esp["sta"].ip = ip
                                 /\ t.esp["sta"].up <=> ip # Any
                                 /\ ip # Any => t.sntp = ip
  <2>1. a \in State
    BY <1>1
  <2>2. QED
    BY <2>1, StaUpdate
<1> HIDE DEF t
<1>4. Good(t, part)
  BY <1>1, <1>3 DEF Good, Mirrored, Working, Linked, Followed, RouteUp, Unknown, DownHasNoGw
<1>5. QED
  BY <1>2, <1>3, <1>4

LEMMA ApSetAddrKeeps ==
  ASSUME NEW s \in State, NEW ip \in Address, NEW gw \in Gateway
  PROVE  LET t == SetAddr(s, "ap", ip, gw) IN t \in State /\ Station(t) = Station(s)
<1> DEFINE a == Asked(s, "ap", ip, gw)
           t == esp2glue_netif_update(a, "ap", ip, gw)
<1>1. a \in State /\ Station(a) = Station(s)
  BY NewFacts DEF Ifs
<1>2. SetAddr(s, "ap", ip, gw) = t
  BY DEF SetAddr, Asked
<1> HIDE DEF a
<1>3. t \in State /\ Station(t) = Station(a)
  BY <1>1, ApUpdate
<1> HIDE DEF t
<1>4. QED
  BY <1>1, <1>2, <1>3

\* The blobs take the station down: whatever was there, nothing is left.
LEMMA StaDownFacts ==
  ASSUME TypeOK, NEW s \in State, Mirrored(s), RouteUp(s), DownHasNoGw(s),
         s.git["sta"].ip # Any => s.git["sta"].up,
         s.esp["sta"].reg, ~s.esp["sta"].up, ~s.esp["sta"].link
  PROVE  LET t == GlueDown(s, "sta")
         IN  /\ t \in State
             /\ t.esp["sta"] = [NoEsp EXCEPT !.reg = TRUE]
             /\ t.git["sta"] = NoGit
             /\ t.dft = "none" /\ t.dhcp = "off"
<1> DEFINE a == GitDhcpStop(s, "sta")
           b == [a EXCEPT !.git["sta"].ip = Any, !.git["sta"].gw = 0]
           c == GitSetLink(b, "sta", FALSE)
           d == GitSetDown(c, "sta")
           t == [d EXCEPT !.dft = IF @ = "sta" THEN "none" ELSE @]
<1>1. /\ a \in State /\ a.dhcp = "off"
      /\ s.dhcp = "off" => a = s
      /\ s.dhcp # "off" => a.git["sta"].ip = Any
      /\ a.git["sta"].up = s.git["sta"].up /\ a.git["sta"].link = s.git["sta"].link
      /\ a.esp["sta"].reg = s.esp["sta"].reg /\ a.esp["sta"].link = s.esp["sta"].link
      /\ a.git["sta"].ip = s.git["sta"].ip => a.esp["sta"] = s.esp["sta"] /\ a.dft = s.dft
      /\ a.git["sta"].ip # s.git["sta"].ip =>
            a.esp["sta"].ip = Any /\ ~a.esp["sta"].up /\ (a.dft = "sta" => s.git["sta"].up)
  BY StaDhcpStop
<1>2. GlueDown(s, "sta") = t
  BY DEF GlueDown
<1> HIDE DEF a
<1>3. /\ b \in State /\ b.esp = a.esp /\ b.dft = a.dft /\ b.dhcp = a.dhcp
      /\ b.git["sta"].ip = Any /\ b.git["sta"].gw = 0 /\ b.git["sta"].up = a.git["sta"].up
  <2>1. a.git["sta"] \in GitRec
    BY <1>1 DEF State, Ifs
  <2> DEFINE r == [a.git["sta"] EXCEPT !.ip = Any, !.gw = 0]
  <2>2. r \in GitRec /\ r.ip = Any /\ r.gw = 0 /\ r.up = a.git["sta"].up
    BY <2>1 DEF GitRec, Address, Gateway
  <2>3. b = [a EXCEPT !.git["sta"] = r]
    BY <1>1, <2>1 DEF State, GitRec, Ifs
  <2> HIDE DEF r, b
  <2>4. QED
    BY <1>1, <2>2, <2>3, PutGit DEF Ifs
<1> HIDE DEF b
<1>4. /\ c \in State /\ c.esp = b.esp /\ c.dft = b.dft /\ c.dhcp = b.dhcp
      /\ c.git["sta"].ip = Any /\ c.git["sta"].gw = 0
      /\ c.git["sta"].up = b.git["sta"].up /\ c.git["sta"].link = FALSE
  BY <1>3, LinkFacts DEF GitSetLink, Ifs
<1> HIDE DEF c
<1>5. /\ d \in State /\ d.dhcp = c.dhcp
      /\ d.git["sta"].ip = Any /\ d.git["sta"].gw = 0
      /\ ~d.git["sta"].up /\ d.git["sta"].link = FALSE
      /\ d.esp["sta"].reg = c.esp["sta"].reg /\ d.esp["sta"].link = c.esp["sta"].link
      /\ ~c.git["sta"].up => d.esp["sta"] = c.esp["sta"] /\ d.dft = c.dft
      /\ c.git["sta"].up => /\ d.esp["sta"].ip = Any /\ d.esp["sta"].gw = 0
                            /\ ~d.esp["sta"].up
                            /\ d.dft # "sta"
  BY <1>4, StaSetDown
<1> HIDE DEF d
<1>6. /\ t \in State /\ t.esp = d.esp /\ t.git = d.git /\ t.dhcp = d.dhcp /\ t.dft = "none"
  BY <1>5 DEF State
<1> HIDE DEF t
<1>7. t.git["sta"] = NoGit
  <2>1. t.git["sta"] \in GitRec
    BY <1>6 DEF State, Ifs
  <2>2. /\ t.git["sta"].ip = Any /\ t.git["sta"].gw = 0
        /\ t.git["sta"].up = FALSE /\ t.git["sta"].link = FALSE
    BY <1>5, <1>6, <2>1 DEF GitRec
  <2>3. QED
    BY <2>1, <2>2 DEF GitRec, NoGit
<1>8. ~d.esp["sta"].up /\ d.esp["sta"].ip = Any /\ d.esp["sta"].gw = 0 /\ d.esp["sta"].reg /\ ~d.esp["sta"].link
  <2>1. CASE s.git["sta"].up
    BY <1>1, <1>3, <1>4, <1>5, <2>1
  <2>2. CASE ~s.git["sta"].up
    <3>1. s.git["sta"].ip = Any /\ s.esp["sta"].ip = Any /\ s.esp["sta"].gw = 0
      BY <2>2 DEF Mirrored, DownHasNoGw
    <3>2. a.esp["sta"] = s.esp["sta"]
      BY <1>1, <3>1
    <3>3. QED
      BY <1>1, <1>3, <1>4, <1>5, <2>2, <3>1, <3>2
  <2>3. QED
    BY <2>1, <2>2
<1>9. t.esp["sta"] = [NoEsp EXCEPT !.reg = TRUE]
  <2>1. t.esp["sta"] \in EspRec
    BY <1>6 DEF State, Ifs
  <2>2. /\ t.esp["sta"].ip = Any /\ t.esp["sta"].gw = 0
        /\ t.esp["sta"].up = FALSE /\ t.esp["sta"].link = FALSE /\ t.esp["sta"].reg = TRUE
    BY <1>6, <1>8, <2>1 DEF EspRec
  <2>3. NoEsp \in EspRec
    BY DEF NoEsp, EspRec, Address, Gateway
  <2> DEFINE r == [NoEsp EXCEPT !.reg = TRUE]
  <2>4. /\ r \in EspRec /\ r.ip = Any /\ r.gw = 0
        /\ r.up = FALSE /\ r.link = FALSE /\ r.reg = TRUE
    <3>1. NoEsp.ip = Any /\ NoEsp.gw = 0 /\ NoEsp.up = FALSE /\ NoEsp.link = FALSE
      BY DEF NoEsp
    <3>2. QED
      BY <2>3, <3>1 DEF EspRec
  <2> HIDE DEF r
  <2>5. t.esp["sta"] = r
    BY <2>1, <2>2, <2>4 DEF EspRec
  <2>6. QED
    BY <2>5 DEF r
<1>10. QED
  BY <1>1, <1>2, <1>3, <1>4, <1>5, <1>6, <1>7, <1>9

LEMMA ApDownKeeps ==
  ASSUME NEW s \in State
  PROVE  LET t == GlueDown(s, "ap") IN t \in State /\ Station(t) = Station(s)
<1> DEFINE b == [s EXCEPT !.git["ap"].ip = Any, !.git["ap"].gw = 0]
           c == GitSetLink(b, "ap", FALSE)
           d == GitSetDown(c, "ap")
           t == [d EXCEPT !.dft = IF @ = "ap" THEN "none" ELSE @]
<1>1. GlueDown(s, "ap") = t
  BY DEF GlueDown, GitDhcpStop
<1>2. b \in State /\ Station(b) = Station(s)
  <2>1. s.git["ap"] \in GitRec
    BY DEF State, Ifs
  <2> DEFINE r == [s.git["ap"] EXCEPT !.ip = Any, !.gw = 0]
  <2>2. r \in GitRec
    BY <2>1 DEF GitRec, Address, Gateway
  <2>3. b = [s EXCEPT !.git["ap"] = r]
    BY <2>1 DEF State, GitRec, Ifs
  <2> HIDE DEF r, b
  <2>4. QED
    BY <2>2, <2>3, PutGit DEF Ifs, Station
<1> HIDE DEF b
<1>3. c \in State /\ Station(c) = Station(b)
  BY <1>2, LinkFacts DEF GitSetLink, Ifs
<1> HIDE DEF c
<1>4. d \in State /\ Station(d) = Station(c)
  <2>1. CASE c.git["ap"].up
    <3> DEFINE u == [c EXCEPT !.git["ap"].up = FALSE]
    <3>1. d = u
      BY <2>1 DEF GitSetDown, StatusCallback
    <3>2. u \in State /\ Station(u) = Station(c)
      BY <1>3, UpFacts DEF Ifs
    <3> HIDE DEF u, d
    <3>3. QED
      BY <3>1, <3>2
  <2>2. CASE ~c.git["ap"].up
    BY <1>3, <2>2 DEF GitSetDown
  <2>3. QED
    BY <2>1, <2>2
<1> HIDE DEF d
<1>5. t = d
  BY <1>4 DEF State
<1>6. QED
  BY <1>1, <1>2, <1>3, <1>4, <1>5

-----------------------------------------------------------------------------
(* The invariant. *)

LEMMA NowFacts ==
  ASSUME TypeOK
  PROVE  /\ Now \in State
         /\ Now.esp = esp /\ Now.git = git /\ Now.dft = dft /\ Now.dhcp = dhcp /\ Now.sntp = sntp
BY DEF TypeOK, Now, State, EspRec, GitRec, Address, Gateway

\* A handler ends in a state record with the properties.
LEMMA BecomesGood ==
  ASSUME NEW part \in Parts, NEW s \in State, Good(s, part), Becomes(s)
  PROVE  IInv(part)'
<1>1. TypeOK'
  BY DEF Becomes, TypeOK, State, EspRec, GitRec, Address, Gateway
<1>2. /\ Now'.esp = s.esp /\ Now'.git = s.git /\ Now'.dft = s.dft /\ Now'.dhcp = s.dhcp
      /\ Now'.sntp = s.sntp
  BY DEF Becomes, Now
<1>3. Good(Now, part)'
  BY <1>2 DEF Good, Mirrored, Working, Linked, Followed, RouteUp, Unknown, DownHasNoGw
<1>4. QED
  BY <1>1, <1>3 DEF IInv

LEMMA StationGood ==
  ASSUME NEW part \in Parts, NEW s, NEW t, Good(s, part), Station(t) = Station(s)
  PROVE  Good(t, part)
<1>1. /\ t.esp["sta"] = s.esp["sta"] /\ t.git["sta"] = s.git["sta"] /\ t.dft = s.dft
      /\ t.dhcp = s.dhcp /\ t.sntp = s.sntp
  BY DEF Station
<1>2. QED
  BY <1>1 DEF Good, Mirrored, Working, Linked, Followed, RouteUp, Unknown, DownHasNoGw

\* At the start no interface is known or has an address.
LEMMA InitIInv ==
  ASSUME Init, NEW part \in Parts
  PROVE  IInv(part)
<1>1. /\ NoEsp \in EspRec /\ NoGit \in GitRec
      /\ NotTold \in [old : Address, new : Address, was : Address]
  BY DEF NoEsp, EspRec, NoGit, GitRec, NotTold, Address, Gateway
<1>2. TypeOK
  BY <1>1 DEF Init, TypeOK, EspRec, GitRec, Address, Gateway
<1>3. Now.esp["sta"] = NoEsp /\ Now.git["sta"] = NoGit /\ Now.dft = "none" /\ Now.dhcp = "off"
  BY <1>2, NowFacts DEF Init, Ifs
<1>4. ~NoEsp.reg /\ NoEsp.gw = 0 /\ NoGit.ip = Any
  BY DEF NoEsp, NoGit
<1>5. Good(Now, part)
  BY <1>3, <1>4 DEF Good, Mirrored, Working, Linked, Followed, RouteUp, Unknown, DownHasNoGw
<1>6. QED
  BY <1>2, <1>5 DEF IInv

\* netif_add: the interface is down, so that its copy can be cleared.
LEMMA AddIInv ==
  ASSUME NEW part \in Parts, IInv(part), NEW i \in Ifs, NEW ip \in Address, NEW gw \in Gateway, NEW ok \in BOOLEAN,
         netif_add(i, ip, gw, ok)
  PROVE  IInv(part)'
<1> DEFINE r == [NoEsp EXCEPT !.reg = esp[i].reg]
           s == [Now EXCEPT !.esp[i] = r]
           t == SetAddr(s, i, ip, gw)
<1>1. TypeOK /\ Good(Now, part)
  BY DEF IInv
<1>2. /\ Now \in State /\ Now.esp = esp /\ Now.git = git /\ Now.dft = dft /\ Now.dhcp = dhcp
      /\ Now.sntp = sntp
  BY <1>1, NowFacts
<1>3. ~git[i].up /\ Becomes(IF ok THEN t ELSE s)
  BY DEF netif_add
<1>4. r \in EspRec /\ r.reg = esp[i].reg /\ r.ip = Any /\ r.gw = 0
  <2>1. esp[i].reg \in BOOLEAN /\ NoEsp \in EspRec
    BY <1>1 DEF TypeOK, NoEsp, EspRec, Address, Gateway
  <2>2. QED
    BY <2>1 DEF NoEsp, EspRec
<1> HIDE DEF r
<1>5. /\ s \in State /\ s.esp[i] = r /\ (\A j \in Ifs \ {i} : s.esp[j] = esp[j])
      /\ s.git = git /\ s.dft = dft /\ s.dhcp = dhcp /\ s.sntp = sntp
  BY <1>2, <1>4, PutEsp
<1> HIDE DEF s
<1>6. Good(s, part)
  <2>1. CASE i = "ap"
    <3>1. Station(s) = Station(Now)
      BY <1>2, <1>5, <2>1 DEF Station, Ifs
    <3>2. QED
      BY <1>1, <3>1, StationGood
  <2>2. CASE i = "sta"
    <3>1. git["sta"].ip = Any
      BY <1>1, <1>2, <1>3, <2>2 DEF Good, Working
    <3>2. /\ s.esp["sta"].reg = esp["sta"].reg /\ s.esp["sta"].ip = Any /\ s.esp["sta"].gw = 0
          /\ s.git["sta"] = git["sta"]
      BY <1>4, <1>5, <2>2
    <3>3. QED
      BY <1>1, <1>2, <1>5, <3>1, <3>2
         DEF Good, Mirrored, Working, Linked, Followed, RouteUp, Unknown, DownHasNoGw
  <2>3. QED
    BY <2>1, <2>2 DEF Ifs
<1>7. t \in State /\ Good(t, part)
  <2>1. CASE i = "ap"
    <3>1. t \in State /\ Station(t) = Station(s)
      BY <1>5, <2>1, ApSetAddrKeeps
    <3> HIDE DEF t
    <3>2. QED
      BY <1>6, <3>1, StationGood
  <2>2. CASE i = "sta"
    <3>1. s.git["sta"].ip = Any
      BY <1>1, <1>2, <1>3, <1>5, <2>2 DEF Good, Working
    <3>2. QED
      BY <1>1, <1>5, <2>2, <3>1, StaSetAddrGood
  <2>3. QED
    BY <2>1, <2>2 DEF Ifs
<1> HIDE DEF t
<1>8. QED
  BY <1>3, <1>5, <1>6, <1>7, BecomesGood

\* The address is set by the blobs.
LEMMA SetAddrGood ==
  ASSUME NEW part \in Parts, TypeOK, NEW s \in State, Good(s, part), NEW i \in Ifs, NEW ip \in Address, NEW gw \in Gateway
  PROVE  SetAddr(s, i, ip, gw) \in State /\ Good(SetAddr(s, i, ip, gw), part)
<1>1. CASE i = "ap"
  <2> DEFINE t == SetAddr(s, "ap", ip, gw)
  <2>1. t \in State /\ Station(t) = Station(s)
    BY ApSetAddrKeeps
  <2> HIDE DEF t
  <2>2. Good(t, part)
    BY <2>1, StationGood
  <2>3. QED
    BY <1>1, <2>1, <2>2 DEF t
<1>2. CASE i = "sta"
  <2>1. s.git["sta"].ip # Any =>
            s.esp["sta"].reg /\ s.esp["sta"].up /\ s.sntp = s.git["sta"].ip
    BY DEF Good, Working, Followed, Unknown
  <2>2. QED
    BY <1>2, <2>1, StaSetAddrGood
<1>3. QED
  BY <1>1, <1>2 DEF Ifs

\* An interface is pulled up.
LEMMA GlueUpGood ==
  ASSUME NEW part \in Parts, NEW s \in State, Good(s, part), NEW i \in Ifs,
         i = "sta" => s.esp["sta"].reg
  PROVE  GlueUp(s, i) \in State /\ Good(GlueUp(s, i), part)
<1> DEFINE t == GlueUp(s, i)
<1>1. /\ t \in State /\ (i = "ap" => Station(t) = Station(s))
      /\ t.esp = s.esp /\ t.dft = s.dft /\ t.dhcp = s.dhcp /\ t.sntp = s.sntp
      /\ t.git[i].ip = s.git[i].ip /\ t.git[i].gw = s.git[i].gw
      /\ t.git[i].up = TRUE /\ t.git[i].link = TRUE
  BY GlueUpFacts
<1> HIDE DEF t
<1>2. CASE i = "ap"
  <2>1. Good(t, part)
    BY <1>1, <1>2, StationGood
  <2>2. QED
    BY <1>1, <2>1 DEF t
<1>3. CASE i = "sta"
  <2>1. Good(t, part)
    BY <1>1, <1>3 DEF Good, Mirrored, Working, Linked, Followed, RouteUp, Unknown, DownHasNoGw
  <2>2. QED
    BY <1>1, <2>1 DEF t
<1>4. QED
  BY <1>2, <1>3 DEF Ifs

\* netif_set_up: the flags of both copies.
LEMMA SetUpIInv ==
  ASSUME NEW part \in Parts, IInv(part), NEW i \in Ifs, netif_set_up(i)
  PROVE  IInv(part)'
<1> DEFINE r == [esp[i] EXCEPT !.up = TRUE, !.link = TRUE]
           s == [Now EXCEPT !.esp[i] = r]
           asked == [Now EXCEPT !.esp[i].up = TRUE, !.esp[i].link = TRUE]
<1>1. TypeOK /\ Good(Now, part)
  BY DEF IInv
<1>2. /\ Now \in State /\ Now.esp = esp /\ Now.git = git /\ Now.dft = dft /\ Now.dhcp = dhcp
      /\ Now.sntp = sntp
  BY <1>1, NowFacts
<1>3. esp[i].reg /\ Becomes(GlueUp(asked, i))
  BY DEF netif_set_up
<1>4. esp[i] \in EspRec
  BY <1>1 DEF TypeOK, EspRec, Address, Gateway
<1>5. /\ r \in EspRec /\ r.reg = esp[i].reg /\ r.up /\ r.link
      /\ r.ip = esp[i].ip /\ r.gw = esp[i].gw
  BY <1>4 DEF EspRec
<1>6. asked = s
  BY <1>2, <1>4 DEF State, EspRec
<1> HIDE DEF r, asked
<1>7. /\ s \in State /\ s.esp[i] = r /\ (\A j \in Ifs \ {i} : s.esp[j] = esp[j])
      /\ s.git = git /\ s.dft = dft /\ s.dhcp = dhcp /\ s.sntp = sntp
  BY <1>2, <1>5, PutEsp
<1> HIDE DEF s
<1>8. Good(s, part)
  <2>1. CASE i = "ap"
    <3>1. Station(s) = Station(Now)
      BY <1>2, <1>7, <2>1 DEF Station, Ifs
    <3>2. QED
      BY <1>1, <3>1, StationGood
  <2>2. CASE i = "sta"
    BY <1>1, <1>2, <1>3, <1>5, <1>7, <2>2
       DEF Good, Mirrored, Working, Linked, Followed, RouteUp, Unknown, DownHasNoGw
  <2>3. QED
    BY <2>1, <2>2 DEF Ifs
<1>9. GlueUp(s, i) \in State /\ Good(GlueUp(s, i), part)
  BY <1>3, <1>5, <1>7, <1>8, GlueUpGood
<1>10. QED
  BY <1>3, <1>6, <1>9, BecomesGood

\* The state record that netif_set_down gives to the glue.
LEMMA DownAsked ==
  ASSUME NEW part \in Parts, IInv(part), NEW i \in Ifs, esp[i].reg
  PROVE  LET s == [Now EXCEPT !.esp[i].up = FALSE, !.esp[i].link = FALSE]
         IN  /\ s \in State
             /\ i = "ap" => Station(s) = Station(Now)
             /\ i = "sta" => /\ Mirrored(s) /\ RouteUp(s) /\ DownHasNoGw(s)
                             /\ s.git["sta"].ip # Any => s.git["sta"].up
                             /\ s.esp["sta"].reg /\ ~s.esp["sta"].up /\ ~s.esp["sta"].link
<1> DEFINE r == [esp[i] EXCEPT !.up = FALSE, !.link = FALSE]
           s == [Now EXCEPT !.esp[i] = r]
           asked == [Now EXCEPT !.esp[i].up = FALSE, !.esp[i].link = FALSE]
<1>1. TypeOK /\ Good(Now, part)
  BY DEF IInv
<1>2. /\ Now \in State /\ Now.esp = esp /\ Now.git = git /\ Now.dft = dft /\ Now.dhcp = dhcp
      /\ Now.sntp = sntp
  BY <1>1, NowFacts
<1>3. esp[i] \in EspRec
  BY <1>1 DEF TypeOK, EspRec, Address, Gateway
<1>4. /\ r \in EspRec /\ r.reg = esp[i].reg /\ ~r.up /\ ~r.link
      /\ r.ip = esp[i].ip /\ r.gw = esp[i].gw
  BY <1>3 DEF EspRec
<1>5. asked = s
  BY <1>2, <1>3 DEF State, EspRec
<1> HIDE DEF r
<1>6. /\ s \in State /\ s.esp[i] = r /\ (\A j \in Ifs \ {i} : s.esp[j] = esp[j])
      /\ s.git = git /\ s.dft = dft /\ s.dhcp = dhcp /\ s.sntp = sntp
  BY <1>2, <1>4, PutEsp
<1> HIDE DEF s
<1>7. i = "ap" => Station(s) = Station(Now)
  BY <1>2, <1>6 DEF Station, Ifs
<1>8. i = "sta" => /\ Mirrored(s) /\ RouteUp(s) /\ DownHasNoGw(s)
                   /\ s.git["sta"].ip # Any => s.git["sta"].up
                   /\ s.esp["sta"].reg /\ ~s.esp["sta"].up /\ ~s.esp["sta"].link
  BY <1>1, <1>2, <1>4, <1>6 DEF Good, Mirrored, Working, Linked, RouteUp, DownHasNoGw
<1> HIDE DEF asked
<1>9. QED
  BY <1>5, <1>6, <1>7, <1>8 DEF asked

\* netif_set_down of the station leaves nothing on either side.
LEMMA StaDownComplete ==
  ASSUME NEW part \in Parts, IInv(part), netif_set_down("sta")
  PROVE  /\ IInv(part)'
         /\ esp'["sta"] = [NoEsp EXCEPT !.reg = TRUE]
         /\ git'["sta"] = NoGit
         /\ dft' = "none" /\ dhcp' = "off"
<1> DEFINE s == [Now EXCEPT !.esp["sta"].up = FALSE, !.esp["sta"].link = FALSE]
           t == GlueDown(s, "sta")
<1>1. TypeOK /\ "sta" \in Ifs
  BY DEF IInv, Ifs
<1>2. esp["sta"].reg /\ Becomes(t)
  BY DEF netif_set_down
<1>3. /\ s \in State /\ Mirrored(s) /\ RouteUp(s) /\ DownHasNoGw(s)
      /\ s.git["sta"].ip # Any => s.git["sta"].up
      /\ s.esp["sta"].reg /\ ~s.esp["sta"].up /\ ~s.esp["sta"].link
  BY <1>1, <1>2, DownAsked
<1> HIDE DEF s
<1>4. /\ t \in State
      /\ t.esp["sta"] = [NoEsp EXCEPT !.reg = TRUE]
      /\ t.git["sta"] = NoGit
      /\ t.dft = "none" /\ t.dhcp = "off"
  BY <1>1, <1>3, StaDownFacts
<1> HIDE DEF t
<1>5. Good(t, part)
  <2>1. NoEsp.gw = 0 /\ NoEsp.ip = Any /\ NoGit.ip = Any
    BY DEF NoEsp, NoGit
  <2>2. t.esp["sta"].gw = 0 /\ t.esp["sta"].ip = Any /\ t.git["sta"].ip = Any
    <3>1. NoEsp \in EspRec
      BY DEF NoEsp, EspRec, Address, Gateway
    <3>2. QED
      BY <1>4, <2>1, <3>1 DEF EspRec
  <2>3. QED
    BY <1>4, <2>2 DEF Good, Mirrored, Working, Linked, Followed, RouteUp, Unknown, DownHasNoGw
<1>6. IInv(part)'
  BY <1>2, <1>4, <1>5, BecomesGood
<1>7. QED
  BY <1>2, <1>4, <1>6 DEF Becomes

LEMMA DownIInv ==
  ASSUME NEW part \in Parts, IInv(part), NEW i \in Ifs, netif_set_down(i)
  PROVE  IInv(part)'
<1>1. CASE i = "sta"
  BY <1>1, StaDownComplete
<1>2. CASE i = "ap"
  <2> DEFINE s == [Now EXCEPT !.esp["ap"].up = FALSE, !.esp["ap"].link = FALSE]
             t == GlueDown(s, "ap")
  <2>1. esp["ap"].reg /\ Becomes(t)
    BY <1>2 DEF netif_set_down
  <2>2. s \in State /\ Station(s) = Station(Now)
    BY <1>2, <2>1, DownAsked
  <2> HIDE DEF s
  <2>3. t \in State /\ Station(t) = Station(s)
    BY <2>2, ApDownKeeps
  <2> HIDE DEF t
  <2>4. Good(t, part)
    BY <2>2, <2>3, StationGood DEF IInv
  <2>5. QED
    BY <2>1, <2>3, <2>4, BecomesGood
<1>3. QED
  BY <1>1, <1>2 DEF Ifs

\* dhcp_start: the link and the flags, before lwIP 2's client starts.
LEMMA DhcpStartIInv ==
  ASSUME NEW part \in Parts, IInv(part), NEW ok \in BOOLEAN, dhcp_start(ok)
  PROVE  IInv(part)'
<1> USE DEF Ifs
<1> DEFINE r == [esp["sta"] EXCEPT !.link = TRUE]
           a == [Now EXCEPT !.esp["sta"] = r]
           b == GitSetLink(a, "sta", TRUE)
           c == GitSetUp(b, "sta")
           client == IF ok THEN "selecting" ELSE "off"
           t == [c EXCEPT !.dhcp = client]
<1>1. TypeOK /\ Good(Now, part)
  BY DEF IInv
<1>2. /\ Now \in State /\ Now.esp = esp /\ Now.git = git /\ Now.dft = dft /\ Now.dhcp = dhcp
      /\ Now.sntp = sntp
  BY <1>1, NowFacts
<1>3. esp["sta"] \in EspRec
  BY <1>1 DEF TypeOK, EspRec, Address, Gateway
<1>4. r \in EspRec /\ r.reg = esp["sta"].reg /\ r.link /\ r.up = esp["sta"].up /\ r.ip = esp["sta"].ip
  BY <1>3 DEF EspRec
<1>5. esp["sta"].reg /\ Becomes(t)
  <2>1. [Now EXCEPT !.esp["sta"].link = TRUE] = a
    BY <1>2
  <2>2. QED
    BY <2>1 DEF dhcp_start
<1> HIDE DEF r
<1>6. /\ a \in State /\ a.esp["sta"] = r /\ a.git = git /\ a.dft = dft /\ a.sntp = sntp
  BY <1>2, <1>4, PutEsp
<1> HIDE DEF a
<1>7. /\ b \in State /\ b.esp = a.esp /\ b.dft = a.dft /\ b.sntp = a.sntp
      /\ b.git["sta"].ip = a.git["sta"].ip
      /\ b.git["sta"].up = a.git["sta"].up /\ b.git["sta"].link = TRUE
  BY <1>6, LinkFacts DEF GitSetLink
<1> HIDE DEF b
<1>8. /\ c \in State
      /\ c.git["sta"].ip = b.git["sta"].ip
      /\ c.git["sta"].up /\ c.git["sta"].link = b.git["sta"].link
      /\ c.esp["sta"].reg = b.esp["sta"].reg /\ c.esp["sta"].link = b.esp["sta"].link
      /\ b.git["sta"].up => c.esp["sta"] = b.esp["sta"] /\ c.dft = b.dft /\ c.sntp = b.sntp
      /\ ~b.git["sta"].up => c.esp["sta"].ip = b.git["sta"].ip
  BY <1>1, <1>7, StaSetUp
<1> HIDE DEF c
<1>9. t \in State /\ t.esp = c.esp /\ t.git = c.git /\ t.dft = c.dft /\ t.sntp = c.sntp
  BY <1>8 DEF State
<1> HIDE DEF t
<1>10. Good(t, part)
  <2>1. CASE git["sta"].up
    <3>1. /\ t.esp["sta"] = r /\ t.sntp = sntp
          /\ t.git["sta"].ip = git["sta"].ip /\ t.git["sta"].up /\ t.git["sta"].link
      BY <1>6, <1>7, <1>8, <1>9, <2>1
    <3>2. /\ esp["sta"].ip = git["sta"].ip
          /\ git["sta"].ip # Any => esp["sta"].up /\ sntp = git["sta"].ip
      BY <1>1, <1>2, <1>5 DEF Good, Mirrored, Working, Linked, Followed
    <3>3. QED
      BY <1>4, <1>5, <3>1, <3>2
         DEF Good, Mirrored, Working, Linked, Followed, RouteUp, Unknown, DownHasNoGw
  <2>2. CASE ~git["sta"].up
    <3>1. git["sta"].ip = Any
      BY <1>1, <1>2, <2>2 DEF Good, Working
    <3>2. QED
      BY <1>4, <1>5, <1>6, <1>7, <1>8, <1>9, <2>2, <3>1
         DEF Good, Mirrored, Working, Linked, Followed, RouteUp, Unknown, DownHasNoGw
  <2>3. QED
    BY <2>1, <2>2
<1>11. QED
  BY <1>5, <1>9, <1>10, BecomesGood

\* dhcp_stop: the address goes with the client, from both copies.
LEMMA DhcpStopIInv ==
  ASSUME NEW part \in Parts, IInv(part), dhcp_stop
  PROVE  IInv(part)'
<1> DEFINE t == GitDhcpStop(Now, "sta")
<1>1. TypeOK /\ Good(Now, part)
  BY DEF IInv
<1>2. Now \in State
  BY <1>1, NowFacts
<1>3. esp["sta"].reg /\ Becomes(t) /\ Now.esp = esp
  BY <1>1, NowFacts DEF dhcp_stop
<1>4. /\ t \in State /\ t.dhcp = "off"
      /\ Now.dhcp = "off" => t = Now
      /\ Now.dhcp # "off" => t.git["sta"].ip = Any
      /\ t.git["sta"].up = Now.git["sta"].up /\ t.git["sta"].link = Now.git["sta"].link
      /\ t.esp["sta"].reg = Now.esp["sta"].reg /\ t.esp["sta"].link = Now.esp["sta"].link
      /\ t.git["sta"].ip = Now.git["sta"].ip => t.esp["sta"] = Now.esp["sta"] /\ t.dft = Now.dft
      /\ t.git["sta"].ip # Now.git["sta"].ip =>
            t.esp["sta"].ip = Any /\ ~t.esp["sta"].up /\ (t.dft = "sta" => Now.git["sta"].up)
  BY <1>1, <1>2, StaDhcpStop
<1> HIDE DEF t
<1>5. Good(t, part)
  <2>1. CASE Now.dhcp = "off"
    BY <1>1, <1>4, <2>1
  <2>2. CASE Now.dhcp # "off"
    BY <1>1, <1>3, <1>4, <2>2
       DEF Good, Mirrored, Working, Linked, Followed, RouteUp, Unknown, DownHasNoGw
  <2>3. QED
    BY <2>1, <2>2
<1>6. QED
  BY <1>3, <1>4, <1>5, BecomesGood

\* lwIP 2's client gets, changes or loses the address of a station that is up
\* and linked on both sides.
LEMMA DhcpAddrGood ==
  ASSUME NEW part \in Parts, IInv(part), NEW ip \in Address, NEW gw \in Gateway, NEW client \in {"selecting", "bound"},
         dhcp # "off",
         ip # Any => git["sta"].up /\ git["sta"].link /\ (part = "linked" => esp["sta"].link),
         Becomes([GitSetAddr(Now, "sta", ip, gw) EXCEPT !.dhcp = client])
  PROVE  IInv(part)'
<1> DEFINE a == GitSetAddr(Now, "sta", ip, gw)
           t == [a EXCEPT !.dhcp = client]
<1>1. TypeOK /\ Good(Now, part)
  BY DEF IInv
<1>2. /\ Now \in State /\ Now.esp = esp /\ Now.git = git /\ Now.dft = dft /\ Now.dhcp = dhcp
      /\ Now.sntp = sntp
  BY <1>1, NowFacts
<1>3. esp["sta"].reg
  BY <1>1, <1>2 DEF Good, Unknown
<1>4. /\ a \in State
      /\ a.git["sta"].ip = ip
      /\ a.git["sta"].up = git["sta"].up /\ a.git["sta"].link = git["sta"].link
      /\ a.esp["sta"].reg = esp["sta"].reg /\ a.esp["sta"].link = esp["sta"].link
      /\ git["sta"].ip = ip => a.esp["sta"] = esp["sta"] /\ a.dft = dft /\ a.sntp = sntp
      /\ git["sta"].ip # ip => /\ a.esp["sta"].ip = ip
                               /\ a.esp["sta"].up <=> ip # Any
                               /\ a.dft = "sta" => git["sta"].up
                               /\ a.sntp = IF git["sta"].up /\ ip # Any THEN ip ELSE sntp
  BY <1>1, <1>2, StaSetAddr
<1> HIDE DEF a
<1>5. t \in State /\ t.esp = a.esp /\ t.git = a.git /\ t.dft = a.dft /\ t.sntp = a.sntp
  BY <1>4 DEF State
<1>6. Becomes(t)
  BY DEF a
<1> HIDE DEF t
<1>7. Good(t, part)
  <2>1. CASE git["sta"].ip = ip
    BY <1>1, <1>2, <1>3, <1>4, <1>5, <2>1
       DEF Good, Mirrored, Working, Linked, Followed, RouteUp, Unknown, DownHasNoGw
  <2>2. CASE git["sta"].ip # ip
    <3>1. git["sta"].up
      BY <1>1, <1>2, <2>2 DEF Good, Working
    <3>2. QED
      BY <1>3, <1>4, <1>5, <2>2, <3>1
         DEF Good, Mirrored, Working, Linked, Followed, RouteUp, Unknown, DownHasNoGw
  <2>3. QED
    BY <2>1, <2>2
<1>8. QED
  BY <1>5, <1>6, <1>7, BecomesGood

\* dhcps_start only touches the access point.
LEMMA DhcpsStartIInv ==
  ASSUME NEW part \in Parts, IInv(part), NEW ip \in Address, NEW gw \in Gateway, dhcps_start(ip, gw)
  PROVE  IInv(part)'
<1> USE DEF Ifs
<1> DEFINE up == GlueUp(Now, "ap")
           answers == IF up.git["ap"].ip = Any THEN "limited" ELSE "subnet"
           on == [up EXCEPT !.bcast = answers]
           set == SetAddr(on, "ap", ip, gw)
           t == GlueUp(set, "ap")
<1>1. TypeOK /\ Good(Now, part)
  BY DEF IInv
<1>2. Now \in State
  BY <1>1, NowFacts
<1>3. Becomes(t)
  BY DEF dhcps_start
<1>4. up \in State /\ Station(up) = Station(Now)
  BY <1>2, GlueUpFacts
<1>5. answers \in {"limited", "subnet"}
  OBVIOUS
<1> HIDE DEF up, answers
<1>6. on \in State /\ Station(on) = Station(up)
  BY <1>4, <1>5 DEF State, Station
<1> HIDE DEF on
<1>7. set \in State /\ Station(set) = Station(on)
  BY <1>6, ApSetAddrKeeps
<1> HIDE DEF set
<1>8. t \in State /\ Station(t) = Station(set)
  BY <1>7, GlueUpFacts
<1> HIDE DEF t
<1>9. Good(t, part)
  BY <1>1, <1>4, <1>6, <1>7, <1>8, StationGood
<1>10. QED
  BY <1>3, <1>8, <1>9, BecomesGood

\* A DHCP answer that finds the link of the blobs' copy cleared.
LateAck == /\ ~esp["sta"].link
           /\ \E ip \in Addrs, gw \in Gws : DhcpBound(ip, gw)

\* Every handler keeps the invariant; a late DHCP answer only without the
\* part about the link.
LEMMA NextIInv ==
  ASSUME NEW part \in Parts, IInv(part), [Next]_vars, part = "linked" => ~LateAck
  PROVE  IInv(part)'
<1>1. Addrs \subseteq Address /\ Gws \subseteq Gateway /\ Any \in Address /\ 0 \in Gateway
  BY DEF Address, Gateway
<1>2. \A ip \in Addrs : ip # Any
  BY AddrAssumption DEF Any
<1>3. ASSUME NEW i \in Ifs, NEW ip \in Addrs \union {Any}, NEW gw \in Gws, NEW ok \in BOOLEAN,
             netif_add(i, ip, gw, ok)
      PROVE  IInv(part)'
  BY <1>1, <1>3, AddIInv
<1>4. ASSUME NEW i \in Ifs, NEW ip \in Address, NEW gw \in Gateway, netif_set_addr(i, ip, gw)
      PROVE  IInv(part)'
  <2>1. TypeOK /\ Good(Now, part) /\ Now \in State
    BY NowFacts DEF IInv
  <2> DEFINE t == SetAddr(Now, i, ip, gw)
  <2>2. t \in State /\ Good(t, part)
    BY <2>1, SetAddrGood
  <2>3. Becomes(t)
    BY <1>4 DEF netif_set_addr
  <2> HIDE DEF t
  <2>4. QED
    BY <2>2, <2>3, BecomesGood
<1>5. ASSUME NEW ip \in Addrs, NEW gw \in Gws, DhcpBound(ip, gw)
      PROVE  IInv(part)'
  <2>1. ip \in Address /\ gw \in Gateway
    BY <1>1
  <2>2. /\ dhcp # "off" /\ git["sta"].up /\ git["sta"].link /\ (part = "linked" => esp["sta"].link)
        /\ Becomes([GitSetAddr(Now, "sta", ip, gw) EXCEPT !.dhcp = "bound"])
    BY <1>5 DEF DhcpBound, LateAck
  <2>3. QED
    BY <2>1, <2>2, DhcpAddrGood
<1>6. ASSUME DhcpLost
      PROVE  IInv(part)'
  <2>1. /\ dhcp # "off"
        /\ Becomes([GitSetAddr(Now, "sta", Any, 0) EXCEPT !.dhcp = "selecting"])
    BY <1>6 DEF DhcpLost
  <2>2. QED
    BY <1>1, <2>1, DhcpAddrGood
<1>7. ASSUME UNCHANGED vars
      PROVE  IInv(part)'
  <2>1. Becomes(Now) /\ Good(Now, part) /\ Now \in State
    BY <1>7, NowFacts DEF IInv, vars, Becomes, Now
  <2>2. QED
    BY <2>1, BecomesGood
<1>8. QED
  BY <1>1, <1>3, <1>4, <1>5, <1>6, <1>7, SetUpIInv, DownIInv, DhcpStartIInv, DhcpStopIInv, DhcpsStartIInv
     DEF Next, Ifs

-----------------------------------------------------------------------------
(* The theorems. *)

LEMMA SpecIInv == Spec => []IInv("any")
<1>1. "any" \in Parts
  BY DEF Parts
<1>2. Init => IInv("any")
  BY <1>1, InitIInv
<1>3. IInv("any") /\ [Next]_vars => IInv("any")'
  BY <1>1, NextIInv
<1>4. QED
  BY <1>2, <1>3, PTL DEF Spec

LEMMA GoodFacts ==
  ASSUME IInv("any")
  PROVE  TypeOK /\ DefaultRouteUp /\ AddressMirrored /\ SntpFollowsAddress
<1>1. /\ TypeOK /\ Good(Now, "any")
      /\ Now.esp = esp /\ Now.git = git /\ Now.dft = dft /\ Now.sntp = sntp
  BY NowFacts DEF IInv
<1>2. QED
  BY <1>1 DEF Good, Mirrored, Followed, RouteUp,
              DefaultRouteUp, AddressMirrored, SntpFollowsAddress

\* The station's address is usable exactly when the invariant holds with the
\* part about the link.
LEMMA UsableIsLinked ==
  ASSUME IInv("any")
  PROVE  StationUsable <=> IInv("linked")
<1>1. TypeOK /\ Good(Now, "any") /\ Now.esp = esp /\ Now.git = git
  BY NowFacts DEF IInv
<1>2. StationUsable => Linked(Now)
  BY <1>1 DEF StationUsable, Linked
<1>3. Linked(Now) => StationUsable
  BY <1>1 DEF StationUsable, Linked, Good, Working
<1>4. Linked(Now) <=> IInv("linked")
  BY <1>1 DEF IInv, Good
<1>5. QED
  BY <1>2, <1>3, <1>4

\* Types: a handler never leaves half of a copy, nor an address that nobody set.
THEOREM TypeCorrect == Spec => []TypeOK
<1>1. IInv("any") => TypeOK
  BY GoodFacts
<1>2. QED
  BY <1>1, SpecIInv, PTL

\* netif_sta_status_callback and GlueDown: lwIP 2 never routes by default
\* through a station interface that is down.
THEOREM DefaultRouteUpHolds == Spec => []DefaultRouteUp
<1>1. IInv("any") => DefaultRouteUp
  BY GoodFacts
<1>2. QED
  BY <1>1, SpecIInv, PTL

\* Both copies of the station's address agree after every handler, for
\* netif_set_addr of the blobs and for DHCP, also when lwIP 2 skips the
\* callback because its own copy did not change.
THEOREM AddressMirroredHolds == Spec => []AddressMirrored
<1>1. IInv("any") => AddressMirrored
  BY GoodFacts
<1>2. QED
  BY <1>1, SpecIInv, PTL

\* The one way in which a station gets an address it cannot use, whatever the
\* blobs, DHCP and the stack do, in any order: a DHCP answer arrives after the
\* blobs cleared the link of their copy.  glue2esp_linkoutput and lwIP 2 need
\* both copies up and linked to send.
THEOREM AddressUsableHolds == Spec => AddressUsable
<1>1. IInv("any") /\ IInv("any")' /\ [Next]_vars =>
        [StationUsable /\ ~StationUsable' =>
           /\ ~esp["sta"].link
           /\ \E ip \in Addrs, gw \in Gws : DhcpBound(ip, gw)]_vars
  <2> SUFFICES ASSUME IInv("any"), IInv("any")', [Next]_vars,
                      StationUsable, ~StationUsable', ~LateAck
               PROVE  FALSE
    BY DEF LateAck
  <2>1. IInv("linked")
    BY UsableIsLinked
  <2>2. "linked" \in Parts
    BY DEF Parts
  <2>3. IInv("linked")'
    BY <2>1, <2>2, NextIInv
  <2>4. StationUsable'
    <3>1. (StationUsable <=> IInv("linked"))'
      BY UsableIsLinked, PTL
    <3>2. QED
      BY <2>3, <3>1
  <2>5. QED
    BY <2>4
<1>2. QED
  BY <1>1, SpecIInv, PTL DEF Spec, AddressUsable

\* SNTP was last restarted with the address the station has, whichever side
\* set it.
THEOREM SntpFollowsAddressHolds == Spec => []SntpFollowsAddress
<1>1. IInv("any") => SntpFollowsAddress
  BY GoodFacts
<1>2. QED
  BY <1>1, SpecIInv, PTL

\* netif_set_down leaves nothing of the station on either side, whichever side
\* set it up and whether DHCP was running.
THEOREM DownIsCompleteHolds == Spec => DownIsComplete
<1>1. IInv("any") /\ [Next]_vars =>
        [netif_set_down("sta") =>
           /\ esp'["sta"] = [NoEsp EXCEPT !.reg = TRUE]
           /\ git'["sta"] = NoGit
           /\ dft' = "none" /\ dhcp' = "off"]_vars
  BY StaDownComplete DEF Parts
<1>2. QED
  BY <1>1, SpecIInv, PTL DEF Spec, DownIsComplete
=============================================================================
