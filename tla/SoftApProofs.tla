---------------------------- MODULE SoftApProofs ----------------------------
(***************************************************************************)
(* Proofs about the two services of the soft access point, one after the   *)
(* other: nothing is shared but the module.                                *)
(*                                                                         *)
(* The DHCP server (Spec): the type invariant, the leases (one per         *)
(* station, none taken from a station that is online, each reply backed by *)
(* one), the address range, and that no address is leased twice.           *)
(*                                                                         *)
(* NAPT (NaptSpec): the type invariant, the two lists that share the       *)
(* table, the ports of the sessions, and when a packet gets none.          *)
(***************************************************************************)
EXTENDS DhcpServer, Napt, SeqFacts, FiniteSetTheorems


-----------------------------------------------------------------------------
(* What is left of a list. *)

\* q is a part of the first n nodes of p, in the same order.
Picked(p, q, n) ==
    \E f \in [1 .. Len(q) -> 1 .. n] :
        /\ \A i, j \in 1 .. Len(q) : i < j => f[i] < f[j]
        /\ \A i \in 1 .. Len(q) : q[i] = p[f[i]]

\* What the first n nodes of list leave, from what the first n - 1 leave.
KeptStep(f, list, n) ==
    IF n = 0 THEN <<>>
    ELSE IF list[n].timer = 0 THEN f[n - 1]
    ELSE Append(f[n - 1], list[n])

\* f is the recursive function of Unexpired, up to node m.
Filters(f, list, m) == f = [n \in 0 .. m |-> KeptStep(f, list, n)]

\* Unexpired is defined by recursion on the number of nodes.
LEMMA UnexpiredIs ==
  ASSUME NEW list
  PROVE  Unexpired(list) = (CHOOSE f : Filters(f, list, Len(list)))[Len(list)]
BY DEF Unexpired, Filters, KeptStep

\* There is such a function for every length.
LEMMA FilterExists ==
  ASSUME NEW list
  PROVE  \A m \in Nat : \E f : Filters(f, list, m)
<1> DEFINE T == {m \in Nat : \E f : Filters(f, list, m)}
<1>1. 0 \in T
  <2> DEFINE g == [n \in 0 .. 0 |-> <<>>]
  <2>1. \A n \in 0 .. 0 : g[n] = KeptStep(g, list, n)
    BY DEF KeptStep
  <2>2. g = [n \in 0 .. 0 |-> KeptStep(g, list, n)]
    BY <2>1
  <2> QED
    BY <2>2 DEF Filters
<1>2. ASSUME NEW m \in Nat, m \in T
      PROVE  m + 1 \in T
  <2>1. PICK f : Filters(f, list, m)
    BY <1>2
  <2>2. f = [n \in 0 .. m |-> KeptStep(f, list, n)]
    BY <2>1 DEF Filters
  <2> DEFINE g == [n \in 0 .. m + 1 |->
                     IF n = m + 1 THEN KeptStep(f, list, n) ELSE f[n]]
  <2>3. ASSUME NEW n \in 0 .. m + 1
        PROVE  g[n] = KeptStep(f, list, n)
    BY <2>2
  <2>4. ASSUME NEW n \in 0 .. m + 1
        PROVE  KeptStep(f, list, n) = KeptStep(g, list, n)
    <3>1. CASE n = 0
      BY <3>1 DEF KeptStep
    <3>2. CASE n # 0
      <4>1. n - 1 \in 0 .. m + 1 /\ n - 1 # m + 1
        BY <3>2
      <4>2. g[n - 1] = f[n - 1]
        BY <4>1
      <4> QED
        BY <4>2 DEF KeptStep
    <3> QED
      BY <3>1, <3>2
  <2> HIDE DEF g
  <2>5. g = [n \in 0 .. m + 1 |-> g[n]]
    BY DEF g
  <2>6. \A n \in 0 .. m + 1 : g[n] = KeptStep(g, list, n)
    BY <2>3, <2>4
  <2>7. g = [n \in 0 .. m + 1 |-> KeptStep(g, list, n)]
    BY <2>5, <2>6
  <2>8. Filters(g, list, m + 1)
    BY <2>7 DEF Filters
  <2> QED
    BY <2>8
<1> HIDE DEF T
<1>3. \A m \in Nat : m \in T
  BY <1>1, <1>2, NumberInduction
<1> QED
  BY <1>3 DEF T

\* What is left of the first n nodes is a part of them, none expired.
LEMMA FilterPicks ==
  ASSUME NEW S, NEW list \in Seq(S), NEW f, Filters(f, list, Len(list)),
         NEW n \in 0 .. Len(list)
  PROVE  /\ f[n] \in Seq({x \in S : x.timer # 0})
         /\ Picked(list, f[n], n)
<1> DEFINE L == Len(list)
           Live == {x \in S : x.timer # 0}
           Good(k) == f[k] \in Seq(Live) /\ Picked(list, f[k], k)
           T == {k \in Nat : k <= L => Good(k)}
<1>0. L \in Nat
  OBVIOUS
<1>1. f = [k \in 0 .. L |-> KeptStep(f, list, k)]
  BY DEF Filters
<1>2. 0 \in T
  <2>1. f[0] = <<>>
    BY <1>0, <1>1 DEF KeptStep
  <2>2. <<>> \in Seq(Live) /\ Len(<<>>) = 0
    OBVIOUS
  <2> DEFINE h == [i \in 1 .. 0 |-> 1]
  <2>3. h \in [1 .. 0 -> 1 .. 0]
    OBVIOUS
  <2> HIDE DEF h
  <2>4. \E g \in [1 .. Len(<<>>) -> 1 .. 0] :
          /\ \A i, j \in 1 .. Len(<<>>) : i < j => g[i] < g[j]
          /\ \A i \in 1 .. Len(<<>>) : <<>>[i] = list[g[i]]
    <3>1. 1 .. Len(<<>>) = {} /\ h \in [1 .. Len(<<>>) -> 1 .. 0]
      BY <2>2, <2>3
    <3> QED
      BY <3>1
  <2>5. Picked(list, <<>>, 0)
    BY <2>4 DEF Picked
  <2> QED
    BY <2>1, <2>2, <2>5
<1>3. ASSUME NEW k \in Nat, k \in T
      PROVE  k + 1 \in T
  <2> SUFFICES ASSUME k + 1 <= L
               PROVE  Good(k + 1)
    OBVIOUS
  <2> DEFINE q == f[k]
  <2>1. q \in Seq(Live) /\ Picked(list, q, k)
    BY <1>0, <1>3
  <2>2. f[k + 1] = KeptStep(f, list, k + 1) /\ k + 1 \in 1 .. L
    BY <1>0, <1>1
  <2>3. f[k + 1] = IF list[k + 1].timer = 0 THEN q ELSE Append(q, list[k + 1])
    BY <2>2 DEF KeptStep
  <2> HIDE DEF q
  <2>4. PICK h \in [1 .. Len(q) -> 1 .. k] :
          /\ \A i, j \in 1 .. Len(q) : i < j => h[i] < h[j]
          /\ \A i \in 1 .. Len(q) : q[i] = list[h[i]]
    BY <2>1 DEF Picked
  <2>5. CASE list[k + 1].timer = 0
    <3>1. h \in [1 .. Len(q) -> 1 .. k + 1]
      <4>1. \A i \in 1 .. Len(q) : h[i] \in 1 .. k + 1
        BY <2>4
      <4> QED
        BY <4>1
    <3>2. Picked(list, q, k + 1)
      BY <2>4, <3>1 DEF Picked
    <3> QED
      BY <2>1, <2>3, <2>5, <3>2
  <2>6. CASE list[k + 1].timer # 0
    <3> DEFINE r == Append(q, list[k + 1])
               g == [i \in 1 .. Len(q) + 1 |-> IF i = Len(q) + 1 THEN k + 1 ELSE h[i]]
    <3>1. list[k + 1] \in Live /\ Len(q) \in Nat
      BY <2>1, <2>2, <2>6
    <3>2. /\ r \in Seq(Live) /\ Len(r) = Len(q) + 1
          /\ \A i \in 1 .. Len(q) : r[i] = q[i]
          /\ r[Len(q) + 1] = list[k + 1]
      BY <2>1, <3>1
    <3>0. \A i \in 1 .. Len(q) : h[i] \in 1 .. k /\ i # Len(q) + 1 /\ i \in 1 .. Len(q) + 1
      BY <2>4, <3>1
    <3>a. \A i \in 1 .. Len(q) : g[i] = h[i]
      BY <3>0
    <3>b. g[Len(q) + 1] = k + 1
      BY <3>1
    <3>c. \A i \in 1 .. Len(q) + 1 : i = Len(q) + 1 \/ i \in 1 .. Len(q)
      BY <3>1
    <3>d. DOMAIN g = 1 .. Len(q) + 1 /\ g = [i \in 1 .. Len(q) + 1 |-> g[i]]
      OBVIOUS
    <3> HIDE DEF r, g
    <3>3. g \in [1 .. Len(r) -> 1 .. k + 1]
      <4>1. \A i \in 1 .. Len(q) + 1 : g[i] \in 1 .. k + 1
        BY <3>0, <3>a, <3>b, <3>c
      <4> QED
        BY <3>2, <3>d, <4>1
    <3>4. ASSUME NEW i \in 1 .. Len(r), NEW j \in 1 .. Len(r), i < j
          PROVE  g[i] < g[j]
      <4>1. i \in 1 .. Len(q)
        BY <3>1, <3>2, <3>4
      <4>2. g[i] = h[i] /\ h[i] \in 1 .. k
        BY <3>0, <3>a, <4>1
      <4>3. CASE j = Len(q) + 1
        BY <3>b, <4>2, <4>3
      <4>4. CASE j # Len(q) + 1
        BY <2>4, <3>2, <3>4, <3>a, <3>c, <4>1, <4>4
      <4> QED
        BY <4>3, <4>4
    <3>5. ASSUME NEW i \in 1 .. Len(r)
          PROVE  r[i] = list[g[i]]
      <4>1. CASE i = Len(q) + 1
        BY <3>2, <3>b, <4>1
      <4>2. CASE i # Len(q) + 1
        BY <2>4, <3>2, <3>a, <3>c, <4>2
      <4> QED
        BY <4>1, <4>2
    <3>6. Picked(list, r, k + 1)
      BY <3>3, <3>4, <3>5 DEF Picked
    <3> QED
      BY <2>3, <2>6, <3>2, <3>6 DEF r
  <2> QED
    BY <2>5, <2>6
<1> HIDE DEF T
<1>4. \A k \in Nat : k \in T
  BY <1>2, <1>3, NumberInduction
<1>5. Good(n)
  BY <1>0, <1>4 DEF T
<1> QED
  BY <1>5

\* Unexpired keeps the order and only nodes that have not expired.
LEMMA UnexpiredPicks ==
  ASSUME NEW S, NEW list \in Seq(S)
  PROVE  /\ Unexpired(list) \in Seq({x \in S : x.timer # 0})
         /\ Picked(list, Unexpired(list), Len(list))
<1> DEFINE f == CHOOSE g : Filters(g, list, Len(list))
<1>1. Len(list) \in Nat /\ Len(list) \in 0 .. Len(list)
  OBVIOUS
<1>2. Filters(f, list, Len(list))
  BY <1>1, FilterExists
<1> HIDE DEF f
<1>3. Unexpired(list) = f[Len(list)]
  BY UnexpiredIs DEF f
<1> QED
  BY <1>1, <1>2, <1>3, FilterPicks

-----------------------------------------------------------------------------
(* Addresses and ranges. *)

\* The default range suits every address of the access point, and ends before
\* the last address of the segment.
LEMMA DefaultRangeOK ==
  ASSUME NEW ip \in ApIps
  PROVE  /\ DefaultRange(ip) \in [enable : BOOLEAN, start : Addrs, end : Addrs]
         /\ RangeOK(DefaultRange(ip), ip)
         /\ DefaultRange(ip).end.host < Octets - 1
         /\ DefaultRange(ip).enable = FALSE
<1> DEFINE first == IF ip.host >= HalfOctet THEN ip.host - MaxLease ELSE ip.host + 1
           s == [ip EXCEPT !.host = first]
           e == [ip EXCEPT !.host = first + MaxLease - 1]
<1>1. ip \in Addrs /\ ip.host \in 0 .. Octets - 1 /\ ip.net \in Nat
  BY AddrAssumption DEF Addrs
<1>2. /\ first \in 0 .. Octets - 1
      /\ first + MaxLease - 1 \in 0 .. Octets - 2
      /\ first <= first + MaxLease - 1
      /\ first + MaxLease - 1 - first <= MaxLease
      /\ ~(first <= ip.host /\ ip.host <= first + MaxLease - 1)
  BY <1>1, OctetAssumption
<1> HIDE DEF first
<1>3. /\ s \in Addrs /\ s.host = first /\ s.net = ip.net
      /\ e \in Addrs /\ e.host = first + MaxLease - 1 /\ e.net = ip.net
  BY <1>1, <1>2, OctetAssumption DEF Addrs
<1>4. DefaultRange(ip) = [enable |-> FALSE, start |-> s, end |-> e]
  BY DEF DefaultRange, first
<1> HIDE DEF s, e
<1>5. /\ DefaultRange(ip).start = s /\ DefaultRange(ip).end = e
      /\ DefaultRange(ip).enable = FALSE
      /\ DefaultRange(ip) \in [enable : BOOLEAN, start : Addrs, end : Addrs]
  BY <1>3, <1>4
<1>6. RangeOK(DefaultRange(ip), ip)
  BY <1>1, <1>2, <1>3, <1>5, OctetAssumption DEF RangeOK
<1>7. first + MaxLease - 1 < Octets - 1
  BY <1>2, OctetAssumption
<1> QED
  BY <1>3, <1>5, <1>6, <1>7

\* Counting on from an address gives an address.
LEMMA PlusType ==
  ASSUME NEW a \in Addrs, NEW n \in Nat
  PROVE  Plus(a, n) \in Addrs
<1>1. a.net \in Nat /\ a.host \in 0 .. Octets - 1 /\ Octets \in Nat \ {0}
  BY OctetAssumption DEF Addrs
<1> DEFINE h == a.host + n
<1>2. h \in Nat
  BY <1>1
<1> HIDE DEF h
<1>3. h % Octets \in 0 .. Octets - 1 /\ h \div Octets \in Nat
  BY <1>1, <1>2
<1>4. CASE h < Octets
  <2>1. Plus(a, n) = [a EXCEPT !.host = h]
    BY <1>4 DEF Plus, h
  <2> QED
    BY <1>1, <1>2, <1>4, <2>1 DEF Addrs
<1>5. CASE ~(h < Octets)
  <2>1. Plus(a, n) = [net |-> a.net + h \div Octets, host |-> h % Octets]
    BY <1>5 DEF Plus, h
  <2>2. a.net + h \div Octets \in Nat
    BY <1>1, <1>3
  <2> QED
    BY <1>3, <2>1, <2>2 DEF Addrs
<1> QED
  BY <1>4, <1>5

\* Within the segment, the last octet counts.
LEMMA PlusInside ==
  ASSUME NEW a \in Addrs, NEW n \in Nat, a.host + n < Octets
  PROVE  Plus(a, n).host = a.host + n /\ Plus(a, n).net = a.net
BY DEF Plus, Addrs

\* Two addresses of a segment are ordered by their last octet.
LEMMA LessInSegment ==
  ASSUME NEW a \in Addrs, NEW b \in Addrs, a.net = b.net
  PROVE  Less(a, b) <=> a.host < b.host
BY DEF Less, Addrs

-----------------------------------------------------------------------------
(* The list. *)

\* A node is inserted before the first node with a larger address.
LEMMA InsertCases ==
  ASSUME NEW list \in Seq(Node), NEW n \in Node
  PROVE  /\ node_insert_to_list(list, n) \in Seq(Node)
         /\ \E k \in 1 .. Len(list) + 1 :
              /\ Inserted(list, node_insert_to_list(list, n), k, n)
              /\ \A i \in 1 .. k - 1 : ~Less(n.ip, list[i].ip)
              /\ k <= Len(list) => Less(n.ip, list[k].ip)
<1> DEFINE I == {i \in 1 .. Len(list) : Less(n.ip, list[i].ip)}
           k == SelectInSeq(list, LAMBDA x : Less(n.ip, x.ip))
<1>0. Len(list) \in Nat
  OBVIOUS
<1>1. k = IF I # {} THEN Min(I) ELSE 0
  BY DEF SelectInSeq
<1>2. node_insert_to_list(list, n) = IF k = 0 THEN Append(list, n) ELSE InsertAt(list, k, n)
  BY DEF node_insert_to_list
<1>3. CASE I = {}
  <2>1. node_insert_to_list(list, n) = Append(list, n)
    BY <1>1, <1>2, <1>3
  <2>2. \A i \in 1 .. Len(list) + 1 - 1 : ~Less(n.ip, list[i].ip)
    BY <1>0, <1>3
  <2>3. /\ Append(list, n) \in Seq(Node)
        /\ Inserted(list, Append(list, n), Len(list) + 1, n)
    BY AppendInserts
  <2>4. Len(list) + 1 \in 1 .. Len(list) + 1 /\ ~(Len(list) + 1 <= Len(list))
    BY <1>0
  <2> QED
    BY <2>1, <2>2, <2>3, <2>4
<1>4. CASE I # {}
  <2>1. k \in I /\ \A j \in I : k <= j
    BY <1>0, <1>1, <1>4, FirstPosition
  <2> HIDE DEF k
  <2>2. k \in 1 .. Len(list) /\ k # 0 /\ Less(n.ip, list[k].ip)
    BY <1>0, <2>1
  <2>3. \A i \in 1 .. k - 1 : ~Less(n.ip, list[i].ip)
    <3> SUFFICES ASSUME NEW i \in 1 .. k - 1, Less(n.ip, list[i].ip)
                 PROVE  FALSE
      OBVIOUS
    <3>1. i \in I /\ ~(k <= i)
      BY <1>0, <2>2
    <3> QED
      BY <2>1, <3>1
  <2>4. /\ InsertAt(list, k, n) \in Seq(Node)
        /\ Inserted(list, InsertAt(list, k, n), k, n)
    BY <2>2, InsertAtInserts
  <2>5. k \in 1 .. Len(list) + 1
    BY <1>0, <2>2
  <2> QED
    BY <1>2, <2>2, <2>3, <2>4, <2>5
<1> QED
  BY <1>3, <1>4

\* A node that is found is removed.
LEMMA RemoveCases ==
  ASSUME NEW list \in Seq(Node), NEW k \in 0 .. Len(list)
  PROVE  /\ node_remove_from_list(list, k) \in Seq(Node)
         /\ k = 0 => node_remove_from_list(list, k) = list
         /\ k # 0 => Deleted(list, node_remove_from_list(list, k), k)
<1>1. CASE k = 0
  BY <1>1 DEF node_remove_from_list
<1>2. CASE k # 0
  <2>1. k \in 1 .. Len(list)
    BY <1>2
  <2>2. node_remove_from_list(list, k) = RemoveAt(list, k)
    BY <1>2 DEF node_remove_from_list
  <2>3. RemoveAt(list, k) \in Seq(Node) /\ Deleted(list, RemoveAt(list, k), k)
    BY <2>1, RemoveAtDeletes
  <2> QED
    BY <1>2, <2>2, <2>3
<1> QED
  BY <1>1, <1>2

\* The node of a station, if it has one, when it has at most one.
LEMMA PmacFacts ==
  ASSUME plist \in Seq(Node), OneLeasePerStation, NEW m, NEW a
  PROVE  /\ PmacNode(m, a) \in 0 .. Len(plist)
         /\ PmacNode(m, a) # 0 => plist[PmacNode(m, a)].mac = m
         /\ \A i \in 1 .. Len(plist) : plist[i].mac = m => i = PmacNode(m, a)
<1> DEFINE I == {i \in 1 .. Len(plist) : plist[i].mac = m}
<1>0. Len(plist) \in Nat /\ DOMAIN plist = 1 .. Len(plist)
  OBVIOUS
<1>1. PmacNode(m, a) = IF I # {} THEN IF a = ANY THEN Min(I) ELSE Max(I) ELSE 0
  BY DEF PmacNode, SelectInSeq, SelectLastInSeq
<1>2. CASE I = {}
  <2>1. PmacNode(m, a) = 0
    BY <1>1, <1>2
  <2> QED
    BY <1>0, <1>2, <2>1
<1>3. CASE I # {}
  <2>1. Min(I) \in I /\ Max(I) \in I
    BY <1>0, <1>3, FirstPosition, LastPosition
  <2>2. PmacNode(m, a) \in I
    BY <1>1, <1>3, <2>1
  <2>3. PmacNode(m, a) \in 1 .. Len(plist) /\ plist[PmacNode(m, a)].mac = m
    BY <2>2
  <2>4. \A i \in 1 .. Len(plist) : plist[i].mac = m => i = PmacNode(m, a)
    BY <1>0, <2>3 DEF OneLeasePerStation
  <2> QED
    BY <1>0, <2>3, <2>4
<1> QED
  BY <1>2, <1>3

\* A node with an address, if there is one.
LEMMA PipFacts ==
  ASSUME plist \in Seq(Node), NEW a
  PROVE  /\ PipNode(a) \in 0 .. Len(plist)
         /\ PipNode(a) # 0 => plist[PipNode(a)].ip = a /\ a # ANY
         /\ PipNode(a) = 0 /\ a # ANY => \A i \in 1 .. Len(plist) : plist[i].ip # a
<1> DEFINE I == {i \in 1 .. Len(plist) : plist[i].ip = a}
<1>0. Len(plist) \in Nat
  OBVIOUS
<1>1. PipNode(a) = IF a = ANY THEN 0 ELSE IF I # {} THEN Max(I) ELSE 0
  BY DEF PipNode, SelectLastInSeq
<1>2. CASE a = ANY \/ I = {}
  <2>1. PipNode(a) = 0
    BY <1>1, <1>2
  <2> QED
    BY <1>0, <1>2, <2>1
<1>3. CASE a # ANY /\ I # {}
  <2>1. Max(I) \in I
    BY <1>0, <1>3, LastPosition
  <2>2. PipNode(a) \in I
    BY <1>1, <1>3, <2>1
  <2> QED
    BY <1>0, <1>3, <2>2
<1> QED
  BY <1>2, <1>3

\* The node that leaves is one of the station.
LEMMA LeavingFacts ==
  ASSUME NEW list \in Seq(Node), NEW m, NEW a
  PROVE  /\ LeavingNode(list, m, a) \in 0 .. Len(list)
         /\ LeavingNode(list, m, a) # 0 => list[LeavingNode(list, m, a)].mac = m
<1> DEFINE I == {i \in 1 .. Len(list) : list[i].mac = m /\ list[i].ip = a}
<1>0. Len(list) \in Nat
  OBVIOUS
<1>1. LeavingNode(list, m, a) = IF I # {} THEN Min(I) ELSE 0
  BY DEF LeavingNode, SelectInSeq
<1>2. CASE I = {}
  BY <1>0, <1>1, <1>2
<1>3. CASE I # {}
  <2>1. Min(I) \in I
    BY <1>0, <1>3, FirstPosition
  <2> QED
    BY <1>0, <1>1, <1>3, <2>1
<1> QED
  BY <1>2, <1>3

-----------------------------------------------------------------------------
(* What wifi_softap_dhcps_client_update does. *)

\* The address it grants, and the node it writes.
GrantedIp(m, a) == IF a = ANY THEN NextFree(m) ELSE a
Mine(m, a, ty) == [mac |-> m, ip |-> GrantedIp(m, a), timer |-> ltime,
                   type |-> ty, state |-> "ONLINE"]
MyType(a) == IF a = ANY THEN "DYNAMIC" ELSE "STATIC"

\* Nothing is granted and nothing changes.
Refused(u) == u.plist = plist /\ u.ip = ANY /\ u.renew \in {renew, FALSE}

\* The station's own node is renewed.
RenewsOwn(m, a, u) ==
    /\ PipNode(a) # 0 /\ PipNode(a) = PmacNode(m, a)
    /\ u.plist = [plist EXCEPT ![PipNode(a)] = Mine(m, a, "DYNAMIC")]

\* The node of an offline station is taken over.
TakesOver(m, a, u) ==
    /\ PipNode(a) # 0 /\ PipNode(a) # PmacNode(m, a) /\ ~Used(PipNode(a))
    /\ u.plist = node_remove_from_list(
                     [plist EXCEPT ![PipNode(a)] = Mine(m, a, MyType(a))], PmacNode(m, a))

\* The station moves to an address nobody has.
Moves(m, a, u) ==
    /\ PipNode(a) = 0 /\ PmacNode(m, a) # 0
    /\ u.plist = node_insert_to_list(node_remove_from_list(plist, PmacNode(m, a)),
                                     Mine(m, a, MyType(a)))

\* A new station gets a node.
Enters(m, a, u) ==
    /\ PipNode(a) = 0 /\ PmacNode(m, a) = 0 /\ ~Less(lease.end, GrantedIp(m, a))
    /\ u.plist = node_insert_to_list(plist, Mine(m, a, MyType(a)))

\* An address is granted in one of these four ways.
Granted(m, a, u) ==
    /\ a # BROADCAST /\ ~(a = ANY /\ Exhausted(m))
    /\ u.ip = GrantedIp(m, a) /\ u.renew \in BOOLEAN
    /\ RenewsOwn(m, a, u) \/ TakesOver(m, a, u) \/ Moves(m, a, u) \/ Enters(m, a, u)

\* There is no other way through the function.
LEMMA UpdateCases ==
  ASSUME NEW m, NEW a
  PROVE  \/ Refused(wifi_softap_dhcps_client_update(m, a))
         \/ Granted(m, a, wifi_softap_dhcps_client_update(m, a))
<1> DEFINE u == wifi_softap_dhcps_client_update(m, a)
           pmac == PmacNode(m, a)
           pip == PipNode(a)
           Grant(list, rn) == [plist |-> list, ip |-> GrantedIp(m, a), renew |-> rn]
           Refuse(rn) == [plist |-> plist, ip |-> ANY, renew |-> rn]
           mine == Mine(m, a, MyType(a))
<1>1. u = IF a = BROADCAST THEN Refuse(renew)
          ELSE IF a = ANY /\ Exhausted(m) THEN Refuse(FALSE)
          ELSE CASE pip # 0 /\ pip = pmac ->
                      Grant([plist EXCEPT ![pip] = Mine(m, a, "DYNAMIC")], TRUE)
                 [] pip # 0 /\ pip # pmac /\ Used(pip) -> Refuse(FALSE)
                 [] pip # 0 /\ pip # pmac /\ ~Used(pip) ->
                      Grant(node_remove_from_list([plist EXCEPT ![pip] = mine], pmac), FALSE)
                 [] pip = 0 /\ pmac # 0 ->
                      Grant(node_insert_to_list(node_remove_from_list(plist, pmac), mine),
                            FALSE)
                 [] pip = 0 /\ pmac = 0 /\ Less(lease.end, GrantedIp(m, a)) -> Refuse(FALSE)
                 [] OTHER -> Grant(node_insert_to_list(plist, mine), FALSE)
  BY DEF wifi_softap_dhcps_client_update, GrantedIp, Mine, MyType
<1> HIDE DEF u, mine
<1>2. ASSUME u = Refuse(renew) \/ u = Refuse(FALSE)
      PROVE  Refused(u)
  <2>1. CASE u = Refuse(renew)
    BY <2>1 DEF Refused
  <2>2. CASE u = Refuse(FALSE)
    BY <2>2 DEF Refused
  <2> QED
    BY <1>2, <2>1, <2>2
<1>3. ASSUME NEW list, NEW rn \in BOOLEAN, u = Grant(list, rn)
      PROVE  u.plist = list /\ u.ip = GrantedIp(m, a) /\ u.renew \in BOOLEAN
  BY <1>3
<1>a. CASE a = BROADCAST \/ (a = ANY /\ Exhausted(m))
  <2>1. u = Refuse(renew) \/ u = Refuse(FALSE)
    BY <1>1, <1>a
  <2> QED
    BY <1>2, <2>1 DEF u
<1>b. CASE ~(a = BROADCAST \/ (a = ANY /\ Exhausted(m)))
  <2>1. CASE pip # 0 /\ pip = pmac
    <3>1. u = Grant([plist EXCEPT ![pip] = Mine(m, a, "DYNAMIC")], TRUE)
      BY <1>1, <1>b, <2>1
    <3>2. RenewsOwn(m, a, u) /\ u.ip = GrantedIp(m, a) /\ u.renew \in BOOLEAN
      BY <1>3, <2>1, <3>1 DEF RenewsOwn
    <3> QED
      BY <1>b, <3>2 DEF Granted, u
  <2>2. CASE pip # 0 /\ pip # pmac /\ Used(pip)
    <3>1. u = Refuse(FALSE)
      BY <1>1, <1>b, <2>2
    <3> QED
      BY <1>2, <3>1 DEF u
  <2>3. CASE pip # 0 /\ pip # pmac /\ ~Used(pip)
    <3>1. u = Grant(node_remove_from_list([plist EXCEPT ![pip] = mine], pmac), FALSE)
      BY <1>1, <1>b, <2>3
    <3>2. TakesOver(m, a, u) /\ u.ip = GrantedIp(m, a) /\ u.renew \in BOOLEAN
      BY <1>3, <2>3, <3>1 DEF TakesOver, mine
    <3> QED
      BY <1>b, <3>2 DEF Granted, u
  <2>4. CASE pip = 0 /\ pmac # 0
    <3>1. u = Grant(node_insert_to_list(node_remove_from_list(plist, pmac), mine), FALSE)
      BY <1>1, <1>b, <2>4
    <3>2. Moves(m, a, u) /\ u.ip = GrantedIp(m, a) /\ u.renew \in BOOLEAN
      BY <1>3, <2>4, <3>1 DEF Moves, mine
    <3> QED
      BY <1>b, <3>2 DEF Granted, u
  <2>5. CASE pip = 0 /\ pmac = 0 /\ Less(lease.end, GrantedIp(m, a))
    <3>1. u = Refuse(FALSE)
      BY <1>1, <1>b, <2>5
    <3> QED
      BY <1>2, <3>1 DEF u
  <2>6. CASE pip = 0 /\ pmac = 0 /\ ~Less(lease.end, GrantedIp(m, a))
    <3>1. u = Grant(node_insert_to_list(plist, mine), FALSE)
      BY <1>1, <1>b, <2>6
    <3>2. Enters(m, a, u) /\ u.ip = GrantedIp(m, a) /\ u.renew \in BOOLEAN
      BY <1>3, <2>6, <3>1 DEF Enters, mine
    <3> QED
      BY <1>b, <3>2 DEF Granted, u
  <2> QED
    BY <2>1, <2>2, <2>3, <2>4, <2>5, <2>6
<1> QED
  BY <1>a, <1>b

-----------------------------------------------------------------------------
(* One lease per station. *)

Distinct(list) == \A i, j \in 1 .. Len(list) : list[i].mac = list[j].mac => i = j

\* The property is about the list alone.
LEMMA OneLeaseIsDistinct ==
  ASSUME NEW list \in Seq(Node)
  PROVE  /\ Distinct(list) <=> \A i, j \in DOMAIN list : list[i].mac = list[j].mac => i = j
         /\ Distinct(<<>>)
<1>1. DOMAIN list = 1 .. Len(list)
  OBVIOUS
<1>2. Distinct(<<>>)
  BY DEF Distinct
<1> QED
  BY <1>1, <1>2 DEF Distinct

\* A shorter list has it, too.
LEMMA DistinctDeleted ==
  ASSUME NEW p \in Seq(Node), NEW q \in Seq(Node), NEW k, Deleted(p, q, k), Distinct(p)
  PROVE  Distinct(q)
<1>1. Shrinks(p, q, k)
  BY DeletedElements
<1> SUFFICES ASSUME NEW i \in 1 .. Len(q), NEW j \in 1 .. Len(q), q[i].mac = q[j].mac
             PROVE  i = j
  BY DEF Distinct
<1>2. /\ After(k, i) \in 1 .. Len(p) /\ p[After(k, i)] = q[i]
      /\ After(k, j) \in 1 .. Len(p) /\ p[After(k, j)] = q[j]
      /\ i < j <=> After(k, i) < After(k, j)
      /\ j < i <=> After(k, j) < After(k, i)
  BY <1>1 DEF Shrinks
<1>3. After(k, i) = After(k, j)
  BY <1>2 DEF Distinct
<1> QED
  BY <1>2, <1>3

\* So does one with a node of a new station.
LEMMA DistinctInserted ==
  ASSUME NEW p \in Seq(Node), NEW q \in Seq(Node), NEW k, NEW n, Inserted(p, q, k, n),
         Distinct(p), \A i \in 1 .. Len(p) : p[i].mac # n.mac
  PROVE  Distinct(q)
<1>1. Extends(p, q, k, n)
  BY InsertedElements
<1> SUFFICES ASSUME NEW i \in 1 .. Len(q), NEW j \in 1 .. Len(q), q[i].mac = q[j].mac
             PROVE  i = j
  BY DEF Distinct
<1>2. /\ q[k] = n
      /\ \A x \in 1 .. Len(q) : x = k \/ \E y \in 1 .. Len(p) : x = After(k, y)
      /\ \A y \in 1 .. Len(p) : q[After(k, y)] = p[y]
  BY <1>1 DEF Extends
<1>3. CASE i = k \/ j = k
  BY <1>2, <1>3
<1>4. CASE i # k /\ j # k
  <2>1. PICK x \in 1 .. Len(p) : i = After(k, x)
    BY <1>2, <1>4
  <2>2. PICK y \in 1 .. Len(p) : j = After(k, y)
    BY <1>2, <1>4
  <2>3. p[x].mac = p[y].mac
    BY <1>2, <2>1, <2>2
  <2> QED
    BY <2>1, <2>2, <2>3 DEF Distinct
<1> QED
  BY <1>3, <1>4

\* q has some nodes of p, in their order, with their stations and addresses.
PickedNodes(p, q) ==
    \E f \in [1 .. Len(q) -> 1 .. Len(p)] :
        /\ \A i, j \in 1 .. Len(q) : i < j => f[i] < f[j]
        /\ \A i \in 1 .. Len(q) : q[i].mac = p[f[i]].mac /\ q[i].ip = p[f[i]].ip

\* And a part of it.
LEMMA DistinctPicked ==
  ASSUME NEW p \in Seq(Node), NEW q \in Seq(Node), PickedNodes(p, q), Distinct(p)
  PROVE  Distinct(q)
<1>1. PICK f \in [1 .. Len(q) -> 1 .. Len(p)] :
        /\ \A i, j \in 1 .. Len(q) : i < j => f[i] < f[j]
        /\ \A i \in 1 .. Len(q) : q[i].mac = p[f[i]].mac /\ q[i].ip = p[f[i]].ip
  BY DEF PickedNodes
<1> SUFFICES ASSUME NEW i \in 1 .. Len(q), NEW j \in 1 .. Len(q), q[i].mac = q[j].mac
             PROVE  i = j
  BY DEF Distinct
<1>2. f[i] \in 1 .. Len(p) /\ f[j] \in 1 .. Len(p)
  OBVIOUS
<1>3. f[i] = f[j]
  BY <1>1, <1>2 DEF Distinct
<1> QED
  BY <1>1, <1>2, <1>3

\* Nodes may change, but not their stations.
LEMMA DistinctMapped ==
  ASSUME NEW p \in Seq(Node), NEW q \in Seq(Node), Len(q) = Len(p),
         \A i \in 1 .. Len(p) : q[i].mac = p[i].mac, Distinct(p)
  PROVE  Distinct(q)
BY DEF Distinct

-----------------------------------------------------------------------------
(* Types. *)

Range3 == [enable : BOOLEAN, start : Addrs, end : Addrs]

\* The addresses that stand for "none" and "everybody" are addresses.
LEMMA SpecialAddresses == ANY \in Addrs /\ BROADCAST \in Addrs
BY OctetAssumption DEF ANY, BROADCAST, Addrs

\* The address granted is an address, and the node written is a node.
LEMMA MineType ==
  ASSUME TypeOK, NEW m \in Macs, NEW a \in Addrs, NEW ty \in {"DYNAMIC", "STATIC"}
  PROVE  GrantedIp(m, a) \in Addrs /\ Mine(m, a, ty) \in Node /\ MyType(a) \in {"DYNAMIC", "STATIC"}
<1>1. lease.start \in Addrs /\ plist \in Seq(Node) /\ ltime \in Nat \ {0}
  BY LeaseTimesAssumption DEF TypeOK
<1> DEFINE n == IF Stops(m) = {} THEN Len(plist) ELSE Min(Stops(m)) - 1
<1>2. n \in Nat
  <2>1. Len(plist) \in Nat /\ DOMAIN plist = 1 .. Len(plist)
    BY <1>1
  <2>2. Stops(m) \subseteq 1 .. Len(plist)
    BY <2>1 DEF Stops
  <2>3. CASE Stops(m) = {}
    BY <2>1, <2>3
  <2>4. CASE Stops(m) # {}
    <3>1. Min(Stops(m)) \in 1 .. Len(plist)
      BY <2>1, <2>2, <2>4, FirstPosition
    <3> QED
      BY <2>4, <3>1
  <2> QED
    BY <2>3, <2>4
<1>3. NextFree(m) \in Addrs
  BY <1>1, <1>2, PlusType DEF NextFree
<1>4. GrantedIp(m, a) \in Addrs
  BY <1>3 DEF GrantedIp
<1> QED
  BY <1>1, <1>4 DEF Mine, Node, MyType

\* The nodes of the list are records of its fields.
LEMMA NodeFields ==
  ASSUME NEW x \in Node
  PROVE  /\ x.mac \in Macs /\ x.ip \in Addrs /\ x.timer \in Nat \ {0}
         /\ x.type \in {"DYNAMIC", "STATIC"} /\ x.state \in {"ONLINE", "OFFLINE"}
BY DEF Node

\* A node is replaced by another one.
LEMMA ReplaceType ==
  ASSUME NEW list \in Seq(Node), NEW k \in 1 .. Len(list), NEW n \in Node
  PROVE  /\ [list EXCEPT ![k] = n] \in Seq(Node)
         /\ Len([list EXCEPT ![k] = n]) = Len(list)
         /\ \A i \in 1 .. Len(list) : [list EXCEPT ![k] = n][i] = IF i = k THEN n ELSE list[i]
OBVIOUS

\* Each way of granting an address leaves a list of nodes, one per station.
LEMMA GrantedKeepsDistinct ==
  ASSUME TypeOK, OneLeasePerStation, NEW m \in Macs, NEW a \in Addrs, NEW u, Granted(m, a, u)
  PROVE  u.plist \in Seq(Node) /\ Distinct(u.plist) /\ u.ip \in Addrs /\ u.renew \in BOOLEAN
<1> DEFINE pmac == PmacNode(m, a)
           pip == PipNode(a)
           mine == Mine(m, a, MyType(a))
<1>0. plist \in Seq(Node) /\ Len(plist) \in Nat /\ Distinct(plist)
  BY OneLeaseIsDistinct DEF TypeOK, OneLeasePerStation
<1>1. u.ip \in Addrs /\ u.renew \in BOOLEAN
  BY MineType DEF Granted
<1>2. mine \in Node /\ mine.mac = m /\ Mine(m, a, "DYNAMIC") \in Node
      /\ Mine(m, a, "DYNAMIC").mac = m
  <2>1. MyType(a) \in {"DYNAMIC", "STATIC"}
    BY DEF MyType
  <2>2. mine \in Node /\ Mine(m, a, "DYNAMIC") \in Node
    BY <2>1, MineType
  <2> QED
    BY <2>2 DEF Mine
<1>3. /\ pmac \in 0 .. Len(plist)
      /\ pmac # 0 => plist[pmac].mac = m
      /\ \A i \in 1 .. Len(plist) : plist[i].mac = m => i = pmac
  BY <1>0, PmacFacts
<1>4. pip \in 0 .. Len(plist)
  BY <1>0, PipFacts
<1> HIDE DEF pmac, pip, mine
<1>5. CASE RenewsOwn(m, a, u)
  <2>1. pip \in 1 .. Len(plist) /\ pip = pmac /\ plist[pip].mac = m
        /\ u.plist = [plist EXCEPT ![pip] = Mine(m, a, "DYNAMIC")]
    BY <1>3, <1>4, <1>5 DEF RenewsOwn, pip, pmac
  <2>2. /\ u.plist \in Seq(Node) /\ Len(u.plist) = Len(plist)
        /\ \A i \in 1 .. Len(plist) : u.plist[i].mac = plist[i].mac
    BY <1>0, <1>2, <2>1, ReplaceType
  <2>3. Distinct(u.plist)
    BY <1>0, <2>2, DistinctMapped
  <2> QED
    BY <1>1, <2>2, <2>3
<1>6. CASE TakesOver(m, a, u)
  <2> DEFINE r == [plist EXCEPT ![pip] = mine]
  <2>1. pip \in 1 .. Len(plist) /\ pip # pmac /\ u.plist = node_remove_from_list(r, pmac)
    BY <1>4, <1>6 DEF TakesOver, pip, pmac, mine
  <2>2. /\ r \in Seq(Node) /\ Len(r) = Len(plist)
        /\ \A i \in 1 .. Len(plist) : r[i] = IF i = pip THEN mine ELSE plist[i]
    BY <1>0, <1>2, <2>1, ReplaceType
  <2> HIDE DEF r
  <2>3. /\ u.plist \in Seq(Node)
        /\ pmac = 0 => u.plist = r
        /\ pmac # 0 => Deleted(r, u.plist, pmac)
    BY <1>3, <2>1, <2>2, RemoveCases
  <2>4. ASSUME NEW i \in 1 .. Len(r), NEW j \in 1 .. Len(r), r[i].mac = r[j].mac,
               i # pmac, j # pmac
        PROVE  i = j
    <3>1. CASE i = pip \/ j = pip
      BY <1>2, <1>3, <2>2, <2>4, <3>1
    <3>2. CASE i # pip /\ j # pip
      BY <1>0, <2>2, <2>4, <3>2 DEF Distinct
    <3> QED
      BY <3>1, <3>2
  <2>5. CASE pmac = 0
    <3>1. Distinct(r)
      BY <2>4, <2>5 DEF Distinct
    <3> QED
      BY <1>1, <2>3, <2>5, <3>1
  <2>6. CASE pmac # 0
    <3> DEFINE q == u.plist
    <3>1. q \in Seq(Node) /\ Shrinks(r, q, pmac)
      BY <1>0, <2>2, <2>3, <2>6, DeletedElements
    <3> HIDE DEF q
    <3>2. ASSUME NEW i \in 1 .. Len(q), NEW j \in 1 .. Len(q), q[i].mac = q[j].mac
          PROVE  i = j
      <4>1. /\ After(pmac, i) \in 1 .. Len(r) /\ r[After(pmac, i)] = q[i] /\ After(pmac, i) # pmac
            /\ After(pmac, j) \in 1 .. Len(r) /\ r[After(pmac, j)] = q[j] /\ After(pmac, j) # pmac
            /\ i < j <=> After(pmac, i) < After(pmac, j)
            /\ j < i <=> After(pmac, j) < After(pmac, i)
        BY <3>1 DEF Shrinks
      <4>2. After(pmac, i) = After(pmac, j)
        BY <2>4, <3>2, <4>1
      <4> QED
        BY <4>1, <4>2
    <3>3. Distinct(q)
      BY <3>2 DEF Distinct
    <3> QED
      BY <1>1, <3>1, <3>3 DEF q
  <2> QED
    BY <2>5, <2>6
<1>7. CASE Moves(m, a, u)
  <2> DEFINE r == node_remove_from_list(plist, pmac)
  <2>1. pmac \in 1 .. Len(plist) /\ u.plist = node_insert_to_list(r, mine)
    BY <1>3, <1>7 DEF Moves, pip, pmac, mine
  <2>2. r \in Seq(Node) /\ Deleted(plist, r, pmac)
    BY <1>0, <2>1, RemoveCases
  <2> HIDE DEF r
  <2>3. Distinct(r) /\ Shrinks(plist, r, pmac)
    BY <1>0, <2>2, DistinctDeleted, DeletedElements
  <2>4. \A i \in 1 .. Len(r) : r[i].mac # mine.mac
    BY <1>2, <1>3, <2>3 DEF Shrinks
  <2>5. u.plist \in Seq(Node) /\ \E k : Inserted(r, u.plist, k, mine)
    BY <1>2, <2>1, <2>2, InsertCases
  <2>6. Distinct(u.plist)
    BY <2>2, <2>3, <2>4, <2>5, DistinctInserted
  <2> QED
    BY <1>1, <2>5, <2>6
<1>8. CASE Enters(m, a, u)
  <2>1. pmac = 0 /\ u.plist = node_insert_to_list(plist, mine)
    BY <1>8 DEF Enters, pmac, mine
  <2>2. \A i \in 1 .. Len(plist) : plist[i].mac # mine.mac
    BY <1>2, <1>3, <2>1
  <2>3. u.plist \in Seq(Node) /\ \E k : Inserted(plist, u.plist, k, mine)
    BY <1>0, <1>2, <2>1, InsertCases
  <2>4. Distinct(u.plist)
    BY <1>0, <2>2, <2>3, DistinctInserted
  <2> QED
    BY <1>1, <2>3, <2>4
<1> QED
  BY <1>5, <1>6, <1>7, <1>8 DEF Granted

-----------------------------------------------------------------------------
(* What the other operations do to the list. *)

\* A station's departure deletes a node of its own or marks it.
LEMMA LeaveCases ==
  ASSUME NEW list \in Seq(Node), NEW m, NEW a, NEW force
  PROVE  LET r == wifi_softap_dhcps_client_leave(list, m, a, force)
             k == LeavingNode(list, m, a)
         IN  /\ r \in Seq(Node)
             /\ \/ r = list
                \/ list[k].mac = m /\ Deleted(list, r, k)
                \/ /\ k \in 1 .. Len(list) /\ list[k].mac = m /\ Len(r) = Len(list)
                   /\ r[k] = [list[k] EXCEPT !.state = "OFFLINE"]
                   /\ \A i \in 1 .. Len(list) : i # k => r[i] = list[i]
<1> DEFINE r == wifi_softap_dhcps_client_leave(list, m, a, force)
           k == LeavingNode(list, m, a)
<1>1. k \in 0 .. Len(list) /\ (k # 0 => list[k].mac = m) /\ Len(list) \in Nat
  BY LeavingFacts
<1>2. r = IF k = 0 THEN list
          ELSE IF force \/ list[k].type = "STATIC" THEN node_remove_from_list(list, k)
          ELSE [list EXCEPT ![k].state = "OFFLINE"]
  BY DEF wifi_softap_dhcps_client_leave
<1> HIDE DEF r, k
<1>3. CASE k = 0
  <2>1. r = list
    BY <1>2, <1>3
  <2> QED
    BY <2>1 DEF r, k
<1>4. CASE k # 0 /\ (force \/ list[k].type = "STATIC")
  <2>1. r = node_remove_from_list(list, k)
    BY <1>2, <1>4
  <2>2. r \in Seq(Node) /\ Deleted(list, r, k) /\ list[k].mac = m
    BY <1>1, <1>4, <2>1, RemoveCases
  <2> QED
    BY <2>2 DEF r, k
<1>5. CASE k # 0 /\ ~(force \/ list[k].type = "STATIC")
  <2>1. r = [list EXCEPT ![k].state = "OFFLINE"] /\ k \in 1 .. Len(list)
    BY <1>1, <1>2, <1>5
  <2> DEFINE n == [list[k] EXCEPT !.state = "OFFLINE"]
  <2>2. n \in Node
    <3>1. list[k] \in Node
      BY <2>1
    <3> QED
      BY <3>1 DEF Node
  <2>3. r = [list EXCEPT ![k] = n]
    BY <2>1
  <2> HIDE DEF n
  <2>4. /\ r \in Seq(Node) /\ Len(r) = Len(list) /\ r[k] = n
        /\ \A i \in 1 .. Len(list) : i # k => r[i] = list[i]
    BY <2>1, <2>2, <2>3, ReplaceType
  <2>5. list[k].mac = m
    BY <1>1, <1>5
  <2> QED
    BY <2>1, <2>4, <2>5 DEF r, k, n
<1> QED
  BY <1>3, <1>4, <1>5

\* The timer leaves some of the nodes, in their order.
LEMMA TickPicks ==
  ASSUME NEW list \in Seq(Node)
  PROVE  Tick(list) \in Seq(Node) /\ PickedNodes(list, Tick(list))
<1> DEFINE Counted == [mac : Macs, ip : Addrs, timer : Nat,
                       type : {"DYNAMIC", "STATIC"}, state : {"ONLINE", "OFFLINE"}]
           Down(i) == IF list[i].type = "DYNAMIC" THEN [list[i] EXCEPT !.timer = @ - 1]
                      ELSE list[i]
           c == [i \in DOMAIN list |-> Down(i)]
           q == Tick(list)
<1>1. q = Unexpired(c)
  BY DEF Tick
<1>2. Len(list) \in Nat /\ DOMAIN list = 1 .. Len(list)
  OBVIOUS
<1>3. ASSUME NEW i \in 1 .. Len(list)
      PROVE  /\ Down(i) \in Counted
             /\ Down(i).mac = list[i].mac /\ Down(i).ip = list[i].ip
  <2>1. list[i] \in Node
    BY <1>2
  <2>2. list[i].timer - 1 \in Nat
    BY <2>1, NodeFields
  <2>3. CASE list[i].type = "DYNAMIC"
    <3>1. Down(i) = [list[i] EXCEPT !.timer = list[i].timer - 1]
      BY <2>3
    <3> QED
      BY <2>1, <2>2, <3>1 DEF Node
  <2>4. CASE list[i].type # "DYNAMIC"
    <3>1. Down(i) = list[i]
      BY <2>4
    <3> QED
      BY <2>1, <3>1 DEF Node
  <2> QED
    BY <2>3, <2>4
<1>4. /\ c \in Seq(Counted) /\ Len(c) = Len(list)
      /\ \A i \in 1 .. Len(list) : c[i].mac = list[i].mac /\ c[i].ip = list[i].ip
  <2> HIDE DEF Down, Counted
  <2>1. c = [i \in 1 .. Len(list) |-> Down(i)]
    BY <1>2
  <2>2. c \in Seq(Counted)
    BY <1>2, <1>3, <2>1
  <2>3. Len(c) = Len(list)
    BY <1>2, <2>1, <2>2
  <2> QED
    BY <1>3, <2>1, <2>2, <2>3
<1> HIDE DEF c, q
<1>5. /\ q \in Seq({x \in Counted : x.timer # 0})
      /\ Picked(c, q, Len(c))
  BY <1>1, <1>4, UnexpiredPicks
<1>6. {x \in Counted : x.timer # 0} \subseteq Node
  BY DEF Node
<1>7. q \in Seq(Node)
  BY <1>5, <1>6
<1>8. PICK f \in [1 .. Len(q) -> 1 .. Len(c)] :
        /\ \A i, j \in 1 .. Len(q) : i < j => f[i] < f[j]
        /\ \A i \in 1 .. Len(q) : q[i] = c[f[i]]
  BY <1>5 DEF Picked
<1>9. \A i \in 1 .. Len(q) : q[i].mac = list[f[i]].mac /\ q[i].ip = list[f[i]].ip
  <2> TAKE i \in 1 .. Len(q)
  <2>1. f[i] \in 1 .. Len(list) /\ q[i] = c[f[i]]
    BY <1>4, <1>8
  <2> QED
    BY <1>4, <2>1
<1>10. PickedNodes(list, q)
  BY <1>4, <1>8, <1>9 DEF PickedNodes
<1> QED
  BY <1>7, <1>10 DEF q

\* With more than one lease there is an oldest one after the head of the list.
LEMMA OldestExists ==
  ASSUME NEW list \in Seq(Node), Len(list) >= 2
  PROVE  \E i \in 2 .. Len(list) :
           /\ \A j \in 2 .. Len(list) : list[i].timer <= list[j].timer
           /\ \A j \in 2 .. i - 1 : list[i].timer < list[j].timer
<1> DEFINE n == Len(list)
           Times == {list[i].timer : i \in 2 .. n}
<1>0. n \in Nat /\ n >= 2
  OBVIOUS
<1>1. \A i \in 2 .. n : list[i].timer \in Nat
  <2> TAKE i \in 2 .. n
  <2>1. list[i] \in Node
    BY <1>0
  <2> QED
    BY <2>1, NodeFields
<1>2. Times \subseteq Nat /\ Times # {}
  <2>1. 2 \in 2 .. n
    BY <1>0
  <2> QED
    BY <1>1, <2>1
<1>3. PICK t \in Times : \A y \in Times : t <= y
  BY <1>2, LeastNumber
<1> DEFINE Oldest == {i \in 2 .. n : list[i].timer = t}
<1>4. Oldest \subseteq Nat /\ Oldest # {}
  BY <1>0, <1>3
<1>5. PICK i \in Oldest : \A j \in Oldest : i <= j
  BY <1>4, LeastNumber
<1>6. i \in 2 .. n /\ list[i].timer = t
  BY <1>5
<1>7. \A j \in 2 .. n : list[i].timer <= list[j].timer
  BY <1>3, <1>6
<1>8. \A j \in 2 .. i - 1 : list[i].timer < list[j].timer
  <2> TAKE j \in 2 .. i - 1
  <2>1. j \in 2 .. n /\ ~(i <= j)
    BY <1>0, <1>6
  <2>2. j \notin Oldest
    BY <1>5, <2>1
  <2>3. list[j].timer # t
    BY <2>1, <2>2
  <2> QED
    BY <1>1, <1>6, <1>7, <2>1, <2>3
<1> QED
  BY <1>6, <1>7, <1>8

\* kill_oldest_dhcps_pool marks the last node and deletes one.
LEMMA KillCases ==
  ASSUME NEW list \in Seq(Node), Len(list) >= 2
  PROVE  LET q == kill_oldest_dhcps_pool(list)
         IN  /\ q \in Seq(Node)
             /\ \E p \in Seq(Node), k \in 1 .. Len(list) :
                  /\ Len(p) = Len(list)
                  /\ \A i \in 1 .. Len(list) : p[i].mac = list[i].mac /\ p[i].ip = list[i].ip
                  /\ Deleted(p, q, k)
<1> DEFINE n == Len(list)
           p == [list EXCEPT ![n].state = "OFFLINE"]
           Old(i) == /\ \A j \in 2 .. n : list[i].timer <= list[j].timer
                     /\ \A j \in 2 .. i - 1 : list[i].timer < list[j].timer
           min == CHOOSE i \in 2 .. n : Old(i)
           last == [list[n] EXCEPT !.state = "OFFLINE"]
<1>0. n \in Nat /\ n >= 2 /\ n \in 1 .. n
  OBVIOUS
<1>1. kill_oldest_dhcps_pool(list) = RemoveAt(p, min)
  BY DEF kill_oldest_dhcps_pool
<1>2. \E i \in 2 .. n : Old(i)
  BY OldestExists
<1>3. min \in 2 .. n
  <2> HIDE DEF Old
  <2> QED
    BY <1>2
<1> HIDE DEF min
<1>4. last \in Node /\ last.mac = list[n].mac /\ last.ip = list[n].ip
  <2>1. list[n] \in Node
    BY <1>0
  <2> QED
    BY <2>1 DEF Node
<1>5. p = [list EXCEPT ![n] = last]
  OBVIOUS
<1> HIDE DEF p, last
<1>6. /\ p \in Seq(Node) /\ Len(p) = n
      /\ \A i \in 1 .. n : p[i] = IF i = n THEN last ELSE list[i]
  BY <1>0, <1>4, <1>5, ReplaceType
<1>7. \A i \in 1 .. n : p[i].mac = list[i].mac /\ p[i].ip = list[i].ip
  BY <1>4, <1>6
<1>8. min \in 1 .. n
  BY <1>0, <1>3
<1>9. RemoveAt(p, min) \in Seq(Node) /\ Deleted(p, RemoveAt(p, min), min)
  BY <1>6, <1>8, RemoveAtDeletes
<1> QED
  BY <1>1, <1>6, <1>7, <1>8, <1>9

-----------------------------------------------------------------------------
(* LeaseInv is inductive. *)

\* client_update leaves a list of nodes, one per station.
LEMMA UpdateKeepsDistinct ==
  ASSUME LeaseInv, NEW m \in Macs, NEW a \in Addrs
  PROVE  LET u == wifi_softap_dhcps_client_update(m, a)
         IN  u.plist \in Seq(Node) /\ Distinct(u.plist) /\ u.ip \in Addrs /\ u.renew \in BOOLEAN
<1> DEFINE u == wifi_softap_dhcps_client_update(m, a)
<1>1. Refused(u) \/ Granted(m, a, u)
  BY UpdateCases
<1> HIDE DEF u
<1>2. CASE Refused(u)
  <2>1. u.plist = plist /\ u.ip = ANY
    BY <1>2 DEF Refused
  <2>2. u.renew \in BOOLEAN
    <3>1. renew \in BOOLEAN
      BY DEF LeaseInv, TypeOK
    <3>2. CASE u.renew = renew
      BY <3>1, <3>2
    <3>3. CASE u.renew = FALSE
      BY <3>3
    <3> QED
      BY <1>2, <3>2, <3>3 DEF Refused
  <2>3. plist \in Seq(Node) /\ Distinct(plist)
    BY OneLeaseIsDistinct DEF LeaseInv, TypeOK, OneLeasePerStation
  <2> QED
    BY <2>1, <2>2, <2>3, SpecialAddresses DEF u
<1>3. CASE Granted(m, a, u)
  <2>1. TypeOK /\ OneLeasePerStation
    BY DEF LeaseInv
  <2> QED
    BY <1>3, <2>1, GrantedKeepsDistinct DEF u
<1> QED
  BY <1>1, <1>2, <1>3

\* So does a station's departure.
LEMMA LeaveKeepsDistinct ==
  ASSUME NEW list \in Seq(Node), Distinct(list), NEW m, NEW a, NEW force
  PROVE  LET r == wifi_softap_dhcps_client_leave(list, m, a, force)
         IN  r \in Seq(Node) /\ Distinct(r)
<1> DEFINE r == wifi_softap_dhcps_client_leave(list, m, a, force)
           k == LeavingNode(list, m, a)
<1>1. /\ r \in Seq(Node)
      /\ \/ r = list
         \/ list[k].mac = m /\ Deleted(list, r, k)
         \/ /\ k \in 1 .. Len(list) /\ list[k].mac = m /\ Len(r) = Len(list)
            /\ r[k] = [list[k] EXCEPT !.state = "OFFLINE"]
            /\ \A i \in 1 .. Len(list) : i # k => r[i] = list[i]
  BY LeaveCases
<1> HIDE DEF r, k
<1>2. CASE r = list
  BY <1>1, <1>2 DEF r
<1>3. CASE Deleted(list, r, k)
  BY <1>1, <1>3, DistinctDeleted DEF r
<1>4. CASE /\ k \in 1 .. Len(list) /\ Len(r) = Len(list)
           /\ r[k] = [list[k] EXCEPT !.state = "OFFLINE"]
           /\ \A i \in 1 .. Len(list) : i # k => r[i] = list[i]
  <2>1. list[k] \in Node
    BY <1>4
  <2>2. r[k].mac = list[k].mac
    BY <1>4, <2>1 DEF Node
  <2>3. \A i \in 1 .. Len(list) : r[i].mac = list[i].mac
    BY <1>4, <2>2
  <2>4. Distinct(r)
    BY <1>1, <1>4, <2>3, DistinctMapped
  <2> QED
    BY <1>1, <2>4 DEF r
<1> QED
  BY <1>1, <1>2, <1>3, <1>4

\* And the timer.
LEMMA TimerKeepsDistinct ==
  ASSUME plist \in Seq(Node), Distinct(plist), dhcps_coarse_tmr
  PROVE  plist' \in Seq(Node) /\ Distinct(plist')
<1> DEFINE kept == Tick(plist)
<1>1. kept \in Seq(Node) /\ PickedNodes(plist, kept)
  BY TickPicks
<1>2. plist' = IF Len(kept) >= MaxStation THEN kill_oldest_dhcps_pool(kept) ELSE kept
  BY DEF dhcps_coarse_tmr
<1> HIDE DEF kept
<1>3. Distinct(kept)
  BY <1>1, DistinctPicked
<1>4. CASE Len(kept) >= MaxStation
  <2>1. Len(kept) >= 2
    BY <1>1, <1>4, MaxStationAssumption
  <2>2. plist' = kill_oldest_dhcps_pool(kept)
    BY <1>2, <1>4
  <2>3. /\ plist' \in Seq(Node)
        /\ \E p \in Seq(Node), k \in 1 .. Len(kept) :
             /\ Len(p) = Len(kept)
             /\ \A i \in 1 .. Len(kept) : p[i].mac = kept[i].mac /\ p[i].ip = kept[i].ip
             /\ Deleted(p, plist', k)
    BY <1>1, <2>1, <2>2, KillCases
  <2>4. PICK p \in Seq(Node), k \in 1 .. Len(kept) :
             /\ Len(p) = Len(kept)
             /\ \A i \in 1 .. Len(kept) : p[i].mac = kept[i].mac /\ p[i].ip = kept[i].ip
             /\ Deleted(p, plist', k)
    BY <2>3
  <2>5. Distinct(p)
    BY <1>1, <1>3, <2>4, DistinctMapped
  <2> QED
    BY <2>3, <2>4, <2>5, DistinctDeleted
<1>5. CASE ~(Len(kept) >= MaxStation)
  BY <1>1, <1>2, <1>3, <1>5
<1> QED
  BY <1>4, <1>5

\* A reservation adds a node of a station that has none.
LEMMA ReserveCases ==
  ASSUME LeaseInv, NEW m \in Macs, wifi_softap_add_dhcps_lease(m)
  PROVE  LET n == [mac |-> m, ip |-> Plus(lease.start, Len(plist)), timer |-> ltime,
                   type |-> "STATIC", state |-> "ONLINE"]
         IN  /\ n \in Node /\ plist' = node_insert_to_list(plist, n)
             /\ plist' \in Seq(Node) /\ \E k : Inserted(plist, plist', k, n)
             /\ Distinct(plist')
<1> DEFINE n == [mac |-> m, ip |-> Plus(lease.start, Len(plist)), timer |-> ltime,
                 type |-> "STATIC", state |-> "ONLINE"]
<1>0. /\ plist \in Seq(Node) /\ Len(plist) \in Nat /\ DOMAIN plist = 1 .. Len(plist)
      /\ lease.start \in Addrs /\ ltime \in Nat \ {0}
  BY LeaseTimesAssumption DEF LeaseInv, TypeOK
<1>1. Distinct(plist)
  BY <1>0, OneLeaseIsDistinct DEF LeaseInv, OneLeasePerStation
<1>2. Plus(lease.start, Len(plist)) \in Addrs
  BY <1>0, PlusType
<1>3. n \in Node /\ n.mac = m
  BY <1>0, <1>2 DEF Node
<1>4. plist' = node_insert_to_list(plist, n) /\ \A i \in 1 .. Len(plist) : plist[i].mac # m
  BY <1>0 DEF wifi_softap_add_dhcps_lease
<1> HIDE DEF n
<1>5. plist' \in Seq(Node) /\ \E k : Inserted(plist, plist', k, n)
  BY <1>0, <1>3, <1>4, InsertCases
<1>6. Distinct(plist')
  BY <1>0, <1>1, <1>3, <1>4, <1>5, DistinctInserted
<1> QED
  BY <1>3, <1>4, <1>5, <1>6 DEF n

\* Replies have their type.
LEMMA ReplyType ==
  ASSUME NEW st, NEW m, NEW ip \in Addrs, NEW r \in Replies(st, m, ip)
  PROVE  /\ r.kind \in {"none", "OFFER", "ACK", "NAK"} /\ r.ip \in Addrs
         /\ r.kind \in {"OFFER", "ACK"} =>
              r.kind = st /\ r.mac = m /\ r.ip = ip
<1>0. ANY \in Addrs
  BY SpecialAddresses
<1>1. /\ NoReply.kind = "none" /\ NoReply.ip = ANY
  BY DEF NoReply
<1>2. CASE r = NoReply
  BY <1>0, <1>1, <1>2
<1>3. CASE r # NoReply
  <2>1. /\ st \in {"OFFER", "ACK", "NAK"}
        /\ r = [kind |-> st, mac |-> m, ip |-> ip]
    <3>1. CASE st = "OFFER"
      BY <1>3, <3>1 DEF Replies, send_offer, create_msg
    <3>2. CASE st = "ACK"
      BY <1>3, <3>2 DEF Replies, send_ack, create_msg
    <3>3. CASE st = "NAK"
      BY <1>3, <3>3 DEF Replies, send_nak, create_msg
    <3>4. CASE st \notin {"OFFER", "ACK", "NAK"}
      <4>1. Replies(st, m, ip) = {NoReply}
        BY <3>4 DEF Replies
      <4> QED
        BY <1>3, <4>1
    <3> QED
      BY <3>1, <3>2, <3>3, <3>4
  <2> QED
    BY <2>1
<1> QED
  BY <1>2, <1>3

\* An operation on the list alone keeps LeaseInv.
LEMMA ListStep ==
  ASSUME LeaseInv, plist' \in Seq(Node), Distinct(plist'), renew' \in BOOLEAN,
         out'.kind \in {"none", "OFFER", "ACK", "NAK"}, out'.ip \in Addrs, UNCHANGED cfgvars
  PROVE  LeaseInv'
<1>1. OneLeasePerStation'
  BY OneLeaseIsDistinct DEF OneLeasePerStation
<1>2. TypeOK'
  BY DEF TypeOK, LeaseInv, cfgvars
<1>3. RangeKept'
  BY DEF LeaseInv, RangeKept, cfgvars
<1> QED
  BY <1>1, <1>2, <1>3 DEF LeaseInv

\* A call that sends nothing has the right kind of reply.
LEMMA SilentType ==
  NoReply.kind \in {"none", "OFFER", "ACK", "NAK"} /\ NoReply.ip \in Addrs /\ NoReply.kind = "none"
BY SpecialAddresses DEF NoReply

\* Every message reaches handle_dhcp, with an address or one of the two that
\* stand for none.
LEMMA MessageIsHandled ==
  ASSUME NEW m, Message(m)
  PROVE  \E type, a, req : a \in Addrs /\ handle_dhcp(m, type, a, req)
<1>1. PICK type \in MsgTypes, req \in Requests \union {Absent} :
        \/ handle_dhcp(m, type, ANY, req)
        \/ handle_dhcp(m, type, BROADCAST, req)
        \/ \E a \in Claims : MayClaim(a) /\ handle_dhcp(m, type, a, req)
  BY DEF Message
<1>2. CASE handle_dhcp(m, type, ANY, req)
  BY <1>2, SpecialAddresses
<1>3. CASE handle_dhcp(m, type, BROADCAST, req)
  BY <1>3, SpecialAddresses
<1>4. ASSUME NEW a \in Claims, handle_dhcp(m, type, a, req)
      PROVE  \E t, b, r : b \in Addrs /\ handle_dhcp(m, t, b, r)
  <2>1. a \in Addrs
    BY AddrAssumption
  <2> QED
    BY <1>4, <2>1
<1> QED
  BY <1>1, <1>2, <1>3, <1>4

\* A message handled keeps LeaseInv.
LEMMA HandleKeeps ==
  ASSUME LeaseInv, NEW m \in Macs, NEW type, NEW a \in Addrs, NEW req,
         handle_dhcp(m, type, a, req)
  PROVE  LeaseInv'
<1> DEFINE u == wifi_softap_dhcps_client_update(m, a)
           st == parse_options(type, req, u.ip, u.renew)
<1>1. u.plist \in Seq(Node) /\ Distinct(u.plist) /\ u.ip \in Addrs /\ u.renew \in BOOLEAN
  BY UpdateKeepsDistinct
<1>2. /\ renew' = u.renew
      /\ plist' = IF st = "RELEASE"
                  THEN wifi_softap_dhcps_client_leave(u.plist, m, a, TRUE) ELSE u.plist
      /\ out' \in Replies(st, m, u.ip)
      /\ UNCHANGED cfgvars
  BY DEF handle_dhcp
<1> HIDE DEF u, st
<1>3. plist' \in Seq(Node) /\ Distinct(plist')
  <2>1. LET r == wifi_softap_dhcps_client_leave(u.plist, m, a, TRUE)
        IN  r \in Seq(Node) /\ Distinct(r)
    BY <1>1, LeaveKeepsDistinct
  <2> QED
    BY <1>1, <1>2, <2>1
<1>4. out'.kind \in {"none", "OFFER", "ACK", "NAK"} /\ out'.ip \in Addrs
  BY <1>1, <1>2, ReplyType
<1> QED
  BY <1>1, <1>2, <1>3, <1>4, ListStep

\* A running server has a range that suits its address.
LEMMA RangeSuits ==
  ASSUME LeaseInv
  PROVE  RangeExcludesServer
<1>1. RangeOK(DefaultRange(ap), ap)
  BY DefaultRangeOK DEF LeaseInv, TypeOK
<1> QED
  BY <1>1 DEF LeaseInv, RangeKept, RangeExcludesServer

\* The initial states have it.
LEMMA LeaseInvInit == Init => LeaseInv
<1> SUFFICES ASSUME Init
             PROVE  LeaseInv
  OBVIOUS
<1> USE DEF Init
<1>1. TypeOK
  <2>0. renew \in BOOLEAN
    OBVIOUS
  <2>1. plist \in Seq(Node) /\ ltime \in LeaseTimes
        /\ status \in {"stopped", "started"} /\ ap \in ApIps
    OBVIOUS
  <2>2. lease \in [enable : BOOLEAN, start : Addrs, end : Addrs]
    BY SpecialAddresses
  <2> QED
    BY <2>0, <2>1, <2>2, SilentType DEF TypeOK
<1>2. OneLeasePerStation
  BY DEF OneLeasePerStation
<1>3. RangeKept
  BY DEF RangeKept
<1> QED
  BY <1>1, <1>2, <1>3 DEF LeaseInv

\* Every step keeps it.
LEMMA LeaseInvStep == LeaseInv /\ [Next]_vars => LeaseInv'
<1> SUFFICES ASSUME LeaseInv, [Next]_vars
             PROVE  LeaseInv'
  OBVIOUS
<1>0. /\ plist \in Seq(Node) /\ Distinct(plist) /\ renew \in BOOLEAN /\ ap \in ApIps
      /\ lease \in [enable : BOOLEAN, start : Addrs, end : Addrs]
  BY OneLeaseIsDistinct DEF LeaseInv, TypeOK, OneLeasePerStation
<1>1. ASSUME NEW m \in Macs, Message(m)
      PROVE  LeaseInv'
  <2>1. \E type, a, req : a \in Addrs /\ handle_dhcp(m, type, a, req)
    BY <1>1, MessageIsHandled
  <2> QED
    BY <2>1, HandleKeeps
<1>2. ASSUME NEW m \in Macs, NEW a \in Claims, client_update(m, a)
      PROVE  LeaseInv'
  <2> DEFINE u == wifi_softap_dhcps_client_update(m, a)
  <2>1. a \in Addrs
    BY AddrAssumption
  <2>2. u.plist \in Seq(Node) /\ Distinct(u.plist) /\ u.renew \in BOOLEAN
    BY <2>1, UpdateKeepsDistinct
  <2>3. plist' = u.plist /\ renew' = u.renew /\ out' = NoReply /\ UNCHANGED cfgvars
    BY <1>2 DEF client_update
  <2> HIDE DEF u
  <2> QED
    BY <2>2, <2>3, SilentType, ListStep
<1>3. ASSUME NEW m \in Macs, NEW a, client_leave(m, a)
      PROVE  LeaseInv'
  <2>1. /\ plist' = wifi_softap_dhcps_client_leave(plist, m, a, FALSE)
        /\ out' = NoReply /\ renew' = renew /\ UNCHANGED cfgvars
    BY <1>3 DEF client_leave
  <2>2. plist' \in Seq(Node) /\ Distinct(plist')
    BY <1>0, <2>1, LeaveKeepsDistinct
  <2> QED
    BY <1>0, <2>1, <2>2, SilentType, ListStep
<1>4. ASSUME dhcps_coarse_tmr
      PROVE  LeaseInv'
  <2>1. out' = NoReply /\ renew' = renew /\ UNCHANGED cfgvars
    BY <1>4 DEF dhcps_coarse_tmr
  <2>2. plist' \in Seq(Node) /\ Distinct(plist')
    BY <1>0, <1>4, TimerKeepsDistinct
  <2> QED
    BY <1>0, <2>1, <2>2, SilentType, ListStep
<1>5. ASSUME NEW a \in ApIps, set_ap_ip(a)
      PROVE  LeaseInv'
  <2>1. TypeOK'
    BY <1>5, SilentType DEF set_ap_ip, LeaseInv, TypeOK
  <2>2. OneLeasePerStation' /\ RangeKept'
    BY <1>5 DEF set_ap_ip, LeaseInv, OneLeasePerStation, RangeKept
  <2> QED
    BY <2>1, <2>2 DEF LeaseInv
<1>6. ASSUME dhcps_start
      PROVE  LeaseInv'
  <2>0. /\ lease' = wifi_softap_init_dhcps_lease(ap) /\ status' = "started"
        /\ out' = NoReply /\ UNCHANGED <<plist, ltime, renew, ap>>
    BY <1>6 DEF dhcps_start
  <2>1. \/ lease' = lease /\ lease.enable /\ RangeOK(lease, ap)
        \/ lease' = DefaultRange(ap)
    BY <2>0 DEF wifi_softap_init_dhcps_lease
  <2>2. lease' \in [enable : BOOLEAN, start : Addrs, end : Addrs]
    BY <1>0, <2>1, DefaultRangeOK
  <2>3. TypeOK'
    BY <2>0, <2>2, SilentType DEF LeaseInv, TypeOK
  <2>4. RangeKept'
    BY <2>0, <2>1 DEF RangeKept
  <2>5. OneLeasePerStation'
    BY <2>0 DEF LeaseInv, OneLeasePerStation
  <2> QED
    BY <2>3, <2>4, <2>5 DEF LeaseInv
<1>7. ASSUME dhcps_stop
      PROVE  LeaseInv'
  <2>0. /\ plist' = <<>> /\ status' = "stopped" /\ out' = NoReply
        /\ UNCHANGED <<lease, ltime, renew, ap>>
    BY <1>7 DEF dhcps_stop
  <2>1. TypeOK'
    BY <2>0, SilentType DEF LeaseInv, TypeOK
  <2>2. OneLeasePerStation' /\ RangeKept'
    BY <2>0 DEF OneLeasePerStation, RangeKept
  <2> QED
    BY <2>1, <2>2 DEF LeaseInv
<1>8. ASSUME NEW r \in Ranges, wifi_softap_set_dhcps_lease(r)
      PROVE  LeaseInv'
  <2>0. /\ status = "stopped" /\ lease' = IF r.enable THEN r ELSE [lease EXCEPT !.enable = FALSE]
        /\ out' = NoReply /\ UNCHANGED <<plist, ltime, renew, status, ap>>
    BY <1>8 DEF wifi_softap_set_dhcps_lease
  <2>1. r \in [enable : BOOLEAN, start : Addrs, end : Addrs]
    BY AddrAssumption
  <2>2. lease' \in [enable : BOOLEAN, start : Addrs, end : Addrs]
    BY <1>0, <2>0, <2>1
  <2>3. TypeOK'
    BY <2>0, <2>2, SilentType DEF LeaseInv, TypeOK
  <2>4. OneLeasePerStation' /\ RangeKept'
    BY <2>0 DEF LeaseInv, OneLeasePerStation, RangeKept
  <2> QED
    BY <2>3, <2>4 DEF LeaseInv
<1>9. ASSUME NEW t \in LeaseTimes, wifi_softap_set_dhcps_lease_time(t)
      PROVE  LeaseInv'
  <2>1. TypeOK'
    BY <1>9, SilentType DEF wifi_softap_set_dhcps_lease_time, LeaseInv, TypeOK
  <2>2. OneLeasePerStation' /\ RangeKept'
    BY <1>9 DEF wifi_softap_set_dhcps_lease_time, LeaseInv, OneLeasePerStation, RangeKept
  <2> QED
    BY <2>1, <2>2 DEF LeaseInv
<1>10. ASSUME NEW m \in Macs, wifi_softap_add_dhcps_lease(m)
       PROVE  LeaseInv'
  <2>1. out' = NoReply /\ renew' = renew /\ UNCHANGED cfgvars
    BY <1>10 DEF wifi_softap_add_dhcps_lease
  <2>2. plist' \in Seq(Node) /\ Distinct(plist')
    BY <1>10, ReserveCases
  <2> QED
    BY <1>0, <2>1, <2>2, SilentType, ListStep
<1>11. CASE UNCHANGED vars
  <2>1. TypeOK'
    BY <1>11 DEF vars, LeaseInv, TypeOK
  <2>2. OneLeasePerStation' /\ RangeKept'
    BY <1>11 DEF vars, LeaseInv, OneLeasePerStation, RangeKept
  <2> QED
    BY <2>1, <2>2 DEF LeaseInv
<1> QED
  BY <1>1, <1>2, <1>3, <1>4, <1>5, <1>6, <1>7, <1>8, <1>9, <1>10, <1>11 DEF Next

\* LeaseInv is an invariant of the server, whatever its stations claim and
\* whenever leases are reserved.
THEOREM SpecLeaseInv == Spec => []LeaseInv
BY LeaseInvInit, LeaseInvStep, PTL DEF Spec

\* Every field keeps its type through every composition of calls; in
\* particular no timer on the list is zero, so that none wraps to 2^32 - 1.
THEOREM TypeCorrect == Spec => []TypeOK
<1>1. LeaseInv => TypeOK
  BY DEF LeaseInv
<1> QED
  BY <1>1, SpecLeaseInv, PTL

\* The list never has two nodes of one station: where the code takes the
\* first node of a station or the last one, it takes the same one.
THEOREM OneLeasePerStationHolds == Spec => []OneLeasePerStation
<1>1. LeaseInv => OneLeasePerStation
  BY DEF LeaseInv
<1> QED
  BY <1>1, SpecLeaseInv, PTL

\* The range of a running server is in its segment, not empty, not longer
\* than DHCPS_MAX_LEASE, and does not contain its own address.
THEOREM RangeExcludesServerHolds == Spec => []RangeExcludesServer
BY RangeSuits, SpecLeaseInv, PTL

-----------------------------------------------------------------------------
(* What is granted is on the list, and what others hold stays there. *)

\* Station m has address ip, online.
Holds(list, m, ip) ==
    \E j \in 1 .. Len(list) : list[j].mac = m /\ list[j].ip = ip /\ list[j].state = "ONLINE"

\* The online nodes of the other stations are still there.
OthersKept(p, q, m) ==
    \A i \in 1 .. Len(p) : p[i].mac # m /\ p[i].state = "ONLINE" =>
        \E j \in 1 .. Len(q) : q[j] = p[i]

\* An insertion leaves everything there.
LEMMA InsertedKeeps ==
  ASSUME NEW p \in Seq(Node), NEW q \in Seq(Node), NEW k, NEW n, Inserted(p, q, k, n)
  PROVE  /\ k \in 1 .. Len(q) /\ q[k] = n
         /\ \A i \in 1 .. Len(p) : \E j \in 1 .. Len(q) : q[j] = p[i]
<1>1. Extends(p, q, k, n)
  BY InsertedElements
<1> QED
  BY <1>1 DEF Extends

\* A deletion, all but the node deleted.
LEMMA DeletedKeeps ==
  ASSUME NEW p \in Seq(Node), NEW q \in Seq(Node), NEW k, Deleted(p, q, k)
  PROVE  \A i \in 1 .. Len(p) : i # k => \E j \in 1 .. Len(q) : q[j] = p[i]
<1>1. Shrinks(p, q, k)
  BY DeletedElements
<1> QED
  BY <1>1 DEF Shrinks

\* Each way of granting an address.
LEMMA GrantedHolds ==
  ASSUME LeaseInv, NEW m \in Macs, NEW a \in Addrs, NEW u, Granted(m, a, u)
  PROVE  Holds(u.plist, m, u.ip) /\ OthersKept(plist, u.plist, m)
<1> DEFINE pmac == PmacNode(m, a)
           pip == PipNode(a)
           q == u.plist
           mine == Mine(m, a, MyType(a))
           own == Mine(m, a, "DYNAMIC")
<1>0. plist \in Seq(Node) /\ Len(plist) \in Nat /\ TypeOK /\ OneLeasePerStation
  BY DEF LeaseInv, TypeOK
<1>1. u.ip = GrantedIp(m, a) /\ q \in Seq(Node)
  BY <1>0, GrantedKeepsDistinct DEF Granted
<1>2. /\ mine.mac = m /\ mine.ip = u.ip /\ mine.state = "ONLINE"
      /\ own.mac = m /\ own.ip = u.ip /\ own.state = "ONLINE"
  BY <1>1 DEF Mine
<1>2a. mine \in Node /\ own \in Node
  <2>1. MyType(a) \in {"DYNAMIC", "STATIC"}
    BY DEF MyType
  <2> QED
    BY <1>0, <2>1, MineType
<1>3. /\ pmac \in 0 .. Len(plist)
      /\ pmac # 0 => plist[pmac].mac = m
      /\ \A i \in 1 .. Len(plist) : plist[i].mac = m => i = pmac
  BY <1>0, PmacFacts
<1>4. pip \in 0 .. Len(plist)
  BY <1>0, PipFacts
<1> HIDE DEF pmac, pip, mine, own, q
<1>5. CASE RenewsOwn(m, a, u)
  <2>1. pip \in 1 .. Len(plist) /\ plist[pip].mac = m /\ q = [plist EXCEPT ![pip] = own]
    BY <1>3, <1>4, <1>5 DEF RenewsOwn, pip, pmac, own, q
  <2>2. /\ Len(q) = Len(plist)
        /\ \A i \in 1 .. Len(plist) : q[i] = IF i = pip THEN own ELSE plist[i]
    BY <1>0, <1>2a, <2>1, ReplaceType
  <2>3. Holds(q, m, u.ip)
    BY <1>2, <2>1, <2>2 DEF Holds
  <2>4. OthersKept(plist, q, m)
    BY <2>1, <2>2 DEF OthersKept
  <2> QED
    BY <2>3, <2>4 DEF q
<1>6. CASE TakesOver(m, a, u)
  <2> DEFINE r == [plist EXCEPT ![pip] = mine]
  <2>1. /\ pip \in 1 .. Len(plist) /\ pip # pmac /\ q = node_remove_from_list(r, pmac)
        /\ plist[pip].state = "OFFLINE"
    BY <1>4, <1>6 DEF TakesOver, Used, pip, pmac, mine, q
  <2>2. /\ r \in Seq(Node) /\ Len(r) = Len(plist)
        /\ \A i \in 1 .. Len(plist) : r[i] = IF i = pip THEN mine ELSE plist[i]
    BY <1>0, <1>2a, <2>1, ReplaceType
  <2> HIDE DEF r
  <2>3. \A i \in 1 .. Len(r) : i # pmac => \E j \in 1 .. Len(q) : q[j] = r[i]
    <3>1. /\ pmac = 0 => q = r
          /\ pmac # 0 => Deleted(r, q, pmac)
      BY <1>3, <2>1, <2>2, RemoveCases
    <3>2. CASE pmac = 0
      BY <3>1, <3>2
    <3>3. CASE pmac # 0
      BY <1>1, <2>2, <3>1, <3>3, DeletedKeeps
    <3> QED
      BY <3>2, <3>3
  <2>4. Holds(q, m, u.ip)
    <3>1. r[pip] = mine /\ pip \in 1 .. Len(r)
      BY <2>1, <2>2
    <3>2. \E j \in 1 .. Len(q) : q[j] = mine
      BY <2>1, <2>3, <3>1
    <3> QED
      BY <1>2, <3>2 DEF Holds
  <2>5. OthersKept(plist, q, m)
    <3> SUFFICES ASSUME NEW i \in 1 .. Len(plist), plist[i].mac # m, plist[i].state = "ONLINE"
                 PROVE  \E j \in 1 .. Len(q) : q[j] = plist[i]
      BY DEF OthersKept
    <3>1. i # pip /\ i # pmac
      BY <1>3, <2>1
    <3>2. r[i] = plist[i] /\ i \in 1 .. Len(r)
      BY <2>2, <3>1
    <3> QED
      BY <2>3, <3>1, <3>2
  <2> QED
    BY <2>4, <2>5 DEF q
<1>7. CASE Moves(m, a, u)
  <2> DEFINE r == node_remove_from_list(plist, pmac)
  <2>1. pmac \in 1 .. Len(plist) /\ q = node_insert_to_list(r, mine)
    BY <1>3, <1>7 DEF Moves, pip, pmac, mine, q
  <2>2. r \in Seq(Node) /\ Deleted(plist, r, pmac)
    BY <1>0, <2>1, RemoveCases
  <2> HIDE DEF r
  <2>3. PICK k : Inserted(r, q, k, mine)
    BY <1>2a, <2>1, <2>2, InsertCases
  <2>4. /\ k \in 1 .. Len(q) /\ q[k] = mine
        /\ \A i \in 1 .. Len(r) : \E j \in 1 .. Len(q) : q[j] = r[i]
    BY <1>1, <2>2, <2>3, InsertedKeeps
  <2>5. \A i \in 1 .. Len(plist) : i # pmac => \E j \in 1 .. Len(r) : r[j] = plist[i]
    BY <1>0, <2>2, DeletedKeeps
  <2>6. Holds(q, m, u.ip)
    BY <1>2, <2>4 DEF Holds
  <2>7. OthersKept(plist, q, m)
    <3> SUFFICES ASSUME NEW i \in 1 .. Len(plist), plist[i].mac # m
                 PROVE  \E j \in 1 .. Len(q) : q[j] = plist[i]
      BY DEF OthersKept
    <3>1. i # pmac
      BY <1>3, <2>1
    <3>2. PICK x \in 1 .. Len(r) : r[x] = plist[i]
      BY <2>5, <3>1
    <3>3. \E j \in 1 .. Len(q) : q[j] = r[x]
      BY <2>4
    <3> QED
      BY <3>2, <3>3
  <2> QED
    BY <2>6, <2>7 DEF q
<1>8. CASE Enters(m, a, u)
  <2>1. q = node_insert_to_list(plist, mine)
    BY <1>8 DEF Enters, mine, q
  <2>2. PICK k : Inserted(plist, q, k, mine)
    BY <1>0, <1>2a, <2>1, InsertCases
  <2>3. /\ k \in 1 .. Len(q) /\ q[k] = mine
        /\ \A i \in 1 .. Len(plist) : \E j \in 1 .. Len(q) : q[j] = plist[i]
    BY <1>0, <1>1, <2>2, InsertedKeeps
  <2>4. Holds(q, m, u.ip)
    BY <1>2, <2>3 DEF Holds
  <2>5. OthersKept(plist, q, m)
    BY <2>3 DEF OthersKept
  <2> QED
    BY <2>4, <2>5 DEF q
<1> QED
  BY <1>5, <1>6, <1>7, <1>8 DEF Granted

\* client_update, whichever way it goes.
LEMMA UpdateHolds ==
  ASSUME LeaseInv, NEW m \in Macs, NEW a \in Addrs
  PROVE  LET u == wifi_softap_dhcps_client_update(m, a)
         IN  /\ u.ip # ANY => Holds(u.plist, m, u.ip)
             /\ OthersKept(plist, u.plist, m)
<1> DEFINE u == wifi_softap_dhcps_client_update(m, a)
<1>1. Refused(u) \/ Granted(m, a, u)
  BY UpdateCases
<1> HIDE DEF u
<1>2. CASE Refused(u)
  <2>1. u.plist = plist /\ u.ip = ANY
    BY <1>2 DEF Refused
  <2>2. OthersKept(plist, u.plist, m)
    BY <2>1 DEF OthersKept
  <2> QED
    BY <2>1, <2>2 DEF u
<1>3. CASE Granted(m, a, u)
  <2>1. Holds(u.plist, m, u.ip) /\ OthersKept(plist, u.plist, m)
    BY <1>3, GrantedHolds
  <2> QED
    BY <2>1 DEF u
<1> QED
  BY <1>1, <1>2, <1>3

\* The departure of a station leaves the nodes of the others.
LEMMA LeaveKeepsOthers ==
  ASSUME NEW p, NEW list \in Seq(Node), NEW m, NEW a, NEW force, OthersKept(p, list, m)
  PROVE  OthersKept(p, wifi_softap_dhcps_client_leave(list, m, a, force), m)
<1> DEFINE r == wifi_softap_dhcps_client_leave(list, m, a, force)
           k == LeavingNode(list, m, a)
<1>1. /\ r \in Seq(Node)
      /\ \/ r = list
         \/ list[k].mac = m /\ Deleted(list, r, k)
         \/ /\ k \in 1 .. Len(list) /\ list[k].mac = m /\ Len(r) = Len(list)
            /\ r[k] = [list[k] EXCEPT !.state = "OFFLINE"]
            /\ \A i \in 1 .. Len(list) : i # k => r[i] = list[i]
  BY LeaveCases
<1> HIDE DEF r, k
<1>2. \A i \in 1 .. Len(list) : list[i].mac # m => \E j \in 1 .. Len(r) : r[j] = list[i]
  <2>1. CASE r = list
    BY <2>1
  <2>2. CASE list[k].mac = m /\ Deleted(list, r, k)
    BY <1>1, <2>2, DeletedKeeps
  <2>3. CASE /\ k \in 1 .. Len(list) /\ list[k].mac = m /\ Len(r) = Len(list)
             /\ r[k] = [list[k] EXCEPT !.state = "OFFLINE"]
             /\ \A i \in 1 .. Len(list) : i # k => r[i] = list[i]
    <3> SUFFICES ASSUME NEW i \in 1 .. Len(list), list[i].mac # m
                 PROVE  \E j \in 1 .. Len(r) : r[j] = list[i]
      OBVIOUS
    <3>1. i # k
      BY <2>3
    <3> QED
      BY <2>3, <3>1
  <2> QED
    BY <1>1, <2>1, <2>2, <2>3
<1>3. OthersKept(p, r, m)
  <2> SUFFICES ASSUME NEW i \in 1 .. Len(p), p[i].mac # m, p[i].state = "ONLINE"
               PROVE  \E j \in 1 .. Len(r) : r[j] = p[i]
    BY DEF OthersKept
  <2>1. PICK x \in 1 .. Len(list) : list[x] = p[i]
    BY DEF OthersKept
  <2> QED
    BY <1>2, <2>1
<1> QED
  BY <1>3 DEF r

\* The property, in terms of Holds.
LEMMA BackedIsHeld ==
  ASSUME NEW list \in Seq(Node), NEW m, NEW ip, Holds(list, m, ip)
  PROVE  \E i \in DOMAIN list : /\ list[i].mac = m /\ list[i].ip = ip
                                /\ list[i].state = "ONLINE"
<1>1. DOMAIN list = 1 .. Len(list)
  OBVIOUS
<1> QED
  BY <1>1 DEF Holds

\* The reply of a message that was handled is backed.
LEMMA HandleBacks ==
  ASSUME LeaseInv, NEW m \in Macs, NEW type, NEW a \in Addrs, NEW req,
         handle_dhcp(m, type, a, req)
  PROVE  ReplyBacked'
<1> DEFINE u == wifi_softap_dhcps_client_update(m, a)
           st == parse_options(type, req, u.ip, u.renew)
<1>1. u.plist \in Seq(Node) /\ u.ip \in Addrs
  BY UpdateKeepsDistinct
<1>2. u.ip # ANY => Holds(u.plist, m, u.ip)
  BY UpdateHolds
<1>3. /\ plist' = IF st = "RELEASE"
                  THEN wifi_softap_dhcps_client_leave(u.plist, m, a, TRUE) ELSE u.plist
      /\ out' \in Replies(st, m, u.ip)
  BY DEF handle_dhcp
<1> HIDE DEF u, st
<1> SUFFICES ASSUME out'.kind \in {"OFFER", "ACK"}, out'.ip # ANY
             PROVE  \E i \in DOMAIN plist' : /\ plist'[i].mac = out'.mac
                                             /\ plist'[i].ip = out'.ip
                                             /\ plist'[i].state = "ONLINE"
  BY DEF ReplyBacked
<1>4. out'.kind = st /\ out'.mac = m /\ out'.ip = u.ip
  BY <1>1, <1>3, ReplyType
<1>5. plist' = u.plist
  BY <1>3, <1>4
<1>6. Holds(u.plist, m, u.ip)
  BY <1>2, <1>4
<1> QED
  BY <1>1, <1>4, <1>5, <1>6, BackedIsHeld

\* Calls that send no reply back it trivially; the next message is what counts.
LEMMA SilentBacks == out' = NoReply => ReplyBacked'
BY SilentType DEF ReplyBacked

\* An offer or an acknowledgement that names an address leaves only when the
\* station has a lease of it, online.
THEOREM ReplyBackedHolds == Spec => []ReplyBacked
<1>1. Init => ReplyBacked
  BY SilentType DEF Init, ReplyBacked
<1>2. LeaseInv /\ ReplyBacked /\ [Next]_vars => ReplyBacked'
  <2> SUFFICES ASSUME LeaseInv, ReplyBacked, [Next]_vars
               PROVE  ReplyBacked'
    OBVIOUS
  <2>1. ASSUME NEW m \in Macs, Message(m)
        PROVE  ReplyBacked'
    <3>1. \E type, a, req : a \in Addrs /\ handle_dhcp(m, type, a, req)
      BY <2>1, MessageIsHandled
    <3> QED
      BY <3>1, HandleBacks
  <2>2. ASSUME NEW m \in Macs, NEW a, client_update(m, a) \/ client_leave(m, a)
        PROVE  ReplyBacked'
    BY <2>2, SilentBacks DEF client_update, client_leave
  <2>3. CASE dhcps_coarse_tmr \/ dhcps_start \/ dhcps_stop
    BY <2>3, SilentBacks DEF dhcps_coarse_tmr, dhcps_start, dhcps_stop
  <2>4. ASSUME NEW x, \/ set_ap_ip(x) \/ wifi_softap_set_dhcps_lease(x)
                      \/ wifi_softap_set_dhcps_lease_time(x) \/ wifi_softap_add_dhcps_lease(x)
        PROVE  ReplyBacked'
    BY <2>4, SilentBacks DEF set_ap_ip, wifi_softap_set_dhcps_lease,
       wifi_softap_set_dhcps_lease_time, wifi_softap_add_dhcps_lease
  <2>5. CASE UNCHANGED vars
    BY <2>5 DEF vars, ReplyBacked
  <2> QED
    BY <2>1, <2>2, <2>3, <2>4, <2>5 DEF Next
<1> QED
  BY <1>1, <1>2, SpecLeaseInv, PTL DEF Spec

\* What one step may do to an online lease.
KeepsOnline ==
    \A i \in DOMAIN plist :
        plist[i].state = "ONLINE" /\ (\A j \in DOMAIN plist' : plist'[j] # plist[i])
        => dhcps_stop \/ dhcps_coarse_tmr \/ ByStation(plist[i].mac)

\* A step of station m keeps the leases of the others.
LEMMA StationKeepsOnline ==
  ASSUME plist \in Seq(Node), plist' \in Seq(Node), NEW m, ByStation(m),
         OthersKept(plist, plist', m)
  PROVE  KeepsOnline
<1>0. DOMAIN plist = 1 .. Len(plist) /\ DOMAIN plist' = 1 .. Len(plist')
  OBVIOUS
<1> SUFFICES ASSUME NEW i \in 1 .. Len(plist), plist[i].state = "ONLINE",
                    \A j \in 1 .. Len(plist') : plist'[j] # plist[i]
             PROVE  ByStation(plist[i].mac)
  BY <1>0 DEF KeepsOnline
<1>1. plist[i].mac = m
  BY DEF OthersKept
<1> QED
  BY <1>1

\* A step that deletes no node keeps them all.
LEMMA NothingDeleted ==
  ASSUME plist \in Seq(Node), plist' \in Seq(Node),
         \A i \in 1 .. Len(plist) : \E j \in 1 .. Len(plist') : plist'[j] = plist[i]
  PROVE  KeepsOnline
<1>0. DOMAIN plist = 1 .. Len(plist) /\ DOMAIN plist' = 1 .. Len(plist')
  OBVIOUS
<1> QED
  BY <1>0 DEF KeepsOnline

\* No station's message, no report of it and no reservation ends the online
\* lease of another station: only its own acts, the timer and a stop do.
THEOREM OnlineLeaseKeptHolds == Spec => OnlineLeaseKept
<1>1. LeaseInv /\ LeaseInv' /\ [Next]_vars => [KeepsOnline]_vars
  <2> SUFFICES ASSUME LeaseInv, LeaseInv', Next
               PROVE  KeepsOnline
    OBVIOUS
  <2>0. plist \in Seq(Node) /\ plist' \in Seq(Node)
    BY DEF LeaseInv, TypeOK
  <2>1. ASSUME NEW m \in Macs, Message(m)
        PROVE  KeepsOnline
    <3>1. PICK type, a, req : a \in Addrs /\ handle_dhcp(m, type, a, req)
      BY <2>1, MessageIsHandled
    <3> DEFINE u == wifi_softap_dhcps_client_update(m, a)
    <3>2. u.plist \in Seq(Node) /\ OthersKept(plist, u.plist, m)
      BY <3>1, UpdateKeepsDistinct, UpdateHolds
    <3>3. \/ plist' = u.plist
          \/ plist' = wifi_softap_dhcps_client_leave(u.plist, m, a, TRUE)
      BY <3>1 DEF handle_dhcp
    <3> HIDE DEF u
    <3>4. OthersKept(plist, plist', m)
      BY <3>2, <3>3, LeaveKeepsOthers
    <3>5. ByStation(m)
      BY <2>1 DEF ByStation
    <3> QED
      BY <2>0, <3>4, <3>5, StationKeepsOnline
  <2>2. ASSUME NEW m \in Macs, NEW a \in Claims, client_update(m, a)
        PROVE  KeepsOnline
    <3> DEFINE u == wifi_softap_dhcps_client_update(m, a)
    <3>1. a \in Addrs
      BY AddrAssumption
    <3>2. OthersKept(plist, u.plist, m)
      BY <3>1, UpdateHolds
    <3>3. plist' = u.plist
      BY <2>2 DEF client_update
    <3> HIDE DEF u
    <3>4. ByStation(m)
      BY <2>2 DEF ByStation
    <3> QED
      BY <2>0, <3>2, <3>3, <3>4, StationKeepsOnline
  <2>3. ASSUME NEW m \in Macs, NEW a \in Claims \union {plist[i].ip : i \in DOMAIN plist},
               client_leave(m, a)
        PROVE  KeepsOnline
    <3>1. plist' = wifi_softap_dhcps_client_leave(plist, m, a, FALSE)
      BY <2>3 DEF client_leave
    <3>2. OthersKept(plist, plist, m)
      BY DEF OthersKept
    <3>3. OthersKept(plist, plist', m)
      BY <2>0, <3>1, <3>2, LeaveKeepsOthers
    <3>4. ByStation(m)
      BY <2>3 DEF ByStation
    <3> QED
      BY <2>0, <3>3, <3>4, StationKeepsOnline
  <2>4. CASE dhcps_coarse_tmr \/ dhcps_stop
    BY <2>4 DEF KeepsOnline
  <2>5. ASSUME plist' = plist
        PROVE  KeepsOnline
    BY <2>0, <2>5, NothingDeleted
  <2>6. CASE dhcps_start
    BY <2>5, <2>6 DEF dhcps_start
  <2>7. ASSUME NEW x, \/ set_ap_ip(x) \/ wifi_softap_set_dhcps_lease(x)
                      \/ wifi_softap_set_dhcps_lease_time(x)
        PROVE  KeepsOnline
    BY <2>5, <2>7 DEF set_ap_ip, wifi_softap_set_dhcps_lease,
       wifi_softap_set_dhcps_lease_time
  <2>8. ASSUME NEW m \in Macs, wifi_softap_add_dhcps_lease(m)
        PROVE  KeepsOnline
    <3>1. \E k, n : Inserted(plist, plist', k, n)
      BY <2>8, ReserveCases
    <3> QED
      BY <2>0, <3>1, InsertedKeeps, NothingDeleted
  <2> QED
    BY <2>1, <2>2, <2>3, <2>4, <2>6, <2>7, <2>8 DEF Next
<1> QED
  BY <1>1, SpecLeaseInv, PTL DEF Spec, OnlineLeaseKept, KeepsOnline

-----------------------------------------------------------------------------
(* The order of the list. *)

\* Deleting a node keeps the order.
LEMMA OrderedDeleted ==
  ASSUME NEW p \in Seq(Node), NEW q \in Seq(Node), NEW k, NEW s, Deleted(p, q, k), Ordered(p, s)
  PROVE  Ordered(q, s)
<1>1. Shrinks(p, q, k)
  BY DeletedElements
<1>2. ASSUME NEW i \in 1 .. Len(q)
      PROVE  q[i].ip.net = s.net /\ q[i].ip.host \in s.host .. Octets - 2
  <2>1. After(k, i) \in 1 .. Len(p) /\ p[After(k, i)] = q[i]
    BY <1>1 DEF Shrinks
  <2> QED
    BY <2>1 DEF Ordered
<1>3. ASSUME NEW i \in 1 .. Len(q), NEW j \in 1 .. Len(q), i < j
      PROVE  q[i].ip.host < q[j].ip.host
  <2>1. /\ After(k, i) \in 1 .. Len(p) /\ p[After(k, i)] = q[i]
        /\ After(k, j) \in 1 .. Len(p) /\ p[After(k, j)] = q[j]
        /\ After(k, i) < After(k, j)
    BY <1>1, <1>3 DEF Shrinks
  <2>2. p[After(k, i)].ip.host < p[After(k, j)].ip.host
    BY <2>1 DEF Ordered
  <2> QED
    BY <2>1, <2>2
<1> QED
  BY <1>2, <1>3 DEF Ordered

\* Nodes may change, but not their addresses.
LEMMA OrderedMapped ==
  ASSUME NEW p \in Seq(Node), NEW q \in Seq(Node), NEW s, Len(q) = Len(p),
         \A i \in 1 .. Len(p) : q[i].ip = p[i].ip, Ordered(p, s)
  PROVE  Ordered(q, s)
BY DEF Ordered

\* Leaving nodes out keeps the order.
LEMMA OrderedPicked ==
  ASSUME NEW p \in Seq(Node), NEW q \in Seq(Node), NEW s, PickedNodes(p, q), Ordered(p, s)
  PROVE  Ordered(q, s)
<1>1. PICK f \in [1 .. Len(q) -> 1 .. Len(p)] :
        /\ \A i, j \in 1 .. Len(q) : i < j => f[i] < f[j]
        /\ \A i \in 1 .. Len(q) : q[i].mac = p[f[i]].mac /\ q[i].ip = p[f[i]].ip
  BY DEF PickedNodes
<1>2. \A i \in 1 .. Len(q) : f[i] \in 1 .. Len(p) /\ q[i].ip = p[f[i]].ip
  BY <1>1
<1>3. ASSUME NEW i \in 1 .. Len(q)
      PROVE  q[i].ip.net = s.net /\ q[i].ip.host \in s.host .. Octets - 2
  BY <1>2 DEF Ordered
<1>4. ASSUME NEW i \in 1 .. Len(q), NEW j \in 1 .. Len(q), i < j
      PROVE  q[i].ip.host < q[j].ip.host
  <2>1. f[i] < f[j]
    BY <1>1, <1>4
  <2> QED
    BY <1>2, <2>1 DEF Ordered
<1> QED
  BY <1>3, <1>4 DEF Ordered

\* A node with an address nobody has goes to its place.
LEMMA OrderedInserted ==
  ASSUME NEW list \in Seq(Node), NEW n \in Node, NEW s \in Addrs, Ordered(list, s),
         n.ip.net = s.net, n.ip.host \in s.host .. Octets - 2,
         \A i \in 1 .. Len(list) : list[i].ip.host # n.ip.host
  PROVE  Ordered(node_insert_to_list(list, n), s)
<1> DEFINE q == node_insert_to_list(list, n)
<1>0. \A i \in 1 .. Len(list) : list[i].ip \in Addrs /\ list[i].ip.host \in Int
  <2> TAKE i \in 1 .. Len(list)
  <2>1. list[i] \in Node
    OBVIOUS
  <2>2. list[i].ip \in Addrs
    BY <2>1, NodeFields
  <2> QED
    BY <2>2, OctetAssumption DEF Addrs
<1>1. Len(list) \in Nat /\ n.ip.host \in Int
  BY OctetAssumption DEF Addrs
<1>2. PICK k \in 1 .. Len(list) + 1 :
        /\ Inserted(list, q, k, n)
        /\ \A i \in 1 .. k - 1 : ~Less(n.ip, list[i].ip)
        /\ k <= Len(list) => Less(n.ip, list[k].ip)
  BY InsertCases
<1> HIDE DEF q
<1>3. /\ k \in 1 .. Len(q) /\ q[k] = n
      /\ \A i \in 1 .. Len(list) : After(k, i) \in 1 .. Len(q) /\ q[After(k, i)] = list[i]
      /\ \A i, j \in 1 .. Len(list) : i < j <=> After(k, i) < After(k, j)
      /\ \A j \in 1 .. Len(q) : j = k \/ \E i \in 1 .. Len(list) : j = After(k, i)
      /\ \A i \in 1 .. Len(list) : After(k, i) < k <=> i < k
      /\ \A i \in 1 .. Len(list) : After(k, i) # k
  BY <1>1, <1>2, InsertedElements DEF Extends
<1>4. ASSUME NEW i \in 1 .. Len(list), i < k
      PROVE  list[i].ip.host < n.ip.host
  <2>1. ~Less(n.ip, list[i].ip)
    BY <1>1, <1>2, <1>4
  <2>2. ~(n.ip.host < list[i].ip.host)
    BY <2>1 DEF Less
  <2>3. list[i].ip.host # n.ip.host
    OBVIOUS
  <2> QED
    BY <1>0, <1>1, <2>2, <2>3
<1>5. ASSUME NEW i \in 1 .. Len(list), ~(i < k)
      PROVE  n.ip.host < list[i].ip.host
  <2>1. k \in 1 .. Len(list)
    BY <1>1, <1>2, <1>5
  <2>2. Less(n.ip, list[k].ip)
    BY <1>1, <1>2, <2>1
  <2>3. n.ip.host < list[k].ip.host
    BY <2>1, <2>2 DEF Less
  <2>4. k = i \/ k < i
    BY <1>5, <2>1
  <2>5. k < i => list[k].ip.host < list[i].ip.host
    BY <2>1 DEF Ordered
  <2> QED
    BY <1>0, <1>1, <2>1, <2>3, <2>4, <2>5
<1>6. ASSUME NEW x \in 1 .. Len(q)
      PROVE  q[x].ip.net = s.net /\ q[x].ip.host \in s.host .. Octets - 2
  <2>1. CASE x = k
    BY <1>3, <2>1
  <2>2. CASE x # k
    <3>1. PICK i \in 1 .. Len(list) : x = After(k, i)
      BY <1>3, <2>2
    <3>2. q[x] = list[i]
      BY <1>3, <3>1
    <3> QED
      BY <3>2 DEF Ordered
  <2> QED
    BY <2>1, <2>2
<1>7. ASSUME NEW x \in 1 .. Len(q), NEW y \in 1 .. Len(q), x < y
      PROVE  q[x].ip.host < q[y].ip.host
  <2>1. CASE x = k
    <3>1. PICK j \in 1 .. Len(list) : y = After(k, j)
      BY <1>3, <1>7, <2>1
    <3>2. q[y] = list[j] /\ ~(j < k)
      BY <1>3, <1>7, <2>1, <3>1
    <3> QED
      BY <1>3, <1>5, <2>1, <3>2
  <2>2. CASE y = k
    <3>0. x \in 1 .. Len(q) /\ x # k
      BY <1>7, <2>2
    <3>1. PICK i \in 1 .. Len(list) : x = After(k, i)
      BY <1>3, <3>0
    <3>2. q[x] = list[i] /\ i < k
      BY <1>3, <1>7, <2>2, <3>1
    <3> QED
      BY <1>3, <1>4, <2>2, <3>2
  <2>3. CASE x # k /\ y # k
    <3>1. PICK i \in 1 .. Len(list) : x = After(k, i)
      BY <1>3, <2>3
    <3>2. PICK j \in 1 .. Len(list) : y = After(k, j)
      BY <1>3, <2>3
    <3>3. q[x] = list[i] /\ q[y] = list[j] /\ i < j
      BY <1>3, <1>7, <3>1, <3>2
    <3> QED
      BY <3>3 DEF Ordered
  <2> QED
    BY <2>1, <2>2, <2>3
<1>8. Ordered(q, s)
  BY <1>6, <1>7 DEF Ordered
<1> QED
  BY <1>8 DEF q

\* In an ordered list no address is there twice.
LEMMA OrderedNotShared ==
  ASSUME plist \in Seq(Node), Ordered(plist, lease.start)
  PROVE  NoSharedAddress
<1>0. DOMAIN plist = 1 .. Len(plist)
  OBVIOUS
<1> SUFFICES ASSUME NEW i \in 1 .. Len(plist), NEW j \in 1 .. Len(plist),
                    plist[i].ip = plist[j].ip, i # j
             PROVE  FALSE
  BY <1>0 DEF NoSharedAddress
<1>1. plist[i].ip.host \in Int
  BY OctetAssumption DEF Ordered
<1>2. i < j \/ j < i
  OBVIOUS
<1>3. plist[i].ip.host < plist[j].ip.host \/ plist[j].ip.host < plist[i].ip.host
  BY <1>2 DEF Ordered
<1> QED
  BY <1>1, <1>3

\* Node i of an ordered list is at least i - 1 addresses after the first.
LEMMA OrderedBound ==
  ASSUME NEW list \in Seq(Node), NEW s \in Addrs, Ordered(list, s), NEW i \in 1 .. Len(list)
  PROVE  s.host + i - 1 <= list[i].ip.host
<1> DEFINE T == {n \in Nat : n + 1 <= Len(list) => s.host + n <= list[n + 1].ip.host}
<1>0. Len(list) \in Nat /\ s.host \in Nat
  BY OctetAssumption DEF Addrs
<1>0a. \A x \in 1 .. Len(list) : list[x].ip.host \in Int /\ s.host <= list[x].ip.host
  BY OctetAssumption DEF Ordered
<1>1. 0 \in T
  <2> SUFFICES ASSUME 0 + 1 <= Len(list)
               PROVE  s.host + 0 <= list[0 + 1].ip.host
    OBVIOUS
  <2>1. 0 + 1 \in 1 .. Len(list)
    BY <1>0
  <2> QED
    BY <1>0, <1>0a, <2>1
<1>2. ASSUME NEW n \in Nat, n \in T
      PROVE  n + 1 \in T
  <2> SUFFICES ASSUME (n + 1) + 1 <= Len(list)
               PROVE  s.host + (n + 1) <= list[(n + 1) + 1].ip.host
    OBVIOUS
  <2>1. n + 1 \in 1 .. Len(list) /\ (n + 1) + 1 \in 1 .. Len(list) /\ n + 1 < (n + 1) + 1
    BY <1>0
  <2>2. s.host + n <= list[n + 1].ip.host
    BY <1>0, <1>2
  <2>3. list[n + 1].ip.host < list[(n + 1) + 1].ip.host
    BY <2>1 DEF Ordered
  <2> QED
    BY <1>0, <1>0a, <2>1, <2>2, <2>3
<1> HIDE DEF T
<1>3. \A n \in Nat : n \in T
  BY <1>1, <1>2, NumberInduction
<1>4. i - 1 \in Nat /\ i - 1 + 1 = i
  BY <1>0
<1>5. i - 1 \in T
  BY <1>3, <1>4
<1>6. s.host + (i - 1) <= list[i - 1 + 1].ip.host
  BY <1>0, <1>4, <1>5 DEF T
<1> QED
  BY <1>0, <1>4, <1>6

-----------------------------------------------------------------------------
(* No address is leased twice. *)

\* The range of a running server is in one segment and ends before its end.
LEMMA RangeEndsInside ==
  ASSUME TableInv, status = "started"
  PROVE  /\ lease.start \in Addrs /\ lease.end \in Addrs
         /\ lease.end.net = lease.start.net /\ lease.end.host < Octets - 1
<1>1. ap \in ApIps /\ lease.start \in Addrs /\ lease.end \in Addrs
  BY DEF TableInv, LeaseInv, TypeOK
<1>2. CASE lease.enable /\ RangeOK(lease, ap)
  BY <1>1, <1>2 DEF TableInv, Table, RangeOK
<1>3. CASE lease = DefaultRange(ap)
  <2>1. RangeOK(lease, ap) /\ lease.end.host < Octets - 1
    BY <1>1, <1>3, DefaultRangeOK
  <2> QED
    BY <1>1, <2>1 DEF RangeOK
<1> QED
  BY <1>2, <1>3 DEF TableInv, LeaseInv, RangeKept

\* The address a search finds, unless the range is exhausted, is in the
\* segment, before its end, and no other station's.
LEMMA FreeAddress ==
  ASSUME TableInv, status = "started", NEW m \in Macs, ~Exhausted(m)
  PROVE  /\ NextFree(m).net = lease.start.net
         /\ NextFree(m).host \in lease.start.host .. Octets - 2
         /\ \A i \in 1 .. Len(plist) : plist[i].mac # m => plist[i].ip.host # NextFree(m).host
<1> DEFINE s == lease.start
           x == NextFree(m)
           L == Len(plist)
           host(i) == plist[i].ip.host
<1>0. /\ plist \in Seq(Node) /\ L \in Nat /\ DOMAIN plist = 1 .. L
      /\ s \in Addrs /\ s.host \in 0 .. Octets - 1 /\ Octets \in Nat
  BY OctetAssumption DEF TableInv, LeaseInv, TypeOK, Addrs
<1>1. lease.end \in Addrs /\ lease.end.net = s.net /\ lease.end.host < Octets - 1
      /\ lease.end.host \in Int
  BY RangeEndsInside, OctetAssumption DEF Addrs
<1>2. Ordered(plist, s)
  BY DEF TableInv, Table
<1>3. \A i \in 1 .. L : /\ plist[i].ip.net = s.net /\ host(i) \in s.host .. Octets - 2
                        /\ s.host + i - 1 <= host(i)
                        /\ plist[i].ip \in Addrs
  <2> TAKE i \in 1 .. L
  <2>1. plist[i] \in Node
    BY <1>0
  <2>2. plist[i].ip \in Addrs
    BY <2>1, NodeFields
  <2>3. s.host + i - 1 <= host(i)
    BY <1>0, <1>2, OrderedBound
  <2> QED
    BY <1>2, <2>2, <2>3 DEF Ordered
<1>4. \A i, j \in 1 .. L : i < j => host(i) < host(j)
  BY <1>2 DEF Ordered
<1>5. ASSUME NEW i \in 1 .. L, plist[i].ip = Plus(s, i - 1)
      PROVE  host(i) = s.host + i - 1
  <2>1. i - 1 \in Nat /\ s.host + (i - 1) < Octets
    BY <1>0, <1>3
  <2>2. Plus(s, i - 1).host = s.host + (i - 1)
    BY <1>0, <2>1, PlusInside
  <2> QED
    BY <1>0, <1>5, <2>2
<1>6. \A i \in 1 .. L : i \notin Stops(m) => plist[i].ip = Plus(s, i - 1) /\ plist[i].mac # m
  BY <1>0 DEF Stops
<1>7. Stops(m) \subseteq 1 .. L
  BY <1>0 DEF Stops
<1>8. CASE Stops(m) = {}
  <2>1. x = Plus(s, L)
    BY <1>8 DEF NextFree
  <2>2. \A i \in 1 .. L : host(i) = s.host + i - 1
    BY <1>5, <1>6, <1>8
  <2>3. s.host + L < Octets
    <3>1. CASE L = 0
      BY <1>0, <3>1
    <3>2. CASE L # 0
      <4>1. L \in 1 .. L
        BY <1>0, <3>2
      <4> QED
        BY <1>0, <1>3, <4>1
    <3> QED
      BY <3>1, <3>2
  <2>4. x.host = s.host + L /\ x.net = s.net
    BY <1>0, <2>1, <2>3, PlusInside
  <2>5. ~Less(lease.end, x)
    BY <1>8 DEF Exhausted
  <2>6. ~(lease.end.host < x.host)
    BY <2>5 DEF Less
  <2>7. x.host \in s.host .. Octets - 2
    BY <1>0, <1>1, <2>4, <2>6
  <2>8. \A i \in 1 .. L : host(i) # x.host
    BY <1>0, <2>2, <2>4
  <2> QED
    BY <2>4, <2>7, <2>8
<1>9. CASE Stops(m) # {}
  <2> DEFINE k == Min(Stops(m))
  <2>1. k \in Stops(m) /\ \A i \in Stops(m) : k <= i
    BY <1>0, <1>7, <1>9, FirstPosition
  <2>2. x = Plus(s, k - 1)
    BY <1>9 DEF NextFree
  <2> HIDE DEF k
  <2>3. k \in 1 .. L /\ k - 1 \in Nat
    BY <1>0, <1>7, <2>1
  <2>4. s.host + (k - 1) <= host(k) /\ host(k) \in s.host .. Octets - 2
    BY <1>0, <1>3, <2>3
  <2>5. s.host + (k - 1) < Octets
    BY <1>0, <2>3, <2>4
  <2>6. x.host = s.host + (k - 1) /\ x.net = s.net
    BY <1>0, <2>2, <2>3, <2>5, PlusInside
  <2>7. x.host \in s.host .. Octets - 2
    BY <1>0, <2>3, <2>4, <2>6
  <2>8. ASSUME NEW i \in 1 .. L, plist[i].mac # m
        PROVE  host(i) # x.host
    <3>1. CASE i < k
      <4>1. i \notin Stops(m)
        BY <1>0, <2>1, <2>3, <3>1
      <4>2. host(i) = s.host + i - 1
        BY <1>5, <1>6, <4>1
      <4> QED
        BY <1>0, <2>3, <2>6, <3>1, <4>2
    <3>2. CASE i = k
      <4>1. plist[k].ip # Plus(s, k - 1)
        BY <1>0, <2>1, <2>8, <3>2 DEF Stops
      <4>2. plist[k].ip \in Addrs /\ x \in Addrs
        BY <1>0, <1>3, <2>2, <2>3, PlusType
      <4>3. plist[k].ip.net = x.net /\ plist[k].ip # x
        BY <1>3, <2>2, <2>3, <2>6, <4>1
      <4>4. plist[k].ip.host # x.host
        BY <4>2, <4>3 DEF Addrs
      <4> QED
        BY <3>2, <4>4
    <3>3. CASE k < i
      <4>1. host(k) < host(i) /\ host(i) \in Int
        BY <1>0, <1>3, <1>4, <2>3, <3>3
      <4> QED
        BY <1>0, <2>3, <2>4, <2>6, <4>1
    <3> QED
      BY <2>3, <3>1, <3>2, <3>3
  <2> QED
    BY <2>6, <2>7, <2>8
<1> QED
  BY <1>8, <1>9

\* A claim of the range: in its segment, from start_ip on, before the end.
InRange(a) ==
    /\ a \in Addrs /\ a.net = lease.start.net
    /\ a.host \in lease.start.host .. Octets - 2

\* Each way of granting an address keeps the order.
LEMMA GrantedOrdered ==
  ASSUME TableInv, status = "started", NEW m \in Macs, NEW a \in Addrs,
         a \in {ANY, BROADCAST} \/ InRange(a), NEW u, Granted(m, a, u)
  PROVE  Ordered(u.plist, lease.start)
<1> DEFINE pmac == PmacNode(m, a)
           pip == PipNode(a)
           s == lease.start
           ip == GrantedIp(m, a)
           mine == Mine(m, a, MyType(a))
           own == Mine(m, a, "DYNAMIC")
<1>0. /\ plist \in Seq(Node) /\ Len(plist) \in Nat /\ TypeOK /\ OneLeasePerStation
      /\ s \in Addrs /\ Ordered(plist, s)
  BY DEF TableInv, Table, LeaseInv, TypeOK
<1>1. mine.ip = ip /\ own.ip = ip /\ mine \in Node /\ own \in Node
  <2>1. MyType(a) \in {"DYNAMIC", "STATIC"}
    BY DEF MyType
  <2>2. mine \in Node /\ own \in Node
    BY <1>0, <2>1, MineType
  <2> QED
    BY <2>2 DEF Mine
<1>2. /\ pmac \in 0 .. Len(plist)
      /\ \A i \in 1 .. Len(plist) : plist[i].mac = m => i = pmac
      /\ pmac # 0 => plist[pmac].mac = m
  BY <1>0, PmacFacts
<1>3. /\ pip \in 0 .. Len(plist)
      /\ pip # 0 => plist[pip].ip = a /\ a # ANY
      /\ pip = 0 /\ a # ANY => \A i \in 1 .. Len(plist) : plist[i].ip # a
  BY <1>0, PipFacts
<1>4. a # ANY => ip = a
  BY DEF GrantedIp
\* The address granted is one that no other station has, if it is not on the list.
<1>5. ASSUME pip = 0
      PROVE  /\ ip.net = s.net /\ ip.host \in s.host .. Octets - 2
             /\ \A i \in 1 .. Len(plist) : i # pmac => plist[i].ip.host # ip.host
  <2>1. CASE a = ANY
    <3>1. ip = NextFree(m) /\ ~Exhausted(m)
      BY <2>1 DEF GrantedIp, Granted
    <3>2. /\ NextFree(m).net = s.net /\ NextFree(m).host \in s.host .. Octets - 2
          /\ \A i \in 1 .. Len(plist) : plist[i].mac # m => plist[i].ip.host # NextFree(m).host
      BY <3>1, FreeAddress
    <3>3. \A i \in 1 .. Len(plist) : i # pmac => plist[i].mac # m
      BY <1>2
    <3> HIDE DEF ip, pmac
    <3> QED
      BY <3>1, <3>2, <3>3
  <2>2. CASE a # ANY
    <3>1. InRange(a)
      BY <2>2 DEF Granted
    <3>2. ASSUME NEW i \in 1 .. Len(plist)
          PROVE  plist[i].ip.host # a.host
      <4>1. plist[i] \in Node
        BY <1>0
      <4>2. plist[i].ip \in Addrs /\ plist[i].ip.net = s.net /\ plist[i].ip # a
        BY <1>0, <1>3, <1>5, <2>2, <4>1, NodeFields DEF Ordered
      <4> QED
        BY <3>1, <4>2 DEF InRange, Addrs
    <3> QED
      BY <1>4, <2>2, <3>1, <3>2 DEF InRange
  <2> QED
    BY <2>1, <2>2
<1> HIDE DEF pmac, pip, ip, mine, own, s
<1>6. CASE RenewsOwn(m, a, u)
  <2>1. pip \in 1 .. Len(plist) /\ plist[pip].ip = ip /\ u.plist = [plist EXCEPT ![pip] = own]
    BY <1>3, <1>4, <1>6 DEF RenewsOwn, pip, own
  <2>2. /\ u.plist \in Seq(Node) /\ Len(u.plist) = Len(plist)
        /\ \A i \in 1 .. Len(plist) : u.plist[i].ip = plist[i].ip
    BY <1>0, <1>1, <2>1, ReplaceType
  <2>3. Ordered(u.plist, s)
    BY <1>0, <2>2, OrderedMapped
  <2> QED
    BY <2>3 DEF s
<1>7. CASE TakesOver(m, a, u)
  <2> DEFINE r == [plist EXCEPT ![pip] = mine]
  <2>1. pip \in 1 .. Len(plist) /\ plist[pip].ip = ip /\ u.plist = node_remove_from_list(r, pmac)
    BY <1>3, <1>4, <1>7 DEF TakesOver, pip, pmac, mine
  <2>2. /\ r \in Seq(Node) /\ Len(r) = Len(plist)
        /\ \A i \in 1 .. Len(plist) : r[i].ip = plist[i].ip
    BY <1>0, <1>1, <2>1, ReplaceType
  <2> HIDE DEF r
  <2>3. Ordered(r, s)
    BY <1>0, <2>2, OrderedMapped
  <2>4. u.plist \in Seq(Node) /\ (pmac = 0 => u.plist = r) /\ (pmac # 0 => Deleted(r, u.plist, pmac))
    BY <1>2, <2>1, <2>2, RemoveCases
  <2>5. Ordered(u.plist, s)
    BY <2>2, <2>3, <2>4, OrderedDeleted
  <2> QED
    BY <2>5 DEF s
<1>8. CASE Moves(m, a, u)
  <2> DEFINE r == node_remove_from_list(plist, pmac)
  <2>1. pip = 0 /\ pmac \in 1 .. Len(plist) /\ u.plist = node_insert_to_list(r, mine)
    BY <1>2, <1>8 DEF Moves, pip, pmac, mine
  <2>2. r \in Seq(Node) /\ Deleted(plist, r, pmac)
    BY <1>0, <2>1, RemoveCases
  <2> HIDE DEF r
  <2>3. Ordered(r, s) /\ Shrinks(plist, r, pmac)
    BY <1>0, <2>2, OrderedDeleted, DeletedElements
  <2>4. \A i \in 1 .. Len(r) : r[i].ip.host # mine.ip.host
    BY <1>1, <1>5, <2>1, <2>3 DEF Shrinks
  <2>5. mine.ip.net = s.net /\ mine.ip.host \in s.host .. Octets - 2
    BY <1>1, <1>5, <2>1
  <2>6. Ordered(u.plist, s)
    BY <1>0, <1>1, <2>1, <2>2, <2>3, <2>4, <2>5, OrderedInserted
  <2> QED
    BY <2>6 DEF s
<1>9. CASE Enters(m, a, u)
  <2>1. pip = 0 /\ pmac = 0 /\ u.plist = node_insert_to_list(plist, mine)
    BY <1>9 DEF Enters, pip, pmac, mine
  <2>2. \A i \in 1 .. Len(plist) : plist[i].ip.host # mine.ip.host
    BY <1>0, <1>1, <1>5, <2>1
  <2>3. mine.ip.net = s.net /\ mine.ip.host \in s.host .. Octets - 2
    BY <1>1, <1>5, <2>1
  <2>4. Ordered(u.plist, s)
    BY <1>0, <1>1, <2>1, <2>2, <2>3, OrderedInserted
  <2> QED
    BY <2>4 DEF s
<1> QED
  BY <1>6, <1>7, <1>8, <1>9 DEF Granted

\* client_update, with a claim of the range or none.
LEMMA UpdateOrdered ==
  ASSUME TableInv, status = "started", NEW m \in Macs, NEW a \in Addrs,
         a \in {ANY, BROADCAST} \/ InRange(a)
  PROVE  Ordered(wifi_softap_dhcps_client_update(m, a).plist, lease.start)
<1> DEFINE u == wifi_softap_dhcps_client_update(m, a)
<1>1. Refused(u) \/ Granted(m, a, u)
  BY UpdateCases
<1> HIDE DEF u
<1>2. CASE Refused(u)
  BY <1>2 DEF Refused, TableInv, Table, u
<1>3. CASE Granted(m, a, u)
  BY <1>3, GrantedOrdered DEF u
<1> QED
  BY <1>1, <1>2, <1>3

\* The departure of a station.
LEMMA LeaveOrdered ==
  ASSUME NEW list \in Seq(Node), NEW s, Ordered(list, s), NEW m, NEW a, NEW force
  PROVE  LET r == wifi_softap_dhcps_client_leave(list, m, a, force)
         IN  Ordered(r, s) /\ (list = <<>> => r = <<>>)
<1> DEFINE r == wifi_softap_dhcps_client_leave(list, m, a, force)
           k == LeavingNode(list, m, a)
<1>1. /\ r \in Seq(Node)
      /\ \/ r = list
         \/ list[k].mac = m /\ Deleted(list, r, k)
         \/ /\ k \in 1 .. Len(list) /\ list[k].mac = m /\ Len(r) = Len(list)
            /\ r[k] = [list[k] EXCEPT !.state = "OFFLINE"]
            /\ \A i \in 1 .. Len(list) : i # k => r[i] = list[i]
  BY LeaveCases
<1> HIDE DEF r, k
<1>2. CASE r = list
  BY <1>2 DEF r
<1>3. CASE Deleted(list, r, k)
  <2>1. Ordered(r, s)
    BY <1>1, <1>3, OrderedDeleted
  <2>2. list # <<>>
    BY <1>3 DEF Deleted
  <2> QED
    BY <2>1, <2>2 DEF r
<1>4. CASE /\ k \in 1 .. Len(list) /\ Len(r) = Len(list)
           /\ r[k] = [list[k] EXCEPT !.state = "OFFLINE"]
           /\ \A i \in 1 .. Len(list) : i # k => r[i] = list[i]
  <2>1. list[k] \in Node
    BY <1>4
  <2>2. r[k].ip = list[k].ip
    BY <1>4, <2>1 DEF Node
  <2>3. \A i \in 1 .. Len(list) : r[i].ip = list[i].ip
    BY <1>4, <2>2
  <2>4. Ordered(r, s)
    BY <1>1, <1>4, <2>3, OrderedMapped
  <2>5. list # <<>>
    BY <1>4
  <2> QED
    BY <2>4, <2>5 DEF r
<1> QED
  BY <1>1, <1>2, <1>3, <1>4

\* The timer.
LEMMA TimerOrdered ==
  ASSUME plist \in Seq(Node), NEW s, Ordered(plist, s), dhcps_coarse_tmr
  PROVE  Ordered(plist', s) /\ (plist = <<>> => plist' = <<>>)
<1> DEFINE kept == Tick(plist)
<1>1. kept \in Seq(Node) /\ PickedNodes(plist, kept)
  BY TickPicks
<1>2. plist' = IF Len(kept) >= MaxStation THEN kill_oldest_dhcps_pool(kept) ELSE kept
  BY DEF dhcps_coarse_tmr
<1> HIDE DEF kept
<1>3. Ordered(kept, s)
  BY <1>1, OrderedPicked
<1>4. plist = <<>> => kept = <<>> /\ ~(Len(kept) >= MaxStation)
  <2> SUFFICES ASSUME plist = <<>>
               PROVE  kept = <<>> /\ ~(Len(kept) >= MaxStation)
    OBVIOUS
  <2>1. PICK f \in [1 .. Len(kept) -> 1 .. Len(plist)] : TRUE
    BY <1>1 DEF PickedNodes
  <2>2. Len(plist) = 0 /\ Len(kept) \in Nat
    BY <1>1
  <2>3. CASE Len(kept) = 0
    BY <1>1, <2>3, MaxStationAssumption
  <2>4. CASE Len(kept) # 0
    <3>1. 1 \in 1 .. Len(kept)
      BY <2>2, <2>4
    <3>2. f[1] \in 1 .. 0
      BY <2>1, <2>2, <3>1
    <3> QED
      BY <3>2
  <2> QED
    BY <2>3, <2>4
<1>5. CASE Len(kept) >= MaxStation
  <2>1. Len(kept) >= 2
    BY <1>1, <1>5, MaxStationAssumption
  <2>2. plist' = kill_oldest_dhcps_pool(kept)
    BY <1>2, <1>5
  <2>3. /\ plist' \in Seq(Node)
        /\ \E p \in Seq(Node), k \in 1 .. Len(kept) :
             /\ Len(p) = Len(kept)
             /\ \A i \in 1 .. Len(kept) : p[i].mac = kept[i].mac /\ p[i].ip = kept[i].ip
             /\ Deleted(p, plist', k)
    BY <1>1, <2>1, <2>2, KillCases
  <2>4. PICK p \in Seq(Node), k \in 1 .. Len(kept) :
             /\ Len(p) = Len(kept)
             /\ \A i \in 1 .. Len(kept) : p[i].mac = kept[i].mac /\ p[i].ip = kept[i].ip
             /\ Deleted(p, plist', k)
    BY <2>3
  <2>5. Ordered(p, s)
    BY <1>1, <1>3, <2>4, OrderedMapped
  <2>6. Ordered(plist', s)
    BY <2>3, <2>4, <2>5, OrderedDeleted
  <2> QED
    BY <1>4, <1>5, <2>6
<1>6. CASE ~(Len(kept) >= MaxStation)
  BY <1>2, <1>3, <1>4, <1>6
<1> QED
  BY <1>5, <1>6

\* The addresses on the list of a running server follow each other.
NoGap == status = "started" /\ \A i \in DOMAIN plist : plist[i].ip = Plus(lease.start, i - 1)

\* A reservation takes the address after the last one of a list without gaps.
LEMMA ReserveOrdered ==
  ASSUME TableInv, NoGap, NEW m \in Macs, wifi_softap_add_dhcps_lease(m)
  PROVE  Ordered(plist', lease.start)
<1> DEFINE s == lease.start
           L == Len(plist)
           x == Plus(s, L)
           n == [mac |-> m, ip |-> x, timer |-> ltime, type |-> "STATIC", state |-> "ONLINE"]
<1>0. /\ plist \in Seq(Node) /\ L \in Nat /\ DOMAIN plist = 1 .. L /\ LeaseInv
      /\ s \in Addrs /\ s.host \in 0 .. Octets - 1 /\ Octets \in Nat /\ Ordered(plist, s)
  BY OctetAssumption DEF TableInv, Table, LeaseInv, TypeOK, Addrs
<1>1. /\ status = "started" /\ ~Less(lease.end, x)
      /\ \A i \in 1 .. L : plist[i].ip = Plus(s, i - 1)
  BY <1>0 DEF wifi_softap_add_dhcps_lease, NoGap
<1>2. lease.end \in Addrs /\ lease.end.host < Octets - 1 /\ lease.end.host \in Int
  BY <1>1, RangeEndsInside, OctetAssumption DEF Addrs
<1>3. ASSUME NEW i \in 1 .. L
      PROVE  plist[i].ip.host = s.host + i - 1 /\ s.host + i - 1 <= Octets - 2
  <2>1. s.host + i - 1 <= plist[i].ip.host /\ plist[i].ip.host \in s.host .. Octets - 2
    BY <1>0, OrderedBound DEF Ordered
  <2>2. i - 1 \in Nat /\ s.host + (i - 1) < Octets
    BY <1>0, <2>1
  <2>3. plist[i].ip.host = s.host + (i - 1)
    BY <1>0, <1>1, <2>2, PlusInside
  <2> QED
    BY <1>0, <2>1, <2>3
<1>4. s.host + L < Octets
  <2>1. CASE L = 0
    BY <1>0, <2>1
  <2>2. CASE L # 0
    <3>1. L \in 1 .. L
      BY <1>0, <2>2
    <3>2. s.host + L - 1 <= Octets - 2
      BY <1>3, <3>1
    <3>3. s.host \in Nat /\ L \in Nat /\ Octets \in Nat
      BY <1>0
    <3> HIDE DEF s, L
    <3> QED
      BY <3>2, <3>3
  <2> QED
    BY <2>1, <2>2
<1>5. x.host = s.host + L /\ x.net = s.net
  BY <1>0, <1>4, PlusInside
<1>6. ~(lease.end.host < x.host)
  BY <1>1 DEF Less
<1>7. n \in Node /\ n.ip = x /\ plist' = node_insert_to_list(plist, n)
  <2>1. n \in Node /\ plist' = node_insert_to_list(plist, n)
    BY <1>0, ReserveCases
  <2> QED
    BY <2>1
<1> HIDE DEF n, x
<1>8. n.ip.net = s.net /\ n.ip.host \in s.host .. Octets - 2
  BY <1>0, <1>2, <1>5, <1>6, <1>7
<1>9. \A i \in 1 .. L : plist[i].ip.host # n.ip.host
  BY <1>0, <1>3, <1>5, <1>7
<1>10. Ordered(plist', s)
  BY <1>0, <1>7, <1>8, <1>9, OrderedInserted
<1> QED
  BY <1>10

\* What the code accepts and the table does not survive.  A station claims, or the
\* blobs report, an address outside the segment, below start_ip, or the last one.
StrayClaim ==
    \E m \in Macs, a \in Claims :
        /\ ~InRange(a)
        /\ \/ client_update(m, a)
           \/ \E type \in MsgTypes, req \in Requests \union {Absent} : handle_dhcp(m, type, a, req)

\* The application reserves a lease on a stopped server or in a list with gaps.
GapReserve == ~NoGap /\ \E m \in Macs : wifi_softap_add_dhcps_lease(m)

\* The application configures a range that ends with the segment: the search for a
\* free address leaves the segment and comes back before the first node.
LastAddressRange ==
    \E r \in Ranges : /\ r.enable /\ r.end.host = Octets - 1
                      /\ wifi_softap_set_dhcps_lease(r)

\* A message or a report keeps the table in order.
LEMMA StationStep ==
  ASSUME TableInv, LeaseInv', status = "started", Ordered(plist', lease.start), UNCHANGED cfgvars
  PROVE  TableInv'
BY DEF TableInv, Table, cfgvars

LEMMA TableInvInit == Init => TableInv
<1>1. Init => Table
  BY DEF Init, Table, Ordered
<1> QED
  BY <1>1, LeaseInvInit DEF TableInv

LEMMA TableInvStep ==
  ASSUME TableInv, [Next]_vars, ~StrayClaim, ~GapReserve, ~LastAddressRange
  PROVE  TableInv'
<1>0. /\ LeaseInv' /\ LeaseInv /\ Ordered(plist, lease.start) /\ plist \in Seq(Node)
      /\ lease \in [enable : BOOLEAN, start : Addrs, end : Addrs] /\ ap \in ApIps
  BY LeaseInvStep DEF TableInv, Table, LeaseInv, TypeOK
<1>1. ASSUME NEW m \in Macs, NEW type, NEW a, NEW req, handle_dhcp(m, type, a, req),
             a \in {ANY, BROADCAST} \/ (a \in Claims /\ InRange(a))
      PROVE  TableInv'
  <2> DEFINE u == wifi_softap_dhcps_client_update(m, a)
  <2>1. a \in Addrs /\ (a \in {ANY, BROADCAST} \/ InRange(a))
    BY <1>1, AddrAssumption, SpecialAddresses
  <2>2. /\ status = "started" /\ UNCHANGED cfgvars
        /\ \/ plist' = u.plist
           \/ plist' = wifi_softap_dhcps_client_leave(u.plist, m, a, TRUE)
    BY <1>1 DEF handle_dhcp
  <2>3. u.plist \in Seq(Node) /\ Ordered(u.plist, lease.start)
    BY <1>0, <2>1, <2>2, UpdateKeepsDistinct, UpdateOrdered
  <2> HIDE DEF u
  <2>4. Ordered(plist', lease.start)
    BY <2>2, <2>3, LeaveOrdered
  <2> QED
    BY <1>0, <2>2, <2>4, StationStep
<1>2. ASSUME NEW m \in Macs, Message(m)
      PROVE  TableInv'
  <2>1. PICK type \in MsgTypes, req \in Requests \union {Absent} :
          \/ handle_dhcp(m, type, ANY, req)
          \/ handle_dhcp(m, type, BROADCAST, req)
          \/ \E a \in Claims : MayClaim(a) /\ handle_dhcp(m, type, a, req)
    BY <1>2 DEF Message
  <2>2. \E a : /\ handle_dhcp(m, type, a, req)
               /\ a \in {ANY, BROADCAST} \/ (a \in Claims /\ InRange(a))
    BY <2>1 DEF StrayClaim
  <2> QED
    BY <1>1, <2>2
<1>3. ASSUME NEW m \in Macs, NEW a \in Claims, client_update(m, a)
      PROVE  TableInv'
  <2>1. /\ status = "started" /\ UNCHANGED cfgvars
        /\ plist' = wifi_softap_dhcps_client_update(m, a).plist
    BY <1>3 DEF client_update
  <2>2. a \in Addrs /\ InRange(a)
    BY <1>3, AddrAssumption DEF StrayClaim
  <2>3. Ordered(plist', lease.start)
    BY <2>1, <2>2, UpdateOrdered
  <2> QED
    BY <1>0, <2>1, <2>3, StationStep
\* Steps that also happen on a stopped server, which has no leases.
<1>4. ASSUME Ordered(plist', lease.start), plist = <<>> => plist' = <<>>, UNCHANGED cfgvars
      PROVE  TableInv'
  BY <1>0, <1>4 DEF TableInv, Table, cfgvars
<1>5. ASSUME NEW m \in Macs, NEW a, client_leave(m, a)
      PROVE  TableInv'
  <2>1. plist' = wifi_softap_dhcps_client_leave(plist, m, a, FALSE) /\ UNCHANGED cfgvars
    BY <1>5 DEF client_leave
  <2>2. Ordered(plist', lease.start) /\ (plist = <<>> => plist' = <<>>)
    BY <1>0, <2>1, LeaveOrdered
  <2> QED
    BY <1>4, <2>1, <2>2
<1>6. ASSUME dhcps_coarse_tmr
      PROVE  TableInv'
  <2>1. UNCHANGED cfgvars
    BY <1>6 DEF dhcps_coarse_tmr
  <2>2. Ordered(plist', lease.start) /\ (plist = <<>> => plist' = <<>>)
    BY <1>0, <1>6, TimerOrdered
  <2> QED
    BY <1>4, <2>1, <2>2
\* Steps that change the range or stop the server.
<1>7. ASSUME plist' = <<>>, lease'.enable => lease'.end.host < Octets - 1
      PROVE  TableInv'
  <2>1. Ordered(plist', lease'.start)
    BY <1>7 DEF Ordered
  <2> QED
    BY <1>0, <1>7, <2>1 DEF TableInv, Table
<1>8. ASSUME NEW a \in ApIps, set_ap_ip(a)
      PROVE  TableInv'
  BY <1>0, <1>8 DEF set_ap_ip, TableInv, Table
<1>9. ASSUME dhcps_start
      PROVE  TableInv'
  <2>0. lease' = wifi_softap_init_dhcps_lease(ap) /\ plist' = plist /\ status' = "started"
    BY <1>9 DEF dhcps_start
  <2>1. \/ lease' = lease /\ lease.enable /\ RangeOK(lease, ap)
        \/ lease' = DefaultRange(ap) /\ ~(lease.enable /\ RangeOK(lease, ap))
    BY <2>0 DEF wifi_softap_init_dhcps_lease
  <2>2. lease'.enable => lease'.end.host < Octets - 1
    BY <1>0, <2>1, DefaultRangeOK DEF TableInv, Table
  <2>3. CASE status = "stopped"
    BY <1>7, <2>0, <2>2, <2>3 DEF TableInv, Table
  <2>4. CASE status # "stopped"
    <3>1. status = "started"
      BY <1>0, <2>4 DEF LeaseInv, TypeOK
    <3>2. lease' = lease
      BY <1>0, <2>1, <3>1 DEF LeaseInv, RangeKept
    <3> QED
      BY <1>0, <2>0, <3>2 DEF TableInv, Table
  <2> QED
    BY <2>3, <2>4
<1>10. ASSUME dhcps_stop
       PROVE  TableInv'
  <2>1. plist' = <<>> /\ lease' = lease
    BY <1>10 DEF dhcps_stop
  <2> QED
    BY <1>7, <2>1 DEF TableInv, Table
<1>11. ASSUME NEW r \in Ranges, wifi_softap_set_dhcps_lease(r)
       PROVE  TableInv'
  <2>1. /\ status = "stopped" /\ plist' = plist
        /\ lease' = IF r.enable THEN r ELSE [lease EXCEPT !.enable = FALSE]
    BY <1>11 DEF wifi_softap_set_dhcps_lease
  <2>2. plist' = <<>>
    BY <2>1 DEF TableInv, Table
  <2>3. lease'.enable => lease'.end.host < Octets - 1
    <3>1. CASE r.enable
      <4>1. r.end \in Addrs /\ r.end.host # Octets - 1
        BY <1>11, <3>1, AddrAssumption DEF LastAddressRange
      <4>2. r.end.host < Octets - 1
        BY <4>1, OctetAssumption DEF Addrs
      <4> QED
        BY <2>1, <3>1, <4>2
    <3>2. CASE ~r.enable
      <4>1. lease'.enable = FALSE
        BY <1>0, <2>1, <3>2
      <4> QED
        BY <4>1
    <3> QED
      BY <3>1, <3>2
  <2> QED
    BY <1>7, <2>2, <2>3
<1>12. ASSUME NEW t \in LeaseTimes, wifi_softap_set_dhcps_lease_time(t)
       PROVE  TableInv'
  BY <1>0, <1>12 DEF wifi_softap_set_dhcps_lease_time, TableInv, Table
<1>13. ASSUME NEW m \in Macs, wifi_softap_add_dhcps_lease(m)
       PROVE  TableInv'
  <2>1. UNCHANGED cfgvars
    BY <1>13 DEF wifi_softap_add_dhcps_lease
  <2>2. status = "started" /\ NoGap
    BY <1>13 DEF GapReserve, NoGap
  <2>3. Ordered(plist', lease.start)
    BY <1>13, <2>2, ReserveOrdered
  <2> QED
    BY <1>0, <2>1, <2>2, <2>3, StationStep
<1>14. CASE UNCHANGED vars
  BY <1>0, <1>14 DEF vars, TableInv, Table
<1> QED
  BY <1>2, <1>3, <1>5, <1>6, <1>8, <1>9, <1>10, <1>11, <1>12, <1>13, <1>14 DEF Next

\* No address is leased to two stations as long as the table is in order, and
\* only three things the code accepts put it out of order: an address outside the
\* range that a station claims, a lease reserved in a list with gaps, and a range
\* up to the last address of the segment.  Messages, reports, departures, expiry,
\* reservations and restarts otherwise keep it, in any order.
THEOREM NoSharedAddressUnlessStray ==
  /\ Init => TableInv
  /\ TableInv => NoSharedAddress
  /\ Spec => [][TableInv /\ ~TableInv' => StrayClaim \/ GapReserve \/ LastAddressRange]_vars
<1>1. [Next]_vars =>
        [TableInv /\ ~TableInv' => StrayClaim \/ GapReserve \/ LastAddressRange]_vars
  BY TableInvStep
<1>2. TableInv => NoSharedAddress
  BY OrderedNotShared DEF TableInv, Table, LeaseInv, TypeOK
<1> QED
  BY <1>1, <1>2, TableInvInit, PTL DEF Spec

-----------------------------------------------------------------------------
(* NAPT: lists of entries, and their links. *)

Members(A) == {A[j] : j \in 1 .. Len(A)}
NoRepeats(A) == \A i, j \in 1 .. Len(A) : A[i] = A[j] => i = j

\* The entry at a position, NO_IDX outside the list.
At(A, j) == IF j \in 1 .. Len(A) THEN A[j] ELSE NO_IDX

\* B is A with i in front.
Pushed(A, B, i) ==
    /\ Len(B) = Len(A) + 1
    /\ B[1] = i
    /\ \A j \in 1 .. Len(A) : B[j + 1] = A[j]

\* The links of the entries in A lead along A, in one direction or in both.
Chain(nx, A) == \A j \in 1 .. Len(A) : nx[A[j]] = At(A, j + 1)
Doubly(nx, pv, A) == Chain(nx, A) /\ \A j \in 1 .. Len(A) : pv[A[j]] = At(A, j - 1)

Links == [Idx -> Link]

LEMMA AtFacts ==
  ASSUME NEW A \in Seq(Idx)
  PROVE  /\ Len(A) \in Nat
         /\ NO_IDX \notin Idx
         /\ \A j \in 1 .. Len(A) : At(A, j) = A[j] /\ A[j] \in Idx /\ A[j] # NO_IDX
         /\ \A j \in Int : j \notin 1 .. Len(A) => At(A, j) = NO_IDX
<1>1. Len(A) \in Nat /\ \A j \in 1 .. Len(A) : A[j] \in Idx
  OBVIOUS
<1>2. NO_IDX \notin Idx
  BY NaptAssumption DEF NO_IDX, Idx
<1> QED
  BY <1>1, <1>2 DEF At

\* Positions after an entry was taken out, and after one was put in front.
LEMMA AtDeleted ==
  ASSUME NEW A \in Seq(Idx), NEW B \in Seq(Idx), NEW k \in Int, Deleted(A, B, k)
  PROVE  /\ \A j \in Int : j < k => At(B, j) = At(A, j)
         /\ \A j \in Int : j >= k => At(B, j) = At(A, j + 1)
<1>1. Len(A) \in Nat /\ k \in 1 .. Len(A) /\ Len(B) = Len(A) - 1
  BY DEF Deleted
<1>2. ASSUME NEW j \in Int, j < k
      PROVE  At(B, j) = At(A, j)
  <2>1. CASE j \in 1 .. Len(A)
    <3>1. j \in 1 .. k - 1 /\ j \in 1 .. Len(B)
      BY <1>1, <1>2, <2>1
    <3> QED
      BY <2>1, <3>1 DEF At, Deleted
  <2>2. CASE j \notin 1 .. Len(A)
    <3>1. j \notin 1 .. Len(B)
      BY <1>1, <2>2
    <3> QED
      BY <2>2, <3>1 DEF At
  <2> QED
    BY <2>1, <2>2
<1>3. ASSUME NEW j \in Int, j >= k
      PROVE  At(B, j) = At(A, j + 1)
  <2>1. CASE j + 1 \in 1 .. Len(A)
    <3>1. j \in k .. Len(A) - 1 /\ j \in 1 .. Len(B)
      BY <1>1, <1>3, <2>1
    <3> QED
      BY <2>1, <3>1 DEF At, Deleted
  <2>2. CASE j + 1 \notin 1 .. Len(A)
    <3>1. j \notin 1 .. Len(B)
      BY <1>1, <2>2
    <3> QED
      BY <2>2, <3>1 DEF At
  <2> QED
    BY <2>1, <2>2
<1> QED
  BY <1>2, <1>3

LEMMA AtPushed ==
  ASSUME NEW A \in Seq(Idx), NEW B \in Seq(Idx), NEW i, Pushed(A, B, i)
  PROVE  /\ At(B, 1) = i
         /\ \A j \in Int : j > 0 => At(B, j + 1) = At(A, j)
<1>1. Len(A) \in Nat /\ Len(B) = Len(A) + 1 /\ B[1] = i
  BY DEF Pushed
<1>2. At(B, 1) = i
  BY <1>1 DEF At
<1>3. ASSUME NEW j \in Int, j > 0
      PROVE  At(B, j + 1) = At(A, j)
  <2>1. CASE j \in 1 .. Len(A)
    <3>1. j + 1 \in 1 .. Len(B)
      BY <1>1, <2>1
    <3> QED
      BY <2>1, <3>1 DEF At, Pushed
  <2>2. CASE j \notin 1 .. Len(A)
    <3>1. j + 1 \notin 1 .. Len(B)
      BY <1>1, <1>3, <2>2
    <3> QED
      BY <2>2, <3>1 DEF At
  <2> QED
    BY <2>1, <2>2
<1> QED
  BY <1>2, <1>3

\* Every list can be extended, and every list but the empty one was.
LEMMA Push ==
  ASSUME NEW A \in Seq(Idx), NEW i \in Idx
  PROVE  \E B \in Seq(Idx) : Pushed(A, B, i)
<1> DEFINE B == <<i>> \o A
<1>1. <<i>> \in Seq(Idx) /\ Len(<<i>>) = 1 /\ <<i>>[1] = i
  OBVIOUS
<1>2. /\ B \in Seq(Idx) /\ Len(B) = 1 + Len(A)
      /\ \A j \in 1 .. 1 + Len(A) : B[j] = IF j <= 1 THEN <<i>>[j] ELSE A[j - 1]
  BY <1>1, ConcatProperties
<1> HIDE DEF B
<1>3. Len(A) \in Nat
  OBVIOUS
<1>4. B[1] = i /\ \A j \in 1 .. Len(A) : B[j + 1] = A[j]
  BY <1>1, <1>2, <1>3
<1> QED
  BY <1>2, <1>3, <1>4 DEF Pushed

LEMMA Pop ==
  ASSUME NEW B \in Seq(Idx), B # <<>>
  PROVE  \E A \in Seq(Idx) : Pushed(A, B, B[1])
<1>1. Tail(B) \in Seq(Idx) /\ Deleted(B, Tail(B), 1)
  BY TailDeletes
<1>2. Len(B) \in Nat
  OBVIOUS
<1>3. Pushed(Tail(B), B, B[1])
  BY <1>1, <1>2 DEF Deleted, Pushed
<1> QED
  BY <1>1, <1>3

\* What the lists hold.
LEMMA PushedMembers ==
  ASSUME NEW A \in Seq(Idx), NEW B \in Seq(Idx), NEW i \in Idx, Pushed(A, B, i)
  PROVE  /\ Members(B) = Members(A) \cup {i}
         /\ NoRepeats(B) <=> NoRepeats(A) /\ i \notin Members(A)
<1>1. Len(A) \in Nat /\ Len(B) = Len(A) + 1 /\ B[1] = i
  BY DEF Pushed
<1>2. \A j \in 1 .. Len(B) : j = 1 \/ (j - 1 \in 1 .. Len(A) /\ B[j] = A[j - 1])
  <2> SUFFICES ASSUME NEW j \in 1 .. Len(B), j # 1
               PROVE  j - 1 \in 1 .. Len(A) /\ B[j] = A[j - 1]
    OBVIOUS
  <2>1. j - 1 \in 1 .. Len(A) /\ (j - 1) + 1 = j
    BY <1>1
  <2> QED
    BY <2>1 DEF Pushed
<1>3. \A j \in 1 .. Len(A) : j + 1 \in 1 .. Len(B) /\ B[j + 1] = A[j] /\ j + 1 # 1
  BY <1>1 DEF Pushed
<1>4. 1 \in 1 .. Len(B)
  BY <1>1
<1>5. Members(B) = Members(A) \cup {i}
  <2>1. Members(B) \subseteq Members(A) \cup {i}
    BY <1>1, <1>2 DEF Members
  <2>2. Members(A) \cup {i} \subseteq Members(B)
    BY <1>1, <1>3, <1>4 DEF Members
  <2> QED
    BY <2>1, <2>2
<1>6. ASSUME NoRepeats(B) PROVE NoRepeats(A) /\ i \notin Members(A)
  <2>1. NoRepeats(A)
    <3> SUFFICES ASSUME NEW m \in 1 .. Len(A), NEW n \in 1 .. Len(A), A[m] = A[n]
                 PROVE  m = n
      BY DEF NoRepeats
    <3>1. m + 1 = n + 1
      BY <1>3, <1>6 DEF NoRepeats
    <3> QED
      BY <3>1
  <2>2. i \notin Members(A)
    BY <1>1, <1>3, <1>4, <1>6 DEF NoRepeats, Members
  <2> QED
    BY <2>1, <2>2
<1>7. ASSUME NoRepeats(A), i \notin Members(A) PROVE NoRepeats(B)
  <2> SUFFICES ASSUME NEW m \in 1 .. Len(B), NEW n \in 1 .. Len(B), B[m] = B[n]
               PROVE  m = n
    BY DEF NoRepeats
  <2>1. CASE m = 1 \/ n = 1
    BY <1>1, <1>2, <1>7, <2>1 DEF Members
  <2>2. CASE ~(m = 1 \/ n = 1)
    <3>1. m - 1 = n - 1
      BY <1>2, <1>7, <2>2 DEF NoRepeats
    <3> QED
      BY <1>1, <3>1
  <2> QED
    BY <2>1, <2>2
<1> QED
  BY <1>5, <1>6, <1>7

LEMMA DeletedMembers ==
  ASSUME NEW A \in Seq(Idx), NEW B \in Seq(Idx), NEW k \in Int, Deleted(A, B, k), NoRepeats(A)
  PROVE  Members(B) = Members(A) \ {A[k]} /\ NoRepeats(B)
<1>1. Len(A) \in Nat /\ k \in 1 .. Len(A) /\ Len(B) = Len(A) - 1
  BY DEF Deleted
<1>2. \A j \in 1 .. Len(B) : After(k, j) \in 1 .. Len(A) /\ After(k, j) # k /\ B[j] = A[After(k, j)]
  <2> SUFFICES ASSUME NEW j \in 1 .. Len(B)
               PROVE  After(k, j) \in 1 .. Len(A) /\ After(k, j) # k /\ B[j] = A[After(k, j)]
    OBVIOUS
  <2>1. CASE j < k
    BY <1>1, <2>1 DEF After, Deleted
  <2>2. CASE ~(j < k)
    BY <1>1, <2>2 DEF After, Deleted
  <2> QED
    BY <2>1, <2>2
<1>3. ASSUME NEW j \in 1 .. Len(A), j # k
      PROVE  \E m \in 1 .. Len(B) : B[m] = A[j]
  <2>1. CASE j < k
    <3>1. j \in 1 .. Len(B) /\ j \in 1 .. k - 1
      BY <1>1, <2>1
    <3> QED
      BY <3>1 DEF Deleted
  <2>2. CASE ~(j < k)
    <3>1. j - 1 \in 1 .. Len(B) /\ j - 1 \in k .. Len(A) - 1 /\ (j - 1) + 1 = j
      BY <1>1, <1>3, <2>2
    <3> QED
      BY <3>1 DEF Deleted
  <2> QED
    BY <2>1, <2>2
<1>4. Members(B) \subseteq Members(A) \ {A[k]}
  BY <1>1, <1>2 DEF Members, NoRepeats
<1>5. Members(A) \ {A[k]} \subseteq Members(B)
  BY <1>3 DEF Members
<1>6. NoRepeats(B)
  <2> SUFFICES ASSUME NEW m \in 1 .. Len(B), NEW n \in 1 .. Len(B), B[m] = B[n]
               PROVE  m = n
    BY DEF NoRepeats
  <2>1. After(k, m) = After(k, n)
    BY <1>2 DEF NoRepeats
  <2> QED
    BY <1>1, <2>1 DEF After
<1> QED
  BY <1>4, <1>5, <1>6

\* Taking an entry out relinks its two neighbours.
LEMMA DeletedLinks ==
  ASSUME NEW A \in Seq(Idx), NEW B \in Seq(Idx), NEW k \in Int, Deleted(A, B, k), NoRepeats(A),
         NEW nx \in Links, NEW pv \in Links, Doubly(nx, pv, A),
         NEW i, i = A[k],
         NEW nx2 \in Links, \A x \in Idx : x # i /\ x # pv[i] => nx2[x] = nx[x],
         pv[i] # NO_IDX => nx2[pv[i]] = nx[i],
         NEW pv2 \in Links, \A x \in Idx : x # i /\ x # nx[i] => pv2[x] = pv[x],
         nx[i] # NO_IDX => pv2[nx[i]] = pv[i]
  PROVE  /\ Doubly(nx2, pv2, B)
         /\ At(A, 1) = i => At(B, 1) = nx[i]
         /\ At(A, 1) # i => At(B, 1) = At(A, 1)
         /\ At(A, Len(A)) = i => At(B, Len(B)) = pv[i]
         /\ At(A, Len(A)) # i => At(B, Len(B)) = At(A, Len(A))
<1> DEFINE L == Len(A)
<1>1. /\ L \in Nat /\ k \in 1 .. L /\ Len(B) = L - 1
      /\ \A j \in 1 .. k - 1 : B[j] = A[j]
      /\ \A j \in k .. L - 1 : B[j] = A[j + 1]
  BY DEF Deleted
<1>2. /\ NO_IDX \notin Idx
      /\ \A j \in 1 .. L : At(A, j) = A[j] /\ A[j] \in Idx /\ A[j] # NO_IDX
      /\ \A j \in Int : j \notin 1 .. L => At(A, j) = NO_IDX
  BY AtFacts
<1>3. /\ \A j \in Int : j < k => At(B, j) = At(A, j)
      /\ \A j \in Int : j >= k => At(B, j) = At(A, j + 1)
  BY AtDeleted
<1>4. \A j \in 1 .. L : nx[A[j]] = At(A, j + 1) /\ pv[A[j]] = At(A, j - 1)
  BY DEF Doubly, Chain
<1>5. /\ nx[i] = At(A, k + 1) /\ pv[i] = At(A, k - 1)
      /\ \A j \in 1 .. L : A[j] = i <=> j = k
  BY <1>1, <1>4 DEF NoRepeats
<1>6. \A m, n \in 1 .. L : A[m] = A[n] => m = n
  BY DEF NoRepeats
<1> HIDE DEF L
<1>7. ASSUME NEW j \in Int, NEW m \in 1 .. L, At(A, j) = A[m]
      PROVE  j = m
  BY <1>1, <1>2, <1>6, <1>7
<1>8. ASSUME NEW j \in 1 .. Len(B)
      PROVE  nx2[B[j]] = At(B, j + 1)
  <2>1. CASE j < k - 1
    <3>1. B[j] = A[j] /\ j \in 1 .. L /\ j # k /\ j # k - 1
      BY <1>1, <2>1
    <3>2. A[j] \in Idx /\ A[j] # i /\ A[j] # pv[i]
      BY <1>1, <1>2, <1>5, <1>7, <3>1
    <3>3. nx2[A[j]] = At(A, j + 1)
      BY <1>4, <3>1, <3>2
    <3> QED
      BY <1>1, <1>3, <2>1, <3>1, <3>3
  <2>2. CASE j = k - 1
    <3>1. B[j] = A[k - 1] /\ k - 1 \in 1 .. L
      BY <1>1, <2>2
    <3>2. pv[i] = A[k - 1] /\ pv[i] # NO_IDX
      BY <1>2, <1>5, <3>1
    <3>3. nx2[B[j]] = At(A, k + 1)
      BY <1>5, <3>1, <3>2
    <3> QED
      BY <1>1, <1>3, <2>2, <3>3
  <2>3. CASE j >= k
    <3>1. B[j] = A[j + 1] /\ j + 1 \in 1 .. L /\ j + 1 # k /\ j + 1 # k - 1
      BY <1>1, <2>3
    <3>2. A[j + 1] \in Idx /\ A[j + 1] # i /\ A[j + 1] # pv[i]
      BY <1>1, <1>2, <1>5, <1>7, <3>1
    <3>3. nx2[A[j + 1]] = At(A, (j + 1) + 1)
      BY <1>4, <3>1, <3>2
    <3> QED
      BY <1>1, <1>3, <2>3, <3>1, <3>3
  <2> QED
    BY <1>1, <2>1, <2>2, <2>3
<1>9. ASSUME NEW j \in 1 .. Len(B)
      PROVE  pv2[B[j]] = At(B, j - 1)
  <2>1. CASE j < k
    <3>1. B[j] = A[j] /\ j \in 1 .. L /\ j # k /\ j # k + 1
      BY <1>1, <2>1
    <3>2. A[j] \in Idx /\ A[j] # i /\ A[j] # nx[i]
      BY <1>1, <1>2, <1>5, <1>7, <3>1
    <3>3. pv2[A[j]] = At(A, j - 1)
      BY <1>4, <3>1, <3>2
    <3> QED
      BY <1>1, <1>3, <2>1, <3>1, <3>3
  <2>2. CASE j = k
    <3>1. B[j] = A[k + 1] /\ k + 1 \in 1 .. L
      BY <1>1, <2>2
    <3>2. nx[i] = A[k + 1] /\ nx[i] # NO_IDX
      BY <1>2, <1>5, <3>1
    <3>3. pv2[B[j]] = At(A, k - 1)
      BY <1>5, <3>1, <3>2
    <3> QED
      BY <1>1, <1>3, <2>2, <3>3
  <2>3. CASE j > k
    <3>1. B[j] = A[j + 1] /\ j + 1 \in 1 .. L /\ j + 1 # k /\ j + 1 # k + 1
      BY <1>1, <2>3
    <3>2. A[j + 1] \in Idx /\ A[j + 1] # i /\ A[j + 1] # nx[i]
      BY <1>1, <1>2, <1>5, <1>7, <3>1
    <3>3. pv2[A[j + 1]] = At(A, (j + 1) - 1)
      BY <1>4, <3>1, <3>2
    <3>4. At(B, j - 1) = At(A, (j - 1) + 1) /\ (j - 1) + 1 = (j + 1) - 1
      BY <1>1, <1>3, <2>3
    <3> QED
      BY <3>1, <3>3, <3>4
  <2> QED
    BY <1>1, <2>1, <2>2, <2>3
<1>10. Doubly(nx2, pv2, B)
  BY <1>8, <1>9 DEF Doubly, Chain
<1>11. At(A, 1) = i <=> k = 1
  BY <1>1, <1>2, <1>5
<1>12. At(A, L) = i <=> k = L
  BY <1>1, <1>2, <1>5
<1>13. At(B, 1) = IF k = 1 THEN At(A, k + 1) ELSE At(A, 1)
  <2>0. 1 \in Int
    OBVIOUS
  <2>1. CASE k = 1
    BY <1>3, <2>0, <2>1
  <2>2. CASE k # 1
    <3>1. 1 < k
      BY <1>1, <2>2
    <3>2. At(B, 1) = At(A, 1)
      BY <1>3, <2>0, <3>1
    <3> QED
      BY <2>2, <3>2
  <2> QED
    BY <2>1, <2>2
<1>14. At(B, Len(B)) = IF k = L THEN At(A, L - 1) ELSE At(A, L)
  <2>1. CASE k = L
    BY <1>1, <1>3, <2>1
  <2>2. CASE k # L
    <3>1. L - 1 \in Int /\ L - 1 >= k /\ (L - 1) + 1 = L
      BY <1>1, <2>2
    <3> QED
      BY <1>1, <1>3, <2>2, <3>1
  <2> QED
    BY <2>1, <2>2
<1> QED
  BY <1>5, <1>10, <1>11, <1>12, <1>13, <1>14 DEF L

\* Putting an entry in front links it with the first one.
LEMMA PushedLinks ==
  ASSUME NEW A \in Seq(Idx), NEW B \in Seq(Idx), NEW i \in Idx, Pushed(A, B, i),
         i \notin Members(A), NoRepeats(A),
         NEW nx \in Links, NEW pv \in Links, Doubly(nx, pv, A),
         NEW nx2 \in Links, \A x \in Idx : x # i => nx2[x] = nx[x],
         nx2[i] = At(A, 1),
         NEW pv2 \in Links, \A x \in Idx : x # i /\ x # At(A, 1) => pv2[x] = pv[x],
         pv2[i] = NO_IDX, At(A, 1) # NO_IDX => pv2[At(A, 1)] = i
  PROVE  /\ Doubly(nx2, pv2, B)
         /\ At(B, 1) = i
         /\ At(A, Len(A)) = NO_IDX => At(B, Len(B)) = i
         /\ At(A, Len(A)) # NO_IDX => At(B, Len(B)) = At(A, Len(A))
<1> DEFINE L == Len(A)
<1>1. /\ L \in Nat /\ Len(B) = L + 1 /\ B[1] = i
      /\ \A j \in 1 .. L : B[j + 1] = A[j]
  BY DEF Pushed
<1>2. /\ NO_IDX \notin Idx
      /\ \A j \in 1 .. L : At(A, j) = A[j] /\ A[j] \in Idx /\ A[j] # NO_IDX
      /\ \A j \in Int : j \notin 1 .. L => At(A, j) = NO_IDX
  BY AtFacts
<1>3. /\ At(B, 1) = i
      /\ \A j \in Int : j > 0 => At(B, j + 1) = At(A, j)
      /\ At(B, 0) = NO_IDX
  BY AtPushed, AtFacts DEF At
<1>4. \A j \in 1 .. L : nx[A[j]] = At(A, j + 1) /\ pv[A[j]] = At(A, j - 1)
  BY DEF Doubly, Chain
<1>5. \A j \in 1 .. L : A[j] # i
  BY DEF Members
<1>6. \A m, n \in 1 .. L : A[m] = A[n] => m = n
  BY DEF NoRepeats
<1> HIDE DEF L
<1>7. ASSUME NEW j \in 1 .. L + 1
      PROVE  nx2[B[j]] = At(B, j + 1)
  <2>1. CASE j = 1
    <3>1. j \in Int /\ j > 0
      BY <2>1
    <3>2. At(B, j + 1) = At(A, j)
      BY <1>3, <3>1
    <3>3. nx2[B[j]] = At(A, 1)
      BY <1>1, <2>1
    <3> QED
      BY <2>1, <3>2, <3>3
  <2>2. CASE j # 1
    <3>1. j - 1 \in 1 .. L /\ (j - 1) + 1 = j
      BY <1>1, <2>2
    <3>2. B[j] = A[j - 1] /\ A[j - 1] \in Idx /\ A[j - 1] # i
      BY <1>1, <1>2, <1>5, <3>1
    <3>3. nx2[B[j]] = At(A, j)
      BY <1>4, <3>1, <3>2
    <3> QED
      BY <1>3, <3>3
  <2> QED
    BY <2>1, <2>2
<1>8. ASSUME NEW j \in 1 .. L + 1
      PROVE  pv2[B[j]] = At(B, j - 1)
  <2>1. CASE j = 1
    BY <1>1, <1>3, <2>1
  <2>2. CASE j = 2
    <3>1. 1 \in 1 .. L /\ B[2] = A[1]
      BY <1>1, <2>2
    <3>2. At(A, 1) = A[1] /\ At(A, 1) # NO_IDX
      BY <1>2, <3>1
    <3>3. pv2[B[2]] = i
      BY <3>1, <3>2
    <3>4. j - 1 = 1
      BY <2>2
    <3> QED
      BY <1>3, <2>2, <3>3, <3>4
  <2>3. CASE j > 2
    <3>1. j - 1 \in 1 .. L /\ (j - 1) + 1 = j /\ j - 1 # 1 /\ 1 \in 1 .. L /\ j - 2 > 0
      BY <1>1, <2>3
    <3>2. B[j] = A[j - 1] /\ A[j - 1] \in Idx /\ A[j - 1] # i /\ A[j - 1] # At(A, 1)
      BY <1>1, <1>2, <1>5, <1>6, <3>1
    <3>3. pv2[B[j]] = At(A, (j - 1) - 1)
      BY <1>4, <3>1, <3>2
    <3>4. At(B, (j - 2) + 1) = At(A, j - 2) /\ (j - 2) + 1 = j - 1 /\ (j - 1) - 1 = j - 2
      BY <1>3, <3>1
    <3> QED
      BY <3>3, <3>4
  <2> QED
    BY <1>1, <2>1, <2>2, <2>3
<1>9. Doubly(nx2, pv2, B)
  BY <1>1, <1>7, <1>8 DEF Doubly, Chain
<1>10. /\ L = 0 => At(A, L) = NO_IDX /\ At(B, L + 1) = i
       /\ L # 0 => At(A, L) # NO_IDX /\ At(B, L + 1) = At(A, L)
  <2>1. CASE L = 0
    BY <1>2, <1>3, <2>1
  <2>2. CASE L # 0
    <3>1. L \in 1 .. L /\ L > 0 /\ L \in Int
      BY <1>1, <2>2
    <3>2. At(B, L + 1) = At(A, L)
      BY <1>3, <3>1
    <3>3. At(A, L) # NO_IDX
      BY <1>2, <3>1
    <3> QED
      BY <2>2, <3>2, <3>3
  <2> QED
    BY <2>1, <2>2
<1> QED
  BY <1>1, <1>3, <1>9, <1>10 DEF L

\* A chain needs no links but its own.
LEMMA ChainSame ==
  ASSUME NEW A \in Seq(Idx), NEW nx, NEW nx2, Chain(nx, A),
         \A x \in Members(A) : nx2[x] = nx[x]
  PROVE  Chain(nx2, A)
BY DEF Chain, Members

\* The chain of the free entries.
LEMMA PushedChain ==
  ASSUME NEW A \in Seq(Idx), NEW B \in Seq(Idx), NEW i, Pushed(A, B, i),
         NEW nx, Chain(nx, A), nx[i] = At(A, 1)
  PROVE  Chain(nx, B)
<1>1. /\ Len(A) \in Nat /\ Len(B) = Len(A) + 1 /\ B[1] = i
      /\ \A j \in 1 .. Len(A) : B[j + 1] = A[j]
  BY DEF Pushed
<1>2. \A j \in Int : j > 0 => At(B, j + 1) = At(A, j)
  BY AtPushed
<1>3. ASSUME NEW j \in 1 .. Len(B)
      PROVE  nx[B[j]] = At(B, j + 1)
  <2>1. CASE j = 1
    BY <1>1, <1>2, <2>1
  <2>2. CASE j # 1
    <3>1. j - 1 \in 1 .. Len(A) /\ (j - 1) + 1 = j /\ j > 0
      BY <1>1, <2>2
    <3>2. B[j] = A[j - 1] /\ nx[A[j - 1]] = At(A, j)
      BY <1>1, <3>1 DEF Chain
    <3> QED
      BY <1>2, <3>1, <3>2
  <2> QED
    BY <2>1, <2>2
<1> QED
  BY <1>3 DEF Chain

LEMMA PoppedChain ==
  ASSUME NEW A \in Seq(Idx), NEW B \in Seq(Idx), NEW i, Pushed(A, B, i),
         NEW nx, Chain(nx, B)
  PROVE  Chain(nx, A) /\ nx[i] = At(A, 1)
<1>1. /\ Len(A) \in Nat /\ Len(B) = Len(A) + 1 /\ B[1] = i
      /\ \A j \in 1 .. Len(A) : B[j + 1] = A[j]
  BY DEF Pushed
<1>2. \A j \in Int : j > 0 => At(B, j + 1) = At(A, j)
  BY AtPushed
<1>3. nx[i] = At(A, 1)
  <2>1. 1 \in 1 .. Len(B) /\ At(B, 1 + 1) = At(A, 1)
    BY <1>1, <1>2
  <2> QED
    BY <1>1, <2>1 DEF Chain
<1>4. ASSUME NEW j \in 1 .. Len(A)
      PROVE  nx[A[j]] = At(A, j + 1)
  <2>1. j + 1 \in 1 .. Len(B) /\ At(B, (j + 1) + 1) = At(A, j + 1)
    BY <1>1, <1>2
  <2> QED
    BY <1>1, <2>1 DEF Chain
<1> QED
  BY <1>3, <1>4 DEF Chain

-----------------------------------------------------------------------------
(* Walk follows a chain. *)

\* One step of the walk.
WalkStep(f, link, head, k) ==
    IF k = 1 THEN head ELSE IF f[k - 1] = NO_IDX THEN NO_IDX ELSE link[f[k - 1]]
Walks(f, link, head) == f = [k \in 1 .. NaptMax |-> WalkStep(f, link, head, k)]
Met(f) == {k \in 1 .. NaptMax : f[k] # NO_IDX}

LEMMA WalkDef ==
  ASSUME NEW link, NEW head
  PROVE  Walk(link, head) = SubSeq(CHOOSE f : Walks(f, link, head), 1,
                                   Cardinality(Met(CHOOSE f : Walks(f, link, head))))
BY DEF Walk, Walks, WalkStep, Met

LEMMA WalkIs ==
  ASSUME NEW link, NEW A \in Seq(Idx), Len(A) <= NaptMax, Chain(link, A)
  PROVE  Walk(link, At(A, 1)) = A
<1> DEFINE head == At(A, 1)
           g == [k \in 1 .. NaptMax |-> At(A, k)]
           f == CHOOSE h : Walks(h, link, head)
<1>1. /\ Len(A) \in Nat
      /\ NO_IDX \notin Idx
      /\ \A j \in 1 .. Len(A) : At(A, j) = A[j] /\ A[j] \in Idx /\ A[j] # NO_IDX
      /\ \A j \in Int : j \notin 1 .. Len(A) => At(A, j) = NO_IDX
  BY AtFacts
<1>2. NaptMax \in Nat /\ NaptMax # 0
  BY NaptAssumption
<1>3. ASSUME NEW k \in 1 .. NaptMax, k # 1
      PROVE  At(A, k) = IF At(A, k - 1) = NO_IDX THEN NO_IDX ELSE link[At(A, k - 1)]
  <2>1. k - 1 \in Int /\ k \in Int /\ (k - 1) + 1 = k
    BY <1>2
  <2>2. CASE k - 1 \in 1 .. Len(A)
    <3>1. At(A, k - 1) = A[k - 1] /\ A[k - 1] # NO_IDX
      BY <1>1, <2>2
    <3>2. link[A[k - 1]] = At(A, (k - 1) + 1)
      BY <2>2 DEF Chain
    <3> QED
      BY <2>1, <3>1, <3>2
  <2>3. CASE k - 1 \notin 1 .. Len(A)
    <3>1. k \notin 1 .. Len(A)
      BY <1>1, <1>3, <2>3
    <3> QED
      BY <1>1, <2>1, <2>3, <3>1
  <2> QED
    BY <2>2, <2>3
<1>4. Walks(g, link, head)
  <2>1. ASSUME NEW k \in 1 .. NaptMax
        PROVE  At(A, k) = WalkStep(g, link, head, k)
    <3>1. CASE k = 1
      BY <3>1 DEF WalkStep
    <3>2. CASE k # 1
      <4>1. k - 1 \in 1 .. NaptMax
        BY <1>2, <3>2
      <4>2. g[k - 1] = At(A, k - 1)
        BY <4>1
      <4> HIDE DEF g
      <4> QED
        BY <1>3, <3>2, <4>2 DEF WalkStep
    <3> QED
      BY <3>1, <3>2
  <2>2. g = [k \in 1 .. NaptMax |-> WalkStep(g, link, head, k)]
    BY <2>1
  <2> HIDE DEF g
  <2> QED
    BY <2>2 DEF Walks
<1>5. Walks(f, link, head)
  BY <1>4
<1> HIDE DEF f
<1>6. ASSUME NEW k \in 1 .. NaptMax
      PROVE  f[k] = WalkStep(f, link, head, k)
  BY <1>5 DEF Walks
<1>7. \A k \in 1 .. NaptMax : f[k] = At(A, k)
  <2> DEFINE T == {n \in Nat : n + 1 \in 1 .. NaptMax => f[n + 1] = At(A, n + 1)}
  <2>1. 0 \in T
    <3>1. 1 \in 1 .. NaptMax
      BY <1>2
    <3>2. f[1] = At(A, 1)
      BY <1>6, <3>1 DEF WalkStep
    <3>3. 0 + 1 = 1
      OBVIOUS
    <3> QED
      BY <3>2, <3>3
  <2>2. ASSUME NEW n \in Nat, n \in T
        PROVE  n + 1 \in T
    <3> SUFFICES ASSUME (n + 1) + 1 \in 1 .. NaptMax
                 PROVE  f[(n + 1) + 1] = At(A, (n + 1) + 1)
      OBVIOUS
    <3>1. n + 1 \in 1 .. NaptMax /\ (n + 1) + 1 # 1 /\ ((n + 1) + 1) - 1 = n + 1
      BY <1>2
    <3>2. f[n + 1] = At(A, n + 1)
      BY <2>2, <3>1
    <3>3. f[(n + 1) + 1] = IF f[n + 1] = NO_IDX THEN NO_IDX ELSE link[f[n + 1]]
      BY <1>6, <3>1 DEF WalkStep
    <3>4. At(A, (n + 1) + 1) = IF At(A, n + 1) = NO_IDX THEN NO_IDX ELSE link[At(A, n + 1)]
      BY <1>3, <3>1
    <3> QED
      BY <3>2, <3>3, <3>4
  <2> HIDE DEF T
  <2>3. \A n \in Nat : n \in T
    BY <2>1, <2>2, NumberInduction
  <2> SUFFICES ASSUME NEW k \in 1 .. NaptMax PROVE f[k] = At(A, k)
    OBVIOUS
  <2>4. k - 1 \in Nat /\ (k - 1) + 1 = k
    BY <1>2
  <2> QED
    BY <2>3, <2>4 DEF T
<1>8. Met(f) = 1 .. Len(A)
  <2>1. ASSUME NEW k \in 1 .. NaptMax
        PROVE  f[k] # NO_IDX <=> k \in 1 .. Len(A)
    BY <1>1, <1>2, <1>7, <2>1
  <2>2. \A k \in 1 .. Len(A) : k \in 1 .. NaptMax
    BY <1>1, <1>2
  <2> QED
    BY <2>1, <2>2 DEF Met
<1>9. Cardinality(1 .. Len(A)) = Len(A)
  <2>1. 1 \in Int /\ Len(A) \in Int
    BY <1>1
  <2>2. Cardinality(1 .. Len(A)) = IF 1 > Len(A) THEN 0 ELSE Len(A) - 1 + 1
    BY <2>1, FS_Interval, Zenon
  <2> QED
    BY <1>1, <2>2
<1>10. Walk(link, head) = SubSeq(f, 1, Len(A))
  <2> HIDE DEF head
  <2>1. Walk(link, head) = SubSeq(f, 1, Cardinality(Met(f)))
    BY WalkDef DEF f
  <2> QED
    BY <1>8, <1>9, <2>1
<1>11. \A k \in 1 .. Len(A) : f[k] = A[k]
  BY <1>1, <1>2, <1>7
<1>12. \A k \in 1 .. Len(A) : f[k] \in Idx
  BY <1>1, <1>11
<1> DEFINE w == SubSeq(f, 1, Len(A))
<1>13. w \in Seq(Idx) /\ Len(w) = Len(A) /\ \A k \in 1 .. Len(A) : w[k] = f[k]
  BY <1>1, <1>12, SubSeqProperties
<1> HIDE DEF w
<1>14. w = A
  BY <1>11, <1>13
<1> QED
  BY <1>10, <1>14 DEF w

\* The same list from its other end.
LEMMA ReverseChain ==
  ASSUME NEW A \in Seq(Idx), NEW nx, NEW pv, Doubly(nx, pv, A)
  PROVE  /\ Reverse(A) \in Seq(Idx) /\ Len(Reverse(A)) = Len(A)
         /\ Chain(pv, Reverse(A))
         /\ At(Reverse(A), 1) = At(A, Len(A))
<1> DEFINE L == Len(A)
           R == Reverse(A)
<1>0. L \in Nat
  OBVIOUS
<1>1. R = [j \in 1 .. L |-> A[L - j + 1]]
  BY DEF Reverse
<1>2. \A j \in 1 .. L : L - j + 1 \in 1 .. L /\ A[L - j + 1] \in Idx
  BY <1>0
<1>3. R \in Seq(Idx) /\ Len(R) = L /\ \A j \in 1 .. L : R[j] = A[L - j + 1]
  BY <1>0, <1>1, <1>2
<1>4. \A j \in 1 .. L : pv[A[j]] = At(A, j - 1)
  BY DEF Doubly
<1>9. Len(A) = L
  OBVIOUS
<1> HIDE DEF R, L
<1>5. ASSUME NEW j \in 1 .. L
      PROVE  pv[R[j]] = At(R, j + 1)
  <2>0. (L - j + 1) - 1 = L - j
    BY <1>0
  <2>1. pv[R[j]] = At(A, L - j)
    BY <1>2, <1>3, <1>4, <2>0
  <2>2. CASE j = L
    <3>1. L - j \notin 1 .. L /\ j + 1 \notin 1 .. L
      BY <1>0, <2>2
    <3>2. At(A, L - j) = NO_IDX /\ At(R, j + 1) = NO_IDX
      BY <1>3, <1>9, <3>1 DEF At
    <3> QED
      BY <2>1, <3>2
  <2>3. CASE j # L
    <3>1. L - j \in 1 .. L /\ j + 1 \in 1 .. L /\ L - (j + 1) + 1 = L - j
      BY <1>0, <2>3
    <3>2. R[j + 1] = A[L - j]
      BY <1>3, <3>1
    <3>3. At(A, L - j) = A[L - j] /\ At(R, j + 1) = R[j + 1]
      BY <1>3, <1>9, <3>1 DEF At
    <3> QED
      BY <2>1, <3>2, <3>3
  <2> QED
    BY <2>2, <2>3
<1>6. At(R, 1) = At(A, L)
  <2>1. CASE L = 0
    <3>1. 1 \notin 1 .. L /\ L \notin 1 .. L
      BY <2>1
    <3> QED
      BY <1>3, <1>9, <3>1 DEF At
  <2>2. CASE L # 0
    <3>1. 1 \in 1 .. L /\ L \in 1 .. L /\ L - 1 + 1 = L
      BY <1>0, <2>2
    <3>2. R[1] = A[L]
      BY <1>3, <3>1
    <3> QED
      BY <1>3, <1>9, <3>1, <3>2 DEF At
  <2> QED
    BY <2>1, <2>2
<1> QED
  BY <1>3, <1>5, <1>6 DEF Chain, R, L

-----------------------------------------------------------------------------
(* What ip_napt_insert and ip_napt_free change. *)

\* Two states of an entry that differ in its links only.
Same(t, u) ==
    /\ u.proto = t.proto /\ u.src = t.src /\ u.sport = t.sport /\ u.dest = t.dest
    /\ u.dport = t.dport /\ u.mport = t.mport /\ u.age = t.age /\ u.flags = t.flags

LEMMA EntryFacts ==
  ASSUME NEW t \in Entries
  PROVE  /\ t.proto \in Protos /\ t.next \in Link /\ t.prev \in Link
         /\ \A v \in Link : /\ [t EXCEPT !.next = v] \in Entries
                            /\ [t EXCEPT !.next = v].next = v
                            /\ [t EXCEPT !.next = v].prev = t.prev
                            /\ Same(t, [t EXCEPT !.next = v])
         /\ \A v \in Link : /\ [t EXCEPT !.prev = v] \in Entries
                            /\ [t EXCEPT !.prev = v].prev = v
                            /\ [t EXCEPT !.prev = v].next = t.next
                            /\ Same(t, [t EXCEPT !.prev = v])
BY DEF Entries, Same

LEMMA TableFacts ==
  ASSUME NEW d \in Tables
  PROVE  /\ d.table \in [Idx -> Entries]
         /\ \A x \in Idx : d.table[x] \in Entries
         /\ d.list \in Link /\ d.list_last \in Link /\ d.free \in Link
         /\ d.nr_active \in [Protos -> Int]
         /\ Nexts(d) \in Links /\ \A x \in Idx : Nexts(d)[x] = d.table[x].next
         /\ Prevs(d) \in Links /\ \A x \in Idx : Prevs(d)[x] = d.table[x].prev
<1>1. d.table \in [Idx -> Entries] /\ d.list \in Link /\ d.list_last \in Link /\ d.free \in Link
      /\ d.nr_active \in [Protos -> Int]
  BY DEF Tables
<1>2. \A x \in Idx : d.table[x] \in Entries
  BY <1>1
<1>3. \A x \in Idx : d.table[x].next \in Link /\ d.table[x].prev \in Link
  BY <1>2, EntryFacts
<1> QED
  BY <1>1, <1>2, <1>3 DEF Nexts, Prevs, Links

LEMMA LinkNextFacts ==
  ASSUME NEW table \in [Idx -> Entries], NEW i \in Link, NEW v \in Link
  PROVE  /\ LinkNext(table, i, v) \in [Idx -> Entries]
         /\ \A x \in Idx : Same(table[x], LinkNext(table, i, v)[x])
         /\ \A x \in Idx : LinkNext(table, i, v)[x].prev = table[x].prev
         /\ \A x \in Idx : x # i => LinkNext(table, i, v)[x].next = table[x].next
         /\ i # NO_IDX => LinkNext(table, i, v)[i].next = v
<1> DEFINE new == LinkNext(table, i, v)
<1>1. NO_IDX \notin Idx
  BY NaptAssumption DEF NO_IDX, Idx
<1>2. CASE i = NO_IDX
  <2>1. new = table
    BY <1>2 DEF LinkNext
  <2>2. \A x \in Idx : Same(table[x], table[x])
    BY DEF Same
  <2> QED
    BY <1>2, <2>1, <2>2
<1>3. CASE i # NO_IDX
  <2>1. i \in Idx /\ table[i] \in Entries
    BY <1>3 DEF Link
  <2> DEFINE one == [table[i] EXCEPT !.next = v]
  <2>2. new = [table EXCEPT ![i] = one]
    BY <1>3 DEF LinkNext
  <2>8. one \in Entries
    BY <2>1, EntryFacts
  <2>3. new[i] = one /\ \A x \in Idx : x # i => new[x] = table[x]
    BY <2>1, <2>2
  <2> HIDE DEF new, one
  <2>4. new \in [Idx -> Entries]
    BY <2>1, <2>2, <2>8
  <2>5. new[i].next = v /\ new[i].prev = table[i].prev /\ Same(table[i], new[i])
    BY <2>1, <2>3, EntryFacts DEF one
  <2>6. \A x \in Idx : x # i => /\ new[x].next = table[x].next /\ new[x].prev = table[x].prev
                                /\ Same(table[x], new[x])
    BY <2>3 DEF Same
  <2>7. \A x \in Idx : Same(table[x], new[x]) /\ new[x].prev = table[x].prev
    BY <2>5, <2>6
  <2> QED
    BY <2>4, <2>5, <2>6, <2>7 DEF new
<1> QED
  BY <1>2, <1>3

LEMMA LinkPrevFacts ==
  ASSUME NEW table \in [Idx -> Entries], NEW i \in Link, NEW v \in Link
  PROVE  /\ LinkPrev(table, i, v) \in [Idx -> Entries]
         /\ \A x \in Idx : Same(table[x], LinkPrev(table, i, v)[x])
         /\ \A x \in Idx : LinkPrev(table, i, v)[x].next = table[x].next
         /\ \A x \in Idx : x # i => LinkPrev(table, i, v)[x].prev = table[x].prev
         /\ i # NO_IDX => LinkPrev(table, i, v)[i].prev = v
<1> DEFINE new == LinkPrev(table, i, v)
<1>1. NO_IDX \notin Idx
  BY NaptAssumption DEF NO_IDX, Idx
<1>2. CASE i = NO_IDX
  <2>1. new = table
    BY <1>2 DEF LinkPrev
  <2>2. \A x \in Idx : Same(table[x], table[x])
    BY DEF Same
  <2> QED
    BY <1>2, <2>1, <2>2
<1>3. CASE i # NO_IDX
  <2>1. i \in Idx /\ table[i] \in Entries
    BY <1>3 DEF Link
  <2> DEFINE one == [table[i] EXCEPT !.prev = v]
  <2>2. new = [table EXCEPT ![i] = one]
    BY <1>3 DEF LinkPrev
  <2>8. one \in Entries
    BY <2>1, EntryFacts
  <2>3. new[i] = one /\ \A x \in Idx : x # i => new[x] = table[x]
    BY <2>1, <2>2
  <2> HIDE DEF new, one
  <2>4. new \in [Idx -> Entries]
    BY <2>1, <2>2, <2>8
  <2>5. new[i].prev = v /\ new[i].next = table[i].next /\ Same(table[i], new[i])
    BY <2>1, <2>3, EntryFacts DEF one
  <2>6. \A x \in Idx : x # i => /\ new[x].next = table[x].next /\ new[x].prev = table[x].prev
                                /\ Same(table[x], new[x])
    BY <2>3 DEF Same
  <2>7. \A x \in Idx : Same(table[x], new[x]) /\ new[x].next = table[x].next
    BY <2>5, <2>6
  <2> QED
    BY <2>4, <2>5, <2>6, <2>7 DEF new
<1> QED
  BY <1>2, <1>3

\* Both links of one entry are set.
Relinked(table, i, w) == [table EXCEPT ![i].prev = NO_IDX, ![i].next = w]

LEMMA RelinkedFacts ==
  ASSUME NEW table \in [Idx -> Entries], NEW i \in Idx, NEW w \in Link
  PROVE  /\ Relinked(table, i, w) \in [Idx -> Entries]
         /\ \A x \in Idx : Same(table[x], Relinked(table, i, w)[x])
         /\ \A x \in Idx : x # i => /\ Relinked(table, i, w)[x].next = table[x].next
                                    /\ Relinked(table, i, w)[x].prev = table[x].prev
         /\ Relinked(table, i, w)[i].next = w
         /\ Relinked(table, i, w)[i].prev = NO_IDX
<1> DEFINE new == Relinked(table, i, w)
           one == [table[i] EXCEPT !.prev = NO_IDX]
           two == [one EXCEPT !.next = w]
<1>1. NO_IDX \in Link /\ table[i] \in Entries
  BY DEF Link
<1>2. one \in Entries /\ one.prev = NO_IDX /\ Same(table[i], one)
  BY <1>1, EntryFacts
<1> HIDE DEF one
<1>3. two \in Entries /\ two.next = w /\ two.prev = NO_IDX /\ Same(one, two)
  BY <1>2, EntryFacts
<1>4. new = [table EXCEPT ![i] = two]
  BY DEF Relinked, one
<1> HIDE DEF two
<1>5. new[i] = two /\ new \in [Idx -> Entries] /\ \A x \in Idx : x # i => new[x] = table[x]
  BY <1>3, <1>4
<1> HIDE DEF new
<1>6. Same(table[i], new[i])
  BY <1>2, <1>3, <1>5 DEF Same
<1>7. \A x \in Idx : x # i => Same(table[x], new[x]) /\ new[x].next = table[x].next /\ new[x].prev = table[x].prev
  BY <1>5 DEF Same
<1>8. \A x \in Idx : Same(table[x], new[x])
  BY <1>6, <1>7
<1> QED
  BY <1>3, <1>5, <1>7, <1>8 DEF new

\* The table that ip_napt_free leaves; n and p are the neighbours of entry i.
FreedTable(d, i) ==
    Relinked(LinkNext(LinkPrev(d.table, d.table[i].next, d.table[i].prev),
                      d.table[i].prev, d.table[i].next), i, d.free)

LEMMA FreedFields ==
  ASSUME NEW d, NEW i
  PROVE  /\ ip_napt_free(d, i).table = FreedTable(d, i)
         /\ i = d.list => ip_napt_free(d, i).list = d.table[i].next
         /\ i # d.list => ip_napt_free(d, i).list = d.list
         /\ i = d.list_last => ip_napt_free(d, i).list_last = d.table[i].prev
         /\ i # d.list_last => ip_napt_free(d, i).list_last = d.list_last
         /\ ip_napt_free(d, i).free = i
         /\ ip_napt_free(d, i).nr_active = [d.nr_active EXCEPT ![d.table[i].proto] = @ - 1]
BY DEF ip_napt_free, FreedTable, Relinked

LEMMA FreedFacts ==
  ASSUME NEW d \in Tables, NEW i \in Idx
  PROVE  /\ ip_napt_free(d, i) \in Tables
         /\ \A x \in Idx : Same(d.table[x], ip_napt_free(d, i).table[x])
         /\ d.table[i].proto \in Protos
         /\ Nexts(ip_napt_free(d, i))[i] = d.free
         /\ Prevs(ip_napt_free(d, i))[i] = NO_IDX
         /\ \A x \in Idx : x # i /\ x # Prevs(d)[i] => Nexts(ip_napt_free(d, i))[x] = Nexts(d)[x]
         /\ \A x \in Idx : x # i /\ x # Nexts(d)[i] => Prevs(ip_napt_free(d, i))[x] = Prevs(d)[x]
         /\ Prevs(d)[i] # NO_IDX /\ Prevs(d)[i] # i =>
                Nexts(ip_napt_free(d, i))[Prevs(d)[i]] = Nexts(d)[i]
         /\ Nexts(d)[i] # NO_IDX /\ Nexts(d)[i] # i =>
                Prevs(ip_napt_free(d, i))[Nexts(d)[i]] = Prevs(d)[i]
<1> DEFINE e == ip_napt_free(d, i)
           n == d.table[i].next
           p == d.table[i].prev
           one == LinkPrev(d.table, n, p)
           two == LinkNext(one, p, n)
           new == Relinked(two, i, d.free)
<1>1. /\ d.table \in [Idx -> Entries] /\ d.table[i] \in Entries
      /\ d.list \in Link /\ d.list_last \in Link /\ d.free \in Link
      /\ d.nr_active \in [Protos -> Int]
      /\ Nexts(d)[i] = n /\ Prevs(d)[i] = p
      /\ \A x \in Idx : Nexts(d)[x] = d.table[x].next /\ Prevs(d)[x] = d.table[x].prev
  BY TableFacts
<1>2. n \in Link /\ p \in Link /\ d.table[i].proto \in Protos
  BY <1>1, EntryFacts
<1>3. /\ e.table = new
      /\ e.list \in {n, d.list}
      /\ e.list_last \in {p, d.list_last}
      /\ e.free = i
      /\ e.nr_active = [d.nr_active EXCEPT ![d.table[i].proto] = @ - 1]
  BY FreedFields DEF FreedTable
<1>4. e = [table |-> e.table, list |-> e.list, list_last |-> e.list_last, free |-> e.free,
           nr_active |-> e.nr_active]
  BY DEF ip_napt_free
<1> HIDE DEF e
<1> HIDE DEF n, p
<1>5. /\ one \in [Idx -> Entries]
      /\ \A x \in Idx : Same(d.table[x], one[x]) /\ one[x].next = d.table[x].next
      /\ \A x \in Idx : x # n => one[x].prev = d.table[x].prev
      /\ n # NO_IDX => one[n].prev = p
  BY <1>1, <1>2, LinkPrevFacts
<1> HIDE DEF one
<1>6. /\ two \in [Idx -> Entries]
      /\ \A x \in Idx : Same(one[x], two[x]) /\ two[x].prev = one[x].prev
      /\ \A x \in Idx : x # p => two[x].next = one[x].next
      /\ p # NO_IDX => two[p].next = n
  BY <1>2, <1>5, LinkNextFacts
<1> HIDE DEF two
<1>7. /\ new \in [Idx -> Entries]
      /\ \A x \in Idx : Same(two[x], new[x])
      /\ \A x \in Idx : x # i => new[x].next = two[x].next /\ new[x].prev = two[x].prev
      /\ new[i].next = d.free /\ new[i].prev = NO_IDX
  BY <1>1, <1>6, RelinkedFacts
<1> HIDE DEF new
<1>8. e.nr_active \in [Protos -> Int]
  BY <1>1, <1>2, <1>3
<1>9. i \in Link
  BY DEF Link
<1>10. e.list \in Link /\ e.list_last \in Link
  BY <1>1, <1>2, <1>3
<1>11. e \in Tables
  BY <1>3, <1>4, <1>7, <1>8, <1>9, <1>10 DEF Tables
<1>12. \A x \in Idx : Same(d.table[x], e.table[x])
  BY <1>3, <1>5, <1>6, <1>7 DEF Same
<1>13. \A x \in Idx : Nexts(e)[x] = new[x].next /\ Prevs(e)[x] = new[x].prev
  BY <1>3, <1>11, TableFacts
<1>14. Nexts(e)[i] = d.free /\ Prevs(e)[i] = NO_IDX
  BY <1>7, <1>13
<1>15. \A x \in Idx : x # i /\ x # p => Nexts(e)[x] = Nexts(d)[x]
  BY <1>1, <1>5, <1>6, <1>7, <1>13
<1>16. \A x \in Idx : x # i /\ x # n => Prevs(e)[x] = Prevs(d)[x]
  BY <1>1, <1>5, <1>6, <1>7, <1>13
<1>17. ASSUME p # NO_IDX, p # i PROVE Nexts(e)[p] = n
  <2>1. p \in Idx
    BY <1>2, <1>17 DEF Link
  <2> QED
    BY <1>6, <1>7, <1>13, <1>17, <2>1
<1>18. ASSUME n # NO_IDX, n # i PROVE Prevs(e)[n] = p
  <2>1. n \in Idx
    BY <1>2, <1>18 DEF Link
  <2> QED
    BY <1>5, <1>6, <1>7, <1>13, <1>18, <2>1
<1> QED
  BY <1>1, <1>2, <1>11, <1>12, <1>14, <1>15, <1>16, <1>17, <1>18 DEF e

LEMMA InsertedFields ==
  ASSUME NEW d, NEW i
  PROVE  /\ ip_napt_insert(d, i).table = LinkPrev(Relinked(d.table, i, d.list), d.list, i)
         /\ ip_napt_insert(d, i).list = i
         /\ d.list_last = NO_IDX => ip_napt_insert(d, i).list_last = i
         /\ d.list_last # NO_IDX => ip_napt_insert(d, i).list_last = d.list_last
         /\ ip_napt_insert(d, i).free = d.table[i].next
         /\ ip_napt_insert(d, i).nr_active = [d.nr_active EXCEPT ![d.table[i].proto] = @ + 1]
BY DEF ip_napt_insert, Relinked

LEMMA InsertedFacts ==
  ASSUME NEW d \in Tables, NEW i \in Idx, d.list # i
  PROVE  /\ ip_napt_insert(d, i) \in Tables
         /\ \A x \in Idx : Same(d.table[x], ip_napt_insert(d, i).table[x])
         /\ d.table[i].proto \in Protos
         /\ ip_napt_insert(d, i).free = Nexts(d)[i]
         /\ Nexts(ip_napt_insert(d, i))[i] = d.list
         /\ Prevs(ip_napt_insert(d, i))[i] = NO_IDX
         /\ \A x \in Idx : x # i => Nexts(ip_napt_insert(d, i))[x] = Nexts(d)[x]
         /\ \A x \in Idx : x # i /\ x # d.list => Prevs(ip_napt_insert(d, i))[x] = Prevs(d)[x]
         /\ d.list # NO_IDX => Prevs(ip_napt_insert(d, i))[d.list] = i
<1> DEFINE e == ip_napt_insert(d, i)
           one == Relinked(d.table, i, d.list)
           new == LinkPrev(one, d.list, i)
<1>1. /\ d.table \in [Idx -> Entries] /\ d.table[i] \in Entries
      /\ d.list \in Link /\ d.list_last \in Link /\ d.free \in Link
      /\ d.nr_active \in [Protos -> Int]
      /\ \A x \in Idx : Nexts(d)[x] = d.table[x].next /\ Prevs(d)[x] = d.table[x].prev
  BY TableFacts
<1>2. d.table[i].proto \in Protos /\ d.table[i].next \in Link /\ i \in Link
  BY <1>1, EntryFacts DEF Link
<1>3. /\ e.table = new
      /\ e.list = i
      /\ e.list_last \in {i, d.list_last}
      /\ e.free = d.table[i].next
      /\ e.nr_active = [d.nr_active EXCEPT ![d.table[i].proto] = @ + 1]
  BY InsertedFields
<1>4. e = [table |-> e.table, list |-> e.list, list_last |-> e.list_last, free |-> e.free,
           nr_active |-> e.nr_active]
  BY DEF ip_napt_insert
<1> HIDE DEF e
<1>5. /\ one \in [Idx -> Entries]
      /\ \A x \in Idx : Same(d.table[x], one[x])
      /\ \A x \in Idx : x # i => one[x].next = d.table[x].next /\ one[x].prev = d.table[x].prev
      /\ one[i].next = d.list /\ one[i].prev = NO_IDX
  BY <1>1, RelinkedFacts
<1> HIDE DEF one
<1>6. /\ new \in [Idx -> Entries]
      /\ \A x \in Idx : Same(one[x], new[x]) /\ new[x].next = one[x].next
      /\ \A x \in Idx : x # d.list => new[x].prev = one[x].prev
      /\ d.list # NO_IDX => new[d.list].prev = i
  <2>1. one \in [Idx -> Entries] /\ d.list \in Link /\ i \in Link
    BY <1>1, <1>2, <1>5
  <2> QED
    BY <2>1, LinkPrevFacts
<1> HIDE DEF new
<1>7. e.nr_active \in [Protos -> Int]
  BY <1>1, <1>2, <1>3
<1>8. e.list \in Link /\ e.list_last \in Link /\ e.free \in Link
  BY <1>1, <1>2, <1>3
<1>9. e \in Tables
  BY <1>3, <1>4, <1>6, <1>7, <1>8 DEF Tables
<1>10. \A x \in Idx : Same(d.table[x], e.table[x])
  BY <1>3, <1>5, <1>6 DEF Same
<1>11. \A x \in Idx : Nexts(e)[x] = new[x].next /\ Prevs(e)[x] = new[x].prev
  BY <1>3, <1>9, TableFacts
<1>12. Nexts(e)[i] = d.list /\ Prevs(e)[i] = NO_IDX
  BY <1>5, <1>6, <1>11
<1>13. \A x \in Idx : x # i => Nexts(e)[x] = Nexts(d)[x]
  BY <1>1, <1>5, <1>6, <1>11
<1>14. \A x \in Idx : x # i /\ x # d.list => Prevs(e)[x] = Prevs(d)[x]
  BY <1>1, <1>5, <1>6, <1>11
<1>15. ASSUME d.list # NO_IDX PROVE Prevs(e)[d.list] = i
  <2>1. d.list \in Idx
    BY <1>1, <1>15 DEF Link
  <2> QED
    BY <1>6, <1>11, <1>15, <2>1
<1> QED
  BY <1>1, <1>2, <1>3, <1>9, <1>10, <1>12, <1>13, <1>14, <1>15 DEF e

-----------------------------------------------------------------------------
(* The two lists of a table. *)

\* The entries of S that have a session of the protocol.
Of(d, S, proto) == {x \in S : d.table[x].proto = proto}

Counted(d, S) == \A p \in Protos : d.nr_active[p] = Cardinality(Of(d, S, p))

\* Every entry is in one of the two, once.
Split(A, F) ==
    /\ NoRepeats(A) /\ NoRepeats(F)
    /\ Members(A) \cap Members(F) = {}
    /\ Members(A) \cup Members(F) = Idx
    /\ Len(A) + Len(F) = NaptMax

\* A is the list in use and F the list of the free entries.
ListsAre(d, A, F) ==
    /\ Split(A, F)
    /\ d.list = At(A, 1) /\ d.list_last = At(A, Len(A)) /\ d.free = At(F, 1)
    /\ Doubly(Nexts(d), Prevs(d), A)
    /\ Chain(Nexts(d), F)
    /\ Counted(d, Members(A))

LEMMA IdxFinite == IsFiniteSet(Idx)
<1>1. 0 \in Int /\ NaptMax - 1 \in Int
  BY NaptAssumption
<1> QED
  BY <1>1, FS_Interval DEF Idx

\* One entry more, for two tables that agree on the protocols.
LEMMA OneMore ==
  ASSUME NEW d, NEW e, NEW S, S \subseteq Idx, NEW i \in Idx \ S, NEW p,
         \A x \in Idx : e.table[x].proto = d.table[x].proto
  PROVE  /\ d.table[i].proto = p =>
               Cardinality(Of(e, S \cup {i}, p)) = Cardinality(Of(d, S, p)) + 1
         /\ d.table[i].proto # p =>
               Cardinality(Of(e, S \cup {i}, p)) = Cardinality(Of(d, S, p))
         /\ Cardinality(Of(d, S, p)) \in Nat
<1>1. Of(d, S, p) \subseteq Idx /\ i \notin Of(d, S, p)
  BY DEF Of
<1>2. IsFiniteSet(Of(d, S, p))
  BY <1>1, IdxFinite, FS_Subset
<1>3. Cardinality(Of(d, S, p)) \in Nat
  BY <1>2, FS_CardinalityType
<1>4. ASSUME d.table[i].proto = p
      PROVE  Cardinality(Of(e, S \cup {i}, p)) = Cardinality(Of(d, S, p)) + 1
  <2>1. Of(e, S \cup {i}, p) = Of(d, S, p) \cup {i}
    BY <1>4 DEF Of
  <2> QED
    BY <1>1, <1>2, <2>1, FS_AddElement
<1>5. ASSUME d.table[i].proto # p
      PROVE  Cardinality(Of(e, S \cup {i}, p)) = Cardinality(Of(d, S, p))
  <2>1. Of(e, S \cup {i}, p) = Of(d, S, p)
    BY <1>5 DEF Of
  <2> QED
    BY <2>1
<1> QED
  BY <1>3, <1>4, <1>5

\* The counters after an entry was taken out, and after one was put in.
LEMMA CountedFreed ==
  ASSUME NEW d \in Tables, NEW S, S \subseteq Idx, NEW i \in Idx \ S, Counted(d, S \cup {i})
  PROVE  Counted(ip_napt_free(d, i), S)
<1> DEFINE e == ip_napt_free(d, i)
           q == d.table[i].proto
<1>1. /\ \A x \in Idx : e.table[x].proto = d.table[x].proto
      /\ q \in Protos
      /\ e.nr_active = [d.nr_active EXCEPT ![q] = @ - 1]
      /\ d.nr_active \in [Protos -> Int]
  BY FreedFacts, FreedFields, TableFacts DEF Same
<1> HIDE DEF e
<1> SUFFICES ASSUME NEW p \in Protos
             PROVE  e.nr_active[p] = Cardinality(Of(e, S, p))
  BY DEF Counted, e
<1>2. /\ q = p => Cardinality(Of(d, S \cup {i}, p)) = Cardinality(Of(e, S, p)) + 1
      /\ q # p => Cardinality(Of(d, S \cup {i}, p)) = Cardinality(Of(e, S, p))
      /\ Cardinality(Of(e, S, p)) \in Nat
  <2>1. \A x \in Idx : d.table[x].proto = e.table[x].proto
    BY <1>1
  <2>2. /\ e.table[i].proto = p => Cardinality(Of(d, S \cup {i}, p)) = Cardinality(Of(e, S, p)) + 1
        /\ e.table[i].proto # p => Cardinality(Of(d, S \cup {i}, p)) = Cardinality(Of(e, S, p))
        /\ Cardinality(Of(e, S, p)) \in Nat
    BY <2>1, OneMore
  <2> QED
    BY <2>1, <2>2
<1>3. d.nr_active[p] = Cardinality(Of(d, S \cup {i}, p))
  BY DEF Counted
<1> HIDE DEF q
<1>4. CASE q = p
  BY <1>1, <1>2, <1>3, <1>4
<1>5. CASE q # p
  BY <1>1, <1>2, <1>3, <1>5
<1> QED
  BY <1>4, <1>5

LEMMA CountedInserted ==
  ASSUME NEW d \in Tables, NEW S, S \subseteq Idx, NEW i \in Idx \ S, Counted(d, S), d.list # i
  PROVE  Counted(ip_napt_insert(d, i), S \cup {i})
<1> DEFINE e == ip_napt_insert(d, i)
           q == d.table[i].proto
<1>1. /\ \A x \in Idx : e.table[x].proto = d.table[x].proto
      /\ q \in Protos
      /\ e.nr_active = [d.nr_active EXCEPT ![q] = @ + 1]
      /\ d.nr_active \in [Protos -> Int]
  BY InsertedFacts, InsertedFields, TableFacts DEF Same
<1> HIDE DEF e
<1> SUFFICES ASSUME NEW p \in Protos
             PROVE  e.nr_active[p] = Cardinality(Of(e, S \cup {i}, p))
  BY DEF Counted, e
<1>2. /\ q = p => Cardinality(Of(e, S \cup {i}, p)) = Cardinality(Of(d, S, p)) + 1
      /\ q # p => Cardinality(Of(e, S \cup {i}, p)) = Cardinality(Of(d, S, p))
      /\ Cardinality(Of(d, S, p)) \in Nat
  BY <1>1, OneMore
<1>3. d.nr_active[p] = Cardinality(Of(d, S, p))
  BY DEF Counted
<1> HIDE DEF q
<1>4. CASE q = p
  BY <1>1, <1>2, <1>3, <1>4
<1>5. CASE q # p
  BY <1>1, <1>2, <1>3, <1>5
<1> QED
  BY <1>4, <1>5

\* ip_napt_free moves an entry from anywhere in the list in use to the front
\* of the free ones.
LEMMA FreeKeeps ==
  ASSUME NEW d \in Tables, NEW A \in Seq(Idx), NEW F \in Seq(Idx), ListsAre(d, A, F),
         NEW k \in 1 .. Len(A)
  PROVE  /\ A[k] \in Idx
         /\ \E A2, F2 \in Seq(Idx) :
              Deleted(A, A2, k) /\ Pushed(F, F2, A[k]) /\ ListsAre(ip_napt_free(d, A[k]), A2, F2)
<1> DEFINE i == A[k]
           e == ip_napt_free(d, i)
           n == Nexts(d)[i]
           p == Prevs(d)[i]
<1>0. /\ Len(A) \in Nat /\ Len(F) \in Nat /\ k \in Int /\ i \in Idx
      /\ NO_IDX \notin Idx
      /\ \A j \in 1 .. Len(A) : At(A, j) = A[j] /\ A[j] \in Idx /\ A[j] # NO_IDX
      /\ \A j \in Int : j \notin 1 .. Len(A) => At(A, j) = NO_IDX
  BY AtFacts
<1>1. /\ NoRepeats(A) /\ NoRepeats(F)
      /\ Members(A) \cap Members(F) = {} /\ Members(A) \cup Members(F) = Idx
      /\ Len(A) + Len(F) = NaptMax
      /\ d.list = At(A, 1) /\ d.list_last = At(A, Len(A)) /\ d.free = At(F, 1)
      /\ Doubly(Nexts(d), Prevs(d), A) /\ Chain(Nexts(d), F)
      /\ Counted(d, Members(A))
  BY DEF ListsAre, Split
<1>2. PICK A2 \in Seq(Idx) : Deleted(A, A2, k)
  BY RemoveAtDeletes
<1>3. PICK F2 \in Seq(Idx) : Pushed(F, F2, i)
  BY <1>0, Push
<1>4. i \in Members(A) /\ i \notin Members(F)
  BY <1>1 DEF Members
<1>5. n = At(A, k + 1) /\ p = At(A, k - 1)
  BY <1>1 DEF Doubly, Chain
<1>6. n # i /\ p # i /\ n \notin Members(F) /\ p \notin Members(F)
  <2>1. k + 1 \in Int /\ k - 1 \in Int /\ k + 1 # k /\ k - 1 # k
    BY <1>0
  <2>2. ASSUME NEW j \in Int, j # k
        PROVE  At(A, j) # i
    <3>1. CASE j \in 1 .. Len(A)
      BY <1>0, <1>1, <2>2, <3>1 DEF NoRepeats
    <3>2. CASE j \notin 1 .. Len(A)
      BY <1>0, <3>2
    <3> QED
      BY <3>1, <3>2
  <2>3. \A j \in Int : At(A, j) \in Members(A) \/ At(A, j) = NO_IDX
    BY <1>0 DEF Members
  <2>4. NO_IDX \notin Members(F)
    BY <1>0, <1>1
  <2> QED
    BY <1>1, <1>5, <2>1, <2>2, <2>3, <2>4
<1>7. /\ e \in Tables
      /\ \A x \in Idx : Same(d.table[x], e.table[x])
      /\ Nexts(e)[i] = d.free
      /\ Prevs(e)[i] = NO_IDX
      /\ \A x \in Idx : x # i /\ x # p => Nexts(e)[x] = Nexts(d)[x]
      /\ \A x \in Idx : x # i /\ x # n => Prevs(e)[x] = Prevs(d)[x]
      /\ p # NO_IDX => Nexts(e)[p] = n
      /\ n # NO_IDX => Prevs(e)[n] = p
  BY <1>0, <1>6, FreedFacts
<1>8. Nexts(d) \in Links /\ Prevs(d) \in Links /\ Nexts(e) \in Links /\ Prevs(e) \in Links
  BY <1>7, TableFacts
<1>9. /\ i = d.list => e.list = n
      /\ i # d.list => e.list = d.list
      /\ i = d.list_last => e.list_last = p
      /\ i # d.list_last => e.list_last = d.list_last
      /\ e.free = i
  <2>1. n = d.table[i].next /\ p = d.table[i].prev
    BY <1>0, TableFacts
  <2> HIDE DEF n, p
  <2> QED
    BY <2>1 DEF ip_napt_free
<1> HIDE DEF e, i, n, p
<1>10. /\ Doubly(Nexts(e), Prevs(e), A2)
       /\ At(A, 1) = i => At(A2, 1) = n
       /\ At(A, 1) # i => At(A2, 1) = At(A, 1)
       /\ At(A, Len(A)) = i => At(A2, Len(A2)) = p
       /\ At(A, Len(A)) # i => At(A2, Len(A2)) = At(A, Len(A))
  <2>1. /\ \A x \in Idx : x # i /\ x # Prevs(d)[i] => Nexts(e)[x] = Nexts(d)[x]
        /\ Prevs(d)[i] # NO_IDX => Nexts(e)[Prevs(d)[i]] = Nexts(d)[i]
        /\ \A x \in Idx : x # i /\ x # Nexts(d)[i] => Prevs(e)[x] = Prevs(d)[x]
        /\ Nexts(d)[i] # NO_IDX => Prevs(e)[Nexts(d)[i]] = Prevs(d)[i]
        /\ i = A[k]
    BY <1>7 DEF n, p, i
  <2> DEFINE n1 == Nexts(e)
             p1 == Prevs(e)
  <2>2. n1 \in Links /\ p1 \in Links
    BY <1>8
  <2>3. /\ \A x \in Idx : x # i /\ x # Prevs(d)[i] => n1[x] = Nexts(d)[x]
        /\ Prevs(d)[i] # NO_IDX => n1[Prevs(d)[i]] = Nexts(d)[i]
        /\ \A x \in Idx : x # i /\ x # Nexts(d)[i] => p1[x] = Prevs(d)[x]
        /\ Nexts(d)[i] # NO_IDX => p1[Nexts(d)[i]] = Prevs(d)[i]
        /\ i = A[k] /\ k \in Int
    BY <1>0, <2>1
  <2> HIDE DEF n1, p1
  <2>4. /\ Doubly(n1, p1, A2)
        /\ At(A, 1) = i => At(A2, 1) = Nexts(d)[i]
        /\ At(A, 1) # i => At(A2, 1) = At(A, 1)
        /\ At(A, Len(A)) = i => At(A2, Len(A2)) = Prevs(d)[i]
        /\ At(A, Len(A)) # i => At(A2, Len(A2)) = At(A, Len(A))
    BY <1>1, <1>2, <1>8, <2>2, <2>3, DeletedLinks
  <2> QED
    BY <2>4 DEF n, p, n1, p1
<1>11. e.list = At(A2, 1) /\ e.list_last = At(A2, Len(A2))
  BY <1>1, <1>9, <1>10
<1>12. Chain(Nexts(e), F2)
  <2>1. \A x \in Members(F) : x \in Idx /\ x # i /\ x # p
    BY <1>1, <1>4, <1>6
  <2>2. \A x \in Members(F) : Nexts(e)[x] = Nexts(d)[x]
    BY <1>7, <2>1
  <2>3. Chain(Nexts(e), F)
    BY <1>1, <2>2, ChainSame
  <2> QED
    BY <1>1, <1>3, <1>7, <2>3, PushedChain
<1>13. e.free = At(F2, 1)
  BY <1>3, <1>9, AtPushed
<1>14. /\ Members(A2) = Members(A) \ {i} /\ NoRepeats(A2)
  BY <1>0, <1>1, <1>2, DeletedMembers DEF i
<1>15. /\ Members(F2) = Members(F) \cup {i} /\ NoRepeats(F2)
  BY <1>0, <1>1, <1>3, <1>4, PushedMembers
<1>16. Len(A2) + Len(F2) = NaptMax
  <2>1. Len(A2) = Len(A) - 1 /\ Len(F2) = Len(F) + 1
    BY <1>2, <1>3 DEF Deleted, Pushed
  <2> QED
    BY <1>0, <1>1, <2>1
<1>17. Split(A2, F2)
  BY <1>1, <1>4, <1>14, <1>15, <1>16 DEF Split
<1>18. Counted(e, Members(A2))
  <2>1. Members(A2) \subseteq Idx /\ i \in Idx \ Members(A2) /\ Members(A2) \cup {i} = Members(A)
    BY <1>0, <1>1, <1>4, <1>14
  <2> QED
    BY <1>1, <2>1, CountedFreed DEF e
<1>19. ListsAre(e, A2, F2)
  BY <1>10, <1>11, <1>12, <1>13, <1>17, <1>18 DEF ListsAre
<1> QED
  BY <1>0, <1>2, <1>3, <1>19 DEF e, i

\* ip_napt_insert moves the first free entry to the front of the list in use.
LEMMA InsertKeeps ==
  ASSUME NEW d \in Tables, NEW A \in Seq(Idx), NEW F \in Seq(Idx), ListsAre(d, A, F),
         NEW i \in Idx, d.free = i
  PROVE  \E A2, F2 \in Seq(Idx) :
            /\ Pushed(A, A2, i) /\ Pushed(F2, F, i)
            /\ ListsAre(ip_napt_insert(d, i), A2, F2)
<1> DEFINE e == ip_napt_insert(d, i)
<1>0. /\ Len(A) \in Nat /\ Len(F) \in Nat
      /\ NO_IDX \notin Idx
      /\ \A j \in 1 .. Len(A) : At(A, j) = A[j] /\ A[j] \in Idx /\ A[j] # NO_IDX
      /\ \A j \in Int : j \notin 1 .. Len(A) => At(A, j) = NO_IDX
  BY AtFacts
<1>1. /\ NoRepeats(A) /\ NoRepeats(F)
      /\ Members(A) \cap Members(F) = {} /\ Members(A) \cup Members(F) = Idx
      /\ Len(A) + Len(F) = NaptMax
      /\ d.list = At(A, 1) /\ d.list_last = At(A, Len(A)) /\ d.free = At(F, 1)
      /\ Doubly(Nexts(d), Prevs(d), A) /\ Chain(Nexts(d), F)
      /\ Counted(d, Members(A))
  BY DEF ListsAre, Split
<1>2. F # <<>> /\ F[1] = i
  BY <1>0, <1>1, AtFacts DEF At
<1>3. PICK F2 \in Seq(Idx) : Pushed(F2, F, i)
  BY <1>2, Pop
<1>4. PICK A2 \in Seq(Idx) : Pushed(A, A2, i)
  BY Push
<1>5. /\ Members(F) = Members(F2) \cup {i} /\ NoRepeats(F2) /\ i \notin Members(F2)
  BY <1>1, <1>3, PushedMembers
<1>6. i \notin Members(A) /\ i \in Members(F)
  BY <1>1, <1>5
<1>7. /\ Members(A2) = Members(A) \cup {i} /\ NoRepeats(A2)
  BY <1>1, <1>4, <1>6, PushedMembers
<1>8. At(A, 1) \in Members(A) \/ At(A, 1) = NO_IDX
  <2>1. 1 \in Int
    OBVIOUS
  <2> QED
    BY <1>0, <2>1 DEF Members
<1>9. d.list # i
  BY <1>0, <1>1, <1>6, <1>8
<1>10. /\ e \in Tables
       /\ e.free = Nexts(d)[i]
       /\ Nexts(e)[i] = d.list
       /\ Prevs(e)[i] = NO_IDX
       /\ \A x \in Idx : x # i => Nexts(e)[x] = Nexts(d)[x]
       /\ \A x \in Idx : x # i /\ x # d.list => Prevs(e)[x] = Prevs(d)[x]
       /\ d.list # NO_IDX => Prevs(e)[d.list] = i
  BY <1>9, InsertedFacts
<1>11. Nexts(d) \in Links /\ Prevs(d) \in Links /\ Nexts(e) \in Links /\ Prevs(e) \in Links
  BY <1>10, TableFacts
<1>12. /\ e.list = i
       /\ d.list_last = NO_IDX => e.list_last = i
       /\ d.list_last # NO_IDX => e.list_last = d.list_last
  BY DEF ip_napt_insert
<1> HIDE DEF e
<1>13. /\ Doubly(Nexts(e), Prevs(e), A2)
       /\ At(A2, 1) = i
       /\ At(A, Len(A)) = NO_IDX => At(A2, Len(A2)) = i
       /\ At(A, Len(A)) # NO_IDX => At(A2, Len(A2)) = At(A, Len(A))
  BY <1>1, <1>4, <1>6, <1>10, <1>11, PushedLinks
<1>14. e.list = At(A2, 1) /\ e.list_last = At(A2, Len(A2))
  BY <1>1, <1>12, <1>13
<1>15. Chain(Nexts(d), F2) /\ Nexts(d)[i] = At(F2, 1)
  BY <1>1, <1>3, PoppedChain
<1>16. Chain(Nexts(e), F2)
  <2>1. \A x \in Members(F2) : x \in Idx /\ x # i
    BY <1>1, <1>5
  <2>2. \A x \in Members(F2) : Nexts(e)[x] = Nexts(d)[x]
    BY <1>10, <2>1
  <2> QED
    BY <1>15, <2>2, ChainSame
<1>17. Len(A2) + Len(F2) = NaptMax
  <2>1. Len(A2) = Len(A) + 1 /\ Len(F) = Len(F2) + 1 /\ Len(F2) \in Nat
    BY <1>3, <1>4 DEF Pushed
  <2> QED
    BY <1>0, <1>1, <2>1
<1>18. Split(A2, F2)
  BY <1>1, <1>5, <1>6, <1>7, <1>17 DEF Split
<1>19. Counted(e, Members(A2))
  <2>1. Members(A) \subseteq Idx /\ i \in Idx \ Members(A)
    BY <1>1, <1>6
  <2>2. Counted(e, Members(A) \cup {i})
    BY <1>1, <1>9, <2>1, CountedInserted DEF e
  <2> QED
    BY <1>7, <2>2
<1>20. ListsAre(e, A2, F2)
  BY <1>10, <1>13, <1>14, <1>15, <1>16, <1>18, <1>19 DEF ListsAre
<1> QED
  BY <1>3, <1>4, <1>20 DEF e

-----------------------------------------------------------------------------
(* Changes of one entry, and the entries that a search reclaims. *)

SetEntry(d, i, t) == [d EXCEPT !.table[i] = t]

LEMMA SetEntryFacts ==
  ASSUME NEW d \in Tables, NEW i \in Idx, NEW t \in Entries
  PROVE  /\ SetEntry(d, i, t) \in Tables
         /\ SetEntry(d, i, t).table[i] = t
         /\ \A x \in Idx : x # i => SetEntry(d, i, t).table[x] = d.table[x]
         /\ SetEntry(d, i, t).list = d.list /\ SetEntry(d, i, t).list_last = d.list_last
         /\ SetEntry(d, i, t).free = d.free /\ SetEntry(d, i, t).nr_active = d.nr_active
<1>1. d.table \in [Idx -> Entries]
  BY TableFacts
<1> DEFINE new == [d.table EXCEPT ![i] = t]
<1>2. new \in [Idx -> Entries] /\ new[i] = t /\ \A x \in Idx : x # i => new[x] = d.table[x]
  BY <1>1
<1>3. SetEntry(d, i, t) = [d EXCEPT !.table = new]
  BY DEF SetEntry
<1> HIDE DEF new
<1> QED
  BY <1>2, <1>3 DEF Tables

\* d and e differ only in what the entries hold besides their links.
SameLists(d, e) ==
    /\ e.list = d.list /\ e.list_last = d.list_last /\ e.free = d.free
    /\ e.nr_active = d.nr_active
    /\ \A x \in Idx : e.table[x].next = d.table[x].next /\ e.table[x].prev = d.table[x].prev

LEMMA SameListsKeep ==
  ASSUME NEW d \in Tables, NEW e \in Tables, NEW A \in Seq(Idx), NEW F \in Seq(Idx),
         ListsAre(d, A, F), SameLists(d, e),
         \A x \in Members(A) : e.table[x].proto = d.table[x].proto
  PROVE  ListsAre(e, A, F)
<1>1. Nexts(e) = Nexts(d) /\ Prevs(e) = Prevs(d)
  BY DEF SameLists, Nexts, Prevs
<1>2. Counted(e, Members(A))
  <2>1. \A p \in Protos : Of(e, Members(A), p) = Of(d, Members(A), p)
    BY DEF Of
  <2>2. e.nr_active = d.nr_active
    BY DEF SameLists
  <2> QED
    BY <2>1, <2>2 DEF ListsAre, Counted
<1> QED
  BY <1>1, <1>2 DEF ListsAre, SameLists

LEMMA SetEntryKeeps ==
  ASSUME NEW d \in Tables, NEW i \in Idx, NEW t \in Entries,
         t.next = d.table[i].next, t.prev = d.table[i].prev,
         NEW A \in Seq(Idx), NEW F \in Seq(Idx), ListsAre(d, A, F),
         i \in Members(A) => t.proto = d.table[i].proto
  PROVE  ListsAre(SetEntry(d, i, t), A, F)
<1> DEFINE e == SetEntry(d, i, t)
<1>1. /\ e \in Tables /\ e.table[i] = t
      /\ \A x \in Idx : x # i => e.table[x] = d.table[x]
      /\ e.list = d.list /\ e.list_last = d.list_last
      /\ e.free = d.free /\ e.nr_active = d.nr_active
  BY SetEntryFacts
<1> HIDE DEF e
<1>2. SameLists(d, e)
  BY <1>1 DEF SameLists
<1>3. Members(A) \subseteq Idx
  BY DEF ListsAre, Split
<1>4. \A x \in Members(A) : e.table[x].proto = d.table[x].proto
  BY <1>1, <1>3
<1>5. ListsAre(e, A, F)
  BY <1>1, <1>2, <1>4, SameListsKeep
<1> QED
  BY <1>5 DEF e

LEMMA EntryInEntries == Entry \in Entries /\ NO_IDX \in Link
<1>1. "TCP" \in Protos /\ {} \in SUBSET FlagNames /\ 0 \in Nat /\ NO_IDX \in Link
  BY DEF Protos, Link
<1> QED
  BY <1>1 DEF Entry, Entries

\* A search reclaims an entry as ip_napt_free does, for whoever reads the lists.
LEMMA ReclaimKeeps ==
  ASSUME NEW d \in Tables, NEW A \in Seq(Idx), NEW F \in Seq(Idx), ListsAre(d, A, F),
         NEW k \in 1 .. Len(A)
  PROVE  /\ Reclaim(d, A[k]) \in Tables
         /\ \A x \in Idx : x # A[k] => Same(d.table[x], Reclaim(d, A[k]).table[x])
         /\ \E A2, F2 \in Seq(Idx) :
              /\ Members(A2) = Members(A) \ {A[k]}
              /\ ListsAre(Reclaim(d, A[k]), A2, F2)
<1> DEFINE i == A[k]
           f == ip_napt_free(d, i)
           one == [Entry EXCEPT !.next = f.table[i].next]
           two == [one EXCEPT !.prev = NO_IDX]
<1>1. i \in Idx /\ k \in Int
  BY FreeKeeps
<1>2. PICK A2 \in Seq(Idx), F2 \in Seq(Idx) :
        Deleted(A, A2, k) /\ Pushed(F, F2, i) /\ ListsAre(f, A2, F2)
  BY FreeKeeps
<1>3. Members(A2) = Members(A) \ {i}
  BY <1>1, <1>2, DeletedMembers DEF ListsAre, Split
<1> HIDE DEF i
<1>4. /\ f \in Tables /\ \A x \in Idx : Same(d.table[x], f.table[x])
      /\ Prevs(f)[i] = NO_IDX
  BY <1>1, FreedFacts
<1> HIDE DEF f
<1>5. f.table[i] \in Entries /\ f.table[i].next \in Link /\ f.table[i].prev = NO_IDX
  <2>1. f.table[i] \in Entries /\ Prevs(f)[i] = f.table[i].prev
    BY <1>1, <1>4, TableFacts
  <2> QED
    BY <1>4, <2>1, EntryFacts
<1>6. one \in Entries /\ one.next = f.table[i].next
  BY <1>5, EntryInEntries, EntryFacts
<1> HIDE DEF one
<1>7. two \in Entries /\ two.next = f.table[i].next /\ two.prev = NO_IDX
  BY <1>6, EntryInEntries, EntryFacts
<1>8. Reclaim(d, i) = SetEntry(f, i, two)
  BY DEF Reclaim, SetEntry, f, one
<1> HIDE DEF two
<1>9. i \notin Members(A2)
  BY <1>3
<1>10. /\ ListsAre(SetEntry(f, i, two), A2, F2)
  BY <1>1, <1>2, <1>4, <1>5, <1>7, <1>9, SetEntryKeeps
<1>11. /\ SetEntry(f, i, two) \in Tables
       /\ \A x \in Idx : x # i => SetEntry(f, i, two).table[x] = f.table[x]
  BY <1>1, <1>4, <1>7, SetEntryFacts
<1>12. \A x \in Idx : x # i => Same(d.table[x], SetEntry(f, i, two).table[x])
  BY <1>4, <1>11
<1> QED
  BY <1>3, <1>8, <1>10, <1>11, <1>12 DEF i

-----------------------------------------------------------------------------
(* The walk of ip_napt_find. *)

LEMMA ActiveIs ==
  ASSUME NEW d \in Tables, NEW A \in Seq(Idx), NEW F \in Seq(Idx), ListsAre(d, A, F)
  PROVE  /\ Active(d) = A
         /\ Walk(Nexts(d), d.free) = F
         /\ Walk(Prevs(d), d.list_last) = Reverse(A)
<1>1. /\ Len(A) \in Nat /\ Len(F) \in Nat /\ Len(A) + Len(F) = NaptMax
      /\ d.list = At(A, 1) /\ d.list_last = At(A, Len(A)) /\ d.free = At(F, 1)
      /\ Doubly(Nexts(d), Prevs(d), A) /\ Chain(Nexts(d), A) /\ Chain(Nexts(d), F)
  BY DEF ListsAre, Split, Doubly
<1>2. Len(A) <= NaptMax /\ Len(F) <= NaptMax
  BY <1>1
<1>3. Active(d) = A
  BY <1>1, <1>2, WalkIs DEF Active
<1>4. Walk(Nexts(d), d.free) = F
  BY <1>1, <1>2, WalkIs
<1>5. /\ Reverse(A) \in Seq(Idx) /\ Len(Reverse(A)) = Len(A)
      /\ Chain(Prevs(d), Reverse(A)) /\ At(Reverse(A), 1) = At(A, Len(A))
  BY <1>1, ReverseChain
<1>6. Walk(Prevs(d), At(Reverse(A), 1)) = Reverse(A)
  BY <1>2, <1>5, WalkIs
<1> QED
  BY <1>1, <1>3, <1>4, <1>5, <1>6

\* The positions of the entries looked for, where the walk ends, and what it
\* returns there.
Hits(d, A, wanted) == {k \in DOMAIN A : A[k] \in wanted /\ ~Expired(d.table[A[k]])}
LastOf(d, A, wanted) == IF Hits(d, A, wanted) = {} THEN Len(A) ELSE Min(Hits(d, A, wanted))
HitOf(d, A, wanted) ==
    IF Hits(d, A, wanted) = {} THEN NO_IDX ELSE A[LastOf(d, A, wanted)]

\* The table after k entries, from the table after k - 1.
FreedStep(f, d, A, k) ==
    IF k = 0 THEN d
    ELSE IF Expired(d.table[A[k]]) THEN Reclaim(f[k - 1], A[k]) ELSE f[k - 1]
Frees(f, d, A, m) == f = [k \in 0 .. m |-> FreedStep(f, d, A, k)]
FreedBy(d, A, m) == (CHOOSE f : Frees(f, d, A, m))[m]

LEMMA SearchIs ==
  ASSUME NEW d, NEW wanted
  PROVE  Search(d, wanted) =
           [d |-> Touched(FreedBy(d, Active(d), LastOf(d, Active(d), wanted)),
                          HitOf(d, Active(d), wanted)),
            hit |-> HitOf(d, Active(d), wanted)]
BY DEF Search, Hits, LastOf, HitOf, FreedStep, Frees, FreedBy

LEMMA FreesExists ==
  ASSUME NEW d, NEW A
  PROVE  \A m \in Nat : \E f : Frees(f, d, A, m)
<1> DEFINE T == {m \in Nat : \E f : Frees(f, d, A, m)}
<1>1. 0 \in T
  <2> DEFINE g == [k \in 0 .. 0 |-> d]
  <2>1. \A k \in 0 .. 0 : g[k] = FreedStep(g, d, A, k)
    BY DEF FreedStep
  <2>2. g = [k \in 0 .. 0 |-> FreedStep(g, d, A, k)]
    BY <2>1
  <2> QED
    BY <2>2 DEF Frees
<1>2. ASSUME NEW m \in Nat, m \in T
      PROVE  m + 1 \in T
  <2>1. PICK f : Frees(f, d, A, m)
    BY <1>2
  <2>2. f = [k \in 0 .. m |-> FreedStep(f, d, A, k)]
    BY <2>1 DEF Frees
  <2> DEFINE g == [k \in 0 .. m + 1 |-> IF k = m + 1 THEN FreedStep(f, d, A, k) ELSE f[k]]
  <2>3. ASSUME NEW k \in 0 .. m + 1
        PROVE  g[k] = FreedStep(f, d, A, k)
    BY <2>2
  <2>4. ASSUME NEW k \in 0 .. m + 1
        PROVE  FreedStep(f, d, A, k) = FreedStep(g, d, A, k)
    <3>1. CASE k = 0
      BY <3>1 DEF FreedStep
    <3>2. CASE k # 0
      <4>1. k - 1 \in 0 .. m + 1 /\ k - 1 # m + 1
        BY <3>2
      <4>2. g[k - 1] = f[k - 1]
        BY <4>1
      <4> QED
        BY <4>2 DEF FreedStep
    <3> QED
      BY <3>1, <3>2
  <2> HIDE DEF g
  <2>5. g = [k \in 0 .. m + 1 |-> g[k]]
    BY DEF g
  <2>6. \A k \in 0 .. m + 1 : g[k] = FreedStep(g, d, A, k)
    BY <2>3, <2>4
  <2>7. g = [k \in 0 .. m + 1 |-> FreedStep(g, d, A, k)]
    BY <2>5, <2>6
  <2>8. Frees(g, d, A, m + 1)
    BY <2>7 DEF Frees
  <2> QED
    BY <2>8
<1> HIDE DEF T
<1>3. \A m \in Nat : m \in T
  BY <1>1, <1>2, NumberInduction
<1> QED
  BY <1>3 DEF T

\* The entries among the first k that have timed out.
Late(d, A, k) == {A[j] : j \in {i \in 1 .. k : Expired(d.table[A[i]])}}

\* e is what is left of d after k entries of A.
Walked(d, A, e, k) ==
    /\ e \in Tables
    /\ \A x \in Idx \ Late(d, A, k) : Same(d.table[x], e.table[x])
    /\ \E B, G \in Seq(Idx) :
          ListsAre(e, B, G) /\ Members(B) = Members(A) \ Late(d, A, k)

LEMMA OneWalked ==
  ASSUME NEW d \in Tables, NEW A \in Seq(Idx), NoRepeats(A),
         NEW k \in Nat, k + 1 <= Len(A), NEW e, Walked(d, A, e, k)
  PROVE  /\ Expired(d.table[A[k + 1]]) => Walked(d, A, Reclaim(e, A[k + 1]), k + 1)
         /\ ~Expired(d.table[A[k + 1]]) => Walked(d, A, e, k + 1)
<1> DEFINE i == A[k + 1]
<1>1. e \in Tables /\ \A x \in Idx \ Late(d, A, k) : Same(d.table[x], e.table[x])
  BY DEF Walked
<1>2. PICK B \in Seq(Idx), G \in Seq(Idx) :
        ListsAre(e, B, G) /\ Members(B) = Members(A) \ Late(d, A, k)
  BY DEF Walked
<1>3. k + 1 \in 1 .. Len(A) /\ Len(A) \in Nat
  OBVIOUS
<1>4. i \in Idx /\ i \in Members(A)
  BY <1>3 DEF Members
<1>5. i \notin Late(d, A, k)
  <2>1. ASSUME NEW j \in 1 .. k, A[j] = A[k + 1] PROVE FALSE
    <3>1. j \in 1 .. Len(A) /\ j # k + 1
      BY <1>3
    <3> QED
      BY <1>3, <2>1, <3>1 DEF NoRepeats
  <2> QED
    BY <2>1 DEF Late
<1>6. \A j \in 1 .. k + 1 : j \in 1 .. k \/ j = k + 1
  OBVIOUS
<1>7. k + 1 \in 1 .. k + 1 /\ \A j \in 1 .. k : j \in 1 .. k + 1
  OBVIOUS
<1>8. ASSUME Expired(d.table[i])
      PROVE  Walked(d, A, Reclaim(e, i), k + 1)
  <2>1. Late(d, A, k + 1) = Late(d, A, k) \cup {i}
    BY <1>6, <1>7, <1>8 DEF Late
  <2>2. i \in Members(B)
    BY <1>2, <1>4, <1>5
  <2>3. PICK j \in 1 .. Len(B) : B[j] = i
    BY <2>2 DEF Members
  <2> HIDE DEF i
  <2>4. /\ Reclaim(e, i) \in Tables
        /\ \A x \in Idx : x # i => Same(e.table[x], Reclaim(e, i).table[x])
        /\ \E B2, G2 \in Seq(Idx) :
              Members(B2) = Members(B) \ {i} /\ ListsAre(Reclaim(e, i), B2, G2)
    BY <1>1, <1>2, <2>3, ReclaimKeeps
  <2>5. PICK B2 \in Seq(Idx), G2 \in Seq(Idx) :
          Members(B2) = Members(B) \ {i} /\ ListsAre(Reclaim(e, i), B2, G2)
    BY <2>4
  <2>6. Members(B2) = Members(A) \ Late(d, A, k + 1)
    BY <1>2, <2>1, <2>5
  <2>7. \A x \in Idx \ Late(d, A, k + 1) : Same(d.table[x], Reclaim(e, i).table[x])
    BY <1>1, <2>1, <2>4 DEF Same
  <2> QED
    BY <2>4, <2>5, <2>6, <2>7 DEF Walked
<1>9. ASSUME ~Expired(d.table[i])
      PROVE  Walked(d, A, e, k + 1)
  <2>1. Late(d, A, k + 1) = Late(d, A, k)
    BY <1>6, <1>7, <1>9 DEF Late
  <2> QED
    BY <1>1, <1>2, <2>1 DEF Walked
<1> QED
  BY <1>8, <1>9

LEMMA AllWalked ==
  ASSUME NEW d \in Tables, NEW A \in Seq(Idx), NEW F \in Seq(Idx), ListsAre(d, A, F),
         NEW m \in 0 .. Len(A)
  PROVE  Walked(d, A, FreedBy(d, A, m), m)
<1> DEFINE f == CHOOSE g : Frees(g, d, A, m)
<1>1. Len(A) \in Nat /\ m \in Nat /\ m <= Len(A) /\ NoRepeats(A)
  BY DEF ListsAre, Split
<1>2. Frees(f, d, A, m)
  BY <1>1, FreesExists
<1> HIDE DEF f
<1>3. ASSUME NEW k \in 0 .. m
      PROVE  f[k] = FreedStep(f, d, A, k)
  BY <1>2 DEF Frees
<1> DEFINE T == {k \in Nat : k <= m => Walked(d, A, f[k], k)}
<1>4. 0 \in T
  <2>0. 0 \in 0 .. m
    BY <1>1
  <2>1. f[0] = d
    BY <1>3, <2>0 DEF FreedStep
  <2>2. Late(d, A, 0) = {}
    BY DEF Late
  <2>3. \A x \in Idx : Same(d.table[x], d.table[x])
    BY DEF Same
  <2>4. Walked(d, A, d, 0)
    BY <2>2, <2>3 DEF Walked
  <2> QED
    BY <2>1, <2>4
<1>5. ASSUME NEW k \in Nat, k \in T
      PROVE  k + 1 \in T
  <2> SUFFICES ASSUME k + 1 <= m PROVE Walked(d, A, f[k + 1], k + 1)
    OBVIOUS
  <2>1. k + 1 \in 0 .. m /\ k + 1 # 0 /\ (k + 1) - 1 = k /\ k <= m /\ k + 1 <= Len(A)
    BY <1>1
  <2>2. Walked(d, A, f[k], k)
    BY <1>5, <2>1
  <2>3. /\ Expired(d.table[A[k + 1]]) => f[k + 1] = Reclaim(f[k], A[k + 1])
        /\ ~Expired(d.table[A[k + 1]]) => f[k + 1] = f[k]
    BY <1>3, <2>1 DEF FreedStep
  <2>4. /\ Expired(d.table[A[k + 1]]) => Walked(d, A, Reclaim(f[k], A[k + 1]), k + 1)
        /\ ~Expired(d.table[A[k + 1]]) => Walked(d, A, f[k], k + 1)
    BY <1>1, <2>1, <2>2, OneWalked
  <2> QED
    BY <2>3, <2>4
<1> HIDE DEF T
<1>6. \A k \in Nat : k \in T
  BY <1>4, <1>5, NumberInduction
<1>7. Walked(d, A, f[m], m)
  BY <1>1, <1>6 DEF T
<1> QED
  BY <1>7 DEF FreedBy, f

\* Two states of an entry with the same session, and with the same links too.
SameSession(t, u) ==
    u.proto = t.proto /\ u.src = t.src /\ u.sport = t.sport /\ u.mport = t.mport
Kept(t, u) == SameSession(t, u) /\ u.next = t.next /\ u.prev = t.prev

LEMMA FieldFacts ==
  ASSUME NEW t \in Entries
  PROVE  /\ \A a \in Nat : /\ [t EXCEPT !.age = a] \in Entries
                           /\ Kept(t, [t EXCEPT !.age = a])
         /\ \A f \in SUBSET FlagNames : /\ [t EXCEPT !.flags = f] \in Entries
                                        /\ Kept(t, [t EXCEPT !.flags = f])
         /\ \A r \in Remotes : /\ [t EXCEPT !.dest = r] \in Entries
                               /\ Kept(t, [t EXCEPT !.dest = r])
         /\ \A p \in Ids \cup {Rport} : /\ [t EXCEPT !.dport = p] \in Entries
                                       /\ Kept(t, [t EXCEPT !.dport = p])
         /\ t.age \in Nat /\ t.flags \in SUBSET FlagNames
<1>1. ASSUME NEW a \in Nat
      PROVE  [t EXCEPT !.age = a] \in Entries /\ Kept(t, [t EXCEPT !.age = a])
  BY DEF Entries, Kept, SameSession
<1>2. ASSUME NEW f \in SUBSET FlagNames
      PROVE  [t EXCEPT !.flags = f] \in Entries /\ Kept(t, [t EXCEPT !.flags = f])
  BY DEF Entries, Kept, SameSession
<1>3. ASSUME NEW r \in Remotes
      PROVE  [t EXCEPT !.dest = r] \in Entries /\ Kept(t, [t EXCEPT !.dest = r])
  BY DEF Entries, Kept, SameSession
<1>5. ASSUME NEW p \in Ids \cup {Rport}
      PROVE  [t EXCEPT !.dport = p] \in Entries /\ Kept(t, [t EXCEPT !.dport = p])
  BY DEF Entries, Kept, SameSession
<1>4. t.age \in Nat /\ t.flags \in SUBSET FlagNames
  BY DEF Entries
<1> QED
  BY <1>1, <1>2, <1>3, <1>4, <1>5

LEMMA ExpiredSame ==
  ASSUME NEW t, NEW u, Same(t, u)
  PROVE  Expired(u) <=> Expired(t)
BY DEF Same, Expired

LEMMA TouchedFacts ==
  ASSUME NEW d \in Tables, NEW i \in Link,
         NEW A \in Seq(Idx), NEW F \in Seq(Idx), ListsAre(d, A, F)
  PROVE  /\ Touched(d, i) \in Tables
         /\ ListsAre(Touched(d, i), A, F)
         /\ \A x \in Idx : Kept(d.table[x], Touched(d, i).table[x])
         /\ i = NO_IDX => Touched(d, i) = d
<1>1. NO_IDX \notin Idx
  BY NaptAssumption DEF NO_IDX, Idx
<1>2. CASE i = NO_IDX
  <2>1. Touched(d, i) = d
    BY <1>2 DEF Touched
  <2>2. \A x \in Idx : Kept(d.table[x], d.table[x])
    BY DEF Kept, SameSession
  <2> QED
    BY <1>2, <2>1, <2>2
<1>3. CASE i # NO_IDX
  <2> DEFINE t == [d.table[i] EXCEPT !.age = 0]
             e == SetEntry(d, i, t)
  <2>1. i \in Idx /\ d.table[i] \in Entries
    BY <1>3, TableFacts DEF Link
  <2>2. t \in Entries /\ Kept(d.table[i], t)
    BY <2>1, FieldFacts
  <2>3. Touched(d, i) = e
    BY <1>3 DEF Touched, SetEntry
  <2> HIDE DEF t
  <2>4. e \in Tables /\ e.table[i] = t /\ \A x \in Idx : x # i => e.table[x] = d.table[x]
    BY <2>1, <2>2, SetEntryFacts
  <2>5. ListsAre(e, A, F)
    BY <2>1, <2>2, SetEntryKeeps DEF Kept, SameSession
  <2>6. \A x \in Idx : Kept(d.table[x], e.table[x])
    BY <2>2, <2>4 DEF Kept, SameSession
  <2> QED
    BY <1>3, <2>3, <2>4, <2>5, <2>6
<1> QED
  BY <1>2, <1>3

\* B and G are what a search for the entries in wanted, with result s, leaves
\* of the list A in use.
Found(d, A, wanted, s, B, G) ==
    /\ ListsAre(s.d, B, G)
    /\ Members(B) \subseteq Members(A)
    /\ \A x \in Members(B) : SameSession(d.table[x], s.d.table[x])
    /\ \A x \in Members(A) : ~Expired(d.table[x]) => x \in Members(B)
    /\ s.hit # NO_IDX => s.hit \in Members(B) /\ s.hit \in wanted
    /\ s.hit = NO_IDX => \A x \in Members(B) : ~Expired(s.d.table[x]) /\ x \notin wanted

\* What ip_napt_find does to the lists, whoever is looked for: all that is
\* left was there before, all that has not timed out is left, and if nothing
\* was found nothing that has timed out is.
LEMMA SearchFacts ==
  ASSUME NEW d \in Tables, NEW A \in Seq(Idx), NEW F \in Seq(Idx), ListsAre(d, A, F),
         NEW wanted
  PROVE  /\ Search(d, wanted).d \in Tables
         /\ Search(d, wanted).hit \in Link
         /\ \E B, G \in Seq(Idx) : Found(d, A, wanted, Search(d, wanted), B, G)
<1> DEFINE m == LastOf(d, A, wanted)
           H == Hits(d, A, wanted)
           h == HitOf(d, A, wanted)
           w == FreedBy(d, A, m)
           s == Search(d, wanted)
<1>0. /\ Len(A) \in Nat /\ DOMAIN A = 1 .. Len(A) /\ NO_IDX \notin Idx
      /\ \A j \in 1 .. Len(A) : A[j] \in Idx
  BY AtFacts
<1>1. H \subseteq 1 .. Len(A) /\ \A k \in H : ~Expired(d.table[A[k]]) /\ A[k] \in wanted
  BY <1>0 DEF Hits
<1>2. /\ H # {} => m \in H /\ h = A[m]
      /\ H = {} => m = Len(A) /\ h = NO_IDX
  <2>1. H # {} => Min(H) \in H
    BY <1>0, <1>1, FirstPosition
  <2> QED
    BY <2>1 DEF LastOf, HitOf
<1>3. m \in 0 .. Len(A)
  BY <1>0, <1>1, <1>2
<1>4. s = [d |-> Touched(w, h), hit |-> h]
  BY SearchIs, ActiveIs
<1> HIDE DEF H, m, h
<1>5. Walked(d, A, w, m)
  BY <1>3, AllWalked
<1> HIDE DEF w, s
<1>6. w \in Tables /\ \A x \in Idx \ Late(d, A, m) : Same(d.table[x], w.table[x])
  BY <1>5 DEF Walked
<1>7. PICK B \in Seq(Idx), G \in Seq(Idx) :
        ListsAre(w, B, G) /\ Members(B) = Members(A) \ Late(d, A, m)
  BY <1>5 DEF Walked
<1>8. Members(B) \subseteq Idx
  BY <1>7 DEF ListsAre, Split
<1>9. h \in Link
  BY <1>0, <1>1, <1>2 DEF Link
<1>10. s.d = Touched(w, h) /\ s.hit = h
  BY <1>4
<1>11. /\ s.d \in Tables
       /\ ListsAre(s.d, B, G)
       /\ \A x \in Idx : Kept(w.table[x], s.d.table[x])
       /\ h = NO_IDX => s.d = w
  BY <1>6, <1>7, <1>9, <1>10, TouchedFacts
<1>12. \A x \in Members(B) : SameSession(d.table[x], s.d.table[x])
  BY <1>6, <1>7, <1>8, <1>11 DEF Same, Kept, SameSession
<1>13. ASSUME h # NO_IDX
       PROVE  h \in Members(B) /\ h \in wanted
  <2>1. m \in 1 .. Len(A) /\ h = A[m] /\ ~Expired(d.table[h]) /\ h \in wanted
    BY <1>1, <1>2, <1>13
  <2>2. h \in Members(A)
    BY <2>1 DEF Members
  <2>3. h \notin Late(d, A, m)
    BY <2>1 DEF Late
  <2> QED
    BY <1>7, <2>1, <2>2, <2>3
<1>14. ASSUME h = NO_IDX, NEW x \in Members(B)
       PROVE  ~Expired(s.d.table[x]) /\ x \notin wanted
  <2>1. H = {} /\ m = Len(A)
    BY <1>0, <1>1, <1>2, <1>14
  <2>2. x \in Members(A) /\ x \notin Late(d, A, Len(A)) /\ x \in Idx
    BY <1>7, <1>8, <2>1
  <2>3. PICK j \in 1 .. Len(A) : A[j] = x
    BY <2>2 DEF Members
  <2>4. ~Expired(d.table[x])
    BY <2>2, <2>3 DEF Late
  <2>5. x \notin wanted
    BY <1>0, <2>1, <2>3, <2>4 DEF H, Hits
  <2>6. Same(d.table[x], w.table[x])
    BY <1>6, <2>1, <2>2
  <2>7. ~Expired(w.table[x])
    BY <2>4, <2>6, ExpiredSame
  <2> QED
    BY <1>11, <1>14, <2>5, <2>7
<1>16. \A x \in Members(A) : ~Expired(d.table[x]) => x \in Members(B)
  BY <1>7 DEF Late
<1>15. Found(d, A, wanted, s, B, G)
  BY <1>7, <1>10, <1>11, <1>12, <1>13, <1>14, <1>16 DEF Found
<1> QED
  BY <1>9, <1>10, <1>11, <1>15 DEF s

\* A live entry that is the only one looked for is found.
LEMMA SearchFinds ==
  ASSUME NEW d \in Tables, NEW A \in Seq(Idx), NEW F \in Seq(Idx), ListsAre(d, A, F),
         NEW wanted, NEW x \in Members(A), x \in wanted, ~Expired(d.table[x]),
         \A y \in Members(A) : y \in wanted => y = x
  PROVE  Search(d, wanted).hit = x
<1> DEFINE H == Hits(d, A, wanted)
<1>1. Len(A) \in Nat /\ DOMAIN A = 1 .. Len(A)
  OBVIOUS
<1>2. H \subseteq 1 .. Len(A) /\ \A k \in H : A[k] \in wanted
  BY <1>1 DEF Hits
<1>3. PICK j \in 1 .. Len(A) : A[j] = x
  BY DEF Members
<1>4. j \in H
  BY <1>1, <1>3 DEF Hits
<1>5. \A k \in H : A[k] = x
  BY <1>2 DEF Members
<1>6. Min(H) \in H
  BY <1>1, <1>2, <1>4, FirstPosition
<1>7. HitOf(d, A, wanted) = x
  BY <1>4, <1>5, <1>6 DEF HitOf, LastOf
<1>8. Search(d, wanted).hit = HitOf(d, Active(d), wanted)
  BY SearchIs
<1>9. Active(d) = A
  BY ActiveIs
<1> QED
  BY <1>7, <1>8, <1>9

-----------------------------------------------------------------------------
(* The ports of the sessions, and what each way to change a table keeps. *)

\* Two sessions of one protocol have different ports outside.
PortsDiffer(d, S) ==
    /\ \A x \in S : d.table[x].proto # "ICMP" => d.table[x].mport \in PortRange
    /\ \A x, y \in S : /\ d.table[x].proto # "ICMP" /\ d.table[x].proto = d.table[y].proto
                       /\ d.table[x].mport = d.table[y].mport
                       => x = y

Sound(d, A, F) == ListsAre(d, A, F) /\ PortsDiffer(d, Members(A))

\* e has every session of d, or every one that had not timed out, in the entry
\* where it was.
KeepsAll(d, e) ==
    \A x \in Members(Active(d)) :
        x \in Members(Active(e)) /\ SameSession(d.table[x], e.table[x])
KeepsLive(d, e) ==
    \A x \in Members(Active(d)) : ~Expired(d.table[x]) =>
        x \in Members(Active(e)) /\ SameSession(d.table[x], e.table[x])

LEMMA KeepsBoth ==
  ASSUME NEW d, NEW e, NEW g, KeepsLive(d, e), KeepsAll(e, g)
  PROVE  KeepsLive(d, g)
BY DEF KeepsLive, KeepsAll, SameSession

LEMMA KeepsAllBoth ==
  ASSUME NEW d, NEW e, NEW g, KeepsAll(d, e), KeepsAll(e, g)
  PROVE  KeepsAll(d, g)
BY DEF KeepsAll, SameSession

LEMMA KeepsSelf ==
  ASSUME NEW d
  PROVE  KeepsAll(d, d) /\ KeepsLive(d, d)
BY DEF KeepsAll, KeepsLive, SameSession

\* The same from sequences that the lists of d and e are.
LEMMA KeepsByLists ==
  ASSUME NEW d \in Tables, NEW A \in Seq(Idx), NEW F \in Seq(Idx), ListsAre(d, A, F),
         NEW e \in Tables, NEW B \in Seq(Idx), NEW G \in Seq(Idx), ListsAre(e, B, G)
  PROVE  /\ (\A x \in Members(A) : x \in Members(B) /\ SameSession(d.table[x], e.table[x]))
              => KeepsAll(d, e)
         /\ (\A x \in Members(A) : ~Expired(d.table[x]) =>
                  x \in Members(B) /\ SameSession(d.table[x], e.table[x]))
              => KeepsLive(d, e)
<1>1. Active(d) = A /\ Active(e) = B
  BY ActiveIs
<1> QED
  BY <1>1 DEF KeepsAll, KeepsLive

LEMMA MembersIdx ==
  ASSUME NEW d, NEW A, NEW F, ListsAre(d, A, F)
  PROVE  Members(A) \subseteq Idx
BY DEF ListsAre, Split

LEMMA SamePortsDiffer ==
  ASSUME NEW d, NEW e, NEW S, NEW R, R \subseteq S, PortsDiffer(d, S),
         \A x \in R : SameSession(d.table[x], e.table[x])
  PROVE  PortsDiffer(e, R)
BY DEF PortsDiffer, SameSession

LEMMA SearchSound ==
  ASSUME NEW d \in Tables, NEW A \in Seq(Idx), NEW F \in Seq(Idx), Sound(d, A, F),
         NEW wanted
  PROVE  /\ Search(d, wanted).d \in Tables
         /\ Search(d, wanted).hit \in Link
         /\ KeepsLive(d, Search(d, wanted).d)
         /\ \E B, G \in Seq(Idx) :
              /\ Sound(Search(d, wanted).d, B, G)
              /\ Found(d, A, wanted, Search(d, wanted), B, G)
<1> DEFINE s == Search(d, wanted)
<1>1. ListsAre(d, A, F) /\ PortsDiffer(d, Members(A))
  BY DEF Sound
<1>2. s.d \in Tables /\ s.hit \in Link
      /\ \E B, G \in Seq(Idx) : Found(d, A, wanted, s, B, G)
  BY <1>1, SearchFacts
<1> HIDE DEF s
<1>3. PICK B \in Seq(Idx), G \in Seq(Idx) : Found(d, A, wanted, s, B, G)
  BY <1>2
<1>4. /\ ListsAre(s.d, B, G) /\ Members(B) \subseteq Members(A)
      /\ \A x \in Members(B) : SameSession(d.table[x], s.d.table[x])
      /\ \A x \in Members(A) : ~Expired(d.table[x]) => x \in Members(B)
  BY <1>3 DEF Found
<1>5. PortsDiffer(s.d, Members(B))
  BY <1>1, <1>4, SamePortsDiffer
<1>6. KeepsLive(d, s.d)
  <2>1. s.d \in Tables
    BY <1>2
  <2> QED
    BY <1>1, <1>4, <2>1, KeepsByLists
<1> QED
  BY <1>2, <1>3, <1>4, <1>5, <1>6 DEF Sound, s

\* A field that no list and no port depends on.
LEMMA KeptSound ==
  ASSUME NEW d \in Tables, NEW A \in Seq(Idx), NEW F \in Seq(Idx), Sound(d, A, F),
         NEW i \in Idx, NEW t \in Entries, Kept(d.table[i], t)
  PROVE  /\ SetEntry(d, i, t) \in Tables /\ Sound(SetEntry(d, i, t), A, F)
         /\ KeepsAll(d, SetEntry(d, i, t))
<1> DEFINE e == SetEntry(d, i, t)
<1>1. /\ e \in Tables /\ e.table[i] = t
      /\ \A x \in Idx : x # i => e.table[x] = d.table[x]
  BY SetEntryFacts
<1>2. ListsAre(e, A, F)
  BY SetEntryKeeps DEF Kept, SameSession, Sound
<1> HIDE DEF e
<1>3. \A x \in Members(A) : SameSession(d.table[x], e.table[x])
  <2>1. \A x \in Idx : SameSession(d.table[x], e.table[x])
    BY <1>1 DEF Kept, SameSession
  <2>2. Members(A) \subseteq Idx
    BY MembersIdx DEF Sound
  <2> QED
    BY <2>1, <2>2
<1>4. PortsDiffer(e, Members(A))
  BY <1>3, SamePortsDiffer DEF Sound
<1>5. KeepsAll(d, e)
  BY <1>1, <1>2, <1>3, KeepsByLists DEF Sound
<1> QED
  BY <1>1, <1>2, <1>4, <1>5 DEF Sound, e

\* A session moves to the top of the list.
LEMMA MovedSound ==
  ASSUME NEW d \in Tables, NEW A \in Seq(Idx), NEW F \in Seq(Idx), Sound(d, A, F),
         NEW i \in Members(A)
  PROVE  /\ ip_napt_insert(ip_napt_free(d, i), i) \in Tables
         /\ KeepsAll(d, ip_napt_insert(ip_napt_free(d, i), i))
         /\ \E B, G \in Seq(Idx) : Sound(ip_napt_insert(ip_napt_free(d, i), i), B, G)
<1> DEFINE f == ip_napt_free(d, i)
           e == ip_napt_insert(f, i)
<1>1. ListsAre(d, A, F) /\ PortsDiffer(d, Members(A)) /\ NoRepeats(A)
  BY DEF Sound, ListsAre, Split
<1>2. PICK k \in 1 .. Len(A) : A[k] = i
  BY DEF Members
<1>3. i \in Idx /\ k \in Int
  BY <1>1, MembersIdx
<1>4. PICK B \in Seq(Idx), G \in Seq(Idx) :
        Deleted(A, B, k) /\ Pushed(F, G, i) /\ ListsAre(f, B, G)
  BY <1>1, <1>2, FreeKeeps
<1>5. /\ f \in Tables /\ \A x \in Idx : Same(d.table[x], f.table[x])
  BY <1>3, FreedFacts
<1>6. f.free = i
  BY DEF ip_napt_free
<1> HIDE DEF f
<1>7. Members(B) = Members(A) \ {i}
  BY <1>1, <1>2, <1>3, <1>4, DeletedMembers
<1>8. PICK B2 \in Seq(Idx), G2 \in Seq(Idx) :
        Pushed(B, B2, i) /\ ListsAre(e, B2, G2)
  BY <1>3, <1>4, <1>5, <1>6, InsertKeeps
<1>9. f.list # i
  <2>1. f.list = At(B, 1)
    BY <1>4 DEF ListsAre
  <2>2. At(B, 1) \in Members(B) \/ At(B, 1) = NO_IDX
    BY DEF At, Members
  <2>3. NO_IDX # i
    BY <1>3, AtFacts
  <2> QED
    BY <1>7, <2>1, <2>2, <2>3
<1>10. e \in Tables /\ \A x \in Idx : Same(f.table[x], e.table[x])
  BY <1>3, <1>5, <1>9, InsertedFacts
<1> HIDE DEF e
<1>11. Members(B2) = Members(A)
  <2>1. Members(B2) = Members(B) \cup {i}
    BY <1>3, <1>8, PushedMembers
  <2> QED
    BY <1>7, <2>1
<1>12. \A x \in Members(B2) : SameSession(d.table[x], e.table[x])
  <2>1. Members(A) \subseteq Idx
    BY <1>1, MembersIdx
  <2> QED
    BY <1>5, <1>10, <1>11, <2>1 DEF Same, SameSession
<1>13. PortsDiffer(e, Members(B2))
  BY <1>1, <1>11, <1>12, SamePortsDiffer
<1>14. KeepsAll(d, e)
  BY <1>1, <1>8, <1>10, <1>11, <1>12, KeepsByLists
<1> QED
  BY <1>8, <1>10, <1>13, <1>14 DEF Sound, e, f

\* Is there a session with the port?
LEMMA PortTaken ==
  ASSUME NEW d \in Tables, NEW A \in Seq(Idx), NEW F \in Seq(Idx), ListsAre(d, A, F),
         NEW proto, NEW port
  PROVE  ip_napt_find_port(d, proto, port) <=>
            \E x \in Members(A) : d.table[x].proto = proto /\ d.table[x].mport = port
<1>1. Active(d) = A /\ DOMAIN A = 1 .. Len(A)
  BY ActiveIs
<1> QED
  BY <1>1 DEF ip_napt_find_port, Members

\* A new session takes the first free entry.
LEMMA NewSound ==
  ASSUME NEW d \in Tables, NEW A \in Seq(Idx), NEW F \in Seq(Idx), Sound(d, A, F),
         NEW i \in Idx, d.free = i,
         NEW t \in Entries, t.next = d.table[i].next, t.prev = d.table[i].prev,
         t.proto # "ICMP" => t.mport \in PortRange /\ ~ip_napt_find_port(d, t.proto, t.mport)
  PROVE  /\ ip_napt_insert(SetEntry(d, i, t), i) \in Tables
         /\ KeepsAll(d, ip_napt_insert(SetEntry(d, i, t), i))
         /\ \E B, G \in Seq(Idx) : Sound(ip_napt_insert(SetEntry(d, i, t), i), B, G)
<1> DEFINE f == SetEntry(d, i, t)
           e == ip_napt_insert(f, i)
<1>1. ListsAre(d, A, F) /\ PortsDiffer(d, Members(A)) /\ Members(A) \subseteq Idx
  BY MembersIdx DEF Sound
<1>2. /\ f \in Tables /\ f.table[i] = t
      /\ \A x \in Idx : x # i => f.table[x] = d.table[x]
      /\ f.list = d.list /\ f.free = i
  BY SetEntryFacts
<1>3. i \notin Members(A)
  <2>1. At(F, 1) = i
    BY <1>1 DEF ListsAre
  <2>2. i \in Members(F)
    BY <2>1, AtFacts DEF At, Members
  <2> QED
    BY <1>1, <2>2 DEF ListsAre, Split
<1>4. ListsAre(f, A, F)
  BY <1>1, <1>3, SetEntryKeeps
<1> HIDE DEF f
<1>5. PICK B \in Seq(Idx), G \in Seq(Idx) : Pushed(A, B, i) /\ ListsAre(e, B, G)
  BY <1>2, <1>4, InsertKeeps
<1>6. f.list # i
  <2>1. f.list = At(A, 1)
    BY <1>4 DEF ListsAre
  <2>2. At(A, 1) \in Members(A) \/ At(A, 1) = NO_IDX
    BY DEF At, Members
  <2>3. NO_IDX # i
    BY AtFacts
  <2> QED
    BY <1>3, <2>1, <2>2, <2>3
<1>7. e \in Tables /\ \A x \in Idx : Same(f.table[x], e.table[x])
  BY <1>2, <1>6, InsertedFacts
<1> HIDE DEF e
<1>8. Members(B) = Members(A) \cup {i}
  BY <1>5, PushedMembers
<1>9. /\ SameSession(t, e.table[i])
      /\ \A x \in Members(A) : SameSession(d.table[x], e.table[x])
  BY <1>1, <1>2, <1>3, <1>7 DEF Same, SameSession
<1>10. t.proto # "ICMP" => t.mport \in PortRange /\ \A x \in Members(A) :
          ~(d.table[x].proto = t.proto /\ d.table[x].mport = t.mport)
  BY <1>1, PortTaken
<1>11. PortsDiffer(e, Members(B))
  <2>1. \A x \in Members(B) : x = i \/ x \in Members(A)
    BY <1>8
  <2>2. PortsDiffer(e, Members(A))
    BY <1>1, <1>9, SamePortsDiffer
  <2>3. e.table[i].proto # "ICMP" => e.table[i].mport \in PortRange /\ \A x \in Members(A) :
           ~(e.table[x].proto = e.table[i].proto /\ e.table[x].mport = e.table[i].mport)
    BY <1>9, <1>10 DEF SameSession
  <2> QED
    BY <2>1, <2>2, <2>3 DEF PortsDiffer
<1>12. KeepsAll(d, e)
  BY <1>1, <1>5, <1>7, <1>8, <1>9, KeepsByLists
<1> QED
  BY <1>5, <1>7, <1>11, <1>12 DEF Sound, e, f

-----------------------------------------------------------------------------
(* The inductive invariant, one handler at a time. *)

\* The table is split into the two lists, the ports differ, and a packet that
\* got no port (r) found no entry that was free or had timed out.
TableOK(d, r) ==
    /\ d \in Tables
    /\ \E A, F \in Seq(Idx) :
          /\ Sound(d, A, F)
          /\ r => Len(F) = 0 /\ \A i \in Idx : ~Expired(d.table[i])

PortmapOK(p) == p \in Seq(Portmaps) /\ Len(p) <= PortmapMax

NaptIInv ==
    /\ TableOK(napt_data, refused)
    /\ PortmapOK(portmap)
    /\ napt \in BOOLEAN
    /\ refused \in BOOLEAN

LEMMA FlagsFacts ==
  ASSUME NEW old \in SUBSET FlagNames, NEW flags
  PROVE  FlagsForward(old, flags) \in SUBSET FlagNames /\ FlagsRecv(old, flags) \in SUBSET FlagNames
BY DEF FlagsForward, FlagsRecv, FlagNames

LEMMA NewPort ==
  ASSUME NEW d, NEW proto, NEW port, NEW q \in ip_napt_new_port(d, proto, port)
  PROVE  q \in PortRange /\ ~ip_napt_find_port(d, proto, q)
BY DEF ip_napt_new_port

\* The flags of a session that was found.
LEMMA FlagsSound ==
  ASSUME NEW d \in Tables, NEW A \in Seq(Idx), NEW F \in Seq(Idx), Sound(d, A, F),
         NEW i \in Idx, NEW f \in SUBSET FlagNames
  PROVE  /\ TableOK([d EXCEPT !.table[i].flags = f], FALSE)
         /\ KeepsAll(d, [d EXCEPT !.table[i].flags = f])
<1> DEFINE t == [d.table[i] EXCEPT !.flags = f]
<1>1. d.table[i] \in Entries
  BY TableFacts
<1>2. t \in Entries /\ Kept(d.table[i], t)
  BY <1>1, FieldFacts
<1>3. [d EXCEPT !.table[i].flags = f] = SetEntry(d, i, t)
  BY DEF SetEntry
<1> HIDE DEF t
<1>4. /\ SetEntry(d, i, t) \in Tables /\ Sound(SetEntry(d, i, t), A, F)
      /\ KeepsAll(d, SetEntry(d, i, t))
  BY <1>2, KeptSound
<1> QED
  BY <1>3, <1>4 DEF TableOK

\* A known session of the host goes elsewhere and moves to the top.
LEMMA RenewedSound ==
  ASSUME NEW d \in Tables, NEW A \in Seq(Idx), NEW F \in Seq(Idx), Sound(d, A, F),
         NEW i \in Members(A), NEW dest \in Remotes, NEW dport \in Ids \cup {Rport},
         NEW e, e = [d EXCEPT !.table[i].dest = dest, !.table[i].dport = dport]
  PROVE  /\ TableOK(ip_napt_insert(ip_napt_free(e, i), i), FALSE)
         /\ KeepsAll(d, ip_napt_insert(ip_napt_free(e, i), i))
<1> DEFINE t == [d.table[i] EXCEPT !.dest = dest]
           one == SetEntry(d, i, t)
           u == [one.table[i] EXCEPT !.dport = dport]
           two == SetEntry(one, i, u)
<1>1. i \in Idx
  BY MembersIdx DEF Sound
<1>2. e = two
  BY DEF SetEntry
<1>3. d.table[i] \in Entries
  BY <1>1, TableFacts
<1>4. t \in Entries /\ Kept(d.table[i], t)
  BY <1>3, FieldFacts
<1> HIDE DEF t
<1>5. one \in Tables /\ Sound(one, A, F) /\ KeepsAll(d, one)
  BY <1>1, <1>4, KeptSound
<1> HIDE DEF one
<1>6. one.table[i] \in Entries
  BY <1>1, <1>5, TableFacts
<1>7. u \in Entries /\ Kept(one.table[i], u)
  BY <1>6, FieldFacts
<1> HIDE DEF u
<1>8. two \in Tables /\ Sound(two, A, F) /\ KeepsAll(one, two)
  BY <1>1, <1>5, <1>7, KeptSound
<1> HIDE DEF two
<1>9. /\ ip_napt_insert(ip_napt_free(two, i), i) \in Tables
      /\ \E B, G \in Seq(Idx) : Sound(ip_napt_insert(ip_napt_free(two, i), i), B, G)
      /\ KeepsAll(two, ip_napt_insert(ip_napt_free(two, i), i))
  BY <1>8, MovedSound
<1>10. KeepsAll(d, ip_napt_insert(ip_napt_free(two, i), i))
  BY <1>5, <1>8, <1>9, KeepsAllBoth
<1> QED
  BY <1>2, <1>9, <1>10 DEF TableOK

\* ip_napt_add
LEMMA AddKeeps ==
  ASSUME NaptIInv, NEW proto \in Protos, NEW src \in Hosts,
         NEW sport \in IF proto = "ICMP" THEN Ids ELSE Sports, NEW dest \in Remotes,
         NEW dport \in Ids \cup {Rport}, ip_napt_add(proto, src, sport, dest, dport)
  PROVE  /\ TableOK(napt_data', refused') /\ refused' \in BOOLEAN
         /\ KeepsLive(napt_data, napt_data')
<1> DEFINE wanted == {i \in Idx : LET t == napt_data.table[i]
                                  IN  t.proto = proto /\ t.src = src /\ t.sport = sport}
           f == Search(napt_data, wanted)
           d == f.d
           i == d.free
           renewed == [d EXCEPT !.table[f.hit].dest = dest, !.table[f.hit].dport = dport]
           New(port) == [proto |-> proto, src |-> src, sport |-> sport, dest |-> dest,
                         dport |-> dport, mport |-> port, age |-> 0, flags |-> {},
                         next |-> d.table[i].next, prev |-> d.table[i].prev]
           Ports == IF proto = "ICMP" THEN {sport} ELSE ip_napt_new_port(d, proto, sport)
<1>1. \/ /\ f.hit # NO_IDX
         /\ napt_data' = ip_napt_insert(ip_napt_free(renewed, f.hit), f.hit)
         /\ refused' = FALSE
      \/ /\ f.hit = NO_IDX /\ i # NO_IDX
         /\ refused' = FALSE
         /\ \E port \in Ports :
              napt_data' = ip_napt_insert([d EXCEPT !.table[i] = New(port)], i)
      \/ /\ f.hit = NO_IDX /\ i = NO_IDX
         /\ napt_data' = d
         /\ refused' = TRUE
  BY DEF ip_napt_add, ip_napt_find_src
<1>2. PICK A \in Seq(Idx), F \in Seq(Idx) : napt_data \in Tables /\ Sound(napt_data, A, F)
  BY DEF NaptIInv, TableOK
<1> HIDE DEF wanted
<1>3. /\ d \in Tables /\ f.hit \in Link /\ KeepsLive(napt_data, d)
      /\ \E B, G \in Seq(Idx) : Sound(d, B, G) /\ Found(napt_data, A, wanted, f, B, G)
  BY <1>2, SearchSound
<1> HIDE DEF f
<1>4. PICK B \in Seq(Idx), G \in Seq(Idx) : Sound(d, B, G) /\ Found(napt_data, A, wanted, f, B, G)
  BY <1>3
<1>5. /\ f.hit # NO_IDX => f.hit \in Members(B)
      /\ f.hit = NO_IDX => \A x \in Members(B) : ~Expired(d.table[x])
  BY <1>4 DEF Found
<1> HIDE DEF d
<1>6. CASE /\ f.hit # NO_IDX
           /\ napt_data' = ip_napt_insert(ip_napt_free(renewed, f.hit), f.hit)
           /\ refused' = FALSE
  <2>1. f.hit \in Members(B)
    BY <1>5, <1>6
  <2>2. renewed = [d EXCEPT !.table[f.hit].dest = dest, !.table[f.hit].dport = dport]
    OBVIOUS
  <2> HIDE DEF renewed
  <2>3. /\ TableOK(ip_napt_insert(ip_napt_free(renewed, f.hit), f.hit), FALSE)
        /\ KeepsAll(d, ip_napt_insert(ip_napt_free(renewed, f.hit), f.hit))
    BY <1>3, <1>4, <2>1, <2>2, RenewedSound
  <2> QED
    BY <1>3, <1>6, <2>3, KeepsBoth
<1>7. CASE /\ f.hit = NO_IDX /\ i # NO_IDX
           /\ refused' = FALSE
           /\ \E port \in Ports :
                napt_data' = ip_napt_insert([d EXCEPT !.table[i] = New(port)], i)
  <2>1. PICK port \in Ports : napt_data' = ip_napt_insert([d EXCEPT !.table[i] = New(port)], i)
    BY <1>7
  <2>2. i \in Idx /\ d.table[i] \in Entries
    BY <1>3, <1>7, TableFacts DEF Link
  <2>3. d.table[i].next \in Link /\ d.table[i].prev \in Link
    BY <2>2, EntryFacts
  <2>4. /\ proto = "ICMP" => port \in Ids
        /\ proto # "ICMP" => port \in PortRange /\ ~ip_napt_find_port(d, proto, port)
    BY <2>1, NewPort
  <2> DEFINE t == New(port)
  <2>5. t \in Entries
    <3>1. /\ src \in Hosts \cup {0} /\ sport \in Sports \cup Ids \cup {0}
          /\ dest \in Remotes \cup {0} /\ dport \in Ids \cup {Rport, 0}
          /\ port \in PortRange \cup Ids \cup {0} /\ 0 \in Nat /\ {} \in SUBSET FlagNames
      BY <2>4
    <3> QED
      BY <2>3, <3>1 DEF Entries
  <2>6. /\ t.next = d.table[i].next /\ t.prev = d.table[i].prev
        /\ t.proto # "ICMP" => t.mport \in PortRange /\ ~ip_napt_find_port(d, t.proto, t.mport)
    BY <2>4
  <2>7. napt_data' = ip_napt_insert(SetEntry(d, i, t), i)
    BY <2>1 DEF SetEntry
  <2>8. d.free = i
    OBVIOUS
  <2> HIDE DEF t, i
  <2>9. /\ ip_napt_insert(SetEntry(d, i, t), i) \in Tables
        /\ \E B2, G2 \in Seq(Idx) : Sound(ip_napt_insert(SetEntry(d, i, t), i), B2, G2)
        /\ KeepsAll(d, ip_napt_insert(SetEntry(d, i, t), i))
    BY <1>3, <1>4, <2>2, <2>5, <2>6, <2>8, NewSound
  <2>10. KeepsLive(napt_data, napt_data')
    BY <1>3, <2>7, <2>9, KeepsBoth
  <2> QED
    BY <1>7, <2>7, <2>9, <2>10 DEF TableOK
<1>8. CASE /\ f.hit = NO_IDX /\ i = NO_IDX
           /\ napt_data' = d
           /\ refused' = TRUE
  <2>1. At(G, 1) = NO_IDX /\ Members(B) \cup Members(G) = Idx
    BY <1>4, <1>8 DEF Sound, ListsAre, Split
  <2>2. Len(G) = 0
    <3>1. Len(G) \in Nat /\ ~(1 \in 1 .. Len(G))
      BY <2>1, AtFacts
    <3> QED
      BY <3>1
  <2>3. Members(G) = {}
    BY <2>2 DEF Members
  <2>4. \A x \in Idx : ~Expired(d.table[x])
    BY <1>5, <1>8, <2>1, <2>3
  <2> QED
    BY <1>3, <1>4, <1>8, <2>2, <2>4 DEF TableOK
<1> QED
  BY <1>1, <1>6, <1>7, <1>8

\* ip_napt_forward
LEMMA ForwardKeeps ==
  ASSUME NaptIInv, NEW proto \in Protos, NEW src \in Hosts, NEW dest \in Remotes,
         NEW sport \in IF proto = "ICMP" THEN Ids ELSE Sports, NEW flags,
         ip_napt_forward(proto, src, sport, dest, flags)
  PROVE  NaptIInv' /\ KeepsLive(napt_data, napt_data')
<1> DEFINE wanted == {i \in Idx : LET t == napt_data.table[i]
                                  IN  t.proto = proto /\ t.src = src /\ t.sport = sport}
           f == Search(napt_data, wanted)
           d == f.d
           dport == IF proto = "ICMP" THEN sport ELSE Rport
<1>1. /\ \/ ip_napt_add(proto, src, sport, dest, dport)
         \/ /\ \/ /\ f.hit # NO_IDX
                  /\ napt_data' = [d EXCEPT !.table[f.hit].flags =
                                     FlagsForward(d.table[f.hit].flags, flags)]
               \/ napt_data' = d
            /\ refused' = FALSE
      /\ portmap' = portmap /\ napt' = napt
  BY DEF ip_napt_forward, ip_napt_find_src
<1>2. dport \in Ids \cup {Rport}
  OBVIOUS
<1> HIDE DEF dport
<1>3. CASE ip_napt_add(proto, src, sport, dest, dport)
  <2>1. /\ TableOK(napt_data', refused') /\ refused' \in BOOLEAN
        /\ KeepsLive(napt_data, napt_data')
    BY <1>2, <1>3, AddKeeps
  <2> QED
    BY <1>1, <2>1 DEF NaptIInv
<1>4. CASE /\ \/ /\ f.hit # NO_IDX
                 /\ napt_data' = [d EXCEPT !.table[f.hit].flags =
                                    FlagsForward(d.table[f.hit].flags, flags)]
              \/ napt_data' = d
           /\ refused' = FALSE
  <2>1. PICK A \in Seq(Idx), F \in Seq(Idx) : napt_data \in Tables /\ Sound(napt_data, A, F)
    BY DEF NaptIInv, TableOK
  <2> HIDE DEF wanted
  <2>2. /\ d \in Tables /\ f.hit \in Link /\ KeepsLive(napt_data, d)
        /\ \E B, G \in Seq(Idx) : Sound(d, B, G)
    BY <2>1, SearchSound
  <2> HIDE DEF f
  <2>3. PICK B \in Seq(Idx), G \in Seq(Idx) : Sound(d, B, G)
    BY <2>2
  <2>4. TableOK(d, FALSE)
    BY <2>2, <2>3 DEF TableOK
  <2>5. ASSUME f.hit # NO_IDX
        PROVE  /\ TableOK([d EXCEPT !.table[f.hit].flags =
                             FlagsForward(d.table[f.hit].flags, flags)], FALSE)
               /\ KeepsAll(d, [d EXCEPT !.table[f.hit].flags =
                                  FlagsForward(d.table[f.hit].flags, flags)])
    <3>1. f.hit \in Idx
      BY <2>2, <2>5 DEF Link
    <3>2. d.table[f.hit].flags \in SUBSET FlagNames
      BY <2>2, <3>1, TableFacts, FieldFacts
    <3>3. FlagsForward(d.table[f.hit].flags, flags) \in SUBSET FlagNames
      BY <3>2, FlagsFacts
    <3> QED
      BY <2>2, <2>3, <3>1, <3>3, FlagsSound
  <2>6. TableOK(napt_data', FALSE)
    BY <1>4, <2>4, <2>5
  <2>7. KeepsLive(napt_data, napt_data')
    BY <1>4, <2>2, <2>5, KeepsBoth
  <2> QED
    BY <1>1, <1>4, <2>6, <2>7 DEF NaptIInv
<1> QED
  BY <1>1, <1>3, <1>4

\* ip_napt_recv
LEMMA RecvKeeps ==
  ASSUME NaptIInv, NEW proto, NEW addr, NEW port, NEW flags,
         ip_napt_recv(proto, addr, port, flags)
  PROVE  NaptIInv' /\ KeepsLive(napt_data, napt_data')
<1> DEFINE dport == IF proto = "ICMP" THEN port ELSE Rport
           wanted == {i \in Idx : LET t == napt_data.table[i]
                                  IN  t.proto = proto /\ t.dest = addr /\ t.dport = dport /\ t.mport = port}
           f == Search(napt_data, wanted)
           d == f.d
<1>1. /\ \/ /\ f.hit # NO_IDX
            /\ napt_data' = [d EXCEPT !.table[f.hit].flags =
                               FlagsRecv(d.table[f.hit].flags, flags)]
         \/ napt_data' = d
      /\ refused' = FALSE
      /\ portmap' = portmap /\ napt' = napt
  BY DEF ip_napt_recv, ip_napt_find_dest
<1>2. PICK A \in Seq(Idx), F \in Seq(Idx) : napt_data \in Tables /\ Sound(napt_data, A, F)
  BY DEF NaptIInv, TableOK
<1> HIDE DEF wanted
<1>3. /\ d \in Tables /\ f.hit \in Link /\ KeepsLive(napt_data, d)
      /\ \E B, G \in Seq(Idx) : Sound(d, B, G)
  BY <1>2, SearchSound
<1> HIDE DEF f
<1>4. PICK B \in Seq(Idx), G \in Seq(Idx) : Sound(d, B, G)
  BY <1>3
<1>5. TableOK(d, FALSE)
  BY <1>3, <1>4 DEF TableOK
<1>6. ASSUME f.hit # NO_IDX
      PROVE  /\ TableOK([d EXCEPT !.table[f.hit].flags =
                           FlagsRecv(d.table[f.hit].flags, flags)], FALSE)
             /\ KeepsAll(d, [d EXCEPT !.table[f.hit].flags =
                                FlagsRecv(d.table[f.hit].flags, flags)])
  <2>1. f.hit \in Idx
    BY <1>3, <1>6 DEF Link
  <2>2. d.table[f.hit].flags \in SUBSET FlagNames
    BY <1>3, <2>1, TableFacts, FieldFacts
  <2>3. FlagsRecv(d.table[f.hit].flags, flags) \in SUBSET FlagNames
    BY <2>2, FlagsFacts
  <2> QED
    BY <1>3, <1>4, <2>1, <2>3, FlagsSound
<1>7. TableOK(napt_data', FALSE)
  BY <1>1, <1>5, <1>6
<1>8. KeepsLive(napt_data, napt_data')
  BY <1>1, <1>3, <1>6, KeepsBoth
<1> QED
  BY <1>1, <1>7, <1>8 DEF NaptIInv

\* ip_portmap_add
LEMMA PortmapAddKeeps ==
  ASSUME NaptIInv, NEW proto \in MapProtos, NEW port \in MappedPorts, NEW daddr \in Hosts,
         NEW dport \in Sports \ LowPorts, ip_portmap_add(proto, port, daddr, dport)
  PROVE  NaptIInv' /\ KeepsLive(napt_data, napt_data')
<1> DEFINE new == [proto |-> proto, mport |-> port, daddr |-> daddr, dport |-> dport]
           changed == [k \in DOMAIN portmap |->
                         IF k \in Mapped(proto, port) THEN new ELSE portmap[k]]
<1>1. /\ \/ Len(portmap) < PortmapMax /\ portmap' = Append(changed, new)
         \/ portmap' = changed
      /\ refused' = FALSE /\ napt_data' = napt_data /\ napt' = napt
  BY DEF ip_portmap_add
<1>2. portmap \in Seq(Portmaps) /\ Len(portmap) \in Nat /\ Len(portmap) <= PortmapMax
  BY DEF NaptIInv, PortmapOK
<1>3. new \in Portmaps
  BY DEF Portmaps
<1> HIDE DEF new
<1>4. changed \in Seq(Portmaps) /\ Len(changed) = Len(portmap)
  <2>1. \A k \in 1 .. Len(portmap) : portmap[k] \in Portmaps
    BY <1>2
  <2>2. DOMAIN portmap = 1 .. Len(portmap)
    BY <1>2
  <2> QED
    BY <1>2, <1>3, <2>1, <2>2
<1> HIDE DEF changed
<1>5. Append(changed, new) \in Seq(Portmaps) /\ Len(Append(changed, new)) = Len(changed) + 1
  BY <1>3, <1>4
<1>6. PortmapMax \in Nat
  BY NaptAssumption
<1>7. PortmapOK(portmap')
  <2>1. CASE Len(portmap) < PortmapMax /\ portmap' = Append(changed, new)
    BY <1>2, <1>4, <1>5, <1>6, <2>1 DEF PortmapOK
  <2>2. CASE portmap' = changed
    BY <1>2, <1>4, <2>2 DEF PortmapOK
  <2> QED
    BY <1>1, <2>1, <2>2
<1>8. TableOK(napt_data, FALSE)
  BY DEF NaptIInv, TableOK
<1> QED
  BY <1>1, <1>7, <1>8, KeepsSelf DEF NaptIInv

\* ip_portmap_remove
LEMMA PortmapRemoveKeeps ==
  ASSUME NaptIInv, NEW proto, NEW port, ip_portmap_remove(proto, port)
  PROVE  NaptIInv' /\ KeepsLive(napt_data, napt_data')
<1> DEFINE I == {k \in 1 .. Len(portmap) : portmap[k].proto = proto /\ portmap[k].mport = port}
           k == ip_portmap_find(proto, port)
<1>1. /\ k # 0 /\ portmap' = RemoveAt(portmap, k)
      /\ refused' = FALSE /\ napt_data' = napt_data /\ napt' = napt
  BY DEF ip_portmap_remove
<1>2. portmap \in Seq(Portmaps) /\ Len(portmap) \in Nat /\ Len(portmap) <= PortmapMax
  BY DEF NaptIInv, PortmapOK
<1>3. k = IF I = {} THEN 0 ELSE Min(I)
  BY DEF ip_portmap_find, SelectInSeq
<1>4. k \in 1 .. Len(portmap)
  <2>1. I \subseteq 1 .. Len(portmap) /\ I # {}
    BY <1>1, <1>3
  <2>2. Min(I) \in I
    BY <1>2, <2>1, FirstPosition
  <2> QED
    BY <1>1, <1>3, <2>1, <2>2
<1> HIDE DEF k
<1>5. RemoveAt(portmap, k) \in Seq(Portmaps) /\ Len(RemoveAt(portmap, k)) = Len(portmap) - 1
  BY <1>2, <1>4, RemoveFacts
<1>6. PortmapOK(portmap')
  <2>1. PortmapMax \in Nat
    BY NaptAssumption
  <2> QED
    BY <1>1, <1>2, <1>5, <2>1 DEF PortmapOK
<1>7. TableOK(napt_data, FALSE)
  BY DEF NaptIInv, TableOK
<1> QED
  BY <1>1, <1>6, <1>7, KeepsSelf DEF NaptIInv

\* ip_napt_enable
LEMMA EnableKeeps ==
  ASSUME NaptIInv, NEW enable \in BOOLEAN, ip_napt_enable(enable)
  PROVE  NaptIInv' /\ KeepsLive(napt_data, napt_data')
<1>1. /\ napt' \in BOOLEAN /\ refused' = FALSE
      /\ napt_data' = napt_data /\ portmap' = portmap
  BY DEF ip_napt_enable
<1>2. TableOK(napt_data, FALSE)
  BY DEF NaptIInv, TableOK
<1> QED
  BY <1>1, <1>2, KeepsSelf DEF NaptIInv

\* Ages change, and nothing else.
LEMMA TimePassesKeeps ==
  ASSUME NaptIInv, TimePasses
  PROVE  NaptIInv' /\ KeepsLive(napt_data, napt_data')
<1> DEFINE old == napt_data.table
           older == [i \in Idx |-> IF Contains(Active(napt_data), i) /\ ~Expired(old[i])
                                   THEN Older(old[i]) ELSE old[i]]
           e == [napt_data EXCEPT !.table = older]
<1>1. napt_data' = e /\ refused' = FALSE /\ portmap' = portmap /\ napt' = napt
  BY DEF TimePasses
<1>2. PICK A \in Seq(Idx), F \in Seq(Idx) : napt_data \in Tables /\ Sound(napt_data, A, F)
  BY DEF NaptIInv, TableOK
<1>3. ASSUME NEW i \in Idx
      PROVE  older[i] \in Entries /\ Kept(old[i], older[i])
  <2>1. old[i] \in Entries
    BY <1>2, TableFacts
  <2>2. old[i].age + 1 \in Nat
    BY <2>1, FieldFacts
  <2>3. Older(old[i]) \in Entries /\ Kept(old[i], Older(old[i]))
    BY <2>1, <2>2, FieldFacts DEF Older
  <2>4. Kept(old[i], old[i])
    BY DEF Kept, SameSession
  <2>5. older[i] \in {Older(old[i]), old[i]}
    OBVIOUS
  <2> HIDE DEF older
  <2> QED
    BY <2>1, <2>3, <2>4, <2>5
<1>4. older \in [Idx -> Entries]
  <2>1. older = [i \in Idx |-> older[i]]
    OBVIOUS
  <2> HIDE DEF older
  <2> QED
    BY <1>3, <2>1
<1> HIDE DEF older
<1>5. /\ e \in Tables /\ e.table = older
      /\ e.list = napt_data.list /\ e.list_last = napt_data.list_last
      /\ e.free = napt_data.free /\ e.nr_active = napt_data.nr_active
  BY <1>2, <1>4 DEF Tables
<1> HIDE DEF e
<1>6. SameLists(napt_data, e)
  BY <1>3, <1>5 DEF SameLists, Kept, SameSession
<1>7. Members(A) \subseteq Idx
  BY <1>2, MembersIdx DEF Sound
<1>8. \A x \in Members(A) : SameSession(napt_data.table[x], e.table[x])
  BY <1>3, <1>5, <1>7 DEF Kept, SameSession
<1>9. ListsAre(e, A, F)
  <2>1. \A x \in Members(A) : e.table[x].proto = napt_data.table[x].proto
    BY <1>8 DEF SameSession
  <2>2. ListsAre(napt_data, A, F)
    BY <1>2 DEF Sound
  <2> QED
    BY <1>2, <1>5, <1>6, <2>1, <2>2, SameListsKeep
<1>10. PortsDiffer(e, Members(A))
  BY <1>2, <1>8, SamePortsDiffer DEF Sound
<1>11. TableOK(e, FALSE)
  BY <1>5, <1>9, <1>10 DEF TableOK, Sound
<1>12. KeepsLive(napt_data, e)
  BY <1>2, <1>5, <1>8, <1>9, KeepsByLists DEF Sound
<1> QED
  BY <1>1, <1>11, <1>12 DEF NaptIInv

\* ip_napt_init: everything is free.
LEMMA NaptInitIInv ==
  ASSUME NaptInit
  PROVE  NaptIInv
<1> DEFINE d == ip_napt_init
           F == [j \in 1 .. NaptMax |-> j - 1]
           first(i) == IF i < NaptMax - 1 THEN i + 1 ELSE NO_IDX
           A == <<>>
<1>1. napt_data = d /\ portmap = <<>> /\ napt = FALSE /\ refused = FALSE
  BY DEF NaptInit
<1>2. NaptMax \in Nat /\ NaptMax # 0 /\ PortmapMax \in Nat
  BY NaptAssumption
<1>3. \A i \in Idx : first(i) \in Link
  BY <1>2 DEF Idx, Link
<1>4. 0 \in Idx
  BY <1>2 DEF Idx
<1>5. \A i \in Idx : [Entry EXCEPT !.next = first(i)] \in Entries
                     /\ [Entry EXCEPT !.next = first(i)].next = first(i)
  BY <1>3, EntryInEntries, EntryFacts
<1>6. /\ d.table = [i \in Idx |-> [Entry EXCEPT !.next = first(i)]]
      /\ d.list = NO_IDX /\ d.list_last = NO_IDX /\ d.free = 0
      /\ d.nr_active = [p \in Protos |-> 0]
      /\ d = [table |-> d.table, list |-> d.list, list_last |-> d.list_last, free |-> d.free,
              nr_active |-> d.nr_active]
  BY DEF ip_napt_init
<1> HIDE DEF d
<1>7. d \in Tables
  <2>1. d.table \in [Idx -> Entries]
    BY <1>5, <1>6
  <2>2. d.list \in Link /\ d.list_last \in Link /\ d.free \in Link
    BY <1>4, <1>6 DEF Link
  <2>3. d.nr_active \in [Protos -> Int]
    BY <1>6
  <2> QED
    BY <1>6, <2>1, <2>2, <2>3 DEF Tables
<1> HIDE DEF first
<1>8. \A i \in Idx : Nexts(d)[i] = first(i)
  <2>1. \A i \in Idx : d.table[i] = [Entry EXCEPT !.next = first(i)]
    BY <1>6
  <2>2. \A i \in Idx : d.table[i].next = first(i)
    BY <1>5, <2>1
  <2> QED
    BY <1>7, <2>2, TableFacts
<1>9. /\ F \in Seq(Idx) /\ Len(F) = NaptMax
      /\ \A j \in 1 .. NaptMax : F[j] = j - 1
  BY <1>2 DEF Idx
<1>10. A \in Seq(Idx) /\ Len(A) = 0
  OBVIOUS
<1> HIDE DEF F, A
<1>11. Members(A) = {} /\ NoRepeats(A)
  BY <1>10 DEF Members, NoRepeats
<1>12. Members(F) = Idx
  <2>1. \A i \in Idx : i + 1 \in 1 .. NaptMax /\ (i + 1) - 1 = i
    BY <1>2 DEF Idx
  <2>2. \A j \in 1 .. NaptMax : F[j] \in Idx
    BY <1>9
  <2>3. Idx \subseteq Members(F)
    BY <1>9, <2>1 DEF Members
  <2> QED
    BY <1>9, <2>2, <2>3 DEF Members
<1>13. NoRepeats(F)
  BY <1>2, <1>9 DEF NoRepeats
<1>14. Split(A, F)
  BY <1>2, <1>9, <1>10, <1>11, <1>12, <1>13 DEF Split
<1>15. At(A, 1) = NO_IDX /\ At(A, Len(A)) = NO_IDX /\ At(F, 1) = 0
  <2>1. 1 \in 1 .. NaptMax /\ F[1] = 0
    BY <1>2, <1>9
  <2> QED
    BY <1>9, <1>10, <2>1 DEF At
<1>16. Doubly(Nexts(d), Prevs(d), A)
  BY <1>10 DEF Doubly, Chain
<1>17. Chain(Nexts(d), F)
  <2> SUFFICES ASSUME NEW j \in 1 .. NaptMax PROVE Nexts(d)[F[j]] = At(F, j + 1)
    BY <1>9 DEF Chain
  <2>1. F[j] = j - 1 /\ j - 1 \in Idx
    BY <1>2, <1>9 DEF Idx
  <2>2. Nexts(d)[F[j]] = first(j - 1)
    BY <1>8, <2>1
  <2>3. CASE j < NaptMax
    <3>1. j - 1 < NaptMax - 1 /\ (j - 1) + 1 = j /\ j + 1 \in 1 .. NaptMax /\ (j + 1) - 1 = j
      BY <1>2, <2>3
    <3>2. At(F, j + 1) = j
      BY <1>9, <3>1 DEF At
    <3> QED
      BY <2>2, <3>1, <3>2 DEF first
  <2>4. CASE ~(j < NaptMax)
    <3>1. ~(j - 1 < NaptMax - 1) /\ j + 1 \notin 1 .. NaptMax
      BY <1>2, <2>4
    <3>2. At(F, j + 1) = NO_IDX
      BY <1>9, <3>1 DEF At
    <3> QED
      BY <2>2, <3>1, <3>2 DEF first
  <2> QED
    BY <2>3, <2>4
<1>18. Counted(d, Members(A))
  <2>1. \A p \in Protos : Of(d, Members(A), p) = {}
    BY <1>11 DEF Of
  <2>2. Cardinality({}) = 0
    BY FS_EmptySet
  <2> QED
    BY <1>6, <2>1, <2>2 DEF Counted
<1>19. Sound(d, A, F)
  <2>1. PortsDiffer(d, Members(A))
    BY <1>11 DEF PortsDiffer
  <2> QED
    BY <1>6, <1>14, <1>15, <1>16, <1>17, <1>18, <2>1 DEF Sound, ListsAre
<1>20. TableOK(d, FALSE)
  BY <1>7, <1>9, <1>10, <1>19 DEF TableOK
<1>21. PortmapOK(<<>>)
  <2>1. <<>> \in Seq(Portmaps) /\ Len(<<>>) = 0
    OBVIOUS
  <2> QED
    BY <1>2, <2>1 DEF PortmapOK
<1> QED
  BY <1>1, <1>20, <1>21 DEF NaptIInv

LEMMA NaptNextIInv ==
  ASSUME NaptIInv, [NaptNext]_naptVars
  PROVE  NaptIInv' /\ KeepsLive(napt_data, napt_data')
<1>1. CASE \E proto \in Protos, src \in Hosts, dest \in Remotes :
             \E sport \in IF proto = "ICMP" THEN Ids ELSE Sports, flags \in FlagsOf(proto) :
               ip_napt_forward(proto, src, sport, dest, flags)
  BY <1>1, ForwardKeeps
<1>2. CASE \E proto \in Protos, addr \in Remotes :
             \E port \in IF proto = "ICMP" THEN Ids ELSE PortRange, flags \in FlagsOf(proto) :
                 ip_napt_recv(proto, addr, port, flags)
  BY <1>2, RecvKeeps
<1>3. CASE \E proto \in MapProtos, port \in MappedPorts, daddr \in Hosts,
               dport \in Sports \ LowPorts : ip_portmap_add(proto, port, daddr, dport)
  BY <1>3, PortmapAddKeeps
<1>4. CASE \E proto \in MapProtos, port \in MappedPorts : ip_portmap_remove(proto, port)
  BY <1>4, PortmapRemoveKeeps
<1>5. CASE \E enable \in BOOLEAN : ip_napt_enable(enable)
  BY <1>5, EnableKeeps
<1>6. CASE TimePasses
  BY <1>6, TimePassesKeeps
<1>7. CASE UNCHANGED naptVars
  BY <1>7, KeepsSelf DEF naptVars, NaptIInv
<1> QED
  BY <1>1, <1>2, <1>3, <1>4, <1>5, <1>6, <1>7 DEF NaptNext

LEMMA NaptSpecIInv == NaptSpec => []NaptIInv
<1>1. NaptInit => NaptIInv
  BY NaptInitIInv
<1>2. NaptIInv /\ [NaptNext]_naptVars => NaptIInv'
  BY NaptNextIInv
<1> QED
  BY <1>1, <1>2, PTL DEF NaptSpec

-----------------------------------------------------------------------------
(* What the invariant says. *)

\* Every link leads to an entry of the table, every mapped port is one of
\* those given to ip_portmap_add, and ip_napt_free never takes a counter of
\* sessions below zero.
THEOREM NaptTypeCorrect == NaptSpec => []NaptTypeOK
<1>1. NaptIInv => NaptTypeOK
  <2> SUFFICES ASSUME NaptIInv PROVE NaptTypeOK
    OBVIOUS
  <2>1. PICK A \in Seq(Idx), F \in Seq(Idx) : napt_data \in Tables /\ Sound(napt_data, A, F)
    BY DEF NaptIInv, TableOK
  <2>2. ASSUME NEW p \in Protos
        PROVE  napt_data.nr_active[p] >= 0
    <3>1. napt_data.nr_active[p] = Cardinality(Of(napt_data, Members(A), p))
      BY <2>1 DEF Sound, ListsAre, Counted
    <3>2. Of(napt_data, Members(A), p) \subseteq Idx
      BY <2>1, MembersIdx DEF Sound, Of
    <3>3. Cardinality(Of(napt_data, Members(A), p)) \in Nat
      BY <3>2, IdxFinite, FS_Subset, FS_CardinalityType
    <3> QED
      BY <3>1, <3>3
  <2> QED
    BY <2>1, <2>2 DEF NaptIInv, NaptTypeOK, PortmapOK
<1> QED
  BY <1>1, NaptSpecIInv, PTL

LEMMA RangeIs ==
  ASSUME NEW A \in Seq(Idx)
  PROVE  Range(A) = Members(A)
BY DEF Range, Members

\* However many entries ip_napt_find reclaims on its walks, and whatever moves
\* to the top of the list: no entry is lost or listed twice, list and list_last
\* are two ends of one list, and the counters count it.
THEOREM ListsIntactHolds == NaptSpec => []ListsIntact
<1>1. NaptIInv => ListsIntact
  <2> SUFFICES ASSUME NaptIInv PROVE ListsIntact
    OBVIOUS
  <2>1. PICK A \in Seq(Idx), F \in Seq(Idx) : napt_data \in Tables /\ ListsAre(napt_data, A, F)
    BY DEF NaptIInv, TableOK, Sound
  <2>2. /\ Active(napt_data) = A
        /\ Walk(Nexts(napt_data), napt_data.free) = F
        /\ Walk(Prevs(napt_data), napt_data.list_last) = Reverse(A)
    BY <2>1, ActiveIs
  <2>3. Len(A) + Len(F) = NaptMax /\ Members(A) \cup Members(F) = Idx
        /\ Counted(napt_data, Members(A))
    BY <2>1 DEF ListsAre, Split
  <2>4. Range(A) = Members(A) /\ Range(F) = Members(F) /\ InUse = Members(A)
    BY <2>2, RangeIs DEF InUse
  <2>5. ASSUME NEW p \in Protos
        PROVE  napt_data.nr_active[p] = Cardinality({i \in InUse : napt_data.table[i].proto = p})
    BY <2>3, <2>4 DEF Counted, Of
  <2> QED
    BY <2>2, <2>3, <2>4, <2>5 DEF ListsIntact
<1> QED
  BY <1>1, NaptSpecIInv, PTL

\* ip_napt_find_dest answers with the session that has the port, for any ports
\* that ip_napt_new_port picks and any mapped ports: none is given to two sessions
\* of a protocol.
THEOREM AnswerReachesHostHolds == NaptSpec => []AnswerReachesHost
<1>1. NaptIInv => AnswerReachesHost
  <2> SUFFICES ASSUME NaptIInv, NEW i \in InUse,
                      napt_data.table[i].proto # "ICMP", ~Expired(napt_data.table[i])
               PROVE  LET t == napt_data.table[i]
                      IN  ip_napt_find_dest(napt_data, t.proto, t.dest, t.dport, t.mport).hit = i
    BY DEF AnswerReachesHost
  <2> DEFINE t == napt_data.table[i]
             wanted == {x \in Idx : /\ napt_data.table[x].proto = t.proto
                                    /\ napt_data.table[x].dest = t.dest
                                    /\ napt_data.table[x].dport = t.dport
                                    /\ napt_data.table[x].mport = t.mport}
  <2>1. PICK A \in Seq(Idx), F \in Seq(Idx) : napt_data \in Tables /\ Sound(napt_data, A, F)
    BY DEF NaptIInv, TableOK
  <2>2. i \in Members(A) /\ Members(A) \subseteq Idx
    BY <2>1, ActiveIs, RangeIs, MembersIdx DEF InUse, Sound
  <2>3. i \in wanted /\ ~Expired(napt_data.table[i])
    BY <2>2
  <2>4. \A y \in Members(A) : y \in wanted => y = i
    BY <2>1, <2>2 DEF Sound, PortsDiffer
  <2>5. Search(napt_data, wanted).hit = i
    <3>1. ListsAre(napt_data, A, F)
      BY <2>1 DEF Sound
    <3> HIDE DEF wanted
    <3> QED
      BY <2>1, <2>2, <2>3, <2>4, <3>1, SearchFinds
  <2>6. ip_napt_find_dest(napt_data, t.proto, t.dest, t.dport, t.mport) = Search(napt_data, wanted)
    BY DEF ip_napt_find_dest
  <2> QED
    BY <2>5, <2>6
<1> QED
  BY <1>1, NaptSpecIInv, PTL

\* ip_napt_add returns port 0 only after ip_napt_find has walked over the whole
\* list, and then a table without a free entry holds live sessions only.
THEOREM RefusedWhenFullHolds == NaptSpec => []RefusedWhenFull
<1>1. NaptIInv => RefusedWhenFull
  <2> SUFFICES ASSUME NaptIInv, refused
               PROVE  /\ Len(Active(napt_data)) = NaptMax
                      /\ \A i \in Idx : ~Expired(napt_data.table[i])
    BY DEF RefusedWhenFull
  <2>1. PICK A \in Seq(Idx), F \in Seq(Idx) :
          /\ napt_data \in Tables /\ Sound(napt_data, A, F)
          /\ Len(F) = 0 /\ \A i \in Idx : ~Expired(napt_data.table[i])
    BY DEF NaptIInv, TableOK
  <2>2. ListsAre(napt_data, A, F)
    BY <2>1 DEF Sound
  <2>3. Active(napt_data) = A
    BY <2>1, <2>2, ActiveIs
  <2>4. Len(A) + Len(F) = NaptMax /\ Len(A) \in Nat
    BY <2>2 DEF ListsAre, Split
  <2>5. Len(A) = NaptMax
    BY <2>1, <2>4
  <2> QED
    BY <2>1, <2>3, <2>5
<1> QED
  BY <1>1, NaptSpecIInv, PTL

\* From one packet to the next, ip_napt_find reclaims only what has timed out,
\* ip_napt_add takes only a free entry or moves the host's own session, and
\* nothing writes the port of an entry in use.
THEOREM SessionKeepsPortHolds == NaptSpec => SessionKeepsPort
<1> DEFINE Keeps(after) ==
             \A i \in InUse :
                LET t == napt_data.table[i]
                    u == napt_data'.table[i]
                IN  ~Expired(t) => /\ i \in after
                                   /\ u.proto = t.proto /\ u.src = t.src
                                   /\ u.sport = t.sport /\ u.mport = t.mport
<1>1. ASSUME NaptIInv, [NaptNext]_naptVars
      PROVE  Keeps(InUse')
  <2>1. NaptIInv' /\ KeepsLive(napt_data, napt_data')
    BY <1>1, NaptNextIInv
  <2>2. PICK A \in Seq(Idx), F \in Seq(Idx) : napt_data \in Tables /\ ListsAre(napt_data, A, F)
    BY <1>1 DEF NaptIInv, TableOK, Sound
  <2>3. PICK B \in Seq(Idx), G \in Seq(Idx) : napt_data' \in Tables /\ ListsAre(napt_data', B, G)
    BY <2>1 DEF NaptIInv, TableOK, Sound
  <2>4. Active(napt_data) = A /\ Active(napt_data') = B
    BY <2>2, <2>3, ActiveIs
  <2>5. InUse = Members(Active(napt_data)) /\ InUse' = Members(Active(napt_data'))
    BY <2>4, RangeIs DEF InUse
  <2> QED
    BY <2>1, <2>5 DEF KeepsLive, SameSession
<1>2. NaptIInv /\ [NaptNext]_naptVars => [Keeps(InUse')]_naptVars
  BY <1>1
<1> QED
  BY <1>2, NaptSpecIInv, PTL DEF NaptSpec, SessionKeepsPort
=============================================================================
