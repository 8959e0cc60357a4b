# Verification of the ESP82xx lwIP 2 link layer

This directory holds TLA+ models of esp82xx-nonos-linklayer: the glue that lets
the closed Wi-Fi firmware of the ESP8266 (the *blobs*), which was built against
lwIP 1.4, run with an unmodified lwIP 2, together with the services that live
on the lwIP 2 side. The models are translated from the C sources; `PROJECT.json`
maps each definition to the lines it stands for.

Run a model with `tlc -config <file>.cfg <MC module>`, check proofs with
`tlapm <module>.tla` for `SeqFacts` and the modules named `*Proofs`.

## The system

```
 application  ── espconn, ping, DHCP-server configuration
      │
   lwIP 2 (vendored)  ── timers, DHCP client, raw/tcp/udp, NAPT patch
      │   lwip-git.c         new_linkoutput, status callback, esp2glue_*
 ─────┼───────────────────── glue: no shared types, void* and error codes
      │   lwip-esp.c         pbuf/netif/dhcp of lwIP 1.4 re-implemented
   blobs  ── radio, association, call and are called through lwIP 1.4 symbols
```

Everything runs without an operating system (NO_SYS): lwIP code is never
preempted by lwIP code, and a call runs to its end. Concurrency comes from the
blobs, which may give a packet back at any moment, from callbacks nested in
calls, from timers, and from the network.

| Component | Source | State | Operations | Hard part | Correct when |
|---|---|---|---|---|---|
| Packet path | glue-esp/lwip-esp.c, glue-lwip/lwip-git.c | pbuf reference counts, pool of wrappers, blob pbufs with receive descriptors | new_linkoutput, glue2esp_linkoutput, pbuf_alloc/ref/free, ethernet_input | blobs free at any time, refusals, no memory | memory is valid while used, freed once, nothing leaks |
| Interface glue | same | two copies of each interface, default route, DHCP client, SNTP | netif_add/set_addr/set_up/set_down/remove, dhcp_start/stop, status callback | both sides write, calls nest | both copies agree, an address is usable, down is complete |
| DHCP server | glue-lwip/esp-dhcpserver.c | lease list, range, lease time, `renew` | messages, reports from the blobs, timer, configuration | long sequences of legal calls, takeovers, expiry | one station per address, replies are backed by leases |
| Ping | glue-lwip/esp-ping.c | session block, two timers per round, global sequence numbers | ping_start, ping_coarse_tmr, ping_timeout, ping_recv | timer against answer, free against timer | no timer outlives its session, each round reported |
| espconn connections | glue-lwip/espconn.c, espconn_tcp.c, espconn_udp.c | list of connections, lwIP control blocks that point back, task messages | connect, accept, disconnect, abort, delete, the callbacks of lwIP, espconn_Task | messages and callbacks carry addresses of blocks that are reused | one end per connection, no callback or message reaches a freed or reused block |
| espconn sending | espconn.c, espconn_tcp.c | list of packets, `ptail`, `write_flag`, counts of acknowledged bytes | espconn_sent, espconn_tcp_write, espconn_tcp_finish, options | partial writes and acknowledgements, calls from the callback | the stream is complete and in order, every packet is reported once, after its last byte |
| espconn receiving | same | ring buffer, held window | espconn_recv, hold and unhold, receive callbacks | the window is lwIP's, the buffer espconn's | no byte lost, the window opens again |
| Ring buffer | glue-lwip/espconn_buf.c | head, tail, bytes | write, fill, read, reset | wrap, overwrite when full | behaves as a bounded queue |
| Clock | glue-lwip/esp-millis.c, esp-time.c | overflow counter | millis, timer tick | counter wrap | monotonic |
| NAPT | patches/napt.patch | table of sessions with two lists, mapped ports | forward, receive, map, unmap, enable | table full, lazy expiry, reuse | lists consistent, an answer reaches its host, refused only when full |

Interactions: the packet path reads the link flag that the interface glue
maintains (`link` in GluePbuf is the environment's view of `esp[i].link` in
GlueNetif); `dhcps_start` is split between GlueNetif (interface and broadcast
address) and DhcpServer (range and table). EspconnRecv uses the operators of
RingOps that RingBuf shows to be a queue. EspconnTcp has the existence of a
connection, EspconnSend and EspconnRecv its data while it exists; `posts` of
EspconnTcp are the end messages, those of EspconnSend the write-finished ones.

## Modules

| Module | Models |
|---|---|
| `GluePbuf` | Packet path. The foreground call (`fg`: program counter and locals) is split wherever the blobs can run; pool and counter accesses, made with interrupts masked, are single steps. |
| `PbufLoan` | Abstract promise of the packet path: packets, owners, outstanding transmissions. |
| `GlueNetif` | Both copies of the interfaces. A handler is one action, written as a composition of state functions in the order of the nested calls. |
| `DhcpServer` | Lease table and configuration. An address is its /24 segment and last octet, because the code compares words in network order on a little-endian machine: the last octet decides. |
| `EspPing` | Ping sessions over lwIP's ordered timer list. |
| `EspconnTcp` | Life of connections: the list of nodes, lwIP's control blocks (pcbs) and the task queue, for clients, one server and one UDP entry. |
| `EspconnSend` | Send queue of one connection, split at every iteration of its two loops. |
| `EspconnRecv` | Receive path of one connection: window, ring buffer, hold. |
| `RingOps`, `RingBuf` | The ring buffer as operators, and as a component. |
| `ByteQueue` | Abstract promise of the ring buffer: a bounded queue that drops its oldest bytes. |
| `Napt` | Sessions as an indexed array with its free list and its doubly linked list, and the mapped ports. |
| `MC*` | Constants of the instances. |
| `GluePbufProofs` | Proofs: invariants of the packet path; that it implements PbufLoan. |
| `GlueNetifProofs`, `EspPingProofs`, `EspconnTcpProofs`, `EspconnSendProofs` | Proofs about the module of that name. |
| `EspconnRecvProofs` | Proofs: the ring buffer implements ByteQueue; the receive path that uses it. |
| `SoftApProofs` | Proofs about the soft access point's two services, DhcpServer and Napt. |
| `SeqFacts` | Lemmas about lists (insertion, deletion, first and last position) and the form of induction the proofs use. |

### How state and actions correspond

*GluePbuf.* `ref`, `kind` and `core` are lwIP 2's pbufs (count, chained/received,
held by the stack). `pool`, `nblk`, `save`, `wref` are the list of wrappers
(`pbuf_wrapper_head`), blocks obtained, `ref2save` and the wrapper's own count;
`phy` and `rel` are the wrappers with the blobs and inside `pbuf_free`. `bp` and
`ebs` are the blobs' receive buffers and the hardware descriptors. The blobs and
the lwIP 2 core are external actors: they allocate, drop, accept, refuse with
any error code, and free, in any order. A failing `pbuf_clone` returns before
anything changed and is therefore a stuttering step.

*GlueNetif.* `esp`, `git` are the two copies, `dft` lwIP 2's default interface,
`dhcp` its DHCP client, `sntp` the address SNTP was last restarted for, `told`
what `system_station_got_ip_set` received, `bcast` the server's broadcast address.
lwIP 2's netif functions are modelled by when they call the status callback
(2.1.3: after a change of address, of UP). Assumed of the blobs: they add an
interface only when it is down, use it only once registered (otherwise
`glue2esp_ifupdown` dereferences NULL), and give the access point an address.
Known and not required by any property: an address removed by lwIP 2 calls back
before mask and gateway are cleared, and a new gateway with an unchanged address
does not call back, so the blobs' gateway can be stale.

*DhcpServer.* Each call is one action; `out` is the reply of the last step and
may be lost for lack of memory. `wifi_softap_dhcps_client_update` is an operator
shared by `handle_dhcp` and by the blobs' report of a station's address. Notable
behaviour kept from the code: `kill_oldest_dhcps_pool` never considers the head
and marks the last node visited OFFLINE; a lease of a returning station becomes
DYNAMIC; DECLINE re-leases; a broadcast `ciaddr` leaves `renew` as the previous
call set it, and a full range yields an OFFER of 0.0.0.0 (`ReplyBacked` speaks
of replies that name an address). Write-only mirrors (`wifi_softap_set_station_info`),
option bytes, DNS, the offer flag and the UDP control block are left out.

*EspPing.* `queue` is lwIP's timer list, expired timers waiting in order until
polled. Answers need no variable: any answer with the last number sent may
arrive at any time, any number of times, at any session's control block, and
answers with other numbers change nothing.

*EspconnTcp.* `msg` is the `espconn_msg` of each block (kind, state of its
espconn, `pcommon.pcb`, options, `recv_check`), `active` is `plink_active`, `pcb`
is what lwIP keeps: state, argument, which functions are registered (`recv`,
`err`, `poll`), the local port, and `tuple`, the node whose four-tuple the pcb has.
`local_ip` tells whether the addresses of a client were ever filled in, which is
what `espconn_find_current_pcb` branches on. Nodes and pcbs are allocated from
small sets and reused: a stale address is then the address of something else,
which is what the properties are about. `tcp_close` and the states a pcb passes
through afterwards are external. `Ended` is the common end of
`espconn_client_close` and `espconn_server_close`, with the rollback when
`tcp_close` fails.

*EspconnSend.* `buf[p]` has the fields of `espconn_buf` (`off` is `punsent`
relative to `payload`), `pbuf` and `ptail` are the list and the pointer into it.
`pc` says where the running call is, because `sent_callback` runs in the middle
of `espconn_tcp_finish` and may call `espconn_sent`. `tcp_write` may fail with
ERR_MEM for any length, which makes the code try shorter ones (`Attempts`);
acknowledgements are any number of bytes in flight. `tot_len` is a 16-bit number
(`Word`). `base`, `wrote`, `acked` and `sentcb` are ghosts for the properties.

*EspconnRecv.* Bytes are named by their position in the stream. A connection is
made with or without ESPCONN_MANUALRECV; a receive callback may be registered
and removed at any time; the ring buffer may not be allocated, and lwIP then
offers the data again. The window is credited where the code calls `tcp_recved`.

*RingOps.* The copy loops are functions of the number of iterations; pointers are
offsets. *RingBuf* (`RingSpec`) takes them in any order and maps `Contents`, the bytes from
tail to head, to the queue of *ByteQueue*.

*Napt* (`NaptSpec`). `napt_data.table` has the links `next` and `prev` as indexes, so
inserting and freeing entries are the pointer operations of the code. `Walk` reads a
list along its links; `Search` is the loop of `ip_napt_find`, which frees expired
entries up to its hit, one at a time. Time is the age of an entry. The flags of an
entry are kept as a set, without `rst`, which nothing reads.
Packets to and from mapped ports change nothing and are stuttering steps.

## Runs

| Run | Question | Bounds |
|---|---|---|
| `pbuf_early` | Is all packet memory accounted for if the blobs may free inside linkoutput, and is `PbufLoan` implemented? | 3 packets (sent, cloned and received at once), 2 wrappers in one block so that the pool runs dry, 2 receive buffers competing for a descriptor |
| `pbuf_live` | Does all memory come back, and is the capture safe if frees come later? | 2 packets, pool growing twice by 1 |
| `dhcp_table` | Can an address be leased twice, or a reply be unbacked, when stations claim addresses of the range? | 4 stations, 3 addresses: the range is exhausted, takeovers and expiry happen; MAX_STATION_NUM 3 |
| `dhcp_wild` | With any claim and reservation: one lease per station, online leases kept, silent ones ended, the server's address never in its range? | 2 stations, MAX_STATION_NUM 2, claims in and outside the segment, 5 AP addresses on both sides of 0x80 (scaled to 4) and in 2 segments, 5 ranges |
| `netif_mirror` | Do the copies agree after every call, and what can leave an address without a link? | 2 addresses, with and without gateway |
| `ping` | Is a timer ever left on a freed session, a round unreported or reported wrongly? Does every session end? | 2 sessions of 1 or 3 rounds, sequence numbers modulo 3, a second of 2 ticks |
| `ring` | Is the ring buffer a bounded queue? | capacity 3 (4 cells), every write of up to 6 bytes over 2 values: longer than the buffer, from every head and tail |
| `send` | Is the stream complete and in order, each packet reported once and in the end, however lwIP splits writes and acknowledgements? Which call can make a refusal last? | 3 packets of 1 or 5 bytes, send buffer 4, 2 segments, 2 mss = 3: packets that need several writes, acknowledgements over several packets, full queue, lost task messages |
| `recv` | After which call can bytes be lost, and does the window leak? | window 4, stream of 8 bytes: the ring buffer fills and wraps twice |
| `tcp_life` | Does any message, callback or pcb reach a block it does not belong to? Can an accept exceed the limit? Is a connection whose peer is gone ended? | 2 nodes, 2 pcbs, a client port, a server and a UDP entry: every block is soon reused; `tcp_close` may fail |
| `tcp_again` | The same for an application that disconnects twice | as `tcp_life`; a violation is expected |
| `napt` | Do the lists stay intact, does the search for an answer find its session, is a session refused with room left? | 3 entries (middle, first and last are freed), 2 hosts with the same ports, 4 outside ports of which one is mapped and unmapped, two timeouts |

The last octet is scaled from 256 to 8 and DHCPS_MAX_LEASE from 100 to 3, keeping
their order (`OctetAssumption`): the default range lies above or below the AP and
both ends of the segment are reachable. `Word` is scaled from 2^16 to 16, larger
than a packet plus the send buffer as `LengthsAssumption` demands. In `napt` the
TCP flags are those of opening a connection; a FIN exchange only turns the long
timeout into the short one, and entries without SYN-ACK have the short one anyway.
Every other bound is a set in a `.cfg`. The longest runs (`dhcp_wild`, `napt`, `recv`) take two to three minutes.

### What the environment is assumed not to do

Some constants switch an assumption about callers on or off. The passing runs use
the values below; with the other value of `AnyClaim`, `ReserveAnytime`,
`MemFailsIdle`, `Redisconnect` and `EndConnecting` TLC refutes a property of that
run, which "Known limits" lists.

| Constant | Value in the runs | Meaning |
|---|---|---|
| `EarlyFree` | TRUE, except in `pbuf_live` | the blobs may free a wrapper inside linkoutput |
| `AnyClaim` | FALSE in `dhcp_table` | stations claim addresses at or above `start_ip` |
| `ReserveAnytime` | FALSE in `dhcp_table` | reservations are made while the table has no gap |
| `MemFailsIdle` | FALSE | `tcp_write` of one byte succeeds when nothing is in flight |
| `Redisconnect` | FALSE, except in `tcp_again` | a connection of the server is disconnected once |
| `EndConnecting` | FALSE | a client is not disconnected or aborted while it connects |

Nothing is assumed about when a DHCP answer is processed, when the application
changes options, releases a held window or changes the limit of a server: where
one of these does harm, the property names it as the only step that does.

Further:

* the AP's address changes only while the DHCP server is stopped;
* the task queue of espconn has room for one end message per connection
  (`TaskAssumption`);
* applications do not send on a connection that has ended (`espconn_sent` does not
  test the state), and there is one server, which is not started twice
  (`espconn_accept` does not look for another one);
* no peer connects again from the address and port of a connection that
  `espconn_Task` has not freed yet: `espconn_find_current_pcb` looks up connections of
  a server by the remote side only (espconn_tcp.c:211-219) and would find the new one.

### Fairness

`GluePbuf.FairSpec`: the foreground finishes the calls it starts, and the blobs
free each packet they accepted (lwip-esp.c:298, "blobs will call pbuf_free() back
later"). `DhcpServer.FairSpec`: the SDK calls `dhcps_coarse_tmr` every minute.
`EspPing.FairSpec`: time passes and the main loop polls lwIP's timers.
`EspconnSend.FairSpec`: loops run to their end (there is no preemption), the remote
host acknowledges what it gets, the task queue is served. `EspconnTcp.FairSpec`:
the task queue is served, and lwIP calls the poll function of a connection it has,
with `tcp_close` succeeding in the end. No fairness is assumed of stations,
applications or the network otherwise.

### Finding

`tcp_again`: `espconn_disconnect` has a test commented "protect for
redisconnection" (espconn.c:1024) that holds back only clients. A second
disconnect of a connection of a server, before the task has run, closes the pcb
again and posts a second message for the same block. The first message frees the
block; if it is given to a new connection before the second one is handled, that
connection is ended.

### Known limits

Where the code does not do what one would hope for. Each of these is reproduced by
changing the named constant in a `.cfg`, or by checking the named definition; for
those that say "only", the named property or theorem excludes every other cause.

* DhcpServer, `AnyClaim`: a claim below `start_ip` makes the next DISCOVER get
  `start_ip` although it is leased (`NoSharedAddress`; to see it, let `Claims` be
  `Around` in `MCDhcpServer_table.cfg`). Only this, the next item
  and a reservation into a gap lead there (`NoSharedAddressUnlessStray`).
* DhcpServer, a range that ends in the last address of the segment (which
  `wifi_softap_set_dhcps_lease` accepts): once it is full, stations get addresses of
  the next segment and then `start_ip` twice (`NoSharedAddress`).
* DhcpServer, `ReserveAnytime`: `wifi_softap_add_dhcps_lease` counts nodes, so after
  a gap it reserves an address in use, although its comment says "the next
  available @" (`ReservesAvailable`).
* GlueNetif: a DHCP answer processed after the blobs cleared the link leaves the
  station with an address and no link; only this does (`AddressUsable`). To see it,
  check `StationUsable` as an invariant.
* GlueNetif: when the blobs set the address, the "old" address they are told is the
  new one (`GotIpGivesOld`); restarting the DHCP server after `netif_set_down(ap)`
  makes it answer to 255.255.255.255 (`BroadcastOnAp`).
* EspconnSend: with ESPCONN_COPY cleared while a packet waits, `write_flag` stays down;
  only this does it (`RefusalIsTemporary`; check `Temporary` as an invariant to see
  it). `MemFailsIdle`: a write that fails with nothing in flight is not tried again
  (`AcceptedIsReported`).
* EspconnRecv: bytes released by `espconn_recv_unhold` while the ring buffer still has
  them are credited again when they are read, the window then exceeds the room and the
  ring buffer overwrites unread bytes. Only that call leads there (`NothingLost`; check
  `InStep` as an invariant to see it).
* EspconnTcp, `EndConnecting`: a client that never was connected is ended through the
  pcb noted in its node, which another connection may have by then (`LinkIntact`).
  A limit lowered below the number of connections is compared with `==` and never met
  again; only this leads past a limit (`AcceptWithinLimit`). A client whose remote
  close was swallowed for want of memory is not ended by anything: clients have no
  poll function, and `DeadPeerEnded` is about connections of a server.
* Napt: `ip_portmap_add` accepts any port. One that lies in the range of session ports
  hides the session that has it, because `ip_napt_recv` looks at mapped ports first; and
  a host that uses a port of the range keeps it unless TCP listens on it or has it
  mapped, also when the packet is UDP (napt.patch:304-306). `AnswerReachesHost` is
  about the search that follows.
* Napt: with two entries for mapped ports, mapping a port twice fills both, although
  napt-h.patch says "the old mapping is overwritten". A session that is renewed
  keeps the flags of the old one and with them perhaps the short timeout. Echo
  identifiers are not translated. When the table is full a TCP or UDP packet is sent
  with source port 0 (`RefusedWhenFull` says when that can happen). The age of an
  entry is a difference of 32-bit milliseconds and aliases after 49 days without a
  search over the entry; the model's age does not wrap.

## Proofs

The theorems hold for every value of the constants that satisfies the assumptions
of the module (which TLC evaluates in every run): any sets of packets, blocks,
sessions, stations and addresses, any limits and lengths, and either value of every
switch of "What the environment is assumed not to do". No theorem has a hypothesis
on them. Where a legal call of the application or an answer from the network can end
what a theorem promises, the theorem names that step and says that no other one can:
either the property is itself an action property of that form, which TLC checks as
well (`AddressUsable`, `RefusalIsTemporary`, `NothingLost`, `AcceptWithinLimit`), or
the theorem (named `...Unless...`) has three parts: the first state satisfies an
invariant, the invariant implies the property that a run checks, and a step that
leaves the invariant is one of those named. (`CaptureSeesOwnPacket` is the exception:
it is defined for blobs that do not free inside linkoutput, `~EarlyFree`.) The
inductive invariant (`IInv`; `LeaseInv` and `TableInv` for the DHCP server, `ListInv`,
`EndInv` and `LinkInv` for connections, `NaptIInv`) is defined in the component's
module or at the head of its proof module, and TLC checked it on the constants of
the run before it was proved.

| Module | Theorems, besides `TypeCorrect` | Steps that can end it |
|---|---|---|
| `GluePbufProofs` | `RefsExact`, `WrappersPartitioned`, `LentValid`, `DescriptorsConserved`, `CaptureSeesOwnPacket` | none |
| | `ImplementsPbufLoan` (a refinement) | none |
| `GlueNetifProofs` | `DefaultRouteUp`, `AddressMirrored`, `SntpFollowsAddress`, `DownIsComplete` (a step) | none |
| | `AddressUsable` | a DHCP answer without link |
| `SoftApProofs` | DHCP: `OneLeasePerStation`, `RangeExcludesServer`, `ReplyBacked`, `OnlineLeaseKept` (a step) | none |
| | `NoSharedAddressUnlessStray` (`NoSharedAddress`) | `StrayClaim`, `GapReserve`, `LastAddressRange` |
| | NAPT: `NaptTypeOK`, `ListsIntact`, `AnswerReachesHost`, `RefusedWhenFull`, `SessionKeepsPort` (a step) | none |
| `EspPingProofs` | `NoDanglingTimer`, `RoundReported` and `AnsweredNotLost` (steps) | none |
| `EspconnTcpProofs` | `ListExact` | none |
| | `EndsOnceUnlessDisconnectedTwice` (`OneEndMessage`, `NoDanglingArg`) | `SecondDisconnect` |
| | `LinkIntactUnlessEndedConnecting` (`LinkIntact`) | `SecondDisconnect`, `EndsConnecting` |
| | `AcceptWithinLimit` | the limit is lowered below the count |
| `EspconnSendProofs` | `StreamInOrder`, `PtailValid`, `ReportedWhenAcked` | none |
| | `RefusalIsTemporary` | ESPCONN_COPY is cleared while `write_flag` is down |
| `EspconnRecvProofs` | `RefinesByteQueue` (a refinement), `TypeOK`, `NoWindowLeak` | none |
| | `NothingLost` | `espconn_recv_unhold` with unread bytes |

`EspconnTcpProofs` has no `TypeCorrect` of its own: the types of the nodes, the list and
the limit are part of `ListInv`, those of control blocks and messages of `EndInv`.

*Packet path.* None of the properties is inductive alone. `RefsExact` counts the
users of a packet, so a step that frees must know that its count was positive,
which needs `LentValid`; that a lent wrapper has one packet needs
`WrappersPartitioned`, and that needs to know what the running call owns at each
program point: `FgConsistent`. The two conjuncts on receive buffers
(`DescriptorsConserved`, `FreeBlobPbufsClean`) go the same way. `IInv` is their
conjunction. The proof has one lemma per group of conjuncts and one step per
action; facts about the pool as a sequence and about cardinalities of the wrappers
lent for one packet are lemmas of their own. The refinement rests on the exact
counts: a packet is alive exactly while somebody holds it or it is lent
(`LiveIsUsed`), so every step allocates, lends, ends a loan, drops, or does nothing
that `PbufLoan` sees, and each of these is the step of that name there.

*Interface glue.* A handler is a composition of state functions; each function gets
a lemma that says which part of the invariant it restores when it starts with the
copies in disagreement, and the action lemmas compose them in the order of the
nested calls. The invariant comes in two parts: what always holds, and (`"linked"`)
what holds until a DHCP answer arrives without a link; both are carried through the
same lemmas.

*DHCP server.* `UpdateCases` shows that client_update refuses or grants in one of
four ways (renews, takes over, moves, enters); each is a replacement, deletion or
insertion in the list, and each invariant has one lemma for each of these. The
timer's loop over the list is a recursive function, about which `FilterPicks` is
proved by induction on its length. `NoSharedAddress` is not inductive: it needs
that the list is `Ordered`, in one segment, from `start_ip` on (`Table`), because
the search for a free address stops at the first gap and trusts that nothing
beyond it has a lower address. Three steps do not keep that order. `StrayClaim`: a
station claims an address outside the range. `GapReserve`: a reservation counts the
nodes of a list with gaps. `LastAddressRange`: the application configures a range
that ends with the segment. In the last case, with everything up to .255 leased,
`htonl(ntohl(ip) + 1)` is x.y.z+1.0,
which the comparison of raw words does not find beyond `end_ip`; a station gets
that address, it becomes the head of the list, and the next search gives out
`start_ip` again. (TLC shows it with a range that ends at `Octets - 1` and four
stations.) `RangeKept`, that a second `dhcps_start` computes the same range, is
what keeps the leases of a running server inside it.

*Ping.* The timer list is ordered by deadline, with a session's timeout before its
next request (`TimeoutFirst`) because both are started together and the timeout is
not the longer one; so the round is over when `ping_coarse_tmr` runs, which is why
it may free the session without cancelling the timeout. Insertion and deletion in
lwIP's list are the lemmas of `SeqFacts`.

*espconn, connections.* A message of a connection, its place on `plink_active`, its
control block and that block's argument change together; the invariant says, for
each state of a node, which of them refer to it. It has three layers: `ListInv`,
which nothing ends; `EndInv`, which a second disconnect ends because it posts a
second message; and `LinkInv`, which is also lost where a client that never
connected is ended through a stale pcb. Each lemma about an action says which of
the layers it keeps, and the named steps are the only ones for which one is missing.

*espconn, sending.* `StreamInOrder` and `ReportedWhenAcked` rest on an invariant
that ties the fields of every packet on the list (what is written, what is not
acknowledged) to its place in the stream, before and behind `ptail`. The ends of
segments in flight are kept as a set of positions, since only their order counts.

*espconn, ring buffer and receiving.* An offset is counted backwards from head, so
no modulus is needed: after a push the new byte has distance 0 and each other byte
one more. The copy loops are recursive functions of the number of iterations;
`LoopExists` shows that there is such a function, and induction on the iterations
(`NumberInduction`) says what it has moved so far. From there each operation is one
step of `ByteQueue`. The receive path needs three facts together: the window lacks
only bytes that wait somewhere (`CreditOK`), what waits and what the window promises
fit into the ring buffer (`RoomOK`), and the bytes delivered and waiting are those
sent, in order (`StreamOK`). Without the second one the ring buffer could overwrite
unread bytes. `CreditOK` holds always; `RoomOK` and `StreamOK` until an
`espconn_recv_unhold` finds unread bytes, and `UnholdUnread` shows that they survive
one that finds none.

*NAPT.* `NaptIInv` says that there are two sequences of entries, in use and free, that
split the table, whose `next` (and for the first `prev`) links follow the sequences,
whose ends are `list`, `list_last` and `free`, and that `nr_active` counts. That
`Walk` reads such a chain is proved once (`WalkIs`); `ip_napt_free` deletes from one
sequence and puts in front of the other, `ip_napt_insert` does the reverse. The test in
`ip_napt_insert` that the entry is the first free one ("free indexes mismatch" is
what it would print) therefore never fails. A search is an induction on the
entries it walks over: what it has freed is exactly what had timed out among them
(`Walked`), so all that had not is left where it was (`KeepsLive`, which is
`SessionKeepsPort`), and a search that finds nothing leaves live entries only
(`RefusedWhenFull`). Ports differ within each protocol because a new one is
compared with every entry on the list and no handler changes one (`PortsDiffer`),
which gives `AnswerReachesHost`.

Every refinement and action property of the passing runs is proved, and every
invariant: `OneEndMessage`, `NoDanglingArg`, `LinkIntact` and `NoSharedAddress` as the
consequences of an invariant that only the named steps can end, the others as
they stand. `SessionKeepsPort` and the type invariants are theorems that no run lists; TLC finds
them to hold when their names are added to the `.cfg` of the component (the former
takes long there: leave out the mapped ports).
Only model-checked: liveness (`WrapperReturns`, `DescriptorRecycled`,
`DroppedIsFreed`, `SilentLeaseExpires`, `AcceptedIsReported`, `PingEnds`,
`DeadPeerEnded`), because fairness and ENABLED are outside the prover. Induction is
available in the form of `NumberInduction`, over a set of numbers, not as a
theorem with an operator parameter.

## Not modelled

* The blobs and lwIP 2 beyond what the glue can observe; packet contents, checksums,
  option bytes; IPv6; debug output; build system.
* espconn UDP beyond creation and deletion: `espconn_udp_sent` sends a buffer in
  pieces within one call and `espconn_udp_recv` hands over one datagram; what they
  note in the node is not read by a later call. A broadcast in AP and station mode
  moves lwIP's default interface to the access point and leaves it there, which
  GlueNetif does not have.
* Of espconn TCP: time limits of single connections, keep-alive, names and addresses
  (`espconn_gethostbyname`, `espconn_dns_setserver`), and places where the code reads memory it
  or lwIP has freed: the error callbacks look at the state of a freed pcb,
  `tcp_sent` and `tcp_err` are called on a pcb that `tcp_close` may have freed, and the
  receive functions read `pthis->next` after `pbuf_free(pthis)`. What such a read
  returns depends on the heap; the model takes the values to be those before the free.
* `ringbuf_findchr`, which has no caller, and the clock (`millis`), a weak stand-in
  that the Arduino core replaces.
* Heap exhaustion is modelled where the code handles it (packet path, replies, ping
  requests, the ring buffer of a manual receive, accept) and not where the code ignores
  it: `os_zalloc` in the DHCP server, the second allocation of `espconn_tcp_accept`, and
  the ring buffer of `espconn_lock_recv` (espconn_tcp.c:715-717), whose callers go on
  and, without a receive callback, write to a NULL ring buffer (792, 1202).

Some 22000 of the 31700 lines of C in the repository are copies of lwIP's option
headers (`lwipopts.h`, `opt.h` and their history) and another part is the 1.4
headers: declarations and compile-time values without behaviour, which no
definition stands for.
The files with behaviour, under `glue-esp`, `glue-lwip` and `patches`, are modelled
but for the parts above.

## Plan

1. Done: packet path with proofs, interface glue, DHCP server, ping, ring buffer,
   espconn connections, sending and receiving, NAPT.
2. Done: theorems about all of them, the two refinements included; only liveness
   is left to TLC.
3. A composition of EspconnTcp with EspconnSend, so that the write-finished message
   of a connection can meet the reuse of its block; a composition of GlueNetif and
   DhcpServer around `dhcps_start`.
