----------------------------- MODULE EspconnRecv -----------------------------
(***************************************************************************)
(* The receive path of one TCP connection of espconn (espconn_tcp_recv,    *)
(* espconn_client_recv and espconn_server_recv, the hold functions in      *)
(* glue-lwip/espconn_tcp.c, and espconn_recv in glue-lwip/espconn.c).      *)
(*                                                                         *)
(* Received bytes go to recv_callback or wait in the ring buffer until     *)
(* espconn_recv takes them.  The window that lwIP advertises must not      *)
(* promise more than the ring buffer has room for, and must open again.    *)
(* The callbacks end the functions that call them, so what an application  *)
(* does in a callback is modelled as done right after it.  Bytes are named *)
(* by their position in the stream; a packet is one pbuf.                  *)
(***************************************************************************)
EXTENDS RingOps

CONSTANTS
    TCP_WND,        \* window of lwIP, and capacity of the ring buffer
    MaxStream,      \* bound on the bytes the remote host sends
    NULL

ASSUME WindowAssumption == TCP_WND \in Nat \ {0} /\ MaxStream \in Nat

\* A pointer to a ring buffer is not NULL.
ASSUME NullAssumption == NULL \notin Rings(TCP_WND + 1, 0 .. MaxStream)

VARIABLES
    manual,          \* ESPCONN_MANUALRECV was set when the connection was made
    recv_callback,   \* the application has registered one
    readbuf,         \* the ring buffer, or NULL
    recv_hold_flag, recv_holded_buf_Len,
    rcv_wnd,         \* lwIP: the window
    refused,         \* lwIP: bytes the receive function did not take
    established,     \* lwIP: the state of the pcb is ESTABLISHED
    sent,            \* ghost: bytes the remote host has sent
    got              \* ghost: bytes the application has got

hold == <<recv_hold_flag, recv_holded_buf_Len>>
lwip == <<rcv_wnd, refused, established, sent>>
vars == <<manual, recv_callback, readbuf, hold, lwip, got>>

Init ==
    /\ manual \in BOOLEAN
    /\ recv_callback \in BOOLEAN
    /\ readbuf = NULL
    /\ recv_hold_flag = FALSE /\ recv_holded_buf_Len = 0
    /\ rcv_wnd = TCP_WND
    /\ refused = <<>>
    /\ established = TRUE
    /\ sent = 0
    /\ got = <<>>

\* lwIP's tcp_recved: the window grows up to its size (external).
tcp_recved(wnd, len) == IF wnd + len > TCP_WND THEN TCP_WND ELSE wnd + len

Ring == IF readbuf = NULL THEN ringbuf_new(TCP_WND, 0) ELSE readbuf

-----------------------------------------------------------------------------
(* Data from the remote host; "data" has left the window. *)

\* espconn_tcp_recv: the application fetches the data itself.
espconn_tcp_recv(data, wnd) ==
    /\ manual
    /\ readbuf' = ringbuf_memcpy_into(Ring, data)
    /\ rcv_wnd' = wnd
    /\ refused' = <<>>
    /\ UNCHANGED <<hold, got>>

\* Without memory for the ring buffer espconn_tcp_recv returns ESPCONN_MEM:
\* lwIP keeps the data and offers it again.
RecvRefused(data, wnd) ==
    /\ manual /\ readbuf = NULL
    /\ rcv_wnd' = wnd
    /\ refused' = data
    /\ UNCHANGED <<readbuf, hold, got>>

\* espconn_lock_recv and espconn_recv_hold: the window is held when there is
\* nobody to take the data.  That its ringbuf_new fails is left out: the callers
\* ignore ESPCONN_MEM and write to the ring buffer that is not there.
Locked ==
    IF ~recv_callback /\ ~recv_hold_flag THEN [flag |-> TRUE, len |-> 0]
    ELSE [flag |-> recv_hold_flag, len |-> recv_holded_buf_Len]

\* Mutant: the window opens although the data stays in the ring buffer.
Credit_always(wnd, n, held) == tcp_recved(wnd, n)

\* The window opens at once unless it is held.
Credit(wnd, n, held) == IF held THEN wnd ELSE tcp_recved(wnd, n)

\* espconn_client_recv and espconn_server_recv.
espconn_client_recv(data, wnd) ==
    /\ ~manual
    /\ recv_hold_flag' = Locked.flag
    /\ rcv_wnd' = Credit(wnd, Len(data), Locked.flag)
    /\ recv_holded_buf_Len' = IF Locked.flag THEN Locked.len + Len(data) ELSE Locked.len
    /\ IF recv_callback
       THEN got' = got \o data /\ UNCHANGED readbuf
       ELSE readbuf' = ringbuf_memcpy_into(Ring, data) /\ UNCHANGED got
    /\ refused' = <<>>

TakesData(data, wnd) ==
    \/ espconn_tcp_recv(data, wnd)
    \/ RecvRefused(data, wnd)
    \/ espconn_client_recv(data, wnd)

\* The remote host sends what the window allows.
Receive(n) ==
    /\ established /\ refused = <<>>
    /\ n \in 1 .. rcv_wnd /\ sent + n <= MaxStream
    /\ sent' = sent + n
    /\ TakesData([i \in 1 .. n |-> sent + i], rcv_wnd - n)
    /\ UNCHANGED <<manual, recv_callback, established>>

\* lwIP offers refused data again.
Again ==
    /\ refused # <<>>
    /\ TakesData(refused, rcv_wnd)
    /\ UNCHANGED <<manual, recv_callback, established, sent>>

\* The remote host closes: the connection leaves ESTABLISHED.
RemoteCloses ==
    /\ established /\ refused = <<>>
    /\ established' = FALSE
    /\ UNCHANGED <<manual, recv_callback, readbuf, hold, rcv_wnd, refused, sent, got>>

-----------------------------------------------------------------------------
(* The application. *)

\* Mutant: only a window that is held is credited with what is read.
espconn_recv_held(len) ==
    /\ readbuf # NULL /\ ringbuf_bytes_used(readbuf) # 0
    /\ LET n == IF len > ringbuf_bytes_used(readbuf) THEN ringbuf_bytes_used(readbuf) ELSE len
       IN  /\ got' = got \o Load(readbuf, n).out
           /\ readbuf' = ringbuf_memcpy_from(readbuf, n)
           /\ rcv_wnd' = IF established /\ recv_hold_flag THEN tcp_recved(rcv_wnd, n) ELSE rcv_wnd
    /\ UNCHANGED <<manual, recv_callback, hold, refused, established, sent>>

espconn_recv(len) ==
    /\ readbuf # NULL /\ ringbuf_bytes_used(readbuf) # 0
    /\ LET n == IF len > ringbuf_bytes_used(readbuf) THEN ringbuf_bytes_used(readbuf) ELSE len
       IN  /\ got' = got \o Load(readbuf, n).out
           /\ readbuf' = ringbuf_memcpy_from(readbuf, n)
           /\ rcv_wnd' = IF established THEN tcp_recved(rcv_wnd, n) ELSE rcv_wnd
    /\ UNCHANGED <<manual, recv_callback, hold, refused, established, sent>>

espconn_recv_hold ==
    /\ ~recv_hold_flag
    /\ recv_hold_flag' = TRUE /\ recv_holded_buf_Len' = 0
    /\ UNCHANGED <<manual, recv_callback, readbuf, lwip, got>>

\* espconn_recv_unhold and espconn_unlock_recv.
espconn_recv_unhold ==
    /\ recv_hold_flag
    /\ rcv_wnd' = tcp_recved(rcv_wnd, recv_holded_buf_Len)
    /\ recv_hold_flag' = FALSE /\ recv_holded_buf_Len' = 0
    /\ UNCHANGED <<manual, recv_callback, readbuf, refused, established, sent, got>>

espconn_regist_recvcb(cb) ==
    /\ cb # recv_callback
    /\ recv_callback' = cb
    /\ UNCHANGED <<manual, readbuf, hold, lwip, got>>

Read == \E n \in 1 .. TCP_WND + 1 : espconn_recv(n)

Next ==
    \/ \E n \in 1 .. TCP_WND : Receive(n)
    \/ Again
    \/ RemoteCloses
    \/ Read
    \/ espconn_recv_hold
    \/ espconn_recv_unhold
    \/ \E cb \in BOOLEAN : espconn_regist_recvcb(cb)

Spec == Init /\ [][Next]_vars

-----------------------------------------------------------------------------
(* Properties. *)

\* The window and the ring buffer have the sizes they were made with, whatever is
\* credited and stored (ringbuf_memcpy_into, tcp_recved).
TypeOK ==
    /\ manual \in BOOLEAN /\ recv_callback \in BOOLEAN
    /\ established \in BOOLEAN /\ recv_hold_flag \in BOOLEAN
    /\ readbuf \in {NULL} \cup Rings(TCP_WND + 1, 0 .. MaxStream)
    /\ recv_holded_buf_Len \in Nat
    /\ rcv_wnd \in 0 .. TCP_WND
    /\ sent \in 0 .. MaxStream
    /\ refused \in Seq(0 .. MaxStream) /\ got \in Seq(0 .. MaxStream)

Waiting ==
    [i \in 1 .. ringbuf_bytes_used(Ring) |-> Ring.buf[(Ring.tail + i - 1) % Ring.size]]

\* The ring buffer has room for every byte the window still allows.
RoomForWindow == rcv_wnd + Len(Waiting) + Len(refused) <= TCP_WND

\* Every byte the remote host sent is with the application, in the ring buffer
\* or with lwIP, once, and the bytes that wait are in the order of the stream.
EveryByteOnce ==
    LET waits == Waiting \o refused
        all == (got \o Waiting) \o refused
    IN  /\ Len(all) = sent
        /\ \A b \in 1 .. sent : \E i \in 1 .. sent : all[i] = b
        /\ \A i \in 1 .. Len(waits) :
              waits[i] <= sent /\ \A j \in 1 .. i - 1 : waits[j] < waits[i]

InStep == RoomForWindow /\ EveryByteOnce

\* Nothing the remote host or the application does loses a byte, delivers it
\* twice, stores it out of order or promises more room than there is, but for
\* one call: espconn_recv_unhold with bytes in the ring buffer, which credits
\* the window with bytes that espconn_recv will credit again.  A ring buffer
\* that overflows drops unread bytes without a word (ringbuf_memcpy_into).
NothingLost ==
    [][InStep /\ ~InStep' =>
          espconn_recv_unhold /\ ringbuf_bytes_used(Ring) > 0]_vars

\* A window that is not fully open has a reason that the application can
\* remove: bytes to read, or held bytes to release.  Otherwise the connection
\* would keep a smaller window for good (espconn_client_recv, espconn_recv,
\* espconn_recv_unhold).
NoWindowLeak ==
    (established /\ rcv_wnd < TCP_WND) =>
        \/ ringbuf_bytes_used(Ring) > 0
        \/ recv_hold_flag /\ recv_holded_buf_Len > 0
        \/ refused # <<>>
=============================================================================
