------------------------------ MODULE RingOps ------------------------------
(***************************************************************************)
(* The ring buffer of glue-lwip/espconn_buf.c as operators on a record     *)
(* [size, buf, head, tail].  head and tail are offsets into buf; one cell  *)
(* stays free, so size is the capacity plus one.  The copy loops move one  *)
(* contiguous chunk per iteration and wrap the pointer after it: they are  *)
(* functions of the number of iterations made.                             *)
(***************************************************************************)
EXTENDS Integers, Sequences

\* struct ringbuf_t, for a buffer of size cells that hold elements of S.
Rings(size, S) ==
    [size : {size}, buf : [0 .. size - 1 -> S], head : 0 .. size - 1, tail : 0 .. size - 1]

\* ringbuf_new and ringbuf_reset: the buffer is zeroed, head and tail at its start.
ringbuf_new(capacity, zero) ==
    [size |-> capacity + 1, buf |-> [i \in 0 .. capacity |-> zero], head |-> 0, tail |-> 0]

ringbuf_reset(rb) == [rb EXCEPT !.head = 0, !.tail = 0]

ringbuf_capacity(rb) == rb.size - 1

ringbuf_bytes_free(rb) ==
    IF rb.head >= rb.tail THEN ringbuf_capacity(rb) - (rb.head - rb.tail)
    ELSE rb.tail - rb.head - 1

ringbuf_bytes_used(rb) == ringbuf_capacity(rb) - ringbuf_bytes_free(rb)
ringbuf_is_full(rb) == ringbuf_bytes_free(rb) = 0

ringbuf_nextp(rb, p) == (p + 1) % rb.size

\* The chunk of one iteration: up to the end of the buffer, or what is left.
Chunk(rb, p, left) == IF rb.size - p < left THEN rb.size - p ELSE left

Wrap(rb, p) == IF p = rb.size THEN 0 ELSE p

\* One iteration of the write loop: the next chunk of src goes to head.
StoreChunk(s, src) ==
    LET h == s.r.head
        c == Chunk(s.r, h, Len(src) - s.n)
    IN  [r |-> [s.r EXCEPT
                  !.buf = [i \in DOMAIN @ |->
                             IF i \in h .. h + c - 1 THEN src[s.n + i - h + 1] ELSE @[i]],
                  !.head = Wrap(s.r, h + c)],
         n |-> s.n + c]

\* The write loop of ringbuf_memcpy_into and ringbuf_memset.
Store(rb, src) ==
    LET Loop[k \in 0 .. Len(src)] ==
          IF k = 0 THEN [r |-> rb, n |-> 0] ELSE StoreChunk(Loop[k - 1], src)
    IN  Loop[Len(src)].r

Overflows(rb, count) == count > ringbuf_bytes_free(rb)

\* Mutant: after an overflow the oldest byte is taken to be at head.
PushTail_head(rb) == [rb EXCEPT !.tail = rb.head]

\* After an overflow the buffer is full: the oldest byte is behind the free cell.
PushTail(rb) == [rb EXCEPT !.tail = ringbuf_nextp(rb, rb.head)]

ringbuf_memcpy_into(rb, src) ==
    IF Overflows(rb, Len(src)) THEN PushTail(Store(rb, src)) ELSE Store(rb, src)

ringbuf_memset(rb, c, len) ==
    LET count == IF len < rb.size THEN len ELSE rb.size
        set   == Store(rb, [i \in 1 .. count |-> c])
    IN  IF Overflows(rb, count) THEN PushTail(set) ELSE set

\* One iteration of the read loop: the next chunk is copied from tail.
LoadChunk(s, count) ==
    LET t == s.r.tail
        c == Chunk(s.r, t, count - Len(s.out))
    IN  [r   |-> [s.r EXCEPT !.tail = Wrap(s.r, t + c)],
         out |-> s.out \o [i \in 1 .. c |-> s.r.buf[t + i - 1]]]

\* The read loop of ringbuf_memcpy_from: what is copied, and the buffer after
\* it.  More than there is cannot be read.
Load(rb, count) ==
    LET Loop[k \in 0 .. count] ==
          IF k = 0 THEN [r |-> rb, out |-> <<>>] ELSE LoadChunk(Loop[k - 1], count)
    IN  Loop[count]

ringbuf_memcpy_from(rb, count) == Load(rb, count).r
=============================================================================
