------------------------------ MODULE RingBuf ------------------------------
(***************************************************************************)
(* The ring buffer as a component: its operations in any order, with any   *)
(* lengths, shown to implement ByteQueue.                                  *)
(***************************************************************************)
EXTENDS RingOps

CONSTANTS
    Byte,      \* values of a byte
    Zero,      \* what os_zalloc leaves in the buffer
    Capacity,  \* capacity given to ringbuf_new
    MaxWrite   \* bound on the length of a write; larger than the buffer

ASSUME RingAssumption ==
    /\ Capacity \in Nat \ {0} /\ MaxWrite \in Nat
    /\ Zero \in Byte

VARIABLES
    rb,  \* struct ringbuf_t
    io   \* ghost: the bytes of the last operation

ringVars == <<rb, io>>

RingInit == rb = ringbuf_new(Capacity, Zero) /\ io = <<>>

memcpy_into(src) ==
    /\ rb' = ringbuf_memcpy_into(rb, src)
    /\ io' = src

memset(c, len) ==
    /\ rb' = ringbuf_memset(rb, c, len)
    /\ io' = [i \in 1 .. len |-> c]

memcpy_from(count) ==
    /\ count <= ringbuf_bytes_used(rb)
    /\ rb' = ringbuf_memcpy_from(rb, count)
    /\ io' = Load(rb, count).out

reset ==
    /\ rb' = ringbuf_reset(rb)
    /\ io' = <<>>

RingNext ==
    \/ \E n \in 0 .. MaxWrite : \E src \in [1 .. n -> Byte] : memcpy_into(src)
    \/ \E c \in Byte, n \in 0 .. MaxWrite : memset(c, n)
    \/ \E n \in 0 .. Capacity : memcpy_from(n)
    \/ reset

RingSpec == RingInit /\ [][RingNext]_ringVars

-----------------------------------------------------------------------------
(* Properties. *)

\* The bytes stored, oldest first.
Contents(r) ==
    [i \in 1 .. ringbuf_bytes_used(r) |-> r.buf[(r.tail + i - 1) % r.size]]

Queue == INSTANCE ByteQueue WITH queue <- Contents(rb)

\* The ring buffer is a bounded queue: whatever the positions of head and tail
\* and the length of a write, the chunk loops and the recomputed tail leave the
\* newest bytes in order, and a read gets the oldest ones
\* (ringbuf_memcpy_into, ringbuf_memset, ringbuf_memcpy_from).
RefinesByteQueue == Queue!Spec
=============================================================================
