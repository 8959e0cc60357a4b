------------------------------ MODULE ByteQueue ------------------------------
(***************************************************************************)
(* What the ring buffer of espconn promises: a queue of at most Capacity   *)
(* bytes.  A write that does not fit pushes out the oldest bytes, those of *)
(* the same write included; a read takes the oldest bytes.  "io" is what   *)
(* the caller sees of an operation: the bytes it wrote, or the bytes it    *)
(* got.                                                                    *)
(***************************************************************************)
EXTENDS Integers, Sequences

CONSTANTS Byte, Capacity, MaxWrite

VARIABLES queue, io

vars == <<queue, io>>

Writes == UNION {[1 .. n -> Byte] : n \in 0 .. MaxWrite}

\* The newest n elements of s.
Newest(s, n) == IF Len(s) <= n THEN s ELSE SubSeq(s, Len(s) - n + 1, Len(s))

Init == queue = <<>> /\ io = <<>>

Write(in) ==
    /\ queue' = Newest(queue \o in, Capacity)
    /\ io' = in

Read(n) ==
    /\ n <= Len(queue)
    /\ queue' = SubSeq(queue, n + 1, Len(queue))
    /\ io' = SubSeq(queue, 1, n)

Reset == queue' = <<>> /\ io' = <<>>

Next ==
    \/ \E in \in Writes : Write(in)
    \/ \E n \in 0 .. Capacity : Read(n)
    \/ Reset

Spec == Init /\ [][Next]_vars
=============================================================================
