------------------------------ MODULE MCRingBuf ------------------------------
(* A buffer of three bytes, and writes up to twice its size. *)
EXTENDS RingBuf
=============================================================================
