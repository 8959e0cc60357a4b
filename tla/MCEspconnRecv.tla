---------------------------- MODULE MCEspconnRecv ----------------------------
(* A window of four bytes and a stream that fills it twice. *)
EXTENDS EspconnRecv
=============================================================================
