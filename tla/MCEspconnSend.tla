---------------------------- MODULE MCEspconnSend ----------------------------
(* Instances of EspconnSend. *)
EXTENDS EspconnSend
=============================================================================
