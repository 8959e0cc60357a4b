---------------------------- MODULE MCEspconnTcp ----------------------------
(* Connections with all options of EspconnTcp, or with none. *)
EXTENDS EspconnTcp

AllOrNone == {{}, {"MANUALRECV", "REUSEADDR"}}
=============================================================================
