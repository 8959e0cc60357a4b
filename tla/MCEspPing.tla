------------------------------ MODULE MCEspPing ------------------------------
(* Small instances of EspPing: a second is two ticks, and sequence numbers *)
(* go back to 0 within a session.                                          *)
EXTENDS EspPing
=============================================================================
