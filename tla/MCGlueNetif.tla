----------------------------- MODULE MCGlueNetif -----------------------------
(* Two addresses and one gateway: an address can change, appear or go. *)
EXTENDS GlueNetif
=============================================================================
