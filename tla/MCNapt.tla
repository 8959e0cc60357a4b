------------------------------- MODULE MCNapt -------------------------------
(* Three sessions of two hosts, and one mapped port. *)
EXTENDS Napt

Symmetry == Permutations(Hosts)
OpenAnswer == {{"SYN"}, {"SYN", "ACK"}}
=============================================================================
