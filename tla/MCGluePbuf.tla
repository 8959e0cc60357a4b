---------------------------- MODULE MCGluePbuf ----------------------------
(* Small instances of GluePbuf for TLC. *)
EXTENDS GluePbuf, TLC

\* Packets, blob pbufs and descriptors are interchangeable.
Symmetry == Permutations(Pbufs) \union Permutations(BlobPbufs) \union Permutations(Ebs)
=============================================================================
