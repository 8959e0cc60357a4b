---------------------------- MODULE MCDhcpServer ----------------------------
(* Instances of DhcpServer: a last octet of three bits, so that the default *)
(* range, both sides of HalfOctet and the end of the segment are in reach.  *)
EXTENDS DhcpServer

\* Addresses h of the AP's segment, and of another one.
Here(h) == [net |-> 1, host |-> h]
There(h) == [net |-> 2, host |-> h]

OneAp == {Here(1)}
NoRanges == {}
\* The default range of Here(1) is 2 .. 4 when MaxLease = 3.
InRange == {Here(2), Here(3), Here(4)}
Around == {Here(3), There(2)}
NoRequests == {}
OneRequest == {Here(2)}
AnyRequest == {ANY, Here(2)}

\* The AP on either side of HalfOctet, at the ends, or in another segment.
ManyAps == {Here(0), Here(3), Here(4), Here(7), There(1)}
ManyRanges ==
    {[enable |-> TRUE, start |-> Here(s), end |-> Here(e)] : s, e \in {2, 5}}
        \union {[enable |-> FALSE, start |-> ANY, end |-> ANY]}

Symmetry == Permutations(Macs)
=============================================================================
