------------------------------ MODULE PbufLoan ------------------------------
(***************************************************************************)
(* What the glue promises lwIP 2 about packet memory, without wrappers,    *)
(* pools, reference counts or program counters: a packet is live from its  *)
(* allocation until neither the stack holds it nor a transmission is       *)
(* outstanding on it, and every transmission ends exactly once.            *)
(***************************************************************************)
EXTENDS Naturals

CONSTANT Pbufs   \* packets

VARIABLES
    live,    \* packets whose memory is allocated
    held,    \* packets the stack owns
    loans    \* transmissions outstanding on each packet

vars == <<live, held, loans>>

Init ==
    /\ live = {}
    /\ held = {}
    /\ loans = [p \in Pbufs |-> 0]

\* The stack (or the receive path, on its behalf) obtains a packet.
Alloc(p) ==
    /\ p \notin live
    /\ live' = live \union {p}
    /\ held' = held \union {p}
    /\ loans' = loans

\* A transmission of a packet of the stack starts.
Lend(p) ==
    /\ p \in held
    /\ loans' = [loans EXCEPT ![p] = @ + 1]
    /\ UNCHANGED <<live, held>>

\* A transmission starts on a fresh copy that the stack never sees.
LendCopy(p) ==
    /\ p \notin live
    /\ live' = live \union {p}
    /\ loans' = [loans EXCEPT ![p] = 1]
    /\ held' = held

\* A transmission ends (sent or refused); the last user frees the memory.
EndLoan(p) ==
    /\ loans[p] > 0
    /\ loans' = [loans EXCEPT ![p] = @ - 1]
    /\ live' = IF loans[p] = 1 /\ p \notin held THEN live \ {p} ELSE live
    /\ held' = held

\* The stack drops a packet.
Drop(p) ==
    /\ p \in held
    /\ held' = held \ {p}
    /\ live' = IF loans[p] = 0 THEN live \ {p} ELSE live
    /\ loans' = loans

Next ==
    \E p \in Pbufs : Alloc(p) \/ Lend(p) \/ LendCopy(p) \/ EndLoan(p) \/ Drop(p)

Spec == Init /\ [][Next]_vars
=============================================================================
