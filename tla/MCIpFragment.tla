---------------------------- MODULE MCIpFragment ----------------------------
(***************************************************************************)
(* Three datagrams for two hosts: one in fragments of every kind, two more *)
(* that make the hosts, timers and memory of the first ones change.        *)
(***************************************************************************)
EXTENDS IpReassembly, TLC

CONSTANTS q1, q2, q3, a, b, i, j

Places == Permutations(Ptr)

Frag(dst, id, offset, len, mf, ihl) ==
    [dst |-> dst, id |-> id, offset |-> offset, len |-> len, mf |-> mf, ihl |-> ihl]

\* 36 bytes in fragments that repeat, overlap and contain each other; with one
\* of the two headers they are too many.
Pieces ==
    {Frag(a, i, 0, 8, TRUE, 24), Frag(a, i, 0, 16, TRUE, 20), Frag(a, i, 8, 24, TRUE, 20),
     Frag(a, i, 16, 8, TRUE, 20), Frag(a, i, 32, 4, FALSE, 20)}

\* An oversized fragment, another host, and a datagram in one piece.
Others ==
    {Frag(a, j, 40, 8, TRUE, 20), Frag(b, i, 0, 8, TRUE, 20), Frag(a, i, 0, 8, FALSE, 20)}

MCPackets == Pieces \cup Others
============================================================================
