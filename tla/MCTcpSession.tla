---------------------------- MODULE MCTcpSession ----------------------------
(***************************************************************************)
(* Two clients of a server; a buffer of three seconds.                     *)
(***************************************************************************)
EXTENDS TcpSession, TLC

CONSTANTS d1, d2, e1, e2, c1, c2, web

Places == Permutations(Ptr) \cup Permutations(Entry)

P(from, to, flags) == [t4 |-> <<from, to>>, flags |-> flags]

MCPackets ==
    {P(c1, web, {"SYN"}), P(web, c1, {"SYN"}), P(c1, web, {}), P(web, c1, {}),
     P(web, c1, {"FIN"}), P(c1, web, {"RST"}), P(c2, web, {"SYN"}), P(c2, web, {})}
=============================================================================
