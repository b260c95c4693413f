----------------------------- MODULE MCTcpHttp -----------------------------
(***************************************************************************)
(* Three clients of one web server and a table of two streams: handshakes,   *)
(* restarts from either side, FINs in and out of order, resets, timeouts.  *)
(* A client's first sequence number is the last of the space, so that the  *)
(* handshake wraps.                                                        *)
(***************************************************************************)
EXTENDS TcpHttp, TLC

CONSTANTS p1, p2, c1, c2, c3, web

MCEndpoint == {c1, c2, c3, web}

Pkt(from, to, flags, seq, acknum) ==
    [addr |-> <<from, to>>, valid |-> "bad" \notin flags, syn |-> "S" \in flags,
     ack |-> "A" \in flags, rst |-> "R" \in flags,
     fin |-> IF "F" \in flags THEN 1 ELSE 0, urg |-> FALSE, seq |-> seq,
     acknum |-> acknum, len |-> 0, win |-> 3, ws |-> 0, urp |-> 0, skblen |-> 1]

Open(c) ==
    {Pkt(c, web, {"S"}, 7, 0), Pkt(web, c, {"S", "A"}, 2, 0),
     Pkt(c, web, {"A"}, 0, 3)}

\* The server's numbers begin at 3; its second FIN leaves a gap.
Shut(c) ==
    {Pkt(c, web, {"F", "A"}, 0, 3), Pkt(web, c, {"F", "A"}, 3, 0),
     Pkt(web, c, {"F", "A"}, 4, 0), Pkt(web, c, {"R"}, 3, 0)}

\* The third SYN finds the table of two streams full and clears it.
MCPackets ==
    Open(c1) \cup Open(c2) \cup Open(c3) \cup Shut(c1)
        \cup {Pkt(web, c2, {"S"}, 2, 0), Pkt(c1, web, {"bad"}, 0, 0)}

MCGarbage ==
    {[window |-> 0, wscale |-> 0, first_data_seq |-> 0, urg_seen |-> FALSE,
      urg_ptr |-> 0]}

Places == Permutations({p1, p2})
============================================================================
