--------------------------- MODULE MCReassembly ----------------------------
(***************************************************************************)
(* One connection: the client sends the payload of sequence numbers        *)
(* 14, 15, 0, 1 (the space of 16 wraps inside it) and a FIN, cut into      *)
(* segments in every way; the server sends a byte and a FIN.               *)
(***************************************************************************)
EXTENDS TcpReassembly

CONSTANTS p1, c1, web

MCEndpoint == {c1, web}

Pkt(from, flags, seq, acknum, len) ==
    [addr |-> IF from = c1 THEN <<c1, web>> ELSE <<web, c1>>,
     valid |-> TRUE, syn |-> "S" \in flags, ack |-> "A" \in flags,
     rst |-> "R" \in flags, fin |-> IF "F" \in flags THEN 1 ELSE 0,
     urg |-> "U" \in flags, seq |-> seq % SeqSpace, acknum |-> acknum, len |-> len,
     win |-> 3, ws |-> IF "S" \in flags THEN 2 ELSE 0, urp |-> 1, skblen |-> len + 1]

Handshake ==
    {Pkt(c1, {"S"}, 13, 0, 0), Pkt(web, {"S", "A"}, 8, 14, 0),
     Pkt(c1, {"A"}, 14, 9, 0)}

FromClient ==
    {Pkt(c1, {"A"}, 14 + i, 9, n) : i \in 0 .. 3, n \in 1 .. 3}

FromServer ==
    {Pkt(web, {"A"}, 9, 14, 1), Pkt(web, {"A"}, 10, 3, 0)}

\* The FINs, and the client's acknowledgement of the server's.
Fins ==
    {Pkt(c1, {"F", "A"}, 17, 9, 1), Pkt(c1, {"F", "A"}, 18, 9, 0),
     Pkt(web, {"F", "A"}, 10, 3, 0), Pkt(c1, {"A"}, 19, 11, 0)}

MCPackets ==
    Handshake \cup {p \in FromClient : ((p.seq - 14) % 16) + p.len <= 4} \cup FromServer \cup Fins

MCGarbage ==
    {[window |-> 0, wscale |-> 0, first_data_seq |-> 0, urg_seen |-> FALSE,
      urg_ptr |-> 0]}

\* The run meets what the proofs suppose of the end points.
ASSUME MCTraffic == NoUrgentData /\ ShortDirections /\ NothingBehindFin
============================================================================
