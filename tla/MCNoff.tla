------------------------------- MODULE MCNoff -------------------------------
(***************************************************************************)
(* Two workers with queues of one task, a few frames, and a SIGINT at any  *)
(* time or none.                                                           *)
(***************************************************************************)
EXTENDS Noff, TLC

CONSTANTS pa, pb, pc, s1, s2

F(type, caplen, p) == [type |-> type, caplen |-> caplen, packet |-> p]

\* A packet of each worker, and one of a protocol Sharding refuses.
MCShard == pa :> 1 @@ pb :> 2 @@ pc :> Refused

\* A file of the "any" device of Linux with a tagged frame, a frame of another
\* protocol and a short one.
SllFileFrames ==
    {F("ip", 60, pa), F("ip", 60, pb), F("vlan", 60, pa), F("other", 60, pb), F("ip", 14, pa)}

\* A file of an Ethernet device, to which no filter is applied (noff.cc:289-297):
\* a tagged frame and others.
VlanFileFrames == {F("vlan", 60, pa), F("ip", 60, pb), F("other", 60, pc)}
============================================================================
