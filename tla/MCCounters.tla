----------------------------- MODULE MCCounters -----------------------------
(***************************************************************************)
(* Two workers, packets of the web, and two seconds.                       *)
(***************************************************************************)
EXTENDS PacketCounter, TLC

CONSTANTS w1, w2
============================================================================
