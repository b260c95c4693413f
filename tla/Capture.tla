------------------------------ MODULE Capture ------------------------------
(***************************************************************************)
(* src/dpi/Capture.cc: the loop over the frames of a device or a file, and *)
(* breakLoop, which a signal handler calls.  The module holds the steps;   *)
(* Noff composes them.  libpcap keeps the request of pcap_breakloop until  *)
(* pcap_loop looks for it, which it does before every frame and after      *)
(* every read timeout.                                                     *)
(***************************************************************************)
EXTENDS Integers

CONSTANTS
    LinkType,   \* linkType_: "EN10MB" (Ethernet) or "LINUX_SLL"
    Packet,     \* IP fragments, as far as Sharding tells them apart
    Garbled,    \* what is read at an offset where no IP header begins
    Frames      \* the frames that may arrive

\* The type field of a frame is that of IP, of an 802.1Q tag or another.
Frame == [type : {"ip", "vlan", "other"}, caplen : Nat, packet : Packet]

ASSUME CaptureAssumption ==
    /\ Garbled \notin Packet
    /\ LinkType \in {"EN10MB", "LINUX_SLL"}
    /\ Frames \subseteq Frame

VARIABLES
    running_,       \* between startLoop and its end or breakLoop
    linkOffset_,    \* where the IP header is looked for
    breakFlag       \* pcap_breakloop was called, pcap_loop has not seen it

captureVars == <<running_, linkOffset_, breakFlag>>

\* initLinkType
CaptureInit ==
    /\ running_ = FALSE
    /\ linkOffset_ = IF LinkType = "EN10MB" THEN 14 ELSE 16
    /\ breakFlag = FALSE

----------------------------------------------------------------------------
TooShort(f) == f.caplen <= linkOffset_

\* The switch over the link type ends without a return.
Passes(f) ==
    /\ ~TooShort(f)
    /\ f.type \in IF LinkType = "EN10MB" THEN {"ip", "vlan"} ELSE {"ip"}

\* A tag moves the offset, of this frame and of all that follow.
OffsetFor(f) ==
    IF Passes(f) /\ f.type = "vlan" THEN 18 ELSE linkOffset_

\* Where the IP header of a frame really is.
OwnOffset(f) ==
    IF LinkType = "LINUX_SLL" THEN 16 ELSE IF f.type = "vlan" THEN 18 ELSE 14

\* The fragment the callbacks are given: a header needs 20 bytes.
Parsed(f) ==
    IF OffsetFor(f) = OwnOffset(f) /\ f.caplen >= OwnOffset(f) + 20
    THEN f.packet
    ELSE Garbled

OnPacket(f) ==
    /\ linkOffset_' = OffsetFor(f)
    /\ UNCHANGED <<running_, breakFlag>>

\* startLoop up to pcap_loop.
StartLoop ==
    /\ running_' = TRUE
    /\ UNCHANGED <<linkOffset_, breakFlag>>

\* pcap_loop returns -2 and clears the request.
PcapLoopBroken ==
    /\ breakFlag
    /\ breakFlag' = FALSE
    /\ UNCHANGED <<running_, linkOffset_>>

\* pcap_loop returns by itself: end of file, packetCount reached, an error.
PcapLoopEnds ==
    /\ ~breakFlag
    /\ UNCHANGED captureVars

\* The end of startLoop.
EndLoop ==
    /\ running_' = FALSE
    /\ UNCHANGED <<linkOffset_, breakFlag>>

\* The two assignments of breakLoop, after its assertion.
ClearRunning ==
    /\ running_' = FALSE
    /\ UNCHANGED <<linkOffset_, breakFlag>>

PcapBreakloop ==
    /\ breakFlag' = TRUE
    /\ UNCHANGED <<running_, linkOffset_>>
============================================================================
