------------------------------- MODULE Util -------------------------------
(***************************************************************************)
(* src/dpi/Util.h: the tuple4 that names one direction of a flow, and the  *)
(* comparison of 32-bit TCP sequence numbers.                              *)
(***************************************************************************)
EXTENDS Integers

CONSTANTS
    Endpoint,   \* an IP address with a port; a tuple4 is a pair of them
    SeqSpace      \* size of the sequence space, 2^32 in the code

ASSUME SeqSpaceAssumption == SeqSpace \in Nat /\ SeqSpace > 1

\* tuple4: <<source, destination>>.
Addr == Endpoint \X Endpoint

\* The tuple4 of the packets that travel the other way.
Reversed(addr) == <<addr[2], addr[1]>>

SeqNum == 0 .. SeqSpace - 1

\* (int)(a - b) < 0, for u_int a and b: the upper half of the ring is negative.
Before(a, b) == 2 * ((a - b) % SeqSpace) >= SeqSpace

After(a, b) == Before(b, a)

\* The int that an u_int difference becomes is strictly positive.
Positive(d) == d % SeqSpace > 0 /\ 2 * (d % SeqSpace) < SeqSpace
============================================================================
