----------------------------- MODULE IpService ------------------------------
(***************************************************************************)
(* What IpFragment promises: a datagram given to the callbacks came in one *)
(* piece, or is put together from fragments of one source, destination,    *)
(* protocol and id, that cover it without a gap or an overlap, each used   *)
(* for one datagram at most.  Fragments may be dropped at any time.        *)
(***************************************************************************)
EXTENDS Integers, Sequences

CONSTANTS Key, Packets, Null, KeyOf(_)

VARIABLES
    collected,  \* the fragments of each datagram in the making
    report      \* the datagram reported by the last step

serviceVars == <<collected, report>>

Init == collected = [k \in Key |-> {}] /\ report = Null

Whole(p) ==
    /\ ~p.mf
    /\ p.offset = 0
    /\ collected' = [collected EXCEPT ![KeyOf(p)] = {}]
    /\ report' = [iph |-> p, fragments |-> <<>>]

Collect(p) ==
    /\ collected' = [collected EXCEPT ![KeyOf(p)] = @ \cup {p}]
    /\ report' = Null

\* The pieces cover a datagram up to the end of a final fragment.
Covers(pieces, S) ==
    /\ pieces[1].offset = 0
    /\ \A i \in 1 .. Len(pieces) - 1 : pieces[i].end = pieces[i + 1].offset
    /\ \E p \in S : ~p.mf /\ pieces[Len(pieces)].end = p.offset + p.len

\* Each piece has the bytes some fragment has for that place.
TakenFrom(piece, S) ==
    /\ piece.skb \in S
    /\ piece.ptr = piece.offset
    /\ piece.skb.offset <= piece.offset
    /\ piece.offset <= piece.end
    /\ piece.end <= piece.skb.offset + piece.skb.len

Assemble(p) ==
    LET S == collected[KeyOf(p)] \cup {p}
        pieces == report'.fragments
    IN  /\ report' # Null
        /\ pieces # <<>>
        /\ Covers(pieces, S)
        /\ \A i \in DOMAIN pieces : TakenFrom(pieces[i], S)
        /\ report'.iph \in S
        /\ report'.iph.offset = 0
        /\ collected' = [collected EXCEPT ![KeyOf(p)] = {}]

Drop(k) ==
    /\ collected' = [collected EXCEPT ![k] = {}]
    /\ report' = Null

Silent == report' = Null /\ UNCHANGED collected

Next ==
    \/ \E p \in Packets : Whole(p) \/ Collect(p) \/ Assemble(p)
    \/ \E k \in Key : Drop(k)
    \/ Silent

Spec == Init /\ [][Next]_serviceVars
============================================================================
