--------------------------- MODULE TcpReassembly ---------------------------
(***************************************************************************)
(* TcpFragment with a record of what each stream was given and what it     *)
(* handed over, to compare reassembly with its definition: the payload     *)
(* delivered is the longest gapless beginning of the payload received.     *)
(***************************************************************************)
EXTENDS TcpFragment, Sums, FiniteSetsExt, Functions

(***************************************************************************)
(* history[a][side], for the stream at a and the side that sends:          *)
(*   have  the sequence numbers of the payload given to tcpQueue           *)
(*   fins  the sequence numbers of the FINs given to tcpQueue              *)
(*   got   the sequence numbers handed to the data callbacks, in order     *)
(*   early whether payload was given before the connection was reported    *)
(***************************************************************************)
VARIABLE history

histVars == <<vars, history>>

NoHistory == [side \in Side |-> [have |-> {}, fins |-> {}, got |-> <<>>, early |-> FALSE]]

\* The n sequence numbers from "first" on.
Span(first, n) == [i \in 1 .. n |-> (first + i - 1) % SeqSpace]

Received(h, connected) ==
    [h EXCEPT !.early = @ \/ ~connected,
              !.have = @ \cup Range(Span(pkt.seq, pkt.len)),
              !.fins = IF pkt.fin = 1 THEN @ \cup {(pkt.seq + pkt.len) % SeqSpace} ELSE @]

\* What the i-th data callback of the step hands over, if it is one for the
\* stream at a and this side.
Heard(a, side, i) ==
    LET data == callbacks'.data
    IN  IF i \in DOMAIN data /\ data[i].addr = tcphashmap_[a].addr /\ data[i].side = side
        THEN Span(data[i].from, data[i].len)
        ELSE <<>>

\* A step makes at most three data callbacks (Notified).
HandedOver(h, a, side) ==
    [h EXCEPT !.got = @ \o Heard(a, side, 1) \o Heard(a, side, 2) \o Heard(a, side, 3)]

HistInit == Init /\ history = [a \in Ptr |-> NoHistory]

\* A stream that was opened or freed by the step begins with no history.
Fresh(a) ==
    \/ tcphashmap_'[a] = Null
    \/ pc = "segment" /\ pkt.valid /\ PureSyn /\ tcphashmap_'[a].addr = pkt.addr

HistStep(a, side) ==
    LET given == pc = "queue" /\ FindStream(a, side)
        h     == IF given
                 THEN Received(history[a][side], tcphashmap_[a].isconnnection)
                 ELSE history[a][side]
    IN  HandedOver(h, a, side)

HistNext ==
    /\ Next
    /\ history' = [a \in Ptr |->
           IF Fresh(a) THEN NoHistory ELSE [side \in Side |-> HistStep(a, side)]]

\* A worker's thread runs the call it is in to its end (TaskQueue::runInThread).
HistSpec == HistInit /\ [][HistNext]_histVars /\ WF_histVars(HistNext /\ Process)

----------------------------------------------------------------------------
\* Connections whose payload was seen after their handshake.  (Segments that
\* overtake it are compared with a window that begins at 0, processTcp 257-261,
\* and what is accepted of them is counted while nobody listens.)
Connections ==
    {a \in Live : /\ tcphashmap_[a].isconnnection
                  /\ \A side \in Side : ~history[a][side].early}

\* The payload of a side handed over so far.
Got(a, side) == history[a][side].got

\* How much gapless payload a side's first sequence numbers have received.
Prefix(a, side) ==
    LET first == tcphashmap_[a].half[side].first_data_seq
    IN  Max({n \in 0 .. Cardinality(history[a][side].have) :
                Range(Span(first, n)) \subseteq history[a][side].have})

\* Data callbacks hand over a direction byte by byte, with no byte left out,
\* repeated or out of place, however the segments were cut, overlapped, repeated
\* and reordered; and from its first byte on, unless payload overtook the
\* handshake (then the bytes that were counted unheard are missing in front,
\* TcpFragment.cc:682 and 715, and only there).
DeliveredInOrder ==
    \A a \in Live : \A side \in Side : Got(a, side) # <<>> =>
        /\ Got(a, side) = Span(Got(a, side)[1], Len(Got(a, side)))
        /\ a \in Connections =>
               Got(a, side)[1] = tcphashmap_[a].half[side].first_data_seq

\* Between packets all the payload that could be handed over has been: the
\* drain of the fraglist leaves nothing behind that EXP_SEQ has reached.
DeliveredPromptly ==
    pc = "idle" => \A a \in Connections : \A side \in Side :
        Len(Got(a, side)) = Prefix(a, side)

\* rmem_alloc is the memory of the fragments held, through every partial drain.
RmemAccounting ==
    \A a \in Live : \A side \in Side :
        LET half == tcphashmap_[a].half[side]
            list == half.fraglist
        IN  half.rmem_alloc = Total([i \in DOMAIN list |-> list[i].truesize])

\* A close callback in reply to an ACK (not to the closing timer) comes when
\* both directions are complete up to a FIN: no data callback is cut off.
ClosedWhenComplete ==
    [][ \A a \in Connections :
            (pc = "segment" /\ [addr |-> tcphashmap_[a].addr, kind |-> "close"]
                                    \in callbacks'.ended)
            => \A side \in Side :
                  ExpSeq(tcphashmap_[a], side) \in history[a][side].fins ]_histVars

(***************************************************************************)
(* What is supposed of the end points.  Sequence numbers compare as they   *)
(* were meant only while the live ones lie within half the space, and a    *)
(* capture cannot tell the connections that use one tuple4 in turn apart.  *)
(***************************************************************************)
\* No segment carries an urgent pointer, and the stack holds none.
NoUrgentData ==
    /\ \A p \in Packets : ~p.urg
    /\ \A g \in Garbage : ~g.urg_seen

\* How far the sequence number x lies behind the number "first".
Offset(first, x) == (x - first) % SeqSpace

\* The segments with payload or a FIN of the direction that syn opens.
SegmentsOf(syn) ==
    {p \in Packets : ~p.syn /\ p.len + p.fin > 0 /\ p.addr = syn.addr}

\* Where the payload of segment p of that direction ends.
EndOf(syn, p) == Offset(syn.seq + 1, p.seq) + p.len

\* A direction is shorter than half the sequence space: 2 GiB.
ShortDirections ==
    \A syn \in {p \in Packets : p.syn} : \A p \in SegmentsOf(syn) :
        2 * (EndOf(syn, p) + p.fin) < SeqSpace

\* The FIN of a direction comes behind all of its payload.
NothingBehindFin ==
    \A syn \in {p \in Packets : p.syn} : \A p, q \in SegmentsOf(syn) :
        q.fin = 1 => EndOf(syn, p) <= EndOf(syn, q)

\* Every packet is done with: the drain loop ends.
CallReturns == pc # "idle" ~> pc = "idle"

============================================================================
