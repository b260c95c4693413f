---------------------------- MODULE TcpFragment ----------------------------
(***************************************************************************)
(* src/dpi/TcpFragment.{h,cc}: the per-worker table of TCP streams.  It    *)
(* follows the handshake, reassembles each direction, times streams out    *)
(* and calls back the protocol analysers.                                  *)
(*                                                                         *)
(* A worker thread owns its TcpFragment, so processTcp runs to its end     *)
(* before the next packet.  One call is the sequence of steps              *)
(*     idle -> segment -> queue -> drain -> finish -> idle                 *)
(* (most calls leave early); "pc" is the point the call has reached, and   *)
(* no step but the next one of the call is enabled on the way.             *)
(***************************************************************************)
EXTENDS Util, Sequences

CONSTANTS
    Ptr,          \* places a TcpStream can live at: the table holds
                  \* tcpStreamTableSize_ of them (500000 in the code)
    Null,         \* the null pointer, and "no packet"
    TcpTimeout,   \* 30 s without new data
    FinTimeout,   \* 5 s after both FINs
    RmemMax,      \* 65535 bytes held out of order per direction
    Packets,      \* the TCP packets the capture may hand over
    Garbage,      \* what the fields addNewtcp leaves unset may hold
    MaxTime       \* bound of a run: seconds of traffic

(***************************************************************************)
(* A packet: th_* of the header that matter.  "ws" is the factor of its    *)
(* window scale option, 0 without one; "valid" is the verdict of the       *)
(* length and address checks.                                              *)
(***************************************************************************)
Packet ==
    [addr : Addr, valid : BOOLEAN, syn : BOOLEAN, ack : BOOLEAN, rst : BOOLEAN,
     fin : 0..1, urg : BOOLEAN, seq : SeqNum, acknum : SeqNum, len : Nat,
     win : Nat, ws : Nat, urp : Nat, skblen : Nat]

\* A stale stack frame, read through the HalfStream fields never assigned.
StackGarbage ==
    [window : Nat, wscale : Nat, first_data_seq : SeqNum, urg_seen : BOOLEAN,
     urg_ptr : SeqNum]

----------------------------------------------------------------------------
(***************************************************************************)
(* Data.  The two HalfStreams of a TcpStream are indexed by the side that  *)
(* sends: half["client"] belongs to the side of the first SYN.             *)
(***************************************************************************)
Side == {"client", "server"}

Other(side) == IF side = "client" THEN "server" ELSE "client"

HalfState ==
    {"SYN_SENT", "SYN_RECV", "CLOSE", "ESTABLISHED", "CLOSING", "FIN_SENT",
     "FIN_CONFIRMED"}

\* The states a side is in once a FIN of its own was seen.
FinSeen == {"CLOSING", "FIN_SENT", "FIN_CONFIRMED"}

\* A segment of payload, in hand or held in a fraglist.
Skbuff ==
    [seq : SeqNum, len : Nat, fin : 0..1, urg : BOOLEAN, urg_ptr : Nat,
     truesize : Nat]

\* "count" is count + urg_count, which the code only ever adds up.
HalfStream ==
    [state : HalfState, count : SeqNum, rmem_alloc : Int, seq : SeqNum,
     ack_seq : SeqNum, first_data_seq : SeqNum, urg_seen : BOOLEAN,
     urg_ptr : SeqNum, window : Nat, wscale : Nat, wscale_on : BOOLEAN,
     fraglist : Seq(Skbuff)]

TcpStream ==
    [addr : Addr, isconnnection : BOOLEAN, half : [Side -> HalfStream]]

ASSUME TcpAssumption ==
    /\ Null \notin Packets
    /\ Null \notin TcpStream
    /\ TcpTimeout \in Nat \ {0}
    /\ FinTimeout \in Nat \ {0}
    /\ RmemMax \in Nat
    /\ MaxTime \in Nat
    /\ Packets \subseteq Packet
    /\ Garbage \subseteq StackGarbage

\* The stream s whose half of side "from" is snd, and whose other half is rcv.
SetHalves(s, from, snd, rcv) ==
    [s EXCEPT !.half = [side \in Side |-> IF side = from THEN snd ELSE rcv]]

Timeout == [a_tcp : Ptr, time : Nat]

(***************************************************************************)
(* Callbacks of one step.  "ended" names the callback that ended a stream; *)
(* "data" are the intervals of sequence numbers handed over, in order.     *)
(***************************************************************************)
Ending == [addr : Addr, kind : {"close", "timeout", "rst"}]
Chunk == [addr : Addr, side : Side, from : SeqNum, len : Nat]
Callbacks == [opened : SUBSET Addr, ended : SUBSET Ending, data : Seq(Chunk)]
NoCallbacks == [opened |-> {}, ended |-> {}, data |-> <<>>]

VARIABLES
    tcphashmap_,      \* the stream at each place, or Null
    tcpTimeoutSet_,   \* idle timers
    finTimeoutSet_,   \* closing timers
    now,              \* second of the packet being processed
    pc,               \* where processTcp is
    pkt,              \* the packet being processed, or Null
    callbacks         \* what the last step reported

vars == <<tcphashmap_, tcpTimeoutSet_, finTimeoutSet_, now, pc, pkt, callbacks>>

tables == <<tcphashmap_, tcpTimeoutSet_, finTimeoutSet_>>

TypeOK ==
    /\ tcphashmap_ \in [Ptr -> TcpStream \cup {Null}]
    /\ tcpTimeoutSet_ \subseteq Timeout
    /\ finTimeoutSet_ \subseteq Timeout
    /\ now \in Nat
    /\ pc \in {"idle", "segment", "queue", "drain", "finish"}
    /\ pkt \in Packets \cup {Null}
    /\ (pkt = Null) <=> (pc = "idle")
    /\ callbacks \in Callbacks

Live == {a \in Ptr : tcphashmap_[a] # Null}

----------------------------------------------------------------------------
(***************************************************************************)
(* Timers.  Timeout's operator< compares tv_sec alone, so a std::set holds *)
(* one timer per second: insert keeps the element that is already there.   *)
(***************************************************************************)
Insert(set, timer) ==
    IF \E t \in set : t.time = timer.time THEN set ELSE set \cup {timer}

Without(set, a) == {t \in set : t.a_tcp # a}

UpdateTcptimeout(a) ==
    Insert(Without(tcpTimeoutSet_, a), [a_tcp |-> a, time |-> now + TcpTimeout])

AddFintimeout(a) ==
    Insert(finTimeoutSet_, [a_tcp |-> a, time |-> now + FinTimeout])

\* The finTimeoutSet_ after a segment: a FIN starts the closing timer of a when
\* the peer is in one of the given states.
ClosingTimer(a, fin, peer, states) ==
    IF fin = 1 /\ peer \in states THEN AddFintimeout(a) ELSE finTimeoutSet_

\* The places of the timers that are due at second ts.
Due(set, ts) == {t.a_tcp : t \in {u \in set : u.time <= ts}}

\* Defect: the end of a stream that was never reported is reported too.
EndedAll(S, kind) == {[addr |-> tcphashmap_[a].addr, kind |-> kind] : a \in S}

\* What the analysers hear when the streams at S end; only of connections.
Ended(S, kind) ==
    {[addr |-> tcphashmap_[a].addr, kind |-> kind] :
        a \in {b \in S : tcphashmap_[b].isconnnection}}

\* Defect: the closing timer of the stream is forgotten.
FreeTcpstreamNoFin(a) ==
    /\ tcphashmap_' = [tcphashmap_ EXCEPT ![a] = Null]
    /\ tcpTimeoutSet_' = Without(tcpTimeoutSet_, a)
    /\ finTimeoutSet_' = finTimeoutSet_

\* freeTcpstream: the place is free again, and no timer refers to it.
FreeTcpstream(a) ==
    /\ tcphashmap_' = [tcphashmap_ EXCEPT ![a] = Null]
    /\ tcpTimeoutSet_' = Without(tcpTimeoutSet_, a)
    /\ finTimeoutSet_' = Without(finTimeoutSet_, a)

----------------------------------------------------------------------------
(***************************************************************************)
(* Lookup: the stream of the packet's own tuple4, or of the reversed one.  *)
(***************************************************************************)
FindStreamAux(addr) == {a \in Live : tcphashmap_[a].addr = addr}

\* findStream returns the stream at a, and "from" is the sending side.
FindStream(a, from) ==
    \/ /\ from = "client"
       /\ a \in FindStreamAux(pkt.addr)
    \/ /\ from = "server"
       /\ FindStreamAux(pkt.addr) = {}
       /\ a \in FindStreamAux(Reversed(pkt.addr))

\* Defect: the reversed tuple4 is not looked up.
NoStreamOneWay == FindStreamAux(pkt.addr) = {}

\* findStream returns 0.
NoStream ==
    /\ FindStreamAux(pkt.addr) = {}
    /\ FindStreamAux(Reversed(pkt.addr)) = {}

PureSyn == pkt.syn /\ ~pkt.ack /\ ~pkt.rst

\* getWscale: 1 without the option.
Wscale(p) == IF p.ws = 0 THEN 1 ELSE p.ws

\* The sequence number the payload of side "from" is complete up to: EXP_SEQ.
ExpSeq(s, from) ==
    (s.half[from].first_data_seq + s.half[Other(from)].count) % SeqSpace

Init ==
    /\ tcphashmap_ = [a \in Ptr |-> Null]
    /\ tcpTimeoutSet_ = {}
    /\ finTimeoutSet_ = {}
    /\ now = 0
    /\ pc = "idle"
    /\ pkt = Null
    /\ callbacks = NoCallbacks

----------------------------------------------------------------------------
(***************************************************************************)
(* processTcp begins: tcpChecktimeouts frees every stream whose timer is   *)
(* due, the idle timers first.                                             *)
(***************************************************************************)
CheckTimeouts(p, ts) ==
    LET idle    == Due(tcpTimeoutSet_, ts)
        closing == Due({t \in finTimeoutSet_ : t.a_tcp \notin idle}, ts)
        gone    == idle \cup closing
    IN  /\ pc = "idle"
        /\ pc' = "segment"
        /\ pkt' = p
        /\ now' = ts
        /\ callbacks' = [NoCallbacks EXCEPT
               !.ended = Ended(idle, "timeout") \cup Ended(closing, "close")]
        /\ tcphashmap_' =
               [a \in Ptr |-> IF a \in gone THEN Null ELSE tcphashmap_[a]]
        /\ tcpTimeoutSet_' = {t \in tcpTimeoutSet_ : t.a_tcp \notin gone}
        /\ finTimeoutSet_' = {t \in finTimeoutSet_ : t.a_tcp \notin gone}

\* The call returns, with nothing (more) to report.
Return ==
    /\ pc' = "idle"
    /\ pkt' = Null
    /\ now' = now

\* A packet that fails the length or address checks, or belongs to no stream.
Ignore ==
    /\ pc = "segment"
    /\ ~pkt.valid \/ (NoStream /\ ~PureSyn)
    /\ Return
    /\ callbacks' = NoCallbacks
    /\ UNCHANGED tables

----------------------------------------------------------------------------
(***************************************************************************)
(* addNewtcp at a free place: the fields it does not assign hold what the  *)
(* stack frame held (gc for the client half, gs for the server half).      *)
(* server.seq, never read before the SYN-ACK sets it, is 0 here.           *)
(***************************************************************************)
NewHalf(state, seq, window, wscale, wscale_on, g) ==
    [state |-> state, count |-> 0, rmem_alloc |-> 0, seq |-> seq, ack_seq |-> 0,
     first_data_seq |-> seq, urg_seen |-> g.urg_seen, urg_ptr |-> g.urg_ptr,
     window |-> window, wscale |-> wscale, wscale_on |-> wscale_on,
     fraglist |-> <<>>]

NewTcp(gc, gs) ==
    LET first  == (pkt.seq + 1) % SeqSpace
        client == NewHalf("SYN_SENT", first, pkt.win, Wscale(pkt), pkt.ws > 0, gc)
        server == NewHalf("CLOSE", gs.first_data_seq, gs.window, gs.wscale, FALSE, gs)
    IN  [addr |-> pkt.addr, isconnnection |-> FALSE,
         half |-> [side \in Side |-> IF side = "client" THEN client ELSE server]]

\* What clearAllStream, called when the table is full, leaves of a set of timers.
Cleared(set, full) == IF full THEN {} ELSE set

\* A SYN opens a stream; when the table is full, clearAllStream empties it.
AddNewtcp(a, gc, gs) ==
    LET full  == Live = Ptr
        timer == [a_tcp |-> a, time |-> now + TcpTimeout]
    IN  /\ pc = "segment"
        /\ pkt.valid
        /\ NoStream
        /\ PureSyn
        /\ full \/ a \notin Live
        /\ Return
        /\ callbacks' = [NoCallbacks EXCEPT
               !.ended = IF full THEN Ended(Live, "timeout") ELSE {}]
        /\ tcphashmap_' =
               [b \in Ptr |-> IF b = a THEN NewTcp(gc, gs)
                              ELSE IF full THEN Null ELSE tcphashmap_[b]]
        /\ tcpTimeoutSet_' = Insert(Cleared(tcpTimeoutSet_, full), timer)
        /\ finTimeoutSet_' = Cleared(finTimeoutSet_, full)

\* A SYN on a known tuple4 (or its reverse) restarts the stream, silently.
RestartStream(a, from, b, gc, gs) ==
    /\ pc = "segment"
    /\ pkt.valid
    /\ FindStream(a, from)
    /\ PureSyn
    /\ b = a \/ b \notin Live
    /\ Return
    /\ callbacks' = NoCallbacks
    /\ tcphashmap_' = [tcphashmap_ EXCEPT ![a] = Null, ![b] = NewTcp(gc, gs)]
    /\ tcpTimeoutSet_' = Insert(Without(tcpTimeoutSet_, a),
                                [a_tcp |-> b, time |-> now + TcpTimeout])
    /\ finTimeoutSet_' = Without(finTimeoutSet_, a)

----------------------------------------------------------------------------
(***************************************************************************)
(* Segments of a known stream at a, sent by side "from".                   *)
(***************************************************************************)
Segment(a, from) ==
    /\ pc = "segment"
    /\ pkt.valid
    /\ FindStream(a, from)
    /\ ~PureSyn

\* Defect: the states of the two halves are not checked.
IsSynAckAnyState(s, from) ==
    from = "server" /\ pkt.ack /\ pkt.acknum = s.half["client"].seq

\* The SYN-ACK the handshake waits for.
IsSynAck(s, from) ==
    /\ from = "server"
    /\ s.half["client"].state = "SYN_SENT"
    /\ s.half["server"].state = "CLOSE"
    /\ pkt.ack
    /\ pkt.acknum = s.half["client"].seq

SecondHandshake(a, from) ==
    LET s      == tcphashmap_[a]
        on     == s.half["client"].wscale_on /\ pkt.ws > 0
        first  == (pkt.seq + 1) % SeqSpace
        client == [s.half["client"] EXCEPT
                     !.wscale_on = on, !.wscale = IF on THEN @ ELSE 1]
        server == [s.half["server"] EXCEPT
                     !.state = "SYN_RECV", !.seq = first, !.first_data_seq = first,
                     !.ack_seq = pkt.acknum, !.window = pkt.win,
                     !.wscale_on = on, !.wscale = IF on THEN pkt.ws ELSE 1]
    IN  /\ Segment(a, from)
        /\ pkt.syn
        /\ IsSynAck(s, from)
        /\ Return
        /\ callbacks' = NoCallbacks
        /\ tcphashmap_' =
               [tcphashmap_ EXCEPT ![a] = SetHalves(s, "client", client, server)]
        /\ UNCHANGED <<tcpTimeoutSet_, finTimeoutSet_>>

\* Not an empty segment at the acknowledged edge, and beyond or before the
\* window the receiver announced.
OutOfWindow(s, from) ==
    LET rcv == s.half[Other(from)]
    IN  /\ ~(pkt.len = 0 /\ pkt.seq = rcv.ack_seq)
        /\ \/ ~Before(pkt.seq, rcv.ack_seq + rcv.window * rcv.wscale)
           \/ Before(pkt.seq + pkt.len, rcv.ack_seq)

\* Any other SYN, and a segment outside the window, is dropped.
DropSegment(a, from) ==
    /\ Segment(a, from)
    /\ IF pkt.syn THEN ~IsSynAck(tcphashmap_[a], from)
                  ELSE OutOfWindow(tcphashmap_[a], from)
    /\ Return
    /\ callbacks' = NoCallbacks
    /\ UNCHANGED tables

InWindow(a, from) ==
    /\ Segment(a, from)
    /\ ~pkt.syn
    /\ ~OutOfWindow(tcphashmap_[a], from)

ResetStream(a, from) ==
    /\ InWindow(a, from)
    /\ pkt.rst
    /\ Return
    /\ callbacks' = [NoCallbacks EXCEPT !.ended = Ended({a}, "rst")]
    /\ FreeTcpstream(a)

\* The ACK that completes the handshake.
IsThirdHandshake(s, from) ==
    /\ from = "client"
    /\ pkt.ack
    /\ s.half["client"].state = "SYN_SENT"
    /\ s.half["server"].state = "SYN_RECV"
    /\ pkt.acknum = s.half["server"].seq

\* Defect: a FIN that waits behind a gap counts as confirmed.
AcknowledgeHeld(s, from) ==
    LET snd == s.half[from]
        rcv == s.half[Other(from)]
    IN  SetHalves(s, from,
            [snd EXCEPT !.ack_seq = IF Positive(pkt.acknum - @) THEN pkt.acknum ELSE @],
            IF rcv.state \in {"FIN_SENT", "CLOSING"}
            THEN [rcv EXCEPT !.state = "FIN_CONFIRMED"] ELSE rcv)

\* handleAck(snd), then a FIN the other side had sent counts as confirmed.
Acknowledge(s, from) ==
    LET snd == s.half[from]
        rcv == s.half[Other(from)]
    IN  SetHalves(s, from,
            [snd EXCEPT !.ack_seq = IF Positive(pkt.acknum - @) THEN pkt.acknum ELSE @],
            IF rcv.state = "FIN_SENT" THEN [rcv EXCEPT !.state = "FIN_CONFIRMED"] ELSE rcv)

BothConfirmed(s) == \A side \in Side : s.half[side].state = "FIN_CONFIRMED"

Proceed ==
    /\ pc' = IF pkt.len + pkt.fin > 0 THEN "queue" ELSE "finish"
    /\ UNCHANGED <<pkt, now, tcpTimeoutSet_, finTimeoutSet_>>

\* Both halves of s after the ACK that completes its handshake.
Establish(s, from) ==
    SetHalves([s EXCEPT !.isconnnection = TRUE], from,
        [s.half[from] EXCEPT !.state = "ESTABLISHED", !.ack_seq = pkt.acknum],
        [s.half[Other(from)] EXCEPT !.state = "ESTABLISHED"])

ThirdHandshake(a, from) ==
    LET s == tcphashmap_[a]
    IN  /\ InWindow(a, from)
        /\ ~pkt.rst
        /\ IsThirdHandshake(s, from)
        /\ callbacks' = [NoCallbacks EXCEPT !.opened = {s.addr}]
        /\ tcphashmap_' =
               [tcphashmap_ EXCEPT ![a] = Acknowledge(Establish(s, from), from)]
        /\ Proceed

\* The ACK after which both FINs are confirmed closes the connection.
CloseStream(a, from) ==
    /\ InWindow(a, from)
    /\ ~pkt.rst
    /\ pkt.ack
    /\ ~IsThirdHandshake(tcphashmap_[a], from)
    /\ BothConfirmed(Acknowledge(tcphashmap_[a], from))
    /\ Return
    /\ callbacks' = [NoCallbacks EXCEPT !.ended = Ended({a}, "close")]
    /\ FreeTcpstream(a)

AckSegment(a, from) ==
    LET s == IF pkt.ack THEN Acknowledge(tcphashmap_[a], from) ELSE tcphashmap_[a]
    IN  /\ InWindow(a, from)
        /\ ~pkt.rst
        /\ ~IsThirdHandshake(tcphashmap_[a], from)
        /\ ~(pkt.ack /\ BothConfirmed(s))
        /\ callbacks' = NoCallbacks
        /\ tcphashmap_' = [tcphashmap_ EXCEPT ![a] = s]
        /\ Proceed

----------------------------------------------------------------------------
(***************************************************************************)
(* tcpQueue and addFromskb.                                                *)
(***************************************************************************)
\* The sending half once a FIN of its own, if there is one, was queued.
SendFin(snd, fin, state) == IF fin = 1 THEN [snd EXCEPT !.state = state] ELSE snd

SegmentSkb ==
    [seq |-> pkt.seq, len |-> pkt.len, fin |-> pkt.fin, urg |-> pkt.urg,
     urg_ptr |-> pkt.urp, truesize |-> pkt.skblen]

\* Defect: one byte past EXP_SEQ is not enough.
EndsAfterOffByOne(f, exp) == After(f.seq + f.len + f.fin, exp + 1)

\* The segment ends after EXP_SEQ (a FIN takes one number).
EndsAfter(f, exp) == After(f.seq + f.len + f.fin, exp)

\* The receiving half once the urgent pointer of f is noted.
NoteUrgent(rcv, f, exp) ==
    LET ptr == (f.urg_ptr + f.seq - 1) % SeqSpace
    IN  IF f.urg /\ After(ptr, exp - 1) /\ (~rcv.urg_seen \/ After(ptr, rcv.urg_ptr))
        THEN [rcv EXCEPT !.urg_ptr = ptr, !.urg_seen = TRUE]
        ELSE rcv

\* The byte the urgent pointer marks is in what f adds.
HoldsUrgent(rcv, f, exp) ==
    /\ rcv.urg_seen
    /\ After(rcv.urg_ptr + 1, exp)
    /\ Before(rcv.urg_ptr, f.seq + f.len)

\* What addFromskb adds to count and urg_count.
Added(rcv, f, exp) ==
    IF HoldsUrgent(rcv, f, exp)
    THEN LET prefix == (rcv.urg_ptr - exp) % SeqSpace
             suffix == (f.seq + f.len - rcv.urg_ptr - 1) % SeqSpace
         IN  prefix + 1 + suffix
    ELSE (f.len - (exp - f.seq)) % SeqSpace

\* Defect: the bytes seen before ("lost") are handed over again.
NotifiedWithLost(s, from, rcv, f, exp) ==
    IF s.isconnnection /\ f.len > 0
    THEN <<[addr |-> s.addr, side |-> from, from |-> f.seq, len |-> f.len]>>
    ELSE <<>>

\* The notify calls of addFromskb: around an urgent byte, the part before it,
\* then the whole segment, then the part after it.
Notified(s, from, rcv, f, exp) ==
    LET Piece(start, len) ==
            IF len > 0 THEN <<[addr |-> s.addr, side |-> from,
                               from |-> start % SeqSpace, len |-> len]>>
                       ELSE <<>>
    IN  IF ~s.isconnnection THEN <<>>
        ELSE IF HoldsUrgent(rcv, f, exp)
        THEN Piece(exp, (rcv.urg_ptr - exp) % SeqSpace)
             \o Piece(f.seq, f.len)
             \o Piece(rcv.urg_ptr + 1, (f.seq + f.len - rcv.urg_ptr - 1) % SeqSpace)
        ELSE Piece(exp, (f.len - (exp - f.seq)) % SeqSpace)

\* updateTcptimeout and addFromskb for segment f of side "from", received by
\* the half rcv.
AddFromskb(a, from, f, rcv) ==
    LET s     == tcphashmap_[a]
        exp   == ExpSeq(s, from)
        noted == NoteUrgent(rcv, f, exp)
        r     == [noted EXCEPT
                    !.count = (@ + Added(noted, f, exp)) % SeqSpace,
                    !.urg_seen = @ /\ ~HoldsUrgent(noted, f, exp)]
    IN  /\ tcphashmap_' = [tcphashmap_ EXCEPT
               ![a] = SetHalves(s, from, SendFin(s.half[from], f.fin, "FIN_SENT"), r)]
        /\ tcpTimeoutSet_' = UpdateTcptimeout(a)
        /\ finTimeoutSet_' = ClosingTimer(a, f.fin, rcv.state, {"CLOSING"})
        /\ callbacks' =
               [NoCallbacks EXCEPT !.data = Notified(s, from, noted, f, exp)]

\* A segment that begins at or before EXP_SEQ and brings something new.
QueueInOrder(a, from) ==
    LET s   == tcphashmap_[a]
        exp == ExpSeq(s, from)
    IN  /\ pc = "queue"
        /\ FindStream(a, from)
        /\ ~After(pkt.seq, exp)
        /\ EndsAfter(SegmentSkb, exp)
        /\ AddFromskb(a, from, SegmentSkb, s.half[Other(from)])
        /\ pc' = "drain"
        /\ UNCHANGED <<pkt, now>>

\* A retransmission of what was seen already.
QueueOld(a, from) ==
    LET exp == ExpSeq(tcphashmap_[a], from)
    IN  /\ pc = "queue"
        /\ FindStream(a, from)
        /\ ~After(pkt.seq, exp)
        /\ ~EndsAfter(SegmentSkb, exp)
        /\ pc' = "finish"
        /\ callbacks' = NoCallbacks
        /\ UNCHANGED <<pkt, now, tables>>

\* A new fragment goes after k fragments: before the first that begins later.
InsertionPoint(list, k, seq) ==
    /\ \A i \in 1 .. k : ~After(list[i].seq, seq)
    /\ k < Len(list) => After(list[k + 1].seq, seq)

\* The receiving half with fragment f held after k others.
HoldFragment(rcv, k, f) ==
    LET list == rcv.fraglist
    IN  [rcv EXCEPT
           !.rmem_alloc = @ + f.truesize,
           !.fraglist = SubSeq(list, 1, k) \o <<f>> \o SubSeq(list, k + 1, Len(list))]

\* A segment ahead of EXP_SEQ waits in the fraglist.
QueueOutOfOrder(a, from) ==
    LET s   == tcphashmap_[a]
        rcv == s.half[Other(from)]
    IN  /\ pc = "queue"
        /\ FindStream(a, from)
        /\ After(pkt.seq, ExpSeq(s, from))
        /\ \E k \in 0 .. Len(rcv.fraglist) :
              /\ InsertionPoint(rcv.fraglist, k, pkt.seq)
              /\ tcphashmap_' = [tcphashmap_ EXCEPT
                    ![a] = SetHalves(s, from, SendFin(s.half[from], pkt.fin, "CLOSING"),
                                     HoldFragment(rcv, k, SegmentSkb))]
        /\ finTimeoutSet_' =
               ClosingTimer(a, pkt.fin, rcv.state, {"FIN_SENT", "FIN_CONFIRMED"})
        /\ pc' = "finish"
        /\ callbacks' = NoCallbacks
        /\ UNCHANGED <<pkt, now, tcpTimeoutSet_>>

\* Defect: the memory of the fragment stays accounted for.
DropFirstKeepRmem(rcv) == [rcv EXCEPT !.fraglist = Tail(@)]

\* Defect: the fragment is not erased from the list.
DropFirstNot(rcv) == rcv

\* The receiving half with its first fragment released.
DropFirst(rcv) ==
    [rcv EXCEPT !.rmem_alloc = @ - Head(rcv.fraglist).truesize,
                !.fraglist = Tail(@)]

\* The first fragment no longer lies ahead: use what it adds, and drop it.
DrainFragment(a, from) ==
    LET s   == tcphashmap_[a]
        rcv == s.half[Other(from)]
        f   == Head(rcv.fraglist)
        exp == ExpSeq(s, from)
    IN  /\ pc = "drain"
        /\ FindStream(a, from)
        /\ rcv.fraglist # <<>>
        /\ ~After(f.seq, exp)
        /\ IF EndsAfter(f, exp)
           THEN AddFromskb(a, from, f, DropFirst(rcv))
           ELSE /\ tcphashmap_' = [tcphashmap_ EXCEPT
                       ![a] = SetHalves(s, from, s.half[from], DropFirst(rcv))]
                /\ callbacks' = NoCallbacks
                /\ UNCHANGED <<tcpTimeoutSet_, finTimeoutSet_>>
        /\ UNCHANGED <<pc, pkt, now>>

\* No fragment left, or the next one still lies ahead.
DrainEnd(a, from) ==
    LET s    == tcphashmap_[a]
        list == s.half[Other(from)].fraglist
    IN  /\ pc = "drain"
        /\ FindStream(a, from)
        /\ list # <<>> => After(Head(list).seq, ExpSeq(s, from))
        /\ pc' = "finish"
        /\ callbacks' = NoCallbacks
        /\ UNCHANGED <<pkt, now, tables>>

HoldsTooMuch(s, from) == s.half[Other(from)].rmem_alloc > RmemMax

\* The call ends: note the sender's window, and give up on a stream that
\* holds too much, silently.
Finish(a, from) ==
    /\ pc = "finish"
    /\ FindStream(a, from)
    /\ Return
    /\ callbacks' = NoCallbacks
    /\ LET s   == tcphashmap_[a]
           snd == [s.half[from] EXCEPT !.window = pkt.win]
       IN  IF HoldsTooMuch(s, from)
           THEN FreeTcpstream(a)
           ELSE /\ tcphashmap_' = [tcphashmap_ EXCEPT
                       ![a] = SetHalves(s, from, snd, s.half[Other(from)])]
                /\ UNCHANGED <<tcpTimeoutSet_, finTimeoutSet_>>

----------------------------------------------------------------------------
Receive == \E p \in Packets, ts \in now .. MaxTime : CheckTimeouts(p, ts)

\* The rest of the call of processTcp.
Process ==
    \/ Ignore
    \/ \E a \in Ptr, gc, gs \in Garbage : AddNewtcp(a, gc, gs)
    \/ \E a \in Ptr, from \in Side :
          \/ \E b \in Ptr, gc, gs \in Garbage : RestartStream(a, from, b, gc, gs)
          \/ SecondHandshake(a, from)
          \/ DropSegment(a, from)
          \/ ResetStream(a, from)
          \/ ThirdHandshake(a, from)
          \/ CloseStream(a, from)
          \/ AckSegment(a, from)
          \/ QueueInOrder(a, from)
          \/ QueueOld(a, from)
          \/ QueueOutOfOrder(a, from)
          \/ DrainFragment(a, from)
          \/ DrainEnd(a, from)
          \/ Finish(a, from)

Next == Receive \/ Process

Spec == Init /\ [][Next]_vars

----------------------------------------------------------------------------
(***************************************************************************)
(* Properties.                                                             *)
(***************************************************************************)

\* No timer outlives its stream: tcpChecktimeouts dereferences a_tcp of every
\* timer that is due, so each must name a stream of the table.
NoDanglingTimeout ==
    \A t \in tcpTimeoutSet_ \cup finTimeoutSet_ : t.a_tcp \in Live

\* A tuple4 and its reverse name at most one stream: findStream_aux keeps the
\* last match of a bucket, and the callbacks identify a stream by its tuple4.
UniqueFlow ==
    \A a, b \in Live :
        tcphashmap_[a].addr \in {tcphashmap_[b].addr, Reversed(tcphashmap_[b].addr)}
            => a = b

\* While a call runs, no stream is kept past the timer it has, and no timer
\* reaches further than the delay it was set with: a due stream that
\* tcpChecktimeouts passed over would stay until the next packet.
TimersAhead ==
    /\ \A t \in tcpTimeoutSet_ : now < t.time /\ t.time <= now + TcpTimeout
    /\ \A t \in finTimeoutSet_ : now < t.time /\ t.time <= now + FinTimeout

\* The closing timer is for streams both sides of which have sent a FIN
\* (TcpFragment.cc:599-606): a stream still in use is never closed by it.
FinTimerAfterFins ==
    \A t \in finTimeoutSet_ : \A side \in Side :
        tcphashmap_[t.a_tcp].half[side].state \in FinSeen

\* A stream is reported only after its handshake, and its halves never fall
\* back to the states of the handshake, where a stray SYN-ACK would renumber it.
ConnectedIsEstablished ==
    \A a \in Live : tcphashmap_[a].isconnnection =>
        \A side \in Side :
            tcphashmap_[a].half[side].state \in FinSeen \cup {"ESTABLISHED"}

\* Between packets no direction holds more than RmemMax out of order.
MemoryBound ==
    pc = "idle" => \A a \in Live : \A side \in Side :
        tcphashmap_[a].half[side].rmem_alloc <= RmemMax
============================================================================
