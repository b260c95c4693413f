-------------------------- MODULE TcpFragmentProofs --------------------------
(***************************************************************************)
(* What holds of TcpFragment for every pool of places, packet, timeout and *)
(* bound; at the end, what it promises the analysers (TcpService) and what *)
(* Http makes of it (TcpHttp).                                             *)
(***************************************************************************)
EXTENDS TcpHttp, SequenceTheorems, TLAPS

----------------------------------------------------------------------------
(***************************************************************************)
(* The operators the actions are built from have the types they should.    *)
(***************************************************************************)

\* Arithmetic on u_int stays in the sequence space.
LEMMA ModType ==
    ASSUME NEW x \in Int
    PROVE  x % SeqSpace \in SeqNum
BY SeqSpaceAssumption DEF SeqNum

\* The other side of a side is a side, and another one.
LEMMA OtherType ==
    ASSUME NEW side \in Side
    PROVE  Other(side) \in Side /\ Other(side) # side
BY DEF Side, Other

\* The packet in hand becomes a well-formed segment.
LEMMA SegmentSkbType ==
    ASSUME pkt \in Packet
    PROVE  SegmentSkb \in Skbuff
BY DEF Packet, SegmentSkb, Skbuff

\* addNewtcp builds a stream whatever the stack held.
LEMMA NewTcpType ==
    ASSUME pkt \in Packet, NEW gc \in StackGarbage, NEW gs \in StackGarbage
    PROVE  /\ NewTcp(gc, gs) \in TcpStream
           /\ NewTcp(gc, gs).addr = pkt.addr
           /\ NewTcp(gc, gs).isconnnection = FALSE
<1> DEFINE first  == (pkt.seq + 1) % SeqSpace
           client == NewHalf("SYN_SENT", first, pkt.win, Wscale(pkt), pkt.ws > 0, gc)
           server == NewHalf("CLOSE", gs.first_data_seq, gs.window, gs.wscale, FALSE, gs)
<1>1. first \in SeqNum /\ 0 \in SeqNum
  BY ModType, SeqSpaceAssumption DEF Packet, SeqNum
<1>2. <<>> \in Seq(Skbuff)
  OBVIOUS
<1>3. Wscale(pkt) \in Nat /\ pkt.win \in Nat /\ (pkt.ws > 0) \in BOOLEAN
  BY DEF Packet, Wscale
<1>4. client \in HalfStream
  BY <1>1, <1>2, <1>3 DEF NewHalf, HalfStream, HalfState, StackGarbage
<1>5. server \in HalfStream
  BY <1>1, <1>2, <1>3 DEF NewHalf, HalfStream, HalfState, StackGarbage
<1> QED
  BY <1>4, <1>5 DEF NewTcp, TcpStream, Packet

\* Noting an urgent pointer keeps the half well-formed, and only touches it.
LEMMA NoteUrgentType ==
    ASSUME NEW rcv \in HalfStream, NEW f \in Skbuff, NEW exp \in Int
    PROVE  /\ NoteUrgent(rcv, f, exp) \in HalfStream
           /\ NoteUrgent(rcv, f, exp).state = rcv.state
           /\ NoteUrgent(rcv, f, exp).rmem_alloc = rcv.rmem_alloc
<1>1. (f.urg_ptr + f.seq - 1) % SeqSpace \in SeqNum
  BY ModType DEF Skbuff, SeqNum
<1> QED
  BY <1>1 DEF NoteUrgent, HalfStream

\* addFromskb adds a number of bytes.
LEMMA AddedType ==
    ASSUME NEW rcv \in HalfStream, NEW f \in Skbuff, NEW exp \in SeqNum
    PROVE  Added(rcv, f, exp) \in Nat
<1>1. /\ rcv.urg_ptr - exp \in Int
      /\ f.seq + f.len - rcv.urg_ptr - 1 \in Int
      /\ f.len - (exp - f.seq) \in Int
  <2>1. rcv.urg_ptr \in SeqNum /\ f.seq \in SeqNum /\ f.len \in Nat
    BY DEF HalfStream, Skbuff
  <2>2. rcv.urg_ptr \in Int /\ f.seq \in Int /\ f.len \in Int /\ exp \in Int
    BY <2>1 DEF SeqNum
  <2> QED
    BY <2>2
<1>2. /\ (rcv.urg_ptr - exp) % SeqSpace \in SeqNum
      /\ (f.seq + f.len - rcv.urg_ptr - 1) % SeqSpace \in SeqNum
      /\ (f.len - (exp - f.seq)) % SeqSpace \in SeqNum
  BY <1>1, ModType
<1> QED
  BY <1>2, SeqSpaceAssumption DEF Added, SeqNum

\* Its notify calls are chunks of the stream.
LEMMA NotifiedType ==
    ASSUME NEW s \in TcpStream, NEW from \in Side, NEW rcv \in HalfStream,
           NEW f \in Skbuff, NEW exp \in SeqNum
    PROVE  Notified(s, from, rcv, f, exp) \in Seq(Chunk)
<1> DEFINE Piece(start, len) ==
               IF len > 0 THEN <<[addr |-> s.addr, side |-> from,
                                  from |-> start % SeqSpace, len |-> len]>>
                          ELSE <<>>
<1>1. ASSUME NEW start \in Int, NEW len \in Nat
      PROVE  Piece(start, len) \in Seq(Chunk)
  <2>1. start % SeqSpace \in SeqNum /\ s.addr \in Addr
    BY <1>1, ModType DEF TcpStream
  <2>2. [addr |-> s.addr, side |-> from, from |-> start % SeqSpace, len |-> len] \in Chunk
    BY <1>1, <2>1 DEF Chunk
  <2> QED
    BY <2>2
<1>0. /\ rcv.urg_ptr - exp \in Int
      /\ f.seq + f.len - rcv.urg_ptr - 1 \in Int
      /\ f.len - (exp - f.seq) \in Int
  <2>1. rcv.urg_ptr \in SeqNum /\ f.seq \in SeqNum /\ f.len \in Nat
    BY DEF HalfStream, Skbuff
  <2>2. rcv.urg_ptr \in Int /\ f.seq \in Int /\ f.len \in Int /\ exp \in Int
    BY <2>1 DEF SeqNum
  <2> QED
    BY <2>2
<1>00. /\ (rcv.urg_ptr - exp) % SeqSpace \in SeqNum
       /\ (f.seq + f.len - rcv.urg_ptr - 1) % SeqSpace \in SeqNum
       /\ (f.len - (exp - f.seq)) % SeqSpace \in SeqNum
  BY <1>0, ModType
<1>2. /\ (rcv.urg_ptr - exp) % SeqSpace \in Nat
      /\ (f.seq + f.len - rcv.urg_ptr - 1) % SeqSpace \in Nat
      /\ (f.len - (exp - f.seq)) % SeqSpace \in Nat
      /\ exp \in Int /\ f.seq \in Int /\ rcv.urg_ptr + 1 \in Int /\ f.len \in Nat
  BY SMTT(20), <1>00, SeqSpaceAssumption DEF HalfStream, Skbuff, SeqNum
<1>3. /\ Piece(exp, (rcv.urg_ptr - exp) % SeqSpace) \in Seq(Chunk)
      /\ Piece(f.seq, f.len) \in Seq(Chunk)
      /\ Piece(rcv.urg_ptr + 1, (f.seq + f.len - rcv.urg_ptr - 1) % SeqSpace) \in Seq(Chunk)
      /\ Piece(exp, (f.len - (exp - f.seq)) % SeqSpace) \in Seq(Chunk)
  BY <1>1, <1>2
<1> HIDE DEF Piece
<1>4. Piece(exp, (rcv.urg_ptr - exp) % SeqSpace) \o Piece(f.seq, f.len)
          \o Piece(rcv.urg_ptr + 1, (f.seq + f.len - rcv.urg_ptr - 1) % SeqSpace)
        \in Seq(Chunk)
  BY <1>3, ConcatProperties
<1> USE DEF Piece
<1> QED
  BY <1>3, <1>4 DEF Notified

\* Holding a fragment adds its memory and touches nothing but the fraglist.
LEMMA HoldFragmentType ==
    ASSUME NEW rcv \in HalfStream, NEW f \in Skbuff, NEW k \in 0 .. Len(rcv.fraglist)
    PROVE  /\ HoldFragment(rcv, k, f) \in HalfStream
           /\ HoldFragment(rcv, k, f).state = rcv.state
<1> DEFINE list == rcv.fraglist
<1>1. list \in Seq(Skbuff) /\ Len(list) \in Nat
  BY DEF HalfStream
<1>2. SubSeq(list, 1, k) \in Seq(Skbuff) /\ SubSeq(list, k + 1, Len(list)) \in Seq(Skbuff)
  BY <1>1, SubSeqProperties
<1>3. SubSeq(list, 1, k) \o <<f>> \o SubSeq(list, k + 1, Len(list)) \in Seq(Skbuff)
  BY <1>2, ConcatProperties
<1>4. rcv.rmem_alloc + f.truesize \in Int
  BY DEF HalfStream, Skbuff
<1> QED
  BY <1>3, <1>4 DEF HoldFragment, HalfStream

\* Releasing the first fragment gives memory back.
LEMMA DropFirstType ==
    ASSUME NEW rcv \in HalfStream, rcv.fraglist # <<>>
    PROVE  /\ Head(rcv.fraglist) \in Skbuff
           /\ DropFirst(rcv) \in HalfStream
           /\ DropFirst(rcv).state = rcv.state
           /\ DropFirst(rcv).rmem_alloc <= rcv.rmem_alloc
<1>1. rcv.fraglist \in Seq(Skbuff)
  BY DEF HalfStream
<1>2. Head(rcv.fraglist) \in Skbuff /\ Tail(rcv.fraglist) \in Seq(Skbuff)
  BY <1>1, HeadTailProperties
<1> DEFINE size == Head(rcv.fraglist).truesize
           rest == Tail(rcv.fraglist)
<1>3. size \in Nat /\ rcv.rmem_alloc \in Int
  BY <1>2 DEF Skbuff, HalfStream
<1>4. rcv.rmem_alloc - size \in Int /\ rcv.rmem_alloc - size <= rcv.rmem_alloc
  BY <1>3
<1>5. DropFirst(rcv) = [rcv EXCEPT !.rmem_alloc = rcv.rmem_alloc - size,
                                   !.fraglist = rest]
  BY DEF DropFirst, HalfStream
<1> HIDE DEF size, rest
<1> QED
  BY <1>2, <1>4, <1>5 DEF HalfStream, rest

\* Replacing the halves of a stream leaves the rest of it.
LEMMA SetHalvesType ==
    ASSUME NEW s \in TcpStream, NEW from \in Side,
           NEW snd \in HalfStream, NEW rcv \in HalfStream
    PROVE  /\ SetHalves(s, from, snd, rcv) \in TcpStream
           /\ SetHalves(s, from, snd, rcv).addr = s.addr
           /\ SetHalves(s, from, snd, rcv).isconnnection = s.isconnnection
           /\ SetHalves(s, from, snd, rcv).half[from] = snd
           /\ SetHalves(s, from, snd, rcv).half[Other(from)] = rcv
<1> DEFINE h == [side \in Side |-> IF side = from THEN snd ELSE rcv]
<1>1. h \in [Side -> HalfStream] /\ h[from] = snd /\ h[Other(from)] = rcv
  BY OtherType
<1> HIDE DEF h
<1>2. /\ [s EXCEPT !.half = h] \in TcpStream
      /\ [s EXCEPT !.half = h].half = h
      /\ [s EXCEPT !.half = h].addr = s.addr
      /\ [s EXCEPT !.half = h].isconnnection = s.isconnnection
  BY <1>1 DEF TcpStream
<1>3. SetHalves(s, from, snd, rcv) = [s EXCEPT !.half = h]
  BY DEF SetHalves, h
<1> QED
  BY <1>1, <1>2, <1>3

\* Sending a FIN changes the state of a half only.
LEMMA SendFinType ==
    ASSUME NEW snd \in HalfStream, NEW fin, NEW state \in HalfState
    PROVE  /\ SendFin(snd, fin, state) \in HalfStream
           /\ SendFin(snd, fin, state).state = IF fin = 1 THEN state ELSE snd.state
           /\ SendFin(snd, fin, state).rmem_alloc = snd.rmem_alloc
BY DEF SendFin, HalfStream

\* The two halves of a stream, and which they are.
LEMMA HalvesType ==
    ASSUME NEW s \in TcpStream, NEW from \in Side
    PROVE  /\ s.half[from] \in HalfStream
           /\ s.half[Other(from)] \in HalfStream
           /\ Side = {from, Other(from)}
BY OtherType DEF TcpStream, Side, Other

\* handleAck and the confirmation of a FIN: only a FIN_SENT half changes state.
LEMMA AcknowledgeType ==
    ASSUME pkt \in Packet, NEW s \in TcpStream, NEW from \in Side
    PROVE  LET t == Acknowledge(s, from)
           IN  /\ t \in TcpStream
               /\ t.addr = s.addr /\ t.isconnnection = s.isconnnection
               /\ t.half[from].state = s.half[from].state
               /\ \/ t.half[Other(from)].state = s.half[Other(from)].state
                  \/ /\ s.half[Other(from)].state = "FIN_SENT"
                     /\ t.half[Other(from)].state = "FIN_CONFIRMED"
               /\ \A side \in Side : t.half[side].rmem_alloc = s.half[side].rmem_alloc
<1> DEFINE a == s.half[from]
           b == s.half[Other(from)]
           ack == IF Positive(pkt.acknum - a.ack_seq) THEN pkt.acknum ELSE a.ack_seq
           snd == [a EXCEPT !.ack_seq = ack]
           rcv == IF b.state = "FIN_SENT" THEN [b EXCEPT !.state = "FIN_CONFIRMED"] ELSE b
<1>1. a \in HalfStream /\ b \in HalfStream /\ Side = {from, Other(from)}
  BY HalvesType
<1>2. ack \in SeqNum
  BY <1>1 DEF Packet, HalfStream
<1> HIDE DEF ack
<1>3. /\ snd \in HalfStream /\ snd.state = a.state
      /\ snd.rmem_alloc = a.rmem_alloc
  BY <1>1, <1>2 DEF HalfStream
<1>4. /\ rcv \in HalfStream /\ rcv.rmem_alloc = b.rmem_alloc
      /\ \/ rcv.state = b.state
         \/ b.state = "FIN_SENT" /\ rcv.state = "FIN_CONFIRMED"
  BY <1>1 DEF HalfStream, HalfState
<1>5. Acknowledge(s, from) = SetHalves(s, from, snd, rcv)
  BY DEF Acknowledge, ack
<1> HIDE DEF snd, rcv
<1>6. /\ SetHalves(s, from, snd, rcv) \in TcpStream
      /\ SetHalves(s, from, snd, rcv).addr = s.addr
      /\ SetHalves(s, from, snd, rcv).isconnnection = s.isconnnection
      /\ SetHalves(s, from, snd, rcv).half[from] = snd
      /\ SetHalves(s, from, snd, rcv).half[Other(from)] = rcv
  BY <1>3, <1>4, SetHalvesType
<1> QED
  BY <1>1, <1>3, <1>4, <1>5, <1>6

----------------------------------------------------------------------------
(***************************************************************************)
(* The shapes of a step.  Every step either leaves the tables alone, frees *)
(* streams with their timers, advances one stream, or begins one.          *)
(***************************************************************************)

\* The streams at S go, with every timer that names them.
Frees(S) ==
    /\ tcphashmap_' = [b \in Ptr |-> IF b \in S THEN Null ELSE tcphashmap_[b]]
    /\ tcpTimeoutSet_' = {t \in tcpTimeoutSet_ : t.a_tcp \notin S}
    /\ finTimeoutSet_' = {t \in finTimeoutSet_ : t.a_tcp \notin S}

\* A half that has sent its FIN has sent it for good, and a connection is
\* past its handshake.
Onward(old, new) ==
    /\ new.addr = old.addr
    /\ \A side \in Side :
          /\ old.half[side].state \in FinSeen => new.half[side].state \in FinSeen
          /\ new.isconnnection =>
                new.half[side].state \in FinSeen \cup {"ESTABLISHED"}

\* The stream at a becomes s; timers started in the step are for a.
Advances(a, s) ==
    /\ s \in TcpStream
    /\ Onward(tcphashmap_[a], s)
    /\ tcphashmap_' = [tcphashmap_ EXCEPT ![a] = s]
    /\ tcpTimeoutSet_' \subseteq
          tcpTimeoutSet_ \cup {[a_tcp |-> a, time |-> now + TcpTimeout]}
    /\ \/ finTimeoutSet_' = finTimeoutSet_
       \/ /\ finTimeoutSet_' \subseteq
                finTimeoutSet_ \cup {[a_tcp |-> a, time |-> now + FinTimeout]}
          /\ \A side \in Side : s.half[side].state \in FinSeen

\* Only the stream at a is touched, and it holds no more memory than before.
Lighter(a) ==
    /\ \A b \in Ptr \ {a} : tcphashmap_'[b] = tcphashmap_[b]
    /\ \A side \in Side : tcphashmap_'[a].half[side].rmem_alloc
                              <= tcphashmap_[a].half[side].rmem_alloc

\* What is invariant of the tables, apart from their types.
TablesInv ==
    /\ NoDanglingTimeout
    /\ UniqueFlow
    /\ TimersAhead
    /\ FinTimerAfterFins
    /\ ConnectedIsEstablished

\* The inductive invariant.
IInv == TypeOK /\ TablesInv

TablesType ==
    /\ tcphashmap_ \in [Ptr -> TcpStream \cup {Null}]
    /\ tcpTimeoutSet_ \subseteq Timeout
    /\ finTimeoutSet_ \subseteq Timeout

\* A stream of the table is a stream.
LEMMA LiveType ==
    ASSUME TablesType, NEW a \in Live
    PROVE  /\ a \in Ptr
           /\ tcphashmap_[a] \in TcpStream
           /\ tcphashmap_[a].half \in [Side -> HalfStream]
           /\ \A side \in Side : tcphashmap_[a].half[side] \in HalfStream
BY DEF TablesType, Live, TcpStream

\* EXP_SEQ is a sequence number.
LEMMA ExpSeqType ==
    ASSUME NEW s \in TcpStream, NEW from \in Side
    PROVE  ExpSeq(s, from) \in SeqNum
<1>1. s.half[from] \in HalfStream /\ s.half[Other(from)] \in HalfStream
  BY OtherType DEF TcpStream
<1>2. s.half[from].first_data_seq \in SeqNum /\ s.half[Other(from)].count \in SeqNum
  BY <1>1 DEF HalfStream
<1>3. s.half[from].first_data_seq + s.half[Other(from)].count \in Int
  BY <1>2 DEF SeqNum
<1> QED
  BY <1>3, ModType DEF ExpSeq

\* Freeing keeps the tables right, as long as the clock does not overtake
\* a timer that stays.
LEMMA FreesKeeps ==
    ASSUME IInv, NEW S, Frees(S), now' \in Nat, now <= now',
           \A t \in tcpTimeoutSet_' \cup finTimeoutSet_' : now' < t.time
    PROVE  TablesType' /\ TablesInv'
<1> USE DEF IInv, TypeOK, TablesInv
<1>1. TablesType'
  BY DEF TablesType, Frees
<1>2. Live' = Live \ S
  BY DEF Live, Frees
<1>3. \A a \in Live' : tcphashmap_'[a] = tcphashmap_[a]
  BY <1>2 DEF Frees, Live
<1>4. NoDanglingTimeout'
  BY <1>2 DEF NoDanglingTimeout, Frees
<1>5. UniqueFlow'
  BY <1>2, <1>3 DEF UniqueFlow
<1>6. TimersAhead'
  BY TcpAssumption DEF TimersAhead, Frees, Timeout
<1>7. FinTimerAfterFins'
  <2> SUFFICES ASSUME NEW t \in finTimeoutSet_', NEW side \in Side
               PROVE  tcphashmap_'[t.a_tcp].half[side].state \in FinSeen
    BY DEF FinTimerAfterFins
  <2>1. t \in finTimeoutSet_ /\ t.a_tcp \in Live'
    BY <1>4 DEF Frees, NoDanglingTimeout
  <2> QED
    BY <2>1, <1>3 DEF FinTimerAfterFins
<1>8. ConnectedIsEstablished'
  BY <1>2, <1>3 DEF ConnectedIsEstablished
<1> QED
  BY <1>1, <1>4, <1>5, <1>6, <1>7, <1>8

\* Advancing one stream keeps the tables right.
LEMMA AdvancesKeeps ==
    ASSUME IInv, NEW a \in Live, NEW s, Advances(a, s), now' = now
    PROVE  TablesType' /\ TablesInv'
<1> USE DEF IInv, TypeOK, TablesInv
<1>0. a \in Ptr /\ s \in TcpStream /\ s # Null /\ s.addr = tcphashmap_[a].addr
  BY TcpAssumption DEF Live, Advances, Onward
<1>1. /\ [a_tcp |-> a, time |-> now + TcpTimeout] \in Timeout
      /\ [a_tcp |-> a, time |-> now + FinTimeout] \in Timeout
  BY <1>0, TcpAssumption DEF Timeout
<1>2. TablesType'
  BY <1>0, <1>1 DEF TablesType, Advances
<1>3. Live' = Live
  BY <1>0 DEF Live, Advances
<1>4. tcphashmap_'[a] = s /\ \A b \in Live \ {a} : tcphashmap_'[b] = tcphashmap_[b]
  BY <1>0 DEF Live, Advances
<1>5. NoDanglingTimeout'
  BY <1>3 DEF NoDanglingTimeout, Advances
<1>6. \A b \in Live : tcphashmap_'[b].addr = tcphashmap_[b].addr
  BY <1>0, <1>4
<1>7. UniqueFlow'
  BY <1>3, <1>6 DEF UniqueFlow
<1>8. TimersAhead'
  BY TcpAssumption DEF TimersAhead, Advances
<1>9. FinTimerAfterFins'
  <2> SUFFICES ASSUME NEW t \in finTimeoutSet_', NEW side \in Side
               PROVE  tcphashmap_'[t.a_tcp].half[side].state \in FinSeen
    BY DEF FinTimerAfterFins
  <2>1. CASE t \in finTimeoutSet_
    <3>1. t.a_tcp \in Live /\ tcphashmap_[t.a_tcp].half[side].state \in FinSeen
      BY <2>1 DEF NoDanglingTimeout, FinTimerAfterFins
    <3> QED
      BY <3>1, <1>4 DEF Advances, Onward
  <2>2. CASE t \notin finTimeoutSet_
    BY <2>2, <1>4 DEF Advances
  <2> QED
    BY <2>1, <2>2
<1>10. ConnectedIsEstablished'
  BY <1>3, <1>4 DEF ConnectedIsEstablished, Advances, Onward
<1> QED
  BY <1>2, <1>5, <1>7, <1>8, <1>9, <1>10

----------------------------------------------------------------------------
(***************************************************************************)
(* Every action has one of the shapes.                                     *)
(***************************************************************************)

\* findStream finds a stream of the table.
LEMMA FindStreamLive ==
    ASSUME NEW a \in Ptr, NEW from \in Side, FindStream(a, from)
    PROVE  a \in Live
BY DEF FindStream, FindStreamAux

\* Freeing one stream is freeing it with its timers.
LEMMA FreeTcpstreamFrees ==
    ASSUME TypeOK, NEW a \in Ptr, FreeTcpstream(a)
    PROVE  Frees({a})
<1>1. tcphashmap_' = [b \in Ptr |-> IF b \in {a} THEN Null ELSE tcphashmap_[b]]
  BY DEF TypeOK, FreeTcpstream
<1>2. /\ tcpTimeoutSet_' = {t \in tcpTimeoutSet_ : t.a_tcp \notin {a}}
      /\ finTimeoutSet_' = {t \in finTimeoutSet_ : t.a_tcp \notin {a}}
  BY DEF FreeTcpstream, Without
<1> QED
  BY <1>1, <1>2 DEF Frees

\* addFromskb advances the stream; the callbacks it makes are well-formed.
LEMMA AddFromskbAdvances ==
    ASSUME IInv, NEW a \in Live, NEW from \in Side, NEW f \in Skbuff,
           NEW rcv \in HalfStream,
           rcv.state = tcphashmap_[a].half[Other(from)].state,
           AddFromskb(a, from, f, rcv)
    PROVE  /\ \E s : /\ Advances(a, s)
                     /\ s.isconnnection = tcphashmap_[a].isconnnection
                     /\ s.half[from].rmem_alloc = tcphashmap_[a].half[from].rmem_alloc
                     /\ s.half[Other(from)].rmem_alloc = rcv.rmem_alloc
           /\ callbacks' \in Callbacks
<1> DEFINE old   == tcphashmap_[a]
           exp   == ExpSeq(old, from)
           noted == NoteUrgent(rcv, f, exp)
           count == (noted.count + Added(noted, f, exp)) % SeqSpace
           seen  == noted.urg_seen /\ ~HoldsUrgent(noted, f, exp)
           r     == [noted EXCEPT !.count = count, !.urg_seen = seen]
           snd   == SendFin(old.half[from], f.fin, "FIN_SENT")
           s     == SetHalves(old, from, snd, r)
<1>1. /\ old \in TcpStream
      /\ old.half[from] \in HalfStream /\ old.half[Other(from)] \in HalfStream
      /\ Side = {from, Other(from)}
  BY LiveType, HalvesType DEF IInv, TypeOK, TablesType
<1>2. exp \in SeqNum
  BY <1>1, ExpSeqType
<1>3. /\ noted \in HalfStream /\ noted.state = rcv.state
      /\ noted.rmem_alloc = rcv.rmem_alloc
  BY <1>2, NoteUrgentType DEF SeqNum
<1>4. count \in SeqNum
  <2>1. Added(noted, f, exp) \in Nat /\ noted.count \in SeqNum
    BY <1>2, <1>3, AddedType DEF HalfStream
  <2>2. noted.count + Added(noted, f, exp) \in Int
    BY <2>1 DEF SeqNum
  <2> QED
    BY <2>2, ModType
<1>5. seen \in BOOLEAN
  BY <1>3 DEF HalfStream
<1>6. AddFromskb(a, from, f, rcv) =>
         /\ tcphashmap_' = [tcphashmap_ EXCEPT ![a] = s]
         /\ callbacks' = [NoCallbacks EXCEPT !.data = Notified(old, from, noted, f, exp)]
  BY DEF AddFromskb
<1> HIDE DEF count, seen, noted, exp
<1>7. /\ r \in HalfStream /\ r.state = rcv.state
      /\ r.rmem_alloc = rcv.rmem_alloc
  BY <1>3, <1>4, <1>5 DEF HalfStream
<1>8. /\ snd \in HalfStream
      /\ snd.state = IF f.fin = 1 THEN "FIN_SENT" ELSE old.half[from].state
      /\ snd.rmem_alloc = old.half[from].rmem_alloc
  BY <1>1, SendFinType DEF HalfState
<1> HIDE DEF r, snd, old
<1>9. /\ s \in TcpStream /\ s.addr = old.addr
      /\ s.isconnnection = old.isconnnection
      /\ s.half[from] = snd /\ s.half[Other(from)] = r
  BY <1>1, <1>7, <1>8, SetHalvesType
<1> HIDE DEF s
<1>10. Onward(old, s)
  <2>1. old.isconnnection => \A side \in Side :
            old.half[side].state \in FinSeen \cup {"ESTABLISHED"}
    BY DEF IInv, TablesInv, ConnectedIsEstablished, old
  <2>2. snd.state = old.half[from].state \/ snd.state \in FinSeen
    BY <1>8 DEF FinSeen
  <2>3. r.state = old.half[Other(from)].state
    BY <1>7 DEF old
  <2> QED
    BY <1>1, <1>9, <2>1, <2>2, <2>3 DEF Onward
<1>11. tcpTimeoutSet_' \subseteq
          tcpTimeoutSet_ \cup {[a_tcp |-> a, time |-> now + TcpTimeout]}
  BY DEF AddFromskb, UpdateTcptimeout, Insert, Without
<1>12. \/ finTimeoutSet_' = finTimeoutSet_
       \/ /\ finTimeoutSet_' \subseteq
                finTimeoutSet_ \cup {[a_tcp |-> a, time |-> now + FinTimeout]}
          /\ \A side \in Side : s.half[side].state \in FinSeen
  <2>1. finTimeoutSet_' = ClosingTimer(a, f.fin, rcv.state, {"CLOSING"})
    BY DEF AddFromskb
  <2>2. CASE f.fin = 1 /\ rcv.state = "CLOSING"
    <3>1. snd.state \in FinSeen /\ r.state \in FinSeen
      BY <2>2, <1>7, <1>8 DEF FinSeen
    <3>2. \A side \in Side : s.half[side].state \in FinSeen
      BY <3>1, <1>1, <1>9
    <3> QED
      BY <2>1, <3>2 DEF ClosingTimer, AddFintimeout, Insert
  <2>3. CASE ~(f.fin = 1 /\ rcv.state = "CLOSING")
    BY <2>1, <2>3 DEF ClosingTimer
  <2> QED
    BY <2>2, <2>3
<1>13. Advances(a, s)
  BY <1>6, <1>9, <1>10, <1>11, <1>12 DEF Advances, old
<1>14. callbacks' \in Callbacks
  <2>1. Notified(old, from, noted, f, exp) \in Seq(Chunk)
    BY <1>1, <1>2, <1>3, NotifiedType
  <2> QED
    BY <2>1, <1>6 DEF NoCallbacks, Callbacks
<1>15. /\ s.half[from].rmem_alloc = old.half[from].rmem_alloc
       /\ s.half[Other(from)].rmem_alloc = rcv.rmem_alloc
       /\ s.isconnnection = old.isconnnection
  BY <1>7, <1>8, <1>9
<1> QED
  BY <1>13, <1>14, <1>15 DEF old

\* The packet of a call is well-formed.
LEMMA PktType ==
    ASSUME TypeOK, pc # "idle"
    PROVE  pkt \in Packet
BY TcpAssumption DEF TypeOK

\* Reports about streams of the table are well-formed.
LEMMA EndedType ==
    ASSUME TablesType, NEW S \in SUBSET Live, NEW kind \in {"close", "timeout", "rst"}
    PROVE  Ended(S, kind) \subseteq Ending
<1> SUFFICES ASSUME NEW a \in S
             PROVE  [addr |-> tcphashmap_[a].addr, kind |-> kind] \in Ending
  BY DEF Ended
<1> QED
  BY LiveType DEF TcpStream, Ending

\* So is the report of a step that only ends streams, or only opens them.
LEMMA CallbacksType ==
    /\ NoCallbacks \in Callbacks
    /\ \A E \in SUBSET Ending : [NoCallbacks EXCEPT !.ended = E] \in Callbacks
    /\ \A O \in SUBSET Addr : [NoCallbacks EXCEPT !.opened = O] \in Callbacks
<1>1. <<>> \in Seq(Chunk)
  OBVIOUS
<1> QED
  BY <1>1 DEF NoCallbacks, Callbacks

\* The variables that say where a call is.
ControlType ==
    /\ now \in Nat
    /\ pc \in {"idle", "segment", "queue", "drain", "finish"}
    /\ pkt \in Packets \cup {Null}
    /\ (pkt = Null) <=> (pc = "idle")
    /\ callbacks \in Callbacks

\* What a step of a call that keeps the invariant keeps.
Kept == TablesType' /\ TablesInv' /\ ControlType'

LEMMA KeptIInv ==
    ASSUME Kept
    PROVE  IInv'
BY DEF Kept, TablesType, ControlType, IInv, TypeOK

\* A call that returns, and one that goes on, keep the control variables typed.
LEMMA ReturnType ==
    ASSUME TypeOK, Return, callbacks' \in Callbacks
    PROVE  ControlType' /\ now' = now
BY DEF TypeOK, Return, ControlType

LEMMA GoOnType ==
    ASSUME TypeOK, pc # "idle", UNCHANGED <<pkt, now>>, callbacks' \in Callbacks,
           pc' \in {"queue", "drain", "finish"}
    PROVE  ControlType'
BY DEF TypeOK, ControlType

\* A step that leaves the tables and the clock alone.
LEMMA QuietKeeps ==
    ASSUME IInv, UNCHANGED <<tables, now>>
    PROVE  TablesType' /\ TablesInv'
BY DEF IInv, TypeOK, TablesType, TablesInv, tables, NoDanglingTimeout, UniqueFlow,
       TimersAhead, FinTimerAfterFins, ConnectedIsEstablished, Live

\* The streams at S go and a new one, s, begins at place b.
Begins(S, b, s) ==
    /\ s \in TcpStream
    /\ ~s.isconnnection
    /\ b \in S \/ b \notin Live
    /\ \A c \in Live \ S : tcphashmap_[c].addr \notin {s.addr, Reversed(s.addr)}
    /\ tcphashmap_' = [c \in Ptr |-> IF c = b THEN s
                                     ELSE IF c \in S THEN Null ELSE tcphashmap_[c]]
    /\ tcpTimeoutSet_' \subseteq {t \in tcpTimeoutSet_ : t.a_tcp \notin S}
                                    \cup {[a_tcp |-> b, time |-> now + TcpTimeout]}
    /\ finTimeoutSet_' \subseteq {t \in finTimeoutSet_ : t.a_tcp \notin S}

\* Turning a tuple4 round twice gives it back.
LEMMA ReversedTwice ==
    ASSUME NEW addr \in Addr
    PROVE  Reversed(addr) \in Addr /\ Reversed(Reversed(addr)) = addr
BY DEF Addr, Reversed

\* A flow is the flow of a tuple4 exactly if the tuple4 is one of its two.
LEMMA SameFlow ==
    ASSUME NEW x \in Addr, NEW y \in Addr, x \in {y, Reversed(y)}
    PROVE  y \in {x, Reversed(x)} /\ {x, Reversed(x)} = {y, Reversed(y)}
BY ReversedTwice

\* Beginning a stream keeps the tables right.
LEMMA BeginsKeeps ==
    ASSUME IInv, NEW S, NEW b \in Ptr, NEW s, Begins(S, b, s), now' = now
    PROVE  TablesType' /\ TablesInv'
<1> USE DEF IInv, TypeOK, TablesInv
<1>0. s \in TcpStream /\ s # Null /\ ~s.isconnnection /\ s.addr \in Addr
  BY TcpAssumption DEF Begins, TcpStream
<1>1. [a_tcp |-> b, time |-> now + TcpTimeout] \in Timeout
  BY TcpAssumption DEF Timeout
<1>2. TablesType'
  BY <1>0, <1>1 DEF TablesType, Begins
<1>3. Live' = (Live \ S) \cup {b}
  BY <1>0 DEF Live, Begins
<1>4. /\ tcphashmap_'[b] = s
      /\ \A c \in Live \ S : c # b /\ tcphashmap_'[c] = tcphashmap_[c]
  BY DEF Live, Begins
<1>5. NoDanglingTimeout'
  BY <1>3 DEF NoDanglingTimeout, Begins
<1>6. UniqueFlow'
  <2> SUFFICES ASSUME NEW c \in Live', NEW d \in Live',
                      tcphashmap_'[c].addr \in {tcphashmap_'[d].addr,
                                                Reversed(tcphashmap_'[d].addr)}
               PROVE  c = d
    BY DEF UniqueFlow
  <2>1. tcphashmap_'[c].addr \in Addr /\ tcphashmap_'[d].addr \in Addr
    BY <1>2 DEF TablesType, Live, TcpStream
  <2>2. tcphashmap_'[d].addr \in {tcphashmap_'[c].addr, Reversed(tcphashmap_'[c].addr)}
    BY <2>1, SameFlow
  <2>3. CASE c # b /\ d # b
    BY <2>3, <1>3, <1>4 DEF UniqueFlow
  <2>4. CASE c = b /\ d # b
    BY <2>2, <2>4, <1>3, <1>4 DEF Begins
  <2>5. CASE c # b /\ d = b
    BY <2>5, <1>3, <1>4 DEF Begins
  <2> QED
    BY <2>3, <2>4, <2>5
<1>7. TimersAhead'
  BY TcpAssumption DEF TimersAhead, Begins
<1>8. FinTimerAfterFins'
  <2> SUFFICES ASSUME NEW t \in finTimeoutSet_', NEW side \in Side
               PROVE  tcphashmap_'[t.a_tcp].half[side].state \in FinSeen
    BY DEF FinTimerAfterFins
  <2>1. t \in finTimeoutSet_ /\ t.a_tcp \in Live \ S
    BY DEF Begins, NoDanglingTimeout
  <2> QED
    BY <2>1, <1>4 DEF FinTimerAfterFins
<1>9. ConnectedIsEstablished'
  BY <1>0, <1>3, <1>4 DEF ConnectedIsEstablished
<1> QED
  BY <1>2, <1>5, <1>6, <1>7, <1>8, <1>9

----------------------------------------------------------------------------
(***************************************************************************)
(* Every action keeps the invariant.                                       *)
(***************************************************************************)

\* tcpChecktimeouts frees exactly what is due, so that what stays is ahead.
LEMMA CheckTimeoutsKeeps ==
    ASSUME IInv, NEW p \in Packets, NEW ts \in now .. MaxTime, CheckTimeouts(p, ts)
    PROVE  Kept
<1> DEFINE idle    == Due(tcpTimeoutSet_, ts)
           closing == Due({t \in finTimeoutSet_ : t.a_tcp \notin idle}, ts)
           gone    == idle \cup closing
<1>1. now \in Int /\ MaxTime \in Int /\ ts \in Nat /\ now <= ts /\ now' = ts
  BY TcpAssumption DEF IInv, TypeOK, CheckTimeouts
<1>2. Frees(gone)
  BY DEF CheckTimeouts, Frees
<1>3. \A t \in tcpTimeoutSet_' \cup finTimeoutSet_' : now' < t.time
  <2> SUFFICES ASSUME NEW t \in tcpTimeoutSet_' \cup finTimeoutSet_'
               PROVE  ts < t.time
    BY <1>1
  <2>1. t.a_tcp \notin gone /\ t \in tcpTimeoutSet_ \cup finTimeoutSet_
    BY <1>2 DEF Frees
  <2>2. t.time \in Nat
    BY <2>1 DEF IInv, TypeOK, Timeout
  <2>3. CASE t \in tcpTimeoutSet_
    <3>1. ~(t.time <= ts)
      BY <2>1, <2>3 DEF Due
    <3> QED
      BY <3>1, <2>2, <1>1
  <2>4. CASE t \in finTimeoutSet_
    <3>1. ~(t.time <= ts)
      BY <2>1, <2>4 DEF Due
    <3> QED
      BY <3>1, <2>2, <1>1
  <2> QED
    BY <2>1, <2>3, <2>4
<1>4. TablesType' /\ TablesInv'
  <2> HIDE DEF gone
  <2> QED
    BY <1>1, <1>2, <1>3, FreesKeeps
<1>5. idle \in SUBSET Live /\ closing \in SUBSET Live
  BY DEF IInv, TablesInv, NoDanglingTimeout, Due
<1>6. TablesType
  BY DEF IInv, TypeOK, TablesType
<1>7. callbacks' \in Callbacks
  <2> DEFINE E == Ended(idle, "timeout") \cup Ended(closing, "close")
  <2>1. E \in SUBSET Ending
    <3> HIDE DEF idle, closing
    <3> QED
      BY <1>5, <1>6, EndedType
  <2>2. callbacks' = [NoCallbacks EXCEPT !.ended = E]
    BY DEF CheckTimeouts
  <2> HIDE DEF E
  <2> QED
    BY <2>1, <2>2, CallbacksType
<1>8. ControlType'
  BY <1>1, <1>7, TcpAssumption DEF CheckTimeouts, ControlType
<1> QED
  BY <1>4, <1>8 DEF Kept

\* A step of the call that leaves the streams alone.
LEMMA QuietActionsKeep ==
    ASSUME IInv, NEW a \in Ptr, NEW from \in Side,
           Ignore \/ DropSegment(a, from) \/ QueueOld(a, from) \/ DrainEnd(a, from)
    PROVE  Kept
<1>1. callbacks' = NoCallbacks /\ UNCHANGED <<tables, now>>
  BY DEF Ignore, DropSegment, QueueOld, DrainEnd, Return
<1>2. ControlType'
  <2>1. CASE Ignore \/ DropSegment(a, from)
    BY <2>1, <1>1, CallbacksType, ReturnType DEF IInv, Ignore, DropSegment
  <2>2. CASE QueueOld(a, from) \/ DrainEnd(a, from)
    BY <2>2, <1>1, CallbacksType, GoOnType DEF IInv, QueueOld, DrainEnd
  <2> QED
    BY <2>1, <2>2
<1> QED
  BY <1>1, <1>2, QuietKeeps DEF Kept

\* Freeing the stream a packet belongs to.
LEMMA FreeTcpstreamKeeps ==
    ASSUME IInv, NEW a \in Live, FreeTcpstream(a), Return, callbacks' \in Callbacks
    PROVE  Kept
<1>1. Frees({a}) /\ a \in Ptr
  BY FreeTcpstreamFrees DEF Live, IInv
<1>2. ControlType' /\ now' = now /\ now' \in Nat
  BY ReturnType DEF IInv, ControlType
<1>3. \A t \in tcpTimeoutSet_' \cup finTimeoutSet_' : now' < t.time
  BY <1>1, <1>2 DEF Frees, IInv, TablesInv, TimersAhead
<1>4. now <= now'
  BY <1>2 
<1> QED
  BY <1>1, <1>2, <1>3, <1>4, FreesKeeps DEF Kept

\* A RST, or the ACK of the second FIN, ends the stream it belongs to.
LEMMA EndActionsKeep ==
    ASSUME IInv, NEW a \in Ptr, NEW from \in Side,
           ResetStream(a, from) \/ CloseStream(a, from)
    PROVE  Kept
<1>1. a \in Live
  BY FindStreamLive DEF ResetStream, CloseStream, InWindow, Segment
<1>2. /\ Ended({a}, "rst") \in SUBSET Ending
      /\ Ended({a}, "close") \in SUBSET Ending
  BY <1>1, EndedType DEF IInv, TypeOK, TablesType
<1>3. callbacks' \in Callbacks
  BY <1>2, CallbacksType DEF ResetStream, CloseStream
<1> QED
  BY <1>1, <1>3, FreeTcpstreamKeeps DEF ResetStream, CloseStream

\* A SYN begins a stream, in place of all others when the table is full.
LEMMA AddNewtcpKeeps ==
    ASSUME IInv, NEW a \in Ptr, NEW gc \in Garbage, NEW gs \in Garbage,
           AddNewtcp(a, gc, gs)
    PROVE  Kept
<1> DEFINE full == Live = Ptr
           S    == IF full THEN Live ELSE {}
           s    == NewTcp(gc, gs)
<1>1. pkt \in Packet /\ gc \in StackGarbage /\ gs \in StackGarbage
  BY PktType, TcpAssumption DEF IInv, AddNewtcp
<1>2. s \in TcpStream /\ s.addr = pkt.addr /\ s.isconnnection = FALSE
  BY <1>1, NewTcpType
<1> HIDE DEF s
<1>3. \A c \in Live : tcphashmap_[c].addr \notin {s.addr, Reversed(s.addr)}
  BY <1>2 DEF AddNewtcp, NoStream, FindStreamAux
<1>4. tcphashmap_' = [c \in Ptr |-> IF c = a THEN s
                                   ELSE IF c \in S THEN Null ELSE tcphashmap_[c]]
  BY DEF AddNewtcp, Live, s
<1>5. /\ tcpTimeoutSet_' \subseteq {t \in tcpTimeoutSet_ : t.a_tcp \notin S}
                                    \cup {[a_tcp |-> a, time |-> now + TcpTimeout]}
      /\ finTimeoutSet_' \subseteq {t \in finTimeoutSet_ : t.a_tcp \notin S}
  BY DEF AddNewtcp, Insert, Cleared
<1>6. Begins(S, a, s)
  BY <1>2, <1>3, <1>4, <1>5 DEF Begins, AddNewtcp
<1>7. callbacks' \in Callbacks
  <2>1. Ended(Live, "timeout") \in SUBSET Ending
    BY EndedType DEF IInv, TypeOK, TablesType
  <2> QED
    BY <2>1, CallbacksType DEF AddNewtcp
<1>8. ControlType' /\ now' = now
  BY <1>7, ReturnType DEF IInv, AddNewtcp
<1> QED
  BY <1>6, <1>8, BeginsKeeps DEF Kept

\* A SYN of a known flow: by UniqueFlow no other stream is of that flow.
LEMMA RestartStreamKeeps ==
    ASSUME IInv, NEW a \in Ptr, NEW from \in Side, NEW b \in Ptr,
           NEW gc \in Garbage, NEW gs \in Garbage, RestartStream(a, from, b, gc, gs)
    PROVE  Kept
<1> DEFINE s == NewTcp(gc, gs)
<1>1. pkt \in Packet /\ gc \in StackGarbage /\ gs \in StackGarbage
  BY PktType, TcpAssumption DEF IInv, RestartStream
<1>2. s \in TcpStream /\ s.addr = pkt.addr /\ s.isconnnection = FALSE
  BY <1>1, NewTcpType
<1> HIDE DEF s
<1>3. \A c \in Live \ {a} : tcphashmap_[c].addr \notin {s.addr, Reversed(s.addr)}
  <2>1. a \in Live /\ tcphashmap_[a].addr \in {pkt.addr, Reversed(pkt.addr)}
    BY DEF RestartStream, FindStream, FindStreamAux
  <2>2. SUFFICES ASSUME NEW c \in Live, tcphashmap_[c].addr \in {pkt.addr, Reversed(pkt.addr)}
                 PROVE  c = a
    BY <1>2
  <2>3. /\ tcphashmap_[a].addr \in Addr /\ tcphashmap_[c].addr \in Addr
        /\ pkt.addr \in Addr
    BY <1>1, <2>1, <2>2, LiveType DEF IInv, TypeOK, TablesType, TcpStream, Packet
  <2>4. tcphashmap_[c].addr \in {tcphashmap_[a].addr, Reversed(tcphashmap_[a].addr)}
    BY <2>1, <2>2, <2>3, SameFlow
  <2> QED
    BY <2>1, <2>4 DEF IInv, TablesInv, UniqueFlow
<1>4. tcphashmap_' = [c \in Ptr |-> IF c = b THEN s
                                   ELSE IF c \in {a} THEN Null ELSE tcphashmap_[c]]
  BY DEF RestartStream, IInv, TypeOK, s
<1>5. /\ tcpTimeoutSet_' \subseteq {t \in tcpTimeoutSet_ : t.a_tcp \notin {a}}
                                    \cup {[a_tcp |-> b, time |-> now + TcpTimeout]}
      /\ finTimeoutSet_' \subseteq {t \in finTimeoutSet_ : t.a_tcp \notin {a}}
  BY DEF RestartStream, Insert, Without
<1>6. Begins({a}, b, s)
  BY <1>2, <1>3, <1>4, <1>5 DEF Begins, RestartStream
<1>7. ControlType' /\ now' = now
  BY CallbacksType, ReturnType DEF IInv, RestartStream
<1> QED
  BY <1>6, <1>7, BeginsKeeps DEF Kept

\* A step that replaces a stream by one that is onward of it, timers alone.
LEMMA OnwardKeeps ==
    ASSUME IInv, NEW a \in Live, NEW s \in TcpStream, Onward(tcphashmap_[a], s),
           tcphashmap_' = [tcphashmap_ EXCEPT ![a] = s],
           UNCHANGED <<tcpTimeoutSet_, finTimeoutSet_>>, now' = now
    PROVE  TablesType' /\ TablesInv'
<1>1. Advances(a, s)
  BY DEF Advances
<1> QED
  BY <1>1, AdvancesKeeps

\* A replacement of the stream at a whose halves hold no more is lighter.
LEMMA LighterType ==
    ASSUME TablesType, NEW a \in Ptr, NEW s,
           tcphashmap_' = [tcphashmap_ EXCEPT ![a] = s],
           \A side \in Side :
               s.half[side].rmem_alloc <= tcphashmap_[a].half[side].rmem_alloc
    PROVE  Lighter(a)
BY DEF TablesType, Lighter

\* The SYN-ACK renumbers the server's half of a stream not yet connected.
LEMMA SecondHandshakeKeeps ==
    ASSUME IInv, NEW a \in Ptr, NEW from \in Side, SecondHandshake(a, from)
    PROVE  Kept /\ Lighter(a)
<1> DEFINE old    == tcphashmap_[a]
           on     == old.half["client"].wscale_on /\ pkt.ws > 0
           first  == (pkt.seq + 1) % SeqSpace
           client == [old.half["client"] EXCEPT
                        !.wscale_on = on, !.wscale = IF on THEN @ ELSE 1]
           server == [old.half["server"] EXCEPT
                        !.state = "SYN_RECV", !.seq = first, !.first_data_seq = first,
                        !.ack_seq = pkt.acknum, !.window = pkt.win,
                        !.wscale_on = on, !.wscale = IF on THEN pkt.ws ELSE 1]
           s      == SetHalves(old, "client", client, server)
<1>1. a \in Live
  BY FindStreamLive DEF SecondHandshake, Segment
<1>2. pkt \in Packet
  BY PktType DEF IInv, SecondHandshake, Segment
<1>3. /\ old \in TcpStream
      /\ old.half["client"] \in HalfStream /\ old.half["server"] \in HalfStream
  BY <1>1, LiveType DEF IInv, TypeOK, TablesType, Side
<1>4. on \in BOOLEAN /\ first \in SeqNum
  <2>1. pkt.seq + 1 \in Int
    BY <1>2 DEF Packet, SeqNum
  <2> QED
    BY <2>1, <1>3, ModType DEF HalfStream
<1>5. /\ tcphashmap_' = [tcphashmap_ EXCEPT ![a] = s]
      /\ UNCHANGED <<tcpTimeoutSet_, finTimeoutSet_>>
  BY DEF SecondHandshake
<1>6. old.half["client"].state = "SYN_SENT" /\ old.half["server"].state = "CLOSE"
  BY DEF SecondHandshake, IsSynAck
<1>7. ~old.isconnnection
  BY <1>1, <1>6 DEF IInv, TablesInv, ConnectedIsEstablished, Side, FinSeen
<1> HIDE DEF on, first, old
<1>8. /\ client \in HalfStream /\ client.state = "SYN_SENT"
      /\ client.rmem_alloc = old.half["client"].rmem_alloc
  BY <1>3, <1>4, <1>6 DEF HalfStream
<1>9. /\ server \in HalfStream /\ server.state = "SYN_RECV"
      /\ server.rmem_alloc = old.half["server"].rmem_alloc
  BY <1>2, <1>3, <1>4 DEF HalfStream, HalfState, Packet
<1> HIDE DEF client, server
<1>10. "client" \in Side /\ Other("client") = "server" /\ Side = {"client", "server"}
  BY DEF Side, Other
<1>11. /\ s \in TcpStream /\ s.addr = old.addr
       /\ s.isconnnection = old.isconnnection
       /\ s.half["client"] = client /\ s.half["server"] = server
  BY <1>3, <1>8, <1>9, <1>10, SetHalvesType
<1> HIDE DEF s
<1>12. Onward(old, s)
  BY <1>6, <1>7, <1>10, <1>11 DEF Onward, FinSeen
<1>13. ControlType' /\ now' = now
  BY CallbacksType, ReturnType DEF IInv, SecondHandshake
<1>14. \A side \in Side : s.half[side].rmem_alloc <= old.half[side].rmem_alloc
  <2>1. /\ old.half["client"].rmem_alloc \in Int
        /\ old.half["server"].rmem_alloc \in Int
    BY <1>3 DEF HalfStream
  <2> QED
    BY <2>1, <1>8, <1>9, <1>10, <1>11
<1>15. Lighter(a)
  BY <1>5, <1>14, LighterType DEF IInv, TypeOK, TablesType, old
<1> QED
  BY <1>1, <1>5, <1>11, <1>12, <1>13, <1>15, OnwardKeeps DEF Kept, old

\* Acknowledging takes a stream onward.
LEMMA AcknowledgeOnward ==
    ASSUME pkt \in Packet, NEW s \in TcpStream, NEW from \in Side,
           s.isconnnection => \A side \in Side :
               s.half[side].state \in FinSeen \cup {"ESTABLISHED"}
    PROVE  Onward(s, Acknowledge(s, from))
<1> DEFINE t == Acknowledge(s, from)
<1>1. /\ t.addr = s.addr /\ t.isconnnection = s.isconnnection
      /\ t.half[from].state = s.half[from].state
      /\ \/ t.half[Other(from)].state = s.half[Other(from)].state
         \/ /\ s.half[Other(from)].state = "FIN_SENT"
            /\ t.half[Other(from)].state = "FIN_CONFIRMED"
  BY AcknowledgeType
<1>2. Side = {from, Other(from)}
  BY HalvesType
<1> HIDE DEF t
<1>3. Onward(s, t)
  BY <1>1, <1>2 DEF Onward, FinSeen
<1> QED
  BY <1>3 DEF t

\* The handshake of a stream that is not connected takes it onward.
LEMMA EstablishOnward ==
    ASSUME pkt \in Packet, NEW s \in TcpStream, NEW from \in Side,
           \A side \in Side : s.half[side].state \notin FinSeen
    PROVE  /\ Establish(s, from) \in TcpStream
           /\ Onward(s, Establish(s, from))
           /\ \A side \in Side : Establish(s, from).half[side].rmem_alloc =
                                    s.half[side].rmem_alloc
<1> DEFINE c   == [s EXCEPT !.isconnnection = TRUE]
           snd == [s.half[from] EXCEPT !.state = "ESTABLISHED", !.ack_seq = pkt.acknum]
           rcv == [s.half[Other(from)] EXCEPT !.state = "ESTABLISHED"]
<1>1. /\ s.half[from] \in HalfStream /\ s.half[Other(from)] \in HalfStream
      /\ Side = {from, Other(from)}
  BY HalvesType
<1>2. /\ snd \in HalfStream /\ snd.state = "ESTABLISHED"
      /\ snd.rmem_alloc = s.half[from].rmem_alloc
  BY <1>1 DEF HalfStream, HalfState, Packet
<1>3. /\ rcv \in HalfStream /\ rcv.state = "ESTABLISHED"
      /\ rcv.rmem_alloc = s.half[Other(from)].rmem_alloc
  BY <1>1 DEF HalfStream, HalfState
<1>4. c \in TcpStream /\ c.addr = s.addr
  BY DEF TcpStream
<1>5. Establish(s, from) = SetHalves(c, from, snd, rcv)
  BY DEF Establish
<1> HIDE DEF c, snd, rcv
<1>6. /\ SetHalves(c, from, snd, rcv) \in TcpStream
      /\ SetHalves(c, from, snd, rcv).addr = c.addr
      /\ SetHalves(c, from, snd, rcv).half[from] = snd
      /\ SetHalves(c, from, snd, rcv).half[Other(from)] = rcv
  BY <1>2, <1>3, <1>4, SetHalvesType
<1> QED
  BY <1>1, <1>2, <1>3, <1>4, <1>5, <1>6 DEF Onward

\* Going onward twice is going onward.
LEMMA OnwardTwice ==
    ASSUME NEW s, NEW t, NEW u, Onward(s, t), Onward(t, u)
    PROVE  Onward(s, u)
BY DEF Onward

\* The third handshake and any other acknowledged segment.
LEMMA AckActionsKeep ==
    ASSUME IInv, NEW a \in Ptr, NEW from \in Side,
           ThirdHandshake(a, from) \/ AckSegment(a, from)
    PROVE  Kept /\ Lighter(a)
<1> DEFINE old == tcphashmap_[a]
<1>1. a \in Live
  BY FindStreamLive DEF ThirdHandshake, AckSegment, InWindow, Segment
<1>2. pkt \in Packet /\ pc = "segment"
  BY PktType DEF IInv, ThirdHandshake, AckSegment, InWindow, Segment
<1>3. old \in TcpStream /\ old.addr \in Addr
  BY <1>1, LiveType DEF IInv, TypeOK, TablesType, TcpStream
<1>4. old.isconnnection => \A side \in Side :
          old.half[side].state \in FinSeen \cup {"ESTABLISHED"}
  BY <1>1 DEF IInv, TablesInv, ConnectedIsEstablished
<1>5. /\ pc' \in {"queue", "finish"}
      /\ UNCHANGED <<pkt, now, tcpTimeoutSet_, finTimeoutSet_>>
  BY DEF ThirdHandshake, AckSegment, Proceed
<1>6. callbacks' \in Callbacks
  BY <1>3, CallbacksType DEF ThirdHandshake, AckSegment
<1>7. ControlType'
  BY <1>2, <1>5, <1>6, GoOnType DEF IInv
<1>8. \E s \in TcpStream :
          /\ Onward(old, s)
          /\ \A side \in Side : s.half[side].rmem_alloc = old.half[side].rmem_alloc
          /\ tcphashmap_' = [tcphashmap_ EXCEPT ![a] = s]
  <2>1. CASE ThirdHandshake(a, from)
    <3> DEFINE mid == Establish(old, from)
               new == Acknowledge(mid, from)
    <3>1. \A side \in Side : old.half[side].state \notin FinSeen
      BY <2>1 DEF ThirdHandshake, IsThirdHandshake, Side, FinSeen
    <3>2. /\ mid \in TcpStream /\ Onward(old, mid)
          /\ \A side \in Side : mid.half[side].rmem_alloc = old.half[side].rmem_alloc
      BY <1>2, <1>3, <3>1, EstablishOnward
    <3> HIDE DEF mid, old
    <3>3. /\ new \in TcpStream
          /\ \A side \in Side : new.half[side].rmem_alloc = mid.half[side].rmem_alloc
      BY <1>2, <3>2, AcknowledgeType
    <3>4. mid.isconnnection => \A side \in Side :
              mid.half[side].state \in FinSeen \cup {"ESTABLISHED"}
      BY <3>2 DEF Onward
    <3>5. Onward(mid, new)
      BY <1>2, <3>2, <3>4, AcknowledgeOnward
    <3>6. Onward(old, new)
      BY <3>2, <3>5, OnwardTwice
    <3>7. tcphashmap_' = [tcphashmap_ EXCEPT ![a] = new]
      BY <2>1 DEF ThirdHandshake, mid, old
    <3> QED
      BY <3>2, <3>3, <3>6, <3>7
  <2>2. CASE AckSegment(a, from)
    <3> DEFINE new == IF pkt.ack THEN Acknowledge(old, from) ELSE old
    <3>1. /\ Acknowledge(old, from) \in TcpStream
          /\ Onward(old, Acknowledge(old, from))
          /\ \A side \in Side : Acknowledge(old, from).half[side].rmem_alloc =
                                   old.half[side].rmem_alloc
      <4> HIDE DEF old
      <4> QED
        BY <1>2, <1>3, <1>4, AcknowledgeType, AcknowledgeOnward
    <3>2. /\ new \in TcpStream /\ Onward(old, new)
          /\ \A side \in Side : new.half[side].rmem_alloc = old.half[side].rmem_alloc
      <4>1. Onward(old, old)
        BY <1>4 DEF Onward
      <4> QED
        BY <4>1, <1>3, <3>1
    <3>3. tcphashmap_' = [tcphashmap_ EXCEPT ![a] = new]
      BY <2>2 DEF AckSegment
    <3> QED
      BY <3>2, <3>3
  <2> QED
    BY <2>1, <2>2
<1>9. Lighter(a)
  <2>1. \A side \in Side : old.half[side].rmem_alloc \in Int
    BY <1>3 DEF TcpStream, HalfStream
  <2>2. PICK s \in TcpStream :
            /\ \A side \in Side : s.half[side].rmem_alloc = old.half[side].rmem_alloc
            /\ tcphashmap_' = [tcphashmap_ EXCEPT ![a] = s]
    BY <1>8
  <2>3. \A side \in Side : s.half[side].rmem_alloc <= old.half[side].rmem_alloc
    BY <2>1, <2>2
  <2> QED
    BY <2>2, <2>3, LighterType DEF IInv, TypeOK, TablesType
<1> QED
  BY <1>1, <1>5, <1>7, <1>8, <1>9, OnwardKeeps DEF Kept

\* addFromskb advances a stream and holds nothing more for it.
LEMMA AddFromskbKeeps ==
    ASSUME IInv, NEW a \in Live, NEW from \in Side, NEW f \in Skbuff,
           NEW rcv \in HalfStream,
           rcv.state = tcphashmap_[a].half[Other(from)].state,
           rcv.rmem_alloc <= tcphashmap_[a].half[Other(from)].rmem_alloc,
           AddFromskb(a, from, f, rcv)
    PROVE  callbacks' \in Callbacks /\ (\E s : Advances(a, s)) /\ Lighter(a)
<1>1. callbacks' \in Callbacks
  BY AddFromskbAdvances
<1>2. PICK s : /\ Advances(a, s)
               /\ s.half[from].rmem_alloc = tcphashmap_[a].half[from].rmem_alloc
               /\ s.half[Other(from)].rmem_alloc = rcv.rmem_alloc
  BY AddFromskbAdvances
<1>3. TablesType /\ a \in Ptr
  BY DEF IInv, TypeOK, TablesType, Live
<1>4. tcphashmap_[a].half[from].rmem_alloc \in Int /\ Side = {from, Other(from)}
  BY <1>3, LiveType, HalvesType DEF HalfStream
<1>5. \A side \in Side :
          s.half[side].rmem_alloc <= tcphashmap_[a].half[side].rmem_alloc
  BY <1>2, <1>4
<1>6. Lighter(a)
  BY <1>2, <1>3, <1>5, LighterType DEF Advances
<1> QED
  BY <1>1, <1>2, <1>6

\* A segment in order goes through it.
LEMMA QueueInOrderKeeps ==
    ASSUME IInv, NEW a \in Ptr, NEW from \in Side, QueueInOrder(a, from)
    PROVE  Kept /\ Lighter(a)
<1> DEFINE rcv == tcphashmap_[a].half[Other(from)]
<1>1. a \in Live
  BY FindStreamLive DEF QueueInOrder
<1>2. SegmentSkb \in Skbuff
  BY PktType, SegmentSkbType DEF IInv, QueueInOrder
<1>3. rcv \in HalfStream
  BY <1>1, LiveType, OtherType DEF IInv, TypeOK, TablesType
<1>4. AddFromskb(a, from, SegmentSkb, rcv)
  BY DEF QueueInOrder
<1>5. callbacks' \in Callbacks /\ (\E s : Advances(a, s)) /\ Lighter(a)
  <2>1. rcv.state = tcphashmap_[a].half[Other(from)].state
    OBVIOUS
  <2>2. rcv.rmem_alloc <= tcphashmap_[a].half[Other(from)].rmem_alloc
    BY <1>3 DEF HalfStream
  <2> HIDE DEF rcv
  <2> QED
    BY <1>1, <1>2, <1>3, <1>4, <2>1, <2>2, AddFromskbKeeps
<1>6. ControlType' /\ now' = now
  BY <1>5, GoOnType DEF IInv, QueueInOrder
<1> QED
  BY <1>1, <1>5, <1>6, AdvancesKeeps DEF Kept

\* A segment ahead of EXP_SEQ is held, and its FIN is noted.
LEMMA QueueOutOfOrderKeeps ==
    ASSUME IInv, NEW a \in Ptr, NEW from \in Side, QueueOutOfOrder(a, from)
    PROVE  Kept
<1> DEFINE old == tcphashmap_[a]
           rcv == old.half[Other(from)]
           snd == SendFin(old.half[from], pkt.fin, "CLOSING")
<1>1. a \in Live
  BY FindStreamLive DEF QueueOutOfOrder
<1>2. SegmentSkb \in Skbuff
  BY PktType, SegmentSkbType DEF IInv, QueueOutOfOrder
<1>3. /\ old \in TcpStream
      /\ old.half[from] \in HalfStream /\ rcv \in HalfStream
      /\ Side = {from, Other(from)}
  BY <1>1, LiveType, HalvesType DEF IInv, TypeOK, TablesType
<1>4. PICK k \in 0 .. Len(rcv.fraglist) :
          tcphashmap_' = [tcphashmap_ EXCEPT
              ![a] = SetHalves(old, from, snd, HoldFragment(rcv, k, SegmentSkb))]
  BY DEF QueueOutOfOrder
<1> DEFINE r == HoldFragment(rcv, k, SegmentSkb)
           s == SetHalves(old, from, snd, r)
<1> HIDE DEF rcv
<1>5. r \in HalfStream /\ r.state = rcv.state
  BY <1>2, <1>3, <1>4, HoldFragmentType
<1>6. /\ snd \in HalfStream
      /\ snd.state = IF pkt.fin = 1 THEN "CLOSING" ELSE old.half[from].state
  BY <1>3, SendFinType DEF HalfState
<1> HIDE DEF r, snd
<1>7. /\ s \in TcpStream /\ s.addr = old.addr
      /\ s.isconnnection = old.isconnnection
      /\ s.half[from] = snd /\ s.half[Other(from)] = r
  <2> HIDE DEF old
  <2> QED
    BY <1>3, <1>5, <1>6, SetHalvesType
<1> HIDE DEF s
<1>8. Onward(old, s)
  <2>1. old.isconnnection => \A side \in Side :
            old.half[side].state \in FinSeen \cup {"ESTABLISHED"}
    BY <1>1 DEF IInv, TablesInv, ConnectedIsEstablished
  <2>2. snd.state = old.half[from].state \/ snd.state \in FinSeen
    BY <1>6 DEF FinSeen
  <2>3. r.state = old.half[Other(from)].state
    BY <1>5 DEF rcv
  <2> QED
    BY <1>3, <1>7, <2>1, <2>2, <2>3 DEF Onward
<1>9. \/ finTimeoutSet_' = finTimeoutSet_
      \/ /\ finTimeoutSet_' \subseteq
               finTimeoutSet_ \cup {[a_tcp |-> a, time |-> now + FinTimeout]}
         /\ \A side \in Side : s.half[side].state \in FinSeen
  <2>1. finTimeoutSet_' =
            ClosingTimer(a, pkt.fin, rcv.state, {"FIN_SENT", "FIN_CONFIRMED"})
    BY DEF QueueOutOfOrder, rcv
  <2>2. CASE pkt.fin = 1 /\ rcv.state \in {"FIN_SENT", "FIN_CONFIRMED"}
    <3>1. snd.state \in FinSeen /\ r.state \in FinSeen
      BY <2>2, <1>5, <1>6 DEF FinSeen
    <3>2. \A side \in Side : s.half[side].state \in FinSeen
      BY <3>1, <1>3, <1>7
    <3> QED
      BY <2>1, <3>2 DEF ClosingTimer, AddFintimeout, Insert
  <2>3. CASE ~(pkt.fin = 1 /\ rcv.state \in {"FIN_SENT", "FIN_CONFIRMED"})
    BY <2>1, <2>3 DEF ClosingTimer
  <2> QED
    BY <2>2, <2>3
<1>10. Advances(a, s)
  BY <1>4, <1>7, <1>8, <1>9 DEF Advances, QueueOutOfOrder, r, s
<1>11. ControlType' /\ now' = now
  BY CallbacksType, GoOnType DEF IInv, QueueOutOfOrder
<1> QED
  BY <1>1, <1>10, <1>11, AdvancesKeeps DEF Kept

\* A fragment that no longer lies ahead is used, or dropped as old.
LEMMA DrainFragmentKeeps ==
    ASSUME IInv, NEW a \in Ptr, NEW from \in Side, DrainFragment(a, from)
    PROVE  Kept /\ Lighter(a)
<1> DEFINE old == tcphashmap_[a]
           rcv == old.half[Other(from)]
           f   == Head(rcv.fraglist)
           exp == ExpSeq(old, from)
<1>1. a \in Live
  BY FindStreamLive DEF DrainFragment
<1>2. /\ old \in TcpStream
      /\ old.half[from] \in HalfStream /\ rcv \in HalfStream
      /\ Side = {from, Other(from)}
  BY <1>1, LiveType, HalvesType DEF IInv, TypeOK, TablesType
<1>3. rcv.fraglist # <<>>
  BY DEF DrainFragment
<1>4. /\ f \in Skbuff /\ DropFirst(rcv) \in HalfStream
      /\ DropFirst(rcv).state = rcv.state
      /\ DropFirst(rcv).rmem_alloc <= rcv.rmem_alloc
  <2> HIDE DEF rcv
  <2> QED
    BY <1>2, <1>3, DropFirstType
<1>5. pc = "drain" /\ UNCHANGED <<pc, pkt, now>>
  BY DEF DrainFragment
<1>6. CASE EndsAfter(f, exp)
  <2>1. AddFromskb(a, from, f, DropFirst(rcv))
    BY <1>6 DEF DrainFragment
  <2>2. /\ DropFirst(rcv).state = tcphashmap_[a].half[Other(from)].state
        /\ DropFirst(rcv).rmem_alloc <= tcphashmap_[a].half[Other(from)].rmem_alloc
    BY <1>4
  <2> HIDE DEF rcv, f
  <2>3. callbacks' \in Callbacks /\ (\E s : Advances(a, s)) /\ Lighter(a)
    BY <1>1, <1>4, <2>1, <2>2, AddFromskbKeeps
  <2>4. ControlType'
    BY <1>5, <2>3, GoOnType DEF IInv
  <2> QED
    BY <1>1, <1>5, <2>3, <2>4, AdvancesKeeps DEF Kept
<1>7. CASE ~EndsAfter(f, exp)
  <2> DEFINE s == SetHalves(old, from, old.half[from], DropFirst(rcv))
  <2>1. /\ tcphashmap_' = [tcphashmap_ EXCEPT ![a] = s]
        /\ callbacks' = NoCallbacks
        /\ UNCHANGED <<tcpTimeoutSet_, finTimeoutSet_>>
    BY <1>7 DEF DrainFragment
  <2>2. ControlType'
    BY <1>5, <2>1, CallbacksType, GoOnType DEF IInv
  <2>3. /\ s \in TcpStream /\ s.addr = old.addr
        /\ s.isconnnection = old.isconnnection
        /\ s.half[from] = old.half[from] /\ s.half[Other(from)] = DropFirst(rcv)
    <3> DEFINE snd == old.half[from]
               r   == DropFirst(rcv)
    <3>1. snd \in HalfStream /\ r \in HalfStream
      BY <1>2, <1>4
    <3> HIDE DEF old, snd, r
    <3>2. LET t == SetHalves(old, from, snd, r)
          IN  /\ t \in TcpStream /\ t.addr = old.addr
              /\ t.isconnnection = old.isconnnection
              /\ t.half[from] = snd /\ t.half[Other(from)] = r
      BY <1>2, <3>1, SetHalvesType
    <3> QED
      BY <3>2 DEF snd, r
  <2>4. old.isconnnection => \A side \in Side :
            old.half[side].state \in FinSeen \cup {"ESTABLISHED"}
    BY <1>1 DEF IInv, TablesInv, ConnectedIsEstablished
  <2> HIDE DEF s
  <2>5. Onward(old, s)
    BY <1>2, <1>4, <2>3, <2>4 DEF Onward
  <2>6. Lighter(a)
    <3>1. old.half[from].rmem_alloc \in Int
      BY <1>2 DEF HalfStream
    <3>2. \A side \in Side : s.half[side].rmem_alloc <= old.half[side].rmem_alloc
      BY <3>1, <1>2, <1>4, <2>3
    <3> QED
      BY <2>1, <3>2, LighterType DEF IInv, TypeOK, TablesType
  <2> QED
    BY <1>1, <1>5, <2>1, <2>2, <2>3, <2>5, <2>6, OnwardKeeps DEF Kept
<1> QED
  BY <1>6, <1>7

\* The call ends with the sender's window noted or the stream given up.
LEMMA FinishKeeps ==
    ASSUME IInv, NEW a \in Ptr, NEW from \in Side, Finish(a, from)
    PROVE  Kept
<1> DEFINE old == tcphashmap_[a]
           snd == [old.half[from] EXCEPT !.window = pkt.win]
           s   == SetHalves(old, from, snd, old.half[Other(from)])
<1>1. a \in Live
  BY FindStreamLive DEF Finish
<1>2. pkt \in Packet
  BY PktType DEF IInv, Finish
<1>3. callbacks' \in Callbacks /\ Return
  BY CallbacksType DEF Finish
<1>4. CASE HoldsTooMuch(old, from)
  BY <1>1, <1>3, <1>4, FreeTcpstreamKeeps DEF Finish
<1>5. CASE ~HoldsTooMuch(old, from)
  <2>1. /\ tcphashmap_' = [tcphashmap_ EXCEPT ![a] = s]
        /\ UNCHANGED <<tcpTimeoutSet_, finTimeoutSet_>>
    BY <1>5 DEF Finish
  <2>2. /\ old \in TcpStream
        /\ old.half[from] \in HalfStream /\ old.half[Other(from)] \in HalfStream
        /\ Side = {from, Other(from)}
    BY <1>1, LiveType, HalvesType DEF IInv, TypeOK, TablesType
  <2>3. snd \in HalfStream /\ snd.state = old.half[from].state
    <3> HIDE DEF old
    <3> QED
      BY <1>2, <2>2 DEF HalfStream, Packet
  <2> HIDE DEF snd
  <2>4. /\ s \in TcpStream /\ s.addr = old.addr
        /\ s.isconnnection = old.isconnnection
        /\ s.half[from] = snd /\ s.half[Other(from)] = old.half[Other(from)]
    <3> DEFINE rcv == old.half[Other(from)]
    <3>1. rcv \in HalfStream
      BY <2>2
    <3> HIDE DEF old, rcv
    <3>2. LET t == SetHalves(old, from, snd, rcv)
          IN  /\ t \in TcpStream /\ t.addr = old.addr
              /\ t.isconnnection = old.isconnnection
              /\ t.half[from] = snd /\ t.half[Other(from)] = rcv
      BY <2>2, <2>3, <3>1, SetHalvesType
    <3> QED
      BY <3>2 DEF rcv
  <2>5. old.isconnnection => \A side \in Side :
            old.half[side].state \in FinSeen \cup {"ESTABLISHED"}
    BY <1>1 DEF IInv, TablesInv, ConnectedIsEstablished
  <2> HIDE DEF s
  <2>6. Onward(old, s)
    BY <2>2, <2>3, <2>4, <2>5 DEF Onward
  <2>7. ControlType' /\ now' = now
    BY <1>3, ReturnType DEF IInv
  <2> QED
    BY <1>1, <2>1, <2>4, <2>6, <2>7, OnwardKeeps DEF Kept
<1> QED
  BY <1>4, <1>5

----------------------------------------------------------------------------
(***************************************************************************)
(* The theorems.                                                           *)
(***************************************************************************)

\* The empty tables of tcpInit satisfy the invariant.
LEMMA InitIInv == Init => IInv
BY CallbacksType, TcpAssumption
   DEF Init, IInv, TypeOK, TablesInv, NoDanglingTimeout, UniqueFlow, TimersAhead,
       FinTimerAfterFins, ConnectedIsEstablished, Live

\* Every step of the program keeps it.
LEMMA NextIInv == IInv /\ [Next]_vars => IInv'
<1> SUFFICES ASSUME IInv, [Next]_vars PROVE IInv'
  OBVIOUS
<1>1. CASE Receive
  BY <1>1, CheckTimeoutsKeeps, KeptIInv DEF Receive
<1>2. CASE Ignore
  <2>1. pkt \in Packet
    BY <1>2, PktType DEF IInv, Ignore
  <2>2. callbacks' = NoCallbacks /\ UNCHANGED <<tables, now>> /\ Return
    BY <1>2 DEF Ignore, Return
  <2>3. ControlType'
    BY <2>2, CallbacksType, ReturnType DEF IInv
  <2> QED
    BY <2>2, <2>3, QuietKeeps, KeptIInv DEF Kept
<1>3. CASE \E a \in Ptr, gc, gs \in Garbage : AddNewtcp(a, gc, gs)
  BY <1>3, AddNewtcpKeeps, KeptIInv
<1>4. ASSUME NEW a \in Ptr, NEW from \in Side,
             \/ \E b \in Ptr, gc, gs \in Garbage : RestartStream(a, from, b, gc, gs)
             \/ SecondHandshake(a, from)
             \/ DropSegment(a, from)
             \/ ResetStream(a, from)
             \/ ThirdHandshake(a, from)
             \/ CloseStream(a, from)
             \/ AckSegment(a, from)
             \/ QueueInOrder(a, from)
             \/ QueueOld(a, from)
             \/ QueueOutOfOrder(a, from)
             \/ DrainFragment(a, from)
             \/ DrainEnd(a, from)
             \/ Finish(a, from)
      PROVE  IInv'
  <2>1. CASE \E b \in Ptr, gc, gs \in Garbage : RestartStream(a, from, b, gc, gs)
    BY <2>1, RestartStreamKeeps, KeptIInv
  <2>2. CASE SecondHandshake(a, from)
    BY <2>2, SecondHandshakeKeeps, KeptIInv
  <2>3. CASE DropSegment(a, from) \/ QueueOld(a, from) \/ DrainEnd(a, from)
    BY <2>3, QuietActionsKeep, KeptIInv
  <2>4. CASE ResetStream(a, from) \/ CloseStream(a, from)
    BY <2>4, EndActionsKeep, KeptIInv
  <2>5. CASE ThirdHandshake(a, from) \/ AckSegment(a, from)
    BY <2>5, AckActionsKeep, KeptIInv
  <2>6. CASE QueueInOrder(a, from)
    BY <2>6, QueueInOrderKeeps, KeptIInv
  <2>7. CASE QueueOutOfOrder(a, from)
    BY <2>7, QueueOutOfOrderKeeps, KeptIInv
  <2>8. CASE DrainFragment(a, from)
    BY <2>8, DrainFragmentKeeps, KeptIInv
  <2>9. CASE Finish(a, from)
    BY <2>9, FinishKeeps, KeptIInv
  <2> QED
    BY <1>4, <2>1, <2>2, <2>3, <2>4, <2>5, <2>6, <2>7, <2>8, <2>9
<1>5. CASE UNCHANGED vars
  BY <1>5 DEF vars, IInv, TypeOK, TablesInv, NoDanglingTimeout, UniqueFlow,
              TimersAhead, FinTimerAfterFins, ConnectedIsEstablished, Live
<1> QED
  BY <1>1, <1>2, <1>3, <1>4, <1>5 DEF Next, Process

\* The inductive invariant holds of every behaviour.
THEOREM Invariance == Spec => []IInv
BY InitIInv, NextIInv, PTL DEF Spec

\* Every variable keeps its type: what processTcp stores is well-formed, the
\* wrap of the first sequence number included.
THEOREM TypeCorrect == Spec => []TypeOK
<1>1. IInv => TypeOK
  BY DEF IInv
<1> QED
  BY <1>1, Invariance, PTL

\* No timer names a freed stream (freeTcpstream, clearAllStream).
THEOREM NoDanglingTimeoutHolds == Spec => []NoDanglingTimeout
<1>1. IInv => NoDanglingTimeout
  BY DEF IInv, TablesInv
<1> QED
  BY <1>1, Invariance, PTL

\* At most one stream of a flow is in the table (findStream before addNewtcp).
THEOREM UniqueFlowHolds == Spec => []UniqueFlow
<1>1. IInv => UniqueFlow
  BY DEF IInv, TablesInv
<1> QED
  BY <1>1, Invariance, PTL

\* tcpChecktimeouts leaves no timer that is due.
THEOREM TimersAheadHolds == Spec => []TimersAhead
<1>1. IInv => TimersAhead
  BY DEF IInv, TablesInv
<1> QED
  BY <1>1, Invariance, PTL

\* The closing timer is only for streams that both sides are closing.
THEOREM FinTimerAfterFinsHolds == Spec => []FinTimerAfterFins
<1>1. IInv => FinTimerAfterFins
  BY DEF IInv, TablesInv
<1> QED
  BY <1>1, Invariance, PTL

\* A reported connection is past its handshake for good.
THEOREM ConnectedIsEstablishedHolds == Spec => []ConnectedIsEstablished
<1>1. IInv => ConnectedIsEstablished
  BY DEF IInv, TablesInv
<1> QED
  BY <1>1, Invariance, PTL

----------------------------------------------------------------------------
(***************************************************************************)
(* The memory bound.  A direction may exceed RmemMax inside a call only,   *)
(* from the segment that was held to the check at the end; the check finds *)
(* it, because the stream and the side it looks up are still the same.     *)
(***************************************************************************)
MemoryInv ==
    \A a \in Live : \A side \in Side :
        \/ tcphashmap_[a].half[Other(side)].rmem_alloc <= RmemMax
        \/ pc = "finish" /\ FindStream(a, side)

\* No direction of any stream holds too much.
Within ==
    \A a \in Live : \A side \in Side :
        tcphashmap_[a].half[side].rmem_alloc <= RmemMax

LEMMA OtherTwice ==
    ASSUME NEW side \in Side
    PROVE  Other(side) \in Side /\ Other(Other(side)) = side
BY DEF Side, Other

\* Away from the end of a call, no direction does.
LEMMA MemoryInvWithin ==
    ASSUME MemoryInv, pc # "finish"
    PROVE  Within
BY OtherTwice DEF MemoryInv, Within

LEMMA WithinMemoryInv ==
    ASSUME Within'
    PROVE  MemoryInv'
BY OtherTwice DEF MemoryInv, Within

\* The lookup has one answer: one stream, and one side that sends.
LEMMA FindStreamUnique ==
    ASSUME IInv, pkt \in Packet,
           NEW a \in Ptr, NEW b \in Ptr, NEW from \in Side, NEW side \in Side,
           FindStream(a, from), FindStream(b, side)
    PROVE  a = b /\ from = side
<1>1. a \in Live /\ b \in Live
  BY FindStreamLive
<1>2. from = side /\ tcphashmap_[a].addr = tcphashmap_[b].addr
  BY DEF FindStream, FindStreamAux
<1> QED
  BY <1>1, <1>2 DEF IInv, TablesInv, UniqueFlow

\* A step of a lighter stream leaves all within the bound.
LEMMA LighterWithin ==
    ASSUME IInv, IInv', Within, NEW a \in Live, Lighter(a)
    PROVE  Within'
<1> SUFFICES ASSUME NEW b \in Live', NEW side \in Side
             PROVE  tcphashmap_'[b].half[side].rmem_alloc <= RmemMax
  BY DEF Within
<1>1. b \in Ptr
  BY DEF Live
<1>2. CASE b # a
  BY <1>1, <1>2 DEF Lighter, Live, Within
<1>3. CASE b = a
  <2>1. /\ tcphashmap_'[a].half[side].rmem_alloc \in Int
        /\ tcphashmap_[a].half[side].rmem_alloc \in Int
    <3>1. tcphashmap_[a] \in TcpStream /\ tcphashmap_'[a] \in TcpStream
      BY <1>3 DEF IInv, TypeOK, Live
    <3> QED
      BY <3>1 DEF TcpStream, HalfStream
  <2>2. /\ tcphashmap_'[a].half[side].rmem_alloc <= tcphashmap_[a].half[side].rmem_alloc
        /\ tcphashmap_[a].half[side].rmem_alloc <= RmemMax
    BY DEF Lighter, Within
  <2> QED
    BY <1>3, <2>1, <2>2, TcpAssumption
<1> QED
  BY <1>2, <1>3

\* So does a step that only frees streams.
LEMMA FreesWithin ==
    ASSUME Within, NEW S, Frees(S)
    PROVE  Within'
BY DEF Within, Frees, Live

\* A new stream holds nothing.
LEMMA NewTcpHoldsNothing ==
    ASSUME NEW gc, NEW gs, NEW side \in Side
    PROVE  NewTcp(gc, gs).half[side].rmem_alloc = 0
BY DEF NewTcp, NewHalf, Side

\* And one that begins a stream.
LEMMA BeginActionsWithin ==
    ASSUME IInv, Within, NEW a \in Ptr, NEW gc \in Garbage, NEW gs \in Garbage,
           \/ AddNewtcp(a, gc, gs)
           \/ \E b \in Ptr, from \in Side : RestartStream(b, from, a, gc, gs)
    PROVE  Within'
<1> DEFINE s == NewTcp(gc, gs)
<1>1. \A c \in Ptr : tcphashmap_'[c] \in {s, Null, tcphashmap_[c]}
  BY DEF IInv, TypeOK, AddNewtcp, RestartStream
<1> SUFFICES ASSUME NEW c \in Live', NEW side \in Side
             PROVE  tcphashmap_'[c].half[side].rmem_alloc <= RmemMax
  BY DEF Within
<1>2. c \in Ptr /\ tcphashmap_'[c] # Null
  BY DEF Live
<1>3. CASE tcphashmap_'[c] = s
  BY <1>3, NewTcpHoldsNothing, TcpAssumption
<1>4. CASE tcphashmap_'[c] = tcphashmap_[c]
  BY <1>2, <1>4 DEF Within, Live
<1> QED
  BY <1>1, <1>2, <1>3, <1>4

\* A segment held out of order may exceed the bound, at the side that receives.
LEMMA QueueOutOfOrderMemory ==
    ASSUME IInv, IInv', Within, NEW a \in Ptr, NEW from \in Side, QueueOutOfOrder(a, from)
    PROVE  MemoryInv'
<1> DEFINE old == tcphashmap_[a]
           rcv == old.half[Other(from)]
           snd == SendFin(old.half[from], pkt.fin, "CLOSING")
<1>1. a \in Live
  BY FindStreamLive DEF QueueOutOfOrder
<1>2. SegmentSkb \in Skbuff
  BY PktType, SegmentSkbType DEF IInv, QueueOutOfOrder
<1>3. /\ old \in TcpStream
      /\ old.half[from] \in HalfStream /\ rcv \in HalfStream
      /\ Side = {from, Other(from)}
  BY <1>1, LiveType, HalvesType DEF IInv, TypeOK, TablesType
<1>4. PICK k \in 0 .. Len(rcv.fraglist) :
          tcphashmap_' = [tcphashmap_ EXCEPT
              ![a] = SetHalves(old, from, snd, HoldFragment(rcv, k, SegmentSkb))]
  BY DEF QueueOutOfOrder
<1> DEFINE r == HoldFragment(rcv, k, SegmentSkb)
           s == SetHalves(old, from, snd, r)
<1>5. r \in HalfStream
  <2> HIDE DEF rcv
  <2> QED
    BY <1>2, <1>3, <1>4, HoldFragmentType
<1>6. snd \in HalfStream /\ snd.rmem_alloc = old.half[from].rmem_alloc
  BY <1>3, SendFinType DEF HalfState
<1> HIDE DEF r, snd
<1>7. s \in TcpStream /\ s.addr = old.addr /\ s.half[from] = snd
  <2> HIDE DEF old
  <2>1. old \in TcpStream /\ snd \in HalfStream /\ r \in HalfStream
    BY <1>3, <1>5, <1>6
  <2> QED
    BY <2>1, SetHalvesType
<1> HIDE DEF s
<1>8. tcphashmap_'[a] = s /\ \A b \in Ptr \ {a} : tcphashmap_'[b] = tcphashmap_[b]
  BY <1>4 DEF r, s, snd, IInv, TypeOK
<1>9. Live' = Live /\ \A b \in Live : tcphashmap_'[b].addr = tcphashmap_[b].addr
  BY <1>1, <1>7, <1>8, TcpAssumption DEF Live
<1>10. pc' = "finish" /\ FindStream(a, from)'
  <2>1. \A addr : FindStreamAux(addr)' = FindStreamAux(addr)
    BY <1>9 DEF FindStreamAux
  <2>2. FindStream(a, from) /\ pkt' = pkt /\ pc' = "finish"
    BY DEF QueueOutOfOrder
  <2> QED
    BY <2>1, <2>2 DEF FindStream
<1> SUFFICES ASSUME NEW b \in Live', NEW side \in Side
             PROVE  \/ tcphashmap_'[b].half[Other(side)].rmem_alloc <= RmemMax
                    \/ pc' = "finish" /\ FindStream(b, side)'
  BY DEF MemoryInv
<1>11. CASE b # a
  BY <1>8, <1>9, <1>11, OtherTwice DEF Within, Live
<1>12. CASE b = a /\ side # from
  <2>1. Other(side) = from
    BY <1>12 DEF Side, Other
  <2>2. old.half[from].rmem_alloc <= RmemMax
    BY <1>1 DEF Within
  <2> QED
    BY <1>6, <1>7, <1>8, <1>12, <2>1, <2>2
<1>13. CASE b = a /\ side = from
  BY <1>10, <1>13
<1> QED
  BY <1>11, <1>12, <1>13

\* The check at the end finds the one direction that may exceed the bound.
LEMMA FinishMemory ==
    ASSUME IInv, IInv', MemoryInv, NEW a \in Ptr, NEW from \in Side, Finish(a, from)
    PROVE  Within'
<1> DEFINE old == tcphashmap_[a]
           snd == [old.half[from] EXCEPT !.window = pkt.win]
           s   == SetHalves(old, from, snd, old.half[Other(from)])
<1>1. a \in Live /\ pkt \in Packet /\ FindStream(a, from)
  BY FindStreamLive, PktType DEF Finish, IInv
<1>2. \A b \in Live : \A side \in Side :
          \/ tcphashmap_[b].half[Other(side)].rmem_alloc <= RmemMax
          \/ b = a /\ side = from
  BY <1>1, FindStreamUnique DEF MemoryInv, Live
<1>3. \A b \in Live \ {a} : \A side \in Side :
          tcphashmap_[b].half[side].rmem_alloc <= RmemMax
  BY <1>2, OtherTwice
<1>4. CASE HoldsTooMuch(old, from)
  <2>1. FreeTcpstream(a)
    BY <1>4 DEF Finish
  <2> QED
    BY <2>1, <1>3 DEF Within, FreeTcpstream, Live, IInv, TypeOK
<1>5. CASE ~HoldsTooMuch(old, from)
  <2>1. tcphashmap_' = [tcphashmap_ EXCEPT ![a] = s]
    BY <1>5 DEF Finish
  <2>2. /\ old \in TcpStream
        /\ old.half[from] \in HalfStream /\ old.half[Other(from)] \in HalfStream
        /\ Side = {from, Other(from)}
    BY <1>1, LiveType, HalvesType DEF IInv, TypeOK, TablesType
  <2>3. snd \in HalfStream /\ snd.rmem_alloc = old.half[from].rmem_alloc
    <3> HIDE DEF old
    <3> QED
      BY <1>1, <2>2 DEF HalfStream, Packet
  <2>4. old.half[Other(from)].rmem_alloc <= RmemMax
    <3>1. old.half[Other(from)].rmem_alloc \in Int
      BY <2>2 DEF HalfStream
    <3> QED
      BY <1>5, <3>1, TcpAssumption DEF HoldsTooMuch
  <2>5. old.half[from].rmem_alloc <= RmemMax
    <3>1. Other(from) \in Side /\ Other(from) # from /\ Other(Other(from)) = from
      BY OtherType, OtherTwice
    <3> QED
      BY <1>1, <1>2, <3>1
  <2> HIDE DEF snd
  <2>6. s.half[from] = snd /\ s.half[Other(from)] = old.half[Other(from)]
    <3> DEFINE rcv == old.half[Other(from)]
    <3>1. old \in TcpStream /\ snd \in HalfStream /\ rcv \in HalfStream
      BY <2>2, <2>3
    <3> HIDE DEF old, rcv
    <3>2. /\ SetHalves(old, from, snd, rcv).half[from] = snd
          /\ SetHalves(old, from, snd, rcv).half[Other(from)] = rcv
      BY <3>1, SetHalvesType
    <3> QED
      BY <3>2 DEF rcv
  <2> HIDE DEF s
  <2>7. \A side \in Side : s.half[side].rmem_alloc <= RmemMax
    BY <2>2, <2>3, <2>4, <2>5, <2>6
  <2>8. \A b \in Live' : b \in Live \/ b = a
    BY <2>1 DEF Live, IInv, TypeOK
  <2> QED
    BY <2>1, <2>7, <2>8, <1>3 DEF Within, Live, IInv, TypeOK
<1> QED
  BY <1>4, <1>5

\* Every step keeps the memory within its bounds.
LEMMA NextMemoryInv == IInv /\ MemoryInv /\ [Next]_vars => MemoryInv'
<1> SUFFICES ASSUME IInv, MemoryInv, [Next]_vars PROVE MemoryInv'
  OBVIOUS
<1>1. IInv'
  BY NextIInv
<1>2. CASE Receive
  <2>1. Within
    BY <1>2, MemoryInvWithin DEF Receive, CheckTimeouts
  <2>2. \E S : Frees(S)
    BY <1>2 DEF Receive, CheckTimeouts, Frees
  <2> QED
    BY <2>1, <2>2, FreesWithin, WithinMemoryInv
<1>3. CASE Ignore
  <2>1. Within /\ tcphashmap_' = tcphashmap_
    BY <1>3, MemoryInvWithin DEF Ignore, tables
  <2>2. Within'
    BY <2>1 DEF Within, Live
  <2> QED
    BY <2>2, WithinMemoryInv
<1>4. CASE \E a \in Ptr, gc, gs \in Garbage : AddNewtcp(a, gc, gs)
  <2>1. Within
    BY <1>4, MemoryInvWithin DEF AddNewtcp
  <2> QED
    BY <1>4, <2>1, BeginActionsWithin, WithinMemoryInv
<1>5. ASSUME NEW a \in Ptr, NEW from \in Side,
             \/ \E b \in Ptr, gc, gs \in Garbage : RestartStream(a, from, b, gc, gs)
             \/ SecondHandshake(a, from)
             \/ DropSegment(a, from)
             \/ ResetStream(a, from)
             \/ ThirdHandshake(a, from)
             \/ CloseStream(a, from)
             \/ AckSegment(a, from)
             \/ QueueInOrder(a, from)
             \/ QueueOld(a, from)
             \/ QueueOutOfOrder(a, from)
             \/ DrainFragment(a, from)
             \/ DrainEnd(a, from)
             \/ Finish(a, from)
      PROVE  MemoryInv'
  <2>1. CASE \E b \in Ptr, gc, gs \in Garbage : RestartStream(a, from, b, gc, gs)
    <3>1. Within
      BY <2>1, MemoryInvWithin DEF RestartStream
    <3> QED
      BY <2>1, <3>1, BeginActionsWithin, WithinMemoryInv
  <2>2. CASE DropSegment(a, from) \/ QueueOld(a, from) \/ DrainEnd(a, from)
    <3>1. Within /\ tcphashmap_' = tcphashmap_
      BY <2>2, MemoryInvWithin DEF DropSegment, Segment, QueueOld, DrainEnd, tables
    <3>2. Within'
      BY <3>1 DEF Within, Live
    <3> QED
      BY <3>2, WithinMemoryInv
  <2>3. CASE ResetStream(a, from) \/ CloseStream(a, from)
    <3>1. Within
      BY <2>3, MemoryInvWithin DEF ResetStream, CloseStream, InWindow, Segment
    <3>2. Frees({a})
      BY <2>3, FreeTcpstreamFrees DEF ResetStream, CloseStream, IInv
    <3> QED
      BY <3>1, <3>2, FreesWithin, WithinMemoryInv
  <2>4. CASE \/ SecondHandshake(a, from) \/ ThirdHandshake(a, from)
             \/ AckSegment(a, from) \/ QueueInOrder(a, from)
             \/ DrainFragment(a, from)
    <3>1. Within
      BY <2>4, MemoryInvWithin
         DEF SecondHandshake, ThirdHandshake, AckSegment, InWindow, Segment,
             QueueInOrder, DrainFragment
    <3>2. a \in Live
      BY <2>4, FindStreamLive
         DEF SecondHandshake, ThirdHandshake, AckSegment, InWindow, Segment,
             QueueInOrder, DrainFragment
    <3>3. Lighter(a)
      BY <2>4, SecondHandshakeKeeps, AckActionsKeep, QueueInOrderKeeps, DrainFragmentKeeps
    <3> QED
      BY <1>1, <3>1, <3>2, <3>3, LighterWithin, WithinMemoryInv
  <2>5. CASE QueueOutOfOrder(a, from)
    <3>1. Within
      BY <2>5, MemoryInvWithin DEF QueueOutOfOrder
    <3> QED
      BY <1>1, <2>5, <3>1, QueueOutOfOrderMemory
  <2>6. CASE Finish(a, from)
    BY <1>1, <2>6, FinishMemory, WithinMemoryInv
  <2> QED
    BY <1>5, <2>1, <2>2, <2>3, <2>4, <2>5, <2>6
<1>6. CASE UNCHANGED vars
  BY <1>6 DEF vars, MemoryInv, Live, FindStream, FindStreamAux
<1> QED
  BY <1>2, <1>3, <1>4, <1>5, <1>6 DEF Next, Process

\* Between packets no direction of a stream holds more than RmemMax bytes out of
\* order, whatever arrives (the check at the end of processTcp).
THEOREM MemoryBoundHolds == Spec => []MemoryBound
<1>1. Init => MemoryInv
  BY DEF Init, MemoryInv, Live
<1>2. IInv /\ MemoryInv => MemoryBound
  BY MemoryInvWithin DEF Within, MemoryBound
<1> QED
  BY <1>1, <1>2, NextMemoryInv, Invariance, PTL DEF Spec

----------------------------------------------------------------------------
(***************************************************************************)
(* What the steps do to a stream: which stay as they are, which receive.   *)
(***************************************************************************)
\* A sequence number is its own remainder.
LEMMA ModSame ==
    ASSUME NEW x \in SeqNum
    PROVE  x % SeqSpace = x
BY SeqSpaceAssumption DEF SeqNum

\* The stream at a becomes t, and no other stream is touched.
Becomes(a, t) ==
    /\ t \in TcpStream
    /\ tcphashmap_' = [tcphashmap_ EXCEPT ![a] = t]

\* What a half holds and counts is unchanged.
SameData(h, k) ==
    /\ k.fraglist = h.fraglist /\ k.rmem_alloc = h.rmem_alloc
    /\ k.count = h.count /\ k.urg_seen = h.urg_seen

\* So is what both halves do, and where they begin once the stream is a
\* connection.
SameStream(s, t) ==
    /\ t.addr = s.addr
    /\ s.isconnnection => t.isconnnection
    /\ \A side \in Side : SameData(s.half[side], t.half[side])
    /\ t.isconnnection =>
          \A side \in Side : t.half[side].first_data_seq = s.half[side].first_data_seq

\* The SYN-ACK renumbers the server's half and moves no data.
LEMMA SecondHandshakeSame ==
    ASSUME IInv, NEW a \in Ptr, NEW from \in Side, SecondHandshake(a, from)
    PROVE  \E t : /\ Becomes(a, t) /\ SameStream(tcphashmap_[a], t)
                  /\ t.isconnnection = tcphashmap_[a].isconnnection
<1> DEFINE old    == tcphashmap_[a]
           on     == old.half["client"].wscale_on /\ pkt.ws > 0
           first  == (pkt.seq + 1) % SeqSpace
           client == [old.half["client"] EXCEPT
                        !.wscale_on = on, !.wscale = IF on THEN @ ELSE 1]
           server == [old.half["server"] EXCEPT
                        !.state = "SYN_RECV", !.seq = first, !.first_data_seq = first,
                        !.ack_seq = pkt.acknum, !.window = pkt.win,
                        !.wscale_on = on, !.wscale = IF on THEN pkt.ws ELSE 1]
           s      == SetHalves(old, "client", client, server)
<1>1. a \in Live
  BY FindStreamLive DEF SecondHandshake, Segment
<1>2. pkt \in Packet
  BY PktType DEF IInv, SecondHandshake, Segment
<1>3. /\ old \in TcpStream
      /\ old.half["client"] \in HalfStream /\ old.half["server"] \in HalfStream
  BY <1>1, LiveType DEF IInv, TypeOK, TablesType, Side
<1>4. on \in BOOLEAN /\ first \in SeqNum
  <2>1. pkt.seq + 1 \in Int
    BY <1>2 DEF Packet, SeqNum
  <2> QED
    BY <2>1, <1>3, ModType DEF HalfStream
<1>5. tcphashmap_' = [tcphashmap_ EXCEPT ![a] = s]
  BY DEF SecondHandshake
<1>6. old.half["client"].state = "SYN_SENT" /\ old.half["server"].state = "CLOSE"
  BY DEF SecondHandshake, IsSynAck
<1>7. ~old.isconnnection
  BY <1>1, <1>6 DEF IInv, TablesInv, ConnectedIsEstablished, Side, FinSeen
<1> HIDE DEF on, first, old
<1>8. client \in HalfStream /\ SameData(old.half["client"], client)
  BY <1>3, <1>4, <1>6 DEF HalfStream, SameData
<1>9. server \in HalfStream /\ SameData(old.half["server"], server)
  BY <1>2, <1>3, <1>4 DEF HalfStream, HalfState, Packet, SameData
<1> HIDE DEF client, server
<1>10. "client" \in Side /\ Other("client") = "server" /\ Side = {"client", "server"}
  BY DEF Side, Other
<1>11. /\ s \in TcpStream /\ s.addr = old.addr
       /\ s.isconnnection = old.isconnnection
       /\ s.half["client"] = client /\ s.half["server"] = server
  BY <1>3, <1>8, <1>9, <1>10, SetHalvesType
<1> HIDE DEF s
<1>12. SameStream(old, s)
  BY <1>7, <1>8, <1>9, <1>10, <1>11 DEF SameStream
<1> QED
  BY <1>5, <1>11, <1>12 DEF Becomes, old

\* Nor does an ACK.
LEMMA AcknowledgeSame ==
    ASSUME pkt \in Packet, NEW s \in TcpStream, NEW from \in Side
    PROVE  /\ Acknowledge(s, from) \in TcpStream /\ SameStream(s, Acknowledge(s, from))
           /\ Acknowledge(s, from).isconnnection = s.isconnnection
<1> DEFINE a == s.half[from]
           b == s.half[Other(from)]
           ack == IF Positive(pkt.acknum - a.ack_seq) THEN pkt.acknum ELSE a.ack_seq
           snd == [a EXCEPT !.ack_seq = ack]
           rcv == IF b.state = "FIN_SENT" THEN [b EXCEPT !.state = "FIN_CONFIRMED"] ELSE b
<1>1. a \in HalfStream /\ b \in HalfStream /\ Side = {from, Other(from)}
  BY HalvesType
<1>2. ack \in SeqNum
  BY <1>1 DEF Packet, HalfStream
<1> HIDE DEF ack
<1>3. /\ snd \in HalfStream /\ SameData(a, snd)
      /\ snd.first_data_seq = a.first_data_seq
  BY <1>1, <1>2 DEF HalfStream, SameData
<1>4. /\ rcv \in HalfStream /\ SameData(b, rcv)
      /\ rcv.first_data_seq = b.first_data_seq
  BY <1>1 DEF HalfStream, HalfState, SameData
<1>5. Acknowledge(s, from) = SetHalves(s, from, snd, rcv)
  BY DEF Acknowledge, ack
<1> HIDE DEF snd, rcv
<1>6. /\ SetHalves(s, from, snd, rcv) \in TcpStream
      /\ SetHalves(s, from, snd, rcv).addr = s.addr
      /\ SetHalves(s, from, snd, rcv).isconnnection = s.isconnnection
      /\ SetHalves(s, from, snd, rcv).half[from] = snd
      /\ SetHalves(s, from, snd, rcv).half[Other(from)] = rcv
  BY <1>3, <1>4, SetHalvesType
<1> QED
  BY <1>1, <1>3, <1>4, <1>5, <1>6 DEF SameStream

\* Nor does the ACK that makes the stream a connection.
LEMMA EstablishSame ==
    ASSUME pkt \in Packet, NEW s \in TcpStream, NEW from \in Side
    PROVE  /\ Establish(s, from) \in TcpStream /\ SameStream(s, Establish(s, from))
           /\ Establish(s, from).isconnnection = TRUE
<1> DEFINE c   == [s EXCEPT !.isconnnection = TRUE]
           snd == [s.half[from] EXCEPT !.state = "ESTABLISHED", !.ack_seq = pkt.acknum]
           rcv == [s.half[Other(from)] EXCEPT !.state = "ESTABLISHED"]
<1>1. /\ s.half[from] \in HalfStream /\ s.half[Other(from)] \in HalfStream
      /\ Side = {from, Other(from)}
  BY HalvesType
<1>2. /\ snd \in HalfStream /\ SameData(s.half[from], snd)
      /\ snd.first_data_seq = s.half[from].first_data_seq
  BY <1>1 DEF HalfStream, HalfState, Packet, SameData
<1>3. /\ rcv \in HalfStream /\ SameData(s.half[Other(from)], rcv)
      /\ rcv.first_data_seq = s.half[Other(from)].first_data_seq
  BY <1>1 DEF HalfStream, HalfState, SameData
<1>4. c \in TcpStream /\ c.addr = s.addr /\ c.isconnnection = TRUE
  BY DEF TcpStream
<1>5. Establish(s, from) = SetHalves(c, from, snd, rcv)
  BY DEF Establish
<1> HIDE DEF c, snd, rcv
<1>6. /\ SetHalves(c, from, snd, rcv) \in TcpStream
      /\ SetHalves(c, from, snd, rcv).addr = c.addr
      /\ SetHalves(c, from, snd, rcv).isconnnection = c.isconnnection
      /\ SetHalves(c, from, snd, rcv).half[from] = snd
      /\ SetHalves(c, from, snd, rcv).half[Other(from)] = rcv
  BY <1>2, <1>3, <1>4, SetHalvesType
<1> DEFINE t == SetHalves(c, from, snd, rcv)
<1>7. /\ t.addr = s.addr /\ t.isconnnection = TRUE
      /\ t.half[from] = snd /\ t.half[Other(from)] = rcv
  BY <1>4, <1>6
<1> HIDE DEF t
<1>8. /\ \A side \in Side : SameData(s.half[side], t.half[side])
      /\ \A side \in Side : t.half[side].first_data_seq = s.half[side].first_data_seq
  BY <1>1, <1>2, <1>3, <1>7
<1>9. SameStream(s, t)
  BY <1>7, <1>8 DEF SameStream
<1> QED
  BY <1>5, <1>6, <1>7, <1>9 DEF t

\* Two such steps, the first of which connects, are one.
LEMMA SameTwice ==
    ASSUME NEW r \in TcpStream, NEW s \in TcpStream, NEW t \in TcpStream,
           SameStream(r, s), s.isconnnection, SameStream(s, t)
    PROVE  SameStream(r, t)
<1>1. /\ r.isconnnection \in BOOLEAN /\ s.isconnnection \in BOOLEAN
      /\ t.isconnnection \in BOOLEAN
  BY DEF TcpStream
<1>2. /\ t.addr = r.addr
      /\ r.isconnnection => s.isconnnection
      /\ s.isconnnection => t.isconnnection
  BY DEF SameStream
<1>3. \A side \in Side : SameData(r.half[side], t.half[side])
  BY DEF SameStream, SameData
<1>4. ASSUME t.isconnnection
      PROVE  \A side \in Side : t.half[side].first_data_seq = r.half[side].first_data_seq
  BY <1>4 DEF SameStream
<1> QED
  BY <1>1, <1>2, <1>3, <1>4 DEF SameStream

\* None is one.
LEMMA SameSelf ==
    ASSUME NEW s
    PROVE  SameStream(s, s)
BY DEF SameStream, SameData

\* The third handshake connects a stream; another ACK leaves it as it is.
LEMMA AckActionsSame ==
    ASSUME IInv, NEW a \in Ptr, NEW from \in Side,
           ThirdHandshake(a, from) \/ AckSegment(a, from)
    PROVE  \E t : /\ Becomes(a, t) /\ SameStream(tcphashmap_[a], t)
                  /\ t.isconnnection =
                        IF ThirdHandshake(a, from) THEN TRUE
                        ELSE tcphashmap_[a].isconnnection
<1> DEFINE old == tcphashmap_[a]
<1>1. a \in Live
  BY FindStreamLive DEF ThirdHandshake, AckSegment, InWindow, Segment
<1>2. pkt \in Packet
  BY PktType DEF IInv, ThirdHandshake, AckSegment, InWindow, Segment
<1>3. old \in TcpStream
  BY <1>1, LiveType DEF IInv, TypeOK, TablesType
<1>4. CASE ThirdHandshake(a, from)
  <2> DEFINE mid == Establish(old, from)
             new == Acknowledge(mid, from)
  <2>1. tcphashmap_' = [tcphashmap_ EXCEPT ![a] = new]
    BY <1>4 DEF ThirdHandshake
  <2>2. mid \in TcpStream /\ SameStream(old, mid) /\ mid.isconnnection = TRUE
    <3> HIDE DEF old
    <3> QED
      BY <1>2, <1>3, EstablishSame
  <2> HIDE DEF mid, old
  <2>3. new \in TcpStream /\ SameStream(mid, new) /\ new.isconnnection = TRUE
    BY <1>2, <2>2, AcknowledgeSame
  <2>4. SameStream(old, new)
    BY <1>3, <2>2, <2>3, SameTwice DEF old
  <2> HIDE DEF new
  <2> QED
    BY <1>4, <2>1, <2>3, <2>4 DEF Becomes, old
<1>5. CASE AckSegment(a, from)
  <2> DEFINE new == IF pkt.ack THEN Acknowledge(old, from) ELSE old
  <2>1. tcphashmap_' = [tcphashmap_ EXCEPT ![a] = new]
    BY <1>5 DEF AckSegment
  <2>2. /\ new \in TcpStream /\ SameStream(old, new)
        /\ new.isconnnection = old.isconnnection
    <3> HIDE DEF old
    <3> QED
      BY <1>2, <1>3, AcknowledgeSame, SameSelf
  <2>3. ~ThirdHandshake(a, from)
    BY <1>5 DEF ThirdHandshake, AckSegment
  <2> HIDE DEF new
  <2> QED
    BY <2>1, <2>2, <2>3 DEF Becomes
<1> QED
  BY <1>4, <1>5

\* The end of a call frees the stream, or leaves its data alone.
LEMMA FinishSame ==
    ASSUME IInv, NEW a \in Ptr, NEW from \in Side, Finish(a, from)
    PROVE  \/ Frees({a})
           \/ \E t : /\ Becomes(a, t) /\ SameStream(tcphashmap_[a], t)
                     /\ t.isconnnection = tcphashmap_[a].isconnnection
<1> DEFINE old == tcphashmap_[a]
           rcv == old.half[Other(from)]
           snd == [old.half[from] EXCEPT !.window = pkt.win]
           s   == SetHalves(old, from, snd, rcv)
<1>1. a \in Live /\ pkt \in Packet
  BY FindStreamLive, PktType DEF Finish, IInv
<1>2. FreeTcpstream(a) \/ tcphashmap_' = [tcphashmap_ EXCEPT ![a] = s]
  BY DEF Finish
<1>3. /\ old \in TcpStream
      /\ old.half[from] \in HalfStream /\ rcv \in HalfStream
      /\ Side = {from, Other(from)}
  BY <1>1, LiveType, HalvesType DEF IInv, TypeOK, TablesType
<1> HIDE DEF old
<1>4. /\ snd \in HalfStream /\ SameData(old.half[from], snd)
      /\ snd.first_data_seq = old.half[from].first_data_seq
  BY <1>1, <1>3 DEF HalfStream, Packet, SameData
<1>5. SameData(rcv, rcv)
  BY DEF SameData
<1> HIDE DEF snd, rcv
<1>6. /\ s \in TcpStream /\ s.addr = old.addr
      /\ s.isconnnection = old.isconnnection
      /\ s.half[from] = snd /\ s.half[Other(from)] = rcv
  BY <1>3, <1>4, SetHalvesType
<1> HIDE DEF s
<1>7. SameStream(old, s)
  BY <1>3, <1>4, <1>5, <1>6 DEF SameStream, rcv
<1> QED
  BY <1>2, <1>6, <1>7, FreeTcpstreamFrees DEF Becomes, old, IInv

\* Away from what side "from" sends, stream t is as s.
SameButReceived(s, t, from) ==
    /\ t.addr = s.addr /\ t.isconnnection = s.isconnnection
    /\ SameData(s.half[from], t.half[from])
    /\ \A side \in Side : t.half[side].first_data_seq = s.half[side].first_data_seq

\* The half k holds what h holds.
SameHeld(h, k) == k.fraglist = h.fraglist /\ k.rmem_alloc = h.rmem_alloc

\* The data callbacks that hand n bytes over from exp on.
Handed(s, from, exp, n) ==
    IF s.isconnnection /\ n > 0
    THEN <<[addr |-> s.addr, side |-> from, from |-> exp, len |-> n]>>
    ELSE <<>>

\* The half k received n more bytes than h.
Gains(h, k, n) == k.count = (h.count + n) % SeqSpace

\* The step calls back with data of s alone, and with none before s is connected.
Tells(s) ==
    /\ callbacks' = [NoCallbacks EXCEPT !.data = callbacks'.data]
    /\ \A i \in DOMAIN callbacks'.data : callbacks'.data[i].addr = s.addr
    /\ ~s.isconnnection => callbacks'.data = <<>>

\* Up to three pieces of a set make a sequence over the set.
LEMMA PiecesType ==
    ASSUME NEW S, NEW p \in Seq(S), NEW q \in Seq(S), NEW r \in Seq(S)
    PROVE  \A i \in DOMAIN (p \o q \o r) : (p \o q \o r)[i] \in S
<1>1. p \o q \in Seq(S)
  BY ConcatProperties
<1>2. (p \o q) \o r \in Seq(S)
  BY <1>1, ConcatProperties
<1> QED
  BY <1>2

\* The notify calls of addFromskb are for the stream they are made for.
LEMMA NotifiedTells ==
    ASSUME NEW s, NEW from, NEW rcv, NEW f, NEW exp,
           callbacks' = [NoCallbacks EXCEPT !.data = Notified(s, from, rcv, f, exp)]
    PROVE  Tells(s)
<1> DEFINE c(start, len) == [addr |-> s.addr, side |-> from,
                             from |-> start % SeqSpace, len |-> len]
           Piece(start, len) == IF len > 0 THEN <<c(start, len)>> ELSE <<>>
           l1 == (rcv.urg_ptr - exp) % SeqSpace
           l2 == (f.seq + f.len - rcv.urg_ptr - 1) % SeqSpace
           l3 == (f.len - (exp - f.seq)) % SeqSpace
           S  == {c(exp, l1), c(f.seq, f.len), c(rcv.urg_ptr + 1, l2), c(exp, l3)}
           p  == Piece(exp, l1)
           q  == Piece(f.seq, f.len)
           r  == Piece(rcv.urg_ptr + 1, l2)
           d  == Notified(s, from, rcv, f, exp)
<1>1. p \in Seq(S) /\ q \in Seq(S) /\ r \in Seq(S) /\ Piece(exp, l3) \in Seq(S)
  <2>1. ASSUME NEW start, NEW len, c(start, len) \in S
        PROVE  Piece(start, len) \in Seq(S)
    <3> HIDE DEF S, c
    <3> QED
      BY <2>1
  <2> HIDE DEF Piece, c
  <2> QED
    BY <2>1
<1>2. \A x \in S : x.addr = s.addr
  OBVIOUS
<1>3. d \in {<<>>, p \o q \o r, Piece(exp, l3)}
  BY DEF Notified
<1>4. ~s.isconnnection => d = <<>>
  BY DEF Notified
<1> DEFINE o == Piece(exp, l3)
<1> HIDE DEF p, q, r, o, S, d, c, l1, l2, l3
<1>5. \A i \in DOMAIN d : d[i] \in S
  <2>1. CASE d = p \o q \o r
    <3>1. p \in Seq(S) /\ q \in Seq(S) /\ r \in Seq(S)
      BY <1>1
    <3>2. \A i \in DOMAIN (p \o q \o r) : (p \o q \o r)[i] \in S
      BY <3>1, PiecesType
    <3> QED
      BY <2>1, <3>2
  <2>2. CASE d = o
    <3>1. o \in Seq(S)
      BY <1>1 DEF o
    <3> QED
      BY <2>2, <3>1
  <2>3. CASE d = <<>>
    BY <2>3
  <2> QED
    BY <1>3, <2>1, <2>2, <2>3 DEF o
<1>6. callbacks'.data = d
  BY DEF NoCallbacks, d
<1>7. callbacks' = [NoCallbacks EXCEPT !.data = callbacks'.data]
  BY <1>6 DEF d
<1> QED
  BY <1>2, <1>4, <1>5, <1>6, <1>7 DEF Tells

\* The half of stream a that receives from side "from" becomes rcv with more
\* bytes, which are handed over; if calm, as they are counted.
Receives(a, t, from, rcv, calm) ==
    LET s == tcphashmap_[a]
        r == t.half[Other(from)]
    IN  /\ Becomes(a, t)
        /\ SameButReceived(s, t, from)
        /\ SameHeld(rcv, r)
        /\ Tells(s)
        /\ calm => /\ ~r.urg_seen
                   /\ \E n \in Nat :
                         /\ Gains(rcv, r, n)
                         /\ callbacks'.data = Handed(s, from, ExpSeq(s, from), n)

\* A segment held out of order only changes what the receiving half holds.
LEMMA QueueOutOfOrderHolds ==
    ASSUME IInv, NEW a \in Ptr, NEW from \in Side, QueueOutOfOrder(a, from)
    PROVE  \E t : /\ Becomes(a, t) /\ SameButReceived(tcphashmap_[a], t, from)
                  /\ LET rcv == tcphashmap_[a].half[Other(from)]
                     IN  \E k \in 0 .. Len(rcv.fraglist) :
                             t.half[Other(from)] = HoldFragment(rcv, k, SegmentSkb)
<1> DEFINE old == tcphashmap_[a]
           rcv == old.half[Other(from)]
           snd == SendFin(old.half[from], pkt.fin, "CLOSING")
<1>1. a \in Live
  BY FindStreamLive DEF QueueOutOfOrder
<1>2. SegmentSkb \in Skbuff
  BY PktType, SegmentSkbType DEF IInv, QueueOutOfOrder
<1>3. /\ old \in TcpStream
      /\ old.half[from] \in HalfStream /\ rcv \in HalfStream
      /\ Side = {from, Other(from)}
  BY <1>1, LiveType, HalvesType DEF IInv, TypeOK, TablesType
<1>4. PICK k \in 0 .. Len(rcv.fraglist) :
          tcphashmap_' = [tcphashmap_ EXCEPT
              ![a] = SetHalves(old, from, snd, HoldFragment(rcv, k, SegmentSkb))]
  BY DEF QueueOutOfOrder
<1> DEFINE r == HoldFragment(rcv, k, SegmentSkb)
           s == SetHalves(old, from, snd, r)
<1>5. r \in HalfStream /\ r.first_data_seq = rcv.first_data_seq
  <2> HIDE DEF rcv
  <2>1. r \in HalfStream
    BY <1>2, <1>3, <1>4, HoldFragmentType
  <2>2. r.first_data_seq = rcv.first_data_seq
    BY <1>3 DEF HoldFragment, HalfStream
  <2> QED
    BY <2>1, <2>2
<1>6. /\ snd \in HalfStream /\ SameData(old.half[from], snd)
      /\ snd.first_data_seq = old.half[from].first_data_seq
  <2> DEFINE h == old.half[from]
  <2>1. h \in HalfStream
    BY <1>3
  <2> HIDE DEF h
  <2>2. LET k1 == SendFin(h, pkt.fin, "CLOSING")
        IN  /\ k1 \in HalfStream /\ SameData(h, k1)
            /\ k1.first_data_seq = h.first_data_seq
    BY <2>1 DEF SendFin, HalfStream, HalfState, SameData
  <2> QED
    BY <2>2 DEF h
<1>7. tcphashmap_' = [tcphashmap_ EXCEPT ![a] = s]
  BY <1>4
<1> HIDE DEF r, snd
<1>8. /\ s \in TcpStream /\ s.addr = old.addr
      /\ s.isconnnection = old.isconnnection
      /\ s.half[from] = snd /\ s.half[Other(from)] = r
  <2> HIDE DEF old
  <2>1. old \in TcpStream /\ snd \in HalfStream /\ r \in HalfStream
    BY <1>3, <1>5, <1>6
  <2> QED
    BY <2>1, SetHalvesType
<1> HIDE DEF s
<1>9. SameButReceived(old, s, from)
  BY <1>3, <1>5, <1>6, <1>8 DEF SameButReceived
<1>10. s.half[Other(from)] = HoldFragment(rcv, k, SegmentSkb)
  BY <1>8 DEF r
<1> HIDE DEF rcv, old
<1>11. Becomes(a, s) /\ \E i \in 0 .. Len(rcv.fraglist) :
                             s.half[Other(from)] = HoldFragment(rcv, i, SegmentSkb)
  BY <1>4, <1>7, <1>8, <1>10 DEF Becomes
<1> QED
  BY <1>9, <1>11 DEF rcv, old

\* addFromskb gives the receiving half the bytes it calls back with.
LEMMA AddFromskbTakes ==
    ASSUME IInv, NEW a \in Live, NEW from \in Side, NEW f \in Skbuff,
           NEW rcv \in HalfStream,
           rcv.first_data_seq = tcphashmap_[a].half[Other(from)].first_data_seq,
           rcv.count = tcphashmap_[a].half[Other(from)].count,
           AddFromskb(a, from, f, rcv)
    PROVE  \E t : Receives(a, t, from, rcv, ~f.urg /\ ~rcv.urg_seen)
<1> DEFINE old   == tcphashmap_[a]
           exp   == ExpSeq(old, from)
           noted == NoteUrgent(rcv, f, exp)
           count == (noted.count + Added(noted, f, exp)) % SeqSpace
           seen  == noted.urg_seen /\ ~HoldsUrgent(noted, f, exp)
           r     == [noted EXCEPT !.count = count, !.urg_seen = seen]
           snd   == SendFin(old.half[from], f.fin, "FIN_SENT")
           s     == SetHalves(old, from, snd, r)
<1>1. /\ old \in TcpStream
      /\ old.half[from] \in HalfStream /\ old.half[Other(from)] \in HalfStream
      /\ Side = {from, Other(from)}
  BY LiveType, HalvesType DEF IInv, TypeOK, TablesType
<1>2. exp \in SeqNum
  BY <1>1, ExpSeqType
<1>3. noted \in HalfStream /\ SameHeld(rcv, noted) /\ noted.first_data_seq = rcv.first_data_seq
  <2>1. noted \in HalfStream
    BY <1>2, NoteUrgentType DEF SeqNum
  <2> HIDE DEF exp
  <2>2. SameHeld(rcv, noted) /\ noted.first_data_seq = rcv.first_data_seq
    BY DEF NoteUrgent, HalfStream, SameHeld
  <2> QED
    BY <2>1, <2>2
<1>4. count \in SeqNum
  <2>1. Added(noted, f, exp) \in Nat /\ noted.count \in SeqNum
    BY <1>2, <1>3, AddedType DEF HalfStream
  <2>2. noted.count + Added(noted, f, exp) \in Int
    BY <2>1 DEF SeqNum
  <2> QED
    BY <2>2, ModType
<1>5. seen \in BOOLEAN
  BY <1>3 DEF HalfStream
<1>6. /\ tcphashmap_' = [tcphashmap_ EXCEPT ![a] = s]
      /\ callbacks'.data = Notified(old, from, noted, f, exp)
  BY DEF AddFromskb, NoCallbacks
<1>7. ASSUME f.urg = FALSE, rcv.urg_seen = FALSE
      PROVE  /\ seen = FALSE
             /\ \E n \in Nat : /\ count = (rcv.count + n) % SeqSpace
                               /\ callbacks'.data = Handed(old, from, exp, n)
  <2> DEFINE n == (f.len - (exp - f.seq)) % SeqSpace
  <2>1. noted = rcv
    BY <1>7 DEF NoteUrgent
  <2>2. ~HoldsUrgent(rcv, f, exp)
    BY <1>7 DEF HoldsUrgent
  <2>3. n \in Nat
    <3>1. f.len - (exp - f.seq) \in Int
      BY <1>2, SeqSpaceAssumption DEF Skbuff, SeqNum
    <3> QED
      BY <3>1, ModType, SeqSpaceAssumption DEF SeqNum
  <2>4. count = (rcv.count + n) % SeqSpace
    BY <2>1, <2>2 DEF Added
  <2>5. exp % SeqSpace = exp
    BY <1>2, ModSame
  <2>6. Notified(old, from, rcv, f, exp) = Handed(old, from, exp, n)
    <3> HIDE DEF old, exp
    <3> QED
      BY <2>2, <2>5 DEF Notified, Handed
  <2> HIDE DEF n, count
  <2>7. seen = FALSE
    BY <1>7, <2>1
  <2> QED
    BY <1>6, <2>1, <2>3, <2>4, <2>6, <2>7
<1> HIDE DEF count, seen, noted, exp
<1>8. /\ r \in HalfStream /\ SameHeld(rcv, r)
      /\ r.first_data_seq = rcv.first_data_seq /\ r.count = count /\ r.urg_seen = seen
  BY <1>3, <1>4, <1>5 DEF HalfStream, SameHeld
<1>9. /\ snd \in HalfStream /\ SameData(old.half[from], snd)
      /\ snd.first_data_seq = old.half[from].first_data_seq
  <2> DEFINE h == old.half[from]
  <2>1. h \in HalfStream
    BY <1>1
  <2> HIDE DEF h
  <2>2. LET k1 == SendFin(h, f.fin, "FIN_SENT")
        IN  /\ k1 \in HalfStream /\ SameData(h, k1)
            /\ k1.first_data_seq = h.first_data_seq
    BY <2>1 DEF SendFin, HalfStream, HalfState, SameData
  <2> QED
    BY <2>2 DEF h
<1> HIDE DEF r, snd
<1>10. /\ s \in TcpStream /\ s.addr = old.addr
       /\ s.isconnnection = old.isconnnection
       /\ s.half[from] = snd /\ s.half[Other(from)] = r
  <2> HIDE DEF old
  <2> QED
    BY <1>1, <1>8, <1>9, SetHalvesType
<1> HIDE DEF s
<1>11. SameButReceived(old, s, from)
  BY <1>1, <1>8, <1>9, <1>10 DEF SameButReceived
<1>12. Becomes(a, s) /\ SameHeld(rcv, s.half[Other(from)])
  BY <1>6, <1>8, <1>10 DEF Becomes
<1>0. Tells(old)
  BY NotifiedTells DEF AddFromskb
<1>13. ASSUME ~f.urg, ~rcv.urg_seen
       PROVE  /\ ~s.half[Other(from)].urg_seen
              /\ \E n \in Nat :
                    /\ Gains(rcv, s.half[Other(from)], n)
                    /\ callbacks'.data = Handed(old, from, exp, n)
  <2>1. f.urg = FALSE /\ rcv.urg_seen = FALSE
    BY <1>13 DEF Skbuff, HalfStream
  <2> QED
    BY <1>7, <1>8, <1>10, <2>1 DEF Gains
<1> HIDE DEF old
<1> QED
  BY <1>0, <1>11, <1>12, <1>13 DEF old, exp, Receives

\* The segment in hand goes through it,
LEMMA QueueInOrderTakes ==
    ASSUME IInv, NEW a \in Ptr, NEW from \in Side, QueueInOrder(a, from)
    PROVE  LET rcv == tcphashmap_[a].half[Other(from)]
           IN  \E t : Receives(a, t, from, rcv, ~pkt.urg /\ ~rcv.urg_seen)
<1> DEFINE rcv == tcphashmap_[a].half[Other(from)]
<1>1. a \in Live
  BY FindStreamLive DEF QueueInOrder
<1>2. SegmentSkb \in Skbuff /\ SegmentSkb.urg = pkt.urg
  BY PktType, SegmentSkbType DEF IInv, QueueInOrder, SegmentSkb
<1>3. rcv \in HalfStream
  BY <1>1, LiveType, OtherType DEF IInv, TypeOK, TablesType
<1>4. AddFromskb(a, from, SegmentSkb, rcv)
  BY DEF QueueInOrder
<1>5. /\ rcv.first_data_seq = tcphashmap_[a].half[Other(from)].first_data_seq
      /\ rcv.count = tcphashmap_[a].half[Other(from)].count
  OBVIOUS
<1> HIDE DEF rcv
<1>6. \E t : Receives(a, t, from, rcv, ~SegmentSkb.urg /\ ~rcv.urg_seen)
  BY <1>1, <1>2, <1>3, <1>4, <1>5, AddFromskbTakes
<1> QED
  BY <1>2, <1>6 DEF rcv

\* Dropping the first fragment changes what is held, and nothing else.
LEMMA DropFirstIs ==
    ASSUME NEW rcv \in HalfStream, rcv.fraglist # <<>>
    PROVE  LET r == DropFirst(rcv)
           IN  /\ r.fraglist = Tail(rcv.fraglist)
               /\ r.rmem_alloc = rcv.rmem_alloc - Head(rcv.fraglist).truesize
               /\ r.count = rcv.count /\ r.urg_seen = rcv.urg_seen
               /\ r.first_data_seq = rcv.first_data_seq
BY DEF DropFirst, HalfStream

\* and so does a held fragment, or it is dropped without a byte.
LEMMA DrainFragmentTakes ==
    ASSUME IInv, NEW a \in Ptr, NEW from \in Side, DrainFragment(a, from)
    PROVE  LET rcv == tcphashmap_[a].half[Other(from)]
           IN  /\ rcv.fraglist # <<>>
               /\ \E t : Receives(a, t, from, DropFirst(rcv),
                                  ~Head(rcv.fraglist).urg /\ ~rcv.urg_seen)
<1> DEFINE old == tcphashmap_[a]
           rcv == old.half[Other(from)]
           f   == Head(rcv.fraglist)
           exp == ExpSeq(old, from)
           calm == ~f.urg /\ ~rcv.urg_seen
<1>1. a \in Live
  BY FindStreamLive DEF DrainFragment
<1>2. /\ old \in TcpStream
      /\ old.half[from] \in HalfStream /\ rcv \in HalfStream
      /\ Side = {from, Other(from)}
  BY <1>1, LiveType, HalvesType DEF IInv, TypeOK, TablesType
<1>3. rcv.fraglist # <<>>
  BY DEF DrainFragment
<1> DEFINE r == DropFirst(rcv)
<1>4. /\ f \in Skbuff /\ r \in HalfStream
      /\ r.count = rcv.count /\ r.urg_seen = rcv.urg_seen
      /\ r.first_data_seq = rcv.first_data_seq
  <2> HIDE DEF rcv
  <2> QED
    BY <1>2, <1>3, DropFirstType, DropFirstIs
<1>5. CASE EndsAfter(f, exp)
  <2>1. AddFromskb(a, from, f, r)
    BY <1>5 DEF DrainFragment
  <2>2. /\ r.first_data_seq = tcphashmap_[a].half[Other(from)].first_data_seq
        /\ r.count = tcphashmap_[a].half[Other(from)].count
    BY <1>4
  <2> HIDE DEF r, f
  <2>3. \E t : Receives(a, t, from, r, ~f.urg /\ ~r.urg_seen)
    BY <1>1, <1>4, <2>1, <2>2, AddFromskbTakes
  <2> QED
    BY <1>3, <1>4, <2>3 DEF r, f
<1>6. CASE ~EndsAfter(f, exp)
  <2> DEFINE s == SetHalves(old, from, old.half[from], r)
  <2>1. /\ tcphashmap_' = [tcphashmap_ EXCEPT ![a] = s]
        /\ callbacks' = NoCallbacks
    BY <1>6 DEF DrainFragment
  <2>2. /\ s \in TcpStream /\ s.addr = old.addr
        /\ s.isconnnection = old.isconnnection
        /\ s.half[from] = old.half[from] /\ s.half[Other(from)] = r
    <3> DEFINE snd == old.half[from]
    <3>1. snd \in HalfStream /\ r \in HalfStream
      BY <1>2, <1>4
    <3> HIDE DEF old, snd, r
    <3>2. LET t == SetHalves(old, from, snd, r)
          IN  /\ t \in TcpStream /\ t.addr = old.addr
              /\ t.isconnnection = old.isconnnection
              /\ t.half[from] = snd /\ t.half[Other(from)] = r
      BY <1>2, <3>1, SetHalvesType
    <3> QED
      BY <3>2 DEF snd
  <2> HIDE DEF s, r
  <2>3. SameButReceived(old, s, from)
    BY <1>2, <1>4, <2>2 DEF SameButReceived, SameData
  <2>4. Becomes(a, s) /\ SameHeld(r, s.half[Other(from)])
    BY <2>1, <2>2 DEF Becomes, SameHeld
  <2>0. Tells(old)
    BY <2>1 DEF Tells, NoCallbacks
  <2>5. ASSUME calm
        PROVE  /\ ~s.half[Other(from)].urg_seen
               /\ \E n \in Nat :
                     /\ Gains(r, s.half[Other(from)], n)
                     /\ callbacks'.data = Handed(old, from, exp, n)
    <3>1. r.count \in SeqNum
      BY <1>4 DEF HalfStream
    <3>2. r.count + 0 = r.count
      BY <3>1, SeqSpaceAssumption DEF SeqNum
    <3>3. Gains(r, s.half[Other(from)], 0)
      BY <2>2, <3>1, <3>2, ModSame DEF Gains
    <3>4. callbacks'.data = Handed(old, from, exp, 0)
      BY <2>1 DEF NoCallbacks, Handed
    <3> QED
      BY <1>4, <2>2, <2>5, <3>3, <3>4
  <2> HIDE DEF calm, old, exp
  <2>6. Receives(a, s, from, r, calm)
    BY <2>0, <2>3, <2>4, <2>5 DEF Receives, old, exp
  <2> QED
    BY <1>3, <2>6 DEF calm, r, old
<1> QED
  BY <1>5, <1>6

----------------------------------------------------------------------------
(***************************************************************************)
(* TcpFragment implements TcpService.  A step either opens a connection,   *)
(* or hands over data of one, or ends some with their callbacks, or drops  *)
(* one, or is silent; UniqueFlow makes the tuple4 a name for the stream.   *)
(***************************************************************************)
\* The places of the connections.
Reported == {b \in Live : tcphashmap_[b].isconnnection}

\* The connections after a step are those of S.
Leaves(S) ==
    /\ Reported' = S
    /\ \A b \in S : tcphashmap_'[b].addr = tcphashmap_[b].addr

\* What the analysers know is the tuple4s of the reported streams.
LEMMA ConnectedIs == Connected = {tcphashmap_[b].addr : b \in Reported}
BY DEF Connected, Reported

\* Of two connections with one tuple4 there is only one.
LEMMA ReportedUnique ==
    ASSUME IInv, NEW a \in Reported, NEW b \in Reported,
           tcphashmap_[a].addr = tcphashmap_[b].addr
    PROVE  a = b
BY DEF IInv, TablesInv, UniqueFlow, Reported

\* The connections that stay are those of the tuple4s that stay.
LEMMA LeavesConnected ==
    ASSUME IInv, NEW S, Leaves(Reported \ S)
    PROVE  Connected' = Connected \ {tcphashmap_[b].addr : b \in Reported \cap S}
<1> DEFINE K == Reported \ S
           G == {tcphashmap_[b].addr : b \in Reported \cap S}
<1>1. Connected' = {tcphashmap_'[b].addr : b \in Reported'}
  BY DEF Connected, Reported
<1>2. Reported' = K /\ \A b \in K : tcphashmap_'[b].addr = tcphashmap_[b].addr
  BY DEF Leaves
<1>3. Connected' = {tcphashmap_[b].addr : b \in K}
  BY <1>1, <1>2
<1>4. \A a \in Reported, b \in Reported :
          tcphashmap_[a].addr = tcphashmap_[b].addr => a = b
  BY ReportedUnique
<1>5. {tcphashmap_[b].addr : b \in K} = {tcphashmap_[b].addr : b \in Reported} \ G
  BY <1>4
<1> QED
  BY <1>3, <1>5, ConnectedIs

\* A step that leaves the connections alone and calls nobody back is silent.
LEMMA SilentStep ==
    ASSUME IInv, Leaves(Reported), callbacks' = NoCallbacks
    PROVE  Service!Next
<1>1. Connected' = Connected
  BY ConnectedIs DEF Leaves, Connected, Reported
<1> QED
  BY <1>1 DEF Service!Next, Service!Silent, Service!Nothing, NoCallbacks

\* A connection that goes without a callback is dropped.
LEMMA DropStep ==
    ASSUME IInv, NEW a \in Ptr, Leaves(Reported \ {a}), callbacks' = NoCallbacks
    PROVE  Service!Next
<1>1. CASE a \in Reported
  <2> DEFINE addr == tcphashmap_[a].addr
  <2>1. Connected' = Connected \ {addr}
    <3>1. {tcphashmap_[b].addr : b \in Reported \cap {a}} = {addr}
      BY <1>1
    <3> QED
      BY <3>1, LeavesConnected
  <2>2. addr \in Connected /\ addr \in Addr
    BY <1>1, ConnectedIs DEF Reported, Live, IInv, TypeOK, TcpStream
  <2>3. Service!Drop(addr)
    BY <2>1, <2>2 DEF Service!Drop, Service!Nothing, NoCallbacks
  <2> QED
    BY <2>2, <2>3 DEF Service!Next
<1>2. CASE a \notin Reported
  <2>1. Reported \ {a} = Reported
    BY <1>2
  <2> QED
    BY <2>1, SilentStep
<1> QED
  BY <1>1, <1>2

\* Connections that end, some with callback j and some with k, each with one.
LEMMA EndStep ==
    ASSUME IInv, NEW S, NEW T, S \subseteq Live, T \subseteq Live, S \cap T = {},
           NEW j \in {"close", "timeout", "rst"}, NEW k \in {"close", "timeout", "rst"},
           Leaves(Reported \ (S \cup T)),
           callbacks' = [NoCallbacks EXCEPT !.ended = Ended(S, j) \cup Ended(T, k)]
    PROVE  Service!Next
<1> DEFINE G == {tcphashmap_[b].addr : b \in Reported \cap (S \cup T)}
           kind == [addr \in G |->
                       IF \E b \in Reported \cap S : tcphashmap_[b].addr = addr
                       THEN j ELSE k]
           E == {[addr |-> addr, kind |-> kind[addr]] : addr \in G}
<1>1. Connected' = Connected \ G /\ G \subseteq Connected
  BY LeavesConnected, ConnectedIs
<1>2. kind \in [G -> {"close", "timeout", "rst"}]
  OBVIOUS
<1>3. \A b \in Reported \cap S : /\ tcphashmap_[b].addr \in G
                                 /\ kind[tcphashmap_[b].addr] = j
  OBVIOUS
<1>4. ASSUME NEW b \in Reported \cap T
      PROVE  tcphashmap_[b].addr \in G /\ kind[tcphashmap_[b].addr] = k
  <2>1. \A c \in Reported \cap S : tcphashmap_[c].addr # tcphashmap_[b].addr
    BY ReportedUnique
  <2> QED
    BY <2>1
<1> HIDE DEF kind
<1>5. \A addr \in G : \E b \in Reported \cap (S \cup T) : tcphashmap_[b].addr = addr
  OBVIOUS
<1>6. /\ Ended(S, j) = {[addr |-> tcphashmap_[b].addr, kind |-> j] : b \in Reported \cap S}
      /\ Ended(T, k) = {[addr |-> tcphashmap_[b].addr, kind |-> k] : b \in Reported \cap T}
  <2>1. /\ {b \in S : tcphashmap_[b].isconnnection} = Reported \cap S
        /\ {b \in T : tcphashmap_[b].isconnnection} = Reported \cap T
    BY DEF Reported
  <2> QED
    BY <2>1 DEF Ended
<1> HIDE DEF G
<1>7. Ended(S, j) \cup Ended(T, k) = E
  <2>1. ASSUME NEW e \in E PROVE e \in Ended(S, j) \cup Ended(T, k)
    <3>1. PICK addr \in G : e = [addr |-> addr, kind |-> kind[addr]]
      OBVIOUS
    <3>2. PICK b \in Reported \cap (S \cup T) : tcphashmap_[b].addr = addr
      BY <1>5
    <3>3. CASE b \in S
      <4>1. e = [addr |-> tcphashmap_[b].addr, kind |-> j]
        BY <1>3, <3>1, <3>2, <3>3
      <4> QED
        BY <1>6, <3>2, <3>3, <4>1
    <3>4. CASE b \in T
      <4>1. e = [addr |-> tcphashmap_[b].addr, kind |-> k]
        BY <1>4, <3>1, <3>2, <3>4
      <4> QED
        BY <1>6, <3>2, <3>4, <4>1
    <3> QED
      BY <3>2, <3>3, <3>4
  <2>2. ASSUME NEW e \in Ended(S, j) PROVE e \in E
    <3>1. PICK b \in Reported \cap S : e = [addr |-> tcphashmap_[b].addr, kind |-> j]
      BY <1>6
    <3> QED
      BY <1>3, <3>1
  <2>3. ASSUME NEW e \in Ended(T, k) PROVE e \in E
    <3>1. PICK b \in Reported \cap T : e = [addr |-> tcphashmap_[b].addr, kind |-> k]
      BY <1>6
    <3> QED
      BY <1>4, <3>1
  <2> QED
    BY <2>1, <2>2, <2>3
<1>8. Service!End(kind, G)
  BY <1>1, <1>7 DEF Service!End, Service!Nothing, NoCallbacks
<1> QED
  BY <1>1, <1>2, <1>8 DEF Service!Next

\* Data is handed over for one stream that stays as connected as it was.
LEMMA DeliverStep ==
    ASSUME IInv, NEW a \in Live, Leaves(Reported), Tells(tcphashmap_[a])
    PROVE  Service!Next
<1> DEFINE addr == tcphashmap_[a].addr
<1>1. Connected' = Connected
  BY ConnectedIs DEF Leaves, Connected, Reported
<1>2. CASE tcphashmap_[a].isconnnection
  <2>1. addr \in Connected /\ addr \in Addr
    BY <1>2, ConnectedIs DEF Reported, Live, IInv, TypeOK, TcpStream
  <2>2. Service!Deliver(addr)
    BY <1>1, <2>1 DEF Service!Deliver, Tells, NoCallbacks
  <2> QED
    BY <2>1, <2>2 DEF Service!Next
<1>3. CASE ~tcphashmap_[a].isconnnection
  <2>1. callbacks' = NoCallbacks
    BY <1>3 DEF Tells, NoCallbacks
  <2> QED
    BY <2>1, SilentStep
<1> QED
  BY <1>2, <1>3

----------------------------------------------------------------------------
\* What the actions do to the connections.
\* Freed streams are connections no more.
LEMMA FreesLeaves ==
    ASSUME NEW S, Frees(S)
    PROVE  Leaves(Reported \ S)
<1>1. Live' = Live \ S /\ \A b \in Live' : tcphashmap_'[b] = tcphashmap_[b]
  BY DEF Frees, Live
<1> QED
  BY <1>1 DEF Leaves, Reported

\* A step that leaves the table alone leaves the connections alone.
LEMMA SameLeaves ==
    ASSUME tcphashmap_' = tcphashmap_
    PROVE  Leaves(Reported)
BY DEF Leaves, Reported, Live

\* A stream that changes otherwise stays what it is.
LEMMA BecomesLeaves ==
    ASSUME IInv, NEW a \in Live, NEW t, Becomes(a, t),
           t.addr = tcphashmap_[a].addr,
           t.isconnnection = tcphashmap_[a].isconnnection
    PROVE  Leaves(Reported)
<1>1. t # Null /\ a \in Ptr
  BY TcpAssumption DEF Becomes, Live
<1>2. tcphashmap_'[a] = t /\ \A b \in Ptr \ {a} : tcphashmap_'[b] = tcphashmap_[b]
  BY <1>1 DEF Becomes, IInv, TypeOK
<1>3. \A b \in Ptr : tcphashmap_'[b] # Null <=> tcphashmap_[b] # Null
  BY <1>1, <1>2 DEF Live
<1>4. \A b \in Ptr : /\ tcphashmap_'[b].isconnnection = tcphashmap_[b].isconnnection
                     /\ tcphashmap_'[b].addr = tcphashmap_[b].addr
  BY <1>2
<1>5. Reported' = Reported
  BY <1>3, <1>4 DEF Reported, Live
<1> QED
  BY <1>4, <1>5 DEF Leaves, Reported, Live

\* A new stream is no connection, and takes the place of none but those in S.
LEMMA NewTcpLeaves ==
    ASSUME IInv, NEW S, NEW b \in Ptr, b \in S \/ b \notin Live,
           NEW t \in TcpStream, ~t.isconnnection,
           \A c \in Ptr : tcphashmap_'[c] = IF c = b THEN t
                                           ELSE IF c \in S THEN Null ELSE tcphashmap_[c]
    PROVE  Leaves(Reported \ S)
<1>1. Reported' = Reported \ S
  BY DEF Reported, Live
<1>2. \A c \in Reported \ S : tcphashmap_'[c].addr = tcphashmap_[c].addr
  BY DEF Reported, Live
<1> QED
  BY <1>1, <1>2 DEF Leaves

\* The timeouts: idle streams are ended as timeouts, closing ones as closed.
LEMMA CheckTimeoutsService ==
    ASSUME IInv, NEW p \in Packets, NEW ts \in now .. MaxTime, CheckTimeouts(p, ts)
    PROVE  Service!Next
<1> DEFINE idle    == Due(tcpTimeoutSet_, ts)
           closing == Due({t \in finTimeoutSet_ : t.a_tcp \notin idle}, ts)
           gone    == idle \cup closing
<1>1. Frees(gone)
  BY DEF CheckTimeouts, Frees
<1>2. callbacks' = [NoCallbacks EXCEPT
          !.ended = Ended(idle, "timeout") \cup Ended(closing, "close")]
  BY DEF CheckTimeouts
<1>3. idle \subseteq Live /\ closing \subseteq Live /\ idle \cap closing = {}
  BY DEF IInv, TablesInv, NoDanglingTimeout, Due
<1> HIDE DEF idle, closing
<1>4. Leaves(Reported \ (idle \cup closing))
  BY <1>1, FreesLeaves
<1> QED
  BY <1>2, <1>3, <1>4, EndStep

\* A stream that is ended by the close or reset callback is freed with it.
LEMMA EndActionsService ==
    ASSUME IInv, NEW a \in Ptr, NEW from \in Side,
           ResetStream(a, from) \/ CloseStream(a, from)
    PROVE  Service!Next
<1>1. a \in Live /\ Frees({a})
  BY FindStreamLive, FreeTcpstreamFrees
     DEF ResetStream, CloseStream, InWindow, Segment, IInv
<1>2. PICK k \in {"rst", "close"} : callbacks' = [NoCallbacks EXCEPT !.ended = Ended({a}, k)]
  BY DEF ResetStream, CloseStream
<1>3. Ended({}, k) = {}
  BY DEF Ended
<1>4. callbacks' = [NoCallbacks EXCEPT !.ended = Ended({a}, k) \cup Ended({}, k)]
  BY <1>2, <1>3
<1>5. Leaves(Reported \ ({a} \cup {}))
  <2>1. Reported \ ({a} \cup {}) = Reported \ {a}
    OBVIOUS
  <2> QED
    BY <1>1, <2>1, FreesLeaves
<1> QED
  BY <1>1, <1>4, <1>5, EndStep

\* A SYN ends all streams when the table is full, and none otherwise.
LEMMA AddNewtcpService ==
    ASSUME IInv, NEW a \in Ptr, NEW gc \in Garbage, NEW gs \in Garbage,
           AddNewtcp(a, gc, gs)
    PROVE  Service!Next
<1> DEFINE S == IF Live = Ptr THEN Live ELSE {}
           t == NewTcp(gc, gs)
<1>1. pkt \in Packet
  BY PktType DEF IInv, AddNewtcp
<1>2. t \in TcpStream /\ ~t.isconnnection
  BY <1>1, NewTcpType, TcpAssumption
<1> HIDE DEF t
<1>3. \A c \in Ptr : tcphashmap_'[c] = IF c = a THEN t
                                       ELSE IF c \in S THEN Null ELSE tcphashmap_[c]
  BY DEF AddNewtcp, t
<1>4. a \in S \/ a \notin Live
  BY DEF AddNewtcp
<1>5. Ended({}, "close") = {} /\ Ended({}, "timeout") = {}
  BY DEF Ended
<1>6. callbacks' = [NoCallbacks EXCEPT
          !.ended = Ended(S, "timeout") \cup Ended({}, "close")]
  BY <1>5 DEF AddNewtcp
<1>7. S \subseteq Live
  OBVIOUS
<1> HIDE DEF S
<1>8. Leaves(Reported \ (S \cup {}))
  <2>1. S \cup {} = S
    OBVIOUS
  <2> QED
    BY <1>2, <1>3, <1>4, <2>1, NewTcpLeaves
<1> QED
  BY <1>6, <1>7, <1>8, EndStep

\* A SYN of a known tuple4 drops the stream without a callback.
LEMMA RestartStreamService ==
    ASSUME IInv, NEW a \in Ptr, NEW from \in Side, NEW b \in Ptr,
           NEW gc \in Garbage, NEW gs \in Garbage, RestartStream(a, from, b, gc, gs)
    PROVE  Service!Next
<1> DEFINE t == NewTcp(gc, gs)
<1>1. pkt \in Packet
  BY PktType DEF IInv, RestartStream
<1>2. t \in TcpStream /\ ~t.isconnnection
  BY <1>1, NewTcpType, TcpAssumption
<1> HIDE DEF t
<1>3. \A c \in Ptr : tcphashmap_'[c] = IF c = b THEN t
                                       ELSE IF c \in {a} THEN Null ELSE tcphashmap_[c]
  BY DEF RestartStream, t, IInv, TypeOK
<1>4. b \in {a} \/ b \notin Live
  BY DEF RestartStream
<1>5. Leaves(Reported \ {a})
  BY <1>2, <1>3, <1>4, NewTcpLeaves
<1> QED
  BY <1>5, DropStep DEF RestartStream

\* The third handshake reports a stream that was not reported before, and whose
\* tuple4 no other connection has.
LEMMA ThirdHandshakeService ==
    ASSUME IInv, NEW a \in Ptr, NEW from \in Side, ThirdHandshake(a, from)
    PROVE  Service!Next
<1> DEFINE addr == tcphashmap_[a].addr
<1>1. a \in Live
  BY FindStreamLive DEF ThirdHandshake, InWindow, Segment
<1>2. PICK t : Becomes(a, t) /\ t.addr = addr /\ t.isconnnection = TRUE
  BY AckActionsSame DEF SameStream
<1>3. a \notin Reported
  <2>1. tcphashmap_[a].half["client"].state = "SYN_SENT"
    BY DEF ThirdHandshake, IsThirdHandshake
  <2>2. "client" \in Side /\ "SYN_SENT" \notin FinSeen \cup {"ESTABLISHED"}
    BY DEF Side, FinSeen
  <2> QED
    BY <2>1, <2>2 DEF Reported, IInv, TablesInv, ConnectedIsEstablished
<1>4. addr \in Addr /\ addr \notin Connected
  <2>1. addr \in Addr
    BY <1>1 DEF Live, IInv, TypeOK, TcpStream
  <2>2. \A b \in Reported : tcphashmap_[b].addr # addr
    BY <1>1, <1>3 DEF IInv, TablesInv, UniqueFlow, Reported
  <2> QED
    BY <2>1, <2>2, ConnectedIs
<1>5. tcphashmap_'[a] = t /\ \A b \in Ptr \ {a} : tcphashmap_'[b] = tcphashmap_[b]
  BY <1>2 DEF Becomes, IInv, TypeOK
<1>6. t # Null /\ a \in Ptr
  BY <1>2, TcpAssumption DEF Becomes
<1>7. Reported' = Reported \cup {a}
  BY <1>2, <1>5, <1>6 DEF Reported, Live
<1>8. Connected' = Connected \cup {addr}
  <2>1. Connected' = {tcphashmap_'[b].addr : b \in Reported'}
    BY DEF Connected, Reported
  <2>2. \A b \in Reported : tcphashmap_'[b].addr = tcphashmap_[b].addr
    BY <1>3, <1>5 DEF Reported, Live
  <2>3. tcphashmap_'[a].addr = addr
    BY <1>2, <1>5
  <2> HIDE DEF addr
  <2>4. {tcphashmap_'[b].addr : b \in Reported \cup {a}}
            = {tcphashmap_[b].addr : b \in Reported} \cup {addr}
    BY <2>2, <2>3
  <2> QED
    BY <1>7, <2>1, <2>4, ConnectedIs
<1>9. callbacks' = [NoCallbacks EXCEPT !.opened = {addr}]
  BY DEF ThirdHandshake
<1>10. Service!Connect(addr)
  BY <1>4, <1>8, <1>9 DEF Service!Connect, Service!Nothing, NoCallbacks
<1> QED
  BY <1>4, <1>10 DEF Service!Next

\* Every step of TcpFragment is one of TcpService.
LEMMA NextService ==
    ASSUME IInv, Next
    PROVE  Service!Next
<1>1. CASE Receive
  BY <1>1, CheckTimeoutsService DEF Receive
<1>2. CASE Ignore
  BY <1>2, SameLeaves, SilentStep DEF Ignore, tables
<1>3. CASE \E a \in Ptr, gc, gs \in Garbage : AddNewtcp(a, gc, gs)
  BY <1>3, AddNewtcpService
<1>4. ASSUME NEW a \in Ptr, NEW from \in Side,
             \/ \E b \in Ptr, gc, gs \in Garbage : RestartStream(a, from, b, gc, gs)
             \/ SecondHandshake(a, from)
             \/ DropSegment(a, from)
             \/ ResetStream(a, from)
             \/ ThirdHandshake(a, from)
             \/ CloseStream(a, from)
             \/ AckSegment(a, from)
             \/ QueueInOrder(a, from)
             \/ QueueOld(a, from)
             \/ QueueOutOfOrder(a, from)
             \/ DrainFragment(a, from)
             \/ DrainEnd(a, from)
             \/ Finish(a, from)
      PROVE  Service!Next
  <2>1. CASE \E b \in Ptr, gc, gs \in Garbage : RestartStream(a, from, b, gc, gs)
    BY <2>1, RestartStreamService
  <2>2. CASE DropSegment(a, from) \/ QueueOld(a, from) \/ DrainEnd(a, from)
    BY <2>2, SameLeaves, SilentStep DEF DropSegment, QueueOld, DrainEnd, tables
  <2>3. CASE ResetStream(a, from) \/ CloseStream(a, from)
    BY <2>3, EndActionsService
  <2>4. CASE ThirdHandshake(a, from)
    BY <2>4, ThirdHandshakeService
  <2>5. CASE SecondHandshake(a, from) \/ AckSegment(a, from)
    <3>1. a \in Live /\ callbacks' = NoCallbacks
      BY <2>5, FindStreamLive DEF SecondHandshake, AckSegment, InWindow, Segment
    <3>2. ~ThirdHandshake(a, from)
      BY <2>5 DEF SecondHandshake, AckSegment, ThirdHandshake, InWindow
    <3>3. PICK t : /\ Becomes(a, t) /\ t.addr = tcphashmap_[a].addr
                   /\ t.isconnnection = tcphashmap_[a].isconnnection
      BY <2>5, <3>2, SecondHandshakeSame, AckActionsSame DEF SameStream
    <3> QED
      BY <3>1, <3>3, BecomesLeaves, SilentStep
  <2>6. CASE QueueOutOfOrder(a, from)
    <3>1. a \in Live /\ callbacks' = NoCallbacks
      BY <2>6, FindStreamLive DEF QueueOutOfOrder
    <3>2. PICK t : Becomes(a, t) /\ SameButReceived(tcphashmap_[a], t, from)
      BY <2>6, QueueOutOfOrderHolds
    <3> QED
      BY <3>1, <3>2, BecomesLeaves, SilentStep DEF SameButReceived
  <2>7. CASE QueueInOrder(a, from) \/ DrainFragment(a, from)
    <3>1. a \in Live
      BY <2>7, FindStreamLive DEF QueueInOrder, DrainFragment
    <3>2. PICK t, rcv, calm : Receives(a, t, from, rcv, calm)
      BY <2>7, QueueInOrderTakes, DrainFragmentTakes
    <3>3. /\ Becomes(a, t) /\ SameButReceived(tcphashmap_[a], t, from)
          /\ Tells(tcphashmap_[a])
      BY <3>2 DEF Receives
    <3>4. Leaves(Reported)
      BY <3>1, <3>3, BecomesLeaves DEF SameButReceived
    <3> QED
      BY <3>1, <3>3, <3>4, DeliverStep
  <2>8. CASE Finish(a, from)
    <3>1. a \in Live /\ callbacks' = NoCallbacks
      BY <2>8, FindStreamLive DEF Finish
    <3>2. CASE Frees({a})
      BY <3>1, <3>2, FreesLeaves, DropStep
    <3>3. CASE ~Frees({a})
      <4>1. PICK t : /\ Becomes(a, t) /\ t.addr = tcphashmap_[a].addr
                     /\ t.isconnnection = tcphashmap_[a].isconnnection
        BY <2>8, <3>3, FinishSame DEF SameStream
      <4> QED
        BY <3>1, <4>1, BecomesLeaves, SilentStep
    <3> QED
      BY <3>2, <3>3
  <2> QED
    BY <1>4, <2>1, <2>2, <2>3, <2>4, <2>5, <2>6, <2>7, <2>8
<1> QED
  BY <1>1, <1>2, <1>3, <1>4 DEF Next, Process

\* Http only watches TcpFragment.
LEMMA HttpSpecIsSpec == HttpSpec => Spec
<1>1. HttpInit => Init
  BY DEF HttpInit
<1>2. [HttpNext]_httpVars => [Next]_vars
  BY DEF HttpNext, httpVars
<1> QED
  BY <1>1, <1>2, PTL DEF HttpSpec, Spec

\* Whatever is captured, the callbacks an analyser gets keep the protocol of
\* TcpService: a connection is reported once, its data after that, and at most
\* one end last, of one kind (TcpFragment.cc:52-110, 265-327, 695-715).
THEOREM ServiceHolds == HttpSpec => ServiceSpec
<1>1. Init => Service!Init
  BY DEF Init, Service!Init, Service!Nothing, Connected, Live, NoCallbacks
<1>2. IInv /\ [Next]_vars => [Service!Next]_<<Connected, callbacks>>
  <2>1. ASSUME UNCHANGED vars PROVE UNCHANGED <<Connected, callbacks>>
    BY <2>1 DEF vars, Connected, Live
  <2> QED
    BY <2>1, NextService
<1> QED
  BY <1>1, <1>2, HttpSpecIsSpec, Invariance, PTL DEF Spec, ServiceSpec, Service!Spec

\* Http has an entry of every connection to port 80.
TableInv == {addr \in Connected : IsHttp(addr)} \subseteq table

\* What a step of TcpService tells of, was open; what it opens, it reports.
LEMMA ServiceStepTells ==
    ASSUME Service!Next
    PROVE  /\ \A e \in callbacks'.ended : e.addr \in Connected /\ e.addr \notin Connected'
           /\ \A i \in DOMAIN callbacks'.data : callbacks'.data[i].addr \in Connected
           /\ Connected' \subseteq Connected \cup callbacks'.opened
<1>1. ASSUME NEW addr \in Addr, Service!Connect(addr) PROVE Connected' = Connected \cup {addr}
      /\ callbacks' = [NoCallbacks EXCEPT !.opened = {addr}]
  BY <1>1 DEF Service!Connect, Service!Nothing, NoCallbacks
<1>2. CASE \E addr \in Addr : Service!Connect(addr)
  BY <1>1, <1>2 DEF NoCallbacks
<1>3. CASE \E addr \in Addr : Service!Deliver(addr)
  BY <1>3 DEF Service!Deliver
<1>4. CASE Service!Silent \/ \E addr \in Addr : Service!Drop(addr)
  BY <1>4 DEF Service!Drop, Service!Silent, Service!Nothing
<1>5. ASSUME NEW S \in SUBSET Connected, NEW kind, Service!End(kind, S)
      PROVE  /\ \A e \in callbacks'.ended : e.addr \in Connected /\ e.addr \notin Connected'
             /\ callbacks'.data = <<>>
             /\ Connected' \subseteq Connected \cup callbacks'.opened
  BY <1>5 DEF Service!End, Service!Nothing
<1> QED
  BY <1>2, <1>3, <1>4, <1>5 DEF Service!Next

\* Http's table follows every step.
LEMMA NextTableInv == IInv /\ TableInv /\ [HttpNext]_httpVars => TableInv'
<1> SUFFICES ASSUME IInv, TableInv, [HttpNext]_httpVars PROVE TableInv'
  OBVIOUS
<1>1. CASE HttpNext
  <2>1. Service!Next
    BY <1>1, NextService DEF HttpNext
  <2>2. table' = OnTcpConnection(OnTcpEnd(table, callbacks'.ended), callbacks'.opened)
    BY <1>1 DEF HttpNext
  <2> QED
    BY <2>1, <2>2, ServiceStepTells DEF TableInv, OnTcpConnection, OnTcpEnd
<1>2. CASE UNCHANGED httpVars
  BY <1>2 DEF httpVars, vars, TableInv, Connected, Live
<1> QED
  BY <1>1, <1>2

\* Http's table follows the connections: every data, close, timeout and reset
\* callback of a connection to port 80 finds its entry
\* (Http.cc:282-289, 347, 372).
THEOREM CallbacksFindEntryHolds == HttpSpec => CallbacksFindEntry
<1> DEFINE A == LET told == {e.addr : e \in callbacks'.ended}
                                \cup {callbacks'.data[i].addr : i \in DOMAIN callbacks'.data}
                IN  {addr \in told : IsHttp(addr)} \subseteq table
<1>1. HttpInit => TableInv
  BY DEF HttpInit, Init, TableInv, Connected, Live
<1>2. IInv /\ TableInv /\ [HttpNext]_httpVars => [A]_httpVars
  <2>1. ASSUME IInv, TableInv, HttpNext PROVE A
    <3>1. Service!Next
      BY <2>1, NextService DEF HttpNext
    <3> QED
      BY <2>1, <3>1, ServiceStepTells DEF TableInv
  <2> QED
    BY <2>1
<1>3. HttpSpec => []IInv
  BY HttpSpecIsSpec, Invariance, PTL
<1> QED
  BY <1>1, <1>2, <1>3, NextTableInv, PTL DEF HttpSpec, CallbacksFindEntry
==============================================================================
