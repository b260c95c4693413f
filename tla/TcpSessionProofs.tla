-------------------------- MODULE TcpSessionProofs ---------------------------
(***************************************************************************)
(* What holds of the sessions for every set of packets, every capacity of  *)
(* the circular buffer and every allocation of sessions and entries; at    *)
(* the end, that they implement SessionService.                            *)
(***************************************************************************)
EXTENDS TcpSession, WellFoundedInduction, TLAPS

----------------------------------------------------------------------------
(***************************************************************************)
(* The invariant, part by part.                                            *)
(***************************************************************************)

\* The types of the map, the sessions and the entries.
TablesOK ==
    /\ sessionDataMap_ \in [Flow -> Ptr \cup {Null}]
    /\ data \in [Ptr -> SessionData \cup {Null}]
    /\ weak_ \in [Entry -> Ptr \cup {Null}]

\* The map names sessions, each under its own flow.
MapNamesSessions ==
    /\ \A f \in Flow : sessionDataMap_[f] # Null =>
           /\ sessionDataMap_[f] \in Live
           /\ FlowOf(data[sessionDataMap_[f]].t4) = f
    /\ \A d \in Live : FlowOf(data[d].t4) \in Flow

\* Map, sessions, entries and buckets agree.
Linked ==
    /\ TablesOK
    /\ MapNamesSessions
    /\ SessionsHaveEntries
    /\ EntriesFindTheirOwn

\* A packet in hand has a bucket of its second to put entries in.
PacketHasBucket ==
    pc = "packet" => packet \in Packets /\ Len(sessionBuckets_) >= 1

\* The timer is ahead of the traffic once there is a bucket, and has made one
\* once it has run.
TimerAhead ==
    /\ Len(sessionBuckets_) >= 1 => clock < time
    /\ pc # "destroyed" /\ time >= 1 => Len(sessionBuckets_) >= 1

StartedBefore == \A d \in Live : data[d].startTime_ <= clock

IInv ==
    /\ TypeOK
    /\ Linked
    /\ PacketHasBucket
    /\ TimerAhead
    /\ StartedBefore
    /\ EndsAfterStart

----------------------------------------------------------------------------
(***************************************************************************)
(* Sessions, entries and buckets.                                          *)
(***************************************************************************)

\* An entry is alive when it is in one of the buckets.
LEMMA AliveIsInBucket ==
    ASSUME sessionBuckets_ \in Seq(SUBSET Entry)
    PROVE  /\ \A e : e \in Alive <=>
                  \E i \in 1 .. Len(sessionBuckets_) : e \in sessionBuckets_[i]
           /\ Alive \subseteq Entry
BY DEF Alive

\* A packet belongs to a flow.
LEMMA PacketFlow ==
    ASSUME NEW p \in Packets
    PROVE  p.t4 \in Endpoint \X Endpoint /\ FlowOf(p.t4) \in Flow /\ Packets \subseteq Packet
BY SessionAssumption DEF Flow, FlowOf, Packet

\* A session counts a packet and stays the same session.
LEMMA UpdatedSession ==
    ASSUME NEW s \in SessionData
    PROVE  /\ Updated(s) \in SessionData
           /\ Updated(s).t4 = s.t4
           /\ Updated(s).startTime_ = s.startTime_
           /\ Updated(s).context_ = s.context_
BY DEF Updated, SessionData

\* Freeing sessions with their places in the map, as onTimeOut and the end of a
\* connection do, keeps the others linked when the entries destroyed point to
\* the sessions freed and the entries of the others stay alive.
LEMMA ForgetKeepsLinks ==
    ASSUME Linked,
           NEW D, D \subseteq Ptr,
           NEW E, E \subseteq Entry,
           \A e \in E : weak_[e] \in D \cup {Null},
           Forget(D, E),
           \A e \in Alive \ E : e \in Alive' \/ weak_[e] \in D \cup {Null}
    PROVE  Linked' /\ Live' = Live \ D /\ \A d \in Live' : data'[d] = data[d]
<1>1. TablesOK'
  BY SessionAssumption DEF Forget, Linked, TablesOK
<1>2. Live' = Live \ D /\ \A d \in Live' : data'[d] = data[d]
  BY DEF Forget, Live
<1>3. MapNamesSessions'
  <2>1. \A f \in Flow : sessionDataMap_'[f] # Null =>
            sessionDataMap_'[f] = sessionDataMap_[f] /\ sessionDataMap_[f] \notin D
    BY DEF Forget
  <2>2. \A d \in Live' : FlowOf(data'[d].t4) = FlowOf(data[d].t4)
    BY <1>2
  <2>3. QED
    BY <1>2, <2>1, <2>2 DEF Linked, MapNamesSessions
<1>4. SessionsHaveEntries'
  <2>1. SUFFICES ASSUME NEW d \in Live'
                 PROVE  /\ sessionDataMap_'[FlowOf(data[d].t4)] = d
                        /\ data[d].context_ \in Alive'
                        /\ weak_'[data[d].context_] = d
    BY <1>2 DEF SessionsHaveEntries
  <2>2. d \in Live /\ d \notin D /\ d # Null /\ FlowOf(data[d].t4) \in Flow
    BY <1>2, SessionAssumption DEF Linked, MapNamesSessions, Live
  <2>3. /\ sessionDataMap_[FlowOf(data[d].t4)] = d
        /\ data[d].context_ \in Alive
        /\ weak_[data[d].context_] = d
    BY <2>2 DEF Linked, SessionsHaveEntries
  <2>4. data[d].context_ \in Entry
    BY <2>2 DEF Linked, TablesOK, Live, SessionData
  <2>5. data[d].context_ \notin E /\ data[d].context_ \in Alive'
    BY <2>2, <2>3
  <2>6. QED
    BY <2>2, <2>3, <2>4, <2>5 DEF Forget
<1>5. EntriesFindTheirOwn'
  BY <1>2 DEF Forget, Linked, EntriesFindTheirOwn
<1>6. QED
  BY <1>1, <1>2, <1>3, <1>4, <1>5 DEF Linked

\* What a timeout reports is well-formed, and ends after its start.
LEMMA TimeOutReports ==
    ASSUME Linked, StartedBefore, NEW E, E \subseteq Entry,
           NEW end \in Int, clock \in Nat, clock <= end, TimeOut(E, end)
    PROVE  reported' \subseteq Report /\ EndsAfterStart'
<1>. DEFINE D == {weak_[e] : e \in E} \ {Null}
<1>1. reported' = {ReportOf(d, end, FALSE) : d \in D}
  BY DEF TimeOut
<1>2. \A d \in D : d \in Live
  BY DEF Linked, EntriesFindTheirOwn
<1>3. \A d \in D : data[d] \in SessionData /\ data[d].startTime_ <= clock
  BY <1>2 DEF Linked, TablesOK, StartedBefore, Live
<1>4. ASSUME NEW d \in D
      PROVE  /\ ReportOf(d, end, FALSE) \in Report
             /\ ReportOf(d, end, FALSE).startTime_ <= ReportOf(d, end, FALSE).endTime_
  <2>1. data[d].startTime_ \in Nat /\ data[d].startTime_ <= end
    BY <1>3 DEF SessionData
  <2>2. QED
    BY <1>3, <2>1 DEF ReportOf, Report, SessionData
<1>5. QED
  BY <1>1, <1>4 DEF EndsAfterStart

----------------------------------------------------------------------------
(***************************************************************************)
(* The steps.                                                              *)
(***************************************************************************)

LEMMA InitHolds == Init => IInv
<1>. SUFFICES ASSUME Init PROVE IInv
  OBVIOUS
<1>1. Live = {} /\ sessionBuckets_ = <<>> /\ reported = {}
  BY DEF Init, Live
<1>2. TypeOK
  BY <1>1, SessionAssumption DEF Init, TypeOK
<1>3. Linked
  BY <1>1 DEF Init, Linked, TablesOK, MapNamesSessions, SessionsHaveEntries, EntriesFindTheirOwn
<1>4. QED
  BY <1>1, <1>2, <1>3 DEF Init, IInv, PacketHasBucket, TimerAhead, StartedBefore, EndsAfterStart

\* A session times out with the last bucket that shares its entry.
LEMMA ArriveKeeps ==
    ASSUME IInv, NEW p \in Packets, NEW now \in clock .. MaxTime, Arrive(p, now)
    PROVE  IInv'
<1>1. /\ sessionBuckets_ \in Seq(SUBSET Entry)
      /\ Len(sessionBuckets_) <= TimeoutSeconds
      /\ time \in Nat /\ clock \in Nat /\ now \in Nat /\ clock <= now /\ TimeoutSeconds \in Nat \ {0}
  BY SessionAssumption DEF IInv, TypeOK
<1>2. pc' = "packet" /\ packet' = p /\ clock' = now
  BY DEF Arrive
<1>3. CASE time <= now
  <2>1. /\ time' = now + 1
        /\ TimeOut(Dropped, now)
        /\ sessionBuckets_' = Append(IF Full THEN Tail(sessionBuckets_) ELSE sessionBuckets_, {})
    BY <1>3 DEF Arrive
  <2>2. /\ sessionBuckets_' \in Seq(SUBSET Entry)
        /\ Len(sessionBuckets_') <= TimeoutSeconds
        /\ Len(sessionBuckets_') >= 1
    BY <1>1, <2>1 DEF Full
  <2>3. Dropped \subseteq Entry
    BY <1>1 DEF Dropped, Full
  <2>4. \A e \in Alive \ Dropped : e \in Alive'
    <3>1. SUFFICES ASSUME NEW e \in Alive, e \notin Dropped
                   PROVE  \E i \in 1 .. Len(sessionBuckets_') : e \in sessionBuckets_'[i]
      BY <2>2, AliveIsInBucket DEF Alive
    <3>2. PICK i \in 1 .. Len(sessionBuckets_) : e \in sessionBuckets_[i]
      BY <1>1, AliveIsInBucket
    <3>3. CASE Full
      <4>1. PICK j \in 2 .. Len(sessionBuckets_) : e \in sessionBuckets_[j]
        BY <1>1, <3>1, <3>2, <3>3 DEF Dropped
      <4>2. Tail(sessionBuckets_)[j - 1] = sessionBuckets_[j]
        BY <1>1, <4>1
      <4>3. j - 1 \in 1 .. Len(Tail(sessionBuckets_)) /\ Tail(sessionBuckets_) \in Seq(SUBSET Entry)
        BY <1>1, <4>1
      <4>4. sessionBuckets_'[j - 1] = sessionBuckets_[j] /\ j - 1 \in 1 .. Len(sessionBuckets_')
        BY <2>1, <3>3, <4>2, <4>3
      <4>5. QED
        BY <4>1, <4>4
    <3>4. CASE ~Full
      BY <1>1, <2>1, <3>2, <3>4
    <3>5. QED
      BY <3>3, <3>4
  <2>5. Linked' /\ Live' = Live \ ({weak_[e] : e \in Dropped} \ {Null})
               /\ \A d \in Live' : data'[d] = data[d]
    <3>. DEFINE D == {weak_[e] : e \in Dropped} \ {Null}
    <3>1. D \subseteq Ptr /\ \A e \in Dropped : weak_[e] \in D \cup {Null}
      BY <2>3 DEF IInv, Linked, TablesOK
    <3>2. Forget(D, Dropped)
      BY <2>1 DEF TimeOut
    <3>3. Linked
      BY DEF IInv
    <3>. HIDE DEF D
    <3>4. Linked' /\ Live' = Live \ D /\ \A d \in Live' : data'[d] = data[d]
      BY <2>3, <2>4, <3>1, <3>2, <3>3, ForgetKeepsLinks
    <3>5. QED
      BY <3>4 DEF D
  <2>6. reported' \subseteq Report /\ EndsAfterStart'
    BY <1>1, <2>1, <2>3, TimeOutReports DEF IInv
  <2>7. TypeOK'
    BY <1>1, <1>2, <2>1, <2>2, <2>5, <2>6 DEF TypeOK, Linked, TablesOK
  <2>8. StartedBefore'
    <3>1. ASSUME NEW d \in Live' PROVE data'[d].startTime_ <= clock'
      <4>1. data'[d] = data[d] /\ d \in Live
        BY <2>5
      <4>2. data[d].startTime_ <= clock /\ data[d].startTime_ \in Nat
        BY <4>1 DEF IInv, StartedBefore, Linked, TablesOK, Live, SessionData
      <4>3. QED
        BY <1>1, <1>2, <4>1, <4>2
    <3>2. QED
      BY <3>1 DEF StartedBefore
  <2>9. PacketHasBucket' /\ TimerAhead'
    BY <1>1, <1>2, <2>1, <2>2 DEF PacketHasBucket, TimerAhead
  <2>10. QED
    BY <2>5, <2>6, <2>7, <2>8, <2>9 DEF IInv
<1>4. CASE ~(time <= now)
  <2>1. /\ time' = time /\ reported' = {}
        /\ UNCHANGED <<sessionDataMap_, data, weak_, sessionBuckets_>>
    BY <1>4 DEF Arrive
  <2>2. Len(sessionBuckets_) >= 1
    BY <1>1, <1>4 DEF IInv, TimerAhead, Arrive
  <2>3. TypeOK'
    BY <1>1, <1>2, <2>1 DEF IInv, TypeOK
  <2>4. Linked'
    BY <2>1 DEF IInv, Linked, TablesOK, MapNamesSessions, SessionsHaveEntries,
        EntriesFindTheirOwn, Live, Alive
  <2>5. StartedBefore'
    <3>1. \A d \in Live : data[d].startTime_ <= clock /\ data[d].startTime_ \in Nat
      BY DEF IInv, StartedBefore, Linked, TablesOK, Live, SessionData
    <3>2. QED
      BY <1>1, <1>2, <2>1, <3>1 DEF StartedBefore, Live
  <2>6. PacketHasBucket' /\ TimerAhead' /\ EndsAfterStart'
    BY <1>1, <1>2, <1>4, <2>1, <2>2 DEF PacketHasBucket, TimerAhead, EndsAfterStart
  <2>7. QED
    BY <2>3, <2>4, <2>5, <2>6 DEF IInv
<1>5. QED
  BY <1>3, <1>4

\* A SYN of an unknown flow makes a session and its entry.
LEMMA FirstConnectionKeeps ==
    ASSUME IInv, NEW d \in Ptr, NEW e \in Entry, FirstConnection(d, e)
    PROVE  IInv'
<1>. DEFINE f == FlowOf(packet.t4)
            n == Len(sessionBuckets_)
<1>1. /\ pc = "packet" /\ packet \in Packets /\ n >= 1 /\ clock < time
      /\ packet.t4 \in Endpoint \X Endpoint /\ f \in Flow
  BY PacketFlow DEF FirstConnection, IInv, PacketHasBucket, TimerAhead
<1>2. /\ sessionBuckets_ \in Seq(SUBSET Entry) /\ n \in Nat /\ n <= TimeoutSeconds
      /\ clock \in Nat /\ time \in Nat
  BY DEF IInv, TypeOK
<1>3. /\ sessionDataMap_[f] = Null /\ data[d] = Null /\ weak_[e] = Null
      /\ d # Null /\ d \notin Live
  BY SessionAssumption DEF FirstConnection, Session, Live
<1>4. /\ data' = [data EXCEPT ![d] = [t4 |-> packet.t4, startTime_ |-> clock,
                                       up |-> 1, down |-> 0, context_ |-> e]]
      /\ sessionDataMap_' = [sessionDataMap_ EXCEPT ![f] = d]
      /\ weak_' = [weak_ EXCEPT ![e] = d]
      /\ pc' = "idle" /\ packet' = Null /\ reported' = {}
      /\ time' = time /\ clock' = clock
  BY DEF FirstConnection, Return
<1>5. [t4 |-> packet.t4, startTime_ |-> clock, up |-> 1, down |-> 0, context_ |-> e]
         \in SessionData
  BY <1>1, <1>2 DEF SessionData
<1>6. TablesOK'
  BY <1>4, <1>5 DEF IInv, Linked, TablesOK
<1>7. /\ data'[d] # Null
      /\ data'[d].t4 = packet.t4 /\ data'[d].startTime_ = clock /\ data'[d].context_ = e
      /\ \A x \in Ptr \ {d} : data'[x] = data[x]
      /\ Live' = Live \cup {d}
  <2>1. data'[d] = [t4 |-> packet.t4, startTime_ |-> clock, up |-> 1, down |-> 0, context_ |-> e]
    BY <1>4 DEF IInv, Linked, TablesOK
  <2>2. data'[d] # Null
    BY <1>5, <2>1, SessionAssumption
  <2>3. \A x \in Ptr \ {d} : data'[x] = data[x]
    BY <1>4 DEF IInv, Linked, TablesOK
  <2>4. Live' = Live \cup {d}
    BY <2>2, <2>3 DEF Live
  <2>5. QED
    BY <2>1, <2>2, <2>3, <2>4
<1>8. \A x \in Live : x # d /\ FlowOf(data[x].t4) # f /\ data[x].context_ # e
                       /\ data[x].context_ \in Entry
  <2>1. \A x \in Live : data[x] \in SessionData /\ x \in Ptr /\ x # Null
    BY SessionAssumption DEF IInv, Linked, TablesOK, Live
  <2>2. QED
    BY <1>3, <2>1 DEF IInv, Linked, SessionsHaveEntries, SessionData
<1>9. /\ sessionBuckets_' \in Seq(SUBSET Entry)
      /\ Len(sessionBuckets_') = n
      /\ e \in sessionBuckets_'[n]
      /\ \A i \in 1 .. n : sessionBuckets_[i] \ {e} \subseteq sessionBuckets_'[i]
  <2>1. sessionBuckets_' = [i \in 1 .. n |-> IF i = n THEN sessionBuckets_[i] \cup {e}
                                             ELSE sessionBuckets_[i] \ {e}]
    BY <1>2 DEF FirstConnection
  <2>2. QED
    BY <1>1, <1>2, <2>1
<1>10. e \in Alive' /\ \A x \in Alive \ {e} : x \in Alive'
  <2>1. \A x : x \in Alive <=> \E i \in 1 .. n : x \in sessionBuckets_[i]
    BY <1>2, AliveIsInBucket
  <2>2. \A i \in 1 .. n : \A x : x \in sessionBuckets_'[i] => x \in Alive'
    BY <1>9 DEF Alive
  <2>3. QED
    BY <1>1, <1>2, <1>9, <2>1, <2>2
<1>11. MapNamesSessions'
  <2>1. \A g \in Flow \ {f} : sessionDataMap_'[g] = sessionDataMap_[g]
    BY <1>4 DEF IInv, Linked, TablesOK
  <2>2. sessionDataMap_'[f] = d
    BY <1>1, <1>4 DEF IInv, Linked, TablesOK
  <2>3. \A x \in Live : data'[x] = data[x] /\ x \in Live'
    BY <1>7, <1>8 DEF Live
  <2>4. QED
    BY <1>1, <1>7, <2>1, <2>2, <2>3 DEF IInv, Linked, MapNamesSessions
<1>12. SessionsHaveEntries'
  <2>1. ASSUME NEW x \in Live
        PROVE  /\ sessionDataMap_'[FlowOf(data[x].t4)] = x
               /\ data[x].context_ \in Alive'
               /\ weak_'[data[x].context_] = x
               /\ data'[x] = data[x]
    <3>1. /\ sessionDataMap_[FlowOf(data[x].t4)] = x
          /\ data[x].context_ \in Alive
          /\ weak_[data[x].context_] = x
          /\ FlowOf(data[x].t4) \in Flow
      BY DEF IInv, Linked, SessionsHaveEntries, MapNamesSessions
    <3>2. sessionDataMap_'[FlowOf(data[x].t4)] = x /\ weak_'[data[x].context_] = x
      BY <1>4, <1>8, <3>1 DEF IInv, Linked, TablesOK
    <3>3. data'[x] = data[x]
      BY <1>7, <1>8 DEF Live
    <3>4. QED
      BY <1>8, <1>10, <3>1, <3>2, <3>3
  <2>2. sessionDataMap_'[FlowOf(data'[d].t4)] = d /\ weak_'[data'[d].context_] = d
    BY <1>1, <1>4, <1>7 DEF IInv, Linked, TablesOK
  <2>3. QED
    BY <1>7, <1>10, <2>1, <2>2 DEF SessionsHaveEntries
<1>13. EntriesFindTheirOwn'
  <2>1. \A x \in Entry \ {e} : weak_'[x] = weak_[x]
    BY <1>4 DEF IInv, Linked, TablesOK
  <2>2. weak_'[e] = d
    BY <1>4 DEF IInv, Linked, TablesOK
  <2>3. \A x \in Live : data'[x] = data[x]
    BY <1>7, <1>8 DEF Live
  <2>4. QED
    BY <1>7, <2>1, <2>2, <2>3 DEF IInv, Linked, EntriesFindTheirOwn
<1>14. TypeOK'
  BY <1>2, <1>4, <1>6, <1>9 DEF IInv, TypeOK, TablesOK
<1>15. StartedBefore'
  <2>1. \A x \in Live : data'[x] = data[x]
    BY <1>7, <1>8 DEF Live
  <2>2. QED
    BY <1>2, <1>4, <1>7, <2>1 DEF IInv, StartedBefore
<1>16. PacketHasBucket' /\ TimerAhead' /\ EndsAfterStart'
  BY <1>1, <1>4, <1>9 DEF PacketHasBucket, TimerAhead, EndsAfterStart
<1>17. QED
  BY <1>6, <1>11, <1>12, <1>13, <1>14, <1>15, <1>16 DEF IInv, Linked

\* A FIN or an RST ends the session it belongs to.
LEMMA CloseConnectionKeeps ==
    ASSUME IInv, CloseConnection
    PROVE  IInv'
<1>. DEFINE s == Updated(data[Session])
<1>1. /\ pc = "packet" /\ packet \in Packets /\ FlowOf(packet.t4) \in Flow
      /\ Session # Null /\ Len(sessionBuckets_) >= 1
  BY PacketFlow DEF CloseConnection, HasEntry, IInv, PacketHasBucket
<1>2. Session \in Live /\ Session \in Ptr /\ data[Session] \in SessionData
  BY <1>1 DEF Session, IInv, Linked, MapNamesSessions, TablesOK, Live
<1>3. /\ reported' = {[t4 |-> s.t4, startTime_ |-> s.startTime_, endTime_ |-> clock,
                        up |-> s.up, down |-> s.down, normallyClosed_ |-> TRUE]}
      /\ Forget({Session}, {})
      /\ sessionBuckets_' = sessionBuckets_
      /\ pc' = "idle" /\ packet' = Null /\ time' = time /\ clock' = clock
  BY DEF CloseConnection, Return
<1>4. s \in SessionData /\ s.startTime_ = data[Session].startTime_
  BY <1>2, UpdatedSession
<1>5. Alive' = Alive
  BY <1>3 DEF Alive
<1>6. Linked' /\ Live' = Live \ {Session} /\ \A d \in Live' : data'[d] = data[d]
  <2>. DEFINE D == {Session}
  <2>1. Linked /\ D \subseteq Ptr /\ Forget(D, {})
    BY <1>2, <1>3 DEF IInv
  <2>. HIDE DEF D
  <2>2. Linked' /\ Live' = Live \ D /\ \A d \in Live' : data'[d] = data[d]
    BY <1>5, <2>1, ForgetKeepsLinks
  <2>3. QED
    BY <2>2 DEF D
<1>7. reported' \subseteq Report /\ EndsAfterStart'
  <2>1. clock \in Nat /\ s.startTime_ <= clock
    BY <1>2, <1>4 DEF IInv, TypeOK, StartedBefore
  <2>2. QED
    BY <1>3, <1>4, <2>1 DEF Report, SessionData, EndsAfterStart
<1>8. TypeOK'
  BY <1>3, <1>6, <1>7 DEF IInv, TypeOK, Linked, TablesOK
<1>9. StartedBefore'
  BY <1>3, <1>6 DEF IInv, StartedBefore
<1>10. PacketHasBucket' /\ TimerAhead'
  BY <1>1, <1>3 DEF IInv, PacketHasBucket, TimerAhead
<1>11. QED
  BY <1>6, <1>7, <1>8, <1>9, <1>10 DEF IInv

\* A message puts the entry of its session into the bucket of this second.
LEMMA MessageKeeps ==
    ASSUME IInv, Message
    PROVE  IInv'
<1>. DEFINE n == Len(sessionBuckets_)
            x == data[Session].context_
<1>1. /\ pc = "packet" /\ packet \in Packets /\ FlowOf(packet.t4) \in Flow
      /\ Session # Null /\ n >= 1
  BY PacketFlow DEF Message, HasEntry, IInv, PacketHasBucket
<1>2. Session \in Live /\ Session \in Ptr /\ data[Session] \in SessionData
  BY <1>1 DEF Session, IInv, Linked, MapNamesSessions, TablesOK, Live
<1>3. /\ data' = [data EXCEPT ![Session] = Updated(data[Session])]
      /\ sessionBuckets_' = [sessionBuckets_ EXCEPT ![n] = sessionBuckets_[n] \cup {x}]
      /\ sessionDataMap_' = sessionDataMap_ /\ weak_' = weak_ /\ reported' = {}
      /\ pc' = "idle" /\ packet' = Null /\ time' = time /\ clock' = clock
  BY DEF Message, Return
<1>4. Updated(data[Session]) \in SessionData /\ x \in Entry
  BY <1>2, UpdatedSession DEF SessionData
<1>5. /\ data' \in [Ptr -> SessionData \cup {Null}]
      /\ Live' = Live
      /\ \A d \in Live : /\ data'[d].t4 = data[d].t4
                         /\ data'[d].startTime_ = data[d].startTime_
                         /\ data'[d].context_ = data[d].context_
  <2>1. data' \in [Ptr -> SessionData \cup {Null}]
    BY <1>2, <1>3, <1>4 DEF IInv, Linked, TablesOK
  <2>2. data'[Session] = Updated(data[Session]) /\ data'[Session] # Null
    BY <1>2, <1>3, <1>4, SessionAssumption DEF IInv, Linked, TablesOK
  <2>3. \A d \in Ptr \ {Session} : data'[d] = data[d]
    BY <1>3 DEF IInv, Linked, TablesOK
  <2>4. Live' = Live
    BY <1>2, <2>2, <2>3 DEF Live
  <2>5. \A d \in Live : d \in Ptr
    BY DEF Live
  <2>6. QED
    BY <1>2, <2>1, <2>2, <2>3, <2>4, <2>5, UpdatedSession
<1>6. /\ sessionBuckets_ \in Seq(SUBSET Entry) /\ n \in Nat /\ n <= TimeoutSeconds
      /\ sessionBuckets_' \in Seq(SUBSET Entry) /\ Len(sessionBuckets_') = n
      /\ \A i \in 1 .. n : sessionBuckets_[i] \subseteq sessionBuckets_'[i]
  <2>1. sessionBuckets_ \in Seq(SUBSET Entry) /\ n \in Nat /\ n <= TimeoutSeconds
    BY DEF IInv, TypeOK
  <2>2. sessionBuckets_[n] \cup {x} \in SUBSET Entry
    BY <1>1, <1>4, <2>1
  <2>3. QED
    BY <1>1, <1>3, <2>1, <2>2
<1>7. Alive \subseteq Alive'
  <2>1. \A y : y \in Alive => \E i \in 1 .. n : y \in sessionBuckets_[i]
    BY <1>6, AliveIsInBucket
  <2>2. \A i \in 1 .. n : \A y : y \in sessionBuckets_'[i] => y \in Alive'
    BY <1>6 DEF Alive
  <2>3. QED
    BY <1>6, <2>1, <2>2
<1>8. TablesOK' /\ MapNamesSessions'
  BY <1>3, <1>5 DEF IInv, Linked, TablesOK, MapNamesSessions
<1>9. SessionsHaveEntries'
  BY <1>3, <1>5, <1>7 DEF IInv, Linked, SessionsHaveEntries
<1>10. EntriesFindTheirOwn'
  BY <1>3, <1>5 DEF IInv, Linked, EntriesFindTheirOwn
<1>11. TypeOK'
  BY <1>3, <1>6, <1>8 DEF IInv, TypeOK, TablesOK
<1>12. StartedBefore'
  BY <1>3, <1>5 DEF IInv, StartedBefore
<1>13. PacketHasBucket' /\ TimerAhead' /\ EndsAfterStart'
  BY <1>1, <1>3, <1>6 DEF IInv, PacketHasBucket, TimerAhead, EndsAfterStart
<1>14. QED
  BY <1>8, <1>9, <1>10, <1>11, <1>12, <1>13 DEF IInv, Linked

\* The end of the thread times out what is left.
LEMMA DestroyKeeps ==
    ASSUME IInv, Destroy
    PROVE  IInv'
<1>. DEFINE D == {weak_[e] : e \in Alive} \ {Null}
<1>1. /\ sessionBuckets_ \in Seq(SUBSET Entry) /\ clock \in Nat /\ time \in Nat
      /\ Alive \subseteq Entry
  BY AliveIsInBucket DEF IInv, TypeOK
<1>2. /\ pc' = "destroyed" /\ sessionBuckets_' = <<>> /\ TimeOut(Alive, time - 1)
      /\ time' = time /\ clock' = clock /\ packet' = packet
  BY DEF Destroy
<1>3. Linked' /\ Live' = Live \ D /\ \A d \in Live' : data'[d] = data[d]
  <2>1. D \subseteq Ptr /\ \A e \in Alive : weak_[e] \in D \cup {Null}
    BY <1>1 DEF IInv, Linked, TablesOK
  <2>2. Linked /\ Forget(D, Alive)
    BY <1>2 DEF TimeOut, IInv
  <2>. HIDE DEF D
  <2>3. QED
    BY <1>1, <2>1, <2>2, ForgetKeepsLinks
<1>4. reported' \subseteq Report /\ EndsAfterStart'
  <2>1. CASE Alive = {}
    BY <1>2, <2>1 DEF TimeOut, EndsAfterStart
  <2>2. CASE Alive # {}
    <3>1. Len(sessionBuckets_) >= 1
      BY <1>1, <2>2, AliveIsInBucket
    <3>2. time - 1 \in Int /\ clock <= time - 1
      BY <1>1, <3>1 DEF IInv, TimerAhead
    <3>3. QED
      BY <1>1, <1>2, <3>2, TimeOutReports DEF IInv
  <2>3. QED
    BY <2>1, <2>2
<1>5. TypeOK'
  BY <1>2, <1>3, <1>4, SessionAssumption DEF IInv, TypeOK, Linked, TablesOK
<1>6. StartedBefore'
  BY <1>2, <1>3 DEF IInv, StartedBefore
<1>7. PacketHasBucket' /\ TimerAhead'
  BY <1>2 DEF PacketHasBucket, TimerAhead
<1>8. QED
  BY <1>3, <1>4, <1>5, <1>6, <1>7 DEF IInv

LEMMA NextKeeps == IInv /\ [Next]_vars => IInv'
<1>. SUFFICES ASSUME IInv, [Next]_vars PROVE IInv'
  OBVIOUS
<1>1. CASE \E p \in Packets, now \in clock .. MaxTime : Arrive(p, now)
  BY <1>1, ArriveKeeps
<1>2. CASE IgnorePacket
  <2>1. /\ UNCHANGED <<sessionDataMap_, data, weak_, sessionBuckets_, time, clock>>
        /\ pc' = "idle" /\ packet' = Null /\ reported' = {}
        /\ pc = "packet"
    BY <1>2 DEF IgnorePacket, Return
  <2>2. Linked'
    BY <2>1 DEF IInv, Linked, TablesOK, MapNamesSessions, SessionsHaveEntries,
        EntriesFindTheirOwn, Live, Alive
  <2>3. TypeOK'
    BY <2>1 DEF IInv, TypeOK
  <2>4. QED
    BY <2>1, <2>2, <2>3 DEF IInv, PacketHasBucket, TimerAhead, StartedBefore,
        EndsAfterStart, Live
<1>3. CASE \E d \in Ptr, e \in Entry : FirstConnection(d, e)
  BY <1>3, FirstConnectionKeeps
<1>4. CASE CloseConnection
  BY <1>4, CloseConnectionKeeps
<1>5. CASE Message
  BY <1>5, MessageKeeps
<1>6. CASE Destroy
  BY <1>6, DestroyKeeps
<1>7. CASE UNCHANGED vars
  <2>1. Linked'
    BY <1>7 DEF vars, IInv, Linked, TablesOK, MapNamesSessions, SessionsHaveEntries,
        EntriesFindTheirOwn, Live, Alive
  <2>2. TypeOK'
    BY <1>7 DEF vars, IInv, TypeOK
  <2>3. QED
    BY <1>7, <2>1, <2>2 DEF vars, IInv, PacketHasBucket, TimerAhead, StartedBefore,
        EndsAfterStart, Live
<1>8. QED
  BY <1>1, <1>2, <1>3, <1>4, <1>5, <1>6, <1>7 DEF Next, Destroyed

\* The invariant holds of every run.
LEMMA Invariant == Spec => []IInv
<1>1. Init => IInv
  BY InitHolds
<1>2. IInv /\ [Next]_vars => IInv'
  BY NextKeeps
<1>3. QED
  BY <1>1, <1>2, PTL DEF Spec

----------------------------------------------------------------------------
(***************************************************************************)
(* The theorems.                                                           *)
(***************************************************************************)

\* The map, the sessions, the entries, the buckets and what onTimeOut and the
\* end of a connection report are well-formed; there are never more buckets
\* than the constructor of TcpSession asks for.
THEOREM TypeCorrect == Spec => []TypeOK
<1>1. IInv => TypeOK
  BY DEF IInv
<1>2. QED
  BY <1>1, Invariant, PTL

\* For every capacity of the buffer a session that is in the map has an entry
\* in a bucket, and is the only one of its flow: onTcpData never meets a dead
\* connection.
THEOREM SessionsHaveEntriesHolds == Spec => []SessionsHaveEntries
<1>1. IInv => SessionsHaveEntries
  BY DEF IInv, Linked
<1>2. QED
  BY <1>1, Invariant, PTL

\* ~Entry times out no session but the one the entry was made for.
THEOREM EntriesFindTheirOwnHolds == Spec => []EntriesFindTheirOwn
<1>1. IInv => EntriesFindTheirOwn
  BY DEF IInv, Linked
<1>2. QED
  BY <1>1, Invariant, PTL

\* When time stamps do not go back, no session is reported to end before it
\* started, also when the second of the timer is what ends it.
THEOREM EndsAfterStartHolds == Spec => []EndsAfterStart
<1>1. IInv => EndsAfterStart
  BY DEF IInv
<1>2. QED
  BY <1>1, Invariant, PTL

----------------------------------------------------------------------------
(***************************************************************************)
(* TcpSession implements SessionService: a flow that sends a SYN has a     *)
(* session, which is reported once, with its counts, when it is over.      *)
(***************************************************************************)
----------------------------------------------------------------------------
(***************************************************************************)
(* How long an entry has been quiet: the buckets b behind the last one     *)
(* that shares it.                                                         *)
(***************************************************************************)

QuietIn(b, e) == Len(b) - Max({i \in DOMAIN b : e \in b[i]})

\* The last bucket with the entry e is b[m].
Latest(b, e, m) ==
    /\ m \in 1 .. Len(b)
    /\ e \in b[m]
    /\ \A i \in m + 1 .. Len(b) : e \notin b[i]

LEMMA QuietSinceLatest ==
    ASSUME NEW b \in Seq(SUBSET Entry), NEW e, NEW m, Latest(b, e, m)
    PROVE  QuietIn(b, e) = Len(b) - m
<1>. DEFINE S == {i \in DOMAIN b : e \in b[i]}
<1>1. m \in S /\ \A i \in S : i \in 1 .. Len(b) /\ m >= i
  <2>1. Len(b) \in Nat /\ DOMAIN b = 1 .. Len(b)
    OBVIOUS
  <2>2. m \in S
    BY <2>1 DEF Latest
  <2>3. ASSUME NEW i \in S PROVE i \in 1 .. Len(b) /\ m >= i
    <3>1. i \in 1 .. Len(b) /\ m \in 1 .. Len(b) /\ ~(i \in m + 1 .. Len(b))
      BY <2>1 DEF Latest
    <3>2. QED
      BY <2>1, <3>1
  <2>4. QED
    BY <2>2, <2>3
<1>2. \A x \in S : (\A i \in S : x >= i) => x = m
  BY <1>1
<1>3. Max(S) = m
  BY <1>1, <1>2 DEF Max
<1>4. QED
  BY <1>3 DEF QuietIn

LEMMA LatestExists ==
    ASSUME NEW b \in Seq(SUBSET Entry), NEW e, \E i \in 1 .. Len(b) : e \in b[i]
    PROVE  \E m : Latest(b, e, m)
<1>. DEFINE R == OpToRel(<, Nat)
            n == Len(b)
            T == {x \in Nat : x < n /\ e \in b[n - x]}
<1>1. IsWellFoundedOn(R, Nat)
  BY NatLessThanWellFounded
<1>a. \A x, y \in Nat : x < y => <<x, y>> \in R
  BY DEF OpToRel
<1>2. n \in Nat
  OBVIOUS
<1>3. PICK i \in 1 .. n : e \in b[i]
  OBVIOUS
<1>4. n - i \in Nat /\ n - i < n /\ n - (n - i) = i
  BY <1>2
<1>5. T \subseteq Nat /\ T # {}
  BY <1>3, <1>4
<1>. HIDE DEF R, T
<1>6. PICK x \in T : \A y \in T : ~(<<y, x>> \in R)
  BY <1>1, <1>5, WFMin
<1>7. n - x \in 1 .. n /\ e \in b[n - x]
  BY <1>2, <1>6 DEF T
<1>8. ASSUME NEW j \in n - x + 1 .. n PROVE e \notin b[j]
  <2>1. n - j \in Nat /\ n - j < x /\ n - j < n /\ n - (n - j) = j /\ x \in Nat
    BY <1>2, <1>6, <1>7 DEF T
  <2>2. n - j \notin T
    BY <1>a, <1>6, <2>1
  <2>3. QED
    BY <2>1, <2>2 DEF T
<1>9. Latest(b, e, n - x)
  BY <1>7, <1>8 DEF Latest
<1>10. QED
  BY <1>9

----------------------------------------------------------------------------
(***************************************************************************)
(* What the service sees of a session.                                     *)
(***************************************************************************)

Shown(d, table, buckets) ==
    [t4 |-> table[d].t4, startTime_ |-> table[d].startTime_, up |-> table[d].up,
     down |-> table[d].down, quiet |-> QuietIn(buckets, table[d].context_)]

OpenIsShown ==
    Open = [f \in Flow |-> IF sessionDataMap_[f] = Null THEN Null
                           ELSE Shown(sessionDataMap_[f], data, sessionBuckets_)]

LEMMA OpenShown == OpenIsShown
BY DEF OpenIsShown, Open, Shown, Quiet, QuietIn

\* The session of a flow, with its entry.
LEMMA SessionOf ==
    ASSUME IInv, NEW f \in Flow, sessionDataMap_[f] # Null
    PROVE  LET d == sessionDataMap_[f]
               e == data[d].context_
           IN  /\ d \in Live /\ d \in Ptr /\ data[d] \in SessionData /\ FlowOf(data[d].t4) = f
               /\ e \in Entry /\ weak_[e] = d
               /\ \E m : Latest(sessionBuckets_, e, m)
               /\ Open[f] = Shown(d, data, sessionBuckets_)
               /\ Open[f] # Null
<1>. DEFINE d == sessionDataMap_[f]
            e == data[d].context_
            q == QuietIn(sessionBuckets_, e)
<1>1. d \in Live /\ d \in Ptr /\ data[d] \in SessionData /\ FlowOf(data[d].t4) = f
  BY DEF IInv, Linked, MapNamesSessions, TablesOK, Live
<1>2. e \in Entry /\ weak_[e] = d /\ e \in Alive
  BY <1>1 DEF IInv, Linked, SessionsHaveEntries, SessionData
<1>3. sessionBuckets_ \in Seq(SUBSET Entry) /\ Len(sessionBuckets_) \in Nat
  BY DEF IInv, TypeOK
<1>4. PICK m : Latest(sessionBuckets_, e, m)
  <2>1. \E i \in 1 .. Len(sessionBuckets_) : e \in sessionBuckets_[i]
    BY <1>2, <1>3, AliveIsInBucket
  <2>2. QED
    BY <1>3, <2>1, LatestExists
<1>5. q \in Nat
  <2>1. q = Len(sessionBuckets_) - m
    BY <1>3, <1>4, QuietSinceLatest
  <2>2. QED
    BY <1>3, <1>4, <2>1 DEF Latest
<1>6. Open[f] = Shown(d, data, sessionBuckets_)
  BY OpenShown DEF OpenIsShown
<1>7. Shown(d, data, sessionBuckets_) \in OpenSession
  BY <1>1, <1>5 DEF Shown, OpenSession, SessionData
<1>8. QED
  BY <1>1, <1>2, <1>4, <1>6, <1>7, SessionAssumption

\* A flow without a session.
LEMMA NoSessionOf ==
    ASSUME NEW f \in Flow, sessionDataMap_[f] = Null
    PROVE  Open[f] = Null
BY OpenShown DEF OpenIsShown

\* Each session is the one of its flow.
LEMMA FlowOfSession ==
    ASSUME IInv, NEW d \in Live
    PROVE  /\ FlowOf(data[d].t4) \in Flow
           /\ sessionDataMap_[FlowOf(data[d].t4)] = d
           /\ d # Null
BY SessionAssumption DEF IInv, Linked, MapNamesSessions, SessionsHaveEntries, Live

\* The clock and the timer stay within the seconds of the service.
Bounded == clock <= MaxTime /\ time <= MaxTime + 1

LEMMA InitBounded == Init => Bounded
BY SessionAssumption DEF Init, Bounded

LEMMA NextBounded == IInv /\ Bounded /\ [Next]_vars => Bounded'
<1>. SUFFICES ASSUME IInv, Bounded, [Next]_vars PROVE Bounded'
  OBVIOUS
<1>1. ASSUME NEW p \in Packets, NEW now \in clock .. MaxTime, Arrive(p, now) PROVE Bounded'
  <2>1. /\ clock' = now /\ time' = (IF time <= now THEN now + 1 ELSE time)
        /\ clock \in Nat /\ time \in Nat /\ MaxTime \in Nat
    BY <1>1, SessionAssumption DEF Arrive, IInv, TypeOK
  <2>2. QED
    BY <2>1 DEF Bounded
<1>2. CASE UNCHANGED <<time, clock>>
  BY <1>2 DEF Bounded
<1>3. QED
  BY <1>1, <1>2 DEF Next, vars, IgnorePacket, FirstConnection, CloseConnection, Message,
      Destroy, Destroyed, Return

----------------------------------------------------------------------------
(***************************************************************************)
(* The steps of the service.                                               *)
(***************************************************************************)

\* The bucket that is dropped is the last with the entry exactly when the
\* session has been quiet for all buckets, and otherwise the next second finds
\* it quiet for one more.
LEMMA Aging ==
    ASSUME IInv, NEW e \in Entry, NEW m, Latest(sessionBuckets_, e, m),
           NEW b, b = Append(IF Full THEN Tail(sessionBuckets_) ELSE sessionBuckets_, {})
    PROVE  /\ e \in Dropped <=> QuietIn(sessionBuckets_, e) + 1 = TimeoutSeconds
           /\ e \notin Dropped => QuietIn(b, e) = QuietIn(sessionBuckets_, e) + 1
<1>. DEFINE a == sessionBuckets_
            n == Len(a)
<1>1. /\ a \in Seq(SUBSET Entry) /\ n \in Nat /\ n <= TimeoutSeconds /\ TimeoutSeconds \in Nat \ {0}
      /\ m \in 1 .. n /\ e \in a[m] /\ \A i \in m + 1 .. n : e \notin a[i]
  BY SessionAssumption DEF IInv, TypeOK, Latest
<1>2. QuietIn(a, e) = n - m
  BY <1>1, QuietSinceLatest
<1>3. CASE Full
  <2>1. n = TimeoutSeconds /\ Head(a) = a[1]
    BY <1>1, <1>3 DEF Full
  <2>2. e \in Dropped <=> m = 1
    BY <1>1, <1>3, <2>1 DEF Dropped
  <2>3. ASSUME m # 1 PROVE QuietIn(b, e) = n - m + 1
    <3>1. b \in Seq(SUBSET Entry) /\ Len(b) = n /\ b[n] = {} /\ \A i \in 1 .. n - 1 : b[i] = a[i + 1]
      BY <1>1, <1>3
    <3>2. m - 1 \in 1 .. n - 1 /\ (m - 1) + 1 = m
      BY <1>1, <2>3
    <3>3. ASSUME NEW i \in m .. n PROVE e \notin b[i]
      <4>1. CASE i = n
        BY <3>1, <4>1
      <4>2. CASE i # n
        <5>1. i \in 1 .. n - 1 /\ i + 1 \in m + 1 .. n
          BY <1>1, <4>2
        <5>2. QED
          BY <1>1, <3>1, <5>1
      <4>3. QED
        BY <4>1, <4>2
    <3>4. Latest(b, e, m - 1)
      BY <1>1, <3>1, <3>2, <3>3 DEF Latest
    <3>5. QuietIn(b, e) = Len(b) - (m - 1)
      BY <3>1, <3>4, QuietSinceLatest
    <3>6. QED
      BY <1>1, <3>1, <3>5
  <2>4. QED
    BY <1>1, <1>2, <2>1, <2>2, <2>3
<1>4. CASE ~Full
  <2>1. n < TimeoutSeconds /\ e \notin Dropped
    BY <1>1, <1>4 DEF Full, Dropped
  <2>2. b \in Seq(SUBSET Entry) /\ Len(b) = n + 1 /\ b[n + 1] = {} /\ \A i \in 1 .. n : b[i] = a[i]
    BY <1>1, <1>4
  <2>3. Latest(b, e, m)
    BY <1>1, <2>2 DEF Latest
  <2>4. QuietIn(b, e) = Len(b) - m
    BY <2>2, <2>3, QuietSinceLatest
  <2>5. QED
    BY <1>1, <1>2, <2>1, <2>2, <2>4
<1>5. QED
  BY <1>3, <1>4

\* D are the sessions with an entry in E.
HaveEntryIn(D, E) ==
    /\ D \subseteq Live
    /\ \A d \in Live : d \in D <=> data[d].context_ \in E

\* ~Entry reaches the sessions whose own entry it is.
LEMMA TimedOut ==
    ASSUME IInv, NEW E, E \subseteq Entry
    PROVE  HaveEntryIn({weak_[e] : e \in E} \ {Null}, E)
<1>. DEFINE D == {weak_[e] : e \in E} \ {Null}
<1>1. D \subseteq Live /\ \A d \in D : data[d].context_ \in E
  BY DEF IInv, Linked, EntriesFindTheirOwn
<1>2. ASSUME NEW d \in Live, data[d].context_ \in E PROVE d \in D
  <2>1. weak_[data[d].context_] = d /\ d # Null
    BY SessionAssumption DEF IInv, Linked, SessionsHaveEntries, Live
  <2>2. QED
    BY <1>2, <2>1
<1>3. QED
  BY <1>1, <1>2 DEF HaveEntryIn

\* What is left to see of the sessions when those of D are erased.
LEMMA ForgetShows ==
    ASSUME IInv, NEW D, Null \notin D, NEW E, Forget(D, E), NEW f \in Flow
    PROVE  Open'[f] = IF sessionDataMap_[f] = Null \/ sessionDataMap_[f] \in D THEN Null
                      ELSE Shown(sessionDataMap_[f], data, sessionBuckets_')
<1>. DEFINE d == sessionDataMap_[f]
<1>1. OpenIsShown'
  BY OpenShown, PTL
<1>2. sessionDataMap_'[f] = IF d \in D THEN Null ELSE d
  BY DEF Forget
<1>3. CASE d = Null \/ d \in D
  BY <1>1, <1>2, <1>3 DEF OpenIsShown
<1>4. CASE ~(d = Null \/ d \in D)
  <2>1. d \in Ptr
    BY <1>4, SessionOf
  <2>2. data'[d] = data[d]
    BY <1>4, <2>1 DEF Forget
  <2>3. Open'[f] = Shown(d, data', sessionBuckets_')
    BY <1>1, <1>2, <1>4 DEF OpenIsShown
  <2>4. QED
    BY <1>4, <2>2, <2>3 DEF Shown
<1>5. QED
  BY <1>3, <1>4

\* The reports of the sessions D, and those of their flows.

ReportsOf(A, D, end) == \A r : r \in A <=> \E d \in D : r = ReportOf(d, end, FALSE)

ReportsFor(B, D, end) ==
    \A r : r \in B <=> \E f \in Flow : /\ sessionDataMap_[f] \in D
                                      /\ r = Service!ReportFor(Open[f], end, FALSE)

LEMMA TimeOutShows ==
    ASSUME IInv, NEW D, D \subseteq Live, NEW end, NEW A, NEW B,
           ReportsOf(A, D, end), ReportsFor(B, D, end)
    PROVE  A = B
<1>1. ASSUME NEW f \in Flow, sessionDataMap_[f] \in D
      PROVE  ReportOf(sessionDataMap_[f], end, FALSE) = Service!ReportFor(Open[f], end, FALSE)
  <2>1. sessionDataMap_[f] # Null
    BY <1>1, SessionAssumption DEF Live
  <2>2. Open[f] = Shown(sessionDataMap_[f], data, sessionBuckets_)
    BY <2>1, SessionOf
  <2>3. QED
    BY <2>2 DEF ReportOf, Service!ReportFor, Shown
<1>2. ASSUME NEW d \in D
      PROVE  \E f \in Flow : sessionDataMap_[f] = d
  BY FlowOfSession
<1>3. ASSUME NEW r \in A PROVE r \in B
  <2>1. PICK d \in D : r = ReportOf(d, end, FALSE)
    BY <1>3 DEF ReportsOf
  <2>2. QED
    BY <1>1, <1>2, <2>1 DEF ReportsFor
<1>4. ASSUME NEW r \in B PROVE r \in A
  <2>1. PICK f \in Flow : sessionDataMap_[f] \in D /\ r = Service!ReportFor(Open[f], end, FALSE)
    BY <1>4 DEF ReportsFor
  <2>2. QED
    BY <1>1, <2>1 DEF ReportsOf
<1>5. QED
  BY <1>3, <1>4

\* A second begins with the bucket the timer pushes.
LEMMA TickServes ==
    ASSUME IInv, NEW p \in Packets, NEW now \in clock .. MaxTime, Arrive(p, now), time <= now
    PROVE  Service!Tick(now)
<1>. DEFINE b == sessionBuckets_'
            D == {weak_[e] : e \in Dropped} \ {Null}
            late == {f \in Service!Sessions : Open[f].quiet + 1 = TimeoutSeconds}
<1>1. /\ Forget(D, Dropped)
      /\ reported' = {ReportOf(d, now, FALSE) : d \in D}
      /\ b = Append(IF Full THEN Tail(sessionBuckets_) ELSE sessionBuckets_, {})
  BY DEF Arrive, TimeOut
<1>2. Dropped \subseteq Entry
  <2>1. /\ sessionBuckets_ \in Seq(SUBSET Entry) /\ TimeoutSeconds \in Nat \ {0}
        /\ Len(sessionBuckets_) \in Nat
    BY SessionAssumption DEF IInv, TypeOK
  <2>2. QED
    BY <2>1 DEF Dropped, Full
<1>3. D \subseteq Live /\ \A d \in Live : d \in D <=> data[d].context_ \in Dropped
  <2>1. HaveEntryIn(D, Dropped)
    BY <1>2, TimedOut
  <2>2. QED
    BY <2>1 DEF HaveEntryIn
<1>4. Null \notin D
  OBVIOUS
<1>. HIDE DEF D, late
<1>5. ASSUME NEW f \in Flow, sessionDataMap_[f] # Null
      PROVE  /\ Open[f] # Null
             /\ sessionDataMap_[f] \in D <=> f \in late
             /\ sessionDataMap_[f] \notin D =>
                    Shown(sessionDataMap_[f], data, b) = [Open[f] EXCEPT !.quiet = @ + 1]
  <2>. DEFINE d == sessionDataMap_[f]
              e == data[d].context_
  <2>1. /\ d \in Live /\ e \in Entry /\ Open[f] # Null
        /\ Open[f] = Shown(d, data, sessionBuckets_)
    BY <1>5, SessionOf
  <2>2. PICK m : Latest(sessionBuckets_, e, m)
    BY <1>5, SessionOf
  <2>3. /\ e \in Dropped <=> QuietIn(sessionBuckets_, e) + 1 = TimeoutSeconds
        /\ e \notin Dropped => QuietIn(b, e) = QuietIn(sessionBuckets_, e) + 1
    BY <1>1, <2>1, <2>2, Aging
  <2>4. Open[f].quiet = QuietIn(sessionBuckets_, e)
    BY <2>1 DEF Shown
  <2>5. d \in D <=> e \in Dropped
    BY <1>3, <2>1
  <2>6. d \in D <=> f \in late
    BY <2>1, <2>3, <2>4, <2>5 DEF late, Service!Sessions
  <2>7. ASSUME d \notin D PROVE Shown(d, data, b) = [Open[f] EXCEPT !.quiet = @ + 1]
    <3>1. QuietIn(b, e) = QuietIn(sessionBuckets_, e) + 1
      BY <2>3, <2>5, <2>7
    <3>2. QED
      BY <2>1, <3>1 DEF Shown
  <2>8. QED
    BY <2>1, <2>6, <2>7
<1>6. Open' = [f \in Flow |-> IF Open[f] = Null \/ f \in late THEN Null
                              ELSE [Open[f] EXCEPT !.quiet = @ + 1]]
  <2>1. ASSUME NEW f \in Flow
        PROVE  Open'[f] = IF Open[f] = Null \/ f \in late THEN Null
                          ELSE [Open[f] EXCEPT !.quiet = @ + 1]
    <3>1. Open'[f] = IF sessionDataMap_[f] = Null \/ sessionDataMap_[f] \in D THEN Null
                     ELSE Shown(sessionDataMap_[f], data, b)
      BY <1>1, <1>4, ForgetShows
    <3>2. CASE sessionDataMap_[f] = Null
      BY <3>1, <3>2, NoSessionOf
    <3>3. CASE sessionDataMap_[f] # Null
      BY <1>5, <3>1, <3>3
    <3>4. QED
      BY <3>2, <3>3
  <2>2. Open' = [f \in Flow |-> Open'[f]]
    BY DEF Open
  <2>3. QED
    BY <2>1, <2>2
<1>7. reported' = {Service!ReportFor(Open[f], now, FALSE) : f \in late}
  <2>1. late = {f \in Flow : sessionDataMap_[f] \in D}
    <3>1. ASSUME NEW f \in late PROVE f \in Flow /\ sessionDataMap_[f] # Null
      BY NoSessionOf DEF late, Service!Sessions
    <3>2. QED
      BY <1>4, <1>5, <3>1
  <2>. DEFINE A == {ReportOf(d, now, FALSE) : d \in D}
              B == {Service!ReportFor(Open[f], now, FALSE) : f \in late}
  <2>2. ReportsOf(A, D, now)
    BY DEF ReportsOf
  <2>3. ReportsFor(B, D, now)
    BY <2>1 DEF ReportsFor
  <2>. HIDE DEF A, B
  <2>4. A = B
    BY <1>3, <2>2, <2>3, TimeOutShows
  <2>5. QED
    BY <1>1, <2>4 DEF A, B
<1>8. QED
  BY <1>6, <1>7 DEF Service!Tick, late

\* The end of the thread ends all sessions.
LEMMA FinishServes ==
    ASSUME IInv, Bounded, Destroy
    PROVE  \E now \in 0 .. MaxTime : Service!Finish(now)
<1>. DEFINE D == {weak_[e] : e \in Alive} \ {Null}
            now == IF time = 0 THEN 0 ELSE time - 1
            A == {ReportOf(d, time - 1, FALSE) : d \in D}
            B == {Service!ReportFor(Open[f], now, FALSE) : f \in Service!Sessions}
<1>1. /\ sessionBuckets_ \in Seq(SUBSET Entry) /\ Len(sessionBuckets_) \in Nat
      /\ clock \in Nat /\ time \in Nat /\ MaxTime \in Nat /\ Alive \subseteq Entry
  BY AliveIsInBucket, SessionAssumption DEF IInv, TypeOK
<1>2. Forget(D, Alive) /\ reported' = A
  BY DEF Destroy, TimeOut
<1>3. now \in 0 .. MaxTime
  BY <1>1 DEF Bounded
<1>4. D \subseteq Live /\ \A d \in Live : d \in D
  <2>1. D \subseteq Live /\ \A d \in Live : d \in D <=> data[d].context_ \in Alive
    <3>1. Alive \subseteq Entry
      BY <1>1
    <3>2. HaveEntryIn(D, Alive)
      BY <3>1, TimedOut
    <3>3. QED
      BY <3>2 DEF HaveEntryIn
  <2>2. QED
    BY <2>1 DEF IInv, Linked, SessionsHaveEntries
<1>5. time = 0 => D = {}
  <2>1. ASSUME time = 0, NEW e \in Alive PROVE FALSE
    <3>1. Len(sessionBuckets_) >= 1
      BY <1>1, <2>1, AliveIsInBucket
    <3>2. QED
      BY <1>1, <2>1, <3>1 DEF IInv, TimerAhead
  <2>2. QED
    BY <2>1
<1>6. ReportsOf(A, D, now)
  <2>1. CASE time = 0
    BY <1>5, <2>1 DEF ReportsOf
  <2>2. CASE time # 0
    BY <2>2 DEF ReportsOf
  <2>3. QED
    BY <2>1, <2>2
<1>7. Null \notin D
  OBVIOUS
<1>. HIDE DEF D, now
<1>8. Service!Sessions = {f \in Flow : sessionDataMap_[f] \in D}
  <2>1. ASSUME NEW f \in Flow PROVE Open[f] # Null <=> sessionDataMap_[f] \in D
    <3>1. CASE sessionDataMap_[f] = Null
      BY <1>7, <3>1, NoSessionOf
    <3>2. CASE sessionDataMap_[f] # Null
      BY <1>4, <3>2, SessionOf
    <3>3. QED
      BY <3>1, <3>2
  <2>2. QED
    BY <2>1 DEF Service!Sessions
<1>9. ReportsFor(B, D, now)
  BY <1>8 DEF ReportsFor
<1>. HIDE DEF A, B
<1>10. A = B
  BY <1>4, <1>6, <1>9, TimeOutShows
<1>11. Open' = [f \in Flow |-> Null]
  <2>1. ASSUME NEW f \in Flow PROVE Open'[f] = Null
    <3>1. sessionDataMap_[f] = Null \/ sessionDataMap_[f] \in D
      BY <1>4, SessionOf
    <3>2. QED
      BY <1>2, <1>7, <3>1, ForgetShows
  <2>2. Open' = [f \in Flow |-> Open'[f]]
    BY DEF Open
  <2>3. QED
    BY <2>1, <2>2
<1>12. Service!Finish(now)
  BY <1>2, <1>10, <1>11 DEF Service!Finish, B
<1>13. QED
  BY <1>3, <1>12

\* An entry in the same buckets as before has been quiet for as long.
LEMMA SameQuiet ==
    ASSUME NEW b \in Seq(SUBSET Entry), NEW c \in Seq(SUBSET Entry), Len(c) = Len(b),
           NEW e, NEW m, Latest(b, e, m),
           \A i \in 1 .. Len(b) : e \in c[i] <=> e \in b[i]
    PROVE  QuietIn(c, e) = QuietIn(b, e)
<1>1. Len(b) \in Nat
  OBVIOUS
<1>2. Latest(c, e, m)
  BY <1>1 DEF Latest
<1>3. QuietIn(b, e) = Len(b) - m
  BY QuietSinceLatest
<1>4. QuietIn(c, e) = Len(c) - m
  BY <1>2, QuietSinceLatest
<1>5. QED
  BY <1>3, <1>4

\* A step that concerns one flow.
LEMMA OneShows ==
    ASSUME IInv, NEW f \in Flow,
           sessionBuckets_' \in Seq(SUBSET Entry), Len(sessionBuckets_') = Len(sessionBuckets_),
           \A g \in Flow \ {f} : sessionDataMap_'[g] = sessionDataMap_[g],
           \A g \in Flow \ {f} : sessionDataMap_[g] # Null =>
               /\ data'[sessionDataMap_[g]] = data[sessionDataMap_[g]]
               /\ \A i \in 1 .. Len(sessionBuckets_) :
                      data[sessionDataMap_[g]].context_ \in sessionBuckets_'[i] <=>
                      data[sessionDataMap_[g]].context_ \in sessionBuckets_[i]
    PROVE  Open' = [Open EXCEPT ![f] = IF sessionDataMap_'[f] = Null THEN Null
                                       ELSE Shown(sessionDataMap_'[f], data', sessionBuckets_')]
<1>1. OpenIsShown'
  BY OpenShown, PTL
<1>2. sessionBuckets_ \in Seq(SUBSET Entry)
  BY DEF IInv, TypeOK
<1>3. ASSUME NEW g \in Flow \ {f} PROVE Open'[g] = Open[g]
  <2>. DEFINE d == sessionDataMap_[g]
              e == data[d].context_
  <2>1. CASE d = Null
    BY <1>1, <2>1, NoSessionOf DEF OpenIsShown
  <2>2. CASE d # Null
    <3>1. Open'[g] = Shown(d, data', sessionBuckets_')
      BY <1>1, <2>2 DEF OpenIsShown
    <3>2. Open[g] = Shown(d, data, sessionBuckets_)
      BY <2>2, SessionOf
    <3>3. PICK m : Latest(sessionBuckets_, e, m)
      BY <2>2, SessionOf
    <3>4. \A i \in 1 .. Len(sessionBuckets_) : e \in sessionBuckets_'[i] <=> e \in sessionBuckets_[i]
      BY <2>2
    <3>5. QuietIn(sessionBuckets_', e) = QuietIn(sessionBuckets_, e)
      BY <1>2, <3>3, <3>4, SameQuiet
    <3>6. data'[d] = data[d]
      BY <2>2
    <3>7. QED
      BY <3>1, <3>2, <3>5, <3>6 DEF Shown
  <2>3. QED
    BY <2>1, <2>2
<1>4. Open'[f] = IF sessionDataMap_'[f] = Null THEN Null
                 ELSE Shown(sessionDataMap_'[f], data', sessionBuckets_')
  BY <1>1 DEF OpenIsShown
<1>5. Open = [g \in Flow |-> Open[g]] /\ Open' = [g \in Flow |-> Open'[g]]
  BY DEF Open
<1>6. QED
  BY <1>3, <1>4, <1>5

\* The packet in hand, and the buckets.
LEMMA InHand ==
    ASSUME IInv, Bounded, pc = "packet"
    PROVE  /\ packet \in Packets /\ packet.t4 \in Endpoint \X Endpoint
           /\ FlowOf(packet.t4) \in Flow
           /\ packet.t4[1] \in Endpoint /\ packet.t4[2] \in Endpoint
           /\ packet.t4 = <<packet.t4[1], packet.t4[2]>>
           /\ sessionBuckets_ \in Seq(SUBSET Entry) /\ Len(sessionBuckets_) \in Nat
           /\ Len(sessionBuckets_) >= 1
           /\ clock \in 0 .. MaxTime
<1>1. packet \in Packets /\ Len(sessionBuckets_) >= 1
  BY DEF IInv, PacketHasBucket
<1>2. packet.t4 \in Endpoint \X Endpoint /\ FlowOf(packet.t4) \in Flow
  BY <1>1, PacketFlow
<1>3. clock \in 0 .. MaxTime
  BY SessionAssumption DEF IInv, TypeOK, Bounded
<1>4. sessionBuckets_ \in Seq(SUBSET Entry) /\ Len(sessionBuckets_) \in Nat
  BY DEF IInv, TypeOK
<1>5. QED
  BY <1>1, <1>2, <1>3, <1>4

LEMMA StartServes ==
    ASSUME IInv, Bounded, NEW d \in Ptr, NEW e \in Entry, FirstConnection(d, e)
    PROVE  Service!Start(FlowOf(packet.t4), packet.t4[1], packet.t4[2], clock)
<1>. DEFINE f == FlowOf(packet.t4)
            n == Len(sessionBuckets_)
            b == sessionBuckets_'
            s == [t4 |-> packet.t4, startTime_ |-> clock, up |-> 1, down |-> 0, context_ |-> e]
<1>1. /\ f \in Flow /\ f = {packet.t4[1], packet.t4[2]}
      /\ packet.t4 = <<packet.t4[1], packet.t4[2]>>
      /\ sessionBuckets_ \in Seq(SUBSET Entry) /\ n \in Nat /\ n >= 1
  BY InHand DEF FirstConnection, FlowOf
<1>2. /\ sessionDataMap_[f] = Null /\ weak_[e] = Null /\ d \notin Live /\ d # Null
      /\ sessionDataMap_' = [sessionDataMap_ EXCEPT ![f] = d]
      /\ data' = [data EXCEPT ![d] = s]
      /\ reported' = {}
  BY SessionAssumption DEF FirstConnection, Session
<1>3. b = [i \in 1 .. n |-> IF i = n THEN sessionBuckets_[i] \cup {e}
                            ELSE sessionBuckets_[i] \ {e}]
  BY <1>1 DEF FirstConnection
<1>. HIDE DEF f
<1>4. sessionDataMap_'[f] = d /\ \A g \in Flow \ {f} : sessionDataMap_'[g] = sessionDataMap_[g]
  BY <1>1, <1>2 DEF IInv, Linked, TablesOK
<1>5. data'[d] = s /\ \A x \in Ptr \ {d} : data'[x] = data[x]
  BY <1>2 DEF IInv, Linked, TablesOK
<1>6. b \in Seq(SUBSET Entry) /\ Len(b) = n
  BY <1>1, <1>3
<1>7. Latest(b, e, n)
  <2>1. n \in 1 .. Len(b) /\ \A i \in n + 1 .. Len(b) : FALSE
    BY <1>1, <1>6
  <2>2. e \in b[n]
    BY <1>1, <1>3
  <2>3. QED
    BY <2>1, <2>2 DEF Latest
<1>8. QuietIn(b, e) = 0
  <2>1. QuietIn(b, e) = Len(b) - n
    BY <1>6, <1>7, QuietSinceLatest
  <2>2. QED
    BY <1>1, <1>6, <2>1
<1>9. ASSUME NEW g \in Flow \ {f}, sessionDataMap_[g] # Null
      PROVE  /\ data'[sessionDataMap_[g]] = data[sessionDataMap_[g]]
             /\ \A i \in 1 .. n :
                    data[sessionDataMap_[g]].context_ \in b[i] <=>
                    data[sessionDataMap_[g]].context_ \in sessionBuckets_[i]
  <2>. DEFINE x == sessionDataMap_[g]
              c == data[x].context_
  <2>1. x \in Live /\ x \in Ptr /\ weak_[c] = x
    BY <1>9, SessionOf
  <2>2. c # e /\ x # d
    BY <1>2, <1>9, <2>1
  <2>3. \A i \in 1 .. n : c \in b[i] <=> c \in sessionBuckets_[i]
    BY <1>3, <2>2
  <2>4. QED
    BY <1>5, <2>1, <2>2, <2>3
<1>. HIDE DEF n, b
<1>10. Open' = [Open EXCEPT ![f] = IF sessionDataMap_'[f] = Null THEN Null
                                   ELSE Shown(sessionDataMap_'[f], data', b)]
  BY <1>1, <1>4, <1>6, <1>9, OneShows DEF n, b
<1>11. Shown(d, data', b) = [t4 |-> <<packet.t4[1], packet.t4[2]>>, startTime_ |-> clock,
                             up |-> 1, down |-> 0, quiet |-> 0]
  BY <1>1, <1>5, <1>8 DEF Shown
<1>12. Open[f] = Null
  BY <1>1, <1>2, NoSessionOf
<1>13. QED
  BY <1>1, <1>2, <1>4, <1>10, <1>11, <1>12 DEF Service!Start, f

\* The session s, as the service sees it when it has been quiet for q seconds.
Seen(s, q) ==
    [t4 |-> s.t4, startTime_ |-> s.startTime_, up |-> s.up, down |-> s.down, quiet |-> q]

\* updateSession counts as the service does: same source, same direction.
LEMMA CountedAlike ==
    ASSUME packet \in Packets, NEW s \in SessionData, FlowOf(packet.t4) = FlowOf(s.t4), NEW q
    PROVE  /\ Service!Counted(Seen(s, q), packet.t4[1]) = Seen(Updated(s), q)
           /\ Updated(s) \in SessionData /\ Updated(s).context_ = s.context_
<1>. DEFINE from == packet.t4[1]
<1>1. packet.t4 = s.t4 <=> from = s.t4[1]
  <2>1. packet.t4 \in Endpoint \X Endpoint /\ s.t4 \in Endpoint \X Endpoint
    BY PacketFlow DEF SessionData
  <2>2. packet.t4 = <<from, packet.t4[2]>> /\ s.t4 = <<s.t4[1], s.t4[2]>>
    BY <2>1
  <2>3. from = s.t4[1] => packet.t4[2] = s.t4[2]
    BY DEF FlowOf
  <2>4. QED
    BY <2>2, <2>3
<1>2. Updated(s) \in SessionData /\ Updated(s).context_ = s.context_
  BY UpdatedSession
<1>3. /\ Updated(s).t4 = s.t4
      /\ Updated(s).startTime_ = s.startTime_
      /\ Updated(s).up = (IF packet.t4 = s.t4 THEN s.up + 1 ELSE s.up)
      /\ Updated(s).down = (IF packet.t4 = s.t4 THEN s.down ELSE s.down + 1)
  BY DEF Updated, SessionData
<1>4. Service!Counted(Seen(s, q), from) =
          [t4 |-> s.t4, startTime_ |-> s.startTime_,
           up |-> IF from = s.t4[1] THEN s.up + 1 ELSE s.up,
           down |-> IF from = s.t4[1] THEN s.down ELSE s.down + 1, quiet |-> q]
  <2>1. CASE from = s.t4[1]
    BY <2>1 DEF Service!Counted, Seen
  <2>2. CASE from # s.t4[1]
    BY <2>2 DEF Service!Counted, Seen
  <2>3. QED
    BY <2>1, <2>2
<1>5. QED
  BY <1>1, <1>2, <1>3, <1>4 DEF Seen

\* What a packet of a session meets.
LEMMA MeetsSession ==
    ASSUME IInv, Bounded, HasEntry
    PROVE  /\ Session = sessionDataMap_[FlowOf(packet.t4)]
           /\ Session \in Live /\ Session \in Ptr /\ Session # Null
           /\ data[Session] \in SessionData
           /\ FlowOf(packet.t4) = FlowOf(data[Session].t4)
           /\ Open[FlowOf(packet.t4)] = Shown(Session, data, sessionBuckets_)
           /\ Open[FlowOf(packet.t4)] # Null
           /\ packet.t4[1] \in FlowOf(packet.t4)
<1>. DEFINE f == FlowOf(packet.t4)
<1>1. f \in Flow /\ packet.t4[1] \in f
  BY InHand DEF HasEntry, FlowOf
<1>2. Session = sessionDataMap_[f] /\ Session # Null
  BY DEF HasEntry, Session
<1>. HIDE DEF f
<1>3. /\ sessionDataMap_[f] \in Live /\ sessionDataMap_[f] \in Ptr
      /\ data[sessionDataMap_[f]] \in SessionData /\ FlowOf(data[sessionDataMap_[f]].t4) = f
      /\ Open[f] = Shown(sessionDataMap_[f], data, sessionBuckets_) /\ Open[f] # Null
  BY <1>1, <1>2, SessionOf
<1>4. QED
  BY <1>1, <1>2, <1>3 DEF f

\* The first FIN or RST.
LEMMA CloseServes ==
    ASSUME IInv, Bounded, CloseConnection
    PROVE  Service!Close(FlowOf(packet.t4), packet.t4[1], clock)
<1>. DEFINE f == FlowOf(packet.t4)
            s == data[Session]
            u == Updated(s)
            q == QuietIn(sessionBuckets_, s.context_)
<1>1. /\ f \in Flow /\ packet \in Packets
      /\ sessionBuckets_ \in Seq(SUBSET Entry) /\ Len(sessionBuckets_) \in Nat
  BY InHand DEF CloseConnection, HasEntry
<1>2. /\ Session = sessionDataMap_[f] /\ Session # Null /\ s \in SessionData
      /\ FlowOf(packet.t4) = FlowOf(s.t4)
      /\ Open[f] = Shown(Session, data, sessionBuckets_) /\ Open[f] # Null
      /\ packet.t4[1] \in f
  BY MeetsSession DEF CloseConnection
<1>3. /\ Forget({Session}, {})
      /\ sessionBuckets_' = sessionBuckets_
      /\ reported' = {[t4 |-> u.t4, startTime_ |-> u.startTime_, endTime_ |-> clock,
                       up |-> u.up, down |-> u.down, normallyClosed_ |-> TRUE]}
  BY DEF CloseConnection
<1>4. Open[f] = Seen(s, q)
  BY <1>2 DEF Shown, Seen
<1>5. Service!Counted(Open[f], packet.t4[1]) = Seen(u, q)
  <2>. HIDE DEF q
  <2>1. packet \in Packets /\ s \in SessionData /\ FlowOf(packet.t4) = FlowOf(s.t4)
    BY <1>1, <1>2
  <2>2. /\ Service!Counted(Seen(s, q), packet.t4[1]) = Seen(Updated(s), q)
        /\ Updated(s).context_ = s.context_
    BY <2>1, CountedAlike
  <2>3. QED
    BY <1>4, <2>2
<1>6. reported' = {Service!ReportFor(Service!Counted(Open[f], packet.t4[1]), clock, TRUE)}
  BY <1>3, <1>5 DEF Service!ReportFor, Seen
<1>. DEFINE D == {Session}
<1>7. Forget(D, {}) /\ Null \notin D /\ sessionDataMap_[f] \in D
  BY <1>2, <1>3
<1>8. \A g \in Flow \ {f} : sessionDataMap_[g] \notin D \/ sessionDataMap_[g] = Null
  <2>1. ASSUME NEW g \in Flow \ {f}, sessionDataMap_[g] = Session PROVE FALSE
    <3>1. FlowOf(data[sessionDataMap_[g]].t4) = g
      BY <1>2, <2>1, SessionOf
    <3>2. QED
      BY <1>2, <2>1, <3>1
  <2>2. QED
    BY <2>1
<1>. HIDE DEF f, D
<1>9. Open' = [Open EXCEPT ![f] = Null]
  <2>1. ASSUME NEW g \in Flow \ {f} PROVE Open'[g] = Open[g]
    <3>1. Open'[g] = IF sessionDataMap_[g] = Null \/ sessionDataMap_[g] \in D THEN Null
                     ELSE Shown(sessionDataMap_[g], data, sessionBuckets_')
      BY <1>7, ForgetShows
    <3>2. CASE sessionDataMap_[g] = Null
      BY <3>1, <3>2, NoSessionOf
    <3>3. CASE sessionDataMap_[g] # Null
      <4>1. Open[g] = Shown(sessionDataMap_[g], data, sessionBuckets_)
        BY <3>3, SessionOf
      <4>2. QED
        BY <1>3, <1>8, <3>1, <3>3, <4>1
    <3>4. QED
      BY <3>2, <3>3
  <2>2. Open'[f] = Null
    BY <1>1, <1>7, ForgetShows
  <2>3. Open = [g \in Flow |-> Open[g]] /\ Open' = [g \in Flow |-> Open'[g]]
    BY DEF Open
  <2>4. QED
    BY <2>1, <2>2, <2>3
<1>10. QED
  BY <1>2, <1>6, <1>9 DEF Service!Close, f

\* Any other packet of a session.
LEMMA CountServes ==
    ASSUME IInv, Bounded, Message
    PROVE  Service!Count(FlowOf(packet.t4), packet.t4[1])
<1>. DEFINE f == FlowOf(packet.t4)
            d == Session
            s == data[d]
            e == s.context_
            u == Updated(s)
            n == Len(sessionBuckets_)
            b == sessionBuckets_'
            q == QuietIn(sessionBuckets_, e)
<1>1. /\ f \in Flow /\ packet \in Packets
      /\ sessionBuckets_ \in Seq(SUBSET Entry) /\ n \in Nat /\ n >= 1
  BY InHand DEF Message, HasEntry
<1>2. /\ d = sessionDataMap_[f] /\ d # Null /\ s \in SessionData /\ e \in Entry
      /\ d \in Ptr /\ d \in Live
      /\ FlowOf(packet.t4) = FlowOf(s.t4)
      /\ Open[f] = Shown(d, data, sessionBuckets_) /\ Open[f] # Null
      /\ packet.t4[1] \in f
  BY MeetsSession DEF Message, SessionData
<1>3. /\ data' = [data EXCEPT ![d] = u]
      /\ b = [sessionBuckets_ EXCEPT ![n] = sessionBuckets_[n] \cup {e}]
      /\ sessionDataMap_' = sessionDataMap_
      /\ reported' = {}
  BY DEF Message
<1>4. Open[f] = Seen(s, q)
  BY <1>2 DEF Shown, Seen
<1>5. Service!Counted(Open[f], packet.t4[1]) = Seen(u, q) /\ u.context_ = e
  <2>. HIDE DEF q
  <2>1. packet \in Packets /\ s \in SessionData /\ FlowOf(packet.t4) = FlowOf(s.t4)
    BY <1>1, <1>2
  <2>2. /\ Service!Counted(Seen(s, q), packet.t4[1]) = Seen(Updated(s), q)
        /\ Updated(s).context_ = s.context_
    BY <2>1, CountedAlike
  <2>3. QED
    BY <1>4, <2>2
<1>. HIDE DEF f, d, u
<1>6. data'[d] = u /\ \A x \in Ptr \ {d} : data'[x] = data[x]
  BY <1>2, <1>3 DEF IInv, Linked, TablesOK
<1>7. /\ b \in Seq(SUBSET Entry) /\ Len(b) = n /\ e \in b[n]
      /\ \A c : c # e => \A i \in 1 .. n : c \in b[i] <=> c \in sessionBuckets_[i]
  <2>1. sessionBuckets_[n] \cup {e} \in SUBSET Entry
    BY <1>1, <1>2
  <2>2. QED
    BY <1>1, <1>3, <2>1
<1>8. QuietIn(b, e) = 0
  <2>1. n \in 1 .. Len(b) /\ \A i \in n + 1 .. Len(b) : FALSE
    BY <1>1, <1>7
  <2>2. Latest(b, e, n)
    BY <1>7, <2>1 DEF Latest
  <2>3. QuietIn(b, e) = Len(b) - n
    BY <1>7, <2>2, QuietSinceLatest
  <2>4. QED
    BY <1>1, <1>7, <2>3
<1>9. ASSUME NEW g \in Flow \ {f}, sessionDataMap_[g] # Null
      PROVE  /\ data'[sessionDataMap_[g]] = data[sessionDataMap_[g]]
             /\ \A i \in 1 .. n :
                    data[sessionDataMap_[g]].context_ \in b[i] <=>
                    data[sessionDataMap_[g]].context_ \in sessionBuckets_[i]
  <2>. DEFINE x == sessionDataMap_[g]
              c == data[x].context_
  <2>1. x \in Live /\ x \in Ptr /\ weak_[c] = x /\ FlowOf(data[x].t4) = g
    BY <1>9, SessionOf
  <2>2. x # d
    BY <1>2, <2>1 DEF f
  <2>3. weak_[e] = d
    BY <1>2 DEF IInv, Linked, SessionsHaveEntries
  <2>4. c # e
    BY <2>1, <2>2, <2>3
  <2>5. QED
    BY <1>6, <1>7, <2>1, <2>2, <2>4
<1>10. Open' = [Open EXCEPT ![f] = Shown(d, data', b)]
  <2>. HIDE DEF n, b
  <2>1. Open' = [Open EXCEPT ![f] = IF sessionDataMap_'[f] = Null THEN Null
                                    ELSE Shown(sessionDataMap_'[f], data', b)]
    BY <1>1, <1>3, <1>7, <1>9, OneShows DEF n, b
  <2>2. QED
    BY <1>2, <1>3, <2>1
<1>11. Shown(d, data', b) = [Service!Counted(Open[f], packet.t4[1]) EXCEPT !.quiet = 0]
  BY <1>5, <1>6, <1>8 DEF Shown, Seen
<1>12. QED
  BY <1>2, <1>3, <1>10, <1>11 DEF Service!Count, f

----------------------------------------------------------------------------
(***************************************************************************)
(* The refinement.                                                         *)
(***************************************************************************)

LEMMA InitServes == Init => Service!Init
<1>. SUFFICES ASSUME Init PROVE Service!Init
  OBVIOUS
<1>1. sessionDataMap_ = [f \in Flow |-> Null] /\ reported = {}
  BY DEF Init
<1>2. \A f \in Flow : Open[f] = Null
  BY <1>1, NoSessionOf
<1>3. Open = [f \in Flow |-> Open[f]]
  BY DEF Open
<1>4. Open = [f \in Flow |-> Null]
  BY <1>2, <1>3
<1>5. QED
  BY <1>1, <1>4 DEF Service!Init

\* A step that leaves map, sessions and buckets alone shows nothing.
LEMMA OpenStays ==
    ASSUME UNCHANGED <<sessionDataMap_, data, sessionBuckets_>>
    PROVE  Open' = Open
<1>1. OpenIsShown /\ OpenIsShown'
  BY OpenShown, PTL
<1>2. QED
  BY <1>1 DEF OpenIsShown, Shown, QuietIn

LEMMA NextServes ==
    ASSUME IInv, Bounded, [Next]_vars
    PROVE  [Service!Next]_(Service!serviceVars)
<1>1. ASSUME NEW p \in Packets, NEW now \in clock .. MaxTime, Arrive(p, now)
      PROVE  Service!Next
  <2>1. now \in 0 .. MaxTime
    BY SessionAssumption DEF IInv, TypeOK
  <2>2. CASE time <= now
    BY <1>1, <2>1, <2>2, TickServes DEF Service!Next
  <2>3. CASE ~(time <= now)
    <3>1. UNCHANGED <<sessionDataMap_, data, sessionBuckets_>> /\ reported' = {}
      BY <1>1, <2>3 DEF Arrive
    <3>2. QED
      BY <3>1, OpenStays DEF Service!Next, Service!Silent
  <2>4. QED
    BY <2>2, <2>3
<1>2. ASSUME IgnorePacket PROVE Service!Next
  <2>1. UNCHANGED <<sessionDataMap_, data, sessionBuckets_>> /\ reported' = {}
    BY <1>2 DEF IgnorePacket
  <2>2. QED
    BY <2>1, OpenStays DEF Service!Next, Service!Silent
<1>3. ASSUME NEW d \in Ptr, NEW e \in Entry, FirstConnection(d, e) PROVE Service!Next
  <2>1. /\ FlowOf(packet.t4) \in Flow /\ packet.t4[1] \in Endpoint
        /\ packet.t4[2] \in Endpoint /\ clock \in 0 .. MaxTime
    BY <1>3, InHand DEF FirstConnection
  <2>2. QED
    BY <1>3, <2>1, StartServes DEF Service!Next
<1>4. ASSUME CloseConnection PROVE Service!Next
  <2>1. FlowOf(packet.t4) \in Flow /\ packet.t4[1] \in Endpoint /\ clock \in 0 .. MaxTime
    BY <1>4, InHand DEF CloseConnection, HasEntry
  <2>2. QED
    BY <1>4, <2>1, CloseServes DEF Service!Next
<1>5. ASSUME Message PROVE Service!Next
  <2>1. FlowOf(packet.t4) \in Flow /\ packet.t4[1] \in Endpoint
    BY <1>5, InHand DEF Message, HasEntry
  <2>2. QED
    BY <1>5, <2>1, CountServes DEF Service!Next
<1>6. ASSUME Destroy PROVE Service!Next
  BY <1>6, FinishServes DEF Service!Next
<1>7. ASSUME UNCHANGED vars PROVE UNCHANGED Service!serviceVars
  BY <1>7, OpenStays DEF vars, Service!serviceVars
<1>8. QED
  BY <1>1, <1>2, <1>3, <1>4, <1>5, <1>6, <1>7 DEF Next, Destroyed

\* For every set of packets and every capacity of the buffer, onTcpData, the
\* destructor of Entry and that of TcpSession keep the promise of SessionService:
\* every session is reported once, with the packets it had each way, at its
\* first FIN or RST, after TimeoutSeconds quiet seconds or at the end.
THEOREM ServiceHolds == Spec => ServiceSpec
<1>1. Init => Service!Init
  BY InitServes
<1>2. IInv /\ Bounded /\ [Next]_vars => [Service!Next]_(Service!serviceVars)
  BY NextServes
<1>3. Init => Bounded
  BY InitBounded
<1>4. IInv /\ Bounded /\ [Next]_vars => Bounded'
  BY NextBounded
<1>5. QED
  BY <1>1, <1>2, <1>3, <1>4, Invariant, PTL DEF Spec, ServiceSpec, Service!Spec
==============================================================================
