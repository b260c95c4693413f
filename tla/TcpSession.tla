----------------------------- MODULE TcpSession -----------------------------
(***************************************************************************)
(* The sessions of a worker (src/app/header/TcpSession.cc).  A session is  *)
(* in a map by its flow; an Entry that points to it weakly is in the       *)
(* bucket of each second of traffic in which the session had a packet.     *)
(* When the circular buffer of buckets drops the last reference to an      *)
(* Entry, its destructor reports the session as timed out.                 *)
(***************************************************************************)
EXTENDS Integers, Sequences, FiniteSetsExt

CONSTANTS
    Ptr,            \* where SessionData may be allocated
    Entry,          \* where an Entry may be
    Endpoint,       \* addresses with their ports
    Null,
    Packets,        \* the TCP packets that may come
    TimeoutSeconds, \* the capacity of the circular buffer
    MaxTime,        \* bound: packets come until this second
    MaxPackets      \* bound: packets of one session

Flag == {"SYN", "FIN", "RST"}

\* Of the flags those the code branches on; t4 is <<source, destination>>.
Packet == [t4 : Endpoint \X Endpoint, flags : SUBSET Flag]

\* Equal and hashed alike in both directions.
FlowOf(t4) == {t4[1], t4[2]}

Flow == {FlowOf(p.t4) : p \in Packets}

\* Counts of packets stand for the fourteen counters of a session.
SessionData ==
    [t4 : Endpoint \X Endpoint, startTime_ : Nat, up : Nat, down : Nat, context_ : Entry]

\* A session as an analyser of the reports sees it.
OpenSession ==
    [t4 : Endpoint \X Endpoint, startTime_ : Nat, up : Nat, down : Nat, quiet : Nat]

Report ==
    [t4 : Endpoint \X Endpoint, startTime_ : Nat, endTime_ : Int, up : Nat, down : Nat,
     normallyClosed_ : BOOLEAN]

ASSUME SessionAssumption ==
    /\ Packets \subseteq {p \in Packet : p.t4[1] # p.t4[2]}
    /\ Null \notin Ptr \cup Entry \cup Packet
    /\ Null \notin SessionData /\ Null \notin OpenSession
    /\ TimeoutSeconds \in Nat \ {0}
    /\ MaxTime \in Nat
    /\ MaxPackets \in Nat

VARIABLES
    sessionDataMap_,    \* the session of each flow, or Null
    data,               \* the SessionData at each Ptr, or Null
    weak_,              \* what each Entry points to, Null once that is freed
    sessionBuckets_,    \* the entries of each of the last seconds of traffic
    time,               \* timer_: the next second to push a bucket at
    clock,              \* the time stamp of the last packet
    pc, packet,
    reported            \* the sessions the last step reported

vars == <<sessionDataMap_, data, weak_, sessionBuckets_, time, clock, pc, packet, reported>>

Live == {d \in Ptr : data[d] # Null}

\* The entries some bucket shares.
Alive == UNION {sessionBuckets_[i] : i \in DOMAIN sessionBuckets_}

TypeOK ==
    /\ sessionDataMap_ \in [Flow -> Ptr \cup {Null}]
    /\ data \in [Ptr -> SessionData \cup {Null}]
    /\ weak_ \in [Entry -> Ptr \cup {Null}]
    /\ sessionBuckets_ \in Seq(SUBSET Entry)
    /\ Len(sessionBuckets_) <= TimeoutSeconds
    /\ time \in Nat
    /\ clock \in Nat
    /\ pc \in {"idle", "packet", "destroyed"}
    /\ packet \in Packets \cup {Null}
    /\ reported \subseteq Report

Init ==
    /\ sessionDataMap_ = [f \in Flow |-> Null]
    /\ data = [d \in Ptr |-> Null]
    /\ weak_ = [e \in Entry |-> Null]
    /\ sessionBuckets_ = <<>>
    /\ time = 0
    /\ clock = 0
    /\ pc = "idle"
    /\ packet = Null
    /\ reported = {}

----------------------------------------------------------------------------
ReportOf(d, end, normally) ==
    [t4 |-> data[d].t4, startTime_ |-> data[d].startTime_, endTime_ |-> end,
     up |-> data[d].up, down |-> data[d].down, normallyClosed_ |-> normally]

\* Defect: an entry points to its session for good.
ForgetKeepingEntries(D, E) ==
    /\ sessionDataMap_' =
           [f \in Flow |-> IF sessionDataMap_[f] \in D THEN Null ELSE sessionDataMap_[f]]
    /\ data' = [d \in Ptr |-> IF d \in D THEN Null ELSE data[d]]
    /\ weak_' = [e \in Entry |-> IF e \in E THEN Null ELSE weak_[e]]

\* Sessions D are erased from the map and freed, entries E are destroyed.
Forget(D, E) ==
    /\ sessionDataMap_' =
           [f \in Flow |-> IF sessionDataMap_[f] \in D THEN Null ELSE sessionDataMap_[f]]
    /\ data' = [d \in Ptr |-> IF d \in D THEN Null ELSE data[d]]
    /\ weak_' = [e \in Entry |-> IF weak_[e] \in D \/ e \in E THEN Null ELSE weak_[e]]

\* Defect: the session that timed out is reported and kept.
TimeOutKeeping(E, end) ==
    /\ reported' = {ReportOf(d, end, FALSE) : d \in {weak_[e] : e \in E} \ {Null}}
    /\ Forget({}, E)

\* ~Entry of each of E, and onTimeOut for those it still finds.
TimeOut(E, end) ==
    LET D == {weak_[e] : e \in E} \ {Null} IN
    /\ Forget(D, E)
    /\ reported' = {ReportOf(d, end, FALSE) : d \in D}

Full == Len(sessionBuckets_) = TimeoutSeconds

\* Defect: the bucket that is dropped takes all its entries along.
DroppedWithShared == IF Full THEN Head(sessionBuckets_) ELSE {}

\* The entries no other bucket shares with the one that is dropped.
Dropped ==
    IF Full
    THEN {e \in Head(sessionBuckets_) :
             \A i \in 2 .. Len(sessionBuckets_) : e \notin sessionBuckets_[i]}
    ELSE {}

\* The session of a flow has not reached the bound.
BelowBound(p) ==
    \A d \in Live : FlowOf(data[d].t4) = FlowOf(p.t4) => data[d].up + data[d].down < MaxPackets

\* checkTime and onTimer: at most one bucket a packet, however late it is.
Arrive(p, now) ==
    LET tick == time <= now IN
    /\ pc = "idle"
    /\ BelowBound(p)
    /\ pc' = "packet"
    /\ packet' = p
    /\ clock' = now
    /\ time' = IF tick THEN now + 1 ELSE time
    /\ IF tick
       THEN /\ TimeOut(Dropped, now)
            /\ sessionBuckets_' =
                   Append(IF Full THEN Tail(sessionBuckets_) ELSE sessionBuckets_, {})
       ELSE /\ UNCHANGED <<sessionDataMap_, data, weak_, sessionBuckets_>>
            /\ reported' = {}

Session == sessionDataMap_[FlowOf(packet.t4)]

Return ==
    /\ pc' = "idle"
    /\ packet' = Null
    /\ UNCHANGED <<time, clock>>

IgnorePacket ==
    /\ pc = "packet"
    /\ Session = Null
    /\ "SYN" \notin packet.flags
    /\ reported' = {}
    /\ Return
    /\ UNCHANGED <<sessionDataMap_, data, weak_, sessionBuckets_>>

\* onConnection and updateSession.  An entry that points to nothing does nothing
\* when it is destroyed, and its place may be taken at once.
FirstConnection(d, e) ==
    /\ pc = "packet"
    /\ Session = Null
    /\ "SYN" \in packet.flags
    /\ d \notin Live
    /\ weak_[e] = Null
    /\ sessionDataMap_' = [sessionDataMap_ EXCEPT ![FlowOf(packet.t4)] = d]
    /\ data' = [data EXCEPT ![d] = [t4 |-> packet.t4, startTime_ |-> clock,
                                    up |-> 1, down |-> 0, context_ |-> e]]
    /\ weak_' = [weak_ EXCEPT ![e] = d]
    /\ sessionBuckets_' =
           [i \in DOMAIN sessionBuckets_ |->
               IF i = Len(sessionBuckets_) THEN sessionBuckets_[i] \cup {e}
               ELSE sessionBuckets_[i] \ {e}]
    /\ reported' = {}
    /\ Return

\* updateSession
Updated(s) ==
    IF packet.t4 = s.t4 THEN [s EXCEPT !.up = @ + 1] ELSE [s EXCEPT !.down = @ + 1]

\* getEntryPtr finds the entry.
HasEntry == pc = "packet" /\ Session # Null /\ data[Session].context_ \in Alive

CloseConnection ==
    LET s == Updated(data[Session]) IN
    /\ HasEntry
    /\ packet.flags \cap {"FIN", "RST"} # {}
    /\ reported' = {[t4 |-> s.t4, startTime_ |-> s.startTime_, endTime_ |-> clock,
                     up |-> s.up, down |-> s.down, normallyClosed_ |-> TRUE]}
    /\ Forget({Session}, {})
    /\ Return
    /\ UNCHANGED sessionBuckets_

Message ==
    /\ HasEntry
    /\ packet.flags \cap {"FIN", "RST"} = {}
    /\ data' = [data EXCEPT ![Session] = Updated(@)]
    /\ sessionBuckets_' =
           [sessionBuckets_ EXCEPT ![Len(sessionBuckets_)] = @ \cup {data[Session].context_}]
    /\ reported' = {}
    /\ Return
    /\ UNCHANGED <<sessionDataMap_, weak_>>

\* The thread ends and with it its TcpSession; the buckets go before the map.
Destroy ==
    /\ pc = "idle"
    /\ pc' = "destroyed"
    /\ TimeOut(Alive, time - 1)
    /\ sessionBuckets_' = <<>>
    /\ UNCHANGED <<time, clock, packet>>

Destroyed == pc = "destroyed" /\ UNCHANGED vars

Next ==
    \/ \E p \in Packets, now \in clock .. MaxTime : Arrive(p, now)
    \/ IgnorePacket
    \/ \E d \in Ptr, e \in Entry : FirstConnection(d, e)
    \/ CloseConnection
    \/ Message
    \/ Destroy
    \/ Destroyed

Spec == Init /\ [][Next]_vars

----------------------------------------------------------------------------
\* Every session has an entry that lives and points back to it, so that the
\* branch for a dead connection (TcpSession.cc:97-109), which Next leaves out,
\* is never taken, and is the only session of its flow.
SessionsHaveEntries ==
    \A d \in Live :
        /\ sessionDataMap_[FlowOf(data[d].t4)] = d
        /\ data[d].context_ \in Alive
        /\ weak_[data[d].context_] = d

\* An entry that outlives its session, which was closed, does not find the
\* next session of the flow, or any other (TcpSession.cc:177-181).
EntriesFindTheirOwn ==
    \A e \in Entry : weak_[e] # Null => weak_[e] \in Live /\ data[weak_[e]].context_ = e

\* No session ends before it starts (TcpSession.cc:49, 148).
EndsAfterStart == \A r \in reported : r.startTime_ <= r.endTime_

----------------------------------------------------------------------------
\* How many seconds of traffic a session has been quiet for.
Quiet(d) ==
    Len(sessionBuckets_)
        - Max({i \in DOMAIN sessionBuckets_ : data[d].context_ \in sessionBuckets_[i]})

\* The sessions as an analyser of the reports sees them.
Open ==
    [f \in Flow |->
        IF sessionDataMap_[f] = Null THEN Null
        ELSE LET d == sessionDataMap_[f] IN
             [t4 |-> data[d].t4, startTime_ |-> data[d].startTime_, up |-> data[d].up,
              down |-> data[d].down, quiet |-> Quiet(d)]]

Service == INSTANCE SessionService WITH open <- Open, Second <- 0 .. MaxTime

ServiceSpec == Service!Spec
============================================================================
