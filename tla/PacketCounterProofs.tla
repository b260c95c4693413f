------------------------ MODULE PacketCounterProofs ------------------------
(***************************************************************************)
(* What PacketCounter keeps for every set of workers and every bound.      *)
(*                                                                         *)
(* Counting: a packet has a number of its own (FreshPackets), no set holds *)
(* a packet its counter was not told of (OnlyCounted), and a worker's hand *)
(* is empty where it is about to put a counter (EmptyHands).  The time: a  *)
(* worker is between trylock and unlock if and only if it holds the lock   *)
(* (LockHeld), and every second that was reported, or is about to be, lies *)
(* before the timer's (SecondsPassed).                                     *)
(***************************************************************************)
EXTENDS PacketCounter, SequenceTheorems, TLAPS

LockHeld ==
    \A w \in Worker : pc[w] \in {"locked", "due", "early", "unlock"} <=> lock = w

SecondsPassed ==
    /\ \A i \in DOMAIN reports : reports[i].second < time
    /\ \A w \in Worker : pc[w] \in {"unlock", "collect"} => second[w] < time
    /\ \A w \in Worker : pc[w] = "due" => time <= second[w]

EmptyHands ==
    \A w \in Worker : \A p \in Protocol :
        pc[w] # "collect" \/ p \in todo[w] => hand[w][p] = {}

FreshPackets ==
    /\ \A w \in Worker : packet[w] <= packets
    /\ \A p \in Protocol : \A n \in counted[p] : n <= packets
    /\ \A v, w \in Worker : v # w /\ pc[v] = "count" /\ pc[w] = "count" => packet[v] # packet[w]
    /\ \A w \in Worker : pc[w] = "count" => \A p \in todo[w] : packet[w] \notin counted[p]

OnlyCounted ==
    \A p \in Protocol :
        /\ counter[p] \subseteq counted[p]
        /\ \A w \in Worker : hand[w][p] \subseteq counted[p]
        /\ \A i \in DOMAIN reports : reports[i].detail[p] \subseteq counted[p]

TimeInv == TypeOK /\ LockHeld /\ SecondsPassed /\ OneReportPerSecond

CountInv == TypeOK /\ EmptyHands /\ FreshPackets /\ OnlyCounted /\ CountedExactlyOnce

----------------------------------------------------------------------------
LEMMA NothingType == Nothing \in [Protocol -> SUBSET Nat] /\ \A p \in Protocol : Nothing[p] = {}
  BY DEF Nothing

LEMMA CountersOfPort ==
    ASSUME NEW port \in TcpPorts
    PROVE  Counters(port) \subseteq Protocol
  BY CounterAssumption DEF Counters, Protocol

\* A packet takes a worker into its call.
LEMMA EnterType ==
    ASSUME TypeOK, NEW w \in Worker, NEW which \in SUBSET Protocol, NEW s \in Nat,
           Enter(w, which, s)
    PROVE  TypeOK'
  BY DEF TypeOK, Enter, Step, Place

LEMMA TypeStep == TypeOK /\ [Next]_vars => TypeOK'
  <1> SUFFICES ASSUME TypeOK, [Next]_vars PROVE TypeOK'
    OBVIOUS
  <1>1. ASSUME NEW w \in Worker, OnTcpData(w) PROVE TypeOK'
    <2>1. PICK port \in TcpPorts, s \in 1 .. MaxSecond : Enter(w, Counters(port), s)
      BY <1>1 DEF OnTcpData
    <2>2. s \in Nat
      BY CounterAssumption
    <2> QED BY <2>1, <2>2, CountersOfPort, EnterType
  <1>2. ASSUME NEW w \in Worker, OnUdpData(w) PROVE TypeOK'
    <2>1. PICK s \in 1 .. MaxSecond : Enter(w, {0}, s)
      BY <1>2 DEF OnUdpData
    <2>2. s \in Nat /\ {0} \in SUBSET Protocol
      BY CounterAssumption DEF Protocol
    <2> QED BY <2>1, <2>2, EnterType
  <1>3. ASSUME NEW w \in Worker, Increment(w) PROVE TypeOK'
    BY <1>3 DEF TypeOK, Increment, Step, Place
  <1>4. ASSUME NEW w \in Worker, TryLock(w) PROVE TypeOK'
    BY <1>4 DEF TypeOK, TryLock, Step, Place, Timing
  <1>5. ASSUME NEW w \in Worker, CompareTime(w) PROVE TypeOK'
    BY <1>5 DEF TypeOK, CompareTime, Step, Place, Timing
  <1>6. ASSUME NEW w \in Worker, SetTime(w) PROVE TypeOK'
    BY <1>6 DEF TypeOK, SetTime, Step, Place, Timing
  <1>7. ASSUME NEW w \in Worker, Unlock(w) PROVE TypeOK'
    BY ZenonT(60), <1>7, NothingType DEF TypeOK, Unlock, Step, Place, Timing
  <1>8. ASSUME NEW w \in Worker, Collect(w) PROVE TypeOK'
    BY <1>8 DEF TypeOK, Collect, Place, Collecting
  <1>9. ASSUME NEW w \in Worker, Report(w) PROVE TypeOK'
    <2>1. [second |-> second[w], detail |-> hand[w]]
              \in [second : Nat, detail : [Protocol -> SUBSET Nat]]
      BY DEF TypeOK
    <2>2. reports' \in Seq([second : Nat, detail : [Protocol -> SUBSET Nat]])
      BY <1>9, <2>1 DEF TypeOK, Report
    <2> QED BY <1>9, <2>2, NothingType DEF TypeOK, Report, Step, Place
  <1>10. CASE UNCHANGED vars
    BY <1>10 DEF TypeOK, vars
  <1> QED
    BY <1>1, <1>2, <1>3, <1>4, <1>5, <1>6, <1>7, <1>8, <1>9, <1>10 DEF Next, Proceed

LEMMA TypeInit == Init => TypeOK
  BY NothingType DEF Init, TypeOK, Place

\* Counters, lock, workers and reports are well-formed for every number of
\* workers (ProtocolPacketCounter.h:47-55).
THEOREM TypeCorrect == Spec => []TypeOK
  BY TypeInit, TypeStep, PTL DEF Spec

----------------------------------------------------------------------------
LEMMA LockHeldStep == TypeOK /\ LockHeld /\ [Next]_vars => LockHeld'
  <1> SUFFICES ASSUME TypeOK, LockHeld, [Next]_vars PROVE LockHeld'
    OBVIOUS
  <1> USE DEF LockHeld, TypeOK, Step, Timing
  <1>1. ASSUME NEW w \in Worker, OnTcpData(w) \/ OnUdpData(w) PROVE LockHeld'
    BY <1>1 DEF OnTcpData, OnUdpData, Enter
  <1>2. ASSUME NEW w \in Worker, Increment(w) PROVE LockHeld'
    BY <1>2 DEF Increment
  <1>3. ASSUME NEW w \in Worker, TryLock(w) PROVE LockHeld'
    BY <1>3, CounterAssumption DEF TryLock
  <1>4. ASSUME NEW w \in Worker, CompareTime(w) \/ SetTime(w) PROVE LockHeld'
    BY <1>4 DEF CompareTime, SetTime
  <1>5. ASSUME NEW w \in Worker, Unlock(w) PROVE LockHeld'
    <2>1. pc[w] \in {"early", "unlock"} /\ lock' = Free
             /\ \E to \in {"idle", "collect"} : pc' = [pc EXCEPT ![w] = to]
      BY <1>5 DEF Unlock
    <2>2. \A v \in Worker : v # w => pc[v] \notin {"locked", "due", "early", "unlock"}
      BY <2>1
    <2>3. \A v \in Worker : pc'[v] \notin {"locked", "due", "early", "unlock"}
      BY <2>1, <2>2
    <2> QED BY <2>1, <2>3, CounterAssumption
  <1>6. ASSUME NEW w \in Worker, Collect(w) \/ Report(w) PROVE LockHeld'
    BY <1>6 DEF Collect, Collecting, Report
  <1>7. CASE UNCHANGED vars
    BY <1>7 DEF vars
  <1> QED
    BY <1>1, <1>2, <1>3, <1>4, <1>5, <1>6, <1>7 DEF Next, Proceed

\* Only the holder of the lock compares and sets the time.
LEMMA SecondsPassedStep ==
    TypeOK /\ LockHeld /\ SecondsPassed /\ [Next]_vars => SecondsPassed'
  <1> SUFFICES ASSUME TypeOK, LockHeld, SecondsPassed, [Next]_vars PROVE SecondsPassed'
    OBVIOUS
  <1> USE DEF SecondsPassed, TypeOK, Step, Timing
  <1>1. ASSUME NEW w \in Worker, OnTcpData(w) \/ OnUdpData(w) PROVE SecondsPassed'
    <2>1. time' = time /\ reports' = reports /\ pc' = [pc EXCEPT ![w] = "count"]
             /\ \A v \in Worker : v # w => second'[v] = second[v]
      BY <1>1 DEF OnTcpData, OnUdpData, Enter
    <2> QED BY <2>1
  <1>2. ASSUME NEW w \in Worker, Increment(w) PROVE SecondsPassed'
    BY <1>2 DEF Increment
  <1>3. ASSUME NEW w \in Worker, TryLock(w) PROVE SecondsPassed'
    BY <1>3 DEF TryLock
  <1>4. ASSUME NEW w \in Worker, CompareTime(w) PROVE SecondsPassed'
    BY <1>4 DEF CompareTime
  <1>5. ASSUME NEW w \in Worker, SetTime(w) PROVE SecondsPassed'
    <2>1. time <= second[w] /\ time' = second[w] + 1 /\ time' > time
      BY <1>5 DEF SetTime
    <2>2. \A v \in Worker : v # w => pc[v] # "due"
      BY <1>5 DEF SetTime, LockHeld
    <2>3. second' = second /\ reports' = reports /\ pc' = [pc EXCEPT ![w] = "unlock"]
      BY <1>5 DEF SetTime
    <2>4. ASSUME NEW i \in DOMAIN reports' PROVE reports'[i].second < time'
      <3>1. reports'[i].second = reports[i].second /\ reports[i].second < time
        BY <2>3
      <3>2. reports[i] \in [second : Nat, detail : [Protocol -> SUBSET Nat]]
        <4>1. reports \in Seq([second : Nat, detail : [Protocol -> SUBSET Nat]])
          OBVIOUS
        <4>2. i \in 1 .. Len(reports)
          BY <2>3, <4>1
        <4> HIDE DEF SecondsPassed, TypeOK
        <4> QED BY <4>1, <4>2, ElementOfSeq
      <3>3. reports[i].second \in Nat
        BY <3>2
      <3>4. time \in Nat /\ second[w] \in Nat
        OBVIOUS
      <3> HIDE DEF SecondsPassed, TypeOK
      <3> QED BY <2>1, <3>1, <3>3, <3>4
    <2>5. ASSUME NEW v \in Worker, pc'[v] \in {"unlock", "collect"} PROVE second'[v] < time'
      <3>1. second[v] \in Nat /\ time \in Nat /\ second[w] \in Nat
        OBVIOUS
      <3>2. CASE v = w
        BY <2>1, <2>3, <3>1, <3>2
      <3>3. CASE v # w
        <4>1. second[v] < time
          BY <2>3, <2>5, <3>3
        <4> QED BY <2>1, <2>3, <3>1, <4>1
      <3> QED BY <3>2, <3>3
    <2>6. \A v \in Worker : pc'[v] # "due"
      BY <2>2, <2>3
    <2> QED BY <2>4, <2>5, <2>6
  <1>6. ASSUME NEW w \in Worker, Unlock(w) PROVE SecondsPassed'
    BY <1>6 DEF Unlock
  <1>7. ASSUME NEW w \in Worker, Collect(w) PROVE SecondsPassed'
    BY <1>7 DEF Collect, Collecting
  <1>8. ASSUME NEW w \in Worker, Report(w) PROVE SecondsPassed'
    <2>1. second[w] < time
      BY <1>8 DEF Report
    <2>2. \A i \in DOMAIN reports' : reports'[i].second < time
      BY <1>8, <2>1 DEF Report
    <2> QED BY <1>8, <2>2 DEF Report
  <1>9. CASE UNCHANGED vars
    BY <1>9 DEF vars
  <1> QED
    BY <1>1, <1>2, <1>3, <1>4, <1>5, <1>6, <1>7, <1>8, <1>9 DEF Next, Proceed

\* The second that a worker is about to report is new to all others.
LEMMA OneReportStep == TimeInv /\ [Next]_vars => OneReportPerSecond'
  <1> SUFFICES ASSUME TimeInv, [Next]_vars PROVE OneReportPerSecond'
    OBVIOUS
  <1> USE DEF TimeInv, OneReportPerSecond, TypeOK, Step, Timing
  <1>1. ASSUME NEW w \in Worker, OnTcpData(w) \/ OnUdpData(w) PROVE OneReportPerSecond'
    BY ZenonT(60), <1>1 DEF OnTcpData, OnUdpData, Enter
  <1>2. ASSUME NEW w \in Worker, Increment(w) PROVE OneReportPerSecond'
    BY <1>2 DEF Increment
  <1>3. ASSUME NEW w \in Worker, TryLock(w) \/ CompareTime(w) PROVE OneReportPerSecond'
    BY <1>3 DEF TryLock, CompareTime
  <1>4. ASSUME NEW w \in Worker, SetTime(w) PROVE OneReportPerSecond'
    <2>1. time <= second[w]
      BY <1>4 DEF SetTime, SecondsPassed
    <2>2. \A i \in DOMAIN reports : reports[i].second # second[w]
      BY <2>1 DEF SecondsPassed
    <2>3. \A v \in Worker : pc[v] \in {"unlock", "collect"} => second[v] # second[w]
      BY <2>1 DEF SecondsPassed
    <2> QED BY <1>4, <2>2, <2>3 DEF SetTime
  <1>5. ASSUME NEW w \in Worker, Unlock(w) PROVE OneReportPerSecond'
    BY <1>5 DEF Unlock
  <1>6. ASSUME NEW w \in Worker, Collect(w) PROVE OneReportPerSecond'
    BY <1>6 DEF Collect, Collecting
  <1>7. ASSUME NEW w \in Worker, Report(w) PROVE OneReportPerSecond'
    <2>1. reports' = Append(reports, [second |-> second[w], detail |-> hand[w]])
      BY <1>7 DEF Report
    <2>2. \A i \in DOMAIN reports' :
             \/ i \in DOMAIN reports /\ reports'[i] = reports[i]
             \/ i = Len(reports) + 1 /\ reports'[i].second = second[w]
      BY <2>1
    <2>3. \A i \in DOMAIN reports : reports[i].second # second[w]
      BY <1>7 DEF Report
    <2>4. \A v \in Worker : v # w /\ pc[v] \in {"unlock", "collect"} => second[v] # second[w]
      BY <1>7 DEF Report
    <2>5. \A i, j \in DOMAIN reports' : i # j => reports'[i].second # reports'[j].second
      BY <2>2, <2>3
    <2>6. second' = second /\ pc' = [pc EXCEPT ![w] = "idle"]
      BY <1>7 DEF Report
    <2>7. \A v \in Worker : pc'[v] \in {"unlock", "collect"} =>
             \A i \in DOMAIN reports' : reports'[i].second # second'[v]
      BY <2>2, <2>4, <2>6
    <2> QED BY <2>5, <2>6, <2>7
  <1>8. CASE UNCHANGED vars
    BY <1>8 DEF vars
  <1> QED
    BY <1>1, <1>2, <1>3, <1>4, <1>5, <1>6, <1>7, <1>8 DEF Next, Proceed

LEMMA TimeInit == Init => TimeInv
  <1> SUFFICES ASSUME Init PROVE TimeInv
    OBVIOUS
  <1>1. TypeOK
    BY TypeInit
  <1>2. LockHeld
    BY CounterAssumption DEF Init, LockHeld
  <1>3. SecondsPassed /\ OneReportPerSecond
    BY DEF Init, SecondsPassed, OneReportPerSecond
  <1> QED BY <1>1, <1>2, <1>3 DEF TimeInv

LEMMA TimeInvHolds == Spec => []TimeInv
  <1>1. TimeInv /\ [Next]_vars => TimeInv'
    BY TypeStep, LockHeldStep, SecondsPassedStep, OneReportStep DEF TimeInv
  <1> QED BY <1>1, TimeInit, PTL DEF Spec

\* Whatever the workers do between trylock and the report, no second is
\* reported twice (Timer.cc:9-27).
THEOREM OneReportPerSecondHolds == Spec => []OneReportPerSecond
  <1>1. TimeInv => OneReportPerSecond
    BY DEF TimeInv
  <1> QED BY <1>1, TimeInvHolds, PTL

----------------------------------------------------------------------------
\* What a step leaves alone that does not count, collect or report.
Uninvolved == UNCHANGED <<counter, packet, packets, counted, reports>>

LEMMA TimerSteps ==
    ASSUME TypeOK, EmptyHands, NEW w \in Worker,
           TryLock(w) \/ CompareTime(w) \/ SetTime(w) \/ Unlock(w)
    PROVE  /\ Uninvolved
           /\ \A v \in Worker : \A p \in Protocol : hand'[v][p] = hand[v][p]
           /\ \A v \in Worker : pc'[v] = "count" => pc[v] = "count" /\ todo'[v] = todo[v]
           /\ EmptyHands'
  <1> USE DEF TypeOK, EmptyHands, Step, Timing, Uninvolved
  <1>1. CASE TryLock(w)
    BY <1>1 DEF TryLock
  <1>2. CASE CompareTime(w)
    BY <1>2 DEF CompareTime
  <1>3. CASE SetTime(w)
    BY <1>3 DEF SetTime
  <1>4. CASE Unlock(w)
    <2>1. CASE pc[w] = "early"
      BY <1>4, <2>1 DEF Unlock
    <2>2. CASE pc[w] = "unlock"
      <3>1. hand' = [hand EXCEPT ![w] = Nothing] /\ pc' = [pc EXCEPT ![w] = "collect"]
               /\ todo' = [todo EXCEPT ![w] = Protocol] /\ Uninvolved
        BY <1>4, <2>2 DEF Unlock
      <3>2. \A p \in Protocol : hand[w][p] = {}
        BY <2>2
      <3>3. \A v \in Worker : \A p \in Protocol : hand'[v][p] = hand[v][p]
        BY <3>1, <3>2, NothingType
      <3>4. EmptyHands'
        BY <3>1, <3>2, <3>3
      <3> QED BY <3>1, <3>3, <3>4
    <2> QED BY <1>4, <2>1, <2>2 DEF Unlock
  <1> QED BY <1>1, <1>2, <1>3, <1>4

\* Such a step keeps the counting.
LEMMA UninvolvedStep ==
    ASSUME CountInv, TypeOK', EmptyHands', Uninvolved,
           \A v \in Worker : \A p \in Protocol : hand'[v][p] = hand[v][p],
           \A v \in Worker : pc'[v] = "count" => pc[v] = "count" /\ todo'[v] = todo[v]
    PROVE  CountInv'
  <1> USE DEF CountInv, Uninvolved
  <1>1. FreshPackets'
    BY DEF FreshPackets
  <1>2. OnlyCounted'
    BY DEF OnlyCounted
  <1>3. NothingLost'
    BY DEF CountedExactlyOnce, NothingLost
  <1>4. NothingTwice'
    BY DEF CountedExactlyOnce, NothingTwice
  <1> QED BY <1>1, <1>2, <1>3, <1>4 DEF CountedExactlyOnce

\* A packet gets a number that none had.
LEMMA EnterStep ==
    ASSUME CountInv, TypeOK', NEW w \in Worker, NEW which \in SUBSET Protocol, NEW s \in Nat,
           Enter(w, which, s)
    PROVE  CountInv'
  <1> USE DEF CountInv
  <1>1. /\ pc[w] = "idle" /\ pc' = [pc EXCEPT ![w] = "count"]
        /\ packets' = packets + 1 /\ packet' = [packet EXCEPT ![w] = packets + 1]
        /\ todo' = [todo EXCEPT ![w] = which]
        /\ UNCHANGED <<counter, hand, counted, reports>>
    BY DEF Enter, Step
  <1>2. packets \in Nat /\ packet \in [Worker -> Nat] /\ pc \in [Worker -> Place]
           /\ counted \in [Protocol -> SUBSET Nat] /\ todo \in [Worker -> SUBSET Protocol]
    BY DEF TypeOK
  <1>3. FreshPackets'
    <2>1. \A v \in Worker : packet'[v] <= packets'
      BY <1>1, <1>2 DEF FreshPackets
    <2>2. \A p \in Protocol : \A n \in counted'[p] : n <= packets'
      BY <1>1, <1>2 DEF FreshPackets
    <2>3. \A v \in Worker : v # w => packet'[v] # packet'[w]
      BY <1>1, <1>2 DEF FreshPackets
    <2>4. \A u, v \in Worker : u # v /\ pc'[u] = "count" /\ pc'[v] = "count" =>
             packet'[u] # packet'[v]
      BY <1>1, <1>2, <2>3 DEF FreshPackets
    <2>5. \A p \in Protocol : packet'[w] \notin counted'[p]
      BY <1>1, <1>2 DEF FreshPackets
    <2>6. \A v \in Worker : pc'[v] = "count" => \A p \in todo'[v] : packet'[v] \notin counted'[p]
      BY <1>1, <1>2, <2>5 DEF FreshPackets
    <2> QED BY <2>1, <2>2, <2>4, <2>6 DEF FreshPackets
  <1>4. EmptyHands'
    BY <1>1, <1>2 DEF EmptyHands
  <1>5. OnlyCounted'
    BY <1>1 DEF OnlyCounted
  <1>6. CountedExactlyOnce'
    BY <1>1 DEF CountedExactlyOnce, NothingLost, NothingTwice
  <1> QED BY <1>3, <1>4, <1>5, <1>6

\* The counter is told of a packet that no set holds.
LEMMA IncrementStep ==
    ASSUME CountInv, TypeOK', NEW w \in Worker, Increment(w)
    PROVE  CountInv'
  <1> USE DEF CountInv
  <1>1. PICK p \in Protocol :
           /\ p \in todo[w] /\ pc[w] = "count"
           /\ pc' = [pc EXCEPT ![w] = IF todo[w] = {p} THEN "check" ELSE "count"]
           /\ counter' = [counter EXCEPT ![p] = @ \cup {packet[w]}]
           /\ counted' = [counted EXCEPT ![p] = @ \cup {packet[w]}]
           /\ todo' = [todo EXCEPT ![w] = @ \ {p}]
    BY DEF Increment, IsFirst, Step
  <1>2. UNCHANGED <<packet, hand, packets, reports>>
    BY DEF Increment
  <1>3. /\ packets \in Nat /\ packet \in [Worker -> Nat] /\ pc \in [Worker -> Place]
        /\ counted \in [Protocol -> SUBSET Nat] /\ todo \in [Worker -> SUBSET Protocol]
        /\ counter \in [Protocol -> SUBSET Nat]
    BY DEF TypeOK
  <1>4. packet[w] \notin counted[p]
    BY <1>1 DEF FreshPackets
  <1>5. /\ counter'[p] = counter[p] \cup {packet[w]} /\ counted'[p] = counted[p] \cup {packet[w]}
        /\ \A q \in Protocol : q # p => counter'[q] = counter[q] /\ counted'[q] = counted[q]
    BY <1>1, <1>3
  <1>6. \A v \in Worker : /\ pc'[v] = "count" => pc[v] = "count"
                          /\ v # w => pc'[v] = pc[v] /\ todo'[v] = todo[v]
    BY <1>1, <1>3
  <1>7. todo'[w] = todo[w] \ {p} /\ pc'[w] # "collect"
    BY <1>1, <1>3
  <1>8. FreshPackets'
    <2>1. \A v \in Worker : packet'[v] <= packets'
      BY <1>2 DEF FreshPackets
    <2>2. \A q \in Protocol : \A n \in counted'[q] : n <= packets'
      BY <1>2, <1>5 DEF FreshPackets
    <2>3. \A u, v \in Worker : u # v /\ pc'[u] = "count" /\ pc'[v] = "count" =>
             packet'[u] # packet'[v]
      BY <1>2, <1>6 DEF FreshPackets
    <2>4. ASSUME NEW v \in Worker, pc'[v] = "count", NEW q \in todo'[v]
          PROVE  packet'[v] \notin counted'[q]
      <3>1. CASE v = w
        BY <1>1, <1>2, <1>3, <1>5, <1>7, <2>4, <3>1 DEF FreshPackets
      <3>2. CASE v # w
        <4>1. packet[v] # packet[w] /\ q \in Protocol /\ packet[v] \notin counted[q]
          BY <1>1, <1>3, <1>6, <2>4, <3>2 DEF FreshPackets
        <4> QED BY <1>2, <1>5, <4>1
      <3> QED BY <3>1, <3>2
    <2> QED BY <2>1, <2>2, <2>3, <2>4 DEF FreshPackets
  <1>9. EmptyHands'
    BY <1>1, <1>2, <1>6, <1>7 DEF EmptyHands
  <1>10. OnlyCounted'
    BY <1>2, <1>5 DEF OnlyCounted
  <1>11. NothingLost'
    BY <1>2, <1>5 DEF CountedExactlyOnce, NothingLost
  <1>12. NothingTwice'
    <2>1. \A v \in Worker : packet[w] \notin hand[v][p]
      BY <1>4 DEF OnlyCounted
    <2>2. \A i \in DOMAIN reports : packet[w] \notin reports[i].detail[p]
      BY <1>4 DEF OnlyCounted
    <2> QED BY <1>2, <1>5, <2>1, <2>2 DEF CountedExactlyOnce, NothingTwice
  <1> QED BY <1>8, <1>9, <1>10, <1>11, <1>12 DEF CountedExactlyOnce

\* The counter goes to an empty hand.
LEMMA CollectStep ==
    ASSUME CountInv, TypeOK', NEW w \in Worker, Collect(w)
    PROVE  CountInv'
  <1> USE DEF CountInv
  <1>1. PICK p \in Protocol :
           /\ p \in todo[w]
           /\ hand' = [hand EXCEPT ![w][p] = counter[p]]
           /\ counter' = [counter EXCEPT ![p] = {}]
           /\ todo' = [todo EXCEPT ![w] = @ \ {p}]
    BY DEF Collect, IsFirst
  <1>2. UNCHANGED <<pc, packet, packets, counted, reports>> /\ pc[w] = "collect"
    BY DEF Collect, Collecting
  <1>3. /\ todo \in [Worker -> SUBSET Protocol] /\ counter \in [Protocol -> SUBSET Nat]
        /\ hand \in [Worker -> [Protocol -> SUBSET Nat]]
    BY DEF TypeOK
  <1>4. hand[w][p] = {}
    BY <1>1 DEF EmptyHands
  <1>5. /\ counter'[p] = {} /\ hand'[w][p] = counter[p]
        /\ \A q \in Protocol : q # p => counter'[q] = counter[q] /\ hand'[w][q] = hand[w][q]
        /\ \A v \in Worker : v # w => \A q \in Protocol : hand'[v][q] = hand[v][q]
    BY <1>1, <1>3
  <1>6. /\ todo'[w] = todo[w] \ {p}
        /\ \A v \in Worker : v # w => todo'[v] = todo[v]
    BY <1>1, <1>3
  <1>7. FreshPackets'
    BY <1>2, <1>6 DEF FreshPackets
  <1>8. EmptyHands'
    BY <1>2, <1>5, <1>6 DEF EmptyHands
  <1>9. OnlyCounted'
    <2>1. \A q \in Protocol : counter'[q] \subseteq counted[q]
      BY <1>5 DEF OnlyCounted
    <2>2. \A q \in Protocol : \A v \in Worker : hand'[v][q] \subseteq counted[q]
      BY <1>5 DEF OnlyCounted
    <2> QED BY <1>2, <2>1, <2>2 DEF OnlyCounted
  <1>10. NothingLost'
    <2> SUFFICES ASSUME NEW q \in Protocol, NEW n \in counted[q]
                 PROVE  \/ n \in counter'[q]
                        \/ \E v \in Worker : n \in hand'[v][q]
                        \/ \E i \in DOMAIN reports : n \in reports[i].detail[q]
      BY <1>2 DEF NothingLost
    <2>1. \/ n \in counter[q]
          \/ \E v \in Worker : n \in hand[v][q]
          \/ \E i \in DOMAIN reports : n \in reports[i].detail[q]
      BY DEF CountedExactlyOnce, NothingLost
    <2>2. CASE n \in counter[q]
      BY <1>5, <2>2
    <2>3. ASSUME NEW v \in Worker, n \in hand[v][q] PROVE n \in hand'[v][q]
      BY <1>4, <1>5, <2>3
    <2> QED BY <2>1, <2>2, <2>3
  <1>11. NothingTwice'
    <2> SUFFICES ASSUME NEW q \in Protocol
                 PROVE  /\ \A v \in Worker : hand'[v][q] \cap counter'[q] = {}
                        /\ \A u, v \in Worker : u # v => hand'[u][q] \cap hand'[v][q] = {}
                        /\ \A i \in DOMAIN reports :
                               /\ reports[i].detail[q] \cap counter'[q] = {}
                               /\ \A v \in Worker : reports[i].detail[q] \cap hand'[v][q] = {}
                               /\ \A j \in DOMAIN reports :
                                      i # j => reports[i].detail[q] \cap reports[j].detail[q] = {}
      BY <1>2 DEF NothingTwice
    <2>1. /\ \A v \in Worker : hand[v][q] \cap counter[q] = {}
          /\ \A u, v \in Worker : u # v => hand[u][q] \cap hand[v][q] = {}
          /\ \A i \in DOMAIN reports :
                 /\ reports[i].detail[q] \cap counter[q] = {}
                 /\ \A v \in Worker : reports[i].detail[q] \cap hand[v][q] = {}
                 /\ \A j \in DOMAIN reports :
                        i # j => reports[i].detail[q] \cap reports[j].detail[q] = {}
      BY DEF CountedExactlyOnce, NothingTwice
    <2>2. CASE q # p
      BY <1>5, <2>1, <2>2
    <2>3. CASE q = p
      BY <1>5, <2>1, <2>3
    <2> QED BY <2>2, <2>3
  <1> QED BY <1>7, <1>8, <1>9, <1>10, <1>11 DEF CountedExactlyOnce

\* The hand goes into a report.
LEMMA ReportStep ==
    ASSUME CountInv, TypeOK', NEW w \in Worker, Report(w)
    PROVE  CountInv'
  <1> USE DEF CountInv
  <1> DEFINE last == Len(reports) + 1
             entry == [second |-> second[w], detail |-> hand[w]]
  <1>1. /\ pc' = [pc EXCEPT ![w] = "idle"]
        /\ reports' = Append(reports, entry)
        /\ hand' = [hand EXCEPT ![w] = Nothing]
        /\ UNCHANGED <<counter, packet, todo, packets, counted>>
    BY DEF Report, Step
  <1>2. /\ pc \in [Worker -> Place] /\ hand \in [Worker -> [Protocol -> SUBSET Nat]]
        /\ reports \in Seq([second : Nat, detail : [Protocol -> SUBSET Nat]])
    BY DEF TypeOK
  <1>3. /\ DOMAIN reports' = DOMAIN reports \cup {last}
        /\ last \notin DOMAIN reports
        /\ \A i \in DOMAIN reports : reports'[i] = reports[i]
        /\ reports'[last].detail = hand[w]
    BY <1>1, <1>2
  <1>4. /\ \A p \in Protocol : hand'[w][p] = {}
        /\ \A v \in Worker : v # w => hand'[v] = hand[v]
    BY <1>1, <1>2, NothingType
  <1> HIDE DEF last, entry
  <1>5. FreshPackets'
    BY <1>1, <1>2 DEF FreshPackets
  <1>6. EmptyHands'
    BY <1>1, <1>2, <1>4 DEF EmptyHands
  <1>7. OnlyCounted'
    <2>1. \A p \in Protocol : \A v \in Worker : hand'[v][p] \subseteq counted[p]
      BY <1>4 DEF OnlyCounted
    <2>2. \A p \in Protocol : \A i \in DOMAIN reports' : reports'[i].detail[p] \subseteq counted[p]
      BY <1>3 DEF OnlyCounted
    <2> QED BY <1>1, <2>1, <2>2 DEF OnlyCounted
  <1>8. NothingLost'
    <2> SUFFICES ASSUME NEW q \in Protocol, NEW n \in counted[q]
                 PROVE  \/ n \in counter[q]
                        \/ \E v \in Worker : n \in hand'[v][q]
                        \/ \E i \in DOMAIN reports' : n \in reports'[i].detail[q]
      BY <1>1 DEF NothingLost
    <2>1. \/ n \in counter[q]
          \/ \E v \in Worker : n \in hand[v][q]
          \/ \E i \in DOMAIN reports : n \in reports[i].detail[q]
      BY DEF CountedExactlyOnce, NothingLost
    <2>2. ASSUME NEW v \in Worker, n \in hand[v][q]
          PROVE  n \in hand'[v][q] \/ n \in reports'[last].detail[q]
      BY <1>3, <1>4, <2>2
    <2> QED BY <1>3, <2>1, <2>2
  <1>9. NothingTwice'
    <2> SUFFICES ASSUME NEW q \in Protocol
                 PROVE  /\ \A v \in Worker : hand'[v][q] \cap counter[q] = {}
                        /\ \A u, v \in Worker : u # v => hand'[u][q] \cap hand'[v][q] = {}
                        /\ \A i \in DOMAIN reports' :
                               /\ reports'[i].detail[q] \cap counter[q] = {}
                               /\ \A v \in Worker : reports'[i].detail[q] \cap hand'[v][q] = {}
                               /\ \A j \in DOMAIN reports' :
                                      i # j => reports'[i].detail[q] \cap reports'[j].detail[q] = {}
      BY <1>1 DEF NothingTwice
    <2>1. /\ \A v \in Worker : hand[v][q] \cap counter[q] = {}
          /\ \A u, v \in Worker : u # v => hand[u][q] \cap hand[v][q] = {}
          /\ \A i \in DOMAIN reports :
                 /\ reports[i].detail[q] \cap counter[q] = {}
                 /\ \A v \in Worker : reports[i].detail[q] \cap hand[v][q] = {}
                 /\ \A j \in DOMAIN reports :
                        i # j => reports[i].detail[q] \cap reports[j].detail[q] = {}
      BY DEF CountedExactlyOnce, NothingTwice
    <2>2. \A v \in Worker : hand'[v][q] = IF v = w THEN {} ELSE hand[v][q]
      BY <1>4
    <2>3. \A i \in DOMAIN reports' :
             reports'[i].detail[q] = IF i = last THEN hand[w][q] ELSE reports[i].detail[q]
      BY <1>3
    <2>4. \A i \in DOMAIN reports' : i # last => i \in DOMAIN reports
      BY <1>3
    <2>5. \A i \in DOMAIN reports' :
             /\ reports'[i].detail[q] \cap counter[q] = {}
             /\ \A v \in Worker : reports'[i].detail[q] \cap hand'[v][q] = {}
      BY <2>1, <2>2, <2>3, <2>4
    <2>6. \A i, j \in DOMAIN reports' :
             i # j => reports'[i].detail[q] \cap reports'[j].detail[q] = {}
      BY <2>1, <2>3, <2>4
    <2> QED BY <2>1, <2>2, <2>5, <2>6
  <1> QED BY <1>5, <1>6, <1>7, <1>8, <1>9 DEF CountedExactlyOnce

LEMMA CountStep == CountInv /\ [Next]_vars => CountInv'
  <1> SUFFICES ASSUME CountInv, [Next]_vars PROVE CountInv'
    OBVIOUS
  <1>1. TypeOK /\ TypeOK' /\ EmptyHands
    BY TypeStep DEF CountInv
  <1>2. ASSUME NEW w \in Worker, OnTcpData(w) PROVE CountInv'
    <2>1. PICK port \in TcpPorts, s \in 1 .. MaxSecond : Enter(w, Counters(port), s)
      BY <1>2 DEF OnTcpData
    <2>2. s \in Nat
      BY CounterAssumption
    <2> QED BY <1>1, <2>1, <2>2, CountersOfPort, EnterStep
  <1>3. ASSUME NEW w \in Worker, OnUdpData(w) PROVE CountInv'
    <2>1. PICK s \in 1 .. MaxSecond : Enter(w, {0}, s)
      BY <1>3 DEF OnUdpData
    <2>2. s \in Nat /\ {0} \in SUBSET Protocol
      BY CounterAssumption DEF Protocol
    <2> QED BY <1>1, <2>1, <2>2, EnterStep
  <1>4. ASSUME NEW w \in Worker, TryLock(w) \/ CompareTime(w) \/ SetTime(w) \/ Unlock(w)
        PROVE  CountInv'
    BY <1>1, <1>4, TimerSteps, UninvolvedStep
  <1>5. ASSUME NEW w \in Worker, Increment(w) PROVE CountInv'
    BY <1>1, <1>5, IncrementStep
  <1>6. ASSUME NEW w \in Worker, Collect(w) PROVE CountInv'
    BY <1>1, <1>6, CollectStep
  <1>7. ASSUME NEW w \in Worker, Report(w) PROVE CountInv'
    BY <1>1, <1>7, ReportStep
  <1>8. CASE UNCHANGED vars
    <2>1. EmptyHands' /\ Uninvolved
      BY <1>1, <1>8 DEF EmptyHands, Uninvolved, vars
    <2>2. UNCHANGED <<hand, pc, todo>>
      BY <1>8 DEF vars
    <2> QED BY <1>1, <2>1, <2>2, UninvolvedStep
  <1> QED
    BY <1>2, <1>3, <1>4, <1>5, <1>6, <1>7, <1>8 DEF Next, Proceed

LEMMA CountInit == Init => CountInv
  <1> SUFFICES ASSUME Init PROVE CountInv
    OBVIOUS
  <1>1. TypeOK /\ EmptyHands
    BY TypeInit, NothingType DEF Init, EmptyHands
  <1>2. FreshPackets /\ OnlyCounted
    BY NothingType DEF Init, FreshPackets, OnlyCounted
  <1>3. CountedExactlyOnce
    BY NothingType DEF Init, CountedExactlyOnce, NothingLost, NothingTwice
  <1> QED BY <1>1, <1>2, <1>3 DEF CountInv

\* No packet is lost between a get and a set, and none is reported twice, for
\* every number of workers and packets (ProtocolPacketCounter.cc:52-58).
THEOREM CountedExactlyOnceHolds == Spec => []CountedExactlyOnce
  <1>1. CountInv => CountedExactlyOnce
    BY DEF CountInv
  <1> QED BY <1>1, CountInit, CountStep, PTL DEF Spec
============================================================================
