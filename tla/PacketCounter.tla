--------------------------- MODULE PacketCounter ---------------------------
(***************************************************************************)
(* src/app/protocol/ProtocolPacketCounter.cc and src/util/Timer.cc: one    *)
(* object counts the packets of all workers (noff.cc, setPacketCounter-    *)
(* InThread).  Its counters are atomic, its timer is behind a mutex that   *)
(* is only ever tried, and a worker that finds a new second collects the   *)
(* counters one by one and reports them.                                   *)
(*                                                                         *)
(* A counter is the set of the packets it has counted; the code keeps      *)
(* their number.                                                           *)
(***************************************************************************)
EXTENDS Integers, Sequences

CONSTANTS
    Worker,     \* the workers
    Free,       \* no worker
    TcpPorts,   \* the destinations of streams that are counted
    MaxPackets, \* bound: packets that are counted
    MaxSecond   \* bound: their timestamps

ASSUME CounterAssumption ==
    /\ Free \notin Worker
    /\ TcpPorts \subseteq {25, 110, 80, 443, 23, 21}
    /\ MaxPackets \in Nat
    /\ MaxSecond \in Nat

\* DNS, SMTP, POP3, HTTP, HTTPS, TELNET and FTP.
Protocol == 0 .. 6

VARIABLES
    counter,    \* what each counter has counted and not given to a report
    time,       \* timer.time: the first second that is not reported
    lock,       \* who holds timer.lock
    pc,         \* where each worker is in its call
    packet,     \* the number of the packet it was called for
    second,     \* the packet's timestamp
    todo,       \* the counters it has still to increment, or to collect
    hand,       \* what it has collected
    packets,    \* how many packets were counted
    counted,    \* history: what each counter was ever told to count
    reports     \* the reports, as they were sent

vars == <<counter, time, lock, pc, packet, second, todo, hand, packets, counted, reports>>

Nothing == [p \in Protocol |-> {}]

Init ==
    /\ counter = Nothing
    /\ time = 0
    /\ lock = Free
    /\ pc = [w \in Worker |-> "idle"]
    /\ packet = [w \in Worker |-> 0]
    /\ second = [w \in Worker |-> 0]
    /\ todo = [w \in Worker |-> {}]
    /\ hand = [w \in Worker |-> Nothing]
    /\ packets = 0
    /\ counted = Nothing
    /\ reports = <<>>

\* The worker goes from one place of the call to another.
Step(w, from, to) ==
    /\ pc[w] = from
    /\ pc' = [pc EXCEPT ![w] = to]

\* The counters of a destination port: HTTP falls through to HTTPS.
Counters(port) ==
    CASE port = 25 -> {1}
      [] port = 110 -> {2}
      [] port = 80 -> {3, 4}
      [] port = 443 -> {4}
      [] port = 23 -> {5}
      [] port = 21 -> {6}

\* A call for a packet that counts.  A worker's packets come in the order of
\* their capture.
Enter(w, which, s) ==
    /\ Step(w, "idle", "count")
    /\ packets < MaxPackets
    /\ s >= second[w]
    /\ packets' = packets + 1
    /\ packet' = [packet EXCEPT ![w] = packets']
    /\ second' = [second EXCEPT ![w] = s]
    /\ todo' = [todo EXCEPT ![w] = which]
    /\ UNCHANGED <<counter, time, lock, hand, counted, reports>>

OnTcpData(w) ==
    \E port \in TcpPorts, s \in 1 .. MaxSecond : Enter(w, Counters(port), s)

OnUdpData(w) == \E s \in 1 .. MaxSecond : Enter(w, {0}, s)

IsFirst(p, S) == p \in S /\ \A q \in S : p <= q

Increment(w) ==
    /\ \E p \in Protocol :
           /\ IsFirst(p, todo[w])
           /\ Step(w, "count", IF todo[w] = {p} THEN "check" ELSE "count")
           /\ counter' = [counter EXCEPT ![p] = @ \cup {packet[w]}]
           /\ counted' = [counted EXCEPT ![p] = @ \cup {packet[w]}]
           /\ todo' = [todo EXCEPT ![w] = @ \ {p}]
    /\ UNCHANGED <<time, lock, packet, second, hand, packets, reports>>

----------------------------------------------------------------------------
\* Timer::checkTime
Timing == <<counter, packet, second, packets, counted, reports>>

\* Defect: the lock is not asked for.
EnterTimer(w) ==
    /\ Step(w, "check", "locked")
    /\ lock' = w
    /\ UNCHANGED <<Timing, time, todo, hand>>

\* pthread_mutex_trylock
TryLock(w) ==
    /\ Step(w, "check", IF lock = Free THEN "locked" ELSE "idle")
    /\ lock' = IF lock = Free THEN w ELSE lock
    /\ UNCHANGED <<Timing, time, todo, hand>>

CompareTime(w) ==
    /\ Step(w, "locked", IF time <= second[w] THEN "due" ELSE "early")
    /\ UNCHANGED <<Timing, time, lock, todo, hand>>

SetTime(w) ==
    /\ Step(w, "due", "unlock")
    /\ time' = second[w] + 1
    /\ UNCHANGED <<Timing, lock, todo, hand>>

\* Defect: it returns early with the lock.
ReturnEarlyLocked(w) ==
    \/ /\ Step(w, "early", "idle")
       /\ UNCHANGED <<Timing, time, lock, todo, hand>>
    \/ /\ Step(w, "unlock", "collect")
       /\ lock' = Free
       /\ todo' = [todo EXCEPT ![w] = Protocol]
       /\ hand' = [hand EXCEPT ![w] = Nothing]
       /\ UNCHANGED <<Timing, time>>

\* pthread_mutex_unlock; the caller goes on if it is time.
Unlock(w) ==
    \/ /\ Step(w, "early", "idle")
       /\ lock' = Free
       /\ UNCHANGED <<Timing, time, todo, hand>>
    \/ /\ Step(w, "unlock", "collect")
       /\ lock' = Free
       /\ todo' = [todo EXCEPT ![w] = Protocol]
       /\ hand' = [hand EXCEPT ![w] = Nothing]
       /\ UNCHANGED <<Timing, time>>

----------------------------------------------------------------------------
Collecting == <<time, lock, packet, second, packets, counted, reports>>

\* Defect: set(0) comes after the get(), and what was counted between is lost.
GetThenSet(w) ==
    /\ pc[w] = "collect"
    /\ \E p \in Protocol :
           /\ IsFirst(p, todo[w])
           /\ IF hand[w][p] = {} /\ counter[p] # {}
              THEN /\ hand' = [hand EXCEPT ![w][p] = counter[p]]
                   /\ UNCHANGED <<counter, todo>>
              ELSE /\ counter' = [counter EXCEPT ![p] = {}]
                   /\ todo' = [todo EXCEPT ![w] = @ \ {p}]
                   /\ UNCHANGED hand
    /\ UNCHANGED <<Collecting, pc>>

\* getAndSet(0) of one counter after the other.
Collect(w) ==
    /\ pc[w] = "collect"
    /\ \E p \in Protocol :
           /\ IsFirst(p, todo[w])
           /\ hand' = [hand EXCEPT ![w][p] = counter[p]]
           /\ counter' = [counter EXCEPT ![p] = {}]
           /\ todo' = [todo EXCEPT ![w] = @ \ {p}]
    /\ UNCHANGED <<Collecting, pc>>

\* counterCallback_
Report(w) ==
    /\ Step(w, "collect", "idle")
    /\ todo[w] = {}
    /\ reports' = Append(reports, [second |-> second[w], detail |-> hand[w]])
    /\ hand' = [hand EXCEPT ![w] = Nothing]
    /\ UNCHANGED <<counter, time, lock, packet, second, todo, packets, counted>>

----------------------------------------------------------------------------
\* What a worker does once it was called.
Proceed(w) ==
    Increment(w) \/ TryLock(w) \/ CompareTime(w) \/ SetTime(w) \/ Unlock(w) \/ Collect(w)
        \/ Report(w)

Next == \E w \in Worker : OnTcpData(w) \/ OnUdpData(w) \/ Proceed(w)

\* Every worker is scheduled.
Fairness == \A w \in Worker : WF_vars(Proceed(w))

Spec == Init /\ [][Next]_vars

FairSpec == Spec /\ Fairness

----------------------------------------------------------------------------
Place == {"idle", "count", "check", "locked", "due", "early", "unlock", "collect"}

TypeOK ==
    /\ counter \in [Protocol -> SUBSET Nat]
    /\ time \in Nat
    /\ lock \in Worker \cup {Free}
    /\ pc \in [Worker -> Place]
    /\ packet \in [Worker -> Nat]
    /\ second \in [Worker -> Nat]
    /\ todo \in [Worker -> SUBSET Protocol]
    /\ hand \in [Worker -> [Protocol -> SUBSET Nat]]
    /\ packets \in Nat
    /\ counted \in [Protocol -> SUBSET Nat]
    /\ reports \in Seq([second : Nat, detail : [Protocol -> SUBSET Nat]])

\* Each packet is still in the counters that were told to count it, in the
\* hands of a worker or in a report.
NothingLost ==
    \A p \in Protocol : \A n \in counted[p] :
        \/ n \in counter[p]
        \/ \E w \in Worker : n \in hand[w][p]
        \/ \E i \in DOMAIN reports : n \in reports[i].detail[p]

\* And in one of them alone.
NothingTwice ==
    \A p \in Protocol :
        /\ \A w \in Worker : hand[w][p] \cap counter[p] = {}
        /\ \A v, w \in Worker : v # w => hand[v][p] \cap hand[w][p] = {}
        /\ \A i \in DOMAIN reports :
               /\ reports[i].detail[p] \cap counter[p] = {}
               /\ \A w \in Worker : reports[i].detail[p] \cap hand[w][p] = {}
               /\ \A j \in DOMAIN reports :
                      i # j => reports[i].detail[p] \cap reports[j].detail[p] = {}

\* Every packet is reported, or yet to be reported, once for each counter it
\* counts in, whichever workers count while others collect, and although two
\* may collect at the same time (ProtocolPacketCounter.cc:52-58).
CountedExactlyOnce == NothingLost /\ NothingTwice

\* A second is reported at most once (Timer.cc:20-23), although reports of
\* different seconds may be sent in either order.
OneReportPerSecond ==
    /\ \A i, j \in DOMAIN reports : i # j => reports[i].second # reports[j].second
    /\ \A w \in Worker : pc[w] \in {"unlock", "collect"} =>
           /\ \A i \in DOMAIN reports : reports[i].second # second[w]
           /\ \A v \in Worker : v # w /\ pc[v] \in {"unlock", "collect"} =>
                  second[v] # second[w]

\* The timer is given back: a worker that only tries the lock can be late,
\* but none of them silences the reports for good (Timer.cc:15-25).
TimerGivenBack == lock # Free ~> lock = Free
============================================================================
