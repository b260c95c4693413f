----------------------------- MODULE IpFragment -----------------------------
(***************************************************************************)
(* The reassembly of IP datagrams on one worker (src/dpi/IpFragment.cc).   *)
(* A destination host has a list of incomplete datagrams (ipq), each with  *)
(* its fragments and a timer; the timers of all hosts form one doubly      *)
(* linked list in the order they were armed.                               *)
(*                                                                         *)
(* A call of startIpfragProc is a sequence of steps:                       *)
(*   idle --Arrive--> expire --FindHost--> evict, find --> insert --> idle *)
(* Offsets, lengths and memory are counted in bytes.                       *)
(***************************************************************************)
EXTENDS Sums, FiniteSetsExt, SequencesExt

CONSTANTS
    Ptr,            \* where an ipq may be allocated
    Dst,            \* destination addresses, each of which is a host
    Id,             \* ip_src, ip_p and ip_id
    Null,
    Packets,        \* the packets that may come
    HighThresh,     \* IPFRAG_HIGH_THRESH
    LowThresh,      \* IPFRAG_LOW_THRESH
    QueueSize,      \* sizeof(struct ipq), and 72 for the header
    FragSize,       \* sizeof(struct ipFrag)
    MaxLen,         \* 65535
    FragTime,       \* IP_FRAG_TIME
    IntLimit,       \* 2^31: a time in milliseconds is an int
    MaxTime         \* bound: the clock stops here

\* An IPv4 header of ihl bytes, an offset and the length of what follows.
Packet == [dst : Dst, id : Id, offset : Nat, len : Nat, mf : BOOLEAN, ihl : Nat]

\* A fragment held: the bytes from offset to end, read from ptr in skb.
IpFrag == [offset : Nat, end : Nat, skb : Packet, ptr : Nat]

Ipq == [iph : Packet, ihlen : Nat, len : Nat, expires : Int, fragments : Seq(IpFrag), hf : Dst]

HostFrags == [ipqueue : Seq(Ptr), ip_frag_mem : Int]

\* What the callbacks are given: a packet, or a header and the fragments.
Datagram == [iph : Packet, fragments : Seq(IpFrag)]

ASSUME IpAssumption ==
    /\ Packets \subseteq Packet
    /\ \A p \in Packets : p.ihl + p.len <= MaxLen
    /\ Null \notin Ptr \cup Dst \cup Packet
    /\ Null \notin HostFrags /\ Null \notin Ipq /\ Null \notin Datagram
    /\ {LowThresh, HighThresh, QueueSize, FragSize, MaxLen, FragTime, MaxTime} \subseteq Nat
    /\ LowThresh <= HighThresh
    /\ IntLimit \in Nat \ {0}

VARIABLES
    fragtable,  \* the host of each destination address, or Null
    this_host,  \* the host in use, as its address, or Null
    queues,     \* the ipq at each Ptr, or Null
    timers,     \* timer_head, timer_tail, and prev and next of each timer
    timenow,    \* jiffies() during this call
    clock,      \* milliseconds since the start
    pc, packet, qp,
    delivered   \* the datagram given to the callbacks by the last step

vars == <<fragtable, this_host, queues, timers, timenow, clock, pc, packet, qp, delivered>>

Live == {p \in Ptr : queues[p] # Null}

OrNull(S) == S \cup {Null}

TypeOK ==
    /\ fragtable \in [Dst -> OrNull(HostFrags)]
    /\ this_host \in OrNull(Dst)
    /\ queues \in [Ptr -> OrNull(Ipq)]
    /\ timers \in [head : OrNull(Ptr), tail : OrNull(Ptr),
                   prev : [Ptr -> OrNull(Ptr)], next : [Ptr -> OrNull(Ptr)]]
    /\ timenow \in Int
    /\ clock \in 0 .. MaxTime
    /\ pc \in {"idle", "expire", "evict", "find", "insert"}
    /\ packet \in OrNull(Packets)
    /\ qp \in OrNull(Ptr)
    /\ delivered \in OrNull(Datagram)

Init ==
    /\ fragtable = [d \in Dst |-> Null]
    /\ this_host = Null
    /\ queues = [p \in Ptr |-> Null]
    /\ timers = [head |-> Null, tail |-> Null,
                 prev |-> [p \in Ptr |-> Null], next |-> [p \in Ptr |-> Null]]
    /\ timenow = 0
    /\ clock = 0
    /\ pc = "idle"
    /\ packet = Null
    /\ qp = Null
    /\ delivered = Null

----------------------------------------------------------------------------
\* An int of milliseconds wraps.
Jiffies(t) == ((t + IntLimit) % (2 * IntLimit)) - IntLimit

Expiry == Jiffies(timenow + FragTime)

IsFragment(p) == p.mf \/ p.offset > 0

AddTimer(list, x) ==
    IF list.tail # Null
    THEN [list EXCEPT !.next = [@ EXCEPT ![list.tail] = x, ![x] = Null],
                      !.prev[x] = list.tail, !.tail = x]
    ELSE [list EXCEPT !.prev[x] = Null, !.next[x] = Null, !.head = x, !.tail = x]

\* Defect: the last timer stays the tail.
DelTimerKeepingTail(list, x) ==
    LET prev == list.prev[x]
        next == list.next[x]
    IN  [head |-> IF prev = Null THEN next ELSE list.head,
         tail |-> list.tail,
         next |-> IF prev = Null THEN list.next ELSE [list.next EXCEPT ![prev] = next],
         prev |-> IF next = Null THEN list.prev ELSE [list.prev EXCEPT ![next] = prev]]

\* x keeps its own links: it may be deleted a second time.
DelTimer(list, x) ==
    LET prev == list.prev[x]
        next == list.next[x]
    IN  [head |-> IF prev = Null THEN next ELSE list.head,
         tail |-> IF next = Null THEN prev ELSE list.tail,
         next |-> IF prev = Null THEN list.next ELSE [list.next EXCEPT ![prev] = next],
         prev |-> IF next = Null THEN list.prev ELSE [list.prev EXCEPT ![next] = prev]]

\* The buffer of a packet: its length, rounded up, and the size of a sk_buff.
Truesize(p) == (((p.ihl + p.len + 15) + 15) \div 16) * 16 + 168

FragCharge(f) == FragSize + Truesize(f.skb)

Charge(fragments) == Total([i \in DOMAIN fragments |-> FragCharge(fragments[i])])

\* The list without the queue p, which is on it.
Without(list, p) == RemoveAt(list, CHOOSE i \in DOMAIN list : list[i] = p)

\* Defect: a host stays when its last queue is freed.
FreeQueueKeepingHost(p, host, list) ==
    LET left == Without(fragtable[host].ipqueue, p)
        unlinked == DelTimer(list, p)
    IN  /\ queues' = [queues EXCEPT ![p] = Null]
        /\ timers' = [unlinked EXCEPT !.prev[p] = Null, !.next[p] = Null]
        /\ fragtable' = [fragtable EXCEPT ![host] =
               [ipqueue |-> left,
                ip_frag_mem |-> @.ip_frag_mem - QueueSize - Charge(queues[p].fragments)]]
        /\ this_host' = host

\* ipFree, of a queue of this host and with this list of timers; the links of
\* freed memory are of no account.
FreeQueue(p, host, list) ==
    LET left == Without(fragtable[host].ipqueue, p)
        unlinked == DelTimer(list, p)
    IN  /\ queues' = [queues EXCEPT ![p] = Null]
        /\ timers' = [unlinked EXCEPT !.prev[p] = Null, !.next[p] = Null]
        /\ fragtable' = [fragtable EXCEPT ![host] =
               IF left = <<>> THEN Null
               ELSE [ipqueue |-> left,
                     ip_frag_mem |-> @.ip_frag_mem - QueueSize - Charge(queues[p].fragments)]]
        /\ this_host' = IF left = <<>> THEN Null ELSE host

\* The call returns.
Return == pc' = "idle" /\ packet' = Null /\ qp' = Null

----------------------------------------------------------------------------
\* A packet that passed the checks of startIpfragProc; others change nothing.
Arrive(p, t) ==
    /\ pc = "idle"
    /\ clock' = t
    /\ timenow' = Jiffies(t)
    /\ packet' = p
    /\ pc' = "expire"
    /\ delivered' = Null
    /\ UNCHANGED <<fragtable, this_host, queues, timers, qp>>

\* Defect: timers expire behind each other's back.
DueAtTail == timers.tail # Null /\ queues[timers.tail].expires < timenow

Due == timers.head # Null /\ queues[timers.head].expires < timenow

\* Defect: the timer is deleted, the queue stays.
ExpireTimerOnly ==
    /\ pc = "expire"
    /\ Due
    /\ timers' = DelTimer(timers, timers.head)
    /\ UNCHANGED <<fragtable, this_host, queues, timenow, clock, pc, packet, qp, delivered>>

ExpireTimer ==
    /\ pc = "expire"
    /\ Due
    /\ FreeQueue(timers.head, queues[timers.head].hf, timers)
    /\ UNCHANGED <<timenow, clock, pc, packet, qp, delivered>>

\* hostfragFind, and hostfragCreate for a fragment; ipEvictor has to run when
\* the host is over the bound.
FindHost ==
    LET d == packet.dst
        h == IF fragtable[d] # Null THEN fragtable[d]
             ELSE IF IsFragment(packet) THEN [ipqueue |-> <<>>, ip_frag_mem |-> 0]
             ELSE Null
    IN  /\ pc = "expire"
        /\ ~Due
        /\ fragtable' = [fragtable EXCEPT ![d] = h]
        /\ this_host' = IF h = Null THEN Null ELSE d
        /\ pc' = IF h # Null /\ h.ip_frag_mem > HighThresh THEN "evict" ELSE "find"
        /\ UNCHANGED <<queues, timers, timenow, clock, packet, qp, delivered>>

\* ipEvictor frees from the front of the list, where the newest queues are.
MustEvict == this_host # Null /\ fragtable[this_host].ip_frag_mem > LowThresh

EvictQueue ==
    /\ pc = "evict"
    /\ MustEvict
    /\ fragtable[this_host].ipqueue # <<>>      \* or else exit(1)
    /\ FreeQueue(Head(fragtable[this_host].ipqueue), this_host, timers)
    /\ UNCHANGED <<timenow, clock, pc, packet, qp, delivered>>

Evicted ==
    /\ pc = "evict"
    /\ ~MustEvict
    /\ pc' = "find"
    /\ UNCHANGED <<fragtable, this_host, queues, timers, timenow, clock, packet, qp, delivered>>

----------------------------------------------------------------------------
Matches(p) == queues[p].iph.id = packet.id /\ queues[p].iph.dst = packet.dst

\* Where on the host's list there are queues with the packet's addresses,
\* protocol and id.
Matching ==
    IF this_host = Null THEN {}
    ELSE LET list == fragtable[this_host].ipqueue IN {i \in DOMAIN list : Matches(list[i])}

\* ipFind: the first of them.
Found == fragtable[this_host].ipqueue[Min(Matching)]

\* A datagram in one piece; a queue for its id is dropped.
PassWhole ==
    /\ pc = "find"
    /\ ~IsFragment(packet)
    /\ IF Matching # {}
       THEN FreeQueue(Found, this_host, DelTimer(timers, Found))
       ELSE UNCHANGED <<fragtable, this_host, queues, timers>>
    /\ delivered' = [iph |-> packet, fragments |-> <<>>]
    /\ Return
    /\ UNCHANGED <<timenow, clock>>

\* An oversized packet is dropped, the queue stays.
ProceedWith(p) ==
    IF packet.ihl + packet.len + packet.offset > MaxLen
    THEN Return
    ELSE pc' = "insert" /\ qp' = p /\ UNCHANGED packet

\* The queue is there: its timer is deleted by ipFind, then again, and armed.
RefreshQueue ==
    LET p == Found
        first == packet.offset = 0
    IN  /\ pc = "find"
        /\ IsFragment(packet)
        /\ Matching # {}
        /\ queues' = [queues EXCEPT
               ![p].iph = IF first THEN packet ELSE @,
               ![p].ihlen = IF first THEN packet.ihl ELSE @,
               ![p].expires = Expiry]
        /\ timers' = AddTimer(DelTimer(DelTimer(timers, p), p), p)
        /\ ProceedWith(p)
        /\ UNCHANGED <<fragtable, this_host, timenow, clock, delivered>>

NewIpq ==
    [iph |-> packet, ihlen |-> packet.ihl, len |-> 0, expires |-> Expiry,
     fragments |-> <<>>, hf |-> packet.dst]

\* ipCreate; ipEvictor may have removed the host.
CreateQueue(p) ==
    LET d == packet.dst
        h == IF this_host = Null THEN [ipqueue |-> <<>>, ip_frag_mem |-> 0] ELSE fragtable[d]
    IN  /\ pc = "find"
        /\ IsFragment(packet)
        /\ Matching = {}
        /\ queues[p] = Null
        /\ queues' = [queues EXCEPT ![p] = NewIpq]
        /\ timers' = AddTimer(timers, p)
        /\ fragtable' = [fragtable EXCEPT ![d] =
               [ipqueue |-> <<p>> \o h.ipqueue, ip_frag_mem |-> h.ip_frag_mem + QueueSize]]
        /\ this_host' = d
        /\ ProceedWith(p)
        /\ UNCHANGED <<timenow, clock, delivered>>

----------------------------------------------------------------------------
\* The part of f behind "from", which is read from as much further on.
Behind(f, from) == [f EXCEPT !.offset = from, !.ptr = @ + (from - f.offset)]

\* The least of some indices, or the one behind the last.
First(indices, last) == Min(indices \cup {last + 1})

\* The fragments held before the new one, and those at its offset and behind.
Before(fragments, offset) ==
    LET n == First({i \in DOMAIN fragments : fragments[i].offset >= offset}, Len(fragments))
    IN  SubSeq(fragments, 1, n - 1)

\* The following fragments, without what the new one covers of them.
After(fragments, offset, end) ==
    LET following == SubSeq(fragments, Len(Before(fragments, offset)) + 1, Len(fragments))
        covered(f) == f.offset < end /\ f.end <= end
        n == First({i \in DOMAIN following : ~covered(following[i])}, Len(following))
        left == SubSeq(following, n, Len(following))
    IN  [i \in DOMAIN left |-> IF left[i].offset < end THEN Behind(left[i], end) ELSE left[i]]

\* Defect: what overlaps in front is kept.
FittedUntrimmed(before) ==
    [offset |-> packet.offset, end |-> packet.offset + packet.len,
     skb |-> packet, ptr |-> packet.offset]

\* The packet as a fragment, behind the end of the one before it.  This may
\* leave it shorter than nothing.
Fitted(before) ==
    LET f == [offset |-> packet.offset, end |-> packet.offset + packet.len,
              skb |-> packet, ptr |-> packet.offset]
    IN  IF before # <<>> /\ f.offset < Last(before).end
        THEN Behind(f, Last(before).end)
        ELSE f

\* Defect: the final fragment is enough.
DoneWithFinal(q) == q.len # 0

\* ipDone: the final fragment was received, and offsets connect.
Done(q) ==
    /\ q.len # 0
    /\ \A i \in DOMAIN q.fragments :
           q.fragments[i].offset <= IF i = 1 THEN 0 ELSE q.fragments[i - 1].end

\* Defect: the last byte is taken to be too far out.
GlueFailsAtEnd(q) ==
    \/ q.ihlen + q.len > MaxLen
    \/ \E i \in DOMAIN q.fragments :
           q.fragments[i].end < q.fragments[i].offset \/ q.fragments[i].end >= q.len

\* ipGlue gives up: too long, or a fragment that is too short or too far out.
GlueFails(q) ==
    \/ q.ihlen + q.len > MaxLen
    \/ \E i \in DOMAIN q.fragments :
           q.fragments[i].end < q.fragments[i].offset \/ q.fragments[i].end > q.len

Inserted(q) ==
    LET before == Before(q.fragments, packet.offset)
        after  == After(q.fragments, packet.offset, packet.offset + packet.len)
    IN  [q EXCEPT !.fragments = before \o <<Fitted(before)>> \o after,
                  !.len = IF packet.mf THEN @ ELSE packet.offset + packet.len]

\* Defect: what was covered stays charged.
GrowthWithoutCovered(q) == FragSize + Truesize(packet)

\* What the queue is charged for the new fragment, less what that one covers.
Growth(q) == Charge(q.fragments) - Charge(queues[qp].fragments)

\* The rest of ipDefrag; the memory of what was covered is given back.
InsertFragment ==
    LET q == Inserted(queues[qp]) IN
    /\ pc = "insert"
    /\ IF Done(q)
       THEN /\ delivered' = IF GlueFails(q) THEN Null
                            ELSE [iph |-> q.iph, fragments |-> q.fragments]
            /\ FreeQueue(qp, this_host, timers)
       ELSE /\ queues' = [queues EXCEPT ![qp] = q]
            /\ fragtable' = [fragtable EXCEPT ![this_host].ip_frag_mem = @ + Growth(q)]
            /\ UNCHANGED <<this_host, timers, delivered>>
    /\ Return
    /\ UNCHANGED <<timenow, clock>>

----------------------------------------------------------------------------
\* The steps of a call, once a packet has come.
Process ==
    \/ ExpireTimer
    \/ FindHost
    \/ EvictQueue
    \/ Evicted
    \/ PassWhole
    \/ RefreshQueue
    \/ \E p \in Ptr : CreateQueue(p)
    \/ InsertFragment

Next == (\E p \in Packets, t \in clock .. MaxTime : Arrive(p, t)) \/ Process

Spec == Init /\ [][Next]_vars

----------------------------------------------------------------------------
\* The timers from head to tail are s.
LinkedAs(s) ==
    LET n == Len(s) IN
    /\ timers.head = IF n = 0 THEN Null ELSE s[1]
    /\ timers.tail = IF n = 0 THEN Null ELSE s[n]
    /\ \A i \in 1 .. n :
           /\ timers.prev[s[i]] = IF i = 1 THEN Null ELSE s[i - 1]
           /\ timers.next[s[i]] = IF i = n THEN Null ELSE s[i + 1]

\* The list of timers has one timer of each queue and no other, although
\* ipFind and ipDefrag delete a timer twice before it is armed again
\* (IpFragment.cc:193, 542, 608-619, 750).
TimersLinked == \E s \in SetToSeqs(Live) : LinkedAs(s)

\* A queue is on the list of one host, the one its hf names and its timer
\* frees it from, and an id has one queue there; a host without a queue is
\* only there while it is being used (IpFragment.cc:342, 545-551).
HostsHoldQueues ==
    /\ \A p \in Live :
           LET q == queues[p] IN
           /\ fragtable[q.hf] # Null
           /\ p \in ToSet(fragtable[q.hf].ipqueue)
           /\ q.hf = q.iph.dst
    /\ \A d \in Dst : fragtable[d] # Null =>
           LET list == fragtable[d].ipqueue IN
           /\ \A i, j \in DOMAIN list :
                  /\ list[i] \in Live
                  /\ queues[list[i]].hf = d
                  /\ queues[list[i]].iph.id = queues[list[j]].iph.id => i = j
           /\ list = <<>> => pc = "find" /\ this_host = d

\* ip_frag_mem is the memory of the queues of the host and of the fragments
\* they hold, through trimming, replacing and freeing.
MemoryAccounting ==
    \A d \in Dst : fragtable[d] # Null =>
        LET list == fragtable[d].ipqueue
            memory == [i \in DOMAIN list |-> QueueSize + Charge(queues[list[i]].fragments)]
        IN  fragtable[d].ip_frag_mem = Total(memory)

\* The fragments of a queue are in order and do not overlap, each reads its own
\* place of the packet it came in, even one that is shorter than nothing.  So
\* what follows a new fragment overlaps it in one fragment at most, the one the
\* code computes the overlap from (IpFragment.cc:263).
FragmentsApart ==
    \A p \in Live : LET list == queues[p].fragments IN
        \A i \in DOMAIN list :
            /\ list[i].ptr = list[i].offset
            /\ list[i].offset >= list[i].skb.offset
            /\ list[i].end = list[i].skb.offset + list[i].skb.len
            /\ \A j \in i + 1 .. Len(list) :
                   /\ list[i].end <= list[j].offset
                   /\ list[i].offset <= list[j].offset

\* The steps of a call in their order.
Stage == [idle |-> 0, expire |-> 1, evict |-> 2, find |-> 3, insert |-> 4]

\* Every step of a call frees a queue or goes on to a later stage, or it is the
\* last: the loops of expiry and eviction end (IpFragment.cc:340, 511).
CallAdvances ==
    [][pc # "idle" =>
           \/ Stage[pc'] > Stage[pc]
           \/ pc' = "idle"
           \/ pc' = pc /\ Cardinality({p \in Live : queues'[p] = Null}) = 1]_vars
============================================================================
