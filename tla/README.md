# A verification development of noff

noff is a passive inspector of network traffic: it captures packets, spreads
them over worker threads, reassembles IP fragments and TCP streams, and reports
what the analysers find (HTTP, DNS, sessions, counters) over UDP. This directory
holds TLA+ modules translated from its source, TLC configurations that check
them on small instances, and proofs of what holds for every instance.

    tlc -workers 2 -config MCTcpHttp.cfg MCTcpHttp        one run
    tlapm TcpFragmentProofs.tla                           the proofs
    tlapm TcpReassemblyProofs.tla                         (the first four
    tlapm IpFragmentProofs.tla                             take minutes)
    tlapm TcpSessionProofs.tla
    tlapm SumProofs.tla
    tlapm NoffProofs.tla
    tlapm PacketCounterProofs.tla
    tlapm DnsProofs.tla

`PROJECT.json` lists the runs, the lines each definition stands for, the hazards
of the code and the theorems.

## 1. Inventory

    pcap -> Capture -> Dispatcher -> (Sharding) -> TaskQueue of a worker
         -> IpFragment -> TcpFragment -> Http, ProtocolPacketCounter
                       -> TcpHeader, TcpSession
                       -> Udp -> ProtocolPacketCounter, DnsParser
         -> UdpClient

All arrows but the one into TaskQueue are plain calls through vectors of
callbacks: the callee runs to its end inside the caller. `noff.cc` wires them:
TcpFragment, IpFragment, Http, TcpSession, Udp and DnsParser exist once per
worker (`ThreadLocalSingleton`), ProtocolPacketCounter and the outputs once.

| Component | State | Operations | What makes it correct |
|---|---|---|---|
| TcpFragment | streams, idle timers, closing timers, its callbacks | `processTcp`, `clearAllStream` | payload handed over once and in order; one stream per flow; no timer for a freed stream; connection, data, end told in that order; bounded memory |
| Http | an entry per connection to port 80, with a message per direction | five TcpFragment callbacks, seven parser callbacks | an entry exactly for the connections that may call back; a report per message, with its own strings |
| HttpParser | per direction: a state, flags, bytes of body left | `http_parser_execute` | every head and every body is found, wherever the payload is cut into calls |
| IpFragment | per host: queues of fragments, a timer list, memory in use | `startIpfragProc`, `ipDefragStub`, expiry, eviction | a datagram is put together once and from its own bytes; timers and memory agree with the queues |
| Dispatcher | one TaskQueue per worker | `onIpFragment` | a packet goes to the worker of its flow or is dropped and freed |
| TaskQueue | a bounded queue of tbb, a thread, its init callback | `start`, `stop`, `nonBlockingRun`, `runInThread` | what was accepted runs once, in order; everybody stops |
| Sharding, Hash | a key | `operator()` | both directions of a flow, and its fragments, go to one worker |
| Capture | link offset, running flag | `startLoop`, `breakLoop`, `onPacket` | every frame is parsed at its own offset; the loop ends when told |
| TcpSession, TcpHeader | sessions, a circular buffer of idle seconds | `onTcpData`, `onTimeOut` | one report of start and one of end per session |
| ProtocolPacketCounter, TestCounter | seven counters, a timer, for all workers | `onTcpData`, `onUdpData` | what was counted is reported once |
| MacCount | counters | `processMac` | the same |
| DnsParser | none between packets | `processDns` | names are read within the packet and their memory; every block is freed once; the call returns |
| Udp | none | `processUdp` | |
| Timer, UdpClient | last second; socket | `checkTime`, `onData` | one tick per second of traffic |
| noff.cc | options, the wiring | `main`, `sigHandler` | starts the capture after the workers; a signal stops it |

What is hard in it:

* TcpFragment. The analysed end points are not under control: segments overlap,
  repeat, come reordered, overtake the handshake; a SYN may reuse a flow, FINs
  may come behind a gap. A stream is referred to by raw pointers in two sets of
  timers and by its tuple4 in every analyser. Seven places free a stream.
* TaskQueue, Dispatcher, Capture. One capture thread, several workers and a
  signal handler that runs on any of them; a bounded queue whose size is looked
  at before it is used, a latch, joins at the end.
* IpFragment. Overlaps that are trimmed, timers, and eviction under a memory
  bound, all on doubly linked lists changed while they are walked.
* HttpParser, Http. A head comes in any number of calls, which may end inside any
  string; bodies end by length, by chunks, at the end of the stream, or never.
* DnsParser. Names whose labels and pointers are the sender's, walked twice by
  loops with different bounds; memory handed from hand to hand.
* TcpSession, ProtocolPacketCounter. Timeouts that only traffic advances;
  counters and a timer shared by all workers.

What is not modelled is listed at the end.

## 2. Modules

| Module | What it is | Source |
|---|---|---|
| `Util` | tuple4 and the comparison of sequence numbers | `dpi/Util.h` |
| `TcpFragment` | the stream table of a worker | `dpi/TcpFragment.{h,cc}` |
| `TcpService` | abstract: what TcpFragment promises its analysers | (a promise) |
| `TcpHttp` | TcpFragment with Http's table on its callbacks | `app/http/Http.cc` |
| `TcpReassembly` | TcpFragment with a record of what it received and handed over | (observation) |
| `TcpFragmentProofs` | theorems about TcpFragment; it implements TcpService; Http's table | |
| `TcpReassemblyProofs` | theorems about TcpReassembly, those on what is delivered and when under conditions on the traffic | |
| `Sums`, `SumProofs` | the memory of a list, and lemmas about it | `dpi/IpFragment.cc` |
| `HttpParser` | the parser of one direction | `app/http/HttpParser.{h,cc}` |
| `Http` | its callbacks, which collect and report messages | `app/http/Http.{h,cc}` |
| `TaskQueue` | the queue and the thread of each worker | `dpi/TaskQueue.{h,cc}` |
| `Capture` | the capture loop and how it is broken | `dpi/Capture.{h,cc}` |
| `Dispatcher` | a packet becomes a task of a worker | `dpi/Dispatcher.{h,cc}` |
| `Noff` | composes the three: main thread, workers, signal handlers | `noff.cc` |
| `DispatchService` | abstract: what the dispatch promises | (a promise) |
| `NoffProofs` | theorems about Noff | |
| `IpFragment` | the fragments of a worker: hosts, queues, timers, memory | `dpi/IpFragment.{h,cc}` |
| `IpService` | abstract: what IpFragment promises | (a promise) |
| `IpReassembly` | IpFragment with a record of what it received | (observation) |
| `IpFragmentProofs` | theorems about IpFragment; IpReassembly implements IpService | |
| `TcpSession` | the sessions of a worker and their timeouts | `app/header/TcpSession.{h,cc}`, `util/Timer.{h,cc}` |
| `SessionService` | abstract: what TcpSession promises | (a promise) |
| `TcpSessionProofs` | theorems about TcpSession; it implements SessionService | |
| `PacketCounter` | the counters and the timer of all workers | `app/protocol/ProtocolPacketCounter.{h,cc}`, `util/Timer.{h,cc}` |
| `PacketCounterProofs` | theorems about PacketCounter | |
| `Dns` | one packet read by DnsParser | `app/dns/Dnsparser.{h,cc}` |
| `DnsProofs` | theorems about Dns | |
| `MCTcpHttp`, `MCReassembly`, `MCNoff`, `MCIpFragment`, `MCTcpSession`, `MCHttp`, `MCCounters`, `MCDns` | instances for TLC | |

### TcpFragment

`tcphashmap_` maps each of the places a `TcpStream` can live at (`Ptr`, as many
as the table holds) to the stream there or to `Null`; `tcpTimeoutSet_` and
`finTimeoutSet_` hold timers that name a place, as the code's hold a pointer. A
stream has two halves, by the side that sends.

A call of `processTcp` is the sequence of steps the code takes. `pc` says where
the call is, and the next step is the only one enabled:

    idle     CheckTimeouts      tcpChecktimeouts, with the second of the packet
    segment  Ignore             the checks of lengths and addresses, no stream
             AddNewtcp          a SYN of a new flow (clearAllStream when full)
             RestartStream      a SYN of a known flow
             SecondHandshake    the SYN-ACK
             DropSegment        another SYN, or outside the window
             ResetStream, ThirdHandshake, CloseStream, AckSegment
    queue    QueueInOrder       tcpQueue, data that reaches past EXP_SEQ
             QueueOld           data seen before
             QueueOutOfOrder    data ahead, held in the fraglist
    drain    DrainFragment      one fragment of the fraglist
             DrainEnd
    finish   Finish             the window, and the memory check

The steps are split where the code loops or where one property looks between
them; a worker's thread is alone with its TcpFragment, so no step of another
component falls between two of them. `callbacks` is what the last step reported:
the tuple4s opened, the tuple4s ended and how, and the chunks of data.

Kept from the code, because properties depend on it: a `std::set<Timeout>` keeps
one timer per second (`Insert`); `after` and `before` on a ring; a FIN counted as
confirmed by any later ACK; fields that `addNewtcp` does not assign, which hold
any value of `Garbage`; `isconnnection` set after the connection callback.
Abstracted: bytes are sequence numbers; a chunk is an interval of them; `count`
is count + urg_count; options other than the window scale, checksums and the
hash of a tuple4 (it selects a bucket, the lookup compares the tuple4) are left
out. The branch of `processTcp` for a SYN after half an hour is left out: its
inner condition already returned at line 181.

### TcpHttp and TcpService

A callback is a call, so `HttpNext` changes `table` in the step that makes it.
The assertion of `onTcpConnection` is a property, not a guard; an insert of a
tuple4 that is present changes nothing, as `unordered_map::insert`.

`TcpService` states what an analyser may rely on: `Connect`, then `Deliver` any
number of times, then one `End`, or a `Drop` nobody is told of. The refinement
(`ServiceSpec`) maps `open` to the tuple4s of the connected streams and `report`
to `callbacks`. `Drop` is there because the code does it: a SYN that restarts a
flow and a stream over its memory bound are freed silently, which is what the
finding `http_assert` is about.

### TcpReassembly

`history` records, for each stream and side, the payload and FINs given to
`tcpQueue` and the payload handed over. It observes TcpFragment and changes
nothing. Reassembly is compared with its definition: what is delivered is
`Span(first_data_seq, n)` with the largest `n` whose numbers have all been
received.

### HttpParser and Http

The two modules follow one direction of one connection; `onTcpData` sets the
current message in every call, so that directions share nothing. The input is a
sequence of symbols: a piece of a string, a method, the end of a line, a byte of a
body, and so on. `http_parser_execute` reads a byte at a time, and the bytes of one
symbol are those among which it does nothing but move on to the next letter. Its
states keep their names, one for each string or line where the code has one for
each letter. Between any two symbols the call may end (`EndOfCall`): a marked
string is handed over as far as it came, and goes on in the next call from a new
mark. A callback is a value, `callback`, that `Http` acts upon in the same step:

    parser     Execute        a step of the state machine
               EndOfCall      the end of the data: the marked part is handed over
    callbacks  OnUrl, OnStatus, OnHeaderField, OnHeaderValue, OnHeadersComplete
    onTcpData  Parse          a step of the parser and what its callback does
               ParseError     the parser stops for good

What the model keeps because a property depends on it: a callback *assigns* its part
of a string, so that what is reported is the part that the last call brought; the
status is set by `onStatus`, which is not called without a reason phrase;
`onHeadersComplete` empties the headers, so that trailers of a chunked body go to the
next message; `http_message_needs_eof` and `http_should_keep_alive` decide what comes
behind a body. `parser->upgrade` is a variable of its own, set at the end of the headers
and not touched by trailers. A list of `Connection` is read word by word: a word sets its
flag at the comma or at the end of the header, and the whitespace of a folded line is a
part of the value that makes a header lose its meaning, unless a comma came last
(`NextMeaning`, `FoldedLine`). Left out: the mode that finds out whether it reads a request or a
response, the limit of 80 KB on a head, the overflow of lengths, the characters that
a token may have, and functions that nothing calls (`http_parser_parse_url`,
`http_body_is_final`, `http_parser_pause`).

### PacketCounter

A counter is the set of packets it has counted, where the code keeps their number:
a packet lost and one counted twice then do not make up for each other. Each atomic
operation and each access under the lock is a step of its own, and the steps of the
workers interleave:

    idle     OnTcpData, OnUdpData    a packet of a protocol that counts
    count    Increment               each counter of its port
    check    TryLock                 pthread_mutex_trylock; the call ends if another has it
    locked   CompareTime             is it a new second?
    due      SetTime
    early, unlock  Unlock
    collect  Collect, Report         getAndSet(0) of each counter, then the callback

The callback itself is set in the initialisation of each worker, before the first
packet (`RegisteredBeforeCapture` of Noff).

### Dns

A packet is a sequence of octets, with the sign that `char` has; `processDns` reads
it step by step, down to the octets of a name. Memory is a set of blocks, numbered in
the order they are allocated, so that a block that is freed twice, or by nobody, or
used later, shows. `readRRname` is two walks: the first (`Measure...`) follows
labels and pointers, counts what it will write, and is bounded by the number of its
steps; the second (`Write...`) writes into a block of that size without a bound of its
own. Pointers lead to a place counted from the questions, not from the header, as in
the code. The rest is `Question...`, `Record...` and `Answer...` for the loops over the
counts in the header, and `Free` at the end.

The code has two weak places here, and the model follows it through both. A packet without a
question leaves `DnsInfo::name` as the stack had it: `QuestionsDone` makes it NULL or
a pointer that leads anywhere (`Unset`); in the first case `parseRR` reads a name for the
first record and uses it for all. And an address that is not of four octets makes `A()`
free its block and return NULL, and the record is an answer all the same
(`AnswerAWrongFormat`); measuring that answer, or a name that was never set, may end the
process (`Crash`).

### TaskQueue, Capture, Dispatcher and Noff

`TaskQueue`, `Capture` and `Dispatcher` hold the state and the steps of one
component each; `Noff` says which thread takes which step, and `EXTENDS` them so
that all share one state. Threads interleave at each access to what they share:

    main      start    the constructor of Dispatcher starts worker by worker
              wait     countDown->wait()
              ready    startLoop
              loop     pcap_loop; a frame: SkipFrame or DispatchFrame
              check    nonBlockingRun looks at the size of the queue ...
              push     ... and pushes, a step later
              ended    the loop is over, ~Dispatcher begins
              check, push, join      for each worker: stop and join
              exit     main has returned
              aborted  an assertion failed
    worker    none, init, idle, taking (in pop), running, done
    handler   none, entered, asserted, cleared (running_ is), done

What the model keeps because a property depends on it:

* `size()` of tbb's bounded queue counts a pop from the moment it draws its
  ticket (`Size`), so that an idle worker's queue has size -1. With `MaxSize` 0
  the only packets accepted are those that a waiting worker takes at once.
* A signal handler runs on whichever thread lives, and suspends it (`Suspended`);
  `sigHandler` and `breakLoop` are three steps, because other handlers and the
  main thread may come between them.
* The break request of libpcap is remembered, and looked at before each frame;
  `running_` is a flag of Capture that nobody but the assertions reads.
* `linkOffset_` is a member that a tagged frame changes for all that follow;
  a frame read at the wrong offset yields `Garbled`, which any worker may get.
* A task owns a copy of the fragment: `allocated` counts the copies, `task` is
  the one in the capture thread's hands, and `overloaded` counts how often the code
  logged that a worker was. `CopiesAccounted` ties the three to the tasks that wait or
  run: an overloaded worker costs one copy each time, which nobody frees any more, and
  nothing else does.

`processed` records what each worker has run; nothing reads it. `Shard` is an
arbitrary function of the packet. Single-threaded operation (`-t 0`), the
options and the copying of a packet's bytes are left out. libpcap, tbb and the
signals of the system are outside of the source: `Packets` arrive, the input
ends, and signals come at any time, or never.

`DispatchService` is a set of FIFO channels, one per worker, that may lose a
packet before accepting it, and after that runs it exactly once, in the order of
capture, on the worker of its flow; `ServiceSpec` maps a channel to the task in
the worker's hand followed by those in its queue.

### IpFragment, IpReassembly and IpService

`fragtable` maps a destination address to its `hostFrags` (the list of its queues
and the bytes it is charged) or to `Null`; `queues` maps each place an `ipq` can
live at to the queue there. `timers` is the doubly linked list of the code, head,
tail, `prev` and `next`, because `ipFind` unlinks the timer of the queue it returns
and `ipDefrag` or `ipFree` unlink it a second time: what the second does depends on
what the first left. `this_host` is a variable, as in the code, set by whoever
looks up a host and read by `ipFree`, which may also take it away.

A call of `startIpfragProc` goes through the stages of `pc`:

    idle     Arrive          a packet that passed the checks of the header
    expire   ExpireTimer     ipDefragStub: the head of the timer list, as long as due
             FindHost        hostfragFind, hostfragCreate
    evict    EvictQueue      ipEvictor: when over the high mark, down to the low mark
             Evicted
    find     PassWhole       a packet that is no fragment, and its queue if it has one
             RefreshQueue    ipFind, and the head of ipDefrag
             CreateQueue     ipCreate
    insert   InsertFragment  trimming at both ends, dropping what is covered,
                             ipDone and ipGlue when nothing is missing

A fragment held is an interval of bytes, the packet it is read from and where in
it (`ptr`): the three are moved by separate assignments when it is trimmed. Memory
is in bytes, with the padding of a buffer (`Truesize`); sizes of structures,
thresholds, lifetime and the largest packet are constants. `Id` stands for the
source, the protocol and the id of a packet. The wrap of `jiffies()` is modelled
(`Jiffies`), but no run reaches it.

`IpReassembly` records the fragments given to each queue and when its timer was
armed. `IpService` promises: what is delivered is a packet that never was a
fragment, or put together from fragments with one key that cover it without gap or
overlap, each piece read from the place in its fragment that it belongs to; and
fragments are given up only a datagram at a time.

### TcpSession and SessionService

`sessionDataMap_` names the session of each flow, a set of two end points, since
hash and equality are the same in both directions. An `Entry` is in the sets that
are the buckets (`shared_ptr`: an entry dies with the last bucket it is in,
`Dropped`) and points to its session weakly (`weak_` becomes `Null` when the
session is freed). A packet is two steps, `Arrive`, with the timer and the
destructors of the entries it drops, and what `onTcpData` does then. `reported`
is what the callbacks were given in the last step. An entry whose session was
closed does nothing any more; its place may be reused at once.

The fourteen counters of a session are two counts of packets, up and down. The
branch of `onTcpData` for a dead connection (lines 97-109) is not in the model: the
guard of the other branches, `HasEntry`, holds for each session of the map by
`SessionsHaveEntries`, which is proved, and would deadlock the run if it did not.
The end of the worker's thread destroys the TcpSession and with it the buckets
(before the map, the members being destroyed in reverse order), which reports
what is left as timed out (`Destroy`).

`SessionService` promises that a flow has a session from its first SYN on, that
packets are counted in the direction they go, and exactly one report: at the
first FIN or RST with that packet counted, or, not normally closed, when
`TimeoutSeconds` seconds *of traffic* passed without a packet of it, or at the
end. The seconds are those in which the worker got a TCP packet: `onTimer` pushes
one bucket however late it is, which is why a quiet link never times anything out.

## 3. Runs

| Run | Bounds | Shows |
|---|---|---|
| `reassembly` | one flow; a ring of 16 that wraps inside the payload; all segments of 1-3 of 4 bytes; FINs; `TcpTimeout` 3, 1 second; `RmemMax` 4, so that two held segments exceed it | data in order, once, promptly; memory accounted; the close comes after all data; every call returns |
| `lifecycle` | 3 clients of one server for 2 places, 2 seconds, a ring of 8 with a first sequence number that wraps; SYN from either side, FINs in and out of order, RST, a bad packet, a full table | one stream per flow, no timer for a freed stream, connections are established, the callbacks follow the abstract service and find their entry in Http |
| `http_assert` | the same | a restarted connection leaves its entry behind |
| `dispatch` | 2 workers, queues of 1, 3 frames of 5 kinds from the "any" device, 1 signal | copies accounted for, bounded queues, the latch, the drain at the end, the abstract dispatch, termination |
| `vlan` | 2 workers, queues of 1, 3 Ethernet frames out of a tagged one and two others, no signal | the frame behind a tagged one is read at the wrong place |
| `ip_fragments` | 3 places for queues, a datagram of 36 bytes in 5 fragments, a second id, a second host, thresholds of 1000 and 400 bytes, a lifetime of 1, the clock up to 3 | fragments trimmed apart, timers linked, hosts and memory as the queues, every call ends, a complete datagram delivered and nothing else |
| `overlap` | the same packets | a fragment within the one before it loses the datagram |
| `sessions` | 2 flows, 2 sessions, 2 entries, a buffer of 3 seconds, 5 seconds, 3 packets of a session | one report of each session, in time and with its counts |
| `http` | 11 directions of requests, 3 of responses, of up to 4 messages; strings of up to 2 pieces; every kind of body; lists of Connection, folded values, trailers that ask for an upgrade; calls that end anywhere | every head is reported once where it ends, with the last part of each string; the parser never loses its place |
| `http_split` | the same | a call that ends behind a header's name stops the parser |
| `counters` | 2 workers, 4 packets, 2 seconds, DNS and port 80 | every packet reported once, every second once at most, the lock given back |
| `dns` | all names of up to 4 octets out of 7; second questions; no question; answers cut off at every octet, or with an address of 3 octets | names fit, blocks have one owner, names live as long as they are used, the call returns |

Why the bounds are enough: every action of TcpFragment depends on one stream,
the timers and the packet, so two places (for timers that collide, and a full
table) and three clients (one more than places) reach every interaction; four
bytes in segments of up to three give gaps, overlaps at both ends, containment
and repetition; a ring of 16 with a window of 6 keeps the live numbers within
half of the ring, as 32 bits do with 65535 * 2^14 at most. `MaxTime` lets one
idle timer and one closing timer expire in `lifecycle`. `SYMMETRY` is over places,
which the code only compares; it is used in runs without liveness.

`DeliveredInOrder` covers every stream, with payload that overtakes the handshake;
`DeliveredPromptly` speaks of connections. Before the third ACK the window of
`processTcp` (lines 257-261) is compared with an `ack_seq` that is still 0, so that
early segments are accepted or not by their distance from 0, and what is accepted is
counted while nobody is told (section 5).

For IpFragment the five fragments repeat a range, overlap at either end, lie
within others and, with one of the two headers, exceed `MaxLen`; a second id on the
same host and a second host give timers a neighbour on either side and lists of
two; a queue is charged 160 bytes and 264 for a fragment, so that three fragments
and a second, empty queue exceed the high mark, and eviction frees both queues or
only the newer one, be it that of the packet or not. `MaxTime` lets a
timer expire that was refreshed in between. For TcpSession a buffer of three
seconds has a first, a middle and a last bucket, five seconds fill it and drop
two; a second flow separates what times out from what does not. Time stamps of
packets do not go back, and no run reaches the wrap of `jiffies`.

For Noff two workers are needed for one to be stopped while another runs, and
for misdirected packets; a queue of 1 overflows with the second of three frames;
one signal can come on each of the three threads and at every step. The kinds of
frames are one that each worker gets, one tagged, one of another protocol and one
shorter than its link header. In `vlan` the input is a capture file: a live capture has
a filter that lets no tagged frame through, a file has none (noff.cc:289-297).

For HttpParser the directions hold a body by length, of length 0, by chunks with
trailers, up to the end of the stream, and none; responses that never have one (100,
204, 304); a message that is the last, with others behind it; an upgrade and CONNECT;
two framings at once, and what is no HTTP. `Connection` holds one word, or a list in
which the word that counts is the last, is followed by a comma, stands behind a fold, or
behind a word that only begins like one the parser knows; a value is folded behind
something, behind nothing, and behind a length, which makes it an error; and a request
whose *trailers* ask for an upgrade is followed by another. Bodies begin like a method, so that a
parser that looked for a message in a body would find one. Two pieces of a string are
enough for a call to end before, inside and behind it.

For PacketCounter two workers in two seconds are enough for each pair of steps to
interleave, four packets for a report of each worker to meet counting by the other;
a packet to port 80 increments two counters. For Dns four octets reach a label that
ends before, at and behind the name's end, a pointer to itself, to a label and out of
the packet, and characters of the two ranges that the walks treat differently. Packets
without a question, as requests and as responses with records, reach both values that
`DnsInfo::name` may have; records hold an address of four octets, of another number, or
something else.

Fairness: `FairSpec` of Noff assumes weak fairness of the main thread's own steps,
of each worker and of each handler, which is the scheduling of threads by the
operating system; it does not assume that frames arrive or that the input ends,
so that the loop is left only when told. A stop that finds a queue full tries
again, as the loop of `TaskQueue::stop` does, and succeeds because the worker
makes room (`LoopEndStops`). `FairSpec` of PacketCounter assumes it of each worker
in its call (`Proceed`), and `FairSpec` of Dns of the one thread that is in
`processDns`. `HistSpec` assumes weak fairness of the steps of a call in progress
(`Process`). The thread of a worker executes the call it is in (`runInThread`);
nothing is assumed of the arrival of packets. `CallReturns` then says that the
drain loop ends. Deadlock is checked in all runs but `counters` and `dns`, which really stop: the first
when its packets are counted, the second when the call has returned. A
process that is over stutters (`Terminated`, `Finished`), so that a deadlock in Noff
would be threads waiting for each other.

## 4. What is proved

`TcpFragmentProofs` proves, for every set of packets, table, timeout and bound,
from the two assumptions on the constants (`SeqSpaceAssumption`: the ring has
more than one number; `TcpAssumption`: timeouts are positive, packets and stack
garbage well-formed, `Null` is neither a packet nor a stream):

* `TypeCorrect`, `NoDanglingTimeoutHolds`, `UniqueFlowHolds`, `TimersAheadHolds`,
  `FinTimerAfterFinsHolds`, `ConnectedIsEstablishedHolds`. The inductive
  invariant `IInv` is their conjunction. None is inductive alone: a stream that
  a SYN restarts is unique only because it was (`RestartStreamKeeps` needs
  `UniqueFlow`); `FinTimerAfterFins` survives a new stream only because no timer
  names a free place (`NoDanglingTimeout`); and `SecondHandshake` leaves
  connections alone only because of `ConnectedIsEstablished`.
  Every action has one of three shapes: it *frees* a set of streams with their
  timers, *advances* one stream (`Advances`: halves that sent a FIN have sent it
  for good, a connection is past its handshake, a closing timer only when both
  halves sent a FIN), or *begins* one in place of others. One lemma per shape
  shows that it keeps the tables right, one per action that it has the shape.
* `MemoryBoundHolds`, the bound on what a direction may hold back. The strengthening `MemoryInv` says that a direction over
  the bound is the receiving one of the stream the call in progress looks up, at
  its last step; the check there finds it because the lookup has one answer
  (`FindStreamUnique`, from `UniqueFlow`).
* `ServiceHolds`, that TcpFragment implements `TcpService` (`ServiceSpec`), from
  `IInv` alone: every action maps to a step of the service or shows nothing. Where
  it ends a connection, the flow must be closed with it, which is `UniqueFlow`: a
  second stream of the flow would keep it open. Where streams are freed by timers,
  those told and those freed are the same connections.
* `CallbacksFindEntryHolds`, from the refinement: what a step of the service tells of
  was open before it, and `TableInv` says that Http has an entry for each open
  connection to port 80. That an entry is *new* to a connection is false (the finding
  `http_assert`), and the proof does not use it.

`TcpReassemblyProofs` proves all four safety properties of what is handed over:

* `RmemAccountingHolds`: what a direction is charged for is the memory of the
  fragments on its list, through every path of `tcpQueue` and the drain. It is
  inductive; the lemmas of `SumProofs` say what insertion and removal do to the sum.
* `DeliveredInOrderHolds`: what each direction of each stream handed over are
  consecutive sequence numbers on the ring, from its first on unless payload overtook
  the handshake. `HistInv` says where the next byte is: what was handed over ends at
  `EXP_SEQ`, and nothing is before the connection is told of (payload that came so early
  is skipped, and `early` marks it). Every step either lets the stream of a place
  begin anew or continue what it had (`StepsWell`), and hands over at most one chunk, which
  begins at `EXP_SEQ`. It assumes `NoUrgentData`: no segment has the urgent flag, and the memory
  that `addNewtcp` leaves unset does not say one is awaited. Around an urgent byte the
  code hands the segment over twice, so that the property is false there (section 5).
* `DeliveredPromptlyHolds`: between packets the drain of the fraglist has left nothing
  behind that could be handed over. `DeliveredPromptly` counts the payload up to the
  first gap in *all numbers ever received*, of which the code keeps only `count` and a
  sorted list, so the inductive invariant `PlacedInv` has to tie these together
  (`Placed`, for each side of each connection): what was received are the offsets
  below `count` and those that a fragment on the list covers, the list is sorted by
  offset, and as much as `count` was handed over. `Ahead` says that the first fragment
  lies beyond `count`; a drain in progress breaks it for the one side it works on
  (`Draining`), and ends when it holds. Sequence numbers are turned into offsets
  from the first number of the direction, where `before` and `after` compare as
  integers do (`Compared`); the proof then has one lemma for each path of `tcpQueue`
  and of the drain: a retransmission (`OldPlaced`), a segment at `EXP_SEQ`
  (`InOrderPlaced`), one ahead (`AheadPlaced`), a fragment taken from the list
  (`DrainedPlaced`) or dropped (`DroppedPlaced`). `AllOrigin` says that a SYN opened
  each direction.
* `ClosedWhenCompleteHolds`: when an ACK closes a connection, `EXP_SEQ` of either side is
  where a FIN was received. A half is in `FIN_SENT` once a FIN was *taken*, that is,
  reached in order, and from then on the direction has no number to come: every
  segment ends at or before the FIN, so that nothing moves `EXP_SEQ` on.

The last two assume, besides `NoUrgentData`:

* `ShortDirections`: from the SYN of a direction to the end of any segment, FIN
  included, is less than half the sequence space, 2 GiB. `after` is the sign of a 32-bit
  difference, so that the set of all numbers ever received says nothing of longer
  streams. It is asked of each SYN in `Packets`, since a tuple4 may be used
  again and the capture has nothing to tell an old segment from a new one.
* `NothingBehindFin` (for `ClosedWhenComplete`): no segment ends behind a FIN of its
  direction. `addFromskb` takes payload behind a FIN as readily as before it, and the close
  that comes then finds `EXP_SEQ` past the FIN.

They are conditions on the traffic, not on the code, and nothing is asked of order, loss
or repetition. `MCReassembly` assumes that its packets meet all three (`MCTraffic`), so
that TLC evaluates them.

`NoffProofs` proves, for any number of workers, queue size, frames, signals and
sharding, `TypeCorrect`, five properties of the threads and the service. The inductive
invariant `IInv` adds to them:

* `RoomIsKept`: between the comparison and the push of `nonBlockingRun` the queue
  only shrinks, since main alone pushes; this gives `QueueBoundedHolds`, and
  fails with two capturing threads.
* `LatchCounts`, in `StartInv`: the latch is the number of workers whose init
  callback has not run, as a cardinality, so that 0 means all have
  (`RegisteredBeforeCaptureHolds`).
* `TaskInv`: an empty task is the last of its queue, and tasks counted = stored +
  in hand + run, so that a thread that took the empty task has run everything
  (`EndedWorkersAreDrainedHolds`).
* `ThreadInv`: queues are closed and joined in order, and a handler runs on a
  thread that lives, so that none is left when main has joined all and returned
  (`CaptureOutlivesHandlersHolds`). `RunningOnlyInLoopHolds` is proved from it too,
  and not the subject of a run.
* `CopiesAccountedHolds`: the copies that are allocated are the one in main's hands, one
  for each task that waits or runs, and one for each time a worker was overloaded.
  `CopyInv` states it in counters, with what was counted for each worker less what it
  has run (`Outstanding`); the sum over the workers changes with the one that a step is of
  (`OneWorkerChanges`, from the lemmas of `SumProofs`), and `OutstandingIsPending`
  turns it into the tasks in the hand and in the queue, which is `TaskInv`. It assumes
  nothing of the traffic: frames at the wrong offset are copied and lost like others.
* `ServiceHolds` is the refinement, `Spec => Service!Spec` (the run checks it with the
  fairness of the service, which is not proved). `PendingIs` gives the channel of a
  worker task by task: the one in hand, then those stored before the empty task.
  With it a push appends, a run takes the head, and a take moves the head from the
  queue to the hand and shows nothing. On top of `IInv` it needs `OrderInv`: all that
  was given has a lower number than the task in main's hands, and that task is for the
  worker of its flow. The end of the program loses nothing by `JoinedInOrder` and
  `EmptyIsLast`.

`TcpSessionProofs` proves, for every capacity of the buffer, set of packets and
number of places, `TypeCorrect`, `SessionsHaveEntriesHolds`,
`EntriesFindTheirOwnHolds` and `EndsAfterStartHolds`. The inductive invariant
`IInv` adds `MapNamesSessions` (the map has no dangling name and every session is
under its own flow), `PacketHasBucket` (the timer has pushed the bucket that
`sessionBuckets_.back()` returns before a packet is looked at), `TimerAhead` and
`StartedBefore` (a session started before the second at which the timer could end
it). `ForgetKeepsLinks` is the lemma that matters: sessions may be freed with a set
of entries when these point to no other session; a drop of a bucket, the end of a
connection and the end of the thread are its three instances. Time stamps that do
not go back are part of `Next` (`now \in clock .. MaxTime`), not proved.

The same invariant proves that TcpSession implements its service (`ServiceHolds`: `Spec => ServiceSpec`). The service counts how long a
session has been quiet, the code has only buckets that share entries:

* `QuietSinceLatest`, `LatestExists`: the quiet seconds are the buckets behind the last
  one with the entry. That there is a last one is the least element of a set of
  distances (`WFMin`).
* `Aging`: the bucket that is dropped was the last with an entry exactly when its session
  had been quiet for one second less than the timeout, and any other session is one
  second older after the drop.
* `TimedOut`: the destructors of a set of entries reach the sessions with an entry
  in the set and no other; `TimeOutShows` turns reports by session into reports by flow.
* `OneShows`: a step on one flow leaves all others as quiet as before, because entries
  are not shared (`weak_` names one session).
* `CountedAlike`: the direction by the whole tuple, as `updateSession` decides it, is the
  direction by the source, as a flow has two end points.

Besides `IInv` it needs `Bounded`: clock and timer stay within the seconds of the
instance.

`IpFragmentProofs` proves, for any number of hosts, queues and packets, any
thresholds and any lifetime, `TypeCorrect`, `TimersLinkedHolds`,
`HostsHoldQueuesHolds`, `MemoryAccountingHolds`, `FragmentsApartHolds` and
`CallAdvancesHolds`. The inductive invariant `IInv` is `Parts` (what holds of the
tables between any two statements), `Registers`, `NoneEmpty` (only the host of the
call in progress may be without a queue) and `Calling` (`this_host` is the host of
the packet, `qp` one of its queues). Its parts:

* `Chained`: there is a sequence of all live queues, each once, that the pointers are
  a view of (`Chain`). Every operation on the list is a lemma about that sequence:
  `AddTimerChain` appends, `DelTimerChain` removes, `DelTimerTwice` says that the
  second deletion does nothing, because what was removed keeps its own links and its
  neighbours are linked already.
* `Queued`, `Listed`, `OneId`: hosts and queues name each other. `ipFree` is the one
  lemma `QueueFreed`, used by expiry, eviction, a whole packet and a completed datagram.
* `Counted`: memory as the sum over a list (`Total`). Sums are recursive functions,
  and what they do under change, insertion and removal (`TotalChange`,
  `TotalPrepend`, `TotalRemove`) is proved by induction; the induction is over a set
  of numbers, from its least element (`Least`, `Induct`), since the library's theorem
  cannot be instantiated.
* `AllApart`: the order of fragments, kept by trimming (`InsertedIs`). It needs no
  assumption that a fragment is longer than nothing, which is not so.

The second half proves that reassembly implements its service (`ServiceHolds`:
`HistSpec => ServiceSpec`) under the same assumptions: each step of IpFragment passes
on, collects, assembles or drops fragments of one datagram, or does nothing the service
sees. On top of `IInv` it needs `HInv`: `Addressed` (the packet in hand goes to a
queue with its own key), `Quiet` (a datagram is delivered by the last step of a call)
and `Records`, what a queue knows of the fragments it was given: each piece is cut from
one of them, its length is that of a final one *and some piece reaches that far*, and
its header has offset 0 as soon as one of them has.

* `OneQueue`, from `OneId`: a datagram has one queue, so that `Collected` at a key is
  what that queue was given (`CollectedIs`) and a step on one queue changes `Collected`
  at one key (`OneChanges`).
* `FirstIsInserted`: a first fragment becomes the header of its queue *before* the check
  for oversized packets, and is never dropped by it, for its offset is 0.
* `GluedIs`: what `ipDone` and `ipGlue` check is enough to cover the datagram. A later
  final fragment may shorten the length, and a fragment may be shorter than nothing:
  `ipGlue` refuses both, and `AllApart` with "some piece reaches that far" gives the
  rest.

Two more properties rest on both invariants:

* `LifetimeKeptHolds`: when a packet is looked up, no queue is there that had no
  fragment for `FragTime`. `ipDefragStub` looks at the head of the timer list only, so
  it needs `TimersInOrder`: the sequence behind the list is in the order of expiry,
  because a timer is armed with the latest time and appended (`Lifetimes`). It assumes
  `NoWrap`, that `jiffies()` stays below the limit of an `int` for as long as the
  program runs; after the wrap the order is lost and the property with it (section 5).
* `CompleteIsDeliveredHolds`: the fragment that completes a datagram delivers it.
  `Retained` says that every byte of every fragment that a queue was given is held by
  one of its fragments, unless one was trimmed to a negative length: trimming and
  dropping lose nothing that is not there twice (`HoldsAsMuch`). With it and `AllApart`
  the pieces are without a gap when all bytes have come, so that `ipDone` says so and
  `ipGlue` finds room.

`PacketCounterProofs` proves, for any number of workers, packets and seconds,
`TypeCorrect`, `CountedExactlyOnceHolds` and `OneReportPerSecondHolds`. The first is
inductive with `CountInv`: a packet in a call is yet in no counter but those it was
counted in, and a worker that does not collect holds nothing. The second needs
`TimeInv`: the lock is held exactly by the worker between `TryLock` and `Unlock`, and
`time` is past every second that is reported or about to be.

`DnsProofs` proves three properties, for every packet that has a header
(`DnsAssumption`), whether or not it has a question. `BlocksOwnedHolds` and `NamesAliveHolds`: the
invariant `Ownership` says in which phases questions and answers can be there at all, and
that no name is in a block yet to be allocated; `Naming` says whose name the records get:
with a question (`Asked`) that of one that was read, until one fails, and without one the
name that `parseRR` read, or `Unset`. Nothing in them depends on what the octets of a name
are. `BlocksOwned` has no exception for answers without data: the block that `A()`
freed is nobody's (`AnswerStep` covers both). What has no owner is the name that `parseRR`
reads (`RecordName`), and `NamesAlive` says nothing once `DnsInfo::name` is `Unset`, for
which the code has nothing to say either.
`SecondWalkFitsHolds` says that the second walk over a name, which has no bound of its
own, stays within the packet and within the memory that the first one measured. Its
invariant `Walks` gives the second walk the *trace* of the first, a function from the
numbers of its steps to the places it was at, with what was measured before each: the
trace begins at `*now_pos`, each place follows from the one before (`Goes`), its last is
the end of a name, and the second walk is at one of them, with no more written than was
measured there. Since a place has one successor (`Ahead`), the next step leads to the
next place of the trace (`Follows`); it is never beyond the last, which is where the
second walk ends too (`BeforeTheEnd`). That `z` and `~` are counted differently only ever
makes the measure larger (`PrintedFits`).

Only model-checked:

* liveness (`CallReturns`, `SignalStops`, `LoopEndStops`, `TimerGivenBack`, `Returns`, the
  liveness of `DispatchService`): out of the prover's reach.
* `HeadsReported`, `ReportsAreTails`, `BytesReported` and `OnlyJunkIsMalformed` of Http:
  they compare the parser with the messages that the direction was put together from, and
  the input is those messages flattened into one sequence of symbols. Where a message
  ends in it, and that all symbols of one kind in it are its own, is an induction over
  the messages sent. What the parser makes of *every* input that follows the grammar stays
  with the run, which enumerates fourteen directions and all the places where a call may end.

## 5. Findings

Each is a run that TLC must find violated; `PROJECT.json` quotes the line.

* `http_assert`: a restarted connection leaves its entry in Http.
* `vlan`: `onPacket` adds the length of a VLAN tag to `linkOffset_`, a member that nobody
  sets back, so that each tagged frame of an Ethernet moves the place at which all later
  frames are read.
* `overlap`: a fragment that lies inside the one before it gets a negative
  length; a datagram all of which came is not delivered.
* `http_split`: `onHeaderFiled` replaces the name of a header by its last part, which
  is empty when a call ends right behind it; the value then finds no name, and the
  parser of the direction is stopped for good.

Without a run of their own:

* `addNewtcp` leaves `urg_seen` and `urg_ptr` unset, so that ordinary data may take
  the path of urgent data (`Garbage`);
* the set of timers keeps one timer per second (`Insert`);
* payload accepted before the third ACK is counted and never told (`Establish`,
  `InWindow`);
* around an urgent byte the segment is handed over a second time
  (`QueueInOrder`), and two FINs behind gaps start no closing timer
  (`DrainFragment` only records them);
* `onIpFragment` returns for an overloaded worker without freeing the copy it made
  (`GiveUp`; `CopiesAccounted` says that this is the only loss, and how large it is);
* a signal before the loop, after it, or a second one, fails an assertion of
  `breakLoop` or `sigHandler` (`FailAssertion`, which the run `dispatch` reaches);
* `jiffies()` wraps after 24 days, and no timer expires any more;
* TcpSession gets the padded length of IpFragment.cc:83-87, at least 168, so that no
  packet is counted as small (TcpSession.cc:163, 173);
* HTTP is counted as HTTPS too (ProtocolPacketCounter.cc:37-41 falls through);
* a response without a reason phrase is reported with the status of the one before
  (`OnStatus`), trailers of a chunked body with the next message, and every string of
  a report is only the part of it that came last;
* a record of type A whose data are not four octets becomes an answer without data, and
  `strlen(NULL)` ends the process (Dnsparser.cc:68; `Crash`);
* in a packet without a question `DnsInfo::name` is used unset (`Unset`), or the name
  of the first record is never freed (`RecordName`);
* a record is measured from its name to the end of its data as if the name were not
  there, so that `A()` reads up to two octets behind the packet (Dnsparser.cc:322, 342);
* `parseRR` checks for 10 octets of a header of 12, takes two octets for EDNS's
  pseudo record, and never assigns the class of a question (`RecordAt`);
* `Sharding` reads ports from every fragment although only the first has them, so that
  the fragments of one datagram may go to different workers.

## 6. Plan

In this order, most important behaviour first:

1. TcpFragment, Http's table, the abstract service, their proofs (done).
2. `TaskQueue`, `Dispatcher`, `Capture`, the signal handler and `main`, the
   abstract dispatch, the proofs of the invariants and of the dispatch (done).
3. `IpFragment`, the abstract service, the record of what was received, the proofs of
   the timer list, hosts, memory, trimming and the service (done).
4. `TcpSession`, the abstract service, the proofs of its invariants and of the service
   (done).
5. `ProtocolPacketCounter` with `Timer`, and proofs (done).
6. `HttpParser` and Http's parser callbacks (done).
7. `DnsParser`, and proofs (done).
8. Theorems: `TcpService` as implemented, step by step; Http's table; the order of
   delivery; memory of a stream; the lifetime and the completeness of datagrams; the
   copies of fragments; the two walks over a name (done).
9. `Sharding` as pure operators that give `Dispatcher` its `Shard` (not done: that both
   directions of a flow go to one worker is plain, since `operator()` hashes nothing but
   the two ends' addresses and ports combined by xor; what breaks it, the ports of
   fragments, is in section 5).
10. `DeliveredPromptly` and `ClosedWhenComplete` for every set of packets of end points
    that behave (done).

### Not modelled

* Udp, TcpHeader, UdpClient: they keep no state; each hands on or sends what it is given.
* MacCount: two sums of the capture thread alone, reported and reset in one call.
* TestCounter: prints a rate, for tests.
* Sharding and Hash: the value of a hash. `Shard` is an arbitrary constant function of
  the packet, which is what a hash of unknown random octets is.
* Of HttpParser: `http_parser_parse_url`, `http_body_is_final`, `http_parser_pause`
  (nothing calls them), the mode that detects requests and responses (noff never
  asks for it), limits on lengths, and the characters a token or a number may have.
* Of DnsParser: the fields that are only copied, and what is in memory behind a packet.
* Of noff.cc: the options, and the mode without workers (`-t 0`).
* Formatting, logging and sockets.
