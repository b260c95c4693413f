---------------------------- MODULE IpReassembly ----------------------------
(***************************************************************************)
(* IpFragment with a record of what each queue was given and when, to      *)
(* compare reassembly with its definition.                                 *)
(***************************************************************************)
EXTENDS IpFragment

(***************************************************************************)
(* history[p], for the queue at p:                                         *)
(*   received  the fragments that were inserted                            *)
(*   touched   the clock when its timer was armed                          *)
(***************************************************************************)
VARIABLE history

histVars == <<vars, history>>

NoHistory == [received |-> {}, touched |-> 0]

HistInit == Init /\ history = [p \in Ptr |-> NoHistory]

\* The step found or created the queue at p for a fragment.
Touched(p) ==
    /\ pc = "find"
    /\ queues'[p].iph.id = packet.id
    /\ queues'[p].iph.dst = packet.dst

HistStep(p) ==
    IF queues'[p] = Null THEN NoHistory
    ELSE [received |-> IF pc = "insert" /\ p = qp
                       THEN history[p].received \cup {packet}
                       ELSE history[p].received,
          touched |-> IF Touched(p) THEN clock ELSE history[p].touched]

HistNext == Next /\ history' = [p \in Ptr |-> HistStep(p)]

HistSpec == HistInit /\ [][HistNext]_histVars

----------------------------------------------------------------------------
Bytes(p) == p.offset .. p.offset + p.len - 1

\* The fragments S are those of one datagram, all of it.
Complete(S) ==
    \E last \in S : LET total == last.offset + last.len IN
        /\ ~last.mf
        /\ \A p \in S : /\ p.offset + p.len <= total
                        /\ p.mf \/ p.offset + p.len = total
                        /\ p.offset = 0 => p.ihl + total <= MaxLen
        /\ UNION {Bytes(p) : p \in S} = 0 .. total - 1

\* The call in progress inserts the last fragment that was missing.
Completes == pc = "insert" /\ Complete(history[qp].received \cup {packet})

\* A fragment was trimmed at both ends and there is less than nothing of it.
Short(q) == \E i \in DOMAIN q.fragments : q.fragments[i].end < q.fragments[i].offset

\* The fragment that completes a datagram delivers it, in whatever order, how
\* often and with what overlaps they came (IpFragment.cc:315-319), unless one
\* was trimmed to a negative length.
CompleteIsDelivered ==
    [][Completes /\ ~Short(Inserted(queues[qp])) => delivered' # Null]_histVars

\* "if needed, align things so that any overlaps are eliminated"
\* (IpFragment.cc:241-242): an overlap costs nothing.
OverlapIsHarmless == [][Completes => delivered' # Null]_histVars

\* When a packet is looked up no queue is there that had no fragment for
\* FragTime, for the timers are in the order they expire in (IpFragment.cc:340).
LifetimeKept ==
    pc \in {"find", "insert"} =>
        \A p \in Live : clock <= history[p].touched + FragTime

----------------------------------------------------------------------------
KeyOf(p) == <<p.dst, p.id>>

Collected ==
    [k \in Dst \X Id |->
        UNION {history[p].received : p \in {q \in Live : KeyOf(queues[q].iph) = k}}]

Service == INSTANCE IpService WITH
    Key <- Dst \X Id, collected <- Collected, report <- delivered

ServiceSpec == Service!Spec
============================================================================
