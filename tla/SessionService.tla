--------------------------- MODULE SessionService ---------------------------
(***************************************************************************)
(* What TcpSession promises: a flow that sends a SYN has a session, which  *)
(* counts its packets in each direction and is reported exactly once: with *)
(* its first FIN or RST, or, not normally closed, when it has been quiet   *)
(* for TimeoutSeconds seconds of traffic or when the worker ends.          *)
(***************************************************************************)
EXTENDS Integers

CONSTANTS Flow, Endpoint, Second, Null, TimeoutSeconds

VARIABLES open, reported

serviceVars == <<open, reported>>

Sessions == {f \in Flow : open[f] # Null}

ReportFor(s, end, normally) ==
    [t4 |-> s.t4, startTime_ |-> s.startTime_, endTime_ |-> end, up |-> s.up,
     down |-> s.down, normallyClosed_ |-> normally]

Init == open = [f \in Flow |-> Null] /\ reported = {}

\* The first packet of a session; the sender is the one whose packets go up.
Start(f, from, to, now) ==
    /\ open[f] = Null
    /\ f = {from, to}
    /\ open' = [open EXCEPT ![f] = [t4 |-> <<from, to>>, startTime_ |-> now,
                                    up |-> 1, down |-> 0, quiet |-> 0]]
    /\ reported' = {}

Counted(s, from) ==
    IF from = s.t4[1] THEN [s EXCEPT !.up = @ + 1] ELSE [s EXCEPT !.down = @ + 1]

Count(f, from) ==
    /\ open[f] # Null
    /\ from \in f
    /\ open' = [open EXCEPT ![f] = [Counted(@, from) EXCEPT !.quiet = 0]]
    /\ reported' = {}

Close(f, from, now) ==
    /\ open[f] # Null
    /\ from \in f
    /\ open' = [open EXCEPT ![f] = Null]
    /\ reported' = {ReportFor(Counted(open[f], from), now, TRUE)}

\* A second of traffic begins; those that were quiet too long end with it.
Tick(now) ==
    LET late == {f \in Sessions : open[f].quiet + 1 = TimeoutSeconds} IN
    /\ open' = [f \in Flow |->
           IF open[f] = Null \/ f \in late THEN Null
           ELSE [open[f] EXCEPT !.quiet = @ + 1]]
    /\ reported' = {ReportFor(open[f], now, FALSE) : f \in late}

\* The worker ends.
Finish(now) ==
    /\ open' = [f \in Flow |-> Null]
    /\ reported' = {ReportFor(open[f], now, FALSE) : f \in Sessions}

Silent == UNCHANGED open /\ reported' = {}

Next ==
    \/ \E f \in Flow, from, to \in Endpoint, now \in Second : Start(f, from, to, now)
    \/ \E f \in Flow, from \in Endpoint : Count(f, from)
    \/ \E f \in Flow, from \in Endpoint, now \in Second : Close(f, from, now)
    \/ \E now \in Second : Tick(now) \/ Finish(now)
    \/ Silent

Spec == Init /\ [][Next]_serviceVars
============================================================================
