---------------------------- MODULE TcpService -----------------------------
(***************************************************************************)
(* What TcpFragment promises the analysers registered with it, whatever    *)
(* packets are captured: between the connection callback of a tuple4 and   *)
(* the one callback that ends it, and only there, data of that tuple4 is   *)
(* handed over.  A connection may also be dropped without a callback.      *)
(***************************************************************************)
EXTENDS Sequences

CONSTANTS Addr, Endings     \* tuple4s, and the kinds of callbacks that end

VARIABLES
    open,      \* the connections reported and not yet ended
    report     \* the callbacks of the last step: [opened, ended, data]

Nothing == [opened |-> {}, ended |-> {}, data |-> <<>>]

Init == open = {} /\ report = Nothing

\* A connection is reported, and was not open.
Connect(addr) ==
    /\ addr \notin open
    /\ open' = open \cup {addr}
    /\ report' = [Nothing EXCEPT !.opened = {addr}]

\* Data belongs to one open connection.
Deliver(addr) ==
    /\ addr \in open
    /\ report'.opened = {}
    /\ report'.ended = {}
    /\ \A i \in DOMAIN report'.data : report'.data[i].addr = addr
    /\ open' = open

\* Some open connections end, each with one callback.
End(kind, S) ==
    /\ S \subseteq open
    /\ open' = open \ S
    /\ report' = [Nothing EXCEPT
           !.ended = {[addr |-> addr, kind |-> kind[addr]] : addr \in S}]

\* A connection is forgotten, without a callback.
Drop(addr) ==
    /\ addr \in open
    /\ open' = open \ {addr}
    /\ report' = Nothing

\* A packet nobody has to hear of.
Silent == report' = Nothing /\ open' = open

Next ==
    \/ \E addr \in Addr : Connect(addr) \/ Deliver(addr) \/ Drop(addr)
    \/ \E S \in SUBSET open : \E kind \in [S -> Endings] : End(kind, S)
    \/ Silent

Spec == Init /\ [][Next]_<<open, report>>
============================================================================
