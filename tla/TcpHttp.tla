------------------------------ MODULE TcpHttp ------------------------------
(***************************************************************************)
(* A worker's TcpFragment with the Http analyser registered on it          *)
(* (src/app/http/Http.cc).  Callbacks are plain calls, so Http's table     *)
(* changes in the step of TcpFragment that makes the call.                 *)
(***************************************************************************)
EXTENDS TcpFragment

CONSTANT HttpServer     \* the endpoints whose port is 80

VARIABLE table          \* the tuple4s Http keeps an HttpDetail for

httpVars == <<vars, table>>

IsHttp(addr) == addr[2] \in HttpServer

\* onTcpConnection inserts the tuple4 (and keeps an entry it already has).
OnTcpConnection(tbl, opened) == tbl \cup {addr \in opened : IsHttp(addr)}

\* onTcpClose, onTcpRst and onTcpTimeout erase it.
OnTcpEnd(tbl, ended) == {addr \in tbl : \A e \in ended : e.addr # addr}

HttpInit == Init /\ table = {}

HttpNext ==
    /\ Next
    /\ table' = OnTcpConnection(OnTcpEnd(table, callbacks'.ended), callbacks'.opened)

HttpSpec == HttpInit /\ [][HttpNext]_httpVars

----------------------------------------------------------------------------
\* The connections TcpFragment has reported and not ended.
Connected == {tcphashmap_[a].addr : a \in {b \in Live : tcphashmap_[b].isconnnection}}

\* TcpFragment keeps the protocol of callbacks every analyser relies on.
Service == INSTANCE TcpService WITH
    Endings <- {"close", "timeout", "rst"}, open <- Connected, report <- callbacks

ServiceSpec == Service!Spec

\* Each data, close, timeout and reset callback of a connection to port 80
\* finds the entry it looks up (Http.cc:282-289, 347, 360, 372).
CallbacksFindEntry ==
    [][ LET told == {e.addr : e \in callbacks'.ended}
                        \cup {callbacks'.data[i].addr : i \in DOMAIN callbacks'.data}
        IN  {addr \in told : IsHttp(addr)} \subseteq table ]_httpVars

\* onTcpConnection asserts that the tuple4 has no entry yet (Http.cc:263).
NoEntryBefore ==
    [][ \A addr \in callbacks'.opened : IsHttp(addr) => addr \notin table ]_httpVars
============================================================================
