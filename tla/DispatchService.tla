-------------------------- MODULE DispatchService --------------------------
(***************************************************************************)
(* What the dispatch of fragments promises: a worker runs the tasks it was *)
(* given once each, in the order of their capture, and all of them before  *)
(* the program ends; a packet is only ever given to the worker of its      *)
(* flow.  Fragments may be dropped before they are given to a worker, and  *)
(* an abort drops what is pending.                                         *)
(***************************************************************************)
EXTENDS Integers, Sequences

CONSTANTS Worker, Packet, Garbled, Shard

VARIABLES
    pending,    \* given to a worker and not run
    processed,  \* run
    open        \* the program has not ended

serviceVars == <<pending, processed, open>>

Init ==
    /\ pending = [w \in Worker |-> <<>>]
    /\ processed = [w \in Worker |-> <<>>]
    /\ open = TRUE

\* Every task of every worker that was captured before number no.
Newest(no) ==
    \A w \in Worker : LET all == processed[w] \o pending[w] IN
        \A i \in DOMAIN all : all[i].no < no

Give(w) ==
    LET given == pending'[w]
        new == given[Len(given)]
    IN  /\ open
        /\ given # <<>>
        /\ new \in [no : Nat, packet : Packet \cup {Garbled}]
        /\ Newest(new.no)
        /\ new.packet # Garbled => Shard[new.packet] = w
        /\ pending' = [pending EXCEPT ![w] = Append(@, new)]
        /\ UNCHANGED <<processed, open>>

Process(w) ==
    /\ pending[w] # <<>>
    /\ processed' = [processed EXCEPT ![w] = Append(@, Head(pending[w]))]
    /\ pending' = [pending EXCEPT ![w] = Tail(@)]
    /\ UNCHANGED open

End ==
    /\ \A w \in Worker : pending[w] = <<>>
    /\ open' = FALSE
    /\ UNCHANGED <<pending, processed>>

Abort ==
    /\ pending' = [w \in Worker |-> <<>>]
    /\ open' = FALSE
    /\ UNCHANGED processed

Next == (\E w \in Worker : Give(w) \/ Process(w)) \/ End \/ Abort

Spec == Init /\ [][Next]_serviceVars

\* What was given to a worker is run.
FairSpec == Spec /\ \A w \in Worker : WF_serviceVars(Process(w))
============================================================================
