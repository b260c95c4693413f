-------------------------------- MODULE Sums --------------------------------
(***************************************************************************)
(* The memory that a list accounts for is a sum: of the fragments of an    *)
(* incomplete datagram, of the segments a stream holds.                    *)
(***************************************************************************)
EXTENDS Integers, Sequences

\* The sum of the numbers in s.
Total(s) ==
    LET total[n \in 0 .. Len(s)] == IF n = 0 THEN 0 ELSE total[n - 1] + s[n]
    IN  total[Len(s)]

=============================================================================
