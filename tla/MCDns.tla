------------------------------- MODULE MCDns -------------------------------
(***************************************************************************)
(* Packets with every question of a few octets, and with questions and     *)
(* answers that are cut off at every place; with addresses that are too    *)
(* short, and with answers to no question.                                 *)
(***************************************************************************)
EXTENDS Dns

Header(rcode, questions, answered) ==
    <<0, 0, 0, rcode, 0, questions, 0, answered, 0, 0, 0, 4>>

\* The end of a name, a label of one and of two characters, a letter, a space,
\* a brace and the first octet of a pointer.
Octets == {0, 1, 2, 97, 32, 123, -64}

ShortNames == UNION {[1 .. n -> Octets] : n \in 0 .. 4}
TypeAndClass == <<0, 1, 0, 1>>

Named == <<1, 97, 0>>
Again == <<-64, 0>>
Fields(type, length) == <<0, type, 0, 1, 0, 0, 0, 9, 0, length>>
RR(type, length) == <<-64, 12>> \o Fields(type, length)
Address == <<1, 2, 3, 4>>

Cut(s) == {SubSeq(s, 1, n) : n \in 0 .. Len(s)}

\* One question with any short name.
AnyQuestion == {Header(0, 1, 0) \o n \o TypeAndClass : n \in ShortNames}

\* Two questions, the second with any name of two octets.
AnySecond ==
    {Header(1, 2, 1) \o Named \o TypeAndClass \o n \o t :
        n \in UNION {[1 .. k -> Octets] : k \in 0 .. 2}, t \in Cut(TypeAndClass)}

\* Two answers, the first of which may be the pseudo record of EDNS.
Answered ==
    {Header(0, 1, 2) \o s :
        s \in Cut(Named \o TypeAndClass \o RR(1, 4) \o Address \o RR(28, 4) \o Address)
              \cup Cut(<<0>> \o TypeAndClass \o RR(41, 0) \o RR(1, 4) \o Address)}

\* Two questions, and an alias before the address.
Both ==
    {Header(0, 2, 2) \o s :
        s \in Cut(Named \o TypeAndClass \o Again \o TypeAndClass
                  \o RR(5, 3) \o Named \o RR(1, 4) \o Address)}

\* Two records of type A, one or both of them without an address.
WrongFormat ==
    {Header(0, 1, 2) \o s :
        s \in Cut(Named \o TypeAndClass \o RR(1, 3) \o <<1, 2, 3>> \o RR(1, 4) \o Address)
              \cup Cut(<<0>> \o TypeAndClass \o RR(1, 4) \o Address \o RR(1, 0))
              \cup Cut(Named \o TypeAndClass \o RR(1, 0) \o RR(1, 0))}

\* No question, but answers: with a name, with the name of the root, with one
\* that leads back to itself, and with one that ends with a pointer; and a
\* request with nothing.
NoQuestion ==
    {Header(0, 0, 2) \o s :
        s \in Cut(Named \o Fields(1, 4) \o Address \o RR(1, 4) \o Address)
              \cup Cut(<<0>> \o Fields(1, 4) \o Address \o RR(1, 0))
              \cup Cut(Again \o Fields(1, 4) \o Address)
              \cup Cut(<<1, 97, -64, 4, 0, 1, 0>> \o Fields(1, 4) \o Address)}
    \cup {Header(0, 0, 0)}

MCPackets ==
    AnyQuestion \cup AnySecond \cup Answered \cup Both \cup WrongFormat \cup NoQuestion
        \cup {Header(6, 1, 0)}
============================================================================
