------------------------- MODULE TcpReassemblyProofs -------------------------
(***************************************************************************)
(* TcpFragment hands the payload of a side over in order, as soon as it    *)
(* can and all of it before a connection closes, and accounts for the      *)
(* memory of what it holds, for every capture and every sequence space.    *)
(***************************************************************************)
EXTENDS TcpReassembly, TcpFragmentProofs, SumProofs, FiniteSetTheorems

----------------------------------------------------------------------------
(***************************************************************************)
(* Sequence numbers wrap: a span that follows a span is one span.          *)
(***************************************************************************)
\* A number is a multiple of the sequence space and its remainder.
LEMMA ModSplits ==
    ASSUME NEW x \in Int
    PROVE  \E q \in Int : x = SeqSpace * q + (x % SeqSpace)
<1>1. SeqSpace \in Int /\ SeqSpace > 0
  BY SeqSpaceAssumption
<1>2. x = SeqSpace * (x \div SeqSpace) + (x % SeqSpace) /\ x \div SeqSpace \in Int
  BY <1>1
<1> QED
  BY <1>2

\* Only one multiple of it is smaller than the sequence space.
LEMMA NoMultiple ==
    ASSUME NEW q \in Int, NEW d \in Int, d = SeqSpace * q, -SeqSpace < d, d < SeqSpace
    PROVE  d = 0
<1>1. SeqSpace \in Int /\ SeqSpace > 0
  BY SeqSpaceAssumption
<1>2. CASE q >= 1
  <2>1. SeqSpace * q >= SeqSpace
    BY <1>1, <1>2
  <2> QED
    BY <1>1, <2>1
<1>3. CASE q <= -1
  <2>1. SeqSpace * q <= -SeqSpace
    BY <1>1, <1>3
  <2> QED
    BY <1>1, <2>1
<1>4. CASE q = 0
  BY <1>1, <1>4
<1> QED
  BY <1>2, <1>3, <1>4

\* Numbers a multiple apart have the same remainder.
LEMMA SameRest ==
    ASSUME NEW x \in Int, NEW y \in Int, NEW q \in Int, x = y + SeqSpace * q
    PROVE  x % SeqSpace = y % SeqSpace
<1>1. PICK a \in Int : x = SeqSpace * a + (x % SeqSpace)
  BY ModSplits
<1>2. PICK b \in Int : y = SeqSpace * b + (y % SeqSpace)
  BY ModSplits
<1>3. x % SeqSpace \in SeqNum /\ y % SeqSpace \in SeqNum
  BY ModType
<1> DEFINE r == x % SeqSpace
           t == y % SeqSpace
           S == SeqSpace
<1>4. r \in Int /\ t \in Int /\ S \in Int /\ 0 <= r /\ r < S /\ 0 <= t /\ t < S
  BY <1>3, SeqSpaceAssumption DEF SeqNum
<1> HIDE DEF r, t
<1>5. r - t = S * ((b + q) - a)
  <2>1. x = S * a + r /\ y = S * b + t
    BY <1>1, <1>2 DEF r, t
  <2>2. S * ((b + q) - a) = S * b + S * q - S * a
    BY <1>4
  <2>3. S * a \in Int /\ S * b \in Int /\ S * q \in Int
    BY <1>4
  <2> QED
    BY <1>4, <2>1, <2>2, <2>3
<1>6. r - t = 0
  <2>1. (b + q) - a \in Int /\ r - t \in Int /\ -S < r - t /\ r - t < S
    BY <1>4
  <2> QED
    BY <1>5, <2>1, NoMultiple
<1> QED
  BY <1>4, <1>6 DEF r, t

\* What was wrapped may be added to.
LEMMA ModAdd ==
    ASSUME NEW x \in Int, NEW k \in Int
    PROVE  ((x % SeqSpace) + k) % SeqSpace = (x + k) % SeqSpace
<1>1. PICK q \in Int : x = SeqSpace * q + (x % SeqSpace)
  BY ModSplits
<1> DEFINE r == x % SeqSpace
           p == SeqSpace * q
<1>2. r \in Int /\ p \in Int
  BY ModType, SeqSpaceAssumption DEF SeqNum
<1>3. x = p + r
  BY <1>1
<1> HIDE DEF r, p
<1>4. x + k = (r + k) + p
  BY <1>2, <1>3
<1>5. x + k = (r + k) + SeqSpace * q
  BY <1>4 DEF p
<1>6. x + k \in Int /\ r + k \in Int
  BY <1>2
<1>7. (x + k) % SeqSpace = (r + k) % SeqSpace
  BY <1>5, <1>6, SameRest
<1> QED
  BY <1>7 DEF r

\* A span counts up from its first number.
LEMMA SpanIs ==
    ASSUME NEW first, NEW n \in Nat
    PROVE  /\ Len(Span(first, n)) = n /\ DOMAIN Span(first, n) = 1 .. n
           /\ \A i \in 1 .. n : Span(first, n)[i] = (first + i - 1) % SeqSpace
           /\ n = 0 => Span(first, n) = <<>>
           /\ n > 0 => Span(first, n) # <<>>
BY DEF Span

\* It is a sequence of sequence numbers.
LEMMA SpanType ==
    ASSUME NEW first \in Int, NEW n \in Nat
    PROVE  Span(first, n) \in Seq(SeqNum)
<1>1. \A i \in 1 .. n : (first + i - 1) % SeqSpace \in SeqNum
  BY ModType
<1> QED
  BY <1>1, SpanIs DEF Span

\* Two spans that meet are one.
LEMMA SpanJoins ==
    ASSUME NEW first \in Int, NEW m \in Nat, NEW exp \in Int, NEW n \in Nat,
           exp = (first + m) % SeqSpace
    PROVE  Span(first, m) \o Span(exp, n) = Span(first, m + n)
<1> DEFINE one == Span(first, m) \o Span(exp, n)
           all == Span(first, m + n)
<1>0. m + n \in Nat
  OBVIOUS
<1>1. /\ Span(first, m) \in Seq(SeqNum) /\ Len(Span(first, m)) = m
      /\ Span(exp, n) \in Seq(SeqNum) /\ Len(Span(exp, n)) = n
      /\ all \in Seq(SeqNum) /\ Len(all) = m + n
  <2>1. Len(Span(first, m)) = m /\ Len(Span(exp, n)) = n
    BY SpanIs
  <2>2. Span(first, m) \in Seq(SeqNum) /\ Span(exp, n) \in Seq(SeqNum)
    BY SpanType
  <2>3. Len(all) = m + n
    BY <1>0, SpanIs
  <2>4. all \in Seq(SeqNum)
    BY <1>0, SpanType
  <2> QED
    BY <2>1, <2>2, <2>3, <2>4
<1>2. one \in Seq(SeqNum) /\ Len(one) = m + n
  <2> DEFINE a == Span(first, m)
             b == Span(exp, n)
  <2>1. one = a \o b /\ a \in Seq(SeqNum) /\ b \in Seq(SeqNum) /\ Len(a) + Len(b) = m + n
    BY <1>1
  <2> HIDE DEF a, b, one
  <2> QED
    BY <2>1, ConcatProperties
<1>3. ASSUME NEW i \in 1 .. m + n
      PROVE  one[i] = all[i]
  <2>0. all[i] = (first + i - 1) % SeqSpace
    BY <1>0, SpanIs
  <2>1. CASE i <= m
    <3>1. i \in 1 .. m
      BY <2>1
    <3>2. one[i] = Span(first, m)[i]
      BY <3>1, <1>1, ConcatProperties
    <3> QED
      BY <3>1, <3>2, <2>0, SpanIs
  <2>2. CASE i > m
    <3>1. i - m \in 1 .. n
      BY <2>2
    <3>2. one[i] = Span(exp, n)[i - m]
      BY <3>1, <2>2, <1>1, ConcatProperties
    <3>3. one[i] = (exp + (i - m) - 1) % SeqSpace
      BY <3>1, <3>2, SpanIs
    <3>4. (((first + m) % SeqSpace) + ((i - m) - 1)) % SeqSpace
             = ((first + m) + ((i - m) - 1)) % SeqSpace
      BY <3>1, ModAdd
    <3>5. /\ exp + (i - m) - 1 = exp + ((i - m) - 1)
          /\ (first + m) + ((i - m) - 1) = first + i - 1
      <4>1. i \in Int /\ m \in Int /\ first \in Int
        OBVIOUS
      <4> QED
        BY <4>1
    <3> QED
      BY <2>0, <3>3, <3>4, <3>5
  <2>3. i <= m \/ i > m
    OBVIOUS
  <2> HIDE DEF one, all
  <2> QED
    BY <2>1, <2>2, <2>3
<1> HIDE DEF one, all
<1>4. one = all
  BY <1>1, <1>2, <1>3, SeqEqual
<1> QED
  BY <1>4 DEF one, all

----------------------------------------------------------------------------
\* What is recorded of a side.
Record == [have : SUBSET SeqNum, fins : SUBSET SeqNum, got : Seq(SeqNum), early : BOOLEAN]

\* Side d of stream s has handed over a span that ends at EXP_SEQ; from the
\* first byte on, unless payload came before the connection.
InOrder(s, d, h) ==
    /\ ~s.isconnnection => h.got = <<>>
    /\ h.got # <<>> =>
          /\ h.got = Span(h.got[1], Len(h.got))
          /\ (h.got[1] + Len(h.got)) % SeqSpace = ExpSeq(s, d)
    /\ ~h.early =>
          /\ h.got = <<>> => s.half[Other(d)].count = 0
          /\ h.got # <<>> => h.got[1] = s.half[d].first_data_seq
          /\ s.isconnnection \/ s.half[Other(d)].fraglist = <<>>

\* Stream s becomes t in a step that hands over "out" for side d, and gives d's
\* payload to tcpQueue or not.
Follows(s, t, d, out, given) ==
    LET rcv == s.half[Other(d)]
        r   == t.half[Other(d)]
    IN  /\ s.isconnnection => t.isconnnection
        /\ t.isconnnection => t.half[d].first_data_seq = s.half[d].first_data_seq
        /\ \E n \in Nat : /\ r.count = (rcv.count + n) % SeqSpace
                          /\ out = IF s.isconnnection THEN Span(ExpSeq(s, d), n) ELSE <<>>
        /\ \/ given
           \/ rcv.fraglist # <<>>
           \/ r.fraglist = rcv.fraglist /\ r.count = rcv.count

\* What a span is after n more bytes.
LEMMA ExpSeqGrows ==
    ASSUME NEW s \in TcpStream, NEW t \in TcpStream, NEW d \in Side, NEW n \in Nat,
           t.half[d].first_data_seq = s.half[d].first_data_seq,
           t.half[Other(d)].count = (s.half[Other(d)].count + n) % SeqSpace
    PROVE  (ExpSeq(s, d) + n) % SeqSpace = ExpSeq(t, d)
<1> DEFINE first == s.half[d].first_data_seq
           count == s.half[Other(d)].count
<1>1. first \in Int /\ count \in Int
  <2>1. s.half[d] \in HalfStream /\ s.half[Other(d)] \in HalfStream
    BY HalvesType
  <2>2. first \in SeqNum
    BY <2>1 DEF HalfStream
  <2>3. count \in SeqNum
    BY <2>1 DEF HalfStream
  <2>4. SeqNum \subseteq Int
    BY SeqSpaceAssumption DEF SeqNum
  <2> QED
    BY <2>2, <2>3, <2>4
<1>2. ExpSeq(s, d) = (first + count) % SeqSpace
  BY DEF ExpSeq
<1>3. ExpSeq(t, d) = (first + ((count + n) % SeqSpace)) % SeqSpace
  BY DEF ExpSeq
<1> HIDE DEF first, count
<1>4. (((first + count) % SeqSpace) + n) % SeqSpace = ((first + count) + n) % SeqSpace
  BY <1>1, ModAdd
<1>5. (((count + n) % SeqSpace) + first) % SeqSpace = ((count + n) + first) % SeqSpace
  BY <1>1, ModAdd
<1>6. (count + n) % SeqSpace \in Int
  BY <1>1, ModType, SeqSpaceAssumption DEF SeqNum
<1> DEFINE m == (count + n) % SeqSpace
<1>7. first + m = m + first
  BY <1>1, <1>6
<1>8. (first + count) + n = (count + n) + first
  BY <1>1
<1> QED
  BY <1>2, <1>3, <1>4, <1>5, <1>7, <1>8

\* Reassembly of a side stays in order through a step.
LEMMA FollowsInOrder ==
    ASSUME NEW s \in TcpStream, NEW t \in TcpStream, NEW d \in Side,
           NEW h \in Record, NEW k \in Record, NEW out, NEW given \in BOOLEAN,
           InOrder(s, d, h), Follows(s, t, d, out, given),
           k.got = h.got \o out,
           k.early = (h.early \/ (given /\ ~s.isconnnection))
    PROVE  InOrder(t, d, k)
<1> DEFINE exp == ExpSeq(s, d)
           got == h.got
<1>0. /\ h.early \in BOOLEAN /\ k.early \in BOOLEAN /\ got \in Seq(SeqNum)
      /\ s.isconnnection \in BOOLEAN /\ t.isconnnection \in BOOLEAN
      /\ s.half[d] \in HalfStream /\ s.half[Other(d)] \in HalfStream
  BY HalvesType DEF Record, TcpStream
<1>1. exp \in SeqNum /\ exp \in Int
  BY ExpSeqType, SeqSpaceAssumption DEF SeqNum
<1>2. PICK n \in Nat :
         /\ t.half[Other(d)].count = (s.half[Other(d)].count + n) % SeqSpace
         /\ out = IF s.isconnnection THEN Span(exp, n) ELSE <<>>
  BY DEF Follows
<1>3. CASE ~s.isconnnection
  <2>1. got = <<>> /\ out = <<>> /\ k.got = <<>>
    BY <1>2, <1>3 DEF InOrder
  <2>2. ASSUME ~k.early
        PROVE  t.half[Other(d)].count = 0 /\ t.half[Other(d)].fraglist = <<>>
    <3>1. ~h.early /\ ~given
      BY <1>0, <1>3, <2>2
    <3>2. s.half[Other(d)].count = 0 /\ s.half[Other(d)].fraglist = <<>>
      BY <1>3, <2>1, <3>1 DEF InOrder
    <3> QED
      BY <3>1, <3>2 DEF Follows
  <2> QED
    BY <2>1, <2>2 DEF InOrder
<1>4. CASE s.isconnnection
  <2>1. /\ t.isconnnection /\ t.half[d].first_data_seq = s.half[d].first_data_seq
        /\ out = Span(exp, n) /\ k.got = got \o Span(exp, n)
    BY <1>2, <1>4 DEF Follows
  <2>2. (exp + n) % SeqSpace = ExpSeq(t, d)
    BY <1>2, <2>1, ExpSeqGrows
  <2>3. Span(exp, n) \in Seq(SeqNum) /\ Len(Span(exp, n)) = n
    BY <1>1, SpanIs, SpanType
  <2>4. ~k.early => ~h.early
    BY <1>0
  <2>5. CASE got = <<>>
    <3>1. k.got = Span(exp, n)
      BY <2>1, <2>3, <2>5
    <3>2. Len(k.got) = n
      BY <3>1, <2>3
    <3>3. CASE n = 0
      <4>1. k.got = <<>>
        BY <3>1, <3>3, SpanIs
      <4>2. ~k.early => t.half[Other(d)].count = 0
        <5>1. ~k.early => s.half[Other(d)].count = 0
          BY <2>4, <2>5 DEF InOrder
        <5>2. (0 + 0) % SeqSpace = 0
          BY SeqSpaceAssumption
        <5> QED
          BY <1>2, <3>3, <5>1, <5>2
      <4> QED
        BY <4>1, <4>2, <2>1 DEF InOrder
    <3>4. CASE n > 0
      <4>1. k.got[1] = exp
        <5>1. 1 \in 1 .. n /\ exp + 1 - 1 = exp
          BY <3>4, <1>1
        <5>2. k.got[1] = exp % SeqSpace
          BY <3>1, <5>1, SpanIs
        <5> QED
          BY <5>2, <1>1, ModSame
      <4>2. ~k.early => exp = t.half[d].first_data_seq
        <5>1. ~k.early => s.half[Other(d)].count = 0
          BY <2>4, <2>5 DEF InOrder
        <5>2. s.half[d].first_data_seq \in SeqNum
          BY <1>0 DEF HalfStream
        <5>3. s.half[d].first_data_seq + 0 = s.half[d].first_data_seq
          BY <5>2, SeqSpaceAssumption DEF SeqNum
        <5> QED
          BY <5>1, <5>2, <5>3, <2>1, ModSame DEF ExpSeq
      <4>3. /\ k.got = Span(k.got[1], Len(k.got))
            /\ (k.got[1] + Len(k.got)) % SeqSpace = ExpSeq(t, d)
        BY <4>1, <3>1, <3>2, <2>2
      <4>4. k.got # <<>>
        BY <3>1, <3>4, SpanIs
      <4> HIDE DEF exp, got
      <4> QED
        BY <4>1, <4>2, <4>3, <4>4, <2>1 DEF InOrder
    <3> QED
      BY <3>3, <3>4
  <2>6. CASE got # <<>>
    <3> DEFINE m == Len(got)
               one == got[1]
    <3>0. m \in Nat /\ m > 0
      BY <1>0, <2>6
    <3>1. got[1] \in SeqNum /\ got[1] \in Int
      BY <1>0, <3>0, SeqSpaceAssumption DEF SeqNum
    <3>2. got = Span(got[1], m) /\ (got[1] + m) % SeqSpace = exp
      BY <2>6 DEF InOrder
    <3> HIDE DEF m, one, exp, got
    <3>3. k.got = Span(one, m + n)
      <4>1. one \in Int /\ exp = (one + m) % SeqSpace /\ k.got = Span(one, m) \o Span(exp, n)
        BY <3>1, <3>2, <2>1 DEF one
      <4> QED
        BY <3>0, <4>1, <1>1, SpanJoins
    <3>4. /\ Len(k.got) = m + n /\ k.got[1] = got[1]
      <4>1. m + n \in Nat /\ 1 \in 1 .. m + n /\ 1 \in 1 .. m
        BY <3>0
      <4>2. got = Span(one, m)
        BY <3>2 DEF one
      <4>3. Len(Span(one, m + n)) = m + n /\ Span(one, m + n)[1] = (one + 1 - 1) % SeqSpace
        BY <4>1, SpanIs
      <4>4. Span(one, m)[1] = (one + 1 - 1) % SeqSpace
        BY <3>0, <4>1, SpanIs
      <4>5. got[1] = Span(one, m)[1]
        BY <4>2
      <4>6. k.got[1] = Span(one, m + n)[1] /\ Len(k.got) = Len(Span(one, m + n))
        BY <3>3
      <4> QED
        BY <4>3, <4>4, <4>5, <4>6
    <3>5. (got[1] + (m + n)) % SeqSpace = ExpSeq(t, d)
      <4> DEFINE x == one + m
      <4>1. one \in Int /\ x \in Int /\ n \in Int
        BY <3>0, <3>1 DEF one
      <4>2. x + n = one + (m + n)
        BY <3>0, <4>1
      <4>3. x % SeqSpace = exp
        BY <3>2 DEF one
      <4> HIDE DEF x
      <4>4. ((x % SeqSpace) + n) % SeqSpace = (x + n) % SeqSpace
        BY <4>1, ModAdd
      <4> QED
        BY <4>2, <4>3, <4>4, <2>2 DEF one
    <3>6. ~k.early => k.got[1] = t.half[d].first_data_seq
      BY <2>1, <2>4, <2>6, <3>4 DEF InOrder, got
    <3>7. k.got # <<>>
      BY <3>0, <3>4
    <3>8. k.got = Span(k.got[1], Len(k.got))
      BY <3>3, <3>4 DEF one
    <3>9. (k.got[1] + Len(k.got)) % SeqSpace = ExpSeq(t, d)
      BY <3>4, <3>5
    <3> QED
      BY <2>1, <3>6, <3>7, <3>8, <3>9 DEF InOrder
  <2> QED
    BY <2>5, <2>6
<1> QED
  BY <1>0, <1>3, <1>4

----------------------------------------------------------------------------
\* The memory of a half is that of the fragments it holds.
Sizes(list) == [i \in DOMAIN list |-> list[i].truesize]

Accounted(h) == h.rmem_alloc = Total(Sizes(h.fraglist))

\* The sizes of a list of fragments.
LEMMA SizesType ==
    ASSUME NEW list \in Seq(Skbuff)
    PROVE  /\ Sizes(list) \in Seq(Int) /\ Len(Sizes(list)) = Len(list)
           /\ \A i \in 1 .. Len(list) : Sizes(list)[i] = list[i].truesize
<1>1. DOMAIN list = 1 .. Len(list) /\ Len(list) \in Nat
  OBVIOUS
<1>2. ASSUME NEW i \in 1 .. Len(list)
      PROVE  list[i].truesize \in Int
  <2>1. list[i] \in Skbuff
    OBVIOUS
  <2>2. list[i].truesize \in Nat
    BY <2>1 DEF Skbuff
  <2> QED
    BY <2>2
<1>3. Sizes(list) = [i \in 1 .. Len(list) |-> list[i].truesize]
  BY <1>1 DEF Sizes
<1> QED
  BY <1>1, <1>2, <1>3

\* Holding a fragment adds its size,
LEMMA AccountedHold ==
    ASSUME NEW h \in HalfStream, NEW f \in Skbuff, NEW k \in 0 .. Len(h.fraglist),
           Accounted(h)
    PROVE  Accounted(HoldFragment(h, k, f))
<1> DEFINE list == h.fraglist
           new  == SubSeq(list, 1, k) \o <<f>> \o SubSeq(list, k + 1, Len(list))
<1>1. list \in Seq(Skbuff) /\ Len(list) \in Nat /\ k \in 0 .. Len(list)
  BY DEF HalfStream
<1>2. /\ HoldFragment(h, k, f).fraglist = new
      /\ HoldFragment(h, k, f).rmem_alloc = h.rmem_alloc + f.truesize
  BY DEF HoldFragment, HalfStream
<1>3. h.rmem_alloc = Total(Sizes(list)) /\ f.truesize \in Int
  BY DEF Accounted, Skbuff
<1> HIDE DEF list
<1>4. /\ new \in Seq(Skbuff) /\ Len(new) = Len(list) + 1
      /\ new[k + 1] = f
      /\ \A i \in 1 .. Len(list) : list[i] = IF i < k + 1 THEN new[i] ELSE new[i + 1]
  <2> DEFINE left  == SubSeq(list, 1, k)
             right == SubSeq(list, k + 1, Len(list))
             front == left \o <<f>>
  <2>1. /\ left \in Seq(Skbuff) /\ Len(left) = k
        /\ \A i \in 1 .. k : left[i] = list[i]
    BY <1>1, SubSeqProperties
  <2>2. /\ right \in Seq(Skbuff) /\ Len(right) = Len(list) - k
        /\ \A i \in 1 .. Len(list) - k : right[i] = list[k + i]
    BY <1>1, SubSeqProperties
  <2> HIDE DEF left, right
  <2>3. /\ front \in Seq(Skbuff) /\ Len(front) = k + 1
        /\ \A i \in 1 .. k : front[i] = list[i]
        /\ front[k + 1] = f
    BY <2>1, <1>1
  <2> HIDE DEF front
  <2>4. new = front \o right
    BY DEF front, left, right
  <2> HIDE DEF new
  <2>5. /\ new \in Seq(Skbuff) /\ Len(new) = Len(list) + 1
        /\ \A i \in 1 .. k + 1 : new[i] = front[i]
        /\ \A i \in 1 .. Len(list) - k : new[k + 1 + i] = right[i]
    BY <2>2, <2>3, <2>4, <1>1
  <2>6. ASSUME NEW i \in 1 .. Len(list)
        PROVE  list[i] = IF i < k + 1 THEN new[i] ELSE new[i + 1]
    <3>1. CASE i <= k
      <4>1. i \in 1 .. k /\ i \in 1 .. k + 1 /\ i < k + 1
        BY <3>1, <1>1
      <4> QED
        BY <4>1, <2>3, <2>5
    <3>2. CASE i > k
      <4>1. i - k \in 1 .. Len(list) - k /\ ~(i < k + 1)
            /\ k + 1 + (i - k) = i + 1 /\ k + (i - k) = i
        BY <3>2, <1>1
      <4>2. new[i + 1] = right[i - k] /\ right[i - k] = list[i]
        BY <4>1, <2>2, <2>5
      <4> QED
        BY <4>1, <4>2
    <3> QED
      BY <3>1, <3>2, <1>1
  <2> QED
    BY <2>3, <2>5, <2>6, <1>1
<1> HIDE DEF new
<1>5. Total(Sizes(list)) = Total(Sizes(new)) - Sizes(new)[k + 1]
  <2> DEFINE s == Sizes(new)
             r == Sizes(list)
  <2>1. s \in Seq(Int) /\ r \in Seq(Int) /\ Len(s) = Len(list) + 1 /\ Len(r) = Len(list)
    BY <1>1, <1>4, SizesType
  <2>2. k + 1 \in 1 .. Len(s) /\ Len(r) = Len(s) - 1
    BY <1>1, <2>1
  <2>3. ASSUME NEW i \in 1 .. Len(r)
        PROVE  r[i] = IF i < k + 1 THEN s[i] ELSE s[i + 1]
    <3>1. i \in 1 .. Len(list) /\ i \in 1 .. Len(new) /\ i + 1 \in 1 .. Len(new)
      BY <2>1, <1>1, <1>4
    <3>2. r[i] = list[i].truesize /\ s[i] = new[i].truesize /\ s[i + 1] = new[i + 1].truesize
      BY <3>1, <1>1, <1>4, SizesType
    <3> QED
      BY <3>1, <3>2, <1>4
  <2> HIDE DEF s, r
  <2>4. Total(r) = Total(s) - s[k + 1]
    BY <2>1, <2>2, <2>3, TotalRemove
  <2> QED
    BY <2>4 DEF s, r
<1>6. Sizes(new)[k + 1] = f.truesize
  <2>1. k + 1 \in 1 .. Len(new)
    BY <1>1, <1>4
  <2> QED
    BY <2>1, <1>4, SizesType
<1>7. Total(Sizes(new)) \in Int /\ Total(Sizes(list)) \in Int
  BY <1>1, <1>4, SizesType, TotalType
<1>8. Total(Sizes(new)) = Total(Sizes(list)) + f.truesize
  BY <1>3, <1>5, <1>6, <1>7
<1> QED
  BY <1>2, <1>3, <1>8 DEF Accounted

\* dropping the first takes it off,
LEMMA AccountedDropFirst ==
    ASSUME NEW h \in HalfStream, h.fraglist # <<>>, Accounted(h)
    PROVE  Accounted(DropFirst(h))
<1> DEFINE list == h.fraglist
           new  == Tail(list)
<1>1. /\ list \in Seq(Skbuff) /\ Len(list) \in Nat /\ Len(list) > 0
      /\ Head(list) = list[1]
  BY DEF HalfStream
<1>2. /\ DropFirst(h).fraglist = new
      /\ DropFirst(h).rmem_alloc = h.rmem_alloc - list[1].truesize
  BY <1>1, DropFirstIs
<1>3. h.rmem_alloc = Total(Sizes(list))
  BY DEF Accounted
<1> HIDE DEF list
<1>4. /\ new \in Seq(Skbuff) /\ Len(new) = Len(list) - 1
      /\ \A i \in 1 .. Len(new) : new[i] = list[i + 1]
  BY <1>1, HeadTailProperties
<1> HIDE DEF new
<1>5. Total(Sizes(new)) = Total(Sizes(list)) - Sizes(list)[1]
  <2> DEFINE s == Sizes(list)
             r == Sizes(new)
  <2>1. s \in Seq(Int) /\ r \in Seq(Int) /\ Len(s) = Len(list) /\ Len(r) = Len(new)
    BY <1>1, <1>4, SizesType
  <2>2. 1 \in 1 .. Len(s) /\ Len(r) = Len(s) - 1
    BY <1>1, <1>4, <2>1
  <2>3. ASSUME NEW i \in 1 .. Len(r)
        PROVE  r[i] = IF i < 1 THEN s[i] ELSE s[i + 1]
    <3>1. i \in 1 .. Len(new) /\ i + 1 \in 1 .. Len(list) /\ ~(i < 1)
      BY <2>1, <1>1, <1>4
    <3>2. r[i] = new[i].truesize /\ s[i + 1] = list[i + 1].truesize
      BY <3>1, <1>1, <1>4, SizesType
    <3> QED
      BY <3>1, <3>2, <1>4
  <2> HIDE DEF s, r
  <2>4. Total(r) = Total(s) - s[1]
    BY <2>1, <2>2, <2>3, TotalRemove
  <2> QED
    BY <2>4 DEF s, r
<1>6. Sizes(list)[1] = list[1].truesize
  BY <1>1, SizesType
<1> QED
  BY <1>2, <1>3, <1>5, <1>6 DEF Accounted

\* and what holds the same accounts for the same.
LEMMA AccountedSame ==
    ASSUME NEW h, NEW k, SameHeld(h, k), Accounted(h)
    PROVE  Accounted(k)
BY DEF SameHeld, Accounted

\* A half that holds nothing.
LEMMA AccountedNone ==
    ASSUME NEW h, h.fraglist = <<>>, h.rmem_alloc = 0
    PROVE  Accounted(h)
<1>1. <<>> \in Seq(Skbuff) /\ Len(<<>>) = 0
  OBVIOUS
<1>2. Sizes(<<>>) \in Seq(Int) /\ Len(Sizes(<<>>)) = 0
  BY <1>1, SizesType
<1> QED
  BY <1>2, TotalEmpty DEF Accounted

\* Every half of a stream accounts for what it holds.
AccountedStream(s) == \A side \in Side : Accounted(s.half[side])

\* The property says so of every stream.
LEMMA RmemAccountingIs ==
    RmemAccounting <=> \A a \in Live : AccountedStream(tcphashmap_[a])
BY DEF RmemAccounting, AccountedStream, Accounted, Sizes

\* The stream at a is accounted for after the step, if all were before.
LEMMA BecomesAccounted ==
    ASSUME IInv, RmemAccounting, NEW a \in Ptr, NEW t, Becomes(a, t), AccountedStream(t)
    PROVE  RmemAccounting'
<1>1. \A b \in Live' : b \in Ptr /\ (b = a \/ b \in Live)
  BY DEF Becomes, Live, IInv, TypeOK
<1>2. \A b \in Live' : tcphashmap_'[b] = IF b = a THEN t ELSE tcphashmap_[b]
  BY <1>1 DEF Becomes, IInv, TypeOK
<1>3. \A b \in Live' : AccountedStream(tcphashmap_'[b])
  BY <1>1, <1>2, RmemAccountingIs
<1> QED
  BY <1>3 DEF RmemAccounting, AccountedStream, Accounted, Sizes

\* A step that moves no data keeps the account.
LEMMA SameAccounted ==
    ASSUME NEW s, NEW t, SameStream(s, t), AccountedStream(s)
    PROVE  AccountedStream(t)
BY AccountedSame DEF SameStream, SameData, SameHeld, AccountedStream

\* So does one after which the receiving half is accounted for.
LEMMA ReceivedAccounted ==
    ASSUME NEW s, NEW t, NEW from \in Side, SameButReceived(s, t, from),
           AccountedStream(s), Accounted(t.half[Other(from)])
    PROVE  AccountedStream(t)
<1>1. Side = {from, Other(from)}
  BY DEF Side, Other
<1>2. Accounted(t.half[from])
  BY AccountedSame DEF SameButReceived, SameData, SameHeld, AccountedStream
<1> QED
  BY <1>1, <1>2 DEF AccountedStream

\* So does freeing streams.
LEMMA FreesAccounted ==
    ASSUME RmemAccounting, NEW S, Frees(S)
    PROVE  RmemAccounting'
<1>1. \A b \in Live' : b \in Live /\ tcphashmap_'[b] = tcphashmap_[b]
  BY DEF Frees, Live
<1> QED
  BY <1>1 DEF RmemAccounting

\* A new stream holds nothing and accounts for nothing.
LEMMA NewTcpAccounted ==
    ASSUME NEW gc, NEW gs
    PROVE  AccountedStream(NewTcp(gc, gs))
<1>1. \A side \in Side : /\ NewTcp(gc, gs).half[side].fraglist = <<>>
                         /\ NewTcp(gc, gs).half[side].rmem_alloc = 0
  BY DEF NewTcp, NewHalf, Side
<1> QED
  BY <1>1, AccountedNone DEF AccountedStream

\* Every step keeps the account.
LEMMA NextRmemAccounting == IInv /\ RmemAccounting /\ [Next]_vars => RmemAccounting'
<1> SUFFICES ASSUME IInv, RmemAccounting, [Next]_vars PROVE RmemAccounting'
  OBVIOUS
<1>0. \A a \in Live : AccountedStream(tcphashmap_[a])
  BY RmemAccountingIs
<1>1. ASSUME tcphashmap_' = tcphashmap_
      PROVE  RmemAccounting'
  BY <1>1 DEF RmemAccounting, Live
<1>2. CASE Receive
  <2>1. \E S : Frees(S)
    BY <1>2 DEF Receive, CheckTimeouts, Frees
  <2> QED
    BY <2>1, FreesAccounted
<1>3. CASE Ignore
  BY <1>1, <1>3 DEF Ignore, tables
<1>4. ASSUME NEW a \in Ptr, NEW gc \in Garbage, NEW gs \in Garbage,
             \/ AddNewtcp(a, gc, gs)
             \/ \E b \in Ptr, from \in Side : RestartStream(b, from, a, gc, gs)
      PROVE  RmemAccounting'
  <2> DEFINE s == NewTcp(gc, gs)
  <2>1. \A c \in Ptr : tcphashmap_'[c] \in {s, Null, tcphashmap_[c]}
    BY <1>4 DEF IInv, TypeOK, AddNewtcp, RestartStream
  <2> HIDE DEF s
  <2>2. AccountedStream(s)
    BY NewTcpAccounted DEF s
  <2>3. ASSUME NEW c \in Live'
        PROVE  AccountedStream(tcphashmap_'[c])
    <3>1. c \in Ptr /\ tcphashmap_'[c] # Null
      BY DEF Live
    <3>2. tcphashmap_'[c] = s \/ (c \in Live /\ tcphashmap_'[c] = tcphashmap_[c])
      BY <2>1, <3>1 DEF Live
    <3> QED
      BY <1>0, <2>2, <3>2
  <2> QED
    BY <2>3 DEF RmemAccounting, AccountedStream, Accounted, Sizes
<1>5. ASSUME NEW a \in Ptr, NEW from \in Side,
             \/ \E b \in Ptr, gc, gs \in Garbage : RestartStream(a, from, b, gc, gs)
             \/ SecondHandshake(a, from)
             \/ DropSegment(a, from)
             \/ ResetStream(a, from)
             \/ ThirdHandshake(a, from)
             \/ CloseStream(a, from)
             \/ AckSegment(a, from)
             \/ QueueInOrder(a, from)
             \/ QueueOld(a, from)
             \/ QueueOutOfOrder(a, from)
             \/ DrainFragment(a, from)
             \/ DrainEnd(a, from)
             \/ Finish(a, from)
      PROVE  RmemAccounting'
  <2> DEFINE old == tcphashmap_[a]
             rcv == old.half[Other(from)]
  <2>0. ASSUME FindStream(a, from)
        PROVE  a \in Live /\ rcv \in HalfStream /\ AccountedStream(old) /\ Accounted(rcv)
    <3>1. a \in Live
      BY <2>0, FindStreamLive
    <3>2. rcv \in HalfStream
      BY <3>1, LiveType, OtherType DEF IInv, TypeOK, TablesType
    <3> QED
      BY <1>0, <3>1, <3>2, OtherType DEF AccountedStream
  <2>1. CASE \E b \in Ptr, gc, gs \in Garbage : RestartStream(a, from, b, gc, gs)
    BY <1>4, <2>1
  <2>2. CASE DropSegment(a, from) \/ QueueOld(a, from) \/ DrainEnd(a, from)
    BY <1>1, <2>2 DEF DropSegment, QueueOld, DrainEnd, tables
  <2>3. CASE ResetStream(a, from) \/ CloseStream(a, from)
    <3>1. Frees({a})
      BY <2>3, FreeTcpstreamFrees DEF ResetStream, CloseStream, IInv
    <3> QED
      BY <3>1, FreesAccounted
  <2>4. CASE \/ SecondHandshake(a, from) \/ ThirdHandshake(a, from)
             \/ AckSegment(a, from) \/ Finish(a, from)
    <3>1. FindStream(a, from)
      BY <2>4 DEF SecondHandshake, ThirdHandshake, AckSegment, InWindow, Segment, Finish
    <3>2. Frees({a}) \/ \E t : Becomes(a, t) /\ SameStream(tcphashmap_[a], t)
      BY <2>4, SecondHandshakeSame, AckActionsSame, FinishSame
    <3>3. ASSUME NEW t, Becomes(a, t), SameStream(tcphashmap_[a], t)
          PROVE  RmemAccounting'
      BY <2>0, <3>1, <3>3, SameAccounted, BecomesAccounted
    <3> QED
      BY <3>2, <3>3, FreesAccounted
  <2>5. CASE QueueInOrder(a, from)
    <3>1. FindStream(a, from)
      BY <2>5 DEF QueueInOrder
    <3>2. PICK t : Receives(a, t, from, rcv, ~pkt.urg /\ ~rcv.urg_seen)
      BY <2>5, QueueInOrderTakes
    <3>3. Accounted(t.half[Other(from)])
      BY <2>0, <3>1, <3>2, AccountedSame DEF Receives
    <3>4. AccountedStream(t)
      BY <2>0, <3>1, <3>2, <3>3, ReceivedAccounted DEF Receives
    <3> QED
      BY <3>2, <3>4, BecomesAccounted DEF Receives
  <2>6. CASE QueueOutOfOrder(a, from)
    <3>1. FindStream(a, from) /\ SegmentSkb \in Skbuff
      BY <2>6, PktType, SegmentSkbType DEF IInv, QueueOutOfOrder
    <3>2. PICK t : /\ Becomes(a, t) /\ SameButReceived(old, t, from)
                   /\ \E k \in 0 .. Len(rcv.fraglist) :
                          t.half[Other(from)] = HoldFragment(rcv, k, SegmentSkb)
      BY <2>6, QueueOutOfOrderHolds
    <3> HIDE DEF rcv
    <3>3. Accounted(t.half[Other(from)])
      BY <2>0, <3>1, <3>2, AccountedHold
    <3>4. AccountedStream(t)
      BY <2>0, <3>1, <3>2, <3>3, ReceivedAccounted
    <3> QED
      BY <3>2, <3>4, BecomesAccounted
  <2>7. CASE DrainFragment(a, from)
    <3>1. FindStream(a, from)
      BY <2>7 DEF DrainFragment
    <3>2. /\ rcv.fraglist # <<>>
          /\ \E t : Receives(a, t, from, DropFirst(rcv), ~Head(rcv.fraglist).urg /\ ~rcv.urg_seen)
      BY <2>7, DrainFragmentTakes
    <3>3. PICK t : Receives(a, t, from, DropFirst(rcv), ~Head(rcv.fraglist).urg /\ ~rcv.urg_seen)
      BY <3>2
    <3> HIDE DEF rcv
    <3>4. Accounted(DropFirst(rcv))
      BY <2>0, <3>1, <3>2, AccountedDropFirst
    <3>5. Accounted(t.half[Other(from)])
      BY <3>3, <3>4, AccountedSame DEF Receives
    <3>6. AccountedStream(t)
      BY <2>0, <3>1, <3>3, <3>5, ReceivedAccounted DEF Receives
    <3> QED
      BY <3>3, <3>6, BecomesAccounted DEF Receives
  <2> QED
    BY <1>5, <2>1, <2>2, <2>3, <2>4, <2>5, <2>6, <2>7
<1>6. CASE UNCHANGED vars
  BY <1>1, <1>6 DEF vars
<1> QED
  BY <1>2, <1>3, <1>4, <1>5, <1>6 DEF Next, Process

\* rmem_alloc is exactly the memory of the fragments held.
THEOREM RmemAccountingHolds == Spec => []RmemAccounting
<1>1. Init => RmemAccounting
  BY DEF Init, RmemAccounting, Live
<1> QED
  BY <1>1, NextRmemAccounting, Invariance, PTL DEF Spec

----------------------------------------------------------------------------
(***************************************************************************)
(* Every step lets a stream begin afresh or go on with what is next.       *)
(***************************************************************************)
\* No urgent byte of the stream is awaited.
Calm(s) ==
    \A side \in Side :
        /\ ~s.half[side].urg_seen
        /\ \A i \in DOMAIN s.half[side].fraglist : ~s.half[side].fraglist[i].urg

\* The packet in hand is given to tcpQueue as payload of side d of the stream at b.
Given(b, d) == pc = "queue" /\ FindStream(b, d)

\* Side d of the stream at b goes on, and the step hands over what it should.
SideFollows(b, d) ==
    /\ Heard(b, d, 2) = <<>> /\ Heard(b, d, 3) = <<>>
    /\ Follows(tcphashmap_[b], tcphashmap_'[b], d, Heard(b, d, 1), Given(b, d))

\* A stream begins at b,
BeginsAt(b) ==
    /\ Fresh(b)
    /\ \E gc, gs \in Garbage : tcphashmap_'[b] = NewTcp(gc, gs)

\* or the one there goes on, both sides of it.
ContinuesAt(b) ==
    /\ b \in Live
    /\ ~Fresh(b)
    /\ \A d \in Side : SideFollows(b, d)
    /\ Calm(tcphashmap_'[b])

\* What is invariant of the history.
HistType == history \in [Ptr -> [Side -> Record]]

AllInOrder ==
    \A a \in Live : \A d \in Side : InOrder(tcphashmap_[a], d, history[a][d])

AllCalm == \A a \in Live : Calm(tcphashmap_[a])

HistInv == HistType /\ AllInOrder /\ AllCalm

\* The packet in hand carries none.
LEMMA NoUrgentPkt ==
    ASSUME NoUrgentData, TypeOK, pc # "idle"
    PROVE  pkt \in Packet /\ pkt.urg = FALSE
<1>1. pkt \in Packets /\ pkt \in Packet
  BY TcpAssumption DEF TypeOK
<1> QED
  BY <1>1 DEF NoUrgentData, Packet

\* Calm stays calm while no data moves,
LEMMA SameCalm ==
    ASSUME NEW s, NEW t, SameStream(s, t), Calm(s)
    PROVE  Calm(t)
BY DEF SameStream, SameData, Calm

\* begins calm,
LEMMA NewTcpCalm ==
    ASSUME NoUrgentData, NEW gc \in Garbage, NEW gs \in Garbage
    PROVE  Calm(NewTcp(gc, gs))
<1>1. \A side \in Side : /\ NewTcp(gc, gs).half[side].fraglist = <<>>
                         /\ NewTcp(gc, gs).half[side].urg_seen \in {gc.urg_seen, gs.urg_seen}
  BY DEF NewTcp, NewHalf, Side
<1>2. DOMAIN <<>> = {}
  OBVIOUS
<1> QED
  BY <1>1, <1>2 DEF Calm, NoUrgentData

\* and stays calm with one more fragment
LEMMA HoldFragmentCalm ==
    ASSUME NEW h \in HalfStream, NEW f \in Skbuff, NEW k \in 0 .. Len(h.fraglist),
           ~f.urg, ~h.urg_seen, \A i \in DOMAIN h.fraglist : ~h.fraglist[i].urg
    PROVE  LET r == HoldFragment(h, k, f)
           IN  /\ ~r.urg_seen /\ \A i \in DOMAIN r.fraglist : ~r.fraglist[i].urg
               /\ r.count = h.count
<1> DEFINE list  == h.fraglist
           left  == SubSeq(list, 1, k)
           right == SubSeq(list, k + 1, Len(list))
           front == left \o <<f>>
           new   == front \o right
           Quiet == {x \in Skbuff : ~x.urg}
<1>1. list \in Seq(Skbuff) /\ Len(list) \in Nat /\ k \in 0 .. Len(list)
  BY DEF HalfStream
<1>2. /\ HoldFragment(h, k, f).fraglist = new
      /\ HoldFragment(h, k, f).urg_seen = h.urg_seen
      /\ HoldFragment(h, k, f).count = h.count
  BY DEF HoldFragment, HalfStream
<1>3. list \in Seq(Quiet)
  <2>1. \A i \in 1 .. Len(list) : list[i] \in Quiet
    BY <1>1
  <2> HIDE DEF Quiet, list
  <2> QED
    BY <1>1, <2>1
<1>4. f \in Quiet
  OBVIOUS
<1> HIDE DEF list, Quiet
<1>5. left \in Seq(Quiet) /\ right \in Seq(Quiet)
  BY <1>1, <1>3, SubSeqProperties
<1>6. <<f>> \in Seq(Quiet)
  BY <1>4
<1> HIDE DEF left, right
<1>7. front \in Seq(Quiet)
  BY <1>5, <1>6, ConcatProperties
<1> HIDE DEF front
<1>8. new \in Seq(Quiet)
  BY <1>5, <1>7, ConcatProperties
<1> HIDE DEF new
<1>9. \A i \in DOMAIN new : new[i] \in Quiet
  BY <1>8
<1>10. \A i \in DOMAIN new : ~new[i].urg
  BY <1>9 DEF Quiet
<1> QED
  BY <1>2, <1>10

\* or one less.
LEMMA TailCalm ==
    ASSUME NEW list \in Seq(Skbuff), list # <<>>, \A i \in DOMAIN list : ~list[i].urg
    PROVE  /\ ~Head(list).urg
           /\ \A i \in DOMAIN Tail(list) : ~Tail(list)[i].urg
<1>1. /\ Head(list) = list[1] /\ 1 \in DOMAIN list
      /\ Tail(list) \in Seq(Skbuff) /\ Len(Tail(list)) = Len(list) - 1
      /\ \A i \in 1 .. Len(Tail(list)) : Tail(list)[i] = list[i + 1]
      /\ DOMAIN list = 1 .. Len(list) /\ DOMAIN Tail(list) = 1 .. Len(Tail(list))
      /\ Len(list) \in Nat
  BY HeadTailProperties
<1>2. \A i \in 1 .. Len(Tail(list)) : i + 1 \in DOMAIN list
  BY <1>1
<1> QED
  BY <1>1, <1>2

\* Calm of one side and the other.
LEMMA ReceivedCalm ==
    ASSUME NEW s, NEW t, NEW from \in Side, SameButReceived(s, t, from), Calm(s),
           ~t.half[Other(from)].urg_seen,
           \A i \in DOMAIN t.half[Other(from)].fraglist :
               ~t.half[Other(from)].fraglist[i].urg
    PROVE  Calm(t)
<1>1. Side = {from, Other(from)}
  BY DEF Side, Other
<1> QED
  BY <1>1 DEF Calm, SameButReceived, SameData

\* No data callback, nothing heard.
LEMMA HeardNone ==
    ASSUME callbacks'.data = <<>>, NEW b, NEW d, NEW i
    PROVE  Heard(b, d, i) = <<>>
BY DEF Heard

\* Bytes of one side of one stream are heard there and nowhere else.
LEMMA HeardHanded ==
    ASSUME NEW s, NEW from, NEW exp, NEW n \in Nat, callbacks'.data = Handed(s, from, exp, n),
           NEW b, NEW d
    PROVE  /\ Heard(b, d, 2) = <<>> /\ Heard(b, d, 3) = <<>>
           /\ tcphashmap_[b].addr # s.addr \/ d # from => Heard(b, d, 1) = <<>>
           /\ tcphashmap_[b].addr = s.addr /\ d = from =>
                 Heard(b, d, 1) = IF s.isconnnection THEN Span(exp, n) ELSE <<>>
<1>1. CASE ~(s.isconnnection /\ n > 0)
  <2>1. callbacks'.data = <<>>
    BY <1>1 DEF Handed
  <2>2. n = 0 => Span(exp, n) = <<>>
    BY SpanIs
  <2> QED
    BY <1>1, <2>1, <2>2, HeardNone
<1>2. CASE s.isconnnection /\ n > 0
  <2> DEFINE c == [addr |-> s.addr, side |-> from, from |-> exp, len |-> n]
  <2>1. callbacks'.data = <<c>>
    BY <1>2 DEF Handed
  <2>2. c.addr = s.addr /\ c.side = from /\ c.from = exp /\ c.len = n
    OBVIOUS
  <2> HIDE DEF c
  <2>3. DOMAIN <<c>> = {1} /\ <<c>>[1] = c
    OBVIOUS
  <2> QED
    BY <1>2, <2>1, <2>2, <2>3 DEF Heard
<1> QED
  BY <1>1, <1>2

\* A stream whose data is unchanged follows itself, handing over nothing.
LEMMA SameFollows ==
    ASSUME NEW s \in TcpStream, NEW t \in TcpStream, SameStream(s, t),
           NEW d \in Side, NEW given
    PROVE  Follows(s, t, d, <<>>, given)
<1> DEFINE rcv == s.half[Other(d)]
<1>1. rcv.count \in SeqNum
  BY HalvesType DEF HalfStream
<1>2. rcv.count + 0 = rcv.count
  BY <1>1, SeqSpaceAssumption DEF SeqNum
<1>3. (rcv.count + 0) % SeqSpace = rcv.count
  BY <1>1, <1>2, ModSame
<1>4. t.half[Other(d)].count = rcv.count /\ t.half[Other(d)].fraglist = rcv.fraglist
  BY OtherType DEF SameStream, SameData
<1>5. <<>> = IF s.isconnnection THEN Span(ExpSeq(s, d), 0) ELSE <<>>
  BY SpanIs
<1>6. /\ s.isconnnection => t.isconnnection
      /\ t.isconnnection => t.half[d].first_data_seq = s.half[d].first_data_seq
  BY DEF SameStream
<1> HIDE DEF rcv
<1>7. \E n \in Nat : /\ t.half[Other(d)].count = (rcv.count + n) % SeqSpace
                     /\ <<>> = IF s.isconnnection THEN Span(ExpSeq(s, d), n) ELSE <<>>
  <2>1. 0 \in Nat
    OBVIOUS
  <2> QED
    BY <2>1, <1>3, <1>4, <1>5
<1> QED
  BY <1>4, <1>6, <1>7 DEF Follows, rcv

\* So it does when the table only changes elsewhere.
LEMMA QuietFollows ==
    ASSUME TypeOK, NEW b \in Live, NEW t \in TcpStream, tcphashmap_'[b] = t,
           SameStream(tcphashmap_[b], t), callbacks'.data = <<>>, NEW d \in Side
    PROVE  SideFollows(b, d)
<1>1. tcphashmap_[b] \in TcpStream
  BY LiveType DEF TypeOK, TablesType
<1>2. Follows(tcphashmap_[b], t, d, <<>>, Given(b, d))
  BY <1>1, SameFollows
<1> QED
  BY <1>2, HeardNone DEF SideFollows

\* Every stream after the step began in it, or continues.
StepsWell == \A b \in Live' : BeginsAt(b) \/ ContinuesAt(b)

\* A step that begins no stream.
LEMMA NotFresh ==
    ASSUME NEW b \in Live', ~(pc = "segment" /\ pkt.valid /\ PureSyn)
    PROVE  ~Fresh(b)
BY DEF Fresh, Live

\* The segment in hand begins a stream only as AddNewtcp and RestartStream do.
LEMMA QuietStepsWell ==
    ASSUME TypeOK, AllCalm, tcphashmap_' = tcphashmap_, callbacks'.data = <<>>,
           ~(pc = "segment" /\ pkt.valid /\ PureSyn)
    PROVE  StepsWell
<1> SUFFICES ASSUME NEW b \in Live' PROVE ContinuesAt(b)
  BY DEF StepsWell
<1>1. b \in Live /\ tcphashmap_'[b] = tcphashmap_[b]
  BY DEF Live
<1>2. tcphashmap_[b] \in TcpStream
  BY <1>1, LiveType DEF TypeOK, TablesType
<1>3. SameStream(tcphashmap_[b], tcphashmap_'[b])
  BY <1>1, SameSelf
<1>4. \A d \in Side : SideFollows(b, d)
  BY <1>1, <1>2, <1>3, QuietFollows
<1>5. Calm(tcphashmap_'[b])
  BY <1>1 DEF AllCalm
<1> QED
  BY <1>1, <1>4, <1>5, NotFresh DEF ContinuesAt

\* Freeing streams leaves the others to go on.
LEMMA FreesStepsWell ==
    ASSUME TypeOK, AllCalm, NEW S, Frees(S), callbacks'.data = <<>>,
           ~(pc = "segment" /\ pkt.valid /\ PureSyn)
    PROVE  StepsWell
<1> SUFFICES ASSUME NEW b \in Live' PROVE ContinuesAt(b)
  BY DEF StepsWell
<1>1. b \in Live /\ tcphashmap_'[b] = tcphashmap_[b]
  BY DEF Live, Frees
<1>2. tcphashmap_[b] \in TcpStream
  BY <1>1, LiveType DEF TypeOK, TablesType
<1>3. SameStream(tcphashmap_[b], tcphashmap_'[b])
  BY <1>1, SameSelf
<1>4. \A d \in Side : SideFollows(b, d)
  BY <1>1, <1>2, <1>3, QuietFollows
<1>5. Calm(tcphashmap_'[b])
  BY <1>1 DEF AllCalm
<1> QED
  BY <1>1, <1>4, <1>5, NotFresh DEF ContinuesAt

\* What becomes of a stream, and what stays of the others.
LEMMA BecomesIs ==
    ASSUME TypeOK, NEW a \in Ptr, NEW t, Becomes(a, t), NEW b \in Live'
    PROVE  /\ b \in Ptr /\ (b # a => b \in Live)
           /\ tcphashmap_'[b] = IF b = a THEN t ELSE tcphashmap_[b]
BY DEF Becomes, TypeOK, Live

\* A stream whose data is unchanged goes on.
LEMMA SameStepsWell ==
    ASSUME TypeOK, AllCalm, NEW a \in Live, NEW t, Becomes(a, t),
           SameStream(tcphashmap_[a], t), callbacks'.data = <<>>,
           ~(pc = "segment" /\ pkt.valid /\ PureSyn)
    PROVE  StepsWell
<1> SUFFICES ASSUME NEW b \in Live' PROVE ContinuesAt(b)
  BY DEF StepsWell
<1>0. a \in Ptr
  BY DEF Live
<1>1. b \in Live /\ tcphashmap_'[b] = IF b = a THEN t ELSE tcphashmap_[b]
  BY <1>0, BecomesIs
<1>2. tcphashmap_[b] \in TcpStream /\ t \in TcpStream
  BY <1>1, LiveType DEF TypeOK, TablesType, Becomes
<1>3. SameStream(tcphashmap_[b], tcphashmap_'[b]) /\ tcphashmap_'[b] \in TcpStream
  BY <1>1, <1>2, SameSelf
<1>4. \A d \in Side : SideFollows(b, d)
  BY <1>1, <1>2, <1>3, QuietFollows
<1>5. Calm(tcphashmap_'[b])
  BY <1>1, <1>3, SameCalm DEF AllCalm
<1> QED
  BY <1>1, <1>4, <1>5, NotFresh DEF ContinuesAt

\* So does one that holds one more fragment,
LEMMA HoldsStepsWell ==
    ASSUME IInv, AllCalm, NoUrgentData, NEW a \in Ptr, NEW from \in Side,
           QueueOutOfOrder(a, from)
    PROVE  StepsWell
<1> DEFINE old == tcphashmap_[a]
           rcv == old.half[Other(from)]
<1>1. /\ a \in Live /\ pc = "queue" /\ FindStream(a, from)
      /\ callbacks'.data = <<>>
  BY FindStreamLive DEF QueueOutOfOrder, NoCallbacks
<1>2. SegmentSkb \in Skbuff /\ SegmentSkb.urg = FALSE
  BY <1>1, NoUrgentPkt, SegmentSkbType DEF IInv, SegmentSkb
<1>3. old \in TcpStream /\ rcv \in HalfStream
  BY <1>1, LiveType, HalvesType DEF IInv, TypeOK, TablesType
<1>4. PICK t : /\ Becomes(a, t) /\ SameButReceived(old, t, from)
               /\ \E k \in 0 .. Len(rcv.fraglist) :
                      t.half[Other(from)] = HoldFragment(rcv, k, SegmentSkb)
  BY QueueOutOfOrderHolds
<1> DEFINE r == t.half[Other(from)]
<1>5. ~rcv.urg_seen /\ \A i \in DOMAIN rcv.fraglist : ~rcv.fraglist[i].urg
  BY <1>1, OtherType DEF AllCalm, Calm
<1>6. /\ ~r.urg_seen /\ \A i \in DOMAIN r.fraglist : ~r.fraglist[i].urg
      /\ r.count = rcv.count
  <2> HIDE DEF rcv
  <2> QED
    BY <1>2, <1>3, <1>4, <1>5, HoldFragmentCalm
<1>7. Calm(t)
  BY <1>1, <1>4, <1>6, ReceivedCalm DEF AllCalm
<1>8. ASSUME NEW d \in Side
      PROVE  Follows(old, t, d, <<>>, Given(a, d))
  <2> DEFINE h == old.half[Other(d)]
  <2>1. t.half[Other(d)].count = h.count
    <3>1. d = from \/ Other(d) = from
      BY DEF Side, Other
    <3> QED
      BY <3>1, <1>4, <1>6 DEF SameButReceived, SameData
  <2>2. d = from \/ t.half[Other(d)].fraglist = h.fraglist
    <3>1. d = from \/ Other(d) = from
      BY DEF Side, Other
    <3> QED
      BY <3>1, <1>4 DEF SameButReceived, SameData
  <2>3. d = from => Given(a, d)
    BY <1>1 DEF Given
  <2>4. h.count \in SeqNum
    BY <1>3, HalvesType DEF HalfStream
  <2>5. (h.count + 0) % SeqSpace = h.count
    <3>1. h.count + 0 = h.count
      BY <2>4, SeqSpaceAssumption DEF SeqNum
    <3> QED
      BY <2>4, <3>1, ModSame
  <2>6. <<>> = IF old.isconnnection THEN Span(ExpSeq(old, d), 0) ELSE <<>>
    BY SpanIs
  <2>7. /\ old.isconnnection => t.isconnnection
        /\ t.isconnnection => t.half[d].first_data_seq = old.half[d].first_data_seq
    BY <1>4 DEF SameButReceived
  <2> HIDE DEF h, old
  <2>8. \E n \in Nat : /\ t.half[Other(d)].count = (h.count + n) % SeqSpace
                       /\ <<>> = IF old.isconnnection THEN Span(ExpSeq(old, d), n) ELSE <<>>
    <3>1. 0 \in Nat
      OBVIOUS
    <3> QED
      BY <3>1, <2>1, <2>5, <2>6
  <2> QED
    BY <2>1, <2>2, <2>3, <2>7, <2>8 DEF Follows, h
<1> SUFFICES ASSUME NEW b \in Live' PROVE ContinuesAt(b)
  BY DEF StepsWell
<1>9. b \in Live /\ tcphashmap_'[b] = IF b = a THEN t ELSE tcphashmap_[b]
  BY <1>1, <1>4, BecomesIs DEF IInv
<1>10. \A d \in Side : SideFollows(b, d)
  <2>1. CASE b = a
    BY <2>1, <1>1, <1>8, <1>9, HeardNone DEF SideFollows
  <2>2. CASE b # a
    <3>1. tcphashmap_[b] \in TcpStream
      BY <1>9, LiveType DEF IInv, TypeOK, TablesType
    <3> QED
      BY <2>2, <3>1, <1>1, <1>9, SameSelf, QuietFollows DEF IInv
  <2> QED
    BY <2>1, <2>2
<1>11. Calm(tcphashmap_'[b])
  BY <1>7, <1>9 DEF AllCalm
<1>12. ~Fresh(b)
  BY <1>1, NotFresh
<1> QED
  BY <1>9, <1>10, <1>11, <1>12 DEF ContinuesAt

\* and one that receives what it hands over.
LEMMA ReceivesStepsWell ==
    ASSUME IInv, AllCalm, NEW a \in Live, NEW from \in Side, NEW t, NEW rcv \in HalfStream,
           Receives(a, t, from, rcv, TRUE),
           rcv.count = tcphashmap_[a].half[Other(from)].count,
           \A i \in DOMAIN rcv.fraglist : ~rcv.fraglist[i].urg,
           pc \in {"queue", "drain"},
           Given(a, from) \/ tcphashmap_[a].half[Other(from)].fraglist # <<>>
    PROVE  StepsWell
<1> DEFINE old == tcphashmap_[a]
           exp == ExpSeq(old, from)
           r   == t.half[Other(from)]
<1>1. old \in TcpStream /\ t \in TcpStream
  BY LiveType DEF IInv, TypeOK, TablesType, Receives, Becomes
<1>2. /\ SameButReceived(old, t, from) /\ SameHeld(rcv, r) /\ ~r.urg_seen
      /\ Becomes(a, t)
  BY DEF Receives
<1>3. PICK n \in Nat : Gains(rcv, r, n) /\ callbacks'.data = Handed(old, from, exp, n)
  BY DEF Receives
<1>4. Calm(t)
  BY <1>2, ReceivedCalm DEF AllCalm, SameHeld
<1>5. Follows(old, t, from, IF old.isconnnection THEN Span(exp, n) ELSE <<>>, Given(a, from))
  <2>1. r.count = (old.half[Other(from)].count + n) % SeqSpace
    BY <1>3 DEF Gains
  <2>2. /\ old.isconnnection => t.isconnnection
        /\ t.half[from].first_data_seq = old.half[from].first_data_seq
    BY <1>2 DEF SameButReceived
  <2> QED
    BY <2>1, <2>2 DEF Follows
<1>6. Follows(old, t, Other(from), <<>>, Given(a, Other(from)))
  <2> DEFINE d == Other(from)
             h == old.half[Other(d)]
  <2>1. d \in Side /\ Other(d) = from
    BY OtherTwice
  <2>2. t.half[Other(d)].count = h.count /\ t.half[Other(d)].fraglist = h.fraglist
    BY <1>2, <2>1 DEF SameButReceived, SameData
  <2>3. h.count \in SeqNum
    BY <1>1, <2>1, HalvesType DEF HalfStream
  <2>4. (h.count + 0) % SeqSpace = h.count
    <3>1. h.count + 0 = h.count
      BY <2>3, SeqSpaceAssumption DEF SeqNum
    <3> QED
      BY <2>3, <3>1, ModSame
  <2>5. <<>> = IF old.isconnnection THEN Span(ExpSeq(old, d), 0) ELSE <<>>
    BY SpanIs
  <2>6. /\ old.isconnnection => t.isconnnection
        /\ t.isconnnection => t.half[d].first_data_seq = old.half[d].first_data_seq
    BY <1>2, <2>1 DEF SameButReceived
  <2> HIDE DEF h, old, d
  <2>7. \E m \in Nat : /\ t.half[Other(d)].count = (h.count + m) % SeqSpace
                       /\ <<>> = IF old.isconnnection THEN Span(ExpSeq(old, d), m) ELSE <<>>
    <3>1. 0 \in Nat
      OBVIOUS
    <3> QED
      BY <3>1, <2>2, <2>4, <2>5
  <2>8. Follows(old, t, d, <<>>, Given(a, d))
    BY <2>2, <2>6, <2>7 DEF Follows, h
  <2> QED
    BY <2>8 DEF d
<1> SUFFICES ASSUME NEW b \in Live' PROVE ContinuesAt(b)
  BY DEF StepsWell
<1>7. a \in Ptr
  BY DEF Live
<1>8. b \in Live /\ tcphashmap_'[b] = IF b = a THEN t ELSE tcphashmap_[b]
  BY <1>2, <1>7, BecomesIs DEF IInv
<1>9. ASSUME NEW d \in Side
      PROVE  SideFollows(b, d)
  <2>1. /\ Heard(b, d, 2) = <<>> /\ Heard(b, d, 3) = <<>>
        /\ tcphashmap_[b].addr # old.addr \/ d # from => Heard(b, d, 1) = <<>>
        /\ tcphashmap_[b].addr = old.addr /\ d = from =>
              Heard(b, d, 1) = IF old.isconnnection THEN Span(exp, n) ELSE <<>>
    <3> HIDE DEF old, exp
    <3> QED
      BY <1>3, HeardHanded
  <2>2. CASE b = a /\ d = from
    BY <2>1, <2>2, <1>5, <1>8 DEF SideFollows
  <2>3. CASE b = a /\ d # from
    <3>1. d = Other(from)
      BY <2>3 DEF Side, Other
    <3>2. Heard(b, d, 1) = <<>>
      BY <2>1, <2>3
    <3>3. Follows(tcphashmap_[b], tcphashmap_'[b], d, <<>>, Given(b, d))
      BY <3>1, <2>3, <1>6, <1>8
    <3> QED
      BY <2>1, <3>2, <3>3 DEF SideFollows
  <2>4. CASE b # a
    <3>1. tcphashmap_[b].addr # old.addr
      BY <2>4, <1>8 DEF IInv, TablesInv, UniqueFlow
    <3>2. tcphashmap_[b] \in TcpStream /\ tcphashmap_'[b] = tcphashmap_[b]
      BY <2>4, <1>8, LiveType DEF IInv, TypeOK, TablesType
    <3>3. Follows(tcphashmap_[b], tcphashmap_'[b], d, <<>>, Given(b, d))
      BY <3>2, SameSelf, SameFollows
    <3> QED
      BY <2>1, <3>1, <3>3 DEF SideFollows
  <2> QED
    BY <2>2, <2>3, <2>4
<1>10. Calm(tcphashmap_'[b])
  BY <1>4, <1>8 DEF AllCalm
<1>11. ~Fresh(b)
  BY NotFresh
<1> QED
  BY <1>8, <1>9, <1>10, <1>11 DEF ContinuesAt

\* A new stream begins with nothing.
LEMMA BeginsStepsWell ==
    ASSUME IInv, AllCalm, NEW a \in Ptr, NEW gc \in Garbage, NEW gs \in Garbage,
           \/ AddNewtcp(a, gc, gs)
           \/ \E b \in Ptr, from \in Side : RestartStream(b, from, a, gc, gs)
    PROVE  StepsWell
<1> DEFINE s == NewTcp(gc, gs)
<1>1. callbacks'.data = <<>> /\ pc = "segment" /\ pkt.valid /\ PureSyn /\ pkt \in Packet
  BY PktType DEF IInv, AddNewtcp, RestartStream, NoCallbacks
<1>2. s.addr = pkt.addr /\ s \in TcpStream
  BY <1>1, NewTcpType, TcpAssumption
<1>3. tcphashmap_'[a] = s
  BY DEF AddNewtcp, RestartStream, IInv, TypeOK
<1>4. BeginsAt(a)
  <2>1. s # Null
    BY <1>2, TcpAssumption
  <2> QED
    BY <1>1, <1>2, <1>3 DEF BeginsAt, Fresh
<1>5. ASSUME NEW b \in Live', b # a
      PROVE  ContinuesAt(b)
  <2>1. b \in Live /\ tcphashmap_'[b] = tcphashmap_[b]
    BY <1>5 DEF AddNewtcp, RestartStream, Live, IInv, TypeOK
  <2>2. tcphashmap_[b].addr # pkt.addr
    <3>1. CASE AddNewtcp(a, gc, gs)
      BY <3>1, <2>1 DEF AddNewtcp, NoStream, FindStreamAux
    <3>2. ASSUME NEW c \in Ptr, NEW from \in Side, RestartStream(c, from, a, gc, gs)
          PROVE  tcphashmap_[b].addr # pkt.addr
      <4>1. FindStream(c, from)
        BY <3>2 DEF RestartStream
      <4>2. c \in Live
        BY <4>1, FindStreamLive
      <4>3. b # c
        <5>1. CASE b = c
          <6>1. tcphashmap_'[c] = Null
            BY <3>2, <5>1, <1>5 DEF RestartStream, IInv, TypeOK
          <6> QED
            BY <6>1, <5>1 DEF Live
        <5> QED
          BY <5>1
      <4>4. CASE from = "client"
        <5>1. tcphashmap_[c].addr = pkt.addr
          BY <4>1, <4>4 DEF FindStream, FindStreamAux
        <5> QED
          BY <5>1, <4>2, <4>3, <2>1 DEF IInv, TablesInv, UniqueFlow
      <4>5. CASE from = "server"
        <5>1. FindStreamAux(pkt.addr) = {}
          BY <4>1, <4>5 DEF FindStream
        <5> QED
          BY <5>1, <2>1 DEF FindStreamAux
      <4> QED
        BY <4>4, <4>5 DEF Side
    <3> QED
      BY <3>1, <3>2
  <2>3. ~Fresh(b)
    BY <2>1, <2>2 DEF Fresh, Live
  <2>4. tcphashmap_[b] \in TcpStream
    BY <2>1, LiveType DEF IInv, TypeOK, TablesType
  <2>5. \A d \in Side : SideFollows(b, d)
    BY <2>1, <2>4, <1>1, SameSelf, QuietFollows DEF IInv
  <2> QED
    BY <2>1, <2>3, <2>5 DEF ContinuesAt, AllCalm
<1> QED
  BY <1>4, <1>5 DEF StepsWell

\* Every step on a calm table begins streams afresh or continues them.
LEMMA NextStepsWell ==
    ASSUME IInv, AllCalm, NoUrgentData, Next
    PROVE  StepsWell
<1>1. CASE Receive
  <2>1. PICK S : Frees(S)
    BY <1>1 DEF Receive, CheckTimeouts, Frees
  <2>2. callbacks'.data = <<>> /\ pc = "idle"
    BY <1>1 DEF Receive, CheckTimeouts, NoCallbacks
  <2> QED
    BY <2>1, <2>2, FreesStepsWell DEF IInv
<1>2. CASE Ignore
  <2>1. tcphashmap_' = tcphashmap_ /\ callbacks'.data = <<>> /\ ~(pkt.valid /\ PureSyn)
    BY <1>2 DEF Ignore, tables, NoCallbacks
  <2> QED
    BY <2>1, QuietStepsWell DEF IInv
<1>3. CASE \E a \in Ptr, gc, gs \in Garbage : AddNewtcp(a, gc, gs)
  BY <1>3, BeginsStepsWell
<1>4. ASSUME NEW a \in Ptr, NEW from \in Side,
             \/ \E b \in Ptr, gc, gs \in Garbage : RestartStream(a, from, b, gc, gs)
             \/ SecondHandshake(a, from)
             \/ DropSegment(a, from)
             \/ ResetStream(a, from)
             \/ ThirdHandshake(a, from)
             \/ CloseStream(a, from)
             \/ AckSegment(a, from)
             \/ QueueInOrder(a, from)
             \/ QueueOld(a, from)
             \/ QueueOutOfOrder(a, from)
             \/ DrainFragment(a, from)
             \/ DrainEnd(a, from)
             \/ Finish(a, from)
      PROVE  StepsWell
  <2> DEFINE old == tcphashmap_[a]
             rcv == old.half[Other(from)]
  <2>0. ASSUME FindStream(a, from)
        PROVE  /\ a \in Live /\ rcv \in HalfStream /\ ~rcv.urg_seen
               /\ \A i \in DOMAIN rcv.fraglist : ~rcv.fraglist[i].urg
    <3>1. a \in Live
      BY <2>0, FindStreamLive
    <3>2. rcv \in HalfStream
      BY <3>1, LiveType, OtherType DEF IInv, TypeOK, TablesType
    <3> QED
      BY <3>1, <3>2, OtherType DEF AllCalm, Calm
  <2>1. CASE \E b \in Ptr, gc, gs \in Garbage : RestartStream(a, from, b, gc, gs)
    BY <2>1, BeginsStepsWell
  <2>2. CASE DropSegment(a, from) \/ QueueOld(a, from) \/ DrainEnd(a, from)
    <3>1. /\ tcphashmap_' = tcphashmap_ /\ callbacks'.data = <<>>
          /\ ~(pc = "segment" /\ pkt.valid /\ PureSyn)
      BY <2>2 DEF DropSegment, Segment, QueueOld, DrainEnd, tables, NoCallbacks
    <3> QED
      BY <3>1, QuietStepsWell DEF IInv
  <2>3. CASE ResetStream(a, from) \/ CloseStream(a, from)
    <3>1. Frees({a})
      BY <2>3, FreeTcpstreamFrees DEF ResetStream, CloseStream, IInv
    <3>2. callbacks'.data = <<>> /\ ~PureSyn
      BY <2>3 DEF ResetStream, CloseStream, InWindow, Segment, NoCallbacks
    <3> QED
      BY <3>1, <3>2, FreesStepsWell DEF IInv
  <2>4. CASE \/ SecondHandshake(a, from) \/ ThirdHandshake(a, from)
             \/ AckSegment(a, from) \/ Finish(a, from)
    <3>1. /\ FindStream(a, from) /\ callbacks'.data = <<>>
          /\ ~(pc = "segment" /\ pkt.valid /\ PureSyn)
      BY <2>4 DEF SecondHandshake, ThirdHandshake, AckSegment, InWindow, Segment,
                  Finish, NoCallbacks
    <3>2. Frees({a}) \/ \E t : Becomes(a, t) /\ SameStream(tcphashmap_[a], t)
      BY <2>4, SecondHandshakeSame, AckActionsSame, FinishSame
    <3>3. a \in Live
      BY <2>0, <3>1
    <3> QED
      BY <3>1, <3>2, <3>3, FreesStepsWell, SameStepsWell DEF IInv
  <2>5. CASE QueueInOrder(a, from)
    <3>1. FindStream(a, from) /\ pc = "queue"
      BY <2>5 DEF QueueInOrder
    <3>2. PICK t : Receives(a, t, from, rcv, ~pkt.urg /\ ~rcv.urg_seen)
      BY <2>5, QueueInOrderTakes
    <3>3. (~pkt.urg /\ ~rcv.urg_seen) = TRUE
      BY <2>0, <3>1, NoUrgentPkt DEF IInv
    <3>4. Receives(a, t, from, rcv, TRUE)
      BY <3>2, <3>3
    <3>5. Given(a, from) /\ pc \in {"queue", "drain"}
      BY <3>1 DEF Given
    <3>6. rcv.count = old.half[Other(from)].count
      OBVIOUS
    <3> HIDE DEF rcv
    <3> QED
      BY <2>0, <3>1, <3>4, <3>5, <3>6, ReceivesStepsWell
  <2>6. CASE QueueOutOfOrder(a, from)
    BY <2>6, HoldsStepsWell
  <2>7. CASE DrainFragment(a, from)
    <3> DEFINE r == DropFirst(rcv)
    <3>1. FindStream(a, from) /\ pc = "drain"
      BY <2>7 DEF DrainFragment
    <3>2. /\ rcv.fraglist # <<>>
          /\ \E t : Receives(a, t, from, r, ~Head(rcv.fraglist).urg /\ ~rcv.urg_seen)
      BY <2>7, DrainFragmentTakes
    <3>3. rcv.fraglist \in Seq(Skbuff)
      BY <2>0, <3>1 DEF HalfStream
    <3>4. /\ ~Head(rcv.fraglist).urg
          /\ \A i \in DOMAIN Tail(rcv.fraglist) : ~Tail(rcv.fraglist)[i].urg
      <4> DEFINE list == rcv.fraglist
      <4>1. list \in Seq(Skbuff) /\ list # <<>> /\ \A i \in DOMAIN list : ~list[i].urg
        BY <2>0, <3>1, <3>2, <3>3
      <4> HIDE DEF list
      <4>2. ~Head(list).urg /\ \A i \in DOMAIN Tail(list) : ~Tail(list)[i].urg
        BY <4>1, TailCalm
      <4> QED
        BY <4>2 DEF list
    <3>5. (~Head(rcv.fraglist).urg /\ ~rcv.urg_seen) = TRUE
      BY <2>0, <3>1, <3>4
    <3>6. PICK t : Receives(a, t, from, r, TRUE)
      BY <3>2, <3>5
    <3>7. r \in HalfStream /\ r.fraglist = Tail(rcv.fraglist) /\ r.count = rcv.count
      <4> HIDE DEF rcv
      <4> QED
        BY <2>0, <3>1, <3>2, DropFirstType, DropFirstIs
    <3>8. r.count = old.half[Other(from)].count /\ old.half[Other(from)].fraglist # <<>>
      BY <3>2, <3>7
    <3>9. \A i \in DOMAIN r.fraglist : ~r.fraglist[i].urg
      BY <3>4, <3>7
    <3> HIDE DEF r
    <3> QED
      BY <2>0, <3>1, <3>6, <3>7, <3>8, <3>9, ReceivesStepsWell
  <2> QED
    BY <1>4, <2>1, <2>2, <2>3, <2>4, <2>5, <2>6, <2>7
<1> QED
  BY <1>1, <1>2, <1>3, <1>4 DEF Next, Process

\* What is received is a record again.
LEMMA ReceivedIs ==
    ASSUME NEW h \in Record, NEW connected \in BOOLEAN, pkt \in Packet
    PROVE  /\ Received(h, connected) \in Record
           /\ Received(h, connected).got = h.got
           /\ Received(h, connected).early = (h.early \/ ~connected)
<1> DEFINE given == Range(Span(pkt.seq, pkt.len))
           fins  == IF pkt.fin = 1 THEN h.fins \cup {(pkt.seq + pkt.len) % SeqSpace} ELSE h.fins
<1>1. pkt.seq \in Int /\ pkt.len \in Nat /\ pkt.seq + pkt.len \in Int
  BY SeqSpaceAssumption DEF Packet, SeqNum
<1>2. given \in SUBSET SeqNum
  <2>1. Span(pkt.seq, pkt.len) \in Seq(SeqNum)
    BY <1>1, SpanType
  <2>2. \A i \in DOMAIN Span(pkt.seq, pkt.len) : Span(pkt.seq, pkt.len)[i] \in SeqNum
    BY <2>1
  <2> QED
    BY <2>2 DEF Range
<1>3. fins \in SUBSET SeqNum
  BY <1>1, ModType DEF Record
<1>4. Received(h, connected) = [h EXCEPT !.early = h.early \/ ~connected,
                                         !.have = h.have \cup given, !.fins = fins]
  BY DEF Received, Record
<1> HIDE DEF given, fins
<1> QED
  BY <1>2, <1>3, <1>4 DEF Record

\* The history of a side of a stream that continues.
LEMMA HistStepIs ==
    ASSUME TypeOK, HistType, NEW a \in Live, NEW d \in Side, SideFollows(a, d)
    PROVE  LET h == history[a][d]
               k == HistStep(a, d)
           IN  /\ k \in Record
               /\ k.got = h.got \o Heard(a, d, 1)
               /\ k.early = (h.early \/ (Given(a, d) /\ ~tcphashmap_[a].isconnnection))
<1> DEFINE s  == tcphashmap_[a]
           h  == history[a][d]
           m  == IF Given(a, d) THEN Received(h, s.isconnnection) ELSE h
           x1 == Heard(a, d, 1)
<1>1. h \in Record /\ s \in TcpStream /\ s.isconnnection \in BOOLEAN
  BY LiveType DEF HistType, Live, TypeOK, TablesType, TcpStream
<1>2. x1 \in Seq(SeqNum)
  <2>1. PICK n \in Nat : x1 = IF s.isconnnection THEN Span(ExpSeq(s, d), n) ELSE <<>>
    BY DEF SideFollows, Follows
  <2>2. ExpSeq(s, d) \in Int
    BY <1>1, ExpSeqType, SeqSpaceAssumption DEF SeqNum
  <2>3. Span(ExpSeq(s, d), n) \in Seq(SeqNum)
    BY <2>2, SpanType
  <2>4. <<>> \in Seq(SeqNum)
    OBVIOUS
  <2> DEFINE span == Span(ExpSeq(s, d), n)
  <2>5. span \in Seq(SeqNum) /\ (x1 = span \/ x1 = <<>>)
    BY <2>1, <2>3
  <2> HIDE DEF x1, span
  <2> QED
    BY <2>4, <2>5
<1>3. /\ m \in Record /\ m.got = h.got
      /\ m.early = (h.early \/ (Given(a, d) /\ ~s.isconnnection))
  <2>1. h.early \in BOOLEAN
    BY <1>1 DEF Record
  <2>2. CASE Given(a, d)
    <3>1. pkt \in Packet
      BY <2>2, PktType DEF Given
    <3> HIDE DEF s, h
    <3> QED
      BY <2>2, <3>1, <1>1, ReceivedIs
  <2>3. CASE ~Given(a, d)
    <3>1. m = h
      BY <2>3
    <3>2. h.early = (h.early \/ (Given(a, d) /\ ~s.isconnnection))
      BY Zenon, <2>1, <2>3
    <3> HIDE DEF s, h, m
    <3> QED
      BY <3>1, <3>2, <1>1
  <2> QED
    BY <2>2, <2>3
<1>4. HistStep(a, d) = [m EXCEPT !.got = m.got \o x1 \o <<>> \o <<>>]
  BY DEF HistStep, HandedOver, SideFollows, Given
<1> HIDE DEF m, x1, h, s
<1>5. m.got \in Seq(SeqNum)
  BY <1>3 DEF Record
<1>6. m.got \o x1 \in Seq(SeqNum)
  BY <1>2, <1>5, ConcatProperties
<1> DEFINE got == m.got \o x1
<1>7. got \o <<>> \o <<>> = got
  <2> HIDE DEF got
  <2>1. got \in Seq(SeqNum)
    BY <1>6 DEF got
  <2>2. got \o <<>> = got
    BY <2>1, ConcatEmptySeq
  <2> QED
    BY <2>2
<1> HIDE DEF got
<1>8. HistStep(a, d) = [m EXCEPT !.got = got]
  BY <1>4, <1>7 DEF got
<1>9. got \in Seq(SeqNum)
  BY <1>6 DEF got
<1>10. /\ HistStep(a, d) \in Record /\ HistStep(a, d).got = got
       /\ HistStep(a, d).early = m.early
  BY <1>3, <1>8, <1>9 DEF Record
<1> QED
  BY <1>3, <1>10 DEF got, h, s, x1

----------------------------------------------------------------------------
(***************************************************************************)
(* The history is in order.                                                *)
(***************************************************************************)
\* A record begins empty.
LEMMA NoHistoryIs ==
    ASSUME NEW d \in Side
    PROVE  /\ NoHistory \in [Side -> Record]
           /\ NoHistory[d].got = <<>> /\ NoHistory[d].early = FALSE
<1>1. <<>> \in Seq(SeqNum)
  OBVIOUS
<1>2. [have |-> {}, fins |-> {}, got |-> <<>>, early |-> FALSE] \in Record
  BY <1>1 DEF Record
<1> QED
  BY <1>2 DEF NoHistory

\* A stream that begins has handed over nothing, and holds nothing.
LEMMA NewTcpInOrder ==
    ASSUME NEW gc, NEW gs, NEW d \in Side
    PROVE  InOrder(NewTcp(gc, gs), d, NoHistory[d])
<1>1. /\ NewTcp(gc, gs).half[Other(d)].fraglist = <<>>
      /\ NewTcp(gc, gs).half[Other(d)].count = 0
  BY OtherType DEF NewTcp, NewHalf, Side
<1> QED
  BY <1>1, NoHistoryIs DEF InOrder

\* The data of both sides stays in order.
LEMMA NextHistInv ==
    ASSUME IInv, HistInv, NoUrgentData, [HistNext]_histVars
    PROVE  HistInv'
<1>1. CASE HistNext
  <2>1. Next /\ IInv' /\ StepsWell
    BY <1>1, NextIInv, NextStepsWell DEF HistNext, HistInv
  <2>2. \A a \in Ptr : history'[a] =
            IF Fresh(a) THEN NoHistory ELSE [side \in Side |-> HistStep(a, side)]
    BY <1>1 DEF HistNext
  <2>3. AllInOrder'
    <3> SUFFICES ASSUME NEW b \in Live', NEW d \in Side
                 PROVE  InOrder(tcphashmap_'[b], d, history'[b][d])
      BY DEF AllInOrder
    <3>0. b \in Ptr
      BY DEF Live
    <3>1. CASE BeginsAt(b)
      <4>1. history'[b][d] = NoHistory[d]
        BY <2>2, <3>0, <3>1 DEF BeginsAt
      <4> QED
        BY <3>1, <4>1, NewTcpInOrder DEF BeginsAt
    <3>2. CASE ContinuesAt(b)
      <4> DEFINE s == tcphashmap_[b]
                 t == tcphashmap_'[b]
                 h == history[b][d]
                 k == HistStep(b, d)
                 given == Given(b, d)
                 out   == Heard(b, d, 1)
      <4>1. b \in Live /\ SideFollows(b, d) /\ ~Fresh(b)
        BY <3>2 DEF ContinuesAt
      <4>2. history'[b][d] = k
        BY <2>2, <3>0, <4>1
      <4>3. s \in TcpStream
        BY <4>1, LiveType DEF IInv, TypeOK, TablesType
      <4>4. t \in TcpStream
        BY <2>1, <3>0 DEF IInv, TypeOK, Live
      <4>5. h \in Record /\ InOrder(s, d, h)
        BY <3>0, <4>1 DEF HistInv, HistType, AllInOrder
      <4>6. /\ k \in Record /\ k.got = h.got \o out
            /\ k.early = (h.early \/ (given /\ ~s.isconnnection))
        BY <4>1, HistStepIs DEF IInv, HistInv
      <4>7. Follows(s, t, d, out, given)
        BY <4>1 DEF SideFollows
      <4>8. given \in BOOLEAN
        BY DEF Given, FindStream
      <4> HIDE DEF s, t, h, k, given, out
      <4>9. InOrder(t, d, k)
        BY <4>3, <4>4, <4>5, <4>6, <4>7, <4>8, FollowsInOrder
      <4> QED
        BY <4>2, <4>9 DEF t
    <3> QED
      BY <2>1, <3>1, <3>2 DEF StepsWell
  <2>4. AllCalm'
    <3> SUFFICES ASSUME NEW b \in Live' PROVE Calm(tcphashmap_'[b])
      BY DEF AllCalm
    <3>1. CASE BeginsAt(b)
      BY <3>1, NewTcpCalm DEF BeginsAt
    <3>2. CASE ContinuesAt(b)
      BY <3>2 DEF ContinuesAt
    <3> QED
      BY <2>1, <3>1, <3>2 DEF StepsWell
  <2>5. HistType'
    <3>1. ASSUME NEW b \in Ptr
          PROVE  Fresh(b) \/ \A d \in Side : HistStep(b, d) \in Record
      <4>1. CASE b \notin Live'
        BY <4>1 DEF Live, Fresh
      <4>2. CASE b \in Live'
        <5>1. CASE BeginsAt(b)
          BY <5>1 DEF BeginsAt
        <5>2. CASE ContinuesAt(b)
          BY <5>2, HistStepIs DEF ContinuesAt, IInv, HistInv
        <5> QED
          BY <2>1, <4>2, <5>1, <5>2 DEF StepsWell
      <4> QED
        BY <4>1, <4>2
    <3> DEFINE new(b) == IF Fresh(b) THEN NoHistory ELSE [side \in Side |-> HistStep(b, side)]
    <3>2. \A b \in Ptr : new(b) \in [Side -> Record]
      <4>1. NoHistory \in [Side -> Record]
        BY NoHistoryIs DEF Side
      <4> QED
        BY <3>1, <4>1
    <3>3. history' = [b \in Ptr |-> new(b)]
      BY <1>1 DEF HistNext
    <3> HIDE DEF new
    <3>4. history' \in [Ptr -> [Side -> Record]]
      BY <3>2, <3>3
    <3> QED
      BY <3>4 DEF HistType
  <2> QED
    BY <2>3, <2>4, <2>5 DEF HistInv
<1>2. CASE UNCHANGED histVars
  BY <1>2 DEF histVars, vars, HistInv, HistType, AllInOrder, AllCalm, Live
<1> QED
  BY <1>1, <1>2

\* So does the table.
LEMMA InitHistInv == HistInit => HistInv
<1> SUFFICES ASSUME HistInit PROVE HistInv
  OBVIOUS
<1>1. Live = {}
  BY DEF HistInit, Init, Live
<1>2. NoHistory \in [Side -> Record]
  BY NoHistoryIs DEF Side
<1>3. HistType
  BY <1>2 DEF HistInit, HistType
<1> QED
  BY <1>1, <1>3 DEF HistInv, AllInOrder, AllCalm

\* The history observes the table, it does not steer it.
LEMMA HistSpecIsSpec == HistSpec => Spec
<1>1. HistInit => Init
  BY DEF HistInit
<1>2. [HistNext]_histVars => [Next]_vars
  BY DEF HistNext, histVars, vars
<1> QED
  BY <1>1, <1>2, PTL DEF HistSpec, Spec

\* The invariant is the property.
LEMMA HistInvInOrder == HistInv => DeliveredInOrder
BY DEF HistInv, AllInOrder, InOrder, DeliveredInOrder, Got, Connections

\* The analysers of a connection get each side's payload in the order of its
\* sequence numbers, without a gap and without a byte twice, from its first
\* byte on if none came before the connection (tcpQueue, addFromskb).  Without
\* urgent data: around an urgent byte addFromskb hands the whole segment over
\* again (TcpFragment.cc:653-673).
THEOREM DeliveredInOrderHolds ==
    ASSUME NoUrgentData
    PROVE  HistSpec => []DeliveredInOrder
<1>1. HistSpec => []IInv
  BY HistSpecIsSpec, Invariance, PTL
<1>2. IInv /\ HistInv /\ [HistNext]_histVars => HistInv'
  BY NextHistInv
<1>3. HistSpec => HistInit /\ [][HistNext]_histVars
  BY PTL DEF HistSpec
<1> QED
  BY <1>1, <1>2, <1>3, InitHistInv, HistInvInOrder, PTL
----------------------------------------------------------------------------
(***************************************************************************)
(* Where the bytes of a direction lie.  Offsets from its first number do   *)
(* not wrap while the direction is shorter than half the sequence space,   *)
(* so that before and after compare them.                                  *)
(***************************************************************************)
\* An offset is a number of the space.
LEMMA OffsetType ==
    ASSUME NEW first \in Int, NEW x \in Int
    PROVE  Offset(first, x) \in SeqNum /\ Offset(first, x) \in Nat
<1>1. x - first \in Int
  OBVIOUS
<1> QED
  BY <1>1, ModType, SeqSpaceAssumption DEF Offset, SeqNum

\* The number at an offset is at it,
LEMMA OffsetOfSum ==
    ASSUME NEW first \in Int, NEW n \in SeqNum
    PROVE  Offset(first, (first + n) % SeqSpace) = n
<1>1. n \in Int
  BY SeqSpaceAssumption DEF SeqNum
<1>2. (((first + n) % SeqSpace) + (-first)) % SeqSpace = ((first + n) + (-first)) % SeqSpace
  BY <1>1, ModAdd
<1>3. (first + n) + (-first) = n
  BY <1>1
<1>4. (first + n) % SeqSpace \in Int
  BY <1>1, ModType, SeqSpaceAssumption DEF SeqNum
<1>5. ((first + n) % SeqSpace) + (-first) = ((first + n) % SeqSpace) - first
  BY <1>4
<1> QED
  BY <1>2, <1>3, <1>5, ModSame DEF Offset

\* and is the only one.
LEMMA SumOfOffset ==
    ASSUME NEW first \in Int, NEW x \in SeqNum
    PROVE  (first + Offset(first, x)) % SeqSpace = x
<1> DEFINE y == x - first
<1>1. x \in Int /\ y \in Int
  BY SeqSpaceAssumption DEF SeqNum
<1>2. ((y % SeqSpace) + first) % SeqSpace = (y + first) % SeqSpace
  BY <1>1, ModAdd
<1>3. y + first = x
  BY <1>1
<1>4. y % SeqSpace \in Int
  BY <1>1, ModType, SeqSpaceAssumption DEF SeqNum
<1>5. (y % SeqSpace) + first = first + (y % SeqSpace)
  BY <1>4
<1> QED
  BY <1>2, <1>3, <1>5, ModSame DEF Offset

\* Offsets add up, whether or not what they are measured from is wrapped.
LEMMA OffsetAdds ==
    ASSUME NEW first \in Int, NEW x \in Int, NEW k \in Nat,
           Offset(first, x) + k < SeqSpace
    PROVE  Offset(first, x + k) = Offset(first, x) + k
<1> DEFINE y == x - first
<1>1. y \in Int /\ y % SeqSpace \in SeqNum
  BY ModType
<1>2. ((y % SeqSpace) + k) % SeqSpace = (y + k) % SeqSpace
  BY <1>1, ModAdd
<1>3. y + k = (x + k) - first
  BY <1>1
<1>4. (y % SeqSpace) + k \in SeqNum
  BY <1>1, SeqSpaceAssumption DEF SeqNum, Offset
<1> QED
  BY <1>2, <1>3, <1>4, ModSame DEF Offset

\* A number may be wrapped before its offset is taken,
LEMMA OffsetOfRest ==
    ASSUME NEW first \in Int, NEW x \in Int
    PROVE  Offset(first, x % SeqSpace) = Offset(first, x)
<1>1. ((x % SeqSpace) + (-first)) % SeqSpace = (x + (-first)) % SeqSpace
  BY ModAdd
<1>2. x % SeqSpace \in Int
  BY ModType, SeqSpaceAssumption DEF SeqNum
<1>3. (x % SeqSpace) + (-first) = (x % SeqSpace) - first /\ x + (-first) = x - first
  BY <1>2
<1> QED
  BY <1>1, <1>3 DEF Offset

\* and so may the number that offsets are measured from.
LEMMA OffsetFromRest ==
    ASSUME NEW first \in Int, NEW x \in Int
    PROVE  Offset(first % SeqSpace, x) = Offset(first, x)
<1>1. PICK q \in Int : first = SeqSpace * q + (first % SeqSpace)
  BY ModSplits
<1> DEFINE r == first % SeqSpace
           p == SeqSpace * q
<1>2. r \in Int /\ p \in Int
  BY ModType, SeqSpaceAssumption DEF SeqNum
<1>3. first = p + r
  BY <1>1
<1> HIDE DEF r, p
<1>4. x - r = (x - first) + p
  BY <1>2, <1>3
<1>5. x - r = (x - first) + SeqSpace * q /\ x - r \in Int /\ x - first \in Int
  BY <1>2, <1>4 DEF p
<1>6. (x - r) % SeqSpace = (x - first) % SeqSpace
  BY <1>5, SameRest
<1> QED
  BY <1>6 DEF Offset, r

\* The difference of two numbers is that of their offsets.
LEMMA OffsetDiff ==
    ASSUME NEW first \in Int, NEW x \in Int, NEW y \in Int
    PROVE  (x - y) % SeqSpace = (Offset(first, x) - Offset(first, y)) % SeqSpace
<1> DEFINE u == x - first
           v == y - first
           m == u % SeqSpace
           n == v % SeqSpace
<1>1. u \in Int /\ v \in Int /\ m \in Int /\ n \in Int
  BY ModType, SeqSpaceAssumption DEF SeqNum
<1>2. PICK a \in Int : u = SeqSpace * a + (u % SeqSpace)
  BY <1>1, ModSplits
<1>3. PICK b \in Int : v = SeqSpace * b + (v % SeqSpace)
  BY <1>1, ModSplits
<1>4. x - y = u - v
  OBVIOUS
<1> DEFINE S == SeqSpace
<1>5. S \in Int
  BY SeqSpaceAssumption
<1> HIDE DEF u, v
<1>6. u = S * a + m /\ v = S * b + n
  BY <1>2, <1>3
<1> HIDE DEF m, n, S
<1>7. S * (a - b) = S * a - S * b /\ S * a \in Int /\ S * b \in Int
  BY <1>5
<1>8. u - v = (m - n) + S * (a - b)
  BY <1>1, <1>5, <1>6, <1>7
<1>9. (u - v) % SeqSpace = (m - n) % SeqSpace
  <2>1. u - v = (m - n) + SeqSpace * (a - b) /\ u - v \in Int /\ m - n \in Int /\ a - b \in Int
    BY <1>1, <1>8 DEF S
  <2> QED
    BY <2>1, SameRest
<1> QED
  BY <1>4, <1>9 DEF Offset, u, v, m, n

\* In the first half of the space "after" is "further on".
LEMMA AfterIsBeyond ==
    ASSUME NEW first \in Int, NEW x \in Int, NEW y \in Int,
           2 * Offset(first, x) < SeqSpace, 2 * Offset(first, y) < SeqSpace
    PROVE  After(x, y) <=> Offset(first, x) > Offset(first, y)
<1> DEFINE m == Offset(first, x)
           n == Offset(first, y)
<1>1. m \in Nat /\ n \in Nat /\ SeqSpace \in Nat /\ SeqSpace > 1
  BY OffsetType, SeqSpaceAssumption
<1>2. (y - x) % SeqSpace = (n - m) % SeqSpace
  BY OffsetDiff
<1> HIDE DEF m, n
<1>3. CASE m > n
  <2>1. (n - m) + SeqSpace \in SeqNum
    BY <1>1, <1>3 DEF SeqNum, m, n
  <2>2. (n - m) % SeqSpace = ((n - m) + SeqSpace) % SeqSpace
    <3>1. n - m \in Int /\ (n - m) + SeqSpace \in Int
      BY <1>1
    <3>2. (n - m) + SeqSpace = (n - m) + SeqSpace * 1
      BY <1>1
    <3> QED
      BY <3>1, <3>2, SameRest
  <2>3. (n - m) % SeqSpace = (n - m) + SeqSpace
    BY <2>1, <2>2, ModSame
  <2>4. 2 * ((n - m) + SeqSpace) >= SeqSpace
    BY <1>1, <1>3 DEF m, n
  <2> QED
    BY <1>2, <1>3, <2>3, <2>4 DEF After, Before, m, n
<1>4. CASE m <= n
  <2>1. n - m \in SeqNum /\ 2 * (n - m) < SeqSpace
    BY <1>1, <1>4 DEF SeqNum, m, n
  <2>2. (n - m) % SeqSpace = n - m
    BY <2>1, ModSame
  <2>3. ~(m > n)
    BY <1>1, <1>4
  <2>4. ~(2 * (n - m) >= SeqSpace)
    BY <1>1, <2>1
  <2> QED
    BY <1>2, <2>2, <2>3, <2>4 DEF After, Before, m, n
<1>5. m > n \/ m <= n
  BY <1>1
<1> QED
  BY <1>3, <1>4, <1>5

\* A segment whose end lies in the first half of the space.
Fits(first, f) ==
    /\ f.seq \in SeqNum /\ f.len \in Nat /\ f.fin \in 0 .. 1
    /\ 2 * (Offset(first, f.seq) + f.len + f.fin) < SeqSpace

\* Where its payload ends.
EndAt(first, f) == Offset(first, f.seq) + f.len

\* The number x is in its payload.
Holds(first, f, x) == Offset(first, f.seq) <= Offset(first, x) /\ Offset(first, x) < EndAt(first, f)

\* The offsets of a segment are small.
LEMMA FitsIs ==
    ASSUME NEW first \in Int, NEW f, Fits(first, f)
    PROVE  /\ Offset(first, f.seq) \in Nat /\ EndAt(first, f) \in Nat
           /\ f.len \in Nat /\ f.fin \in 0 .. 1 /\ f.seq \in Int
           /\ EndAt(first, f) = Offset(first, f.seq) + f.len
           /\ 2 * Offset(first, f.seq) < SeqSpace /\ 2 * EndAt(first, f) < SeqSpace
           /\ 2 * (EndAt(first, f) + f.fin) < SeqSpace
<1>1. f.seq \in Int /\ f.len \in Nat /\ f.fin \in 0 .. 1
  BY SeqSpaceAssumption DEF Fits, SeqNum
<1>2. Offset(first, f.seq) \in Nat
  BY <1>1, OffsetType
<1> QED
  BY <1>1, <1>2, SeqSpaceAssumption DEF Fits, EndAt

\* The sequence numbers of its payload are those it holds.
LEMMA SpanHolds ==
    ASSUME NEW first \in Int, NEW f, Fits(first, f), NEW x \in SeqNum
    PROVE  x \in Range(Span(f.seq, f.len)) <=> Holds(first, f, x)
<1> DEFINE o == Offset(first, f.seq)
           e == Offset(first, x)
<1>0. /\ f.seq \in Int /\ f.len \in Nat /\ o \in Nat /\ e \in Nat /\ e \in SeqNum
      /\ 2 * (o + f.len) < SeqSpace /\ EndAt(first, f) = o + f.len /\ x \in Int
      /\ SeqSpace \in Nat
  <2>1. x \in Int /\ SeqSpace \in Nat
    BY SeqSpaceAssumption DEF SeqNum
  <2>2. e \in Nat /\ e \in SeqNum
    BY <2>1, OffsetType
  <2>3. /\ f.seq \in Int /\ f.len \in Nat /\ o \in Nat
        /\ 2 * EndAt(first, f) < SeqSpace /\ EndAt(first, f) = o + f.len
    BY FitsIs
  <2> QED
    BY <2>1, <2>2, <2>3
<1>1. ASSUME NEW i \in 1 .. f.len
      PROVE  Offset(first, (f.seq + i - 1) % SeqSpace) = o + i - 1
  <2>1. i - 1 \in Nat /\ o + (i - 1) < SeqSpace
    BY <1>0
  <2>2. Offset(first, f.seq + (i - 1)) = o + (i - 1)
    BY <1>0, <2>1, OffsetAdds
  <2>3. f.seq + i - 1 = f.seq + (i - 1) /\ f.seq + i - 1 \in Int /\ o + i - 1 = o + (i - 1)
    BY <1>0
  <2>4. Offset(first, (f.seq + i - 1) % SeqSpace) = Offset(first, f.seq + i - 1)
    BY <2>3, OffsetOfRest
  <2> QED
    BY <2>2, <2>3, <2>4
<1>2. x \in Range(Span(f.seq, f.len)) <=> \E i \in 1 .. f.len : x = (f.seq + i - 1) % SeqSpace
  <2> DEFINE list == Span(f.seq, f.len)
  <2>1. /\ DOMAIN list = 1 .. f.len
        /\ \A i \in 1 .. f.len : list[i] = (f.seq + i - 1) % SeqSpace
    BY <1>0, SpanIs
  <2> HIDE DEF list
  <2>2. x \in Range(list) <=> \E i \in 1 .. f.len : x = list[i]
    BY <2>1 DEF Range
  <2> QED
    BY <2>1, <2>2 DEF list
<1>3. ASSUME NEW i \in 1 .. f.len, x = (f.seq + i - 1) % SeqSpace
      PROVE  Holds(first, f, x)
  <2>1. e = o + i - 1
    BY <1>1, <1>3
  <2> HIDE DEF e, o
  <2> QED
    BY <1>0, <2>1 DEF Holds, e, o
<1>4. ASSUME Holds(first, f, x)
      PROVE  \E i \in 1 .. f.len : x = (f.seq + i - 1) % SeqSpace
  <2> DEFINE i == e - o + 1
  <2>1. o <= e /\ e < o + f.len
    BY <1>0, <1>4 DEF Holds
  <2> HIDE DEF e, o
  <2>2. i \in 1 .. f.len /\ o + i - 1 = e
    BY <1>0, <2>1
  <2> HIDE DEF i
  <2>3. Offset(first, (f.seq + i - 1) % SeqSpace) = Offset(first, x)
    BY <1>1, <2>2 DEF e, o
  <2>4. (f.seq + i - 1) % SeqSpace \in SeqNum
    <3>1. f.seq + i - 1 \in Int
      BY <1>0, <2>2
    <3> QED
      BY <3>1, ModType
  <2>5. x = (f.seq + i - 1) % SeqSpace
    BY <2>3, <2>4, SumOfOffset
  <2> QED
    BY <2>2, <2>5
<1> QED
  BY <1>2, <1>3, <1>4

----------------------------------------------------------------------------
(***************************************************************************)
(* What a direction has and what it waits for.  Of a direction that begins *)
(* at "first", everything up to "count" was handed over, and "list" holds  *)
(* segments in the order of their numbers; "have" is all of that.          *)
(***************************************************************************)
\* A fragment of the list has the number x.
Covers(first, list, x) == \E i \in DOMAIN list : Holds(first, list[i], x)

AllFit(first, list) == \A i \in DOMAIN list : Fits(first, list[i])

Sorted(first, list) ==
    \A i \in DOMAIN list : \A j \in DOMAIN list :
        i < j => Offset(first, list[i].seq) <= Offset(first, list[j].seq)

Placed(first, count, list, have, got) ==
    /\ 2 * count < SeqSpace
    /\ Len(got) = count
    /\ AllFit(first, list)
    /\ Sorted(first, list)
    /\ \A x \in SeqNum : x \in have <=> Offset(first, x) < count \/ Covers(first, list, x)

\* The first fragment of the list still lies ahead.
Ahead(first, count, list) == list # <<>> => count < Offset(first, list[1].seq)

\* The numbers that the position of x is decided by.
LEMMA OffsetsAre ==
    ASSUME NEW first \in Int, NEW count \in SeqNum, NEW x \in SeqNum,
           NEW f, Fits(first, f)
    PROVE  /\ Offset(first, x) \in Nat /\ EndAt(first, f) \in Nat /\ count \in Int
           /\ Offset(first, f.seq) \in Nat
<1>1. x \in Int /\ count \in Int
  BY SeqSpaceAssumption DEF SeqNum
<1>2. Offset(first, x) \in Nat
  BY <1>1, OffsetType
<1>3. EndAt(first, f) \in Nat /\ Offset(first, f.seq) \in Nat
  BY FitsIs
<1> QED
  BY <1>1, <1>2, <1>3

\* A retransmission adds nothing,
LEMMA PlacedOld ==
    ASSUME NEW first \in Int, NEW count \in SeqNum, NEW list, NEW have, NEW got,
           Placed(first, count, list, have, got),
           NEW f, Fits(first, f), EndAt(first, f) <= count
    PROVE  Placed(first, count, list, have \cup Range(Span(f.seq, f.len)), got)
<1>1. ASSUME NEW x \in SeqNum
      PROVE  x \in have \cup Range(Span(f.seq, f.len))
                <=> Offset(first, x) < count \/ Covers(first, list, x)
  <2>1. x \in Range(Span(f.seq, f.len)) <=> Holds(first, f, x)
    BY <1>1, SpanHolds
  <2>2. Holds(first, f, x) => Offset(first, x) < count
    <3>1. /\ Offset(first, x) \in Nat /\ EndAt(first, f) \in Nat /\ count \in Int
          /\ Offset(first, f.seq) \in Nat
      BY OffsetsAre
    <3> QED
      BY <3>1 DEF Holds
  <2>3. x \in have <=> Offset(first, x) < count \/ Covers(first, list, x)
    BY DEF Placed
  <2> QED
    BY <2>1, <2>2, <2>3
<1> QED
  BY <1>1 DEF Placed

\* a segment in order moves the end of what was handed over to its own,
LEMMA PlacedTakes ==
    ASSUME NEW first \in Int, NEW count \in SeqNum, NEW list, NEW have, NEW got,
           Placed(first, count, list, have, got),
           NEW f, Fits(first, f), Offset(first, f.seq) <= count, count <= EndAt(first, f),
           NEW all, Len(all) = EndAt(first, f)
    PROVE  Placed(first, EndAt(first, f), list, have \cup Range(Span(f.seq, f.len)), all)
<1>1. ASSUME NEW x \in SeqNum
      PROVE  x \in have \cup Range(Span(f.seq, f.len))
                <=> Offset(first, x) < EndAt(first, f) \/ Covers(first, list, x)
  <2>1. x \in Range(Span(f.seq, f.len)) <=> Holds(first, f, x)
    BY <1>1, SpanHolds
  <2>2. Holds(first, f, x) \/ Offset(first, x) < count <=> Offset(first, x) < EndAt(first, f)
    <3>1. /\ Offset(first, x) \in Nat /\ EndAt(first, f) \in Nat /\ count \in Int
          /\ Offset(first, f.seq) \in Nat
      BY OffsetsAre
    <3> QED
      BY <3>1 DEF Holds
  <2>3. x \in have <=> Offset(first, x) < count \/ Covers(first, list, x)
    BY DEF Placed
  <2> QED
    BY <2>1, <2>2, <2>3
<1>2. 2 * EndAt(first, f) < SeqSpace
  BY FitsIs
<1> QED
  BY <1>1, <1>2 DEF Placed

\* What is where once f is inserted behind k fragments.
LEMMA InsertIs ==
    ASSUME NEW list \in Seq(Skbuff), NEW k \in 0 .. Len(list), NEW f \in Skbuff
    PROVE  LET new == SubSeq(list, 1, k) \o <<f>> \o SubSeq(list, k + 1, Len(list))
           IN  /\ new \in Seq(Skbuff) /\ Len(new) = Len(list) + 1
               /\ DOMAIN new = 1 .. Len(list) + 1
               /\ new[k + 1] = f
               /\ \A i \in 1 .. k : new[i] = list[i]
               /\ \A i \in k + 1 .. Len(list) : new[i + 1] = list[i]
<1> DEFINE left  == SubSeq(list, 1, k)
           right == SubSeq(list, k + 1, Len(list))
           front == left \o <<f>>
           new   == front \o right
           n     == Len(list)
<1>0. n \in Nat /\ k \in Nat /\ k <= n
  OBVIOUS
<1>1. /\ left \in Seq(Skbuff) /\ Len(left) = k
      /\ \A i \in 1 .. k : left[i] = list[i]
  BY <1>0, SubSeqProperties
<1>2. /\ right \in Seq(Skbuff) /\ Len(right) = n - k
      /\ \A i \in 1 .. n - k : right[i] = list[k + i]
  BY <1>0, SubSeqProperties
<1>3. <<f>> \in Seq(Skbuff) /\ Len(<<f>>) = 1 /\ <<f>>[1] = f
  OBVIOUS
<1> HIDE DEF left, right
<1>4. /\ front \in Seq(Skbuff) /\ Len(front) = k + 1
      /\ front[k + 1] = f /\ \A i \in 1 .. k : front[i] = list[i]
  BY <1>0, <1>1, <1>3, ConcatProperties
<1> HIDE DEF front
<1>5. /\ new \in Seq(Skbuff) /\ Len(new) = n + 1
      /\ \A i \in 1 .. k + 1 : new[i] = front[i]
      /\ \A i \in 1 .. n - k : new[(k + 1) + i] = right[i]
  <2>1. /\ new \in Seq(Skbuff) /\ Len(new) = Len(front) + Len(right)
        /\ \A i \in 1 .. Len(front) + Len(right) :
              new[i] = IF i <= Len(front) THEN front[i] ELSE right[i - Len(front)]
    BY <1>2, <1>4, ConcatProperties
  <2>2. Len(new) = n + 1
    BY <1>0, <1>2, <1>4, <2>1
  <2> HIDE DEF new
  <2>3. ASSUME NEW i \in 1 .. n - k
        PROVE  new[(k + 1) + i] = right[i]
    <3>1. (k + 1) + i \in 1 .. Len(front) + Len(right) /\ ~((k + 1) + i <= k + 1) /\ ((k + 1) + i) - (k + 1) = i
      BY <1>0, <1>2, <1>4
    <3> QED
      BY <1>4, <2>1, <3>1
  <2>4. ASSUME NEW i \in 1 .. k + 1
        PROVE  new[i] = front[i]
    <3>1. i \in 1 .. Len(front) + Len(right) /\ i <= Len(front)
      BY <1>0, <1>2, <1>4
    <3> QED
      BY <2>1, <3>1
  <2> QED
    BY <2>1, <2>2, <2>3, <2>4
<1> HIDE DEF new
<1>6. ASSUME NEW i \in k + 1 .. n
      PROVE  new[i + 1] = list[i]
  <2> DEFINE j == i - k
  <2>1. j \in 1 .. n - k /\ (k + 1) + j = i + 1 /\ k + j = i
    BY <1>0
  <2> HIDE DEF j
  <2>2. new[(k + 1) + j] = right[j] /\ right[j] = list[k + j]
    BY <1>2, <1>5, <2>1
  <2> QED
    BY <2>1, <2>2
<1>7. /\ \A i \in 1 .. k : new[i] = list[i]
      /\ new[k + 1] = f
  BY <1>0, <1>4, <1>5
<1>8. DOMAIN new = 1 .. Len(list) + 1
  BY <1>5 DEF n
<1> QED
  BY <1>5, <1>6, <1>7, <1>8 DEF new, front, left, right, n

\* a segment ahead joins those that wait,
LEMMA PlacedHolds ==
    ASSUME NEW first \in Int, NEW count \in SeqNum, NEW list \in Seq(Skbuff), NEW have, NEW got,
           Placed(first, count, list, have, got), Ahead(first, count, list),
           NEW f \in Skbuff, Fits(first, f), count < Offset(first, f.seq),
           NEW k \in 0 .. Len(list), InsertionPoint(list, k, f.seq)
    PROVE  LET new == SubSeq(list, 1, k) \o <<f>> \o SubSeq(list, k + 1, Len(list))
           IN  /\ Placed(first, count, new, have \cup Range(Span(f.seq, f.len)), got)
               /\ Ahead(first, count, new)
<1> DEFINE new == SubSeq(list, 1, k) \o <<f>> \o SubSeq(list, k + 1, Len(list))
           n   == Len(list)
           At(i) == Offset(first, list[i].seq)
           o   == Offset(first, f.seq)
<1>1. /\ DOMAIN new = 1 .. n + 1 /\ new[k + 1] = f
      /\ \A i \in 1 .. k : new[i] = list[i]
      /\ \A i \in k + 1 .. n : new[i + 1] = list[i]
      /\ new # <<>>
  <2>1. /\ new \in Seq(Skbuff) /\ Len(new) = n + 1 /\ DOMAIN new = 1 .. n + 1
        /\ new[k + 1] = f
        /\ \A i \in 1 .. k : new[i] = list[i]
        /\ \A i \in k + 1 .. n : new[i + 1] = list[i]
    BY InsertIs
  <2> HIDE DEF new
  <2>2. n + 1 # 0
    OBVIOUS
  <2> QED
    BY <2>1, <2>2
<1>0. n \in Nat /\ k \in Nat /\ k <= n /\ DOMAIN list = 1 .. n
  OBVIOUS
<1> HIDE DEF new
<1>2. /\ \A i \in 1 .. n : Fits(first, list[i]) /\ At(i) \in Nat /\ 2 * At(i) < SeqSpace
      /\ o \in Nat /\ 2 * o < SeqSpace /\ f.seq \in Int
      /\ \A i \in 1 .. n : list[i].seq \in Int
  BY <1>0, FitsIs DEF Placed, AllFit
<1> HIDE DEF n
<1>3. \A i \in 1 .. k : At(i) <= o
  <2> TAKE i \in 1 .. k
  <2>1. i \in 1 .. n /\ ~After(list[i].seq, f.seq)
    BY <1>0 DEF InsertionPoint
  <2>2. ~(At(i) > o)
    BY <1>2, <2>1, AfterIsBeyond
  <2> HIDE DEF At, o
  <2> QED
    BY <1>2, <2>1, <2>2
<1>4. \A i \in k + 1 .. n : o < At(i)
  <2> TAKE i \in k + 1 .. n
  <2>1. k < n /\ k + 1 \in 1 .. n /\ i \in 1 .. n
    BY <1>0
  <2>2. After(list[k + 1].seq, f.seq)
    BY <2>1 DEF InsertionPoint, n
  <2>3. At(k + 1) > o
    BY <1>2, <2>1, <2>2, AfterIsBeyond
  <2>4. At(k + 1) <= At(i)
    <3>1. CASE i = k + 1
      BY <3>1, <1>2, <2>1
    <3>2. CASE k + 1 < i
      BY <3>2, <2>1, <1>0 DEF Placed, Sorted
    <3> QED
      BY <2>1, <1>0, <3>1, <3>2
  <2> HIDE DEF At, o
  <2> QED
    BY <1>0, <1>2, <2>1, <2>3, <2>4
<1>5. AllFit(first, new)
  <2> SUFFICES ASSUME NEW i \in 1 .. n + 1 PROVE Fits(first, new[i])
    BY <1>1 DEF AllFit
  <2>1. CASE i <= k
    BY <2>1, <1>0, <1>1, <1>2
  <2>2. CASE i = k + 1
    BY <2>2, <1>1
  <2>3. CASE i > k + 1
    <3>1. i - 1 \in k + 1 .. n /\ i - 1 \in 1 .. n /\ (i - 1) + 1 = i
      BY <2>3, <1>0
    <3>2. new[i] = list[i - 1]
      BY <1>1, <3>1
    <3> QED
      BY <3>1, <3>2, <1>2
  <2> QED
    BY <1>0, <2>1, <2>2, <2>3
<1>6. Sorted(first, new)
  <2> DEFINE New(i) == Offset(first, new[i].seq)
  <2> SUFFICES ASSUME NEW i \in 1 .. n + 1, NEW j \in 1 .. n + 1, i < j
               PROVE  New(i) <= New(j)
    BY <1>1 DEF Sorted
  <2>0. \A p, q \in 1 .. n : p < q => At(p) <= At(q)
    BY <1>0 DEF Placed, Sorted
  <2>1. \A p \in 1 .. k : New(p) = At(p)
    BY <1>1
  <2>2. New(k + 1) = o
    BY <1>1
  <2>3. \A p \in k + 2 .. n + 1 : New(p) = At(p - 1)
    <3> TAKE p \in k + 2 .. n + 1
    <3>1. p - 1 \in k + 1 .. n /\ (p - 1) + 1 = p
      BY <1>0
    <3> QED
      BY <1>1, <3>1
  <2>4. \A p \in 1 .. n : At(p) \in Nat
    BY <1>2
  <2> HIDE DEF New, At, o
  <2>5. CASE i <= k
    <3>1. i \in 1 .. k /\ i \in 1 .. n
      BY <2>5, <1>0
    <3>2. CASE j <= k
      <4>1. j \in 1 .. k /\ j \in 1 .. n
        BY <3>2, <1>0
      <4> QED
        BY <3>1, <4>1, <2>0, <2>1
    <3>3. CASE j = k + 1
      BY <3>1, <3>3, <1>3, <2>1, <2>2
    <3>4. CASE j > k + 1
      <4>1. j \in k + 2 .. n + 1 /\ j - 1 \in 1 .. n /\ i < j - 1
        BY <3>4, <3>1, <1>0
      <4> QED
        BY <3>1, <4>1, <2>0, <2>1, <2>3
    <3> QED
      BY <1>0, <3>2, <3>3, <3>4
  <2>6. CASE i = k + 1
    <3>1. j \in k + 2 .. n + 1 /\ j - 1 \in k + 1 .. n /\ j - 1 \in 1 .. n
      BY <2>6, <1>0
    <3>2. o < At(j - 1) /\ At(j - 1) \in Nat
      BY <3>1, <1>4, <2>4
    <3> QED
      BY <3>1, <3>2, <2>2, <2>3, <2>6, <1>2 
  <2>7. CASE i > k + 1
    <3>1. /\ i \in k + 2 .. n + 1 /\ j \in k + 2 .. n + 1
          /\ i - 1 \in 1 .. n /\ j - 1 \in 1 .. n /\ i - 1 < j - 1
      BY <2>7, <1>0
    <3> QED
      BY <3>1, <2>0, <2>3
  <2> QED
    BY <1>0, <2>5, <2>6, <2>7
<1>7. ASSUME NEW x
      PROVE  Covers(first, new, x) <=> Covers(first, list, x) \/ Holds(first, f, x)
  <2>1. ASSUME NEW i \in 1 .. n + 1, Holds(first, new[i], x)
        PROVE  Covers(first, list, x) \/ Holds(first, f, x)
    <3>1. CASE i <= k
      <4>1. i \in 1 .. k /\ i \in 1 .. n
        BY <3>1, <1>0
      <4> QED
        BY <4>1, <2>1, <1>0, <1>1 DEF Covers
    <3>2. CASE i = k + 1
      BY <3>2, <2>1, <1>1
    <3>3. CASE i > k + 1
      <4>1. i - 1 \in k + 1 .. n /\ (i - 1) + 1 = i /\ i - 1 \in 1 .. n
        BY <3>3, <1>0
      <4>2. new[i] = list[i - 1]
        BY <1>1, <4>1
      <4> QED
        BY <4>1, <4>2, <2>1, <1>0 DEF Covers
    <3> QED
      BY <1>0, <3>1, <3>2, <3>3
  <2>2. ASSUME NEW i \in 1 .. n, Holds(first, list[i], x)
        PROVE  \E j \in 1 .. n + 1 : Holds(first, new[j], x)
    <3>1. CASE i <= k
      <4>1. i \in 1 .. k /\ i \in 1 .. n + 1
        BY <3>1, <1>0
      <4> QED
        BY <4>1, <2>2, <1>1
    <3>2. CASE i > k
      <4>1. i \in k + 1 .. n /\ i + 1 \in 1 .. n + 1
        BY <3>2, <1>0
      <4>2. new[i + 1] = list[i]
        BY <1>1, <4>1
      <4> QED
        BY <4>1, <4>2, <2>2
    <3> QED
      BY <1>0, <3>1, <3>2
  <2>3. k + 1 \in 1 .. n + 1
    BY <1>0
  <2>4. Covers(first, list, x) <=> \E i \in 1 .. n : Holds(first, list[i], x)
    BY <1>0 DEF Covers
  <2>5. Covers(first, new, x) <=> \E i \in 1 .. n + 1 : Holds(first, new[i], x)
    BY <1>1 DEF Covers
  <2>6. Holds(first, f, x) => Covers(first, new, x)
    BY <2>3, <2>5, <1>1
  <2>7. Covers(first, list, x) => Covers(first, new, x)
    BY <2>2, <2>4, <2>5
  <2>8. Covers(first, new, x) => Covers(first, list, x) \/ Holds(first, f, x)
    BY <2>1, <2>5
  <2> QED
    BY <2>6, <2>7, <2>8
<1>8. ASSUME NEW x \in SeqNum
      PROVE  x \in have \cup Range(Span(f.seq, f.len))
                <=> Offset(first, x) < count \/ Covers(first, new, x)
  <2>1. x \in Range(Span(f.seq, f.len)) <=> Holds(first, f, x)
    BY <1>8, SpanHolds
  <2>2. x \in have <=> Offset(first, x) < count \/ Covers(first, list, x)
    BY DEF Placed
  <2> QED
    BY <1>7, <2>1, <2>2
<1>9. Ahead(first, count, new)
  <2>1. CASE k = 0
    BY <2>1, <1>1 DEF Ahead
  <2>2. CASE k > 0
    <3>1. 1 \in 1 .. k /\ list # <<>>
      BY <2>2, <1>0 DEF n
    <3> QED
      BY <3>1, <1>1 DEF Ahead
  <2> QED
    BY <1>0, <2>1, <2>2
<1>10. Placed(first, count, new, have \cup Range(Span(f.seq, f.len)), got)
  BY <1>5, <1>6, <1>8 DEF Placed
<1> QED
  BY <1>9, <1>10 DEF new

\* The first fragment and the rest hold what the list does.
LEMMA CoversTail ==
    ASSUME NEW list \in Seq(Skbuff), list # <<>>, NEW first
    PROVE  /\ AllFit(first, list) => AllFit(first, Tail(list)) /\ Fits(first, Head(list))
           /\ Sorted(first, list) => Sorted(first, Tail(list))
           /\ \A x : Covers(first, list, x) <=> Holds(first, Head(list), x)
                                                  \/ Covers(first, Tail(list), x)
<1> DEFINE n == Len(list)
           rest == Tail(list)
           head == Head(list)
<1>1. /\ n \in Nat /\ n > 0 /\ DOMAIN list = 1 .. n /\ DOMAIN rest = 1 .. n - 1
      /\ head = list[1] /\ \A i \in 1 .. n - 1 : rest[i] = list[i + 1]
  <2>1. /\ Head(list) = list[1] /\ Len(Tail(list)) = Len(list) - 1 /\ Tail(list) \in Seq(Skbuff)
        /\ \A i \in 1 .. Len(Tail(list)) : Tail(list)[i] = list[i + 1]
        /\ Len(list) \in Nat /\ Len(list) # 0
    BY HeadTailProperties
  <2>2. DOMAIN Tail(list) = 1 .. Len(Tail(list)) /\ DOMAIN list = 1 .. Len(list)
    BY <2>1
  <2> QED
    BY <2>1, <2>2
<1> HIDE DEF n, rest, head
<1>2. \A i \in 1 .. n - 1 : i + 1 \in 1 .. n
  BY <1>1
<1>3. 1 \in 1 .. n
  BY <1>1
<1>4. ASSUME AllFit(first, list)
      PROVE  AllFit(first, rest) /\ Fits(first, head)
  BY <1>1, <1>2, <1>3, <1>4 DEF AllFit
<1>5. ASSUME Sorted(first, list)
      PROVE  Sorted(first, rest)
  <2> SUFFICES ASSUME NEW i \in 1 .. n - 1, NEW j \in 1 .. n - 1, i < j
               PROVE  Offset(first, rest[i].seq) <= Offset(first, rest[j].seq)
    BY <1>1 DEF Sorted
  <2>1. i + 1 \in 1 .. n /\ j + 1 \in 1 .. n /\ i + 1 < j + 1
    BY <1>1
  <2>2. Offset(first, list[i + 1].seq) <= Offset(first, list[j + 1].seq)
    BY <1>1, <1>5, <2>1 DEF Sorted
  <2> QED
    BY <1>1, <2>2
<1>6. ASSUME NEW x
      PROVE  Covers(first, list, x) <=> Holds(first, head, x) \/ Covers(first, rest, x)
  <2>1. ASSUME NEW i \in 1 .. n, Holds(first, list[i], x)
        PROVE  Holds(first, head, x) \/ Covers(first, rest, x)
    <3>1. CASE i = 1
      BY <2>1, <3>1, <1>1
    <3>2. CASE i > 1
      <4>1. i - 1 \in 1 .. n - 1 /\ (i - 1) + 1 = i
        BY <3>2, <1>1
      <4>2. rest[i - 1] = list[i]
        BY <1>1, <4>1
      <4> QED
        BY <1>1, <4>1, <4>2, <2>1 DEF Covers
    <3> QED
      BY <1>1, <3>1, <3>2
  <2>2. ASSUME NEW i \in 1 .. n - 1, Holds(first, rest[i], x)
        PROVE  Covers(first, list, x)
    BY <1>1, <1>2, <2>2 DEF Covers
  <2>3. Holds(first, head, x) => Covers(first, list, x)
    BY <1>1, <1>3 DEF Covers
  <2>4. Covers(first, rest, x) => Covers(first, list, x)
    BY <2>2, <1>1 DEF Covers
  <2>5. Covers(first, list, x) => Holds(first, head, x) \/ Covers(first, rest, x)
    BY <2>1, <1>1 DEF Covers
  <2> QED
    BY <2>3, <2>4, <2>5
<1> QED
  BY <1>4, <1>5, <1>6 DEF rest, head

\* from where it is taken when what was handed over reaches it,
LEMMA PlacedDrains ==
    ASSUME NEW first \in Int, NEW count \in SeqNum, NEW list \in Seq(Skbuff), list # <<>>,
           NEW have, NEW got, Placed(first, count, list, have, got),
           Offset(first, Head(list).seq) <= count, count <= EndAt(first, Head(list)),
           NEW all, Len(all) = EndAt(first, Head(list))
    PROVE  Placed(first, EndAt(first, Head(list)), Tail(list), have, all)
<1> DEFINE f == Head(list)
<1>0. AllFit(first, list) /\ Sorted(first, list)
  BY DEF Placed
<1>1. Fits(first, f) /\ AllFit(first, Tail(list)) /\ Sorted(first, Tail(list))
  BY <1>0, CoversTail
<1>2. ASSUME NEW x \in SeqNum
      PROVE  x \in have <=> Offset(first, x) < EndAt(first, f) \/ Covers(first, Tail(list), x)
  <2>1. x \in have <=> Offset(first, x) < count \/ Covers(first, list, x)
    BY DEF Placed
  <2>2. Covers(first, list, x) <=> Holds(first, f, x) \/ Covers(first, Tail(list), x)
    BY CoversTail
  <2>3. Holds(first, f, x) \/ Offset(first, x) < count <=> Offset(first, x) < EndAt(first, f)
    <3>1. /\ Offset(first, x) \in Nat /\ EndAt(first, f) \in Nat /\ count \in Int
          /\ Offset(first, f.seq) \in Nat
      BY <1>1, OffsetsAre
    <3> QED
      BY <3>1 DEF Holds
  <2> QED
    BY <2>1, <2>2, <2>3
<1>3. 2 * EndAt(first, f) < SeqSpace
  BY <1>1, FitsIs
<1> QED
  BY <1>1, <1>2, <1>3 DEF Placed

\* or dropped when it brings nothing.
LEMMA PlacedDrops ==
    ASSUME NEW first \in Int, NEW count \in SeqNum, NEW list \in Seq(Skbuff), list # <<>>,
           NEW have, NEW got, Placed(first, count, list, have, got),
           EndAt(first, Head(list)) <= count
    PROVE  Placed(first, count, Tail(list), have, got)
<1> DEFINE f == Head(list)
<1>0. AllFit(first, list) /\ Sorted(first, list)
  BY DEF Placed
<1>1. Fits(first, f) /\ AllFit(first, Tail(list)) /\ Sorted(first, Tail(list))
  BY <1>0, CoversTail
<1>2. ASSUME NEW x \in SeqNum
      PROVE  x \in have <=> Offset(first, x) < count \/ Covers(first, Tail(list), x)
  <2>1. x \in have <=> Offset(first, x) < count \/ Covers(first, list, x)
    BY DEF Placed
  <2>2. Covers(first, list, x) <=> Holds(first, f, x) \/ Covers(first, Tail(list), x)
    BY CoversTail
  <2>3. Holds(first, f, x) => Offset(first, x) < count
    <3>1. /\ Offset(first, x) \in Nat /\ EndAt(first, f) \in Nat /\ count \in Int
          /\ Offset(first, f.seq) \in Nat
      BY <1>1, OffsetsAre
    <3> QED
      BY <3>1 DEF Holds
  <2> QED
    BY <2>1, <2>2, <2>3
<1> QED
  BY <1>1, <1>2 DEF Placed

----------------------------------------------------------------------------
(***************************************************************************)
(* What the segments of a direction may be, and what its FINs say.         *)
(***************************************************************************)
\* The tuple4 that side d of stream s sends with.
AddrOf(s, d) == IF d = "client" THEN s.addr ELSE Reversed(s.addr)

\* A SYN of that side gave the direction its first number.
Opened(s, d) ==
    \E syn \in Packets : /\ syn.syn /\ syn.addr = AddrOf(s, d)
                         /\ s.half[d].first_data_seq = (syn.seq + 1) % SeqSpace

\* f is a segment that was captured on its way from addr.
IsSegment(addr, f) ==
    \E p \in Packets : /\ ~p.syn /\ p.len + p.fin > 0 /\ p.addr = addr
                       /\ f.seq = p.seq /\ f.len = p.len /\ f.fin = p.fin

\* The segments from addr are those of a short direction,
AllShort(first, addr) == \A f : IsSegment(addr, f) => Fits(first, f)

\* and none ends behind one with a FIN.
FinsLast(first, addr) ==
    \A f : \A q : IsSegment(addr, f) /\ IsSegment(addr, q) /\ q.fin = 1
                     => EndAt(first, f) <= EndAt(first, q)

\* Of the direction a SYN has opened it is known how far its segments reach.
LEMMA OpenedShort ==
    ASSUME ShortDirections, NEW s, NEW d, Opened(s, d)
    PROVE  /\ AllShort(s.half[d].first_data_seq, AddrOf(s, d))
           /\ NothingBehindFin => FinsLast(s.half[d].first_data_seq, AddrOf(s, d))
<1> DEFINE first == s.half[d].first_data_seq
           addr  == AddrOf(s, d)
<1>1. PICK syn \in Packets : syn.syn /\ syn.addr = addr /\ first = (syn.seq + 1) % SeqSpace
  BY DEF Opened
<1> DEFINE one == syn.seq + 1
<1>2. syn.seq \in Int /\ one \in Int /\ one % SeqSpace = first
  <2>1. syn \in Packet
    BY <1>1, TcpAssumption
  <2>2. syn.seq \in Int
    BY <2>1, SeqSpaceAssumption DEF Packet, SeqNum
  <2> QED
    BY <2>2, <1>1
<1> HIDE DEF first, addr, one
<1>3. ASSUME NEW f, IsSegment(addr, f)
      PROVE  \E p \in SegmentsOf(syn) : /\ f.seq = p.seq /\ f.len = p.len /\ f.fin = p.fin
                                        /\ p \in Packet
                                        /\ Offset(one, p.seq) = Offset(first, f.seq)
  <2>1. PICK p \in Packets : /\ ~p.syn /\ p.len + p.fin > 0 /\ p.addr = addr
                             /\ f.seq = p.seq /\ f.len = p.len /\ f.fin = p.fin
    BY <1>3 DEF IsSegment
  <2>2. p \in SegmentsOf(syn) /\ p \in Packet
    BY <2>1, <1>1, TcpAssumption DEF SegmentsOf
  <2>3. p.seq \in Int
    BY <2>2, SeqSpaceAssumption DEF Packet, SeqNum
  <2>4. Offset(one, p.seq) = Offset(first, p.seq)
    BY <1>2, <2>3, OffsetFromRest
  <2> QED
    BY <2>1, <2>2, <2>4
<1>4. AllShort(first, addr)
  <2> SUFFICES ASSUME NEW f, IsSegment(addr, f) PROVE Fits(first, f)
    BY DEF AllShort
  <2>1. PICK p \in SegmentsOf(syn) : /\ f.seq = p.seq /\ f.len = p.len /\ f.fin = p.fin
                                     /\ p \in Packet
                                     /\ Offset(one, p.seq) = Offset(first, f.seq)
    BY <1>3
  <2>2. 2 * (Offset(one, p.seq) + p.len + p.fin) < SeqSpace
    BY <1>1 DEF ShortDirections, EndOf, one
  <2> QED
    BY <2>1, <2>2 DEF Fits, Packet
<1>5. ASSUME NothingBehindFin
      PROVE  FinsLast(first, addr)
  <2> SUFFICES ASSUME NEW f, NEW q, IsSegment(addr, f), IsSegment(addr, q), q.fin = 1
               PROVE  EndAt(first, f) <= EndAt(first, q)
    BY DEF FinsLast
  <2>1. PICK p \in SegmentsOf(syn) : /\ f.seq = p.seq /\ f.len = p.len /\ f.fin = p.fin
                                     /\ p \in Packet
                                     /\ Offset(one, p.seq) = Offset(first, f.seq)
    BY <1>3
  <2>2. PICK e \in SegmentsOf(syn) : /\ q.seq = e.seq /\ q.len = e.len /\ q.fin = e.fin
                                     /\ e \in Packet
                                     /\ Offset(one, e.seq) = Offset(first, q.seq)
    BY <1>3
  <2>3. Offset(one, p.seq) + p.len <= Offset(one, e.seq) + e.len
    BY <1>1, <1>5, <2>1, <2>2 DEF NothingBehindFin, EndOf, one
  <2> QED
    BY <2>1, <2>2, <2>3 DEF EndAt
<1> QED
  BY <1>4, <1>5 DEF first, addr

\* A half whose FIN was taken in order.
FinDone(state) == state \in {"FIN_SENT", "FIN_CONFIRMED"}

\* A segment's FIN is noted.
Noted(f, fins) == f.fin = 1 => (f.seq + f.len) % SeqSpace \in fins

\* The FINs of a direction: those of the fragments it holds are noted, each
\* comes from a segment, and the direction is complete up to one once the half
\* that sends has passed one.
FinsPlaced(first, addr, count, list, fins, state) ==
    /\ \A i \in DOMAIN list : IsSegment(addr, list[i]) /\ Noted(list[i], fins)
    /\ \A x \in fins : \E q \in Packets : /\ IsSegment(addr, q) /\ q.fin = 1
                                          /\ x = (q.seq + q.len) % SeqSpace
    /\ FinDone(state) => (first + count) % SeqSpace \in fins

\* The FIN of a segment is noted when it is given to tcpQueue,
LEMMA FinsGiven ==
    ASSUME NEW first, NEW addr, NEW count, NEW list, NEW fins, NEW state,
           FinsPlaced(first, addr, count, list, fins, state),
           NEW p \in Packets, IsSegment(addr, p), NEW new,
           new = IF p.fin = 1 THEN fins \cup {(p.seq + p.len) % SeqSpace} ELSE fins
    PROVE  FinsPlaced(first, addr, count, list, new, state) /\ Noted(p, new)
<1>1. fins \subseteq new
  OBVIOUS
<1>2. \A x \in new : \E q \in Packets : /\ IsSegment(addr, q) /\ q.fin = 1
                                        /\ x = (q.seq + q.len) % SeqSpace
  BY DEF FinsPlaced
<1>3. Noted(p, new)
  BY DEF Noted
<1>4. \A i \in DOMAIN list : IsSegment(addr, list[i]) /\ Noted(list[i], new)
  BY <1>1 DEF FinsPlaced, Noted
<1> QED
  BY <1>1, <1>2, <1>3, <1>4 DEF FinsPlaced

\* kept while the list and the end stay,
LEMMA FinsSame ==
    ASSUME NEW first, NEW addr, NEW count, NEW list, NEW fins, NEW state,
           FinsPlaced(first, addr, count, list, fins, state),
           NEW next, FinDone(next) => FinDone(state)
    PROVE  FinsPlaced(first, addr, count, list, fins, next)
BY DEF FinsPlaced

\* The number at the end of a segment is at its end.
LEMMA EndIs ==
    ASSUME NEW first \in Int, NEW f, Fits(first, f)
    PROVE  /\ Offset(first, (f.seq + f.len) % SeqSpace) = EndAt(first, f)
           /\ (first + EndAt(first, f)) % SeqSpace = (f.seq + f.len) % SeqSpace
<1> DEFINE x == f.seq + f.len
<1>1. /\ f.seq \in Int /\ f.len \in Nat /\ x \in Int /\ SeqSpace \in Nat
      /\ Offset(first, f.seq) \in Nat
      /\ EndAt(first, f) = Offset(first, f.seq) + f.len
      /\ EndAt(first, f) \in Nat /\ 2 * EndAt(first, f) < SeqSpace
  BY FitsIs, SeqSpaceAssumption
<1>2. Offset(first, f.seq) + f.len < SeqSpace
  BY <1>1
<1>3. Offset(first, x) = EndAt(first, f)
  BY <1>1, <1>2, OffsetAdds
<1> HIDE DEF x
<1>4. Offset(first, x % SeqSpace) = EndAt(first, f)
  BY <1>1, <1>3, OffsetOfRest
<1>5. (first + Offset(first, x % SeqSpace)) % SeqSpace = x % SeqSpace
  BY <1>1, ModType, SumOfOffset
<1> QED
  BY <1>4, <1>5 DEF x

\* and when the end moves it stays at a FIN, or comes to one.
LEMMA FinsTaken ==
    ASSUME NEW first \in Int, NEW addr, NEW count \in SeqNum, NEW list, NEW fins, NEW state,
           FinsPlaced(first, addr, count, list, fins, state),
           AllShort(first, addr), FinsLast(first, addr),
           NEW f, IsSegment(addr, f), Noted(f, fins),
           count <= EndAt(first, f),
           NEW next, FinDone(next) => FinDone(state) \/ f.fin = 1
    PROVE  FinsPlaced(first, addr, EndAt(first, f), list, fins, next)
<1>1. Fits(first, f)
  BY DEF AllShort
<1>2. ASSUME FinDone(next)
      PROVE  (first + EndAt(first, f)) % SeqSpace \in fins
  <2>1. CASE f.fin = 1
    BY <2>1, <1>1, EndIs DEF Noted
  <2>2. CASE FinDone(state)
    <3> DEFINE x == (first + count) % SeqSpace
    <3>1. x \in fins
      BY <2>2 DEF FinsPlaced
    <3>2. PICK q \in Packets : /\ IsSegment(addr, q) /\ q.fin = 1
                               /\ x = (q.seq + q.len) % SeqSpace
      BY <3>1 DEF FinsPlaced
    <3>3. Offset(first, x) = count
      BY OffsetOfSum
    <3>4. Fits(first, q)
      BY <3>2 DEF AllShort
    <3>5. Offset(first, (q.seq + q.len) % SeqSpace) = EndAt(first, q)
      BY <3>4, EndIs
    <3>6. EndAt(first, f) <= EndAt(first, q)
      BY <3>2 DEF FinsLast
    <3>7. EndAt(first, q) = count
      BY <3>2, <3>3, <3>5
    <3>8. EndAt(first, f) \in Nat /\ EndAt(first, q) \in Nat
      BY <1>1, <3>4, FitsIs
    <3>9. EndAt(first, f) = count
      BY <3>6, <3>7, <3>8
    <3> QED
      BY <3>1, <3>9
  <2> QED
    BY <1>2, <2>1, <2>2
<1> QED
  BY <1>2 DEF FinsPlaced

\* A fragment that waits brings its FIN along.
LEMMA FinsHeld ==
    ASSUME NEW first, NEW addr, NEW count, NEW list \in Seq(Skbuff), NEW fins, NEW state,
           FinsPlaced(first, addr, count, list, fins, state),
           NEW f \in Skbuff, IsSegment(addr, f), Noted(f, fins),
           NEW k \in 0 .. Len(list)
    PROVE  LET new == SubSeq(list, 1, k) \o <<f>> \o SubSeq(list, k + 1, Len(list))
           IN  FinsPlaced(first, addr, count, new, fins, state)
<1> DEFINE new == SubSeq(list, 1, k) \o <<f>> \o SubSeq(list, k + 1, Len(list))
           n   == Len(list)
           Good(g) == IsSegment(addr, g) /\ Noted(g, fins)
<1>1. /\ DOMAIN new = 1 .. n + 1 /\ new[k + 1] = f
      /\ \A i \in 1 .. k : new[i] = list[i]
      /\ \A i \in k + 1 .. n : new[i + 1] = list[i]
  BY InsertIs
<1>2. n \in Nat /\ k \in Nat /\ k <= n /\ DOMAIN list = 1 .. n
  OBVIOUS
<1>3. \A i \in 1 .. n : Good(list[i])
  BY <1>2 DEF FinsPlaced
<1>4. Good(f)
  OBVIOUS
<1> HIDE DEF new, n, Good
<1>5. ASSUME NEW i \in 1 .. n + 1
      PROVE  Good(new[i])
  <2>1. CASE i <= k
    BY <2>1, <1>1, <1>2, <1>3
  <2>2. CASE i = k + 1
    BY <2>2, <1>1, <1>4
  <2>3. CASE i > k + 1
    <3> DEFINE j == i - 1
    <3>1. j \in k + 1 .. n /\ j \in 1 .. n /\ j + 1 = i
      BY <2>3, <1>2
    <3> HIDE DEF j
    <3>2. new[j + 1] = list[j]
      BY <1>1, <3>1
    <3> QED
      BY <3>1, <3>2, <1>3
  <2> QED
    BY <1>2, <2>1, <2>2, <2>3
<1>6. \A i \in DOMAIN new : IsSegment(addr, new[i]) /\ Noted(new[i], fins)
  BY <1>1, <1>5 DEF Good
<1>7. FinsPlaced(first, addr, count, new, fins, state)
  BY <1>6 DEF FinsPlaced
<1> QED
  BY <1>7 DEF new

\* The rest of the list does, too.
LEMMA FinsTail ==
    ASSUME NEW first, NEW addr, NEW count, NEW list \in Seq(Skbuff), list # <<>>,
           NEW fins, NEW state,
           FinsPlaced(first, addr, count, list, fins, state)
    PROVE  /\ FinsPlaced(first, addr, count, Tail(list), fins, state)
           /\ IsSegment(addr, Head(list)) /\ Noted(Head(list), fins)
<1>1. /\ Head(list) = list[1] /\ 1 \in DOMAIN list
      /\ \A i \in 1 .. Len(Tail(list)) : Tail(list)[i] = list[i + 1] /\ i + 1 \in DOMAIN list
      /\ DOMAIN Tail(list) = 1 .. Len(Tail(list))
  <2>1. /\ Head(list) = list[1] /\ Len(Tail(list)) = Len(list) - 1 /\ Tail(list) \in Seq(Skbuff)
        /\ \A i \in 1 .. Len(Tail(list)) : Tail(list)[i] = list[i + 1]
        /\ Len(list) \in Nat /\ Len(list) # 0 /\ DOMAIN list = 1 .. Len(list)
    BY HeadTailProperties
  <2> DEFINE rest == Tail(list)
  <2>2. DOMAIN rest = 1 .. Len(rest) /\ Len(rest) = Len(list) - 1
    BY <2>1
  <2> HIDE DEF rest
  <2>3. \A i \in 1 .. Len(rest) : i + 1 \in DOMAIN list
    BY <2>1, <2>2
  <2> QED
    BY <2>1, <2>2, <2>3 DEF rest
<1>2. \A i \in DOMAIN Tail(list) : IsSegment(addr, Tail(list)[i]) /\ Noted(Tail(list)[i], fins)
  BY <1>1 DEF FinsPlaced
<1>3. IsSegment(addr, list[1]) /\ Noted(list[1], fins)
  BY <1>1 DEF FinsPlaced
<1> QED
  BY <1>1, <1>2, <1>3 DEF FinsPlaced

----------------------------------------------------------------------------
(***************************************************************************)
(* The comparisons of tcpQueue and addFromskb in terms of offsets.         *)
(***************************************************************************)
\* EXP_SEQ lies where the bytes handed over end.
LEMMA Compared ==
    ASSUME NEW first \in Int, NEW count \in SeqNum, 2 * count < SeqSpace,
           NEW f, Fits(first, f), NEW exp, exp = (first + count) % SeqSpace
    PROVE  /\ After(f.seq, exp) <=> Offset(first, f.seq) > count
           /\ EndsAfter(f, exp) <=> EndAt(first, f) + f.fin > count
           /\ count <= EndAt(first, f) =>
                 /\ (f.len - (exp - f.seq)) % SeqSpace = EndAt(first, f) - count
                 /\ (count + ((f.len - (exp - f.seq)) % SeqSpace)) % SeqSpace = EndAt(first, f)
<1> DEFINE end == f.seq + f.len
           all == f.seq + (f.len + f.fin)
           e   == EndAt(first, f)
<1>1. /\ count \in Int /\ SeqSpace \in Nat /\ count \in Nat /\ exp \in Int /\ exp \in SeqNum
      /\ count < SeqSpace
  BY ModType, SeqSpaceAssumption DEF SeqNum
<1>2. Offset(first, exp) = count
  BY OffsetOfSum
<1>3. /\ f.seq \in Int /\ f.len \in Nat /\ f.fin \in Nat /\ e \in Nat
      /\ Offset(first, f.seq) \in Nat /\ e = Offset(first, f.seq) + f.len
      /\ 2 * Offset(first, f.seq) < SeqSpace /\ 2 * (e + f.fin) < SeqSpace
      /\ 2 * e < SeqSpace /\ end \in Int /\ all \in Int
  BY FitsIs
<1>4. After(f.seq, exp) <=> Offset(first, f.seq) > count
  BY <1>1, <1>2, <1>3, AfterIsBeyond
<1>5. Offset(first, end) = e /\ Offset(first, all) = e + f.fin
  <2>1. Offset(first, f.seq) + f.len < SeqSpace /\ Offset(first, f.seq) + (f.len + f.fin) < SeqSpace
        /\ f.len + f.fin \in Nat
    BY <1>1, <1>3
  <2>2. Offset(first, end) = Offset(first, f.seq) + f.len
    BY <1>3, <2>1, OffsetAdds
  <2>3. Offset(first, all) = Offset(first, f.seq) + (f.len + f.fin)
    BY <1>3, <2>1, OffsetAdds
  <2> HIDE DEF end, all, e
  <2> QED
    BY <1>3, <2>2, <2>3
<1>6. f.seq + f.len + f.fin = all /\ f.len - (exp - f.seq) = end - exp
  BY <1>1, <1>3
<1> HIDE DEF end, all, e
<1>7. EndsAfter(f, exp) <=> e + f.fin > count
  <2>1. After(all, exp) <=> Offset(first, all) > Offset(first, exp)
    BY <1>1, <1>2, <1>3, <1>5, AfterIsBeyond
  <2> QED
    BY <1>2, <1>5, <1>6, <2>1 DEF EndsAfter
<1>8. ASSUME count <= e
      PROVE  /\ (end - exp) % SeqSpace = e - count
             /\ (count + ((end - exp) % SeqSpace)) % SeqSpace = e
  <2>1. (end - exp) % SeqSpace = (Offset(first, end) - Offset(first, exp)) % SeqSpace
    BY <1>1, <1>3, OffsetDiff
  <2>2. Offset(first, end) - Offset(first, exp) = e - count
    BY <1>2, <1>5, Zenon
  <2>3. (end - exp) % SeqSpace = (e - count) % SeqSpace
    BY <2>1, <2>2, Zenon
  <2>4. e - count \in SeqNum /\ e \in SeqNum /\ count + (e - count) = e
    BY <1>1, <1>3, <1>8 DEF SeqNum
  <2>5. (e - count) % SeqSpace = e - count /\ e % SeqSpace = e
    BY <2>4, ModSame, Zenon
  <2>6. (end - exp) % SeqSpace = e - count
    BY <2>3, <2>5, Zenon
  <2>7. (count + ((end - exp) % SeqSpace)) % SeqSpace = e
    <3> DEFINE m == (end - exp) % SeqSpace
    <3>1. m = e - count
      BY <2>6
    <3> HIDE DEF m
    <3>2. count + m = e
      BY <2>4, <3>1
    <3>3. (count + m) % SeqSpace = e
      BY <2>5, <3>2, Zenon
    <3> QED
      BY <3>3 DEF m
  <2> QED
    BY <2>6, <2>7
<1> QED
  BY <1>4, <1>6, <1>7, <1>8 DEF e

\* What addFromskb hands over of a segment in order reaches its end.
LEMMA TakenIs ==
    ASSUME NEW first \in Int, NEW count \in SeqNum, NEW list, NEW have, NEW got \in Seq(SeqNum),
           Placed(first, count, list, have, got),
           NEW f, Fits(first, f), count <= EndAt(first, f),
           NEW exp, exp = (first + count) % SeqSpace,
           NEW n, n = (f.len - (exp - f.seq)) % SeqSpace
    PROVE  /\ (count + n) % SeqSpace = EndAt(first, f)
           /\ Len(got \o Span(exp, n)) = EndAt(first, f)
<1> DEFINE e == EndAt(first, f)
           span == Span(exp, n)
<1>1. 2 * count < SeqSpace /\ Len(got) = count
  BY DEF Placed
<1>2. n = e - count /\ (count + n) % SeqSpace = e
  <2> DEFINE m == (f.len - (exp - f.seq)) % SeqSpace
  <2>1. count <= e => m = e - count /\ (count + m) % SeqSpace = e
    BY <1>1, Compared, Zenon
  <2>2. m = n /\ count <= e
    OBVIOUS
  <2> HIDE DEF m, e
  <2>3. m = e - count /\ (count + m) % SeqSpace = e
    BY <2>1, <2>2
  <2> QED
    BY <2>2, <2>3, Zenon
<1>3. count \in Int /\ e \in Nat /\ exp \in Int
  BY FitsIs, ModType, SeqSpaceAssumption DEF SeqNum
<1>4. n \in Nat /\ count + n = e
  BY <1>2, <1>3
<1>5. span \in Seq(SeqNum) /\ Len(span) = n
  BY <1>3, <1>4, SpanIs, SpanType
<1> HIDE DEF span, e
<1>6. Len(got \o span) = Len(got) + Len(span)
  BY <1>5, ConcatProperties
<1> QED
  BY <1>1, <1>2, <1>4, <1>5, <1>6 DEF span, e

----------------------------------------------------------------------------
(***************************************************************************)
(* The invariant of one side of a stream.                                  *)
(***************************************************************************)
\* Side d of stream s has what it was given, unless payload came too early; its
\* first fragment lies ahead, but while its list is drained.
SidePlaced(s, d, h, drained) ==
    LET first == s.half[d].first_data_seq
        rcv   == s.half[Other(d)]
    IN  /\ ~s.isconnnection /\ ~h.early => h.have = {} /\ h.fins = {}
        /\ s.isconnnection /\ ~h.early =>
              /\ Placed(first, rcv.count, rcv.fraglist, h.have, h.got)
              /\ drained \/ Ahead(first, rcv.count, rcv.fraglist)

\* So are its FINs.
SideFins(s, d, h) ==
    s.isconnnection /\ ~h.early =>
        FinsPlaced(s.half[d].first_data_seq, AddrOf(s, d), s.half[Other(d)].count,
                   s.half[Other(d)].fraglist, h.fins, s.half[d].state)

\* Stream t has the data of s for side d; it was connected at most now.
Keeps(s, t, d) ==
    /\ t.addr = s.addr
    /\ s.isconnnection => t.isconnnection
    /\ t.isconnnection => t.half[d].first_data_seq = s.half[d].first_data_seq
    /\ t.half[Other(d)].count = s.half[Other(d)].count
    /\ t.half[Other(d)].fraglist = s.half[Other(d)].fraglist

\* No FIN was taken.
FinKept(s, t, d) ==
    t.isconnnection /\ FinDone(t.half[d].state) => s.isconnnection /\ FinDone(s.half[d].state)

\* Nothing was recorded.
SameRecord(h, k) == k.have = h.have /\ k.fins = h.fins /\ k.got = h.got /\ k.early = h.early

\* A direction begins with nothing.
LEMMA NothingPlaced ==
    ASSUME NEW first \in Int
    PROVE  Placed(first, 0, <<>>, {}, <<>>)
<1>1. DOMAIN <<>> = {} /\ Len(<<>>) = 0
  OBVIOUS
<1>2. AllFit(first, <<>>) /\ Sorted(first, <<>>)
  BY <1>1 DEF AllFit, Sorted
<1>3. ASSUME NEW x \in SeqNum
      PROVE  x \in {} <=> Offset(first, x) < 0 \/ Covers(first, <<>>, x)
  <2>1. x \in Int
    BY SeqSpaceAssumption DEF SeqNum
  <2>2. Offset(first, x) \in Nat
    BY <2>1, OffsetType
  <2>3. ~(Offset(first, x) < 0)
    BY <2>2
  <2> QED
    BY <1>1, <2>3 DEF Covers
<1>4. 2 * 0 < SeqSpace
  BY SeqSpaceAssumption
<1> QED
  BY <1>1, <1>2, <1>3, <1>4 DEF Placed

\* The invariant stays while nothing happens to the data of the side.
LEMMA KeepsPlaced ==
    ASSUME NEW s \in TcpStream, NEW t \in TcpStream, NEW d \in Side,
           NEW h \in Record, NEW k \in Record, NEW drained \in BOOLEAN, NEW after \in BOOLEAN,
           InOrder(s, d, h), SidePlaced(s, d, h, drained), Keeps(s, t, d), SameRecord(h, k),
           drained => after
    PROVE  SidePlaced(t, d, k, after)
<1>0. s.isconnnection \in BOOLEAN /\ t.isconnnection \in BOOLEAN /\ h.early \in BOOLEAN
  BY DEF TcpStream, Record
<1>1. CASE ~t.isconnnection
  <2>1. ~s.isconnnection
    BY <1>1 DEF Keeps
  <2>2. ~k.early => k.have = {} /\ k.fins = {}
    BY <2>1 DEF SidePlaced, SameRecord
  <2> QED
    BY <1>1, <2>2 DEF SidePlaced
<1>2. CASE t.isconnnection /\ s.isconnnection
  <2> DEFINE first == s.half[d].first_data_seq
             rcv   == s.half[Other(d)]
  <2>1. /\ t.half[d].first_data_seq = first
        /\ t.half[Other(d)].count = rcv.count /\ t.half[Other(d)].fraglist = rcv.fraglist
    BY <1>2 DEF Keeps
  <2>2. ~k.early => /\ Placed(first, rcv.count, rcv.fraglist, k.have, k.got)
                    /\ drained \/ Ahead(first, rcv.count, rcv.fraglist)
    BY <1>2 DEF SidePlaced, SameRecord
  <2> HIDE DEF first, rcv
  <2> QED
    BY <1>2, <2>1, <2>2 DEF SidePlaced
<1>3. CASE t.isconnnection /\ ~s.isconnnection
  <2> DEFINE first == t.half[d].first_data_seq
             rcv   == t.half[Other(d)]
  <2> SUFFICES ASSUME ~k.early
               PROVE  /\ Placed(first, rcv.count, rcv.fraglist, k.have, k.got)
                      /\ Ahead(first, rcv.count, rcv.fraglist)
    BY <1>3 DEF SidePlaced
  <2>1. ~h.early /\ k.have = {} /\ k.got = <<>>
    BY <1>3 DEF SameRecord, SidePlaced, InOrder
  <2>2. rcv.count = 0 /\ rcv.fraglist = <<>>
    BY <1>3, <2>1 DEF InOrder, Keeps, SameRecord
  <2>3. first \in Int
    <3>1. t.half[d] \in HalfStream
      BY HalvesType
    <3> QED
      BY <3>1, SeqSpaceAssumption DEF HalfStream, SeqNum
  <2> HIDE DEF first, rcv
  <2> QED
    BY <2>1, <2>2, <2>3, NothingPlaced DEF Ahead
<1> QED
  BY <1>0, <1>1, <1>2, <1>3

\* The FINs stay where they are meanwhile.
LEMMA KeepsFins ==
    ASSUME NEW s \in TcpStream, NEW t \in TcpStream, NEW d \in Side,
           NEW h \in Record, NEW k \in Record, NEW drained,
           InOrder(s, d, h), SidePlaced(s, d, h, drained), SideFins(s, d, h),
           Keeps(s, t, d), FinKept(s, t, d), SameRecord(h, k)
    PROVE  SideFins(t, d, k)
<1> SUFFICES ASSUME t.isconnnection, ~k.early
             PROVE  FinsPlaced(t.half[d].first_data_seq, AddrOf(t, d), t.half[Other(d)].count,
                               t.half[Other(d)].fraglist, k.fins, t.half[d].state)
  BY DEF SideFins
<1>1. AddrOf(t, d) = AddrOf(s, d) /\ ~h.early /\ k.fins = h.fins
  BY DEF AddrOf, Keeps, SameRecord
<1>2. CASE s.isconnnection
  <2> DEFINE first == s.half[d].first_data_seq
             rcv   == s.half[Other(d)]
  <2>1. FinsPlaced(first, AddrOf(s, d), rcv.count, rcv.fraglist, h.fins, s.half[d].state)
    BY <1>1, <1>2 DEF SideFins
  <2>2. FinDone(t.half[d].state) => FinDone(s.half[d].state)
    BY DEF FinKept
  <2>3. FinsPlaced(first, AddrOf(s, d), rcv.count, rcv.fraglist, h.fins, t.half[d].state)
    BY <2>1, <2>2, FinsSame
  <2>4. /\ t.half[d].first_data_seq = first
        /\ t.half[Other(d)].count = rcv.count /\ t.half[Other(d)].fraglist = rcv.fraglist
    BY DEF Keeps
  <2> HIDE DEF first, rcv
  <2> QED
    BY <1>1, <2>3, <2>4
<1>3. CASE ~s.isconnnection
  <2>1. k.fins = {} /\ t.half[Other(d)].fraglist = <<>> /\ ~FinDone(t.half[d].state)
    BY <1>1, <1>3 DEF SidePlaced, InOrder, Keeps, FinKept
  <2>2. DOMAIN <<>> = {}
    OBVIOUS
  <2> QED
    BY <2>1, <2>2 DEF FinsPlaced
<1> QED
  BY <1>2, <1>3

----------------------------------------------------------------------------
(***************************************************************************)
(* What tcpQueue and the drain of the fraglist do to a direction of which  *)
(* "count" bytes from "first" on were handed over, when EXP_SEQ is "exp".  *)
(***************************************************************************)
\* A retransmission,
LEMMA OldPlaced ==
    ASSUME NEW first \in Int, NEW count \in SeqNum, NEW list, NEW have, NEW got,
           Placed(first, count, list, have, got),
           NEW exp, exp = (first + count) % SeqSpace,
           NEW f, Fits(first, f), ~After(f.seq, exp), ~EndsAfter(f, exp)
    PROVE  /\ EndAt(first, f) <= count
           /\ Placed(first, count, list, have \cup Range(Span(f.seq, f.len)), got)
<1>1. 2 * count < SeqSpace
  BY DEF Placed
<1>2. EndsAfter(f, exp) <=> EndAt(first, f) + f.fin > count
  BY <1>1, Compared
<1>3. EndAt(first, f) \in Nat /\ f.fin \in 0 .. 1 /\ count \in Int
  BY FitsIs, SeqSpaceAssumption DEF SeqNum
<1>4. EndAt(first, f) <= count
  BY <1>2, <1>3
<1> QED
  BY <1>4, PlacedOld

\* a segment that lies in order,
LEMMA InOrderIs ==
    ASSUME NEW first \in Int, NEW count \in SeqNum, NEW list, NEW have, NEW got \in Seq(SeqNum),
           Placed(first, count, list, have, got),
           NEW exp, exp = (first + count) % SeqSpace,
           NEW f, Fits(first, f), ~After(f.seq, exp), EndsAfter(f, exp),
           NEW n, n = (f.len - (exp - f.seq)) % SeqSpace
    PROVE  /\ Offset(first, f.seq) <= count /\ count <= EndAt(first, f)
           /\ (count + n) % SeqSpace = EndAt(first, f)
           /\ Len(got \o Span(exp, n)) = EndAt(first, f)
<1>1. 2 * count < SeqSpace
  BY DEF Placed
<1>2. /\ After(f.seq, exp) <=> Offset(first, f.seq) > count
      /\ EndsAfter(f, exp) <=> EndAt(first, f) + f.fin > count
  BY <1>1, Compared
<1>3. /\ EndAt(first, f) \in Nat /\ f.fin \in 0 .. 1 /\ count \in Int
      /\ Offset(first, f.seq) \in Nat
  BY FitsIs, SeqSpaceAssumption DEF SeqNum
<1>4. Offset(first, f.seq) <= count /\ count <= EndAt(first, f)
  BY <1>2, <1>3
<1> QED
  BY <1>4, TakenIs

LEMMA InOrderPlaced ==
    ASSUME NEW first \in Int, NEW count \in SeqNum, NEW list, NEW have, NEW got \in Seq(SeqNum),
           Placed(first, count, list, have, got),
           NEW exp, exp = (first + count) % SeqSpace,
           NEW f, Fits(first, f), ~After(f.seq, exp), EndsAfter(f, exp),
           NEW n, n = (f.len - (exp - f.seq)) % SeqSpace
    PROVE  Placed(first, (count + n) % SeqSpace, list,
                  have \cup Range(Span(f.seq, f.len)), got \o Span(exp, n))
<1> DEFINE all == got \o Span(exp, n)
<1>1. /\ Offset(first, f.seq) <= count /\ count <= EndAt(first, f)
      /\ (count + n) % SeqSpace = EndAt(first, f)
      /\ Len(all) = EndAt(first, f)
  BY InOrderIs
<1> HIDE DEF all
<1>2. Placed(first, EndAt(first, f), list, have \cup Range(Span(f.seq, f.len)), all)
  BY <1>1, PlacedTakes
<1> QED
  BY <1>1, <1>2 DEF all

\* a segment ahead,
LEMMA AheadPlaced ==
    ASSUME NEW first \in Int, NEW count \in SeqNum, NEW list \in Seq(Skbuff), NEW have, NEW got,
           Placed(first, count, list, have, got), Ahead(first, count, list),
           NEW exp, exp = (first + count) % SeqSpace,
           NEW f \in Skbuff, Fits(first, f), After(f.seq, exp),
           NEW k \in 0 .. Len(list), InsertionPoint(list, k, f.seq)
    PROVE  LET new == SubSeq(list, 1, k) \o <<f>> \o SubSeq(list, k + 1, Len(list))
           IN  /\ Placed(first, count, new, have \cup Range(Span(f.seq, f.len)), got)
               /\ Ahead(first, count, new)
<1>1. 2 * count < SeqSpace
  BY DEF Placed
<1>2. After(f.seq, exp) <=> Offset(first, f.seq) > count
  BY <1>1, Compared
<1>3. Offset(first, f.seq) \in Nat /\ count \in Int
  BY FitsIs, SeqSpaceAssumption DEF SeqNum
<1>4. count < Offset(first, f.seq)
  BY <1>2, <1>3
<1> QED
  BY <1>4, PlacedHolds

\* the first fragment, when it is taken from the list
LEMMA DrainedPlaced ==
    ASSUME NEW first \in Int, NEW count \in SeqNum, NEW list \in Seq(Skbuff), list # <<>>,
           NEW have, NEW got \in Seq(SeqNum), Placed(first, count, list, have, got),
           NEW exp, exp = (first + count) % SeqSpace,
           ~After(Head(list).seq, exp), EndsAfter(Head(list), exp),
           NEW n, n = (Head(list).len - (exp - Head(list).seq)) % SeqSpace
    PROVE  /\ Placed(first, (count + n) % SeqSpace, Tail(list), have, got \o Span(exp, n))
           /\ count <= EndAt(first, Head(list))
           /\ (count + n) % SeqSpace = EndAt(first, Head(list))
<1> DEFINE all == got \o Span(exp, n)
           f   == Head(list)
<1>1. Fits(first, f)
  BY CoversTail DEF Placed
<1> HIDE DEF f
<1>2. ~After(f.seq, exp) /\ EndsAfter(f, exp) /\ n = (f.len - (exp - f.seq)) % SeqSpace
  BY DEF f
<1>3. /\ Offset(first, f.seq) <= count /\ count <= EndAt(first, f)
      /\ (count + n) % SeqSpace = EndAt(first, f)
      /\ Len(all) = EndAt(first, f)
  BY <1>1, <1>2, InOrderIs
<1> HIDE DEF all
<1>4. Placed(first, EndAt(first, f), Tail(list), have, all)
  BY <1>3, PlacedDrains DEF f
<1> QED
  BY <1>3, <1>4 DEF all, f

\* or dropped.
LEMMA DroppedPlaced ==
    ASSUME NEW first \in Int, NEW count \in SeqNum, NEW list \in Seq(Skbuff), list # <<>>,
           NEW have, NEW got, Placed(first, count, list, have, got),
           NEW exp, exp = (first + count) % SeqSpace,
           ~After(Head(list).seq, exp), ~EndsAfter(Head(list), exp)
    PROVE  Placed(first, count, Tail(list), have, got)
<1> DEFINE f == Head(list)
<1>1. Fits(first, f)
  BY CoversTail DEF Placed
<1> HIDE DEF f
<1>2. ~After(f.seq, exp) /\ ~EndsAfter(f, exp)
  BY DEF f
<1>3. EndAt(first, f) <= count
  BY <1>1, <1>2, OldPlaced
<1> QED
  BY <1>3, PlacedDrops DEF f

\* The drain ends when the list is empty or its first fragment lies ahead.
LEMMA DrainedAhead ==
    ASSUME NEW first \in Int, NEW count \in SeqNum, NEW list \in Seq(Skbuff),
           NEW have, NEW got, Placed(first, count, list, have, got),
           NEW exp, exp = (first + count) % SeqSpace,
           list # <<>> => After(Head(list).seq, exp)
    PROVE  Ahead(first, count, list)
<1> SUFFICES ASSUME list # <<>> PROVE count < Offset(first, list[1].seq)
  BY DEF Ahead
<1> DEFINE f == list[1]
<1>1. Fits(first, f) /\ Head(list) = f
  BY CoversTail DEF Placed
<1> HIDE DEF f
<1>2. After(f.seq, exp) /\ 2 * count < SeqSpace
  BY <1>1 DEF Placed
<1>3. After(f.seq, exp) <=> Offset(first, f.seq) > count
  BY <1>1, <1>2, Compared
<1>4. Offset(first, f.seq) \in Nat /\ count \in Int
  BY <1>1, FitsIs, SeqSpaceAssumption DEF SeqNum
<1> QED
  BY <1>2, <1>3, <1>4 DEF f

----------------------------------------------------------------------------
(***************************************************************************)
(* What a step does to a side: stream s becomes t, and "out" is handed     *)
(* over.                                                                   *)
(***************************************************************************)
\* The stream stays what it is.
Stays(s, t, d) ==
    /\ t.addr = s.addr /\ t.isconnnection = s.isconnnection
    /\ t.half[d].first_data_seq = s.half[d].first_data_seq

\* Segment f brings nothing new,
Repeats(s, t, d, f, out) ==
    /\ Stays(s, t, d)
    /\ ~After(f.seq, ExpSeq(s, d)) /\ ~EndsAfter(f, ExpSeq(s, d))
    /\ t.half[Other(d)].count = s.half[Other(d)].count
    /\ t.half[Other(d)].fraglist = s.half[Other(d)].fraglist
    /\ FinDone(t.half[d].state) => FinDone(s.half[d].state)
    /\ out = <<>>

\* lies in order and is handed over, with "list" held after it,
Takes(s, t, d, f, list, out) ==
    LET exp == ExpSeq(s, d)
        n   == (f.len - (exp - f.seq)) % SeqSpace
    IN  /\ Stays(s, t, d)
        /\ ~After(f.seq, exp) /\ EndsAfter(f, exp)
        /\ t.half[Other(d)].count = (s.half[Other(d)].count + n) % SeqSpace
        /\ t.half[Other(d)].fraglist = list
        /\ FinDone(t.half[d].state) => FinDone(s.half[d].state) \/ f.fin = 1
        /\ out = IF s.isconnnection THEN Span(exp, n) ELSE <<>>

\* lies ahead and is held,
Waits(s, t, d, f, out) ==
    LET list == s.half[Other(d)].fraglist
    IN  /\ Stays(s, t, d)
        /\ After(f.seq, ExpSeq(s, d))
        /\ t.half[Other(d)].count = s.half[Other(d)].count
        /\ \E k \in 0 .. Len(list) :
              /\ InsertionPoint(list, k, f.seq)
              /\ t.half[Other(d)].fraglist =
                     SubSeq(list, 1, k) \o <<f>> \o SubSeq(list, k + 1, Len(list))
        /\ FinDone(t.half[d].state) => FinDone(s.half[d].state)
        /\ out = <<>>

\* or is the first that was held, and is dropped.
Drops(s, t, d, out) ==
    LET list == s.half[Other(d)].fraglist
    IN  /\ Stays(s, t, d)
        /\ ~After(Head(list).seq, ExpSeq(s, d)) /\ ~EndsAfter(Head(list), ExpSeq(s, d))
        /\ t.half[Other(d)].count = s.half[Other(d)].count
        /\ t.half[Other(d)].fraglist = Tail(list)
        /\ FinDone(t.half[d].state) => FinDone(s.half[d].state)
        /\ out = <<>>

\* Nothing is left to drain.
Drained(s, d) ==
    LET list == s.half[Other(d)].fraglist
    IN  list # <<>> => After(Head(list).seq, ExpSeq(s, d))

\* What is recorded when f is given to tcpQueue,
Records(s, h, k, f, out) ==
    /\ k.have = h.have \cup Range(Span(f.seq, f.len))
    /\ k.fins = IF f.fin = 1 THEN h.fins \cup {(f.seq + f.len) % SeqSpace} ELSE h.fins
    /\ k.got = h.got \o out
    /\ k.early = (h.early \/ ~s.isconnnection)

\* and when nothing is.
RecordsNone(h, k, out) ==
    k.have = h.have /\ k.fins = h.fins /\ k.got = h.got \o out /\ k.early = h.early

\* The numbers of a side.
LEMMA SideType ==
    ASSUME NEW s \in TcpStream, NEW d \in Side
    PROVE  /\ s.half[d].first_data_seq \in Int
           /\ s.half[Other(d)].count \in SeqNum
           /\ s.half[Other(d)].fraglist \in Seq(Skbuff)
           /\ ExpSeq(s, d) = (s.half[d].first_data_seq + s.half[Other(d)].count) % SeqSpace
<1>1. s.half[d] \in HalfStream /\ s.half[Other(d)] \in HalfStream
  BY HalvesType
<1>2. s.half[d].first_data_seq \in SeqNum
  BY <1>1 DEF HalfStream
<1>3. SeqNum \subseteq Int
  BY SeqSpaceAssumption DEF SeqNum
<1> QED
  BY <1>1, <1>2, <1>3 DEF HalfStream, ExpSeq

\* A side whose payload was recorded in time is placed.
LEMMA SidePlacedIs ==
    ASSUME NEW s \in TcpStream, NEW t \in TcpStream, NEW d \in Side,
           NEW h \in Record, NEW k \in Record, NEW drained, NEW after,
           SidePlaced(s, d, h, drained), Stays(s, t, d),
           s.isconnnection \/ k.early, h.early => k.early,
           Placed(s.half[d].first_data_seq, s.half[Other(d)].count,
                  s.half[Other(d)].fraglist, h.have, h.got) =>
              /\ Placed(s.half[d].first_data_seq, t.half[Other(d)].count,
                        t.half[Other(d)].fraglist, k.have, k.got)
              /\ \/ after
                 \/ Ahead(s.half[d].first_data_seq, t.half[Other(d)].count,
                          t.half[Other(d)].fraglist)
    PROVE  SidePlaced(t, d, k, after)
<1>1. h.early \in BOOLEAN /\ k.early \in BOOLEAN /\ s.isconnnection \in BOOLEAN
  BY DEF Record, TcpStream
<1>2. CASE k.early
  BY <1>2 DEF SidePlaced
<1>3. CASE ~k.early
  <2>1. ~h.early /\ s.isconnnection /\ t.isconnnection
    BY <1>1, <1>3 DEF Stays
  <2>2. Placed(s.half[d].first_data_seq, s.half[Other(d)].count,
               s.half[Other(d)].fraglist, h.have, h.got)
    BY <2>1 DEF SidePlaced
  <2>3. t.half[d].first_data_seq = s.half[d].first_data_seq
    BY DEF Stays
  <2> QED
    BY <2>1, <2>2, <2>3 DEF SidePlaced
<1> QED
  BY <1>1, <1>2, <1>3

\* What was handed over is a sequence of sequence numbers.
LEMMA GotType ==
    ASSUME NEW h \in Record
    PROVE  h.got \in Seq(SeqNum) /\ h.got \o <<>> = h.got /\ h.early \in BOOLEAN
<1>1. h.got \in Seq(SeqNum) /\ h.early \in BOOLEAN
  BY DEF Record
<1> QED
  BY <1>1, ConcatEmptySeq

\* A segment given to tcpQueue leaves a side placed.
LEMMA GivenPlaced ==
    ASSUME NEW s \in TcpStream, NEW t \in TcpStream, NEW d \in Side,
           NEW h \in Record, NEW k \in Record, NEW after, NEW out, NEW f \in Skbuff,
           SidePlaced(s, d, h, FALSE), Records(s, h, k, f, out),
           s.isconnnection => Fits(s.half[d].first_data_seq, f),
           \/ Repeats(s, t, d, f, out)
           \/ Takes(s, t, d, f, s.half[Other(d)].fraglist, out) /\ after
           \/ Waits(s, t, d, f, out)
    PROVE  SidePlaced(t, d, k, after)
<1> DEFINE first == s.half[d].first_data_seq
           count == s.half[Other(d)].count
           list  == s.half[Other(d)].fraglist
           r     == t.half[Other(d)]
           exp   == ExpSeq(s, d)
           n     == (f.len - (exp - f.seq)) % SeqSpace
<1>1. /\ first \in Int /\ count \in SeqNum /\ list \in Seq(Skbuff)
      /\ exp = (first + count) % SeqSpace
  BY SideType
<1>2. Stays(s, t, d)
  BY DEF Repeats, Takes, Waits
<1>3. (s.isconnnection \/ k.early) /\ (h.early => k.early)
  BY GotType DEF Records
<1>4. h.got \in Seq(SeqNum) /\ h.got \o <<>> = h.got
  BY GotType
<1>5. CASE ~s.isconnnection
  <2>1. k.early
    BY <1>3, <1>5
  <2> QED
    BY <2>1, GotType DEF SidePlaced
<1>6. CASE s.isconnnection /\ h.early
  <2>1. k.early
    BY <1>3, <1>6
  <2> QED
    BY <2>1, GotType DEF SidePlaced
<1>7. CASE s.isconnnection /\ ~h.early
  <2>1. Fits(first, f)
    BY <1>7
  <2>2. Placed(first, count, list, h.have, h.got) /\ Ahead(first, count, list)
    BY <1>7 DEF SidePlaced
  <2>3. /\ Placed(first, r.count, r.fraglist, k.have, k.got)
        /\ after \/ Ahead(first, r.count, r.fraglist)
    <3>1. CASE Repeats(s, t, d, f, out)
      <4>1. ~After(f.seq, exp) /\ ~EndsAfter(f, exp) /\ r.count = count /\ r.fraglist = list
            /\ k.have = h.have \cup Range(Span(f.seq, f.len)) /\ k.got = h.got
        BY <1>4, <3>1 DEF Repeats, Records
      <4> HIDE DEF first, count, list, r, exp
      <4>2. Placed(first, count, list, h.have \cup Range(Span(f.seq, f.len)), h.got)
        BY <1>1, <2>1, <2>2, <4>1, OldPlaced
      <4> QED
        BY <2>2, <4>1, <4>2
    <3>2. CASE Takes(s, t, d, f, list, out) /\ after
      <4>1. /\ ~After(f.seq, exp) /\ EndsAfter(f, exp)
            /\ r.count = (count + n) % SeqSpace /\ r.fraglist = list
            /\ k.have = h.have \cup Range(Span(f.seq, f.len)) /\ k.got = h.got \o Span(exp, n)
        BY <1>7, <3>2 DEF Takes, Records
      <4> HIDE DEF first, count, list, r, exp
      <4>2. Placed(first, (count + n) % SeqSpace, list,
                   h.have \cup Range(Span(f.seq, f.len)), h.got \o Span(exp, n))
        BY <1>1, <1>4, <2>1, <2>2, <4>1, InOrderPlaced
      <4> HIDE DEF n
      <4> QED
        BY <3>2, <4>1, <4>2
    <3>3. CASE Waits(s, t, d, f, out)
      <4>1. /\ After(f.seq, exp) /\ r.count = count
            /\ k.have = h.have \cup Range(Span(f.seq, f.len)) /\ k.got = h.got
        BY <1>4, <3>3 DEF Waits, Records
      <4>2. PICK i \in 0 .. Len(list) :
               /\ InsertionPoint(list, i, f.seq)
               /\ r.fraglist = SubSeq(list, 1, i) \o <<f>> \o SubSeq(list, i + 1, Len(list))
        BY <3>3 DEF Waits
      <4> DEFINE new == SubSeq(list, 1, i) \o <<f>> \o SubSeq(list, i + 1, Len(list))
      <4> HIDE DEF first, count, list, r, exp
      <4>3. /\ Placed(first, count, new, h.have \cup Range(Span(f.seq, f.len)), h.got)
            /\ Ahead(first, count, new)
        BY <1>1, <2>1, <2>2, <4>1, <4>2, AheadPlaced
      <4>4. r.fraglist = new
        BY <4>2
      <4> HIDE DEF new
      <4> QED
        BY <4>1, <4>3, <4>4
    <3> QED
      BY <3>1, <3>2, <3>3
  <2> HIDE DEF first, count, list, r
  <2> QED
    BY <1>2, <1>3, <2>3, SidePlacedIs DEF first, count, list, r
<1>8. s.isconnnection \in BOOLEAN /\ h.early \in BOOLEAN
  BY GotType DEF TcpStream
<1> QED
  BY <1>5, <1>6, <1>7, <1>8

\* So does a fragment that is drained.
LEMMA DrainPlaced ==
    ASSUME NEW s \in TcpStream, NEW t \in TcpStream, NEW d \in Side,
           NEW h \in Record, NEW k \in Record, NEW out,
           InOrder(s, d, h), SidePlaced(s, d, h, TRUE), RecordsNone(h, k, out),
           s.half[Other(d)].fraglist # <<>>,
           \/ Takes(s, t, d, Head(s.half[Other(d)].fraglist),
                    Tail(s.half[Other(d)].fraglist), out)
           \/ Drops(s, t, d, out)
    PROVE  SidePlaced(t, d, k, TRUE)
<1> DEFINE first == s.half[d].first_data_seq
           count == s.half[Other(d)].count
           list  == s.half[Other(d)].fraglist
           r     == t.half[Other(d)]
           exp   == ExpSeq(s, d)
           n     == (Head(list).len - (exp - Head(list).seq)) % SeqSpace
<1>1. /\ first \in Int /\ count \in SeqNum /\ list \in Seq(Skbuff) /\ list # <<>>
      /\ exp = (first + count) % SeqSpace
  BY SideType
<1>2. Stays(s, t, d)
  BY DEF Takes, Drops
<1>3. k.early = h.early /\ h.early \in BOOLEAN /\ s.isconnnection \in BOOLEAN
      /\ h.got \in Seq(SeqNum) /\ h.got \o <<>> = h.got
  BY GotType DEF RecordsNone, TcpStream
<1>4. s.isconnnection \/ k.early
  BY <1>1, <1>3 DEF InOrder
<1>5. ASSUME s.isconnnection, Placed(first, count, list, h.have, h.got)
      PROVE  Placed(first, r.count, r.fraglist, k.have, k.got)
  <2>1. CASE Takes(s, t, d, Head(list), Tail(list), out)
    <3>1. /\ ~After(Head(list).seq, exp) /\ EndsAfter(Head(list), exp)
          /\ r.count = (count + n) % SeqSpace /\ r.fraglist = Tail(list)
          /\ k.have = h.have /\ k.got = h.got \o Span(exp, n)
      BY <1>5, <2>1 DEF Takes, RecordsNone
    <3> HIDE DEF first, count, list, r, exp
    <3>2. Placed(first, (count + n) % SeqSpace, Tail(list), h.have, h.got \o Span(exp, n))
      BY <1>1, <1>3, <1>5, <3>1, DrainedPlaced
    <3> HIDE DEF n
    <3> QED
      BY <3>1, <3>2
  <2>2. CASE Drops(s, t, d, out)
    <3>1. /\ ~After(Head(list).seq, exp) /\ ~EndsAfter(Head(list), exp)
          /\ r.count = count /\ r.fraglist = Tail(list)
          /\ k.have = h.have /\ k.got = h.got
      BY <1>3, <2>2 DEF Drops, RecordsNone
    <3> HIDE DEF first, count, list, r, exp
    <3>2. Placed(first, count, Tail(list), h.have, h.got)
      BY <1>1, <1>5, <3>1, DroppedPlaced
    <3> QED
      BY <3>1, <3>2
  <2> QED
    BY <2>1, <2>2
<1>6. CASE k.early
  BY <1>6 DEF SidePlaced
<1>7. CASE ~k.early
  <2>1. s.isconnnection
    BY <1>4, <1>7
  <2> HIDE DEF first, count, list, r
  <2> QED
    BY <1>2, <1>3, <1>5, <2>1, SidePlacedIs DEF first, count, list, r
<1> QED
  BY <1>6, <1>7

\* When the drain ends, the rest of the list lies ahead.
LEMMA EndPlaced ==
    ASSUME NEW s \in TcpStream, NEW d \in Side, NEW h \in Record, NEW drained,
           SidePlaced(s, d, h, drained), Drained(s, d)
    PROVE  SidePlaced(s, d, h, FALSE)
<1> DEFINE first == s.half[d].first_data_seq
           count == s.half[Other(d)].count
           list  == s.half[Other(d)].fraglist
           exp   == ExpSeq(s, d)
<1>1. /\ first \in Int /\ count \in SeqNum /\ list \in Seq(Skbuff)
      /\ exp = (first + count) % SeqSpace
  BY SideType
<1>2. ASSUME Placed(first, count, list, h.have, h.got)
      PROVE  Ahead(first, count, list)
  <2>1. list # <<>> => After(Head(list).seq, exp)
    BY DEF Drained
  <2> HIDE DEF first, count, list, exp
  <2> QED
    BY <1>1, <1>2, <2>1, DrainedAhead
<1> QED
  BY <1>2 DEF SidePlaced

----------------------------------------------------------------------------
\* The FIN of a segment given to tcpQueue is recorded.
LEMMA FinsRecorded ==
    ASSUME NEW first, NEW addr, NEW count, NEW list, NEW fins, NEW state,
           FinsPlaced(first, addr, count, list, fins, state),
           NEW f, IsSegment(addr, f), NEW new,
           new = IF f.fin = 1 THEN fins \cup {(f.seq + f.len) % SeqSpace} ELSE fins
    PROVE  FinsPlaced(first, addr, count, list, new, state) /\ Noted(f, new)
<1>1. PICK p \in Packets : /\ ~p.syn /\ p.len + p.fin > 0 /\ p.addr = addr
                           /\ f.seq = p.seq /\ f.len = p.len /\ f.fin = p.fin
  BY DEF IsSegment
<1>2. IsSegment(addr, p)
  BY <1>1 DEF IsSegment
<1>3. new = IF p.fin = 1 THEN fins \cup {(p.seq + p.len) % SeqSpace} ELSE fins
  BY <1>1
<1>4. FinsPlaced(first, addr, count, list, new, state) /\ Noted(p, new)
  BY <1>2, <1>3, FinsGiven
<1> QED
  BY <1>1, <1>4 DEF Noted

\* A segment given to tcpQueue leaves the FINs of a side placed.
LEMMA GivenFins ==
    ASSUME NEW s \in TcpStream, NEW t \in TcpStream, NEW d \in Side,
           NEW h \in Record, NEW k \in Record, NEW out, NEW f \in Skbuff,
           SidePlaced(s, d, h, FALSE), SideFins(s, d, h), Records(s, h, k, f, out),
           IsSegment(AddrOf(s, d), f),
           s.isconnnection => /\ AllShort(s.half[d].first_data_seq, AddrOf(s, d))
                              /\ FinsLast(s.half[d].first_data_seq, AddrOf(s, d)),
           \/ Repeats(s, t, d, f, out)
           \/ Takes(s, t, d, f, s.half[Other(d)].fraglist, out)
           \/ Waits(s, t, d, f, out)
    PROVE  SideFins(t, d, k)
<1> DEFINE first == s.half[d].first_data_seq
           count == s.half[Other(d)].count
           list  == s.half[Other(d)].fraglist
           state == s.half[d].state
           next  == t.half[d].state
           addr  == AddrOf(s, d)
           r     == t.half[Other(d)]
           exp   == ExpSeq(s, d)
           n     == (f.len - (exp - f.seq)) % SeqSpace
<1>1. /\ first \in Int /\ count \in SeqNum /\ list \in Seq(Skbuff)
      /\ exp = (first + count) % SeqSpace
  BY SideType
<1>2. Stays(s, t, d)
  BY DEF Repeats, Takes, Waits
<1>3. /\ h.got \in Seq(SeqNum) /\ h.early \in BOOLEAN /\ s.isconnnection \in BOOLEAN
      /\ k.early = (h.early \/ ~s.isconnnection)
  BY GotType DEF Records, TcpStream
<1> SUFFICES ASSUME t.isconnnection, ~k.early
             PROVE  FinsPlaced(t.half[d].first_data_seq, AddrOf(t, d), r.count, r.fraglist,
                               k.fins, next)
  BY DEF SideFins
<1>4. s.isconnnection /\ ~h.early
  BY <1>3
<1>5. t.half[d].first_data_seq = first /\ AddrOf(t, d) = addr
  BY <1>2 DEF Stays, AddrOf
<1>6. /\ Placed(first, count, list, h.have, h.got)
      /\ FinsPlaced(first, addr, count, list, h.fins, state)
      /\ AllShort(first, addr) /\ FinsLast(first, addr) /\ IsSegment(addr, f)
  BY <1>4 DEF SidePlaced, SideFins
<1>7. Fits(first, f)
  BY <1>6 DEF AllShort
<1>8. k.fins = IF f.fin = 1 THEN h.fins \cup {(f.seq + f.len) % SeqSpace} ELSE h.fins
  BY DEF Records
<1>9. CASE Repeats(s, t, d, f, out)
  <2>1. r.count = count /\ r.fraglist = list /\ (FinDone(next) => FinDone(state))
    BY <1>9 DEF Repeats
  <2> HIDE DEF first, count, list, state, next, addr, r
  <2>2. FinsPlaced(first, addr, count, list, k.fins, state)
    BY <1>6, <1>8, FinsRecorded
  <2>3. FinsPlaced(first, addr, count, list, k.fins, next)
    BY <2>1, <2>2, FinsSame
  <2> QED
    BY <1>5, <2>1, <2>3
<1>10. CASE Takes(s, t, d, f, list, out)
  <2>1. /\ ~After(f.seq, exp) /\ EndsAfter(f, exp)
        /\ r.count = (count + n) % SeqSpace /\ r.fraglist = list
        /\ FinDone(next) => FinDone(state) \/ f.fin = 1
    BY <1>10 DEF Takes
  <2> HIDE DEF first, count, list, state, next, addr, r, exp
  <2>2. FinsPlaced(first, addr, count, list, k.fins, state) /\ Noted(f, k.fins)
    BY <1>6, <1>8, FinsRecorded
  <2>3. count <= EndAt(first, f) /\ (count + n) % SeqSpace = EndAt(first, f)
    BY <1>1, <1>3, <1>6, <1>7, <2>1, InOrderIs
  <2> HIDE DEF n
  <2>4. FinsPlaced(first, addr, EndAt(first, f), list, k.fins, next)
    BY <1>1, <1>6, <2>1, <2>2, <2>3, FinsTaken
  <2> QED
    BY <1>5, <2>1, <2>3, <2>4
<1>11. CASE Waits(s, t, d, f, out)
  <2>1. r.count = count /\ (FinDone(next) => FinDone(state))
    BY <1>11 DEF Waits
  <2>2. PICK i \in 0 .. Len(list) :
           r.fraglist = SubSeq(list, 1, i) \o <<f>> \o SubSeq(list, i + 1, Len(list))
    BY <1>11 DEF Waits
  <2> DEFINE new == SubSeq(list, 1, i) \o <<f>> \o SubSeq(list, i + 1, Len(list))
  <2> HIDE DEF first, count, list, state, next, addr, r, exp
  <2>3. FinsPlaced(first, addr, count, list, k.fins, state) /\ Noted(f, k.fins)
    BY <1>6, <1>8, FinsRecorded
  <2>4. FinsPlaced(first, addr, count, new, k.fins, state)
    BY <1>1, <1>6, <2>3, FinsHeld
  <2>5. r.fraglist = new
    BY <2>2
  <2> HIDE DEF new
  <2>6. FinsPlaced(first, addr, count, new, k.fins, next)
    BY <2>1, <2>4, FinsSame
  <2> QED
    BY <1>5, <2>1, <2>5, <2>6
<1> QED
  BY <1>9, <1>10, <1>11

\* So does a fragment that is drained.
LEMMA DrainFins ==
    ASSUME NEW s \in TcpStream, NEW t \in TcpStream, NEW d \in Side,
           NEW h \in Record, NEW k \in Record, NEW out, NEW drained,
           SidePlaced(s, d, h, drained), SideFins(s, d, h), RecordsNone(h, k, out),
           s.isconnnection => /\ AllShort(s.half[d].first_data_seq, AddrOf(s, d))
                              /\ FinsLast(s.half[d].first_data_seq, AddrOf(s, d)),
           s.half[Other(d)].fraglist # <<>>,
           \/ Takes(s, t, d, Head(s.half[Other(d)].fraglist),
                    Tail(s.half[Other(d)].fraglist), out)
           \/ Drops(s, t, d, out)
    PROVE  SideFins(t, d, k)
<1> DEFINE first == s.half[d].first_data_seq
           count == s.half[Other(d)].count
           list  == s.half[Other(d)].fraglist
           state == s.half[d].state
           next  == t.half[d].state
           addr  == AddrOf(s, d)
           r     == t.half[Other(d)]
           exp   == ExpSeq(s, d)
           f     == Head(list)
           n     == (f.len - (exp - f.seq)) % SeqSpace
<1>1. /\ first \in Int /\ count \in SeqNum /\ list \in Seq(Skbuff) /\ list # <<>>
      /\ exp = (first + count) % SeqSpace
  BY SideType
<1>2. Stays(s, t, d)
  BY DEF Takes, Drops
<1>3. h.got \in Seq(SeqNum) /\ k.early = h.early /\ k.fins = h.fins
  BY GotType DEF RecordsNone
<1> SUFFICES ASSUME t.isconnnection, ~k.early
             PROVE  FinsPlaced(t.half[d].first_data_seq, AddrOf(t, d), r.count, r.fraglist,
                               k.fins, next)
  BY DEF SideFins
<1>4. s.isconnnection /\ ~h.early
  BY <1>2, <1>3 DEF Stays
<1>5. t.half[d].first_data_seq = first /\ AddrOf(t, d) = addr
  BY <1>2 DEF Stays, AddrOf
<1>6. /\ Placed(first, count, list, h.have, h.got)
      /\ FinsPlaced(first, addr, count, list, h.fins, state)
      /\ AllShort(first, addr) /\ FinsLast(first, addr)
  BY <1>4 DEF SidePlaced, SideFins
<1>7. /\ FinsPlaced(first, addr, count, Tail(list), h.fins, state)
      /\ IsSegment(addr, f) /\ Noted(f, h.fins)
  <2> HIDE DEF first, count, list, state, addr
  <2> QED
    BY <1>1, <1>6, FinsTail DEF f
<1>8. CASE Takes(s, t, d, f, Tail(list), out)
  <2>1. /\ ~After(f.seq, exp) /\ EndsAfter(f, exp)
        /\ r.count = (count + n) % SeqSpace /\ r.fraglist = Tail(list)
        /\ FinDone(next) => FinDone(state) \/ f.fin = 1
    BY <1>8 DEF Takes
  <2> HIDE DEF first, count, list, state, next, addr, r, exp
  <2>2. count <= EndAt(first, f) /\ (count + n) % SeqSpace = EndAt(first, f)
    BY <1>1, <1>3, <1>6, <2>1, DrainedPlaced
  <2> HIDE DEF n, f
  <2>3. FinsPlaced(first, addr, EndAt(first, f), Tail(list), h.fins, next)
    BY <1>1, <1>6, <1>7, <2>1, <2>2, FinsTaken
  <2> QED
    BY <1>3, <1>5, <2>1, <2>2, <2>3
<1>9. CASE Drops(s, t, d, out)
  <2>1. r.count = count /\ r.fraglist = Tail(list) /\ (FinDone(next) => FinDone(state))
    BY <1>9 DEF Drops
  <2> HIDE DEF first, count, list, state, next, addr, r, f
  <2>2. FinsPlaced(first, addr, count, Tail(list), h.fins, next)
    BY <1>7, <2>1, FinsSame
  <2> QED
    BY <1>3, <1>5, <2>1, <2>2
<1> QED
  BY <1>8, <1>9

----------------------------------------------------------------------------
(***************************************************************************)
(* Every step moves every side in one of these ways.                       *)
(***************************************************************************)
\* The fraglist of side d of the stream at b is being drained.
Draining(b, d) == pc = "drain" /\ FindStream(b, d)

\* Nothing happens to the side,
QuietAt(b, d) ==
    /\ ~Given(b, d) /\ ~Draining(b, d)
    /\ Keeps(tcphashmap_[b], tcphashmap_'[b], d)
    /\ FinKept(tcphashmap_[b], tcphashmap_'[b], d)
    /\ Heard(b, d, 1) = <<>>

\* the segment in hand is given to it,
GivenAt(b, d) ==
    LET s == tcphashmap_[b]
        t == tcphashmap_'[b]
    IN  /\ Given(b, d)
        /\ \/ Repeats(s, t, d, SegmentSkb, Heard(b, d, 1))
           \/ /\ Takes(s, t, d, SegmentSkb, s.half[Other(d)].fraglist, Heard(b, d, 1))
              /\ Draining(b, d)'
           \/ Waits(s, t, d, SegmentSkb, Heard(b, d, 1))

\* its first fragment is drained,
DrainsAt(b, d) ==
    LET s == tcphashmap_[b]
        t == tcphashmap_'[b]
        list == s.half[Other(d)].fraglist
    IN  /\ Draining(b, d) /\ Draining(b, d)'
        /\ list # <<>>
        /\ \/ Takes(s, t, d, Head(list), Tail(list), Heard(b, d, 1))
           \/ Drops(s, t, d, Heard(b, d, 1))

\* or there is no more to drain.
DrainedAt(b, d) ==
    /\ Draining(b, d)
    /\ tcphashmap_'[b] = tcphashmap_[b] /\ Drained(tcphashmap_[b], d)
    /\ Heard(b, d, 1) = <<>>

MovesAt(b, d) == QuietAt(b, d) \/ GivenAt(b, d) \/ DrainsAt(b, d) \/ DrainedAt(b, d)

\* What stays the same is kept.
LEMMA KeepsSelf ==
    ASSUME NEW s, NEW d
    PROVE  Keeps(s, s, d) /\ FinKept(s, s, d)
BY DEF Keeps, FinKept

LEMMA KeepsSame ==
    ASSUME NEW s, NEW t, SameStream(s, t), NEW d \in Side
    PROVE  Keeps(s, t, d)
BY OtherType DEF SameStream, SameData, Keeps

\* A step of a call that looked up side "from" of the stream at a moves no other side.
LEMMA OthersQuiet ==
    ASSUME IInv, NEW a \in Live, NEW from \in Side, FindStream(a, from), pc # "idle",
           NEW t, Becomes(a, t), NEW b \in Live', NEW d \in Side, ~(b = a /\ d = from),
           b = a => Keeps(tcphashmap_[a], t, d) /\ FinKept(tcphashmap_[a], t, d),
           Heard(b, d, 1) = <<>>
    PROVE  QuietAt(b, d)
<1>0. a \in Ptr /\ b \in Ptr
  BY DEF Live
<1>1. ~FindStream(b, d)
  <2>1. pkt \in Packet
    BY PktType, TcpAssumption DEF IInv, TypeOK
  <2> QED
    BY <1>0, <2>1, FindStreamUnique
<1>2. tcphashmap_'[b] = IF b = a THEN t ELSE tcphashmap_[b]
  BY <1>0, BecomesIs DEF IInv
<1>3. Keeps(tcphashmap_[b], tcphashmap_'[b], d) /\ FinKept(tcphashmap_[b], tcphashmap_'[b], d)
  BY <1>2, KeepsSelf
<1> QED
  BY <1>1, <1>3 DEF QuietAt, Given, Draining

\* The lookup finds what it found when the tuple4s stay.
LEMMA FindStreamStays ==
    ASSUME IInv, NEW a \in Live, NEW t, Becomes(a, t), t.addr = tcphashmap_[a].addr,
           pkt' = pkt, NEW from \in Side, FindStream(a, from)
    PROVE  FindStream(a, from)'
<1>0. a \in Ptr
  BY DEF Live
<1>1. /\ \A b \in Ptr : tcphashmap_'[b] = IF b = a THEN t ELSE tcphashmap_[b]
      /\ t # Null
  BY <1>0, TcpAssumption DEF Becomes, IInv, TypeOK
<1>2. Live' = Live /\ \A b \in Live : tcphashmap_'[b].addr = tcphashmap_[b].addr
  BY <1>0, <1>1 DEF Live
<1>3. \A addr : FindStreamAux(addr)' = FindStreamAux(addr)
  BY <1>2 DEF FindStreamAux
<1> QED
  BY <1>3 DEF FindStream

\* Without urgent data addFromskb counts and hands over what f brings beyond EXP_SEQ.
LEMMA AddFromskbExact ==
    ASSUME IInv, NEW a \in Live, NEW from \in Side, NEW f \in Skbuff,
           NEW rcv \in HalfStream, rcv.count = tcphashmap_[a].half[Other(from)].count,
           rcv.state = tcphashmap_[a].half[Other(from)].state,
           f.urg = FALSE, rcv.urg_seen = FALSE,
           AddFromskb(a, from, f, rcv)
    PROVE  LET s == tcphashmap_[a]
               t == tcphashmap_'[a]
               n == (f.len - (ExpSeq(s, from) - f.seq)) % SeqSpace
           IN  /\ n \in Nat
               /\ t.half[Other(from)].count = (s.half[Other(from)].count + n) % SeqSpace
               /\ t.half[Other(from)].fraglist = rcv.fraglist
               /\ t.half[Other(from)].state = s.half[Other(from)].state
               /\ t.half[from].state = IF f.fin = 1 THEN "FIN_SENT" ELSE s.half[from].state
               /\ callbacks'.data = Handed(s, from, ExpSeq(s, from), n)
<1> DEFINE old   == tcphashmap_[a]
           exp   == ExpSeq(old, from)
           n     == (f.len - (exp - f.seq)) % SeqSpace
           snd   == SendFin(old.half[from], f.fin, "FIN_SENT")
           count == (rcv.count + n) % SeqSpace
           r     == [rcv EXCEPT !.count = count, !.urg_seen = FALSE]
           s     == SetHalves(old, from, snd, r)
<1>1. /\ old \in TcpStream
      /\ old.half[from] \in HalfStream /\ old.half[Other(from)] \in HalfStream
      /\ a \in Ptr
  BY LiveType, HalvesType DEF IInv, TypeOK, TablesType
<1>2. exp \in SeqNum
  BY <1>1, ExpSeqType
<1>3. n \in Nat /\ n \in SeqNum
  <2>1. f.len - (exp - f.seq) \in Int
    BY <1>2, SeqSpaceAssumption DEF Skbuff, SeqNum
  <2> QED
    BY <2>1, ModType, SeqSpaceAssumption DEF SeqNum
<1>4. NoteUrgent(rcv, f, exp) = rcv
  BY DEF NoteUrgent
<1>5. ~HoldsUrgent(rcv, f, exp)
  BY DEF HoldsUrgent
<1>6. Added(rcv, f, exp) = n
  BY <1>5 DEF Added
<1>7. exp % SeqSpace = exp
  BY <1>2, ModSame
<1>8. Notified(old, from, rcv, f, exp) = Handed(old, from, exp, n)
  <2> HIDE DEF old, exp
  <2> QED
    BY <1>5, <1>7 DEF Notified, Handed
<1>9. count \in SeqNum
  <2>1. rcv.count + n \in Int
    BY <1>3, SeqSpaceAssumption DEF HalfStream, SeqNum
  <2> QED
    BY <2>1, ModType
<1>10. /\ callbacks'.data = Notified(old, from, NoteUrgent(rcv, f, exp), f, exp)
       /\ tcphashmap_' = [tcphashmap_ EXCEPT ![a] =
              SetHalves(old, from, snd,
                  [NoteUrgent(rcv, f, exp) EXCEPT
                      !.count = (@ + Added(NoteUrgent(rcv, f, exp), f, exp)) % SeqSpace,
                      !.urg_seen = @ /\ ~HoldsUrgent(NoteUrgent(rcv, f, exp), f, exp)])]
  BY DEF AddFromskb, NoCallbacks
<1>11. callbacks'.data = Handed(old, from, exp, n)
  BY <1>4, <1>8, <1>10
<1>12. [rcv EXCEPT !.count = (@ + Added(rcv, f, exp)) % SeqSpace,
                   !.urg_seen = @ /\ ~HoldsUrgent(rcv, f, exp)] = r
  <2> HIDE DEF n, exp, count
  <2>1. (rcv.count + Added(rcv, f, exp)) % SeqSpace = count
    BY <1>6 DEF count
  <2>2. (rcv.urg_seen /\ ~HoldsUrgent(rcv, f, exp)) = FALSE
    OBVIOUS
  <2> QED
    BY <2>1, <2>2 DEF HalfStream
<1>13. tcphashmap_' = [tcphashmap_ EXCEPT ![a] = s]
  <2> HIDE DEF r, old, snd, exp
  <2> QED
    BY <1>4, <1>10, <1>12
<1> HIDE DEF n, exp, count
<1>14. r \in HalfStream /\ r.count = count /\ r.fraglist = rcv.fraglist /\ r.state = rcv.state
  BY <1>9 DEF HalfStream
<1>15. /\ snd \in HalfStream
       /\ snd.state = IF f.fin = 1 THEN "FIN_SENT" ELSE old.half[from].state
  <2> DEFINE h == old.half[from]
  <2>1. h \in HalfStream
    BY <1>1
  <2> HIDE DEF h
  <2>2. LET k1 == SendFin(h, f.fin, "FIN_SENT")
        IN  /\ k1 \in HalfStream
            /\ k1.state = IF f.fin = 1 THEN "FIN_SENT" ELSE h.state
    BY <2>1 DEF SendFin, HalfStream, HalfState
  <2> QED
    BY <2>2 DEF h
<1> HIDE DEF r, snd
<1>16. s.half[from] = snd /\ s.half[Other(from)] = r
  <2> HIDE DEF old
  <2> QED
    BY <1>1, <1>14, <1>15, SetHalvesType
<1> HIDE DEF s
<1>17. tcphashmap_'[a] = s
  BY <1>1, <1>13 DEF IInv, TypeOK
<1>18. count = (old.half[Other(from)].count + n) % SeqSpace
  BY DEF count
<1> HIDE DEF old
<1> QED
  BY <1>3, <1>11, <1>14, <1>15, <1>16, <1>17, <1>18 DEF n, exp, old

----------------------------------------------------------------------------
\* The side that receives is moved in what it sends by nothing.
LEMMA OtherSideKept ==
    ASSUME NEW s, NEW t, NEW from \in Side, SameButReceived(s, t, from),
           t.half[Other(from)].state = s.half[Other(from)].state
    PROVE  Keeps(s, t, Other(from)) /\ FinKept(s, t, Other(from))
BY OtherTwice DEF SameButReceived, SameData, Keeps, FinKept

\* What a step that hands over bytes of side "from" moves.
LEMMA HandsOver ==
    ASSUME IInv, NEW a \in Live, NEW from \in Side, FindStream(a, from), pc # "idle",
           NEW t, Becomes(a, t), SameButReceived(tcphashmap_[a], t, from),
           t.half[Other(from)].state = tcphashmap_[a].half[Other(from)].state,
           NEW n \in Nat,
           callbacks'.data = Handed(tcphashmap_[a], from, ExpSeq(tcphashmap_[a], from), n)
    PROVE  /\ tcphashmap_'[a] = t
           /\ Heard(a, from, 1) = IF tcphashmap_[a].isconnnection
                                  THEN Span(ExpSeq(tcphashmap_[a], from), n) ELSE <<>>
           /\ \A b \in Live' : \A d \in Side : ~(b = a /\ d = from) => QuietAt(b, d)
<1> DEFINE s   == tcphashmap_[a]
           exp == ExpSeq(s, from)
<1>0. a \in Ptr
  BY DEF Live
<1>1. tcphashmap_'[a] = t
  BY <1>0 DEF Becomes, IInv, TypeOK
<1>2. Heard(a, from, 1) = IF s.isconnnection THEN Span(exp, n) ELSE <<>>
  <2> DEFINE addr == s.addr
  <2>1. tcphashmap_[a].addr = s.addr
    OBVIOUS
  <2> HIDE DEF s, exp
  <2> QED
    BY <2>1, HeardHanded DEF s, exp
<1>3. ASSUME NEW b \in Live', NEW d \in Side, ~(b = a /\ d = from)
      PROVE  QuietAt(b, d)
  <2>1. b \in Live
    BY <1>0, BecomesIs DEF IInv
  <2>2. b # a => tcphashmap_[b].addr # s.addr
    BY <2>1 DEF IInv, TablesInv, UniqueFlow
  <2>3. tcphashmap_[b].addr # s.addr \/ d # from
    BY <1>3, <2>2
  <2>4. Heard(b, d, 1) = <<>>
    <3> HIDE DEF s, exp
    <3>1. callbacks'.data = Handed(s, from, exp, n)
      BY DEF s, exp
    <3> QED
      BY <2>3, <3>1, HeardHanded
  <2>5. b = a => d = Other(from)
    BY <1>3 DEF Side, Other
  <2>6. b = a => Keeps(tcphashmap_[a], t, d) /\ FinKept(tcphashmap_[a], t, d)
    BY <2>5, OtherSideKept
  <2> QED
    BY <1>3, <2>4, <2>6, OthersQuiet
<1> QED
  BY <1>1, <1>2, <1>3

\* Where both sides of s begin is where those of t do; a SYN-ACK came only if it
\* had come to s.
OriginKept(s, t) ==
    /\ t.addr = s.addr
    /\ \A d \in Side : t.half[d].first_data_seq = s.half[d].first_data_seq
    /\ t.isconnnection \/ t.half["server"].state = "SYN_RECV" =>
           s.isconnnection \/ s.half["server"].state = "SYN_RECV"

\* What receives payload begins where it did.
LEMMA ReceivedOrigin ==
    ASSUME IInv, NEW a \in Ptr, NEW u, Becomes(a, u), NEW from \in Side,
           SameButReceived(tcphashmap_[a], u, from),
           u.half[Other(from)].state = tcphashmap_[a].half[Other(from)].state,
           u.half[from].state = "SYN_RECV" => tcphashmap_[a].half[from].state = "SYN_RECV",
           NEW b \in Live'
    PROVE  OriginKept(tcphashmap_[b], tcphashmap_'[b])
<1>0. b \in Ptr
  BY DEF Live
<1>1. tcphashmap_'[b] = IF b = a THEN u ELSE tcphashmap_[b]
  BY <1>0 DEF Becomes, IInv, TypeOK
<1>2. "server" = from \/ "server" = Other(from)
  BY DEF Side, Other
<1> QED
  BY <1>1, <1>2 DEF OriginKept, SameButReceived

\* A segment in order,
LEMMA QueueInOrderMoves ==
    ASSUME IInv, AllCalm, NoUrgentData, NEW a \in Ptr, NEW from \in Side,
           QueueInOrder(a, from), NEW b \in Live', NEW d \in Side
    PROVE  MovesAt(b, d) /\ OriginKept(tcphashmap_[b], tcphashmap_'[b])
<1> DEFINE s   == tcphashmap_[a]
           rcv == s.half[Other(from)]
           t   == tcphashmap_'[a]
           f   == SegmentSkb
           exp == ExpSeq(s, from)
           n   == (f.len - (exp - f.seq)) % SeqSpace
<1>1. /\ a \in Live /\ FindStream(a, from) /\ pc = "queue" /\ pc' = "drain" /\ pkt' = pkt
      /\ ~After(f.seq, exp) /\ EndsAfter(f, exp)
      /\ AddFromskb(a, from, f, rcv)
  BY FindStreamLive DEF QueueInOrder, SegmentSkb
<1>2. f \in Skbuff /\ f.urg = FALSE
  BY <1>1, NoUrgentPkt, SegmentSkbType DEF IInv, SegmentSkb
<1>3. rcv \in HalfStream /\ rcv.urg_seen = FALSE
  <2>1. rcv \in HalfStream
    BY <1>1, LiveType, HalvesType DEF IInv, TypeOK, TablesType
  <2>2. ~rcv.urg_seen
    BY <1>1, OtherType DEF AllCalm, Calm
  <2> QED
    BY <2>1, <2>2 DEF HalfStream
<1>4. PICK u : Receives(a, u, from, rcv, ~pkt.urg /\ ~rcv.urg_seen)
  BY QueueInOrderTakes
<1>5. Becomes(a, u) /\ SameButReceived(s, u, from)
  BY <1>4 DEF Receives
<1>6. t = u
  BY <1>5 DEF Becomes, IInv, TypeOK
<1>7. /\ n \in Nat
      /\ t.half[Other(from)].count = (s.half[Other(from)].count + n) % SeqSpace
      /\ t.half[Other(from)].fraglist = rcv.fraglist
      /\ t.half[Other(from)].state = s.half[Other(from)].state
      /\ t.half[from].state = IF f.fin = 1 THEN "FIN_SENT" ELSE s.half[from].state
      /\ callbacks'.data = Handed(s, from, exp, n)
  <2> DEFINE r == rcv
  <2>1. r \in HalfStream /\ r.urg_seen = FALSE /\ AddFromskb(a, from, f, r)
        /\ r.count = tcphashmap_[a].half[Other(from)].count
        /\ r.state = tcphashmap_[a].half[Other(from)].state
    BY <1>1, <1>3
  <2>2. r.fraglist = rcv.fraglist
    OBVIOUS
  <2> HIDE DEF r, f
  <2> QED
    BY <1>1, <1>2, <2>1, <2>2, AddFromskbExact
<1> HIDE DEF n
<1>8. /\ Heard(a, from, 1) = IF s.isconnnection THEN Span(exp, n) ELSE <<>>
      /\ ~(b = a /\ d = from) => QuietAt(b, d)
  <2>1. Becomes(a, t) /\ SameButReceived(s, t, from)
    BY <1>5, <1>6
  <2> HIDE DEF t
  <2> QED
    BY <1>1, <1>7, <2>1, HandsOver
<1>9. GivenAt(a, from)
  <2>1. Stays(s, t, from)
    BY <1>5, <1>6 DEF SameButReceived, Stays
  <2>2. FinDone(t.half[from].state) => FinDone(s.half[from].state) \/ f.fin = 1
    BY <1>7
  <2>3. Takes(s, t, from, f, rcv.fraglist, Heard(a, from, 1))
    BY <1>1, <1>7, <1>8, <2>1, <2>2 DEF Takes, n
  <2>4. FindStream(a, from)'
    BY <1>1, <1>5, FindStreamStays DEF SameButReceived
  <2>5. Draining(a, from)'
    BY <1>1, <2>4 DEF Draining
  <2> QED
    BY <1>1, <2>3, <2>5 DEF GivenAt, Given
<1>10. OriginKept(tcphashmap_[b], tcphashmap_'[b])
  <2>1. u.half[from].state = "SYN_RECV" => s.half[from].state = "SYN_RECV"
    BY <1>6, <1>7
  <2>2. u.half[Other(from)].state = s.half[Other(from)].state
    BY <1>6, <1>7
  <2> QED
    BY <1>5, <2>1, <2>2, ReceivedOrigin
<1> QED
  BY <1>8, <1>9, <1>10 DEF MovesAt

\* a retransmission,
LEMMA QueueOldMoves ==
    ASSUME IInv, NEW a \in Ptr, NEW from \in Side,
           QueueOld(a, from), NEW b \in Live', NEW d \in Side
    PROVE  MovesAt(b, d)
<1>1. /\ a \in Live /\ FindStream(a, from) /\ pc = "queue" /\ tcphashmap_' = tcphashmap_
      /\ callbacks'.data = <<>>
  BY FindStreamLive DEF QueueOld, tables, NoCallbacks
<1>2. Heard(b, d, 1) = <<>>
  BY <1>1, HeardNone
<1>3. CASE b = a /\ d = from
  BY <1>1, <1>2, <1>3 DEF QueueOld, MovesAt, GivenAt, Given, Repeats, Stays, SegmentSkb
<1>4. CASE ~(b = a /\ d = from)
  <2>1. tcphashmap_[a] \in TcpStream
    BY <1>1, LiveType DEF IInv, TypeOK, TablesType
  <2>2. Becomes(a, tcphashmap_[a])
    BY <1>1, <2>1 DEF Becomes, IInv, TypeOK
  <2> QED
    BY <1>1, <1>2, <1>4, <2>2, KeepsSelf, OthersQuiet DEF MovesAt
<1> QED
  BY <1>3, <1>4

\* a segment ahead,
LEMMA QueueOutOfOrderMoves ==
    ASSUME IInv, NEW a \in Ptr, NEW from \in Side,
           QueueOutOfOrder(a, from), NEW b \in Live', NEW d \in Side
    PROVE  MovesAt(b, d) /\ OriginKept(tcphashmap_[b], tcphashmap_'[b])
<1> DEFINE s   == tcphashmap_[a]
           rcv == s.half[Other(from)]
           t   == tcphashmap_'[a]
           f   == SegmentSkb
           snd == SendFin(s.half[from], pkt.fin, "CLOSING")
           Held(k) == HoldFragment(rcv, k, f)
<1>1. /\ a \in Live /\ FindStream(a, from) /\ pc = "queue"
      /\ After(f.seq, ExpSeq(s, from)) /\ callbacks'.data = <<>>
  BY FindStreamLive DEF QueueOutOfOrder, SegmentSkb, NoCallbacks
<1>2. f \in Skbuff /\ pkt \in Packet
  BY PktType, SegmentSkbType DEF IInv, QueueOutOfOrder
<1>3. /\ s \in TcpStream /\ s.half[from] \in HalfStream /\ rcv \in HalfStream
      /\ Side = {from, Other(from)}
  BY <1>1, LiveType, HalvesType DEF IInv, TypeOK, TablesType
<1>4. PICK k \in 0 .. Len(rcv.fraglist) :
         /\ InsertionPoint(rcv.fraglist, k, pkt.seq)
         /\ tcphashmap_' = [tcphashmap_ EXCEPT ![a] = SetHalves(s, from, snd, Held(k))]
  BY DEF QueueOutOfOrder
<1>5. /\ t = SetHalves(s, from, snd, Held(k)) /\ f.seq = pkt.seq
  BY <1>4 DEF IInv, TypeOK, SegmentSkb
<1>6. /\ Held(k) \in HalfStream /\ Held(k).state = rcv.state /\ Held(k).count = rcv.count
      /\ Held(k).first_data_seq = rcv.first_data_seq
      /\ Held(k).fraglist = SubSeq(rcv.fraglist, 1, k) \o <<f>>
                                \o SubSeq(rcv.fraglist, k + 1, Len(rcv.fraglist))
  <2> HIDE DEF rcv, f
  <2>1. Held(k) \in HalfStream
    BY <1>2, <1>3, <1>4, HoldFragmentType
  <2> QED
    BY <1>3, <2>1 DEF HoldFragment, HalfStream
<1>7. /\ snd \in HalfStream /\ SameData(s.half[from], snd)
      /\ snd.first_data_seq = s.half[from].first_data_seq
      /\ FinDone(snd.state) => FinDone(s.half[from].state)
      /\ snd.state = "SYN_RECV" => s.half[from].state = "SYN_RECV"
  <2> DEFINE h == s.half[from]
  <2>1. h \in HalfStream
    BY <1>3
  <2> HIDE DEF h
  <2>2. LET k1 == SendFin(h, pkt.fin, "CLOSING")
        IN  /\ k1 \in HalfStream /\ SameData(h, k1)
            /\ k1.first_data_seq = h.first_data_seq
            /\ FinDone(k1.state) => FinDone(h.state)
            /\ k1.state = "SYN_RECV" => h.state = "SYN_RECV"
    BY <2>1 DEF SendFin, HalfStream, HalfState, SameData, FinDone
  <2> QED
    BY <2>2 DEF h
<1> DEFINE r == Held(k)
           u == SetHalves(s, from, snd, r)
<1>8. r \in HalfStream /\ r.state = rcv.state /\ r.count = rcv.count
      /\ r.first_data_seq = rcv.first_data_seq
  BY <1>6
<1> HIDE DEF r, snd
<1>9. /\ u \in TcpStream /\ u.addr = s.addr /\ u.isconnnection = s.isconnnection
      /\ u.half[from] = snd /\ u.half[Other(from)] = r
  <2> HIDE DEF s
  <2> QED
    BY <1>3, <1>7, <1>8, SetHalvesType
<1> HIDE DEF u
<1>10. t = u /\ Becomes(a, u)
  BY <1>4, <1>5, <1>9 DEF u, r, Becomes
<1>11. SameButReceived(s, u, from)
  BY <1>3, <1>7, <1>8, <1>9 DEF SameButReceived
<1>12. u.half[Other(from)].state = s.half[Other(from)].state
  BY <1>8, <1>9
<1>13. Heard(b, d, 1) = <<>>
  BY <1>1, HeardNone
<1>14. ASSUME b = a, d = from
       PROVE  MovesAt(b, d)
  <2>1. Stays(s, t, from)
    BY <1>10, <1>11 DEF SameButReceived, Stays
  <2>2. /\ t.half[Other(from)].count = rcv.count
        /\ t.half[Other(from)].fraglist = SubSeq(rcv.fraglist, 1, k) \o <<f>>
                                \o SubSeq(rcv.fraglist, k + 1, Len(rcv.fraglist))
        /\ FinDone(t.half[from].state) => FinDone(s.half[from].state)
    BY <1>6, <1>7, <1>9, <1>10 DEF r
  <2>3. Waits(s, t, from, f, <<>>)
    <3>1. InsertionPoint(rcv.fraglist, k, f.seq)
      BY <1>4, <1>5
    <3> HIDE DEF t, f
    <3> QED
      BY <1>1, <1>4, <2>1, <2>2, <3>1 DEF Waits
  <2> QED
    BY <1>1, <1>13, <1>14, <2>3 DEF MovesAt, GivenAt, Given
<1>15. ASSUME ~(b = a /\ d = from)
       PROVE  MovesAt(b, d)
  <2>1. b = a => d = Other(from)
    BY <1>3, <1>15
  <2>2. b = a => Keeps(s, u, d) /\ FinKept(s, u, d)
    BY <2>1, <1>11, <1>12, OtherSideKept
  <2> QED
    BY <1>1, <1>10, <1>13, <1>15, <2>2, OthersQuiet DEF MovesAt
<1>16. OriginKept(tcphashmap_[b], tcphashmap_'[b])
  <2>1. u.half[from].state = "SYN_RECV" => s.half[from].state = "SYN_RECV"
    BY <1>7, <1>9
  <2> QED
    BY <1>10, <1>11, <1>12, <2>1, ReceivedOrigin
<1> QED
  BY <1>14, <1>15, <1>16

----------------------------------------------------------------------------
\* The first fragment of the list, used or dropped,
LEMMA DrainFragmentMoves ==
    ASSUME IInv, AllCalm, NEW a \in Ptr, NEW from \in Side,
           DrainFragment(a, from), NEW b \in Live', NEW d \in Side
    PROVE  MovesAt(b, d) /\ OriginKept(tcphashmap_[b], tcphashmap_'[b])
<1> DEFINE s    == tcphashmap_[a]
           rcv  == s.half[Other(from)]
           list == rcv.fraglist
           t    == tcphashmap_'[a]
           f    == Head(list)
           r    == DropFirst(rcv)
           exp  == ExpSeq(s, from)
           n    == (f.len - (exp - f.seq)) % SeqSpace
<1>1. /\ a \in Live /\ FindStream(a, from) /\ pc = "drain" /\ pc' = pc /\ pkt' = pkt
      /\ list # <<>> /\ ~After(f.seq, exp)
  BY FindStreamLive DEF DrainFragment
<1>2. s \in TcpStream /\ rcv \in HalfStream /\ s.half[from] \in HalfStream
      /\ Side = {from, Other(from)}
  BY <1>1, LiveType, HalvesType DEF IInv, TypeOK, TablesType
<1>3. ~rcv.urg_seen /\ \A i \in DOMAIN list : ~list[i].urg
  BY <1>1, OtherType DEF AllCalm, Calm
<1>4. /\ f \in Skbuff /\ r \in HalfStream
      /\ r.count = rcv.count /\ r.urg_seen = rcv.urg_seen
      /\ r.first_data_seq = rcv.first_data_seq /\ r.state = rcv.state
      /\ r.fraglist = Tail(list)
  <2> HIDE DEF rcv
  <2>1. r.state = rcv.state
    BY <1>2 DEF DropFirst, HalfStream
  <2> QED
    BY <1>1, <1>2, <2>1, DropFirstType, DropFirstIs
<1>5. f.urg = FALSE
  <2>1. list \in Seq(Skbuff)
    BY <1>2 DEF HalfStream
  <2> HIDE DEF list
  <2>2. ~Head(list).urg
    BY <1>1, <1>3, <2>1, TailCalm
  <2> QED
    BY <1>4, <2>2 DEF Skbuff
<1>6. rcv.urg_seen = FALSE
  BY <1>2, <1>3 DEF HalfStream
<1>7. ASSUME NEW u, Becomes(a, u), SameButReceived(s, u, from),
             u.half[Other(from)].state = rcv.state, NEW m \in Nat,
             u.half[from].state = "SYN_RECV" => s.half[from].state = "SYN_RECV",
             callbacks'.data = Handed(s, from, exp, m),
             \/ Takes(s, u, from, f, Tail(list), IF s.isconnnection THEN Span(exp, m) ELSE <<>>)
             \/ Drops(s, u, from, IF s.isconnnection THEN Span(exp, m) ELSE <<>>)
      PROVE  MovesAt(b, d) /\ OriginKept(tcphashmap_[b], tcphashmap_'[b])
  <2>1. /\ t = u
        /\ Heard(a, from, 1) = IF s.isconnnection THEN Span(exp, m) ELSE <<>>
        /\ ~(b = a /\ d = from) => QuietAt(b, d)
    <3> HIDE DEF t
    <3> QED
      BY <1>1, <1>7, HandsOver DEF t
  <2>2. FindStream(a, from)'
    BY <1>1, <1>7, FindStreamStays DEF SameButReceived
  <2>3. Draining(a, from) /\ Draining(a, from)'
    BY <1>1, <2>2 DEF Draining
  <2>4. DrainsAt(a, from)
    BY <1>1, <1>7, <2>1, <2>3 DEF DrainsAt
  <2>5. OriginKept(tcphashmap_[b], tcphashmap_'[b])
    BY <1>7, ReceivedOrigin
  <2> QED
    BY <2>1, <2>4, <2>5 DEF MovesAt
<1>8. CASE EndsAfter(f, exp)
  <2>1. AddFromskb(a, from, f, r)
    BY <1>8 DEF DrainFragment
  <2>2. PICK u : Receives(a, u, from, r, ~f.urg /\ ~rcv.urg_seen)
    BY DrainFragmentTakes
  <2>3. Becomes(a, u) /\ SameButReceived(s, u, from)
    BY <2>2 DEF Receives
  <2>4. t = u
    BY <2>3 DEF Becomes, IInv, TypeOK
  <2>5. /\ n \in Nat
        /\ t.half[Other(from)].count = (s.half[Other(from)].count + n) % SeqSpace
        /\ t.half[Other(from)].fraglist = r.fraglist
        /\ t.half[Other(from)].state = s.half[Other(from)].state
        /\ t.half[from].state = IF f.fin = 1 THEN "FIN_SENT" ELSE s.half[from].state
        /\ callbacks'.data = Handed(s, from, exp, n)
    <3>1. /\ r.count = tcphashmap_[a].half[Other(from)].count
          /\ r.state = tcphashmap_[a].half[Other(from)].state
          /\ r.urg_seen = FALSE
      BY <1>4, <1>6
    <3> HIDE DEF r, f
    <3> QED
      BY <1>1, <1>4, <1>5, <2>1, <3>1, AddFromskbExact
  <2> HIDE DEF n
  <2>6. Stays(s, u, from)
    BY <2>3 DEF SameButReceived, Stays
  <2>7. /\ FinDone(u.half[from].state) => FinDone(s.half[from].state) \/ f.fin = 1
        /\ u.half[from].state = "SYN_RECV" => s.half[from].state = "SYN_RECV"
    BY <2>4, <2>5
  <2>8. Takes(s, u, from, f, Tail(list), IF s.isconnnection THEN Span(exp, n) ELSE <<>>)
    BY <1>1, <1>4, <1>8, <2>4, <2>5, <2>6, <2>7 DEF Takes, n
  <2> HIDE DEF s, exp, list, f, t, rcv
  <2> QED
    BY <1>7, <2>3, <2>4, <2>5, <2>7, <2>8 DEF rcv
<1>9. CASE ~EndsAfter(f, exp)
  <2> DEFINE snd == s.half[from]
             u == SetHalves(s, from, snd, r)
  <2>1. tcphashmap_' = [tcphashmap_ EXCEPT ![a] = u] /\ callbacks'.data = <<>>
    BY <1>9 DEF DrainFragment, NoCallbacks
  <2>2. snd \in HalfStream
    BY <1>2
  <2> HIDE DEF snd, r
  <2>3. /\ u \in TcpStream /\ u.addr = s.addr /\ u.isconnnection = s.isconnnection
        /\ u.half[from] = snd /\ u.half[Other(from)] = r
    <3> HIDE DEF s
    <3> QED
      BY <1>2, <1>4, <2>2, SetHalvesType
  <2> HIDE DEF u
  <2>4. Becomes(a, u)
    BY <2>1, <2>3 DEF Becomes
  <2>5. SameButReceived(s, u, from)
    BY <1>2, <1>4, <2>3 DEF SameButReceived, SameData, snd
  <2>6. callbacks'.data = Handed(s, from, exp, 0)
    BY <2>1 DEF Handed
  <2>7. (IF s.isconnnection THEN Span(exp, 0) ELSE <<>>) = <<>>
    BY SpanIs
  <2>8. Drops(s, u, from, <<>>)
    <3>1. Stays(s, u, from)
      BY <2>5 DEF SameButReceived, Stays
    <3>2. u.half[from].state = s.half[from].state
      BY <2>3 DEF snd
    <3> QED
      BY <1>1, <1>4, <1>9, <2>3, <3>1, <3>2 DEF Drops
  <2>9. /\ u.half[Other(from)].state = rcv.state /\ 0 \in Nat
        /\ u.half[from].state = s.half[from].state
    BY <1>4, <2>3 DEF snd
  <2> HIDE DEF s, exp, list, f, t, rcv
  <2> QED
    BY <1>7, <2>4, <2>5, <2>6, <2>7, <2>8, <2>9
<1> QED
  BY <1>8, <1>9

\* and the end of the drain.
LEMMA DrainEndMoves ==
    ASSUME IInv, NEW a \in Ptr, NEW from \in Side,
           DrainEnd(a, from), NEW b \in Live', NEW d \in Side
    PROVE  MovesAt(b, d)
<1>1. /\ a \in Live /\ FindStream(a, from) /\ pc = "drain" /\ tcphashmap_' = tcphashmap_
      /\ callbacks'.data = <<>>
  BY FindStreamLive DEF DrainEnd, tables, NoCallbacks
<1>2. Heard(b, d, 1) = <<>>
  BY <1>1, HeardNone
<1>3. CASE b = a /\ d = from
  BY <1>1, <1>2, <1>3 DEF DrainEnd, MovesAt, DrainedAt, Draining, Drained
<1>4. CASE ~(b = a /\ d = from)
  <2>1. tcphashmap_[a] \in TcpStream
    BY <1>1, LiveType DEF IInv, TypeOK, TablesType
  <2>2. Becomes(a, tcphashmap_[a])
    BY <1>1, <2>1 DEF Becomes, IInv, TypeOK
  <2> QED
    BY <1>1, <1>2, <1>4, <2>2, KeepsSelf, OthersQuiet DEF MovesAt
<1> QED
  BY <1>3, <1>4

----------------------------------------------------------------------------
(***************************************************************************)
(* The steps of a call that give nothing to tcpQueue.                      *)
(***************************************************************************)
\* handleAck confirms the FIN of the other side, no more.
LEMMA AcknowledgeStates ==
    ASSUME pkt \in Packet, NEW s \in TcpStream, NEW from \in Side
    PROVE  LET t == Acknowledge(s, from)
           IN  /\ t.addr = s.addr /\ t.isconnnection = s.isconnnection
               /\ \A d \in Side : /\ t.half[d].first_data_seq = s.half[d].first_data_seq
                                  /\ \/ t.half[d].state = s.half[d].state
                                     \/ /\ s.half[d].state = "FIN_SENT"
                                        /\ t.half[d].state = "FIN_CONFIRMED"
<1> DEFINE a == s.half[from]
           b == s.half[Other(from)]
           ack == IF Positive(pkt.acknum - a.ack_seq) THEN pkt.acknum ELSE a.ack_seq
           snd == [a EXCEPT !.ack_seq = ack]
           rcv == IF b.state = "FIN_SENT" THEN [b EXCEPT !.state = "FIN_CONFIRMED"] ELSE b
<1>1. a \in HalfStream /\ b \in HalfStream /\ Side = {from, Other(from)}
  BY HalvesType
<1>2. ack \in SeqNum
  BY <1>1 DEF Packet, HalfStream
<1> HIDE DEF ack
<1>3. /\ snd \in HalfStream /\ snd.state = a.state
      /\ snd.first_data_seq = a.first_data_seq
  BY <1>1, <1>2 DEF HalfStream
<1>4. /\ rcv \in HalfStream /\ rcv.first_data_seq = b.first_data_seq
      /\ \/ rcv.state = b.state
         \/ b.state = "FIN_SENT" /\ rcv.state = "FIN_CONFIRMED"
  BY <1>1 DEF HalfStream, HalfState
<1>5. Acknowledge(s, from) = SetHalves(s, from, snd, rcv)
  BY DEF Acknowledge, ack
<1> HIDE DEF snd, rcv
<1>6. /\ SetHalves(s, from, snd, rcv).addr = s.addr
      /\ SetHalves(s, from, snd, rcv).isconnnection = s.isconnnection
      /\ SetHalves(s, from, snd, rcv).half[from] = snd
      /\ SetHalves(s, from, snd, rcv).half[Other(from)] = rcv
  BY <1>3, <1>4, SetHalvesType
<1> QED
  BY <1>1, <1>3, <1>4, <1>5, <1>6

\* The stream that becomes a connection begins where it did, without a FIN.
LEMMA EstablishStates ==
    ASSUME pkt \in Packet, NEW s \in TcpStream, NEW from \in Side
    PROVE  LET t == Establish(s, from)
           IN  /\ t.addr = s.addr /\ t.isconnnection = TRUE
               /\ \A d \in Side : /\ t.half[d].first_data_seq = s.half[d].first_data_seq
                                  /\ t.half[d].state = "ESTABLISHED"
<1> DEFINE c   == [s EXCEPT !.isconnnection = TRUE]
           snd == [s.half[from] EXCEPT !.state = "ESTABLISHED", !.ack_seq = pkt.acknum]
           rcv == [s.half[Other(from)] EXCEPT !.state = "ESTABLISHED"]
<1>1. /\ s.half[from] \in HalfStream /\ s.half[Other(from)] \in HalfStream
      /\ Side = {from, Other(from)}
  BY HalvesType
<1>2. /\ snd \in HalfStream /\ snd.state = "ESTABLISHED"
      /\ snd.first_data_seq = s.half[from].first_data_seq
  BY <1>1 DEF HalfStream, HalfState, Packet
<1>3. /\ rcv \in HalfStream /\ rcv.state = "ESTABLISHED"
      /\ rcv.first_data_seq = s.half[Other(from)].first_data_seq
  BY <1>1 DEF HalfStream, HalfState
<1>4. c \in TcpStream /\ c.addr = s.addr /\ c.isconnnection = TRUE
  BY DEF TcpStream
<1>5. Establish(s, from) = SetHalves(c, from, snd, rcv)
  BY DEF Establish
<1> HIDE DEF c, snd, rcv
<1>6. /\ SetHalves(c, from, snd, rcv).addr = c.addr
      /\ SetHalves(c, from, snd, rcv).isconnnection = c.isconnnection
      /\ SetHalves(c, from, snd, rcv).half[from] = snd
      /\ SetHalves(c, from, snd, rcv).half[Other(from)] = rcv
  BY <1>2, <1>3, <1>4, SetHalvesType
<1> QED
  BY <1>1, <1>2, <1>3, <1>4, <1>5, <1>6

\* An ACK keeps where the sides begin, and takes no FIN.
LEMMA AckActionsStates ==
    ASSUME IInv, NEW a \in Ptr, NEW from \in Side,
           ThirdHandshake(a, from) \/ AckSegment(a, from)
    PROVE  LET s == tcphashmap_[a]
               t == tcphashmap_'[a]
           IN  OriginKept(s, t) /\ \A d \in Side : FinKept(s, t, d)
<1> DEFINE s == tcphashmap_[a]
           t == tcphashmap_'[a]
<1>1. a \in Live /\ pkt \in Packet
  BY FindStreamLive, PktType DEF IInv, ThirdHandshake, AckSegment, InWindow, Segment
<1>2. s \in TcpStream
  BY <1>1, LiveType DEF IInv, TypeOK, TablesType
<1>3. CASE ThirdHandshake(a, from)
  <2> DEFINE mid == Establish(s, from)
  <2>1. t = Acknowledge(mid, from) /\ s.half["server"].state = "SYN_RECV"
    BY <1>3 DEF ThirdHandshake, IsThirdHandshake, IInv, TypeOK
  <2>2. mid \in TcpStream
    <3> HIDE DEF s
    <3> QED
      BY <1>1, <1>2, EstablishSame
  <2>3. /\ mid.addr = s.addr /\ mid.isconnnection = TRUE
        /\ \A d \in Side : /\ mid.half[d].first_data_seq = s.half[d].first_data_seq
                           /\ mid.half[d].state = "ESTABLISHED"
    <3> HIDE DEF s
    <3> QED
      BY <1>1, <1>2, EstablishStates
  <2> HIDE DEF mid, s, t
  <2>4. /\ t.addr = mid.addr
        /\ \A d \in Side : /\ t.half[d].first_data_seq = mid.half[d].first_data_seq
                           /\ \/ t.half[d].state = mid.half[d].state
                              \/ mid.half[d].state = "FIN_SENT"
    BY <1>1, <2>1, <2>2, AcknowledgeStates
  <2>5. \A d \in Side : t.half[d].state = "ESTABLISHED"
    BY <2>3, <2>4
  <2>6. OriginKept(s, t)
    BY <2>1, <2>3, <2>4 DEF OriginKept
  <2>7. \A d \in Side : FinKept(s, t, d)
    BY <2>5 DEF FinKept, FinDone
  <2> QED
    BY <2>6, <2>7 DEF s, t
<1>4. CASE AckSegment(a, from)
  <2>1. t = IF pkt.ack THEN Acknowledge(s, from) ELSE s
    BY <1>4 DEF AckSegment, IInv, TypeOK
  <2> HIDE DEF s, t
  <2>2. /\ t.addr = s.addr /\ t.isconnnection = s.isconnnection
        /\ \A d \in Side : /\ t.half[d].first_data_seq = s.half[d].first_data_seq
                           /\ \/ t.half[d].state = s.half[d].state
                              \/ /\ s.half[d].state = "FIN_SENT"
                                 /\ t.half[d].state = "FIN_CONFIRMED"
    BY <1>1, <1>2, <2>1, AcknowledgeStates
  <2>3. OriginKept(s, t)
    BY <2>2 DEF OriginKept, Side
  <2>4. \A d \in Side : FinKept(s, t, d)
    BY <2>2 DEF FinKept, FinDone
  <2> QED
    BY <2>3, <2>4 DEF s, t
<1> QED
  BY <1>3, <1>4

\* The SYN-ACK opens the server's direction.
LEMMA SecondHandshakeStates ==
    ASSUME IInv, NEW a \in Ptr, NEW from \in Side, SecondHandshake(a, from)
    PROVE  LET s == tcphashmap_[a]
               t == tcphashmap_'[a]
           IN  /\ t.addr = s.addr /\ t.isconnnection = FALSE
               /\ t.half["client"].first_data_seq = s.half["client"].first_data_seq
               /\ t.half["server"].first_data_seq = (pkt.seq + 1) % SeqSpace
               /\ pkt \in Packets /\ pkt.syn /\ pkt.addr = Reversed(s.addr)
<1> DEFINE s      == tcphashmap_[a]
           t      == tcphashmap_'[a]
           on     == s.half["client"].wscale_on /\ pkt.ws > 0
           first  == (pkt.seq + 1) % SeqSpace
           client == [s.half["client"] EXCEPT
                        !.wscale_on = on, !.wscale = IF on THEN @ ELSE 1]
           server == [s.half["server"] EXCEPT
                        !.state = "SYN_RECV", !.seq = first, !.first_data_seq = first,
                        !.ack_seq = pkt.acknum, !.window = pkt.win,
                        !.wscale_on = on, !.wscale = IF on THEN pkt.ws ELSE 1]
<1>1. a \in Live /\ FindStream(a, from) /\ pkt.syn /\ pkt \in Packets /\ pkt \in Packet
  <2>1. Segment(a, from) /\ pkt.syn
    BY DEF SecondHandshake
  <2>2. pc = "segment" /\ FindStream(a, from) /\ a \in Live
    BY <2>1, FindStreamLive DEF Segment
  <2>3. pkt \in Packets
    BY <2>2 DEF IInv, TypeOK
  <2> QED
    BY <2>1, <2>2, <2>3, TcpAssumption
<1>2. s \in TcpStream /\ s.half["client"] \in HalfStream /\ s.half["server"] \in HalfStream
  BY <1>1, LiveType DEF IInv, TypeOK, TablesType, Side
<1>3. /\ s.half["client"].state = "SYN_SENT" /\ from = "server"
  BY DEF SecondHandshake, IsSynAck
<1>4. ~s.isconnnection
  BY <1>1, <1>3 DEF IInv, TablesInv, ConnectedIsEstablished, Side, FinSeen
<1>5. t = SetHalves(s, "client", client, server)
  <2>1. tcphashmap_' = [tcphashmap_ EXCEPT ![a] = SetHalves(s, "client", client, server)]
    BY DEF SecondHandshake
  <2> HIDE DEF s, client, server, first, on
  <2>2. tcphashmap_'[a] = SetHalves(s, "client", client, server)
    BY <2>1 DEF IInv, TypeOK
  <2> QED
    BY <2>2 DEF t
<1>6. s.addr = Reversed(pkt.addr)
  BY <1>1, <1>3 DEF FindStream, FindStreamAux
<1>7. pkt.addr = Reversed(s.addr)
  <2>1. pkt.addr \in Addr
    BY <1>1 DEF Packet
  <2> QED
    BY <1>6, <2>1, ReversedTwice
<1>8. server.first_data_seq = first /\ client.first_data_seq = s.half["client"].first_data_seq
  BY <1>2 DEF HalfStream
<1> HIDE DEF first, client, server
<1>9. /\ t.addr = s.addr /\ t.isconnnection = s.isconnnection
      /\ t.half["client"] = client /\ t.half["server"] = server
  BY <1>2, <1>5 DEF SetHalves, Side, TcpStream
<1>10. s.isconnnection = FALSE
  BY <1>2, <1>4 DEF TcpStream
<1> QED
  BY <1>1, <1>7, <1>8, <1>9, <1>10 DEF first

\* The end of a call leaves states and beginnings alone.
LEMMA FinishStates ==
    ASSUME IInv, NEW a \in Ptr, NEW from \in Side, Finish(a, from), a \in Live'
    PROVE  LET s == tcphashmap_[a]
               t == tcphashmap_'[a]
           IN  OriginKept(s, t) /\ \A d \in Side : FinKept(s, t, d)
<1> DEFINE s   == tcphashmap_[a]
           t   == tcphashmap_'[a]
           rcv == s.half[Other(from)]
           snd == [s.half[from] EXCEPT !.window = pkt.win]
<1>1. a \in Live /\ pkt \in Packet
  BY FindStreamLive, PktType DEF Finish, IInv
<1>2. /\ s \in TcpStream
      /\ s.half[from] \in HalfStream /\ rcv \in HalfStream
      /\ Side = {from, Other(from)}
  BY <1>1, LiveType, HalvesType DEF IInv, TypeOK, TablesType
<1>3. ~FreeTcpstream(a)
  BY DEF FreeTcpstream, Live, IInv, TypeOK
<1>4. t = SetHalves(s, from, snd, rcv)
  BY <1>3 DEF Finish, IInv, TypeOK
<1>5. /\ snd \in HalfStream /\ snd.state = s.half[from].state
      /\ snd.first_data_seq = s.half[from].first_data_seq
  BY <1>1, <1>2 DEF HalfStream, Packet
<1> HIDE DEF snd, s, rcv
<1>6. /\ t.addr = s.addr /\ t.isconnnection = s.isconnnection
      /\ t.half[from] = snd /\ t.half[Other(from)] = rcv
  BY <1>2, <1>4, <1>5, SetHalvesType
<1>7. \A d \in Side : /\ t.half[d].first_data_seq = s.half[d].first_data_seq
                      /\ t.half[d].state = s.half[d].state
  BY <1>2, <1>5, <1>6 DEF rcv
<1>8. OriginKept(s, t)
  BY <1>6, <1>7 DEF OriginKept, Side
<1>9. \A d \in Side : FinKept(s, t, d)
  BY <1>6, <1>7 DEF FinKept
<1> QED
  BY <1>8, <1>9 DEF s, t

\* A step that leaves a stream as it is, is quiet between the calls of tcpQueue.
LEMMA SelfQuiet ==
    ASSUME NEW b, NEW d, pc \notin {"queue", "drain"}, callbacks'.data = <<>>,
           Keeps(tcphashmap_[b], tcphashmap_'[b], d),
           FinKept(tcphashmap_[b], tcphashmap_'[b], d)
    PROVE  MovesAt(b, d)
BY HeardNone DEF MovesAt, QuietAt, Given, Draining

\* Every step moves the sides of the streams that go on.
LEMMA NextMoves ==
    ASSUME IInv, AllCalm, NoUrgentData, Next, NEW b \in Live', ~Fresh(b), NEW d \in Side
    PROVE  MovesAt(b, d)
<1>0. b \in Ptr /\ tcphashmap_'[b] # Null
  BY DEF Live
<1>1. ASSUME tcphashmap_'[b] = tcphashmap_[b], pc \notin {"queue", "drain"},
             callbacks'.data = <<>>
      PROVE  MovesAt(b, d)
  BY <1>1, KeepsSelf, SelfQuiet
<1>2. CASE Receive
  BY <1>0, <1>1, <1>2 DEF Receive, CheckTimeouts, NoCallbacks
<1>3. CASE Ignore
  BY <1>1, <1>3 DEF Ignore, tables, NoCallbacks
<1>4. ASSUME NEW a \in Ptr, NEW gc \in Garbage, NEW gs \in Garbage,
             \/ AddNewtcp(a, gc, gs)
             \/ \E c \in Ptr, from \in Side : RestartStream(c, from, a, gc, gs)
      PROVE  MovesAt(b, d)
  <2>1. /\ pc = "segment" /\ pkt.valid /\ PureSyn /\ callbacks'.data = <<>>
    BY <1>4 DEF AddNewtcp, RestartStream, NoCallbacks
  <2>2. tcphashmap_'[b] \in {NewTcp(gc, gs), Null, tcphashmap_[b]}
    BY <1>0, <1>4 DEF AddNewtcp, RestartStream, IInv, TypeOK
  <2>3. NewTcp(gc, gs).addr = pkt.addr
    BY DEF NewTcp
  <2>4. tcphashmap_'[b] = tcphashmap_[b]
    BY <1>0, <2>1, <2>2, <2>3 DEF Fresh
  <2> QED
    BY <1>1, <2>1, <2>4
<1>5. ASSUME NEW a \in Ptr, NEW from \in Side,
             \/ SecondHandshake(a, from) \/ ThirdHandshake(a, from)
             \/ AckSegment(a, from) \/ Finish(a, from)
      PROVE  MovesAt(b, d)
  <2>1. /\ pc \notin {"queue", "drain"} /\ callbacks'.data = <<>>
    BY <1>5 DEF SecondHandshake, ThirdHandshake, AckSegment, InWindow, Segment,
                Finish, NoCallbacks
  <2>2. Frees({a}) \/ \E t : Becomes(a, t) /\ SameStream(tcphashmap_[a], t)
    BY <1>5, SecondHandshakeSame, AckActionsSame, FinishSame
  <2>3. CASE Frees({a}) \/ b # a
    <3>1. tcphashmap_'[b] = tcphashmap_[b]
      BY <1>0, <2>2, <2>3 DEF Frees, Becomes, IInv, TypeOK
    <3> QED
      BY <1>1, <2>1, <3>1
  <2>4. CASE b = a /\ ~Frees({a})
    <3>1. PICK t : Becomes(a, t) /\ SameStream(tcphashmap_[a], t)
      BY <2>2, <2>4
    <3>2. tcphashmap_'[b] = t
      BY <2>4, <3>1 DEF Becomes, IInv, TypeOK
    <3>3. Keeps(tcphashmap_[b], tcphashmap_'[b], d)
      BY <2>4, <3>1, <3>2, KeepsSame
    <3>4. FinKept(tcphashmap_[b], tcphashmap_'[b], d)
      <4>1. CASE SecondHandshake(a, from)
        BY <2>4, <4>1, SecondHandshakeStates DEF FinKept
      <4>2. CASE ThirdHandshake(a, from) \/ AckSegment(a, from)
        BY <2>4, <4>2, AckActionsStates
      <4>3. CASE Finish(a, from)
        BY <2>4, <4>3, FinishStates
      <4> QED
        BY <1>5, <4>1, <4>2, <4>3
    <3> QED
      BY <2>1, <3>3, <3>4, SelfQuiet
  <2> QED
    BY <2>3, <2>4
<1>6. ASSUME NEW a \in Ptr, NEW from \in Side,
             DropSegment(a, from) \/ ResetStream(a, from) \/ CloseStream(a, from)
      PROVE  MovesAt(b, d)
  <2>1. pc \notin {"queue", "drain"} /\ callbacks'.data = <<>>
    BY <1>6 DEF DropSegment, ResetStream, CloseStream, InWindow, Segment, NoCallbacks
  <2>2. tcphashmap_'[b] = tcphashmap_[b]
    BY <1>0, <1>6 DEF DropSegment, ResetStream, CloseStream, FreeTcpstream, tables, IInv, TypeOK
  <2> QED
    BY <1>1, <2>1, <2>2
<1>7. ASSUME NEW a \in Ptr, NEW from \in Side,
             \/ QueueInOrder(a, from) \/ QueueOld(a, from) \/ QueueOutOfOrder(a, from)
             \/ DrainFragment(a, from) \/ DrainEnd(a, from)
      PROVE  MovesAt(b, d)
  BY <1>7, QueueInOrderMoves, QueueOldMoves, QueueOutOfOrderMoves, DrainFragmentMoves,
     DrainEndMoves
<1> QED
  BY <1>2, <1>3, <1>4, <1>5, <1>6, <1>7 DEF Next, Process

----------------------------------------------------------------------------
(***************************************************************************)
(* Where the directions of a stream begin was said by a SYN of each side.  *)
(***************************************************************************)
\* The client's SYN opened the stream, and the SYN-ACK came before it connected.
Origin(s) ==
    /\ Opened(s, "client")
    /\ s.isconnnection \/ s.half["server"].state = "SYN_RECV" => Opened(s, "server")

AllOrigin == \A a \in Live : Origin(tcphashmap_[a])

\* What keeps the beginnings keeps this.
LEMMA OriginStays ==
    ASSUME NEW s, NEW t, Origin(s), OriginKept(s, t)
    PROVE  Origin(t)
<1>1. \A d \in Side : Opened(s, d) => Opened(t, d)
  BY DEF Opened, OriginKept, AddrOf
<1> QED
  BY <1>1 DEF Origin, OriginKept, Side

\* A SYN opens the client's direction.
LEMMA NewTcpOrigin ==
    ASSUME NEW gc, NEW gs, pkt \in Packets, pkt.syn
    PROVE  Origin(NewTcp(gc, gs))
<1> DEFINE s == NewTcp(gc, gs)
<1>1. /\ s.addr = pkt.addr /\ s.isconnnection = FALSE
      /\ s.half["client"].first_data_seq = (pkt.seq + 1) % SeqSpace
      /\ s.half["server"].state = "CLOSE"
  BY DEF NewTcp, NewHalf, Side
<1> HIDE DEF s
<1>2. Opened(s, "client")
  BY <1>1 DEF Opened, AddrOf
<1>3. Origin(s)
  BY <1>1, <1>2 DEF Origin
<1> QED
  BY <1>3 DEF s

\* A SYN-ACK opens the server's.
LEMMA SecondHandshakeOrigin ==
    ASSUME IInv, NEW a \in Ptr, NEW from \in Side, SecondHandshake(a, from),
           Origin(tcphashmap_[a])
    PROVE  Origin(tcphashmap_'[a])
<1> DEFINE s == tcphashmap_[a]
           t == tcphashmap_'[a]
<1>1. /\ t.addr = s.addr /\ t.isconnnection = FALSE
      /\ t.half["client"].first_data_seq = s.half["client"].first_data_seq
      /\ t.half["server"].first_data_seq = (pkt.seq + 1) % SeqSpace
      /\ pkt \in Packets /\ pkt.syn /\ pkt.addr = Reversed(s.addr)
  BY SecondHandshakeStates
<1>2. Origin(s)
  OBVIOUS
<1> HIDE DEF s, t
<1>3. Opened(t, "client")
  BY <1>1, <1>2 DEF Origin, Opened, AddrOf
<1>4. Opened(t, "server")
  BY <1>1 DEF Opened, AddrOf
<1>5. Origin(t)
  BY <1>3, <1>4 DEF Origin
<1> QED
  BY <1>5 DEF t

\* The directions of every stream begin so.
LEMMA NextOrigin ==
    ASSUME IInv, AllCalm, NoUrgentData, AllOrigin, Next
    PROVE  AllOrigin'
<1> SUFFICES ASSUME NEW b \in Live' PROVE Origin(tcphashmap_'[b])
  BY DEF AllOrigin
<1>0. b \in Ptr /\ tcphashmap_'[b] # Null
  BY DEF Live
<1>1. ASSUME tcphashmap_'[b] = tcphashmap_[b]
      PROVE  Origin(tcphashmap_'[b])
  BY <1>0, <1>1 DEF AllOrigin, Live
<1>2. CASE Receive
  BY <1>0, <1>1, <1>2 DEF Receive, CheckTimeouts
<1>3. CASE Ignore
  BY <1>1, <1>3 DEF Ignore, tables
<1>4. ASSUME NEW a \in Ptr, NEW gc \in Garbage, NEW gs \in Garbage,
             \/ AddNewtcp(a, gc, gs)
             \/ \E c \in Ptr, from \in Side : RestartStream(c, from, a, gc, gs)
      PROVE  Origin(tcphashmap_'[b])
  <2>1. pc = "segment" /\ PureSyn
    BY <1>4 DEF AddNewtcp, RestartStream
  <2>2. pkt \in Packets /\ pkt.syn
    BY <2>1 DEF IInv, TypeOK, PureSyn
  <2>3. tcphashmap_'[b] \in {NewTcp(gc, gs), Null, tcphashmap_[b]}
    BY <1>0, <1>4 DEF AddNewtcp, RestartStream, IInv, TypeOK
  <2> QED
    BY <1>0, <1>1, <2>2, <2>3, NewTcpOrigin
<1>5. ASSUME NEW a \in Ptr, NEW from \in Side,
             \/ SecondHandshake(a, from) \/ ThirdHandshake(a, from)
             \/ AckSegment(a, from) \/ Finish(a, from)
      PROVE  Origin(tcphashmap_'[b])
  <2>1. Frees({a}) \/ \E t : Becomes(a, t)
    BY <1>5, SecondHandshakeSame, AckActionsSame, FinishSame
  <2>2. CASE Frees({a}) \/ b # a
    <3>1. tcphashmap_'[b] = tcphashmap_[b]
      BY <1>0, <2>1, <2>2 DEF Frees, Becomes, IInv, TypeOK
    <3> QED
      BY <1>1, <3>1
  <2>3. CASE b = a
    <3>1. a \in Live
      <4>1. FindStream(a, from)
        BY <1>5 DEF SecondHandshake, ThirdHandshake, AckSegment, InWindow, Segment, Finish
      <4> QED
        BY <4>1, FindStreamLive
    <3>2. Origin(tcphashmap_[a])
      BY <3>1 DEF AllOrigin
    <3>3. CASE SecondHandshake(a, from)
      BY <2>3, <3>2, <3>3, SecondHandshakeOrigin
    <3>4. CASE ThirdHandshake(a, from) \/ AckSegment(a, from)
      BY <2>3, <3>2, <3>4, AckActionsStates, OriginStays
    <3>5. CASE Finish(a, from)
      BY <2>3, <3>2, <3>5, FinishStates, OriginStays
    <3> QED
      BY <1>5, <3>3, <3>4, <3>5
  <2> QED
    BY <2>2, <2>3
<1>6. ASSUME NEW a \in Ptr, NEW from \in Side,
             \/ DropSegment(a, from) \/ ResetStream(a, from) \/ CloseStream(a, from)
             \/ QueueOld(a, from) \/ DrainEnd(a, from)
      PROVE  Origin(tcphashmap_'[b])
  <2>1. tcphashmap_'[b] = tcphashmap_[b]
    BY <1>0, <1>6 DEF DropSegment, ResetStream, CloseStream, QueueOld, DrainEnd,
                      FreeTcpstream, tables, IInv, TypeOK
  <2> QED
    BY <1>1, <2>1
<1>7. ASSUME NEW a \in Ptr, NEW from \in Side,
             \/ QueueInOrder(a, from) \/ QueueOutOfOrder(a, from) \/ DrainFragment(a, from)
      PROVE  Origin(tcphashmap_'[b])
  <2>1. OriginKept(tcphashmap_[b], tcphashmap_'[b])
    BY <1>7, QueueInOrderMoves, QueueOutOfOrderMoves, DrainFragmentMoves DEF Side
  <2>2. Origin(tcphashmap_[b])
    <3>1. Frees({a}) \/ \E t : Becomes(a, t)
      BY <1>7, QueueInOrderTakes, QueueOutOfOrderHolds, DrainFragmentTakes DEF Receives
    <3>2. FindStream(a, from)
      BY <1>7 DEF QueueInOrder, QueueOutOfOrder, DrainFragment
    <3>3. a \in Live
      BY <3>2, FindStreamLive
    <3>4. b \in Live
      BY <1>0, <3>1, <3>3 DEF Frees, Becomes, Live, IInv, TypeOK
    <3> QED
      BY <3>4 DEF AllOrigin
  <2> QED
    BY <2>1, <2>2, OriginStays
<1> QED
  BY <1>2, <1>3, <1>4, <1>5, <1>6, <1>7 DEF Next, Process

----------------------------------------------------------------------------
(***************************************************************************)
(* What the history records of a step.                                     *)
(***************************************************************************)
\* tcpQueue is given segments with payload or a FIN.
PktGiven == pc = "queue" => ~pkt.syn /\ pkt.len + pkt.fin > 0

LEMMA NextPktGiven == Next => PktGiven'
<1> SUFFICES ASSUME Next, pc' = "queue" PROVE ~pkt'.syn /\ pkt'.len + pkt'.fin > 0
  BY DEF PktGiven
<1>1. ~(Receive \/ Ignore)
  BY DEF Receive, CheckTimeouts, Ignore, Return
<1>2. ASSUME NEW a \in Ptr, NEW gc \in Garbage, NEW gs \in Garbage
      PROVE  ~AddNewtcp(a, gc, gs)
  BY DEF AddNewtcp, Return
<1>3. ASSUME NEW a \in Ptr, NEW from \in Side
      PROVE  /\ ~(\E b \in Ptr, gc, gs \in Garbage : RestartStream(a, from, b, gc, gs))
             /\ ~SecondHandshake(a, from) /\ ~DropSegment(a, from) /\ ~ResetStream(a, from)
             /\ ~CloseStream(a, from) /\ ~QueueInOrder(a, from) /\ ~QueueOld(a, from)
             /\ ~QueueOutOfOrder(a, from) /\ ~DrainFragment(a, from) /\ ~DrainEnd(a, from)
             /\ ~Finish(a, from)
  BY DEF RestartStream, SecondHandshake, DropSegment, ResetStream, CloseStream, Return,
         QueueInOrder, QueueOld, QueueOutOfOrder, DrainFragment, DrainEnd, Finish
<1>4. PICK a \in Ptr, from \in Side : ThirdHandshake(a, from) \/ AckSegment(a, from)
  BY <1>1, <1>2, <1>3 DEF Next, Process
<1>5. ~pkt.syn /\ Proceed
  BY <1>4 DEF ThirdHandshake, AckSegment, InWindow
<1>6. pkt' = pkt /\ pkt.len + pkt.fin > 0
  BY <1>5 DEF Proceed
<1> QED
  BY <1>5, <1>6

\* The segment given to a side comes from that side.
LEMMA GivenIsSegment ==
    ASSUME IInv, PktGiven, NEW b \in Live, NEW d \in Side, Given(b, d)
    PROVE  IsSegment(AddrOf(tcphashmap_[b], d), SegmentSkb) /\ SegmentSkb \in Skbuff
<1>1. pkt \in Packets /\ pkt \in Packet /\ ~pkt.syn /\ pkt.len + pkt.fin > 0
  BY TcpAssumption DEF IInv, TypeOK, Given, PktGiven
<1>2. pkt.addr = AddrOf(tcphashmap_[b], d)
  <2>1. pkt.addr \in Addr
    BY <1>1 DEF Packet
  <2>2. CASE d = "client"
    BY <2>2 DEF Given, FindStream, FindStreamAux, AddrOf
  <2>3. CASE d = "server"
    <3>1. tcphashmap_[b].addr = Reversed(pkt.addr)
      BY <2>3 DEF Given, FindStream, FindStreamAux
    <3> QED
      BY <2>1, <2>3, <3>1, ReversedTwice DEF AddrOf
  <2> QED
    BY <2>2, <2>3 DEF Side
<1>3. SegmentSkb.seq = pkt.seq /\ SegmentSkb.len = pkt.len /\ SegmentSkb.fin = pkt.fin
  BY DEF SegmentSkb
<1> QED
  BY <1>1, <1>2, <1>3, SegmentSkbType DEF IsSegment

\* A step records the segment that is given to a side, and what is handed over.
LEMMA HistStepRecords ==
    ASSUME TypeOK, HistType, NEW a \in Live, NEW d \in Side, SideFollows(a, d)
    PROVE  LET h == history[a][d]
               k == HistStep(a, d)
           IN  /\ Given(a, d) =>
                     Records(tcphashmap_[a], h, k, SegmentSkb, Heard(a, d, 1))
               /\ ~Given(a, d) => RecordsNone(h, k, Heard(a, d, 1))
<1> DEFINE s  == tcphashmap_[a]
           h  == history[a][d]
           k  == HistStep(a, d)
           m  == IF Given(a, d) THEN Received(h, s.isconnnection) ELSE h
           x1 == Heard(a, d, 1)
<1>1. h \in Record
  BY DEF HistType, Live
<1>2. /\ k \in Record /\ k.got = h.got \o x1
      /\ k.early = (h.early \/ (Given(a, d) /\ ~s.isconnnection))
  BY HistStepIs
<1>3. k = [m EXCEPT !.got = m.got \o x1 \o <<>> \o <<>>]
  BY DEF HistStep, HandedOver, SideFollows, Given
<1>4. CASE Given(a, d)
  <2> DEFINE r == Received(h, s.isconnnection)
  <2>1. /\ r.have = h.have \cup Range(Span(SegmentSkb.seq, SegmentSkb.len))
        /\ r.fins = IF SegmentSkb.fin = 1
                    THEN h.fins \cup {(SegmentSkb.seq + SegmentSkb.len) % SeqSpace}
                    ELSE h.fins
    <3> HIDE DEF h, s
    <3> QED
      BY <1>1 DEF Received, Record, SegmentSkb
  <2>2. m = r /\ r \in Record
    <3>1. pkt \in Packet
      BY <1>4, PktType DEF Given
    <3>2. s.isconnnection \in BOOLEAN
      BY LiveType DEF TablesType, TypeOK, TcpStream
    <3> HIDE DEF h, s
    <3> QED
      BY <1>1, <1>4, <3>1, <3>2, ReceivedIs
  <2> HIDE DEF r, m
  <2>3. k.have = r.have /\ k.fins = r.fins
    BY <1>3, <2>2 DEF Record
  <2>4. k.early = (h.early \/ ~s.isconnnection)
    BY <1>2, <1>4
  <2> HIDE DEF h, k, s, x1
  <2>5. Records(s, h, k, SegmentSkb, x1)
    BY <1>2, <2>1, <2>3, <2>4 DEF Records
  <2> QED
    BY <1>4, <2>5 DEF h, k, s, x1
<1>5. CASE ~Given(a, d)
  <2>1. m = h
    BY <1>5
  <2> HIDE DEF m, h, k
  <2>2. k.have = h.have /\ k.fins = h.fins
    BY <1>1, <1>3, <2>1 DEF Record
  <2>3. h.early \in BOOLEAN
    BY <1>1 DEF Record
  <2>4. k.early = h.early
    BY <1>2, <1>5, <2>3
  <2>5. RecordsNone(h, k, x1)
    BY <1>2, <2>2, <2>4 DEF RecordsNone
  <2> QED
    BY <1>5, <2>5 DEF h, k
<1> QED
  BY <1>4, <1>5

----------------------------------------------------------------------------
(***************************************************************************)
(* Every side of every stream is placed, and so are its FINs.              *)
(***************************************************************************)
SideOK(b, d) ==
    /\ SidePlaced(tcphashmap_[b], d, history[b][d], Draining(b, d))
    /\ NothingBehindFin => SideFins(tcphashmap_[b], d, history[b][d])

AllPlaced == \A b \in Live : \A d \in Side : SideOK(b, d)

\* What was said of the end points holds of a connected side.
LEMMA ConnectedShort ==
    ASSUME ShortDirections, NEW s, Origin(s), NEW d \in Side, s.isconnnection
    PROVE  /\ AllShort(s.half[d].first_data_seq, AddrOf(s, d))
           /\ NothingBehindFin => FinsLast(s.half[d].first_data_seq, AddrOf(s, d))
<1>1. Opened(s, d)
  BY DEF Origin, Side
<1> QED
  BY <1>1, OpenedShort

\* Nothing recorded and nothing handed over leaves a record as it is.
LEMMA NothingRecorded ==
    ASSUME NEW h \in Record, NEW k, RecordsNone(h, k, <<>>)
    PROVE  SameRecord(h, k)
BY GotType DEF RecordsNone, SameRecord

\* A side that moved is placed again.
LEMMA MovedPlaced ==
    ASSUME NEW s \in TcpStream, NEW t \in TcpStream, NEW d \in Side,
           NEW h \in Record, NEW k \in Record, NEW out, NEW f \in Skbuff,
           NEW drained \in BOOLEAN, NEW after \in BOOLEAN,
           ShortDirections, Origin(s), InOrder(s, d, h), SidePlaced(s, d, h, drained),
           NEW fins \in BOOLEAN, fins => NothingBehindFin /\ SideFins(s, d, h),
           \/ /\ Keeps(s, t, d) /\ FinKept(s, t, d) /\ RecordsNone(h, k, out) /\ out = <<>>
              /\ ~drained
           \/ /\ ~drained /\ Records(s, h, k, f, out) /\ IsSegment(AddrOf(s, d), f)
              /\ \/ Repeats(s, t, d, f, out)
                 \/ Takes(s, t, d, f, s.half[Other(d)].fraglist, out) /\ after
                 \/ Waits(s, t, d, f, out)
           \/ /\ after /\ RecordsNone(h, k, out) /\ s.half[Other(d)].fraglist # <<>>
              /\ \/ Takes(s, t, d, Head(s.half[Other(d)].fraglist),
                          Tail(s.half[Other(d)].fraglist), out)
                 \/ Drops(s, t, d, out)
           \/ /\ t = s /\ Drained(s, d) /\ RecordsNone(h, k, out) /\ out = <<>>
    PROVE  SidePlaced(t, d, k, after) /\ (fins => SideFins(t, d, k))
<1>0. s.isconnnection => /\ AllShort(s.half[d].first_data_seq, AddrOf(s, d))
                         /\ NothingBehindFin => FinsLast(s.half[d].first_data_seq, AddrOf(s, d))
  BY ConnectedShort
<1>1. CASE /\ Keeps(s, t, d) /\ FinKept(s, t, d) /\ RecordsNone(h, k, out) /\ out = <<>>
           /\ ~drained
  <2>1. SameRecord(h, k)
    BY <1>1, NothingRecorded
  <2> QED
    BY <1>1, <2>1, KeepsPlaced, KeepsFins
<1>2. CASE /\ ~drained /\ Records(s, h, k, f, out) /\ IsSegment(AddrOf(s, d), f)
           /\ \/ Repeats(s, t, d, f, out)
              \/ Takes(s, t, d, f, s.half[Other(d)].fraglist, out) /\ after
              \/ Waits(s, t, d, f, out)
  <2>1. SidePlaced(s, d, h, FALSE)
    BY <1>2
  <2>2. s.isconnnection => Fits(s.half[d].first_data_seq, f)
    BY <1>0, <1>2 DEF AllShort
  <2>3. SidePlaced(t, d, k, after)
    BY <1>2, <2>1, <2>2, GivenPlaced
  <2>4. fins => SideFins(t, d, k)
    BY <1>0, <1>2, <2>1, GivenFins
  <2> QED
    BY <2>3, <2>4
<1>3. CASE /\ after /\ RecordsNone(h, k, out) /\ s.half[Other(d)].fraglist # <<>>
           /\ \/ Takes(s, t, d, Head(s.half[Other(d)].fraglist),
                       Tail(s.half[Other(d)].fraglist), out)
              \/ Drops(s, t, d, out)
  <2>1. SidePlaced(s, d, h, TRUE)
    BY DEF SidePlaced
  <2>2. SidePlaced(t, d, k, TRUE)
    BY <1>3, <2>1, DrainPlaced
  <2>3. fins => SideFins(t, d, k)
    BY <1>0, <1>3, <2>1, DrainFins
  <2> QED
    BY <1>3, <2>2, <2>3
<1>4. CASE t = s /\ Drained(s, d) /\ RecordsNone(h, k, out) /\ out = <<>>
  <2>1. SidePlaced(s, d, h, FALSE)
    BY <1>4, EndPlaced
  <2>2. SameRecord(h, k) /\ Keeps(s, t, d) /\ FinKept(s, t, d)
    BY <1>4, NothingRecorded, KeepsSelf
  <2>3. SidePlaced(t, d, k, after)
    BY <2>1, <2>2, KeepsPlaced
  <2>4. fins => SideFins(t, d, k)
    BY <2>1, <2>2, KeepsFins
  <2> QED
    BY <2>3, <2>4
<1> QED
  BY <1>1, <1>2, <1>3, <1>4

\* A direction begins placed.
LEMMA NewTcpPlaced ==
    ASSUME NEW gc, NEW gs, NEW d \in Side, NEW drained
    PROVE  /\ SidePlaced(NewTcp(gc, gs), d, NoHistory[d], drained)
           /\ SideFins(NewTcp(gc, gs), d, NoHistory[d])
<1>1. NewTcp(gc, gs).isconnnection = FALSE
  BY DEF NewTcp
<1>2. NoHistory[d].have = {} /\ NoHistory[d].fins = {}
  BY DEF NoHistory
<1> QED
  BY <1>1, <1>2 DEF SidePlaced, SideFins

\* Every step leaves every side placed.
LEMMA NextPlaced ==
    ASSUME IInv, HistInv, NoUrgentData, ShortDirections, PktGiven, AllOrigin, AllPlaced,
           HistNext
    PROVE  AllPlaced'
<1>1. Next /\ IInv' /\ StepsWell
  BY NextIInv, NextStepsWell DEF HistNext, HistInv
<1>2. \A a \in Ptr : history'[a] =
          IF Fresh(a) THEN NoHistory ELSE [side \in Side |-> HistStep(a, side)]
  BY DEF HistNext
<1> SUFFICES ASSUME NEW b \in Live', NEW d \in Side PROVE SideOK(b, d)'
  BY DEF AllPlaced
<1>3. b \in Ptr
  BY DEF Live
<1>4. CASE BeginsAt(b)
  <2>1. history'[b][d] = NoHistory[d]
    BY <1>2, <1>3, <1>4 DEF BeginsAt
  <2>2. PICK gc \in Garbage, gs \in Garbage : tcphashmap_'[b] = NewTcp(gc, gs)
    BY <1>4 DEF BeginsAt
  <2>3. /\ SidePlaced(NewTcp(gc, gs), d, NoHistory[d], Draining(b, d)')
        /\ SideFins(NewTcp(gc, gs), d, NoHistory[d])
    BY NewTcpPlaced
  <2> QED
    BY <2>1, <2>2, <2>3 DEF SideOK
<1>5. CASE ContinuesAt(b)
  <2> DEFINE s == tcphashmap_[b]
             t == tcphashmap_'[b]
             h == history[b][d]
             k == HistStep(b, d)
             out == Heard(b, d, 1)
             drained == Draining(b, d)
             after   == Draining(b, d)'
  <2>1. b \in Live /\ SideFollows(b, d) /\ ~Fresh(b)
    BY <1>5 DEF ContinuesAt
  <2>2. history'[b][d] = k
    BY <1>2, <1>3, <2>1
  <2>3. s \in TcpStream /\ t \in TcpStream /\ h \in Record /\ k \in Record
    <3>1. s \in TcpStream
      BY <2>1, LiveType DEF IInv, TypeOK, TablesType
    <3>2. t \in TcpStream
      BY <1>1, <1>3 DEF IInv, TypeOK, Live
    <3>3. h \in Record
      BY <1>3 DEF HistInv, HistType
    <3>4. k \in Record
      BY <2>1, HistStepIs DEF IInv, HistInv
    <3> QED
      BY <3>1, <3>2, <3>3, <3>4
  <2>4. /\ Given(b, d) => Records(s, h, k, SegmentSkb, out)
        /\ ~Given(b, d) => RecordsNone(h, k, out)
    BY <2>1, HistStepRecords DEF IInv, HistInv
  <2>5. Origin(s) /\ InOrder(s, d, h) /\ SideOK(b, d)
    BY <2>1 DEF HistInv, AllInOrder, AllOrigin, AllPlaced
  <2>6. SidePlaced(s, d, h, drained) /\ (NothingBehindFin => SideFins(s, d, h))
    BY <2>5 DEF SideOK
  <2>7. Given(b, d) => IsSegment(AddrOf(s, d), SegmentSkb) /\ SegmentSkb \in Skbuff
    BY <2>1, GivenIsSegment
  <2>8. drained \in BOOLEAN /\ after \in BOOLEAN /\ (drained => ~Given(b, d))
    BY DEF Draining, FindStream, Given
  <2>9. MovesAt(b, d)
    BY <1>1, <2>1, NextMoves DEF HistInv
  <2>10. PICK g \in Skbuff : Given(b, d) => g = SegmentSkb
    <3>1. [seq |-> 0, len |-> 0, fin |-> 0, urg |-> FALSE, urg_ptr |-> 0, truesize |-> 0]
             \in Skbuff
      BY SeqSpaceAssumption DEF Skbuff, SeqNum
    <3> QED
      BY <2>7, <3>1
  <2> DEFINE fins == NothingBehindFin
  <2>11. \/ /\ Keeps(s, t, d) /\ FinKept(s, t, d) /\ RecordsNone(h, k, out) /\ out = <<>>
            /\ ~drained
         \/ /\ ~drained /\ Records(s, h, k, g, out) /\ IsSegment(AddrOf(s, d), g)
            /\ \/ Repeats(s, t, d, g, out)
               \/ Takes(s, t, d, g, s.half[Other(d)].fraglist, out) /\ after
               \/ Waits(s, t, d, g, out)
         \/ /\ after /\ RecordsNone(h, k, out) /\ s.half[Other(d)].fraglist # <<>>
            /\ \/ Takes(s, t, d, Head(s.half[Other(d)].fraglist),
                        Tail(s.half[Other(d)].fraglist), out)
               \/ Drops(s, t, d, out)
         \/ /\ t = s /\ Drained(s, d) /\ RecordsNone(h, k, out) /\ out = <<>>
    <3>1. CASE QuietAt(b, d)
      BY <2>4, <3>1 DEF QuietAt
    <3>2. CASE GivenAt(b, d)
      <4>1. Given(b, d) /\ g = SegmentSkb /\ ~drained
        BY <2>8, <2>10, <3>2 DEF GivenAt
      <4> QED
        BY <2>4, <2>7, <3>2, <4>1 DEF GivenAt
    <3>3. CASE DrainsAt(b, d)
      BY <2>4, <2>8, <3>3 DEF DrainsAt
    <3>4. CASE DrainedAt(b, d)
      BY <2>4, <2>8, <3>4 DEF DrainedAt
    <3> QED
      BY <2>9, <3>1, <3>2, <3>3, <3>4 DEF MovesAt
  <2>12. fins \in BOOLEAN /\ (fins => NothingBehindFin /\ SideFins(s, d, h))
    BY <2>6 DEF NothingBehindFin
  <2> HIDE DEF s, t, h, k, out, drained, after, fins
  <2>13. SidePlaced(t, d, k, after) /\ (fins => SideFins(t, d, k))
    BY <2>3, <2>5, <2>6, <2>8, <2>11, <2>12, MovedPlaced
  <2> QED
    BY <2>2, <2>13 DEF SideOK, t, after, fins
<1> QED
  BY <1>1, <1>4, <1>5 DEF StepsWell

----------------------------------------------------------------------------
(***************************************************************************)
(* What the placement of a side says of the properties.                    *)
(***************************************************************************)
\* The numbers from "first" on are at offsets 0, 1, ...
LEMMA SpanOffsets ==
    ASSUME NEW first \in Int, NEW n \in Nat, n < SeqSpace
    PROVE  \A i \in 1 .. n : /\ Span(first, n)[i] \in SeqNum
                             /\ Offset(first, Span(first, n)[i]) = i - 1
<1> SUFFICES ASSUME NEW i \in 1 .. n
             PROVE  /\ Span(first, n)[i] \in SeqNum
                    /\ Offset(first, Span(first, n)[i]) = i - 1
  OBVIOUS
<1> DEFINE j == i - 1
<1>1. j \in SeqNum /\ j \in Int /\ first + j = first + i - 1
  BY SeqSpaceAssumption DEF SeqNum
<1>2. Span(first, n)[i] = (first + j) % SeqSpace
  BY <1>1, SpanIs
<1>3. (first + j) % SeqSpace \in SeqNum
  <2> HIDE DEF j
  <2>1. first + j \in Int
    BY <1>1
  <2> QED
    BY <2>1, ModType
<1> HIDE DEF j
<1>4. Offset(first, (first + j) % SeqSpace) = j
  BY <1>1, OffsetOfSum
<1> QED
  BY <1>2, <1>3, <1>4 DEF j

\* As many sequence numbers are in a set as its gapless beginning is long.
LEMMA SpanFits ==
    ASSUME NEW first \in Int, NEW n \in Nat, n < SeqSpace, NEW have \in SUBSET SeqNum,
           Range(Span(first, n)) \subseteq have
    PROVE  Cardinality(have) \in Nat /\ n <= Cardinality(have)
<1> DEFINE span == Span(first, n)
<1>1. IsFiniteSet(have) /\ Cardinality(have) \in Nat
  <2>1. SeqSpace - 1 \in Int
    BY SeqSpaceAssumption
  <2>2. IsFiniteSet(SeqNum)
    BY <2>1, FS_Interval DEF SeqNum
  <2> QED
    BY <2>2, FS_Subset, FS_CardinalityType
<1>2. DOMAIN span = 1 .. n /\ \A i \in 1 .. n : Offset(first, span[i]) = i - 1
  BY SpanIs, SpanOffsets
<1>3. \A i \in 1 .. n : span[i] \in have
  BY <1>2 DEF Range
<1>4. span \in [1 .. n -> have]
  BY <1>2, <1>3 DEF Span
<1>5. IsInjective(span)
  <2> HIDE DEF span
  <2>1. \A i \in 1 .. n : \A j \in 1 .. n : span[i] = span[j] => i = j
    BY <1>2
  <2> QED
    BY <1>2, <2>1 DEF IsInjective
<1>6. span \in Injection(1 .. n, have)
  BY <1>4, <1>5 DEF Injection
<1>7. Cardinality(1 .. n) <= Cardinality(have)
  BY <1>1, <1>6, FS_Injection
<1>8. Cardinality(1 .. n) = n
  <2>1. Cardinality(1 .. n) = IF 1 > n THEN 0 ELSE n - 1 + 1
    BY FS_Interval
  <2> QED
    BY <2>1
<1> QED
  BY <1>1, <1>7, <1>8

\* What is handed over of a side whose fragments lie ahead is the gapless
\* beginning of what it was given.
LEMMA PlacedPrefix ==
    ASSUME NEW first \in Int, NEW count \in SeqNum, NEW list \in Seq(Skbuff),
           NEW have \in SUBSET SeqNum, NEW got,
           Placed(first, count, list, have, got), Ahead(first, count, list)
    PROVE  Max({n \in 0 .. Cardinality(have) : Range(Span(first, n)) \subseteq have}) = Len(got)
<1> DEFINE S == {n \in 0 .. Cardinality(have) : Range(Span(first, n)) \subseteq have}
<1>1. count \in Nat /\ count < SeqSpace
  BY SeqSpaceAssumption DEF SeqNum
<1>2. Range(Span(first, count)) \subseteq have
  <2>1. \A i \in 1 .. count : /\ Span(first, count)[i] \in SeqNum
                              /\ Offset(first, Span(first, count)[i]) = i - 1
    BY <1>1, SpanOffsets
  <2>2. ASSUME NEW i \in 1 .. count PROVE Span(first, count)[i] \in have
    <3>1. Offset(first, Span(first, count)[i]) < count
      BY <1>1, <2>1
    <3> QED
      BY <2>1, <3>1 DEF Placed
  <2>3. DOMAIN Span(first, count) = 1 .. count
    BY <1>1, SpanIs
  <2> QED
    BY <2>2, <2>3 DEF Range
<1>3. Cardinality(have) \in Nat /\ count <= Cardinality(have)
  BY <1>1, <1>2, SpanFits
<1>4. count \in S
  BY <1>1, <1>2, <1>3
<1>5. ASSUME NEW n \in S, n > count
      PROVE  FALSE
  <2> DEFINE x == (first + count) % SeqSpace
  <2>1. Offset(first, x) = count
    BY OffsetOfSum
  <2>2. x \in SeqNum
    BY <1>1, ModType
  <2>3. n \in Nat /\ count + 1 \in 1 .. n /\ Range(Span(first, n)) \subseteq have
    BY <1>1, <1>3, <1>5
  <2>4. Span(first, n)[count + 1] = x /\ DOMAIN Span(first, n) = 1 .. n
    <3>1. first + (count + 1) - 1 = first + count
      BY <1>1
    <3> HIDE DEF S
    <3> QED
      BY <2>3, <3>1, SpanIs
  <2>5. x \in have
    BY <2>3, <2>4 DEF Range
  <2> HIDE DEF x
  <2>6. Offset(first, x) < count \/ Covers(first, list, x)
    BY <2>2, <2>5 DEF Placed
  <2>7. Covers(first, list, x)
    BY <1>1, <2>1, <2>6
  <2>8. PICK i \in DOMAIN list : Offset(first, list[i].seq) <= count
    BY <2>1, <2>7 DEF Covers, Holds
  <2>9. /\ list # <<>> /\ 1 \in DOMAIN list /\ (i = 1 \/ 1 < i)
        /\ Fits(first, list[i]) /\ Fits(first, list[1])
    <3>1. DOMAIN list = 1 .. Len(list) /\ Len(list) \in Nat
      OBVIOUS
    <3>2. 1 \in DOMAIN list /\ (i = 1 \/ 1 < i)
      BY <3>1
    <3>3. list # <<>>
      BY <3>1, <3>2
    <3> QED
      BY <3>2, <3>3 DEF Placed, AllFit
  <2>10. count < Offset(first, list[1].seq)
    BY <2>9 DEF Ahead
  <2>11. Offset(first, list[1].seq) <= Offset(first, list[i].seq)
    <3>1. Offset(first, list[1].seq) \in Nat
      BY <2>9, FitsIs
    <3>2. CASE 1 < i
      BY <2>9, <3>2 DEF Placed, Sorted
    <3>3. CASE i = 1
      BY <3>1, <3>3
    <3> QED
      BY <2>9, <3>2, <3>3
  <2>12. Offset(first, list[1].seq) \in Nat /\ Offset(first, list[i].seq) \in Nat
    BY <2>9, FitsIs
  <2> QED
    BY <1>1, <2>8, <2>10, <2>11, <2>12
<1>6. S \subseteq Nat
  BY <1>3
<1> HIDE DEF S
<1>7. /\ \A y \in S : count >= y
      /\ \A m \in S : (\A y \in S : m >= y) => m = count
  BY <1>1, <1>4, <1>5, <1>6
<1>8. Max(S) = count
  BY <1>4, <1>7 DEF Max
<1> QED
  BY <1>8 DEF S, Placed

\* When nothing is drained, all that could be handed over has been.
LEMMA PlacedPromptly == IInv /\ HistInv /\ AllPlaced => DeliveredPromptly
<1> SUFFICES ASSUME IInv, HistInv, AllPlaced, pc = "idle",
                    NEW a \in Connections, NEW d \in Side
             PROVE  Len(Got(a, d)) = Prefix(a, d)
  BY DEF DeliveredPromptly
<1> DEFINE s     == tcphashmap_[a]
           h     == history[a][d]
           first == s.half[d].first_data_seq
           count == s.half[Other(d)].count
           list  == s.half[Other(d)].fraglist
<1>1. a \in Live /\ a \in Ptr /\ s.isconnnection /\ ~h.early
  BY DEF Connections, Live
<1>2. s \in TcpStream /\ h \in Record
  BY <1>1, LiveType DEF IInv, TypeOK, TablesType, HistInv, HistType
<1>3. ~Draining(a, d)
  BY DEF Draining
<1>4. Placed(first, count, list, h.have, h.got) /\ Ahead(first, count, list)
  <2>1. SidePlaced(s, d, h, Draining(a, d))
    BY <1>1 DEF AllPlaced, SideOK
  <2> QED
    BY <1>1, <1>3, <2>1 DEF SidePlaced
<1>5. first \in Int /\ count \in SeqNum /\ list \in Seq(Skbuff) /\ h.have \in SUBSET SeqNum
  BY <1>2, SideType DEF Record
<1>6. Prefix(a, d) = Max({n \in 0 .. Cardinality(h.have) :
                              Range(Span(first, n)) \subseteq h.have})
  BY DEF Prefix
<1> HIDE DEF first, count, list, h
<1>7. Prefix(a, d) = Len(h.got)
  BY <1>4, <1>5, <1>6, PlacedPrefix
<1> QED
  BY <1>7 DEF Got, h

\* The ACK that closes a connection confirms a FIN of each side that was taken.
LEMMA CloseConfirms ==
    ASSUME IInv, NEW a \in Ptr, NEW from \in Side, CloseStream(a, from), NEW d \in Side
    PROVE  FinDone(tcphashmap_[a].half[d].state)
<1> DEFINE s == tcphashmap_[a]
           t == Acknowledge(s, from)
<1>1. a \in Live /\ pkt \in Packet /\ BothConfirmed(t)
  BY FindStreamLive, PktType DEF IInv, CloseStream, InWindow, Segment
<1>2. s \in TcpStream
  BY <1>1, LiveType DEF IInv, TypeOK, TablesType
<1> HIDE DEF s
<1>3. \/ t.half[d].state = s.half[d].state
      \/ s.half[d].state = "FIN_SENT" /\ t.half[d].state = "FIN_CONFIRMED"
  BY <1>1, <1>2, AcknowledgeStates
<1>4. t.half[d].state = "FIN_CONFIRMED"
  BY <1>1 DEF BothConfirmed
<1> QED
  BY <1>3, <1>4 DEF FinDone, s

\* While a packet is in hand, only such an ACK closes.
LEMMA OnlyCloseStreamCloses ==
    ASSUME Next, pc = "segment", NEW e \in callbacks'.ended, e.kind = "close"
    PROVE  \E a \in Ptr, from \in Side : CloseStream(a, from) /\ e.addr = tcphashmap_[a].addr
<1>1. ASSUME Receive \/ Ignore
      PROVE  FALSE
  <2>1. ~Receive
    BY DEF Receive, CheckTimeouts
  <2> QED
    BY <1>1, <2>1 DEF Ignore, NoCallbacks
<1>2. ASSUME NEW a \in Ptr, NEW gc \in Garbage, NEW gs \in Garbage, AddNewtcp(a, gc, gs)
      PROVE  FALSE
  BY <1>2 DEF AddNewtcp, NoCallbacks, Ended
<1>3. ASSUME NEW a \in Ptr, NEW from \in Side,
             \/ \E b \in Ptr, gc, gs \in Garbage : RestartStream(a, from, b, gc, gs)
             \/ SecondHandshake(a, from) \/ DropSegment(a, from) \/ AckSegment(a, from)
             \/ ThirdHandshake(a, from)
      PROVE  FALSE
  <2>1. ASSUME callbacks' = NoCallbacks
        PROVE  FALSE
    BY <2>1 DEF NoCallbacks
  <2>2. CASE SecondHandshake(a, from)
    <3>1. callbacks' = NoCallbacks
      BY <2>2 DEF SecondHandshake
    <3> QED
      BY <2>1, <3>1
  <2>3. CASE ThirdHandshake(a, from)
    BY <2>3 DEF ThirdHandshake, NoCallbacks
  <2>4. CASE \/ \E b \in Ptr, gc, gs \in Garbage : RestartStream(a, from, b, gc, gs)
             \/ DropSegment(a, from) \/ AckSegment(a, from)
    BY <2>1, <2>4 DEF RestartStream, DropSegment, AckSegment
  <2> QED
    BY <1>3, <2>2, <2>3, <2>4
<1>4. ASSUME NEW a \in Ptr, NEW from \in Side, ResetStream(a, from)
      PROVE  FALSE
  BY <1>4 DEF ResetStream, NoCallbacks, Ended
<1>5. ASSUME NEW a \in Ptr, NEW from \in Side, CloseStream(a, from)
      PROVE  e.addr = tcphashmap_[a].addr
  BY <1>5 DEF CloseStream, NoCallbacks, Ended
<1>6. ASSUME NEW a \in Ptr, NEW from \in Side,
             \/ QueueInOrder(a, from) \/ QueueOld(a, from) \/ QueueOutOfOrder(a, from)
             \/ DrainFragment(a, from) \/ DrainEnd(a, from) \/ Finish(a, from)
      PROVE  FALSE
  BY <1>6 DEF QueueInOrder, QueueOld, QueueOutOfOrder, DrainFragment, DrainEnd, Finish
<1> QED
  BY <1>1, <1>2, <1>3, <1>4, <1>5, <1>6 DEF Next, Process

\* A connection that is closed is complete.
ClosedComplete ==
    \A a \in Connections :
        (pc = "segment" /\ [addr |-> tcphashmap_[a].addr, kind |-> "close"] \in callbacks'.ended)
        => \A side \in Side : ExpSeq(tcphashmap_[a], side) \in history[a][side].fins

LEMMA NextClosedComplete ==
    ASSUME IInv, AllPlaced, NothingBehindFin, Next
    PROVE  ClosedComplete
<1> SUFFICES ASSUME NEW a \in Connections, pc = "segment",
                    [addr |-> tcphashmap_[a].addr, kind |-> "close"] \in callbacks'.ended,
                    NEW d \in Side
             PROVE  ExpSeq(tcphashmap_[a], d) \in history[a][d].fins
  BY DEF ClosedComplete
<1> DEFINE e == [addr |-> tcphashmap_[a].addr, kind |-> "close"]
<1>1. /\ a \in Live /\ tcphashmap_[a].isconnnection /\ ~history[a][d].early
  BY DEF Connections
<1>2. PICK c \in Ptr, from \in Side : /\ CloseStream(c, from)
                                      /\ tcphashmap_[a].addr = tcphashmap_[c].addr
  <2>1. e \in callbacks'.ended /\ e.kind = "close" /\ e.addr = tcphashmap_[a].addr
    OBVIOUS
  <2> HIDE DEF e
  <2> QED
    BY <2>1, OnlyCloseStreamCloses
<1>3. c \in Live
  BY <1>2, FindStreamLive DEF CloseStream, InWindow, Segment
<1>4. a = c
  BY <1>1, <1>2, <1>3 DEF IInv, TablesInv, UniqueFlow
<1>5. FinDone(tcphashmap_[a].half[d].state)
  BY <1>2, <1>4, CloseConfirms
<1>6. SideFins(tcphashmap_[a], d, history[a][d])
  BY <1>1 DEF AllPlaced, SideOK
<1> QED
  BY <1>1, <1>5, <1>6 DEF SideFins, FinsPlaced, ExpSeq

\* What is invariant of the history of short directions.
PlacedInv == HistInv /\ PktGiven /\ AllOrigin /\ AllPlaced

LEMMA InitPlacedInv == HistInit => PlacedInv
<1> SUFFICES ASSUME HistInit PROVE PlacedInv
  OBVIOUS
<1>1. Live = {} /\ pc = "idle"
  BY DEF HistInit, Init, Live
<1> QED
  BY <1>1, InitHistInv DEF PlacedInv, PktGiven, AllOrigin, AllPlaced

LEMMA NextPlacedInv ==
    ASSUME IInv, PlacedInv, NoUrgentData, ShortDirections, [HistNext]_histVars
    PROVE  PlacedInv'
<1>1. HistInv'
  BY NextHistInv DEF PlacedInv
<1>2. CASE HistNext
  <2>1. Next
    BY <1>2 DEF HistNext
  <2>2. PktGiven'
    BY <2>1, NextPktGiven
  <2>3. AllOrigin'
    BY <2>1, NextOrigin DEF PlacedInv, HistInv
  <2>4. AllPlaced'
    BY <1>2, NextPlaced DEF PlacedInv
  <2> QED
    BY <1>1, <2>2, <2>3, <2>4 DEF PlacedInv
<1>3. CASE UNCHANGED histVars
  <2>1. /\ tcphashmap_' = tcphashmap_ /\ pc' = pc /\ pkt' = pkt /\ history' = history
    BY <1>3 DEF histVars, vars, tables
  <2>2. Live' = Live
    BY <2>1 DEF Live
  <2>3. PktGiven'
    BY <2>1 DEF PlacedInv, PktGiven
  <2>4. AllOrigin'
    BY <2>1, <2>2 DEF PlacedInv, AllOrigin
  <2>5. \A b, d : Draining(b, d)' = Draining(b, d)
    BY <2>1, <2>2 DEF Draining, FindStream, FindStreamAux
  <2>6. AllPlaced'
    BY <2>1, <2>2, <2>5 DEF PlacedInv, AllPlaced, SideOK
  <2> QED
    BY <1>1, <2>3, <2>4, <2>6 DEF PlacedInv
<1> QED
  BY <1>2, <1>3

LEMMA PlacedInvariant ==
    ASSUME NoUrgentData, ShortDirections
    PROVE  HistSpec => [](IInv /\ PlacedInv)
<1>1. HistSpec => []IInv
  BY HistSpecIsSpec, Invariance, PTL
<1>2. IInv /\ PlacedInv /\ [HistNext]_histVars => PlacedInv'
  BY NextPlacedInv
<1>3. HistSpec => HistInit /\ [][HistNext]_histVars
  BY PTL DEF HistSpec
<1> QED
  BY <1>1, <1>2, <1>3, InitPlacedInv, PTL

\* Between two packets every byte that could be handed over has been: what the
\* drain of the fraglist leaves behind (tcpQueue, TcpFragment.cc) lies beyond a
\* gap.  Without urgent data, and for directions shorter than half the sequence
\* space: after() cannot tell the numbers of longer ones apart.
THEOREM DeliveredPromptlyHolds ==
    ASSUME NoUrgentData, ShortDirections
    PROVE  HistSpec => []DeliveredPromptly
<1>1. IInv /\ PlacedInv => DeliveredPromptly
  BY PlacedPromptly DEF PlacedInv
<1> QED
  BY <1>1, PlacedInvariant, PTL

\* An ACK that closes a connection (processTcp, when both halves are
\* FIN_CONFIRMED) cuts no payload off: both directions have been handed over up to a FIN.
\* The end points must not send payload behind their FIN, which addFromskb
\* would take as readily.
THEOREM ClosedWhenCompleteHolds ==
    ASSUME NoUrgentData, ShortDirections, NothingBehindFin
    PROVE  HistSpec => ClosedWhenComplete
<1>1. IInv /\ PlacedInv /\ [HistNext]_histVars => [ClosedComplete]_histVars
  <2> SUFFICES ASSUME IInv, PlacedInv, HistNext PROVE ClosedComplete
    OBVIOUS
  <2>1. Next
    BY DEF HistNext
  <2> QED
    BY <2>1, NextClosedComplete DEF PlacedInv
<1>2. HistSpec => [][HistNext]_histVars
  BY PTL DEF HistSpec
<1>3. HistSpec => [][ClosedComplete]_histVars
  BY <1>1, <1>2, PlacedInvariant, PTL
<1> QED
  BY <1>3 DEF ClosedWhenComplete, ClosedComplete
==============================================================================
