-------------------------- MODULE IpFragmentProofs ---------------------------
(***************************************************************************)
(* What IpFragment keeps for every set of packets, table and bound; at the *)
(* end, that it implements IpService, delivers a datagram that is complete *)
(* and keeps none longer than it should.                                   *)
(***************************************************************************)
EXTENDS IpReassembly, SumProofs, FiniteSetTheorems

----------------------------------------------------------------------------
\* Indices

LEMMA MinIs ==
    ASSUME NEW S \in SUBSET Nat, S # {}
    PROVE  Min(S) \in S /\ \A y \in S : Min(S) <= y
  <1>1. \E x \in S : \A y \in S : x <= y
    BY Least
  <1> QED BY <1>1 DEF Min

\* The index found is the first.
LEMMA FirstIs ==
    ASSUME NEW n \in Nat, NEW S \in SUBSET (1 .. n)
    PROVE  /\ First(S, n) \in 1 .. n + 1
           /\ First(S, n) <= n => First(S, n) \in S
           /\ \A i \in 1 .. n : i < First(S, n) => i \notin S
  <1> DEFINE T == S \cup {n + 1}
  <1>1. T \in SUBSET Nat /\ T # {} /\ T \subseteq 1 .. n + 1
    OBVIOUS
  <1>2. Min(T) \in T /\ \A y \in T : Min(T) <= y
    BY <1>1, MinIs
  <1>3. First(S, n) = Min(T)
    BY DEF First
  <1>4. Min(T) \in 1 .. n + 1
    BY <1>1, <1>2
  <1>5. \A i \in S : Min(T) <= i
    BY <1>2
  <1>6. Min(T) <= n => Min(T) \in S
    BY <1>2
  <1> HIDE DEF T
  <1>7. \A i \in 1 .. n : i < Min(T) => i \notin S
    BY <1>4, <1>5
  <1> QED BY <1>3, <1>4, <1>6, <1>7

----------------------------------------------------------------------------
\* Lists

LEMMA RemoveAtIs ==
    ASSUME NEW S, NEW s \in Seq(S), NEW k \in 1 .. Len(s)
    PROVE  /\ RemoveAt(s, k) \in Seq(S)
           /\ Len(RemoveAt(s, k)) = Len(s) - 1
           /\ \A i \in 1 .. Len(s) - 1 : RemoveAt(s, k)[i] = IF i < k THEN s[i] ELSE s[i + 1]
  <1> DEFINE u == SubSeq(s, 1, k - 1)
             v == SubSeq(s, k + 1, Len(s))
  <1>1. u \in Seq(S) /\ Len(u) = k - 1 /\ \A i \in 1 .. k - 1 : u[i] = s[i]
    BY SubSeqProperties
  <1>2. v \in Seq(S) /\ Len(v) = Len(s) - k /\ \A i \in 1 .. Len(s) - k : v[i] = s[k + i]
    BY SubSeqProperties
  <1>3. RemoveAt(s, k) = u \o v
    BY DEF RemoveAt
  <1> HIDE DEF u, v
  <1>4. u \o v \in Seq(S) /\ Len(u \o v) = Len(s) - 1
    BY <1>1, <1>2
  <1>5. ASSUME NEW i \in 1 .. Len(s) - 1
        PROVE  (u \o v)[i] = IF i < k THEN s[i] ELSE s[i + 1]
    <2>1. CASE i < k
      BY <1>1, <1>2, <2>1
    <2>2. CASE i >= k
      <3>1. (u \o v)[i] = v[i - (k - 1)]
        <4>1. Len(u) + Len(v) = Len(s) - 1 /\ i \in 1 .. Len(u) + Len(v) /\ ~(i <= Len(u))
          BY <1>1, <1>2, <2>2
        <4>2. (u \o v)[i] = IF i <= Len(u) THEN u[i] ELSE v[i - Len(u)]
          BY <1>1, <1>2, <4>1, ConcatProperties
        <4> QED BY <1>1, <4>1, <4>2
      <3>2. i - (k - 1) \in 1 .. Len(s) - k /\ k + (i - (k - 1)) = i + 1
        BY <2>2
      <3>3. v[i - (k - 1)] = s[k + (i - (k - 1))]
        BY <1>2, <3>2
      <3> QED BY <2>2, <3>1, <3>2, <3>3
    <2> QED
      <3>1. i < k \/ i >= k
        OBVIOUS
      <3> QED BY <2>1, <2>2, <3>1
  <1> QED BY <1>3, <1>4, <1>5

\* s has no element twice.
Distinct(s) == \A i, j \in 1 .. Len(s) : s[i] = s[j] => i = j

LEMMA RemoveAtDistinct ==
    ASSUME NEW S, NEW s \in Seq(S), NEW k \in 1 .. Len(s), Distinct(s)
    PROVE  /\ Distinct(RemoveAt(s, k))
           /\ ToSet(RemoveAt(s, k)) = ToSet(s) \ {s[k]}
  <1> DEFINE r == RemoveAt(s, k)
  <1>1. /\ r \in Seq(S) /\ Len(r) = Len(s) - 1
        /\ \A i \in 1 .. Len(s) - 1 : r[i] = IF i < k THEN s[i] ELSE s[i + 1]
    BY RemoveAtIs
  <1> HIDE DEF r
  <1>2. Distinct(r)
    <2> SUFFICES ASSUME NEW i \in 1 .. Len(r), NEW j \in 1 .. Len(r), r[i] = r[j] PROVE i = j
      BY DEF Distinct
    <2> DEFINE a == IF i < k THEN i ELSE i + 1
               b == IF j < k THEN j ELSE j + 1
    <2>1. a \in 1 .. Len(s) /\ b \in 1 .. Len(s) /\ s[a] = s[b]
      BY <1>1
    <2>2. a = b
      BY <2>1 DEF Distinct
    <2> QED BY <2>2
  <1>3. ASSUME NEW x \in ToSet(r) PROVE x \in ToSet(s) \ {s[k]}
    <2>1. PICK i \in 1 .. Len(r) : x = r[i]
      BY <1>1 DEF ToSet
    <2> DEFINE a == IF i < k THEN i ELSE i + 1
    <2>2. a \in 1 .. Len(s) /\ a # k /\ x = s[a]
      BY <1>1, <2>1
    <2> HIDE DEF a
    <2> QED BY <2>2 DEF Distinct, ToSet
  <1>4. ASSUME NEW x \in ToSet(s) \ {s[k]} PROVE x \in ToSet(r)
    <2>1. PICK i \in 1 .. Len(s) : x = s[i] /\ i # k
      BY DEF ToSet
    <2> DEFINE a == IF i < k THEN i ELSE i - 1
    <2>2. a \in 1 .. Len(r) /\ r[a] = x
      BY <1>1, <2>1
    <2> HIDE DEF a
    <2> QED BY <1>1, <2>2 DEF ToSet
  <1> QED BY <1>2, <1>3, <1>4 DEF r

----------------------------------------------------------------------------
\* The list of timers

Timers == [head : OrNull(Ptr), tail : OrNull(Ptr),
           prev : [Ptr -> OrNull(Ptr)], next : [Ptr -> OrNull(Ptr)]]

\* The list goes through s and back.
Chain(list, s) ==
    /\ Distinct(s)
    /\ list.head = IF Len(s) = 0 THEN Null ELSE s[1]
    /\ list.tail = IF Len(s) = 0 THEN Null ELSE s[Len(s)]
    /\ \A i \in 1 .. Len(s) :
           /\ list.prev[s[i]] = IF i = 1 THEN Null ELSE s[i - 1]
           /\ list.next[s[i]] = IF i = Len(s) THEN Null ELSE s[i + 1]

LEMMA NullIsNoPtr == Null \notin Ptr
  BY IpAssumption

LEMMA AddTimerChain ==
    ASSUME NEW list \in Timers, NEW s \in Seq(Ptr), Chain(list, s),
           NEW x \in Ptr, x \notin ToSet(s)
    PROVE  /\ AddTimer(list, x) \in Timers
           /\ Chain(AddTimer(list, x), Append(s, x))
           /\ ToSet(Append(s, x)) = ToSet(s) \cup {x}
  <1> DEFINE r == Append(s, x)
             l == AddTimer(list, x)
  <1>1. /\ r \in Seq(Ptr) /\ Len(r) = Len(s) + 1 /\ r[Len(s) + 1] = x
        /\ \A i \in 1 .. Len(s) : r[i] = s[i]
    OBVIOUS
  <1>2. \A i \in 1 .. Len(s) : s[i] # x /\ s[i] \in Ptr
    BY ElementOfSeq DEF ToSet
  <1> HIDE DEF r
  <1>3. Distinct(r)
    BY <1>1, <1>2 DEF Chain, Distinct
  <1>4. ToSet(r) = ToSet(s) \cup {x}
    BY <1>1 DEF ToSet
  <1>5. CASE Len(s) = 0
    <2>1. list.tail = Null
      BY <1>5 DEF Chain
    <2>2. l = [list EXCEPT !.prev[x] = Null, !.next[x] = Null, !.head = x, !.tail = x]
      BY <2>1 DEF AddTimer
    <2>3. l \in Timers
      <3>1. list = [head |-> list.head, tail |-> list.tail, prev |-> list.prev, next |-> list.next]
        BY DEF Timers
      <3>2. l = [head |-> x, tail |-> x, prev |-> [list.prev EXCEPT ![x] = Null],
                 next |-> [list.next EXCEPT ![x] = Null]]
        BY <2>2, <3>1
      <3> HIDE DEF l
      <3>3. list.prev \in [Ptr -> OrNull(Ptr)] /\ list.next \in [Ptr -> OrNull(Ptr)]
        BY DEF Timers
      <3>4. x \in OrNull(Ptr) /\ Null \in OrNull(Ptr)
        BY DEF OrNull
      <3>5. /\ [list.prev EXCEPT ![x] = Null] \in [Ptr -> OrNull(Ptr)]
            /\ [list.next EXCEPT ![x] = Null] \in [Ptr -> OrNull(Ptr)]
        BY <3>3, <3>4
      <3> QED BY <3>2, <3>4, <3>5 DEF Timers
    <2>4. l.head = x /\ l.tail = x /\ l.prev[x] = Null /\ l.next[x] = Null
      BY <2>2 DEF Timers
    <2> HIDE DEF l
    <2>5. Chain(l, r)
      BY <1>1, <1>3, <1>5, <2>4 DEF Chain
    <2> QED BY <1>4, <2>3, <2>5 DEF l, r
  <1>6. CASE Len(s) # 0
    <2> DEFINE y == s[Len(s)]
    <2>1. list.tail = y /\ y \in Ptr /\ y # x /\ y # Null
      BY <1>2, <1>6, NullIsNoPtr DEF Chain
    <2> HIDE DEF y
    <2>2. l = [list EXCEPT !.next = [@ EXCEPT ![y] = x, ![x] = Null],
                           !.prev[x] = y, !.tail = x]
      BY <2>1 DEF AddTimer
    <2>3. l \in Timers
      <3>1. list = [head |-> list.head, tail |-> list.tail, prev |-> list.prev, next |-> list.next]
        BY DEF Timers
      <3>2. l = [head |-> list.head, tail |-> x, prev |-> [list.prev EXCEPT ![x] = y],
                 next |-> [list.next EXCEPT ![y] = x, ![x] = Null]]
        BY <2>2, <3>1
      <3> HIDE DEF l
      <3>3. /\ list.prev \in [Ptr -> OrNull(Ptr)] /\ list.next \in [Ptr -> OrNull(Ptr)]
            /\ list.head \in OrNull(Ptr)
        BY DEF Timers
      <3>4. x \in OrNull(Ptr) /\ y \in OrNull(Ptr) /\ Null \in OrNull(Ptr)
        BY <2>1 DEF OrNull
      <3>5. /\ [list.prev EXCEPT ![x] = y] \in [Ptr -> OrNull(Ptr)]
            /\ [list.next EXCEPT ![y] = x, ![x] = Null] \in [Ptr -> OrNull(Ptr)]
        BY <3>3, <3>4
      <3> QED BY <3>2, <3>3, <3>4, <3>5 DEF Timers
    <2>4. /\ l.head = list.head /\ l.tail = x
          /\ l.prev = [list.prev EXCEPT ![x] = y]
          /\ l.next = [list.next EXCEPT ![y] = x, ![x] = Null]
      BY <2>2 DEF Timers
    <2>5. list.prev \in [Ptr -> OrNull(Ptr)] /\ list.next \in [Ptr -> OrNull(Ptr)]
      BY DEF Timers
    <2> HIDE DEF l
    <2>6. l.prev[x] = y /\ l.next[x] = Null /\ l.next[y] = x
      BY <2>1, <2>4, <2>5
    <2>7. \A z \in Ptr : z # x => l.prev[z] = list.prev[z]
      BY <2>4, <2>5
    <2>8. \A z \in Ptr : z # x /\ z # y => l.next[z] = list.next[z]
      BY <2>4, <2>5
    <2>9. l.head = r[1] /\ l.tail = r[Len(r)]
      BY <1>1, <1>6, <2>4 DEF Chain
    <2>10. ASSUME NEW i \in 1 .. Len(r)
           PROVE  /\ l.prev[r[i]] = IF i = 1 THEN Null ELSE r[i - 1]
                  /\ l.next[r[i]] = IF i = Len(r) THEN Null ELSE r[i + 1]
      <3>1. CASE i = Len(r)
        BY <1>1, <1>6, <2>6, <3>1 DEF y
      <3>2. CASE i = Len(s)
        <4>1. r[i] = y /\ r[i + 1] = x
          BY <1>1, <1>6, <3>2 DEF y
        <4>2. l.prev[y] = list.prev[y]
          BY <2>1, <2>7
        <4>3. list.prev[y] = IF i = 1 THEN Null ELSE s[i - 1]
          BY <1>6, <3>2 DEF Chain, y
        <4> QED BY <1>1, <2>6, <3>2, <4>1, <4>2, <4>3
      <3>3. CASE i < Len(s)
        <4>1. r[i] = s[i] /\ r[i + 1] = s[i + 1] /\ s[i] \in Ptr /\ s[i] # x
          BY <1>1, <1>2, <3>3
        <4>2. s[i] # y
          BY <1>6, <3>3 DEF y, Chain, Distinct
        <4>3. /\ list.prev[s[i]] = IF i = 1 THEN Null ELSE s[i - 1]
              /\ list.next[s[i]] = s[i + 1]
          BY <3>3 DEF Chain
        <4>4. i # 1 => r[i - 1] = s[i - 1]
          BY <1>1, <3>3
        <4> QED BY <1>1, <2>7, <2>8, <3>3, <4>1, <4>2, <4>3, <4>4
      <3>4. i < Len(s) \/ i = Len(s) \/ i = Len(r)
        BY <1>1
      <3> QED BY <3>1, <3>2, <3>3, <3>4
    <2>11. Chain(l, r)
      BY <1>1, <1>3, <2>9, <2>10 DEF Chain
    <2> QED BY <1>4, <2>3, <2>11 DEF l, r
  <1> QED BY <1>5, <1>6

\* What the two sides of a deleted timer are joined to.
LEMMA DelTimerIs ==
    ASSUME NEW list \in Timers, NEW s \in Seq(Ptr), Chain(list, s), NEW k \in 1 .. Len(s)
    PROVE  LET l == DelTimer(list, s[k])
               p == IF k = 1 THEN Null ELSE s[k - 1]
               n == IF k = Len(s) THEN Null ELSE s[k + 1]
           IN  /\ l \in Timers
               /\ list.prev[s[k]] = p /\ list.next[s[k]] = n
               /\ l.prev[s[k]] = p /\ l.next[s[k]] = n
               /\ l.head = IF k = 1 THEN n ELSE list.head
               /\ l.tail = IF k = Len(s) THEN p ELSE list.tail
               /\ \A z \in Ptr : l.next[z] = IF k # 1 /\ z = p THEN n ELSE list.next[z]
               /\ \A z \in Ptr : l.prev[z] = IF k # Len(s) /\ z = n THEN p ELSE list.prev[z]
  <1> DEFINE l == DelTimer(list, s[k])
             p == IF k = 1 THEN Null ELSE s[k - 1]
             n == IF k = Len(s) THEN Null ELSE s[k + 1]
  <1>1. \A i \in 1 .. Len(s) : s[i] \in Ptr /\ s[i] # Null
    BY ElementOfSeq, NullIsNoPtr
  <1>2. list.prev[s[k]] = p /\ list.next[s[k]] = n
    BY DEF Chain
  <1>3. /\ p \in OrNull(Ptr) /\ n \in OrNull(Ptr)
        /\ (p = Null) <=> (k = 1)
        /\ (n = Null) <=> (k = Len(s))
        /\ k # 1 => p \in Ptr
        /\ k # Len(s) => n \in Ptr
    BY <1>1 DEF OrNull
  <1>4. p # s[k] /\ n # s[k]
    <2>1. k # 1 => s[k - 1] # s[k]
      BY DEF Chain, Distinct
    <2>2. k # Len(s) => s[k + 1] # s[k]
      BY DEF Chain, Distinct
    <2> QED BY <1>1, <2>1, <2>2
  <1> HIDE DEF p, n
  <1>5. l = [head |-> IF p = Null THEN n ELSE list.head,
             tail |-> IF n = Null THEN p ELSE list.tail,
             next |-> IF p = Null THEN list.next ELSE [list.next EXCEPT ![p] = n],
             prev |-> IF n = Null THEN list.prev ELSE [list.prev EXCEPT ![n] = p]]
    BY <1>2 DEF DelTimer
  <1>6. /\ list.prev \in [Ptr -> OrNull(Ptr)] /\ list.next \in [Ptr -> OrNull(Ptr)]
        /\ list.head \in OrNull(Ptr) /\ list.tail \in OrNull(Ptr)
    BY DEF Timers
  <1>7. l \in Timers
    BY <1>3, <1>5, <1>6 DEF Timers
  <1>8. /\ l.head = IF k = 1 THEN n ELSE list.head
        /\ l.tail = IF k = Len(s) THEN p ELSE list.tail
        /\ l.next = IF k = 1 THEN list.next ELSE [list.next EXCEPT ![p] = n]
        /\ l.prev = IF k = Len(s) THEN list.prev ELSE [list.prev EXCEPT ![n] = p]
    BY <1>3, <1>5
  <1> HIDE DEF l
  <1>9. /\ \A z \in Ptr : l.next[z] = IF k # 1 /\ z = p THEN n ELSE list.next[z]
        /\ \A z \in Ptr : l.prev[z] = IF k # Len(s) /\ z = n THEN p ELSE list.prev[z]
    BY <1>3, <1>6, <1>8
  <1>10. l.prev[s[k]] = p /\ l.next[s[k]] = n
    BY <1>1, <1>2, <1>4, <1>9
  <1> QED BY <1>2, <1>7, <1>8, <1>9, <1>10 DEF l, p, n

LEMMA DelTimerChain ==
    ASSUME NEW list \in Timers, NEW s \in Seq(Ptr), Chain(list, s), NEW k \in 1 .. Len(s)
    PROVE  Chain(DelTimer(list, s[k]), RemoveAt(s, k))
  <1> DEFINE l == DelTimer(list, s[k])
             r == RemoveAt(s, k)
             p == IF k = 1 THEN Null ELSE s[k - 1]
             n == IF k = Len(s) THEN Null ELSE s[k + 1]
  <1>1. /\ l.head = IF k = 1 THEN n ELSE list.head
        /\ l.tail = IF k = Len(s) THEN p ELSE list.tail
        /\ \A z \in Ptr : l.next[z] = IF k # 1 /\ z = p THEN n ELSE list.next[z]
        /\ \A z \in Ptr : l.prev[z] = IF k # Len(s) /\ z = n THEN p ELSE list.prev[z]
    BY DelTimerIs
  <1>2. /\ r \in Seq(Ptr) /\ Len(r) = Len(s) - 1
        /\ \A i \in 1 .. Len(s) - 1 : r[i] = IF i < k THEN s[i] ELSE s[i + 1]
    BY RemoveAtIs
  <1>3. Distinct(s) /\ Distinct(r)
    BY RemoveAtDistinct DEF Chain
  <1>4. \A i \in 1 .. Len(s) : s[i] \in Ptr
    BY ElementOfSeq
  <1>5. /\ list.head = s[1]
        /\ list.tail = s[Len(s)]
        /\ \A i \in 1 .. Len(s) :
               /\ list.prev[s[i]] = IF i = 1 THEN Null ELSE s[i - 1]
               /\ list.next[s[i]] = IF i = Len(s) THEN Null ELSE s[i + 1]
    BY DEF Chain
  <1> HIDE DEF l, r
  <1>6. \A i \in 1 .. Len(s) : k # 1 => (s[i] = p <=> i = k - 1)
    BY <1>3 DEF Distinct
  <1>7. \A i \in 1 .. Len(s) : k # Len(s) => (s[i] = n <=> i = k + 1)
    BY <1>3 DEF Distinct
  <1>8. \A i \in 1 .. Len(s) :
           /\ l.next[s[i]] = IF k # 1 /\ i = k - 1 THEN n ELSE IF i = Len(s) THEN Null ELSE s[i + 1]
           /\ l.prev[s[i]] = IF k # Len(s) /\ i = k + 1 THEN p ELSE IF i = 1 THEN Null ELSE s[i - 1]
    <2> HIDE DEF p, n
    <2> QED BY <1>1, <1>4, <1>5, <1>6, <1>7
  <1>9. l.head = IF Len(r) = 0 THEN Null ELSE r[1]
    BY <1>1, <1>2, <1>5
  <1>10. l.tail = IF Len(r) = 0 THEN Null ELSE r[Len(r)]
    BY <1>1, <1>2, <1>5
  <1>11. ASSUME NEW i \in 1 .. Len(r)
         PROVE  /\ l.prev[r[i]] = IF i = 1 THEN Null ELSE r[i - 1]
                /\ l.next[r[i]] = IF i = Len(r) THEN Null ELSE r[i + 1]
    <2>1. CASE i < k - 1
      <3>1. r[i] = s[i] /\ r[i + 1] = s[i + 1] /\ (i # 1 => r[i - 1] = s[i - 1])
        BY <1>2, <2>1
      <3>2. i # k - 1 /\ i # k + 1 /\ i # Len(s) /\ i # Len(r) /\ i \in 1 .. Len(s)
        BY <1>2, <2>1
      <3> QED BY <1>8, <3>1, <3>2
    <2>2. CASE i = k - 1
      <3>1. r[i] = s[i] /\ (i # 1 => r[i - 1] = s[i - 1])
        BY <1>2, <2>2
      <3>2. i # k + 1 /\ k # 1 /\ i \in 1 .. Len(s)
        BY <1>2, <2>2
      <3>3. l.prev[s[i]] = (IF i = 1 THEN Null ELSE s[i - 1]) /\ l.next[s[i]] = n
        BY <1>8, <2>2, <3>2
      <3>4. n = IF i = Len(r) THEN Null ELSE r[i + 1]
        BY <1>2, <2>2
      <3> QED BY <3>1, <3>3, <3>4
    <2>3. CASE i = k
      <3>1. r[i] = s[i + 1] /\ (i # 1 => r[i - 1] = s[i - 1]) /\ (i # Len(r) => r[i + 1] = s[i + 2])
        BY <1>2, <2>3
      <3>2. i + 1 # k - 1 /\ i + 1 = k + 1 /\ k # Len(s) /\ i + 1 \in 1 .. Len(s)
        BY <1>2, <2>3
      <3>3. l.prev[s[i + 1]] = p /\ l.next[s[i + 1]] = IF i + 1 = Len(s) THEN Null ELSE s[i + 2]
        BY <1>8, <3>2
      <3>4. (i = Len(r)) <=> (i + 1 = Len(s))
        BY <1>2
      <3>5. p = IF i = 1 THEN Null ELSE s[i - 1]
        BY <2>3
      <3> QED BY <3>1, <3>3, <3>4, <3>5
    <2>4. CASE i > k
      <3>1. r[i] = s[i + 1] /\ r[i - 1] = s[i] /\ (i # Len(r) => r[i + 1] = s[i + 2])
        <4>1. i \in 1 .. Len(s) - 1 /\ i - 1 \in 1 .. Len(s) - 1 /\ ~(i < k) /\ ~(i - 1 < k) /\ ~(i + 1 < k)
          BY <1>2, <2>4
        <4>2. r[i] = s[i + 1] /\ r[i - 1] = s[(i - 1) + 1] /\ (i - 1) + 1 = i
          BY <1>2, <4>1
        <4>3. ASSUME i # Len(r) PROVE r[i + 1] = s[i + 2]
          <5>1. i + 1 \in 1 .. Len(s) - 1 /\ (i + 1) + 1 = i + 2
            BY <1>2, <4>3
          <5>2. r[i + 1] = s[(i + 1) + 1]
            BY <1>2, <4>1, <5>1
          <5> QED BY <5>1, <5>2
        <4> QED BY <4>2, <4>3
      <3>2. i + 1 # k - 1 /\ i + 1 # k + 1 /\ i # 1 /\ i + 1 \in 1 .. Len(s) /\ i + 1 # 1
        BY <1>2, <2>4
      <3>3. l.prev[s[i + 1]] = s[i] /\ l.next[s[i + 1]] = IF i + 1 = Len(s) THEN Null ELSE s[i + 2]
        BY <1>8, <3>2
      <3>4. (i = Len(r)) <=> (i + 1 = Len(s))
        BY <1>2
      <3> QED BY <3>1, <3>2, <3>3, <3>4
    <2> QED BY <2>1, <2>2, <2>3, <2>4
  <1>12. Chain(l, r)
    BY <1>3, <1>9, <1>10, <1>11 DEF Chain
  <1> QED BY <1>12 DEF l, r

\* ipFind and its callers delete one timer twice.
LEMMA DelTimerTwice ==
    ASSUME NEW list \in Timers, NEW s \in Seq(Ptr), Chain(list, s), NEW k \in 1 .. Len(s)
    PROVE  DelTimer(DelTimer(list, s[k]), s[k]) = DelTimer(list, s[k])
  <1> DEFINE l == DelTimer(list, s[k])
             p == IF k = 1 THEN Null ELSE s[k - 1]
             n == IF k = Len(s) THEN Null ELSE s[k + 1]
  <1>1. /\ l \in Timers
        /\ l.prev[s[k]] = p /\ l.next[s[k]] = n
        /\ l.head = IF k = 1 THEN n ELSE list.head
        /\ l.tail = IF k = Len(s) THEN p ELSE list.tail
        /\ \A z \in Ptr : l.next[z] = IF k # 1 /\ z = p THEN n ELSE list.next[z]
        /\ \A z \in Ptr : l.prev[z] = IF k # Len(s) /\ z = n THEN p ELSE list.prev[z]
    BY DelTimerIs
  <1>2. \A i \in 1 .. Len(s) : s[i] \in Ptr /\ s[i] # Null
    BY ElementOfSeq, NullIsNoPtr
  <1>3. /\ (p = Null) <=> (k = 1)
        /\ (n = Null) <=> (k = Len(s))
        /\ k # 1 => p \in Ptr
        /\ k # Len(s) => n \in Ptr
    BY <1>2
  <1> HIDE DEF l, p, n
  <1>4. /\ k = 1 => l.head = n
        /\ k = Len(s) => l.tail = p
        /\ k # 1 => l.next[p] = n
        /\ k # Len(s) => l.prev[n] = p
    BY <1>1, <1>3
  <1>5. DelTimer(l, s[k]) =
            [head |-> IF p = Null THEN n ELSE l.head,
             tail |-> IF n = Null THEN p ELSE l.tail,
             next |-> IF p = Null THEN l.next ELSE [l.next EXCEPT ![p] = n],
             prev |-> IF n = Null THEN l.prev ELSE [l.prev EXCEPT ![n] = p]]
    BY <1>1 DEF DelTimer
  <1>6. l.prev \in [Ptr -> OrNull(Ptr)] /\ l.next \in [Ptr -> OrNull(Ptr)]
    BY <1>1 DEF Timers
  <1>7. (p = Null \/ [l.next EXCEPT ![p] = n] = l.next) /\ (n = Null \/ [l.prev EXCEPT ![n] = p] = l.prev)
    BY <1>3, <1>4, <1>6
  <1>8. DelTimer(l, s[k]) = [head |-> l.head, tail |-> l.tail, next |-> l.next, prev |-> l.prev]
    BY <1>3, <1>4, <1>5, <1>7
  <1>9. l = [head |-> l.head, tail |-> l.tail, next |-> l.next, prev |-> l.prev]
    BY <1>1 DEF Timers
  <1> QED BY <1>8, <1>9 DEF l

\* The links of freed memory.
LEMMA ForgetLinks ==
    ASSUME NEW list \in Timers, NEW s \in Seq(Ptr), Chain(list, s),
           NEW x \in Ptr, x \notin ToSet(s)
    PROVE  /\ [list EXCEPT !.prev[x] = Null, !.next[x] = Null] \in Timers
           /\ Chain([list EXCEPT !.prev[x] = Null, !.next[x] = Null], s)
  <1> DEFINE l == [list EXCEPT !.prev[x] = Null, !.next[x] = Null]
  <1>1. list = [head |-> list.head, tail |-> list.tail, prev |-> list.prev, next |-> list.next]
    BY DEF Timers
  <1>2. l = [head |-> list.head, tail |-> list.tail, prev |-> [list.prev EXCEPT ![x] = Null],
             next |-> [list.next EXCEPT ![x] = Null]]
    <2>1. l = [[list EXCEPT !.prev[x] = Null] EXCEPT !.next[x] = Null]
      OBVIOUS
    <2>2. [list EXCEPT !.prev[x] = Null] =
              [head |-> list.head, tail |-> list.tail,
               prev |-> [list.prev EXCEPT ![x] = Null], next |-> list.next]
      BY <1>1
    <2> HIDE DEF l
    <2> QED BY <2>1, <2>2
  <1> HIDE DEF l
  <1>3. /\ list.prev \in [Ptr -> OrNull(Ptr)] /\ list.next \in [Ptr -> OrNull(Ptr)]
        /\ list.head \in OrNull(Ptr) /\ list.tail \in OrNull(Ptr)
    BY DEF Timers
  <1>4. Null \in OrNull(Ptr)
    BY DEF OrNull
  <1>5. /\ [list.prev EXCEPT ![x] = Null] \in [Ptr -> OrNull(Ptr)]
        /\ [list.next EXCEPT ![x] = Null] \in [Ptr -> OrNull(Ptr)]
    BY <1>3, <1>4
  <1>6. l \in Timers
    BY <1>2, <1>3, <1>5 DEF Timers
  <1>7. l.head = list.head /\ l.tail = list.tail
    BY <1>2
  <1>8. \A z \in Ptr : z # x => l.prev[z] = list.prev[z] /\ l.next[z] = list.next[z]
    BY <1>2, <1>3
  <1>9. \A i \in 1 .. Len(s) : s[i] \in Ptr /\ s[i] # x
    BY ElementOfSeq DEF ToSet
  <1>10. \A i \in 1 .. Len(s) : l.prev[s[i]] = list.prev[s[i]] /\ l.next[s[i]] = list.next[s[i]]
    BY <1>8, <1>9
  <1>11. Chain(l, s)
    BY <1>7, <1>10 DEF Chain
  <1> QED BY <1>6, <1>11 DEF l

----------------------------------------------------------------------------
\* The invariant

Tables ==
    /\ fragtable \in [Dst -> OrNull(HostFrags)]
    /\ this_host \in OrNull(Dst)
    /\ queues \in [Ptr -> OrNull(Ipq)]
    /\ timers \in Timers

Registers ==
    /\ timenow \in Int
    /\ clock \in 0 .. MaxTime
    /\ pc \in {"idle", "expire", "evict", "find", "insert"}
    /\ packet \in OrNull(Packets)
    /\ qp \in OrNull(Ptr)
    /\ delivered \in OrNull(Datagram)

Queued == \A p \in Live :
    /\ fragtable[queues[p].hf] # Null
    /\ p \in ToSet(fragtable[queues[p].hf].ipqueue)
    /\ queues[p].hf = queues[p].iph.dst

Listed == \A d \in Dst : fragtable[d] # Null =>
    \A i \in 1 .. Len(fragtable[d].ipqueue) :
        fragtable[d].ipqueue[i] \in Live /\ queues[fragtable[d].ipqueue[i]].hf = d

OneId == \A d \in Dst : fragtable[d] # Null =>
    \A i, j \in 1 .. Len(fragtable[d].ipqueue) :
        queues[fragtable[d].ipqueue[i]].iph.id = queues[fragtable[d].ipqueue[j]].iph.id => i = j

Empty(d) == fragtable[d] # Null /\ fragtable[d].ipqueue = <<>>

NoneEmpty == \A d \in Dst : Empty(d) => pc = "find" /\ this_host = d

Chained == \E s \in Seq(Ptr) : Chain(timers, s) /\ ToSet(s) = Live

\* The memory of the queues on a list.
Sizes(list, at) == [i \in 1 .. Len(list) |-> QueueSize + Charge(at[list[i]].fragments)]

Counted == \A d \in Dst : fragtable[d] # Null =>
    fragtable[d].ip_frag_mem = Total(Sizes(fragtable[d].ipqueue, queues))

Apart(list) == \A i \in 1 .. Len(list) :
    /\ list[i].ptr = list[i].offset
    /\ list[i].offset >= list[i].skb.offset
    /\ list[i].end = list[i].skb.offset + list[i].skb.len
    /\ \A j \in i + 1 .. Len(list) :
           list[i].end <= list[j].offset /\ list[i].offset <= list[j].offset

AllApart == \A p \in Live : Apart(queues[p].fragments)

Parts == Tables /\ Queued /\ Listed /\ OneId /\ Chained /\ Counted /\ AllApart

\* What a call relies on: the host in use is that of its packet, which is only
\* without a queue if a fragment is about to make one.
Calling ==
    /\ pc # "idle" => packet \in Packets
    /\ pc \in {"evict", "find"} =>
           this_host = IF fragtable[packet.dst] = Null THEN Null ELSE packet.dst
    /\ pc = "find" => \A d \in Dst : Empty(d) => IsFragment(packet)
    /\ pc = "insert" => qp \in Live /\ queues[qp].hf = this_host

IInv == Parts /\ Registers /\ NoneEmpty /\ Calling

LEMMA TypeOKIs == TypeOK <=> Tables /\ Registers
  BY DEF TypeOK, Tables, Registers, Timers

LEMMA LiveIs ==
    ASSUME Tables, NEW p \in Live
    PROVE  p \in Ptr /\ queues[p] \in Ipq /\ queues[p] # Null
  BY DEF Tables, Live, OrNull

LEMMA HostIs ==
    ASSUME Tables, NEW d \in Dst, fragtable[d] # Null
    PROVE  /\ fragtable[d] \in HostFrags
           /\ fragtable[d].ipqueue \in Seq(Ptr)
           /\ fragtable[d].ip_frag_mem \in Int
           /\ DOMAIN fragtable[d].ipqueue = 1 .. Len(fragtable[d].ipqueue)
  <1>1. fragtable[d] \in HostFrags
    BY DEF Tables, OrNull
  <1> QED BY <1>1 DEF HostFrags

LEMMA ChargeType ==
    ASSUME NEW fragments \in Seq(IpFrag)
    PROVE  Charge(fragments) \in Int
  <1>1. \A f \in IpFrag : FragCharge(f) \in Int
    <2> TAKE f \in IpFrag
    <2>1. f.skb.ihl \in Nat /\ f.skb.len \in Nat
      BY DEF IpFrag, Packet
    <2>2. FragSize \in Nat
      BY IpAssumption
    <2>3. \A a, b \in Nat : (((a + b + 15) + 15) \div 16) * 16 + 168 \in Int
      OBVIOUS
    <2>4. Truesize(f.skb) \in Int
      BY <2>1, <2>3 DEF Truesize
    <2> QED BY <2>2, <2>4 DEF FragCharge
  <1>2. \A i \in 1 .. Len(fragments) : fragments[i] \in IpFrag
    BY ElementOfSeq
  <1>3. \A i \in 1 .. Len(fragments) : FragCharge(fragments[i]) \in Int
    BY <1>1, <1>2
  <1>4. [i \in 1 .. Len(fragments) |-> FragCharge(fragments[i])] \in Seq(Int)
    BY <1>3
  <1>5. DOMAIN fragments = 1 .. Len(fragments)
    OBVIOUS
  <1> QED BY <1>4, <1>5, TotalType DEF Charge

LEMMA SizesType ==
    ASSUME Tables, NEW list \in Seq(Live)
    PROVE  Sizes(list, queues) \in Seq(Int) /\ Len(Sizes(list, queues)) = Len(list)
  <1>1. ASSUME NEW i \in 1 .. Len(list)
        PROVE  QueueSize + Charge(queues[list[i]].fragments) \in Int
    <2>1. list[i] \in Live
      BY ElementOfSeq
    <2>2. queues[list[i]] \in Ipq
      BY <2>1, LiveIs
    <2>3. Charge(queues[list[i]].fragments) \in Int
      BY <2>2, ChargeType DEF Ipq
    <2> QED BY <2>3, IpAssumption
  <1> QED BY <1>1 DEF Sizes

LEMMA ListIs ==
    ASSUME Tables, Listed, OneId, NEW d \in Dst, fragtable[d] # Null
    PROVE  fragtable[d].ipqueue \in Seq(Live) /\ Distinct(fragtable[d].ipqueue)
  <1>1. fragtable[d].ipqueue \in Seq(Ptr)
    BY HostIs
  <1>2. \A i \in 1 .. Len(fragtable[d].ipqueue) : fragtable[d].ipqueue[i] \in Live
    BY DEF Listed
  <1>3. fragtable[d].ipqueue \in Seq(Live)
    BY <1>1, <1>2
  <1>4. Distinct(fragtable[d].ipqueue)
    BY DEF Distinct, OneId
  <1> QED BY <1>3, <1>4

\* ipFree, of the queue p of a host, whether or not its timer was deleted.
LEMMA QueueFreed ==
    ASSUME Parts, NEW p \in Live, NEW list, list = timers \/ list = DelTimer(timers, p),
           NEW host, host = queues[p].hf, FreeQueue(p, host, list)
    PROVE  /\ Parts'
           /\ this_host' = IF fragtable'[host] = Null THEN Null ELSE host
           /\ Live' = Live \ {p}
           /\ fragtable'[host] # Null => fragtable'[host].ipqueue # <<>>
           /\ \A d \in Dst : d # host => fragtable'[d] = fragtable[d]
  <1> DEFINE L == fragtable[host].ipqueue
  <1>a. Tables /\ Queued /\ Listed /\ OneId /\ Chained /\ Counted /\ AllApart
    BY DEF Parts
  <1>b. fragtable \in [Dst -> OrNull(HostFrags)] /\ queues \in [Ptr -> OrNull(Ipq)] /\ timers \in Timers
    BY <1>a DEF Tables
  <1>1. p \in Ptr /\ queues[p] \in Ipq /\ host \in Dst /\ fragtable[host] # Null
    BY <1>a, LiveIs DEF Ipq, Queued
  <1>2. fragtable[host] \in HostFrags /\ L \in Seq(Live) /\ Distinct(L) /\ DOMAIN L = 1 .. Len(L)
    BY <1>a, <1>1, HostIs, ListIs
  <1>3. PICK k \in 1 .. Len(L) : L[k] = p
    BY <1>a, <1>2 DEF Queued, ToSet
  <1> DEFINE left == RemoveAt(L, k)
  <1>4. Without(L, p) = left
    <2>1. \A i \in DOMAIN L : L[i] = p => i = k
      BY <1>2, <1>3 DEF Distinct
    <2>2. (CHOOSE i \in DOMAIN L : L[i] = p) = k
      BY <1>2, <1>3, <2>1
    <2> HIDE DEF L
    <2> QED BY <2>2 DEF Without
  <1> HIDE DEF L
  <1>5. /\ left \in Seq(Live) /\ Len(left) = Len(L) - 1 /\ Distinct(left)
        /\ ToSet(left) = ToSet(L) \ {p}
        /\ \A i \in 1 .. Len(L) - 1 : left[i] = IF i < k THEN L[i] ELSE L[i + 1]
    BY <1>2, <1>3, RemoveAtIs, RemoveAtDistinct
  <1> HIDE DEF left
  <1>6. queues' = [queues EXCEPT ![p] = Null]
    BY DEF FreeQueue
  <1>7. queues' \in [Ptr -> OrNull(Ipq)] /\ queues'[p] = Null /\ \A x \in Ptr : x # p => queues'[x] = queues[x]
    BY <1>1, <1>6, <1>b DEF OrNull
  <1>8. Live' = Live \ {p}
    BY <1>7 DEF Live
  <1>9. timers' \in Timers /\ Chained'
    <2>1. PICK s \in Seq(Ptr) : Chain(timers, s) /\ ToSet(s) = Live
      BY <1>a DEF Chained
    <2>2. PICK i \in 1 .. Len(s) : s[i] = p
      BY <2>1 DEF ToSet
    <2> DEFINE l == DelTimer(timers, p)
    <2>3. DelTimer(list, p) = l
      BY <1>b, <2>1, <2>2, DelTimerTwice
    <2>4. l \in Timers /\ Chain(l, RemoveAt(s, i))
      BY <1>b, <2>1, <2>2, DelTimerIs, DelTimerChain
    <2>5. RemoveAt(s, i) \in Seq(Ptr) /\ ToSet(RemoveAt(s, i)) = Live \ {p}
      BY <2>1, <2>2, RemoveAtIs, RemoveAtDistinct DEF Chain
    <2>6. timers' = [l EXCEPT !.prev[p] = Null, !.next[p] = Null]
      BY <2>3 DEF FreeQueue
    <2> HIDE DEF l
    <2>7. timers' \in Timers /\ Chain(timers', RemoveAt(s, i))
      BY <1>1, <2>4, <2>5, <2>6, ForgetLinks
    <2> QED BY <1>8, <2>5, <2>7 DEF Chained
  <1> DEFINE mem == fragtable[host].ip_frag_mem - QueueSize - Charge(queues[p].fragments)
  <1>10. /\ fragtable' = [fragtable EXCEPT ![host] =
                IF left = <<>> THEN Null ELSE [ipqueue |-> left, ip_frag_mem |-> mem]]
         /\ this_host' = IF left = <<>> THEN Null ELSE host
    BY <1>4 DEF FreeQueue, L
  <1>11. mem \in Int
    <2>1. fragtable[host].ip_frag_mem \in Int
      BY <1>2 DEF HostFrags
    <2>2. Charge(queues[p].fragments) \in Int
      BY <1>1, ChargeType DEF Ipq
    <2> QED BY SMTT(30), <2>1, <2>2, IpAssumption
  <1> HIDE DEF mem
  <1> DEFINE rec == [ipqueue |-> left, ip_frag_mem |-> mem]
  <1>12. rec \in HostFrags /\ rec # Null
    <2>1. left \in Seq(Ptr)
      <3>1. \A i \in 1 .. Len(left) : left[i] \in Ptr
        BY <1>5, ElementOfSeq DEF Live
      <3> QED BY <1>5, <3>1
    <2>2. rec \in HostFrags
      BY <1>11, <2>1 DEF HostFrags
    <2> HIDE DEF rec
    <2> QED BY <2>2, IpAssumption
  <1>13. /\ fragtable'[host] = IF left = <<>> THEN Null ELSE rec
         /\ \A d \in Dst : d # host => fragtable'[d] = fragtable[d]
         /\ fragtable' \in [Dst -> OrNull(HostFrags)]
         /\ rec.ipqueue = left /\ rec.ip_frag_mem = mem
    <2>1. rec.ipqueue = left /\ rec.ip_frag_mem = mem
      OBVIOUS
    <2> HIDE DEF rec
    <2> QED BY <1>1, <1>b, <1>10, <1>12, <2>1 DEF OrNull, rec
  <1> HIDE DEF rec
  <1>14. this_host' = IF fragtable'[host] = Null THEN Null ELSE host
    BY <1>10, <1>12, <1>13
  <1>15. Tables'
    BY <1>1, <1>7, <1>9, <1>13, <1>14 DEF Tables, OrNull
  <1>16. Queued'
    <2> SUFFICES ASSUME NEW q \in Live \ {p}
                 PROVE  /\ fragtable'[queues'[q].hf] # Null
                        /\ q \in ToSet(fragtable'[queues'[q].hf].ipqueue)
                        /\ queues'[q].hf = queues'[q].iph.dst
      BY <1>8 DEF Queued
    <2>1. queues'[q] = queues[q] /\ queues[q].hf \in Dst
      BY <1>7, <1>a, LiveIs DEF Ipq
    <2>2. /\ fragtable[queues[q].hf] # Null
          /\ q \in ToSet(fragtable[queues[q].hf].ipqueue)
          /\ queues[q].hf = queues[q].iph.dst
      BY <1>a DEF Queued
    <2>3. CASE queues[q].hf = host
      <3>1. q \in ToSet(left)
        BY <1>5, <2>2, <2>3 DEF L
      <3>2. left # <<>>
        BY <3>1 DEF ToSet
      <3> QED BY <1>12, <1>13, <2>1, <2>2, <2>3, <3>1, <3>2
    <2>4. CASE queues[q].hf # host
      BY <1>13, <2>1, <2>2, <2>4
    <2> QED BY <2>3, <2>4
  <1>17. ASSUME NEW d \in Dst, fragtable'[d] # Null
         PROVE  \/ d = host /\ left # <<>> /\ fragtable'[d] = rec
                \/ d # host /\ fragtable'[d] = fragtable[d]
    BY <1>13, <1>17
  <1>18. \A i \in 1 .. Len(left) : left[i] \in Live \ {p}
    <2> TAKE i \in 1 .. Len(left)
    <2>1. left[i] \in Live /\ i \in DOMAIN left
      BY <1>5, ElementOfSeq
    <2>2. left[i] \in ToSet(left)
      BY <2>1 DEF ToSet
    <2> QED BY <1>5, <2>1, <2>2
  <1>19. Listed'
    <2> SUFFICES ASSUME NEW d \in Dst, fragtable'[d] # Null,
                        NEW i \in 1 .. Len(fragtable'[d].ipqueue)
                 PROVE  /\ fragtable'[d].ipqueue[i] \in Live \ {p}
                        /\ queues'[fragtable'[d].ipqueue[i]].hf = d
      BY <1>8 DEF Listed
    <2>1. CASE d = host /\ fragtable'[d] = rec
      <3>1. left[i] \in Live \ {p}
        BY <1>13, <1>18, <2>1
      <3>2. queues[left[i]].hf = host
        <4>1. PICK j \in 1 .. Len(L) : left[i] = L[j]
          BY <1>2, <1>5, <1>13, <2>1
        <4> QED BY <1>a, <1>1, <4>1 DEF L, Listed
      <3> QED BY <1>7, <1>13, <2>1, <3>1, <3>2 DEF Live
    <2>2. CASE d # host /\ fragtable'[d] = fragtable[d]
      <3>1. fragtable[d].ipqueue[i] \in Live /\ queues[fragtable[d].ipqueue[i]].hf = d
        BY <1>a, <2>2 DEF Listed
      <3>2. fragtable[d].ipqueue[i] # p
        BY <2>2, <3>1
      <3> QED BY <1>7, <2>2, <3>1, <3>2 DEF Live
    <2> QED BY <1>17, <2>1, <2>2
  <1>20. OneId'
    <2> SUFFICES ASSUME NEW d \in Dst, fragtable'[d] # Null,
                        NEW i \in 1 .. Len(fragtable'[d].ipqueue),
                        NEW j \in 1 .. Len(fragtable'[d].ipqueue),
                        queues'[fragtable'[d].ipqueue[i]].iph.id = queues'[fragtable'[d].ipqueue[j]].iph.id
                 PROVE  i = j
      BY DEF OneId
    <2>1. CASE d = host /\ fragtable'[d] = rec
      <3>1. left[i] \in Live \ {p} /\ left[j] \in Live \ {p}
        BY <1>13, <1>18, <2>1
      <3>2. queues[left[i]].iph.id = queues[left[j]].iph.id
        BY <1>7, <1>13, <2>1, <3>1 DEF Live
      <3> DEFINE a == IF i < k THEN i ELSE i + 1
                 b == IF j < k THEN j ELSE j + 1
      <3>3. a \in 1 .. Len(L) /\ b \in 1 .. Len(L) /\ left[i] = L[a] /\ left[j] = L[b]
        BY <1>2, <1>5, <1>13, <2>1
      <3>4. a = b
        <4> HIDE DEF a, b
        <4>1. queues[L[a]].iph.id = queues[L[b]].iph.id
          BY <3>2, <3>3
        <4>2. \A m, n \in 1 .. Len(L) : queues[L[m]].iph.id = queues[L[n]].iph.id => m = n
          BY <1>a, <1>1 DEF OneId, L
        <4> QED BY <3>3, <4>1, <4>2
      <3> QED BY <3>4
    <2>2. CASE d # host /\ fragtable'[d] = fragtable[d]
      <3>1. \A n \in 1 .. Len(fragtable[d].ipqueue) :
               queues'[fragtable[d].ipqueue[n]] = queues[fragtable[d].ipqueue[n]]
        BY <1>7, <1>a, <2>2 DEF Listed, Live
      <3>2. queues[fragtable[d].ipqueue[i]].iph.id = queues[fragtable[d].ipqueue[j]].iph.id
        BY <2>2, <3>1
      <3> QED BY <1>a, <2>2, <3>2 DEF OneId
    <2> QED BY <1>17, <2>1, <2>2
  <1>21. Counted'
    <2> SUFFICES ASSUME NEW d \in Dst, fragtable'[d] # Null
                 PROVE  fragtable'[d].ip_frag_mem = Total(Sizes(fragtable'[d].ipqueue, queues'))
      BY DEF Counted
    <2>1. CASE d = host /\ fragtable'[d] = rec
      <3> DEFINE s == Sizes(L, queues)
                 r == Sizes(left, queues')
      <3>1. s \in Seq(Int) /\ Len(s) = Len(L)
        BY <1>a, <1>2, SizesType
      <3>2. /\ r = [i \in 1 .. Len(left) |-> QueueSize + Charge(queues'[left[i]].fragments)]
            /\ s = [i \in 1 .. Len(L) |-> QueueSize + Charge(queues[L[i]].fragments)]
        BY DEF Sizes
      <3> HIDE DEF r, s
      <3>3. \A i \in 1 .. Len(left) : queues'[left[i]] = queues[left[i]]
        BY <1>7, <1>18 DEF Live
      <3>4. ASSUME NEW i \in 1 .. Len(left)
            PROVE  r[i] = IF i < k THEN s[i] ELSE s[i + 1]
        <4>1. r[i] = QueueSize + Charge(queues[left[i]].fragments)
          BY <3>2, <3>3
        <4>2. CASE i < k
          BY <1>2, <1>5, <3>2, <4>1, <4>2
        <4>3. CASE ~(i < k)
          <5>1. left[i] = L[i + 1] /\ i + 1 \in 1 .. Len(L)
            BY <1>2, <1>5, <4>3
          <5>2. s[i + 1] = QueueSize + Charge(queues[L[i + 1]].fragments)
            BY <3>2, <5>1
          <5> QED BY <4>1, <4>3, <5>1, <5>2
        <4> QED BY <4>2, <4>3
      <3>5. r \in Seq(Int) /\ Len(r) = Len(s) - 1
        <4>1. Len(left) \in Nat
          BY <1>5
        <4>2. \A i \in 1 .. Len(left) : r[i] \in Int
          BY <1>2, <1>5, <3>1, <3>4, <4>1, ElementOfSeq
        <4>3. r = [i \in 1 .. Len(left) |-> r[i]]
          BY <3>2
        <4>4. r \in Seq(Int) /\ Len(r) = Len(left)
          BY <4>1, <4>2, <4>3
        <4> QED BY <1>5, <3>1, <4>4
      <3>6. Total(r) = Total(s) - s[k]
        <4>1. k \in 1 .. Len(s) /\ \A i \in 1 .. Len(r) : r[i] = IF i < k THEN s[i] ELSE s[i + 1]
          BY <1>5, <3>1, <3>4, <3>5
        <4> QED BY <3>1, <3>5, <4>1, TotalRemove
      <3>7. s[k] = QueueSize + Charge(queues[p].fragments)
        BY <1>3, <3>2
      <3>8. fragtable[host].ip_frag_mem = Total(s)
        BY <1>a, <1>1 DEF Counted, L, s
      <3>9. Total(s) \in Int /\ Charge(queues[p].fragments) \in Int /\ QueueSize \in Int
        BY <1>1, <3>1, TotalType, ChargeType, IpAssumption DEF Ipq
      <3>10. Total(r) = mem
        BY <3>6, <3>7, <3>8, <3>9 DEF mem
      <3> QED BY <1>13, <2>1, <3>10 DEF r
    <2>2. CASE d # host /\ fragtable'[d] = fragtable[d]
      <3>1. \A n \in 1 .. Len(fragtable[d].ipqueue) :
               queues'[fragtable[d].ipqueue[n]] = queues[fragtable[d].ipqueue[n]]
        BY <1>7, <1>a, <2>2 DEF Listed, Live
      <3>2. Sizes(fragtable'[d].ipqueue, queues') = Sizes(fragtable[d].ipqueue, queues)
        BY <2>2, <3>1 DEF Sizes
      <3> QED BY <1>a, <2>2, <3>2 DEF Counted
    <2> QED BY <1>17, <2>1, <2>2
  <1>22. AllApart'
    <2> SUFFICES ASSUME NEW q \in Live \ {p} PROVE Apart(queues'[q].fragments)
      BY <1>8 DEF AllApart, Apart
    <2> QED BY <1>7, <1>a DEF AllApart, Live
  <1>23. fragtable'[host] # Null => fragtable'[host].ipqueue # <<>>
    BY <1>12, <1>13
  <1> QED BY <1>8, <1>9, <1>13, <1>14, <1>15, <1>16, <1>19, <1>20, <1>21, <1>22, <1>23 DEF Parts

----------------------------------------------------------------------------
\* The steps

LEMMA Untouched ==
    ASSUME Parts, fragtable' = fragtable, queues' = queues, timers' = timers,
           this_host' \in OrNull(Dst)
    PROVE  Parts' /\ Live' = Live /\ (\A d \in Dst : Empty(d)' <=> Empty(d))
  <1>1. Live' = Live
    BY DEF Live
  <1>2. Tables'
    BY DEF Parts, Tables
  <1>3. Queued'
    BY <1>1 DEF Parts, Queued
  <1>4. Listed' /\ OneId'
    BY <1>1 DEF Parts, Listed, OneId
  <1>5. Chained'
    BY <1>1 DEF Parts, Chained
  <1>6. Counted' /\ AllApart'
    BY <1>1 DEF Parts, Counted, AllApart
  <1> QED BY <1>1, <1>2, <1>3, <1>4, <1>5, <1>6 DEF Parts, Empty

LEMMA JiffiesType == \A t \in Int : Jiffies(t) \in Int
  <1> SUFFICES ASSUME NEW t \in Int PROVE Jiffies(t) \in Int
    OBVIOUS
  <1>1. IntLimit \in Nat /\ IntLimit > 0
    BY IpAssumption
  <1>2. (t + IntLimit) % (2 * IntLimit) \in Int
    BY <1>1
  <1> QED BY <1>1, <1>2 DEF Jiffies

LEMMA InitHolds == Init => IInv
  <1> SUFFICES ASSUME Init PROVE IInv
    OBVIOUS
  <1>1. Live = {}
    BY DEF Init, Live
  <1>2. \A d \in Dst : fragtable[d] = Null
    BY DEF Init
  <1>3. Tables
    BY DEF Init, Tables, Timers, OrNull
  <1>4. Registers
    BY IpAssumption DEF Init, Registers, OrNull
  <1>5. Chained
    <2>1. <<>> \in Seq(Ptr) /\ Len(<<>>) = 0 /\ ToSet(<<>>) = {}
      BY DEF ToSet
    <2>2. Chain(timers, <<>>)
      BY <2>1 DEF Init, Chain, Distinct
    <2> QED BY <1>1, <2>1, <2>2 DEF Chained
  <1>6. Queued /\ Listed /\ OneId /\ Counted /\ AllApart /\ NoneEmpty
    BY <1>1, <1>2 DEF Queued, Listed, OneId, Counted, AllApart, NoneEmpty, Empty
  <1>7. Calling
    BY DEF Init, Calling
  <1> QED BY <1>3, <1>4, <1>5, <1>6, <1>7 DEF IInv, Parts

LEMMA ArriveKeeps ==
    ASSUME IInv, NEW p \in Packets, NEW t \in clock .. MaxTime, Arrive(p, t)
    PROVE  IInv'
  <1>1. Parts' /\ \A d \in Dst : Empty(d)' <=> Empty(d)
    BY Untouched DEF IInv, Parts, Tables, Arrive
  <1>2. Registers'
    <2>1. t \in 0 .. MaxTime /\ t \in Int
      BY IpAssumption DEF IInv, Registers
    <2> QED BY <2>1, JiffiesType DEF IInv, Registers, Arrive, OrNull
  <1>3. NoneEmpty'
    BY <1>1 DEF IInv, NoneEmpty, Arrive
  <1>4. Calling'
    BY DEF Calling, Arrive
  <1> QED BY <1>1, <1>2, <1>3, <1>4 DEF IInv

\* The first timer is that of a queue.
LEMMA HeadIsLive ==
    ASSUME Chained, timers.head # Null
    PROVE  timers.head \in Live
  <1>1. PICK s \in Seq(Ptr) : Chain(timers, s) /\ ToSet(s) = Live
    BY DEF Chained
  <1>2. Len(s) # 0 /\ timers.head = s[1]
    BY <1>1 DEF Chain
  <1> QED BY <1>1, <1>2 DEF ToSet

LEMMA ExpireTimerKeeps ==
    ASSUME IInv, ExpireTimer
    PROVE  IInv'
  <1> DEFINE p == timers.head
             host == queues[p].hf
  <1>1. Parts /\ Registers /\ NoneEmpty /\ Calling /\ pc = "expire" /\ pc' = "expire" /\ packet' = packet
    BY DEF IInv, ExpireTimer
  <1>2. p \in Live
    BY <1>1, HeadIsLive DEF Parts, ExpireTimer, Due
  <1>3. FreeQueue(p, host, timers)
    BY DEF ExpireTimer
  <1> HIDE DEF p
  <1>a. host = queues[p].hf
    OBVIOUS
  <1> HIDE DEF host
  <1>4. /\ Parts'
        /\ fragtable'[host] # Null => fragtable'[host].ipqueue # <<>>
        /\ \A d \in Dst : d # host => fragtable'[d] = fragtable[d]
    BY <1>1, <1>2, <1>3, <1>a, QueueFreed
  <1>5. NoneEmpty'
    <2>1. \A d \in Dst : ~Empty(d)
      BY <1>1 DEF NoneEmpty
    <2>2. \A d \in Dst : ~(fragtable'[d] # Null /\ fragtable'[d].ipqueue = <<>>)
      BY <1>4, <2>1 DEF Empty
    <2> QED BY <2>2 DEF NoneEmpty, Empty
  <1>6. Registers'
    BY <1>1 DEF Registers, ExpireTimer
  <1>7. Calling'
    BY <1>1 DEF Calling
  <1> QED BY <1>4, <1>5, <1>6, <1>7 DEF IInv

LEMMA FindHostKeeps ==
    ASSUME IInv, FindHost
    PROVE  IInv'
  <1> DEFINE d == packet.dst
             h == IF fragtable[d] # Null THEN fragtable[d]
                  ELSE IF IsFragment(packet) THEN [ipqueue |-> <<>>, ip_frag_mem |-> 0]
                  ELSE Null
  <1>1. /\ Parts /\ Registers /\ NoneEmpty /\ Calling /\ pc = "expire"
        /\ packet \in Packets /\ d \in Dst
    BY IpAssumption DEF IInv, FindHost, Calling, Packet
  <1>2. /\ fragtable' = [fragtable EXCEPT ![d] = h]
        /\ this_host' = IF h = Null THEN Null ELSE d
        /\ pc' = IF h # Null /\ h.ip_frag_mem > HighThresh THEN "evict" ELSE "find"
        /\ UNCHANGED <<queues, timers, timenow, clock, packet, qp, delivered>>
    BY DEF FindHost
  <1>3. /\ fragtable \in [Dst -> OrNull(HostFrags)]
        /\ \A e \in Dst : ~Empty(e)
    BY <1>1 DEF Parts, Tables, NoneEmpty
  <1> DEFINE new == [ipqueue |-> <<>>, ip_frag_mem |-> 0]
  <1>4. new \in HostFrags /\ new # Null /\ new.ipqueue = <<>> /\ new.ip_frag_mem = 0
    <2>1. new \in HostFrags
      BY DEF HostFrags
    <2>2. new.ipqueue = <<>> /\ new.ip_frag_mem = 0
      OBVIOUS
    <2> HIDE DEF new
    <2> QED BY <2>1, <2>2, IpAssumption
  <1>5. h = IF fragtable[d] # Null THEN fragtable[d] ELSE IF IsFragment(packet) THEN new ELSE Null
    OBVIOUS
  <1> HIDE DEF h, new
  <1>6. /\ \A e \in Dst : fragtable[e] # Null => fragtable'[e] = fragtable[e]
        /\ \A e \in Dst : fragtable[e] = Null /\ fragtable'[e] # Null =>
               e = d /\ fragtable'[e] = new /\ IsFragment(packet)
        /\ fragtable'[d] = h
        /\ fragtable' \in [Dst -> OrNull(HostFrags)]
    BY <1>1, <1>2, <1>3, <1>4, <1>5 DEF OrNull
  <1>7. Live' = Live
    BY <1>2 DEF Live
  <1>8. Tables'
    BY <1>1, <1>2, <1>6 DEF Parts, Tables, OrNull
  <1>9. Queued'
    <2> SUFFICES ASSUME NEW p \in Live
                 PROVE  /\ fragtable'[queues[p].hf] # Null
                        /\ p \in ToSet(fragtable'[queues[p].hf].ipqueue)
                        /\ queues[p].hf = queues[p].iph.dst
      BY <1>2, <1>7 DEF Queued
    <2>1. queues[p].hf \in Dst
      BY <1>1, LiveIs DEF Parts, Ipq
    <2> QED BY <1>1, <1>6, <2>1 DEF Parts, Queued
  <1>10. Listed' /\ OneId'
    <2>1. \A e \in Dst : fragtable'[e] # Null =>
             \/ fragtable[e] # Null /\ fragtable'[e] = fragtable[e]
             \/ Len(fragtable'[e].ipqueue) = 0
      BY <1>4, <1>6
    <2> QED BY <1>1, <1>2, <1>7, <2>1 DEF Parts, Listed, OneId
  <1>11. Chained' /\ AllApart'
    BY <1>1, <1>2, <1>7 DEF Parts, Chained, AllApart
  <1>12. Counted'
    <2> SUFFICES ASSUME NEW e \in Dst, fragtable'[e] # Null
                 PROVE  fragtable'[e].ip_frag_mem = Total(Sizes(fragtable'[e].ipqueue, queues))
      BY <1>2 DEF Counted
    <2>1. CASE fragtable[e] # Null
      BY <1>1, <1>6, <2>1 DEF Parts, Counted
    <2>2. CASE fragtable[e] = Null
      <3>1. fragtable'[e].ipqueue = <<>> /\ fragtable'[e].ip_frag_mem = 0
        BY <1>4, <1>6, <2>2
      <3>2. Sizes(<<>>, queues) \in Seq(Int) /\ Len(Sizes(<<>>, queues)) = 0
        <4>1. <<>> \in Seq(Live) /\ Len(<<>>) = 0
          OBVIOUS
        <4> QED BY <1>1, <4>1, SizesType DEF Parts
      <3> QED BY <3>1, <3>2, TotalEmpty
    <2> QED BY <2>1, <2>2
  <1>13. ASSUME NEW e \in Dst, Empty(e)' PROVE e = d /\ IsFragment(packet) /\ pc' = "find" /\ this_host' = d
    <2>1. fragtable[e] = Null /\ fragtable'[e] # Null
      BY <1>3, <1>6, <1>13 DEF Empty
    <2>2. e = d /\ fragtable'[e] = new /\ IsFragment(packet)
      BY <1>6, <2>1
    <2>3. h = new
      BY <1>6, <2>2
    <2>4. ~(h.ip_frag_mem > HighThresh)
      BY <1>4, <2>3, IpAssumption
    <2> QED BY <1>2, <1>4, <2>2, <2>3, <2>4
  <1>14. NoneEmpty'
    BY <1>13 DEF NoneEmpty
  <1>15. Calling'
    <2>1. pc' \in {"evict", "find"} /\ packet' = packet
      BY <1>2
    <2>2. this_host' = IF fragtable'[packet.dst] = Null THEN Null ELSE packet.dst
      BY <1>2, <1>6
    <2>3. \A e \in Dst : Empty(e)' => IsFragment(packet)
      BY <1>13
    <2> QED BY <1>1, <2>1, <2>2, <2>3 DEF Calling
  <1>16. Registers'
    BY <1>1, <1>2 DEF Registers
  <1> QED BY <1>8, <1>9, <1>10, <1>11, <1>12, <1>14, <1>15, <1>16 DEF IInv, Parts

\* The host in use is there.
LEMMA InUse ==
    ASSUME IInv, pc \in {"evict", "find"}
    PROVE  /\ packet \in Packets /\ packet \in Packet /\ packet.dst \in Dst
           /\ this_host = IF fragtable[packet.dst] = Null THEN Null ELSE packet.dst
           /\ packet.dst # Null
  <1>1. packet \in Packets /\ packet \in Packet
    BY IpAssumption DEF IInv, Calling
  <1>2. packet.dst \in Dst /\ packet.dst # Null
    BY <1>1, IpAssumption DEF Packet
  <1> QED BY <1>1, <1>2 DEF IInv, Calling

LEMMA EvictQueueKeeps ==
    ASSUME IInv, EvictQueue
    PROVE  IInv'
  <1> DEFINE L == fragtable[this_host].ipqueue
             p == Head(L)
  <1>1. Parts /\ Registers /\ NoneEmpty /\ Calling /\ pc = "evict" /\ pc' = "evict" /\ packet' = packet
    BY DEF IInv, EvictQueue
  <1>2. this_host \in Dst /\ fragtable[this_host] # Null /\ this_host = packet.dst /\ packet \in Packets
    BY <1>1, InUse DEF EvictQueue, MustEvict
  <1>3. L \in Seq(Live) /\ L # <<>>
    BY <1>1, <1>2, ListIs DEF Parts, EvictQueue
  <1>4. p \in Live /\ this_host = queues[p].hf
    <2>1. p = L[1] /\ 1 \in 1 .. Len(L)
      BY <1>3
    <2> QED BY <1>1, <1>2, <2>1 DEF Parts, Listed
  <1>5. FreeQueue(p, this_host, timers)
    BY DEF EvictQueue
  <1> HIDE DEF p
  <1>6. /\ Parts'
        /\ fragtable'[this_host] # Null => fragtable'[this_host].ipqueue # <<>>
        /\ this_host' = IF fragtable'[this_host] = Null THEN Null ELSE this_host
        /\ \A d \in Dst : d # this_host => fragtable'[d] = fragtable[d]
    BY <1>1, <1>4, <1>5, QueueFreed
  <1>7. \A d \in Dst : ~Empty(d)'
    <2>1. \A d \in Dst : ~Empty(d)
      BY <1>1 DEF NoneEmpty
    <2>2. \A d \in Dst : ~(fragtable'[d] # Null /\ fragtable'[d].ipqueue = <<>>)
      BY <1>6, <2>1 DEF Empty
    <2> QED BY <2>2 DEF Empty
  <1>8. NoneEmpty'
    BY <1>7 DEF NoneEmpty
  <1>9. Registers'
    BY <1>1 DEF Registers, EvictQueue
  <1>10. Calling'
    BY <1>1, <1>2, <1>6 DEF Calling
  <1> QED BY <1>6, <1>8, <1>9, <1>10 DEF IInv

LEMMA EvictedKeeps ==
    ASSUME IInv, Evicted
    PROVE  IInv'
  <1>1. Parts' /\ \A d \in Dst : Empty(d)' <=> Empty(d)
    BY Untouched DEF IInv, Parts, Tables, Evicted
  <1>2. \A d \in Dst : ~Empty(d)
    BY DEF IInv, NoneEmpty, Evicted
  <1>3. NoneEmpty'
    BY <1>1, <1>2 DEF NoneEmpty
  <1>4. Registers'
    BY DEF IInv, Registers, Evicted
  <1>5. Calling'
    BY <1>1, <1>2 DEF IInv, Calling, Evicted
  <1> QED BY <1>1, <1>3, <1>4, <1>5 DEF IInv

\* The queue that ipFind returns.
LEMMA FoundIs ==
    ASSUME IInv, pc = "find", Matching # {}
    PROVE  /\ this_host \in Dst /\ this_host = packet.dst /\ fragtable[this_host] # Null
           /\ Found \in Live /\ queues[Found].hf = this_host
           /\ queues[Found].iph.id = packet.id /\ queues[Found].iph.dst = packet.dst
           /\ ~Empty(this_host)
  <1> DEFINE L == fragtable[this_host].ipqueue
  <1>1. this_host # Null
    BY DEF Matching
  <1>2. this_host \in Dst /\ this_host = packet.dst /\ fragtable[this_host] # Null
    BY <1>1, InUse
  <1>3. L \in Seq(Live) /\ DOMAIN L = 1 .. Len(L)
    BY <1>2, ListIs DEF IInv, Parts
  <1>4. Matching = {i \in DOMAIN L : Matches(L[i])}
    BY <1>1 DEF Matching
  <1> HIDE DEF L
  <1>5. Matching \in SUBSET Nat
    BY <1>3, <1>4
  <1>6. Min(Matching) \in Matching
    BY <1>5, MinIs
  <1>7. Found = L[Min(Matching)]
    BY DEF Found, L
  <1>8. Min(Matching) \in 1 .. Len(L) /\ Matches(Found)
    BY <1>3, <1>4, <1>6, <1>7
  <1>9. Found \in Live /\ queues[Found].hf = this_host
    BY <1>2, <1>7, <1>8 DEF L, IInv, Parts, Listed
  <1>10. ~Empty(this_host)
    BY <1>3, <1>8 DEF Empty, L
  <1> QED BY <1>2, <1>8, <1>9, <1>10 DEF Matches

\* The call ends.
LEMMA Returned ==
    ASSUME Return
    PROVE  Calling'
  BY DEF Return, Calling

LEMMA PassWholeKeeps ==
    ASSUME IInv, PassWhole
    PROVE  IInv'
  <1>1. Parts /\ Registers /\ NoneEmpty /\ Calling /\ pc = "find" /\ Return
    BY DEF IInv, PassWhole
  <1>2. \A d \in Dst : ~Empty(d)
    BY <1>1 DEF Calling, PassWhole
  <1>3. Parts' /\ \A d \in Dst : ~Empty(d)'
    <2>1. CASE Matching = {}
      <3>1. UNCHANGED <<fragtable, this_host, queues, timers>>
        BY <2>1 DEF PassWhole
      <3> QED BY <1>1, <1>2, <3>1, Untouched DEF Parts, Tables
    <2>2. CASE Matching # {}
      <3> DEFINE p == Found
      <3>1. p \in Live /\ queues[p].hf = this_host
        BY <1>1, <2>2, FoundIs
      <3>2. FreeQueue(p, this_host, DelTimer(timers, p))
        BY <2>2 DEF PassWhole
      <3> HIDE DEF p
      <3>3. /\ Parts'
            /\ fragtable'[this_host] # Null => fragtable'[this_host].ipqueue # <<>>
            /\ \A d \in Dst : d # this_host => fragtable'[d] = fragtable[d]
        BY <1>1, <3>1, <3>2, QueueFreed
      <3>4. \A d \in Dst : ~(fragtable'[d] # Null /\ fragtable'[d].ipqueue = <<>>)
        BY <1>2, <3>3 DEF Empty
      <3> QED BY <3>3, <3>4 DEF Empty
    <2> QED BY <2>1, <2>2
  <1>4. Registers'
    <2>1. packet \in Packet
      BY <1>1, InUse
    <2>2. [iph |-> packet, fragments |-> <<>>] \in Datagram
      BY <2>1 DEF Datagram
    <2> QED BY <1>1, <2>2 DEF Registers, PassWhole, Return, OrNull
  <1>5. NoneEmpty'
    BY <1>3 DEF NoneEmpty
  <1> QED BY <1>1, <1>3, <1>4, <1>5, Returned DEF IInv

\* A new time for the queue is one of int, and the packet may stay too long.
LEMMA ProceedWithKeeps ==
    ASSUME IInv, pc = "find", NEW p \in Ptr, ProceedWith(p),
           delivered' = delivered, clock' = clock, timenow' = timenow,
           p \in Live', queues'[p].hf = this_host', \A d \in Dst : ~Empty(d)'
    PROVE  Registers' /\ NoneEmpty' /\ Calling'
  <1>1. Registers /\ packet \in Packets
    BY InUse DEF IInv
  <1>2. NoneEmpty'
    BY DEF NoneEmpty
  <1>3. CASE Return
    BY <1>1, <1>2, <1>3, Returned DEF Registers, Return, OrNull
  <1>4. CASE pc' = "insert" /\ qp' = p /\ packet' = packet
    <2>1. Registers'
      BY <1>1, <1>4 DEF Registers, OrNull
    <2>2. Calling'
      BY <1>1, <1>4 DEF Calling
    <2> QED BY <1>2, <2>1, <2>2
  <1> QED BY <1>3, <1>4 DEF ProceedWith

LEMMA ExpiryType == ASSUME Registers PROVE Expiry \in Int
  <1>1. timenow + FragTime \in Int
    BY IpAssumption DEF Registers
  <1> QED BY <1>1, JiffiesType DEF Expiry

\* The queue that was found, refreshed.
LEMMA RefreshedIs ==
    ASSUME IInv, RefreshQueue
    PROVE  \E q \in Ipq :
              /\ queues' = [queues EXCEPT ![Found] = q]
              /\ q.hf = queues[Found].hf /\ q.len = queues[Found].len
              /\ q.fragments = queues[Found].fragments
              /\ q.iph = IF packet.offset = 0 THEN packet ELSE queues[Found].iph
              /\ q.ihlen = IF packet.offset = 0 THEN packet.ihl ELSE queues[Found].ihlen
  <1> DEFINE p == Found
             r == queues[p]
             a == IF packet.offset = 0 THEN packet ELSE r.iph
             b == IF packet.offset = 0 THEN packet.ihl ELSE r.ihlen
             q == [iph |-> a, ihlen |-> b, len |-> r.len, expires |-> Expiry,
                   fragments |-> r.fragments, hf |-> r.hf]
             x == [r EXCEPT !.iph = a]
             y == [x EXCEPT !.ihlen = b]
             z == [y EXCEPT !.expires = Expiry]
  <1>1. Parts /\ Registers /\ pc = "find" /\ p \in Live /\ packet \in Packet
    BY FoundIs, InUse DEF IInv, RefreshQueue
  <1>2. queues' = [queues EXCEPT
               ![p].iph = IF packet.offset = 0 THEN packet ELSE @,
               ![p].ihlen = IF packet.offset = 0 THEN packet.ihl ELSE @,
               ![p].expires = Expiry]
    BY DEF RefreshQueue
  <1> HIDE DEF p
  <1>3. p \in Ptr /\ r \in Ipq /\ queues \in [Ptr -> OrNull(Ipq)]
    BY <1>1, LiveIs DEF Parts, Tables
  <1>4. queues' = [queues EXCEPT ![p] = z]
    BY <1>2, <1>3
  <1>5. Expiry \in Int /\ packet.ihl \in Nat
    BY <1>1, ExpiryType DEF Packet
  <1>6. q \in Ipq
    BY <1>1, <1>3, <1>5 DEF Ipq
  <1>7. q.hf = r.hf /\ q.len = r.len /\ q.fragments = r.fragments /\ q.iph = a /\ q.ihlen = b
    OBVIOUS
  <1>8. r = [iph |-> r.iph, ihlen |-> r.ihlen, len |-> r.len, expires |-> r.expires,
             fragments |-> r.fragments, hf |-> r.hf]
    BY <1>3 DEF Ipq
  <1>9. z = q
    <2>1. q = [iph |-> a, ihlen |-> b, len |-> r.len, expires |-> Expiry,
               fragments |-> r.fragments, hf |-> r.hf]
      OBVIOUS
    <2> HIDE DEF q, a, b, r
    <2>2. x = [iph |-> a, ihlen |-> r.ihlen, len |-> r.len, expires |-> r.expires,
               fragments |-> r.fragments, hf |-> r.hf]
      BY <1>8
    <2> HIDE DEF x
    <2>3. y = [iph |-> a, ihlen |-> b, len |-> r.len, expires |-> r.expires,
               fragments |-> r.fragments, hf |-> r.hf]
      BY <2>2
    <2> HIDE DEF y
    <2> QED BY <2>1, <2>3
  <1> HIDE DEF q, z
  <1> QED BY <1>4, <1>6, <1>7, <1>9 DEF p

LEMMA RefreshQueueKeeps ==
    ASSUME IInv, RefreshQueue
    PROVE  IInv'
  <1> DEFINE p == Found
  <1>1. Parts /\ Registers /\ NoneEmpty /\ pc = "find"
    BY DEF IInv, RefreshQueue
  <1>2. /\ p \in Live /\ queues[p].hf = this_host
        /\ queues[p].iph.id = packet.id /\ queues[p].iph.dst = packet.dst
        /\ ~Empty(this_host)
    BY <1>1, FoundIs DEF RefreshQueue
  <1>4. /\ timers' = AddTimer(DelTimer(DelTimer(timers, p), p), p)
        /\ ProceedWith(p)
        /\ UNCHANGED <<fragtable, this_host, timenow, clock, delivered>>
    BY DEF RefreshQueue
  <1>6. PICK q \in Ipq : /\ queues' = [queues EXCEPT ![p] = q]
                         /\ q.hf = queues[p].hf /\ q.fragments = queues[p].fragments
                         /\ q.iph = IF packet.offset = 0 THEN packet ELSE queues[p].iph
    BY RefreshedIs
  <1> HIDE DEF p
  <1>5. p \in Ptr /\ queues \in [Ptr -> OrNull(Ipq)] /\ timers \in Timers
    BY <1>1, <1>2, LiveIs DEF Parts, Tables
  <1>7. /\ q # Null /\ q.hf = queues[p].hf /\ q.fragments = queues[p].fragments
        /\ q.iph.id = queues[p].iph.id /\ q.hf = q.iph.dst
    BY <1>1, <1>2, <1>6, IpAssumption DEF Parts, Queued
  <1>8. /\ queues' \in [Ptr -> OrNull(Ipq)]
        /\ queues'[p] = q /\ \A x \in Ptr : x # p => queues'[x] = queues[x]
    BY <1>5, <1>6, <1>7 DEF OrNull
  <1>9. Live' = Live
    BY <1>2, <1>7, <1>8 DEF Live
  <1>10. \A x \in Live :
             /\ queues'[x].hf = queues[x].hf
             /\ queues'[x].fragments = queues[x].fragments
             /\ queues'[x].iph.id = queues[x].iph.id
             /\ queues'[x].hf = queues'[x].iph.dst
    BY <1>1, <1>7, <1>8 DEF Live, Parts, Queued
  <1>11. timers' \in Timers /\ Chained'
    <2>1. PICK s \in Seq(Ptr) : Chain(timers, s) /\ ToSet(s) = Live
      BY <1>1 DEF Parts, Chained
    <2>2. PICK i \in 1 .. Len(s) : s[i] = p
      BY <1>2, <2>1 DEF ToSet
    <2> DEFINE l == DelTimer(timers, p)
               r == RemoveAt(s, i)
    <2>3. timers' = AddTimer(l, p)
      BY <1>4, <1>5, <2>1, <2>2, DelTimerTwice
    <2>4. l \in Timers /\ Chain(l, r)
      BY <1>5, <2>1, <2>2, DelTimerIs, DelTimerChain
    <2>5. r \in Seq(Ptr) /\ ToSet(r) = Live \ {p}
      BY <2>1, <2>2, RemoveAtIs, RemoveAtDistinct DEF Chain
    <2> HIDE DEF l, r
    <2>6. /\ timers' \in Timers /\ Chain(timers', Append(r, p))
          /\ ToSet(Append(r, p)) = Live
      <3>1. p \notin ToSet(r) /\ ToSet(r) \cup {p} = Live
        BY <1>2, <2>5
      <3>2. /\ AddTimer(l, p) \in Timers /\ Chain(AddTimer(l, p), Append(r, p))
            /\ ToSet(Append(r, p)) = ToSet(r) \cup {p}
        BY <1>5, <2>4, <2>5, <3>1, AddTimerChain
      <3> QED BY <2>3, <3>1, <3>2
    <2>7. Append(r, p) \in Seq(Ptr)
      BY <1>5, <2>5
    <2> QED BY <1>9, <2>6, <2>7 DEF Chained
  <1>12. Tables'
    BY <1>1, <1>4, <1>8, <1>11 DEF Parts, Tables
  <1>13. Queued'
    BY <1>1, <1>4, <1>9, <1>10 DEF Parts, Queued
  <1>14. Listed'
    BY <1>1, <1>4, <1>9, <1>10 DEF Parts, Listed
  <1>15. OneId'
    <2>1. \A d \in Dst : fragtable[d] # Null =>
             \A i \in 1 .. Len(fragtable[d].ipqueue) :
                queues'[fragtable[d].ipqueue[i]].iph.id = queues[fragtable[d].ipqueue[i]].iph.id
      BY <1>1, <1>10 DEF Parts, Listed
    <2> SUFFICES ASSUME NEW d \in Dst, fragtable'[d] # Null,
                        NEW i \in 1 .. Len(fragtable'[d].ipqueue),
                        NEW j \in 1 .. Len(fragtable'[d].ipqueue),
                        queues'[fragtable'[d].ipqueue[i]].iph.id = queues'[fragtable'[d].ipqueue[j]].iph.id
                 PROVE  i = j
      BY DEF OneId
    <2>2. /\ fragtable[d] # Null
          /\ i \in 1 .. Len(fragtable[d].ipqueue) /\ j \in 1 .. Len(fragtable[d].ipqueue)
          /\ queues[fragtable[d].ipqueue[i]].iph.id = queues[fragtable[d].ipqueue[j]].iph.id
      BY <1>4, <2>1
    <2> QED BY <1>1, <2>2 DEF Parts, OneId
  <1>16. Counted'
    <2>1. ASSUME NEW d \in Dst, fragtable[d] # Null
          PROVE  Sizes(fragtable[d].ipqueue, queues') = Sizes(fragtable[d].ipqueue, queues)
      <3>1. \A i \in 1 .. Len(fragtable[d].ipqueue) :
                queues'[fragtable[d].ipqueue[i]].fragments = queues[fragtable[d].ipqueue[i]].fragments
        BY <1>1, <1>10, <2>1 DEF Parts, Listed
      <3> QED BY <3>1 DEF Sizes
    <2> QED BY <1>1, <1>4, <2>1 DEF Parts, Counted
  <1>17. AllApart'
    BY <1>1, <1>9, <1>10 DEF Parts, AllApart
  <1>18. Parts'
    BY <1>11, <1>12, <1>13, <1>14, <1>15, <1>16, <1>17 DEF Parts
  <1>19. \A d \in Dst : ~Empty(d)'
    <2>1. \A d \in Dst : ~Empty(d)
      BY <1>1, <1>2 DEF NoneEmpty
    <2> QED BY <1>4, <2>1 DEF Empty
  <1>20. Registers' /\ NoneEmpty' /\ Calling'
    BY <1>1, <1>2, <1>4, <1>5, <1>9, <1>10, <1>19, ProceedWithKeeps
  <1> QED BY <1>18, <1>20 DEF IInv

LEMMA CreatedIs ==
    ASSUME Registers, packet \in Packet
    PROVE  /\ NewIpq \in Ipq /\ NewIpq # Null /\ NewIpq.hf = packet.dst /\ NewIpq.iph = packet
           /\ NewIpq.fragments = <<>> /\ NewIpq.len = 0 /\ NewIpq.ihlen = packet.ihl
  <1>1. NewIpq \in Ipq
    BY ExpiryType DEF NewIpq, Ipq, Packet
  <1>2. /\ NewIpq.hf = packet.dst /\ NewIpq.iph = packet
        /\ NewIpq.fragments = <<>> /\ NewIpq.len = 0 /\ NewIpq.ihlen = packet.ihl
    BY DEF NewIpq
  <1> QED BY <1>1, <1>2, IpAssumption

LEMMA CreateQueueKeeps ==
    ASSUME IInv, NEW p \in Ptr, CreateQueue(p)
    PROVE  IInv'
  <1> DEFINE d == packet.dst
             new == [ipqueue |-> <<>>, ip_frag_mem |-> 0]
             h == IF this_host = Null THEN new ELSE fragtable[d]
             M == <<p>> \o h.ipqueue
             n == NewIpq
             rec == [ipqueue |-> M, ip_frag_mem |-> h.ip_frag_mem + QueueSize]
  <1>1. Parts /\ Registers /\ NoneEmpty /\ pc = "find"
    BY DEF IInv, CreateQueue
  <1>2. /\ packet \in Packet /\ d \in Dst /\ d # Null
        /\ this_host = IF fragtable[d] = Null THEN Null ELSE d
    BY <1>1, InUse
  <1>3. /\ queues' = [queues EXCEPT ![p] = n]
        /\ timers' = AddTimer(timers, p)
        /\ fragtable' = [fragtable EXCEPT ![d] = rec]
        /\ this_host' = d
        /\ ProceedWith(p)
        /\ UNCHANGED <<timenow, clock, delivered>>
        /\ queues[p] = Null /\ Matching = {}
    BY DEF CreateQueue
  <1>4. /\ fragtable \in [Dst -> OrNull(HostFrags)] /\ queues \in [Ptr -> OrNull(Ipq)]
        /\ timers \in Timers /\ Tables
    BY <1>1 DEF Parts, Tables
  <1>5. /\ h.ipqueue \in Seq(Live) /\ h.ip_frag_mem \in Int
        /\ h.ip_frag_mem = Total(Sizes(h.ipqueue, queues))
        /\ \A i \in 1 .. Len(h.ipqueue) :
              queues[h.ipqueue[i]].hf = d /\ queues[h.ipqueue[i]].iph.id # packet.id
        /\ \A i, j \in 1 .. Len(h.ipqueue) :
              queues[h.ipqueue[i]].iph.id = queues[h.ipqueue[j]].iph.id => i = j
        /\ fragtable[d] # Null => h = fragtable[d]
    <2>1. CASE fragtable[d] = Null
      <3>1. h = new
        BY <1>2, <2>1
      <3>2. new.ipqueue = <<>> /\ new.ip_frag_mem = 0
        OBVIOUS
      <3>3. h.ipqueue = <<>> /\ h.ip_frag_mem = 0
        BY <3>1, <3>2
      <3>4. <<>> \in Seq(Live) /\ Len(<<>>) = 0
        OBVIOUS
      <3>5. Total(Sizes(<<>>, queues)) = 0
        BY <1>4, <3>4, SizesType, TotalEmpty
      <3> HIDE DEF h
      <3> QED BY <2>1, <3>3, <3>4, <3>5
    <2>2. CASE fragtable[d] # Null
      <3>1. h = fragtable[d] /\ this_host = d
        BY <1>2, <2>2
      <3> HIDE DEF h
      <3>2. h.ipqueue \in Seq(Live) /\ h.ip_frag_mem \in Int /\ DOMAIN h.ipqueue = 1 .. Len(h.ipqueue)
        BY <1>1, <1>2, <2>2, <3>1, ListIs, HostIs DEF Parts
      <3>3. \A i \in 1 .. Len(h.ipqueue) : h.ipqueue[i] \in Live /\ queues[h.ipqueue[i]].hf = d
        BY <1>1, <1>2, <2>2, <3>1 DEF Parts, Listed
      <3>4. \A i \in 1 .. Len(h.ipqueue) : queues[h.ipqueue[i]].iph.dst = d
        BY <1>1, <3>3 DEF Parts, Queued
      <3>5. \A i \in 1 .. Len(h.ipqueue) : ~Matches(h.ipqueue[i])
        BY <1>2, <1>3, <3>1, <3>2 DEF Matching
      <3>6. \A i \in 1 .. Len(h.ipqueue) : queues[h.ipqueue[i]].iph.id # packet.id
        BY <3>4, <3>5 DEF Matches
      <3>7. h.ip_frag_mem = Total(Sizes(h.ipqueue, queues))
        BY <1>1, <1>2, <2>2, <3>1 DEF Parts, Counted
      <3>8. \A i, j \in 1 .. Len(h.ipqueue) :
              queues[h.ipqueue[i]].iph.id = queues[h.ipqueue[j]].iph.id => i = j
        BY <1>1, <1>2, <2>2, <3>1 DEF Parts, OneId
      <3> QED BY <3>1, <3>2, <3>3, <3>6, <3>7, <3>8
    <2> QED BY <2>1, <2>2
  <1> HIDE DEF h
  <1>6. n \in Ipq /\ n # Null /\ n.hf = d /\ n.iph = packet /\ n.fragments = <<>>
    BY <1>1, <1>2, CreatedIs
  <1> HIDE DEF n
  <1>7. /\ queues' \in [Ptr -> OrNull(Ipq)] /\ queues'[p] = n
        /\ \A x \in Ptr : x # p => queues'[x] = queues[x]
    BY <1>3, <1>4, <1>6 DEF OrNull
  <1>8. Live' = Live \cup {p} /\ p \notin Live
    BY <1>3, <1>6, <1>7 DEF Live
  <1>a. \A x \in Live : x \in Ptr /\ x # p /\ queues'[x] = queues[x]
    BY <1>7, <1>8 DEF Live
  <1>9. timers' \in Timers /\ Chained'
    <2>1. PICK s \in Seq(Ptr) : Chain(timers, s) /\ ToSet(s) = Live
      BY <1>1 DEF Parts, Chained
    <2>2. /\ timers' \in Timers /\ Chain(timers', Append(s, p))
          /\ ToSet(Append(s, p)) = Live \cup {p}
      BY <1>3, <1>4, <1>8, <2>1, AddTimerChain
    <2>3. Append(s, p) \in Seq(Ptr)
      OBVIOUS
    <2> QED BY <1>8, <2>2, <2>3 DEF Chained
  <1>10. /\ M \in Seq(Ptr) /\ Len(M) = Len(h.ipqueue) + 1 /\ M[1] = p
         /\ \A i \in 1 .. Len(h.ipqueue) : M[i + 1] = h.ipqueue[i] /\ h.ipqueue[i] \in Live
    <2>1. Live \subseteq Ptr
      BY DEF Live
    <2>2. h.ipqueue \in Seq(Ptr)
      BY <1>5, <2>1
    <2> QED BY <1>5, <2>2, ElementOfSeq
  <1> HIDE DEF M
  <1>b. \A i \in 1 .. Len(M) :
            \/ i = 1 /\ M[i] = p
            \/ i - 1 \in 1 .. Len(h.ipqueue) /\ M[i] = h.ipqueue[i - 1]
    <2> TAKE i \in 1 .. Len(M)
    <2>1. CASE i = 1
      BY <1>10, <2>1
    <2>2. CASE i # 1
      <3>1. Len(h.ipqueue) \in Nat
        BY <1>5
      <3>2. i - 1 \in 1 .. Len(h.ipqueue) /\ (i - 1) + 1 = i
        BY <1>10, <2>2, <3>1
      <3> QED BY <1>10, <3>2
    <2> QED BY <2>1, <2>2
  <1>11. rec \in HostFrags /\ rec # Null /\ rec.ipqueue = M /\ rec.ip_frag_mem = h.ip_frag_mem + QueueSize
    <2>1. rec \in HostFrags
      BY <1>5, <1>10, IpAssumption DEF HostFrags
    <2>2. rec.ipqueue = M /\ rec.ip_frag_mem = h.ip_frag_mem + QueueSize
      OBVIOUS
    <2> HIDE DEF rec
    <2> QED BY <2>1, <2>2, IpAssumption
  <1> HIDE DEF rec
  <1>12. /\ fragtable' \in [Dst -> OrNull(HostFrags)] /\ fragtable'[d] = rec
         /\ \A e \in Dst : e # d => fragtable'[e] = fragtable[e]
    BY <1>2, <1>3, <1>4, <1>11 DEF OrNull
  <1>13. Tables'
    BY <1>2, <1>3, <1>7, <1>9, <1>12 DEF Tables, OrNull
  <1>14. Queued'
    <2> SUFFICES ASSUME NEW x \in Live'
                 PROVE  /\ fragtable'[queues'[x].hf] # Null
                        /\ x \in ToSet(fragtable'[queues'[x].hf].ipqueue)
                        /\ queues'[x].hf = queues'[x].iph.dst
      BY DEF Queued
    <2>1. CASE x = p
      <3>1. p \in ToSet(M)
        BY <1>10 DEF ToSet
      <3> QED BY <1>6, <1>7, <1>11, <1>12, <2>1, <3>1
    <2>2. CASE x \in Live
      <3>1. /\ fragtable[queues[x].hf] # Null
            /\ x \in ToSet(fragtable[queues[x].hf].ipqueue)
            /\ queues[x].hf = queues[x].iph.dst
            /\ queues[x].hf \in Dst
        BY <1>1, <1>4, <2>2, LiveIs DEF Parts, Queued, Ipq
      <3>2. CASE queues[x].hf = d
        <4>1. PICK i \in 1 .. Len(h.ipqueue) : x = h.ipqueue[i]
          BY <1>5, <3>1, <3>2 DEF ToSet
        <4>2. i + 1 \in 1 .. Len(M) /\ M[i + 1] = x
          BY <1>5, <1>10, <4>1
        <4>3. x \in ToSet(M)
          BY <1>10, <4>2 DEF ToSet
        <4> QED BY <1>a, <1>11, <1>12, <2>2, <3>1, <3>2, <4>3
      <3>3. CASE queues[x].hf # d
        BY <1>a, <1>12, <2>2, <3>1, <3>3
      <3> QED BY <3>2, <3>3
    <2> QED BY <1>8, <2>1, <2>2
  <1>15. Listed'
    <2> SUFFICES ASSUME NEW e \in Dst, fragtable'[e] # Null,
                        NEW i \in 1 .. Len(fragtable'[e].ipqueue)
                 PROVE  /\ fragtable'[e].ipqueue[i] \in Live \cup {p}
                        /\ queues'[fragtable'[e].ipqueue[i]].hf = e
      BY <1>8 DEF Listed
    <2>1. CASE e = d
      <3>1. i \in 1 .. Len(M) /\ fragtable'[e].ipqueue = M
        BY <1>11, <1>12, <2>1
      <3>2. CASE M[i] = p
        BY <1>6, <1>7, <2>1, <3>1, <3>2
      <3>3. CASE i - 1 \in 1 .. Len(h.ipqueue) /\ M[i] = h.ipqueue[i - 1]
        <4>1. M[i] \in Live /\ queues[M[i]].hf = d
          BY <1>5, <1>10, <3>3
        <4> QED BY <1>a, <2>1, <3>1, <4>1
      <3> QED BY <1>b, <3>1, <3>2, <3>3
    <2>2. CASE e # d
      <3>1. fragtable[e].ipqueue[i] \in Live /\ queues[fragtable[e].ipqueue[i]].hf = e
        BY <1>1, <1>12, <2>2 DEF Parts, Listed
      <3> QED BY <1>a, <1>12, <2>2, <3>1
    <2> QED BY <2>1, <2>2
  <1>16. OneId'
    <2> SUFFICES ASSUME NEW e \in Dst, fragtable'[e] # Null,
                        NEW i \in 1 .. Len(fragtable'[e].ipqueue),
                        NEW j \in 1 .. Len(fragtable'[e].ipqueue),
                        queues'[fragtable'[e].ipqueue[i]].iph.id = queues'[fragtable'[e].ipqueue[j]].iph.id
                 PROVE  i = j
      BY DEF OneId
    <2>1. CASE e = d
      <3>1. i \in 1 .. Len(M) /\ j \in 1 .. Len(M) /\ queues'[M[i]].iph.id = queues'[M[j]].iph.id
        BY <1>11, <1>12, <2>1
      <3>2. \A a \in 1 .. Len(h.ipqueue) : queues'[h.ipqueue[a]] = queues[h.ipqueue[a]]
        BY <1>a, <1>10
      <3>3. /\ i = 1 => queues'[M[i]].iph.id = packet.id
            /\ j = 1 => queues'[M[j]].iph.id = packet.id
        BY <1>6, <1>7, <1>10
      <3>4. ASSUME NEW a \in 1 .. Len(M), a # 1
            PROVE  /\ a - 1 \in 1 .. Len(h.ipqueue)
                   /\ queues'[M[a]].iph.id = queues[h.ipqueue[a - 1]].iph.id
                   /\ queues'[M[a]].iph.id # packet.id
        <4>1. a - 1 \in 1 .. Len(h.ipqueue) /\ M[a] = h.ipqueue[a - 1]
          BY <1>b, <3>4
        <4> QED BY <1>5, <3>2, <4>1
      <3>5. CASE i = 1 \/ j = 1
        <4>1. i = 1 /\ j = 1
          BY <3>1, <3>3, <3>4, <3>5
        <4> QED BY <4>1
      <3>6. CASE i # 1 /\ j # 1
        <4>1. PICK a \in 1 .. Len(h.ipqueue) :
                  a = i - 1 /\ queues[h.ipqueue[a]].iph.id = queues'[M[i]].iph.id
          BY <3>1, <3>4, <3>6
        <4>2. PICK b \in 1 .. Len(h.ipqueue) :
                  b = j - 1 /\ queues[h.ipqueue[b]].iph.id = queues'[M[j]].iph.id
          BY <3>1, <3>4, <3>6
        <4>3. a = b
          BY <1>5, <3>1, <4>1, <4>2
        <4> QED BY <3>1, <4>1, <4>2, <4>3
      <3> QED BY <3>5, <3>6
    <2>2. CASE e # d
      <3>1. /\ fragtable[e] # Null /\ fragtable'[e] = fragtable[e]
            /\ \A a \in 1 .. Len(fragtable[e].ipqueue) :
                  queues'[fragtable[e].ipqueue[a]] = queues[fragtable[e].ipqueue[a]]
        BY <1>1, <1>a, <1>12, <2>2 DEF Parts, Listed
      <3>2. queues[fragtable[e].ipqueue[i]].iph.id = queues[fragtable[e].ipqueue[j]].iph.id
        BY <3>1
      <3> QED BY <1>1, <3>1, <3>2 DEF Parts, OneId
    <2> QED BY <2>1, <2>2
  <1>17. Counted'
    <2> SUFFICES ASSUME NEW e \in Dst, fragtable'[e] # Null
                 PROVE  fragtable'[e].ip_frag_mem = Total(Sizes(fragtable'[e].ipqueue, queues'))
      BY DEF Counted
    <2>1. CASE e = d
      <3> DEFINE s == Sizes(h.ipqueue, queues)
                 r == Sizes(M, queues')
      <3>1. s \in Seq(Int) /\ Len(s) = Len(h.ipqueue)
        BY <1>4, <1>5, SizesType
      <3>2. /\ r = [i \in 1 .. Len(M) |-> QueueSize + Charge(queues'[M[i]].fragments)]
            /\ s = [i \in 1 .. Len(h.ipqueue) |-> QueueSize + Charge(queues[h.ipqueue[i]].fragments)]
        BY DEF Sizes
      <3>3. Charge(<<>>) = 0
        <4>1. /\ [i \in DOMAIN <<>> |-> FragCharge(<<>>[i])] \in Seq(Int)
              /\ Len([i \in DOMAIN <<>> |-> FragCharge(<<>>[i])]) = 0
          OBVIOUS
        <4> QED BY <4>1, TotalEmpty DEF Charge
      <3> HIDE DEF r, s
      <3>4. QueueSize \in Int /\ QueueSize + 0 = QueueSize
        BY IpAssumption
      <3>5. r[1] = QueueSize
        BY <1>5, <1>6, <1>7, <1>10, <3>2, <3>3, <3>4
      <3>6. \A i \in 1 .. Len(s) : r[i + 1] = s[i]
        BY <1>a, <1>5, <1>10, <3>1, <3>2
      <3>7. r = <<QueueSize>> \o s
        <4> DEFINE t == <<QueueSize>> \o s
        <4>1. /\ t = [i \in 1 .. Len(s) + 1 |-> t[i]] /\ t[1] = QueueSize
              /\ \A i \in 1 .. Len(s) : t[i + 1] = s[i]
          BY <3>1, <3>4
        <4>2. r = [i \in 1 .. Len(s) + 1 |-> r[i]]
          BY <1>10, <3>1, <3>2
        <4> HIDE DEF t
        <4>3. ASSUME NEW i \in 1 .. Len(s) + 1 PROVE r[i] = t[i]
          <5>1. CASE i = 1
            BY <3>5, <4>1, <5>1
          <5>2. CASE i # 1
            <6>1. i - 1 \in 1 .. Len(s) /\ (i - 1) + 1 = i
              BY <3>1, <5>2
            <6> QED BY <3>6, <4>1, <6>1
          <5> QED BY <5>1, <5>2
        <4> QED BY <4>1, <4>2, <4>3 DEF t
      <3>8. Total(r) = QueueSize + Total(s)
        BY <3>1, <3>4, <3>7, TotalPrepend
      <3>9. rec.ip_frag_mem = Total(s) + QueueSize /\ Total(s) \in Int
        BY <1>5, <1>11, <3>1, TotalType DEF s
      <3> QED BY <1>11, <1>12, <2>1, <3>4, <3>8, <3>9 DEF r
    <2>2. CASE e # d
      <3>1. \A i \in 1 .. Len(fragtable[e].ipqueue) :
                  queues'[fragtable[e].ipqueue[i]] = queues[fragtable[e].ipqueue[i]]
        BY <1>1, <1>a, <1>12, <2>2 DEF Parts, Listed
      <3>2. Sizes(fragtable'[e].ipqueue, queues') = Sizes(fragtable[e].ipqueue, queues)
        BY <1>12, <2>2, <3>1 DEF Sizes
      <3> QED BY <1>1, <1>12, <2>2, <3>2 DEF Parts, Counted
    <2> QED BY <2>1, <2>2
  <1>18. AllApart'
    <2>1. Apart(<<>>)
      BY DEF Apart
    <2> QED BY <1>1, <1>a, <1>6, <1>7, <1>8, <2>1 DEF Parts, AllApart
  <1>19. Parts'
    BY <1>9, <1>13, <1>14, <1>15, <1>16, <1>17, <1>18 DEF Parts
  <1>20. \A e \in Dst : ~Empty(e)'
    <2>1. M # <<>>
      BY <1>5, <1>10
    <2>2. \A e \in Dst : e # d => ~Empty(e)
      BY <1>1, <1>2, IpAssumption DEF NoneEmpty, Empty
    <2>3. \A e \in Dst : ~(fragtable'[e] # Null /\ fragtable'[e].ipqueue = <<>>)
      BY <1>11, <1>12, <2>1, <2>2 DEF Empty
    <2> QED BY <2>3 DEF Empty
  <1>21. Registers' /\ NoneEmpty' /\ Calling'
    BY <1>1, <1>3, <1>6, <1>7, <1>8, <1>20, ProceedWithKeeps
  <1> QED BY <1>19, <1>21 DEF IInv

----------------------------------------------------------------------------
\* A new fragment among those of its queue

LEMMA BeforeIs ==
    ASSUME NEW fr \in Seq(IpFrag), NEW offset \in Nat
    PROVE  \E n \in 0 .. Len(fr) :
              /\ Before(fr, offset) = SubSeq(fr, 1, n)
              /\ Before(fr, offset) \in Seq(IpFrag) /\ Len(Before(fr, offset)) = n
              /\ \A i \in 1 .. n : Before(fr, offset)[i] = fr[i] /\ fr[i].offset < offset
              /\ n < Len(fr) => fr[n + 1].offset >= offset
  <1> DEFINE S == {i \in DOMAIN fr : fr[i].offset >= offset}
             n == First(S, Len(fr))
             b == SubSeq(fr, 1, n - 1)
  <1>1. DOMAIN fr = 1 .. Len(fr) /\ Len(fr) \in Nat
    OBVIOUS
  <1>2. S \in SUBSET (1 .. Len(fr))
    BY <1>1
  <1>a. \A i \in 1 .. Len(fr) : i \notin S => fr[i].offset < offset
    <2> SUFFICES ASSUME NEW i \in 1 .. Len(fr), i \notin S PROVE fr[i].offset < offset
      OBVIOUS
    <2>1. fr[i] \in IpFrag
      BY ElementOfSeq
    <2>2. fr[i].offset \in Nat /\ ~(fr[i].offset >= offset)
      BY <1>1, <2>1 DEF IpFrag
    <2> QED BY <2>2
  <1>b. \A i \in S : fr[i].offset >= offset
    OBVIOUS
  <1>3. Before(fr, offset) = b
    BY DEF Before
  <1> HIDE DEF S
  <1>4. n \in 1 .. Len(fr) + 1 /\ \A i \in 1 .. Len(fr) : i < n => i \notin S
    BY <1>1, <1>2, FirstIs
  <1>c. n <= Len(fr) => fr[n].offset >= offset
    BY <1>1, <1>2, <1>b, FirstIs
  <1> HIDE DEF n
  <1>5. n - 1 \in 0 .. Len(fr)
    BY <1>1, <1>4
  <1>6. b \in Seq(IpFrag) /\ Len(b) = n - 1 /\ \A i \in 1 .. n - 1 : b[i] = fr[i]
    BY <1>4, SubSeqProperties
  <1>7. \A i \in 1 .. n - 1 : fr[i].offset < offset
    BY <1>1, <1>4, <1>a
  <1>8. n - 1 < Len(fr) => fr[(n - 1) + 1].offset >= offset
    BY <1>1, <1>4, <1>c
  <1> QED BY <1>3, <1>5, <1>6, <1>7, <1>8

\* What is left of fr behind the first n, when k are covered or before.
CutAfter(fr, offset, end, n, k) ==
    /\ DOMAIN After(fr, offset, end) = 1 .. Len(fr) - k
    /\ \A i \in 1 .. Len(fr) - k :
          After(fr, offset, end)[i] =
              IF fr[k + i].offset < end THEN Behind(fr[k + i], end) ELSE fr[k + i]
    /\ \A i \in n + 1 .. k : fr[i].end <= end

\* What follows is a suffix of the fragments, cut at the end of the new one.
LEMMA AfterIs ==
    ASSUME NEW fr \in Seq(IpFrag), NEW offset \in Nat, NEW end \in Nat,
           NEW n \in 0 .. Len(fr), Len(Before(fr, offset)) = n
    PROVE  \E k \in n .. Len(fr) : CutAfter(fr, offset, end, n, k)
  <1> DEFINE following == SubSeq(fr, n + 1, Len(fr))
             covered(f) == f.offset < end /\ f.end <= end
             S == {i \in DOMAIN following : ~covered(following[i])}
             m == First(S, Len(following))
             left == SubSeq(following, m, Len(following))
  <1>1. Len(fr) \in Nat
    OBVIOUS
  <1>2. /\ following \in Seq(IpFrag) /\ Len(following) = Len(fr) - n
        /\ \A i \in 1 .. Len(fr) - n : following[i] = fr[n + i]
    BY <1>1, SubSeqProperties
  <1>3. After(fr, offset, end) =
            [i \in DOMAIN left |-> IF left[i].offset < end THEN Behind(left[i], end) ELSE left[i]]
    BY DEF After
  <1> HIDE DEF following
  <1>4. S \in SUBSET (1 .. Len(following)) /\ Len(following) \in Nat
    BY <1>2
  <1>a. \A i \in 1 .. Len(following) : i \notin S => following[i].end <= end
    BY <1>2
  <1> HIDE DEF S
  <1>5. m \in 1 .. Len(following) + 1 /\ \A i \in 1 .. Len(following) : i < m => i \notin S
    BY <1>4, FirstIs
  <1> HIDE DEF m
  <1>6. /\ left \in Seq(IpFrag) /\ Len(left) = Len(following) - m + 1
        /\ \A i \in 1 .. Len(following) - m + 1 : left[i] = following[m + i - 1]
    BY <1>2, <1>4, <1>5, SubSeqProperties
  <1> HIDE DEF left
  <1> DEFINE k == n + m - 1
  <1>7. k \in n .. Len(fr) /\ Len(left) = Len(fr) - k
    BY <1>1, <1>2, <1>5, <1>6
  <1>8. ASSUME NEW i \in 1 .. Len(fr) - k PROVE left[i] = fr[k + i]
    <2>1. i \in 1 .. Len(following) - m + 1 /\ m + i - 1 \in 1 .. Len(fr) - n
      BY <1>1, <1>2, <1>5
    <2>2. left[i] = following[m + i - 1] /\ following[m + i - 1] = fr[n + (m + i - 1)]
      BY <1>2, <1>6, <2>1
    <2>3. n + (m + i - 1) = k + i
      BY <1>1, <1>5
    <2> QED BY <2>2, <2>3
  <1>9. DOMAIN left = 1 .. Len(fr) - k
    BY <1>6, <1>7
  <1>11. ASSUME NEW i \in n + 1 .. k PROVE fr[i].end <= end
    <2>1. i - n \in 1 .. Len(following) /\ i - n < m /\ i - n \in 1 .. Len(fr) - n
      BY <1>1, <1>2, <1>5
    <2>2. following[i - n].end <= end
      BY <1>5, <1>a, <2>1
    <2>3. following[i - n] = fr[n + (i - n)] /\ n + (i - n) = i
      BY <1>2, <2>1
    <2> QED BY <2>2, <2>3
  <1> HIDE DEF k
  <1>10. /\ DOMAIN After(fr, offset, end) = 1 .. Len(fr) - k
         /\ \A i \in 1 .. Len(fr) - k :
               After(fr, offset, end)[i] =
                   IF fr[k + i].offset < end THEN Behind(fr[k + i], end) ELSE fr[k + i]
    BY <1>3, <1>8, <1>9
  <1>12. CutAfter(fr, offset, end, n, k)
    BY <1>10, <1>11 DEF CutAfter
  <1> QED BY <1>7, <1>12

\* One fragment that reads its own place.
Own(f) ==
    /\ f.ptr = f.offset
    /\ f.offset >= f.skb.offset
    /\ f.end = f.skb.offset + f.skb.len

LEMMA BehindIs ==
    ASSUME NEW f \in IpFrag, NEW from \in Nat, f.offset <= from
    PROVE  /\ Behind(f, from) \in IpFrag
           /\ Behind(f, from).offset = from /\ Behind(f, from).end = f.end
           /\ Behind(f, from).skb = f.skb
           /\ Own(f) => Own(Behind(f, from))
  <1> DEFINE g == [offset |-> from, end |-> f.end, skb |-> f.skb, ptr |-> f.ptr + (from - f.offset)]
  <1>1. f.offset \in Nat /\ f.end \in Nat /\ f.skb \in Packet /\ f.ptr \in Nat /\ f.skb.offset \in Nat
    BY DEF IpFrag, Packet
  <1>2. Behind(f, from) = g
    <2>1. f = [offset |-> f.offset, end |-> f.end, skb |-> f.skb, ptr |-> f.ptr]
      BY DEF IpFrag
    <2> DEFINE x == [f EXCEPT !.offset = from]
    <2>2. x = [offset |-> from, end |-> f.end, skb |-> f.skb, ptr |-> f.ptr]
      BY <2>1
    <2>3. Behind(f, from) = [x EXCEPT !.ptr = f.ptr + (from - f.offset)]
      BY DEF Behind, IpFrag
    <2> HIDE DEF x
    <2> QED BY <2>2, <2>3
  <1>3. g.offset = from /\ g.end = f.end /\ g.skb = f.skb /\ g.ptr = f.ptr + (from - f.offset)
    OBVIOUS
  <1>4. f.ptr + (from - f.offset) \in Nat
    BY <1>1
  <1>5. g \in IpFrag
    BY <1>1, <1>4 DEF IpFrag
  <1> HIDE DEF g
  <1>6. Own(f) => Own(g)
    BY <1>1, <1>3 DEF Own
  <1> QED BY <1>2, <1>3, <1>5, <1>6

\* f comes before g without overlapping it.
Precedes(f, g) == f.end <= g.offset /\ f.offset <= g.offset

LEMMA ApartIs ==
    ASSUME NEW list
    PROVE  Apart(list) <=> /\ \A i \in 1 .. Len(list) : Own(list[i])
                           /\ \A i \in 1 .. Len(list) : \A j \in i + 1 .. Len(list) :
                                  Precedes(list[i], list[j])
  BY DEF Apart, Own, Precedes

LEMMA FittedIs ==
    ASSUME packet \in Packet, NEW b \in Seq(IpFrag),
           \A i \in 1 .. Len(b) : b[i].offset < packet.offset,
           \A i \in 1 .. Len(b) : \A j \in i + 1 .. Len(b) : Precedes(b[i], b[j])
    PROVE  /\ Fitted(b) \in IpFrag /\ Own(Fitted(b))
           /\ Fitted(b).end = packet.offset + packet.len /\ Fitted(b).skb = packet
           /\ \A i \in 1 .. Len(b) : Precedes(b[i], Fitted(b))
           /\ Fitted(b).offset = packet.offset \/ (b # <<>> /\ Fitted(b).offset = b[Len(b)].end)
  <1> DEFINE f == [offset |-> packet.offset, end |-> packet.offset + packet.len,
                   skb |-> packet, ptr |-> packet.offset]
  <1>1. packet.offset \in Nat /\ packet.len \in Nat
    BY DEF Packet
  <1>2. f \in IpFrag
    BY <1>1 DEF IpFrag
  <1>3. f.offset = packet.offset /\ f.end = packet.offset + packet.len /\ f.skb = packet
    OBVIOUS
  <1>4. Own(f)
    BY <1>1 DEF Own
  <1>5. Fitted(b) = IF b # <<>> /\ f.offset < Last(b).end THEN Behind(f, Last(b).end) ELSE f
    BY DEF Fitted
  <1> HIDE DEF f
  <1>6. ASSUME NEW i \in 1 .. Len(b)
        PROVE  /\ b[i].offset \in Nat /\ b[i].end \in Nat /\ b[i].offset < packet.offset
               /\ i # Len(b) => b[i].end <= packet.offset
    <2>1. b[i] \in IpFrag
      BY ElementOfSeq
    <2>2. b[i].offset \in Nat /\ b[i].end \in Nat
      BY <2>1 DEF IpFrag
    <2>3. ASSUME i # Len(b) PROVE b[i].end <= packet.offset
      <3>1. Len(b) \in i + 1 .. Len(b) /\ Len(b) \in 1 .. Len(b)
        BY <2>3
      <3>2. b[i].end <= b[Len(b)].offset /\ b[Len(b)].offset < packet.offset
        BY <3>1 DEF Precedes
      <3>3. b[Len(b)].offset \in Nat
        <4>1. b[Len(b)] \in IpFrag
          BY <3>1, ElementOfSeq
        <4> QED BY <4>1 DEF IpFrag
      <3> QED BY <1>1, <2>2, <3>2, <3>3
    <2> QED BY <2>2, <2>3
  <1>7. CASE b # <<>> /\ f.offset < Last(b).end
    <2> DEFINE from == b[Len(b)].end
    <2>1. Len(b) \in 1 .. Len(b) /\ Last(b) = b[Len(b)]
      BY <1>7 DEF Last
    <2>2. from \in Nat /\ packet.offset < from
      BY <1>3, <1>6, <1>7, <2>1
    <2>3. Fitted(b) = Behind(f, from)
      BY <1>5, <1>7, <2>1
    <2> HIDE DEF from
    <2>4. /\ Fitted(b) \in IpFrag /\ Fitted(b).offset = from /\ Fitted(b).end = f.end
          /\ Fitted(b).skb = f.skb /\ Own(Fitted(b))
      BY <1>1, <1>2, <1>3, <1>4, <2>2, <2>3, BehindIs
    <2>5. ASSUME NEW i \in 1 .. Len(b) PROVE Precedes(b[i], Fitted(b))
      <3>1. b[i].end <= from
        <4>1. CASE i = Len(b)
          BY <1>6, <2>2, <4>1 DEF from
        <4>2. CASE i # Len(b)
          BY <1>1, <1>6, <2>2, <4>2
        <4> QED BY <4>1, <4>2
      <3>2. b[i].offset <= from
        BY <1>1, <1>6, <2>2
      <3> QED BY <2>4, <3>1, <3>2 DEF Precedes
    <2> QED BY <1>3, <1>7, <2>4, <2>5 DEF from
  <1>8. CASE ~(b # <<>> /\ f.offset < Last(b).end)
    <2>1. Fitted(b) = f
      BY <1>5, <1>8
    <2>2. ASSUME NEW i \in 1 .. Len(b) PROVE Precedes(b[i], f)
      <3>1. b # <<>> /\ Last(b) = b[Len(b)]
        BY DEF Last
      <3>2. b[i].end <= packet.offset
        <4>1. CASE i = Len(b)
          BY <1>1, <1>3, <1>6, <1>8, <3>1, <4>1
        <4>2. CASE i # Len(b)
          BY <1>6, <4>2
        <4> QED BY <4>1, <4>2
      <3> QED BY <1>1, <1>3, <1>6, <3>2 DEF Precedes
    <2> QED BY <1>2, <1>3, <1>4, <2>1, <2>2
  <1> QED BY <1>7, <1>8

CutFrom(new, old) == \A i \in 1 .. Len(new) :
    new[i].skb = packet \/ \E j \in 1 .. Len(old) : new[i].skb = old[j].skb

ReachesAsFar(new, old) ==
    /\ \E i \in 1 .. Len(new) : new[i].end = packet.offset + packet.len
    /\ \A j \in 1 .. Len(old) : \E i \in 1 .. Len(new) : new[i].end >= old[j].end

\* f holds the byte at x.
Holds(f, x) == f.offset <= x /\ x < f.end

HoldsAsMuch(new, old) == \A x \in Int :
    \/ packet.offset <= x /\ x < packet.offset + packet.len
    \/ \E j \in 1 .. Len(old) : Holds(old[j], x)
    => \E i \in 1 .. Len(new) : Holds(new[i], x)

\* ipDefrag keeps the fragments of a queue apart.  They are cut from those it
\* had and from the packet, reach as far as any of these did, and no byte of
\* either is lost.
LEMMA InsertedIs ==
    ASSUME packet \in Packet, NEW q \in Ipq, Apart(q.fragments)
    PROVE  /\ Inserted(q) \in Ipq /\ Inserted(q).hf = q.hf /\ Inserted(q).iph = q.iph
           /\ Inserted(q).len = IF packet.mf THEN q.len ELSE packet.offset + packet.len
           /\ Apart(Inserted(q).fragments)
           /\ CutFrom(Inserted(q).fragments, q.fragments)
           /\ ReachesAsFar(Inserted(q).fragments, q.fragments)
           /\ HoldsAsMuch(Inserted(q).fragments, q.fragments)
           /\ Inserted(q).ihlen = q.ihlen /\ Inserted(q).expires = q.expires
  <1> DEFINE fr == q.fragments
             offset == packet.offset
             end == packet.offset + packet.len
             b == Before(fr, offset)
             A == After(fr, offset, end)
             f == Fitted(b)
             N == (b \o <<f>>) \o A
             len == IF packet.mf THEN q.len ELSE end
  <1>1. fr \in Seq(IpFrag) /\ Len(fr) \in Nat /\ q.len \in Nat
    BY DEF Ipq
  <1>2. offset \in Nat /\ end \in Nat /\ offset <= end
    <2>1. packet.offset \in Nat /\ packet.len \in Nat
      BY DEF Packet
    <2> QED BY <2>1
  <1>3. Inserted(q) = [iph |-> q.iph, ihlen |-> q.ihlen, len |-> len, expires |-> q.expires,
                       fragments |-> N, hf |-> q.hf]
    <2>1. q = [iph |-> q.iph, ihlen |-> q.ihlen, len |-> q.len, expires |-> q.expires,
               fragments |-> q.fragments, hf |-> q.hf]
      BY DEF Ipq
    <2> DEFINE x == [q EXCEPT !.fragments = N]
    <2>2. Inserted(q) = [x EXCEPT !.len = len]
      BY DEF Inserted, Ipq
    <2> HIDE DEF N, len
    <2>3. x = [iph |-> q.iph, ihlen |-> q.ihlen, len |-> q.len, expires |-> q.expires,
               fragments |-> N, hf |-> q.hf]
      BY <2>1
    <2> HIDE DEF x
    <2> QED BY <2>2, <2>3
  <1>4. len \in Nat
    BY <1>1, <1>2
  <1>a. \A i \in 1 .. Len(fr) : fr[i] \in IpFrag /\ fr[i].offset \in Nat /\ fr[i].end \in Nat
    <2> TAKE i \in 1 .. Len(fr)
    <2>1. fr[i] \in IpFrag
      BY <1>1, ElementOfSeq
    <2> QED BY <2>1 DEF IpFrag
  <1>b. /\ \A i \in 1 .. Len(fr) : Own(fr[i])
        /\ \A i \in 1 .. Len(fr) : \A j \in i + 1 .. Len(fr) : Precedes(fr[i], fr[j])
    BY ApartIs
  <1> HIDE DEF fr, len, end, offset
  <1>5. PICK n \in 0 .. Len(fr) :
            /\ b \in Seq(IpFrag) /\ Len(b) = n
            /\ \A i \in 1 .. n : b[i] = fr[i] /\ fr[i].offset < offset
            /\ n < Len(fr) => fr[n + 1].offset >= offset
    BY <1>1, <1>2, BeforeIs
  <1>6. PICK k \in n .. Len(fr) :
            /\ DOMAIN A = 1 .. Len(fr) - k
            /\ \A i \in 1 .. Len(fr) - k :
                  A[i] = IF fr[k + i].offset < end THEN Behind(fr[k + i], end) ELSE fr[k + i]
            /\ \A i \in n + 1 .. k : fr[i].end <= end
    <2>1. Len(Before(fr, offset)) = n /\ A = After(fr, offset, end)
      BY <1>5
    <2> HIDE DEF A
    <2>2. \E k \in n .. Len(fr) : CutAfter(fr, offset, end, n, k)
      <3>1. fr \in Seq(IpFrag) /\ offset \in Nat /\ end \in Nat /\ n \in 0 .. Len(fr)
        BY <1>1, <1>2
      <3>2. Len(Before(fr, offset)) = n
        BY <2>1
      <3> HIDE DEF b, f, N
      <3> QED BY <3>1, <3>2, AfterIs
    <2> QED BY <2>1, <2>2 DEF CutAfter
  <1>7. /\ f \in IpFrag /\ Own(f) /\ f.end = end /\ f.skb = packet
        /\ \A i \in 1 .. n : Precedes(b[i], f)
        /\ f.offset = offset \/ (n # 0 /\ f.offset = b[n].end)
    <2>1. \A i \in 1 .. Len(b) : \A j \in i + 1 .. Len(b) : Precedes(b[i], b[j])
      BY <1>1, <1>5, <1>b
    <2>2. \A i \in 1 .. Len(b) : b[i].offset < packet.offset
      BY <1>5 DEF offset
    <2> HIDE DEF b
    <2>3. b # <<>> => n # 0
      BY <1>5
    <2> QED BY <1>5, <2>1, <2>2, <2>3, FittedIs DEF offset, end
  <1>8. ASSUME NEW i \in 1 .. Len(fr) - k
        PROVE  /\ k + i \in 1 .. Len(fr)
               /\ A[i] \in IpFrag /\ Own(A[i]) /\ A[i].end = fr[k + i].end
               /\ A[i].skb = fr[k + i].skb
               /\ A[i].offset >= end /\ A[i].offset >= fr[k + i].offset
               /\ A[i].offset = end \/ A[i].offset = fr[k + i].offset
               /\ A[i].offset \in Nat
    <2> DEFINE g == fr[k + i]
    <2>1. k + i \in 1 .. Len(fr)
      BY <1>1
    <2>2. g \in IpFrag /\ Own(g) /\ g.offset \in Nat
      BY <1>a, <1>b, <2>1
    <2>3. A[i] = IF g.offset < end THEN Behind(g, end) ELSE g
      BY <1>6
    <2> HIDE DEF g, A
    <2>4. CASE g.offset < end
      <3>1. g.offset <= end
        BY <1>2, <2>2, <2>4
      <3> QED BY <1>2, <2>1, <2>2, <2>3, <2>4, <3>1, BehindIs DEF g
    <2>5. CASE ~(g.offset < end)
      BY <1>2, <2>1, <2>2, <2>3, <2>5 DEF g
    <2> QED BY <2>4, <2>5
  <1>9. A \in Seq(IpFrag) /\ Len(A) = Len(fr) - k
    <2>1. Len(fr) - k \in Nat
      BY <1>1
    <2>2. A = [i \in 1 .. Len(fr) - k |-> A[i]]
      BY <1>6 DEF After
    <2> HIDE DEF A
    <2> QED BY <1>8, <2>1, <2>2
  <1> HIDE DEF b, A, f
  <1>10. /\ N \in Seq(IpFrag) /\ Len(N) = n + 1 + (Len(fr) - k)
         /\ \A i \in 1 .. n : N[i] = b[i]
         /\ N[n + 1] = f
         /\ \A i \in 1 .. Len(fr) - k : N[n + 1 + i] = A[i]
    <2> DEFINE c == b \o <<f>>
    <2>1. c \in Seq(IpFrag) /\ Len(c) = n + 1 /\ c[n + 1] = f /\ \A i \in 1 .. n : c[i] = b[i]
      BY <1>5, <1>7
    <2>a. N = c \o A
      OBVIOUS
    <2> HIDE DEF c, N
    <2>2. /\ N \in Seq(IpFrag) /\ Len(N) = Len(c) + Len(A)
          /\ \A i \in 1 .. Len(c) + Len(A) : N[i] = IF i <= Len(c) THEN c[i] ELSE A[i - Len(c)]
      BY <1>9, <2>1, <2>a, ConcatProperties
    <2>3. \A i \in 1 .. Len(fr) - k : N[n + 1 + i] = A[i]
      <3> TAKE i \in 1 .. Len(fr) - k
      <3>1. /\ n + 1 + i \in 1 .. Len(c) + Len(A) /\ ~(n + 1 + i <= Len(c))
            /\ (n + 1 + i) - Len(c) = i
        BY <1>1, <1>9, <2>1
      <3> QED BY <2>2, <3>1
    <2>4. \A i \in 1 .. n + 1 : N[i] = c[i]
      <3>1. n \in Nat /\ Len(A) \in Nat
        BY <1>1, <1>9
      <3> TAKE i \in 1 .. n + 1
      <3>2. i \in 1 .. Len(c) + Len(A) /\ i <= Len(c)
        BY <2>1, <3>1
      <3> QED BY <2>2, <3>2
    <2> QED BY <1>1, <1>9, <2>1, <2>2, <2>3, <2>4
  <1> HIDE DEF N
  <1>c. \A a \in 1 .. Len(fr) - k : n + 1 + a \in 1 .. Len(N) /\ N[n + 1 + a] = A[a]
    <2> TAKE a \in 1 .. Len(fr) - k
    <2>1. n + 1 + a \in 1 .. Len(N)
      BY <1>1, <1>10
    <2> QED BY <1>10, <2>1
  <1>11. ASSUME NEW i \in 1 .. Len(N)
         PROVE  \/ i \in 1 .. n /\ N[i] = fr[i]
                \/ i = n + 1 /\ N[i] = f
                \/ i - (n + 1) \in 1 .. Len(fr) - k /\ N[i] = A[i - (n + 1)]
    <2>1. CASE i <= n
      BY <1>5, <1>10, <2>1
    <2>2. CASE i = n + 1
      BY <1>10, <2>2
    <2>3. CASE i > n + 1
      <3>1. i - (n + 1) \in 1 .. Len(fr) - k /\ n + 1 + (i - (n + 1)) = i
        BY <1>1, <1>10, <2>3
      <3> QED BY <1>10, <3>1
    <2> QED BY <1>10, <2>1, <2>2, <2>3
  <1>12. \A i \in 1 .. Len(N) : Own(N[i])
    <2> TAKE i \in 1 .. Len(N)
    <2>1. CASE i \in 1 .. n /\ N[i] = fr[i]
      BY <1>1, <1>b, <2>1
    <2>2. CASE i = n + 1 /\ N[i] = f
      BY <1>7, <2>2
    <2>3. CASE i - (n + 1) \in 1 .. Len(fr) - k /\ N[i] = A[i - (n + 1)]
      BY <1>8, <2>3
    <2> QED BY <1>11, <2>1, <2>2, <2>3
  \* The new fragment precedes what follows, and so does what comes before.
  <1>13. ASSUME NEW a \in 1 .. Len(fr) - k
         PROVE  /\ Precedes(f, A[a])
                /\ \A i \in 1 .. n : Precedes(fr[i], A[a])
    <2>1. k + a \in 1 .. Len(fr) /\ fr[k + a].offset \in Nat /\ A[a].offset \in Nat
          /\ A[a].offset >= end /\ A[a].offset >= fr[k + a].offset
      BY <1>8, <1>a
    <2>2. ASSUME NEW i \in 1 .. n PROVE Precedes(fr[i], A[a])
      <3>1. k + a \in i + 1 .. Len(fr) /\ i \in 1 .. Len(fr)
        BY <1>1, <2>1
      <3>2. fr[i].end <= fr[k + a].offset /\ fr[i].offset <= fr[k + a].offset
        BY <1>b, <3>1 DEF Precedes
      <3>3. fr[i].end \in Nat /\ fr[i].offset \in Nat
        BY <1>a, <3>1
      <3> QED BY <2>1, <3>2, <3>3 DEF Precedes
    <2>3. f.offset <= A[a].offset
      <3>1. CASE f.offset = offset
        BY <1>2, <2>1, <3>1
      <3>2. CASE n # 0 /\ f.offset = b[n].end
        <4>1. n \in 1 .. n /\ b[n] = fr[n]
          BY <1>5, <3>2
        <4>2. fr[n].end <= A[a].offset
          BY <2>2, <4>1 DEF Precedes
        <4> QED BY <3>2, <4>1, <4>2
      <3> QED BY <1>7, <3>1, <3>2
    <2> QED BY <1>2, <1>7, <2>1, <2>2, <2>3 DEF Precedes
  <1>14. ASSUME NEW i \in 1 .. Len(N), NEW j \in i + 1 .. Len(N)
         PROVE  Precedes(N[i], N[j])
    <2>0. j \in 1 .. Len(N) /\ i < j
      BY <1>10
    <2>1. CASE j \in 1 .. n /\ N[j] = fr[j]
      <3>1. i \in 1 .. n /\ N[i] = fr[i]
        <4>1. n \in Nat /\ i \in Nat /\ j \in Nat /\ i < j /\ j <= n
          BY <1>1, <1>10, <2>0, <2>1
        <4>2. ~(i = n + 1) /\ ~(i - (n + 1) \in 1 .. Len(fr) - k)
          BY <1>1, <4>1
        <4> QED BY <1>11, <4>2
      <3>2. i \in 1 .. Len(fr) /\ j \in i + 1 .. Len(fr)
        BY <1>1, <2>0, <2>1, <3>1
      <3> QED BY <1>b, <2>1, <3>1, <3>2
    <2>2. CASE j = n + 1 /\ N[j] = f
      <3>1. i \in 1 .. n /\ N[i] = b[i]
        BY <1>10, <2>0, <2>2
      <3> QED BY <1>7, <2>2, <3>1
    <2>3. CASE j - (n + 1) \in 1 .. Len(fr) - k /\ N[j] = A[j - (n + 1)]
      <3> DEFINE a == j - (n + 1)
      <3>1. CASE i \in 1 .. n /\ N[i] = fr[i]
        BY <1>13, <2>3, <3>1
      <3>2. CASE i = n + 1 /\ N[i] = f
        BY <1>13, <2>3, <3>2
      <3>3. CASE i - (n + 1) \in 1 .. Len(fr) - k /\ N[i] = A[i - (n + 1)]
        <4> DEFINE e == i - (n + 1)
        <4>1. e \in 1 .. Len(fr) - k /\ a \in 1 .. Len(fr) - k /\ e < a
          BY <2>0, <2>3, <3>3
        <4>2. N[i] = A[e] /\ N[j] = A[a]
          BY <2>3, <3>3
        <4> HIDE DEF e, a
        <4>3. k + e \in 1 .. Len(fr) /\ k + a \in (k + e) + 1 .. Len(fr) /\ k + a \in 1 .. Len(fr)
          BY <1>1, <4>1
        <4>4. fr[k + e].end <= fr[k + a].offset /\ fr[k + e].offset <= fr[k + a].offset
          BY <1>b, <4>3 DEF Precedes
        <4>5. /\ fr[k + e].end \in Nat /\ fr[k + e].offset \in Nat /\ fr[k + a].offset \in Nat
          BY <1>a, <4>3
        <4>6. /\ A[e].end = fr[k + e].end
              /\ A[e].offset = end \/ A[e].offset = fr[k + e].offset
              /\ A[a].offset >= end /\ A[a].offset >= fr[k + a].offset /\ A[a].offset \in Nat
          BY <1>8, <4>1
        <4>7. A[e].end <= A[a].offset
          BY <4>4, <4>5, <4>6
        <4>8. A[e].offset <= A[a].offset
          BY SMTT(30), <1>2, <4>4, <4>5, <4>6
        <4> QED BY <4>2, <4>7, <4>8 DEF Precedes
      <3> QED BY <1>11, <3>1, <3>2, <3>3
    <2> QED BY <1>11, <2>0, <2>1, <2>2, <2>3
  <1>15. Apart(N)
    BY <1>12, <1>14, ApartIs
  <1>16. Inserted(q) \in Ipq
    BY <1>3, <1>4, <1>10 DEF Ipq
  <1>17. CutFrom(N, fr)
    <2> SUFFICES ASSUME NEW i \in 1 .. Len(N)
                 PROVE  N[i].skb = packet \/ \E j \in 1 .. Len(fr) : N[i].skb = fr[j].skb
      BY DEF CutFrom
    <2>1. CASE i \in 1 .. n /\ N[i] = fr[i]
      BY <1>1, <2>1
    <2>2. CASE i = n + 1 /\ N[i] = f
      BY <1>7, <2>2
    <2>3. CASE i - (n + 1) \in 1 .. Len(fr) - k /\ N[i] = A[i - (n + 1)]
      BY <1>8, <2>3
    <2> QED BY <1>11, <2>1, <2>2, <2>3
  <1>18. n + 1 \in 1 .. Len(N) /\ N[n + 1].end = end
    BY <1>1, <1>7, <1>10
  <1>19. ASSUME NEW j \in 1 .. Len(fr) PROVE \E i \in 1 .. Len(N) : N[i].end >= fr[j].end
    <2>1. fr[j].end \in Nat
      BY <1>a
    <2>2. CASE j <= n
      <3>1. j \in 1 .. n /\ j \in 1 .. Len(N)
        BY <1>1, <1>10, <2>2
      <3>2. N[j] = fr[j]
        BY <1>5, <1>10, <3>1
      <3> QED BY <2>1, <3>1, <3>2
    <2>3. CASE j > n /\ j <= k
      <3>1. j \in n + 1 .. k
        BY <1>1, <2>3
      <3>2. end >= fr[j].end
        BY <1>2, <1>6, <2>1, <3>1
      <3> QED BY <1>18, <3>2
    <2>4. CASE j > k
      <3>1. j - k \in 1 .. Len(fr) - k /\ k + (j - k) = j
        BY <1>1, <2>4
      <3>2. A[j - k].end = fr[j].end
        BY <1>8, <3>1
      <3>3. n + 1 + (j - k) \in 1 .. Len(N) /\ N[n + 1 + (j - k)] = A[j - k]
        BY <1>c, <3>1
      <3> QED BY <2>1, <3>2, <3>3
    <2> QED BY <1>1, <2>2, <2>3, <2>4
  <1>20. ReachesAsFar(N, fr)
    BY <1>18, <1>19 DEF ReachesAsFar, end
  <1>21. /\ Inserted(q).hf = q.hf /\ Inserted(q).iph = q.iph /\ Inserted(q).fragments = N
         /\ Inserted(q).len = len /\ Inserted(q).ihlen = q.ihlen
         /\ Inserted(q).expires = q.expires
    BY <1>3
  \* Every byte of the packet is in it or in the fragment before it.
  <1>22. ASSUME NEW x \in Int, offset <= x, x < end
         PROVE  \E i \in 1 .. Len(N) : Holds(N[i], x)
    <2>1. CASE f.offset <= x
      BY <1>7, <1>10, <1>18, <1>22, <2>1 DEF Holds
    <2>2. CASE ~(f.offset <= x)
      <3>1. n # 0 /\ f.offset = b[n].end
        BY <1>7, <1>22, <2>2
      <3>2. n \in 1 .. n /\ n \in 1 .. Len(N) /\ n \in 1 .. Len(fr)
        BY <1>1, <1>10, <3>1
      <3>3. N[n] = fr[n] /\ fr[n].offset < offset /\ fr[n].end = f.offset
        BY <1>5, <1>10, <3>1, <3>2
      <3>4. fr[n].offset \in Nat /\ fr[n].end \in Nat
        BY <1>a, <3>2
      <3>5. Holds(N[n], x)
        BY <1>2, <1>22, <2>2, <3>3, <3>4 DEF Holds
      <3> QED BY <3>2, <3>5
    <2> QED BY <2>1, <2>2
  <1>23. ASSUME NEW j \in n + 1 .. Len(fr) PROVE fr[j].offset >= offset
    <2>1. n < Len(fr) /\ n + 1 \in 1 .. Len(fr) /\ j \in 1 .. Len(fr)
      BY <1>1
    <2>2. fr[n + 1].offset >= offset /\ fr[n + 1].offset \in Nat /\ fr[j].offset \in Nat
      BY <1>5, <1>a, <2>1
    <2>3. fr[n + 1].offset <= fr[j].offset
      <3>1. CASE j = n + 1
        BY <2>2, <3>1
      <3>2. CASE j # n + 1
        <4>1. j \in (n + 1) + 1 .. Len(fr)
          BY <1>1, <3>2
        <4> QED BY <1>b, <2>1, <4>1 DEF Precedes
      <3> QED BY <3>1, <3>2
    <2> QED BY <1>2, <2>2, <2>3
  <1>24. ASSUME NEW x \in Int, NEW j \in 1 .. Len(fr), Holds(fr[j], x)
         PROVE  \E i \in 1 .. Len(N) : Holds(N[i], x)
    <2>1. fr[j].offset \in Nat /\ fr[j].end \in Nat /\ fr[j].offset <= x /\ x < fr[j].end
      BY <1>a, <1>24 DEF Holds
    <2>2. CASE j <= n
      <3>1. j \in 1 .. n /\ j \in 1 .. Len(N)
        BY <1>1, <1>10, <2>2
      <3>2. N[j] = fr[j]
        BY <1>5, <1>10, <3>1
      <3> QED BY <1>24, <3>1, <3>2
    <2>3. CASE j > n /\ x < end
      <3>1. j \in n + 1 .. Len(fr)
        BY <1>1, <2>3
      <3>2. offset <= x
        BY <1>2, <1>23, <2>1, <3>1
      <3> QED BY <1>22, <2>3, <3>2
    <2>4. CASE j > n /\ ~(x < end)
      <3>1. j > k
        <4> SUFFICES ASSUME j <= k PROVE FALSE
          BY <1>1
        <4>1. j \in n + 1 .. k
          BY <1>1, <2>4
        <4>2. fr[j].end <= end
          BY <1>6, <4>1
        <4> QED BY <1>2, <2>1, <2>4, <4>2
      <3>2. j - k \in 1 .. Len(fr) - k /\ k + (j - k) = j
        BY <1>1, <3>1
      <3>3. /\ A[j - k].end = fr[j].end
            /\ A[j - k].offset = end \/ A[j - k].offset = fr[j].offset
        BY <1>8, <3>2
      <3>4. n + 1 + (j - k) \in 1 .. Len(N) /\ N[n + 1 + (j - k)] = A[j - k]
        BY <1>c, <3>2
      <3>5. Holds(A[j - k], x)
        <4>1. end <= x
          BY <1>2, <2>4
        <4>2. A[j - k].offset <= x
          BY <2>1, <3>3, <4>1
        <4>3. x < A[j - k].end
          BY <2>1, <3>3
        <4> QED BY <4>2, <4>3 DEF Holds
      <3> QED BY <3>4, <3>5
    <2> QED BY <1>1, <2>2, <2>3, <2>4
  <1>25. HoldsAsMuch(N, fr)
    BY <1>22, <1>24 DEF HoldsAsMuch, offset, end
  <1> QED BY <1>15, <1>16, <1>17, <1>20, <1>21, <1>25 DEF len, fr, end

LEMMA InsertFragmentKeeps ==
    ASSUME IInv, InsertFragment
    PROVE  IInv'
  <1> DEFINE q == Inserted(queues[qp])
             host == this_host
             L == fragtable[host].ipqueue
             mem == fragtable[host].ip_frag_mem + Growth(q)
  <1>1. /\ Parts /\ Registers /\ NoneEmpty /\ Calling /\ pc = "insert" /\ Return
        /\ timenow' = timenow /\ clock' = clock
    BY DEF IInv, InsertFragment
  <1>2. packet \in Packet /\ qp \in Live /\ queues[qp].hf = host
    BY <1>1, IpAssumption DEF Calling
  <1>3. qp \in Ptr /\ queues[qp] \in Ipq /\ Apart(queues[qp].fragments)
    BY <1>1, <1>2, LiveIs DEF Parts, AllApart
  <1>4. q \in Ipq /\ q.hf = host /\ q.iph = queues[qp].iph /\ Apart(q.fragments)
    BY <1>2, <1>3, InsertedIs
  <1>a. \A d \in Dst : ~Empty(d)
    BY <1>1 DEF NoneEmpty
  <1>5. \/ /\ Done(q)
           /\ delivered' = IF GlueFails(q) THEN Null ELSE [iph |-> q.iph, fragments |-> q.fragments]
           /\ FreeQueue(qp, host, timers)
        \/ /\ queues' = [queues EXCEPT ![qp] = q]
           /\ fragtable' = [fragtable EXCEPT ![host].ip_frag_mem = @ + Growth(q)]
           /\ UNCHANGED <<this_host, timers, delivered>>
    BY DEF InsertFragment
  <1> HIDE DEF q
  <1>6. ASSUME Parts', \A d \in Dst : ~(fragtable'[d] # Null /\ fragtable'[d].ipqueue = <<>>),
               delivered' \in OrNull(Datagram)
        PROVE  IInv'
    <2>1. NoneEmpty'
      BY <1>6 DEF NoneEmpty, Empty
    <2>2. Registers'
      BY <1>1, <1>6 DEF Registers, Return, OrNull
    <2> QED BY <1>1, <1>6, <2>1, <2>2, Returned DEF IInv
  <1>7. CASE /\ delivered' = IF GlueFails(q) THEN Null ELSE [iph |-> q.iph, fragments |-> q.fragments]
             /\ FreeQueue(qp, host, timers)
    <2>1. /\ Parts'
          /\ fragtable'[host] # Null => fragtable'[host].ipqueue # <<>>
          /\ \A d \in Dst : d # host => fragtable'[d] = fragtable[d]
      BY <1>1, <1>2, <1>7, QueueFreed
    <2>2. \A d \in Dst : ~(fragtable'[d] # Null /\ fragtable'[d].ipqueue = <<>>)
      BY <1>a, <2>1 DEF Empty
    <2>3. [iph |-> q.iph, fragments |-> q.fragments] \in Datagram
      BY <1>4 DEF Ipq, Datagram
    <2>4. delivered' \in OrNull(Datagram)
      BY <1>7, <2>3 DEF OrNull
    <2> QED BY <1>6, <2>1, <2>2, <2>4
  <1>8. CASE /\ queues' = [queues EXCEPT ![qp] = q]
             /\ fragtable' = [fragtable EXCEPT ![host].ip_frag_mem = @ + Growth(q)]
             /\ UNCHANGED <<this_host, timers, delivered>>
    <2>1. /\ fragtable \in [Dst -> OrNull(HostFrags)] /\ queues \in [Ptr -> OrNull(Ipq)]
          /\ Tables
      BY <1>1 DEF Parts, Tables
    <2>2. host \in Dst /\ fragtable[host] # Null /\ qp \in ToSet(L)
      BY <1>1, <1>2, <1>3 DEF Parts, Queued, Ipq
    <2>3. /\ fragtable[host] \in HostFrags /\ fragtable[host].ip_frag_mem \in Int
          /\ L \in Seq(Live) /\ Distinct(L) /\ DOMAIN L = 1 .. Len(L)
      BY <1>1, <2>1, <2>2, HostIs, ListIs DEF Parts
    <2>4. PICK k \in 1 .. Len(L) : L[k] = qp
      BY <2>2, <2>3 DEF ToSet
    <2>5. q # Null
      BY <1>4, IpAssumption
    <2>6. /\ queues' \in [Ptr -> OrNull(Ipq)] /\ queues'[qp] = q
          /\ \A x \in Ptr : x # qp => queues'[x] = queues[x]
      BY <1>3, <1>4, <1>8, <2>1 DEF OrNull
    <2>7. Live' = Live
      BY <1>2, <2>5, <2>6 DEF Live
    <2>8. \A x \in Live : queues'[x].hf = queues[x].hf /\ queues'[x].iph = queues[x].iph
      BY <1>2, <1>4, <2>6 DEF Live
    <2>9. Charge(q.fragments) \in Int /\ Charge(queues[qp].fragments) \in Int /\ QueueSize \in Int
      BY <1>3, <1>4, ChargeType, IpAssumption DEF Ipq
    <2>10. mem \in Int
      BY <2>3, <2>9 DEF Growth
    <2> HIDE DEF mem
    <2>11. /\ fragtable'[host] = [ipqueue |-> L, ip_frag_mem |-> mem]
           /\ \A d \in Dst : d # host => fragtable'[d] = fragtable[d]
           /\ fragtable' \in [Dst -> OrNull(HostFrags)]
      <3>1. fragtable[host] = [ipqueue |-> L, ip_frag_mem |-> fragtable[host].ip_frag_mem]
        BY <2>3 DEF HostFrags
      <3>2. [fragtable[host] EXCEPT !.ip_frag_mem = @ + Growth(q)] = [ipqueue |-> L, ip_frag_mem |-> mem]
        BY <3>1 DEF mem
      <3>3. fragtable' = [fragtable EXCEPT ![host] = [fragtable[host] EXCEPT !.ip_frag_mem = @ + Growth(q)]]
        BY <1>8, <2>1
      <3>4. [ipqueue |-> L, ip_frag_mem |-> mem] \in HostFrags
        BY <2>3, <2>10 DEF HostFrags
      <3> DEFINE rec == [ipqueue |-> L, ip_frag_mem |-> mem]
      <3>5. fragtable' = [fragtable EXCEPT ![host] = rec] /\ rec \in HostFrags
        BY <3>2, <3>3, <3>4
      <3> HIDE DEF rec
      <3>6. /\ fragtable'[host] = rec
            /\ \A d \in Dst : d # host => fragtable'[d] = fragtable[d]
            /\ fragtable' \in [Dst -> OrNull(HostFrags)]
        BY <2>1, <2>2, <3>5 DEF OrNull
      <3> QED BY <3>6 DEF rec
    <2>12. fragtable'[host].ipqueue = L /\ fragtable'[host].ip_frag_mem = mem /\ fragtable'[host] # Null
      <3> DEFINE rec == [ipqueue |-> L, ip_frag_mem |-> mem]
      <3>1. rec \in HostFrags /\ rec.ipqueue = L /\ rec.ip_frag_mem = mem
        BY <2>3, <2>10 DEF HostFrags
      <3>2. fragtable'[host] = rec
        BY <2>11
      <3> HIDE DEF rec
      <3> QED BY <3>1, <3>2, IpAssumption
    <2>13. \A d \in Dst : fragtable'[d] # Null =>
              fragtable[d] # Null /\ fragtable'[d].ipqueue = fragtable[d].ipqueue
      BY <2>2, <2>11, <2>12
    <2>14. \A d \in Dst : fragtable[d] # Null =>
              fragtable'[d] # Null /\ fragtable'[d].ipqueue = fragtable[d].ipqueue
      BY <2>2, <2>11, <2>12
    <2>15. Tables'
      BY <1>1, <1>8, <2>6, <2>11 DEF Parts, Tables
    <2>16. Queued'
      <3> SUFFICES ASSUME NEW x \in Live
                   PROVE  /\ fragtable'[queues'[x].hf] # Null
                          /\ x \in ToSet(fragtable'[queues'[x].hf].ipqueue)
                          /\ queues'[x].hf = queues'[x].iph.dst
        BY <2>7 DEF Queued
      <3>1. queues[x].hf \in Dst
        BY <2>1, LiveIs DEF Ipq
      <3>2. /\ fragtable[queues[x].hf] # Null
            /\ x \in ToSet(fragtable[queues[x].hf].ipqueue)
            /\ queues[x].hf = queues[x].iph.dst
        BY <1>1 DEF Parts, Queued
      <3> QED BY <2>8, <2>14, <3>1, <3>2
    <2>17. Listed'
      <3> SUFFICES ASSUME NEW d \in Dst, fragtable'[d] # Null,
                          NEW i \in 1 .. Len(fragtable'[d].ipqueue)
                   PROVE  /\ fragtable'[d].ipqueue[i] \in Live
                          /\ queues'[fragtable'[d].ipqueue[i]].hf = d
        BY <2>7 DEF Listed
      <3>1. fragtable[d] # Null /\ fragtable'[d].ipqueue = fragtable[d].ipqueue
        BY <2>13
      <3>2. fragtable[d].ipqueue[i] \in Live /\ queues[fragtable[d].ipqueue[i]].hf = d
        BY <1>1, <3>1 DEF Parts, Listed
      <3> QED BY <2>8, <3>1, <3>2
    <2>18. OneId'
      <3> SUFFICES ASSUME NEW d \in Dst, fragtable'[d] # Null,
                          NEW i \in 1 .. Len(fragtable'[d].ipqueue),
                          NEW j \in 1 .. Len(fragtable'[d].ipqueue),
                          queues'[fragtable'[d].ipqueue[i]].iph.id = queues'[fragtable'[d].ipqueue[j]].iph.id
                   PROVE  i = j
        BY DEF OneId
      <3>1. fragtable[d] # Null /\ fragtable'[d].ipqueue = fragtable[d].ipqueue
        BY <2>13
      <3>2. fragtable[d].ipqueue[i] \in Live /\ fragtable[d].ipqueue[j] \in Live
        BY <1>1, <3>1 DEF Parts, Listed
      <3>3. queues[fragtable[d].ipqueue[i]].iph.id = queues[fragtable[d].ipqueue[j]].iph.id
        BY <2>8, <3>1, <3>2
      <3> QED BY <1>1, <3>1, <3>3 DEF Parts, OneId
    <2>19. Chained'
      BY <1>1, <1>8, <2>7 DEF Parts, Chained
    <2>20. Counted'
      <3> SUFFICES ASSUME NEW d \in Dst, fragtable'[d] # Null
                   PROVE  fragtable'[d].ip_frag_mem = Total(Sizes(fragtable'[d].ipqueue, queues'))
        BY DEF Counted
      <3>1. CASE d = host
        <4> DEFINE s == Sizes(L, queues)
                   r == Sizes(L, queues')
        <4>1. s \in Seq(Int) /\ Len(s) = Len(L)
          BY <2>1, <2>3, SizesType
        <4>2. /\ r = [i \in 1 .. Len(L) |-> QueueSize + Charge(queues'[L[i]].fragments)]
              /\ s = [i \in 1 .. Len(L) |-> QueueSize + Charge(queues[L[i]].fragments)]
          BY DEF Sizes
        <4>3. fragtable[host].ip_frag_mem = Total(s)
          BY <1>1, <2>2 DEF Parts, Counted
        <4> HIDE DEF r, s
        <4>4. \A i \in 1 .. Len(L) : i # k => queues'[L[i]] = queues[L[i]]
          <5> SUFFICES ASSUME NEW i \in 1 .. Len(L), i # k PROVE queues'[L[i]] = queues[L[i]]
            OBVIOUS
          <5>1. L[i] \in Live
            BY <2>3, ElementOfSeq
          <5>2. L[i] # qp
            BY <2>3, <2>4 DEF Distinct
          <5> QED BY <2>6, <5>1, <5>2 DEF Live
        <4> HIDE DEF L
        <4>5. \A i \in 1 .. Len(L) : i # k => r[i] = s[i]
          BY <4>2, <4>4
        <4>6. /\ r[k] = QueueSize + Charge(q.fragments)
              /\ s[k] = QueueSize + Charge(queues[qp].fragments)
          BY <2>4, <2>6, <4>2
        <4>7. r \in Seq(Int) /\ Len(r) = Len(s)
          <5>1. \A i \in 1 .. Len(L) : s[i] \in Int
            BY <4>1, ElementOfSeq
          <5>2. \A i \in 1 .. Len(L) : r[i] \in Int
            BY <2>9, <4>5, <4>6, <5>1
          <5>3. r = [i \in 1 .. Len(L) |-> r[i]]
            BY <4>2
          <5>4. Len(L) \in Nat
            BY <2>3
          <5> QED BY <4>1, <5>2, <5>3, <5>4
        <4>8. Total(r) = Total(s) + r[k] - s[k]
          BY <2>4, <4>1, <4>5, <4>7, TotalChange
        <4>9. mem = Total(s) + (Charge(q.fragments) - Charge(queues[qp].fragments))
          BY <4>3 DEF mem, Growth
        <4>10. Total(s) \in Int
          BY <4>1, TotalType
        <4>11. Total(r) = mem
          BY <2>9, <4>6, <4>8, <4>9, <4>10
        <4> QED BY <2>12, <3>1, <4>11 DEF r
      <3>2. CASE d # host
        <4>1. fragtable[d] # Null /\ fragtable'[d] = fragtable[d]
          BY <2>11, <3>2
        <4>2. \A i \in 1 .. Len(fragtable[d].ipqueue) :
                  queues'[fragtable[d].ipqueue[i]] = queues[fragtable[d].ipqueue[i]]
          BY <1>1, <1>2, <2>6, <3>2, <4>1 DEF Parts, Listed, Live
        <4>3. Sizes(fragtable[d].ipqueue, queues') = Sizes(fragtable[d].ipqueue, queues)
          BY <4>2 DEF Sizes
        <4> QED BY <1>1, <4>1, <4>3 DEF Parts, Counted
      <3> QED BY <3>1, <3>2
    <2>21. AllApart'
      <3> SUFFICES ASSUME NEW x \in Live PROVE Apart(queues'[x].fragments)
        BY <2>7 DEF AllApart
      <3> QED BY <1>1, <1>4, <2>6 DEF Parts, AllApart, Live
    <2>22. Parts'
      BY <2>15, <2>16, <2>17, <2>18, <2>19, <2>20, <2>21 DEF Parts
    <2>23. \A d \in Dst : ~(fragtable'[d] # Null /\ fragtable'[d].ipqueue = <<>>)
      BY <1>a, <2>13 DEF Empty
    <2>24. delivered' \in OrNull(Datagram)
      BY <1>1, <1>8 DEF Registers
    <2> QED BY <1>6, <2>22, <2>23, <2>24
  <1> QED BY <1>5, <1>7, <1>8

----------------------------------------------------------------------------
LEMMA Inductive == IInv /\ [Next]_vars => IInv'
  <1> SUFFICES ASSUME IInv, [Next]_vars PROVE IInv'
    OBVIOUS
  <1>1. ASSUME NEW p \in Packets, NEW t \in clock .. MaxTime, Arrive(p, t) PROVE IInv'
    BY <1>1, ArriveKeeps
  <1>2. CASE ExpireTimer
    BY <1>2, ExpireTimerKeeps
  <1>3. CASE FindHost
    BY <1>3, FindHostKeeps
  <1>4. CASE EvictQueue
    BY <1>4, EvictQueueKeeps
  <1>5. CASE Evicted
    BY <1>5, EvictedKeeps
  <1>6. CASE PassWhole
    BY <1>6, PassWholeKeeps
  <1>7. CASE RefreshQueue
    BY <1>7, RefreshQueueKeeps
  <1>8. ASSUME NEW p \in Ptr, CreateQueue(p) PROVE IInv'
    BY <1>8, CreateQueueKeeps
  <1>9. CASE InsertFragment
    BY <1>9, InsertFragmentKeeps
  <1>10. CASE UNCHANGED vars
    <2>1. fragtable' = fragtable /\ queues' = queues /\ timers' = timers /\ this_host' = this_host
      BY <1>10 DEF vars
    <2>2. Parts' /\ Live' = Live /\ \A d \in Dst : Empty(d)' <=> Empty(d)
      BY <2>1, Untouched DEF IInv, Parts, Tables
    <2>3. Registers'
      BY <1>10 DEF IInv, Registers, vars
    <2>4. NoneEmpty'
      BY <1>10, <2>2 DEF IInv, NoneEmpty, vars
    <2>5. Calling'
      BY <1>10, <2>2 DEF IInv, Calling, vars
    <2> QED BY <2>2, <2>3, <2>4, <2>5 DEF IInv
  <1> QED BY <1>1, <1>2, <1>3, <1>4, <1>5, <1>6, <1>7, <1>8, <1>9, <1>10 DEF Next, Process

LEMMA Invariant == Spec => []IInv
  BY InitHolds, Inductive, PTL DEF Spec

\* The tables hold what their types say, the registers of a call too.
THEOREM TypeCorrect == Spec => []TypeOK
  <1>1. IInv => TypeOK
    BY TypeOKIs DEF IInv, Parts
  <1> QED BY <1>1, Invariant, PTL

\* IpFragment.cc:608-618: the timers are those of the queues that are there,
\* each once, though a timer may be deleted twice.
THEOREM TimersLinkedHolds == Spec => []TimersLinked
  <1>1. ASSUME Parts PROVE TimersLinked
    <2>1. PICK s \in Seq(Ptr) : Chain(timers, s) /\ ToSet(s) = Live
      BY <1>1 DEF Parts, Chained
    <2>2. Len(s) \in Nat /\ DOMAIN s = 1 .. Len(s)
      OBVIOUS
    <2>3. s \in [1 .. Len(s) -> Live]
      BY <2>1, <2>2 DEF ToSet
    <2>4. s \in Bijection(1 .. Len(s), Live)
      <3>1. \A x \in Live : \E i \in 1 .. Len(s) : s[i] = x
        BY <2>1, <2>2 DEF ToSet
      <3>2. \A i, j \in 1 .. Len(s) : s[i] = s[j] => i = j
        BY <2>1 DEF Chain, Distinct
      <3> QED BY <2>3, <3>1, <3>2 DEF Bijection, Injection, Surjection, IsInjective
    <2>5. Cardinality(Live) = Len(s)
      BY <2>2, <2>4, FS_CountingElements DEF ExistsBijection
    <2>6. \A i, j \in 1 .. Len(s) : i # j => s[i] # s[j]
      BY <2>1 DEF Chain, Distinct
    <2>7. s \in SetToSeqs(Live)
      BY <2>3, <2>5, <2>6 DEF SetToSeqs
    <2>8. LinkedAs(s)
      BY <2>1 DEF Chain, LinkedAs
    <2> QED BY <2>7, <2>8 DEF TimersLinked
  <1>2. IInv => TimersLinked
    BY <1>1 DEF IInv
  <1> QED BY <1>2, Invariant, PTL

\* IpFragment.cc:545-551: ipFree finds the queue on the list of this host, and
\* a host goes with its last queue.
THEOREM HostsHoldQueuesHolds == Spec => []HostsHoldQueues
  <1>1. ASSUME IInv PROVE HostsHoldQueues
    <2>1. ASSUME NEW p \in Live
          PROVE  /\ fragtable[queues[p].hf] # Null
                 /\ p \in ToSet(fragtable[queues[p].hf].ipqueue)
                 /\ queues[p].hf = queues[p].iph.dst
      BY <1>1 DEF IInv, Parts, Queued
    <2>2. ASSUME NEW d \in Dst, fragtable[d] # Null
          PROVE  LET list == fragtable[d].ipqueue IN
                 /\ \A i, j \in DOMAIN list :
                        /\ list[i] \in Live
                        /\ queues[list[i]].hf = d
                        /\ queues[list[i]].iph.id = queues[list[j]].iph.id => i = j
                 /\ list = <<>> => pc = "find" /\ this_host = d
      <3>1. DOMAIN fragtable[d].ipqueue = 1 .. Len(fragtable[d].ipqueue)
        BY <1>1, <2>2, HostIs DEF IInv, Parts
      <3>2. \A i \in DOMAIN fragtable[d].ipqueue :
               fragtable[d].ipqueue[i] \in Live /\ queues[fragtable[d].ipqueue[i]].hf = d
        BY <1>1, <2>2, <3>1 DEF IInv, Parts, Listed
      <3>3. \A i, j \in DOMAIN fragtable[d].ipqueue :
               queues[fragtable[d].ipqueue[i]].iph.id = queues[fragtable[d].ipqueue[j]].iph.id => i = j
        BY <1>1, <2>2, <3>1 DEF IInv, Parts, OneId
      <3>4. fragtable[d].ipqueue = <<>> => pc = "find" /\ this_host = d
        BY <1>1, <2>2 DEF IInv, NoneEmpty, Empty
      <3> QED BY <3>2, <3>3, <3>4
    <2> QED BY <2>1, <2>2 DEF HostsHoldQueues
  <1>2. IInv => HostsHoldQueues
    BY <1>1
  <1> QED BY <1>2, Invariant, PTL

\* IpFragment.cc:284-285, 545-571, 669: what a host is charged for is what it
\* holds, so that ipEvictor never runs out of queues to free.
THEOREM MemoryAccountingHolds == Spec => []MemoryAccounting
  <1>1. ASSUME IInv PROVE MemoryAccounting
    <2> SUFFICES ASSUME NEW d \in Dst, fragtable[d] # Null
                 PROVE  fragtable[d].ip_frag_mem =
                            Total([i \in DOMAIN fragtable[d].ipqueue |->
                                       QueueSize + Charge(queues[fragtable[d].ipqueue[i]].fragments)])
      BY DEF MemoryAccounting
    <2>1. DOMAIN fragtable[d].ipqueue = 1 .. Len(fragtable[d].ipqueue)
      BY <1>1, HostIs DEF IInv, Parts
    <2> QED BY <1>1, <2>1 DEF IInv, Parts, Counted, Sizes
  <1>2. IInv => MemoryAccounting
    BY <1>1
  <1> QED BY <1>2, Invariant, PTL

\* IpFragment.cc:239-289: trimming at either end keeps the fragments of a queue
\* in order and without a common byte, and each reads its own bytes.
THEOREM FragmentsApartHolds == Spec => []FragmentsApart
  <1>1. ASSUME IInv PROVE FragmentsApart
    <2> SUFFICES ASSUME NEW p \in Live
                 PROVE  LET list == queues[p].fragments IN
                        \A i \in DOMAIN list :
                            /\ list[i].ptr = list[i].offset
                            /\ list[i].offset >= list[i].skb.offset
                            /\ list[i].end = list[i].skb.offset + list[i].skb.len
                            /\ \A j \in i + 1 .. Len(list) :
                                   /\ list[i].end <= list[j].offset
                                   /\ list[i].offset <= list[j].offset
      BY DEF FragmentsApart
    <2>1. queues[p].fragments \in Seq(IpFrag)
      BY <1>1, LiveIs DEF IInv, Parts, Ipq
    <2>2. DOMAIN queues[p].fragments = 1 .. Len(queues[p].fragments)
      BY <2>1
    <2>3. Apart(queues[p].fragments)
      BY <1>1 DEF IInv, Parts, AllApart
    <2> QED BY <2>2, <2>3 DEF Apart
  <1>2. IInv => FragmentsApart
    BY <1>1
  <1> QED BY <1>2, Invariant, PTL

LEMMA OneFreed ==
    ASSUME Tables, NEW p \in Live, queues' = [queues EXCEPT ![p] = Null]
    PROVE  Cardinality({x \in Live : queues'[x] = Null}) = 1
  <1>1. {x \in Live : queues'[x] = Null} = {p}
    BY DEF Tables, Live
  <1>2. Cardinality({p}) = 1
    BY FS_Singleton
  <1> QED BY <1>1, <1>2

\* IpFragment.cc:340, 511: the loops of expiry and eviction free one queue at a
\* time, every other step of a call leads on.
THEOREM CallAdvancesHolds == Spec => CallAdvances
  <1> DEFINE Advance == pc # "idle" =>
                 \/ Stage[pc'] > Stage[pc]
                 \/ pc' = "idle"
                 \/ pc' = pc /\ Cardinality({p \in Live : queues'[p] = Null}) = 1
  <1>1. ASSUME IInv, Next PROVE Advance
    <2>a. Tables /\ Parts
      BY <1>1 DEF IInv, Parts
    <2>1. CASE pc = "idle"
      BY <2>1
    <2>2. CASE ExpireTimer
      <3>1. pc' = pc /\ timers.head # Null
        BY <2>2 DEF ExpireTimer, Due
      <3>2. timers.head \in Live
        <4>1. PICK s \in Seq(Ptr) : Chain(timers, s) /\ ToSet(s) = Live
          BY <2>a DEF Parts, Chained
        <4>2. Len(s) # 0 /\ timers.head = s[1]
          BY <3>1, <4>1 DEF Chain
        <4> QED BY <4>1, <4>2 DEF ToSet
      <3>3. queues' = [queues EXCEPT ![timers.head] = Null]
        BY <2>2 DEF ExpireTimer, FreeQueue
      <3> QED BY <2>a, <3>1, <3>2, <3>3, OneFreed
    <2>3. CASE EvictQueue
      <3> DEFINE L == fragtable[this_host].ipqueue
      <3>1. pc = "evict" /\ pc' = pc /\ this_host # Null /\ L # <<>>
        BY <2>3 DEF EvictQueue, MustEvict
      <3>2. L \in Seq(Live)
        BY <1>1, <3>1, InUse, ListIs DEF IInv, Parts
      <3>3. Head(L) \in Live
        BY <3>1, <3>2
      <3>4. queues' = [queues EXCEPT ![Head(L)] = Null]
        BY <2>3 DEF EvictQueue, FreeQueue
      <3> HIDE DEF L
      <3> QED BY <2>a, <3>1, <3>3, <3>4, OneFreed
    <2>4. CASE FindHost
      BY <2>4 DEF FindHost, Stage
    <2>5. CASE Evicted
      BY <2>5 DEF Evicted, Stage
    <2>6. CASE PassWhole \/ InsertFragment
      BY <2>6 DEF PassWhole, InsertFragment, Return
    <2>7. CASE RefreshQueue \/ \E p \in Ptr : CreateQueue(p)
      <3>1. PICK p : pc = "find" /\ ProceedWith(p)
        BY <2>7 DEF RefreshQueue, CreateQueue
      <3>2. pc' = "idle" \/ pc' = "insert"
        BY <3>1 DEF ProceedWith, Return
      <3> QED BY <3>1, <3>2 DEF Stage
    <2> QED BY <1>1, <2>1, <2>2, <2>3, <2>4, <2>5, <2>6, <2>7 DEF Next, Process, Arrive
  <1>2. IInv /\ [Next]_vars => [Advance]_vars
    BY <1>1
  <1> QED BY <1>2, Invariant, PTL DEF Spec, CallAdvances

----------------------------------------------------------------------------
(***************************************************************************)
(* IpFragment implements IpService: what it delivers came in one piece, or *)
(* is put together from fragments that were received for it, without a gap *)
(* or an overlap.  And it delivers a datagram that is complete, and keeps  *)
(* none longer than it should.                                             *)
(***************************************************************************)
Received(p) == history[p].received

\* The packet of the call in progress, once the queue at p was chosen for it.
Pending(p) == IF pc = "insert" /\ p = qp THEN {packet} ELSE {}

----------------------------------------------------------------------------
\* What a queue q that was given the packets R, and is being given those of
\* "pending", knows about them.

FromReceived(q, R) == \A i \in 1 .. Len(q.fragments) : q.fragments[i].skb \in R

\* The length is that of a final fragment, and some fragment held reaches it.
LengthReceived(q, R) == q.len # 0 =>
    /\ \E f \in R : ~f.mf /\ f.offset + f.len = q.len
    /\ \E i \in 1 .. Len(q.fragments) : q.fragments[i].end >= q.len

\* The header is that of a first fragment, if there was one.
HeaderReceived(q, R, pending) ==
    /\ q.iph.offset = 0 => q.iph \in R \cup pending
    /\ \A f \in R \cup pending : f.offset = 0 => q.iph.offset = 0

Knows(q, R, pending) ==
    /\ R \subseteq Packets
    /\ FromReceived(q, R)
    /\ LengthReceived(q, R)
    /\ HeaderReceived(q, R, pending)

\* The packet goes to a queue of its own datagram.
Addressed == pc = "insert" =>
    queues[qp].iph.id = packet.id /\ queues[qp].iph.dst = packet.dst

\* A datagram is delivered by the last step of a call.
Quiet == pc # "idle" => delivered = Null

Records ==
    /\ \A p \in Ptr : queues[p] = Null => Received(p) = {}
    /\ \A p \in Live : Knows(queues[p], Received(p), Pending(p))

HInv == Records /\ Addressed /\ Quiet

Remember == history' = [p \in Ptr |-> HistStep(p)]

----------------------------------------------------------------------------
\* Collected

KeyAt(p) == KeyOf(queues[p].iph)

\* A datagram has one queue.
LEMMA OneQueue ==
    ASSUME IInv, NEW p \in Live, NEW q \in Live, KeyAt(p) = KeyAt(q)
    PROVE  p = q
  <1> DEFINE d == queues[p].hf
             L == fragtable[d].ipqueue
  <1>1. Tables /\ Queued /\ Listed /\ OneId
    BY DEF IInv, Parts
  <1>2. queues[p].iph.dst = queues[q].iph.dst /\ queues[p].iph.id = queues[q].iph.id
    BY DEF KeyAt, KeyOf
  <1>3. d \in Dst /\ fragtable[d] # Null /\ p \in ToSet(L) /\ q \in ToSet(L)
    BY <1>1, <1>2, LiveIs DEF Queued, Ipq
  <1>4. L \in Seq(Live) /\ DOMAIN L = 1 .. Len(L)
    BY <1>1, <1>3, ListIs
  <1>5. PICK i \in 1 .. Len(L) : L[i] = p
    BY <1>3, <1>4 DEF ToSet
  <1>6. PICK j \in 1 .. Len(L) : L[j] = q
    BY <1>3, <1>4 DEF ToSet
  <1>7. i = j
    BY <1>1, <1>2, <1>3, <1>5, <1>6 DEF OneId
  <1> QED BY <1>5, <1>6, <1>7

LEMMA KeyIs ==
    ASSUME Tables, NEW p \in Live
    PROVE  KeyAt(p) \in Dst \X Id
  <1>1. queues[p].iph \in Packet
    BY LiveIs DEF Ipq
  <1> QED BY <1>1 DEF KeyAt, KeyOf, Packet

LEMMA CollectedIs ==
    IInv => \A p \in Live : Collected[KeyAt(p)] = Received(p)
  <1> SUFFICES ASSUME IInv, NEW p \in Live PROVE Collected[KeyAt(p)] = Received(p)
    OBVIOUS
  <1> DEFINE k == KeyAt(p)
  <1>1. k \in Dst \X Id
    BY KeyIs DEF IInv, Parts
  <1>2. {q \in Live : KeyOf(queues[q].iph) = k} = {p}
    BY OneQueue DEF KeyAt
  <1>3. Collected[k] = UNION {history[q].received : q \in {p}}
    BY <1>1, <1>2 DEF Collected
  <1> QED BY <1>3 DEF Received

NoneForOthers == \A k \in Dst \X Id : (\A p \in Live : KeyAt(p) # k) => Collected[k] = {}

LEMMA CollectedIsNot == NoneForOthers
  <1> USE DEF NoneForOthers
  <1> TAKE l \in Dst \X Id
  <1> HAVE \A p \in Live : KeyAt(p) # l
  <1>1. {q \in Live : KeyOf(queues[q].iph) = l} = {}
    BY DEF KeyAt
  <1> QED BY <1>1 DEF Collected

\* Nothing changes but what was received for one datagram.
LEMMA OneChanges ==
    ASSUME IInv, IInv', NEW k \in Dst \X Id, NEW S,
           \A p \in Ptr : p \in Live /\ KeyAt(p) # k <=> p \in Live' /\ KeyAt(p)' # k,
           \A p \in Live : KeyAt(p) # k => KeyAt(p)' = KeyAt(p) /\ Received(p)' = Received(p),
           \A p \in Live' : KeyAt(p)' = k => Received(p)' = S,
           (\A p \in Live' : KeyAt(p)' # k) => S = {}
    PROVE  Collected' = [Collected EXCEPT ![k] = S]
  <1>1. (\A p \in Live : Collected[KeyAt(p)] = Received(p))'
    BY CollectedIs, PTL
  <1>2. \A l \in Dst \X Id : (\A p \in Live' : KeyAt(p)' # l) => Collected'[l] = {}
    <2>1. NoneForOthers'
      BY CollectedIsNot, PTL
    <2> QED BY <2>1 DEF NoneForOthers
  <1>3. ASSUME NEW l \in Dst \X Id
        PROVE  Collected'[l] = IF l = k THEN S ELSE Collected[l]
    <2>1. CASE l = k
      <3>1. CASE \E p \in Live' : KeyAt(p)' = k
        BY <1>1, <2>1, <3>1
      <3>2. CASE \A p \in Live' : KeyAt(p)' # k
        BY <1>2, <2>1, <3>2
      <3> QED BY <2>1, <3>1, <3>2
    <2>2. CASE l # k
      <3>1. ASSUME NEW p \in Live, KeyAt(p) = l PROVE Collected'[l] = Collected[l]
        <4>1. p \in Ptr /\ p \in Live' /\ KeyAt(p)' = l /\ Received(p)' = Received(p)
          BY <2>2, <3>1 DEF Live
        <4>2. Collected'[l] = Received(p)'
          BY <1>1, <4>1
        <4>3. Collected[l] = Received(p)
          BY <3>1, CollectedIs
        <4> QED BY <4>1, <4>2, <4>3
      <3>2. CASE \A p \in Live : KeyAt(p) # l
        <4>1. \A p \in Live' : KeyAt(p)' # l
          <5> SUFFICES ASSUME NEW p \in Live', KeyAt(p)' = l PROVE FALSE
            OBVIOUS
          <5>1. p \in Ptr
            BY DEF Live
          <5>2. p \in Live /\ KeyAt(p) # k
            BY <2>2, <5>1
          <5> QED BY <3>2, <5>2
        <4>2. Collected'[l] = {}
          BY <1>2, <4>1
        <4>3. Collected[l] = {}
          BY <3>2, CollectedIsNot DEF NoneForOthers
        <4> QED BY <2>2, <4>2, <4>3
      <3> QED BY <2>2, <3>1, <3>2
    <2> QED BY <2>1, <2>2
  <1>4. Collected = [l \in Dst \X Id |-> Collected[l]] /\ Collected' = [l \in Dst \X Id |-> Collected'[l]]
    BY DEF Collected
  <1> HIDE DEF Collected
  <1> QED BY <1>3, <1>4

----------------------------------------------------------------------------
\* What a step leaves in the records

LEMMA ReceivedIs ==
    ASSUME Remember, NEW p \in Ptr
    PROVE  Received(p)' = IF queues'[p] = Null THEN {}
                          ELSE IF pc = "insert" /\ p = qp THEN Received(p) \cup {packet}
                          ELSE Received(p)
  BY DEF Remember, Received, HistStep, NoHistory

\* A queue that is not the one in use.
LEMMA StaysKnown ==
    ASSUME Records, Remember, NEW p \in Live, queues'[p] = queues[p],
           ~(pc = "insert" /\ p = qp), ~(pc' = "insert" /\ p = qp')
    PROVE  /\ Received(p)' = Received(p) /\ KeyAt(p)' = KeyAt(p)
           /\ Knows(queues'[p], Received(p)', Pending(p)')
  <1>1. p \in Ptr /\ queues'[p] # Null
    BY DEF Live
  <1>2. Received(p)' = Received(p)
    BY <1>1, ReceivedIs
  <1>3. Pending(p)' = {} /\ Pending(p) = {}
    BY DEF Pending
  <1>4. Knows(queues[p], Received(p), Pending(p))
    BY DEF Records
  <1> QED BY <1>2, <1>3, <1>4 DEF KeyAt

\* A step that leaves the queues alone.
LEMMA Unchanged ==
    ASSUME Records, Remember, queues' = queues, pc # "insert", pc' # "insert"
    PROVE  Records' /\ Collected' = Collected
  <1>1. Live' = Live
    BY DEF Live
  <1>2. ASSUME NEW p \in Live
        PROVE  /\ Received(p)' = Received(p)
               /\ Knows(queues'[p], Received(p)', Pending(p)')
    BY <1>2, StaysKnown
  <1>3. ASSUME NEW p \in Ptr, queues'[p] = Null PROVE Received(p)' = {}
    BY <1>3, ReceivedIs
  <1>4. Records'
    BY <1>1, <1>2, <1>3 DEF Records
  <1>5. \A p \in Live : history'[p].received = history[p].received
    BY <1>2 DEF Received
  <1>6. Collected' = Collected
    BY <1>1, <1>5 DEF Collected
  <1> QED BY <1>4, <1>6

\* A step that frees a queue, and may be the last of a call.
LEMMA QueueForgotten ==
    ASSUME IInv, IInv', Records, Remember, NEW p \in Live,
           queues' = [queues EXCEPT ![p] = Null], pc = "insert" => p = qp, pc' # "insert"
    PROVE  Records' /\ Collected' = [Collected EXCEPT ![KeyAt(p)] = {}]
  <1>1. queues \in [Ptr -> OrNull(Ipq)] /\ p \in Ptr /\ Tables
    BY DEF IInv, Parts, Tables, Live
  <1>2. queues'[p] = Null /\ \A x \in Ptr : x # p => queues'[x] = queues[x]
    BY <1>1
  <1>3. Live' = Live \ {p}
    BY <1>2 DEF Live
  <1>4. ASSUME NEW x \in Live, x # p
        PROVE  /\ Received(x)' = Received(x) /\ KeyAt(x)' = KeyAt(x)
               /\ Knows(queues'[x], Received(x)', Pending(x)')
    BY <1>2, <1>4, StaysKnown DEF Live
  <1>5. Records'
    <2>1. ASSUME NEW x \in Ptr, queues'[x] = Null PROVE Received(x)' = {}
      BY <2>1, ReceivedIs
    <2> QED BY <1>3, <1>4, <2>1 DEF Records
  <1>6. ASSUME NEW x \in Live, x # p PROVE KeyAt(x) # KeyAt(p)
    BY <1>6, OneQueue
  <1>7. KeyAt(p) \in Dst \X Id
    BY <1>1, KeyIs
  <1> DEFINE k == KeyAt(p)
  <1>8. \A x \in Ptr : x \in Live /\ KeyAt(x) # k <=> x \in Live' /\ KeyAt(x)' # k
    BY <1>3, <1>4, <1>6
  <1>9. \A x \in Live : KeyAt(x) # k => KeyAt(x)' = KeyAt(x) /\ Received(x)' = Received(x)
    BY <1>4
  <1>10. \A x \in Live' : KeyAt(x)' # k
    BY <1>3, <1>4, <1>6
  <1> HIDE DEF k
  <1>11. Collected' = [Collected EXCEPT ![k] = {}]
    BY <1>7, <1>8, <1>9, <1>10, OneChanges DEF k
  <1> QED BY <1>5, <1>11 DEF k

----------------------------------------------------------------------------
\* Steps of the service

LEMMA SilentStep ==
    ASSUME delivered' = Null, Collected' = Collected
    PROVE  Service!Next
  BY DEF Service!Next, Service!Silent

LEMMA DropStep ==
    ASSUME NEW k \in Dst \X Id, delivered' = Null, Collected' = [Collected EXCEPT ![k] = {}]
    PROVE  Service!Next
  BY DEF Service!Next, Service!Drop

\* What is to show of each step of IpFragment.
Kept == HInv' /\ Service!Next

LEMMA ArriveServes ==
    ASSUME IInv, HInv, Remember, NEW p \in Packets, NEW t, Arrive(p, t)
    PROVE  Kept
  <1>1. Records' /\ Collected' = Collected
    BY Unchanged DEF HInv, Arrive
  <1>2. Addressed' /\ Quiet' /\ delivered' = Null
    BY DEF Arrive, Addressed, Quiet
  <1> QED BY <1>1, <1>2, SilentStep DEF Kept, HInv

LEMMA ExpireTimerServes ==
    ASSUME IInv, IInv', HInv, Remember, ExpireTimer
    PROVE  Kept
  <1> DEFINE p == timers.head
  <1>1. p \in Live
    BY HeadIsLive DEF IInv, Parts, ExpireTimer, Due
  <1>2. pc = "expire" /\ pc' = "expire" /\ delivered' = delivered /\ queues' = [queues EXCEPT ![p] = Null]
    BY DEF ExpireTimer, FreeQueue
  <1> HIDE DEF p
  <1>3. Records' /\ Collected' = [Collected EXCEPT ![KeyAt(p)] = {}]
    BY <1>1, <1>2, QueueForgotten DEF HInv
  <1>4. delivered' = Null /\ Addressed' /\ Quiet'
    BY <1>2 DEF HInv, Quiet, Addressed
  <1>5. KeyAt(p) \in Dst \X Id
    BY <1>1, KeyIs DEF IInv, Parts
  <1> QED BY <1>3, <1>4, <1>5, DropStep DEF Kept, HInv

LEMMA FindHostServes ==
    ASSUME IInv, HInv, Remember, FindHost
    PROVE  Kept
  <1>1. pc = "expire" /\ pc' \in {"evict", "find"} /\ delivered' = delivered /\ queues' = queues
    BY DEF FindHost
  <1>2. Records' /\ Collected' = Collected
    BY <1>1, Unchanged DEF HInv
  <1>3. Addressed' /\ Quiet' /\ delivered' = Null
    BY <1>1 DEF HInv, Addressed, Quiet
  <1> QED BY <1>2, <1>3, SilentStep DEF Kept, HInv

LEMMA EvictQueueServes ==
    ASSUME IInv, IInv', HInv, Remember, EvictQueue
    PROVE  Kept
  <1> DEFINE L == fragtable[this_host].ipqueue
             p == Head(L)
  <1>1. p \in Live
    <2>1. this_host \in Dst /\ fragtable[this_host] # Null
      BY InUse DEF EvictQueue, MustEvict
    <2>2. L \in Seq(Live) /\ L # <<>>
      BY <2>1, ListIs DEF IInv, Parts, EvictQueue
    <2> QED BY <2>2
  <1>2. pc = "evict" /\ pc' = "evict" /\ delivered' = delivered /\ queues' = [queues EXCEPT ![p] = Null]
    BY DEF EvictQueue, FreeQueue
  <1> HIDE DEF p
  <1>3. Records' /\ Collected' = [Collected EXCEPT ![KeyAt(p)] = {}]
    BY <1>1, <1>2, QueueForgotten DEF HInv
  <1>4. delivered' = Null /\ Addressed' /\ Quiet'
    BY <1>2 DEF HInv, Quiet, Addressed
  <1>5. KeyAt(p) \in Dst \X Id
    BY <1>1, KeyIs DEF IInv, Parts
  <1> QED BY <1>3, <1>4, <1>5, DropStep DEF Kept, HInv

LEMMA EvictedServes ==
    ASSUME IInv, HInv, Remember, Evicted
    PROVE  Kept
  <1>1. pc = "evict" /\ pc' = "find" /\ delivered' = delivered /\ queues' = queues
    BY DEF Evicted
  <1>2. Records' /\ Collected' = Collected
    BY <1>1, Unchanged DEF HInv
  <1>3. Addressed' /\ Quiet' /\ delivered' = Null
    BY <1>1 DEF HInv, Addressed, Quiet
  <1> QED BY <1>2, <1>3, SilentStep DEF Kept, HInv

\* No queue on the list of the host has the packet's key, so no queue has.
LEMMA NoMatch ==
    ASSUME IInv, pc = "find", Matching = {}, NEW p \in Live
    PROVE  KeyAt(p) # KeyOf(packet)
  <1> SUFFICES ASSUME queues[p].iph.dst = packet.dst, queues[p].iph.id = packet.id PROVE FALSE
    BY DEF KeyAt, KeyOf
  <1> DEFINE L == fragtable[packet.dst].ipqueue
  <1>1. Tables /\ Queued /\ Listed /\ OneId /\ packet.dst \in Dst /\ packet.dst # Null
    BY InUse DEF IInv, Parts
  <1>2. fragtable[packet.dst] # Null /\ p \in ToSet(L)
    BY <1>1 DEF Queued
  <1>3. this_host = packet.dst
    BY <1>2, InUse
  <1>4. Matching = {i \in DOMAIN L : Matches(L[i])}
    BY <1>1, <1>3 DEF Matching
  <1>5. PICK i \in DOMAIN L : L[i] = p
    BY <1>2 DEF ToSet
  <1> QED BY <1>4, <1>5 DEF Matches

LEMMA PacketKey ==
    ASSUME IInv, pc \in {"find", "insert"}
    PROVE  packet \in Packets /\ packet \in Packet /\ KeyOf(packet) \in Dst \X Id
  <1>1. packet \in Packets /\ packet \in Packet
    BY IpAssumption DEF IInv, Calling
  <1> QED BY <1>1 DEF KeyOf, Packet

LEMMA PassWholeServes ==
    ASSUME IInv, IInv', HInv, Remember, PassWhole
    PROVE  Kept
  <1> DEFINE k == KeyOf(packet)
  <1>1. /\ pc = "find" /\ pc' = "idle" /\ ~IsFragment(packet)
        /\ delivered' = [iph |-> packet, fragments |-> <<>>]
    BY DEF PassWhole, Return
  <1>2. packet \in Packets /\ packet \in Packet /\ k \in Dst \X Id
    BY <1>1, PacketKey
  <1>3. ~packet.mf /\ packet.offset = 0
    BY <1>1, <1>2 DEF IsFragment, Packet
  <1>4. Records' /\ Collected' = [Collected EXCEPT ![k] = {}]
    <2>1. CASE Matching # {}
      <3>1. Found \in Live /\ KeyAt(Found) = k
        BY <1>1, <2>1, FoundIs DEF KeyAt, KeyOf
      <3>2. queues' = [queues EXCEPT ![Found] = Null]
        BY <2>1 DEF PassWhole, FreeQueue
      <3> QED BY <1>1, <3>1, <3>2, QueueForgotten DEF HInv
    <2>2. CASE Matching = {}
      <3>1. queues' = queues
        BY <2>2 DEF PassWhole
      <3>2. Records' /\ Collected' = Collected
        BY <1>1, <3>1, Unchanged DEF HInv
      <3>3. \A p \in Live : KeyAt(p) # k
        BY <1>1, <2>2, NoMatch
      <3>4. Collected[k] = {}
        BY <1>2, <3>3, CollectedIsNot DEF NoneForOthers
      <3>5. [Collected EXCEPT ![k] = {}] = Collected
        BY <3>4 DEF Collected
      <3> QED BY <3>2, <3>5
    <2> QED BY <2>1, <2>2
  <1>5. Addressed' /\ Quiet'
    BY <1>1 DEF Addressed, Quiet
  <1>6. Service!Whole(packet)
    BY <1>1, <1>3, <1>4 DEF Service!Whole
  <1>7. Service!Next
    BY <1>2, <1>6 DEF Service!Next
  <1> QED BY <1>4, <1>5, <1>7 DEF Kept, HInv

\* A first fragment is never oversized.
LEMMA FirstIsInserted ==
    ASSUME packet \in Packets, packet.offset = 0, NEW p, ProceedWith(p)
    PROVE  pc' = "insert" /\ qp' = p /\ packet' = packet
  <1>1. packet \in Packet /\ packet.ihl + packet.len <= MaxLen /\ MaxLen \in Nat
    BY IpAssumption
  <1>2. packet.ihl \in Nat /\ packet.len \in Nat /\ packet.ihl + packet.len + packet.offset <= MaxLen
    BY <1>1 DEF Packet
  <1>3. ~(packet.ihl + packet.len + packet.offset > MaxLen)
    BY <1>1, <1>2
  <1> QED BY <1>3 DEF ProceedWith

LEMMA Proceeds ==
    ASSUME NEW p, ProceedWith(p)
    PROVE  \/ pc' = "insert" /\ qp' = p /\ packet' = packet
           \/ pc' = "idle"
  BY DEF ProceedWith, Return

LEMMA RefreshQueueServes ==
    ASSUME IInv, IInv', HInv, Remember, RefreshQueue
    PROVE  Kept
  <1>2. PICK p \in Live : /\ p = Found /\ queues[p].iph.id = packet.id
                           /\ queues[p].iph.dst = packet.dst
    BY FoundIs DEF RefreshQueue
  <1>1. pc = "find" /\ delivered' = delivered /\ ProceedWith(p) /\ packet \in Packets
    BY <1>2, PacketKey DEF RefreshQueue
  <1>3. PICK q \in Ipq : /\ queues' = [queues EXCEPT ![p] = q]
                         /\ q.len = queues[p].len /\ q.fragments = queues[p].fragments
                         /\ q.iph = IF packet.offset = 0 THEN packet ELSE queues[p].iph
    BY <1>2, RefreshedIs
  <1>4. queues \in [Ptr -> OrNull(Ipq)] /\ p \in Ptr /\ q # Null
    BY <1>2, IpAssumption DEF IInv, Parts, Tables, Live
  <1>5. queues'[p] = q /\ \A x \in Ptr : x # p => queues'[x] = queues[x]
    BY <1>3, <1>4
  <1>6. Live' = Live
    BY <1>2, <1>4, <1>5 DEF Live
  <1>7. q.iph.id = packet.id /\ q.iph.dst = packet.dst /\ KeyOf(q.iph) = KeyAt(p)
    BY <1>2, <1>3 DEF KeyOf, KeyAt
  <1>8. Received(p)' = Received(p)
    BY <1>1, <1>4, <1>5, ReceivedIs
  <1>9. /\ pc' = "insert" => qp' = p /\ packet' = packet
        /\ pc' = "insert" \/ pc' = "idle"
        /\ packet.offset = 0 => pc' = "insert"
    BY <1>1, Proceeds, FirstIsInserted
  <1>10. Knows(queues'[p], Received(p)', Pending(p)')
    <2>1. Knows(queues[p], Received(p), {})
      BY <1>1, <1>2 DEF HInv, Records, Pending
    <2>2. FromReceived(q, Received(p)) /\ LengthReceived(q, Received(p)) /\ Received(p) \subseteq Packets
      BY <1>3, <2>1 DEF Knows, FromReceived, LengthReceived
    <2>3. CASE packet.offset = 0
      <3>1. Pending(p)' = {packet} /\ q.iph = packet
        BY <1>3, <1>9, <2>3 DEF Pending
      <3>2. HeaderReceived(q, Received(p), {packet})
        BY <2>3, <3>1 DEF HeaderReceived
      <3> QED BY <1>5, <1>8, <2>2, <3>1, <3>2 DEF Knows
    <2>4. CASE packet.offset # 0
      <3>1. Pending(p)' \in {{}, {packet}} /\ q.iph = queues[p].iph
        BY <1>3, <1>9, <2>4 DEF Pending
      <3>2. HeaderReceived(q, Received(p), {}) /\ HeaderReceived(q, Received(p), {packet})
        BY <2>1, <2>4, <3>1 DEF HeaderReceived, Knows
      <3> QED BY <1>5, <1>8, <2>2, <3>1, <3>2 DEF Knows
    <2> QED BY <2>3, <2>4
  <1>11. ASSUME NEW x \in Live, x # p
         PROVE  /\ Received(x)' = Received(x) /\ KeyAt(x)' = KeyAt(x)
                /\ Knows(queues'[x], Received(x)', Pending(x)')
    BY <1>1, <1>5, <1>9, <1>11, StaysKnown DEF HInv, Live
  <1>12. Records'
    <2>1. ASSUME NEW x \in Ptr, queues'[x] = Null PROVE Received(x)' = {}
      BY <2>1, ReceivedIs
    <2> QED BY <1>6, <1>10, <1>11, <2>1 DEF Records
  <1>13. Collected' = Collected
    <2>1. \A x \in Live : KeyOf(queues'[x].iph) = KeyOf(queues[x].iph)
      BY <1>5, <1>7, <1>11 DEF KeyAt
    <2>2. \A x \in Live : history'[x].received = history[x].received
      BY <1>8, <1>11 DEF Received
    <2> QED BY <1>6, <2>1, <2>2 DEF Collected
  <1>14. Addressed' /\ Quiet' /\ delivered' = Null
    BY <1>1, <1>5, <1>7, <1>9 DEF HInv, Addressed, Quiet
  <1> QED BY <1>12, <1>13, <1>14, SilentStep DEF Kept, HInv

LEMMA CreateQueueServes ==
    ASSUME IInv, IInv', HInv, Remember, NEW p \in Ptr, CreateQueue(p)
    PROVE  Kept
  <1> DEFINE k == KeyOf(packet)
             q == NewIpq
  <1>1. /\ pc = "find" /\ delivered' = delivered /\ ProceedWith(p) /\ Matching = {}
        /\ queues[p] = Null /\ queues' = [queues EXCEPT ![p] = q]
    BY DEF CreateQueue
  <1>2. packet \in Packets /\ packet \in Packet /\ k \in Dst \X Id
    BY <1>1, PacketKey
  <1>3. /\ q # Null /\ q.iph = packet /\ q.fragments = <<>> /\ q.len = 0
    BY <1>2, CreatedIs DEF IInv
  <1>4. queues \in [Ptr -> OrNull(Ipq)]
    BY DEF IInv, Parts, Tables
  <1> HIDE DEF q
  <1>5. queues'[p] = q /\ \A x \in Ptr : x # p => queues'[x] = queues[x]
    BY <1>1, <1>4
  <1>6. Live' = Live \cup {p} /\ p \notin Live
    BY <1>1, <1>3, <1>5 DEF Live
  <1>7. KeyAt(p)' = k /\ \A x \in Live : KeyAt(x) # k
    BY <1>1, <1>3, <1>5, NoMatch DEF KeyAt
  <1>8. Received(p)' = {}
    <2>1. Received(p) = {}
      BY <1>1 DEF HInv, Records
    <2> QED BY <1>1, <1>3, <1>5, <2>1, ReceivedIs
  <1>9. /\ pc' = "insert" => qp' = p /\ packet' = packet
        /\ pc' = "insert" \/ pc' = "idle"
        /\ packet.offset = 0 => pc' = "insert"
    BY <1>1, <1>2, Proceeds, FirstIsInserted
  <1>10. Knows(queues'[p], Received(p)', Pending(p)')
    <2>1. FromReceived(q, {}) /\ LengthReceived(q, {})
      BY <1>3 DEF FromReceived, LengthReceived
    <2>2. Pending(p)' \in {{}, {packet}} /\ (packet.offset = 0 => Pending(p)' = {packet})
      BY <1>9 DEF Pending
    <2>3. HeaderReceived(q, {}, Pending(p)')
      BY <1>3, <2>2 DEF HeaderReceived
    <2> QED BY <1>5, <1>8, <2>1, <2>3 DEF Knows
  <1>11. ASSUME NEW x \in Live
         PROVE  /\ Received(x)' = Received(x) /\ KeyAt(x)' = KeyAt(x)
                /\ Knows(queues'[x], Received(x)', Pending(x)')
    BY <1>1, <1>5, <1>6, <1>9, StaysKnown DEF HInv, Live
  <1>12. Records'
    <2>1. ASSUME NEW x \in Ptr, queues'[x] = Null PROVE Received(x)' = {}
      BY <2>1, ReceivedIs
    <2> QED BY <1>6, <1>10, <1>11, <2>1 DEF Records
  <1>13. Collected' = [Collected EXCEPT ![k] = {}]
    <2>1. \A x \in Ptr : x \in Live /\ KeyAt(x) # k <=> x \in Live' /\ KeyAt(x)' # k
      BY <1>6, <1>7, <1>11
    <2>2. \A x \in Live' : KeyAt(x)' = k => Received(x)' = {}
      BY <1>6, <1>7, <1>8, <1>11
    <2> HIDE DEF k
    <2> QED BY <1>2, <1>11, <2>1, <2>2, OneChanges
  <1>14. Addressed' /\ Quiet' /\ delivered' = Null
    BY <1>1, <1>3, <1>5, <1>9 DEF HInv, Addressed, Quiet
  <1> QED BY <1>2, <1>12, <1>13, <1>14, DropStep DEF Kept, HInv

----------------------------------------------------------------------------
\* ipDone and ipGlue: what connects and is not too short covers the datagram.
LEMMA GluedIs ==
    ASSUME NEW q \in Ipq, NEW R, Apart(q.fragments), FromReceived(q, R), LengthReceived(q, R),
           Done(q), ~GlueFails(q)
    PROVE  /\ q.fragments # <<>>
           /\ Service!Covers(q.fragments, R)
           /\ \A i \in DOMAIN q.fragments : Service!TakenFrom(q.fragments[i], R)
           /\ \E f \in R : f.offset = 0
  <1> DEFINE fr == q.fragments
             n == Len(fr)
  <1>1. fr \in Seq(IpFrag) /\ n \in Nat /\ DOMAIN fr = 1 .. n /\ q.len \in Nat
    BY DEF Ipq
  <1>2. ASSUME NEW i \in 1 .. n
        PROVE  /\ fr[i].offset \in Nat /\ fr[i].end \in Nat /\ fr[i].skb \in Packet
               /\ fr[i].skb.offset \in Nat
    <2>1. fr[i] \in IpFrag
      BY <1>1, ElementOfSeq
    <2> QED BY <2>1 DEF IpFrag, Packet
  <1>3. ASSUME NEW i \in 1 .. n
        PROVE  /\ fr[i].ptr = fr[i].offset
               /\ fr[i].skb.offset <= fr[i].offset
               /\ fr[i].end = fr[i].skb.offset + fr[i].skb.len
    BY DEF Apart
  <1>4. ASSUME NEW i \in 1 .. n, NEW j \in i + 1 .. n PROVE fr[i].end <= fr[j].offset
    BY DEF Apart
  <1>5. \A i \in 1 .. n : fr[i].offset <= IF i = 1 THEN 0 ELSE fr[i - 1].end
    BY <1>1 DEF Done
  <1>6. ASSUME NEW i \in 1 .. n PROVE fr[i].offset <= fr[i].end /\ fr[i].end <= q.len
    <2>1. ~(fr[i].end < fr[i].offset) /\ ~(fr[i].end > q.len)
      BY <1>1 DEF GlueFails
    <2> QED BY <1>1, <1>2, <2>1
  <1>7. /\ \E f \in R : ~f.mf /\ f.offset + f.len = q.len
        /\ \E i \in 1 .. n : fr[i].end >= q.len
    BY DEF LengthReceived, Done
  <1>8. \A i \in 1 .. n : fr[i].skb \in R
    BY DEF FromReceived
  <1> HIDE DEF fr
  <1>9. 1 \in 1 .. n /\ n \in 1 .. n /\ fr # <<>>
    <2>1. PICK i \in 1 .. n : fr[i].end >= q.len
      BY <1>7
    <2>2. n # 0 /\ 1 \in 1 .. n /\ n \in 1 .. n
      BY <1>1, <2>1
    <2> QED BY <1>1, <2>2
  <1> HIDE DEF n
  <1>10. fr[1].offset = 0
    <2>1. fr[1].offset <= 0
      BY <1>5, <1>9
    <2> QED BY <1>2, <1>9, <2>1
  <1>11. fr[n].end = q.len
    <2>1. PICK i \in 1 .. n : fr[i].end >= q.len
      BY <1>7
    <2>2. fr[n].end >= q.len
      <3>1. CASE i = n
        BY <2>1, <3>1
      <3>2. CASE i # n
        <4>1. n \in i + 1 .. n
          BY <1>1, <3>2
        <4>2. fr[i].end <= fr[n].offset /\ fr[n].offset <= fr[n].end
          BY <1>4, <1>6, <1>9, <4>1
        <4> QED BY <1>1, <1>2, <1>9, <2>1, <4>2
      <3> QED BY <3>1, <3>2
    <2> QED BY <1>1, <1>2, <1>6, <1>9, <2>2
  <1>12. ASSUME NEW i \in 1 .. n - 1 PROVE fr[i].end = fr[i + 1].offset
    <2>1. i \in 1 .. n /\ i + 1 \in 1 .. n /\ i + 1 \in i + 1 .. n /\ i + 1 # 1 /\ (i + 1) - 1 = i
      BY <1>1
    <2>2. fr[i + 1].offset <= fr[i].end
      BY <1>5, <2>1
    <2>3. fr[i].end <= fr[i + 1].offset
      BY <1>4, <2>1
    <2> QED BY <1>2, <2>1, <2>2, <2>3
  <1>13. Service!Covers(fr, R)
    BY <1>7, <1>10, <1>11, <1>12 DEF Service!Covers, n
  <1>14. \A i \in 1 .. n : Service!TakenFrom(fr[i], R)
    <2> TAKE i \in 1 .. n
    <2>1. fr[i].end <= fr[i].skb.offset + fr[i].skb.len
      BY <1>2, <1>3
    <2> QED BY <1>3, <1>6, <1>8, <2>1 DEF Service!TakenFrom
  <1>15. fr[1].skb.offset = 0 /\ fr[1].skb \in R
    BY <1>2, <1>3, <1>8, <1>9, <1>10
  <1> QED BY <1>1, <1>9, <1>13, <1>14, <1>15 DEF fr

LEMMA InsertedKnows ==
    ASSUME packet \in Packets, packet \in Packet, NEW q \in Ipq, Apart(q.fragments),
           NEW R, Knows(q, R, {packet})
    PROVE  Knows(Inserted(q), R \cup {packet}, {})
  <1> DEFINE u == Inserted(q)
             new == u.fragments
             old == q.fragments
             end == packet.offset + packet.len
  <1>1. /\ u \in Ipq /\ u.iph = q.iph /\ u.len = IF packet.mf THEN q.len ELSE end
        /\ CutFrom(new, old) /\ ReachesAsFar(new, old)
    BY InsertedIs
  <1> HIDE DEF u
  <1>2. R \subseteq Packets /\ FromReceived(q, R) /\ LengthReceived(q, R) /\ HeaderReceived(q, R, {packet})
    BY DEF Knows
  <1>3. FromReceived(u, R \cup {packet})
    BY <1>1, <1>2 DEF CutFrom, FromReceived
  <1>4. LengthReceived(u, R \cup {packet})
    <2>1. CASE ~packet.mf
      <3>1. PICK i \in 1 .. Len(new) : new[i].end = end
        BY <1>1 DEF ReachesAsFar
      <3>2. end \in Nat
        BY DEF Packet
      <3> QED BY <1>1, <2>1, <3>1, <3>2 DEF LengthReceived
    <2>2. CASE packet.mf /\ u.len # 0
      <3>1. q.len = u.len /\ q.len # 0
        BY <1>1, <2>2
      <3>2. PICK f \in R : ~f.mf /\ f.offset + f.len = u.len
        BY <1>2, <3>1 DEF LengthReceived
      <3>3. PICK j \in 1 .. Len(old) : old[j].end >= u.len
        BY <1>2, <3>1 DEF LengthReceived
      <3>4. PICK i \in 1 .. Len(new) : new[i].end >= old[j].end
        BY <1>1 DEF ReachesAsFar
      <3>5. old[j].end \in Nat /\ new[i].end \in Nat /\ u.len \in Nat
        <4>1. old \in Seq(IpFrag) /\ new \in Seq(IpFrag) /\ u.len \in Nat
          BY <1>1 DEF Ipq
        <4>2. old[j] \in IpFrag /\ new[i] \in IpFrag
          BY <4>1, ElementOfSeq
        <4> QED BY <4>1, <4>2 DEF IpFrag
      <3>6. new[i].end >= u.len
        BY <3>3, <3>4, <3>5
      <3> QED BY <3>2, <3>6 DEF LengthReceived
    <2> QED BY <2>1, <2>2 DEF LengthReceived
  <1>5. HeaderReceived(u, R \cup {packet}, {})
    BY <1>1, <1>2 DEF HeaderReceived
  <1> QED BY <1>2, <1>3, <1>4, <1>5 DEF Knows, u

\* The queue in use, and what is to be made of it.
LEMMA InsertFragmentServes ==
    ASSUME IInv, IInv', HInv, Remember, InsertFragment
    PROVE  Kept
  <1>1. pc = "insert" /\ pc' = "idle"
    BY DEF InsertFragment, Return
  <1>2. PICK p \in Live : p = qp
    BY <1>1 DEF IInv, Calling
  <1>3. /\ packet \in Packets /\ packet \in Packet /\ p \in Ptr
        /\ queues[p] \in Ipq /\ Apart(queues[p].fragments)
    BY <1>1, PacketKey, LiveIs DEF IInv, Parts, AllApart
  <1>4. PICK k \in Dst \X Id : k = KeyOf(packet)
    BY <1>1, PacketKey
  <1>5. KeyAt(p) = k
    BY <1>1, <1>2, <1>4 DEF HInv, Addressed, KeyAt, KeyOf
  <1>6. PICK q : q = Inserted(queues[p])
    OBVIOUS
  <1>7. PICK R : R = Received(p) \cup {packet}
    OBVIOUS
  <1>8. Knows(queues[p], Received(p), {packet})
    BY <1>1, <1>2 DEF HInv, Records, Pending
  <1>9. q \in Ipq /\ q.iph = queues[p].iph /\ Apart(q.fragments) /\ q # Null
    BY <1>3, <1>6, InsertedIs, IpAssumption
  <1>10. Knows(q, R, {})
    BY <1>3, <1>6, <1>7, <1>8, InsertedKnows
  <1>11. Collected[k] = Received(p)
    BY <1>5, CollectedIs
  <1>12. Addressed' /\ Quiet'
    BY <1>1 DEF Addressed, Quiet
  <1>13. queues \in [Ptr -> OrNull(Ipq)]
    BY DEF IInv, Parts, Tables
  <1>14. CASE Done(q)
    <2>1. /\ queues' = [queues EXCEPT ![p] = Null]
          /\ delivered' = IF GlueFails(q) THEN Null ELSE [iph |-> q.iph, fragments |-> q.fragments]
      BY <1>2, <1>6, <1>14 DEF InsertFragment, FreeQueue
    <2>2. Records' /\ Collected' = [Collected EXCEPT ![k] = {}]
      BY <1>1, <1>2, <1>5, <2>1, QueueForgotten DEF HInv
    <2>3. CASE GlueFails(q)
      BY <1>12, <2>1, <2>2, <2>3, DropStep DEF Kept, HInv
    <2>4. CASE ~GlueFails(q)
      <3>1. /\ q.fragments # <<>> /\ Service!Covers(q.fragments, R)
            /\ \A i \in DOMAIN q.fragments : Service!TakenFrom(q.fragments[i], R)
            /\ \E f \in R : f.offset = 0
        BY <1>9, <1>10, <1>14, <2>4, GluedIs DEF Knows
      <3>2. q.iph.offset = 0 /\ q.iph \in R
        BY <1>10, <3>1 DEF Knows, HeaderReceived
      <3>3. delivered' = [iph |-> q.iph, fragments |-> q.fragments] /\ delivered' # Null
        <4>1. [iph |-> q.iph, fragments |-> q.fragments] \in Datagram
          BY <1>9 DEF Ipq, Datagram
        <4> QED BY <2>1, <2>4, <4>1, IpAssumption
      <3>4. delivered'.iph = q.iph /\ delivered'.fragments = q.fragments
        BY <3>3
      <3>5. Collected[KeyOf(packet)] \cup {packet} = R
        BY <1>4, <1>7, <1>11
      <3>6. Service!Assemble(packet)
        BY <1>4, <2>2, <3>1, <3>2, <3>3, <3>4, <3>5 DEF Service!Assemble
      <3> QED BY <1>3, <1>12, <2>2, <3>6 DEF Service!Next, Kept, HInv
    <2> QED BY <2>3, <2>4
  <1>15. CASE ~Done(q)
    <2>1. queues' = [queues EXCEPT ![p] = q] /\ delivered' = Null
      BY <1>1, <1>2, <1>6, <1>15 DEF InsertFragment, HInv, Quiet
    <2>2. queues'[p] = q /\ \A x \in Ptr : x # p => queues'[x] = queues[x]
      BY <1>3, <1>13, <2>1
    <2>3. Live' = Live
      BY <1>3, <1>9, <2>2 DEF Live
    <2>4. Received(p)' = R
      BY <1>1, <1>2, <1>3, <1>7, <1>9, <2>2, ReceivedIs
    <2>5. KeyAt(p)' = k
      BY <1>5, <1>9, <2>2 DEF KeyAt
    <2>6. Knows(queues'[p], Received(p)', Pending(p)')
      <3>1. Pending(p)' = {}
        BY <1>1 DEF Pending
      <3> QED BY <1>10, <2>2, <2>4, <3>1
    <2>7. ASSUME NEW x \in Live, x # p
          PROVE  /\ Received(x)' = Received(x) /\ KeyAt(x)' = KeyAt(x)
                 /\ Knows(queues'[x], Received(x)', Pending(x)')
      BY <1>1, <1>2, <2>2, <2>7, StaysKnown DEF HInv, Live
    <2>8. Records'
      <3>1. ASSUME NEW x \in Ptr, queues'[x] = Null PROVE Received(x)' = {}
        BY <3>1, ReceivedIs
      <3> QED BY <2>3, <2>6, <2>7, <3>1 DEF Records
    <2>9. Collected' = [Collected EXCEPT ![k] = R]
      <3>1. \A x \in Live : x # p => KeyAt(x) # k
        BY <1>5, OneQueue
      <3>2. \A x \in Ptr : x \in Live /\ KeyAt(x) # k <=> x \in Live' /\ KeyAt(x)' # k
        BY <1>5, <2>3, <2>5, <2>7
      <3>3. \A x \in Live : KeyAt(x) # k => KeyAt(x)' = KeyAt(x) /\ Received(x)' = Received(x)
        BY <1>5, <2>7
      <3>4. \A x \in Live' : KeyAt(x)' = k => Received(x)' = R
        BY <2>3, <2>4, <2>7, <3>1
      <3>5. p \in Live' /\ KeyAt(p)' = k
        BY <2>3, <2>5
      <3> QED BY <1>4, <3>2, <3>3, <3>4, <3>5, OneChanges
    <2>10. Service!Collect(packet)
      <3>1. [Collected EXCEPT ![k] = R] = [Collected EXCEPT ![KeyOf(packet)] = @ \cup {packet}]
        BY <1>4, <1>7, <1>11
      <3> QED BY <2>1, <2>9, <3>1 DEF Service!Collect
    <2> QED BY <1>3, <1>12, <2>8, <2>10 DEF Service!Next, Kept, HInv
  <1> QED BY <1>14, <1>15

----------------------------------------------------------------------------
LEMMA HistInitHolds == HistInit => HInv /\ Service!Init
  <1> SUFFICES ASSUME HistInit PROVE HInv /\ Service!Init
    OBVIOUS
  <1>1. Live = {} /\ pc = "idle" /\ delivered = Null /\ \A p \in Ptr : Received(p) = {}
    BY DEF HistInit, Init, Live, Received, NoHistory
  <1>2. HInv
    BY <1>1 DEF HInv, Records, Addressed, Quiet
  <1>3. \A k \in Dst \X Id : Collected[k] = {}
    BY <1>1, CollectedIsNot DEF NoneForOthers
  <1>4. Collected = [k \in Dst \X Id |-> {}]
    BY <1>3 DEF Collected
  <1> QED BY <1>1, <1>2, <1>4 DEF Service!Init

\* A step keeps the records and is one of the service, or changes neither.
LEMMA HistInductive ==
    IInv /\ IInv' /\ HInv /\ [HistNext]_histVars => HInv' /\ [Service!Next]_Service!serviceVars
  <1> SUFFICES ASSUME IInv, IInv', HInv, [HistNext]_histVars
               PROVE  HInv' /\ [Service!Next]_Service!serviceVars
    OBVIOUS
  <1>1. CASE HistNext
    <2>1. Remember
      BY <1>1 DEF HistNext, Remember
    <2>2. ASSUME NEW p \in Packets, NEW t \in clock .. MaxTime, Arrive(p, t) PROVE Kept
      BY <2>1, <2>2, ArriveServes
    <2>3. ASSUME ExpireTimer PROVE Kept
      BY <2>1, <2>3, ExpireTimerServes
    <2>4. ASSUME FindHost PROVE Kept
      BY <2>1, <2>4, FindHostServes
    <2>5. ASSUME EvictQueue PROVE Kept
      BY <2>1, <2>5, EvictQueueServes
    <2>6. ASSUME Evicted PROVE Kept
      BY <2>1, <2>6, EvictedServes
    <2>7. ASSUME PassWhole PROVE Kept
      BY <2>1, <2>7, PassWholeServes
    <2>8. ASSUME RefreshQueue PROVE Kept
      BY <2>1, <2>8, RefreshQueueServes
    <2>9. ASSUME NEW p \in Ptr, CreateQueue(p) PROVE Kept
      BY <2>1, <2>9, CreateQueueServes
    <2>10. ASSUME InsertFragment PROVE Kept
      BY <2>1, <2>10, InsertFragmentServes
    <2>11. Next
      BY <1>1 DEF HistNext
    <2>12. Kept
      BY <2>2, <2>3, <2>4, <2>5, <2>6, <2>7, <2>8, <2>9, <2>10, <2>11 DEF Next, Process
    <2> QED BY <2>12 DEF Kept
  <1>2. CASE UNCHANGED histVars
    <2>1. /\ queues' = queues /\ pc' = pc /\ packet' = packet /\ qp' = qp
          /\ delivered' = delivered /\ history' = history
      BY <1>2 DEF histVars, vars
    <2>2. Live' = Live
      BY <2>1 DEF Live
    <2>3. /\ \A p \in Ptr : Received(p)' = Received(p) /\ Pending(p)' = Pending(p)
          /\ Addressed' <=> Addressed
          /\ Quiet' <=> Quiet
      BY <2>1 DEF Received, Pending, Addressed, Quiet
    <2>4. Records'
      BY <2>1, <2>2, <2>3 DEF HInv, Records, Live
    <2>5. Collected' = Collected
      BY <2>1, <2>2 DEF Collected
    <2> QED BY <2>1, <2>3, <2>4, <2>5 DEF HInv, Service!serviceVars
  <1> QED BY <1>1, <1>2

LEMMA HistSpecIsSpec == HistSpec => Spec
  <1>1. HistInit => Init
    BY DEF HistInit
  <1>2. [HistNext]_histVars => [Next]_vars
    BY DEF HistNext, histVars
  <1> QED BY <1>1, <1>2, PTL DEF HistSpec, Spec

\* IpFragment.cc:315-319, 400-480: what reassembly gives to the callbacks is a
\* datagram that came in one piece, or is put together from fragments of its
\* own, without a gap or an overlap, each of them used once.
THEOREM ServiceHolds == HistSpec => ServiceSpec
  BY HistSpecIsSpec, Invariant, HistInitHolds, HistInductive, PTL DEF HistSpec, ServiceSpec, Service!Spec

----------------------------------------------------------------------------
(***************************************************************************)
(* The lifetime of a queue.                                                *)
(***************************************************************************)
\* The clock, an int of milliseconds, does not wrap while the program runs.
NoWrap == MaxTime + FragTime < IntLimit

Ascending(s) == \A i, j \in 1 .. Len(s) :
    i < j => queues[s[i]].expires <= queues[s[j]].expires

\* The list of timers is in the order they expire in.
TimersInOrder == \E s \in Seq(Ptr) : Chain(timers, s) /\ ToSet(s) = Live /\ Ascending(s)

\* A timer runs FragTime from when it was armed.
Armed == \A p \in Live :
    /\ history[p].touched \in 0 .. clock
    /\ queues[p].expires = history[p].touched + FragTime

\* Once a call has expired the timers that are due none is left.
NoneDue == pc \in {"evict", "find", "insert"} => \A p \in Live : clock <= queues[p].expires

Lifetimes == timenow = clock /\ TimersInOrder /\ Armed /\ NoneDue

LEMMA JiffiesIs ==
    ASSUME NoWrap, NEW t \in 0 .. MaxTime + FragTime
    PROVE  Jiffies(t) = t
  <1>1. IntLimit \in Nat /\ MaxTime + FragTime \in Nat
    BY IpAssumption
  <1> DEFINE L == IntLimit
  <1>2. L \in Nat /\ t \in Nat /\ t < L
    BY <1>1 DEF NoWrap
  <1> HIDE DEF L
  <1>3. (t + L) % (2 * L) = t + L
    BY <1>2
  <1> QED BY <1>2, <1>3 DEF Jiffies, L

LEMMA TimerDeleted ==
    ASSUME Tables, TimersInOrder, NEW p \in Live
    PROVE  \E r \in Seq(Ptr) :
              /\ DelTimer(timers, p) \in Timers
              /\ DelTimer(DelTimer(timers, p), p) = DelTimer(timers, p)
              /\ Chain(DelTimer(timers, p), r)
              /\ ToSet(r) = Live \ {p}
              /\ Ascending(r)
  <1>1. PICK s \in Seq(Ptr) : Chain(timers, s) /\ ToSet(s) = Live /\ Ascending(s)
    BY DEF TimersInOrder
  <1>2. timers \in Timers
    BY DEF Tables
  <1>3. PICK k \in 1 .. Len(s) : s[k] = p
    BY <1>1 DEF ToSet
  <1> DEFINE r == RemoveAt(s, k)
  <1>4. /\ r \in Seq(Ptr) /\ Len(r) = Len(s) - 1
        /\ \A i \in 1 .. Len(s) - 1 : r[i] = IF i < k THEN s[i] ELSE s[i + 1]
    BY RemoveAtIs
  <1>5. Chain(DelTimer(timers, p), r) /\ ToSet(r) = Live \ {p}
    BY <1>1, <1>2, <1>3, DelTimerChain, RemoveAtDistinct DEF Chain
  <1>6. DelTimer(timers, p) \in Timers /\ DelTimer(DelTimer(timers, p), p) = DelTimer(timers, p)
    BY <1>1, <1>2, <1>3, DelTimerIs, DelTimerTwice
  <1> HIDE DEF r
  <1>7. Ascending(r)
    <2> SUFFICES ASSUME NEW i \in 1 .. Len(r), NEW j \in 1 .. Len(r), i < j
                 PROVE  queues[r[i]].expires <= queues[r[j]].expires
      BY DEF Ascending
    <2> DEFINE a == IF i < k THEN i ELSE i + 1
               b == IF j < k THEN j ELSE j + 1
    <2>1. a \in 1 .. Len(s) /\ b \in 1 .. Len(s) /\ a < b /\ r[i] = s[a] /\ r[j] = s[b]
      BY <1>4
    <2> HIDE DEF a, b
    <2> QED BY <1>1, <2>1 DEF Ascending
  <1> QED BY <1>4, <1>5, <1>6, <1>7

LEMMA FreedInOrder ==
    ASSUME Tables, TimersInOrder, NEW p \in Live,
           NEW list, list = timers \/ list = DelTimer(timers, p),
           NEW host, FreeQueue(p, host, list)
    PROVE  /\ TimersInOrder' /\ Live' = Live \ {p}
           /\ \A x \in Live' : queues'[x] = queues[x]
  <1>1. PICK r \in Seq(Ptr) :
              /\ DelTimer(timers, p) \in Timers
              /\ DelTimer(DelTimer(timers, p), p) = DelTimer(timers, p)
              /\ Chain(DelTimer(timers, p), r)
              /\ ToSet(r) = Live \ {p}
              /\ Ascending(r)
    BY TimerDeleted
  <1> DEFINE l == DelTimer(timers, p)
  <1>2. DelTimer(list, p) = l
    BY <1>1
  <1>3. timers' = [l EXCEPT !.prev[p] = Null, !.next[p] = Null]
    BY <1>2 DEF FreeQueue
  <1>4. p \in Ptr /\ queues \in [Ptr -> OrNull(Ipq)] /\ queues' = [queues EXCEPT ![p] = Null]
    BY DEF Live, Tables, FreeQueue
  <1>5. Live' = Live \ {p} /\ \A x \in Live' : queues'[x] = queues[x]
    BY <1>4 DEF Live
  <1>6. l \in Timers /\ Chain(l, r) /\ p \notin ToSet(r)
    BY <1>1
  <1> HIDE DEF l
  <1>7. Chain(timers', r)
    BY <1>3, <1>4, <1>6, ForgetLinks
  <1>8. \A i \in 1 .. Len(r) : r[i] \in Live'
    BY <1>1, <1>5 DEF ToSet
  <1>9. Ascending(r)'
    BY <1>1, <1>5, <1>8 DEF Ascending
  <1> QED BY <1>1, <1>5, <1>7, <1>9 DEF TimersInOrder

\* A timer that is armed goes behind the others and expires after them.
LEMMA ArmedInOrder ==
    ASSUME NEW list \in Timers, NEW r \in Seq(Ptr), Chain(list, r), Ascending(r),
           NEW p \in Ptr, p \notin ToSet(r), timers' = AddTimer(list, p),
           Live' = ToSet(r) \cup {p},
           \A x \in ToSet(r) : queues'[x] = queues[x] /\ queues[x].expires <= queues'[p].expires,
           queues'[p].expires \in Int
    PROVE  TimersInOrder'
  <1> DEFINE s == Append(r, p)
  <1>1. Chain(timers', s) /\ ToSet(s) = Live'
    BY AddTimerChain
  <1>2. /\ s \in Seq(Ptr) /\ Len(s) = Len(r) + 1 /\ s[Len(r) + 1] = p
        /\ \A i \in 1 .. Len(r) : s[i] = r[i] /\ r[i] \in ToSet(r)
    BY DEF ToSet
  <1> HIDE DEF s
  <1>3. Ascending(s)'
    <2> SUFFICES ASSUME NEW i \in 1 .. Len(s), NEW j \in 1 .. Len(s), i < j
                 PROVE  queues'[s[i]].expires <= queues'[s[j]].expires
      BY DEF Ascending
    <2>1. i \in 1 .. Len(r) /\ queues'[s[i]] = queues[r[i]]
      BY <1>2
    <2>2. CASE j = Len(r) + 1
      BY <1>2, <2>1, <2>2
    <2>3. CASE j # Len(r) + 1
      <3>1. j \in 1 .. Len(r) /\ queues'[s[j]] = queues[r[j]]
        BY <1>2, <2>3
      <3> QED BY <2>1, <3>1 DEF Ascending
    <2> QED BY <2>2, <2>3
  <1> QED BY <1>1, <1>2, <1>3 DEF TimersInOrder

LEMMA TouchedIs ==
    ASSUME Remember, NEW p \in Ptr, queues'[p] # Null
    PROVE  history'[p].touched = IF Touched(p) THEN clock ELSE history[p].touched
  BY DEF Remember, HistStep

\* A step that arms no timer.
LEMMA OldTimersStay ==
    ASSUME Lifetimes, Remember, clock' = clock, timenow' = timenow, TimersInOrder',
           Live' \subseteq Live,
           \A x \in Live' : queues'[x].expires = queues[x].expires /\ ~Touched(x),
           pc' \in {"evict", "find", "insert"} =>
               \A x \in Live' : clock <= queues[x].expires
    PROVE  Lifetimes'
  <1>1. \A x \in Live' : x \in Ptr /\ queues'[x] # Null
    BY DEF Live
  <1>2. \A x \in Live' : history'[x].touched = history[x].touched
    BY <1>1, TouchedIs
  <1>3. Armed' /\ NoneDue'
    BY <1>2 DEF Lifetimes, Armed, NoneDue
  <1> QED BY <1>3 DEF Lifetimes

\* A step that arms the timer of p.
LEMMA NewTimerRuns ==
    ASSUME NoWrap, IInv, Lifetimes, Remember, pc = "find", clock' = clock, timenow' = timenow,
           TimersInOrder', NEW p \in Ptr, Live' = Live \cup {p},
           Touched(p), queues'[p].expires = Expiry,
           \A x \in Live : x # p => queues'[x] = queues[x] /\ ~Touched(x)
    PROVE  Lifetimes'
  <1>1. clock \in 0 .. MaxTime /\ timenow = clock /\ Armed /\ NoneDue
    BY DEF IInv, Registers, Lifetimes
  <1>2. Expiry = clock + FragTime
    BY <1>1, JiffiesIs, IpAssumption DEF Expiry
  <1>3. history'[p].touched = clock
    BY TouchedIs DEF Live
  <1>4. \A x \in Live : x # p => history'[x].touched = history[x].touched
    BY TouchedIs DEF Live
  <1>5. Armed'
    BY <1>1, <1>2, <1>3, <1>4 DEF Armed
  <1>6. NoneDue'
    BY <1>1, <1>2, IpAssumption DEF NoneDue
  <1> QED BY <1>1, <1>5, <1>6 DEF Lifetimes

\* What is to show of each step.
LEMMA SameInOrder ==
    ASSUME TimersInOrder, timers' = timers, Live' = Live,
           \A x \in Live : queues'[x].expires = queues[x].expires
    PROVE  TimersInOrder'
  <1>1. PICK s \in Seq(Ptr) : Chain(timers, s) /\ ToSet(s) = Live /\ Ascending(s)
    BY DEF TimersInOrder
  <1>2. \A i \in 1 .. Len(s) : s[i] \in Live
    BY <1>1 DEF ToSet
  <1>3. Ascending(s)'
    BY <1>1, <1>2 DEF Ascending
  <1> QED BY <1>1, <1>3 DEF TimersInOrder

\* The first timer is not due, and the others expire after it.
LEMMA NoneIsDue ==
    ASSUME IInv, Lifetimes, ~Due, NEW p \in Live
    PROVE  clock <= queues[p].expires
  <1>1. PICK s \in Seq(Ptr) : Chain(timers, s) /\ ToSet(s) = Live /\ Ascending(s)
    BY DEF Lifetimes, TimersInOrder
  <1>2. PICK i \in 1 .. Len(s) : s[i] = p
    BY <1>1 DEF ToSet
  <1>3. timers.head = s[1] /\ s[1] \in Live /\ 1 \in 1 .. Len(s)
    BY <1>1, <1>2 DEF Chain, ToSet
  <1>4. timers.head # Null
    BY <1>3, NullIsNoPtr DEF Live
  <1>5. queues[s[1]].expires \in Int /\ queues[p].expires \in Int /\ clock \in Int
    <2>1. queues[s[1]] \in Ipq /\ queues[p] \in Ipq /\ clock \in 0 .. MaxTime
      BY <1>3, LiveIs DEF IInv, Parts, Registers
    <2> QED BY <2>1 DEF Ipq
  <1>6. timenow <= queues[s[1]].expires
    BY <1>3, <1>4, <1>5 DEF Due, Lifetimes
  <1>7. queues[s[1]].expires <= queues[p].expires
    BY <1>1, <1>2, <1>3, <1>5 DEF Ascending
  <1> QED BY <1>5, <1>6, <1>7 DEF Lifetimes

LEMMA InsertedIsQueue ==
    ASSUME IInv, pc = "insert"
    PROVE  Inserted(queues[qp]) # Null
  <1>1. packet \in Packet /\ qp \in Live
    BY PacketKey DEF IInv, Calling
  <1>2. queues[qp] \in Ipq /\ Apart(queues[qp].fragments)
    BY <1>1, LiveIs DEF IInv, Parts, AllApart
  <1> QED BY <1>1, <1>2, InsertedIs, IpAssumption

LEMMA StepKeepsLifetimes ==
    ASSUME NoWrap, IInv, Lifetimes, Remember, Next
    PROVE  Lifetimes'
  <1>a. Tables /\ TimersInOrder /\ Armed /\ NoneDue /\ timenow = clock /\ clock \in 0 .. MaxTime
    BY DEF IInv, Parts, Registers, Lifetimes
  <1>1. ASSUME NEW p \in Packets, NEW t \in clock .. MaxTime, Arrive(p, t) PROVE Lifetimes'
    <2>1. /\ UNCHANGED <<queues, timers>> /\ clock' = t /\ timenow' = Jiffies(t)
          /\ pc = "idle" /\ pc' = "expire"
      BY <1>1 DEF Arrive
    <2>2. Live' = Live /\ timenow' = clock'
      BY <1>a, <2>1, JiffiesIs, IpAssumption DEF Live
    <2>3. TimersInOrder'
      BY <1>a, <2>1, <2>2, SameInOrder
    <2>4. \A x \in Live : history'[x].touched = history[x].touched
      BY <2>1, TouchedIs DEF Touched, Live
    <2>5. Armed'
      BY <1>a, <2>1, <2>2, <2>4 DEF Armed
    <2> QED BY <2>1, <2>2, <2>3, <2>5 DEF Lifetimes, NoneDue
  <1>2. ASSUME ExpireTimer PROVE Lifetimes'
    <2>1. timers.head \in Live
      BY <1>2, HeadIsLive DEF IInv, Parts, ExpireTimer, Due
    <2>2. pc = "expire" /\ pc' = "expire" /\ clock' = clock /\ timenow' = timenow
      BY <1>2 DEF ExpireTimer
    <2>3. TimersInOrder' /\ Live' \subseteq Live /\ \A x \in Live' : queues'[x] = queues[x]
      BY <1>a, <1>2, <2>1, FreedInOrder DEF ExpireTimer
    <2> QED BY <2>2, <2>3, OldTimersStay DEF Touched
  <1>3. ASSUME FindHost PROVE Lifetimes'
    <2>1. /\ UNCHANGED <<queues, timers, clock, timenow>>
          /\ pc = "expire" /\ pc' \in {"evict", "find"} /\ ~Due
      BY <1>3 DEF FindHost
    <2>2. Live' = Live
      BY <2>1 DEF Live
    <2>3. TimersInOrder'
      BY <1>a, <2>1, <2>2, SameInOrder
    <2> QED BY <2>1, <2>2, <2>3, NoneIsDue, OldTimersStay DEF Touched
  <1>4. ASSUME EvictQueue PROVE Lifetimes'
    <2> DEFINE p == Head(fragtable[this_host].ipqueue)
    <2>1. p \in Live
      <3>1. this_host \in Dst /\ fragtable[this_host] # Null
        BY <1>4, InUse DEF EvictQueue, MustEvict
      <3>2. fragtable[this_host].ipqueue \in Seq(Live) /\ fragtable[this_host].ipqueue # <<>>
        BY <1>4, <3>1, ListIs DEF IInv, Parts, EvictQueue
      <3> QED BY <3>2
    <2>2. /\ pc = "evict" /\ pc' = "evict" /\ clock' = clock /\ timenow' = timenow
          /\ FreeQueue(p, this_host, timers)
      BY <1>4 DEF EvictQueue
    <2> HIDE DEF p
    <2>3. TimersInOrder' /\ Live' \subseteq Live /\ \A x \in Live' : queues'[x] = queues[x]
      BY <1>a, <2>1, <2>2, FreedInOrder
    <2>4. \A x \in Live : clock <= queues[x].expires
      BY <1>a, <2>2 DEF NoneDue
    <2> QED BY <2>2, <2>3, <2>4, OldTimersStay DEF Touched
  <1>5. ASSUME Evicted PROVE Lifetimes'
    <2>1. UNCHANGED <<queues, timers, clock, timenow>> /\ pc = "evict"
      BY <1>5 DEF Evicted
    <2>2. Live' = Live
      BY <2>1 DEF Live
    <2>3. TimersInOrder'
      BY <1>a, <2>1, <2>2, SameInOrder
    <2>4. \A x \in Live : clock <= queues[x].expires
      BY <1>a, <2>1 DEF NoneDue
    <2> QED BY <2>1, <2>2, <2>3, <2>4, OldTimersStay DEF Touched
  <1>6. ASSUME PassWhole PROVE Lifetimes'
    <2>1. pc = "find" /\ pc' = "idle" /\ UNCHANGED <<clock, timenow>>
      BY <1>6 DEF PassWhole, Return
    <2>2. CASE Matching # {}
      <3>1. Found \in Live
        BY <2>1, <2>2, FoundIs
      <3>2. /\ TimersInOrder' /\ Live' = Live \ {Found}
            /\ \A x \in Live' : queues'[x] = queues[x]
        BY <1>a, <1>6, <2>2, <3>1, FreedInOrder DEF PassWhole
      <3>3. \A x \in Live' : KeyAt(x) # KeyOf(packet)
        <4>1. KeyAt(Found) = KeyOf(packet)
          BY <2>1, <2>2, FoundIs DEF KeyAt, KeyOf
        <4> QED BY <3>1, <3>2, <4>1, OneQueue
      <3>4. \A x \in Live' : ~Touched(x)
        BY <3>2, <3>3 DEF Touched, KeyAt, KeyOf
      <3> QED BY <2>1, <3>2, <3>4, OldTimersStay
    <2>3. CASE Matching = {}
      <3>1. queues' = queues /\ timers' = timers
        BY <1>6, <2>3 DEF PassWhole
      <3>2. Live' = Live
        BY <3>1 DEF Live
      <3>3. \A x \in Live : ~Touched(x)
        BY <2>1, <2>3, <3>1, NoMatch DEF Touched, KeyAt, KeyOf
      <3>4. TimersInOrder'
        BY <1>a, <3>1, <3>2, SameInOrder
      <3> QED BY <2>1, <3>1, <3>2, <3>3, <3>4, OldTimersStay
    <2> QED BY <2>2, <2>3
  <1>7. ASSUME RefreshQueue PROVE Lifetimes'
    <2> DEFINE p == Found
    <2>1. /\ pc = "find" /\ UNCHANGED <<clock, timenow>>
          /\ timers' = AddTimer(DelTimer(DelTimer(timers, p), p), p)
      BY <1>7 DEF RefreshQueue
    <2>2. p \in Live /\ queues[p].iph.id = packet.id /\ queues[p].iph.dst = packet.dst
      BY <1>7, FoundIs DEF RefreshQueue
    <2>3. PICK q \in Ipq : /\ queues' = [queues EXCEPT ![p] = q]
                           /\ q.iph = IF packet.offset = 0 THEN packet ELSE queues[p].iph
      BY <1>7, RefreshedIs
    <2>4. p \in Ptr /\ queues[p] \in Ipq /\ queues \in [Ptr -> OrNull(Ipq)]
      BY <1>a, <2>2, LiveIs DEF Tables
    <2>5. queues'[p].expires = Expiry
      BY <1>7, <2>4 DEF RefreshQueue, Ipq
    <2> HIDE DEF p
    <2>6. queues'[p] = q /\ q # Null /\ \A x \in Ptr : x # p => queues'[x] = queues[x]
      BY <2>3, <2>4, IpAssumption
    <2>7. Live' = Live
      BY <2>2, <2>6 DEF Live
    <2>8. \A x \in Live : x # p => KeyAt(x) # KeyAt(p)
      BY <2>2, OneQueue
    <2>9. KeyAt(p) = KeyOf(packet) /\ Touched(p)
      BY <2>1, <2>2, <2>3, <2>6 DEF KeyAt, KeyOf, Touched
    <2>10. \A x \in Live : x # p => queues'[x] = queues[x] /\ ~Touched(x)
      BY <2>6, <2>8, <2>9 DEF Touched, KeyAt, KeyOf, Live
    <2>11. Expiry = clock + FragTime
      BY <1>a, JiffiesIs, IpAssumption DEF Expiry
    <2>12. \A x \in Live : queues[x].expires <= Expiry
      BY <1>a, <2>11, IpAssumption DEF Armed
    <2>13. TimersInOrder'
      <3>1. PICK r \in Seq(Ptr) :
              /\ DelTimer(timers, p) \in Timers
              /\ DelTimer(DelTimer(timers, p), p) = DelTimer(timers, p)
              /\ Chain(DelTimer(timers, p), r)
              /\ ToSet(r) = Live \ {p}
              /\ Ascending(r)
        BY <1>a, <2>2, TimerDeleted
      <3> DEFINE list == DelTimer(timers, p)
      <3>2. /\ list \in Timers /\ Chain(list, r) /\ timers' = AddTimer(list, p)
            /\ p \notin ToSet(r) /\ Live' = ToSet(r) \cup {p}
        BY <2>1, <2>2, <2>7, <3>1
      <3> HIDE DEF list
      <3>3. Expiry \in Int
        BY <1>a, <2>11, IpAssumption
      <3> QED BY <2>4, <2>5, <2>10, <2>12, <3>1, <3>2, <3>3, ArmedInOrder
    <2> QED BY <2>1, <2>2, <2>4, <2>5, <2>7, <2>9, <2>10, <2>13, NewTimerRuns
  <1>8. ASSUME NEW p \in Ptr, CreateQueue(p) PROVE Lifetimes'
    <2>1. /\ pc = "find" /\ UNCHANGED <<clock, timenow>> /\ Matching = {}
          /\ queues[p] = Null /\ queues' = [queues EXCEPT ![p] = NewIpq]
          /\ timers' = AddTimer(timers, p)
      BY <1>8 DEF CreateQueue
    <2>2. NewIpq # Null /\ NewIpq.iph = packet /\ NewIpq.expires = Expiry
      BY <2>1, PacketKey, CreatedIs DEF IInv, NewIpq
    <2>3. queues \in [Ptr -> OrNull(Ipq)] /\ timers \in Timers
      BY <1>a DEF Tables
    <2>4. queues'[p] = NewIpq /\ \A x \in Ptr : x # p => queues'[x] = queues[x]
      BY <2>1, <2>3
    <2>5. Live' = Live \cup {p} /\ p \notin Live
      BY <2>1, <2>2, <2>4 DEF Live
    <2>6. Touched(p) /\ queues'[p].expires = Expiry
      BY <2>1, <2>2, <2>4 DEF Touched
    <2>7. \A x \in Live : queues'[x] = queues[x] /\ ~Touched(x)
      BY <2>1, <2>4, <2>5, NoMatch DEF Touched, KeyAt, KeyOf, Live
    <2>8. Expiry = clock + FragTime
      BY <1>a, JiffiesIs, IpAssumption DEF Expiry
    <2>9. \A x \in Live : queues[x].expires <= Expiry
      BY <1>a, <2>8, IpAssumption DEF Armed
    <2>10. TimersInOrder'
      <3>1. PICK s \in Seq(Ptr) : Chain(timers, s) /\ ToSet(s) = Live /\ Ascending(s)
        BY <1>a DEF TimersInOrder
      <3>2. Expiry \in Int
        BY <1>a, <2>8, IpAssumption
      <3> QED BY <2>1, <2>3, <2>5, <2>6, <2>7, <2>9, <3>1, <3>2, ArmedInOrder
    <2> QED BY <2>1, <2>5, <2>6, <2>7, <2>10, NewTimerRuns
  <1>9. ASSUME InsertFragment PROVE Lifetimes'
    <2> DEFINE q == Inserted(queues[qp])
    <2>1. pc = "insert" /\ pc' = "idle" /\ UNCHANGED <<clock, timenow>> /\ qp \in Live
      BY <1>9 DEF InsertFragment, Return, IInv, Calling
    <2>2. \A x \in Ptr : ~Touched(x)
      BY <2>1 DEF Touched
    <2>3. CASE Done(q)
      <3>1. TimersInOrder' /\ Live' = Live \ {qp} /\ \A x \in Live' : queues'[x] = queues[x]
        BY <1>a, <1>9, <2>1, <2>3, FreedInOrder DEF InsertFragment
      <3> QED BY <2>1, <2>2, <3>1, OldTimersStay DEF Live
    <2>4. CASE ~Done(q)
      <3>1. queues' = [queues EXCEPT ![qp] = q] /\ timers' = timers
        BY <1>9, <2>4 DEF InsertFragment
      <3>2. qp \in Ptr /\ queues[qp] \in Ipq /\ queues \in [Ptr -> OrNull(Ipq)]
        BY <1>a, <2>1, LiveIs DEF Tables
      <3>3. q.expires = queues[qp].expires
        BY <3>2 DEF Inserted, Ipq
      <3>4. q # Null
        BY <2>1, InsertedIsQueue DEF IInv
      <3> HIDE DEF q
      <3>5. Live' = Live /\ \A x \in Live : queues'[x].expires = queues[x].expires
        BY <2>1, <3>1, <3>2, <3>3, <3>4 DEF Live
      <3>6. TimersInOrder'
        BY <1>a, <3>1, <3>5, SameInOrder
      <3> QED BY <2>1, <2>2, <3>5, <3>6, OldTimersStay DEF Live
    <2> QED BY <2>3, <2>4
  <1> QED BY <1>1, <1>2, <1>3, <1>4, <1>5, <1>6, <1>7, <1>8, <1>9 DEF Next, Process

\* A datagram is not put together from fragments older than FragTime: when a
\* packet is looked up no queue is there that had none for FragTime
\* (IpFragment.cc:340), as long as the clock, an int, does not wrap.
THEOREM LifetimeKeptHolds ==
    ASSUME NoWrap
    PROVE  HistSpec => []LifetimeKept
  <1>1. HistInit => Lifetimes
    <2> SUFFICES ASSUME HistInit PROVE Lifetimes
      OBVIOUS
    <2>1. Live = {} /\ timenow = clock /\ pc = "idle"
      BY DEF HistInit, Init, Live
    <2>2. TimersInOrder
      <3>1. <<>> \in Seq(Ptr) /\ Len(<<>>) = 0 /\ ToSet(<<>>) = {}
        BY DEF ToSet
      <3>2. Chain(timers, <<>>) /\ Ascending(<<>>)
        BY <3>1 DEF HistInit, Init, Chain, Distinct, Ascending
      <3> QED BY <2>1, <3>1, <3>2 DEF TimersInOrder
    <2> QED BY <2>1, <2>2 DEF Lifetimes, Armed, NoneDue
  <1>2. IInv /\ Lifetimes /\ [HistNext]_histVars => Lifetimes'
    <2> SUFFICES ASSUME IInv, Lifetimes, [HistNext]_histVars PROVE Lifetimes'
      OBVIOUS
    <2>1. CASE HistNext
      BY <2>1, StepKeepsLifetimes DEF HistNext, Remember
    <2>2. CASE UNCHANGED histVars
      <3>1. UNCHANGED <<queues, timers, clock, timenow, pc, history>>
        BY <2>2 DEF histVars, vars
      <3>2. Live' = Live
        BY <3>1 DEF Live
      <3>3. TimersInOrder'
        BY <3>1, <3>2, SameInOrder DEF Lifetimes
      <3> QED BY <3>1, <3>2, <3>3 DEF Lifetimes, Armed, NoneDue
    <2> QED BY <2>1, <2>2
  <1>3. IInv /\ Lifetimes => LifetimeKept
    BY DEF IInv, Registers, Lifetimes, Armed, NoneDue, LifetimeKept
  <1>4. HistSpec => Spec
    BY HistSpecIsSpec
  <1> QED BY <1>1, <1>2, <1>3, <1>4, Invariant, PTL DEF HistSpec

----------------------------------------------------------------------------
(***************************************************************************)
(* A complete datagram is delivered.                                       *)
(***************************************************************************)
\* Every byte of a packet in R is held by a fragment of fr.
AllHeld(fr, R) == \A f \in R, x \in Int :
    f.offset <= x /\ x < f.offset + f.len => \E i \in 1 .. Len(fr) : Holds(fr[i], x)

\* A queue knows that it was given a final fragment, which is never empty at
\* offset 0, and its ihlen is that of its header.
Remembers(q, R) ==
    /\ AllHeld(q.fragments, R)
    /\ \A f \in R : IsFragment(f) /\ (~f.mf => q.len # 0)
    /\ q.ihlen = q.iph.ihl

\* A packet that is to be inserted is a fragment.
Fitting == pc = "insert" => IsFragment(packet)

Retained ==
    /\ \A p \in Live : Remembers(queues[p], Received(p))
    /\ Fitting

\* A step after which the queues outside S are those there were.
OnlyIn(S) == \A x \in Live' : x \notin S =>
    x \in Live /\ queues'[x] = queues[x] /\ ~(pc = "insert" /\ x = qp)

AllRemember(S) == \A x \in S : Remembers(queues'[x], Received(x)')

LEMMA StaysRetained ==
    ASSUME Retained, Remember, Fitting', NEW S, OnlyIn(S), AllRemember(S)
    PROVE  Retained'
  <1>1. ASSUME NEW x \in Live' PROVE Remembers(queues'[x], Received(x)')
    <2>1. CASE x \in S
      BY <2>1 DEF AllRemember
    <2>2. CASE x \notin S
      <3>1. /\ x \in Live /\ x \in Ptr /\ queues'[x] = queues[x] /\ queues'[x] # Null
            /\ ~(pc = "insert" /\ x = qp)
        BY <2>2 DEF Live, OnlyIn
      <3>2. Received(x)' = Received(x)
        BY <3>1, ReceivedIs
      <3> QED BY <3>1, <3>2 DEF Retained
    <2> QED BY <2>1, <2>2
  <1> QED BY <1>1 DEF Retained, Fitting

LEMMA FreedRetained ==
    ASSUME Tables, Retained, Remember, NEW p \in Live, queues' = [queues EXCEPT ![p] = Null],
           pc = "insert" => p = qp, pc' # "insert"
    PROVE  Retained'
  <1>1. p \in Ptr /\ queues \in [Ptr -> OrNull(Ipq)]
    BY DEF Live, Tables
  <1>2. queues'[p] = Null /\ \A x \in Ptr : x # p => queues'[x] = queues[x]
    BY <1>1
  <1>3. OnlyIn({}) /\ AllRemember({}) /\ Fitting'
    BY <1>2 DEF Live, OnlyIn, AllRemember, Fitting
  <1> QED BY <1>3, StaysRetained

LEMMA SameRetained ==
    ASSUME Retained, Remember, queues' = queues, pc # "insert", pc' # "insert"
    PROVE  Retained'
  <1>1. OnlyIn({}) /\ AllRemember({}) /\ Fitting'
    BY DEF Live, OnlyIn, AllRemember, Fitting
  <1> QED BY <1>1, StaysRetained

LEMMA InsertedRemembers ==
    ASSUME packet \in Packet, IsFragment(packet), NEW q \in Ipq, Apart(q.fragments),
           NEW R, Remembers(q, R)
    PROVE  Remembers(Inserted(q), R \cup {packet})
  <1> DEFINE u == Inserted(q)
             new == u.fragments
  <1>1. /\ u.iph = q.iph /\ u.ihlen = q.ihlen
        /\ u.len = IF packet.mf THEN q.len ELSE packet.offset + packet.len
        /\ HoldsAsMuch(new, q.fragments)
    BY InsertedIs
  <1> HIDE DEF u
  <1>2. AllHeld(new, R \cup {packet})
    <2> SUFFICES ASSUME NEW f \in R \cup {packet}, NEW x \in Int,
                        f.offset <= x, x < f.offset + f.len
                 PROVE  \E i \in 1 .. Len(new) : Holds(new[i], x)
      BY DEF AllHeld
    <2>1. CASE f = packet
      BY <1>1, <2>1 DEF HoldsAsMuch
    <2>2. CASE f \in R
      <3>1. \E j \in 1 .. Len(q.fragments) : Holds(q.fragments[j], x)
        BY <2>2 DEF Remembers, AllHeld
      <3> QED BY <1>1, <3>1 DEF HoldsAsMuch
    <2> QED BY <2>1, <2>2
  <1>3. ASSUME NEW f \in R \cup {packet} PROVE IsFragment(f) /\ (~f.mf => u.len # 0)
    <2>1. ~packet.mf => packet.offset + packet.len # 0
      BY DEF IsFragment, Packet
    <2>2. CASE f = packet
      BY <1>1, <2>1, <2>2
    <2>3. CASE f \in R
      BY <1>1, <2>1, <2>3 DEF Remembers
    <2> QED BY <2>2, <2>3
  <1> QED BY <1>1, <1>2, <1>3 DEF Remembers, u

LEMMA StepRetains ==
    ASSUME IInv, HInv, Retained, Remember, Next
    PROVE  Retained'
  <1>a. Tables
    BY DEF IInv, Parts
  <1>1. ASSUME NEW p \in Packets, NEW t, Arrive(p, t) PROVE Retained'
    BY <1>1, SameRetained DEF Arrive
  <1>2. ASSUME ExpireTimer PROVE Retained'
    <2>1. timers.head \in Live
      BY <1>2, HeadIsLive DEF IInv, Parts, ExpireTimer, Due
    <2> QED BY <1>a, <1>2, <2>1, FreedRetained DEF ExpireTimer, FreeQueue
  <1>3. ASSUME FindHost PROVE Retained'
    BY <1>3, SameRetained DEF FindHost
  <1>4. ASSUME EvictQueue PROVE Retained'
    <2> DEFINE L == fragtable[this_host].ipqueue
    <2>1. this_host \in Dst /\ fragtable[this_host] # Null
      BY <1>4, InUse DEF EvictQueue, MustEvict
    <2>2. L \in Seq(Live) /\ L # <<>>
      BY <1>4, <2>1, ListIs DEF IInv, Parts, EvictQueue
    <2>3. Head(L) \in Live
      BY <2>2
    <2> QED BY <1>a, <1>4, <2>3, FreedRetained DEF EvictQueue, FreeQueue
  <1>5. ASSUME Evicted PROVE Retained'
    BY <1>5, SameRetained DEF Evicted
  <1>6. ASSUME PassWhole PROVE Retained'
    <2>1. pc = "find" /\ pc' = "idle"
      BY <1>6 DEF PassWhole, Return
    <2>2. CASE Matching = {}
      BY <1>6, <2>1, <2>2, SameRetained DEF PassWhole
    <2>3. CASE Matching # {}
      <3>1. Found \in Live
        BY <2>1, <2>3, FoundIs
      <3>2. queues' = [queues EXCEPT ![Found] = Null]
        BY <1>6, <2>3 DEF PassWhole, FreeQueue
      <3> QED BY <1>a, <2>1, <3>1, <3>2, FreedRetained
    <2> QED BY <2>2, <2>3
  <1>7. ASSUME RefreshQueue PROVE Retained'
    <2>1. PICK p \in Live : p = Found
      BY <1>7, FoundIs DEF RefreshQueue
    <2>2. pc = "find" /\ ProceedWith(p) /\ IsFragment(packet)
      BY <1>7, <2>1 DEF RefreshQueue
    <2>3. PICK q \in Ipq :
              /\ queues' = [queues EXCEPT ![p] = q]
              /\ q.len = queues[p].len
              /\ q.fragments = queues[p].fragments
              /\ q.iph = IF packet.offset = 0 THEN packet ELSE queues[p].iph
              /\ q.ihlen = IF packet.offset = 0 THEN packet.ihl ELSE queues[p].ihlen
      BY <1>7, <2>1, RefreshedIs
    <2>4. q # Null /\ p \in Ptr /\ queues'[p] = q /\ \A x \in Ptr : x # p => queues'[x] = queues[x]
      BY <1>a, <2>1, <2>3, IpAssumption DEF Live, Tables
    <2>5. OnlyIn({p})
      BY <2>2, <2>4 DEF Live, OnlyIn
    <2>6. Received(p)' = Received(p)
      BY <2>2, <2>4, ReceivedIs
    <2>7. Remembers(queues[p], Received(p))
      BY DEF Retained
    <2>8. AllRemember({p})
      BY <2>3, <2>4, <2>6, <2>7 DEF Remembers, AllRemember
    <2>9. Fitting'
      BY <2>2, Proceeds DEF Fitting
    <2> QED BY <2>5, <2>8, <2>9, StaysRetained
  <1>8. ASSUME NEW p \in Ptr, CreateQueue(p) PROVE Retained'
    <2> DEFINE q == NewIpq
    <2>1. pc = "find" /\ ProceedWith(p) /\ IsFragment(packet) /\ queues[p] = Null
      BY <1>8 DEF CreateQueue
    <2>2. packet \in Packet /\ Registers
      BY <2>1, PacketKey DEF IInv
    <2>3. q # Null /\ q.iph = packet /\ q.fragments = <<>> /\ q.len = 0 /\ q.ihlen = packet.ihl
      BY <2>2, CreatedIs
    <2>4. queues' = [queues EXCEPT ![p] = q]
      BY <1>8 DEF CreateQueue
    <2> HIDE DEF q
    <2>5. queues'[p] = q /\ \A x \in Ptr : x # p => queues'[x] = queues[x]
      BY <1>a, <2>4 DEF Tables
    <2>6. OnlyIn({p})
      BY <2>1, <2>5 DEF Live, OnlyIn
    <2>7. Received(p) = {}
      BY <2>1 DEF HInv, Records
    <2>8. Received(p)' = {}
      BY <2>1, <2>3, <2>5, <2>7, ReceivedIs
    <2>9. Remembers(q, {})
      BY <2>3 DEF Remembers, AllHeld
    <2>10. AllRemember({p})
      BY <2>5, <2>8, <2>9 DEF AllRemember
    <2>11. Fitting'
      BY <2>1, Proceeds DEF Fitting
    <2> QED BY <2>6, <2>10, <2>11, StaysRetained
  <1>9. ASSUME InsertFragment PROVE Retained'
    <2>1. pc = "insert" /\ pc' = "idle"
      BY <1>9 DEF InsertFragment, Return
    <2>2. PICK p \in Live : p = qp
      BY <2>1 DEF IInv, Calling
    <2> DEFINE q == Inserted(queues[p])
    <2>3. packet \in Packet /\ queues[p] \in Ipq /\ Apart(queues[p].fragments) /\ p \in Ptr
      BY <2>1, PacketKey, LiveIs DEF IInv, Parts, AllApart
    <2>4. CASE Done(q)
      BY <1>a, <1>9, <2>1, <2>2, <2>4, FreedRetained DEF InsertFragment, FreeQueue
    <2>5. CASE ~Done(q)
      <3>1. queues' = [queues EXCEPT ![p] = q]
        BY <1>9, <2>2, <2>5 DEF InsertFragment
      <3>2. q # Null
        BY <2>1, <2>2, InsertedIsQueue
      <3>3. Remembers(q, Received(p) \cup {packet})
        BY <2>1, <2>3, InsertedRemembers DEF Retained, Fitting
      <3> HIDE DEF q
      <3>4. queues'[p] = q /\ \A x \in Ptr : x # p => queues'[x] = queues[x]
        BY <1>a, <2>3, <3>1 DEF Tables
      <3>5. OnlyIn({p}) /\ Fitting'
        BY <2>1, <2>2, <3>4 DEF Live, OnlyIn, Fitting
      <3>6. Received(p)' = Received(p) \cup {packet}
        BY <2>1, <2>2, <2>3, <3>2, <3>4, ReceivedIs
      <3>7. AllRemember({p})
        BY <3>3, <3>4, <3>6 DEF AllRemember
      <3> QED BY <3>5, <3>7, StaysRetained
    <2> QED BY <2>4, <2>5
  <1> QED BY <1>1, <1>2, <1>3, <1>4, <1>5, <1>6, <1>7, <1>8, <1>9 DEF Next, Process

\* ipDone and ipGlue, of a queue that was given all of a datagram.
LEMMA CompleteIsGlued ==
    ASSUME NEW q \in Ipq, NEW R, R \subseteq Packet, Apart(q.fragments),
           FromReceived(q, R), LengthReceived(q, R), HeaderReceived(q, R, {}),
           Remembers(q, R), Complete(R), ~Short(q)
    PROVE  Done(q) /\ ~GlueFails(q)
  <1> DEFINE fr == q.fragments
             n == Len(fr)
             L == q.len
  <1>1. fr \in Seq(IpFrag) /\ n \in Nat /\ DOMAIN fr = 1 .. n /\ L \in Nat /\ MaxLen \in Nat
    BY IpAssumption DEF Ipq
  <1>2. \A f \in R : f.offset \in Nat /\ f.len \in Nat /\ f.ihl \in Nat
    BY DEF Packet
  <1>3. PICK last \in R : LET total == last.offset + last.len IN
            /\ ~last.mf
            /\ \A f \in R : /\ f.offset + f.len <= total
                            /\ f.mf \/ f.offset + f.len = total
                            /\ f.offset = 0 => f.ihl + total <= MaxLen
            /\ UNION {Bytes(f) : f \in R} = 0 .. total - 1
    BY Zenon DEF Complete
  <1>4. L # 0
    BY <1>3 DEF Remembers
  <1>5. last.offset + last.len = L
    BY <1>2, <1>3, <1>4 DEF LengthReceived
  <1>6. ASSUME NEW f \in R
        PROVE  f.offset + f.len <= L /\ (f.offset = 0 => f.ihl + L <= MaxLen)
    BY <1>3, <1>5
  <1>7. ASSUME NEW x \in 0 .. L - 1
        PROVE  \E f \in R : f.offset <= x /\ x < f.offset + f.len
    <2>1. UNION {Bytes(f) : f \in R} = 0 .. L - 1
      BY <1>3, <1>5, Zenon
    <2>2. PICK f \in R : x \in Bytes(f)
      BY <2>1, Zenon
    <2> QED BY <1>2, <2>2 DEF Bytes
  <1>8. ASSUME NEW x \in 0 .. L - 1 PROVE \E i \in 1 .. n : Holds(fr[i], x)
    <2>1. x \in Int
      OBVIOUS
    <2> QED BY <1>7, <2>1 DEF Remembers, AllHeld
  <1>9. ASSUME NEW i \in 1 .. n
        PROVE  /\ fr[i].offset \in Nat /\ fr[i].end \in Nat
               /\ fr[i].offset <= fr[i].end /\ fr[i].end <= L
    <2>1. fr[i] \in IpFrag
      BY <1>1, ElementOfSeq
    <2>2. fr[i].offset \in Nat /\ fr[i].end \in Nat
      BY <2>1 DEF IpFrag
    <2>3. ~(fr[i].end < fr[i].offset)
      BY <1>1 DEF Short
    <2>4. fr[i].skb \in R /\ fr[i].end = fr[i].skb.offset + fr[i].skb.len
      BY DEF FromReceived, Apart
    <2>5. fr[i].end <= L
      BY <1>6, <2>4
    <2> QED BY <2>2, <2>3, <2>5
  <1>10. ASSUME NEW i \in 1 .. n, NEW j \in i + 1 .. n
         PROVE  fr[i].end <= fr[j].offset /\ fr[i].offset <= fr[j].offset
    BY DEF Apart
  <1> HIDE DEF fr, n, L
  <1>11. ASSUME NEW i \in 1 .. n PROVE fr[i].offset <= IF i = 1 THEN 0 ELSE fr[i - 1].end
    <2> DEFINE x == IF i = 1 THEN 0 ELSE fr[i - 1].end
    <2>1. x \in Nat /\ (i # 1 => i - 1 \in 1 .. n /\ x = fr[i - 1].end /\ i \in (i - 1) + 1 .. n)
      BY <1>1, <1>9
    <2> HIDE DEF x
    <2> SUFFICES ASSUME x < fr[i].offset PROVE FALSE
      BY <1>9, <2>1 DEF x
    <2>2. x \in 0 .. L - 1
      <3>1. /\ fr[i].offset \in Nat /\ fr[i].end \in Nat /\ L \in Nat /\ x \in Nat
            /\ fr[i].offset <= fr[i].end /\ fr[i].end <= L
        BY <1>1, <1>9, <2>1
      <3>2. x < L
        BY <3>1
      <3> QED BY <3>1, <3>2
    <2>3. PICK j \in 1 .. n : Holds(fr[j], x)
      BY <1>8, <2>2
    <2>4. fr[j].offset <= x /\ x < fr[j].end
      BY <2>3 DEF Holds
    <2>5. CASE j \in i .. n
      <3>1. fr[i].offset <= fr[j].offset
        <4>1. CASE j = i
          BY <1>9, <4>1
        <4>2. CASE j # i
          BY <1>1, <1>10, <2>5, <4>2
        <4> QED BY <4>1, <4>2
      <3> QED BY <1>9, <2>1, <2>4, <3>1
    <2>6. CASE j < i
      <3>1. i # 1 /\ i - 1 \in 1 .. n /\ x = fr[i - 1].end
        BY <1>1, <2>1, <2>6
      <3>2. CASE j = i - 1
        BY <1>9, <2>4, <3>1, <3>2
      <3>3. CASE j # i - 1
        <4>1. i - 1 \in j + 1 .. n
          BY <1>1, <2>6, <3>1, <3>3
        <4>2. fr[j].end <= fr[i - 1].offset
          BY <1>10, <4>1
        <4> QED BY <1>9, <2>1, <2>4, <3>1, <4>2
      <3> QED BY <3>2, <3>3
    <2> QED BY <1>1, <2>5, <2>6
  <1>12. Done(q)
    <2>1. \A i \in DOMAIN fr : fr[i].offset <= IF i = 1 THEN 0 ELSE fr[i - 1].end
      BY <1>1, <1>11
    <2> QED BY <1>4, <2>1 DEF Done, fr, L
  <1>13. q.ihlen + L <= MaxLen
    <2>1. 0 \in 0 .. L - 1
      BY <1>1, <1>4
    <2>2. PICK f \in R : f.offset <= 0 /\ 0 < f.offset + f.len
      BY <1>7, <2>1
    <2>3. f.offset = 0
      BY <1>2, <2>2
    <2>4. q.iph.offset = 0 /\ q.iph \in R
      <3>1. q.iph.offset = 0
        BY <2>3 DEF HeaderReceived
      <3> QED BY <3>1 DEF HeaderReceived
    <2>5. q.ihlen = q.iph.ihl
      BY DEF Remembers
    <2> QED BY <1>6, <2>4, <2>5
  <1>14. ~GlueFails(q)
    <2>1. ~(q.ihlen + q.len > MaxLen)
      <3>1. q.ihlen \in Nat
        BY DEF Ipq
      <3> QED BY <1>1, <1>13, <3>1 DEF L
    <2>2. ASSUME NEW i \in DOMAIN fr PROVE ~(fr[i].end < fr[i].offset \/ fr[i].end > L)
      BY <1>1, <1>9
    <2> QED BY <2>1, <2>2 DEF GlueFails, fr, L
  <1> QED BY <1>12, <1>14

\* The call that inserts the fragment that was missing delivers the datagram.
LEMMA StepDelivers ==
    ASSUME IInv, HInv, Retained, [HistNext]_histVars, Completes, ~Short(Inserted(queues[qp])),
           ~UNCHANGED histVars
    PROVE  delivered' # Null
  <1> DEFINE q == Inserted(queues[qp])
             R == Received(qp) \cup {packet}
  <1>1. pc = "insert" /\ Complete(R)
    BY DEF Completes, Received
  <1>2. InsertFragment
    BY <1>1 DEF HistNext, Next, Process, Arrive, ExpireTimer, FindHost, EvictQueue, Evicted,
        PassWhole, RefreshQueue, CreateQueue
  <1>3. PICK p \in Live : p = qp
    BY <1>1 DEF IInv, Calling
  <1>4. /\ packet \in Packets /\ packet \in Packet /\ queues[p] \in Ipq
        /\ Apart(queues[p].fragments)
    BY <1>1, PacketKey, LiveIs DEF IInv, Parts, AllApart
  <1>5. q \in Ipq /\ Apart(q.fragments)
    BY <1>3, <1>4, InsertedIs
  <1>6. Knows(queues[p], Received(p), {packet})
    BY <1>1, <1>3 DEF HInv, Records, Pending
  <1>7. Knows(q, R, {})
    BY <1>3, <1>4, <1>6, InsertedKnows
  <1>8. Remembers(q, R)
    BY <1>1, <1>3, <1>4, InsertedRemembers DEF Retained, Fitting
  <1>9. delivered' = IF Done(q) THEN IF GlueFails(q) THEN Null
                                     ELSE [iph |-> q.iph, fragments |-> q.fragments]
                     ELSE delivered
    BY <1>2 DEF InsertFragment
  <1> HIDE DEF q, R
  <1>10. Done(q) /\ ~GlueFails(q)
    <2>1. R \subseteq Packet
      BY <1>7, IpAssumption DEF Knows
    <2>2. ~Short(q)
      BY DEF q
    <2> QED BY <1>1, <1>5, <1>7, <1>8, <2>1, <2>2, CompleteIsGlued DEF Knows
  <1>11. [iph |-> q.iph, fragments |-> q.fragments] \in Datagram
    BY <1>5 DEF Ipq, Datagram
  <1> QED BY <1>9, <1>10, <1>11, IpAssumption

\* IpFragment.cc:315-319: the fragment that completes a datagram delivers it,
\* in whatever order, how often and with what overlaps the fragments came,
\* unless one of them was trimmed to a negative length.
THEOREM CompleteIsDeliveredHolds == HistSpec => CompleteIsDelivered
  <1>1. HistInit => Retained
    BY DEF HistInit, Init, Live, Retained, Fitting
  <1>2. IInv /\ HInv /\ Retained /\ [HistNext]_histVars => Retained'
    <2> SUFFICES ASSUME IInv, HInv, Retained, [HistNext]_histVars PROVE Retained'
      OBVIOUS
    <2>1. CASE HistNext
      BY <2>1, StepRetains DEF HistNext, Remember
    <2>2. CASE UNCHANGED histVars
      <3>1. UNCHANGED <<queues, packet, pc, history>>
        BY <2>2 DEF histVars, vars
      <3> QED BY <3>1 DEF Retained, Fitting, Live, Received
    <2> QED BY <2>1, <2>2
  <1>3. IInv /\ HInv /\ Retained /\ [HistNext]_histVars =>
            [Completes /\ ~Short(Inserted(queues[qp])) => delivered' # Null]_histVars
    BY StepDelivers
  <1>4. HistSpec => Spec
    BY HistSpecIsSpec
  <1>5. HistInit => HInv
    BY HistInitHolds
  <1>6. IInv /\ IInv' /\ HInv /\ [HistNext]_histVars => HInv'
    BY HistInductive
  <1> QED BY <1>1, <1>2, <1>3, <1>4, <1>5, <1>6, Invariant, PTL DEF HistSpec, CompleteIsDelivered
==============================================================================
