----------------------------- MODULE SumProofs -----------------------------
(***************************************************************************)
(* Induction over the natural numbers, and what the sum of a sequence is.  *)
(***************************************************************************)
EXTENDS Sums, SequenceTheorems, WellFoundedInduction, TLAPS

----------------------------------------------------------------------------
\* Numbers

\* Some number of a set is the least.
LEMMA Least ==
    ASSUME NEW S \in SUBSET Nat, S # {}
    PROVE  \E x \in S : \A y \in S : x <= y
  <1> DEFINE R == OpToRel(<, Nat)
  <1>1. IsWellFoundedOn(R, Nat)
    BY NatLessThanWellFounded
  <1>2. \A x, y \in Nat : x < y => <<x, y>> \in R
    BY DEF OpToRel
  <1> HIDE DEF R
  <1>3. PICK x \in S : \A y \in S : ~ (<<y, x>> \in R)
    BY <1>1, WFMin
  <1>4. ASSUME NEW y \in S PROVE x <= y
    <2>1. x \in Nat /\ y \in Nat
      OBVIOUS
    <2>2. ~(y < x)
      BY <1>2, <1>3, <2>1
    <2> QED BY <2>1, <2>2
  <1> QED BY <1>4

\* A set with 0 and the successors of its members has every number.
LEMMA Induct ==
    ASSUME NEW S, 0 \in S, \A n \in Nat : n \in S => n + 1 \in S
    PROVE  Nat \subseteq S
  <1> SUFFICES ASSUME NEW n \in Nat, n \notin S PROVE FALSE
    OBVIOUS
  <1>1. PICK x \in Nat \ S : \A y \in Nat \ S : x <= y
    <2>1. Nat \ S # {} /\ Nat \ S \in SUBSET Nat
      OBVIOUS
    <2> QED BY <2>1, Least
  <1>2. x # 0 /\ x - 1 \in Nat
    BY <1>1
  <1>3. x - 1 \in S
    BY <1>1, <1>2
  <1>4. (x - 1) + 1 = x
    BY <1>1
  <1> QED BY <1>1, <1>2, <1>3, <1>4

----------------------------------------------------------------------------
\* Sums

\* t[n] is the sum of the first n numbers of s.
Sums(t, s) ==
    /\ t \in [0 .. Len(s) -> Int]
    /\ t[0] = 0
    /\ \A n \in 1 .. Len(s) : t[n] = t[n - 1] + s[n]

LEMMA SumsExist ==
    ASSUME NEW s \in Seq(Int)
    PROVE  \E t : Sums(t, s)
  <1> DEFINE N == Len(s)
             Upto(m) == {t \in [0 .. m -> Int] :
                            t[0] = 0 /\ \A n \in 1 .. m : t[n] = t[n - 1] + s[n]}
             Good == {m \in Nat : m <= N => Upto(m) # {}}
  <1>1. N \in Nat /\ \A n \in 1 .. N : s[n] \in Int
    OBVIOUS
  <1>2. 0 \in Good
    <2>1. [i \in 0 .. 0 |-> 0] \in Upto(0)
      OBVIOUS
    <2> QED BY <2>1
  <1> HIDE DEF N
  <1>3. ASSUME NEW m \in Nat, m \in Good PROVE m + 1 \in Good
    <2> SUFFICES ASSUME m + 1 <= N PROVE Upto(m + 1) # {}
      OBVIOUS
    <2>1. PICK t \in Upto(m) : TRUE
      <3>1. m <= N
        BY <1>1
      <3> HIDE DEF Upto
      <3> QED BY <1>3, <3>1
    <2> DEFINE u == [i \in 0 .. m + 1 |-> IF i <= m THEN t[i] ELSE t[m] + s[m + 1]]
    <2>2. t \in [0 .. m -> Int] /\ t[0] = 0 /\ \A n \in 1 .. m : t[n] = t[n - 1] + s[n]
      BY <2>1
    <2>3. s[m + 1] \in Int /\ t[m] \in Int
      BY <1>1, <2>2
    <2>4. u \in [0 .. m + 1 -> Int]
      BY <2>2, <2>3
    <2>5. u[0] = 0
      BY <2>2
    <2>6. ASSUME NEW n \in 1 .. m + 1 PROVE u[n] = u[n - 1] + s[n]
      <3>1. CASE n <= m
        BY <2>2, <3>1
      <3>2. CASE n = m + 1
        BY <2>2, <3>2
      <3> QED BY <3>1, <3>2
    <2>7. u \in Upto(m + 1)
      BY <2>4, <2>5, <2>6
    <2> QED BY <2>7
  <1>4. N \in Good
    <2> HIDE DEF Good
    <2> QED BY <1>1, <1>2, <1>3, Induct
  <1>5. Upto(N) # {}
    <2> HIDE DEF Upto
    <2> QED BY <1>1, <1>4
  <1> QED BY <1>5 DEF Sums, N

\* The recursive function is what it is defined to be.
LEMMA TotalIs ==
    ASSUME NEW s \in Seq(Int)
    PROVE  \E t : Sums(t, s) /\ Total(s) = t[Len(s)]
  <1> DEFINE body(t) == [n \in 0 .. Len(s) |-> IF n = 0 THEN 0 ELSE t[n - 1] + s[n]]
             t0 == CHOOSE t : t = body(t)
  <1>1. PICK t : Sums(t, s)
    BY SumsExist
  <1>2. t = body(t)
    BY <1>1 DEF Sums
  <1>3. t0 = body(t0)
    BY <1>2
  <1>4. Total(s) = t0[Len(s)]
    BY DEF Total
  <1> HIDE DEF t0
  <1>5. Sums(t0, s)
    <2>1. t0[0] = 0 /\ \A n \in 1 .. Len(s) : t0[n] = t0[n - 1] + s[n]
      BY SMTT(30), <1>3
    <2> DEFINE Good == {n \in Nat : n <= Len(s) => t0[n] \in Int}
    <2>2. 0 \in Good
      BY <2>1
    <2>3. ASSUME NEW n \in Nat, n \in Good PROVE n + 1 \in Good
      <3> SUFFICES ASSUME n + 1 <= Len(s) PROVE t0[n + 1] \in Int
        OBVIOUS
      <3>1. t0[n] \in Int /\ s[n + 1] \in Int
        BY <2>3
      <3>2. t0[n + 1] = t0[n] + s[n + 1]
        BY <2>1
      <3> QED BY <3>1, <3>2
    <2>4. Nat \subseteq Good
      <3> HIDE DEF Good
      <3> QED BY <2>2, <2>3, Induct
    <2>5. \A n \in 0 .. Len(s) : t0[n] \in Int
      BY <2>4
    <2>6. t0 \in [0 .. Len(s) -> Int]
      BY <1>3, <2>5
    <2> QED BY <2>1, <2>6 DEF Sums
  <1> QED BY <1>4, <1>5

LEMMA TotalType ==
    ASSUME NEW s \in Seq(Int)
    PROVE  Total(s) \in Int
  <1>1. PICK t : Sums(t, s) /\ Total(s) = t[Len(s)]
    BY TotalIs
  <1> QED BY <1>1 DEF Sums

LEMMA TotalEmpty ==
    ASSUME NEW s \in Seq(Int), Len(s) = 0
    PROVE  Total(s) = 0
  <1>1. PICK t : Sums(t, s) /\ Total(s) = t[Len(s)]
    BY TotalIs
  <1> QED BY <1>1 DEF Sums

\* Nothing but zeros.
LEMMA TotalZero ==
    ASSUME NEW s \in Seq(Int), \A i \in 1 .. Len(s) : s[i] = 0
    PROVE  Total(s) = 0
  <1>1. PICK t : Sums(t, s) /\ Total(s) = t[Len(s)]
    BY TotalIs
  <1> DEFINE Good == {n \in Nat : n <= Len(s) => t[n] = 0}
  <1>2. 0 \in Good
    BY <1>1 DEF Sums
  <1>3. ASSUME NEW n \in Nat, n \in Good PROVE n + 1 \in Good
    <2> SUFFICES ASSUME n + 1 <= Len(s) PROVE t[n + 1] = 0
      OBVIOUS
    <2>1. n + 1 \in 1 .. Len(s) /\ (n + 1) - 1 = n /\ t[n] = 0
      BY <1>3
    <2>2. t[n + 1] = t[n] + s[n + 1] /\ s[n + 1] = 0
      <3> HIDE DEF Good
      <3> QED BY <1>1, <2>1 DEF Sums
    <2> QED BY <2>1, <2>2
  <1>4. Nat \subseteq Good
    <2> HIDE DEF Good
    <2> QED BY <1>2, <1>3, Induct
  <1>5. Len(s) \in Good
    BY <1>4
  <1> QED BY <1>1, <1>5

\* Sequences that differ at one index.
LEMMA TotalChange ==
    ASSUME NEW s \in Seq(Int), NEW r \in Seq(Int), Len(r) = Len(s),
           NEW k \in 1 .. Len(s),
           \A i \in 1 .. Len(s) : i # k => r[i] = s[i]
    PROVE  Total(r) = Total(s) + r[k] - s[k]
  <1>1. PICK t : Sums(t, s) /\ Total(s) = t[Len(s)]
    BY TotalIs
  <1>2. PICK u : Sums(u, r) /\ Total(r) = u[Len(r)]
    BY TotalIs
  <1> DEFINE Good == {n \in Nat : n <= Len(s) =>
                         u[n] = IF n < k THEN t[n] ELSE t[n] + r[k] - s[k]}
  <1>3. 0 \in Good
    BY <1>1, <1>2 DEF Sums
  <1>4. ASSUME NEW n \in Nat, n \in Good PROVE n + 1 \in Good
    <2> SUFFICES ASSUME n + 1 <= Len(s)
                 PROVE  u[n + 1] = IF n + 1 < k THEN t[n + 1] ELSE t[n + 1] + r[k] - s[k]
      OBVIOUS
    <2>1. t[n + 1] = t[n] + s[n + 1] /\ u[n + 1] = u[n] + r[n + 1]
      BY <1>1, <1>2 DEF Sums
    <2>2. u[n] = IF n < k THEN t[n] ELSE t[n] + r[k] - s[k]
      BY <1>4
    <2>3. t[n] \in Int /\ r[k] \in Int /\ s[k] \in Int /\ s[n + 1] \in Int
      <3>1. t[n] \in Int
        BY <1>1 DEF Sums
      <3>2. k \in 1 .. Len(r) /\ n + 1 \in 1 .. Len(s)
        OBVIOUS
      <3>3. r[k] \in Int /\ s[k] \in Int /\ s[n + 1] \in Int
        BY <3>2, ElementOfSeq
      <3> QED BY <3>1, <3>3
    <2>4. n + 1 # k => r[n + 1] = s[n + 1]
      OBVIOUS
    <2> HIDE DEF Good
    <2> QED BY SMTT(30), <2>1, <2>2, <2>3, <2>4
  <1>5. Nat \subseteq Good
    <2> HIDE DEF Good
    <2> QED BY <1>3, <1>4, Induct
  <1>6. Len(s) \in Good
    BY <1>5
  <1> QED BY <1>1, <1>2, <1>6

\* One element more in front.
LEMMA TotalPrepend ==
    ASSUME NEW s \in Seq(Int), NEW v \in Int
    PROVE  Total(<<v>> \o s) = v + Total(s)
  <1> DEFINE r == <<v>> \o s
  <1>1. r \in Seq(Int) /\ Len(r) = Len(s) + 1 /\ r[1] = v
           /\ \A i \in 1 .. Len(s) : r[i + 1] = s[i]
    OBVIOUS
  <1> HIDE DEF r
  <1>2. PICK t : Sums(t, s) /\ Total(s) = t[Len(s)]
    BY TotalIs
  <1>3. PICK u : Sums(u, r) /\ Total(r) = u[Len(r)]
    BY <1>1, TotalIs
  <1> DEFINE Good == {n \in Nat : n <= Len(s) => u[n + 1] = v + t[n]}
  <1>4. 0 \in Good
    <2>1. u[1] = u[0] + r[1] /\ u[0] = 0 /\ t[0] = 0
      BY <1>1, <1>2, <1>3 DEF Sums
    <2> QED BY <1>1, <2>1
  <1>5. ASSUME NEW n \in Nat, n \in Good PROVE n + 1 \in Good
    <2> SUFFICES ASSUME n + 1 <= Len(s) PROVE u[n + 2] = v + t[n + 1]
      OBVIOUS
    <2>1. t[n + 1] = t[n] + s[n + 1] /\ t[n] \in Int /\ s[n + 1] \in Int
      BY <1>2 DEF Sums
    <2>2. u[n + 2] = u[n + 1] + r[n + 2]
      BY <1>1, <1>3 DEF Sums
    <2>3. r[n + 2] = s[n + 1]
      BY <1>1
    <2>4. u[n + 1] = v + t[n]
      BY <1>5
    <2> HIDE DEF Good
    <2> QED BY <2>1, <2>2, <2>3, <2>4
  <1>6. Nat \subseteq Good
    <2> HIDE DEF Good
    <2> QED BY <1>4, <1>5, Induct
  <1>7. Len(s) \in Good
    BY <1>6
  <1> QED BY <1>1, <1>2, <1>3, <1>7 DEF r

\* One element less.
LEMMA TotalRemove ==
    ASSUME NEW s \in Seq(Int), NEW r \in Seq(Int), NEW k \in 1 .. Len(s),
           Len(r) = Len(s) - 1,
           \A i \in 1 .. Len(r) : r[i] = IF i < k THEN s[i] ELSE s[i + 1]
    PROVE  Total(r) = Total(s) - s[k]
  <1>1. PICK t : Sums(t, s) /\ Total(s) = t[Len(s)]
    BY TotalIs
  <1>2. PICK u : Sums(u, r) /\ Total(r) = u[Len(r)]
    BY TotalIs
  <1> DEFINE Good == {n \in Nat : n <= Len(r) =>
                         u[n] = IF n < k THEN t[n] ELSE t[n + 1] - s[k]}
  <1>3. 0 \in Good
    BY <1>1, <1>2 DEF Sums
  <1>4. ASSUME NEW n \in Nat, n \in Good PROVE n + 1 \in Good
    <2> SUFFICES ASSUME n + 1 <= Len(r)
                 PROVE  u[n + 1] = IF n + 1 < k THEN t[n + 1] ELSE t[n + 2] - s[k]
      OBVIOUS
    <2>1. t[n + 1] = t[n] + s[n + 1] /\ t[n + 2] = t[n + 1] + s[n + 2]
      <3>1. /\ n + 1 \in 1 .. Len(s) /\ (n + 1) - 1 = n
            /\ n + 2 \in 1 .. Len(s) /\ (n + 2) - 1 = n + 1
        OBVIOUS
      <3>2. \A i \in 1 .. Len(s) : t[i] = t[i - 1] + s[i]
        BY <1>1 DEF Sums
      <3> HIDE DEF Good
      <3>3. t[n + 1] = t[(n + 1) - 1] + s[n + 1] /\ t[n + 2] = t[(n + 2) - 1] + s[n + 2]
        BY <3>1, <3>2
      <3> QED BY <3>1, <3>3
    <2>2. u[n + 1] = u[n] + r[n + 1]
      BY <1>2 DEF Sums
    <2>3. r[n + 1] = IF n + 1 < k THEN s[n + 1] ELSE s[n + 2]
      <3>1. n + 1 \in 1 .. Len(r) /\ (n + 1) + 1 = n + 2
        OBVIOUS
      <3> HIDE DEF Good
      <3> QED BY <3>1
    <2>4. u[n] = IF n < k THEN t[n] ELSE t[n + 1] - s[k]
      BY <1>4
    <2>5. t[n] \in Int /\ s[k] \in Int /\ s[n + 1] \in Int /\ s[n + 2] \in Int
      <3>1. t[n] \in Int
        BY SMTT(30), <1>1 DEF Sums
      <3>2. n + 1 \in 1 .. Len(s) /\ n + 2 \in 1 .. Len(s)
        OBVIOUS
      <3>3. s[k] \in Int /\ s[n + 1] \in Int /\ s[n + 2] \in Int
        BY <3>2, ElementOfSeq
      <3> QED BY <3>1, <3>3
    <2> HIDE DEF Good
    <2>6. CASE n + 1 < k
      BY <2>1, <2>2, <2>3, <2>4, <2>5, <2>6
    <2>7. CASE n + 1 = k
      <3>1. s[k] = s[n + 1] /\ n < k /\ ~(n + 1 < k)
        BY <2>7
      <3>2. u[n] = t[n] /\ r[n + 1] = s[n + 2]
        BY <2>3, <2>4, <3>1
      <3>3. u[n + 1] = t[n] + s[n + 2] /\ t[n + 2] = t[n] + s[n + 1] + s[n + 2]
        BY <2>1, <2>2, <3>2
      <3>4. u[n + 1] = t[n + 2] - s[n + 1]
        BY SMTT(30), <2>5, <3>3
      <3> QED BY <3>1, <3>4
    <2>8. CASE n + 1 > k
      BY SMTT(30), <2>1, <2>2, <2>3, <2>4, <2>5, <2>8
    <2> QED BY <2>6, <2>7, <2>8
  <1>5. Nat \subseteq Good
    <2> HIDE DEF Good
    <2> QED BY <1>3, <1>4, Induct
  <1>6. Len(r) \in Good
    BY <1>5
  <1>7. u[Len(r)] = IF Len(r) < k THEN t[Len(r)] ELSE t[Len(r) + 1] - s[k]
    BY <1>6
  <1>8. CASE Len(r) < k
    <2>1. k = Len(s) /\ Len(r) = k - 1
      BY <1>8
    <2>2. t[k] = t[k - 1] + s[k] /\ t[k - 1] \in Int
      <3>1. k - 1 \in 0 .. Len(s)
        OBVIOUS
      <3> QED BY <1>1, <3>1 DEF Sums
    <2>3. s[k] \in Int
      BY ElementOfSeq
    <2>4. u[Len(r)] = t[k - 1]
      BY <1>7, <1>8, <2>1
    <2> HIDE DEF Good
    <2> QED BY <1>1, <1>2, <2>1, <2>2, <2>3, <2>4
  <1>9. CASE Len(r) >= k
    BY <1>1, <1>2, <1>7, <1>9
  <1> QED BY <1>8, <1>9
============================================================================
