----------------------------- MODULE QueueLemmas -----------------------------
(***************************************************************************)
(* Facts about least and greatest elements, remainders and sequences used  *)
(* as queues, which the proofs of the components rest on.                  *)
(***************************************************************************)
EXTENDS Integers, SequencesExt, WellFoundedInduction, TLAPS

\* A non-empty set of natural numbers has a least element, and Min is it: what
\* the searches of the kernel for a first free slot return is a free slot.
LEMMA MinInSet ==
    ASSUME NEW S, S \subseteq Nat, S # {}
    PROVE  Min(S) \in S /\ \A y \in S : Min(S) <= y
<1>1. PICK x \in S : \A y \in S : ~ (<<y, x>> \in OpToRel(<, Nat))
  BY NatLessThanWellFounded, WFMin
<1>2. ASSUME NEW y \in S PROVE x <= y
  <2>1. x \in Nat /\ y \in Nat
    OBVIOUS
  <2>2. ~ (<<y, x>> \in {ss \in Nat \X Nat : ss[1] < ss[2]})
    BY <1>1 DEF OpToRel
  <2>3. ~ (y < x)
    BY <2>1, <2>2
  <2> QED
    BY <2>1, <2>3
<1> QED
  BY <1>2 DEF Min

\* A non-empty set of numbers up to N has a greatest element, and Max is it: what
\* the search for the highest non-empty queue returns is such a queue.
LEMMA MaxInSet ==
    ASSUME NEW N \in Nat, NEW S, S \subseteq 1..N, S # {}
    PROVE  Max(S) \in S /\ \A y \in S : y <= Max(S)
<1> DEFINE T == {N - x : x \in S}
<1>1. T \subseteq Nat /\ T # {}
  <2>1. \A x \in S : N - x \in Nat
    OBVIOUS
  <2>2. PICK x \in S : TRUE
    OBVIOUS
  <2>3. N - x \in T
    OBVIOUS
  <2> QED
    BY <2>1, <2>3
<1>2. Min(T) \in T /\ \A y \in T : Min(T) <= y
  <2> HIDE DEF T
  <2> QED BY <1>1, MinInSet
<1>3. PICK x \in S : Min(T) = N - x
  BY <1>2
<1>4. \A y \in S : x >= y
  <2> SUFFICES ASSUME NEW y \in S PROVE x >= y
    OBVIOUS
  <2>1. N - y \in T
    OBVIOUS
  <2>2. N - x <= N - y
    BY <1>2, <1>3, <2>1
  <2> QED
    BY <2>2
<1>5. Max(S) \in S /\ \A y \in S : Max(S) >= y
  BY <1>4 DEF Max
<1> QED
  BY <1>5

-----------------------------------------------------------------------------
\* A number has one quotient and one remainder.
LEMMA RemainderIs ==
    ASSUME NEW n \in Nat \ {0}, NEW q \in Int, NEW x \in 0..(n - 1)
    PROVE  (n * q + x) % n = x /\ (n * q + x) \div n = q
  OBVIOUS

\* A number is its quotient times the divisor plus its remainder.
LEMMA Division ==
    ASSUME NEW n \in Nat \ {0}, NEW a \in Nat
    PROVE  /\ a \div n \in Nat
           /\ a % n \in 0..(n - 1)
           /\ a = (n * (a \div n)) + (a % n)
  OBVIOUS

\* The quotient of a multiple of the divisor.
LEMMA QuotientOfProduct ==
    ASSUME NEW n \in Nat \ {0}, NEW q \in Nat
    PROVE  (n * q) \div n = q
<1>1. (n * q + 0) \div n = q
  BY RemainderIs
<1>2. n * q + 0 = n * q
  OBVIOUS
<1> QED
  BY <1>1, <1>2

\* A quotient grows with the dividend.
LEMMA QuotientGrows ==
    ASSUME NEW n \in Nat \ {0}, NEW a \in Nat, NEW b \in Nat, a <= b
    PROVE  a \div n <= b \div n
<1>1. /\ a \div n \in Nat /\ a % n \in 0..(n - 1) /\ a = (n * (a \div n)) + (a % n)
      /\ b \div n \in Nat /\ b % n \in 0..(n - 1) /\ b = (n * (b \div n)) + (b % n)
  BY Division
<1>2. ASSUME NEW x \in Nat, NEW y \in Nat, x > y PROVE n * x >= n * y + n
  <2>1. PICK d \in Nat : x = y + 1 + d
    BY <1>2
  <2>2. n * x = n * y + n + n * d /\ n * d \in Nat
    BY <2>1
  <2> QED
    BY <2>2
<1>3. ASSUME a \div n > b \div n PROVE FALSE
  <2>1. n * (a \div n) >= n * (b \div n) + n
    BY <1>1, <1>2, <1>3
  <2>2. n * (b \div n) \in Nat /\ n * (a \div n) \in Nat
    BY <1>1
  <2> QED
    BY <1>1, <2>1, <2>2
<1> QED
  BY <1>1, <1>3

-----------------------------------------------------------------------------
\* A queue holds what it held, and what was appended.
LEMMA RangeOfAppend ==
    ASSUME NEW T, NEW q \in Seq(T), NEW x \in T
    PROVE  Range(Append(q, x)) = Range(q) \cup {x}
<1> DEFINE a == Append(q, x)
<1>1. /\ DOMAIN a = 1..(Len(q) + 1) /\ DOMAIN q = 1..Len(q) /\ Len(q) \in Nat
      /\ \A i \in 1..Len(q) : a[i] = q[i]
      /\ a[Len(q) + 1] = x
  OBVIOUS
<1> HIDE DEF a
<1>2. Range(a) \subseteq Range(q) \cup {x}
  <2> SUFFICES ASSUME NEW i \in DOMAIN a PROVE a[i] \in Range(q) \cup {x}
    BY DEF Range
  <2>1. i \in 1..Len(q) \/ i = Len(q) + 1
    BY <1>1
  <2> QED
    BY <1>1, <2>1 DEF Range
<1>3. Range(q) \cup {x} \subseteq Range(a)
  <2>1. \A i \in DOMAIN q : i \in DOMAIN a /\ a[i] = q[i]
    BY <1>1
  <2>2. Len(q) + 1 \in DOMAIN a
    BY <1>1
  <2> QED
    BY <1>1, <2>1, <2>2 DEF Range
<1> QED
  BY <1>2, <1>3 DEF a

\* Two sequences joined, entry by entry
LEMMA EntriesOfConcat ==
    ASSUME NEW T, NEW s \in Seq(T), NEW t \in Seq(T)
    PROVE  /\ s \o t \in Seq(T)
           /\ Len(s \o t) = Len(s) + Len(t)
           /\ \A i \in 1..(Len(s) + Len(t)) :
                (s \o t)[i] = IF i <= Len(s) THEN s[i] ELSE t[i - Len(s)]
  OBVIOUS

\* Two queues joined hold what each held.
LEMMA RangeOfConcat ==
    ASSUME NEW T, NEW s \in Seq(T), NEW t \in Seq(T)
    PROVE  s \o t \in Seq(T) /\ Range(s \o t) = Range(s) \cup Range(t)
<1> DEFINE c == s \o t
<1>1. /\ c \in Seq(T) /\ Len(s) \in Nat /\ Len(t) \in Nat
      /\ DOMAIN c = 1..(Len(s) + Len(t)) /\ DOMAIN s = 1..Len(s) /\ DOMAIN t = 1..Len(t)
      /\ \A i \in 1..(Len(s) + Len(t)) : c[i] = IF i <= Len(s) THEN s[i] ELSE t[i - Len(s)]
  OBVIOUS
<1> HIDE DEF c
<1>2. ASSUME NEW i \in DOMAIN c PROVE c[i] \in Range(s) \cup Range(t)
  <2>1. CASE i <= Len(s)
    BY <1>1, <2>1 DEF Range
  <2>2. CASE ~ (i <= Len(s))
    <3>1. i - Len(s) \in DOMAIN t
      BY <1>1, <2>2
    <3> QED
      BY <1>1, <2>2, <3>1 DEF Range
  <2> QED
    BY <2>1, <2>2
<1>3. ASSUME NEW i \in DOMAIN s PROVE s[i] \in Range(c)
  <2>1. i \in DOMAIN c /\ c[i] = s[i]
    BY <1>1
  <2> QED
    BY <2>1 DEF Range
<1>4. ASSUME NEW i \in DOMAIN t PROVE t[i] \in Range(c)
  <2>1. i + Len(s) \in DOMAIN c /\ c[i + Len(s)] = t[i]
    BY <1>1
  <2> QED
    BY <2>1 DEF Range
<1> QED
  BY <1>1, <1>2, <1>3, <1>4 DEF c, Range

\* A queue without its first n entries holds the entries behind them.
LEMMA RangeOfSuffix ==
    ASSUME NEW T, NEW q \in Seq(T), NEW n \in 0..Len(q)
    PROVE  /\ SubSeq(q, n + 1, Len(q)) \in Seq(T)
           /\ Range(SubSeq(q, n + 1, Len(q))) = {q[i] : i \in (n + 1)..Len(q)}
<1> DEFINE s == SubSeq(q, n + 1, Len(q))
<1>1. /\ Len(q) \in Nat /\ s \in Seq(T)
      /\ DOMAIN s = 1..(Len(q) - n)
      /\ \A i \in 1..(Len(q) - n) : s[i] = q[n + i]
  OBVIOUS
<1> HIDE DEF s
<1>2. ASSUME NEW i \in DOMAIN s PROVE s[i] \in {q[k] : k \in (n + 1)..Len(q)}
  <2>1. n + i \in (n + 1)..Len(q) /\ s[i] = q[n + i]
    BY <1>1
  <2> QED
    BY <2>1
<1>3. ASSUME NEW k \in (n + 1)..Len(q) PROVE q[k] \in Range(s)
  <2>1. k - n \in DOMAIN s /\ s[k - n] = q[k]
    BY <1>1
  <2> QED
    BY <2>1 DEF Range
<1> QED
  BY <1>1, <1>2, <1>3 DEF s, Range

\* The first n entries of a queue.
LEMMA RangeOfPrefix ==
    ASSUME NEW T, NEW q \in Seq(T), NEW n \in 0..Len(q)
    PROVE  /\ SubSeq(q, 1, n) \in Seq(T)
           /\ Range(SubSeq(q, 1, n)) = {q[i] : i \in 1..n}
<1> DEFINE s == SubSeq(q, 1, n)
<1>1. /\ Len(q) \in Nat /\ s \in Seq(T)
      /\ DOMAIN s = 1..n
      /\ \A i \in 1..n : s[i] = q[i]
  OBVIOUS
<1> HIDE DEF s
<1> QED
  BY <1>1 DEF s, Range

\* What removeFromQueue does: at most one entry of x leaves, and no other does.
LEMMA RemoveFirstEffect ==
    ASSUME NEW T, NEW q \in Seq(T), NEW x
    PROVE  /\ RemoveFirst(q, x) \in Seq(T)
           /\ Range(RemoveFirst(q, x)) \subseteq Range(q)
           /\ Range(q) \subseteq Range(RemoveFirst(q, x)) \cup {x}
<1>0. Len(q) \in Nat /\ DOMAIN q = 1..Len(q)
  OBVIOUS
<1>1. CASE ~ \E i \in 1..Len(q) : q[i] = x
  BY <1>1 DEF RemoveFirst
<1>2. CASE \E i \in 1..Len(q) : q[i] = x
  <2> DEFINE at == {i \in 1..Len(q) : q[i] = x}
             m  == Min(at)
             a  == SubSeq(q, 1, m - 1)
             b  == SubSeq(q, m + 1, Len(q))
  <2>1. m \in at
    <3>1. at \subseteq Nat /\ at # {}
      BY <1>0, <1>2
    <3> HIDE DEF at
    <3> QED
      BY <3>1, MinInSet
  <2>2. RemoveFirst(q, x) = a \o b
    BY <1>2 DEF RemoveFirst, SelectInSeq, RemoveAt
  <2>3. m \in 1..Len(q) /\ q[m] = x
    BY <2>1
  <2> HIDE DEF m, at
  <2>4. /\ a \in Seq(T)
        /\ DOMAIN a = 1..(m - 1)
        /\ \A i \in 1..(m - 1) : a[i] = q[i]
    BY <1>0, <2>3
  <2>5. b \in Seq(T) /\ Range(b) = {q[i] : i \in (m + 1)..Len(q)}
    BY <1>0, <2>3, RangeOfSuffix
  <2> HIDE DEF a, b
  <2>6. a \o b \in Seq(T) /\ Range(a \o b) = Range(a) \cup Range(b)
    BY <2>4, <2>5, RangeOfConcat
  <2>7. Range(a) = {q[i] : i \in 1..(m - 1)}
    BY <2>4 DEF Range
  <2>8. Range(q) = {q[i] : i \in 1..Len(q)}
    BY <1>0 DEF Range
  <2>9. \A i \in 1..Len(q) : i \in 1..(m - 1) \/ i \in (m + 1)..Len(q) \/ i = m
    BY <1>0, <2>3
  <2>10. /\ \A i \in 1..(m - 1) : i \in 1..Len(q)
         /\ \A i \in (m + 1)..Len(q) : i \in 1..Len(q)
    BY <1>0, <2>3
  <2> QED
    BY <2>2, <2>3, <2>5, <2>6, <2>7, <2>8, <2>9, <2>10
<1> QED
  BY <1>1, <1>2
=============================================================================
