--------------------------- MODULE SequenceLemmas ---------------------------
(***************************************************************************)
(* Facts about numbers, sequences and folds that the proofs of the models  *)
(* share.  Induction is stated for sets: a property is the set of numbers  *)
(* that have it.                                                           *)
(***************************************************************************)
EXTENDS Integers, SequencesExt, SequenceTheorems, FiniteSetTheorems, TLAPS

-----------------------------------------------------------------------------
(* Induction.                                                              *)

\* A set of numbers that is not empty has a least one.
LEMMA LeastElement ==
    ASSUME NEW S \in SUBSET Nat, S # {}
    PROVE  \E n \in S : \A m \in S : n <= m
<1>1. IsWellFoundedOn(OpToRel(<, Nat), Nat)
  BY NatLessThanWellFounded
<1>2. PICK n \in S : \A m \in S : <<m, n>> \notin OpToRel(<, Nat)
  BY <1>1, WFMin
<1>3. ASSUME NEW m \in S, ~(n <= m)
      PROVE  FALSE
  <2>1. m < n /\ m \in Nat /\ n \in Nat
    BY <1>3
  <2>2. <<m, n>> \in OpToRel(<, Nat)
    BY <2>1 DEF OpToRel
  <2> QED
    BY <1>2, <2>2
<1> QED
  BY <1>3

\* A set that has zero and with a number the next one has all numbers.
LEMMA SetInduction ==
    ASSUME NEW S, 0 \in S, \A n \in Nat : n \in S => n + 1 \in S
    PROVE  Nat \subseteq S
<1> SUFFICES ASSUME Nat \ S # {}
             PROVE  FALSE
  OBVIOUS
<1>1. PICK n \in Nat \ S : \A m \in Nat \ S : n <= m
  BY LeastElement
<1>2. n # 0 /\ n - 1 \in Nat
  BY <1>1
<1>3. n - 1 \in S
  BY <1>1, <1>2
<1> QED
  BY <1>1, <1>2, <1>3

\* The same up to a bound.
LEMMA BoundedInduction ==
    ASSUME NEW N \in Nat, NEW S, 0 \in S,
           \A n \in 0..N : n \in S /\ n < N => n + 1 \in S
    PROVE  0..N \subseteq S
<1> DEFINE T == {n \in Nat : n <= N => n \in S}
<1>1. 0 \in T
  OBVIOUS
<1>2. \A n \in Nat : n \in T => n + 1 \in T
  OBVIOUS
<1>3. Nat \subseteq T
  <2> HIDE DEF T
  <2> QED
    BY <1>1, <1>2, SetInduction
<1> QED
  BY <1>3

-----------------------------------------------------------------------------
(* Sequences.                                                              *)

\* A function on 1..n is a sequence of length n.
LEMMA FunctionIsSeq ==
    ASSUME NEW S, NEW n \in Nat, NEW f \in [1..n -> S]
    PROVE  /\ f \in Seq(S)
           /\ Len(f) = n
           /\ DOMAIN f = 1..n
<1>1. f \in Seq(S)
  BY SeqDef
<1>2. /\ Len(f) \in Nat
      /\ DOMAIN f = 1..Len(f)
  BY <1>1, LenProperties
<1>3. DOMAIN f = 1..n
  OBVIOUS
<1>4. Len(f) = n
  BY <1>2, <1>3
<1> QED
  BY <1>1, <1>3, <1>4

\* What appending the values of a function on 1..n to a sequence gives.
LEMMA ExtendSeq ==
    ASSUME NEW S, NEW s \in Seq(S), NEW n \in Nat, NEW f \in [1..n -> S]
    PROVE  /\ s \o f \in Seq(S)
           /\ Len(s) \in Nat
           /\ Len(s \o f) = Len(s) + n
           /\ DOMAIN (s \o f) = 1..(Len(s) + n)
           /\ DOMAIN s = 1..Len(s)
           /\ \A i \in 1..Len(s) : (s \o f)[i] = s[i]
           /\ \A k \in 1..n : (s \o f)[Len(s) + k] = f[k]
<1>1. f \in Seq(S) /\ Len(f) = n
  BY FunctionIsSeq
<1>2. /\ Len(s) \in Nat
      /\ DOMAIN s = 1..Len(s)
  BY LenProperties
<1>3. /\ s \o f \in Seq(S)
      /\ Len(s \o f) = Len(s) + n
      /\ \A i \in 1..(Len(s) + n) :
            (s \o f)[i] = IF i <= Len(s) THEN s[i] ELSE f[i - Len(s)]
  BY <1>1, ConcatProperties
<1>4. DOMAIN (s \o f) = 1..(Len(s) + n)
  BY <1>3, LenProperties
<1>5. \A i \in 1..Len(s) : (s \o f)[i] = s[i]
  BY <1>2, <1>3
<1>6. ASSUME NEW k \in 1..n
      PROVE  (s \o f)[Len(s) + k] = f[k]
  <2>1. Len(s) + k \in 1..(Len(s) + n) /\ ~(Len(s) + k <= Len(s))
    BY <1>2
  <2>2. (Len(s) + k) - Len(s) = k
    BY <1>2
  <2> QED
    BY <1>3, <2>1, <2>2
<1> QED
  BY <1>2, <1>3, <1>4, <1>5, <1>6

\* The beginnings of a sequence, each one element longer than the one before.
LEMMA PrefixSteps ==
    ASSUME NEW S, NEW s \in Seq(S)
    PROVE  /\ SubSeq(s, 1, 0) = <<>>
           /\ SubSeq(s, 1, Len(s)) = s
           /\ \A k \in 0..Len(s) :
                /\ SubSeq(s, 1, k) \in Seq(S)
                /\ Len(SubSeq(s, 1, k)) = k
                /\ \A i \in 1..k : SubSeq(s, 1, k)[i] = s[i]
                /\ k < Len(s) => /\ s[k + 1] \in S
                                 /\ SubSeq(s, 1, k + 1) = Append(SubSeq(s, 1, k), s[k + 1])
<1> DEFINE n == Len(s)
<1>1. n \in Nat /\ DOMAIN s = 1..n /\ \A k \in 1..n : s[k] \in S
  BY LenProperties, ElementOfSeq
<1>2. ASSUME NEW k \in 0..n
      PROVE  /\ SubSeq(s, 1, k) \in Seq(S)
             /\ Len(SubSeq(s, 1, k)) = k
             /\ \A i \in 1..k : SubSeq(s, 1, k)[i] = s[i]
  <2>1. CASE k = 0
    <3>1. SubSeq(s, 1, 0) = <<>>
      BY SubSeqEmpty
    <3> QED
      BY <2>1, <3>1, EmptySeq
  <2>2. CASE k # 0
    <3>1. 1 \in 1..(n + 1) /\ k \in 0..n /\ 1 <= k /\ k \in Int /\ 1 \in Int
      BY <1>1, <2>2
    <3>2. \A i \in 1..k : s[i] \in S
      BY <1>1
    <3> QED
      BY <3>1, <3>2, SubSeqProperties
  <2> QED
    BY <2>1, <2>2
<1>3. SubSeq(s, 1, 0) = <<>>
  BY SubSeqEmpty
<1>4. SubSeq(s, 1, n) = s
  <2>1. n \in 0..n
    BY <1>1
  <2>2. SubSeq(s, 1, n) \in Seq(S) /\ Len(SubSeq(s, 1, n)) = Len(s)
        /\ \A i \in 1..n : SubSeq(s, 1, n)[i] = s[i]
    BY <1>2, <2>1
  <2> QED
    BY <2>2, SeqEqual
<1>5. ASSUME NEW k \in 0..n, k < n
      PROVE  /\ s[k + 1] \in S
             /\ SubSeq(s, 1, k + 1) = Append(SubSeq(s, 1, k), s[k + 1])
  <2> DEFINE u == SubSeq(s, 1, k)
             v == SubSeq(s, 1, k + 1)
             w == Append(u, s[k + 1])
  <2>1. k + 1 \in 0..n /\ k + 1 \in 1..n /\ s[k + 1] \in S /\ k \in Nat
    BY <1>1, <1>5
  <2>2. /\ u \in Seq(S) /\ Len(u) = k
        /\ \A i \in 1..k : u[i] = s[i]
    BY <1>2
  <2>3. /\ v \in Seq(S) /\ Len(v) = k + 1
        /\ \A i \in 1..(k + 1) : v[i] = s[i]
    BY <1>2, <2>1
  <2> HIDE DEF u, v
  <2>4. /\ w \in Seq(S) /\ Len(w) = k + 1
        /\ \A i \in 1..k : w[i] = u[i]
        /\ w[k + 1] = s[k + 1]
    BY <2>1, <2>2, AppendProperties
  <2> HIDE DEF w
  <2>5. \A i \in 1..(k + 1) : v[i] = w[i]
    <3> TAKE i \in 1..(k + 1)
    <3>1. i \in 1..k \/ i = k + 1
      BY <2>1
    <3> QED
      BY <2>2, <2>3, <2>4, <3>1
  <2>6. v = w
    BY <2>3, <2>4, <2>5, SeqEqual
  <2> QED
    BY <2>1, <2>6 DEF u, v, w
<1> QED
  BY <1>2, <1>3, <1>4, <1>5

\* The beginnings of a concatenation are those of its first part, then the
\* first part with the beginnings of the second.
LEMMA PrefixOfConcat ==
    ASSUME NEW S, NEW s \in Seq(S), NEW t \in Seq(S)
    PROVE  /\ \A k \in 0..Len(s) : SubSeq(s \o t, 1, k) = SubSeq(s, 1, k)
           /\ \A i \in 1..Len(t) :
                SubSeq(s \o t, 1, Len(s) + i) = Append(s \o SubSeq(t, 1, i - 1), t[i])
<1> DEFINE c == s \o t
<1>1. /\ Len(s) \in Nat /\ Len(t) \in Nat
      /\ c \in Seq(S) /\ Len(c) = Len(s) + Len(t)
      /\ \A i \in 1..(Len(s) + Len(t)) : c[i] = IF i <= Len(s) THEN s[i] ELSE t[i - Len(s)]
  BY LenProperties, ConcatProperties
<1> HIDE DEF c
<1>2. ASSUME NEW k \in 0..Len(s)
      PROVE  SubSeq(c, 1, k) = SubSeq(s, 1, k)
  <2> DEFINE u == SubSeq(c, 1, k)
             v == SubSeq(s, 1, k)
  <2>1. k \in 0..Len(c) /\ \A i \in 1..k : c[i] = s[i]
    BY <1>1
  <2>2. u \in Seq(S) /\ Len(u) = k /\ \A i \in 1..k : u[i] = c[i]
    BY <1>1, <2>1, PrefixSteps
  <2>3. v \in Seq(S) /\ Len(v) = k /\ \A i \in 1..k : v[i] = s[i]
    BY PrefixSteps
  <2> HIDE DEF u, v
  <2>4. u = v
    BY <2>1, <2>2, <2>3, SeqEqual
  <2> QED
    BY <2>4 DEF u, v
<1>3. ASSUME NEW i \in 1..Len(t)
      PROVE  SubSeq(c, 1, Len(s) + i) = Append(s \o SubSeq(t, 1, i - 1), t[i])
  <2> DEFINE n == Len(s)
             k == n + i
             j == i - 1
             u == SubSeq(c, 1, k)
             f == SubSeq(t, 1, j)
             v == s \o f
             w == Append(v, t[i])
  <2>1. k \in 0..Len(c) /\ j \in 0..Len(t) /\ j + 1 = i /\ i \in Nat /\ j \in Nat /\ n \in Nat
    BY <1>1
  <2>2. u \in Seq(S) /\ Len(u) = k /\ \A x \in 1..k : u[x] = c[x]
    BY <1>1, <2>1, PrefixSteps
  <2>3. f \in Seq(S) /\ Len(f) = j /\ \A x \in 1..j : f[x] = t[x]
    BY <2>1, PrefixSteps
  <2>4. t[i] \in S
    BY ElementOfSeq
  <2>5. \A x \in 1..k : c[x] = IF x <= n THEN s[x] ELSE t[x - n]
    BY <1>1
  <2>6. n = Len(s)
    OBVIOUS
  <2>7. k = n + j + 1 /\ k = n + i
    BY <2>1
  <2> HIDE DEF u, f, j, n, k
  <2>8. v \in Seq(S) /\ Len(v) = n + j
        /\ \A x \in 1..(n + j) : v[x] = IF x <= n THEN s[x] ELSE f[x - n]
    BY <2>3, <2>6, ConcatProperties
  <2> HIDE DEF v
  <2>9. w \in Seq(S) /\ Len(w) = n + j + 1
        /\ (\A x \in 1..(n + j) : w[x] = v[x])
        /\ w[n + j + 1] = t[i]
    BY <2>4, <2>8, AppendProperties
  <2> HIDE DEF w
  <2>10. ASSUME NEW x \in 1..k
         PROVE  u[x] = w[x]
    <3>1. CASE x = k
      <4>1. u[x] = t[k - n]
        BY <2>1, <2>2, <2>5, <2>7, <3>1
      <4>2. k - n = i
        BY <2>1, <2>7
      <4> QED
        BY <2>7, <2>9, <3>1, <4>1, <4>2
    <3>2. CASE x # k
      <4>1. x \in 1..(n + j)
        BY <2>1, <2>7, <3>2
      <4>2. w[x] = IF x <= n THEN s[x] ELSE f[x - n]
        BY <2>8, <2>9, <4>1
      <4>3. ~(x <= n) => x - n \in 1..j
        BY <2>1, <4>1
      <4> QED
        BY <2>2, <2>3, <2>5, <4>2, <4>3
    <3> QED
      BY <3>1, <3>2
  <2>11. u = w
    BY <2>2, <2>7, <2>9, <2>10, SeqEqual
  <2> QED
    BY <2>11 DEF u, v, w, f, j, n, k
<1> QED
  BY <1>2, <1>3 DEF c

-----------------------------------------------------------------------------
(* Enumerations: f lists the numbers of I in their order.                  *)

Enumerates(f, m, I) ==
    /\ f \in [1..m -> Nat]
    /\ \A x, y \in 1..m : x < y => f[x] < f[y]
    /\ I = {f[k] : k \in 1..m}

\* How many numbers of a set do not exceed its k-th.
LEMMA EnumerationCounts ==
    ASSUME NEW m \in Nat, NEW f, NEW I, Enumerates(f, m, I)
    PROVE  /\ IsFiniteSet(I)
           /\ Cardinality(I) = m
           /\ \A k \in 1..m : Cardinality({j \in I : j <= f[k]}) = k
<1>1. /\ f \in [1..m -> Nat]
      /\ \A x, y \in 1..m : x < y => f[x] < f[y]
      /\ I = {f[k] : k \in 1..m}
  BY DEF Enumerates
<1>2. \A x, y \in 1..m : f[x] <= f[y] => x <= y
  <2> SUFFICES ASSUME NEW x \in 1..m, NEW y \in 1..m, f[x] <= f[y], ~(x <= y)
               PROVE  FALSE
    OBVIOUS
  <2>1. y < x /\ f[x] \in Nat /\ f[y] \in Nat
    BY <1>1
  <2>2. f[y] < f[x]
    BY <1>1, <2>1
  <2> QED
    BY <2>1, <2>2
<1>3. \A x, y \in 1..m : x <= y => f[x] <= f[y]
  <2> SUFFICES ASSUME NEW x \in 1..m, NEW y \in 1..m, x <= y
               PROVE  f[x] <= f[y]
    OBVIOUS
  <2>1. f[x] \in Nat /\ f[y] \in Nat
    BY <1>1
  <2>2. x = y \/ x < y
    OBVIOUS
  <2> QED
    BY <1>1, <2>1, <2>2
<1>4. ASSUME NEW k \in 0..m, NEW J, J = {f[i] : i \in 1..k}
      PROVE  IsFiniteSet(J) /\ Cardinality(J) = k
  <2> DEFINE g == [i \in 1..k |-> f[i]]
  <2>1. g \in [1..k -> J]
    BY <1>4
  <2>2. \A x, y \in 1..k : g[x] = g[y] => x = y
    <3> SUFFICES ASSUME NEW x \in 1..k, NEW y \in 1..k, g[x] = g[y]
                 PROVE  x = y
      OBVIOUS
    <3>1. x \in 1..m /\ y \in 1..m /\ f[x] = f[y]
      BY <1>4
    <3>2. f[x] \in Nat
      BY <1>1, <3>1
    <3>3. x <= y /\ y <= x
      BY <1>2, <3>1, <3>2
    <3> QED
      BY <3>3
  <2>3. \A j \in J : \E i \in 1..k : g[i] = j
    BY <1>4
  <2>4. g \in Bijection(1..k, J)
    BY <2>1, <2>2, <2>3 DEF Bijection, Injection, Surjection, IsInjective
  <2>5. ExistsBijection(1..k, J)
    BY <2>4, Zenon DEF ExistsBijection
  <2>6. k \in Nat
    OBVIOUS
  <2> QED
    BY <2>5, <2>6, FS_CountingElements, FS_NatBijection
<1>5. IsFiniteSet(I) /\ Cardinality(I) = m
  <2>1. m \in 0..m
    OBVIOUS
  <2> QED
    BY <1>1, <1>4, <2>1
<1>6. ASSUME NEW k \in 1..m
      PROVE  Cardinality({j \in I : j <= f[k]}) = k
  <2>1. {j \in I : j <= f[k]} = {f[i] : i \in 1..k}
    <3>1. ASSUME NEW j \in I, j <= f[k]
          PROVE  j \in {f[i] : i \in 1..k}
      <4>1. PICK i \in 1..m : j = f[i]
        BY <1>1
      <4>2. i <= k
        BY <1>2, <3>1, <4>1
      <4> QED
        BY <4>1, <4>2
    <3>2. ASSUME NEW i \in 1..k
          PROVE  f[i] \in I /\ f[i] <= f[k]
      <4>1. i \in 1..m /\ i <= k
        OBVIOUS
      <4> QED
        BY <1>1, <1>3, <4>1
    <3> QED
      BY <3>1, <3>2
  <2>2. k \in 0..m
    OBVIOUS
  <2> QED
    BY <1>4, <2>1, <2>2
<1> QED
  BY <1>5, <1>6

\* The numbers of I, and the n that follow L.
WithNext(I, L, n) == I \cup {L + k : k \in 1..n}
BoundedBy(I, L) == \A i \in I : i <= L
ContinuesFrom(h, f, m, n, L) ==
    h = [k \in 1..(m + n) |-> IF k <= m THEN f[k] ELSE L + (k - m)]

\* Larger numbers go to the end of an enumeration.
LEMMA ExtendEnumeration ==
    ASSUME NEW m \in Nat, NEW n \in Nat, NEW f, NEW I, NEW L \in Nat,
           Enumerates(f, m, I), BoundedBy(I, L),
           NEW h, ContinuesFrom(h, f, m, n, L)
    PROVE  Enumerates(h, m + n, WithNext(I, L, n))
<1>0. /\ \A i \in I : i <= L
      /\ h = [k \in 1..(m + n) |-> IF k <= m THEN f[k] ELSE L + (k - m)]
  BY DEF BoundedBy, ContinuesFrom
<1>1. /\ f \in [1..m -> Nat]
      /\ \A x, y \in 1..m : x < y => f[x] < f[y]
      /\ I = {f[k] : k \in 1..m}
  BY DEF Enumerates
<1>2. \A k \in 1..m : h[k] = f[k] /\ f[k] \in Nat /\ f[k] <= L
  BY <1>0, <1>1
<1>3. \A k \in (m + 1)..(m + n) : h[k] = L + (k - m) /\ h[k] \in Nat
  BY <1>0
<1>4. h \in [1..(m + n) -> Nat]
  BY <1>0, <1>1
<1>5. ASSUME NEW x \in 1..(m + n), NEW y \in 1..(m + n), x < y
      PROVE  h[x] < h[y]
  <2>1. CASE y <= m
    <3>1. x \in 1..m /\ y \in 1..m
      BY <1>5, <2>1
    <3> QED
      BY <1>1, <1>2, <1>5, <3>1
  <2>2. CASE x <= m /\ m < y
    <3>1. x \in 1..m /\ y \in (m + 1)..(m + n)
      BY <2>2
    <3>2. h[x] \in Nat /\ h[x] <= L
      BY <1>2, <3>1
    <3>3. h[y] = L + (y - m)
      BY <1>3, <3>1
    <3> QED
      BY <3>1, <3>2, <3>3
  <2>3. CASE m < x
    <3>1. x \in (m + 1)..(m + n) /\ y \in (m + 1)..(m + n)
      BY <1>5, <2>3
    <3>2. h[x] = L + (x - m) /\ h[y] = L + (y - m)
      BY <1>3, <3>1
    <3> QED
      BY <1>5, <3>1, <3>2
  <2> QED
    BY <1>5, <2>1, <2>2, <2>3
<1>6. ASSUME NEW i \in I \cup {L + k : k \in 1..n}
      PROVE  \E k \in 1..(m + n) : i = h[k]
  <2>1. CASE i \in I
    <3>1. PICK k \in 1..m : i = f[k]
      BY <1>1, <2>1
    <3>2. k \in 1..(m + n) /\ h[k] = i
      BY <1>2, <3>1
    <3> QED
      BY <3>2
  <2>2. CASE i \in {L + k : k \in 1..n}
    <3>1. PICK k \in 1..n : i = L + k
      BY <2>2
    <3>2. m + k \in (m + 1)..(m + n) /\ (m + k) - m = k
      OBVIOUS
    <3>3. h[m + k] = L + k
      BY <1>3, <3>2
    <3>4. m + k \in 1..(m + n)
      OBVIOUS
    <3> QED
      BY <3>1, <3>3, <3>4
  <2> QED
    BY <1>6, <2>1, <2>2
<1>7. ASSUME NEW k \in 1..(m + n)
      PROVE  h[k] \in I \cup {L + i : i \in 1..n}
  <2>1. CASE k <= m
    <3>1. k \in 1..m
      BY <2>1
    <3> QED
      BY <1>1, <1>2, <3>1
  <2>2. CASE ~(k <= m)
    <3>1. k \in (m + 1)..(m + n) /\ k - m \in 1..n
      BY <2>2
    <3> QED
      BY <1>3, <3>1
  <2> QED
    BY <2>1, <2>2
<1>8. I \cup {L + k : k \in 1..n} = {h[k] : k \in 1..(m + n)}
  BY <1>6, <1>7
<1> QED
  BY <1>4, <1>5, <1>8 DEF Enumerates, WithNext

Below(I, k) == {i \in I : i <= k}
IsEnumerated(I) == \E m \in Nat : \E f : Enumerates(f, m, I)

\* Every bounded set of positive numbers can be listed in order.
LEMMA SubsetIsEnumerated ==
    ASSUME NEW L \in Nat, NEW I \in SUBSET (1..L)
    PROVE  IsEnumerated(I)
<1> DEFINE S == {k \in 0..L : IsEnumerated(Below(I, k))}
<1>0. /\ \A i \in I : i \in Nat /\ 1 <= i /\ i <= L
      /\ \A k \in Nat : \A i : i \in Below(I, k) <=> i \in I /\ i <= k
  BY DEF Below
<1>1. 0 \in S
  <2> DEFINE f == [k \in 1..0 |-> 0]
             zero == 0
  <2>1. zero \in Nat /\ Below(I, zero) = {}
    <3>1. zero \in Nat /\ \A i \in I : ~(i <= zero)
      BY <1>0
    <3> HIDE DEF zero
    <3>2. \A i : i \notin Below(I, zero)
      BY <1>0, <3>1
    <3>3. Below(I, zero) = {}
      BY <3>2
    <3> QED
      BY <3>1, <3>3
  <2>2. f \in [1..zero -> Nat] /\ {f[k] : k \in 1..zero} = {}
    OBVIOUS
  <2>3. \A x, y \in 1..zero : FALSE
    OBVIOUS
  <2> HIDE DEF f, zero
  <2>4. Enumerates(f, zero, Below(I, zero))
    BY <2>1, <2>2, <2>3 DEF Enumerates
  <2>5. IsEnumerated(Below(I, zero))
    BY <2>1, <2>4 DEF IsEnumerated
  <2> QED
    BY <2>5 DEF zero
<1>2. ASSUME NEW k \in 0..L, k \in S, k < L
      PROVE  k + 1 \in S
  <2>1. CASE k + 1 \notin I
    <3>1. \A i \in I : i <= k + 1 <=> i <= k
      BY <1>0, <2>1
    <3>2. Below(I, k + 1) = Below(I, k)
      BY <3>1 DEF Below
    <3> QED
      BY <1>2, <3>2
  <2>2. CASE k + 1 \in I
    <3>0. PICK m \in Nat : \E f : Enumerates(f, m, Below(I, k))
      BY <1>2 DEF IsEnumerated
    <3>1. PICK f : Enumerates(f, m, Below(I, k))
      BY <3>0
    <3> DEFINE h == [x \in 1..(m + 1) |-> IF x <= m THEN f[x] ELSE k + (x - m)]
               one == 1
    <3>2. ContinuesFrom(h, f, m, one, k)
      BY DEF ContinuesFrom
    <3>3. BoundedBy(Below(I, k), k)
      BY DEF BoundedBy, Below
    <3>4. WithNext(Below(I, k), k, one) = Below(I, k + 1)
      <4>1. {k + x : x \in 1..one} = {k + 1}
        OBVIOUS
      <4>2. \A i \in I : i <= k + 1 <=> i <= k \/ i = k + 1
        BY <1>0
      <4> HIDE DEF one
      <4>3. WithNext(Below(I, k), k, one) = {i \in I : i <= k} \cup {k + 1}
        BY <4>1 DEF WithNext, Below
      <4> QED
        BY <2>2, <4>2, <4>3 DEF Below
    <3>5. one \in Nat /\ k \in Nat /\ m + 1 \in Nat /\ m + one = m + 1
      OBVIOUS
    <3> HIDE DEF h, one
    <3>6. Enumerates(h, m + one, WithNext(Below(I, k), k, one))
      BY <3>1, <3>2, <3>3, <3>5, ExtendEnumeration
    <3> QED
      BY <1>2, <3>4, <3>5, <3>6 DEF IsEnumerated
  <2> QED
    BY <2>1, <2>2
<1>3. L \in S
  <2>1. 0..L \subseteq S
    BY <1>1, <1>2, BoundedInduction
  <2> QED
    BY <2>1
<1>4. Below(I, L) = I
  BY <1>0 DEF Below
<1> QED
  BY <1>3, <1>4

IsNth(i, n, I) == i \in I /\ Cardinality({j \in I : j <= i}) = n

\* The n-th number of an enumerated set is the one the enumeration lists n-th.
LEMMA EnumerationOrder ==
    ASSUME NEW m \in Nat, NEW f, NEW I, Enumerates(f, m, I), NEW n \in 1..m
    PROVE  \A i : IsNth(i, n, I) <=> i = f[n]
<1>1. \A k \in 1..m : Cardinality({j \in I : j <= f[k]}) = k
  BY EnumerationCounts
<1>2. I = {f[k] : k \in 1..m}
  BY DEF Enumerates
<1>3. \A k \in 1..m : IsNth(f[k], k, I)
  BY <1>1, <1>2 DEF IsNth
<1>4. ASSUME NEW i, IsNth(i, n, I)
      PROVE  i = f[n]
  <2>1. PICK k \in 1..m : i = f[k]
    BY <1>2, <1>4 DEF IsNth
  <2>2. k = n
    BY <1>3, <1>4, <2>1 DEF IsNth
  <2> QED
    BY <2>1, <2>2
<1> QED
  BY <1>3, <1>4

-----------------------------------------------------------------------------
(* Folds.  FoldLeft is defined by recursion over sets of positions.  Its   *)
(* operator makes F[<<t, k>>] of the result t it has before position k.    *)

IsPath(h, n, base, F) ==
    /\ h[0] = base
    /\ \A k \in 1..n : h[k] = F[<<h[k - 1], k>>]

\* The results a fold passes through.
LEMMA PathExists ==
    ASSUME NEW n \in Nat, NEW T, NEW base \in T, NEW F \in [T \X (1..n) -> T]
    PROVE  \E h \in [0..n -> T] : IsPath(h, n, base, F)
<1> DEFINE S == {m \in 0..n : \E h \in [0..m -> T] : IsPath(h, m, base, F)}
<1>1. 0 \in S
  <2>1. [k \in 0..0 |-> base] \in [0..0 -> T]
    OBVIOUS
  <2>2. IsPath([k \in 0..0 |-> base], 0, base, F)
    BY DEF IsPath
  <2> QED
    BY <2>1, <2>2
<1>2. ASSUME NEW m \in 0..n, m \in S, m < n
      PROVE  m + 1 \in S
  <2>1. PICK h \in [0..m -> T] : IsPath(h, m, base, F)
    BY <1>2
  <2> DEFINE g == [k \in 0..(m + 1) |-> IF k <= m THEN h[k] ELSE F[<<h[m], m + 1>>]]
  <2>2. m + 1 \in 1..n /\ m \in 0..m /\ h[m] \in T
    BY <1>2
  <2>3. F[<<h[m], m + 1>>] \in T
    BY <2>2
  <2>4. g \in [0..(m + 1) -> T]
    BY <2>3
  <2>5. g[0] = base
    BY <1>2, <2>1 DEF IsPath
  <2>6. ASSUME NEW k \in 1..(m + 1)
        PROVE  g[k] = F[<<g[k - 1], k>>]
    <3>1. CASE k <= m
      <4>1. k \in 1..m /\ k - 1 \in 0..(m + 1) /\ k - 1 <= m
        BY <3>1
      <4>2. g[k] = h[k] /\ g[k - 1] = h[k - 1]
        BY <3>1, <4>1
      <4> HIDE DEF g
      <4> QED
        BY <2>1, <4>1, <4>2 DEF IsPath
    <3>2. CASE ~(k <= m)
      <4>1. k = m + 1 /\ k - 1 = m
        BY <3>2
      <4>2. g[k] = F[<<h[m], m + 1>>] /\ g[k - 1] = h[m]
        BY <3>2, <4>1
      <4> QED
        BY <4>1, <4>2
    <3> QED
      BY <3>1, <3>2
  <2> HIDE DEF g
  <2>7. IsPath(g, m + 1, base, F)
    BY <2>5, <2>6 DEF IsPath
  <2>8. m + 1 \in 0..n
    BY <1>2
  <2> QED
    BY <2>4, <2>7, <2>8
<1>3. 0..n \subseteq S
  <2> HIDE DEF S
  <2> QED
    BY <1>1, <1>2, BoundedInduction
<1> QED
  BY <1>3

\* The largest of a set of numbers up to a bound.
LEMMA LargestElement ==
    ASSUME NEW n \in Nat, NEW s \in SUBSET (1..n), s # {}
    PROVE  /\ Max(s) \in s
           /\ \A k \in s : k <= Max(s)
<1> DEFINE S == {n - k : k \in s}
<1>1. S \in SUBSET Nat /\ S # {}
  <2>1. \A k \in s : n - k \in Nat
    OBVIOUS
  <2> QED
    BY <2>1
<1>2. PICK m \in S : \A k \in S : m <= k
  <2> HIDE DEF S
  <2> QED
    BY <1>1, LeastElement
<1>3. PICK x \in s : m = n - x
  OBVIOUS
<1>4. ASSUME NEW k \in s
      PROVE  x >= k
  <2>1. n - k \in S
    OBVIOUS
  <2>2. n - x <= n - k
    BY <1>2, <1>3, <2>1
  <2> QED
    BY <2>2
<1>5. \E y \in s : \A k \in s : y >= k
  BY <1>4
<1>6. Max(s) \in s /\ \A k \in s : Max(s) >= k
  BY <1>5 DEF Max
<1> QED
  BY <1>6

\* The largest number of an interval.
LEMMA LargestOfInterval ==
    ASSUME NEW k \in Nat \ {0}
    PROVE  Max(1..k) = k /\ (1..k) \ {k} = 1..(k - 1)
<1>1. k \in Nat /\ 1..k \in SUBSET (1..k) /\ 1..k # {}
  OBVIOUS
<1>2. Max(1..k) \in 1..k /\ \A j \in 1..k : j <= Max(1..k)
  BY <1>1, LargestElement
<1> DEFINE m == Max(1..k)
<1>3. m \in 1..k /\ \A j \in 1..k : j <= m
  BY <1>2
<1> HIDE DEF m
<1>4. m = k
  BY <1>3
<1> QED
  BY <1>4 DEF m

IsRecursion(iter, n, base, F) ==
    \A s \in SUBSET (1..n) :
        iter[s] = IF s = {} THEN base ELSE F[<<iter[s \ {Max(s)}], Max(s)>>]

\* The recursion over sets of positions that FoldLeft stands for has a solution.
LEMMA RecursionExists ==
    ASSUME NEW n \in Nat, NEW T, NEW base \in T, NEW F \in [T \X (1..n) -> T]
    PROVE  \E iter \in [SUBSET (1..n) -> T] : IsRecursion(iter, n, base, F)
<1> DEFINE Fs(s) == [p \in T \X (1..n) |-> IF p[2] \in s THEN F[p] ELSE p[1]]
           H == [s \in SUBSET (1..n) |->
                    CHOOSE h \in [0..n -> T] : IsPath(h, n, base, Fs(s))]
           iter == [s \in SUBSET (1..n) |-> H[s][n]]
<1>1. ASSUME NEW s \in SUBSET (1..n)
      PROVE  /\ H[s] \in [0..n -> T]
             /\ H[s][0] = base
             /\ \A k \in 1..n :
                    H[s][k] = IF k \in s THEN F[<<H[s][k - 1], k>>] ELSE H[s][k - 1]
  <2>1. Fs(s) \in [T \X (1..n) -> T]
    OBVIOUS
  <2>2. \E h \in [0..n -> T] : IsPath(h, n, base, Fs(s))
    <3> HIDE DEF Fs
    <3> QED
      BY <2>1, PathExists
  <2>3. H[s] \in [0..n -> T] /\ IsPath(H[s], n, base, Fs(s))
    <3> HIDE DEF Fs
    <3> QED
      BY <2>2
  <2> HIDE DEF H
  <2>4. ASSUME NEW k \in 1..n
        PROVE  H[s][k] = IF k \in s THEN F[<<H[s][k - 1], k>>] ELSE H[s][k - 1]
    <3>1. H[s][k] = Fs(s)[<<H[s][k - 1], k>>]
      <4> HIDE DEF Fs
      <4> QED
        BY <2>3 DEF IsPath
    <3>2. H[s][k - 1] \in T
      BY <2>3
    <3> QED
      BY <3>1, <3>2
  <2>5. H[s][0] = base
    BY <2>3 DEF IsPath
  <2> QED
    BY <2>3, <2>4, <2>5
<1>2. iter \in [SUBSET (1..n) -> T]
  <2> HIDE DEF H
  <2> QED
    BY <1>1
<1>3. \A s \in SUBSET (1..n) : iter[s] = H[s][n]
  BY Zenon
<1> HIDE DEF iter, H, Fs
<1>4. ASSUME NEW s \in SUBSET (1..n), NEW k \in 0..n, k < n
      PROVE  H[s][k + 1] = IF k + 1 \in s THEN F[<<H[s][k], k + 1>>] ELSE H[s][k]
  <2>1. k + 1 \in 1..n /\ (k + 1) - 1 = k
    BY <1>4
  <2> DEFINE j == k + 1
  <2>2. j \in 1..n /\ j - 1 = k
    BY <2>1
  <2> HIDE DEF j
  <2>3. H[s][j] = IF j \in s THEN F[<<H[s][k], j>>] ELSE H[s][k]
    BY <1>1, <2>2
  <2> QED
    BY <2>3 DEF j
<1>5. ASSUME NEW s \in SUBSET (1..n), s = {}
      PROVE  iter[s] = base
  <2> DEFINE S == {k \in 0..n : H[s][k] = base}
  <2>1. 0 \in S
    BY <1>1
  <2>2. \A k \in 0..n : k \in S /\ k < n => k + 1 \in S
    <3> SUFFICES ASSUME NEW k \in 0..n, k \in S, k < n
                 PROVE  k + 1 \in S
      OBVIOUS
    <3>1. k + 1 \in 1..n /\ (k + 1) - 1 = k /\ k + 1 \in 0..n
      OBVIOUS
    <3>2. H[s][k + 1] = H[s][k]
      BY <1>5, <1>4, <3>1
    <3> QED
      BY <3>1, <3>2
  <2>3. 0..n \subseteq S
    <3> HIDE DEF S
    <3> QED
      BY <2>1, <2>2, BoundedInduction
  <2>4. n \in S
    BY <2>3
  <2> QED
    BY <1>3, <2>4
<1>6. ASSUME NEW s \in SUBSET (1..n), NEW m \in 0..n, \A k \in s : k <= m
      PROVE  H[s][n] = H[s][m]
  <2> DEFINE S == {k \in 0..n : k >= m => H[s][k] = H[s][m]}
  <2>1. 0 \in S
    BY <1>6
  <2>2. \A k \in 0..n : k \in S /\ k < n => k + 1 \in S
    <3> SUFFICES ASSUME NEW k \in 0..n, k \in S, k < n, k + 1 >= m
                 PROVE  H[s][k + 1] = H[s][m]
      OBVIOUS
    <3>1. CASE k + 1 = m
      BY <3>1
    <3>2. CASE k + 1 # m
      <4>1. k + 1 \in 1..n /\ (k + 1) - 1 = k /\ k + 1 \notin s /\ k >= m
        BY <1>6, <3>2
      <4>2. H[s][k + 1] = H[s][k]
        BY <1>4, <4>1
      <4> QED
        BY <4>1, <4>2
    <3> QED
      BY <3>1, <3>2
  <2>3. 0..n \subseteq S
    <3> HIDE DEF S
    <3> QED
      BY <2>1, <2>2, BoundedInduction
  <2>4. n \in S /\ n >= m
    BY <2>3
  <2> QED
    BY <2>4
<1>7. ASSUME NEW s \in SUBSET (1..n), NEW r \in SUBSET (1..n), NEW m \in 0..n,
             \A k \in 1..m : k \in r <=> k \in s
      PROVE  H[r][m] = H[s][m]
  <2> DEFINE S == {k \in 0..n : k <= m => H[r][k] = H[s][k]}
  <2>1. 0 \in S
    BY <1>1
  <2>2. \A k \in 0..n : k \in S /\ k < n => k + 1 \in S
    <3> SUFFICES ASSUME NEW k \in 0..n, k \in S, k < n, k + 1 <= m
                 PROVE  H[r][k + 1] = H[s][k + 1]
      OBVIOUS
    <3>1. /\ k + 1 \in 1..n /\ (k + 1) - 1 = k
          /\ (k + 1 \in r <=> k + 1 \in s) /\ k <= m
      BY <1>7
    <3>2. H[r][k] = H[s][k]
      BY <3>1
    <3>3. H[s][k + 1] = IF k + 1 \in s THEN F[<<H[s][k], k + 1>>] ELSE H[s][k]
      BY <1>4
    <3>4. H[r][k + 1] = IF k + 1 \in r THEN F[<<H[r][k], k + 1>>] ELSE H[r][k]
      BY <1>4
    <3> QED
      BY <3>1, <3>2, <3>3, <3>4
  <2>3. 0..n \subseteq S
    <3> HIDE DEF S
    <3> QED
      BY <2>1, <2>2, BoundedInduction
  <2>4. m \in S
    BY <2>3
  <2> QED
    BY <2>4
<1>8. ASSUME NEW s \in SUBSET (1..n), s # {}
      PROVE  iter[s] = F[<<iter[s \ {Max(s)}], Max(s)>>]
  <2> DEFINE m == Max(s)
             r == s \ {m}
  <2>1. m \in s /\ \A k \in s : k <= m
    BY <1>8, LargestElement
  <2> HIDE DEF m
  <2>2. m \in 1..n /\ m - 1 \in 0..n /\ m \in 0..n /\ r \in SUBSET (1..n)
    BY <2>1
  <2>3. H[s][n] = H[s][m]
    BY <1>6, <2>1, <2>2
  <2>4. H[s][m] = F[<<H[s][m - 1], m>>]
    BY <1>1, <2>1, <2>2
  <2>5. H[r][n] = H[r][m - 1]
    <3>1. \A k \in r : k <= m - 1
      BY <2>1, <2>2
    <3> HIDE DEF r
    <3> QED
      BY <1>6, <2>2, <3>1
  <2>6. H[r][m - 1] = H[s][m - 1]
    <3>1. \A k \in 1..(m - 1) : k \in r <=> k \in s
      BY <2>2
    <3> HIDE DEF r
    <3> QED
      BY <1>7, <2>2, <3>1
  <2>7. iter[r] = H[r][n] /\ iter[s] = H[s][n]
    <3> HIDE DEF r
    <3> QED
      BY <1>3, <2>2
  <2>8. iter[s] = F[<<iter[r], m>>]
    <3> HIDE DEF r
    <3> QED
      BY <2>3, <2>4, <2>5, <2>6, <2>7
  <2> QED
    BY <2>8 DEF m
<1> QED
  BY <1>2, <1>5, <1>8 DEF IsRecursion

\* The same, as long as the results stay in T.
IsTypedRecursion(iter, n, T, base, F) ==
    /\ iter[{}] = base
    /\ \A s \in SUBSET (1..n) :
            /\ s # {}
            /\ iter[s \ {Max(s)}] \in T
            => iter[s] = F[<<iter[s \ {Max(s)}], Max(s)>>]

\* A fold that starts at base ends at r.
Leads(n, T, base, F, r) ==
    \E h \in [0..n -> T] : IsPath(h, n, base, F) /\ h[n] = r

\* What a solution gives for the intervals from 1 are the results the fold
\* passes through.
LEMMA RecursionIsPath ==
    ASSUME NEW n \in Nat, NEW T, NEW base \in T, NEW F \in [T \X (1..n) -> T],
           NEW iter, IsTypedRecursion(iter, n, T, base, F)
    PROVE  Leads(n, T, base, F, iter[1..n])
<1> DEFINE h == [k \in 0..n |-> iter[1..k]]
<1>1. h[0] = base
  <2>1. 1..0 = {}
    OBVIOUS
  <2> QED
    BY <2>1 DEF IsTypedRecursion
<1>2. ASSUME NEW k \in 1..n, h[k - 1] \in T
      PROVE  h[k] = F[<<h[k - 1], k>>] /\ h[k] \in T
  <2>1. k \in Nat \ {0} /\ 1..k # {} /\ 1..k \in SUBSET (1..n)
    <3>1. k \in Nat \ {0} /\ k \in 1..k
      OBVIOUS
    <3>2. \A j \in 1..k : j \in 1..n
      OBVIOUS
    <3> QED
      BY <3>1, <3>2
  <2>2. Max(1..k) = k /\ (1..k) \ {k} = 1..(k - 1)
    BY <2>1, LargestOfInterval
  <2>3. h[k] = iter[1..k] /\ h[k - 1] = iter[1..(k - 1)]
    OBVIOUS
  <2>4. iter[1..(k - 1)] \in T
    BY <1>2, <2>3
  <2>5. iter[1..k] = F[<<iter[1..(k - 1)], k>>]
    BY <2>1, <2>2, <2>4 DEF IsTypedRecursion
  <2> HIDE DEF h
  <2> QED
    BY <2>3, <2>4, <2>5
<1> DEFINE P == {k \in 0..n : h[k] \in T}
<1>3. 0..n \subseteq P
  <2>1. 0 \in P
    BY <1>1
  <2> HIDE DEF h
  <2>2. \A k \in 0..n : k \in P /\ k < n => k + 1 \in P
    <3> SUFFICES ASSUME NEW k \in 0..n, k \in P, k < n
                 PROVE  k + 1 \in P
      OBVIOUS
    <3> DEFINE j == k + 1
    <3>1. j \in 1..n /\ j - 1 = k /\ j \in 0..n
      OBVIOUS
    <3> HIDE DEF j
    <3>2. h[j] \in T
      BY <1>2, <3>1
    <3>3. j \in P
      BY <3>1, <3>2
    <3> QED
      BY <3>3 DEF j
  <2> HIDE DEF P
  <2> QED
    BY <2>1, <2>2, BoundedInduction
<1>4. h[n] = iter[1..n] /\ h = [k \in 0..n |-> h[k]]
  OBVIOUS
<1> HIDE DEF h
<1>5. \A k \in 0..n : h[k] \in T
  BY <1>3
<1>6. h \in [0..n -> T]
  BY <1>4, <1>5
<1>7. IsPath(h, n, base, F)
  <2> SUFFICES ASSUME NEW k \in 1..n
               PROVE  h[k] = F[<<h[k - 1], k>>]
    BY <1>1 DEF IsPath
  <2>1. h[k - 1] \in T
    BY <1>5
  <2> QED
    BY <1>2, <2>1
<1> QED
  BY <1>4, <1>6, <1>7 DEF Leads

AgreeOn(n, h, F, G) == \A k \in 1..n : F[<<h[k - 1], k>>] = G[<<h[k - 1], k>>]

SameUpTo(n, h, g) == \A k \in 0..n : g[k] = h[k]

\* Folds over lists with a common beginning pass through the same results.
LEMMA PathsAgree ==
    ASSUME NEW n \in Nat, NEW base, NEW F, NEW G, NEW h, NEW g,
           NEW m \in Nat, n <= m,
           IsPath(h, n, base, F), IsPath(g, m, base, G),
           AgreeOn(n, h, F, G)
    PROVE  SameUpTo(n, h, g)
<1> DEFINE P == {k \in 0..n : g[k] = h[k]}
<1>1. 0 \in P
  BY DEF IsPath
<1>2. \A k \in 0..n : k \in P /\ k < n => k + 1 \in P
  <2> SUFFICES ASSUME NEW k \in 0..n, g[k] = h[k], k < n
               PROVE  k + 1 \in P
    OBVIOUS
  <2> DEFINE j == k + 1
  <2>1. j \in 1..n /\ j \in 1..m /\ j - 1 = k /\ j \in 0..n
    OBVIOUS
  <2> HIDE DEF j
  <2>2. h[j] = F[<<h[k], j>>] /\ g[j] = G[<<g[k], j>>]
    BY <2>1 DEF IsPath
  <2>3. F[<<h[k], j>>] = G[<<h[k], j>>]
    BY <2>1 DEF AgreeOn
  <2>4. j \in P
    BY <2>1, <2>2, <2>3
  <2> QED
    BY <2>4 DEF j
<1> HIDE DEF P
<1>3. 0..n \subseteq P
  BY <1>1, <1>2, BoundedInduction
<1> QED
  BY <1>3 DEF P, SameUpTo

=============================================================================
