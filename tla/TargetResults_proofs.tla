------------------------ MODULE TargetResults_proofs ------------------------
(***************************************************************************)
(* What the proofs of several modules rest on.  First what is true of any  *)
(* sequence: what Append, concatenation and FlattenSeq hold, that a        *)
(* shuffle holds what it is made of, and how to count up to a length.      *)
(* Then what the operators of TargetResults do to a record: what the       *)
(* appends add, and that the normalisation of the report returns clean     *)
(* lists, is idempotent, keeps services beside their ports and loses no    *)
(* port of lists that pair up.                                             *)
(***************************************************************************)
EXTENDS TargetResults, SequencesExt, Functions, FiniteSetTheorems, SequenceTheorems,
        WellFoundedInduction, TLAPS

NoTwice(q) == \A i, j \in DOMAIN q : q[i] = q[j] => i = j

-----------------------------------------------------------------------------
(* Numbers *)

\* A set of numbers that is not empty has a least element.
LEMMA LeastElement ==
  ASSUME NEW K \in SUBSET Nat, NEW x \in K
  PROVE  \E i \in K : \A j \in K : i <= j
<1>1. PICK R : /\ IsWellFoundedOn(R, Nat)
               /\ \A i, j \in Nat : <<j, i>> \in R <=> j < i
  <2> DEFINE R == {ss \in Nat \X Nat : ss[1] < ss[2]}
  <2>1. IsWellFoundedOn(R, Nat)
    BY NatLessThanWellFounded DEF OpToRel
  <2>2. \A i, j \in Nat : <<j, i>> \in R <=> j < i
    OBVIOUS
  <2> QED
    BY <2>1, <2>2
<1>2. PICK i \in K : \A j \in K : ~(<<j, i>> \in R)
  BY <1>1, WFMin
<1>3. ASSUME NEW j \in K PROVE i <= j
  <2>1. i \in Nat /\ j \in Nat /\ ~(j < i)
    BY <1>1, <1>2
  <2> QED
    BY <2>1
<1> QED
  BY <1>3

\* What holds of 1 and passes on to the next number holds up to n.
LEMMA CountUp ==
  ASSUME NEW n \in Nat, NEW K, n >= 1 => 1 \in K,
         \A i \in 1..n : i \in K /\ i < n => i + 1 \in K
  PROVE  1..n \subseteq K
<1> DEFINE Bad == (1..n) \ K
<1> SUFFICES ASSUME NEW x \in Bad PROVE FALSE
  OBVIOUS
<1>1. Bad \in SUBSET Nat /\ IsFiniteSet(Bad)
  <2>1. IsFiniteSet(1..n) /\ 1..n \subseteq Nat
    BY FS_Interval
  <2> QED
    BY <2>1, FS_Subset
<1>2. PICK i \in Bad : \A j \in Bad : i <= j
  BY <1>1, LeastElement
<1>3. i \in 1..n /\ i \notin K /\ i # 1
  BY <1>2
<1>4. i - 1 \in 1..n /\ i - 1 < n /\ (i - 1) + 1 = i /\ ~(i <= i - 1)
  BY <1>3
<1>5. i - 1 \in K
  BY <1>2, <1>4
<1> QED
  BY <1>3, <1>4, <1>5

-----------------------------------------------------------------------------
(* Append and concatenation *)

\* An append adds one element.
LEMMA AppendElements ==
  ASSUME NEW S, NEW q \in Seq(S), NEW p \in S
  PROVE  {Append(q, p)[i] : i \in DOMAIN Append(q, p)} =
           {q[i] : i \in DOMAIN q} \cup {p}
<1>1. /\ DOMAIN q = 1..Len(q)
      /\ DOMAIN Append(q, p) = 1..(Len(q) + 1)
      /\ Len(q) \in Nat
      /\ Append(q, p)[Len(q) + 1] = p
      /\ \A i \in 1..Len(q) : Append(q, p)[i] = q[i]
  OBVIOUS
<1>2. \A i \in 1..(Len(q) + 1) : i \in 1..Len(q) \/ i = Len(q) + 1
  BY <1>1
<1>3. Len(q) + 1 \in 1..(Len(q) + 1) /\ \A i \in 1..Len(q) : i \in 1..(Len(q) + 1)
  BY <1>1
<1> QED
  BY <1>1, <1>2, <1>3, Zenon

\* Appending what a list does not hold leaves it free of duplicates.
LEMMA AppendNoTwice ==
  ASSUME NEW S, NEW q \in Seq(S), NEW p \in S, NoTwice(q), \A i \in DOMAIN q : q[i] # p
  PROVE  NoTwice(Append(q, p))
<1>1. /\ DOMAIN q = 1..Len(q)
      /\ DOMAIN Append(q, p) = 1..(Len(q) + 1)
      /\ Len(q) \in Nat
      /\ Append(q, p)[Len(q) + 1] = p
      /\ \A i \in 1..Len(q) : Append(q, p)[i] = q[i]
  OBVIOUS
<1>2. \A i \in 1..(Len(q) + 1) : i \in 1..Len(q) \/ i = Len(q) + 1
  BY <1>1
<1>3. \A i, j \in 1..Len(q) : q[i] = q[j] => i = j
  BY <1>1 DEF NoTwice
<1>4. \A i, j \in DOMAIN Append(q, p) : Append(q, p)[i] = Append(q, p)[j] => i = j
  BY <1>1, <1>2, <1>3
<1> QED
  BY <1>4 DEF NoTwice

\* A concatenation holds what its two parts hold.
LEMMA ConcatElements ==
  ASSUME NEW S, NEW s \in Seq(S), NEW t \in Seq(S)
  PROVE  /\ s \o t \in Seq(S)
         /\ ToSet(s \o t) = ToSet(s) \cup ToSet(t)
         /\ NoTwice(s) /\ NoTwice(t) /\ ToSet(s) \cap ToSet(t) = {} => NoTwice(s \o t)
<1> DEFINE m == Len(s)
           n == Len(t)
           c == s \o t
<1>1. /\ m \in Nat /\ n \in Nat /\ c \in Seq(S) /\ DOMAIN c = 1..(m + n)
      /\ DOMAIN s = 1..m /\ DOMAIN t = 1..n
      /\ \A i \in 1..(m + n) : c[i] = IF i <= m THEN s[i] ELSE t[i - m]
  <2>1. c \in Seq(S) /\ Len(c) = m + n
        /\ \A i \in 1..(m + n) : c[i] = IF i <= m THEN s[i] ELSE t[i - m]
    BY ConcatProperties
  <2> HIDE DEF c
  <2> QED
    BY <2>1
<1> HIDE DEF c, m, n
<1>2. \A i \in 1..(m + n) : \/ i \in 1..m /\ c[i] = s[i]
                            \/ ~(i <= m) /\ i - m \in 1..n /\ c[i] = t[i - m]
  BY <1>1
<1>3. \A i \in 1..m : i \in 1..(m + n) /\ c[i] = s[i]
  BY <1>1
<1>4. \A i \in 1..n : i + m \in 1..(m + n) /\ c[i + m] = t[i]
  <2> SUFFICES ASSUME NEW i \in 1..n PROVE i + m \in 1..(m + n) /\ c[i + m] = t[i]
    OBVIOUS
  <2>1. i + m \in 1..(m + n) /\ ~(i + m <= m) /\ (i + m) - m = i
    BY <1>1
  <2>2. c[i + m] = t[(i + m) - m]
    BY <1>1, <2>1
  <2> QED
    BY <2>1, <2>2
<1>5. ToSet(c) = ToSet(s) \cup ToSet(t)
  <2>1. ASSUME NEW x \in ToSet(c) PROVE x \in ToSet(s) \cup ToSet(t)
    <3>1. PICK i \in 1..(m + n) : x = c[i]
      BY <1>1 DEF ToSet
    <3> QED
      BY <1>1, <1>2, <3>1 DEF ToSet
  <2>2. ASSUME NEW x \in ToSet(s) PROVE x \in ToSet(c)
    BY <1>1, <1>3 DEF ToSet
  <2>3. ASSUME NEW x \in ToSet(t) PROVE x \in ToSet(c)
    <3>1. PICK i \in 1..n : x = t[i]
      BY <1>1, <2>3 DEF ToSet
    <3>2. i + m \in 1..(m + n) /\ c[i + m] = x
      BY <1>4, <3>1
    <3> QED
      BY <1>1, <3>2 DEF ToSet
  <2> QED
    BY <2>1, <2>2, <2>3
<1>6. ASSUME NoTwice(s), NoTwice(t), ToSet(s) \cap ToSet(t) = {},
             NEW i \in 1..(m + n), NEW j \in 1..(m + n), c[i] = c[j]
      PROVE  i = j
  <2>1. CASE i \in 1..m /\ c[i] = s[i] /\ j \in 1..m /\ c[j] = s[j]
    BY <1>1, <1>6, <2>1 DEF NoTwice
  <2>2. CASE i - m \in 1..n /\ c[i] = t[i - m] /\ j - m \in 1..n /\ c[j] = t[j - m]
    <3>1. i - m = j - m
      BY <1>1, <1>6, <2>2 DEF NoTwice
    <3> QED
      BY <1>1, <3>1
  <2>3. CASE i \in 1..m /\ c[i] = s[i] /\ j - m \in 1..n /\ c[j] = t[j - m]
    BY <1>1, <1>6, <2>3 DEF ToSet
  <2>4. CASE j \in 1..m /\ c[j] = s[j] /\ i - m \in 1..n /\ c[i] = t[i - m]
    BY <1>1, <1>6, <2>4 DEF ToSet
  <2> QED
    BY <1>2, <2>1, <2>2, <2>3, <2>4
<1> QED
  BY <1>1, <1>5, <1>6 DEF NoTwice, c

-----------------------------------------------------------------------------
(* FlattenSeq *)

\* What the library's FlattenSeq chooses: the prefixes of the result, one after the other.
Flattening(f, seqs, n) ==
  f = [i \in 1..n |-> IF i = 1 THEN seqs[i] ELSE f[i - 1] \o seqs[i]]

LEMMA FlatteningExists ==
  ASSUME NEW seqs, NEW n \in Nat
  PROVE  \E f : Flattening(f, seqs, n)
<1> DEFINE K == {i \in Nat : \E f : Flattening(f, seqs, i)}
<1>1. 1 \in K
  <2> DEFINE f == [i \in 1..1 |-> seqs[i]]
  <2>1. Flattening(f, seqs, 1)
    BY DEF Flattening
  <2> QED
    BY <2>1
<1>2. ASSUME NEW i \in 1..n, i \in K PROVE i + 1 \in K
  <2>1. PICK f : Flattening(f, seqs, i)
    BY <1>2
  <2> DEFINE g == [j \in 1..(i + 1) |-> IF j = i + 1 THEN f[i] \o seqs[i + 1] ELSE f[j]]
  <2>2. \A j \in 1..i : f[j] = IF j = 1 THEN seqs[j] ELSE f[j - 1] \o seqs[j]
    BY <2>1 DEF Flattening
  <2>3. ASSUME NEW j \in 1..(i + 1)
        PROVE  g[j] = IF j = 1 THEN seqs[j] ELSE g[j - 1] \o seqs[j]
    <3>1. CASE j = i + 1
      <4>1. j # 1 /\ j - 1 = i /\ i \in 1..(i + 1) /\ i # i + 1
        BY <3>1
      <4>2. g[j] = f[i] \o seqs[j] /\ g[i] = f[i]
        BY <3>1, <4>1
      <4> HIDE DEF g
      <4> QED
        BY <4>1, <4>2
    <3>2. CASE j # i + 1
      <4>1. j \in 1..i /\ g[j] = f[j]
        BY <3>2
      <4>2. j # 1 => j - 1 \in 1..(i + 1) /\ g[j - 1] = f[j - 1]
        BY <3>2
      <4> HIDE DEF g
      <4> QED
        BY <2>2, <4>1, <4>2
    <3> QED
      BY <3>1, <3>2
  <2>4. g = [j \in 1..(i + 1) |-> g[j]]
    OBVIOUS
  <2> HIDE DEF g
  <2>5. Flattening(g, seqs, i + 1)
    BY <2>3, <2>4 DEF Flattening
  <2> QED
    BY <2>5
<1> HIDE DEF K
<1>3. 1..n \subseteq K
  BY <1>1, <1>2, CountUp
<1>4. CASE n = 0
  <2> DEFINE f == [i \in 1..0 |-> seqs[i]]
  <2>1. Flattening(f, seqs, 0)
    BY DEF Flattening
  <2> QED
    BY <1>4, <2>1
<1> QED
  BY <1>3, <1>4 DEF K

\* No part holds anything twice, and no two parts have an element in common.
PartsApart(seqs, n) ==
  /\ \A i \in 1..n : NoTwice(seqs[i])
  /\ \A i, j \in 1..n : i # j => ToSet(seqs[i]) \cap ToSet(seqs[j]) = {}

\* FlattenSeq(seqs) holds what the parts hold, and nothing twice if no part does and no two
\* parts have an element in common.
LEMMA FlattenElements ==
  ASSUME NEW S, NEW seqs, NEW n \in Nat, DOMAIN seqs = 1..n, Len(seqs) = n,
         n = 0 => seqs = <<>>,
         \A i \in 1..n : seqs[i] \in Seq(S)
  PROVE  /\ FlattenSeq(seqs) \in Seq(S)
         /\ ToSet(FlattenSeq(seqs)) = UNION {ToSet(seqs[i]) : i \in 1..n}
         /\ PartsApart(seqs, n) => NoTwice(FlattenSeq(seqs))
<1>1. CASE n = 0
  <2>1. FlattenSeq(seqs) = <<>>
    BY <1>1 DEF FlattenSeq
  <2>2. ToSet(<<>>) = {} /\ NoTwice(<<>>)
    BY DEF ToSet, NoTwice
  <2> QED
    BY <1>1, <2>1, <2>2
<1>2. CASE n # 0
  <2> DEFINE f == CHOOSE f : Flattening(f, seqs, n)
             Good(i) == /\ f[i] \in Seq(S)
                        /\ ToSet(f[i]) = UNION {ToSet(seqs[j]) : j \in 1..i}
                        /\ PartsApart(seqs, n) => NoTwice(f[i])
             K == {i \in 1..n : Good(i)}
  <2>1. FlattenSeq(seqs) = f[n]
    BY <1>2 DEF FlattenSeq, Flattening
  <2>2. Flattening(f, seqs, n)
    BY FlatteningExists
  <2> HIDE DEF f
  <2>3. \A i \in 1..n : f[i] = IF i = 1 THEN seqs[i] ELSE f[i - 1] \o seqs[i]
    BY <2>2 DEF Flattening
  <2>4. 1 \in K
    <3>1. 1 \in 1..n /\ f[1] = seqs[1] /\ 1..1 = {1}
      BY <1>2, <2>3
    <3> QED
      BY <3>1 DEF PartsApart
  <2>5. ASSUME NEW i \in 1..n, i \in K, i < n PROVE i + 1 \in K
    <3>1. i + 1 \in 1..n /\ f[i + 1] = f[i] \o seqs[i + 1] /\ 1..(i + 1) = 1..i \cup {i + 1}
          /\ i \in 1..i /\ i + 1 \notin 1..i /\ 1..i \subseteq 1..n
      <4>1. i + 1 \in 1..n /\ i + 1 # 1 /\ (i + 1) - 1 = i
        BY <2>5
      <4>2. f[i + 1] = f[i] \o seqs[i + 1]
        BY <2>3, <4>1
      <4> QED
        BY <4>1, <4>2
    <3>2. Good(i)
      BY <2>5
    <3>3. /\ f[i + 1] \in Seq(S)
          /\ ToSet(f[i + 1]) = ToSet(f[i]) \cup ToSet(seqs[i + 1])
          /\ /\ NoTwice(f[i]) /\ NoTwice(seqs[i + 1])
             /\ ToSet(f[i]) \cap ToSet(seqs[i + 1]) = {}
             => NoTwice(f[i + 1])
      BY <3>1, <3>2, ConcatElements
    <3>4. ToSet(f[i + 1]) = UNION {ToSet(seqs[j]) : j \in 1..(i + 1)}
      BY <3>1, <3>2, <3>3
    <3>5. ASSUME PartsApart(seqs, n) PROVE NoTwice(f[i + 1])
      <4>1. ToSet(f[i]) \cap ToSet(seqs[i + 1]) = {}
        BY <3>1, <3>2, <3>5 DEF PartsApart
      <4> QED
        BY <3>1, <3>2, <3>3, <3>5, <4>1 DEF PartsApart
    <3> QED
      BY <3>1, <3>3, <3>4, <3>5
  <2> HIDE DEF K
  <2>6. 1..n \subseteq K
    BY <2>4, <2>5, CountUp
  <2>7. n \in 1..n
    BY <1>2
  <2>8. Good(n)
    BY <2>6, <2>7 DEF K
  <2> QED
    BY <2>1, <2>8
<1> QED
  BY <1>1, <1>2

-----------------------------------------------------------------------------
(* Shuffles *)

\* A list in another order holds what it held.
LEMMA ShuffleElements ==
  ASSUME NEW S, NEW s \in Seq(S), NEW order \in SetToSeqs(DOMAIN s),
         NEW t, t = [i \in DOMAIN s |-> s[order[i]]]
  PROVE  t \in Seq(S) /\ ToSet(t) = ToSet(s)
<1> DEFINE n == Len(s)
<1>1. n \in Nat /\ DOMAIN s = 1..n
  OBVIOUS
<1> HIDE DEF n
<1>2. IsFiniteSet(1..n) /\ Cardinality(1..n) = n
  BY <1>1, FS_Interval
<1>3. order \in Injection(1..n, 1..n)
  BY <1>1, <1>2 DEF SetToSeqs, Injection, IsInjective
<1>4. order \in Surjection(1..n, 1..n)
  BY <1>2, <1>3, FS_Injection
<1>5. /\ \A i \in 1..n : order[i] \in 1..n
      /\ \A j \in 1..n : \E i \in 1..n : order[i] = j
  BY <1>4 DEF Surjection
<1>6. t \in Seq(S) /\ DOMAIN t = 1..n
  BY <1>1, <1>5
<1> QED
  BY <1>1, <1>5, <1>6 DEF ToSet


-----------------------------------------------------------------------------
(* The elements of a set of numbers in increasing order *)

\* The ranks of the numbers of a finite set are different and in their order.
LEMMA RankType ==
  ASSUME NEW K \in SUBSET Nat, IsFiniteSet(K)
  PROVE  /\ Cardinality(K) \in Nat
         /\ \A i \in K : Rank(K, i) \in 1..Cardinality(K)
         /\ \A i, j \in K : i < j => Rank(K, i) < Rank(K, j)
<1> DEFINE n == Cardinality(K)
           upto(i) == {j \in K : j <= i}
<1>1. n \in Nat
  BY FS_CardinalityType
<1>2. ASSUME NEW i \in K PROVE /\ IsFiniteSet(upto(i))
                               /\ Rank(K, i) \in 1..n
  <2>1. upto(i) \in SUBSET K /\ i \in upto(i)
    OBVIOUS
  <2>2. /\ IsFiniteSet(upto(i))
        /\ Cardinality(upto(i)) \in Nat
        /\ Cardinality(upto(i)) <= n
        /\ Cardinality(upto(i)) # 0
    BY <2>1, FS_Subset, FS_CardinalityType, FS_EmptySet
  <2> QED
    BY <2>2, <1>1 DEF Rank
<1>3. ASSUME NEW i \in K, NEW j \in K, i < j PROVE Rank(K, i) < Rank(K, j)
  <2>1. upto(i) \in SUBSET upto(j) /\ j \in upto(j) /\ j \notin upto(i)
    <3>1. \A x \in K : x \in Nat
      OBVIOUS
    <3>2. ASSUME NEW x \in K, x <= i PROVE x <= j
      BY <3>1, <3>2, <1>3
    <3>3. ~(j <= i) /\ j <= j
      BY <3>1, <1>3
    <3> QED
      BY <3>2, <3>3
  <2>2. IsFiniteSet(upto(j))
    BY <1>2
  <2>3. Cardinality(upto(i)) # Cardinality(upto(j)) /\ Cardinality(upto(i)) <= Cardinality(upto(j))
    BY <2>1, <2>2, FS_Subset
  <2>4. Rank(K, i) # Rank(K, j) /\ Rank(K, i) <= Rank(K, j)
    BY <2>3 DEF Rank
  <2>5. Rank(K, i) \in Int /\ Rank(K, j) \in Int
    <3>1. Rank(K, i) \in 1..n /\ Rank(K, j) \in 1..n
      BY <1>2
    <3> QED
      BY <1>1, <3>1
  <2> QED
    BY <2>4, <2>5
<1> QED
  BY <1>1, <1>2, <1>3

\* Each rank up to the size of the set is taken.
LEMMA RankIsOnto ==
  ASSUME NEW K \in SUBSET Nat, IsFiniteSet(K),
         NEW k \in 1..Cardinality(K)
  PROVE  \E i \in K : Rank(K, i) = k
<1> DEFINE n == Cardinality(K)
           r == [i \in K |-> Rank(K, i)]
<1>1. n \in Nat
  BY RankType
<1>2. r \in Injection(K, 1..n)
  <2>1. r \in [K -> 1..n]
    BY RankType
  <2>2. ASSUME NEW i \in K, NEW j \in K, r[i] = r[j] PROVE i = j
    <3>1. i \in Nat /\ j \in Nat /\ r[i] \in Nat
      BY <1>1, <2>1
    <3>2. ~(i < j) /\ ~(j < i)
      BY <2>2, <3>1, RankType
    <3> QED
      BY <3>1, <3>2
  <2> QED
    BY <2>1, <2>2 DEF Injection, IsInjective
<1>3. IsFiniteSet(1..n) /\ Cardinality(1..n) = n
  BY <1>1, FS_Interval
<1>4. r \in Surjection(K, 1..n)
  BY <1>2, <1>3, FS_Injection
<1> QED
  BY <1>4 DEF Surjection

\* InOrder names every element once, in increasing order.
LEMMA InOrderProperties ==
  ASSUME NEW K \in SUBSET Nat, IsFiniteSet(K)
  PROVE  /\ Cardinality(K) \in Nat
         /\ DOMAIN InOrder(K) = 1..Cardinality(K)
         /\ \A k \in 1..Cardinality(K) : /\ InOrder(K)[k] \in K
                                         /\ Rank(K, InOrder(K)[k]) = k
         /\ \A i \in K : \E k \in 1..Cardinality(K) : InOrder(K)[k] = i
         /\ \A j, k \in 1..Cardinality(K) : j < k => InOrder(K)[j] < InOrder(K)[k]
<1> DEFINE n == Cardinality(K)
           f == InOrder(K)
<1>1. n \in Nat /\ DOMAIN f = 1..n
  BY RankType DEF InOrder
<1>2. ASSUME NEW k \in 1..n PROVE f[k] \in K /\ Rank(K, f[k]) = k
  <2>1. \E i \in K : Rank(K, i) = k
    BY RankIsOnto
  <2>2. f[k] = CHOOSE i \in K : Rank(K, i) = k
    BY DEF InOrder
  <2> QED
    BY <2>1, <2>2
<1> HIDE DEF f
<1>3. \A i \in K : i \in Nat
  OBVIOUS
<1>4. ASSUME NEW i \in K PROVE \E k \in 1..n : f[k] = i
  <2> DEFINE k == Rank(K, i)
  <2>1. k \in 1..n
    BY RankType
  <2>2. f[k] \in K /\ Rank(K, f[k]) = Rank(K, i)
    BY <1>2, <2>1
  <2> HIDE DEF k
  <2>3. f[k] \in Nat /\ i \in Nat
    BY <1>3, <2>2
  <2>4. Rank(K, i) \in Int
    <3>1. Rank(K, i) \in 1..n
      BY RankType
    <3> QED
      BY <1>1, <3>1
  <2>5. ~(f[k] < i) /\ ~(i < f[k])
    <3>1. /\ f[k] < i => Rank(K, f[k]) < Rank(K, i)
          /\ i < f[k] => Rank(K, i) < Rank(K, f[k])
      BY <2>2, RankType
    <3> QED
      BY <2>2, <2>4, <3>1
  <2> QED
    BY <2>1, <2>3, <2>5
<1>5. ASSUME NEW j \in 1..n, NEW k \in 1..n, j < k PROVE f[j] < f[k]
  <2>1. f[j] \in Nat /\ f[k] \in Nat /\ j \in Nat /\ k \in Nat
    <3>1. f[j] \in Nat /\ f[k] \in Nat
      BY <1>2, <1>3
    <3>2. j \in Nat /\ k \in Nat
      BY <1>1
    <3> QED
      BY <3>1, <3>2
  <2>2. f[j] # f[k]
    BY <1>2, <1>5, <2>1
  <2>3. ~(f[k] < f[j])
    <3> SUFFICES ASSUME f[k] < f[j] PROVE FALSE
      OBVIOUS
    <3>1. Rank(K, f[k]) < Rank(K, f[j])
      BY <1>2, RankType
    <3> QED
      BY <1>2, <1>5, <2>1, <3>1
  <2> QED
    BY <2>1, <2>2, <2>3
<1> QED
  BY <1>1, <1>2, <1>4, <1>5 DEF f

-----------------------------------------------------------------------------
(* What deduplicate_sync keeps *)

\* The indices kept are indices of both lists, in increasing order.
LEMMA KeptOrder ==
  ASSUME NEW keys, NEW values, NEW S, NEW V, keys \in Seq(S), values \in Seq(V)
  PROVE  LET f == Kept(keys, values)
             n == Cardinality(FirstSeen(keys, values))
         IN  /\ DOMAIN f = 1..n /\ n \in Nat
             /\ \A k \in DOMAIN f : f[k] \in DOMAIN keys \cap DOMAIN values
             /\ \A k \in DOMAIN f : f[k] \in FirstSeen(keys, values)
             /\ \A k \in DOMAIN f : Rank(FirstSeen(keys, values), f[k]) = k
             /\ \A i \in FirstSeen(keys, values) : \E k \in 1..n : f[k] = i
             /\ \A j, k \in 1..n : j < k => f[j] < f[k]
<1> DEFINE K == FirstSeen(keys, values)
<1>1. /\ K \in SUBSET (1..Len(keys)) /\ K \in SUBSET Nat
      /\ \A i \in K : i \in DOMAIN keys /\ i \in DOMAIN values
  BY DEF FirstSeen
<1>2. IsFiniteSet(K)
  <2>1. IsFiniteSet(1..Len(keys))
    BY FS_Interval
  <2> QED
    BY <1>1, <2>1, FS_Subset
<1> HIDE DEF K
<1>3. /\ Cardinality(K) \in Nat
      /\ DOMAIN InOrder(K) = 1..Cardinality(K)
      /\ \A k \in 1..Cardinality(K) : /\ InOrder(K)[k] \in K
                                      /\ Rank(K, InOrder(K)[k]) = k
      /\ \A i \in K : \E k \in 1..Cardinality(K) : InOrder(K)[k] = i
      /\ \A j, k \in 1..Cardinality(K) : j < k => InOrder(K)[j] < InOrder(K)[k]
  BY <1>1, <1>2, InOrderProperties
<1> QED
  BY <1>1, <1>3 DEF Kept, K

LEMMA KeptType ==
  ASSUME NEW keys, NEW values, NEW S, NEW V, keys \in Seq(S), values \in Seq(V)
  PROVE  LET f == Kept(keys, values)
         IN  /\ DOMAIN f = 1..Cardinality(FirstSeen(keys, values))
             /\ Cardinality(FirstSeen(keys, values)) \in Nat
             /\ \A k \in DOMAIN f : f[k] \in DOMAIN keys \cap DOMAIN values
  BY KeptOrder

\* Every key that zip reaches is the key of an index kept.
LEMMA FirstSeenCovers ==
  ASSUME NEW keys, NEW values, NEW S, NEW V, keys \in Seq(S), values \in Seq(V),
         NEW i \in DOMAIN keys \cap DOMAIN values
  PROVE  \E j \in FirstSeen(keys, values) : keys[j] = keys[i]
<1> DEFINE K == {j \in DOMAIN keys \cap DOMAIN values : keys[j] = keys[i]}
<1>1. DOMAIN keys = 1..Len(keys) /\ DOMAIN values = 1..Len(values)
      /\ Len(keys) \in Nat /\ Len(values) \in Nat
  OBVIOUS
<1>2. K \in SUBSET Nat /\ K \in SUBSET (1..Len(keys)) /\ i \in K
  BY <1>1
<1>3. IsFiniteSet(K)
  <2>1. IsFiniteSet(1..Len(keys))
    BY <1>1, FS_Interval
  <2> QED
    BY <1>2, <2>1, FS_Subset
<1>4. PICK j \in K : \A k \in K : j <= k
  BY <1>2, <1>3, LeastElement
<1>5. ASSUME NEW k \in DOMAIN keys, k < j, keys[k] = keys[j] PROVE FALSE
  <2>1. k \in DOMAIN values /\ keys[k] = keys[i]
    BY <1>1, <1>4, <1>5
  <2>2. k \in K /\ k \in Nat /\ j \in Nat
    BY <1>1, <1>2, <2>1
  <2> QED
    BY <1>4, <1>5, <2>2
<1> QED
  BY <1>4, <1>5 DEF FirstSeen

\* Two lists that pair up, with no key twice.
Clean(keys, values) ==
  /\ Len(keys) = Len(values)
  /\ \A i, j \in DOMAIN keys : keys[i] = keys[j] => i = j

\* Picking the elements of a sequence at a sequence of indices.
LEMMA AtType ==
  ASSUME NEW S, NEW s \in Seq(S), NEW f, NEW n \in Nat, DOMAIN f = 1..n,
         \A k \in 1..n : f[k] \in DOMAIN s
  PROVE  /\ At(s, f) \in Seq(S)
         /\ Len(At(s, f)) = n
         /\ \A k \in 1..n : At(s, f)[k] = s[f[k]]
  BY DEF At

\* The lists that deduplicate_sync returns pair up, with no key twice.
LEMMA PickedClean ==
  ASSUME NEW keys, NEW values, NEW S, NEW V, keys \in Seq(S), values \in Seq(V)
  PROVE  Clean(At(keys, Kept(keys, values)), At(values, Kept(keys, values)))
<1> DEFINE f == Kept(keys, values)
           n == Cardinality(FirstSeen(keys, values))
<1>1. /\ n \in Nat /\ DOMAIN f = 1..n
      /\ \A k \in 1..n : f[k] \in DOMAIN keys /\ f[k] \in DOMAIN values
      /\ \A k \in 1..n : f[k] \in FirstSeen(keys, values)
      /\ \A j, k \in 1..n : j < k => f[j] < f[k]
  BY KeptOrder
<1> HIDE DEF f, n
<1>2. /\ At(keys, f) \in Seq(S) /\ Len(At(keys, f)) = n
      /\ \A k \in 1..n : At(keys, f)[k] = keys[f[k]]
      /\ Len(At(values, f)) = n
  BY <1>1, AtType
<1>3. ASSUME NEW j \in 1..n, NEW k \in 1..n, j < k PROVE keys[f[j]] # keys[f[k]]
  BY <1>1, <1>3 DEF FirstSeen
<1>4. ASSUME NEW j \in 1..n, NEW k \in 1..n, keys[f[j]] = keys[f[k]] PROVE j = k
  <2>1. ~(j < k) /\ ~(k < j)
    BY <1>3, <1>4
  <2> QED
    BY <1>1, <2>1
<1>5. DOMAIN At(keys, f) = 1..n
  BY <1>1, <1>2
<1> QED
  BY <1>2, <1>4, <1>5 DEF Clean, f

\* They hold every key that has a value.
LEMMA PickedAll ==
  ASSUME NEW keys, NEW values, NEW S, NEW V, keys \in Seq(S), values \in Seq(V),
         NEW i \in DOMAIN keys \cap DOMAIN values
  PROVE  \E k \in DOMAIN At(keys, Kept(keys, values)) :
           At(keys, Kept(keys, values))[k] = keys[i]
<1> DEFINE f == Kept(keys, values)
           n == Cardinality(FirstSeen(keys, values))
<1>1. /\ n \in Nat /\ DOMAIN f = 1..n
      /\ \A k \in 1..n : f[k] \in DOMAIN keys
      /\ \A j \in FirstSeen(keys, values) : \E k \in 1..n : f[k] = j
  BY KeptOrder
<1>2. PICK j \in FirstSeen(keys, values) : keys[j] = keys[i]
  BY FirstSeenCovers
<1>3. PICK k \in 1..n : f[k] = j
  BY <1>1, <1>2
<1> HIDE DEF f, n
<1>4. k \in DOMAIN At(keys, f) /\ At(keys, f)[k] = keys[f[k]]
  BY <1>1 DEF At
<1> QED
  BY <1>2, <1>3, <1>4 DEF f

\* What deduplicate_sync returned is returned unchanged.
LEMMA CleanFixed ==
  ASSUME NEW keys, NEW values, NEW S, NEW V, keys \in Seq(S), values \in Seq(V),
         Clean(keys, values)
  PROVE  At(keys, Kept(keys, values)) = keys /\ At(values, Kept(keys, values)) = values
<1> DEFINE f == Kept(keys, values)
           n == Len(keys)
<1>1. n \in Nat /\ DOMAIN keys = 1..n /\ DOMAIN values = 1..n
  BY DEF Clean
<1>2. FirstSeen(keys, values) = 1..n
  BY <1>1 DEF FirstSeen, Clean
<1>3. Cardinality(1..n) = n
  BY <1>1, FS_Interval
<1>4. /\ DOMAIN f = 1..n
      /\ \A k \in 1..n : f[k] \in 1..n /\ Rank(1..n, f[k]) = k
  BY <1>1, <1>2, <1>3, KeptOrder
<1> HIDE DEF f
<1>5. ASSUME NEW k \in 1..n PROVE f[k] = k
  <2>1. {j \in 1..n : j <= f[k]} = 1..f[k]
    BY <1>1, <1>4
  <2>2. f[k] \in Int /\ f[k] >= 1
    BY <1>1, <1>4
  <2>3. Cardinality(1..f[k]) = f[k]
    BY <2>2, FS_Interval
  <2> QED
    BY <1>4, <2>1, <2>3 DEF Rank
<1>6. keys = [k \in 1..n |-> keys[k]] /\ values = [k \in 1..n |-> values[k]]
  BY <1>1
<1> QED
  BY <1>4, <1>5, <1>6 DEF At, f

-----------------------------------------------------------------------------
(* The normalisation of a record *)

\* The normalisation gives a record, and keeps no port that was not recorded.
LEMMA SyncAndDeduplicateType ==
  ASSUME NEW r \in Results
  PROVE  /\ SyncAndDeduplicate(r) \in Results
         /\ \A b \in Buckets :
              Recorded(SyncAndDeduplicate(r), b) \subseteq Recorded(r, b)
<1> DEFINE n(b) == Cardinality(FirstSeen(r.ports[b], r.services[b]))
           f(b) == Kept(r.ports[b], r.services[b])
           m == Cardinality(FirstSeen(r.banners, r.banners_ports))
           g == Kept(r.banners, r.banners_ports)
<1>1. ASSUME NEW b \in Buckets
      PROVE  /\ At(r.ports[b], f(b)) \in Seq(Ports)
             /\ At(r.services[b], f(b)) \in Seq(Services)
             /\ \A k \in DOMAIN At(r.ports[b], f(b)) :
                  \E i \in DOMAIN r.ports[b] : At(r.ports[b], f(b))[k] = r.ports[b][i]
  <2>1. r.ports[b] \in Seq(Ports) /\ r.services[b] \in Seq(Services)
    BY DEF Results
  <2>2. /\ n(b) \in Nat /\ DOMAIN f(b) = 1..n(b)
        /\ \A k \in 1..n(b) : /\ f(b)[k] \in DOMAIN r.ports[b]
                              /\ f(b)[k] \in DOMAIN r.services[b]
    BY <2>1, KeptType
  <2> HIDE DEF f, n
  <2>3. /\ At(r.ports[b], f(b)) \in Seq(Ports)
        /\ Len(At(r.ports[b], f(b))) = n(b)
        /\ \A k \in 1..n(b) : At(r.ports[b], f(b))[k] = r.ports[b][f(b)[k]]
    <3> DEFINE s == r.ports[b]
               q == f(b)
               l == n(b)
    <3>1. s \in Seq(Ports) /\ l \in Nat /\ DOMAIN q = 1..l /\ \A k \in 1..l : q[k] \in DOMAIN s
      BY <2>1, <2>2
    <3> HIDE DEF s, q, l
    <3>2. At(s, q) \in Seq(Ports) /\ Len(At(s, q)) = l /\ \A k \in 1..l : At(s, q)[k] = s[q[k]]
      BY <3>1, AtType
    <3> QED
      BY <3>2 DEF s, q, l
  <2>4. At(r.services[b], f(b)) \in Seq(Services)
    BY <2>1, <2>2, AtType
  <2> QED
    BY <2>2, <2>3, <2>4
<1>2. At(r.banners, g) \in Seq(Texts) /\ At(r.banners_ports, g) \in Seq(Ports)
  <2>1. r.banners \in Seq(Texts) /\ r.banners_ports \in Seq(Ports)
    BY DEF Results
  <2>2. /\ m \in Nat /\ DOMAIN g = 1..m
        /\ \A k \in 1..m : /\ g[k] \in DOMAIN r.banners
                           /\ g[k] \in DOMAIN r.banners_ports
    BY <2>1, KeptType
  <2> HIDE DEF g, m
  <2> QED
    BY <2>1, <2>2, AtType
<1>3. \A b \in Buckets : r.ports[b] \in Seq(Ports) /\ r.services[b] \in Seq(Services)
  BY DEF Results
<1>4. SyncAndDeduplicate(r) =
        [ ports |-> [b \in Buckets |-> IF b \in SyncedBuckets
                                       THEN At(r.ports[b], f(b)) ELSE r.ports[b]],
          services |-> [b \in Buckets |-> IF b \in SyncedBuckets
                                          THEN At(r.services[b], f(b))
                                          ELSE r.services[b]],
          banners |-> At(r.banners, g),
          banners_ports |-> At(r.banners_ports, g) ]
  BY DEF SyncAndDeduplicate, SyncedBuckets
<1> HIDE DEF f, g
<1>5. SyncAndDeduplicate(r) \in Results
  BY <1>1, <1>2, <1>3, <1>4 DEF Results
<1>6. ASSUME NEW b \in Buckets
      PROVE Recorded(SyncAndDeduplicate(r), b) \subseteq Recorded(r, b)
  <2>1. CASE b \in SyncedBuckets
    <3>1. SyncAndDeduplicate(r).ports[b] = At(r.ports[b], f(b))
      BY <1>4, <2>1
    <3>2. Recorded(SyncAndDeduplicate(r), b) =
            {At(r.ports[b], f(b))[k] : k \in DOMAIN At(r.ports[b], f(b))}
      BY <3>1 DEF Recorded
    <3>3. \A k \in DOMAIN At(r.ports[b], f(b)) :
            \E i \in DOMAIN r.ports[b] : At(r.ports[b], f(b))[k] = r.ports[b][i]
      BY <1>1
    <3> QED
      BY <3>2, <3>3, Zenon DEF Recorded
  <2>2. CASE b \notin SyncedBuckets
    BY <1>4, <2>2 DEF Recorded
  <2> QED
    BY <2>1, <2>2
<1> QED
  BY <1>5, <1>6

\* A printed record: the lists of the buckets that the report normalises pair up, and so
\* do the banners, with nothing twice.
CleanRecord(r) ==
  /\ \A b \in SyncedBuckets : Clean(r.ports[b], r.services[b])
  /\ Clean(r.banners, r.banners_ports)

LEMMA SyncFields ==
  ASSUME NEW r \in Results
  PROVE  LET s == SyncAndDeduplicate(r)
         IN  /\ s \in Results /\ SyncedBuckets \subseteq Buckets
             /\ \A b \in SyncedBuckets :
                  /\ s.ports[b] = At(r.ports[b], Kept(r.ports[b], r.services[b]))
                  /\ s.services[b] = At(r.services[b], Kept(r.ports[b], r.services[b]))
             /\ \A b \in Buckets \ SyncedBuckets :
                  s.ports[b] = r.ports[b] /\ s.services[b] = r.services[b]
             /\ s.banners = At(r.banners, Kept(r.banners, r.banners_ports))
             /\ s.banners_ports = At(r.banners_ports, Kept(r.banners, r.banners_ports))
             /\ \A b \in Buckets : r.ports[b] \in Seq(Ports) /\ r.services[b] \in Seq(Services)
             /\ r.banners \in Seq(Texts) /\ r.banners_ports \in Seq(Ports)
<1>1. SyncedBuckets \subseteq Buckets
  BY DEF SyncedBuckets, Buckets, PORT_TO_SERVICES
<1>2. SyncAndDeduplicate(r) \in Results
  BY SyncAndDeduplicateType
<1>3. /\ \A b \in Buckets : r.ports[b] \in Seq(Ports) /\ r.services[b] \in Seq(Services)
      /\ r.banners \in Seq(Texts) /\ r.banners_ports \in Seq(Ports)
  BY DEF Results
<1> QED
  BY <1>1, <1>2, <1>3 DEF SyncAndDeduplicate

LEMMA SyncClean ==
  ASSUME NEW r \in Results
  PROVE  CleanRecord(SyncAndDeduplicate(r))
<1> DEFINE s == SyncAndDeduplicate(r)
<1>1. ASSUME NEW b \in SyncedBuckets PROVE Clean(s.ports[b], s.services[b])
  BY SyncFields, PickedClean
<1>2. Clean(s.banners, s.banners_ports)
  BY SyncFields, PickedClean
<1> QED
  BY <1>1, <1>2 DEF CleanRecord

\* A target printed twice: the second normalisation changes nothing.
LEMMA SyncFixed ==
  ASSUME NEW r \in Results, CleanRecord(r)
  PROVE  SyncAndDeduplicate(r) = r
<1> DEFINE s == SyncAndDeduplicate(r)
<1>1. ASSUME NEW b \in Buckets
      PROVE  s.ports[b] = r.ports[b] /\ s.services[b] = r.services[b]
  <2>1. CASE b \in SyncedBuckets
    <3>1. /\ s.ports[b] = At(r.ports[b], Kept(r.ports[b], r.services[b]))
          /\ s.services[b] = At(r.services[b], Kept(r.ports[b], r.services[b]))
          /\ r.ports[b] \in Seq(Ports) /\ r.services[b] \in Seq(Services)
          /\ Clean(r.ports[b], r.services[b])
      BY <2>1, SyncFields DEF CleanRecord
    <3> QED
      BY <3>1, CleanFixed
  <2>2. CASE b \notin SyncedBuckets
    BY <2>2, SyncFields
  <2> QED
    BY <2>1, <2>2
<1>2. s.banners = r.banners /\ s.banners_ports = r.banners_ports
  BY SyncFields, CleanFixed DEF CleanRecord
<1>3. s \in Results
  BY SyncFields
<1> HIDE DEF s
<1>4. s.ports = r.ports /\ s.services = r.services
  <2>1. /\ s.ports = [b \in Buckets |-> s.ports[b]] /\ r.ports = [b \in Buckets |-> r.ports[b]]
        /\ s.services = [b \in Buckets |-> s.services[b]]
        /\ r.services = [b \in Buckets |-> r.services[b]]
    BY <1>3 DEF Results
  <2> QED
    BY <1>1, <2>1
<1>5. s = r
  BY <1>2, <1>3, <1>4 DEF Results
<1> QED
  BY <1>5 DEF s

\* zip stops at the shorter list: no port is lost that has a service.
LEMMA SyncKeeps ==
  ASSUME NEW r \in Results, NEW b \in Buckets, Len(r.ports[b]) <= Len(r.services[b])
  PROVE  /\ Recorded(SyncAndDeduplicate(r), b) = Recorded(r, b)
         /\ Len(SyncAndDeduplicate(r).ports[b]) <= Len(SyncAndDeduplicate(r).services[b])
<1> DEFINE s == SyncAndDeduplicate(r)
<1>1. CASE b \in SyncedBuckets
  <2> DEFINE keys == r.ports[b]
             values == r.services[b]
  <2>1. /\ keys \in Seq(Ports) /\ values \in Seq(Services)
        /\ s.ports[b] = At(keys, Kept(keys, values))
        /\ s.services[b] = At(values, Kept(keys, values))
    BY <1>1, SyncFields
  <2>2. s \in Results /\ s.ports[b] \in Seq(Ports) /\ s.services[b] \in Seq(Services)
    BY SyncFields DEF Results
  <2>3. DOMAIN keys \subseteq DOMAIN values
    <3>1. Len(keys) \in Nat /\ Len(values) \in Nat
          /\ DOMAIN keys = 1..Len(keys) /\ DOMAIN values = 1..Len(values)
      BY <2>1
    <3> QED
      BY <3>1
  <2> HIDE DEF keys, values
  <2>4. \A i \in DOMAIN keys : \E k \in DOMAIN At(keys, Kept(keys, values)) :
          At(keys, Kept(keys, values))[k] = keys[i]
    BY <2>1, <2>3, PickedAll
  <2>5. Recorded(r, b) \subseteq Recorded(s, b)
    BY <2>1, <2>4 DEF Recorded, keys
  <2>6. Recorded(s, b) \subseteq Recorded(r, b)
    BY SyncAndDeduplicateType
  <2>7. Clean(s.ports[b], s.services[b])
    BY <1>1, SyncClean DEF CleanRecord
  <2> HIDE DEF s
  <2>8. Len(s.ports[b]) <= Len(s.services[b])
    BY <2>2, <2>7 DEF Clean
  <2> QED
    BY <2>5, <2>6, <2>8 DEF s
<1>2. CASE b \notin SyncedBuckets
  BY <1>2, SyncFields DEF Recorded
<1> QED
  BY <1>1, <1>2

\* Lists of equal length stay so.
LEMMA SyncEvens ==
  ASSUME NEW r \in Results, NEW b \in Buckets, Len(r.ports[b]) = Len(r.services[b])
  PROVE  /\ Recorded(SyncAndDeduplicate(r), b) = Recorded(r, b)
         /\ Len(SyncAndDeduplicate(r).ports[b]) = Len(SyncAndDeduplicate(r).services[b])
<1> DEFINE s == SyncAndDeduplicate(r)
<1>1. Len(r.services[b]) \in Nat
  BY DEF Results
<1>2. Recorded(s, b) = Recorded(r, b)
  BY <1>1, SyncKeeps
<1>3. CASE b \in SyncedBuckets
  BY <1>2, <1>3, SyncClean DEF CleanRecord, Clean
<1>4. CASE b \notin SyncedBuckets
  BY <1>2, <1>4, SyncFields
<1> QED
  BY <1>3, <1>4

\* Port by port the services are those of the ports.
Aligned(r, b) ==
  \A i \in DOMAIN r.ports[b] \cap DOMAIN r.services[b] :
    r.services[b][i].port = r.ports[b][i]

LEMMA SyncAligned ==
  ASSUME NEW r \in Results, NEW b \in Buckets, Aligned(r, b)
  PROVE  Aligned(SyncAndDeduplicate(r), b)
<1> DEFINE s == SyncAndDeduplicate(r)
           f == Kept(r.ports[b], r.services[b])
           n == Cardinality(FirstSeen(r.ports[b], r.services[b]))
<1>1. CASE b \in SyncedBuckets
  <2>1. /\ r.ports[b] \in Seq(Ports) /\ r.services[b] \in Seq(Services)
        /\ s.ports[b] = At(r.ports[b], f) /\ s.services[b] = At(r.services[b], f)
    BY <1>1, SyncFields
  <2>2. /\ n \in Nat /\ DOMAIN f = 1..n
        /\ \A k \in 1..n : /\ f[k] \in DOMAIN r.ports[b]
                           /\ f[k] \in DOMAIN r.services[b]
    BY <2>1, KeptType
  <2> HIDE DEF f, n, s
  <2>3. \A k \in DOMAIN f : /\ s.ports[b][k] = r.ports[b][f[k]]
                            /\ s.services[b][k] = r.services[b][f[k]]
    BY <2>1 DEF At
  <2>4. DOMAIN s.ports[b] = DOMAIN f
    BY <2>1 DEF At
  <2> QED
    BY <2>2, <2>3, <2>4 DEF Aligned, s
<1>2. CASE b \notin SyncedBuckets
  BY <1>2, SyncFields DEF Aligned
<1> QED
  BY <1>1, <1>2

\* A list without repetitions has as many elements as its length.
LEMMA CleanCounts ==
  ASSUME NEW S, NEW keys \in Seq(S), NEW values, Clean(keys, values)
  PROVE  Cardinality({keys[i] : i \in DOMAIN keys}) = Len(keys)
<1> DEFINE n == Len(keys)
           R == {keys[i] : i \in DOMAIN keys}
<1>1. n \in Nat /\ DOMAIN keys = 1..n /\ IsFiniteSet(1..n) /\ Cardinality(1..n) = n
  <2>1. n \in Nat /\ DOMAIN keys = 1..n
    OBVIOUS
  <2> HIDE DEF n
  <2> QED
    BY <2>1, FS_Interval
<1>2. keys \in [1..n -> R] /\ \A y \in R : \E i \in 1..n : keys[i] = y
  BY <1>1
<1>3. keys \in Surjection(1..n, R)
  BY <1>2 DEF Surjection
<1>4. keys \in Injection(1..n, R)
  BY <1>1, <1>2 DEF Injection, IsInjective, Clean
<1> HIDE DEF R
<1> QED
  BY <1>1, <1>3, <1>4, FS_Surjection DEF R

-----------------------------------------------------------------------------
(* The appends *)

\* The appends give a record again, and record one port more or none.
LEMMA AppendPortType ==
  ASSUME NEW r \in Results, NEW b \in Buckets, NEW p \in Ports
  PROVE  /\ AppendPort(r, b, p) \in Results
         /\ \A c \in Buckets : Recorded(AppendPort(r, b, p), c) =
              Recorded(r, c) \cup (IF c = b THEN {p} ELSE {})
<1> DEFINE ports == [r.ports EXCEPT ![b] = Append(r.ports[b], p)]
<1>1. ports \in [Buckets -> Seq(Ports)]
  BY DEF Results
<1>2. AppendPort(r, b, p) = [r EXCEPT !.ports = ports]
  BY DEF AppendPort
<1>3. AppendPort(r, b, p) \in Results /\ AppendPort(r, b, p).ports = ports
  BY <1>1, <1>2 DEF Results
<1>4. ASSUME NEW c \in Buckets
      PROVE Recorded(AppendPort(r, b, p), c) =
              Recorded(r, c) \cup (IF c = b THEN {p} ELSE {})
  <2>1. CASE c = b
    <3> DEFINE q == r.ports[c]
    <3>1. q \in Seq(Ports) /\ AppendPort(r, b, p).ports[c] = Append(q, p)
      BY <1>3, <2>1 DEF Results
    <3>2. /\ Recorded(r, c) = {q[i] : i \in DOMAIN q}
          /\ Recorded(AppendPort(r, b, p), c) =
               {Append(q, p)[i] : i \in DOMAIN Append(q, p)}
      BY <3>1 DEF Recorded
    <3> HIDE DEF q
    <3>3. {Append(q, p)[i] : i \in DOMAIN Append(q, p)} =
            {q[i] : i \in DOMAIN q} \cup {p}
      BY <3>1, AppendElements
    <3> QED
      BY <3>2, <3>3, <2>1
  <2>2. CASE c # b
    <3>1. AppendPort(r, b, p).ports[c] = r.ports[c]
      BY <1>3, <2>2 DEF Results
    <3> QED
      BY <3>1, <2>2 DEF Recorded
  <2> QED
    BY <2>1, <2>2
<1> QED
  BY <1>3, <1>4

LEMMA AppendServiceType ==
  ASSUME NEW r \in Results, NEW b \in Buckets, NEW s \in Services
  PROVE  /\ AppendService(r, b, s) \in Results
         /\ \A c \in Buckets : Recorded(AppendService(r, b, s), c) = Recorded(r, c)
<1> DEFINE services == [r.services EXCEPT ![b] = Append(r.services[b], s)]
<1>1. services \in [Buckets -> Seq(Services)]
  BY DEF Results
<1>2. AppendService(r, b, s) = [r EXCEPT !.services = services]
  BY DEF AppendService
<1>3. AppendService(r, b, s) \in Results /\ AppendService(r, b, s).ports = r.ports
  BY <1>1, <1>2 DEF Results
<1> QED
  BY <1>3 DEF Recorded

LEMMA AppendBannerType ==
  ASSUME NEW r \in Results, NEW x \in Texts, NEW p \in Ports
  PROVE  /\ AppendBanner(r, x, p) \in Results
         /\ \A c \in Buckets : Recorded(AppendBanner(r, x, p), c) = Recorded(r, c)
<1>1. Append(r.banners, x) \in Seq(Texts) /\ Append(r.banners_ports, p) \in Seq(Ports)
  BY DEF Results
<1>2. AppendBanner(r, x, p) \in Results /\ AppendBanner(r, x, p).ports = r.ports
  BY <1>1 DEF AppendBanner, Results
<1> QED
  BY <1>2 DEF Recorded

LEMMA TableIsService ==
  ASSUME NEW p \in Ports
  PROVE  /\ Table(p) \in Services /\ Table(p).port = p
         /\ Banner(p) \in Services /\ Banner(p).port = p
  BY DEF Table, Banner, Services

\* What the appends do to the two lists of a bucket.
LEMMA AppendPortFields ==
  ASSUME NEW r \in Results, NEW b \in Buckets, NEW p \in Ports
  PROVE  /\ AppendPort(r, b, p) \in Results
         /\ AppendPort(r, b, p).services = r.services
         /\ \A c \in Buckets : AppendPort(r, b, p).ports[c] =
              IF c = b THEN Append(r.ports[c], p) ELSE r.ports[c]
<1>1. r.ports \in [Buckets -> Seq(Ports)]
  BY DEF Results
<1> QED
  BY <1>1, AppendPortType DEF AppendPort, Results

LEMMA AppendServiceFields ==
  ASSUME NEW r \in Results, NEW b \in Buckets, NEW s \in Services
  PROVE  /\ AppendService(r, b, s) \in Results
         /\ AppendService(r, b, s).ports = r.ports
         /\ \A c \in Buckets : AppendService(r, b, s).services[c] =
              IF c = b THEN Append(r.services[c], s) ELSE r.services[c]
<1>1. r.services \in [Buckets -> Seq(Services)]
  BY DEF Results
<1> QED
  BY <1>1, AppendServiceType DEF AppendService, Results

LEMMA AppendBannerFields ==
  ASSUME NEW r \in Results, NEW x \in Texts, NEW p \in Ports
  PROVE  /\ AppendBanner(r, x, p) \in Results
         /\ AppendBanner(r, x, p).ports = r.ports
         /\ AppendBanner(r, x, p).services = r.services
  BY AppendBannerType DEF AppendBanner, Results

LEMMA AppendLen ==
  ASSUME NEW R, NEW q \in Seq(R), NEW p \in R
  PROVE  Len(q) \in Nat /\ Len(Append(q, p)) = Len(q) + 1
  BY AppendProperties

-----------------------------------------------------------------------------
(* Lists that grow side by side *)

\* Two lists of which each service is that of the port beside it, and two lists of which
\* the last port waits for its service.
Twin(q, v) == Len(q) = Len(v) /\ \A i \in DOMAIN q : v[i].port = q[i]
Behind(q, v, p) == \E q0 \in Seq(Ports) : q = Append(q0, p) /\ Twin(q0, v)

\* A service appended for the last port makes the lists twins, whether it comes with the
\* port or after it.
LEMMA TwinAppend ==
  ASSUME NEW q \in Seq(Ports), NEW v \in Seq(Services), Twin(q, v),
         NEW p \in Ports, NEW x \in Services, x.port = p
  PROVE  Twin(Append(q, p), Append(v, x))
<1> DEFINE n == Len(q)
<1>1. /\ n \in Nat /\ Len(v) = n /\ DOMAIN q = 1..n
      /\ Len(Append(q, p)) = n + 1 /\ Len(Append(v, x)) = n + 1
      /\ DOMAIN Append(q, p) = 1..(n + 1)
      /\ Append(q, p)[n + 1] = p /\ Append(v, x)[n + 1] = x
      /\ \A i \in 1..n : Append(q, p)[i] = q[i] /\ Append(v, x)[i] = v[i]
  BY AppendProperties DEF Twin
<1>2. \A i \in 1..(n + 1) : i \in 1..n \/ i = n + 1
  BY <1>1
<1>3. \A i \in 1..n : v[i].port = q[i]
  BY <1>1 DEF Twin
<1> HIDE DEF n
<1>4. ASSUME NEW i \in 1..(n + 1) PROVE Append(v, x)[i].port = Append(q, p)[i]
  BY <1>1, <1>2, <1>3
<1> QED
  BY <1>1, <1>4 DEF Twin

\* The clean-up of the report picks the services with the ports.
LEMMA SyncTwin ==
  ASSUME NEW r \in Results, NEW b \in Buckets, Twin(r.ports[b], r.services[b])
  PROVE  Twin(SyncAndDeduplicate(r).ports[b], SyncAndDeduplicate(r).services[b])
<1> DEFINE s == SyncAndDeduplicate(r)
<1>1. CASE b \in SyncedBuckets
  <2>1. Aligned(r, b)
    BY DEF Aligned, Twin
  <2>2. Aligned(s, b) /\ Clean(s.ports[b], s.services[b])
    BY <1>1, <2>1, SyncAligned, SyncClean DEF CleanRecord
  <2>3. s.ports[b] \in Seq(Ports) /\ s.services[b] \in Seq(Services)
    BY SyncFields DEF Results
  <2> HIDE DEF s
  <2>4. DOMAIN s.ports[b] = DOMAIN s.services[b]
    BY <2>2, <2>3 DEF Clean
  <2>5. Len(s.ports[b]) = Len(s.services[b])
    BY <2>2 DEF Clean
  <2> QED
    BY <2>2, <2>4, <2>5 DEF Aligned, Twin, s
<1>2. CASE b \notin SyncedBuckets
  BY <1>2, SyncFields
<1> QED
  BY <1>1, <1>2

-----------------------------------------------------------------------------
(* The jobs of a scan *)

\* The nested loops run over positions of the two lists.
LEMMA LoopPosition ==
  ASSUME NEW L \in Nat, NEW M \in Nat, NEW n \in 1..(L * M)
  PROVE  /\ ((n - 1) \div M) + 1 \in 1..L
         /\ ((n - 1) % M) + 1 \in 1..M
<1>1. M > 0
  <2>1. CASE M = 0
    BY <2>1
  <2> QED
    BY <2>1
<1> DEFINE q == (n - 1) \div M
           x == (n - 1) % M
<1>2. /\ q \in Int /\ x \in 0..(M - 1)
      /\ n - 1 = M * q + x
  BY <1>1
<1>3. q >= 0
  BY <1>1, <1>2
<1>4. q < L
  <2>1. SUFFICES ASSUME q >= L PROVE FALSE
    BY <1>2
  <2> HIDE DEF q, x
  <2>2. M * q >= M * L
    BY <1>1, <1>2, <2>1
  <2>3. n - 1 >= M * L
    BY <1>2, <2>2
  <2> QED
    BY <2>3
<1> QED
  BY <1>2, <1>3, <1>4
=============================================================================
